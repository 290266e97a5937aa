SPECIFICATION FairSpec
CONSTANTS
    Jobs = {j1, j2}
    Slots = {w1, w2}
    Idle = Idle
    MaxAttempts = 2
    MaxStalls = 1
    KeepCompleted = 1
    KeepFailed = 1
    AddState = "waiting"
INVARIANTS TypeOK OneSlotPerJob RetentionBounded BudgetLeft
PROPERTIES  JobSettles
