SPECIFICATION LabelSpec
CONSTANTS
    Jobs = {j1, j2}
    Slots = {w1}
    Idle = Idle
    MaxAttempts = 2
    MaxStalls = 1
    KeepCompleted = 1
    KeepFailed = 1
    AddState = "delayed"
    Tries = 2
SYMMETRY Symmetry
INVARIANTS CallBudget UnlabelledIsExcused
