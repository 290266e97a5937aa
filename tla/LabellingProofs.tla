--------------------------- MODULE LabellingProofs ---------------------------
(***************************************************************************)
(* Theorems about Labelling, for any number of videos, workers, attempts   *)
(* and tries: what a record may cost the classifier, and what a job that   *)
(* succeeds has done.                                                      *)
(***************************************************************************)
EXTENDS Labelling, JobQueueProofs

\* A slot has a job exactly while its processor is at work.
Working == \A w \in Slots : worker[w].pc = "idle" <=> slot[w] = Idle

\* The calls `times` attempts may make.
Cost(times) == Tries * times

\* The attempts of j that have ended, by a failure or by a crash.
Ended(j) == job[j].attempts + job[j].stalls

\* The calls the present attempt on slot w may have made.
Spent(w) == IF worker[w].pc \in {"look", "ask"} THEN worker[w].tries ELSE Tries

\* A record has made no more calls than its attempts allow, and the job of a slot
\* no more than the attempt has.
Charged ==
    /\ \A j \in Jobs :
          /\ calls[j] <= Cost(MaxAttempts + MaxStalls)
          /\ job[j].state \in {"waiting", "delayed"} => calls[j] <= Cost(Ended(j))
          /\ job[j].state = "active" => calls[j] <= Cost(Ended(j) + 1)
    /\ \A w \in Slots :
          /\ worker[w].pc = "look" => worker[w].tries = 0
          /\ worker[w].pc = "ask" => worker[w].tries < Tries
    /\ \A w \in Slots, j \in Jobs : slot[w] = j =>
          calls[j] <= Cost(Ended(j)) + Spent(w)

\* What ends, or is about to end, as a success has a label or an excuse.
Accounted ==
    /\ \A j \in Jobs : job[j].state = "completed" => j \in labelled \cup excused
    /\ \A w \in Slots : worker[w].pc = "done" => slot[w] \in labelled \cup excused

\* The inductive invariant; that of the queue is part of it.
LInv == IInv /\ LabelTypeOK /\ Working /\ Charged /\ Accounted

-----------------------------------------------------------------------------
LEMMA CostGrows ==
    /\ \A n \in Nat : Cost(n) \in Nat /\ Cost(n + 1) = Cost(n) + Tries
    /\ \A m, n \in Nat : m <= n => Cost(m) <= Cost(n)
    /\ Cost(0) = 0
<1> USE LabellingAssumption
<1>1. ASSUME NEW n \in Nat PROVE Cost(n) \in Nat /\ Cost(n + 1) = Cost(n) + Tries
  BY DEF Cost
<1>2. ASSUME NEW m \in Nat, NEW n \in Nat, m <= n PROVE Cost(m) <= Cost(n)
  <2>1. n - m \in Nat /\ Tries * (n - m) \in Nat
    BY <1>2
  <2>2. Tries * n = Tries * m + Tries * (n - m)
    BY <1>2
  <2>3. Tries * m \in Nat /\ Tries * n \in Nat
    OBVIOUS
  <2> QED
    BY <2>1, <2>2, <2>3 DEF Cost
<1>3. Cost(0) = 0
  BY DEF Cost
<1> QED
  BY <1>1, <1>2, <1>3

\* What the invariant of the queue says of one job and of one slot.
LEMMA JobHolds ==
    ASSUME IInv, NEW j \in Jobs
    PROVE  /\ job[j] \in JobRecord
           /\ job[j].attempts \in Nat /\ job[j].stalls \in Nat /\ Ended(j) \in Nat
           /\ job[j].state \in Pending => Ended(j) + 1 <= MaxAttempts + MaxStalls
<1>1. /\ job[j] \in JobRecord
      /\ job[j].attempts \in Nat /\ job[j].stalls \in Nat
  BY JobQueueAssumption DEF IInv, TypeOK, JobRecord
<1>2. job[j].state \in Pending => job[j].attempts < MaxAttempts /\ job[j].stalls <= MaxStalls
  BY DEF IInv, BudgetLeft
<1> QED
  BY <1>1, <1>2, JobQueueAssumption DEF Ended

LEMMA SlotHolds ==
    ASSUME IInv, NEW w \in Slots, slot[w] # Idle
    PROVE  /\ slot[w] \in Jobs /\ job[slot[w]].state = "active"
           /\ \A x \in Slots : slot[x] = slot[w] => x = w
BY DEF IInv, TypeOK, OneSlotPerJob

LEMMA NoJobHolds ==
    /\ NoJob \in JobRecord /\ NoJob.state = "none"
    /\ NoJob.attempts = 0 /\ NoJob.stalls = 0
BY RecordType, JobQueueAssumption DEF NoJob

\* What becomes of the jobs when a slot's job ends.
LEMMA SlotEnds ==
    ASSUME IInv, NEW w \in Slots, Complete(w) \/ Fail(w), NEW j \in Jobs, slot[w] = j
    PROVE  /\ slot' = [slot EXCEPT ![w] = Idle]
           /\ \A i \in Jobs \ {j} : job'[i] \in {job[i], NoJob}
           /\ \A i \in Jobs \ {j} : job[i].state = "active" => job'[i] = job[i]
           /\ job[j].state = "active"
           /\ \/ job'[j].state \in {"none", "failed"}
              \/ job'[j].state = "completed" /\ Complete(w)
              \/ job'[j].state = "delayed" /\ Ended(j)' = Ended(j) + 1
<1>1. j \in Jobs /\ slot[w] # Idle /\ job[j].state = "active"
      /\ slot' = [slot EXCEPT ![w] = Idle]
  BY SlotHolds DEF Complete, Fail
<1>2. /\ job \in [Jobs -> JobRecord] /\ job[j] \in JobRecord
      /\ job[j].attempts \in 0 .. MaxAttempts /\ job[j].stalls \in 0 .. MaxStalls + 1
      /\ job[j].attempts + 1 \in 0 .. MaxAttempts
      /\ job[j].attempts \in Nat /\ job[j].stalls \in Nat
  BY <1>1, JobQueueAssumption DEF IInv, TypeOK, BudgetLeft, JobRecord, Pending
<1>3. ASSUME NEW record \in JobRecord, NEW keep, record.state \in Finished,
             Finish(j, record, keep)
      PROVE  /\ \A i \in Jobs \ {j} : job'[i] \in {job[i], NoJob}
             /\ \A i \in Jobs \ {j} : job[i].state = "active" => job'[i] = job[i]
             /\ job'[j].state \in {"none", record.state}
  <2>1. /\ \A i \in Jobs : i # j /\ job[i].state # record.state => job'[i] = job[i]
        /\ \A i \in Jobs : i # j => job'[i] \in {job[i], NoJob}
        /\ job'[j] \in {record, NoJob}
    BY <1>1, <1>3, FinishKeepsRecords DEF IInv
  <2> QED
    BY <1>3, <2>1, NoJobHolds DEF Finished
<1>4. CASE Complete(w)
  <2> DEFINE record == Moved(j, "completed")
  <2>1. record \in JobRecord /\ record.state = "completed"
    BY <1>2, RecordType DEF Moved, Finished
  <2>2. Finish(j, record, KeepCompleted)
    BY <1>4 DEF Complete
  <2> HIDE DEF record
  <2>3. /\ \A i \in Jobs \ {j} : job'[i] \in {job[i], NoJob}
        /\ \A i \in Jobs \ {j} : job[i].state = "active" => job'[i] = job[i]
        /\ job'[j].state \in {"none", "completed"}
    BY <1>3, <2>1, <2>2 DEF Finished
  <2> QED
    BY <1>1, <1>4, <2>3
<1>5. CASE Fail(w)
  <2> DEFINE made == job[j].attempts + 1
  <2>1. CASE made < MaxAttempts
    <3>1. job' = [job EXCEPT ![j] = Record("delayed", made, job[j].stalls)]
      BY <1>5, <2>1 DEF Fail
    <3>2. job'[j] = Record("delayed", made, job[j].stalls)
          /\ \A i \in Jobs \ {j} : job'[i] = job[i]
      BY <1>1, <1>2, <3>1
    <3>3. /\ job'[j].state = "delayed" /\ job'[j].attempts = made
          /\ job'[j].stalls = job[j].stalls
      BY <3>2 DEF Record
    <3>4. Ended(j)' = Ended(j) + 1
      BY <1>2, <3>3 DEF Ended
    <3> QED
      BY <1>1, <3>2, <3>3, <3>4
  <2>2. CASE ~ (made < MaxAttempts)
    <3> DEFINE record == Record("failed", made, job[j].stalls)
    <3>1. Finish(j, record, KeepFailed)
      BY <1>5, <2>2 DEF Fail
    <3>2. record \in JobRecord /\ record.state = "failed"
      BY <1>2, RecordType DEF Finished
    <3> HIDE DEF record
    <3>3. /\ \A i \in Jobs \ {j} : job'[i] \in {job[i], NoJob}
          /\ \A i \in Jobs \ {j} : job[i].state = "active" => job'[i] = job[i]
          /\ job'[j].state \in {"none", "failed"}
      BY <1>3, <3>1, <3>2 DEF Finished
    <3> QED
      BY <1>1, <3>3
  <2> QED
    BY <2>1, <2>2
<1> QED
  BY <1>4, <1>5

\* A job that fails is not a success.
LEMMA ThrowIsNoSuccess ==
    ASSUME IInv, NEW w \in Slots, Fail(w), NEW j \in Jobs, slot[w] = j
    PROVE  job'[j].state # "completed"
<1> DEFINE made == job[j].attempts + 1
<1>1. job \in [Jobs -> JobRecord]
  BY DEF IInv, TypeOK
<1>2. CASE job' = [job EXCEPT ![j] = Record("delayed", made, job[j].stalls)]
  BY <1>1, <1>2 DEF Record
<1>3. CASE Finish(j, Record("failed", made, job[j].stalls), KeepFailed)
  BY <1>1, <1>3, NoJobHolds DEF Finish, Record
<1> QED
  BY <1>2, <1>3 DEF Fail

\* What becomes of the jobs when a stalled one is found.
LEMMA StalledIsFound ==
    ASSUME IInv, NEW j \in Jobs, RecoverStalled(j)
    PROVE  /\ job[j].state = "active" /\ slot' = slot
           /\ \A w \in Slots : slot[w] # j
           /\ \A i \in Jobs \ {j} : job'[i] \in {job[i], NoJob}
           /\ \A i \in Jobs \ {j} : job[i].state = "active" => job'[i] = job[i]
           /\ \/ job'[j].state \in {"none", "failed"}
              \/ job'[j].state = "waiting" /\ Ended(j)' = Ended(j) + 1
<1> DEFINE stalls == job[j].stalls + 1
<1>1. /\ job[j].state = "active" /\ slot' = slot
      /\ \A w \in Slots : slot[w] # j
  BY DEF RecoverStalled, Held
<1>2. /\ job \in [Jobs -> JobRecord]
      /\ job[j].attempts \in 0 .. MaxAttempts /\ stalls \in 0 .. MaxStalls + 1
      /\ job[j].attempts \in Nat /\ job[j].stalls \in Nat
  BY <1>1, JobHolds, JobQueueAssumption DEF IInv, TypeOK, BudgetLeft, JobRecord, Pending
<1>3. CASE stalls > MaxStalls
  <2> DEFINE record == Record("failed", job[j].attempts, stalls)
  <2>1. Finish(j, record, KeepFailed)
    BY <1>3 DEF RecoverStalled
  <2>2. record \in JobRecord /\ record.state = "failed"
    BY <1>2, RecordType DEF Finished
  <2> HIDE DEF record
  <2>3. /\ \A i \in Jobs : i # j /\ job[i].state # "failed" => job'[i] = job[i]
        /\ \A i \in Jobs : i # j => job'[i] \in {job[i], NoJob}
        /\ job'[j] \in {record, NoJob}
    BY <2>1, <2>2, FinishKeepsRecords DEF IInv, Finished
  <2> QED
    BY <1>1, <2>2, <2>3, NoJobHolds
<1>4. CASE ~ (stalls > MaxStalls)
  <2>1. job' = [job EXCEPT ![j] = Record("waiting", job[j].attempts, stalls)]
    BY <1>4 DEF RecoverStalled
  <2>2. job'[j] = Record("waiting", job[j].attempts, stalls)
        /\ \A i \in Jobs \ {j} : job'[i] = job[i]
    BY <1>2, <2>1
  <2>3. /\ job'[j].state = "waiting" /\ job'[j].attempts = job[j].attempts
        /\ job'[j].stalls = stalls
    BY <2>2 DEF Record
  <2>4. Ended(j)' = Ended(j) + 1
    BY <1>2, <2>3 DEF Ended
  <2> QED
    BY <1>1, <2>2, <2>3, <2>4
<1> QED
  BY <1>3, <1>4

-----------------------------------------------------------------------------
(* The parts of the invariant, step by step. *)

\* The history of calls stands, and no job has a narrower budget than before.
LEMMA ChargedKept ==
    ASSUME IInv, LInv, calls' = calls,
           \A j \in Jobs :
              \/ job'[j] = job[j]
              \/ job'[j].state \notin {"waiting", "delayed", "active"}
              \/ /\ job'[j].state \in {"waiting", "delayed"}
                 /\ job[j].state \in {"waiting", "delayed"}
                 /\ Ended(j)' = Ended(j)
              \/ /\ job'[j].state \in {"waiting", "delayed"}
                 /\ job[j].state = "active"
                 /\ Ended(j)' = Ended(j) + 1,
           \A w \in Slots : slot'[w] # Idle =>
              /\ slot'[w] = slot[w]
              /\ job'[slot[w]] = job[slot[w]],
           \A w \in Slots : worker'[w] = worker[w] \/ (slot'[w] = Idle /\ worker'[w] = NoWork)
    PROVE  Charged'
<1>1. Charged
  BY DEF LInv
<1>2. \A j \in Jobs : job'[j] = job[j] => Ended(j)' = Ended(j)
  BY DEF Ended
<1>3. ASSUME NEW j \in Jobs
      PROVE  /\ calls'[j] <= Cost(MaxAttempts + MaxStalls)
             /\ job'[j].state \in {"waiting", "delayed"} => calls'[j] <= Cost(Ended(j)')
             /\ job'[j].state = "active" => calls'[j] <= Cost(Ended(j)' + 1)
  <2>1. /\ calls[j] <= Cost(MaxAttempts + MaxStalls)
        /\ job[j].state \in {"waiting", "delayed"} => calls[j] <= Cost(Ended(j))
        /\ job[j].state = "active" => calls[j] <= Cost(Ended(j) + 1)
    BY <1>1 DEF Charged
  <2> QED
    BY <1>2, <2>1
<1>4. ASSUME NEW w \in Slots
      PROVE  /\ worker'[w].pc = "look" => worker'[w].tries = 0
             /\ worker'[w].pc = "ask" => worker'[w].tries < Tries
  BY <1>1, <1>4 DEF Charged, NoWork
<1>5. ASSUME NEW w \in Slots, NEW j \in Jobs, slot'[w] = j
      PROVE  calls'[j] <= Cost(Ended(j)') + Spent(w)'
  <2>1. slot[w] = j /\ job'[j] = job[j] /\ worker'[w] = worker[w]
    <3>1. slot'[w] # Idle
      BY <1>5, JobQueueAssumption
    <3> QED
      BY <1>5, <3>1
  <2>2. Ended(j)' = Ended(j) /\ Spent(w)' = Spent(w)
    BY <2>1 DEF Ended, Spent
  <2> QED
    BY <1>1, <2>1, <2>2 DEF Charged
<1> QED
  BY <1>3, <1>4, <1>5 DEF Charged, Cost

\* Every step is a step of the queue, or leaves it alone.
LEMMA QueueKept ==
    ASSUME LInv, [LabelNext]_labelVars
    PROVE  IInv'
<1>1. CASE UNCHANGED vars
  BY <1>1, NextIInv DEF LInv
<1>2. CASE \E j \in Jobs : AddLabelJob(j)
  BY <1>2, NextIInv DEF AddLabelJob, Next, LInv
<1>3. CASE \E w \in Slots : WorkerTake(w)
  <2>1. \E w \in Slots : \E j \in Jobs : Take(w, j)
    BY <1>3 DEF WorkerTake
  <2> QED
    BY <2>1, NextIInv DEF Next, LInv
<1>4. CASE \E w \in Slots : WorkerReturn(w) \/ WorkerThrows(w)
  BY <1>4, NextIInv DEF WorkerReturn, WorkerThrows, Next, LInv
<1>5. CASE LabelTimers
  BY <1>5, NextIInv DEF LabelTimers, Next, LInv
<1>6. CASE LabelCrash
  BY <1>6, NextIInv DEF LabelCrash, Next, LInv
<1>7. BackfillAdd => \E j \in Jobs : AddLabelJob(j)
  BY DEF BackfillAdd, LInv, LabelTypeOK, BackfillState
<1> QED
  BY <1>1, <1>2, <1>3, <1>4, <1>5, <1>6, <1>7
  DEF LabelNext, labelVars, StoreVideo, DropVideo, Ask, BackfillScan, BackfillCall,
      BackfillSave, WorkerStep, WorkerLook, WorkerAsk, WorkerSave

\* The tables and the batches of a backfill.
LEMMA TablesKeepLInv ==
    ASSUME LInv, IInv',
           \/ \E j \in Jobs : StoreVideo(j) \/ DropVideo(j)
           \/ BackfillScan \/ BackfillCall \/ BackfillSave
    PROVE  LInv'
<1>1. /\ job' = job /\ slot' = slot /\ worker' = worker /\ calls' = calls
      /\ labelled \cup excused \subseteq labelled' \cup excused'
      /\ excused' \subseteq Jobs
  BY DEF StoreVideo, DropVideo, BackfillScan, BackfillCall, BackfillSave, vars, historyVars,
         tableVars, LInv, LabelTypeOK
<1>2. stored' \subseteq Jobs /\ labelled' \subseteq stored'
  BY DEF StoreVideo, DropVideo, BackfillScan, BackfillCall, BackfillSave, tableVars,
         LInv, LabelTypeOK
<1>3. backfill' \in BackfillState
  BY DEF StoreVideo, DropVideo, BackfillScan, BackfillCall, BackfillSave, BackfillGoes,
         NoBackfill, BackfillState, LInv, LabelTypeOK
<1>4. LabelTypeOK' /\ Working' /\ Accounted'
  BY <1>1, <1>2, <1>3 DEF LInv, LabelTypeOK, Working, Accounted, IInv
<1>5. Charged'
  BY <1>1, ChargedKept DEF LInv
<1> QED
  BY <1>4, <1>5 DEF LInv

\* What fills the queue: a record that starts afresh has made no calls and has no
\* excuse, and one that is there stays as it is.
LEMMA AddKeepsLInv ==
    ASSUME LInv, IInv', NEW j \in Jobs, AddLabelJob(j),
           UNCHANGED <<tableVars, worker>>, backfill' \in BackfillState
    PROVE  LInv'
<1>1. /\ IInv /\ Charged /\ Accounted /\ LabelTypeOK
      /\ slot' = slot /\ worker' = worker /\ stored' = stored /\ labelled' = labelled
  BY DEF LInv, AddLabelJob, Add, tableVars
<1>2. CASE job[j] # NoJob
  <2>1. job' = job /\ calls' = calls /\ excused' = excused
    BY <1>2 DEF AddLabelJob, Add, historyVars
  <2>2. Charged'
    BY <1>1, <2>1, ChargedKept
  <2> QED
    BY <1>1, <2>1, <2>2 DEF LInv, LabelTypeOK, Working, Accounted, IInv
<1>3. CASE job[j] = NoJob
  <2>1. /\ calls' = [calls EXCEPT ![j] = 0] /\ excused' = excused \ {j}
        /\ job' = [job EXCEPT ![j] = Record("delayed", 0, 0)]
    BY <1>3, NoJobHolds, LabellingAssumption DEF AddLabelJob, Add, Moved
  <2>2. /\ job'[j].state = "delayed" /\ job'[j].attempts = 0 /\ job'[j].stalls = 0
        /\ \A i \in Jobs \ {j} : job'[i] = job[i] /\ calls'[i] = calls[i]
        /\ calls'[j] = 0
    BY <1>1, <2>1 DEF Record, IInv, TypeOK, LabelTypeOK
  <2>3. \A w \in Slots : slot[w] # j
    BY <1>1, <1>3, NoJobHolds, JobQueueAssumption, SlotHolds
  <2>4. Ended(j)' = 0 /\ \A i \in Jobs \ {j} : Ended(i)' = Ended(i)
    BY <2>2 DEF Ended
  <2>5. Charged'
    <3>1. Cost(MaxAttempts + MaxStalls) \in Nat /\ Cost(0) = 0
      BY CostGrows, JobQueueAssumption
    <3>2. \A i \in Jobs :
             /\ calls'[i] <= Cost(MaxAttempts + MaxStalls)
             /\ job'[i].state \in {"waiting", "delayed"} => calls'[i] <= Cost(Ended(i)')
             /\ job'[i].state = "active" => calls'[i] <= Cost(Ended(i)' + 1)
      BY <1>1, <2>2, <2>4, <3>1 DEF Charged
    <3>3. \A w \in Slots, i \in Jobs : slot[w] = i => calls'[i] <= Cost(Ended(i)') + Spent(w)
      BY <1>1, <2>2, <2>3, <2>4 DEF Charged
    <3>4. \A w \in Slots : Spent(w)' = Spent(w)
      BY <1>1 DEF Spent
    <3> QED
      BY <1>1, <3>2, <3>3, <3>4 DEF Charged, Cost
  <2>6. Accounted'
    <3>1. \A w \in Slots : worker[w].pc = "done" => slot[w] # j
      BY <2>3
    <3> QED
      BY <1>1, <2>1, <2>2, <3>1 DEF Accounted
  <2>7. calls' \in [Jobs -> Nat]
    BY <1>1, <2>1 DEF LabelTypeOK
  <2> QED
    BY <1>1, <2>1, <2>5, <2>6, <2>7 DEF LInv, LabelTypeOK, Working, IInv
<1> QED
  BY <1>2, <1>3

\* A job is taken: its attempt has made no call yet.
LEMMA TakeKeepsLInv ==
    ASSUME LInv, IInv', NEW w \in Slots, WorkerTake(w)
    PROVE  LInv'
<1>1. /\ IInv /\ Charged /\ Accounted /\ LabelTypeOK /\ Working
      /\ stored' = stored /\ labelled' = labelled /\ backfill' = backfill
      /\ calls' = calls /\ excused' = excused
  BY DEF LInv, WorkerTake, tableVars, historyVars
<1>2. PICK j \in Jobs : Take(w, j)
  BY DEF WorkerTake
<1> DEFINE new == [pc |-> "look", tries |-> 0]
<1>3. /\ new \in WorkerState /\ new.pc = "look" /\ new.tries = 0
  BY LabellingAssumption DEF WorkerState
<1>4. worker' = [worker EXCEPT ![w] = new]
  BY DEF WorkerTake
<1> HIDE DEF new
<1>5. /\ worker'[w] = new /\ \A x \in Slots \ {w} : worker'[x] = worker[x]
      /\ worker' \in [Slots -> WorkerState]
  BY <1>1, <1>3, <1>4 DEF LabelTypeOK
<1>6. /\ job[j].state = "waiting" /\ slot[w] = Idle
      /\ job' = [job EXCEPT ![j] = Record("active", job[j].attempts, job[j].stalls)]
      /\ slot' = [slot EXCEPT ![w] = j]
  BY <1>2 DEF Take, Moved
<1>7. /\ job'[j].state = "active" /\ Ended(j)' = Ended(j)
      /\ \A i \in Jobs \ {j} : job'[i] = job[i] /\ Ended(i)' = Ended(i)
      /\ slot'[w] = j /\ \A x \in Slots \ {w} : slot'[x] = slot[x]
  BY <1>1, <1>6 DEF Record, IInv, TypeOK, Ended
<1>8. \A x \in Slots : slot[x] # j
  BY <1>1, <1>6, JobQueueAssumption, SlotHolds
<1>9. Charged'
  <2>1. /\ Cost(Ended(j)) \in Nat /\ Cost(Ended(j)) <= Cost(Ended(j) + 1)
        /\ \A i \in Jobs : calls[i] \in Nat
        /\ Cost(Ended(j) + 1) \in Nat
    BY <1>1, CostGrows, JobHolds DEF LabelTypeOK
  <2>2. calls[j] <= Cost(Ended(j))
    BY <1>1, <1>6 DEF Charged
  <2>3. \A i \in Jobs :
           /\ calls[i] <= Cost(MaxAttempts + MaxStalls)
           /\ job'[i].state \in {"waiting", "delayed"} => calls[i] <= Cost(Ended(i)')
           /\ job'[i].state = "active" => calls[i] <= Cost(Ended(i)' + 1)
    BY <1>1, <1>7, <2>1, <2>2 DEF Charged
  <2>4. Spent(w)' = 0 /\ \A x \in Slots \ {w} : Spent(x)' = Spent(x)
    BY <1>3, <1>5 DEF Spent
  <2>5. \A x \in Slots, i \in Jobs : slot'[x] = i => calls[i] <= Cost(Ended(i)') + Spent(x)'
    BY <1>1, <1>7, <1>8, <2>1, <2>2, <2>4 DEF Charged
  <2>6. \A x \in Slots : /\ worker'[x].pc = "look" => worker'[x].tries = 0
                         /\ worker'[x].pc = "ask" => worker'[x].tries < Tries
    BY <1>1, <1>3, <1>5 DEF Charged
  <2> QED
    BY <1>1, <2>3, <2>5, <2>6 DEF Charged, Cost
<1>10. Accounted'
  BY <1>1, <1>3, <1>5, <1>7 DEF Accounted
<1>11. Working'
  BY <1>1, <1>3, <1>5, <1>7, JobQueueAssumption DEF Working
<1> QED
  BY <1>1, <1>5, <1>9, <1>10, <1>11 DEF LInv, LabelTypeOK, IInv

\* process() goes on, its job kept.
LEMMA WorkKeepsLInv ==
    ASSUME LInv, IInv', NEW w \in Slots,
           \/ WorkerLook(w) \/ WorkerAsk(w)
           \/ WorkerSave(w) /\ slot[w] \in stored
    PROVE  LInv'
<1>1. /\ IInv /\ Charged /\ Accounted /\ LabelTypeOK /\ Working
      /\ stored' = stored /\ backfill' = backfill /\ job' = job /\ slot' = slot
  BY DEF LInv, WorkerLook, WorkerAsk, WorkerSave, tableVars, vars
<1>2. PICK j \in Jobs : slot[w] = j
  BY <1>1, SlotHolds DEF WorkerLook, WorkerAsk, WorkerSave, Working
<1>3. /\ worker \in [Slots -> WorkerState] /\ worker[w] \in WorkerState
      /\ worker[w].tries \in 0 .. Tries /\ Tries \in Nat
      /\ calls \in [Jobs -> Nat] /\ labelled \subseteq stored
  BY <1>1, LabellingAssumption DEF LabelTypeOK, WorkerState
<1>4. /\ worker[w].pc = "look" => worker[w].tries = 0
      /\ worker[w].pc = "ask" => worker[w].tries < Tries
      /\ calls[j] <= Cost(Ended(j)) + Spent(w)
      /\ Cost(Ended(j)) \in Nat
      /\ Cost(Ended(j)) + Tries = Cost(Ended(j) + 1)
      /\ Cost(Ended(j) + 1) <= Cost(MaxAttempts + MaxStalls)
      /\ job[j].state = "active"
  <2>1. job[j].state = "active"
    BY <1>1, <1>2, SlotHolds, JobQueueAssumption
  <2>2. Ended(j) \in Nat /\ Ended(j) + 1 <= MaxAttempts + MaxStalls
    BY <1>1, <2>1, JobHolds DEF Pending
  <2>3. Ended(j) + 1 \in Nat /\ MaxAttempts + MaxStalls \in Nat
    BY <2>2, JobQueueAssumption
  <2> QED
    BY <1>1, <1>2, <2>1, <2>2, <2>3, CostGrows DEF Charged
<1>5. \A x \in Slots : slot[x] = j => x = w
  BY <1>1, <1>2, SlotHolds, JobQueueAssumption
<1>6. /\ \E new \in WorkerState :
            /\ worker' = [worker EXCEPT ![w] = new]
            /\ new.pc # "idle"
            /\ new.pc = "look" => new.tries = 0
            /\ new.pc = "ask" => new.tries < Tries
            /\ new.pc = "done" => j \in labelled' \cup excused'
            /\ calls'[j] <= Cost(Ended(j)) +
                  (IF new.pc \in {"look", "ask"} THEN new.tries ELSE Tries)
      /\ calls' \in [Jobs -> Nat] /\ \A i \in Jobs \ {j} : calls'[i] = calls[i]
      /\ labelled' \subseteq stored /\ excused' \subseteq Jobs
      /\ labelled \cup excused \subseteq labelled' \cup excused'
  <2> DEFINE at(pc) == [worker[w] EXCEPT !.pc = pc]
             again == [worker[w] EXCEPT !.tries = worker[w].tries + 1]
  <2>1. \A pc \in {"look", "ask", "save", "done"} :
           at(pc) \in WorkerState /\ at(pc).pc = pc /\ at(pc).tries = worker[w].tries
    BY <1>3 DEF WorkerState
  <2>2. worker[w].tries + 1 < Tries =>
           /\ again \in WorkerState /\ again.pc = worker[w].pc
           /\ again.tries = worker[w].tries + 1
    BY <1>3 DEF WorkerState
  <2>3. CASE WorkerLook(w)
    <3>1. /\ worker[w].pc = "look" /\ calls' = calls /\ labelled' = labelled
          /\ \/ worker' = [worker EXCEPT ![w] = at("ask")] /\ excused' = excused
             \/ worker' = [worker EXCEPT ![w] = at("done")] /\ excused' = excused \cup {j}
      BY <1>2, <2>3 DEF WorkerLook, WorkerGoes, tableVars
    <3> HIDE DEF at
    <3>2. calls[j] <= Cost(Ended(j)) /\ 0 < Tries
      BY <1>3, <1>4, <3>1, LabellingAssumption DEF Spent
    <3> QED
      BY <1>1, <1>3, <1>4, <2>1, <3>1, <3>2 DEF LabelTypeOK
  <2>4. CASE WorkerAsk(w)
    <3>1. /\ worker[w].pc = "ask" /\ labelled' = labelled
          /\ calls' = [calls EXCEPT ![j] = calls[j] + 1]
          /\ \/ /\ worker[w].tries + 1 < Tries
                /\ worker' = [worker EXCEPT ![w] = again] /\ excused' = excused
             \/ worker' = [worker EXCEPT ![w] = at("save")] /\ excused' = excused
             \/ worker' = [worker EXCEPT ![w] = at("done")] /\ excused' = excused \cup {j}
      BY <1>2, <2>4 DEF WorkerAsk, WorkerGoes, tableVars
    <3> HIDE DEF at, again
    <3>2. /\ calls'[j] = calls[j] + 1 /\ calls' \in [Jobs -> Nat]
          /\ \A i \in Jobs \ {j} : calls'[i] = calls[i]
      BY <1>3, <3>1
    <3>3. /\ calls'[j] <= Cost(Ended(j)) + worker[w].tries + 1
          /\ calls'[j] <= Cost(Ended(j)) + Tries
      BY <1>3, <1>4, <3>1, <3>2 DEF Spent
    <3> QED
      BY <1>1, <1>3, <1>4, <2>1, <2>2, <3>1, <3>2, <3>3 DEF LabelTypeOK
  <2>5. CASE WorkerSave(w) /\ slot[w] \in stored
    <3>1. /\ worker[w].pc = "save" /\ calls' = calls /\ excused' = excused
          /\ labelled' = labelled \cup {j} /\ j \in stored
          /\ worker' = [worker EXCEPT ![w] = at("done")]
      BY <1>2, <2>5 DEF WorkerSave, WorkerGoes, historyVars
    <3> HIDE DEF at
    <3> QED
      BY <1>1, <1>3, <1>4, <2>1, <3>1 DEF LabelTypeOK, Spent
  <2> QED
    BY <2>3, <2>4, <2>5
<1>7. PICK new \in WorkerState :
            /\ worker' = [worker EXCEPT ![w] = new]
            /\ new.pc # "idle"
            /\ new.pc = "look" => new.tries = 0
            /\ new.pc = "ask" => new.tries < Tries
            /\ new.pc = "done" => j \in labelled' \cup excused'
            /\ calls'[j] <= Cost(Ended(j)) +
                  (IF new.pc \in {"look", "ask"} THEN new.tries ELSE Tries)
  BY <1>6
<1>8. /\ worker'[w] = new /\ \A x \in Slots \ {w} : worker'[x] = worker[x]
      /\ worker' \in [Slots -> WorkerState]
  BY <1>3, <1>7
<1>9. /\ \A i \in Jobs : Ended(i)' = Ended(i)
      /\ Spent(w)' = (IF new.pc \in {"look", "ask"} THEN new.tries ELSE Tries)
      /\ \A x \in Slots \ {w} : Spent(x)' = Spent(x)
  BY <1>1, <1>8 DEF Ended, Spent
<1>10. calls'[j] <= Cost(Ended(j) + 1) /\ calls'[j] <= Cost(MaxAttempts + MaxStalls)
  <2>1. new.tries \in 0 .. Tries /\ calls'[j] \in Nat
    BY <1>6 DEF WorkerState
  <2>2. Ended(j) + 1 \in Nat /\ MaxAttempts + MaxStalls \in Nat
    BY <1>1, JobHolds, JobQueueAssumption
  <2>3. Cost(Ended(j) + 1) \in Nat /\ Cost(MaxAttempts + MaxStalls) \in Nat
    BY <2>2, CostGrows
  <2>4. calls'[j] <= Cost(Ended(j) + 1)
    BY <1>3, <1>4, <1>7, <2>1
  <2> QED
    BY <1>4, <2>1, <2>3, <2>4
<1>11. Charged'
  <2>1. \A i \in Jobs :
             /\ calls'[i] <= Cost(MaxAttempts + MaxStalls)
             /\ job[i].state \in {"waiting", "delayed"} => calls'[i] <= Cost(Ended(i))
             /\ job[i].state = "active" => calls'[i] <= Cost(Ended(i) + 1)
    BY <1>1, <1>4, <1>6, <1>10 DEF Charged
  <2>2. \A x \in Slots, i \in Jobs : slot[x] = i => calls'[i] <= Cost(Ended(i)) + Spent(x)'
    BY <1>1, <1>2, <1>5, <1>6, <1>7, <1>9 DEF Charged
  <2>3. \A x \in Slots : /\ worker'[x].pc = "look" => worker'[x].tries = 0
                         /\ worker'[x].pc = "ask" => worker'[x].tries < Tries
    BY <1>1, <1>7, <1>8 DEF Charged
  <2> QED
    BY <1>1, <1>9, <2>1, <2>2, <2>3 DEF Charged, Cost
<1>12. Working'
  BY <1>1, <1>2, <1>7, <1>8, JobQueueAssumption DEF Working
<1>13. Accounted'
  BY <1>1, <1>2, <1>6, <1>7, <1>8 DEF Accounted
<1> QED
  BY <1>1, <1>6, <1>8, <1>11, <1>12, <1>13 DEF LInv, LabelTypeOK, IInv

\* process() ends: only a return makes the job a success, and it has an account.
LEMMA EndKeepsLInv ==
    ASSUME LInv, IInv', NEW w \in Slots, WorkerThrows(w) \/ WorkerReturn(w)
    PROVE  LInv'
<1>1. /\ IInv /\ Charged /\ Accounted /\ LabelTypeOK /\ Working
      /\ stored' = stored /\ labelled' = labelled /\ backfill' = backfill
      /\ calls' = calls /\ excused' = excused
      /\ worker' = [worker EXCEPT ![w] = NoWork]
  BY DEF LInv, WorkerThrows, WorkerReturn, tableVars, historyVars
<1>2. PICK j \in Jobs : slot[w] = j
  BY <1>1, SlotHolds DEF WorkerThrows, WorkerReturn, Complete, Fail
<1>3. /\ slot' = [slot EXCEPT ![w] = Idle]
      /\ \A i \in Jobs \ {j} : job'[i] \in {job[i], NoJob}
      /\ \A i \in Jobs \ {j} : job[i].state = "active" => job'[i] = job[i]
      /\ job[j].state = "active"
      /\ \/ job'[j].state \in {"none", "failed"}
         \/ job'[j].state = "completed" /\ Complete(w)
         \/ job'[j].state = "delayed" /\ Ended(j)' = Ended(j) + 1
  BY <1>1, <1>2, SlotEnds DEF WorkerThrows, WorkerReturn
<1>4. NoWork \in WorkerState /\ NoWork.pc = "idle"
  BY LabellingAssumption DEF NoWork, WorkerState
<1>5. /\ worker' \in [Slots -> WorkerState]
      /\ worker'[w] = NoWork /\ \A x \in Slots \ {w} : worker'[x] = worker[x]
      /\ slot'[w] = Idle /\ \A x \in Slots \ {w} : slot'[x] = slot[x]
  BY <1>1, <1>3, <1>4 DEF LabelTypeOK, IInv, TypeOK
<1>6. Charged'
  <2>1. \A x \in Slots : slot'[x] # Idle =>
           /\ slot'[x] = slot[x]
           /\ job'[slot[x]] = job[slot[x]]
    BY <1>1, <1>2, <1>3, <1>5, SlotHolds
  <2>2. \A x \in Slots : worker'[x] = worker[x] \/ (slot'[x] = Idle /\ worker'[x] = NoWork)
    BY <1>5
  <2>3. \A i \in Jobs :
           \/ job'[i] = job[i]
           \/ job'[i].state \notin {"waiting", "delayed", "active"}
           \/ /\ job'[i].state \in {"waiting", "delayed"}
              /\ job[i].state = "active"
              /\ Ended(i)' = Ended(i) + 1
    BY <1>3, NoJobHolds
  <2> QED
    BY <1>1, <2>1, <2>2, <2>3, ChargedKept
<1>7. Working'
  BY <1>1, <1>4, <1>5 DEF Working
<1>8. Accounted'
  <2>1. job'[j].state = "completed" => j \in labelled \cup excused
    <3>1. CASE WorkerReturn(w)
      BY <1>1, <1>2, <3>1 DEF WorkerReturn, Accounted
    <3>2. CASE WorkerThrows(w)
      <4>1. job'[j].state # "completed"
        BY <1>1, <1>2, <3>2, ThrowIsNoSuccess DEF WorkerThrows
      <4> QED
        BY <4>1
    <3> QED
      BY <3>1, <3>2
  <2>2. \A i \in Jobs \ {j} : job'[i].state = "completed" => job[i].state = "completed"
    BY <1>3, NoJobHolds
  <2> QED
    BY <1>1, <1>4, <1>5, <2>1, <2>2 DEF Accounted
<1> QED
  BY <1>1, <1>5, <1>6, <1>7, <1>8 DEF LInv, LabelTypeOK, IInv

\* The timers of the queue.
LEMMA TimersKeepLInv ==
    ASSUME LInv, IInv', LabelTimers
    PROVE  LInv'
<1>1. /\ IInv /\ Charged /\ Accounted /\ LabelTypeOK /\ Working
      /\ stored' = stored /\ labelled' = labelled /\ backfill' = backfill
      /\ calls' = calls /\ excused' = excused /\ worker' = worker
  BY DEF LInv, LabelTimers, tableVars, historyVars
<1>2. PICK j \in Jobs : Promote(j) \/ RecoverStalled(j)
  BY DEF LabelTimers
<1>3. /\ slot' = slot
      /\ \A w \in Slots : slot[w] # j
      /\ \A i \in Jobs \ {j} : job'[i] \in {job[i], NoJob}
      /\ \A i \in Jobs \ {j} : job[i].state = "active" => job'[i] = job[i]
      /\ \/ job'[j].state \in {"none", "failed"}
         \/ /\ job'[j].state = "waiting" /\ job[j].state = "active"
            /\ Ended(j)' = Ended(j) + 1
         \/ /\ job'[j].state = "waiting" /\ job[j].state = "delayed"
            /\ Ended(j)' = Ended(j)
  <2>1. CASE Promote(j)
    <3>1. /\ job[j].state = "delayed" /\ slot' = slot
          /\ job' = [job EXCEPT ![j] = Record("waiting", job[j].attempts, job[j].stalls)]
      BY <2>1 DEF Promote, Moved
    <3>2. /\ job'[j] = Record("waiting", job[j].attempts, job[j].stalls)
          /\ \A i \in Jobs \ {j} : job'[i] = job[i]
      BY <1>1, <3>1 DEF IInv, TypeOK
    <3>3. job'[j].state = "waiting" /\ Ended(j)' = Ended(j)
      BY <3>2 DEF Record, Ended
    <3>4. \A w \in Slots : slot[w] # j
      BY <1>1, <3>1, SlotHolds, JobQueueAssumption
    <3> QED
      BY <3>1, <3>2, <3>3, <3>4
  <2>2. CASE RecoverStalled(j)
    BY <1>1, <2>2, StalledIsFound
  <2> QED
    BY <1>2, <2>1, <2>2
<1>4. Charged'
  <2>1. \A x \in Slots : slot'[x] # Idle =>
           /\ slot'[x] = slot[x]
           /\ job'[slot[x]] = job[slot[x]]
    BY <1>1, <1>3, SlotHolds
  <2>2. \A i \in Jobs :
           \/ job'[i] = job[i]
           \/ job'[i].state \notin {"waiting", "delayed", "active"}
           \/ /\ job'[i].state \in {"waiting", "delayed"}
              /\ job[i].state \in {"waiting", "delayed"}
              /\ Ended(i)' = Ended(i)
           \/ /\ job'[i].state \in {"waiting", "delayed"}
              /\ job[i].state = "active"
              /\ Ended(i)' = Ended(i) + 1
    BY <1>3, NoJobHolds
  <2> QED
    BY <1>1, <2>1, <2>2, ChargedKept
<1>5. Accounted'
  BY <1>1, <1>3, NoJobHolds DEF Accounted
<1> QED
  BY <1>1, <1>3, <1>4, <1>5 DEF LInv, LabelTypeOK, Working, IInv

\* A crash: the attempt it ends is charged when the job is found stalled.
LEMMA CrashKeepsLInv ==
    ASSUME LInv, IInv', LabelCrash
    PROVE  LInv'
<1>1. /\ IInv /\ Charged /\ Accounted /\ LabelTypeOK /\ Working
      /\ stored' = stored /\ labelled' = labelled /\ backfill' = NoBackfill
      /\ calls' = calls /\ excused' = excused /\ job' = job
      /\ worker' = [w \in Slots |-> NoWork] /\ slot' = [w \in Slots |-> Idle]
  BY DEF LInv, LabelCrash, Crash, tableVars, historyVars
<1>2. NoWork \in WorkerState /\ NoWork.pc = "idle" /\ NoBackfill \in BackfillState
  BY LabellingAssumption DEF NoWork, WorkerState, NoBackfill, BackfillState
<1>3. Charged'
  BY <1>1, ChargedKept
<1>4. Working' /\ Accounted'
  BY <1>1, <1>2 DEF Working, Accounted
<1> QED
  BY <1>1, <1>2, <1>3, <1>4 DEF LInv, LabelTypeOK, IInv

LEMMA InitLInv == LabelInit => LInv
<1> SUFFICES ASSUME LabelInit PROVE LInv
  OBVIOUS
<1>1. IInv
  BY InitIInv DEF LabelInit
<1>2. NoWork \in WorkerState /\ NoWork.pc = "idle" /\ NoBackfill \in BackfillState
  BY LabellingAssumption DEF NoWork, WorkerState, NoBackfill, BackfillState
<1>3. /\ \A j \in Jobs : job[j].state = "none" /\ calls[j] = 0
      /\ \A w \in Slots : slot[w] = Idle /\ worker[w] = NoWork
  BY NoJobHolds DEF LabelInit, Init
<1>4. Cost(MaxAttempts + MaxStalls) \in Nat
  BY CostGrows, JobQueueAssumption
<1>5. Charged
  BY <1>2, <1>3, <1>4, JobQueueAssumption DEF Charged, Cost
<1> QED
  BY <1>1, <1>2, <1>3, <1>5 DEF LInv, LabelInit, LabelTypeOK, Working, Accounted, IInv

LEMMA NextLInv ==
    ASSUME LInv, [LabelNext]_labelVars
    PROVE  LInv'
<1>1. IInv'
  BY QueueKept
<1>2. CASE UNCHANGED labelVars
  <2>1. /\ job' = job /\ slot' = slot /\ worker' = worker /\ calls' = calls
        /\ stored' = stored /\ labelled' = labelled /\ excused' = excused
        /\ backfill' = backfill
    BY <1>2 DEF labelVars, vars, tableVars, historyVars
  <2>2. Charged'
    BY <2>1, ChargedKept DEF LInv
  <2> QED
    BY <1>1, <2>1, <2>2 DEF LInv, LabelTypeOK, Working, Accounted, IInv
<1>3. CASE \/ \E j \in Jobs : StoreVideo(j) \/ DropVideo(j)
           \/ BackfillScan \/ BackfillCall \/ BackfillSave
  BY <1>1, <1>3, TablesKeepLInv
<1>4. CASE \E j \in Jobs : Ask(j)
  BY <1>1, <1>4, AddKeepsLInv DEF Ask, LInv, LabelTypeOK
<1>5. CASE BackfillAdd
  <2>1. PICK j \in backfill.todo : AddLabelJob(j) /\ BackfillGoes(j)
    BY <1>5 DEF BackfillAdd
  <2>2. j \in Jobs /\ backfill' \in BackfillState
    BY <2>1 DEF LInv, LabelTypeOK, BackfillState, BackfillGoes, NoBackfill
  <2> QED
    BY <1>1, <1>5, <2>1, <2>2, AddKeepsLInv DEF BackfillAdd
<1>6. CASE \E w \in Slots : WorkerTake(w)
  BY <1>1, <1>6, TakeKeepsLInv
<1>7. CASE \E w \in Slots : WorkerStep(w)
  <2>1. PICK w \in Slots : WorkerStep(w)
    BY <1>7
  <2>2. CASE WorkerLook(w) \/ WorkerAsk(w) \/ (WorkerSave(w) /\ slot[w] \in stored)
    BY <1>1, <2>2, WorkKeepsLInv
  <2>3. CASE WorkerReturn(w) \/ WorkerThrows(w)
    BY <1>1, <2>3, EndKeepsLInv
  <2> QED
    BY <2>1, <2>2, <2>3 DEF WorkerStep, WorkerSave
<1>8. CASE LabelTimers
  BY <1>1, <1>8, TimersKeepLInv
<1>9. CASE LabelCrash
  BY <1>1, <1>9, CrashKeepsLInv
<1> QED
  BY <1>2, <1>3, <1>4, <1>5, <1>6, <1>7, <1>8, <1>9 DEF LabelNext

-----------------------------------------------------------------------------
\* The invariant holds always.
THEOREM LabellingInvariant == LabelSpec => []LInv
<1>1. LInv /\ [LabelNext]_labelVars => LInv'
  BY NextLInv
<1> QED
  BY InitLInv, <1>1, PTL DEF LabelSpec

\* Everything stays within its types, and a label only with its video.
THEOREM LabellingTypeOK == LabelSpec => []LabelTypeOK
<1>1. LInv => LabelTypeOK
  BY DEF LInv
<1> QED
  BY <1>1, LabellingInvariant, PTL

\* The calls a record costs are bounded by the product of the budgets of classify
\* and of the queue, however failures, 429s and crashes mix.
THEOREM CallsAreBounded == LabelSpec => []CallBudget
<1>1. LInv => CallBudget
  BY DEF LInv, Charged, CallBudget, Cost
<1> QED
  BY <1>1, LabellingInvariant, PTL

\* No job is a success without a label unless its video was missing, the
\* classifier gave no answer, or the label was dropped with its video.
THEOREM SuccessIsAccounted == LabelSpec => []UnlabelledIsExcused
<1>1. LInv => UnlabelledIsExcused
  BY DEF LInv, Accounted, UnlabelledIsExcused
<1> QED
  BY <1>1, LabellingInvariant, PTL
=============================================================================
