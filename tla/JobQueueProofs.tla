--------------------------- MODULE JobQueueProofs ---------------------------
(***************************************************************************)
(* Theorems about JobQueue, for any number of jobs, slots, attempts,       *)
(* stalls and retained records.                                            *)
(***************************************************************************)
EXTENDS JobQueue, FiniteSetTheorems, TLAPS

\* The inductive invariant: attempts and stalls stay in their types because a
\* job that can still run has budget left, and a slot's job is such a job.
IInv == TypeOK /\ OneSlotPerJob /\ BudgetLeft

-----------------------------------------------------------------------------
\* Records built from a state and counters in range are job records.
LEMMA RecordType ==
    ASSUME NEW s \in {"none"} \cup Pending \cup Finished,
           NEW a \in 0 .. MaxAttempts, NEW t \in 0 .. MaxStalls + 1
    PROVE  /\ Record(s, a, t) \in JobRecord
           /\ Record(s, a, t).state = s
           /\ Record(s, a, t).attempts = a
           /\ Record(s, a, t).stalls = t
  BY DEF JobRecord, Record

\* What a change of one job record, and of one more that is trimmed, needs in
\* order to keep the records well typed and their budgets respected.
LEMMA FinishKeepsRecords ==
    ASSUME TypeOK, BudgetLeft,
           NEW j \in Jobs, NEW record \in JobRecord, NEW keep,
           record.state \in Finished,
           Finish(j, record, keep)
    PROVE  /\ job' \in [Jobs -> JobRecord]
           /\ BudgetLeft'
           /\ job'[j].state \notin {"waiting", "active", "delayed"}
           /\ \A i \in Jobs : i # j /\ job[i].state # record.state => job'[i] = job[i]
           /\ \A i \in Jobs : i # j => job'[i] \in {job[i], NoJob}
           /\ job'[j] \in {record, NoJob}
<1>1. NoJob \in JobRecord /\ NoJob.state = "none"
  BY JobQueueAssumption, RecordType DEF NoJob
<1>2. CASE job' = [job EXCEPT ![j] = record]
  BY <1>1, <1>2 DEF TypeOK, BudgetLeft, Pending, Finished
<1>3. CASE \E old \in In(record.state) :
              job' = [job EXCEPT ![j] = record, ![old] = NoJob]
  BY <1>1, <1>3 DEF TypeOK, BudgetLeft, Pending, Finished, In
<1> QED
  BY <1>2, <1>3 DEF Finish

\* The invariant holds initially.
LEMMA InitIInv == Init => IInv
<1> SUFFICES ASSUME Init PROVE IInv
  OBVIOUS
<1>1. NoJob \in JobRecord /\ NoJob.state = "none"
  BY JobQueueAssumption, RecordType DEF NoJob
<1> QED
  BY <1>1, JobQueueAssumption DEF Init, IInv, TypeOK, OneSlotPerJob, BudgetLeft, Pending

\* Every step keeps it.
LEMMA NextIInv == IInv /\ [Next]_vars => IInv'
<1> SUFFICES ASSUME IInv, [Next]_vars PROVE IInv'
  OBVIOUS
<1> USE JobQueueAssumption
<1>0. NoJob \in JobRecord /\ NoJob.state = "none" /\ NoJob.attempts = 0 /\ NoJob.stalls = 0
  BY RecordType DEF NoJob
<1>1. ASSUME NEW j \in Jobs, Add(j) PROVE IInv'
  BY <1>0, <1>1 DEF Add, IInv, TypeOK, OneSlotPerJob, BudgetLeft, JobRecord, Record, Moved, Pending, Finished
<1>2. ASSUME NEW j \in Jobs, Promote(j) PROVE IInv'
  BY <1>2 DEF Promote, IInv, TypeOK, OneSlotPerJob, BudgetLeft, JobRecord, Record, Moved, Pending, Finished
<1>3. ASSUME NEW w \in Slots, NEW j \in Jobs, Take(w, j) PROVE IInv'
  BY <1>3 DEF Take, IInv, TypeOK, OneSlotPerJob, BudgetLeft, JobRecord, Record, Moved, Pending, Finished
<1>4. ASSUME NEW w \in Slots, Complete(w) PROVE IInv'
  <2> DEFINE j == slot[w]
             record == Moved(j, "completed")
  <2>1. j \in Jobs /\ job[j] \in JobRecord /\ job[j].state = "active"
    BY <1>4 DEF Complete, IInv, TypeOK, OneSlotPerJob
  <2>2. record \in JobRecord /\ record.state = "completed"
    BY <2>1 DEF JobRecord, Record, Moved, Finished
  <2>3. Finish(j, record, KeepCompleted)
    BY <1>4 DEF Complete
  <2> HIDE DEF record
  <2>4. /\ job' \in [Jobs -> JobRecord]
        /\ BudgetLeft'
        /\ \A i \in Jobs : i # j /\ job[i].state = "active" => job'[i] = job[i]
    BY <2>1, <2>2, <2>3, FinishKeepsRecords DEF IInv, Finished
  <2> QED
    BY <1>4, <2>1, <2>4 DEF Complete, IInv, TypeOK, OneSlotPerJob
<1>5. ASSUME NEW w \in Slots, Fail(w) PROVE IInv'
  <2> DEFINE j == slot[w]
             made == job[j].attempts + 1
             record == Record("failed", made, job[j].stalls)
  <2>1. /\ j \in Jobs /\ job[j] \in JobRecord /\ job[j].state = "active"
        /\ made \in 0 .. MaxAttempts /\ job[j].stalls <= MaxStalls
    BY <1>5 DEF Fail, IInv, TypeOK, OneSlotPerJob, BudgetLeft, JobRecord, Pending
  <2>2. CASE made < MaxAttempts
    <3>1. job' = [job EXCEPT ![j] = Record("delayed", made, job[j].stalls)]
      BY <1>5, <2>2 DEF Fail
    <3>2. job'[j] = Record("delayed", made, job[j].stalls)
      BY <2>1, <3>1 DEF IInv, TypeOK
    <3>3. job'[j] \in JobRecord /\ job'[j].attempts = made /\ job'[j].stalls <= MaxStalls
      BY <2>1, <3>2 DEF JobRecord, Record, Pending, Finished
    <3>4. job' \in [Jobs -> JobRecord] /\ \A i \in Jobs : i # j => job'[i] = job[i]
      BY <2>1, <3>1, <3>3 DEF IInv, TypeOK
    <3> QED
      BY <1>5, <2>1, <2>2, <3>3, <3>4 DEF Fail, IInv, TypeOK, OneSlotPerJob, BudgetLeft
  <2>3. CASE ~ (made < MaxAttempts)
    <3>1. Finish(j, record, KeepFailed)
      BY <1>5, <2>3 DEF Fail
    <3>2. record \in JobRecord /\ record.state = "failed"
      BY <2>1 DEF JobRecord, Record, Pending, Finished
    <3> HIDE DEF record
    <3>3. /\ job' \in [Jobs -> JobRecord]
          /\ BudgetLeft'
          /\ \A i \in Jobs : i # j /\ job[i].state = "active" => job'[i] = job[i]
      BY <2>1, <3>1, <3>2, FinishKeepsRecords DEF IInv, Finished
    <3> QED
      BY <1>5, <2>1, <3>3 DEF Fail, IInv, TypeOK, OneSlotPerJob
  <2> QED
    BY <2>2, <2>3
<1>6. ASSUME NEW j \in Jobs, RecoverStalled(j) PROVE IInv'
  <2> DEFINE stalls == job[j].stalls + 1
             record == Record("failed", job[j].attempts, stalls)
  <2>1. /\ job[j] \in JobRecord /\ job[j].state = "active"
        /\ stalls \in 0 .. MaxStalls + 1 /\ job[j].attempts < MaxAttempts
        /\ \A w \in Slots : slot[w] # j
    BY <1>6 DEF RecoverStalled, Held, IInv, TypeOK, BudgetLeft, JobRecord, Pending
  <2>2. CASE stalls > MaxStalls
    <3>1. Finish(j, record, KeepFailed)
      BY <1>6, <2>2 DEF RecoverStalled
    <3>2. record \in JobRecord /\ record.state = "failed"
      BY <2>1 DEF JobRecord, Record, Pending, Finished
    <3> HIDE DEF record
    <3>3. /\ job' \in [Jobs -> JobRecord]
          /\ BudgetLeft'
          /\ \A i \in Jobs : i # j /\ job[i].state = "active" => job'[i] = job[i]
      BY <3>1, <3>2, FinishKeepsRecords DEF IInv, Finished
    <3> QED
      BY <1>6, <2>1, <3>3 DEF RecoverStalled, IInv, TypeOK, OneSlotPerJob
  <2>3. CASE ~ (stalls > MaxStalls)
    <3>1. job' = [job EXCEPT ![j] = Record("waiting", job[j].attempts, stalls)]
      BY <1>6, <2>3 DEF RecoverStalled
    <3>2. job'[j] = Record("waiting", job[j].attempts, stalls)
      BY <2>1, <3>1 DEF IInv, TypeOK
    <3>3. job'[j] \in JobRecord /\ job'[j].attempts < MaxAttempts /\ job'[j].stalls <= MaxStalls
      BY <2>1, <2>3, <3>2 DEF JobRecord, Record, Pending, Finished
    <3>4. job' \in [Jobs -> JobRecord] /\ \A i \in Jobs : i # j => job'[i] = job[i]
      BY <2>1, <3>1, <3>3 DEF IInv, TypeOK
    <3> QED
      BY <1>6, <2>1, <3>3, <3>4 DEF RecoverStalled, IInv, TypeOK, OneSlotPerJob, BudgetLeft
  <2> QED
    BY <2>2, <2>3
<1>7. ASSUME Crash PROVE IInv'
  BY <1>7 DEF Crash, IInv, TypeOK, OneSlotPerJob, BudgetLeft
<1>8. CASE UNCHANGED vars
  BY <1>8 DEF vars, IInv, TypeOK, OneSlotPerJob, BudgetLeft
<1> QED
  BY <1>1, <1>2, <1>3, <1>4, <1>5, <1>6, <1>7, <1>8 DEF Next

\* The inductive invariant holds of every behaviour.
THEOREM JobQueueInvariant == Spec => []IInv
<1>1. Init => IInv
  BY InitIInv
<1>2. IInv /\ [Next]_vars => IInv'
  BY NextIInv
<1> QED
  BY <1>1, <1>2, PTL DEF Spec

\* A job's record and a slot's content are always of their types: the counters
\* never exceed what queue.service.ts and BullMQ allow.
THEOREM JobQueueTypeOK == Spec => []TypeOK
<1>1. IInv => TypeOK
  BY DEF IInv
<1> QED
  BY <1>1, JobQueueInvariant, PTL

\* Two slots never run the same job, whatever fails, crashes or stalls: the
\* processor may work on a video's rows without a lock of its own.
THEOREM SlotsAreExclusive == Spec => []OneSlotPerJob
<1>1. IInv => OneSlotPerJob
  BY DEF IInv
<1> QED
  BY <1>1, JobQueueInvariant, PTL

\* A job that can still run has attempts and stalls left.
THEOREM BudgetIsKept == Spec => []BudgetLeft
<1>1. IInv => BudgetLeft
  BY DEF IInv
<1> QED
  BY <1>1, JobQueueInvariant, PTL

-----------------------------------------------------------------------------
\* Only a job that can still run is worked on; one that is finished stays as it
\* is or is trimmed.
LEMMA FinishedStays ==
    ASSUME IInv, [Next]_vars, NEW i \in Jobs, job[i].state \in Finished
    PROVE  job'[i] \in {job[i], NoJob}
<1> USE JobQueueAssumption
<1>0. job[i].state \notin Pending /\ job[i].state # "none" /\ job[i] # NoJob
  BY RecordType DEF Finished, Pending, NoJob
<1>1. ASSUME NEW j \in Jobs, Add(j) PROVE job'[i] = job[i]
  BY <1>0, <1>1, RecordType DEF Add, IInv, TypeOK
<1>2. ASSUME NEW j \in Jobs, Promote(j) PROVE job'[i] = job[i]
  BY <1>0, <1>2 DEF Promote, IInv, TypeOK, Pending
<1>3. ASSUME NEW w \in Slots, NEW j \in Jobs, Take(w, j) PROVE job'[i] = job[i]
  BY <1>0, <1>3 DEF Take, IInv, TypeOK, Pending
<1>4. ASSUME NEW w \in Slots, Complete(w) PROVE job'[i] \in {job[i], NoJob}
  <2> DEFINE j == slot[w]
  <2>1. j \in Jobs /\ job[j].state = "active" /\ job[j] \in JobRecord
    BY <1>4 DEF Complete, IInv, TypeOK, OneSlotPerJob
  <2>2. Moved(j, "completed") \in JobRecord /\ Moved(j, "completed").state = "completed"
    BY <2>1 DEF JobRecord, Record, Moved, Finished
  <2>3. Finish(j, Moved(j, "completed"), KeepCompleted)
    BY <1>4 DEF Complete
  <2>4. \A k \in Jobs : k # j => job'[k] \in {job[k], NoJob}
    BY <2>1, <2>2, <2>3, FinishKeepsRecords DEF IInv, Finished
  <2> QED
    BY <1>0, <2>1, <2>4 DEF Pending
<1>5. ASSUME NEW w \in Slots, Fail(w) PROVE job'[i] \in {job[i], NoJob}
  <2> DEFINE j == slot[w]
             made == job[j].attempts + 1
             record == Record("failed", made, job[j].stalls)
  <2>1. /\ j \in Jobs /\ job[j] \in JobRecord /\ job[j].state = "active"
        /\ made \in 0 .. MaxAttempts
    BY <1>5 DEF Fail, IInv, TypeOK, OneSlotPerJob, BudgetLeft, JobRecord, Pending
  <2>2. i # j
    BY <1>0, <2>1 DEF Pending
  <2>3. record \in JobRecord /\ record.state = "failed"
    BY <2>1 DEF JobRecord, Record, Finished
  <2>4. \/ job' = [job EXCEPT ![j] = Record("delayed", made, job[j].stalls)]
        \/ Finish(j, record, KeepFailed)
    BY <1>5 DEF Fail
  <2> HIDE DEF record
  <2>5. CASE job' = [job EXCEPT ![j] = Record("delayed", made, job[j].stalls)]
    BY <2>2, <2>5 DEF IInv, TypeOK
  <2>6. CASE Finish(j, record, KeepFailed)
    <3>1. \A k \in Jobs : k # j => job'[k] \in {job[k], NoJob}
      BY <2>1, <2>3, <2>6, FinishKeepsRecords DEF IInv, Finished
    <3> QED
      BY <2>2, <3>1
  <2> QED
    BY <2>4, <2>5, <2>6
<1>6. ASSUME NEW j \in Jobs, RecoverStalled(j) PROVE job'[i] \in {job[i], NoJob}
  <2> DEFINE stalls == job[j].stalls + 1
             record == Record("failed", job[j].attempts, stalls)
  <2>1. /\ job[j] \in JobRecord /\ job[j].state = "active"
        /\ stalls \in 0 .. MaxStalls + 1
    BY <1>6 DEF RecoverStalled, IInv, TypeOK, BudgetLeft, JobRecord, Pending
  <2>2. i # j
    BY <1>0, <2>1 DEF Pending
  <2>3. record \in JobRecord /\ record.state = "failed"
    BY <2>1 DEF JobRecord, Record, Finished
  <2>4. \/ job' = [job EXCEPT ![j] = Record("waiting", job[j].attempts, stalls)]
        \/ Finish(j, record, KeepFailed)
    BY <1>6 DEF RecoverStalled
  <2> HIDE DEF record
  <2>5. CASE job' = [job EXCEPT ![j] = Record("waiting", job[j].attempts, stalls)]
    BY <2>2, <2>5 DEF IInv, TypeOK
  <2>6. CASE Finish(j, record, KeepFailed)
    <3>1. \A k \in Jobs : k # j => job'[k] \in {job[k], NoJob}
      BY <2>3, <2>6, FinishKeepsRecords DEF IInv, Finished
    <3> QED
      BY <2>2, <3>1
  <2> QED
    BY <2>4, <2>5, <2>6
<1>7. CASE Crash \/ UNCHANGED vars
  BY <1>7 DEF Crash, vars
<1> QED
  BY <1>1, <1>2, <1>3, <1>4, <1>5, <1>6, <1>7 DEF Next

\* A finished job is not run again under the same record.
THEOREM FinishedJobsAreFinal == Spec => FinishedIsFinal
<1> DEFINE Stays == \A j \in Jobs :
               job[j].state \in Finished => job'[j] \in {job[j], NoJob}
<1>1. IInv /\ [Next]_vars => [Stays]_vars
  BY FinishedStays
<1> HIDE DEF Stays
<1>2. Spec => [][Stays]_vars
  BY <1>1, JobQueueInvariant, PTL DEF Spec
<1> QED
  BY <1>2 DEF FinishedIsFinal, Stays

-----------------------------------------------------------------------------
\* Finishing a job adds at most one record of its kind, and trims one when there
\* already are as many as are kept.
LEMMA FinishKeepsRetention ==
    ASSUME TypeOK, NEW j \in Jobs, job[j].state \in Pending,
           NEW record \in JobRecord, record.state \in Finished,
           NEW keep \in Nat \ {0},
           Cardinality(In(record.state)) <= keep,
           Finish(j, record, keep)
    PROVE  /\ Cardinality(In(record.state)') <= keep
           /\ \A s \in Finished \ {record.state} : In(s)' = In(s)
<1> DEFINE old == In(record.state)
<1> USE JobQueueAssumption
<1>1. IsFiniteSet(old) /\ j \notin old
  <2>1. IsFiniteSet(Jobs) /\ old \in SUBSET Jobs
    BY DEF In
  <2>2. IsFiniteSet(old)
    BY <2>1, FS_Subset
  <2>3. \A i \in old : job[i].state = record.state
    BY DEF In
  <2>4. job[j].state # record.state
    BY DEF Pending, Finished
  <2> QED
    BY <2>2, <2>3, <2>4
<1>2. Cardinality(old) \in Nat
  BY <1>1, FS_CardinalityType
<1>3. NoJob \in JobRecord /\ NoJob.state = "none" /\ "none" \notin Finished
  <2>1. NoJob \in JobRecord /\ NoJob.state = "none"
    BY RecordType DEF NoJob
  <2> QED
    BY <2>1 DEF Finished
<1>4. CASE Cardinality(old) < keep /\ job' = [job EXCEPT ![j] = record]
  <2>1. In(record.state)' = old \cup {j}
    BY <1>4 DEF In, TypeOK
  <2>2. Cardinality(old \cup {j}) = Cardinality(old) + 1
    BY <1>1, FS_AddElement
  <2>3. \A s \in Finished \ {record.state} : In(s)' = In(s)
    BY <1>4 DEF In, TypeOK, Pending, Finished
  <2> QED
    BY <1>2, <1>4, <2>1, <2>2, <2>3
<1>5. CASE \E gone \in old : job' = [job EXCEPT ![j] = record, ![gone] = NoJob]
  <2>1. PICK gone \in old : job' = [job EXCEPT ![j] = record, ![gone] = NoJob]
    BY <1>5
  <2>2. gone # j /\ gone \in Jobs /\ job[gone].state = record.state
    BY <1>1, <2>1 DEF In
  <2>3. In(record.state)' = (old \cup {j}) \ {gone}
    BY <1>3, <2>1, <2>2 DEF In, TypeOK, Finished
  <2>4. Cardinality((old \cup {j}) \ {gone}) = Cardinality(old)
    <3>1. /\ IsFiniteSet(old \cup {j})
          /\ Cardinality(old \cup {j}) = Cardinality(old) + 1
      BY <1>1, FS_AddElement
    <3>2. gone \in old \cup {j}
      BY <2>1
    <3>3. Cardinality((old \cup {j}) \ {gone}) = Cardinality(old \cup {j}) - 1
      BY <3>1, <3>2, FS_RemoveElement
    <3> QED
      BY <1>2, <3>1, <3>3
  <2>5. \A s \in Finished \ {record.state} : In(s)' = In(s)
    BY <1>3, <2>1, <2>2 DEF In, TypeOK, Pending, Finished
  <2> QED
    BY <2>3, <2>4, <2>5
<1> QED
  BY <1>4, <1>5 DEF Finish

\* The two ways a job finishes leave the retention of both kinds respected.
LEMMA FinishBothKinds ==
    ASSUME TypeOK, RetentionBounded, NEW j \in Jobs, job[j].state \in Pending,
           NEW record \in JobRecord,
           \/ record.state = "completed" /\ Finish(j, record, KeepCompleted)
           \/ record.state = "failed" /\ Finish(j, record, KeepFailed)
    PROVE  RetentionBounded'
<1> USE JobQueueAssumption
<1>1. CASE record.state = "completed" /\ Finish(j, record, KeepCompleted)
  <2>1. Cardinality(In("completed")') <= KeepCompleted /\ In("failed")' = In("failed")
    BY <1>1, FinishKeepsRetention DEF RetentionBounded, Finished
  <2> QED
    BY <2>1 DEF RetentionBounded
<1>2. CASE record.state = "failed" /\ Finish(j, record, KeepFailed)
  <2>1. Cardinality(In("failed")') <= KeepFailed /\ In("completed")' = In("completed")
    BY <1>2, FinishKeepsRetention DEF RetentionBounded, Finished
  <2> QED
    BY <2>1 DEF RetentionBounded
<1> QED
  BY <1>1, <1>2

\* A step that finishes no job leaves the finished ones alone.
LEMMA SameFinished ==
    ASSUME TypeOK, RetentionBounded, NEW j \in Jobs, NEW record \in JobRecord,
           job[j].state \notin Finished, record.state \notin Finished,
           job' = [job EXCEPT ![j] = record]
    PROVE  RetentionBounded'
<1>1. In("completed")' = In("completed") /\ In("failed")' = In("failed")
  BY DEF In, TypeOK, Finished
<1> QED
  BY <1>1 DEF RetentionBounded

\* No step of the queue takes a completed or failed list past its limit: a job is
\* only filed by Finish, which trims the list.
LEMMA NextRetention == IInv /\ RetentionBounded /\ [Next]_vars => RetentionBounded'
<1> SUFFICES ASSUME IInv, RetentionBounded, [Next]_vars PROVE RetentionBounded'
  OBVIOUS
<1> USE JobQueueAssumption
<1>0. ASSUME UNCHANGED job PROVE RetentionBounded'
  BY <1>0 DEF RetentionBounded, In
<1>1. ASSUME NEW j \in Jobs, Add(j) PROVE RetentionBounded'
  <2>1. /\ Moved(j, AddState) \in JobRecord
        /\ Moved(j, AddState).state \notin Finished
    BY DEF IInv, TypeOK, JobRecord, Moved, Record, Pending, Finished
  <2>2. CASE job[j] = NoJob
    <3>1. job[j].state \notin Finished
      BY <2>2, RecordType DEF NoJob, Finished
    <3>2. job' = [job EXCEPT ![j] = Moved(j, AddState)]
      BY <1>1, <2>2 DEF Add
    <3> HIDE DEF Moved
    <3> QED
      BY <2>1, <3>1, <3>2, SameFinished DEF IInv
  <2>3. CASE job[j] # NoJob
    BY <1>0, <1>1, <2>3 DEF Add
  <2> QED
    BY <2>2, <2>3
<1>2. ASSUME NEW j \in Jobs, Promote(j) PROVE RetentionBounded'
  <2>1. /\ Moved(j, "waiting") \in JobRecord
        /\ Moved(j, "waiting").state \notin Finished
    BY DEF IInv, TypeOK, JobRecord, Moved, Record, Pending, Finished
  <2>2. job[j].state \notin Finished /\ job' = [job EXCEPT ![j] = Moved(j, "waiting")]
    BY <1>2 DEF Promote, Finished
  <2> QED
    BY <2>1, <2>2, SameFinished DEF IInv
<1>3. ASSUME NEW w \in Slots, NEW j \in Jobs, Take(w, j) PROVE RetentionBounded'
  <2>1. /\ Moved(j, "active") \in JobRecord
        /\ Moved(j, "active").state \notin Finished
    BY DEF IInv, TypeOK, JobRecord, Moved, Record, Pending, Finished
  <2>2. job[j].state \notin Finished /\ job' = [job EXCEPT ![j] = Moved(j, "active")]
    BY <1>3 DEF Take, Finished
  <2> QED
    BY <2>1, <2>2, SameFinished DEF IInv
<1>4. ASSUME NEW w \in Slots, Complete(w) PROVE RetentionBounded'
  <2> DEFINE j == slot[w]
  <2>1. j \in Jobs /\ job[j].state = "active" /\ job[j] \in JobRecord
    BY <1>4 DEF Complete, IInv, TypeOK, OneSlotPerJob
  <2>2. Moved(j, "completed") \in JobRecord /\ Moved(j, "completed").state = "completed"
    BY <2>1 DEF JobRecord, Record, Moved, Finished
  <2>3. Finish(j, Moved(j, "completed"), KeepCompleted)
    BY <1>4 DEF Complete
  <2>4. job[j].state \in Pending
    BY <2>1 DEF Pending
  <2> HIDE DEF j
  <2> QED
    BY <2>1, <2>2, <2>3, <2>4, FinishBothKinds DEF IInv
<1>5. ASSUME NEW w \in Slots, Fail(w) PROVE RetentionBounded'
  <2> DEFINE j == slot[w]
             made == job[j].attempts + 1
             again == Record("delayed", made, job[j].stalls)
             record == Record("failed", made, job[j].stalls)
  <2>1. /\ j \in Jobs /\ job[j] \in JobRecord /\ job[j].state = "active"
        /\ made \in 0 .. MaxAttempts
    BY <1>5 DEF Fail, IInv, TypeOK, OneSlotPerJob, BudgetLeft, JobRecord, Pending
  <2>2. /\ record \in JobRecord /\ record.state = "failed"
        /\ again \in JobRecord /\ again.state \notin Finished
        /\ job[j].state \in Pending /\ job[j].state \notin Finished
    BY <2>1 DEF JobRecord, Record, Pending, Finished
  <2>3. \/ job' = [job EXCEPT ![j] = again]
        \/ Finish(j, record, KeepFailed)
    BY <1>5 DEF Fail
  <2> HIDE DEF record, again, j
  <2> QED
    BY <2>1, <2>2, <2>3, SameFinished, FinishBothKinds DEF IInv
<1>6. ASSUME NEW j \in Jobs, RecoverStalled(j) PROVE RetentionBounded'
  <2> DEFINE stalls == job[j].stalls + 1
             again == Record("waiting", job[j].attempts, stalls)
             record == Record("failed", job[j].attempts, stalls)
  <2>1. /\ job[j] \in JobRecord /\ job[j].state = "active"
        /\ stalls \in 0 .. MaxStalls + 1
    BY <1>6 DEF RecoverStalled, IInv, TypeOK, BudgetLeft, JobRecord, Pending
  <2>2. /\ record \in JobRecord /\ record.state = "failed"
        /\ again \in JobRecord /\ again.state \notin Finished
        /\ job[j].state \in Pending /\ job[j].state \notin Finished
    BY <2>1 DEF JobRecord, Record, Pending, Finished
  <2>3. \/ job' = [job EXCEPT ![j] = again]
        \/ Finish(j, record, KeepFailed)
    BY <1>6 DEF RecoverStalled
  <2> HIDE DEF record, again
  <2> QED
    BY <2>1, <2>2, <2>3, SameFinished, FinishBothKinds DEF IInv
<1>7. CASE Crash \/ UNCHANGED vars
  BY <1>0, <1>7 DEF Crash, vars
<1> QED
  BY <1>1, <1>2, <1>3, <1>4, <1>5, <1>6, <1>7 DEF Next

\* However jobs finish, no more than removeOnComplete and removeOnFail of them
\* are left in Redis.
THEOREM RetentionIsBounded == Spec => []RetentionBounded
<1>1. Init => RetentionBounded
  <2> SUFFICES ASSUME Init PROVE RetentionBounded
    OBVIOUS
  <2>1. In("completed") = {} /\ In("failed") = {}
    BY DEF Init, In, NoJob, Record
  <2> QED
    BY <2>1, FS_EmptySet, JobQueueAssumption DEF RetentionBounded
<1>2. IInv /\ RetentionBounded /\ [Next]_vars => RetentionBounded'
  BY NextRetention
<1> QED
  BY <1>1, <1>2, JobQueueInvariant, PTL DEF Spec
=============================================================================
