------------------------------ MODULE JobQueue ------------------------------
(***************************************************************************)
(* A BullMQ queue as queue.service.ts configures it.  BullMQ itself is an  *)
(* external library; what is modelled here is what the options passed to   *)
(* queue.add make of it (jobId = videoId, attempts, backoff, delay,        *)
(* removeOnComplete, removeOnFail) and what @Processor makes of a worker.  *)
(*                                                                         *)
(* The jobs live in Redis, the worker slots in the memory of the process:  *)
(* a crash empties the slots and leaves the jobs, which the stalled-job    *)
(* check of the restarted worker finds active with nobody working on them. *)
(***************************************************************************)
EXTENDS Naturals, FiniteSets

CONSTANTS
    Jobs,          \* the job ids: one per video, because jobId = videoId
    Slots,         \* the worker's concurrency, one element per parallel job
    Idle,          \* a slot that holds no job
    MaxAttempts,   \* attempts
    MaxStalls,     \* BullMQ's maxStalledCount, which the code leaves at 1
    KeepCompleted, \* removeOnComplete
    KeepFailed,    \* removeOnFail
    AddState       \* "waiting", or "delayed" when add is given a delay

ASSUME JobQueueAssumption ==
    /\ Idle \notin Jobs
    /\ IsFiniteSet(Jobs)
    /\ MaxAttempts \in Nat \ {0}
    /\ MaxStalls \in Nat
    /\ KeepCompleted \in Nat \ {0}
    /\ KeepFailed \in Nat \ {0}
    /\ AddState \in {"waiting", "delayed"}

VARIABLES
    job,  \* job[j]: where BullMQ holds the job, its attempts and its stalls
    slot  \* slot[w]: the job the worker's slot w runs, or Idle

vars == <<job, slot>>

-----------------------------------------------------------------------------
Pending == {"waiting", "active", "delayed"}
Finished == {"completed", "failed"}

JobRecord == [state : {"none"} \cup Pending \cup Finished,
              attempts : 0 .. MaxAttempts,
              stalls : 0 .. MaxStalls + 1]

Record(state, attempts, stalls) ==
    [state |-> state, attempts |-> attempts, stalls |-> stalls]

\* No record of the job in Redis: never added, or trimmed after it finished.
NoJob == Record("none", 0, 0)

\* job[j] in another state, its counters kept.
Moved(j, state) == Record(state, job[j].attempts, job[j].stalls)

In(state) == {j \in Jobs : job[j].state = state}

Init ==
    /\ job = [j \in Jobs |-> NoJob]
    /\ slot = [w \in Slots |-> Idle]

\* Mutant of Add: only a pending job stands in the way of another one.
AddOverFinished(j) ==
    /\ job' = IF job[j].state \in Pending THEN job
              ELSE [job EXCEPT ![j] = Record(AddState, 0, 0)]
    /\ UNCHANGED slot

\* Queue.add with a jobId: a job already held under that id, in ANY state,
\* makes the call a no-op that still resolves.
Add(j) ==
    /\ job' = IF job[j] = NoJob THEN [job EXCEPT ![j] = Moved(j, AddState)] ELSE job
    /\ UNCHANGED slot

\* The delay or the backoff of j has passed.
Promote(j) ==
    /\ job[j].state = "delayed"
    /\ job' = [job EXCEPT ![j] = Moved(j, "waiting")]
    /\ UNCHANGED slot

\* Mutant of Take: a job some slot already works on is handed out again.
TakeActive(w, j) ==
    /\ slot[w] = Idle
    /\ job[j].state \in {"waiting", "active"}
    /\ job' = [job EXCEPT ![j] = Moved(j, "active")]
    /\ slot' = [slot EXCEPT ![w] = j]

Take(w, j) ==
    /\ slot[w] = Idle
    /\ job[j].state = "waiting"
    /\ job' = [job EXCEPT ![j] = Moved(j, "active")]
    /\ slot' = [slot EXCEPT ![w] = j]

\* Mutant of Finish: neither removeOnComplete nor removeOnFail is set.
FinishKeepsAll(j, record, keep) ==
    job' = [job EXCEPT ![j] = record]

\* j ends in a finished state; beyond `keep` of them the oldest is removed.
\* Ages are not modelled: any record finished earlier may be the one to go.
Finish(j, record, keep) ==
    IF Cardinality(In(record.state)) < keep
    THEN job' = [job EXCEPT ![j] = record]
    ELSE \E old \in In(record.state) :
            job' = [job EXCEPT ![j] = record, ![old] = NoJob]

\* process() resolved.
Complete(w) ==
    /\ slot[w] # Idle
    /\ LET j == slot[w] IN
       Finish(j, Moved(j, "completed"), KeepCompleted)
    /\ slot' = [slot EXCEPT ![w] = Idle]

\* Mutant of Fail: one attempt too many.
FailOnceMore(w) ==
    /\ slot[w] # Idle
    /\ LET j == slot[w]
           made == job[j].attempts + 1
       IN  IF made <= MaxAttempts
           THEN job' = [job EXCEPT ![j] = Record("delayed", made, job[j].stalls)]
           ELSE Finish(j, Record("failed", made, job[j].stalls), KeepFailed)
    /\ slot' = [slot EXCEPT ![w] = Idle]

\* Mutant of Fail: the attempt is not counted.
FailUncounted(w) ==
    /\ slot[w] # Idle
    /\ job' = [job EXCEPT ![slot[w]] = Moved(slot[w], "delayed")]
    /\ slot' = [slot EXCEPT ![w] = Idle]

\* process() threw: back off and try again, until the attempts are used up.
Fail(w) ==
    /\ slot[w] # Idle
    /\ LET j == slot[w]
           made == job[j].attempts + 1
       IN  IF made < MaxAttempts
           THEN job' = [job EXCEPT ![j] = Record("delayed", made, job[j].stalls)]
           ELSE Finish(j, Record("failed", made, job[j].stalls), KeepFailed)
    /\ slot' = [slot EXCEPT ![w] = Idle]

\* The process dies and restarts: its slots are gone, the jobs are not.
Crash ==
    /\ slot' = [w \in Slots |-> Idle]
    /\ UNCHANGED job

\* The stalled-job check: an active job whose lock nobody renews any more goes
\* back to waiting, or to failed once it has stalled more than MaxStalls times.
Held(j) == \E w \in Slots : slot[w] = j

RecoverStalled(j) ==
    /\ job[j].state = "active"
    /\ ~ Held(j)
    /\ LET stalls == job[j].stalls + 1 IN
       IF stalls > MaxStalls
       THEN Finish(j, Record("failed", job[j].attempts, stalls), KeepFailed)
       ELSE job' = [job EXCEPT ![j] = Record("waiting", job[j].attempts, stalls)]
    /\ UNCHANGED slot

Next ==
    \/ \E j \in Jobs : Add(j) \/ Promote(j) \/ RecoverStalled(j)
    \/ \E w \in Slots : \E j \in Jobs : Take(w, j)
    \/ \E w \in Slots : Complete(w) \/ Fail(w)
    \/ Crash

\* BullMQ hands jobs out in order, so a job that keeps coming up for a free
\* slot is taken; timers fire; and process() returns or throws, its only waits
\* being HTTP, Redis and database calls that end or time out.
Fairness ==
    /\ \A j \in Jobs : WF_vars(Promote(j)) /\ WF_vars(RecoverStalled(j))
                       /\ SF_vars(\E w \in Slots : Take(w, j))
    /\ \A w \in Slots : WF_vars(Complete(w) \/ Fail(w))

Spec == Init /\ [][Next]_vars
FairSpec == Spec /\ Fairness

-----------------------------------------------------------------------------
TypeOK ==
    /\ job \in [Jobs -> JobRecord]
    /\ slot \in [Slots -> Jobs \cup {Idle}]

\* No two slots run the same job, and a job a slot runs is one that BullMQ
\* holds as active: what lets the processor work on a video without a lock.
OneSlotPerJob ==
    \A w \in Slots : slot[w] # Idle =>
        /\ job[slot[w]].state = "active"
        /\ \A x \in Slots : slot[x] = slot[w] => x = w

\* removeOnComplete and removeOnFail bound what finished jobs leave in Redis.
RetentionBounded ==
    /\ Cardinality(In("completed")) <= KeepCompleted
    /\ Cardinality(In("failed")) <= KeepFailed

\* A job that can still run has attempts left and has not stalled too often,
\* over any mixture of failures and crashes.
BudgetLeft ==
    \A j \in Jobs : job[j].state \in Pending =>
        /\ job[j].attempts < MaxAttempts
        /\ job[j].stalls <= MaxStalls

\* A finished job is not run again under the same record: it stays as it is
\* until it is trimmed, and only then can the same id be queued afresh.
FinishedIsFinal ==
    [][\A j \in Jobs : job[j].state \in Finished => job'[j] \in {job[j], NoJob}]_vars

\* Every job that is queued comes to an end, however often its processing
\* throws and the process crashes under it.
JobSettles ==
    \A j \in Jobs : job[j].state \in Pending ~> job[j].state \notin Pending
=============================================================================
