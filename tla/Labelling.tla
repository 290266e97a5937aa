------------------------------ MODULE Labelling ------------------------------
(***************************************************************************)
(* Labelling of videos by a rate-limited classifier: LabelProcessor takes  *)
(* the jobs of a second BullMQ queue (this module extends JobQueue, with   *)
(* the delay addLabel and backfill give their jobs), AiLabelService asks   *)
(* the classifier and waits on its 429s inside the job, and backfillDirect *)
(* labels a batch past the queue.                                          *)
(*                                                                         *)
(* The processor's concurrency is 1, so that Slots has one element for     *)
(* every running instance of the API.  GROQ_API_KEY is set.                *)
(***************************************************************************)
EXTENDS JobQueue

CONSTANTS
    Tries  \* calls classify makes before it gives up on 429s

ASSUME LabellingAssumption ==
    /\ Tries \in Nat \ {0}
    /\ AddState = "delayed"

VARIABLES
    stored,    \* the videos with a row
    labelled,  \* the videos with a row in video_labels
    worker,    \* worker[w]: how far process() is with the job of slot w
    backfill,  \* how far a backfill is, and the videos it has left
    calls,     \* history: calls[j] to the classifier under j's present record
    excused    \* history: the jobs with a reason to end without a label

tableVars == <<stored, labelled>>
historyVars == <<calls, excused>>
labelVars == <<vars, tableVars, worker, backfill, historyVars>>

-----------------------------------------------------------------------------
NoWork == [pc |-> "idle", tries |-> 0]
WorkerState == [pc : {"idle", "look", "ask", "save", "done"}, tries : 0 .. Tries]

NoBackfill == [pc |-> "idle", todo |-> {}]
BackfillState == [pc : {"idle", "queue", "call", "results"}, todo : SUBSET Jobs]

LabelInit ==
    /\ Init
    /\ stored = {}
    /\ labelled = {}
    /\ worker = [w \in Slots |-> NoWork]
    /\ backfill = NoBackfill
    /\ calls = [j \in Jobs |-> 0]
    /\ excused = {}

(* The tables, as ingestion and cleanup change them. *)
StoreVideo(j) ==
    /\ stored' = stored \cup {j}
    /\ UNCHANGED <<vars, labelled, worker, backfill, historyVars>>

\* The label goes with its video.
DropVideo(j) ==
    /\ stored' = stored \ {j}
    /\ labelled' = labelled \ {j}
    /\ excused' = IF j \in labelled THEN excused \cup {j} ELSE excused
    /\ UNCHANGED <<vars, worker, backfill, calls>>

-----------------------------------------------------------------------------
(* What fills the queue. *)

\* labelQueue.add; a record that starts afresh has no history.
AddLabelJob(j) ==
    /\ Add(j)
    /\ IF job[j] = NoJob
       THEN calls' = [calls EXCEPT ![j] = 0] /\ excused' = excused \ {j}
       ELSE UNCHANGED historyVars

\* addLabel, by the detail worker; whether the video is still there is not asked.
Ask(j) ==
    /\ AddLabelJob(j)
    /\ UNCHANGED <<tableVars, worker, backfill>>

\* Videos without a label, for either kind of backfill.  Those that are available
\* and have their detail are taken, up to a batch: any of the stored ones here.
BackfillScan ==
    /\ backfill = NoBackfill
    /\ \E batch \in SUBSET (stored \ labelled) \ {{}}, pc \in {"queue", "call"} :
          backfill' = [pc |-> pc, todo |-> batch]
    /\ UNCHANGED <<vars, tableVars, worker, historyVars>>

\* With one video of the batch done.
BackfillGoes(j) ==
    backfill' = IF backfill.todo = {j} THEN NoBackfill
                ELSE [backfill EXCEPT !.todo = @ \ {j}]

BackfillAdd ==
    /\ backfill.pc = "queue"
    /\ \E j \in backfill.todo : AddLabelJob(j) /\ BackfillGoes(j)
    /\ UNCHANGED <<tableVars, worker>>

\* backfillDirect's one call: an error ends it; the ids of an answer are taken
\* as they are, whether the batch had them or not.
BackfillCall ==
    /\ backfill.pc = "call"
    /\ \E ids \in SUBSET Jobs :
          backfill' = IF ids = {} THEN NoBackfill
                      ELSE [pc |-> "results", todo |-> ids]
    /\ UNCHANGED <<vars, tableVars, worker, historyVars>>

\* Without its video a label is refused, and skipped.
BackfillSave ==
    /\ backfill.pc = "results"
    /\ \E j \in backfill.todo :
          /\ labelled' = labelled \cup ({j} \cap stored)
          /\ BackfillGoes(j)
    /\ UNCHANGED <<vars, stored, worker, historyVars>>

-----------------------------------------------------------------------------
(* LabelProcessor.process on slot w, and classify within it. *)

WorkerGoes(w, pc) == worker' = [worker EXCEPT ![w] = [@ EXCEPT !.pc = pc]]

WorkerTake(w) ==
    /\ \E j \in Jobs : Take(w, j)
    /\ worker' = [worker EXCEPT ![w] = [pc |-> "look", tries |-> 0]]
    /\ UNCHANGED <<tableVars, backfill, historyVars>>

\* A job whose video is not there is done.
WorkerLook(w) ==
    /\ worker[w].pc = "look"
    /\ IF slot[w] \in stored
       THEN WorkerGoes(w, "ask") /\ UNCHANGED excused
       ELSE WorkerGoes(w, "done") /\ excused' = excused \cup {slot[w]}
    /\ UNCHANGED <<vars, tableVars, backfill, calls>>

\* Mutant of WorkerAsk: the loop counts the answers, not the calls.
AskUncounted(w) ==
    /\ worker[w].pc = "ask"
    /\ calls[slot[w]] <= 3 * Tries * (MaxAttempts + MaxStalls)
    /\ calls' = [calls EXCEPT ![slot[w]] = @ + 1]
    /\ \/ UNCHANGED <<worker, excused>>
       \/ WorkerGoes(w, "save") /\ UNCHANGED excused
       \/ WorkerGoes(w, "done") /\ excused' = excused \cup {slot[w]}
    /\ UNCHANGED <<vars, tableVars, backfill>>

\* One call: a label; an error, which is an answer of null; or a 429, with
\* which classify waits and calls again, and after its last call ends in null.
WorkerAsk(w) ==
    /\ worker[w].pc = "ask"
    /\ calls' = [calls EXCEPT ![slot[w]] = @ + 1]
    /\ \/ /\ worker[w].tries + 1 < Tries
          /\ worker' = [worker EXCEPT ![w].tries = @ + 1]
          /\ UNCHANGED excused
       \/ WorkerGoes(w, "save") /\ UNCHANGED excused
       \/ WorkerGoes(w, "done") /\ excused' = excused \cup {slot[w]}
    /\ UNCHANGED <<vars, tableVars, backfill>>

\* process() throws.
WorkerThrows(w) ==
    /\ Fail(w)
    /\ worker' = [worker EXCEPT ![w] = NoWork]
    /\ UNCHANGED <<tableVars, backfill, historyVars>>

\* Mutant of WorkerSave: a label that is refused ends the job as a success.
SaveSkips(w) ==
    /\ worker[w].pc = "save"
    /\ labelled' = labelled \cup ({slot[w]} \cap stored)
    /\ WorkerGoes(w, "done")
    /\ UNCHANGED <<vars, stored, backfill, historyVars>>

\* The label refers to its video, which may be gone by now: the upsert throws.
WorkerSave(w) ==
    /\ worker[w].pc = "save"
    /\ IF slot[w] \in stored
       THEN /\ labelled' = labelled \cup {slot[w]}
            /\ WorkerGoes(w, "done")
            /\ UNCHANGED <<vars, stored, backfill, historyVars>>
       ELSE WorkerThrows(w)

WorkerReturn(w) ==
    /\ worker[w].pc = "done"
    /\ Complete(w)
    /\ worker' = [worker EXCEPT ![w] = NoWork]
    /\ UNCHANGED <<tableVars, backfill, historyVars>>

WorkerStep(w) == WorkerLook(w) \/ WorkerAsk(w) \/ WorkerSave(w) \/ WorkerReturn(w)

-----------------------------------------------------------------------------
LabelTimers ==
    /\ \E j \in Jobs : Promote(j) \/ RecoverStalled(j)
    /\ UNCHANGED <<tableVars, worker, backfill, historyVars>>

LabelCrash ==
    /\ Crash
    /\ worker' = [w \in Slots |-> NoWork]
    /\ backfill' = NoBackfill
    /\ UNCHANGED <<tableVars, historyVars>>

LabelNext ==
    \/ \E j \in Jobs : StoreVideo(j) \/ DropVideo(j) \/ Ask(j)
    \/ BackfillScan \/ BackfillAdd \/ BackfillCall \/ BackfillSave
    \/ \E w \in Slots : WorkerTake(w) \/ WorkerStep(w)
    \/ LabelTimers
    \/ LabelCrash

LabelSpec == LabelInit /\ [][LabelNext]_labelVars

-----------------------------------------------------------------------------
LabelTypeOK ==
    /\ TypeOK
    /\ stored \subseteq Jobs
    /\ labelled \subseteq stored
    /\ worker \in [Slots -> WorkerState]
    /\ backfill \in BackfillState
    /\ calls \in [Jobs -> Nat]
    /\ excused \subseteq Jobs

\* However the job's own retries, the waits inside an attempt and the crashes
\* mix, a record costs the classifier no more calls than its budgets allow.
CallBudget ==
    \A j \in Jobs : calls[j] <= Tries * (MaxAttempts + MaxStalls)

\* A job ends as a success without a label only for a reason: its video was not
\* there, the classifier gave no answer, or the label went with its video.
UnlabelledIsExcused ==
    \A j \in Jobs :
        job[j].state = "completed" /\ j \in stored => j \in labelled \cup excused
=============================================================================
