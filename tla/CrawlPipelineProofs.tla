------------------------- MODULE CrawlPipelineProofs -------------------------
(***************************************************************************)
(* Theorems about CrawlPipeline, for any ids, requests, slots and tasks,   *)
(* any interleaving, and over crashes unless one says otherwise.           *)
(*                                                                         *)
(* Whatever the services do to their tables and to their queue is a        *)
(* behaviour of Catalogue and of JobQueue, so that what is proved of those *)
(* two holds of the pipeline: PipelineUsesCatalogue to PipelineKeepsDetail.*)
(*                                                                         *)
(* A crawler that keeps to the protocol of _runSync, and a queue that      *)
(* drains before the deadline, leave sync alone with the database: what it *)
(* deletes is what it meant to delete (SyncInvariant to ChannelsAreReady), *)
(* and when it stops waiting every playlist video was tried (SyncTriesAll).*)
(*                                                                         *)
(* Where videos come in by listings and playlists, none is forgotten       *)
(* (ListedAreQueued), and the pipeline implements CrawlPromise             *)
(* (PipelineKeepsPromise).                                                 *)
(***************************************************************************)
EXTENDS CrawlPipeline, TLAPS, FiniteSetTheorems

\* The theorems about the tables and the queue, for the pipeline's own.
DBP == INSTANCE CatalogueProofs
QP == INSTANCE JobQueueProofs WITH Jobs <- Videos, AddState <- "waiting"

\* What the locals of a request, a job and a task are good for: their types.
LocalsOK ==
    /\ slot \in [Slots -> Videos \cup {Idle}]
    /\ handler \in [Handlers -> HandlerState]
    /\ worker \in [Slots -> WorkerState]
    /\ task \in [Tasks -> TaskState]

\* A channel is upserted only under its id.
ChannelGiven ==
    /\ \A h \in Handlers : handler[h].pc \in {"channel", "detailChannel"}
                           => handler[h].c # NoChannel
    /\ \A w \in Slots : worker[w].pc = "channel" => worker[w].c # NoChannel

\* process() runs on a job.
WorksOnJob == \A w \in Slots : worker[w] # NoWork => slot[w] # Idle

\* A task that is to wait has polls left.
PollsLeft ==
    \A t \in Tasks :
        /\ task[t].pc \in {"repair", "queue"} => task[t].polls = 0
        /\ task[t].pc = "poll" => task[t].polls < MaxPolls

\* The inductive invariant.
IInv == LocalsOK /\ ChannelGiven /\ WorksOnJob /\ PollsLeft

-----------------------------------------------------------------------------
\* What a request, at each point of its code, has in its locals.
LEMMA HandlerLocals ==
    ASSUME IInv, NEW h \in Handlers
    PROVE  /\ handler[h].pc \in {"channel", "video", "rank", "enqueue",
                                 "detailChannel", "detail"}
              => handler[h] \in
                    [pc : {"channel", "video", "rank", "enqueue", "detailChannel", "detail"},
                     v : Videos, c : DB!ChannelRef, form : DB!NameForm, ranked : BOOLEAN]
           /\ handler[h].pc \in {"stub", "stubEnqueue", "item"}
              => handler[h] \in [pc : {"stub", "stubEnqueue", "item"},
                                 v : Videos, p : Playlists]
           /\ handler[h].pc = "comment"
              => handler[h] \in [pc : {"comment"}, v : Videos]
  BY DEF IInv, LocalsOK, HandlerState, NoHandler

\* What the job on a slot has.
LEMMA WorkerLocals ==
    ASSUME IInv, NEW w \in Slots
    PROVE  /\ worker[w].pc # "idle" => slot[w] \in Videos
           /\ worker[w].pc \in {"channel", "detail"}
              => worker[w] \in [pc : {"channel", "detail"}, c : DB!ChannelRef,
                                form : {"name", "null"}]
  BY DEF IInv, LocalsOK, WorksOnJob, WorkerState, NoWork

\* What a task has.
LEMMA TaskLocals ==
    ASSUME IInv, NEW t \in Tasks
    PROVE  /\ task[t].pc \in {"repair", "poll", "junk", "orphans"}
              => task[t] \in [pc : {"repair", "poll", "junk", "orphans"}, todo : {{}},
                              sync : BOOLEAN, polls : 0 .. MaxPolls]
           /\ task[t].pc \in {"queue", "dropItems", "dropVideos"}
              => task[t] \in [pc : {"queue", "dropItems", "dropVideos"},
                              todo : SUBSET Videos,
                              sync : BOOLEAN, polls : 0 .. MaxPolls]
           /\ task[t].pc = "dropChannels"
              => task[t] \in [pc : {"dropChannels"}, todo : SUBSET Channels,
                              sync : BOOLEAN, polls : 0 .. MaxPolls]
  BY DEF IInv, LocalsOK, TaskState, NoTask

-----------------------------------------------------------------------------
\* A request that goes to a state of its type, with a channel where it needs
\* one, keeps the invariant if its statement leaves the slots alone.
LEMMA HandlerMoves ==
    ASSUME IInv, NEW h \in Handlers, NEW state \in HandlerState,
           state.pc \in {"channel", "detailChannel"} => state.c # NoChannel,
           HandlerGoes(h, state), slot' = slot
    PROVE  IInv'
<1>1. handler' \in [Handlers -> HandlerState] /\ handler'[h] = state
      /\ \A i \in Handlers : i # h => handler'[i] = handler[i]
  BY DEF HandlerGoes, IInv, LocalsOK
<1>2. worker' = worker /\ task' = task
  BY DEF HandlerGoes
<1> QED
  BY <1>1, <1>2 DEF IInv, LocalsOK, ChannelGiven, WorksOnJob, PollsLeft

\* So does a job that goes on, on its slot.
LEMMA WorkerMoves ==
    ASSUME IInv, NEW w \in Slots, NEW state \in WorkerState,
           state.pc = "channel" => state.c # NoChannel,
           WorkerGoes(w, state),
           slot' \in [Slots -> Videos \cup {Idle}],
           \A x \in Slots : x # w => slot'[x] = slot[x],
           state # NoWork => slot'[w] # Idle
    PROVE  IInv'
<1>1. worker' \in [Slots -> WorkerState] /\ worker'[w] = state
      /\ \A x \in Slots : x # w => worker'[x] = worker[x]
  BY DEF WorkerGoes, IInv, LocalsOK
<1>2. handler' = handler /\ task' = task
  BY DEF WorkerGoes
<1> QED
  BY <1>1, <1>2 DEF IInv, LocalsOK, ChannelGiven, WorksOnJob, PollsLeft

\* And a task.
LEMMA TaskMoves ==
    ASSUME IInv, NEW t \in Tasks, NEW state \in TaskState,
           state.pc \in {"repair", "queue"} => state.polls = 0,
           state.pc = "poll" => state.polls < MaxPolls,
           TaskGoes(t, state), slot' = slot
    PROVE  IInv'
<1>1. task' \in [Tasks -> TaskState] /\ task'[t] = state
      /\ \A i \in Tasks : i # t => task'[i] = task[i]
  BY DEF TaskGoes, IInv, LocalsOK
<1>2. handler' = handler /\ worker' = worker
  BY DEF TaskGoes
<1> QED
  BY <1>1, <1>2 DEF IInv, LocalsOK, ChannelGiven, WorksOnJob, PollsLeft

-----------------------------------------------------------------------------
\* What every step does to the locals, to the tables and to the queue.
Allowed == IInv' /\ [DB!Next]_dbVars /\ [Q!Next]_queueVars

\* The start of a request touches neither tables nor queue.
LEMMA RequestStarts ==
    ASSUME IInv, NEW h \in Handlers, HandlerStart(h)
    PROVE  Allowed
<1>1. ASSUME NEW state \in HandlerState,
             state.pc \in {"channel", "detailChannel"} => state.c # NoChannel,
             HandlerGoes(h, state), UNCHANGED <<dbVars, queueVars>>
      PROVE  Allowed
  BY <1>1, HandlerMoves DEF Allowed, queueVars
<1>2. CASE StartList(h)
  <2>1. PICK v \in Videos, c \in DB!ChannelRef, form \in Forms :
          HandlerGoes(h, [pc |-> IF c # NoChannel /\ form = "name"
                                 THEN "channel" ELSE "video",
                          v |-> v, c |-> c, form |-> form, ranked |-> TRUE])
    BY <1>2 DEF StartList
  <2> QED
    BY <1>1, <1>2, <2>1, PipelineAssumption DEF StartList, HandlerState
<1>3. CASE StartChannelVideos(h)
  BY <1>1, <1>3, PipelineAssumption DEF StartChannelVideos, HandlerState, DB!ChannelRef
<1>4. CASE StartPlaylistItems(h)
  BY <1>1, <1>4 DEF StartPlaylistItems, HandlerState, DB!StoredPlaylists
<1>5. CASE StartDetail(h)
  <2>1. PICK v \in Videos, c \in DB!ChannelRef, form \in {"name", "null"} :
          HandlerGoes(h, [pc |-> IF c # NoChannel /\ form = "name"
                                 THEN "detailChannel" ELSE "detail",
                          v |-> v, c |-> c, form |-> form, ranked |-> FALSE])
    BY <1>5 DEF StartDetail
  <2> QED
    BY <1>1, <1>5, <2>1 DEF StartDetail, HandlerState, DB!NameForm
<1>6. CASE StartComments(h)
  BY <1>1, <1>6 DEF StartComments, HandlerState, DB!Stored
<1> QED
  BY <1>2, <1>3, <1>4, <1>5, <1>6 DEF HandlerStart

\* A statement or a queue call of a request is one that Catalogue or JobQueue
\* has.
LEMMA RequestGoesOn ==
    ASSUME IInv, NEW h \in Handlers, HandlerStep(h)
    PROVE  Allowed
<1>0. NoHandler \in HandlerState /\ NoHandler.pc = "idle"
  BY DEF NoHandler, HandlerState
<1>1. ASSUME NEW pc \in {"video", "rank", "enqueue", "detail"}, Continue(h, pc),
             handler[h].pc \in {"channel", "video", "rank", "enqueue",
                                "detailChannel", "detail"},
             slot' = slot
      PROVE  IInv'
  <2> DEFINE state == [handler[h] EXCEPT !.pc = pc]
  <2>1. state \in HandlerState /\ state.pc = pc
    BY <1>1, HandlerLocals DEF HandlerState
  <2>2. HandlerGoes(h, state)
    BY <1>1 DEF Continue
  <2> HIDE DEF state
  <2> QED
    BY <1>1, <2>1, <2>2, HandlerMoves
<1>2. ASSUME NEW pc \in {"stubEnqueue", "item"}, Continue(h, pc),
             handler[h].pc \in {"stub", "stubEnqueue"}, slot' = slot
      PROVE  IInv'
  <2> DEFINE state == [handler[h] EXCEPT !.pc = pc]
  <2>1. state \in HandlerState /\ state.pc = pc
    BY <1>2, HandlerLocals DEF HandlerState
  <2>2. HandlerGoes(h, state)
    BY <1>2 DEF Continue
  <2> HIDE DEF state
  <2> QED
    BY <1>2, <2>1, <2>2, HandlerMoves
<1>3. ASSUME HandlerGoes(h, NoHandler), slot' = slot PROVE IInv'
  BY <1>0, <1>3, HandlerMoves
<1>4. ASSUME Abort(h) PROVE Allowed
  BY <1>3, <1>4 DEF Abort, Allowed, queueVars
<1>5. ASSUME NEW v \in Videos, Q!Add(v) PROVE Q!Next /\ slot' = slot
  BY <1>5 DEF Q!Next, Q!Add
<1>6. ASSUME UNCHANGED queueVars PROVE slot' = slot
  BY <1>6 DEF queueVars
<1>7. CASE ListChannel(h)
  <2>1. handler[h].c \in Channels
    BY <1>7, HandlerLocals DEF ListChannel, IInv, ChannelGiven, DB!ChannelRef
  <2>2. DB!Next
    BY <1>7, <2>1 DEF ListChannel, DB!Next
  <2> QED
    BY <1>1, <1>6, <1>7, <2>2 DEF ListChannel, Allowed
<1>8. CASE ListVideo(h)
  <2>1. CASE DB!FKChannel(handler[h].c)
    <3>1. DB!UpsertFromCrawl(handler[h].v, handler[h].c, handler[h].form)
      BY <1>8, <2>1 DEF ListVideo
    <3>2. DB!Next
      BY <1>8, <3>1, HandlerLocals DEF ListVideo, DB!Next
    <3> QED
      BY <1>1, <1>6, <1>8, <2>1, <3>2 DEF ListVideo, Allowed
  <2> QED
    BY <1>4, <1>8, <2>1 DEF ListVideo
<1>9. CASE ListRank(h)
  <2>1. CASE handler[h].v \in DB!Stored
    <3>1. DB!Next
      BY <1>9, <2>1 DEF ListRank, DB!Next, DB!Stored
    <3> QED
      BY <1>1, <1>6, <1>9, <2>1, <3>1 DEF ListRank, Allowed
  <2> QED
    BY <1>4, <1>9, <2>1 DEF ListRank
<1>10. CASE ListEnqueue(h)
  BY <1>3, <1>5, <1>10, HandlerLocals DEF ListEnqueue, Allowed
<1>11. CASE StubVideo(h)
  <2>1. DB!Next
    BY <1>11, HandlerLocals DEF StubVideo, DB!Next
  <2> QED
    BY <1>2, <1>6, <1>11, <2>1 DEF StubVideo, Allowed
<1>12. CASE StubEnqueue(h)
  BY <1>2, <1>5, <1>12, HandlerLocals DEF StubEnqueue, Allowed
<1>13. CASE PutItem(h)
  <2>1. CASE handler[h].v \in DB!Stored /\ handler[h].p \in DB!StoredPlaylists
    <3>1. DB!Next
      BY <1>13, <2>1 DEF PutItem, DB!Next, DB!Stored, DB!StoredPlaylists
    <3> QED
      BY <1>3, <1>6, <1>13, <2>1, <3>1 DEF PutItem, Allowed
  <2> QED
    BY <1>4, <1>13, <2>1 DEF PutItem
<1>14. CASE DetailChannel(h)
  <2>1. handler[h].c \in Channels
    BY <1>14, HandlerLocals DEF DetailChannel, IInv, ChannelGiven, DB!ChannelRef
  <2>2. DB!Next
    BY <1>14, <2>1 DEF DetailChannel, DB!Next
  <2> QED
    BY <1>1, <1>6, <1>14, <2>2 DEF DetailChannel, Allowed
<1>15. CASE DetailVideo(h)
  <2>1. CASE DB!FKChannel(handler[h].c)
    <3>1. DB!UpsertFromDetail(handler[h].v, handler[h].c, handler[h].form = "name")
      BY <1>15, <2>1 DEF DetailVideo
    <3>2. DB!Next
      BY <1>15, <3>1, HandlerLocals DEF DetailVideo, DB!Next
    <3> QED
      BY <1>3, <1>6, <1>15, <2>1, <3>2 DEF DetailVideo, Allowed
  <2> QED
    BY <1>4, <1>15, <2>1 DEF DetailVideo
<1>16. CASE PutComment(h)
  <2>1. CASE handler[h].v \in DB!Stored
    <3>1. DB!Next
      BY <1>16, <2>1 DEF PutComment, DB!Next, DB!Stored
    <3> QED
      BY <1>3, <1>6, <1>16, <2>1, <3>1 DEF PutComment, Allowed
  <2> QED
    BY <1>4, <1>16, <2>1 DEF PutComment
<1> QED
  BY <1>7, <1>8, <1>9, <1>10, <1>11, <1>12, <1>13, <1>14, <1>15, <1>16 DEF HandlerStep

-----------------------------------------------------------------------------
\* So is what the worker does for the job on slot w.
LEMMA WorkerGoesOn ==
    ASSUME IInv, NEW w \in Slots, WorkerTake(w) \/ WorkerStep(w)
    PROVE  Allowed
<1>0. NoWork \in WorkerState /\ NoWork.pc = "idle"
  BY DEF NoWork, WorkerState
<1>1. ASSUME NEW state \in WorkerState,
             state.pc = "channel" => state.c # NoChannel,
             worker[w].pc # "idle", WorkerGoes(w, state), UNCHANGED queueVars
      PROVE  IInv' /\ [Q!Next]_queueVars
  <2>1. slot' = slot /\ slot[w] # Idle
    BY <1>0, <1>1 DEF queueVars, IInv, WorksOnJob
  <2> QED
    BY <1>1, <2>1, WorkerMoves DEF IInv, LocalsOK
<1>2. ASSUME WorkerThrows(w) PROVE Allowed
  <2>1. /\ slot' \in [Slots -> Videos \cup {Idle}]
        /\ \A x \in Slots : x # w => slot'[x] = slot[x]
    BY <1>2 DEF WorkerThrows, Q!Fail, IInv, LocalsOK
  <2>2. IInv'
    BY <1>0, <1>2, <2>1, WorkerMoves DEF WorkerThrows
  <2> QED
    BY <1>2, <2>2 DEF WorkerThrows, Allowed, Q!Next
<1>3. \A pc \in {"fetch", "gone", "label", "comments", "attach", "done"} :
         [pc |-> pc] \in WorkerState
  BY DEF WorkerState
<1>4. CASE WorkerTake(w)
  <2>1. PICK v \in Videos : Q!Take(w, v)
    BY <1>4 DEF WorkerTake
  <2>2. /\ slot' \in [Slots -> Videos \cup {Idle}]
        /\ \A x \in Slots : x # w => slot'[x] = slot[x]
        /\ slot'[w] # Idle
    BY <2>1, PipelineAssumption DEF Q!Take, IInv, LocalsOK
  <2>3. IInv'
    BY <1>3, <1>4, <2>2, WorkerMoves DEF WorkerTake
  <2> QED
    BY <1>4, <2>1, <2>3 DEF WorkerTake, Allowed, Q!Next
<1>5. CASE WorkerFetch(w)
  <2>1. CASE WorkerThrows(w)
    BY <1>2, <2>1
  <2>2. CASE /\ WorkerGoes(w, [pc |-> "gone"])
             /\ UNCHANGED <<dbVars, queueVars>>
    BY <1>1, <1>3, <1>5, <2>2 DEF WorkerFetch, Allowed
  <2>3. ASSUME NEW c \in DB!ChannelRef, NEW form \in {"name", "null"},
               WorkerGoes(w, [pc |-> IF c # NoChannel /\ form = "name"
                                     THEN "channel" ELSE "detail",
                              c |-> c, form |-> form]),
               UNCHANGED <<dbVars, queueVars>>
        PROVE  Allowed
    <3> DEFINE state == [pc |-> IF c # NoChannel /\ form = "name"
                                THEN "channel" ELSE "detail",
                         c |-> c, form |-> form]
    <3>1. state \in WorkerState /\ (state.pc = "channel" => state.c # NoChannel)
      BY DEF WorkerState
    <3> HIDE DEF state
    <3> QED
      BY <1>1, <1>5, <2>3, <3>1 DEF WorkerFetch, Allowed, state
  <2> QED
    BY <1>5, <2>1, <2>2, <2>3 DEF WorkerFetch
<1>6. CASE WorkerChannel(w)
  <2> DEFINE state == [worker[w] EXCEPT !.pc = "detail"]
  <2>1. worker[w].c \in Channels
    BY <1>6, WorkerLocals DEF WorkerChannel, IInv, ChannelGiven, DB!ChannelRef
  <2>2. DB!Next
    BY <1>6, <2>1 DEF WorkerChannel, DB!Next
  <2>3. state \in WorkerState /\ state.pc = "detail"
    BY <1>6, WorkerLocals DEF WorkerChannel, WorkerState
  <2>4. WorkerGoes(w, state) /\ worker[w].pc # "idle" /\ UNCHANGED queueVars
    BY <1>6 DEF WorkerChannel
  <2> HIDE DEF state
  <2> QED
    BY <1>1, <2>2, <2>3, <2>4 DEF Allowed
<1>7. CASE WorkerDetail(w)
  <2>1. CASE DB!FKChannel(worker[w].c)
    <3>1. /\ DB!UpsertFromDetail(slot[w], worker[w].c, worker[w].form = "name")
          /\ UNCHANGED queueVars
      BY <1>7, <2>1 DEF WorkerDetail
    <3>2. DB!Next
      BY <1>7, <3>1, WorkerLocals DEF WorkerDetail, DB!Next
    <3>3. PICK next \in {"label", "done"} : WorkerGoes(w, [pc |-> next])
      BY <1>7, <2>1 DEF WorkerDetail
    <3> QED
      BY <1>1, <1>3, <1>7, <3>1, <3>2, <3>3 DEF WorkerDetail, Allowed
  <2> QED
    BY <1>2, <1>7, <2>1 DEF WorkerDetail
<1>8. CASE WorkerLabel(w)
  BY <1>1, <1>3, <1>8 DEF WorkerLabel, Allowed
<1>9. CASE WorkerComments(w)
  BY <1>1, <1>3, <1>9 DEF WorkerComments, Allowed
<1>10. CASE WorkerAttach(w)
  <2>1. [DB!Next]_dbVars
    BY <1>10, WorkerLocals DEF WorkerAttach, DB!Next
  <2> QED
    BY <1>1, <1>3, <1>10, <2>1 DEF WorkerAttach, Allowed
<1>11. CASE WorkerReturn(w)
  <2>1. /\ slot' \in [Slots -> Videos \cup {Idle}]
        /\ \A x \in Slots : x # w => slot'[x] = slot[x]
    BY <1>11 DEF WorkerReturn, Q!Complete, IInv, LocalsOK
  <2>2. IInv'
    BY <1>0, <1>11, <2>1, WorkerMoves DEF WorkerReturn
  <2> QED
    BY <1>11, <2>2 DEF WorkerReturn, Allowed, Q!Next
<1> QED
  BY <1>4, <1>5, <1>6, <1>7, <1>8, <1>9, <1>10, <1>11 DEF WorkerStep

-----------------------------------------------------------------------------
\* And what a repair, a cleanup or a sync does.
LEMMA TaskGoesOn ==
    ASSUME IInv, NEW t \in Tasks, StartTask(t) \/ TaskStep(t)
    PROVE  Allowed
<1>0. NoTask \in TaskState /\ NoTask.pc = "idle"
  BY DEF NoTask, TaskState
<1>1. MaxPolls \in Nat \ {0}
  BY PipelineAssumption
<1>2. ASSUME NEW state \in TaskState,
             state.pc \in {"repair", "queue"} => state.polls = 0,
             state.pc = "poll" => state.polls < MaxPolls,
             TaskGoes(t, state), UNCHANGED queueVars
      PROVE  IInv' /\ [Q!Next]_queueVars
  BY <1>2, TaskMoves DEF queueVars
<1>3. CASE StartTask(t)
  <2>1. PICK kind \in {"repair", "cleanup", "sync"} :
          TaskGoes(t, [pc |-> IF kind = "cleanup" THEN "junk" ELSE "repair",
                       todo |-> {}, sync |-> kind = "sync", polls |-> 0])
    BY <1>3 DEF StartTask
  <2> DEFINE state == [pc |-> IF kind = "cleanup" THEN "junk" ELSE "repair",
                       todo |-> {}, sync |-> kind = "sync", polls |-> 0]
  <2>2. state \in TaskState /\ state.polls = 0 /\ state.pc # "poll"
    BY <1>1 DEF TaskState
  <2> HIDE DEF state
  <2> QED
    BY <1>2, <1>3, <2>1, <2>2 DEF StartTask, Allowed, state
<1>4. CASE RepairScan(t)
  <2> DEFINE found == {v \in DB!Stored : /\ ~ video[v].detailed
                                         /\ \E i \in items : i[2] = v}
             state == [task[t] EXCEPT !.pc = "queue", !.todo = found]
  <2>1. found \in SUBSET Videos
    BY DEF DB!Stored
  <2> HIDE DEF found
  <2>2. /\ state \in TaskState /\ state.pc = "queue" /\ state.polls = 0
    BY <1>4, <2>1, TaskLocals DEF RepairScan, TaskState, IInv, PollsLeft
  <2>3. TaskGoes(t, state) /\ UNCHANGED <<dbVars, queueVars>>
    BY <1>4 DEF RepairScan, found
  <2> HIDE DEF state
  <2> QED
    BY <1>2, <2>2, <2>3 DEF Allowed
<1>5. CASE RepairQueue(t)
  <2>1. task[t] \in [pc : {"queue", "dropItems", "dropVideos"}, todo : SUBSET Videos,
                     sync : BOOLEAN, polls : 0 .. MaxPolls]
        /\ task[t].pc = "queue" /\ task[t].polls = 0
    BY <1>5, TaskLocals DEF RepairQueue, IInv, PollsLeft
  <2>2. ASSUME NEW v \in task[t].todo, Q!Add(v),
               TaskGoes(t, [task[t] EXCEPT !.todo = @ \ {v}])
        PROVE  Allowed
    <3> DEFINE state == [task[t] EXCEPT !.todo = @ \ {v}]
    <3>1. /\ state \in TaskState /\ state.pc = "queue" /\ state.polls = 0
      BY <2>1 DEF TaskState
    <3>2. TaskGoes(t, state) /\ UNCHANGED dbVars
      BY <1>5, <2>2 DEF RepairQueue
    <3>3. Q!Next /\ slot' = slot
      BY <2>1, <2>2 DEF Q!Next, Q!Add
    <3> HIDE DEF state
    <3> QED
      BY <3>1, <3>2, <3>3, TaskMoves DEF Allowed
  <2>3. ASSUME task[t].todo = {},
               TaskGoes(t, IF task[t].sync THEN [task[t] EXCEPT !.pc = "poll"]
                           ELSE NoTask),
               UNCHANGED queueVars
        PROVE  Allowed
    <3> DEFINE state == IF task[t].sync THEN [task[t] EXCEPT !.pc = "poll"] ELSE NoTask
    <3>1. /\ state \in TaskState
          /\ state.pc = "poll" => state.polls < MaxPolls
          /\ state.pc \notin {"repair", "queue"}
      <4>1. CASE task[t].sync
        BY <1>1, <2>1, <2>3, <4>1 DEF TaskState
      <4>2. CASE ~ task[t].sync
        BY <1>0, <4>2
      <4> QED
        BY <4>1, <4>2
    <3>2. TaskGoes(t, state) /\ UNCHANGED dbVars
      BY <1>5, <2>3 DEF RepairQueue
    <3> HIDE DEF state
    <3> QED
      BY <1>2, <2>3, <3>1, <3>2 DEF Allowed
  <2> QED
    BY <1>5, <2>2, <2>3 DEF RepairQueue
<1>6. CASE SyncPoll(t)
  <2>1. task[t] \in [pc : {"repair", "poll", "junk", "orphans"}, todo : {{}},
                     sync : BOOLEAN, polls : 0 .. MaxPolls]
        /\ task[t].pc = "poll" /\ task[t].polls < MaxPolls
    BY <1>6, TaskLocals DEF SyncPoll, IInv, PollsLeft
  <2>2. CASE TaskGoes(t, [task[t] EXCEPT !.pc = "junk"])
    <3> DEFINE state == [task[t] EXCEPT !.pc = "junk"]
    <3>1. state \in TaskState /\ state.pc = "junk"
      BY <2>1 DEF TaskState
    <3> HIDE DEF state
    <3> QED
      BY <1>2, <1>6, <2>2, <3>1 DEF SyncPoll, Allowed, state
  <2>3. CASE TaskGoes(t, [task[t] EXCEPT
                !.polls = @ + 1,
                !.pc = IF task[t].polls + 1 = MaxPolls THEN "junk" ELSE "poll"])
    <3> DEFINE state == [task[t] EXCEPT
                !.polls = @ + 1,
                !.pc = IF task[t].polls + 1 = MaxPolls THEN "junk" ELSE "poll"]
    <3>1. /\ state.pc \in {"poll", "junk"}
          /\ state.pc = "poll" => state.polls < MaxPolls
          /\ state.polls \in 0 .. MaxPolls
      BY <1>1, <2>1
    <3>2. state \in TaskState
      BY <2>1, <3>1 DEF TaskState
    <3> HIDE DEF state
    <3> QED
      BY <1>2, <1>6, <2>3, <3>1, <3>2 DEF SyncPoll, Allowed, state
  <2> QED
    BY <1>6, <2>2, <2>3 DEF SyncPoll
<1>7. CASE JunkScan(t)
  <2> DEFINE junk == {v \in Videos : DB!Junk(v)}
             state == [task[t] EXCEPT !.todo = junk,
                          !.pc = IF junk = {} THEN "orphans" ELSE "dropItems"]
  <2>1. junk \in SUBSET Videos
    OBVIOUS
  <2> HIDE DEF junk
  <2>2. /\ state \in TaskState /\ state.pc \in {"orphans", "dropItems"}
    <3>1. CASE junk = {}
      BY <1>7, <3>1, TaskLocals DEF JunkScan, TaskState
    <3>2. CASE junk # {}
      BY <1>7, <2>1, <3>2, TaskLocals DEF JunkScan, TaskState
    <3> QED
      BY <3>1, <3>2
  <2>3. TaskGoes(t, state) /\ UNCHANGED <<dbVars, queueVars>>
    BY <1>7 DEF JunkScan, junk
  <2> HIDE DEF state
  <2> QED
    BY <1>2, <2>2, <2>3 DEF Allowed
<1>8. CASE DropItems(t)
  <2> DEFINE state == [task[t] EXCEPT !.pc = "dropVideos"]
  <2>1. DB!Next
    BY <1>8, TaskLocals DEF DropItems, DB!Next
  <2>2. state \in TaskState /\ state.pc = "dropVideos"
    BY <1>8, TaskLocals DEF DropItems, TaskState
  <2>3. TaskGoes(t, state) /\ UNCHANGED queueVars
    BY <1>8 DEF DropItems
  <2> HIDE DEF state
  <2> QED
    BY <1>2, <2>1, <2>2, <2>3 DEF Allowed
<1>9. CASE DropVideos(t)
  <2> DEFINE state == [task[t] EXCEPT !.pc = "orphans", !.todo = {}]
  <2>1. DB!Next
    BY <1>9, TaskLocals DEF DropVideos, DB!Next
  <2>2. state \in TaskState /\ state.pc = "orphans"
    BY <1>9, TaskLocals DEF DropVideos, TaskState
  <2>3. TaskGoes(t, state) /\ UNCHANGED queueVars
    BY <1>9 DEF DropVideos
  <2> HIDE DEF state
  <2> QED
    BY <1>2, <2>1, <2>2, <2>3 DEF Allowed
<1>10. CASE OrphanScan(t)
  <2> DEFINE orphans == {c \in Channels : DB!OrphanChannel(c)}
             state == IF orphans = {} THEN NoTask
                      ELSE [task[t] EXCEPT !.todo = orphans, !.pc = "dropChannels"]
  <2>1. orphans \in SUBSET Channels
    OBVIOUS
  <2> HIDE DEF orphans
  <2>2. state \in TaskState /\ state.pc \in {"idle", "dropChannels"}
    <3>1. CASE orphans = {}
      BY <1>0, <3>1
    <3>2. CASE orphans # {}
      BY <1>10, <2>1, <3>2, TaskLocals DEF OrphanScan, TaskState
    <3> QED
      BY <3>1, <3>2
  <2>3. TaskGoes(t, state) /\ UNCHANGED <<dbVars, queueVars>>
    BY <1>10 DEF OrphanScan, orphans
  <2> HIDE DEF state
  <2> QED
    BY <1>2, <2>2, <2>3 DEF Allowed
<1>11. CASE DropChannels(t)
  <2>1. DB!Next
    BY <1>11, TaskLocals DEF DropChannels, DB!Next
  <2> QED
    BY <1>0, <1>2, <1>11, <2>1 DEF DropChannels, Allowed
<1> QED
  BY <1>3, <1>4, <1>5, <1>6, <1>7, <1>8, <1>9, <1>10, <1>11 DEF TaskStep

-----------------------------------------------------------------------------
\* Every step keeps the invariant, and is one of Catalogue's and of JobQueue's
\* or leaves their variables alone.
LEMMA NextAllowed == IInv /\ [Next]_vars => Allowed
<1> SUFFICES ASSUME IInv, [Next]_vars PROVE Allowed
  OBVIOUS
<1>1. CASE SingleStatement
  <2>1. DB!Next
    <3>1. Channels \subseteq DB!ChannelRef
      BY DEF DB!ChannelRef
    <3> QED
      BY <1>1, <3>1 DEF SingleStatement, DB!Next
  <2> QED
    BY <1>1, <2>1 DEF SingleStatement, Allowed, queueVars, IInv, LocalsOK,
                      ChannelGiven, WorksOnJob, PollsLeft
<1>2. CASE QueueTimers
  <2>1. Q!Next
    BY <1>2 DEF QueueTimers, Q!Next
  <2>2. slot' = slot
    BY <1>2 DEF QueueTimers, Q!Promote, Q!RecoverStalled
  <2> QED
    BY <1>2, <2>1, <2>2 DEF QueueTimers, Allowed, IInv, LocalsOK, ChannelGiven,
                            WorksOnJob, PollsLeft
<1>3. CASE Crash
  <2>1. /\ \A h \in Handlers : handler'[h] = NoHandler
        /\ \A w \in Slots : worker'[w] = NoWork
        /\ \A t \in Tasks : task'[t] = NoTask
    BY <1>3 DEF Crash
  <2>2. LocalsOK'
    BY <1>3 DEF Crash, Q!Crash, LocalsOK, HandlerState, WorkerState, TaskState
  <2>3. ChannelGiven' /\ WorksOnJob' /\ PollsLeft'
    BY <2>1 DEF ChannelGiven, WorksOnJob, PollsLeft, NoHandler, NoWork, NoTask
  <2> QED
    BY <1>3, <2>2, <2>3 DEF Crash, Allowed, IInv, Q!Next
<1>4. CASE UNCHANGED vars
  BY <1>4 DEF vars, Allowed, dbVars, queueVars, IInv, LocalsOK, ChannelGiven,
              WorksOnJob, PollsLeft
<1> QED
  BY <1>1, <1>2, <1>3, <1>4, RequestStarts, RequestGoesOn, WorkerGoesOn, TaskGoesOn
     DEF Next

\* It holds initially.
LEMMA InitIInv == Init => IInv
<1> SUFFICES ASSUME Init PROVE IInv
  OBVIOUS
<1>1. LocalsOK
  BY DEF Init, Q!Init, LocalsOK, HandlerState, WorkerState, TaskState
<1>2. ChannelGiven /\ WorksOnJob /\ PollsLeft
  BY DEF Init, ChannelGiven, WorksOnJob, PollsLeft, NoHandler, NoWork, NoTask
<1> QED
  BY <1>1, <1>2 DEF IInv

\* It holds of every behaviour.
THEOREM PipelineInvariant == Spec => []IInv
<1>1. Init => IInv
  BY InitIInv
<1>2. IInv /\ [Next]_vars => IInv'
  BY NextAllowed DEF Allowed
<1> QED
  BY <1>1, <1>2, PTL DEF Spec

\* The services issue no statement but those Catalogue has: for any number of
\* requests, jobs and tasks, in any order, and over crashes.
THEOREM PipelineUsesCatalogue == Spec => UsesCatalogue
<1>1. Init => DB!Init
  BY DEF Init
<1>2. IInv /\ [Next]_vars => [DB!Next]_DB!vars
  BY NextAllowed DEF Allowed, dbVars, DB!vars
<1> QED
  BY <1>1, <1>2, PipelineInvariant, PTL DEF Spec, UsesCatalogue, DB!Spec

\* And they use the detail queue in no way JobQueue does not have: a job is
\* completed or failed only by the slot that took it.
THEOREM PipelineUsesQueue == Spec => UsesQueue
<1>1. Init => Q!Init
  BY DEF Init
<1>2. IInv /\ [Next]_vars => [Q!Next]_Q!vars
  BY NextAllowed DEF Allowed, queueVars, Q!vars
<1> QED
  BY <1>1, <1>2, PipelineInvariant, PTL DEF Spec, UsesQueue, Q!Spec

-----------------------------------------------------------------------------
(* What is proved of Catalogue and of JobQueue, taken over.                  *)

\* The tables and the queue are in order, and so are the locals.
Sound ==
    /\ IInv
    /\ DB!TypeOK /\ DB!ReferencesResolve
    /\ Q!TypeOK /\ Q!OneSlotPerJob /\ Q!BudgetLeft

\* The two modules mean the same by a table in order.
LEMMA SameTables == DBP!IInv <=> DB!TypeOK /\ DB!ReferencesResolve
  BY DEF DBP!IInv, DBP!TypeOK, DBP!ReferencesResolve, DBP!Row, DBP!ChannelRef,
     DBP!Stored, DBP!StoredPlaylists, DBP!StoredShorts, DBP!FKChannel,
     DB!TypeOK, DB!ReferencesResolve, DB!Row, DB!ChannelRef,
     DB!Stored, DB!StoredPlaylists, DB!StoredShorts, DB!FKChannel

\* And by a statement.
LEMMA SameStatements == [DB!Next]_dbVars => [DBP!Next]_DBP!vars
  BY DEF dbVars, DB!Next, DB!UpsertChannel, DB!UpsertFromCrawl, DB!UpsertFromDetail,
     DB!UpsertUnavailable, DB!UpsertStub, DB!Attach, DB!SaveDetail, DB!SaveUnavailable,
     DB!SaveShort, DB!UpsertPlaylist, DB!UpsertShort, DB!UpsertItem, DB!DeleteItemsOf,
     DB!DeleteVideos, DB!DeleteChannels, DB!FKChannel, DB!IsSet, DB!Detailed, DB!Stored,
     DB!StoredPlaylists, DB!ChannelRef, DB!NameForm,
     DBP!vars, DBP!Next, DBP!UpsertChannel, DBP!UpsertFromCrawl, DBP!UpsertFromDetail,
     DBP!UpsertUnavailable, DBP!UpsertStub, DBP!Attach, DBP!SaveDetail,
     DBP!SaveUnavailable, DBP!SaveShort, DBP!UpsertPlaylist, DBP!UpsertShort,
     DBP!UpsertItem, DBP!DeleteItemsOf, DBP!DeleteVideos, DBP!DeleteChannels,
     DBP!FKChannel, DBP!IsSet, DBP!Detailed, DBP!Stored, DBP!StoredPlaylists,
     DBP!ChannelRef, DBP!NameForm

\* A statement of Catalogue keeps its tables in order: CatalogueProofs!NextIInv.
LEMMA NextTables ==
    ASSUME DB!TypeOK, DB!ReferencesResolve, [DB!Next]_dbVars
    PROVE  DB!TypeOK' /\ DB!ReferencesResolve'
<1>1. DBP!IInv /\ [DBP!Next]_DBP!vars => DBP!IInv'
  BY DBP!NextIInv, PipelineAssumption
     DEF DBP!ChannelRef, DBP!Row, DB!ChannelRef, DB!Row
<1>2. (DBP!IInv <=> DB!TypeOK /\ DB!ReferencesResolve)'
  BY SameTables, PTL
<1> QED
  BY <1>1, <1>2, SameTables, SameStatements

\* And the details in them: CatalogueProofs!NextKeepsDetail.
LEMMA NextDetails ==
    ASSUME DB!TypeOK, DB!ReferencesResolve, [DB!Next]_dbVars,
           NEW v \in Videos, DB!Detailed(v), video'[v] # Absent
    PROVE  DB!Detailed(v)'
<1>1. DBP!IInv /\ [DBP!Next]_DBP!vars /\ DBP!Detailed(v) /\ video'[v] # Absent
      => DBP!Detailed(v)'
  BY DBP!NextKeepsDetail, PipelineAssumption
     DEF DBP!ChannelRef, DBP!Row, DB!ChannelRef, DB!Row
<1>2. DB!Detailed(v) => DBP!Detailed(v)
  BY DEF DB!Detailed, DBP!Detailed
<1>3. DBP!Detailed(v)' => DB!Detailed(v)'
  BY DEF DB!Detailed, DBP!Detailed
<1> QED
  BY <1>1, <1>2, <1>3, SameTables, SameStatements

\* And by a queue in order.
LEMMA SameQueue == QP!IInv <=> Q!TypeOK /\ Q!OneSlotPerJob /\ Q!BudgetLeft
  BY DEF QP!IInv, QP!TypeOK, QP!OneSlotPerJob, QP!BudgetLeft, QP!JobRecord,
     QP!Pending, QP!Finished, Q!TypeOK, Q!OneSlotPerJob, Q!BudgetLeft, Q!JobRecord,
     Q!Pending, Q!Finished

\* What JobQueue does keeps its records in order: JobQueueProofs!NextIInv.
LEMMA NextQueue ==
    ASSUME Q!TypeOK, Q!OneSlotPerJob, Q!BudgetLeft, [Q!Next]_queueVars
    PROVE  Q!TypeOK' /\ Q!OneSlotPerJob' /\ Q!BudgetLeft'
<1>1. QP!IInv /\ [QP!Next]_QP!vars => QP!IInv'
  BY QP!NextIInv, PipelineAssumption DEF QP!IsFiniteSet, IsFiniteSet
<1>2. [QP!Next]_QP!vars
  BY DEF queueVars, Q!Next, Q!Add, Q!Promote, Q!RecoverStalled, Q!Take, Q!Complete,
     Q!Fail, Q!Crash, Q!Finish, Q!In, Q!Held, Q!Moved, Q!Record, Q!NoJob,
     QP!vars, QP!Next, QP!Add, QP!Promote, QP!RecoverStalled, QP!Take, QP!Complete,
     QP!Fail, QP!Crash, QP!Finish, QP!In, QP!Held, QP!Moved, QP!Record, QP!NoJob,
     Q!Cardinality, QP!Cardinality
<1>3. (QP!IInv <=> Q!TypeOK /\ Q!OneSlotPerJob /\ Q!BudgetLeft)'
  BY SameQueue, PTL
<1> QED
  BY <1>1, <1>2, <1>3, SameQueue

\* Every step of the pipeline keeps all of it.
LEMMA NextSound == Sound /\ [Next]_vars => Sound'
  BY NextAllowed, NextTables, NextQueue DEF Allowed, Sound

\* It holds initially.
LEMMA InitSound == Init => Sound
<1> SUFFICES ASSUME Init PROVE Sound
  OBVIOUS
<1>1. DB!TypeOK /\ DB!ReferencesResolve
  BY DEF Init, DB!Init, DB!TypeOK, DB!ReferencesResolve, DB!Stored,
     DB!StoredPlaylists, DB!StoredShorts
<1>2. Q!NoJob \in Q!JobRecord /\ Q!NoJob.state = "none"
  BY PipelineAssumption DEF Q!NoJob, Q!Record, Q!JobRecord
<1>3. Q!TypeOK /\ Q!OneSlotPerJob /\ Q!BudgetLeft
  BY <1>2 DEF Init, Q!Init, Q!TypeOK, Q!OneSlotPerJob, Q!BudgetLeft, Q!Pending
<1> QED
  BY <1>1, <1>3, InitIInv DEF Sound

\* The tables, the queue and every request, job and task stay in order
\* together: no reference dangles and no two slots run the same job, whoever
\* overlaps with whom.
THEOREM PipelineSound == Spec => []Sound
  BY InitSound, NextSound, PTL DEF Spec

\* The locals of every request, job and task, the rows and the job records are
\* always of their types: what a step reads was put there for it.
THEOREM PipelineTypeOK == Spec => []TypeOK
<1>1. Sound => TypeOK
  BY DEF Sound, IInv, LocalsOK, TypeOK
<1> QED
  BY <1>1, PipelineSound, PTL

\* No request, job, repair, sync or crash takes a video's detail away without its
\* row.
THEOREM PipelineKeepsDetail == Spec => DB!DetailIsKept
<1> DEFINE Keeps == \A v \in Videos : DB!Detailed(v) /\ video'[v] # Absent
                                    => DB!Detailed(v)'
<1>1. Sound /\ [Next]_vars => [Keeps]_dbVars
  BY NextAllowed, NextDetails DEF Sound, Allowed
<1> HIDE DEF Keeps
<1>2. Spec => [][Keeps]_dbVars
  BY <1>1, PipelineSound, PTL DEF Spec
<1> QED
  BY <1>2 DEF DB!DetailIsKept, DB!vars, dbVars, Keeps

-----------------------------------------------------------------------------
(* Where requests and tasks go in a step.                                    *)

\* The code after a statement goes on with the locals it has.
LEMMA RequestContinues ==
    ASSUME IInv, NEW h \in Handlers, NEW pc, Continue(h, pc), handler[h] # NoHandler
    PROVE  /\ handler'[h].pc = pc
           /\ handler'[h].v = handler[h].v
<1> DEFINE state == [handler[h] EXCEPT !.pc = pc]
<1>1. handler[h] \in HandlerState /\ handler'[h] = state
  BY DEF IInv, LocalsOK, Continue, HandlerGoes
<1>2. state.pc = pc /\ state.v = handler[h].v
  BY <1>1 DEF HandlerState
<1> HIDE DEF state
<1> QED
  BY <1>1, <1>2

\* A request that is over, has failed, or has not arrived.
LEMMA RequestEnds ==
    ASSUME IInv, NEW h \in Handlers, HandlerGoes(h, NoHandler)
    PROVE  handler'[h].pc = "idle"
  BY DEF IInv, LocalsOK, HandlerGoes, NoHandler

\* Where a request starts.
LEMMA RequestStartsAt ==
    ASSUME IInv, NEW h \in Handlers, HandlerStart(h)
    PROVE  /\ ~ Busy(h)
           /\ handler'[h].pc \in {"channel", "video", "stub", "detailChannel", "detail",
                                  "comment"}
           /\ handler'[h].pc \in {"detailChannel", "detail"} => "detail" \in Kinds
<1>0. handler \in [Handlers -> HandlerState]
  BY DEF IInv, LocalsOK
<1>1. ASSUME NEW state, HandlerGoes(h, state) PROVE handler'[h] = state
  BY <1>0, <1>1 DEF HandlerGoes
<1>2. ~ Busy(h)
  BY DEF HandlerStart, StartList, StartChannelVideos, StartPlaylistItems, StartDetail,
     StartComments
<1>3. CASE StartList(h)
  <2>1. PICK v \in Videos, c \in DB!ChannelRef, form \in Forms :
          HandlerGoes(h, [pc |-> IF c # NoChannel /\ form = "name"
                                 THEN "channel" ELSE "video",
                          v |-> v, c |-> c, form |-> form, ranked |-> TRUE])
    BY <1>3 DEF StartList
  <2> DEFINE state == [pc |-> IF c # NoChannel /\ form = "name"
                              THEN "channel" ELSE "video",
                       v |-> v, c |-> c, form |-> form, ranked |-> TRUE]
  <2>2. state.pc \in {"channel", "video"} /\ HandlerGoes(h, state)
    BY <2>1
  <2> HIDE DEF state
  <2> QED
    BY <1>1, <1>2, <2>2
<1>4. CASE StartChannelVideos(h)
  BY <1>1, <1>2, <1>4 DEF StartChannelVideos
<1>5. CASE StartPlaylistItems(h)
  BY <1>1, <1>2, <1>5 DEF StartPlaylistItems
<1>6. CASE StartDetail(h)
  <2>1. PICK v \in Videos, c \in DB!ChannelRef, form \in {"name", "null"} :
          HandlerGoes(h, [pc |-> IF c # NoChannel /\ form = "name"
                                 THEN "detailChannel" ELSE "detail",
                          v |-> v, c |-> c, form |-> form, ranked |-> FALSE])
    BY <1>6 DEF StartDetail
  <2> DEFINE state == [pc |-> IF c # NoChannel /\ form = "name"
                              THEN "detailChannel" ELSE "detail",
                       v |-> v, c |-> c, form |-> form, ranked |-> FALSE]
  <2>2. state.pc \in {"detailChannel", "detail"} /\ HandlerGoes(h, state)
    BY <2>1
  <2> HIDE DEF state
  <2>3. "detail" \in Kinds
    BY <1>6 DEF StartDetail, Arrives
  <2> QED
    BY <1>1, <1>2, <2>2, <2>3
<1>7. CASE StartComments(h)
  BY <1>1, <1>2, <1>7 DEF StartComments
<1> QED
  BY <1>3, <1>4, <1>5, <1>6, <1>7 DEF HandlerStart

\* Where a request goes from each of its statements.
LEMMA RequestPath ==
    ASSUME IInv, NEW h \in Handlers
    PROVE  /\ ListChannel(h) => handler'[h].pc = "video"
           /\ ListVideo(h) \/ StubVideo(h) =>
                 \/ UNCHANGED dbVars /\ handler'[h].pc = "idle"
                 \/ /\ handler'[h].pc \in {"rank", "enqueue", "stubEnqueue", "item"}
                    /\ handler'[h].v = handler[h].v
           /\ ListRank(h) =>
                 \/ ~ (handler[h].v \in DB!Stored) /\ handler'[h].pc = "idle"
                 \/ /\ handler[h].v \in DB!Stored
                    /\ handler'[h].pc = "enqueue"
                    /\ handler'[h].v = handler[h].v
           /\ StubEnqueue(h) => handler'[h].pc = "item"
           /\ ListEnqueue(h) \/ PutItem(h) \/ DetailVideo(h) \/ PutComment(h) =>
                 handler'[h].pc = "idle"
<1>1. ASSUME NEW pc, Continue(h, pc), handler[h].pc # "idle"
      PROVE  handler'[h].pc = pc /\ handler'[h].v = handler[h].v
  BY <1>1, RequestContinues DEF NoHandler
<1>2. ASSUME ListVideo(h)
      PROVE  \/ UNCHANGED dbVars /\ handler'[h].pc = "idle"
             \/ handler'[h].pc \in {"rank", "enqueue"} /\ handler'[h].v = handler[h].v
  <2>1. CASE DB!FKChannel(handler[h].c)
    BY <1>1, <1>2, <2>1 DEF ListVideo
  <2>2. CASE ~ DB!FKChannel(handler[h].c)
    BY <1>2, <2>2, RequestEnds DEF ListVideo, Abort
  <2> QED
    BY <2>1, <2>2
<1>3. ASSUME StubVideo(h)
      PROVE  handler'[h].pc \in {"stubEnqueue", "item"} /\ handler'[h].v = handler[h].v
  BY <1>1, <1>3 DEF StubVideo
<1>4. ASSUME ListChannel(h) PROVE handler'[h].pc = "video"
  BY <1>1, <1>4 DEF ListChannel
<1>5. ASSUME StubEnqueue(h) PROVE handler'[h].pc = "item"
  BY <1>1, <1>5 DEF StubEnqueue
<1>6. ASSUME ListRank(h)
      PROVE  \/ ~ (handler[h].v \in DB!Stored) /\ handler'[h].pc = "idle"
             \/ /\ handler[h].v \in DB!Stored
                /\ handler'[h].pc = "enqueue"
                /\ handler'[h].v = handler[h].v
  BY <1>1, <1>6, RequestEnds DEF ListRank, Abort
<1>7. ASSUME ListEnqueue(h) \/ PutItem(h) \/ DetailVideo(h) \/ PutComment(h)
      PROVE  handler'[h].pc = "idle"
  BY <1>7, RequestEnds DEF ListEnqueue, PutItem, DetailVideo, PutComment, Abort
<1> QED
  BY <1>2, <1>3, <1>4, <1>5, <1>6, <1>7

\* Where a task goes from each of its statements.
LEMMA TaskPath ==
    ASSUME IInv, NEW t \in Tasks
    PROVE  /\ StartTask(t) => /\ task'[t].pc \in {"repair", "junk"}
                              /\ task'[t].pc = "junk" => "cleanup" \in Kinds
           /\ RepairScan(t) =>
                 /\ task'[t].pc = "queue"
                 /\ task'[t].todo = {v \in DB!Stored : /\ ~ video[v].detailed
                                                       /\ \E i \in items : i[2] = v}
           /\ RepairQueue(t) =>
                 \/ \E v \in task[t].todo : /\ Q!Add(v)
                                            /\ task'[t].pc = "queue"
                                            /\ task'[t].todo = task[t].todo \ {v}
                 \/ /\ task[t].todo = {}
                    /\ task'[t].pc \in {"poll", "idle"}
                    /\ UNCHANGED queueVars
           /\ SyncPoll(t) =>
                 \/ task'[t].pc = "junk" /\ (Drains => QueueDrained)
                 \/ task'[t].pc = "poll" /\ ~ Drains
           /\ JunkScan(t) => task'[t].pc \in {"orphans", "dropItems"}
           /\ DropItems(t) => task'[t].pc = "dropVideos"
           /\ DropVideos(t) => task'[t].pc = "orphans"
           /\ OrphanScan(t) => task'[t].pc \in {"idle", "dropChannels"}
           /\ DropChannels(t) => task'[t].pc = "idle"
<1>0. task \in [Tasks -> TaskState] /\ NoTask.pc = "idle"
  BY DEF IInv, LocalsOK, NoTask
<1>1. ASSUME NEW state, TaskGoes(t, state) PROVE task'[t] = state
  BY <1>0, <1>1 DEF TaskGoes
<1>2. ASSUME StartTask(t)
      PROVE  /\ task'[t].pc \in {"repair", "junk"}
             /\ task'[t].pc = "junk" => "cleanup" \in Kinds
  <2>1. PICK kind \in {"repair", "cleanup", "sync"} :
          /\ Arrives(kind)
          /\ TaskGoes(t, [pc |-> IF kind = "cleanup" THEN "junk" ELSE "repair",
                          todo |-> {}, sync |-> kind = "sync", polls |-> 0])
    BY <1>2 DEF StartTask
  <2> DEFINE state == [pc |-> IF kind = "cleanup" THEN "junk" ELSE "repair",
                       todo |-> {}, sync |-> kind = "sync", polls |-> 0]
  <2>2. /\ state.pc \in {"repair", "junk"}
        /\ state.pc = "junk" => kind = "cleanup"
        /\ TaskGoes(t, state)
    BY <2>1
  <2> HIDE DEF state
  <2> QED
    BY <1>1, <2>1, <2>2 DEF Arrives
<1>3. ASSUME RepairScan(t)
      PROVE  /\ task'[t].pc = "queue"
             /\ task'[t].todo = {v \in DB!Stored : /\ ~ video[v].detailed
                                                   /\ \E i \in items : i[2] = v}
  <2> DEFINE found == {v \in DB!Stored : /\ ~ video[v].detailed
                                         /\ \E i \in items : i[2] = v}
             state == [task[t] EXCEPT !.pc = "queue", !.todo = found]
  <2>1. task'[t] = state
    BY <1>1, <1>3 DEF RepairScan
  <2> HIDE DEF found
  <2>2. state.pc = "queue" /\ state.todo = found
    BY <1>3, TaskLocals DEF RepairScan
  <2> HIDE DEF state
  <2> QED
    BY <2>1, <2>2 DEF found
<1>4. ASSUME RepairQueue(t)
      PROVE  \/ \E v \in task[t].todo : /\ Q!Add(v)
                                        /\ task'[t].pc = "queue"
                                        /\ task'[t].todo = task[t].todo \ {v}
             \/ /\ task[t].todo = {}
                /\ task'[t].pc \in {"poll", "idle"}
                /\ UNCHANGED queueVars
  <2>1. /\ task[t].pc = "queue"
        /\ task[t] \in [pc : {"queue", "dropItems", "dropVideos"}, todo : SUBSET Videos,
                        sync : BOOLEAN, polls : 0 .. MaxPolls]
    BY <1>4, TaskLocals DEF RepairQueue
  <2>2. ASSUME NEW v, TaskGoes(t, [task[t] EXCEPT !.todo = @ \ {v}])
        PROVE  task'[t].pc = "queue" /\ task'[t].todo = task[t].todo \ {v}
    BY <1>1, <2>1, <2>2
  <2>3. ASSUME TaskGoes(t, IF task[t].sync THEN [task[t] EXCEPT !.pc = "poll"] ELSE NoTask)
        PROVE  task'[t].pc \in {"poll", "idle"}
    BY <1>0, <1>1, <2>1, <2>3
  <2> QED
    BY <1>4, <2>2, <2>3 DEF RepairQueue
<1>5. ASSUME SyncPoll(t)
      PROVE  \/ task'[t].pc = "junk" /\ (Drains => QueueDrained)
             \/ task'[t].pc = "poll" /\ ~ Drains
  <2>1. task[t] \in [pc : {"repair", "poll", "junk", "orphans"}, todo : {{}},
                     sync : BOOLEAN, polls : 0 .. MaxPolls]
    BY <1>5, TaskLocals DEF SyncPoll
  <2>2. CASE QueueDrained /\ TaskGoes(t, [task[t] EXCEPT !.pc = "junk"])
    BY <1>1, <2>1, <2>2
  <2>3. CASE /\ ~ Drains
             /\ TaskGoes(t, [task[t] EXCEPT
                   !.polls = @ + 1,
                   !.pc = IF task[t].polls + 1 = MaxPolls THEN "junk" ELSE "poll"])
    <3> DEFINE pc == IF task[t].polls + 1 = MaxPolls THEN "junk" ELSE "poll"
               state == [task[t] EXCEPT !.polls = @ + 1, !.pc = pc]
    <3>1. task'[t] = state /\ pc \in {"junk", "poll"}
      BY <1>1, <2>3
    <3> HIDE DEF pc
    <3>2. state.pc = pc
      BY <2>1
    <3> HIDE DEF state
    <3> QED
      BY <2>3, <3>1, <3>2
  <2> QED
    BY <1>5, <2>2, <2>3 DEF SyncPoll
<1>6. ASSUME JunkScan(t) PROVE task'[t].pc \in {"orphans", "dropItems"}
  <2> DEFINE junk == {v \in Videos : DB!Junk(v)}
             state == [task[t] EXCEPT !.todo = junk,
                          !.pc = IF junk = {} THEN "orphans" ELSE "dropItems"]
  <2>1. task'[t] = state
    BY <1>1, <1>6 DEF JunkScan
  <2> HIDE DEF junk
  <2>2. state.pc \in {"orphans", "dropItems"}
    BY <1>6, TaskLocals DEF JunkScan
  <2> HIDE DEF state
  <2> QED
    BY <2>1, <2>2
<1>7. ASSUME DropItems(t) PROVE task'[t].pc = "dropVideos"
  BY <1>1, <1>7, TaskLocals DEF DropItems
<1>8. ASSUME DropVideos(t) PROVE task'[t].pc = "orphans"
  BY <1>1, <1>8, TaskLocals DEF DropVideos
<1>9. ASSUME OrphanScan(t) PROVE task'[t].pc \in {"idle", "dropChannels"}
  <2> DEFINE orphans == {c \in Channels : DB!OrphanChannel(c)}
             state == IF orphans = {} THEN NoTask
                      ELSE [task[t] EXCEPT !.todo = orphans, !.pc = "dropChannels"]
  <2>1. task'[t] = state
    BY <1>1, <1>9 DEF OrphanScan
  <2> HIDE DEF orphans
  <2>2. state.pc \in {"idle", "dropChannels"}
    BY <1>0, <1>9, TaskLocals DEF OrphanScan
  <2> HIDE DEF state
  <2> QED
    BY <2>1, <2>2
<1>10. ASSUME DropChannels(t) PROVE task'[t].pc = "idle"
  BY <1>0, <1>1, <1>10 DEF DropChannels
<1> QED
  BY <1>2, <1>3, <1>4, <1>5, <1>6, <1>7, <1>8, <1>9, <1>10

\* A request changes only in steps of its own, or when the process dies.
LEMMA RequestKept ==
    ASSUME IInv, [Next]_vars, NEW h \in Handlers, ~ Crash,
           ~ HandlerStart(h), ~ HandlerStep(h)
    PROVE  handler'[h] = handler[h]
<1>0. handler \in [Handlers -> HandlerState]
  BY DEF IInv, LocalsOK
<1>1. ASSUME NEW i \in Handlers, HandlerStart(i) \/ HandlerStep(i) PROVE handler'[h] = handler[h]
  <2>1. i # h
    BY <1>1
  <2>2. ASSUME NEW state, HandlerGoes(i, state) PROVE handler'[h] = handler[h]
    BY <1>0, <2>1, <2>2 DEF HandlerGoes
  <2>3. ASSUME HandlerStart(i) PROVE handler'[h] = handler[h]
    BY <2>2, <2>3 DEF HandlerStart, StartList, StartChannelVideos, StartPlaylistItems,
       StartDetail, StartComments
  <2>4. ASSUME HandlerStep(i) PROVE handler'[h] = handler[h]
    BY <2>2, <2>4 DEF HandlerStep, ListChannel, ListVideo, ListRank, ListEnqueue,
       StubVideo, StubEnqueue, PutItem, DetailChannel, DetailVideo, PutComment, Abort, Continue
  <2> QED
    BY <1>1, <2>3, <2>4
<1>2. ASSUME NEW w \in Slots, WorkerTake(w) \/ WorkerStep(w) PROVE handler' = handler
  BY <1>2 DEF WorkerTake, WorkerStep, WorkerFetch, WorkerChannel, WorkerDetail,
     WorkerLabel, WorkerComments, WorkerAttach, WorkerReturn, WorkerThrows, WorkerGoes
<1>3. ASSUME NEW t \in Tasks, StartTask(t) \/ TaskStep(t) PROVE handler' = handler
  BY <1>3 DEF StartTask, TaskStep, RepairScan, RepairQueue, SyncPoll, JunkScan,
     DropItems, DropVideos, OrphanScan, DropChannels, TaskGoes
<1>4. ASSUME SingleStatement \/ QueueTimers \/ UNCHANGED vars PROVE handler' = handler
  BY <1>4 DEF SingleStatement, QueueTimers, vars
<1> QED
  BY <1>1, <1>2, <1>3, <1>4 DEF Next

\* And so does a task.
LEMMA TaskKept ==
    ASSUME IInv, [Next]_vars, NEW t \in Tasks, ~ Crash, ~ StartTask(t), ~ TaskStep(t)
    PROVE  task'[t] = task[t]
<1>0. task \in [Tasks -> TaskState]
  BY DEF IInv, LocalsOK
<1>1. ASSUME NEW h \in Handlers, HandlerStart(h) \/ HandlerStep(h) PROVE task' = task
  BY <1>1 DEF HandlerStart, StartList, StartChannelVideos, StartPlaylistItems,
     StartDetail, StartComments, HandlerStep, ListChannel, ListVideo, ListRank,
     ListEnqueue, StubVideo, StubEnqueue, PutItem, DetailChannel, DetailVideo,
     PutComment, Abort, Continue, HandlerGoes
<1>2. ASSUME NEW w \in Slots, WorkerTake(w) \/ WorkerStep(w) PROVE task' = task
  BY <1>2 DEF WorkerTake, WorkerStep, WorkerFetch, WorkerChannel, WorkerDetail,
     WorkerLabel, WorkerComments, WorkerAttach, WorkerReturn, WorkerThrows, WorkerGoes
<1>3. ASSUME NEW u \in Tasks, StartTask(u) \/ TaskStep(u) PROVE task'[t] = task[t]
  <2>1. u # t
    BY <1>3
  <2>2. ASSUME NEW state, TaskGoes(u, state) PROVE task'[t] = task[t]
    BY <1>0, <2>1, <2>2 DEF TaskGoes
  <2> QED
    BY <1>3, <2>2 DEF StartTask, TaskStep, RepairScan, RepairQueue, SyncPoll, JunkScan,
       DropItems, DropVideos, OrphanScan, DropChannels
<1>4. ASSUME SingleStatement \/ QueueTimers \/ UNCHANGED vars PROVE task' = task
  BY <1>4 DEF SingleStatement, QueueTimers, vars
<1> QED
  BY <1>1, <1>2, <1>3, <1>4 DEF Next

-----------------------------------------------------------------------------
(* Sync.                                                                     *)

\* The crawler asks for a sync when its requests have been answered and sends
\* nothing until it is over; the queue drains in time; and no cleanup runs that
\* has not waited for it.
Protocol == ~ Overlap /\ Drains /\ "cleanup" \notin Kinds

\* What comes after the wait.
Ending == {"junk", "dropItems", "dropVideos", "orphans", "dropChannels"}

\* A task runs without requests and without another task beside it.
Alone == \A t \in Tasks : Running(t) =>
    /\ \A h \in Handlers : ~ Busy(h)
    /\ \A u \in Tasks : Running(u) => u = t

\* Once sync has stopped waiting there is nothing pending any more.
AtRest == \A t \in Tasks : task[t].pc \in Ending => QueueDrained

\* All junk there is, is what the scan found.
FindsAllJunk == \A t \in Tasks : task[t].pc \in {"dropItems", "dropVideos"} =>
    \A v \in Videos : DB!Junk(v) => v \in task[t].todo

\* The inductive invariant, in two layers.
Quiet == Sound /\ Alone /\ AtRest
Finds == FindsAllJunk /\ DropsOnlyJunk /\ DropsOnlyOrphans /\ SyncLeavesNoJunk

-----------------------------------------------------------------------------
\* With nothing pending no job runs.
LEMMA NobodyWorks ==
    ASSUME Sound, QueueDrained, NEW w \in Slots
    PROVE  slot[w] = Idle /\ worker[w] = NoWork
  BY DEF Sound, IInv, LocalsOK, WorksOnJob, Q!OneSlotPerJob, QueueDrained, Q!Pending

\* A request that is not there does nothing.
LEMMA NoRequestNoStep ==
    ASSUME NEW h \in Handlers, ~ Busy(h) PROVE ~ HandlerStep(h)
  BY DEF Busy, NoHandler, HandlerStep, ListChannel, ListVideo, ListRank,
         ListEnqueue, StubVideo, StubEnqueue, PutItem, DetailChannel,
         DetailVideo, PutComment

\* Nor does a slot without a job.
LEMMA NoWorkNoStep ==
    ASSUME NEW w \in Slots, worker[w] = NoWork PROVE ~ WorkerStep(w)
  BY DEF NoWork, WorkerStep, WorkerFetch, WorkerChannel, WorkerDetail,
         WorkerLabel, WorkerComments, WorkerAttach, WorkerReturn

\* While a task runs nothing arrives.
LEMMA NothingArrives ==
    ASSUME Protocol, NEW t \in Tasks, Running(t), NEW kind
    PROVE  ~ Arrives(kind)
  BY DEF Protocol, Arrives

\* A task that does not run takes no step.
LEMMA NoTaskNoStep ==
    ASSUME NEW t \in Tasks, ~ Running(t) PROVE ~ TaskStep(t)
  BY DEF Running, NoTask, TaskStep, RepairScan, RepairQueue, SyncPoll, JunkScan,
         DropItems, DropVideos, OrphanScan, DropChannels

\* Beside a task there is nothing but the worker and the queue.
LEMMA BesideTask ==
    ASSUME Protocol, Quiet, Next, NEW t \in Tasks, Running(t)
    PROVE  \/ Crash
           \/ TaskStep(t)
           \/ \E w \in Slots : WorkerTake(w) \/ WorkerStep(w)
           \/ QueueTimers
<1>1. ASSUME NEW h \in Handlers, HandlerStart(h) PROVE FALSE
  BY <1>1, NothingArrives DEF HandlerStart, StartList, StartChannelVideos,
     StartPlaylistItems, StartDetail, StartComments
<1>2. ASSUME NEW h \in Handlers, HandlerStep(h) PROVE FALSE
  BY <1>2, NoRequestNoStep DEF Quiet, Alone
<1>3. ~ SingleStatement
  BY NothingArrives DEF SingleStatement
<1>4. ASSUME NEW u \in Tasks, StartTask(u) PROVE FALSE
  BY <1>4, NothingArrives DEF StartTask
<1>5. ASSUME NEW u \in Tasks, TaskStep(u) PROVE u = t
  BY <1>5, NoTaskNoStep DEF Quiet, Alone
<1> QED
  BY <1>1, <1>2, <1>3, <1>4, <1>5 DEF Next

\* Once sync has stopped waiting only sync itself goes on, or the process dies.
LEMMA OnlySync ==
    ASSUME Protocol, Quiet, NEW t \in Tasks, task[t].pc \in Ending, Next
    PROVE  Crash \/ TaskStep(t)
<1>1. Running(t) /\ QueueDrained
  BY DEF Running, NoTask, Ending, Quiet, AtRest
<1>2. ASSUME NEW w \in Slots, WorkerTake(w) PROVE FALSE
  BY <1>1, <1>2 DEF WorkerTake, Q!Take, QueueDrained, Q!Pending
<1>3. ASSUME NEW w \in Slots, WorkerStep(w) PROVE FALSE
  BY <1>1, <1>3, NobodyWorks, NoWorkNoStep DEF Quiet
<1>4. ~ QueueTimers
  BY <1>1 DEF QueueTimers, Q!Promote, Q!RecoverStalled, QueueDrained, Q!Pending
<1> QED
  BY <1>1, <1>2, <1>3, <1>4, BesideTask

-----------------------------------------------------------------------------
\* A task comes to its end only by way of the wait: everything it set going has
\* finished by then.
LEMMA EndsAfterWait ==
    ASSUME Protocol, Quiet, Next, NEW t \in Tasks,
           task[t].pc \notin Ending, task'[t].pc \in Ending
    PROVE  QueueDrained /\ task'[t].pc = "junk" /\ UNCHANGED queueVars
<1> USE DEF Ending
<1>0. IInv
  BY DEF Quiet, Sound
<1>1. ~ Crash
  BY DEF Crash, NoTask
<1>2. ~ StartTask(t) /\ ~ RepairScan(t) /\ ~ RepairQueue(t)
  BY <1>0, TaskPath DEF Protocol
<1>3. ~ JunkScan(t) /\ ~ DropItems(t) /\ ~ DropVideos(t) /\ ~ OrphanScan(t) /\ ~ DropChannels(t)
  BY DEF JunkScan, DropItems, DropVideos, OrphanScan, DropChannels
<1>4. SyncPoll(t)
  BY <1>0, <1>1, <1>2, <1>3, TaskKept DEF TaskStep
<1> QED
  BY <1>0, <1>4, TaskPath DEF SyncPoll, Protocol

\* The quiet is kept: sync has the database to itself.
LEMMA NextQuiet == Protocol /\ Quiet /\ [Next]_vars => Quiet'
<1> SUFFICES ASSUME Protocol, Quiet, [Next]_vars PROVE Quiet'
  OBVIOUS
<1>1. Sound'
  BY NextSound DEF Quiet
<1>2. Alone'
  <2>0. /\ task \in [Tasks -> TaskState]
        /\ handler \in [Handlers -> HandlerState]
    BY DEF Quiet, Sound, IInv, LocalsOK
  <2>1. ASSUME NEW h \in Handlers, HandlerStart(h) PROVE Alone'
    <3>1. task' = task
      BY <2>1 DEF HandlerStart, StartList, StartChannelVideos, StartPlaylistItems,
         StartDetail, StartComments, HandlerGoes
    <3>2. \A t \in Tasks : ~ Running(t)
      BY <2>1, NothingArrives DEF HandlerStart, StartList, StartChannelVideos,
         StartPlaylistItems, StartDetail, StartComments
    <3> QED
      BY <3>1, <3>2 DEF Alone, Running
  <2>2. ASSUME NEW h \in Handlers, HandlerStep(h) PROVE Alone'
    <3>1. task' = task
      BY <2>2 DEF HandlerStep, ListChannel, ListVideo, ListRank,
         ListEnqueue, StubVideo, StubEnqueue, PutItem, DetailChannel, DetailVideo,
         PutComment, Abort, Continue, HandlerGoes
    <3>2. \A t \in Tasks : ~ Running(t)
      BY <2>2, NoRequestNoStep DEF Quiet, Alone
    <3> QED
      BY <3>1, <3>2 DEF Alone, Running
  <2>3. ASSUME NEW w \in Slots, WorkerTake(w) \/ WorkerStep(w) PROVE Alone'
    <3>1. UNCHANGED <<handler, task>>
      BY <2>3 DEF WorkerTake, WorkerStep, WorkerFetch, WorkerChannel, WorkerDetail,
         WorkerLabel, WorkerComments, WorkerAttach, WorkerReturn, WorkerThrows, WorkerGoes
    <3> QED
      BY <3>1 DEF Quiet, Alone, Running, Busy
  <2>4. ASSUME SingleStatement \/ QueueTimers PROVE Alone'
    BY <2>4 DEF SingleStatement, QueueTimers, Quiet, Alone, Running, Busy
  <2>5. ASSUME Crash PROVE Alone'
    BY <2>5 DEF Crash, Alone, Running
  <2>6. ASSUME NEW u \in Tasks, StartTask(u) PROVE Alone'
    <3>1. /\ \A t \in Tasks : ~ Running(t)
          /\ \A h \in Handlers : ~ Busy(h)
      BY <2>6 DEF StartTask, Arrives, Protocol
    <3>2. handler' = handler /\ \A t \in Tasks : t # u => task'[t] = task[t]
      BY <2>0, <2>6 DEF StartTask, TaskGoes
    <3> QED
      BY <3>1, <3>2 DEF Alone, Running, Busy
  <2>7. ASSUME NEW u \in Tasks, TaskStep(u) PROVE Alone'
    <3>1. Running(u)
      BY <2>7, NoTaskNoStep
    <3>2. handler' = handler /\ \A t \in Tasks : t # u => task'[t] = task[t]
      BY <2>0, <2>7 DEF TaskStep, RepairScan, RepairQueue, SyncPoll, JunkScan,
         DropItems, DropVideos, OrphanScan, DropChannels, TaskGoes
    <3> QED
      BY <3>1, <3>2 DEF Quiet, Alone, Running, Busy
  <2>8. CASE UNCHANGED vars
    BY <2>8 DEF vars, Quiet, Alone, Running, Busy
  <2> QED
    BY <2>1, <2>2, <2>3, <2>4, <2>5, <2>6, <2>7, <2>8 DEF Next
<1>3. AtRest'
  <2>1. CASE UNCHANGED vars
    BY <2>1 DEF vars, queueVars, Quiet, AtRest, QueueDrained
  <2>2. ASSUME Next, NEW t \in Tasks, task'[t].pc \in Ending PROVE QueueDrained'
    <3>1. CASE task[t].pc \notin Ending
      BY <2>2, <3>1, EndsAfterWait DEF QueueDrained, queueVars
    <3>2. CASE task[t].pc \in Ending
      <4>1. CASE Crash
        BY <2>2, <4>1 DEF Crash, NoTask, Ending
      <4>2. CASE TaskStep(t)
        <5>1. UNCHANGED queueVars
          BY <3>2, <4>2 DEF TaskStep, RepairScan, RepairQueue, SyncPoll, JunkScan,
             DropItems, DropVideos, OrphanScan, DropChannels, Ending
        <5> QED
          BY <3>2, <5>1 DEF queueVars, Quiet, AtRest, QueueDrained
      <4> QED
        BY <2>2, <3>2, <4>1, <4>2, OnlySync
    <3> QED
      BY <3>1, <3>2
  <2> QED
    BY <2>1, <2>2 DEF AtRest
<1> QED
  BY <1>1, <1>2, <1>3 DEF Quiet

-----------------------------------------------------------------------------
\* What Finds says of one task.
FindsFor(t) ==
    /\ task[t].pc \in {"dropItems", "dropVideos"} =>
          \A v \in Videos : (DB!Junk(v) <=> v \in task[t].todo)
    /\ task[t].pc = "dropChannels" => \A c \in task[t].todo : DB!OrphanChannel(c)
    /\ task[t].pc \in {"orphans", "dropChannels"} => \A v \in Videos : ~ DB!Junk(v)

\* With nothing pending, it is all there is to Finds.
LEMMA FindsIsForAll == Quiet => (Finds <=> \A t \in Tasks : FindsFor(t))
<1> SUFFICES ASSUME Quiet PROVE Finds <=> \A t \in Tasks : FindsFor(t)
  OBVIOUS
<1>1. \A t \in Tasks : task[t].pc \in Ending => Running(t) /\ QueueDrained
  BY DEF Running, NoTask, Ending, Quiet, AtRest
<1>2. \A t \in Tasks : task[t].pc \in {"dropItems", "dropVideos"} =>
         task[t].todo \subseteq Videos
  BY TaskLocals DEF Quiet, Sound
<1> QED
  BY <1>1, <1>2 DEF Finds, FindsFor, FindsAllJunk, DropsOnlyJunk, DropsOnlyOrphans,
                    SyncLeavesNoJunk, QueueDrained, Ending

\* A task's own step on its way keeps it.
LEMMA EndingFinds ==
    ASSUME Quiet, NEW t \in Tasks, task[t].pc \in Ending, FindsFor(t), TaskStep(t)
    PROVE  FindsFor(t)'
<1>0. task \in [Tasks -> TaskState] /\ NoTask.pc = "idle"
  BY DEF Quiet, Sound, IInv, LocalsOK, NoTask
<1>1. ASSUME NEW state, TaskGoes(t, state) PROVE task'[t] = state
  BY <1>0, <1>1 DEF TaskGoes
<1>2. CASE JunkScan(t)
  <2> DEFINE junk == {v \in Videos : DB!Junk(v)}
             state == [task[t] EXCEPT !.todo = junk,
                          !.pc = IF junk = {} THEN "orphans" ELSE "dropItems"]
  <2>1. task'[t] = state /\ UNCHANGED dbVars
    BY <1>1, <1>2 DEF JunkScan
  <2>2. /\ state.pc = IF junk = {} THEN "orphans" ELSE "dropItems"
        /\ state.todo = junk
    BY <1>2, TaskLocals DEF JunkScan, Quiet, Sound
  <2> HIDE DEF state
  <2>3. \A v \in Videos : DB!Junk(v)' = DB!Junk(v)
    BY <2>1 DEF DB!Junk, dbVars
  <2> QED
    BY <2>1, <2>2, <2>3 DEF FindsFor
<1>3. CASE DropItems(t)
  <2>1. task'[t] = [task[t] EXCEPT !.pc = "dropVideos"] /\ video' = video
    BY <1>1, <1>3 DEF DropItems, DB!DeleteItemsOf
  <2>2. task'[t].pc = "dropVideos" /\ task'[t].todo = task[t].todo
    BY <1>3, <2>1, TaskLocals DEF DropItems, Quiet, Sound
  <2>3. \A v \in Videos : DB!Junk(v)' = DB!Junk(v)
    BY <2>1 DEF DB!Junk
  <2> QED
    BY <1>3, <2>2, <2>3 DEF FindsFor, DropItems
<1>4. CASE DropVideos(t)
  <2>1. /\ task'[t] = [task[t] EXCEPT !.pc = "orphans", !.todo = {}]
        /\ video' = [v \in Videos |-> IF v \in task[t].todo THEN Absent ELSE video[v]]
    BY <1>1, <1>4 DEF DropVideos, DB!DeleteVideos
  <2>2. task'[t].pc = "orphans"
    BY <1>4, <2>1, TaskLocals DEF DropVideos, Quiet, Sound
  <2>3. \A v \in Videos : ~ DB!Junk(v)'
    BY <1>4, <2>1 DEF DB!Junk, FindsFor, DropVideos
  <2> QED
    BY <2>2, <2>3 DEF FindsFor
<1>5. CASE OrphanScan(t)
  <2> DEFINE orphans == {c \in Channels : DB!OrphanChannel(c)}
             state == IF orphans = {} THEN NoTask
                      ELSE [task[t] EXCEPT !.todo = orphans, !.pc = "dropChannels"]
  <2>1. task'[t] = state /\ UNCHANGED dbVars
    BY <1>1, <1>5 DEF OrphanScan
  <2>2. \/ state.pc = "idle"
        \/ state.pc = "dropChannels" /\ state.todo = orphans
    BY <1>0, <1>5, TaskLocals DEF OrphanScan, Quiet, Sound
  <2> HIDE DEF state
  <2>3. /\ \A v \in Videos : DB!Junk(v)' = DB!Junk(v)
        /\ \A c \in Channels : DB!OrphanChannel(c)' = DB!OrphanChannel(c)
    BY <2>1 DEF DB!Junk, DB!OrphanChannel, DB!Stored, dbVars
  <2> QED
    BY <1>5, <2>1, <2>2, <2>3 DEF FindsFor, OrphanScan
<1>6. CASE DropChannels(t)
  BY <1>0, <1>1, <1>6 DEF DropChannels, FindsFor
<1> QED
  BY <1>2, <1>3, <1>4, <1>5, <1>6 DEF TaskStep, RepairScan, RepairQueue, SyncPoll, Ending

\* What sync has found is still so when it acts on it.
LEMMA NextFinds == Protocol /\ Quiet /\ Finds /\ [Next]_vars => Finds'
<1> SUFFICES ASSUME Protocol, Quiet, Finds, [Next]_vars PROVE Finds'
  OBVIOUS
<1>1. Quiet'
  BY NextQuiet
<1>2. \A t \in Tasks : FindsFor(t)
  BY FindsIsForAll
<1>3. ASSUME NEW t \in Tasks PROVE FindsFor(t)'
  <2>1. CASE UNCHANGED vars
    BY <1>2, <2>1 DEF vars, dbVars, FindsFor, DB!Junk, DB!OrphanChannel, DB!Stored
  <2>2. CASE task'[t].pc \notin Ending
    BY <2>2 DEF FindsFor, Ending
  <2>3. CASE Next /\ task'[t].pc \in Ending /\ task[t].pc \notin Ending
    BY <2>3, EndsAfterWait DEF FindsFor
  <2>4. CASE Next /\ task'[t].pc \in Ending /\ task[t].pc \in Ending
    <3>1. ~ Crash
      BY <2>4 DEF Crash, NoTask, Ending
    <3> QED
      BY <1>2, <2>4, <3>1, OnlySync, EndingFinds
  <2> QED
    BY <2>1, <2>2, <2>3, <2>4
<1>4. (Quiet => (Finds <=> \A t \in Tasks : FindsFor(t)))'
  BY FindsIsForAll, PTL
<1> QED
  BY <1>1, <1>3, <1>4

-----------------------------------------------------------------------------
\* Only sync's last statement takes a channel away.
LEMMA ChannelsGrow ==
    ASSUME [Next]_vars, \A t \in Tasks : ~ DropChannels(t)
    PROVE  channel \subseteq channel'
<1>1. ASSUME NEW h \in Handlers, HandlerStart(h) \/ HandlerStep(h)
      PROVE  channel \subseteq channel'
  BY <1>1 DEF HandlerStart, StartList, StartChannelVideos, StartPlaylistItems,
     StartDetail, StartComments, HandlerStep, ListChannel, ListVideo, ListRank,
     ListEnqueue, StubVideo, StubEnqueue, PutItem, DetailChannel, DetailVideo,
     PutComment, Abort, dbVars, DB!UpsertChannel, DB!UpsertFromCrawl,
     DB!UpsertFromDetail, DB!UpsertStub, DB!UpsertItem, DB!Attach
<1>2. ASSUME NEW w \in Slots, WorkerTake(w) \/ WorkerStep(w)
      PROVE  channel \subseteq channel'
  BY <1>2 DEF WorkerTake, WorkerStep, WorkerFetch, WorkerChannel, WorkerDetail,
     WorkerLabel, WorkerComments, WorkerAttach, WorkerReturn, WorkerThrows, dbVars,
     DB!UpsertChannel, DB!UpsertFromDetail, DB!Attach
<1>3. ASSUME NEW t \in Tasks, StartTask(t) \/ TaskStep(t)
      PROVE  channel \subseteq channel'
  BY <1>3 DEF StartTask, TaskStep, RepairScan, RepairQueue, SyncPoll, JunkScan,
     DropItems, DropVideos, OrphanScan, dbVars, DB!DeleteItemsOf, DB!DeleteVideos
<1>4. ASSUME SingleStatement PROVE channel \subseteq channel'
  BY <1>4 DEF SingleStatement, DB!UpsertChannel, DB!UpsertPlaylist, DB!UpsertShort,
     DB!UpsertUnavailable, DB!SaveDetail, DB!SaveUnavailable, DB!Attach, DB!SaveShort
<1>5. ASSUME QueueTimers \/ Crash \/ UNCHANGED vars PROVE channel \subseteq channel'
  BY <1>5 DEF QueueTimers, Crash, vars, dbVars
<1> QED
  BY <1>1, <1>2, <1>3, <1>4, <1>5 DEF Next

\* What ChannelReady says of one request, and of one job.
ReadyRequest(h) ==
    \/ handler[h].pc = "video" /\ handler[h].form = "name" /\ handler[h].ranked
    \/ handler[h].pc = "detail" /\ handler[h].form = "name"
    => DB!FKChannel(handler[h].c)

ReadyJob(w) ==
    worker[w].pc = "detail" /\ worker[w].form = "name" => DB!FKChannel(worker[w].c)

\* A request comes to its video only with a channel that is stored.
LEMMA NextReadyRequest ==
    ASSUME IInv, [Next]_vars, channel \subseteq channel', NEW h \in Handlers,
           ReadyRequest(h)
    PROVE  ReadyRequest(h)'
<1>0. handler \in [Handlers -> HandlerState]
  BY DEF IInv, LocalsOK
<1>1. ASSUME handler'[h] = handler[h] PROVE ReadyRequest(h)'
  BY <1>1 DEF ReadyRequest, DB!FKChannel
<1>2. ASSUME NEW i \in Handlers, NEW state, HandlerGoes(i, state),
             \/ state.pc = "video" /\ state.form = "name" /\ state.ranked
             \/ state.pc = "detail" /\ state.form = "name"
             => state.c \in channel' \cup {NoChannel}
      PROVE  ReadyRequest(h)'
  <2>1. CASE i # h
    BY <1>0, <1>1, <1>2, <2>1 DEF HandlerGoes
  <2>2. CASE i = h
    BY <1>0, <1>2, <2>2 DEF HandlerGoes, ReadyRequest, DB!FKChannel
  <2> QED
    BY <2>1, <2>2
<1>3. ASSUME NEW i \in Handlers, NEW pc, pc \notin {"video", "detail"}, Continue(i, pc),
             handler[i] # NoHandler
      PROVE  ReadyRequest(h)'
  <2>1. [handler[i] EXCEPT !.pc = pc].pc = pc
    BY <1>0, <1>3 DEF HandlerState
  <2> QED
    BY <1>2, <1>3, <2>1 DEF Continue
<1>4. ASSUME NEW i \in Handlers, HandlerGoes(i, NoHandler) PROVE ReadyRequest(h)'
  BY <1>2, <1>4 DEF NoHandler
<1>5. ASSUME NEW i \in Handlers, HandlerStart(i) PROVE ReadyRequest(h)'
  <2>1. CASE StartList(i)
    <3>1. PICK v \in Videos, c \in DB!ChannelRef, form \in Forms :
            HandlerGoes(i, [pc |-> IF c # NoChannel /\ form = "name"
                                   THEN "channel" ELSE "video",
                            v |-> v, c |-> c, form |-> form, ranked |-> TRUE])
      BY <2>1 DEF StartList
    <3> QED
      BY <1>2, <3>1
  <2>2. CASE StartChannelVideos(i)
    BY <1>2, <2>2 DEF StartChannelVideos
  <2>3. CASE StartPlaylistItems(i)
    BY <1>2, <2>3 DEF StartPlaylistItems
  <2>4. CASE StartDetail(i)
    <3>1. PICK v \in Videos, c \in DB!ChannelRef, form \in {"name", "null"} :
            HandlerGoes(i, [pc |-> IF c # NoChannel /\ form = "name"
                                   THEN "detailChannel" ELSE "detail",
                            v |-> v, c |-> c, form |-> form, ranked |-> FALSE])
      BY <2>4 DEF StartDetail
    <3> QED
      BY <1>2, <3>1
  <2>5. CASE StartComments(i)
    BY <1>2, <2>5 DEF StartComments
  <2> QED
    BY <1>5, <2>1, <2>2, <2>3, <2>4, <2>5 DEF HandlerStart
<1>6. ASSUME NEW i \in Handlers, HandlerStep(i) PROVE ReadyRequest(h)'
  <2>0. handler[i] # NoHandler
    BY <1>6, NoRequestNoStep DEF Busy
  <2>1. ASSUME ListChannel(i) \/ DetailChannel(i) PROVE ReadyRequest(h)'
    <3> DEFINE state == [handler[i] EXCEPT
                           !.pc = IF ListChannel(i) THEN "video" ELSE "detail"]
    <3>1. HandlerGoes(i, state) /\ handler[i].c \in channel'
      BY <2>1 DEF ListChannel, DetailChannel, Continue, DB!UpsertChannel
    <3>2. state.c = handler[i].c
      BY <2>1, HandlerLocals DEF ListChannel, DetailChannel
    <3> HIDE DEF state
    <3> QED
      BY <1>2, <3>1, <3>2
  <2>2. CASE ListVideo(i) \/ ListRank(i) \/ StubVideo(i) \/ StubEnqueue(i)
    BY <1>3, <1>4, <2>0, <2>2 DEF ListVideo, ListRank, StubVideo, StubEnqueue, Abort
  <2>3. CASE ListEnqueue(i) \/ PutItem(i) \/ DetailVideo(i) \/ PutComment(i)
    BY <1>4, <2>3 DEF ListEnqueue, PutItem, DetailVideo, PutComment, Abort
  <2> QED
    BY <1>6, <2>1, <2>2, <2>3 DEF HandlerStep
<1>7. ASSUME NEW w \in Slots, WorkerTake(w) \/ WorkerStep(w) PROVE ReadyRequest(h)'
  BY <1>1, <1>7 DEF WorkerTake, WorkerStep, WorkerFetch, WorkerChannel, WorkerDetail,
     WorkerLabel, WorkerComments, WorkerAttach, WorkerReturn, WorkerThrows, WorkerGoes
<1>8. ASSUME NEW t \in Tasks, StartTask(t) \/ TaskStep(t) PROVE ReadyRequest(h)'
  BY <1>1, <1>8 DEF StartTask, TaskStep, RepairScan, RepairQueue, SyncPoll, JunkScan,
     DropItems, DropVideos, OrphanScan, DropChannels, TaskGoes
<1>9. ASSUME SingleStatement \/ QueueTimers \/ UNCHANGED vars PROVE ReadyRequest(h)'
  BY <1>1, <1>9 DEF SingleStatement, QueueTimers, vars
<1>10. ASSUME Crash PROVE ReadyRequest(h)'
  BY <1>10 DEF Crash, NoHandler, ReadyRequest
<1> QED
  BY <1>5, <1>6, <1>7, <1>8, <1>9, <1>10 DEF Next

\* And so does a job.
LEMMA NextReadyJob ==
    ASSUME IInv, [Next]_vars, channel \subseteq channel', NEW w \in Slots, ReadyJob(w)
    PROVE  ReadyJob(w)'
<1>0. worker \in [Slots -> WorkerState]
  BY DEF IInv, LocalsOK
<1>1. ASSUME worker'[w] = worker[w] PROVE ReadyJob(w)'
  BY <1>1 DEF ReadyJob, DB!FKChannel
<1>2. ASSUME NEW x \in Slots, NEW state, WorkerGoes(x, state),
             state.pc = "detail" /\ state.form = "name"
             => state.c \in channel' \cup {NoChannel}
      PROVE  ReadyJob(w)'
  <2>1. CASE x # w
    BY <1>0, <1>1, <1>2, <2>1 DEF WorkerGoes
  <2>2. CASE x = w
    BY <1>0, <1>2, <2>2 DEF WorkerGoes, ReadyJob, DB!FKChannel
  <2> QED
    BY <2>1, <2>2
<1>3. ASSUME NEW x \in Slots, WorkerThrows(x) PROVE ReadyJob(w)'
  BY <1>2, <1>3 DEF WorkerThrows, NoWork
<1>4. ASSUME NEW x \in Slots, WorkerFetch(x) PROVE ReadyJob(w)'
  <2>1. CASE WorkerGoes(x, [pc |-> "gone"])
    BY <1>2, <2>1
  <2>2. ASSUME NEW c \in DB!ChannelRef, NEW form \in {"name", "null"},
               WorkerGoes(x, [pc |-> IF c # NoChannel /\ form = "name"
                                     THEN "channel" ELSE "detail",
                              c |-> c, form |-> form])
        PROVE  ReadyJob(w)'
    BY <1>2, <2>2
  <2> QED
    BY <1>3, <1>4, <2>1, <2>2 DEF WorkerFetch
<1>5. ASSUME NEW x \in Slots, WorkerChannel(x) PROVE ReadyJob(w)'
  <2> DEFINE state == [worker[x] EXCEPT !.pc = "detail"]
  <2>1. WorkerGoes(x, state) /\ worker[x].c \in channel'
    BY <1>5 DEF WorkerChannel, DB!UpsertChannel
  <2>2. state.c = worker[x].c
    BY <1>5, WorkerLocals DEF WorkerChannel
  <2> HIDE DEF state
  <2> QED
    BY <1>2, <2>1, <2>2
<1>6. ASSUME NEW x \in Slots, WorkerDetail(x) PROVE ReadyJob(w)'
  BY <1>2, <1>3, <1>6 DEF WorkerDetail
<1>7. ASSUME NEW x \in Slots,
             \/ WorkerTake(x) \/ WorkerLabel(x) \/ WorkerComments(x)
             \/ WorkerAttach(x) \/ WorkerReturn(x)
      PROVE  ReadyJob(w)'
  BY <1>2, <1>7 DEF WorkerTake, WorkerLabel, WorkerComments, WorkerAttach,
                    WorkerReturn, NoWork
<1>8. ASSUME NEW h \in Handlers, HandlerStart(h) \/ HandlerStep(h) PROVE ReadyJob(w)'
  BY <1>1, <1>8 DEF HandlerStart, StartList, StartChannelVideos, StartPlaylistItems,
     StartDetail, StartComments, HandlerStep, ListChannel, ListVideo, ListRank,
     ListEnqueue, StubVideo, StubEnqueue, PutItem, DetailChannel, DetailVideo,
     PutComment, Abort, Continue, HandlerGoes
<1>9. ASSUME NEW t \in Tasks, StartTask(t) \/ TaskStep(t) PROVE ReadyJob(w)'
  BY <1>1, <1>9 DEF StartTask, TaskStep, RepairScan, RepairQueue, SyncPoll, JunkScan,
     DropItems, DropVideos, OrphanScan, DropChannels, TaskGoes
<1>10. ASSUME SingleStatement \/ QueueTimers \/ UNCHANGED vars PROVE ReadyJob(w)'
  BY <1>1, <1>10 DEF SingleStatement, QueueTimers, vars
<1>11. ASSUME Crash PROVE ReadyJob(w)'
  BY <1>11 DEF Crash, NoWork, ReadyJob
<1> QED
  BY <1>4, <1>5, <1>6, <1>7, <1>8, <1>9, <1>10, <1>11 DEF Next, WorkerStep

\* Nothing takes the channel away in between: when sync does, nobody is there.
LEMMA NextChannelReady == Protocol /\ Quiet /\ ChannelReady /\ [Next]_vars => ChannelReady'
<1> SUFFICES ASSUME Protocol, Quiet, ChannelReady, [Next]_vars PROVE ChannelReady'
  OBVIOUS
<1>1. ASSUME NEW t \in Tasks, DropChannels(t) PROVE ChannelReady'
  <2>1. Running(t) /\ QueueDrained /\ UNCHANGED <<handler, worker>>
    BY <1>1 DEF DropChannels, TaskGoes, Running, NoTask, Quiet, AtRest, Ending
  <2>2. /\ \A h \in Handlers : handler'[h] = NoHandler
        /\ \A w \in Slots : worker'[w] = NoWork
    BY <2>1, NobodyWorks DEF Quiet, Alone, Busy
  <2> QED
    BY <2>2 DEF ChannelReady, NoHandler, NoWork
<1>2. CASE \A t \in Tasks : ~ DropChannels(t)
  <2>1. channel \subseteq channel'
    BY <1>2, ChannelsGrow
  <2>2. \A h \in Handlers : ReadyRequest(h)'
    BY <2>1, NextReadyRequest DEF Quiet, Sound, ChannelReady, ReadyRequest
  <2>3. \A w \in Slots : ReadyJob(w)'
    BY <2>1, NextReadyJob DEF Quiet, Sound, ChannelReady, ReadyJob
  <2> QED
    BY <2>2, <2>3 DEF ChannelReady, ReadyRequest, ReadyJob
<1> QED
  BY <1>1, <1>2

-----------------------------------------------------------------------------
\* The quiet holds initially, and with it all the rest.
LEMMA InitQuiet == Init => Quiet /\ Finds /\ ChannelReady
<1> SUFFICES ASSUME Init PROVE Quiet /\ Finds /\ ChannelReady
  OBVIOUS
<1>1. /\ \A h \in Handlers : handler[h] = NoHandler
      /\ \A w \in Slots : worker[w] = NoWork /\ slot[w] = Idle
      /\ \A t \in Tasks : task[t] = NoTask
  BY DEF Init, Q!Init
<1>2. Alone /\ AtRest
  BY <1>1 DEF Alone, Running, AtRest, Ending, NoTask
<1>3. Finds
  BY <1>1 DEF Finds, FindsAllJunk, DropsOnlyJunk, DropsOnlyOrphans, SyncLeavesNoJunk,
              Running, NoTask
<1>4. ChannelReady
  BY <1>1 DEF ChannelReady, NoHandler, NoWork
<1> QED
  BY <1>2, <1>3, <1>4, InitSound DEF Quiet

\* It holds of every behaviour of a crawler that keeps to the protocol.
THEOREM SyncInvariant ==
    ASSUME Protocol
    PROVE  Spec => [](Quiet /\ Finds /\ ChannelReady)
<1> DEFINE All == Quiet /\ Finds /\ ChannelReady
<1>1. Init => All
  BY InitQuiet
<1>2. All /\ [Next]_vars => All'
  BY NextQuiet, NextFinds, NextChannelReady
<1> QED
  BY <1>1, <1>2, PTL DEF Spec

\* What sync deletes by id is bare at that very moment, and no job for it is on
\* its way, although it was looked up two statements before.
THEOREM SyncDropsOnlyJunk ==
    ASSUME Protocol
    PROVE  Spec => []DropsOnlyJunk
<1>1. Finds => DropsOnlyJunk
  BY DEF Finds
<1> QED
  BY <1>1, SyncInvariant, PTL

\* A channel sync deletes has nothing left that refers to it: no ON DELETE SET
\* NULL of its does anything.
THEOREM SyncDropsOnlyOrphans ==
    ASSUME Protocol
    PROVE  Spec => []DropsOnlyOrphans
<1>1. Finds => DropsOnlyOrphans
  BY DEF Finds
<1> QED
  BY <1>1, SyncInvariant, PTL

\* When sync has deleted its videos, no junk is left.
THEOREM SyncLeavesNone ==
    ASSUME Protocol
    PROVE  Spec => []SyncLeavesNoJunk
<1>1. Finds => SyncLeavesNoJunk
  BY DEF Finds
<1> QED
  BY <1>1, SyncInvariant, PTL

\* No request and no job is refused by a foreign key on the channel it has just
\* upserted.
THEOREM ChannelsAreReady ==
    ASSUME Protocol
    PROVE  Spec => []ChannelReady
<1> QED
  BY SyncInvariant, PTL

-----------------------------------------------------------------------------
(* What becomes of the records of jobs.                                      *)

\* The queue retains the records of as many jobs as there are videos: it never
\* trims one.
Untrimmed ==
    /\ Cardinality(Videos) <= KeepCompleted
    /\ Cardinality(Videos) <= KeepFailed

\* A job that is nowhere has no counters either.
NoneIsNoJob == \A v \in Videos : job[v].state = "none" => job[v] = Q!NoJob

\* JobQueue counts its jobs as everybody does.
LEMMA SameCardinality == ASSUME NEW S PROVE Q!Cardinality(S) = Cardinality(S)
  BY DEF Q!Cardinality, Cardinality

\* A queue that retains enough trims nothing: the job that finishes is not
\* finished yet, so there is room for its record.
LEMMA FinishTrimsNothing ==
    ASSUME NEW j \in Videos, NEW record, NEW keep \in Nat, Cardinality(Videos) <= keep,
           job[j].state # record.state, Q!Finish(j, record, keep)
    PROVE  job' = [job EXCEPT ![j] = record]
<1> DEFINE done == Q!In(record.state)
<1>1. IsFiniteSet(Videos)
  BY PipelineAssumption
<1>2. done \subseteq Videos \ {j}
  BY DEF Q!In
<1> HIDE DEF done
<1>3. Cardinality(Videos \ {j}) = Cardinality(Videos) - 1 /\ IsFiniteSet(Videos \ {j})
  BY <1>1, FS_RemoveElement
<1>4. Cardinality(done) <= Cardinality(Videos \ {j}) /\ IsFiniteSet(done)
  BY <1>2, <1>3, FS_Subset
<1>5. Cardinality(done) \in Nat /\ Cardinality(Videos) \in Nat
  BY <1>1, <1>4, FS_CardinalityType
<1>6. Q!Cardinality(done) < keep
  BY <1>3, <1>4, <1>5, SameCardinality
<1> QED
  BY <1>6 DEF Q!Finish, done

\* What a step of the queue does to the record of one job.
JobMoves(v) ==
    \/ job'[v] = job[v]
    \/ job[v] = Q!NoJob /\ job'[v].state = "waiting"
    \/ job[v].state \in Q!Pending /\ job'[v].state \in Q!Pending \cup Q!Finished
    \/ job[v].state \in Q!Finished /\ job'[v] = Q!NoJob

\* A job that finishes moves on from pending, and at most an older finished one
\* is trimmed.
LEMMA FinishMoves ==
    ASSUME Sound, NEW j \in Videos, NEW record, NEW keep \in Nat,
           job[j].state \in Q!Pending, record.state \in Q!Finished,
           Q!Finish(j, record, keep), NEW v \in Videos
    PROVE  /\ JobMoves(v)
           /\ v = j => job'[v].state \in Q!Finished
           /\ v # j => (job'[v].state \in Q!Pending <=> job[v].state \in Q!Pending)
           /\ Cardinality(Videos) <= keep => job'[v] = IF v = j THEN record ELSE job[v]
<1>0. job \in [Videos -> Q!JobRecord]
  BY DEF Sound, Q!TypeOK
<1>1. job[j].state # record.state
  BY DEF Q!Pending, Q!Finished
<1>2. CASE job' = [job EXCEPT ![j] = record]
  BY <1>0, <1>2 DEF JobMoves
<1>3. ASSUME NEW old \in Q!In(record.state), job' = [job EXCEPT ![j] = record, ![old] = Q!NoJob]
      PROVE  /\ JobMoves(v)
             /\ v = j => job'[v].state \in Q!Finished
             /\ v # j => (job'[v].state \in Q!Pending <=> job[v].state \in Q!Pending)
  <2>1. old \in Videos /\ job[old].state = record.state /\ old # j
    BY <1>1, <1>3 DEF Q!In
  <2>2. Q!NoJob.state \notin Q!Pending /\ job[old].state \notin Q!Pending
    BY <2>1 DEF Q!NoJob, Q!Record, Q!Pending, Q!Finished
  <2> QED
    BY <1>0, <1>3, <2>1, <2>2 DEF JobMoves
<1>4. Cardinality(Videos) <= keep => job'[v] = IF v = j THEN record ELSE job[v]
  <2> SUFFICES ASSUME Cardinality(Videos) <= keep
               PROVE  job'[v] = IF v = j THEN record ELSE job[v]
    OBVIOUS
  <2>1. job' = [job EXCEPT ![j] = record]
    BY <1>1, FinishTrimsNothing
  <2> QED
    BY <1>0, <2>1
<1> QED
  BY <1>2, <1>3, <1>4 DEF Q!Finish

\* Every step of the queue moves every record in one of these ways, and trims
\* none if it retains enough.
LEMMA NextJobMoves ==
    ASSUME Sound, [Q!Next]_queueVars, NEW v \in Videos
    PROVE  /\ JobMoves(v)
           /\ Untrimmed /\ job[v].state \in Q!Finished => job'[v] = job[v]
<1>0. /\ job \in [Videos -> Q!JobRecord]
      /\ slot \in [Slots -> Videos \cup {Idle}]
      /\ \A w \in Slots : slot[w] # Idle => job[slot[w]].state = "active"
      /\ KeepCompleted \in Nat /\ KeepFailed \in Nat
  BY PipelineAssumption DEF Sound, Q!TypeOK, Q!OneSlotPerJob
<1>1. ASSUME NEW j \in Videos, NEW record, NEW keep \in Nat,
             job[j].state = "active", record.state \in Q!Finished,
             Q!Finish(j, record, keep)
      PROVE  /\ JobMoves(v)
             /\ Cardinality(Videos) <= keep /\ job[v].state \in Q!Finished
                => job'[v] = job[v]
  BY <1>1, FinishMoves DEF Q!Pending, Q!Finished
<1>2. ASSUME NEW j \in Videos, Q!Add(j)
      PROVE  JobMoves(v) /\ (job[v].state \in Q!Finished => job'[v] = job[v])
  BY <1>0, <1>2 DEF Q!Add, Q!Moved, Q!Record, Q!NoJob, Q!Finished, JobMoves
<1>3. ASSUME NEW j \in Videos, Q!Promote(j)
      PROVE  JobMoves(v) /\ (job[v].state \in Q!Finished => job'[v] = job[v])
  BY <1>0, <1>3 DEF Q!Promote, Q!Moved, Q!Record, Q!Pending, Q!Finished, JobMoves
<1>4. ASSUME NEW j \in Videos, Q!RecoverStalled(j)
      PROVE  JobMoves(v) /\ (Untrimmed /\ job[v].state \in Q!Finished => job'[v] = job[v])
  <2>1. CASE job' = [job EXCEPT ![j] = Q!Record("waiting", job[j].attempts, job[j].stalls + 1)]
    BY <1>0, <1>4, <2>1 DEF Q!RecoverStalled, Q!Record, Q!Pending, Q!Finished, JobMoves
  <2>2. CASE Q!Finish(j, Q!Record("failed", job[j].attempts, job[j].stalls + 1), KeepFailed)
    BY <1>0, <1>1, <1>4, <2>2 DEF Q!RecoverStalled, Q!Record, Q!Finished, Untrimmed
  <2> QED
    BY <1>4, <2>1, <2>2 DEF Q!RecoverStalled
<1>5. ASSUME NEW w \in Slots, NEW j \in Videos, Q!Take(w, j)
      PROVE  JobMoves(v) /\ (job[v].state \in Q!Finished => job'[v] = job[v])
  BY <1>0, <1>5 DEF Q!Take, Q!Moved, Q!Record, Q!Pending, Q!Finished, JobMoves
<1>6. ASSUME NEW w \in Slots, Q!Complete(w)
      PROVE  JobMoves(v) /\ (Untrimmed /\ job[v].state \in Q!Finished => job'[v] = job[v])
  <2>1. slot[w] \in Videos /\ job[slot[w]].state = "active"
    BY <1>0, <1>6 DEF Q!Complete
  <2> QED
    BY <1>0, <1>1, <1>6, <2>1 DEF Q!Complete, Q!Moved, Q!Record, Q!Finished, Untrimmed
<1>7. ASSUME NEW w \in Slots, Q!Fail(w)
      PROVE  JobMoves(v) /\ (Untrimmed /\ job[v].state \in Q!Finished => job'[v] = job[v])
  <2>1. slot[w] \in Videos /\ job[slot[w]].state = "active"
    BY <1>0, <1>7 DEF Q!Fail
  <2>2. CASE job' = [job EXCEPT ![slot[w]] =
                       Q!Record("delayed", job[slot[w]].attempts + 1, job[slot[w]].stalls)]
    BY <1>0, <2>1, <2>2 DEF Q!Record, Q!Pending, Q!Finished, JobMoves
  <2>3. CASE Q!Finish(slot[w], Q!Record("failed", job[slot[w]].attempts + 1,
                                        job[slot[w]].stalls), KeepFailed)
    BY <1>0, <1>1, <2>1, <2>3 DEF Q!Record, Q!Finished, Untrimmed
  <2> QED
    BY <1>7, <2>2, <2>3 DEF Q!Fail
<1>8. ASSUME Q!Crash \/ UNCHANGED queueVars PROVE job' = job
  BY <1>8 DEF Q!Crash, queueVars
<1> QED
  BY <1>2, <1>3, <1>4, <1>5, <1>6, <1>7, <1>8 DEF Q!Next, JobMoves

\* So a record is there to stay, with counters of zero until it is.
LEMMA RecordsStay ==
    ASSUME Sound, NoneIsNoJob, [Q!Next]_queueVars
    PROVE  /\ NoneIsNoJob'
           /\ Untrimmed => \A v \in Videos : job[v] # Q!NoJob => job'[v] # Q!NoJob
<1>1. Q!NoJob.state = "none"
  BY DEF Q!NoJob, Q!Record
<1> QED
  BY <1>1, NextJobMoves DEF NoneIsNoJob, JobMoves, Q!Pending, Q!Finished

-----------------------------------------------------------------------------
(* What becomes of the rows of videos, and of the requests and tasks.        *)

\* Videos come in through listings and playlists only, and a detail only
\* through a job.
ListingsOnly == Kinds \cap {"detail", "unavailable", "views"} = {}

\* No request brings a detail.
NoDetailRequest == \A h \in Handlers : handler[h].pc \notin {"detailChannel", "detail"}

\* What the statements do to the rows, as far as they exist and have a detail.
RowsAre(stored, detailed) ==
    /\ DB!Stored' = stored
    /\ \A v \in Videos : DB!Detailed(v)' <=> v \in detailed

DetailedVideos == {v \in Videos : DB!Detailed(v)}

LEMMA ListingRows ==
    ASSUME Sound, NEW v \in Videos,
           \/ \E c \in DB!ChannelRef, form \in DB!NameForm : DB!UpsertFromCrawl(v, c, form)
           \/ DB!UpsertStub(v)
    PROVE  RowsAre(DB!Stored \cup {v}, DetailedVideos)
<1>0. video \in [Videos -> DB!Row \cup {Absent}] /\ Absent \notin DB!Row
  BY PipelineAssumption DEF Sound, DB!TypeOK
<1>1. ASSUME NEW row, video' = [video EXCEPT ![v] = row], row # Absent,
             row.detailed <=> DB!Detailed(v)
      PROVE  RowsAre(DB!Stored \cup {v}, DetailedVideos)
  BY <1>0, <1>1 DEF RowsAre, DetailedVideos, DB!Stored, DB!Detailed
<1>2. ASSUME NEW c \in DB!ChannelRef, NEW form \in DB!NameForm, DB!UpsertFromCrawl(v, c, form)
      PROVE  RowsAre(DB!Stored \cup {v}, DetailedVideos)
  <2> DEFINE row == [channelId |-> c,
                     named |-> IF form = "undefined"
                               THEN video[v] # Absent /\ video[v].named
                               ELSE DB!IsSet(form),
                     detailed |-> DB!Detailed(v),
                     available |-> video[v] = Absent \/ video[v].available]
  <2>1. video' = [video EXCEPT ![v] = row] /\ DB!Stored' = {u \in Videos : video'[u] # Absent}
    BY <1>2 DEF DB!UpsertFromCrawl, DB!Stored
  <2>2. row.detailed <=> DB!Detailed(v)
    OBVIOUS
  <2>3. row \in DB!Row
    <3>1. video[v] # Absent => /\ video[v].named \in BOOLEAN /\ video[v].available \in BOOLEAN
                               /\ video[v].detailed \in BOOLEAN
      BY <1>0 DEF DB!Row
    <3>2. /\ row.named \in BOOLEAN /\ row.detailed \in BOOLEAN /\ row.available \in BOOLEAN
      <4>1. row.detailed \in BOOLEAN /\ row.available \in BOOLEAN
        BY <3>1 DEF DB!Detailed
      <4>2. CASE form = "undefined"
        BY <3>1, <4>1, <4>2
      <4>3. CASE form # "undefined"
        BY <4>1, <4>3 DEF DB!IsSet
      <4> QED
        BY <4>2, <4>3
    <3> QED
      BY <3>2 DEF DB!Row
  <2> HIDE DEF row
  <2> QED
    BY <1>0, <1>1, <2>1, <2>2, <2>3
<1>3. CASE DB!UpsertStub(v)
  <2> DEFINE row == [channelId |-> NoChannel, named |-> FALSE,
                     detailed |-> FALSE, available |-> TRUE]
  <2>1. row \in DB!Row /\ ~ row.detailed
    BY DEF DB!Row, DB!ChannelRef
  <2>2. video' = [video EXCEPT ![v] = IF video[v] = Absent THEN row ELSE video[v]]
    BY <1>0, <1>3 DEF DB!UpsertStub
  <2> HIDE DEF row
  <2> QED
    BY <1>0, <1>1, <2>1, <2>2 DEF DB!Detailed
<1> QED
  BY <1>2, <1>3

LEMMA DetailRows ==
    ASSUME Sound, NEW v \in Videos, NEW c \in DB!ChannelRef, NEW named \in BOOLEAN,
           DB!UpsertFromDetail(v, c, named)
    PROVE  RowsAre(DB!Stored \cup {v}, DetailedVideos \cup ({v} \cap DB!Stored))
<1>0. video \in [Videos -> DB!Row \cup {Absent}] /\ Absent \notin DB!Row
  BY PipelineAssumption DEF Sound, DB!TypeOK
<1> DEFINE row == [channelId |-> c, named |-> named,
                   detailed |-> video[v] # Absent, available |-> TRUE]
<1>1. video' = [video EXCEPT ![v] = row]
  BY <1>0 DEF DB!UpsertFromDetail
<1>2. row \in DB!Row /\ (row.detailed <=> video[v] # Absent)
  BY DEF DB!Row
<1> HIDE DEF row
<1> QED
  BY <1>0, <1>1, <1>2 DEF RowsAre, DetailedVideos, DB!Stored, DB!Detailed

LEMMA DropRows ==
    ASSUME Sound, NEW vs \in SUBSET Videos, DB!DeleteVideos(vs)
    PROVE  RowsAre(DB!Stored \ vs, DetailedVideos \ vs)
  BY DEF DB!DeleteVideos, RowsAre, DetailedVideos, DB!Stored, DB!Detailed

LEMMA OrphanRows ==
    ASSUME Sound, NEW cs \in SUBSET Channels, DB!DeleteChannels(cs)
    PROVE  RowsAre(DB!Stored, DetailedVideos)
<1>0. video \in [Videos -> DB!Row \cup {Absent}] /\ Absent \notin DB!Row
  BY PipelineAssumption DEF Sound, DB!TypeOK
<1>1. \A v \in Videos : video[v] # Absent =>
         LET row == [video[v] EXCEPT !.channelId = NoChannel]
         IN  row # Absent /\ row.detailed = video[v].detailed
  BY <1>0 DEF DB!Row, DB!ChannelRef
<1>2. \A v \in Videos :
         /\ video[v] = Absent => video'[v] = Absent
         /\ video[v] # Absent => video'[v] # Absent /\ video'[v].detailed = video[v].detailed
  BY <1>1 DEF DB!DeleteChannels
<1> QED
  BY <1>2 DEF RowsAre, DetailedVideos, DB!Stored, DB!Detailed

LEMMA SameRows ==
    ASSUME video' = video
    PROVE  RowsAre(DB!Stored, DetailedVideos)
  BY DEF RowsAre, DetailedVideos, DB!Stored, DB!Detailed

\* What a step makes of the rows: a listing adds one, a job may add one or give
\* it its detail, sync drops some.
RowsMove ==
    \/ RowsAre(DB!Stored, DetailedVideos)
    \/ \E h \in Handlers :
          /\ ListVideo(h) \/ StubVideo(h)
          /\ handler[h].v \in Videos
          /\ RowsAre(DB!Stored \cup {handler[h].v}, DetailedVideos)
          /\ job' = job
    \/ \E w \in Slots :
          /\ slot[w] \in Videos
          /\ job[slot[w]].state = "active"
          /\ RowsAre(DB!Stored \cup {slot[w]},
                     DetailedVideos \cup ({slot[w]} \cap DB!Stored))
          /\ job' = job
    \/ \E t \in Tasks :
          /\ DropVideos(t)
          /\ task[t].todo \subseteq Videos
          /\ RowsAre(DB!Stored \ task[t].todo, DetailedVideos \ task[t].todo)
          /\ job' = job

\* A request for a detail takes no step where there is none.
LEMMA NoDetailNoStep ==
    ASSUME NoDetailRequest, NEW h \in Handlers
    PROVE  ~ DetailChannel(h) /\ ~ DetailVideo(h)
  BY DEF NoDetailRequest, DetailChannel, DetailVideo

LEMMA NextRows ==
    ASSUME Sound, ListingsOnly, NoDetailRequest, [Next]_vars
    PROVE  RowsMove
<1>0. /\ IInv
      /\ \A w \in Slots : slot[w] \in Videos => job[slot[w]].state = "active"
  BY PipelineAssumption DEF Sound, Q!OneSlotPerJob
<1>1. ASSUME video' = video PROVE RowsMove
  BY <1>1, SameRows DEF RowsMove
<1>2. ASSUME NEW h \in Handlers, HandlerStart(h) PROVE video' = video
  BY <1>2 DEF HandlerStart, StartList, StartChannelVideos, StartPlaylistItems,
     StartDetail, StartComments, dbVars
<1>3. ASSUME NEW h \in Handlers, HandlerStep(h) PROVE RowsMove
  <2>1. CASE ListVideo(h)
    <3>1. CASE DB!FKChannel(handler[h].c)
      <4>1. /\ DB!UpsertFromCrawl(handler[h].v, handler[h].c, handler[h].form)
            /\ job' = job
        BY <2>1, <3>1 DEF ListVideo, queueVars
      <4>2. /\ handler[h].v \in Videos /\ handler[h].c \in DB!ChannelRef
            /\ handler[h].form \in DB!NameForm
        BY <1>0, <2>1, HandlerLocals DEF ListVideo
      <4> QED
        BY <2>1, <4>1, <4>2, ListingRows DEF RowsMove
    <3>2. CASE ~ DB!FKChannel(handler[h].c)
      BY <1>1, <2>1, <3>2 DEF ListVideo, Abort, dbVars
    <3> QED
      BY <3>1, <3>2
  <2>2. CASE StubVideo(h)
    <3>1. DB!UpsertStub(handler[h].v) /\ handler[h].v \in Videos /\ job' = job
      BY <1>0, <2>2, HandlerLocals DEF StubVideo, queueVars
    <3> QED
      BY <2>2, <3>1, ListingRows DEF RowsMove
  <2>3. ASSUME ~ ListVideo(h), ~ StubVideo(h) PROVE video' = video
    BY <1>3, <2>3, NoDetailNoStep DEF HandlerStep, ListChannel, ListRank, ListEnqueue,
       StubEnqueue, PutItem, PutComment, Abort, dbVars, DB!UpsertChannel, DB!Attach,
       DB!UpsertItem
  <2> QED
    BY <1>1, <2>1, <2>2, <2>3
<1>4. ASSUME SingleStatement PROVE video' = video
  BY <1>4 DEF SingleStatement, Arrives, ListingsOnly, DB!UpsertChannel,
     DB!UpsertPlaylist, DB!UpsertShort
<1>5. ASSUME NEW w \in Slots, WorkerTake(w) \/ WorkerStep(w) PROVE RowsMove
  <2>1. CASE WorkerDetail(w)
    <3>1. CASE DB!FKChannel(worker[w].c)
      <4>1. /\ DB!UpsertFromDetail(slot[w], worker[w].c, worker[w].form = "name")
            /\ job' = job
        BY <2>1, <3>1 DEF WorkerDetail, queueVars
      <4>2. slot[w] \in Videos /\ worker[w].c \in DB!ChannelRef
        BY <1>0, <2>1, WorkerLocals DEF WorkerDetail
      <4>3. RowsAre(DB!Stored \cup {slot[w]}, DetailedVideos \cup ({slot[w]} \cap DB!Stored))
        BY <4>1, <4>2, DetailRows
      <4> QED
        BY <1>0, <4>1, <4>2, <4>3 DEF RowsMove
    <3>2. CASE ~ DB!FKChannel(worker[w].c)
      BY <1>1, <2>1, <3>2 DEF WorkerDetail, WorkerThrows, dbVars
    <3> QED
      BY <3>1, <3>2
  <2>2. ASSUME ~ WorkerDetail(w) PROVE video' = video
    BY <1>5, <2>2 DEF WorkerTake, WorkerStep, WorkerFetch, WorkerChannel, WorkerLabel,
       WorkerComments, WorkerAttach, WorkerReturn, WorkerThrows, dbVars,
       DB!UpsertChannel, DB!Attach
  <2> QED
    BY <1>1, <2>1, <2>2
<1>6. ASSUME NEW t \in Tasks, StartTask(t) \/ TaskStep(t) PROVE RowsMove
  <2>1. CASE DropVideos(t)
    <3>1. DB!DeleteVideos(task[t].todo) /\ task[t].todo \subseteq Videos /\ job' = job
      BY <1>0, <2>1, TaskLocals DEF DropVideos, queueVars
    <3> QED
      BY <2>1, <3>1, DropRows DEF RowsMove
  <2>2. CASE DropChannels(t)
    <3>1. DB!DeleteChannels(task[t].todo) /\ task[t].todo \subseteq Channels
      BY <1>0, <2>2, TaskLocals DEF DropChannels
    <3> QED
      BY <3>1, OrphanRows DEF RowsMove
  <2>3. ASSUME ~ DropVideos(t), ~ DropChannels(t) PROVE video' = video
    BY <1>6, <2>3 DEF StartTask, TaskStep, RepairScan, RepairQueue, SyncPoll, JunkScan,
       DropItems, OrphanScan, dbVars, DB!DeleteItemsOf
  <2> QED
    BY <1>1, <2>1, <2>2, <2>3
<1>7. ASSUME QueueTimers \/ Crash \/ UNCHANGED vars PROVE video' = video
  BY <1>7 DEF QueueTimers, Crash, vars, dbVars
<1> QED
  BY <1>1, <1>2, <1>3, <1>4, <1>5, <1>6, <1>7 DEF Next

\* Rows go only where sync drops them.
LEMMA RowsGrow ==
    ASSUME Sound, ListingsOnly, NoDetailRequest, [Next]_vars,
           \A t \in Tasks : ~ DropVideos(t)
    PROVE  DB!Stored \subseteq DB!Stored'
  BY NextRows DEF RowsMove, RowsAre

-----------------------------------------------------------------------------
(* No listed video is forgotten.                                             *)

\* No request for a detail comes up where none arrives.
LEMMA NextNoDetailRequest ==
    ASSUME IInv, ListingsOnly, NoDetailRequest, [Next]_vars
    PROVE  NoDetailRequest'
<1> SUFFICES ASSUME NEW h \in Handlers
             PROVE  handler'[h].pc \notin {"detailChannel", "detail"}
  BY DEF NoDetailRequest
<1>1. CASE Crash
  BY <1>1 DEF Crash, NoHandler
<1>2. CASE HandlerStart(h)
  BY <1>2, RequestStartsAt DEF ListingsOnly
<1>3. CASE HandlerStep(h)
  BY <1>3, RequestPath, NoDetailNoStep DEF HandlerStep
<1>4. CASE ~ Crash /\ ~ HandlerStart(h) /\ ~ HandlerStep(h)
  BY <1>4, RequestKept DEF NoDetailRequest
<1> QED
  BY <1>1, <1>2, <1>3, <1>4

\* Where a request goes from the statement that made its row.
LEMMA ListingGoesOn ==
    ASSUME Sound, NEW h \in Handlers, handler[h].v \in Videos,
           RowsAre(DB!Stored \cup {handler[h].v}, DetailedVideos),
           ListVideo(h) \/ StubVideo(h)
    PROVE  \/ UNCHANGED video
           \/ handler'[h].pc \in {"rank", "enqueue", "stubEnqueue"}
              /\ handler'[h].v = handler[h].v
           \/ DB!Detailed(handler[h].v)
<1>0. IInv
  BY DEF Sound
<1>1. CASE ListVideo(h)
  <2>1. handler'[h].pc # "item"
    BY <1>0, <1>1, RequestContinues, RequestEnds DEF ListVideo, Abort, NoHandler
  <2> QED
    BY <1>0, <1>1, <2>1, RequestPath DEF dbVars
<1>2. CASE StubVideo(h)
  <2>1. video'[handler[h].v].detailed => DB!Detailed(handler[h].v)
    BY DEF RowsAre, DetailedVideos, DB!Detailed, DB!Stored
  <2>2. ~ video'[handler[h].v].detailed => Continue(h, "stubEnqueue")
    BY <1>2 DEF StubVideo
  <2> QED
    BY <1>0, <1>2, <2>1, <2>2, RequestContinues DEF StubVideo, NoHandler
<1> QED
  BY <1>1, <1>2

\* A request that is about to add a job goes on to add it, where the process
\* does not die.
LEMMA EnqueueingGoesOn ==
    ASSUME Sound, [Next]_vars, ~ Crashes, NEW h \in Handlers,
           handler[h].pc \in {"rank", "enqueue", "stubEnqueue"},
           handler[h].v \in DB!Stored
    PROVE  \/ handler'[h].pc \in {"rank", "enqueue", "stubEnqueue"}
              /\ handler'[h].v = handler[h].v
           \/ job'[handler[h].v] # Q!NoJob
<1>0. job \in [Videos -> Q!JobRecord] /\ IInv /\ handler[h].v \in Videos
  BY DEF Sound, Q!TypeOK, DB!Stored
<1>1. ~ Crash
  BY DEF Crash
<1>2. ~ HandlerStart(h)
  BY <1>0, RequestStartsAt DEF Busy, NoHandler
<1>3. CASE ListRank(h)
  BY <1>0, <1>3, RequestPath
<1>4. CASE ListEnqueue(h) \/ StubEnqueue(h)
  <2>1. Q!Add(handler[h].v)
    BY <1>4 DEF ListEnqueue, StubEnqueue
  <2> QED
    BY <1>0, <2>1 DEF Q!Add, Q!Moved, Q!Record, Q!NoJob
<1>5. CASE HandlerStep(h)
  BY <1>3, <1>4, <1>5 DEF HandlerStep, ListChannel, ListVideo, StubVideo, PutItem,
     DetailChannel, DetailVideo, PutComment
<1>6. CASE ~ HandlerStep(h)
  BY <1>0, <1>1, <1>2, <1>6, RequestKept
<1> QED
  BY <1>5, <1>6

\* A listed video stays queued, or about to be.
LEMMA NextListedIsQueued ==
    ASSUME Sound, NoneIsNoJob, NoDetailRequest, ListedIsQueued,
           ListingsOnly, Untrimmed, ~ Crashes, [Next]_vars
    PROVE  ListedIsQueued'
<1> SUFFICES ASSUME NEW v \in Videos, v \in DB!Stored'
             PROVE  job'[v] # Q!NoJob \/ Enqueueing(v)'
  BY DEF ListedIsQueued, DB!Stored
<1>0. [Q!Next]_queueVars
  BY NextAllowed DEF Sound, Allowed
<1>1. job[v] # Q!NoJob => job'[v] # Q!NoJob
  BY <1>0, RecordsStay
<1>2. CASE v \in DB!Stored
  <2>1. CASE job[v] # Q!NoJob
    BY <1>1, <2>1
  <2>2. CASE Enqueueing(v)
    <3>1. PICK h \in Handlers : /\ handler[h].pc \in {"rank", "enqueue", "stubEnqueue"}
                                /\ handler[h].v = v
      BY <2>2 DEF Enqueueing
    <3> QED
      BY <1>2, <3>1, EnqueueingGoesOn DEF Enqueueing
  <2> QED
    BY <1>2, <2>1, <2>2 DEF ListedIsQueued
<1>3. CASE v \notin DB!Stored
  <2>1. RowsMove
    BY NextRows
  <2>2. ~ UNCHANGED video
    BY <1>3 DEF DB!Stored
  <2>3. ASSUME NEW h \in Handlers, ListVideo(h) \/ StubVideo(h),
               handler[h].v \in Videos,
               RowsAre(DB!Stored \cup {handler[h].v}, DetailedVideos)
        PROVE  Enqueueing(v)'
    <3>1. handler[h].v = v /\ ~ DB!Detailed(v)
      BY <1>3, <2>3 DEF RowsAre, DB!Stored, DB!Detailed
    <3> QED
      BY <2>2, <2>3, <3>1, ListingGoesOn DEF Enqueueing
  <2>4. ASSUME NEW w \in Slots, slot[w] \in Videos, job[slot[w]].state = "active",
               RowsAre(DB!Stored \cup {slot[w]},
                       DetailedVideos \cup ({slot[w]} \cap DB!Stored))
        PROVE  job[v] # Q!NoJob
    BY <1>3, <2>4 DEF RowsAre, Q!NoJob, Q!Record
  <2> QED
    BY <1>1, <1>3, <2>1, <2>3, <2>4 DEF RowsMove, RowsAre
<1> QED
  BY <1>2, <1>3

\* All of it holds initially.
LEMMA InitRecords == Init => NoneIsNoJob /\ NoDetailRequest /\ ListedIsQueued
<1> SUFFICES ASSUME Init PROVE NoneIsNoJob /\ NoDetailRequest /\ ListedIsQueued
  OBVIOUS
<1>1. NoneIsNoJob
  BY DEF Init, Q!Init, NoneIsNoJob
<1>2. NoDetailRequest
  BY DEF Init, NoDetailRequest, NoHandler
<1>3. ListedIsQueued
  BY DEF Init, DB!Init, ListedIsQueued, DB!Stored
<1> QED
  BY <1>1, <1>2, <1>3

\* No video that came in by a listing or a playlist is forgotten, whatever
\* overlaps: requests, jobs, repairs, cleanups and syncs.
THEOREM ListedAreQueued ==
    ASSUME ListingsOnly, Untrimmed, ~ Crashes
    PROVE  Spec => []ListedIsQueued
<1> DEFINE All == Sound /\ NoneIsNoJob /\ NoDetailRequest /\ ListedIsQueued
<1>1. Init => All
  BY InitSound, InitRecords
<1>2. All /\ [Next]_vars => All'
  <2> SUFFICES ASSUME All, [Next]_vars PROVE All'
    OBVIOUS
  <2>1. [Q!Next]_queueVars /\ IInv
    BY NextAllowed DEF Sound, Allowed
  <2> QED
    BY <2>1, NextSound, RecordsStay, NextNoDetailRequest, NextListedIsQueued
<1> QED
  BY <1>1, <1>2, PTL DEF Spec

-----------------------------------------------------------------------------
(* What becomes of the jobs on their way.                                    *)

\* The videos with a job on its way, and what a step makes of them.
CrawlingVideos == {v \in Videos : job[v].state \in Q!Pending}

CrawlingIs(vs) == \A v \in Videos : job'[v].state \in Q!Pending <=> v \in vs

\* A job is added, if there is none.
LEMMA AddCrawls ==
    ASSUME Sound, NEW j \in Videos, Q!Add(j)
    PROVE  CrawlingIs(CrawlingVideos) \/ CrawlingIs(CrawlingVideos \cup {j})
<1>0. job \in [Videos -> Q!JobRecord]
  BY DEF Sound, Q!TypeOK
<1>1. CASE job[j] = Q!NoJob
  <2>1. job' = [job EXCEPT ![j] = Q!Moved(j, "waiting")]
    BY <1>1 DEF Q!Add
  <2> QED
    BY <1>0, <2>1 DEF CrawlingIs, CrawlingVideos, Q!Moved, Q!Record, Q!Pending
<1>2. CASE job[j] # Q!NoJob
  BY <1>2 DEF Q!Add, CrawlingIs, CrawlingVideos
<1> QED
  BY <1>1, <1>2

\* Whatever else the queue does, it ends at most one.
LEMMA WorkCrawls ==
    ASSUME Sound,
           \/ \E j \in Videos : Q!Promote(j) \/ Q!RecoverStalled(j)
           \/ \E w \in Slots : \E j \in Videos : Q!Take(w, j)
           \/ \E w \in Slots : Q!Complete(w) \/ Q!Fail(w)
           \/ job' = job
    PROVE  CrawlingIs(CrawlingVideos) \/ \E j \in Videos : CrawlingIs(CrawlingVideos \ {j})
<1>0. /\ job \in [Videos -> Q!JobRecord]
      /\ slot \in [Slots -> Videos \cup {Idle}]
      /\ \A w \in Slots : slot[w] # Idle => job[slot[w]].state = "active"
      /\ KeepCompleted \in Nat /\ KeepFailed \in Nat
  BY PipelineAssumption DEF Sound, Q!TypeOK, Q!OneSlotPerJob
<1>2. ASSUME NEW j \in Videos, NEW record, NEW keep \in Nat,
             job[j].state = "active", record.state \in Q!Finished,
             Q!Finish(j, record, keep)
      PROVE  CrawlingIs(CrawlingVideos \ {j})
  <2>1. job[j].state \in Q!Pending
    BY <1>2 DEF Q!Pending
  <2>2. \A v \in Videos :
          /\ v = j => job'[v].state \in Q!Finished
          /\ v # j => (job'[v].state \in Q!Pending <=> job[v].state \in Q!Pending)
    BY <1>2, <2>1, FinishMoves
  <2> QED
    BY <2>2 DEF CrawlingIs, CrawlingVideos, Q!Pending, Q!Finished
<1>3. ASSUME NEW j \in Videos, Q!Promote(j) PROVE CrawlingIs(CrawlingVideos)
  BY <1>0, <1>3 DEF Q!Promote, Q!Moved, Q!Record, Q!Pending, CrawlingIs, CrawlingVideos
<1>4. ASSUME NEW j \in Videos, Q!RecoverStalled(j)
      PROVE  CrawlingIs(CrawlingVideos) \/ CrawlingIs(CrawlingVideos \ {j})
  <2>1. CASE job' = [job EXCEPT ![j] = Q!Record("waiting", job[j].attempts, job[j].stalls + 1)]
    BY <1>0, <1>4, <2>1 DEF Q!RecoverStalled, Q!Record, Q!Pending, CrawlingIs, CrawlingVideos
  <2>2. CASE Q!Finish(j, Q!Record("failed", job[j].attempts, job[j].stalls + 1), KeepFailed)
    BY <1>0, <1>2, <1>4, <2>2 DEF Q!RecoverStalled, Q!Record, Q!Finished
  <2> QED
    BY <1>4, <2>1, <2>2 DEF Q!RecoverStalled
<1>5. ASSUME NEW w \in Slots, NEW j \in Videos, Q!Take(w, j) PROVE CrawlingIs(CrawlingVideos)
  BY <1>0, <1>5 DEF Q!Take, Q!Moved, Q!Record, Q!Pending, CrawlingIs, CrawlingVideos
<1>6. ASSUME NEW w \in Slots, Q!Complete(w)
      PROVE  slot[w] \in Videos /\ CrawlingIs(CrawlingVideos \ {slot[w]})
  <2>1. slot[w] \in Videos /\ job[slot[w]].state = "active"
    BY <1>0, <1>6 DEF Q!Complete
  <2> QED
    BY <1>0, <1>2, <1>6, <2>1 DEF Q!Complete, Q!Moved, Q!Record, Q!Finished
<1>7. ASSUME NEW w \in Slots, Q!Fail(w)
      PROVE  /\ slot[w] \in Videos
             /\ CrawlingIs(CrawlingVideos) \/ CrawlingIs(CrawlingVideos \ {slot[w]})
  <2>1. slot[w] \in Videos /\ job[slot[w]].state = "active"
    BY <1>0, <1>7 DEF Q!Fail
  <2>2. CASE job' = [job EXCEPT ![slot[w]] =
                       Q!Record("delayed", job[slot[w]].attempts + 1, job[slot[w]].stalls)]
    BY <1>0, <2>1, <2>2 DEF Q!Record, Q!Pending, CrawlingIs, CrawlingVideos
  <2>3. CASE Q!Finish(slot[w], Q!Record("failed", job[slot[w]].attempts + 1,
                                        job[slot[w]].stalls), KeepFailed)
    BY <1>0, <1>2, <2>1, <2>3 DEF Q!Record, Q!Finished
  <2> QED
    BY <1>7, <2>1, <2>2, <2>3 DEF Q!Fail
<1>8. ASSUME job' = job PROVE CrawlingIs(CrawlingVideos)
  BY <1>8 DEF CrawlingIs, CrawlingVideos
<1> QED
  BY <1>3, <1>4, <1>5, <1>6, <1>7, <1>8

-----------------------------------------------------------------------------
\* A listing has a row under its id before it adds the job, and a repair adds
\* jobs for rows.
RowThere == \A h \in Handlers :
    handler[h].pc \in {"enqueue", "stubEnqueue"} => handler[h].v \in DB!Stored

TodoThere == \A t \in Tasks : task[t].pc = "queue" => task[t].todo \subseteq DB!Stored

\* A step of the pipeline gives at most one video a job or takes it from it.
LEMMA NextCrawls ==
    ASSUME Sound, RowThere, TodoThere, [Next]_vars
    PROVE  \/ CrawlingIs(CrawlingVideos)
           \/ \E v \in DB!Stored : CrawlingIs(CrawlingVideos \cup {v})
           \/ \E v \in Videos : CrawlingIs(CrawlingVideos \ {v})
<1>0. DB!Stored \subseteq Videos /\ IInv
  BY DEF DB!Stored, Sound
<1>1. ASSUME NEW h \in Handlers, HandlerStart(h) PROVE job' = job
  BY <1>1 DEF HandlerStart, StartList, StartChannelVideos, StartPlaylistItems,
     StartDetail, StartComments, queueVars
<1>2. ASSUME NEW h \in Handlers, HandlerStep(h)
      PROVE  job' = job \/ \E v \in DB!Stored : Q!Add(v)
  BY <1>2 DEF HandlerStep, ListChannel, ListVideo, ListRank, ListEnqueue, StubVideo,
     StubEnqueue, PutItem, DetailChannel, DetailVideo, PutComment, Abort, queueVars, RowThere
<1>3. ASSUME NEW w \in Slots, WorkerTake(w) \/ WorkerStep(w)
      PROVE  \/ \E j \in Videos : Q!Take(w, j)
             \/ Q!Complete(w) \/ Q!Fail(w)
             \/ job' = job
  BY <1>3 DEF WorkerTake, WorkerStep, WorkerFetch, WorkerChannel, WorkerDetail,
     WorkerLabel, WorkerComments, WorkerAttach, WorkerReturn, WorkerThrows, queueVars
<1>4. ASSUME NEW t \in Tasks, StartTask(t) \/ TaskStep(t)
      PROVE  job' = job \/ \E v \in DB!Stored : Q!Add(v)
  BY <1>4 DEF StartTask, TaskStep, RepairScan, RepairQueue, SyncPoll, JunkScan,
     DropItems, DropVideos, OrphanScan, DropChannels, queueVars, TodoThere
<1>5. ASSUME SingleStatement \/ Crash \/ UNCHANGED vars PROVE job' = job
  BY <1>5 DEF SingleStatement, Crash, Q!Crash, vars, queueVars
<1>6. ASSUME QueueTimers PROVE \E j \in Videos : Q!Promote(j) \/ Q!RecoverStalled(j)
  BY <1>6 DEF QueueTimers
<1> QED
  BY <1>0, <1>1, <1>2, <1>3, <1>4, <1>5, <1>6, AddCrawls, WorkCrawls DEF Next

-----------------------------------------------------------------------------
(* The pipeline implements CrawlPromise.                                     *)

\* While sync drops rows no request relies on one.
LEMMA NextRowThere ==
    ASSUME Protocol, Quiet, ListingsOnly, NoDetailRequest, RowThere, [Next]_vars
    PROVE  RowThere'
<1> SUFFICES ASSUME NEW h \in Handlers, handler'[h].pc \in {"enqueue", "stubEnqueue"}
             PROVE  handler'[h].v \in DB!Stored'
  BY DEF RowThere
<1>0. Sound /\ IInv
  BY DEF Quiet, Sound
<1>1. ~ Crash /\ ~ HandlerStart(h)
  BY <1>0, RequestStartsAt DEF Crash, NoHandler
<1>2. ASSUME NEW t \in Tasks, DropVideos(t) PROVE FALSE
  <2>1. Running(t) /\ handler' = handler
    BY <1>2 DEF DropVideos, Running, NoTask, TaskGoes
  <2> QED
    BY <2>1 DEF Quiet, Alone, Busy, NoHandler
<1>3. DB!Stored \subseteq DB!Stored'
  BY <1>0, <1>2, RowsGrow
<1>4. CASE ListVideo(h)
  <2>1. CASE DB!FKChannel(handler[h].c)
    <3>1. /\ DB!UpsertFromCrawl(handler[h].v, handler[h].c, handler[h].form)
          /\ handler'[h].v = handler[h].v
      BY <1>0, <1>4, <2>1, RequestContinues DEF ListVideo, NoHandler
    <3>2. /\ handler[h].v \in Videos /\ handler[h].c \in DB!ChannelRef
          /\ handler[h].form \in DB!NameForm
      BY <1>0, <1>4, HandlerLocals DEF ListVideo
    <3> QED
      BY <1>0, <3>1, <3>2, ListingRows DEF RowsAre
  <2>2. CASE ~ DB!FKChannel(handler[h].c)
    BY <1>0, <1>4, <2>2, RequestEnds DEF ListVideo, Abort
  <2> QED
    BY <2>1, <2>2
<1>5. CASE StubVideo(h)
  <2>1. DB!UpsertStub(handler[h].v) /\ handler[h].v \in Videos
    BY <1>0, <1>5, HandlerLocals DEF StubVideo
  <2>2. handler'[h].v = handler[h].v
    BY <1>0, <1>5, RequestContinues DEF StubVideo, NoHandler
  <2> QED
    BY <1>0, <2>1, <2>2, ListingRows DEF RowsAre
<1>6. CASE ListRank(h)
  BY <1>0, <1>3, <1>6, RequestPath
<1>7. CASE HandlerStep(h)
  BY <1>0, <1>4, <1>5, <1>6, <1>7, RequestPath, NoDetailNoStep DEF HandlerStep
<1>8. CASE ~ HandlerStep(h)
  BY <1>0, <1>1, <1>3, <1>8, RequestKept DEF RowThere
<1> QED
  BY <1>7, <1>8

\* Nor does a repair, which is sync's own.
LEMMA NextTodoThere ==
    ASSUME Protocol, Quiet, ListingsOnly, NoDetailRequest, TodoThere, [Next]_vars
    PROVE  TodoThere'
<1> SUFFICES ASSUME NEW t \in Tasks, task'[t].pc = "queue"
             PROVE  task'[t].todo \subseteq DB!Stored'
  BY DEF TodoThere
<1>0. Sound /\ IInv /\ task \in [Tasks -> TaskState]
  BY DEF Quiet, Sound, IInv, LocalsOK
<1>1. ~ Crash /\ ~ StartTask(t)
  BY <1>0, TaskPath DEF Crash, NoTask
<1>2. ASSUME NEW u \in Tasks, DropVideos(u) PROVE FALSE
  <2>1. Running(u) /\ (u # t => task'[t] = task[t])
    BY <1>0, <1>2 DEF DropVideos, Running, NoTask, TaskGoes
  <2>2. u = t
    BY <2>1 DEF Quiet, Alone, Running, NoTask
  <2> QED
    BY <1>0, <1>2, <2>2, TaskPath
<1>3. DB!Stored \subseteq DB!Stored'
  BY <1>0, <1>2, RowsGrow
<1>4. CASE RepairScan(t)
  <2>1. task'[t].todo \subseteq DB!Stored
    BY <1>0, <1>4, TaskPath
  <2> QED
    BY <1>3, <2>1
<1>5. CASE RepairQueue(t)
  <2>1. task'[t].todo \subseteq task[t].todo
    BY <1>0, <1>5, TaskPath
  <2> QED
    BY <1>3, <1>5, <2>1 DEF RepairQueue, TodoThere
<1>6. CASE SyncPoll(t)
  BY <1>0, <1>6, TaskPath
<1>7. CASE TaskStep(t)
  BY <1>0, <1>2, <1>4, <1>5, <1>6, <1>7, TaskPath DEF TaskStep
<1>8. CASE ~ TaskStep(t)
  BY <1>0, <1>1, <1>3, <1>8, TaskKept DEF TodoThere
<1> QED
  BY <1>7, <1>8

\* What CrawlPromise sees of a video.
StatusOf(v) == CASE video[v] = Absent -> "unknown"
                 [] video[v] # Absent /\ video[v].detailed -> "detailed"
                 [] OTHER -> "listed"

\* It goes by the rows.
LEMMA StatusIs ==
    ASSUME NEW v \in Videos
    PROVE  StatusOf(v) = IF v \notin DB!Stored THEN "unknown"
                         ELSE IF v \in DetailedVideos THEN "detailed" ELSE "listed"
  BY DEF StatusOf, DB!Stored, DetailedVideos, DB!Detailed

\* A step that makes these rows makes of a video what they say.
LEMMA StatusBecomes ==
    ASSUME NEW stored, NEW detailed, RowsAre(stored, detailed), NEW v \in Videos
    PROVE  StatusOf(v)' = IF v \notin stored THEN "unknown"
                          ELSE IF v \in detailed THEN "detailed" ELSE "listed"
  BY DEF StatusOf, DB!Stored, DetailedVideos, DB!Detailed, RowsAre

\* And of the jobs on their way.
LEMMA CrawlingBecomes ==
    ASSUME NEW vs \in SUBSET Videos, CrawlingIs(vs)
    PROVE  CrawlingVideos' = vs
  BY DEF CrawlingIs, CrawlingVideos

\* The state of CrawlPromise that the pipeline's stands for.
Statuses == [v \in Videos |-> StatusOf(v)]

\* Nothing is listed and nothing is crawled at first.
LEMMA InitPromise == Init => Promise!Init
<1> SUFFICES ASSUME Init PROVE Promise!Init
  OBVIOUS
<1>1. \A v \in Videos : video[v] = Absent /\ job[v].state \notin Q!Pending
  BY DEF Init, DB!Init, Q!Init, Q!NoJob, Q!Record, Q!Pending
<1> QED
  BY <1>1 DEF Promise!Init

\* The steps of CrawlPromise, in these words.
LEMMA PromiseSteps ==
    /\ \A v \in Videos : /\ v \notin DB!Stored
                         /\ Statuses' = [Statuses EXCEPT ![v] = "listed"]
                         /\ CrawlingVideos' = CrawlingVideos
                         => Promise!List(v)
    /\ \A v \in Videos : /\ v \in DB!Stored
                         /\ CrawlingVideos' = CrawlingVideos \cup {v}
                         /\ Statuses' = Statuses
                         => Promise!StartCrawl(v)
    /\ \A v \in Videos : /\ v \in DB!Stored \ DetailedVideos
                         /\ v \in CrawlingVideos
                         /\ Statuses' = [Statuses EXCEPT ![v] = "detailed"]
                         /\ CrawlingVideos' = CrawlingVideos
                         => Promise!Detail(v)
    /\ \A v \in Videos : /\ CrawlingVideos' = CrawlingVideos \ {v}
                         /\ Statuses' = Statuses
                         => Promise!EndCrawl(v)
    /\ Statuses' = Statuses /\ CrawlingVideos' = CrawlingVideos
       => UNCHANGED Promise!vars
<1>1. \A v \in Videos : Statuses[v] = StatusOf(v)
  BY DEF Statuses
<1>2. \A v \in Videos :
         /\ Statuses[v] = "unknown" <=> v \notin DB!Stored
         /\ Statuses[v] = "listed" <=> v \in DB!Stored \ DetailedVideos
  BY <1>1, StatusIs
<1> QED
  BY <1>2 DEF Promise!List, Promise!StartCrawl, Promise!Detail, Promise!EndCrawl,
     Promise!vars, Statuses, StatusOf, CrawlingVideos

\* What sync drops, in these words.
LEMMA PromiseDrop ==
    ASSUME NEW vs \in SUBSET Videos,
           vs \subseteq DB!Stored \ DetailedVideos,
           vs \cap CrawlingVideos = {},
           Statuses' = [v \in Videos |-> IF v \in vs THEN "unknown" ELSE Statuses[v]],
           CrawlingVideos' = CrawlingVideos
    PROVE  Promise!Next
<1>1. \A v \in vs : Statuses[v] = "listed"
  BY StatusIs DEF Statuses
<1>2. Promise!Drop(vs)
  BY <1>1 DEF Promise!Drop, Statuses, StatusOf, CrawlingVideos
<1>3. \E us \in SUBSET Videos : Promise!Drop(us)
  BY <1>2
<1> QED
  BY <1>3 DEF Promise!Next

\* Every step of the pipeline is a step of CrawlPromise, or none to it.
LEMMA NextPromise ==
    ASSUME Sound, DropsOnlyJunk, ListingsOnly, NoDetailRequest, RowThere, TodoThere,
           [Next]_vars
    PROVE  [Promise!Next]_(Promise!vars)
<1>1. \A v \in Videos : Statuses[v] = IF v \notin DB!Stored THEN "unknown"
                         ELSE IF v \in DetailedVideos THEN "detailed" ELSE "listed"
  BY StatusIs DEF Statuses
<1>2. ASSUME NEW stored, NEW detailed, RowsAre(stored, detailed)
      PROVE  Statuses' = [v \in Videos |-> IF v \notin stored THEN "unknown"
                          ELSE IF v \in detailed THEN "detailed" ELSE "listed"]
  BY <1>2, StatusBecomes DEF Statuses
<1>3. job' = job => CrawlingVideos' = CrawlingVideos
  BY DEF CrawlingVideos
<1>4. Statuses = [v \in Videos |-> Statuses[v]]
  BY DEF Statuses
<1>5. /\ DB!Stored \subseteq Videos /\ DetailedVideos \subseteq DB!Stored
      /\ CrawlingVideos \subseteq Videos
  BY DEF DetailedVideos, DB!Detailed, DB!Stored, CrawlingVideos
<1>6. ASSUME RowsAre(DB!Stored, DetailedVideos)
      PROVE  [Promise!Next]_(Promise!vars)
  <2>1. Statuses' = Statuses
    BY <1>1, <1>2, <1>4, <1>6
  <2>2. CASE CrawlingIs(CrawlingVideos)
    BY <1>5, <2>1, <2>2, CrawlingBecomes, PromiseSteps
  <2>3. ASSUME NEW v \in DB!Stored, CrawlingIs(CrawlingVideos \cup {v})
        PROVE  Promise!StartCrawl(v) /\ v \in Videos
    BY <1>5, <2>1, <2>3, CrawlingBecomes, PromiseSteps
  <2>4. ASSUME NEW v \in Videos, CrawlingIs(CrawlingVideos \ {v})
        PROVE  Promise!EndCrawl(v)
    BY <1>5, <2>1, <2>4, CrawlingBecomes, PromiseSteps
  <2> QED
    BY <2>2, <2>3, <2>4, NextCrawls DEF Promise!Next
<1>7. ASSUME NEW v \in Videos, RowsAre(DB!Stored \cup {v}, DetailedVideos), job' = job
      PROVE  [Promise!Next]_(Promise!vars)
  <2>1. CASE v \in DB!Stored
    <3>1. DB!Stored \cup {v} = DB!Stored
      BY <2>1
    <3> QED
      BY <1>6, <1>7, <3>1
  <2>2. CASE v \notin DB!Stored
    <3>1. Statuses' = [Statuses EXCEPT ![v] = "listed"]
      BY <1>1, <1>2, <1>4, <1>5, <1>7, <2>2
    <3>2. Promise!List(v)
      BY <1>3, <1>7, <2>2, <3>1, PromiseSteps
    <3> QED
      BY <3>2 DEF Promise!Next
  <2> QED
    BY <2>1, <2>2
<1>8. ASSUME NEW v \in Videos, job[v].state = "active", job' = job,
             RowsAre(DB!Stored \cup {v}, DetailedVideos \cup ({v} \cap DB!Stored))
      PROVE  [Promise!Next]_(Promise!vars)
  <2>1. CASE v \notin DB!Stored
    <3>1. DetailedVideos \cup ({v} \cap DB!Stored) = DetailedVideos
      BY <2>1
    <3> QED
      BY <1>7, <1>8, <3>1
  <2>2. CASE v \in DB!Stored /\ v \notin DetailedVideos
    <3>1. Statuses' = [Statuses EXCEPT ![v] = "detailed"]
      BY <1>1, <1>2, <1>4, <1>5, <1>8, <2>2
    <3>2. v \in CrawlingVideos
      BY <1>8 DEF CrawlingVideos, Q!Pending
    <3>3. Promise!Detail(v)
      BY <1>3, <1>8, <2>2, <3>1, <3>2, PromiseSteps
    <3> QED
      BY <3>3 DEF Promise!Next
  <2>3. CASE v \in DB!Stored /\ v \in DetailedVideos
    <3>1. /\ DB!Stored \cup {v} = DB!Stored
          /\ DetailedVideos \cup ({v} \cap DB!Stored) = DetailedVideos
      BY <2>3
    <3> QED
      BY <1>6, <1>8, <3>1
  <2> QED
    BY <2>1, <2>2, <2>3
<1>9. ASSUME NEW t \in Tasks, DropVideos(t), task[t].todo \subseteq Videos, job' = job,
             RowsAre(DB!Stored \ task[t].todo, DetailedVideos \ task[t].todo)
      PROVE  [Promise!Next]_(Promise!vars)
  <2> DEFINE vs == task[t].todo
  <2>1. \A v \in vs : DB!Junk(v) /\ job[v].state \notin Q!Pending
    BY <1>9 DEF DropVideos, DropsOnlyJunk, Running, NoTask
  <2>2. vs \subseteq DB!Stored \ DetailedVideos /\ vs \cap CrawlingVideos = {}
    BY <1>9, <2>1 DEF DB!Junk, DB!Stored, DetailedVideos, DB!Detailed, CrawlingVideos
  <2> HIDE DEF vs
  <2>3. Statuses' = [v \in Videos |-> IF v \in vs THEN "unknown" ELSE Statuses[v]]
    BY <1>1, <1>2, <1>9 DEF vs
  <2>4. vs \in SUBSET Videos
    BY <1>9 DEF vs
  <2>5. CrawlingVideos' = CrawlingVideos
    BY <1>3, <1>9
  <2> QED
    BY <2>2, <2>3, <2>4, <2>5, PromiseDrop
<1> QED
  BY <1>6, <1>7, <1>8, <1>9, NextRows DEF RowsMove

\* Nobody relies on a row at first.
LEMMA InitThere == Init => RowThere /\ TodoThere
  BY DEF Init, RowThere, TodoThere, NoHandler, NoTask

\* The pipeline implements CrawlPromise: whatever requests, jobs and syncs do to
\* a video, and over crashes, it is listed, detailed and dropped only in the ways
\* CrawlPromise has.
THEOREM PipelineKeepsPromise ==
    ASSUME Protocol, ListingsOnly
    PROVE  Spec => KeepsPromise
<1> DEFINE All == Quiet /\ Finds /\ NoDetailRequest /\ RowThere /\ TodoThere
<1>1. Init => All
  BY InitQuiet, InitRecords, InitThere
<1>2. All /\ [Next]_vars => All'
  <2> SUFFICES ASSUME All, [Next]_vars PROVE All'
    OBVIOUS
  <2>1. IInv
    BY DEF Quiet, Sound
  <2> QED
    BY <2>1, NextQuiet, NextFinds, NextNoDetailRequest, NextRowThere, NextTodoThere
<1>3. All /\ [Next]_vars => [Promise!Next]_(Promise!vars)
  BY NextPromise DEF Quiet, Finds
<1> QED
  BY <1>1, <1>2, <1>3, InitPromise, PTL DEF Spec, KeepsPromise, Promise!Spec

-----------------------------------------------------------------------------
(* Sync has tried every playlist video.                                      *)

\* What goes on beside a task leaves the items alone, and the details the videos have.
LEMMA BesideKeeps ==
    ASSUME Sound,
           (\E w \in Slots : WorkerTake(w) \/ WorkerStep(w)) \/ QueueTimers
    PROVE  /\ task' = task /\ items' = items
           /\ \A v \in DB!Stored : video[v].detailed => video'[v].detailed
<1>0. video \in [Videos -> DB!Row \cup {Absent}] /\ DB!Stored \subseteq Videos
  BY DEF Sound, DB!TypeOK, DB!Stored
<1>1. ASSUME NEW w \in Slots, WorkerTake(w) \/ WorkerStep(w)
      PROVE  task' = task /\ items' = items
  BY <1>1 DEF WorkerTake, WorkerStep, WorkerFetch, WorkerChannel, WorkerDetail,
     WorkerLabel, WorkerComments, WorkerAttach, WorkerReturn, WorkerThrows, WorkerGoes,
     dbVars, DB!UpsertChannel, DB!UpsertFromDetail, DB!Attach
<1>2. ASSUME NEW w \in Slots, WorkerTake(w) \/ WorkerStep(w), ~ WorkerDetail(w)
      PROVE  video' = video
  BY <1>2 DEF WorkerTake, WorkerStep, WorkerFetch, WorkerChannel, WorkerLabel,
     WorkerComments, WorkerAttach, WorkerReturn, WorkerThrows, dbVars,
     DB!UpsertChannel, DB!Attach
<1>3. ASSUME NEW w \in Slots, WorkerDetail(w), NEW v \in DB!Stored, video[v].detailed
      PROVE  video'[v].detailed
  <2>1. CASE DB!FKChannel(worker[w].c)
    <3> DEFINE row == [channelId |-> worker[w].c, named |-> worker[w].form = "name",
                       detailed |-> video[slot[w]] # Absent, available |-> TRUE]
    <3>1. video' = [video EXCEPT ![slot[w]] = row] /\ slot[w] \in Videos
      BY <1>0, <1>3, <2>1, WorkerLocals DEF WorkerDetail, DB!UpsertFromDetail, Sound
    <3>2. row.detailed <=> video[slot[w]] # Absent
      OBVIOUS
    <3> HIDE DEF row
    <3> QED
      BY <1>0, <1>3, <3>1, <3>2 DEF DB!Stored
  <2>2. CASE ~ DB!FKChannel(worker[w].c)
    BY <1>3, <2>2 DEF WorkerDetail, WorkerThrows, dbVars
  <2> QED
    BY <2>1, <2>2
<1>4. ASSUME QueueTimers PROVE task' = task /\ items' = items /\ video' = video
  BY <1>4 DEF QueueTimers, dbVars
<1> QED
  BY <1>1, <1>2, <1>3, <1>4

\* What a repair, and sync after it, has seen to so far: a playlist video without
\* a detail is still to be queued, or is queued, or has been.
Tried(t) ==
    /\ task[t].pc \in {"queue", "poll"} =>
          \A i \in items : \/ video[i[2]].detailed
                           \/ task[t].pc = "queue" /\ i[2] \in task[t].todo
                           \/ job[i[2]] # Q!NoJob
    /\ task[t].pc = "junk" =>
          \A i \in items : video[i[2]].detailed \/ job[i[2]].state \in Q!Finished

\* A step of the task's own.
LEMMA OwnTried ==
    ASSUME Protocol, Untrimmed, Quiet, NoneIsNoJob, [Next]_vars,
           NEW t \in Tasks, Tried(t), TaskStep(t)
    PROVE  Tried(t)'
<1>0. /\ IInv /\ Sound
      /\ job \in [Videos -> Q!JobRecord]
      /\ \A i \in items : i[2] \in Videos /\ i[2] \in DB!Stored
  BY DEF Quiet, Sound, Q!TypeOK, DB!ReferencesResolve, DB!Stored
<1>1. CASE RepairScan(t)
  <2>1. UNCHANGED <<video, items>>
    BY <1>1 DEF RepairScan, dbVars
  <2>2. \A i \in items : video[i[2]].detailed \/ i[2] \in task'[t].todo
    BY <1>0, <1>1, TaskPath
  <2>3. task'[t].pc = "queue"
    BY <1>0, <1>1, TaskPath
  <2> QED
    BY <2>1, <2>2, <2>3 DEF Tried
<1>2. CASE RepairQueue(t)
  <2>1. /\ task[t].pc = "queue" /\ task[t].todo \subseteq Videos
        /\ UNCHANGED <<video, items>>
    BY <1>0, <1>2, TaskLocals DEF RepairQueue, dbVars
  <2>2. ASSUME NEW v \in task[t].todo, Q!Add(v), task'[t].pc = "queue",
               task'[t].todo = task[t].todo \ {v}
        PROVE  Tried(t)'
    <3>1. job'[v] # Q!NoJob
      BY <1>0, <2>1, <2>2 DEF Q!Add, Q!Moved, Q!Record, Q!NoJob
    <3>2. \A u \in Videos : job[u] # Q!NoJob => job'[u] # Q!NoJob
      BY <1>0, RecordsStay, NextAllowed DEF Allowed
    <3> QED
      BY <1>0, <2>1, <2>2, <3>1, <3>2 DEF Tried
  <2>3. ASSUME task[t].todo = {}, UNCHANGED queueVars, task'[t].pc \in {"poll", "idle"}
        PROVE  Tried(t)'
    BY <2>1, <2>3 DEF Tried, queueVars
  <2> QED
    BY <1>0, <1>2, <2>2, <2>3, TaskPath
<1>3. CASE SyncPoll(t)
  <2>1. /\ UNCHANGED <<video, items, job>>
        /\ task[t].pc = "poll"
    BY <1>3 DEF SyncPoll, dbVars, queueVars
  <2>2. task'[t].pc = "junk" /\ QueueDrained
    BY <1>0, <1>3, TaskPath DEF Protocol
  <2>3. \A v \in Videos : job[v] # Q!NoJob => job[v].state \in Q!Finished
    BY <1>0, <2>2 DEF QueueDrained, NoneIsNoJob, Q!JobRecord
  <2> QED
    BY <1>0, <2>1, <2>2, <2>3 DEF Tried
<1>4. CASE JunkScan(t) \/ DropItems(t) \/ DropVideos(t) \/ OrphanScan(t) \/ DropChannels(t)
  <2>1. task'[t].pc \in {"dropItems", "dropVideos", "orphans", "dropChannels", "idle"}
    BY <1>0, <1>4, TaskPath
  <2> QED
    BY <2>1 DEF Tried
<1> QED
  BY <1>1, <1>2, <1>3, <1>4 DEF TaskStep

\* Any other step.
LEMMA NextTried ==
    ASSUME Protocol, Untrimmed, Quiet, NoneIsNoJob, [Next]_vars,
           NEW t \in Tasks, Tried(t)
    PROVE  Tried(t)'
<1>0. /\ IInv /\ Sound
      /\ \A i \in items : i[2] \in Videos /\ i[2] \in DB!Stored
  BY DEF Quiet, Sound, DB!ReferencesResolve, DB!Stored
<1>1. CASE UNCHANGED vars
  BY <1>1 DEF vars, dbVars, queueVars, Tried
<1>2. CASE Crash
  BY <1>2 DEF Crash, NoTask, Tried
<1>3. CASE StartTask(t)
  <2>1. task'[t].pc = "repair"
    BY <1>0, <1>3, TaskPath DEF Protocol
  <2> QED
    BY <2>1 DEF Tried
<1>4. CASE Next /\ Running(t) /\ ~ Crash /\ ~ TaskStep(t)
  <2>1. /\ task' = task /\ items' = items
        /\ \A v \in DB!Stored : video[v].detailed => video'[v].detailed
    BY <1>0, <1>4, BesideTask, BesideKeeps
  <2>2. [Q!Next]_queueVars
    BY <1>0, NextAllowed DEF Allowed
  <2>3. \A v \in Videos : /\ job[v] # Q!NoJob => job'[v] # Q!NoJob
                          /\ job[v].state \in Q!Finished => job'[v].state \in Q!Finished
    BY <1>0, <2>2, RecordsStay, NextJobMoves
  <2> QED
    BY <1>0, <2>1, <2>3 DEF Tried
<1>5. CASE Next /\ ~ Running(t) /\ ~ Crash /\ ~ StartTask(t)
  <2>1. task'[t] = task[t] /\ task[t] = NoTask
    BY <1>0, <1>5, NoTaskNoStep, TaskKept DEF Running
  <2> QED
    BY <2>1 DEF Tried, NoTask
<1> QED
  BY <1>1, <1>2, <1>3, <1>4, <1>5, OwnTried

\* When sync stops waiting, every playlist video was tried: the repair missed
\* none, no job of its was lost, and every one has come to its end.
THEOREM SyncTriesAll ==
    ASSUME Protocol, Untrimmed
    PROVE  Spec => []RepairTried
<1> DEFINE All == Quiet /\ NoneIsNoJob /\ \A t \in Tasks : Tried(t)
<1>1. Init => All
  <2>1. Init => \A t \in Tasks : Tried(t)
    BY DEF Init, Tried, NoTask
  <2> QED
    BY <2>1, InitQuiet, InitRecords
<1>2. All /\ [Next]_vars => All'
  <2> SUFFICES ASSUME All, [Next]_vars PROVE All'
    OBVIOUS
  <2>1. Sound /\ [Q!Next]_queueVars
    BY NextAllowed DEF Quiet, Sound, Allowed
  <2> QED
    BY <2>1, NextQuiet, RecordsStay, NextTried
<1>3. All => RepairTried
  BY DEF RepairTried, Tried
<1> QED
  BY <1>1, <1>2, <1>3, PTL DEF Spec
=============================================================================
