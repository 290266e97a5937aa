---------------------------- MODULE CrawlPipeline ----------------------------
(***************************************************************************)
(* How crawled data gets into the catalogue: the ingest requests of        *)
(* IngestService, the detail worker of CrawlDetailProcessor, and the       *)
(* maintenance tasks repair, cleanup and sync, all running against the     *)
(* same tables (Catalogue) and the same BullMQ queue (JobQueue).           *)
(*                                                                         *)
(* Every await in the code is a point where the others may run, so a step  *)
(* here is one database statement or one queue call together with the      *)
(* synchronous code around it.  A request that carries a batch handles its *)
(* items one after the other and keeps nothing from one to the next: a     *)
(* batch is a sequence of items here, and an item whose statement throws   *)
(* ends it, as the 500 does in the code.                                   *)
(***************************************************************************)
EXTENDS Naturals, FiniteSets

CONSTANTS
    Videos, Channels, Playlists, Shorts, NoChannel, Absent,   \* Catalogue
    Slots, Idle, MaxAttempts, MaxStalls, KeepCompleted, KeepFailed, \* JobQueue
    Handlers,  \* concurrent ingest requests
    Tasks,     \* concurrent repair, cleanup and sync requests
    MaxPolls,  \* sync's 30 minutes of waiting, in polls 15 seconds apart
    Kinds,     \* the requests that arrive, of the kinds below
    Forms,     \* what they do to channel_name, of Catalogue's NameForm
    Drains,    \* whether the queue always drains before sync's deadline
    Overlap,   \* whether requests still arrive while a task runs
    Crashes    \* whether the process may die

RequestKind == {"list", "channelVideos", "playlistItems", "playlists", "shorts",
                "channel", "detail", "unavailable", "comments", "views",
                "repair", "cleanup", "sync"}

VARIABLES
    video, channel, playlist, short, items, attached,  \* Catalogue
    job, slot,                                         \* JobQueue
    handler,     \* handler[h]: the item an ingest request is working on
    worker,      \* worker[w]: how far process() is with the job of slot w
    task         \* task[t]: how far a repair, cleanup or sync is

dbVars == <<video, channel, playlist, short, items, attached>>
queueVars == <<job, slot>>
vars == <<dbVars, queueVars, handler, worker, task>>

DB == INSTANCE Catalogue
Q == INSTANCE JobQueue WITH Jobs <- Videos, AddState <- "waiting"

ASSUME PipelineAssumption ==
    /\ NoChannel \notin Channels
    /\ Absent \notin DB!ChannelRef \cup DB!Row
    /\ Idle \notin Videos
    /\ IsFiniteSet(Videos)
    /\ MaxAttempts \in Nat \ {0}
    /\ MaxStalls \in Nat
    /\ KeepCompleted \in Nat \ {0}
    /\ KeepFailed \in Nat \ {0}
    /\ MaxPolls \in Nat \ {0}
    /\ Kinds \subseteq RequestKind
    /\ Forms \subseteq DB!NameForm
    /\ {Drains, Overlap, Crashes} \subseteq BOOLEAN

-----------------------------------------------------------------------------
NoHandler == [pc |-> "idle"]
NoWork == [pc |-> "idle"]
NoTask == [pc |-> "idle"]

\* The locals of an item: its video, its channel and the form of its name.
HandlerState ==
    {NoHandler}
    \cup [pc : {"channel", "video", "rank", "enqueue", "detailChannel", "detail"},
          v : Videos, c : DB!ChannelRef, form : DB!NameForm, ranked : BOOLEAN]
    \cup [pc : {"stub", "stubEnqueue", "item"}, v : Videos, p : Playlists]
    \cup [pc : {"comment"}, v : Videos]

WorkerState ==
    {NoWork}
    \cup [pc : {"fetch", "gone", "label", "comments", "attach", "done"}]
    \cup [pc : {"channel", "detail"}, c : DB!ChannelRef, form : {"name", "null"}]

\* todo is what the last scan returned.
TaskState ==
    {NoTask}
    \cup [pc : {"repair", "poll", "junk", "orphans"}, todo : {{}},
          sync : BOOLEAN, polls : 0 .. MaxPolls]
    \cup [pc : {"queue", "dropItems", "dropVideos"}, todo : SUBSET Videos,
          sync : BOOLEAN, polls : 0 .. MaxPolls]
    \cup [pc : {"dropChannels"}, todo : SUBSET Channels,
          sync : BOOLEAN, polls : 0 .. MaxPolls]

Init ==
    /\ DB!Init
    /\ Q!Init
    /\ handler = [h \in Handlers |-> NoHandler]
    /\ worker = [w \in Slots |-> NoWork]
    /\ task = [t \in Tasks |-> NoTask]

Busy(h) == handler[h] # NoHandler
Running(t) == task[t] # NoTask

\* The caller sends a request of this kind.  _runSync logs itself as
\* post-collection: without Overlap the crawler asks for a task when its
\* requests have been answered, and sends nothing more until the task is over.
Arrives(kind) ==
    /\ kind \in Kinds
    /\ \/ Overlap
       \/ /\ \A t \in Tasks : ~ Running(t)
          /\ kind \in {"repair", "cleanup", "sync"} => \A h \in Handlers : ~ Busy(h)

HandlerGoes(h, state) ==
    /\ handler' = [handler EXCEPT ![h] = state]
    /\ UNCHANGED <<worker, task>>

Continue(h, pc) == HandlerGoes(h, [handler[h] EXCEPT !.pc = pc])

\* The statement threw: the request fails and drops the rest of its batch.
Abort(h) == HandlerGoes(h, NoHandler) /\ UNCHANGED <<dbVars, queueVars>>

-----------------------------------------------------------------------------
(* Listings: ingestSearch and ingestTrending ("list"), ingestChannelVideos. *)

\* The channel is upserted first, but only if the item has its id and its name.
StartList(h) ==
    /\ Arrives("list") /\ ~ Busy(h)
    /\ \E v \in Videos, c \in DB!ChannelRef, form \in Forms :
          HandlerGoes(h, [pc |-> IF c # NoChannel /\ form = "name"
                                 THEN "channel" ELSE "video",
                          v |-> v, c |-> c, form |-> form, ranked |-> TRUE])
    /\ UNCHANGED <<dbVars, queueVars>>

\* The channel id comes with the request and its channel is not upserted.
StartChannelVideos(h) ==
    /\ Arrives("channelVideos") /\ ~ Busy(h)
    /\ \E v \in Videos, c \in Channels, form \in Forms \ {"undefined"} :
          HandlerGoes(h, [pc |-> "video", v |-> v, c |-> c,
                          form |-> form, ranked |-> FALSE])
    /\ UNCHANGED <<dbVars, queueVars>>

ListChannel(h) ==
    /\ handler[h].pc = "channel"
    /\ DB!UpsertChannel(handler[h].c)
    /\ Continue(h, "video")
    /\ UNCHANGED queueVars

ListVideo(h) ==
    /\ handler[h].pc = "video"
    /\ LET it == handler[h] IN
       IF DB!FKChannel(it.c)
       THEN /\ DB!UpsertFromCrawl(it.v, it.c, it.form)
            /\ Continue(h, IF it.ranked THEN "rank" ELSE "enqueue")
            /\ UNCHANGED queueVars
       ELSE Abort(h)

\* The search result or the trending snapshot.
ListRank(h) ==
    /\ handler[h].pc = "rank"
    /\ IF handler[h].v \in DB!Stored
       THEN /\ DB!Attach(handler[h].v)
            /\ Continue(h, "enqueue")
            /\ UNCHANGED queueVars
       ELSE Abort(h)

\* Mutant of ListEnqueue: the job is not added.
ListForgets(h) ==
    /\ handler[h].pc = "enqueue"
    /\ HandlerGoes(h, NoHandler)
    /\ UNCHANGED <<dbVars, queueVars>>

ListEnqueue(h) ==
    /\ handler[h].pc = "enqueue"
    /\ Q!Add(handler[h].v)
    /\ HandlerGoes(h, NoHandler)
    /\ UNCHANGED dbVars

(* ingestPlaylistItems: the playlist must be known, or nothing happens. *)
StartPlaylistItems(h) ==
    /\ Arrives("playlistItems") /\ ~ Busy(h)
    /\ \E p \in DB!StoredPlaylists, v \in Videos :
          HandlerGoes(h, [pc |-> "stub", v |-> v, p |-> p])
    /\ UNCHANGED <<dbVars, queueVars>>

\* Mutant of StubVideo: the branches are swapped.
StubVideoSwapped(h) ==
    /\ handler[h].pc = "stub"
    /\ LET v == handler[h].v IN
       /\ DB!UpsertStub(v)
       /\ Continue(h, IF video'[v].detailed THEN "stubEnqueue" ELSE "item")
    /\ UNCHANGED queueVars

\* detailCrawledAt, as the upsert returns it, decides about the enqueue.
StubVideo(h) ==
    /\ handler[h].pc = "stub"
    /\ LET v == handler[h].v IN
       /\ DB!UpsertStub(v)
       /\ Continue(h, IF video'[v].detailed THEN "item" ELSE "stubEnqueue")
    /\ UNCHANGED queueVars

StubEnqueue(h) ==
    /\ handler[h].pc = "stubEnqueue"
    /\ Q!Add(handler[h].v)
    /\ Continue(h, "item")
    /\ UNCHANGED dbVars

PutItem(h) ==
    /\ handler[h].pc = "item"
    /\ IF handler[h].v \in DB!Stored /\ handler[h].p \in DB!StoredPlaylists
       THEN /\ DB!UpsertItem(handler[h].p, handler[h].v)
            /\ HandlerGoes(h, NoHandler)
            /\ UNCHANGED queueVars
       ELSE Abort(h)

(* ingestDetail called directly, with a detail. *)
StartDetail(h) ==
    /\ Arrives("detail") /\ ~ Busy(h)
    /\ \E v \in Videos, c \in DB!ChannelRef, form \in {"name", "null"} :
          HandlerGoes(h, [pc |-> IF c # NoChannel /\ form = "name"
                                 THEN "detailChannel" ELSE "detail",
                          v |-> v, c |-> c, form |-> form, ranked |-> FALSE])
    /\ UNCHANGED <<dbVars, queueVars>>

DetailChannel(h) ==
    /\ handler[h].pc = "detailChannel"
    /\ DB!UpsertChannel(handler[h].c)
    /\ Continue(h, "detail")
    /\ UNCHANGED queueVars

DetailVideo(h) ==
    /\ handler[h].pc = "detail"
    /\ LET it == handler[h] IN
       IF DB!FKChannel(it.c)
       THEN /\ DB!UpsertFromDetail(it.v, it.c, it.form = "name")
            /\ HandlerGoes(h, NoHandler)
            /\ UNCHANGED queueVars
       ELSE Abort(h)

(* ingestComments called directly: checks that the video exists, then writes. *)
StartComments(h) ==
    /\ Arrives("comments") /\ ~ Busy(h)
    /\ \E v \in DB!Stored : HandlerGoes(h, [pc |-> "comment", v |-> v])
    /\ UNCHANGED <<dbVars, queueVars>>

PutComment(h) ==
    /\ handler[h].pc = "comment"
    /\ IF handler[h].v \in DB!Stored
       THEN /\ DB!Attach(handler[h].v)
            /\ HandlerGoes(h, NoHandler)
            /\ UNCHANGED queueVars
       ELSE Abort(h)

\* The requests that are a single statement; one the foreign key refuses
\* changes nothing.  The views are VideoService's, of a video, the shorts or the
\* comments that it has to ask the crawler for: what it read before decides that
\* it asks, and nothing it read is used in what it writes.
SingleStatement ==
    /\ \/ Arrives("channel") /\ \E c \in Channels : DB!UpsertChannel(c)
       \/ Arrives("playlists") /\ \E p \in Playlists, c \in Channels :
             DB!UpsertPlaylist(p, c)
       \/ Arrives("shorts") /\ \E s \in Shorts, c \in DB!ChannelRef :
             DB!UpsertShort(s, c)
       \/ Arrives("unavailable") /\ \E v \in Videos : DB!UpsertUnavailable(v)
       \/ /\ Arrives("views")
          /\ \/ \E v \in Videos : DB!SaveDetail(v) \/ DB!SaveUnavailable(v) \/ DB!Attach(v)
             \/ \E s \in Shorts : DB!SaveShort(s)
    /\ UNCHANGED <<queueVars, handler, worker, task>>

-----------------------------------------------------------------------------
(* CrawlDetailProcessor.process on slot w. *)

WorkerGoes(w, state) ==
    /\ worker' = [worker EXCEPT ![w] = state]
    /\ UNCHANGED <<handler, task>>

WorkerTake(w) ==
    /\ \E v \in Videos : Q!Take(w, v)
    /\ WorkerGoes(w, [pc |-> "fetch"])
    /\ UNCHANGED dbVars

\* Mutant of WorkerThrows: the job is put back at once, without backoff or count.
WorkerPutsBack(w) ==
    /\ job' = [job EXCEPT ![slot[w]] = Q!Moved(slot[w], "waiting")]
    /\ slot' = [slot EXCEPT ![w] = Idle]
    /\ WorkerGoes(w, NoWork)
    /\ UNCHANGED dbVars

\* process() throws, and BullMQ decides about another attempt.
WorkerThrows(w) ==
    /\ Q!Fail(w)
    /\ WorkerGoes(w, NoWork)
    /\ UNCHANGED dbVars

\* The crawler is down, or answers that the video is gone, or with a detail.
WorkerFetch(w) ==
    /\ worker[w].pc = "fetch"
    /\ \/ WorkerThrows(w)
       \/ /\ \/ WorkerGoes(w, [pc |-> "gone"])
             \/ \E c \in DB!ChannelRef, form \in {"name", "null"} :
                   WorkerGoes(w, [pc |-> IF c # NoChannel /\ form = "name"
                                         THEN "channel" ELSE "detail",
                                  c |-> c, form |-> form])
          /\ UNCHANGED <<dbVars, queueVars>>

WorkerChannel(w) ==
    /\ worker[w].pc = "channel"
    /\ DB!UpsertChannel(worker[w].c)
    /\ WorkerGoes(w, [worker[w] EXCEPT !.pc = "detail"])
    /\ UNCHANGED queueVars

\* A live video is done here; any other goes on to its label and comments.
WorkerDetail(w) ==
    /\ worker[w].pc = "detail"
    /\ IF DB!FKChannel(worker[w].c)
       THEN /\ DB!UpsertFromDetail(slot[w], worker[w].c, worker[w].form = "name")
            /\ \E next \in {"label", "done"} : WorkerGoes(w, [pc |-> next])
            /\ UNCHANGED queueVars
       ELSE WorkerThrows(w)

\* addLabel: what it does to the label queue is Labelling's Ask.  A failure of it
\* is swallowed.
WorkerLabel(w) ==
    /\ worker[w].pc = "label"
    /\ WorkerGoes(w, [pc |-> "comments"])
    /\ UNCHANGED <<dbVars, queueVars>>

\* The comments are fetched and the video is looked up once more; a failure of
\* either, or no such video, ends the job as a success.
WorkerComments(w) ==
    /\ worker[w].pc = "comments"
    /\ \/ WorkerGoes(w, [pc |-> "done"])
       \/ slot[w] \in DB!Stored /\ WorkerGoes(w, [pc |-> "attach"])
    /\ UNCHANGED <<dbVars, queueVars>>

WorkerAttach(w) ==
    /\ worker[w].pc = "attach"
    /\ IF slot[w] \in DB!Stored THEN DB!Attach(slot[w]) ELSE UNCHANGED dbVars
    /\ WorkerGoes(w, [pc |-> "done"])
    /\ UNCHANGED queueVars

\* process() returns; for a video that is gone it has done nothing else.
WorkerReturn(w) ==
    /\ worker[w].pc \in {"gone", "done"}
    /\ Q!Complete(w)
    /\ WorkerGoes(w, NoWork)
    /\ UNCHANGED dbVars

-----------------------------------------------------------------------------
(* repairPlaylistVideos, cleanup and _runSync. *)

TaskGoes(t, state) ==
    /\ task' = [task EXCEPT ![t] = state]
    /\ UNCHANGED <<handler, worker>>

StartTask(t) ==
    /\ ~ Running(t)
    /\ \E kind \in {"repair", "cleanup", "sync"} :
          /\ Arrives(kind)
          /\ TaskGoes(t, [pc |-> IF kind = "cleanup" THEN "junk" ELSE "repair",
                          todo |-> {}, sync |-> kind = "sync", polls |-> 0])
    /\ UNCHANGED <<dbVars, queueVars>>

\* The playlist videos without a detail.  The other scan, for items whose video
\* row is missing, finds nothing: Catalogue!ReferencesResolve.
RepairScan(t) ==
    /\ task[t].pc = "repair"
    /\ TaskGoes(t, [task[t] EXCEPT !.pc = "queue",
          !.todo = {v \in DB!Stored : /\ ~ video[v].detailed
                                      /\ \E i \in items : i[2] = v}])
    /\ UNCHANGED <<dbVars, queueVars>>

\* Mutants of QueueDrained: the poll does not ask for every count.
DrainedOfWaiting == \A v \in Videos : job[v].state \notin {"waiting", "delayed"}
DrainedOfActive == \A v \in Videos : job[v].state \notin {"waiting", "active"}

RepairQueue(t) ==
    /\ task[t].pc = "queue"
    /\ \/ \E v \in task[t].todo :
             /\ Q!Add(v)
             /\ TaskGoes(t, [task[t] EXCEPT !.todo = @ \ {v}])
       \/ /\ task[t].todo = {}
          /\ TaskGoes(t, IF task[t].sync THEN [task[t] EXCEPT !.pc = "poll"]
                         ELSE NoTask)
          /\ UNCHANGED queueVars
    /\ UNCHANGED dbVars

QueueDrained == \A v \in Videos : job[v].state \notin Q!Pending

\* Mutant of SyncPoll: a look at the queue, and no waiting.
SyncPollOnce(t) ==
    /\ task[t].pc = "poll"
    /\ TaskGoes(t, [task[t] EXCEPT !.pc = "junk"])
    /\ UNCHANGED <<dbVars, queueVars>>

\* Mutant of SyncPoll: no deadline, and finished jobs are counted as well.
SyncPollForever(t) ==
    /\ task[t].pc = "poll"
    /\ \A v \in Videos : job[v] = Q!NoJob
    /\ TaskGoes(t, [task[t] EXCEPT !.pc = "junk"])
    /\ UNCHANGED <<dbVars, queueVars>>

\* Until nothing is pending, or the deadline.
SyncPoll(t) ==
    /\ task[t].pc = "poll"
    /\ \/ /\ QueueDrained
          /\ TaskGoes(t, [task[t] EXCEPT !.pc = "junk"])
       \/ /\ ~ QueueDrained /\ ~ Drains
          /\ TaskGoes(t, [task[t] EXCEPT
                !.polls = @ + 1,
                !.pc = IF task[t].polls + 1 = MaxPolls THEN "junk" ELSE "poll"])
    /\ UNCHANGED <<dbVars, queueVars>>

\* Mutant of JunkScan: detail_crawled_at is not asked for.
JunkScanDetailed(t) ==
    /\ task[t].pc = "junk"
    /\ LET junk == {v \in DB!Stored : /\ video[v].channelId = NoChannel
                                      /\ ~ video[v].named} IN
       TaskGoes(t, [task[t] EXCEPT !.todo = junk,
                        !.pc = IF junk = {} THEN "orphans" ELSE "dropItems"])
    /\ UNCHANGED <<dbVars, queueVars>>

\* Mutant of JunkScan: the videos of a playlist are left out.
JunkScanUnlisted(t) ==
    /\ task[t].pc = "junk"
    /\ LET junk == {v \in Videos : DB!Junk(v) /\ \A i \in items : i[2] # v} IN
       TaskGoes(t, [task[t] EXCEPT !.todo = junk,
                        !.pc = IF junk = {} THEN "orphans" ELSE "dropItems"])
    /\ UNCHANGED <<dbVars, queueVars>>

JunkScan(t) ==
    /\ task[t].pc = "junk"
    /\ LET junk == {v \in Videos : DB!Junk(v)} IN
       TaskGoes(t, [task[t] EXCEPT !.todo = junk,
                        !.pc = IF junk = {} THEN "orphans" ELSE "dropItems"])
    /\ UNCHANGED <<dbVars, queueVars>>

DropItems(t) ==
    /\ task[t].pc = "dropItems"
    /\ DB!DeleteItemsOf(task[t].todo)
    /\ TaskGoes(t, [task[t] EXCEPT !.pc = "dropVideos"])
    /\ UNCHANGED queueVars

\* Mutant of DropVideos: the items, deleted a statement before, do not cascade.
DropVideosLoose(t) ==
    /\ task[t].pc = "dropVideos"
    /\ video' = [v \in Videos |-> IF v \in task[t].todo THEN Absent ELSE video[v]]
    /\ attached' = attached \ task[t].todo
    /\ TaskGoes(t, [task[t] EXCEPT !.pc = "orphans", !.todo = {}])
    /\ UNCHANGED <<channel, playlist, short, items, queueVars>>

\* Mutant of DropVideos: the ids of the videos are left where those of the
\* channels go.
DropVideosKeeps(t) ==
    /\ task[t].pc = "dropVideos"
    /\ DB!DeleteVideos(task[t].todo)
    /\ TaskGoes(t, [task[t] EXCEPT !.pc = "orphans"])
    /\ UNCHANGED queueVars

\* By id: whether the rows still are junk is not asked again.
DropVideos(t) ==
    /\ task[t].pc = "dropVideos"
    /\ DB!DeleteVideos(task[t].todo)
    /\ TaskGoes(t, [task[t] EXCEPT !.pc = "orphans", !.todo = {}])
    /\ UNCHANGED queueVars

\* Mutant of OrphanScan: only the videos of a channel are looked at.
OrphanScanVideos(t) ==
    /\ task[t].pc = "orphans"
    /\ LET orphans == {c \in channel : \A v \in DB!Stored : video[v].channelId # c} IN
       TaskGoes(t, IF orphans = {} THEN NoTask
                   ELSE [task[t] EXCEPT !.todo = orphans, !.pc = "dropChannels"])
    /\ UNCHANGED <<dbVars, queueVars>>

OrphanScan(t) ==
    /\ task[t].pc = "orphans"
    /\ LET orphans == {c \in Channels : DB!OrphanChannel(c)} IN
       TaskGoes(t, IF orphans = {} THEN NoTask
                   ELSE [task[t] EXCEPT !.todo = orphans, !.pc = "dropChannels"])
    /\ UNCHANGED <<dbVars, queueVars>>

DropChannels(t) ==
    /\ task[t].pc = "dropChannels"
    /\ DB!DeleteChannels(task[t].todo)
    /\ TaskGoes(t, NoTask)
    /\ UNCHANGED queueVars

-----------------------------------------------------------------------------
(* What happens by itself. *)

QueueTimers ==
    /\ \E v \in Videos : Q!Promote(v) \/ Q!RecoverStalled(v)
    /\ UNCHANGED <<dbVars, handler, worker, task>>

Crash ==
    /\ Crashes
    /\ Q!Crash
    /\ handler' = [h \in Handlers |-> NoHandler]
    /\ worker' = [w \in Slots |-> NoWork]
    /\ task' = [t \in Tasks |-> NoTask]
    /\ UNCHANGED dbVars

HandlerStart(h) ==
    \/ StartList(h) \/ StartChannelVideos(h) \/ StartPlaylistItems(h)
    \/ StartDetail(h) \/ StartComments(h)

HandlerStep(h) ==
    \/ ListChannel(h) \/ ListVideo(h) \/ ListRank(h) \/ ListEnqueue(h)
    \/ StubVideo(h) \/ StubEnqueue(h) \/ PutItem(h)
    \/ DetailChannel(h) \/ DetailVideo(h) \/ PutComment(h)

WorkerStep(w) ==
    \/ WorkerFetch(w) \/ WorkerChannel(w) \/ WorkerDetail(w) \/ WorkerLabel(w)
    \/ WorkerComments(w) \/ WorkerAttach(w) \/ WorkerReturn(w)

TaskStep(t) ==
    \/ RepairScan(t) \/ RepairQueue(t) \/ SyncPoll(t) \/ JunkScan(t)
    \/ DropItems(t) \/ DropVideos(t) \/ OrphanScan(t) \/ DropChannels(t)

Next ==
    \/ \E h \in Handlers : HandlerStart(h) \/ HandlerStep(h)
    \/ SingleStatement
    \/ \E w \in Slots : WorkerTake(w) \/ WorkerStep(w)
    \/ \E t \in Tasks : StartTask(t) \/ TaskStep(t)
    \/ QueueTimers
    \/ Crash

Spec == Init /\ [][Next]_vars

\* Node runs every started request, job and task on to its end, statement by
\* statement; sync polls on a timer; and the queue is as fair as JobQueue says.
\* No request has to arrive, and the process does not have to crash.
Fairness ==
    /\ \A h \in Handlers : WF_vars(HandlerStep(h))
    /\ \A t \in Tasks : WF_vars(TaskStep(t))
    /\ \A w \in Slots : WF_vars(WorkerStep(w))
    /\ \A v \in Videos : SF_vars(\E w \in Slots :
                              Q!Take(w, v) /\ WorkerTake(w))
    /\ WF_vars(QueueTimers)

FairSpec == Spec /\ Fairness

-----------------------------------------------------------------------------
TypeOK ==
    /\ DB!TypeOK
    /\ Q!TypeOK
    /\ handler \in [Handlers -> HandlerState]
    /\ worker \in [Slots -> WorkerState]
    /\ task \in [Tasks -> TaskState]

(* The invariants about tasks are for a crawler that keeps to the protocol   *)
(* (no Overlap) and a queue that drains in time (Drains).                    *)

\* No listed video is forgotten: once a request has stored a row, the queue has
\* a record of a job for it or the request is about to add one.  (Where finished
\* records are not trimmed, the process does not die, and videos come in through
\* listings and playlists.)
Enqueueing(v) == \E h \in Handlers :
    /\ handler[h].pc \in {"rank", "enqueue", "stubEnqueue"}
    /\ handler[h].v = v

ListedIsQueued ==
    \A v \in DB!Stored : job[v] # Q!NoJob \/ Enqueueing(v)

\* The channel upserted for an item is still there when the item's own upsert
\* refers to it: no cleanup has found it an orphan in between.
ChannelReady ==
    /\ \A h \in Handlers :
          \/ handler[h].pc = "video" /\ handler[h].form = "name" /\ handler[h].ranked
          \/ handler[h].pc = "detail" /\ handler[h].form = "name"
          => DB!FKChannel(handler[h].c)
    /\ \A w \in Slots :
          worker[w].pc = "detail" /\ worker[w].form = "name"
          => DB!FKChannel(worker[w].c)

\* When sync stops waiting because the queue is drained, every playlist video
\* that still has no detail was tried: its job has finished.
RepairTried ==
    \A t \in Tasks : Running(t) /\ task[t].sync /\ task[t].pc = "junk" =>
        \A i \in items : video[i[2]].detailed \/ job[i[2]].state \in Q!Finished

\* What sync is about to delete is still what its scan found: bare, with no job
\* on its way.
DropsOnlyJunk ==
    \A t \in Tasks : Running(t) /\ task[t].pc \in {"dropItems", "dropVideos"} =>
        \A v \in task[t].todo : DB!Junk(v) /\ job[v].state \notin Q!Pending

\* The channels sync is about to delete have nothing that refers to them, so
\* no row loses its channel.
DropsOnlyOrphans ==
    \A t \in Tasks : Running(t) /\ task[t].pc = "dropChannels" =>
        \A c \in task[t].todo : DB!OrphanChannel(c)

\* Sync leaves no junk behind it.
SyncLeavesNoJunk ==
    \A t \in Tasks : Running(t) /\ task[t].pc \in {"orphans", "dropChannels"} =>
        \A v \in Videos : ~ DB!Junk(v)

\* The pipeline implements CrawlPromise: a detail is only written by a job, onto
\* a row that exists, and is never lost; what sync drops is bare and uncrawled.
Promise == INSTANCE CrawlPromise WITH
    status <- [v \in Videos |-> CASE video[v] = Absent -> "unknown"
                                 [] video[v] # Absent /\ video[v].detailed -> "detailed"
                                 [] OTHER -> "listed"],
    crawling <- {v \in Videos : job[v].state \in Q!Pending}

KeepsPromise == Promise!Spec

\* What the pipeline does to its tables and to its queue is what Catalogue and
\* JobQueue allow, so that what holds of every behaviour of theirs holds here.
UsesCatalogue == DB!Spec
UsesQueue == Q!Spec

\* sync ends, however busy the queue is kept.
SyncEnds == \A t \in Tasks : Running(t) ~> ~ Running(t)

\* A stored video without a detail gets its chance: a job for it finishes, or
\* the detail arrives, or the row goes.
ListedIsTried ==
    \A v \in Videos : v \in DB!Stored /\ ~ video[v].detailed
        ~> video[v] = Absent \/ video[v].detailed \/ job[v].state \in Q!Finished

\* crawl-worker/README.md: an error of the crawler marks the video unavailable.
UnavailableMarked ==
    [][\A w \in Slots :
          worker[w].pc = "gone" /\ job'[slot[w]].state = "completed"
             => ~ video[slot[w]].available]_vars
=============================================================================
