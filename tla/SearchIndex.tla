----------------------------- MODULE SearchIndex -----------------------------
(***************************************************************************)
(* The search index beside the catalogue: AlgoliaService and the services  *)
(* that call it.  Ingestion sends the row it has just written, cleanup     *)
(* sends a delete, and neither waits: the calls of one video may arrive in *)
(* any order, and one that fails is logged and forgotten.  listVideos      *)
(* answers from the index, or else from the table.                         *)
(***************************************************************************)
EXTENDS Catalogue, Naturals

CONSTANTS
    MaxCalls,  \* bound: calls on their way at once
    Nothing    \* no object under this id

VARIABLES
    index,   \* index[v]: the object the index holds for v
    calls,   \* the calls on their way, as <<video, object>>
    unsent,  \* history: the videos whose row a statement wrote and sent nothing
    raced    \* history: the videos whose calls overlapped, or one of them failed

indexVars == <<vars, index, calls, unsent, raced>>

-----------------------------------------------------------------------------
\* What indexData sends of a row.
Object(row) ==
    [channelId |-> row.channelId, available |-> row.available]

Objects == {Object(row) : row \in Row}

ASSUME IndexAssumption == Nothing \notin Objects

OnTheWay(v) == {c \in calls : c[1] = v}

IndexInit ==
    /\ Init
    /\ index = [v \in Videos |-> Nothing]
    /\ calls = {}
    /\ unsent = {}
    /\ raced = {}

\* One more call for each of vs; objects[v] is Nothing for a delete.
Send(vs, objects) ==
    /\ Cardinality(calls) + Cardinality(vs) <= MaxCalls
    /\ calls' = calls \cup {<<v, objects[v]>> : v \in vs}
    /\ raced' = {v \in Videos : IF v \in vs THEN OnTheWay(v) # {} ELSE v \in raced}
    /\ unsent' = unsent \ vs
    /\ UNCHANGED index

SendRow(v) == Send({v}, [w \in {v} |-> Object(video'[w])])

-----------------------------------------------------------------------------
(* The statements of the catalogue, with the call that follows each. *)

\* ingestSearch, ingestTrending and ingestChannelVideos.
IndexListed(v) ==
    /\ \E c \in ChannelRef, form \in NameForm : UpsertFromCrawl(v, c, form)
    /\ SendRow(v)

\* ingestDetail.
IndexDetail(v) ==
    /\ \E c \in ChannelRef, named \in BOOLEAN : UpsertFromDetail(v, c, named)
    /\ SendRow(v)

\* Mutant of Unindex: cleanup leaves the index alone.
UnindexForgets(vs) ==
    /\ DeleteVideos(vs)
    /\ UNCHANGED <<index, calls, unsent, raced>>

\* cleanup.
Unindex(vs) ==
    /\ DeleteVideos(vs)
    /\ Send(vs, [v \in vs |-> Nothing])

\* What nobody tells the index: that a video is gone from YouTube, the bare row
\* of a playlist, what a reader's fetch saves, and a channel that is deleted.
WriteUnsent ==
    /\ \/ \E v \in Videos : \/ UpsertUnavailable(v) \/ UpsertStub(v)
                            \/ SaveDetail(v) \/ SaveUnavailable(v)
       \/ \E cs \in SUBSET channel : DeleteChannels(cs)
    /\ unsent' = unsent \cup {v \in Videos : video'[v] # video[v]}
    /\ UNCHANGED <<index, calls, raced>>

\* What does not touch a video.
WriteOther ==
    /\ \/ \E c \in Channels : UpsertChannel(c)
       \/ \E s \in Shorts : SaveShort(s)
       \/ \E s \in Shorts, c \in ChannelRef : UpsertShort(s, c)
       \/ \E p \in Playlists, c \in Channels : UpsertPlaylist(p, c)
       \/ \E p \in Playlists, v \in Videos : UpsertItem(p, v)
       \/ \E v \in Videos : Attach(v)
       \/ \E vs \in SUBSET Videos : DeleteItemsOf(vs)
    /\ UNCHANGED <<index, calls, unsent, raced>>

-----------------------------------------------------------------------------
(* The index. *)

Arrive(c) ==
    /\ index' = [index EXCEPT ![c[1]] = c[2]]
    /\ calls' = calls \ {c}
    /\ UNCHANGED <<vars, unsent, raced>>

\* The call fails, or the process dies before it is made.
Lose(c) ==
    /\ calls' = calls \ {c}
    /\ raced' = raced \cup {c[1]}
    /\ UNCHANGED <<vars, index, unsent>>

\* listVideos, for a query every video matches: the hits of the index as they
\* are; without an answer or a hit, the available rows.
Listed(answers) ==
    LET hits == {v \in Videos : index[v] # Nothing} IN
    IF answers /\ hits # {} THEN hits ELSE {v \in Stored : video[v].available}

IndexNext ==
    \/ \E v \in Videos : IndexListed(v) \/ IndexDetail(v)
    \/ \E vs \in SUBSET Videos \ {{}} : Unindex(vs)
    \/ WriteUnsent
    \/ WriteOther
    \/ \E c \in calls : Arrive(c) \/ Lose(c)

IndexSpec == IndexInit /\ [][IndexNext]_indexVars

-----------------------------------------------------------------------------
Settled(v) == OnTheWay(v) = {} /\ v \notin raced

\* Whatever order the calls arrive in, a video whose last calls came one by one
\* and were not lost is listed only if it has a row, and the index shows that row,
\* unless it was written since by a statement that sends nothing.
IndexFollows ==
    \A v \in Videos : Settled(v) =>
        /\ \A answers \in BOOLEAN : v \in Listed(answers) => v \in Stored
        /\ v \in Stored \ unsent => index[v] = Object(video[v])
=============================================================================
