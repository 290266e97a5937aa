------------------------------ MODULE Catalogue ------------------------------
(***************************************************************************)
(* The crawled catalogue in PostgreSQL: videos, channels, playlists with   *)
(* their items, shorts, and the rows that hang off a video (search         *)
(* results, trending snapshots, comments).                                 *)
(*                                                                         *)
(* An action is one statement as the repositories issue it through Prisma, *)
(* which PostgreSQL runs atomically, with the foreign keys and ON DELETE   *)
(* rules of schema.prisma.  The modules that model the services compose    *)
(* these statements.                                                       *)
(***************************************************************************)
EXTENDS FiniteSets

CONSTANTS
    Videos, Channels, Playlists, Shorts,  \* the ids the crawler may send
    NoChannel,                            \* a NULL channel_id
    Absent                                \* no row under this id

VARIABLES
    video,     \* video[v]: the row of v, or Absent
    channel,   \* the ids of the stored channels
    playlist,  \* playlist[p]: channel_id of the stored playlist p, or Absent
    short,     \* short[s]: channel_id of the stored short s, or Absent
    items,     \* the stored playlist items, as <<playlist, video>>
    attached   \* the videos with search results, snapshots or comments

vars == <<video, channel, playlist, short, items, attached>>

-----------------------------------------------------------------------------
ChannelRef == Channels \cup {NoChannel}

\* A video row, as far as the pipeline reads it back: channel_id, whether
\* channel_name and detail_crawled_at are set, and is_available.
Row == [channelId : ChannelRef, named : BOOLEAN,
        detailed : BOOLEAN, available : BOOLEAN]

ASSUME CatalogueAssumption ==
    /\ NoChannel \notin Channels
    /\ Absent \notin ChannelRef \cup Row

\* What a crawl payload does to channel_name: a name or an empty string sets
\* it, null clears it, and undefined leaves the column out of the statement.
NameForm == {"name", "empty", "null", "undefined"}

IsSet(form) == form \in {"name", "empty"}

Stored == {v \in Videos : video[v] # Absent}
StoredPlaylists == {p \in Playlists : playlist[p] # Absent}
StoredShorts == {s \in Shorts : short[s] # Absent}

\* What an INSERT or UPDATE of a channel_id column needs.
FKChannel(c) == c \in channel \cup {NoChannel}

Detailed(v) == video[v] # Absent /\ video[v].detailed

\* The row cleanup looks for: no channel, no channel name and no detail.
Junk(v) == /\ video[v] # Absent
           /\ video[v].channelId = NoChannel
           /\ ~ video[v].named
           /\ ~ video[v].detailed

\* The channel no video, playlist or short refers to.
OrphanChannel(c) == /\ c \in channel
                    /\ \A v \in Stored : video[v].channelId # c
                    /\ \A p \in Playlists : playlist[p] # c
                    /\ \A s \in Shorts : short[s] # c

Init ==
    /\ video = [v \in Videos |-> Absent]
    /\ channel = {}
    /\ playlist = [p \in Playlists |-> Absent]
    /\ short = [s \in Shorts |-> Absent]
    /\ items = {}
    /\ attached = {}

-----------------------------------------------------------------------------
UpsertChannel(c) ==
    /\ channel' = channel \cup {c}
    /\ UNCHANGED <<video, playlist, short, items, attached>>

\* Mutant of UpsertFromCrawl: the update branch writes the whole row.
UpsertFromCrawlAfresh(v, c, form) ==
    /\ FKChannel(c)
    /\ video' = [video EXCEPT ![v] =
          [channelId |-> c, named |-> IsSet(form),
           detailed |-> FALSE, available |-> TRUE]]
    /\ UNCHANGED <<channel, playlist, short, items, attached>>

\* videoRepo.upsertFromCrawl: both branches write channel_id, and the update
\* leaves alone what only a detail crawl knows.
UpsertFromCrawl(v, c, form) ==
    /\ FKChannel(c)
    /\ LET old == video[v] IN
       video' = [video EXCEPT ![v] =
          [channelId |-> c,
           named |-> IF form = "undefined" THEN old # Absent /\ old.named
                     ELSE IsSet(form),
           detailed |-> Detailed(v),
           available |-> old = Absent \/ old.available]]
    /\ UNCHANGED <<channel, playlist, short, items, attached>>

\* videoRepo.upsertFromDetail with the detail of v: only the update branch
\* sets detail_crawled_at.
UpsertFromDetail(v, c, named) ==
    /\ FKChannel(c)
    /\ video' = [video EXCEPT ![v] =
          [channelId |-> c, named |-> named,
           detailed |-> @ # Absent, available |-> TRUE]]
    /\ UNCHANGED <<channel, playlist, short, items, attached>>

\* videoRepo.upsertFromDetail for a video the crawler reports as gone: the
\* channel columns are undefined, hence kept.
UpsertUnavailable(v) ==
    /\ LET old == video[v] IN
       video' = [video EXCEPT ![v] =
          [channelId |-> IF old = Absent THEN NoChannel ELSE old.channelId,
           named |-> old # Absent /\ old.named,
           detailed |-> old # Absent,
           available |-> FALSE]]
    /\ UNCHANGED <<channel, playlist, short, items, attached>>

\* The row a playlist item needs: created bare, never updated.
UpsertStub(v) ==
    /\ video' = [video EXCEPT ![v] =
          IF @ = Absent
          THEN [channelId |-> NoChannel, named |-> FALSE,
                detailed |-> FALSE, available |-> TRUE]
          ELSE @]
    /\ UNCHANGED <<channel, playlist, short, items, attached>>

\* VideoService, filling a gap a reader found: it has a name and a detail for v,
\* but leaves channel_id to the pipeline.
SaveDetail(v) ==
    /\ LET old == video[v] IN
       video' = [video EXCEPT ![v] =
          [channelId |-> IF old = Absent THEN NoChannel ELSE old.channelId,
           named |-> TRUE, detailed |-> TRUE, available |-> TRUE]]
    /\ UNCHANGED <<channel, playlist, short, items, attached>>

SaveUnavailable(v) ==
    /\ LET old == video[v] IN
       video' = [video EXCEPT ![v] =
          [channelId |-> IF old = Absent THEN NoChannel ELSE old.channelId,
           named |-> old # Absent /\ old.named,
           detailed |-> Detailed(v), available |-> FALSE]]
    /\ UNCHANGED <<channel, playlist, short, items, attached>>

SaveShort(s) ==
    /\ short' = [short EXCEPT ![s] = IF @ = Absent THEN NoChannel ELSE @]
    /\ UNCHANGED <<video, channel, playlist, items, attached>>

\* The channel of a playlist is written when it is created, and only then.
UpsertPlaylist(p, c) ==
    /\ playlist[p] = Absent => FKChannel(c)
    /\ playlist' = [playlist EXCEPT ![p] = IF @ = Absent THEN c ELSE @]
    /\ UNCHANGED <<video, channel, short, items, attached>>

UpsertShort(s, c) ==
    /\ FKChannel(c)
    /\ short' = [short EXCEPT ![s] = c]
    /\ UNCHANGED <<video, channel, playlist, items, attached>>

\* Mutant of UpsertItem: the two ids are swapped.
UpsertItemSwapped(p, v) ==
    /\ p \in StoredPlaylists /\ v \in Stored
    /\ items' = items \cup {<<v, p>>}
    /\ UNCHANGED <<video, channel, playlist, short, attached>>

UpsertItem(p, v) ==
    /\ p \in StoredPlaylists /\ v \in Stored
    /\ items' = items \cup {<<p, v>>}
    /\ UNCHANGED <<video, channel, playlist, short, attached>>

\* A search result, a trending snapshot or a comment of v.
Attach(v) ==
    /\ v \in Stored
    /\ attached' = attached \cup {v}
    /\ UNCHANGED <<video, channel, playlist, short, items>>

DeleteItemsOf(vs) ==
    /\ items' = {i \in items : i[2] \notin vs}
    /\ UNCHANGED <<video, channel, playlist, short, attached>>

\* Mutant of DeleteVideos: one relation is not declared to cascade.
DeleteVideosOnly(vs) ==
    /\ video' = [v \in Videos |-> IF v \in vs THEN Absent ELSE video[v]]
    /\ items' = {i \in items : i[2] \notin vs}
    /\ UNCHANGED <<channel, playlist, short, attached>>

\* The rows that refer to a video go with it (ON DELETE CASCADE).
DeleteVideos(vs) ==
    /\ video' = [v \in Videos |-> IF v \in vs THEN Absent ELSE video[v]]
    /\ items' = {i \in items : i[2] \notin vs}
    /\ attached' = attached \ vs
    /\ UNCHANGED <<channel, playlist, short>>

\* The rows that refer to a channel stay and lose it (ON DELETE SET NULL).
DeleteChannels(cs) ==
    /\ channel' = channel \ cs
    /\ video' = [v \in Videos |->
          IF video[v] # Absent /\ video[v].channelId \in cs
          THEN [video[v] EXCEPT !.channelId = NoChannel] ELSE video[v]]
    /\ playlist' = [p \in Playlists |->
          IF playlist[p] \in cs THEN NoChannel ELSE playlist[p]]
    /\ short' = [s \in Shorts |-> IF short[s] \in cs THEN NoChannel ELSE short[s]]
    /\ UNCHANGED <<items, attached>>

\* Any statement the services issue, in any order: what the pipeline does to
\* the catalogue is a behaviour of this.
Next ==
    \/ \E c \in Channels : UpsertChannel(c)
    \/ \E v \in Videos, c \in ChannelRef, form \in NameForm :
          UpsertFromCrawl(v, c, form)
    \/ \E v \in Videos, c \in ChannelRef, named \in BOOLEAN :
          UpsertFromDetail(v, c, named)
    \/ \E v \in Videos : UpsertUnavailable(v) \/ UpsertStub(v) \/ Attach(v)
    \/ \E v \in Videos : SaveDetail(v) \/ SaveUnavailable(v)
    \/ \E s \in Shorts : SaveShort(s)
    \/ \E p \in Playlists, c \in Channels : UpsertPlaylist(p, c)
    \/ \E s \in Shorts, c \in ChannelRef : UpsertShort(s, c)
    \/ \E p \in Playlists, v \in Videos : UpsertItem(p, v)
    \/ \E vs \in SUBSET Videos : DeleteItemsOf(vs) \/ DeleteVideos(vs)
    \/ \E cs \in SUBSET Channels : DeleteChannels(cs)

Spec == Init /\ [][Next]_vars

-----------------------------------------------------------------------------
TypeOK ==
    /\ video \in [Videos -> Row \cup {Absent}]
    /\ channel \subseteq Channels
    /\ playlist \in [Playlists -> ChannelRef \cup {Absent}]
    /\ short \in [Shorts -> ChannelRef \cup {Absent}]
    /\ items \subseteq Playlists \X Videos
    /\ attached \subseteq Videos

\* Referential integrity across every interleaving of statements: a channel_id
\* names a stored channel, an item joins a stored playlist and a stored video,
\* and nothing hangs off a video that is gone.
ReferencesResolve ==
    /\ \A v \in Stored : FKChannel(video[v].channelId)
    /\ \A p \in StoredPlaylists : FKChannel(playlist[p])
    /\ \A s \in StoredShorts : FKChannel(short[s])
    /\ \A i \in items : i[1] \in StoredPlaylists /\ i[2] \in Stored
    /\ attached \subseteq Stored

\* detail_crawled_at is never reset: a row that has its detail keeps it until
\* the row itself is deleted.
DetailIsKept ==
    [][\A v \in Videos : Detailed(v) /\ video'[v] # Absent => Detailed(v)']_vars
=============================================================================
