--------------------------- MODULE CatalogueProofs ---------------------------
(***************************************************************************)
(* Theorems about Catalogue, for any ids: whatever the services issue, in  *)
(* whatever order, every reference in the database resolves.               *)
(***************************************************************************)
EXTENDS Catalogue, TLAPS

IInv == TypeOK /\ ReferencesResolve

-----------------------------------------------------------------------------
\* A statement that only rewrites the row of v, into one whose channel exists,
\* keeps everything else's references.
LEMMA RowWritten ==
    ASSUME IInv, NEW v \in Videos, NEW row \in Row, FKChannel(row.channelId),
           video' = [video EXCEPT ![v] = row],
           UNCHANGED <<channel, playlist, short, items, attached>>
    PROVE  IInv'
<1> USE CatalogueAssumption
<1>1. TypeOK'
  BY DEF IInv, TypeOK
<1>2. row # Absent
  BY DEF FKChannel
<1>3. Stored' = Stored \cup {v}
  BY <1>2 DEF Stored, IInv, TypeOK
<1>4. ReferencesResolve'
  BY <1>2, <1>3 DEF IInv, TypeOK, ReferencesResolve, Stored, StoredPlaylists, StoredShorts, FKChannel
<1> QED
  BY <1>1, <1>4 DEF IInv

\* Every statement keeps the invariant.
LEMMA NextIInv == IInv /\ [Next]_vars => IInv'
<1> SUFFICES ASSUME IInv, [Next]_vars PROVE IInv'
  OBVIOUS
<1> USE CatalogueAssumption
<1>1. ASSUME NEW c \in Channels, UpsertChannel(c) PROVE IInv'
  BY <1>1 DEF UpsertChannel, IInv, TypeOK, ReferencesResolve, Stored,
              StoredPlaylists, StoredShorts, FKChannel
<1>2. ASSUME NEW v \in Videos, NEW c \in ChannelRef, NEW form \in NameForm,
             UpsertFromCrawl(v, c, form)
      PROVE  IInv'
  <2> DEFINE row == [channelId |-> c,
                     named |-> IF form = "undefined"
                               THEN video[v] # Absent /\ video[v].named
                               ELSE IsSet(form),
                     detailed |-> Detailed(v),
                     available |-> video[v] = Absent \/ video[v].available]
  <2>1. video' = [video EXCEPT ![v] = row]
    BY <1>2 DEF UpsertFromCrawl
  <2>2. row \in Row /\ row.channelId = c
    <3>1. video[v] # Absent => video[v].named \in BOOLEAN /\ video[v].available \in BOOLEAN
                               /\ video[v].detailed \in BOOLEAN
      BY DEF IInv, TypeOK, Row
    <3>2. row.named \in BOOLEAN
      <4>1. CASE form = "undefined"
        BY <3>1, <4>1
      <4>2. CASE form # "undefined"
        BY <4>2 DEF IsSet
      <4> QED
        BY <4>1, <4>2
    <3>3. row.detailed \in BOOLEAN
      BY <3>1 DEF Detailed
    <3>4. row.available \in BOOLEAN
      BY <3>1
    <3> QED
      BY <3>2, <3>3, <3>4 DEF Row
  <2> HIDE DEF row
  <2> QED
    BY <1>2, <2>1, <2>2, RowWritten DEF UpsertFromCrawl
<1>3. ASSUME NEW v \in Videos, NEW c \in ChannelRef, NEW named \in BOOLEAN,
             UpsertFromDetail(v, c, named)
      PROVE  IInv'
  <2> DEFINE row == [channelId |-> c, named |-> named,
                     detailed |-> video[v] # Absent, available |-> TRUE]
  <2>1. video' = [video EXCEPT ![v] = row]
    BY <1>3 DEF UpsertFromDetail, IInv, TypeOK
  <2>2. row \in Row /\ row.channelId = c
    BY DEF Row
  <2> HIDE DEF row
  <2> QED
    BY <1>3, <2>1, <2>2, RowWritten DEF UpsertFromDetail
<1>4. ASSUME NEW v \in Videos, UpsertUnavailable(v) PROVE IInv'
  <2> DEFINE row == [channelId |-> IF video[v] = Absent THEN NoChannel
                                   ELSE video[v].channelId,
                     named |-> video[v] # Absent /\ video[v].named,
                     detailed |-> video[v] # Absent,
                     available |-> FALSE]
  <2>1. video' = [video EXCEPT ![v] = row]
    BY <1>4 DEF UpsertUnavailable
  <2>2. row \in Row /\ FKChannel(row.channelId)
    <3>1. video[v] # Absent => /\ video[v].channelId \in ChannelRef
                               /\ FKChannel(video[v].channelId)
      BY DEF IInv, TypeOK, ReferencesResolve, Stored, Row
    <3> QED
      BY <3>1 DEF Row, ChannelRef, FKChannel
  <2> HIDE DEF row
  <2> QED
    BY <1>4, <2>1, <2>2, RowWritten DEF UpsertUnavailable
<1>5. ASSUME NEW v \in Videos, UpsertStub(v) PROVE IInv'
  <2> DEFINE row == [channelId |-> NoChannel, named |-> FALSE,
                     detailed |-> FALSE, available |-> TRUE]
  <2>1. row \in Row /\ FKChannel(row.channelId)
    BY DEF Row, ChannelRef, FKChannel
  <2> HIDE DEF row
  <2>2. CASE video[v] = Absent
    <3>1. video' = [video EXCEPT ![v] = row]
      BY <1>5, <2>2 DEF UpsertStub, IInv, TypeOK, row
    <3> QED
      BY <1>5, <2>1, <3>1, RowWritten DEF UpsertStub
  <2>3. CASE video[v] # Absent
    <3>1. UNCHANGED vars
      BY <1>5, <2>3 DEF UpsertStub, IInv, TypeOK, vars
    <3> QED
      BY <3>1 DEF vars, IInv, TypeOK, ReferencesResolve, Stored,
                  StoredPlaylists, StoredShorts, FKChannel
  <2> QED
    BY <2>2, <2>3
<1>6. ASSUME NEW v \in Videos, Attach(v) PROVE IInv'
  BY <1>6 DEF Attach, IInv, TypeOK, ReferencesResolve, Stored,
              StoredPlaylists, StoredShorts, FKChannel
<1>7. ASSUME NEW p \in Playlists, NEW c \in Channels, UpsertPlaylist(p, c)
      PROVE  IInv'
  BY <1>7 DEF UpsertPlaylist, ChannelRef, IInv, TypeOK, ReferencesResolve,
              Stored, StoredPlaylists, StoredShorts, FKChannel
<1>8. ASSUME NEW s \in Shorts, NEW c \in ChannelRef, UpsertShort(s, c)
      PROVE  IInv'
  BY <1>8 DEF UpsertShort, ChannelRef, IInv, TypeOK, ReferencesResolve,
              Stored, StoredPlaylists, StoredShorts, FKChannel
<1>9. ASSUME NEW p \in Playlists, NEW v \in Videos, UpsertItem(p, v)
      PROVE  IInv'
  BY <1>9 DEF UpsertItem, IInv, TypeOK, ReferencesResolve, Stored,
              StoredPlaylists, StoredShorts, FKChannel
<1>10. ASSUME NEW vs \in SUBSET Videos, DeleteItemsOf(vs) PROVE IInv'
  BY <1>10 DEF DeleteItemsOf, IInv, TypeOK, ReferencesResolve, Stored,
               StoredPlaylists, StoredShorts, FKChannel
<1>11. ASSUME NEW vs \in SUBSET Videos, DeleteVideos(vs) PROVE IInv'
  BY <1>11 DEF DeleteVideos, IInv, TypeOK, ReferencesResolve, Stored,
               StoredPlaylists, StoredShorts, FKChannel
<1>12. ASSUME NEW cs \in SUBSET Channels, DeleteChannels(cs) PROVE IInv'
  <2>1. \A v \in Videos : video[v] # Absent =>
          /\ [video[v] EXCEPT !.channelId = NoChannel] \in Row
          /\ [video[v] EXCEPT !.channelId = NoChannel].channelId = NoChannel
    BY DEF IInv, TypeOK, Row, ChannelRef
  <2>2. video' \in [Videos -> Row \cup {Absent}]
    BY <1>12, <2>1 DEF DeleteChannels, IInv, TypeOK
  <2>3. Stored' = Stored
    BY <1>12, <2>1 DEF DeleteChannels, Stored, IInv, TypeOK
  <2>4. \A v \in Stored' : (FKChannel(video[v].channelId))'
    BY <1>12, <2>1, <2>3 DEF DeleteChannels, Stored, IInv, TypeOK,
                             ReferencesResolve, FKChannel
  <2>5. TypeOK'
    BY <1>12, <2>2 DEF DeleteChannels, IInv, TypeOK, ChannelRef
  <2>6. /\ \A p \in StoredPlaylists' : (FKChannel(playlist[p]))'
        /\ \A s \in StoredShorts' : (FKChannel(short[s]))'
        /\ StoredPlaylists' = StoredPlaylists
    BY <1>12 DEF DeleteChannels, IInv, TypeOK, ReferencesResolve, ChannelRef,
                 StoredPlaylists, StoredShorts, FKChannel
  <2>7. /\ \A i \in items' : i[1] \in StoredPlaylists' /\ i[2] \in Stored'
        /\ attached' \subseteq Stored'
    BY <1>12, <2>3, <2>6 DEF DeleteChannels, IInv, ReferencesResolve
  <2> QED
    BY <2>4, <2>5, <2>6, <2>7 DEF IInv, ReferencesResolve
<1>13. ASSUME NEW v \in Videos, SaveDetail(v) PROVE IInv'
  <2> DEFINE row == [channelId |-> IF video[v] = Absent THEN NoChannel
                                   ELSE video[v].channelId,
                     named |-> TRUE, detailed |-> TRUE, available |-> TRUE]
  <2>1. video' = [video EXCEPT ![v] = row]
    BY <1>13 DEF SaveDetail
  <2>2. row \in Row /\ FKChannel(row.channelId)
    BY DEF IInv, TypeOK, ReferencesResolve, Stored, Row, ChannelRef, FKChannel
  <2> HIDE DEF row
  <2> QED
    BY <1>13, <2>1, <2>2, RowWritten DEF SaveDetail
<1>14. ASSUME NEW v \in Videos, SaveUnavailable(v) PROVE IInv'
  <2> DEFINE row == [channelId |-> IF video[v] = Absent THEN NoChannel
                                   ELSE video[v].channelId,
                     named |-> video[v] # Absent /\ video[v].named,
                     detailed |-> Detailed(v), available |-> FALSE]
  <2>1. video' = [video EXCEPT ![v] = row]
    BY <1>14 DEF SaveUnavailable
  <2>2. row \in Row /\ FKChannel(row.channelId)
    <3>1. video[v] # Absent => /\ video[v].channelId \in ChannelRef
                               /\ FKChannel(video[v].channelId)
                               /\ video[v].named \in BOOLEAN
                               /\ video[v].detailed \in BOOLEAN
      BY DEF IInv, TypeOK, ReferencesResolve, Stored, Row
    <3>2. row.named \in BOOLEAN /\ row.detailed \in BOOLEAN
      BY <3>1 DEF Detailed
    <3> QED
      BY <3>1, <3>2 DEF Row, ChannelRef, FKChannel
  <2> HIDE DEF row
  <2> QED
    BY <1>14, <2>1, <2>2, RowWritten DEF SaveUnavailable
<1>15. ASSUME NEW s \in Shorts, SaveShort(s) PROVE IInv'
  BY <1>15 DEF SaveShort, ChannelRef, IInv, TypeOK, ReferencesResolve,
               Stored, StoredPlaylists, StoredShorts, FKChannel
<1>16. CASE UNCHANGED vars
  BY <1>16 DEF vars, IInv, TypeOK, ReferencesResolve, Stored,
               StoredPlaylists, StoredShorts, FKChannel
<1> QED
  BY <1>1, <1>2, <1>3, <1>4, <1>5, <1>6, <1>7, <1>8, <1>9, <1>10, <1>11,
     <1>12, <1>13, <1>14, <1>15, <1>16 DEF Next

-----------------------------------------------------------------------------
\* The inductive invariant holds of every behaviour.
THEOREM CatalogueInvariant == Spec => []IInv
<1>1. Init => IInv
  BY CatalogueAssumption DEF Init, IInv, TypeOK, ReferencesResolve, Stored,
     StoredPlaylists, StoredShorts, FKChannel
<1>2. IInv /\ [Next]_vars => IInv'
  BY NextIInv
<1> QED
  BY <1>1, <1>2, PTL DEF Spec

\* The tables only ever hold rows of their types.
THEOREM CatalogueTypeOK == Spec => []TypeOK
<1>1. IInv => TypeOK
  BY DEF IInv
<1> QED
  BY <1>1, CatalogueInvariant, PTL

\* No interleaving of the services' statements leaves a reference dangling:
\* repairPlaylistVideos' first scan has nothing to find.
THEOREM EveryReferenceResolves == Spec => []ReferencesResolve
<1>1. IInv => ReferencesResolve
  BY DEF IInv
<1> QED
  BY <1>1, CatalogueInvariant, PTL

\* No statement resets detail_crawled_at of a row it leaves.
LEMMA NextKeepsDetail ==
    ASSUME IInv, [Next]_vars, NEW v \in Videos, Detailed(v), video'[v] # Absent
    PROVE  Detailed(v)'
<1>0. video \in [Videos -> Row \cup {Absent}] /\ video[v] # Absent /\ video[v].detailed
  BY DEF IInv, TypeOK, Detailed
<1>1. ASSUME NEW w \in Videos, NEW row, row.detailed = TRUE \/ w # v,
             video' = [video EXCEPT ![w] = row]
      PROVE  Detailed(v)'
  BY <1>0, <1>1 DEF Detailed
<1>2. ASSUME NEW w \in Videos, NEW c \in ChannelRef, NEW form \in NameForm,
             UpsertFromCrawl(w, c, form)
      PROVE  Detailed(v)'
  BY <1>1, <1>2 DEF UpsertFromCrawl, Detailed
<1>3. ASSUME NEW w \in Videos, NEW c \in ChannelRef, NEW named \in BOOLEAN,
             UpsertFromDetail(w, c, named)
      PROVE  Detailed(v)'
  BY <1>0, <1>1, <1>3 DEF UpsertFromDetail
<1>4. ASSUME NEW w \in Videos, UpsertUnavailable(w) PROVE Detailed(v)'
  BY <1>0, <1>1, <1>4 DEF UpsertUnavailable
<1>5. ASSUME NEW w \in Videos, UpsertStub(w) PROVE Detailed(v)'
  BY <1>0, <1>5 DEF UpsertStub, Detailed
<1>6. ASSUME NEW w \in Videos, SaveDetail(w) \/ SaveUnavailable(w) PROVE Detailed(v)'
  BY <1>0, <1>1, <1>6 DEF SaveDetail, SaveUnavailable, Detailed
<1>7. \A vs \in SUBSET Videos : DeleteVideos(vs) => Detailed(v)'
  BY DEF DeleteVideos, Detailed
<1>8. \A cs \in SUBSET Channels : DeleteChannels(cs) => Detailed(v)'
  BY DEF DeleteChannels, Detailed, IInv, TypeOK, Row
<1>9. UNCHANGED video => Detailed(v)'
  BY DEF Detailed
<1> QED
  BY <1>2, <1>3, <1>4, <1>5, <1>6, <1>7, <1>8, <1>9 DEF Next, vars, UpsertChannel, Attach,
     UpsertPlaylist, UpsertShort, SaveShort, UpsertItem, DeleteItemsOf

\* detail_crawled_at is never reset while the row exists.
THEOREM DetailsAreKept == Spec => DetailIsKept
<1> DEFINE Keeps == \A v \in Videos : Detailed(v) /\ video'[v] # Absent => Detailed(v)'
<1>1. IInv /\ [Next]_vars => [Keeps]_vars
  BY NextKeepsDetail
<1> HIDE DEF Keeps
<1>2. Spec => [][Keeps]_vars
  BY <1>1, CatalogueInvariant, PTL DEF Spec
<1> QED
  BY <1>2 DEF DetailIsKept, Keeps
=============================================================================
