-------------------------- MODULE SearchIndexProofs --------------------------
(***************************************************************************)
(* Theorems about SearchIndex, for any ids and any number of calls on      *)
(* their way: the services that send rows to the index use the tables as   *)
(* Catalogue does, and the index follows the tables wherever the calls of  *)
(* a video came one by one and were not lost.                              *)
(***************************************************************************)
EXTENDS SearchIndex, CatalogueProofs

\* A call is of a video, with an object or for its removal.
IndexTypeOK ==
    /\ index \in [Videos -> Objects \cup {Nothing}]
    /\ calls \subseteq Videos \X (Objects \cup {Nothing})

\* What the index has to end with for v: its row, unless a statement that sends
\* nothing wrote it, and nothing without a row.
Due(v, object) ==
    /\ v \notin Stored => object = Nothing
    /\ v \in Stored \ unsent => object = Object(video[v])

\* What is on its way for a video whose calls did not overlap is one call, and
\* what it will leave in the index is what is due; with none on its way the index
\* has it.
LastCallCounts(v) ==
    /\ \A c, d \in OnTheWay(v) : c = d
    /\ \A c \in OnTheWay(v) : Due(v, c[2])
    /\ OnTheWay(v) = {} => Due(v, index[v])

\* The inductive invariant.
IndexIInv == /\ IInv
             /\ IndexTypeOK
             /\ \A v \in Videos \ raced : LastCallCounts(v)

-----------------------------------------------------------------------------
\* What a service does to the tables is a statement of Catalogue's.
LEMMA NextUsesCatalogue ==
    ASSUME IInv, [IndexNext]_indexVars
    PROVE  [Next]_vars
<1>1. channel \subseteq Channels
  BY DEF IInv, TypeOK
<1>2. ASSUME NEW v \in Videos, IndexListed(v) \/ IndexDetail(v) PROVE Next
  BY <1>2 DEF IndexListed, IndexDetail, Next
<1>3. ASSUME NEW vs \in SUBSET Videos, Unindex(vs) PROVE Next
  <2>1. \E us \in SUBSET Videos : DeleteItemsOf(us) \/ DeleteVideos(us)
    BY <1>3 DEF Unindex
  <2> QED
    BY <2>1 DEF Next
<1>4. ASSUME WriteUnsent PROVE Next
  <2>1. CASE \E cs \in SUBSET channel : DeleteChannels(cs)
    <3>1. \E cs \in SUBSET Channels : DeleteChannels(cs)
      BY <1>1, <2>1
    <3> QED
      BY <3>1 DEF Next
  <2> QED
    BY <1>4, <2>1 DEF WriteUnsent, Next
<1>5. ASSUME WriteOther PROVE Next
  BY <1>5 DEF WriteOther, Next
<1>6. ASSUME NEW c \in calls, Arrive(c) \/ Lose(c) PROVE UNCHANGED vars
  BY <1>6 DEF Arrive, Lose
<1> QED
  BY <1>2, <1>3, <1>4, <1>5, <1>6 DEF IndexNext, indexVars

-----------------------------------------------------------------------------
\* A call that carries what is due, after a write of the same rows, is the last
\* call that counts; nothing changes for the other videos.
LEMMA SendCounts ==
    ASSUME IndexIInv, NEW vs \in SUBSET Videos, NEW objects, Send(vs, objects),
           \A u \in vs : /\ objects[u] \in Objects \cup {Nothing}
                         /\ objects[u] = IF video'[u] = Absent THEN Nothing
                                         ELSE Object(video'[u]),
           \A u \in Videos \ vs : video'[u] = video[u]
    PROVE  IndexTypeOK' /\ \A u \in Videos \ raced' : LastCallCounts(u)'
<1>1. /\ index' = index
      /\ calls' = calls \cup {<<u, objects[u]>> : u \in vs}
      /\ raced' = {u \in Videos : IF u \in vs THEN OnTheWay(u) # {} ELSE u \in raced}
      /\ unsent' = unsent \ vs
  BY DEF Send
<1>2. IndexTypeOK'
  BY <1>1 DEF IndexIInv, IndexTypeOK
<1>3. ASSUME NEW u \in Videos \ raced' PROVE LastCallCounts(u)'
  <2>1. CASE u \in vs
    <3>1. OnTheWay(u) = {}
      BY <1>1, <1>3, <2>1
    <3>2. \A c : c \in OnTheWay(u)' <=> c = <<u, objects[u]>>
      BY <1>1, <2>1, <3>1 DEF OnTheWay
    <3>3. /\ u \notin Stored' => objects[u] = Nothing
          /\ u \in Stored' => objects[u] = Object(video'[u])
      BY <2>1 DEF Stored
    <3>4. \A c \in OnTheWay(u)' : c[2] = objects[u]
      BY <3>2
    <3>5. OnTheWay(u)' # {}
      BY <3>2
    <3> QED
      BY <3>2, <3>3, <3>4, <3>5 DEF LastCallCounts, Due
  <2>2. CASE u \notin vs
    <3>1. OnTheWay(u)' = OnTheWay(u)
      BY <1>1, <2>2 DEF OnTheWay
    <3>2. u \notin raced /\ LastCallCounts(u)
      BY <1>1, <1>3, <2>2 DEF IndexIInv
    <3>3. \A object : Due(u, object) => Due(u, object)'
      BY <1>1, <2>2 DEF Due, Stored
    <3> QED
      BY <1>1, <3>1, <3>2, <3>3 DEF LastCallCounts, Due
  <2> QED
    BY <2>1, <2>2
<1> QED
  BY <1>2, <1>3

\* A statement that sends nothing takes no row away.
LEMMA UnsentKeepsRows ==
    ASSUME IInv, WriteUnsent, NEW v \in Videos, v \in Stored
    PROVE  v \in Stored'
<1> USE CatalogueAssumption
<1>0. video \in [Videos -> Row \cup {Absent}] /\ Absent \notin Row /\ NoChannel \in ChannelRef
  BY DEF IInv, TypeOK, ChannelRef
<1>1. ASSUME NEW w \in Videos, NEW row \in Row, video' = [video EXCEPT ![w] = row]
      PROVE  v \in Stored'
  BY <1>0, <1>1 DEF Stored
<1>2. ASSUME NEW w \in Videos
      PROVE  /\ (IF video[w] = Absent THEN NoChannel ELSE video[w].channelId) \in ChannelRef
             /\ (video[w] # Absent /\ video[w].named) \in BOOLEAN
             /\ Detailed(w) \in BOOLEAN /\ (video[w] # Absent) \in BOOLEAN
  BY <1>0 DEF Row, Detailed
<1>3. ASSUME NEW w \in Videos, UpsertUnavailable(w) PROVE v \in Stored'
  <2> DEFINE row == [channelId |-> IF video[w] = Absent THEN NoChannel ELSE video[w].channelId,
                     named |-> video[w] # Absent /\ video[w].named,
                     detailed |-> video[w] # Absent, available |-> FALSE]
  <2>1. row \in Row
    BY <1>2 DEF Row
  <2>2. video' = [video EXCEPT ![w] = row]
    BY <1>3 DEF UpsertUnavailable
  <2> HIDE DEF row
  <2> QED
    BY <1>1, <2>1, <2>2
<1>4. ASSUME NEW w \in Videos, SaveUnavailable(w) PROVE v \in Stored'
  <2> DEFINE row == [channelId |-> IF video[w] = Absent THEN NoChannel ELSE video[w].channelId,
                     named |-> video[w] # Absent /\ video[w].named,
                     detailed |-> Detailed(w), available |-> FALSE]
  <2>1. row \in Row
    BY <1>2 DEF Row
  <2>2. video' = [video EXCEPT ![w] = row]
    BY <1>4 DEF SaveUnavailable
  <2> HIDE DEF row
  <2> QED
    BY <1>1, <2>1, <2>2
<1>5. ASSUME NEW w \in Videos, SaveDetail(w) PROVE v \in Stored'
  <2> DEFINE row == [channelId |-> IF video[w] = Absent THEN NoChannel ELSE video[w].channelId,
                     named |-> TRUE, detailed |-> TRUE, available |-> TRUE]
  <2>1. row \in Row
    BY <1>2 DEF Row
  <2>2. video' = [video EXCEPT ![w] = row]
    BY <1>5 DEF SaveDetail
  <2> HIDE DEF row
  <2> QED
    BY <1>1, <2>1, <2>2
<1>6. ASSUME NEW w \in Videos, UpsertStub(w) PROVE v \in Stored'
  <2>1. w = v => video'[v] = video[v]
    BY <1>0, <1>6 DEF UpsertStub, Stored
  <2>2. w # v => video'[v] = video[v]
    BY <1>0, <1>6 DEF UpsertStub
  <2> QED
    BY <2>1, <2>2 DEF Stored
<1>7. ASSUME NEW cs, DeleteChannels(cs) PROVE v \in Stored'
  <2>1. [video[v] EXCEPT !.channelId = NoChannel] \in Row
    BY <1>0 DEF Stored, Row
  <2> QED
    BY <1>0, <1>7, <2>1 DEF DeleteChannels, Stored
<1> QED
  BY <1>3, <1>4, <1>5, <1>6, <1>7 DEF WriteUnsent

\* Each step of the index and of those who use it.
LEMMA NextIndexIInv == IndexIInv /\ [IndexNext]_indexVars => IndexIInv'
<1> SUFFICES ASSUME IndexIInv, [IndexNext]_indexVars
             PROVE  IndexIInv'
  OBVIOUS
<1> DEFINE Counts == \A v \in Videos \ raced : LastCallCounts(v)
<1>0. IInv' /\ IInv
  BY NextUsesCatalogue, NextIInv DEF IndexIInv
<1>1. /\ video \in [Videos -> Row \cup {Absent}] /\ video' \in [Videos -> Row \cup {Absent}]
      /\ Absent \notin Row
  BY <1>0, CatalogueAssumption DEF IInv, TypeOK
<1>2. ASSUME NEW v \in Videos, IndexListed(v) \/ IndexDetail(v) PROVE IndexTypeOK' /\ Counts'
  <2> DEFINE objects == [w \in {v} |-> Object(video'[w])]
  <2>1. Send({v}, objects) /\ {v} \in SUBSET Videos
    BY <1>2 DEF IndexListed, IndexDetail, SendRow
  <2>2. ASSUME NEW row, video' = [video EXCEPT ![v] = row], row \in Row
        PROVE  video'[v] \in Row /\ \A u \in Videos \ {v} : video'[u] = video[u]
    BY <1>1, <2>2
  <2>3. video'[v] \in Row /\ \A u \in Videos \ {v} : video'[u] = video[u]
    <3>1. ASSUME NEW c \in ChannelRef, NEW form \in NameForm, UpsertFromCrawl(v, c, form)
          PROVE  video'[v] \in Row /\ \A u \in Videos \ {v} : video'[u] = video[u]
      <4> DEFINE row == [channelId |-> c,
                         named |-> IF form = "undefined"
                                   THEN video[v] # Absent /\ video[v].named
                                   ELSE IsSet(form),
                         detailed |-> Detailed(v),
                         available |-> video[v] = Absent \/ video[v].available]
      <4>1. video' = [video EXCEPT ![v] = row]
        BY <3>1 DEF UpsertFromCrawl
      <4>2. row.named \in BOOLEAN /\ row.detailed \in BOOLEAN /\ row.available \in BOOLEAN
        <5>1. row.detailed \in BOOLEAN /\ row.available \in BOOLEAN
          BY <1>1 DEF Row, Detailed
        <5>2. CASE form = "undefined"
          BY <1>1, <5>1, <5>2 DEF Row
        <5>3. CASE form # "undefined"
          BY <5>1, <5>3 DEF IsSet
        <5> QED
          BY <5>2, <5>3
      <4>3. row \in Row
        BY <4>2 DEF Row
      <4> HIDE DEF row
      <4> QED
        BY <2>2, <4>1, <4>3
    <3>2. ASSUME NEW c \in ChannelRef, NEW named \in BOOLEAN, UpsertFromDetail(v, c, named)
          PROVE  video'[v] \in Row /\ \A u \in Videos \ {v} : video'[u] = video[u]
      <4> DEFINE row == [channelId |-> c, named |-> named,
                         detailed |-> video[v] # Absent, available |-> TRUE]
      <4>1. video' = [video EXCEPT ![v] = row]
        BY <1>1, <3>2 DEF UpsertFromDetail
      <4>2. row \in Row
        BY DEF Row
      <4> HIDE DEF row
      <4> QED
        BY <2>2, <4>1, <4>2
    <3> QED
      BY <1>2, <3>1, <3>2 DEF IndexListed, IndexDetail
  <2>4. \A u \in {v} : /\ objects[u] \in Objects \cup {Nothing}
                       /\ objects[u] = IF video'[u] = Absent THEN Nothing
                                       ELSE Object(video'[u])
    BY <1>1, <2>3 DEF Objects
  <2> HIDE DEF objects
  <2> QED
    BY <2>1, <2>3, <2>4, SendCounts
<1>3. ASSUME NEW vs \in SUBSET Videos, Unindex(vs) PROVE IndexTypeOK' /\ Counts'
  <2> DEFINE objects == [v \in vs |-> Nothing]
  <2>1. Send(vs, objects)
    BY <1>3 DEF Unindex
  <2>2. video' = [v \in Videos |-> IF v \in vs THEN Absent ELSE video[v]]
    BY <1>3 DEF Unindex, DeleteVideos
  <2>3. \A u \in vs : /\ objects[u] \in Objects \cup {Nothing}
                      /\ objects[u] = IF video'[u] = Absent THEN Nothing
                                      ELSE Object(video'[u])
    BY <2>2
  <2> HIDE DEF objects
  <2> QED
    BY <2>1, <2>2, <2>3, SendCounts
<1>4. ASSUME WriteUnsent PROVE IndexTypeOK' /\ Counts'
  <2>1. UNCHANGED <<index, calls, raced>>
        /\ unsent' = unsent \cup {v \in Videos : video'[v] # video[v]}
    BY <1>4 DEF WriteUnsent
  <2>2. ASSUME NEW v \in Videos, NEW object, Due(v, object) PROVE Due(v, object)'
    BY <1>0, <1>4, <2>1, <2>2, UnsentKeepsRows DEF Due, Stored
  <2>3. ASSUME NEW v \in Videos \ raced' PROVE LastCallCounts(v)'
    <3>1. LastCallCounts(v) /\ OnTheWay(v)' = OnTheWay(v)
      BY <2>1, <2>3 DEF IndexIInv, OnTheWay
    <3> QED
      BY <2>1, <2>2, <3>1 DEF LastCallCounts
  <2> QED
    BY <2>1, <2>3 DEF IndexIInv, IndexTypeOK
<1>5. ASSUME WriteOther \/ UNCHANGED indexVars PROVE IndexTypeOK' /\ Counts'
  <2>1. UNCHANGED <<video, index, calls, unsent, raced>>
    BY <1>5 DEF WriteOther, indexVars, vars, UpsertChannel, SaveShort, UpsertShort,
       UpsertPlaylist, UpsertItem, Attach, DeleteItemsOf
  <2>2. ASSUME NEW v \in Videos \ raced' PROVE LastCallCounts(v)'
    <3>1. LastCallCounts(v)
      BY <2>1, <2>2 DEF IndexIInv
    <3> QED
      BY <2>1, <3>1 DEF LastCallCounts, OnTheWay, Due, Stored
  <2> QED
    BY <2>1, <2>2 DEF IndexIInv, IndexTypeOK
<1>6. ASSUME NEW c \in calls, Arrive(c) PROVE IndexTypeOK' /\ Counts'
  <2>1. /\ index' = [index EXCEPT ![c[1]] = c[2]]
        /\ calls' = calls \ {c}
        /\ UNCHANGED <<video, unsent, raced>>
        /\ c[1] \in Videos /\ c[2] \in Objects \cup {Nothing}
    BY <1>6 DEF Arrive, vars, IndexIInv, IndexTypeOK
  <2>2. IndexTypeOK'
    BY <2>1 DEF IndexIInv, IndexTypeOK
  <2>3. ASSUME NEW v \in Videos \ raced' PROVE LastCallCounts(v)'
    <3>0. LastCallCounts(v) /\ index \in [Videos -> Objects \cup {Nothing}]
      BY <2>1, <2>3 DEF IndexIInv, IndexTypeOK
    <3>1. \A object : Due(v, object) => Due(v, object)'
      BY <2>1 DEF Due, Stored
    <3>2. CASE v = c[1]
      <4>1. c \in OnTheWay(v)
        BY <3>2 DEF OnTheWay
      <4>2. OnTheWay(v)' = {}
        BY <2>1, <3>0, <4>1 DEF OnTheWay, LastCallCounts
      <4>3. Due(v, index'[v])
        BY <2>1, <3>0, <3>2, <4>1 DEF LastCallCounts
      <4> QED
        BY <3>1, <4>2, <4>3 DEF LastCallCounts, Due
    <3>3. CASE v # c[1]
      <4>1. OnTheWay(v)' = OnTheWay(v) /\ index'[v] = index[v]
        BY <2>1, <3>0, <3>3 DEF OnTheWay
      <4> QED
        BY <3>0, <3>1, <4>1 DEF LastCallCounts, Due
    <3> QED
      BY <3>2, <3>3
  <2> QED
    BY <2>2, <2>3
<1>7. ASSUME NEW c \in calls, Lose(c) PROVE IndexTypeOK' /\ Counts'
  <2>1. /\ calls' = calls \ {c}
        /\ raced' = raced \cup {c[1]}
        /\ UNCHANGED <<video, index, unsent>>
    BY <1>7 DEF Lose, vars
  <2>2. ASSUME NEW v \in Videos \ raced' PROVE LastCallCounts(v)'
    <3>1. LastCallCounts(v) /\ v # c[1]
      BY <2>1, <2>2 DEF IndexIInv
    <3>2. OnTheWay(v)' = OnTheWay(v)
      BY <2>1, <3>1 DEF OnTheWay
    <3> QED
      BY <2>1, <3>1, <3>2 DEF LastCallCounts, Due, Stored
  <2> QED
    BY <2>1, <2>2 DEF IndexIInv, IndexTypeOK
<1> QED
  BY <1>0, <1>2, <1>3, <1>4, <1>5, <1>6, <1>7 DEF IndexIInv, IndexNext

LEMMA InitIndexIInv == IndexInit => IndexIInv
<1> SUFFICES ASSUME IndexInit PROVE IndexIInv
  OBVIOUS
<1>1. IInv
  BY CatalogueAssumption DEF IndexInit, Init, IInv, TypeOK, ReferencesResolve, Stored,
     StoredPlaylists, StoredShorts, FKChannel
<1>2. IndexTypeOK
  BY DEF IndexInit, IndexTypeOK
<1>3. \A v \in Videos : LastCallCounts(v)
  BY DEF IndexInit, Init, LastCallCounts, OnTheWay, Due, Stored
<1> QED
  BY <1>1, <1>2, <1>3 DEF IndexIInv

-----------------------------------------------------------------------------
\* The invariant holds of every behaviour, however many calls are on their way.
THEOREM IndexInvariant == IndexSpec => []IndexIInv
  BY InitIndexIInv, NextIndexIInv, PTL DEF IndexSpec

\* The services that write to the tables and to the index use the tables as
\* Catalogue says: what is proved of it holds here.
THEOREM IndexUsesCatalogue == IndexSpec => Spec
<1>1. IndexInit => Init
  BY DEF IndexInit
<1>2. IndexIInv /\ [IndexNext]_indexVars => [Next]_vars
  BY NextUsesCatalogue DEF IndexIInv
<1> QED
  BY <1>1, <1>2, IndexInvariant, PTL DEF IndexSpec, Spec

\* The index lists no video without a row and shows the row as it is, wherever
\* the video's calls came one by one and were not lost, and nothing wrote the row
\* behind its back.
THEOREM IndexFollowsTables == IndexSpec => []IndexFollows
<1>1. IndexIInv => IndexFollows
  <2> SUFFICES ASSUME IndexIInv, NEW v \in Videos, Settled(v)
               PROVE  /\ \A answers \in BOOLEAN : v \in Listed(answers) => v \in Stored
                      /\ v \in Stored \ unsent => index[v] = Object(video[v])
    BY DEF IndexFollows
  <2>1. Due(v, index[v])
    BY DEF IndexIInv, Settled, LastCallCounts
  <2> QED
    BY <2>1 DEF Due, Listed
<1> QED
  BY <1>1, IndexInvariant, PTL
=============================================================================
