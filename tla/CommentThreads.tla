--------------------------- MODULE CommentThreads ----------------------------
(***************************************************************************)
(* The comments of one video: what users do to them through CommentService *)
(* and what a crawl of the video writes over them, through the comment     *)
(* repository of the ingest module and through VideoService.               *)
(*                                                                         *)
(* The two kinds of comments share a table.  A user's comment has a fresh  *)
(* UUID and an owner; a crawled one has YouTube's id and no owner, and a   *)
(* crawl overwrites its counters.  Comments of different videos never      *)
(* meet, so one video is enough.                                           *)
(*                                                                         *)
(* A request reads what it needs, and acts on it in a transaction later;   *)
(* anything may happen in between.  A transaction that throws (a missing   *)
(* record, a foreign key, a unique key) is rolled back as a whole.         *)
(***************************************************************************)
EXTENDS Integers, FiniteSets

CONSTANTS
    Users,
    UserIds,     \* the UUIDs users' comments get, each used at most once
    CrawledIds,  \* YouTube's comment ids
    Requests,    \* concurrent requests of users
    MaxCount,    \* the largest counter a crawl reports
    NoUser, NoParent, Gone

Ids == UserIds \cup CrawledIds

ASSUME CommentAssumption ==
    /\ IsFiniteSet(Users) /\ IsFiniteSet(UserIds) /\ IsFiniteSet(CrawledIds)
    /\ UserIds \cap CrawledIds = {}
    /\ MaxCount \in Nat
    /\ NoUser \notin Users
    /\ NoParent \notin Ids

VARIABLES
    videoStored,  \* whether the video has a row
    comment,      \* comment[i]: its row, or Gone
    liked,        \* the like rows, as <<user, comment id>>
    used,         \* the UUIDs handed out
    request       \* request[r]: what a user's request has read so far

vars == <<videoStored, comment, liked, used, request>>

-----------------------------------------------------------------------------
Count == 0 .. MaxCount

Row == [owner : Users \cup {NoUser}, parent : Ids \cup {NoParent},
        likes : Int, replies : Int]

ASSUME RowAssumption == Gone \notin Row

Stored == {i \in Ids : comment[i] # Gone}

Likers(i) == {u \in Users : <<u, i>> \in liked}
RepliesOf(i) == {k \in Ids : comment[k] # Gone /\ comment[k].parent = i}

NewRow(owner, parent, likes, replies) ==
    [owner |-> owner, parent |-> parent, likes |-> likes, replies |-> replies]

NoRequest == [pc |-> "idle"]

RequestState ==
    {NoRequest}
    \cup [pc : {"create"}, user : Users, id : UserIds]
    \cup [pc : {"reply"}, user : Users, id : UserIds, to : Ids]
    \cup [pc : {"lookup", "like", "unlike"}, user : Users, to : Ids]
    \cup [pc : {"remove"}, user : Users, to : Ids, parent : Ids \cup {NoParent}]

Init ==
    /\ videoStored = TRUE
    /\ comment = [i \in Ids |-> Gone]
    /\ liked = {}
    /\ used = {}
    /\ request = [r \in Requests |-> NoRequest]

Goes(r, state) == request' = [request EXCEPT ![r] = state]
Ends(r) == Goes(r, NoRequest)

\* The transaction of r throws and is rolled back, or its check failed.
RollsBack(r) == Ends(r) /\ UNCHANGED <<videoStored, comment, liked, used>>

\* The rows after row i got `more` likes and `replied` replies.
Counted(i, more, replied) ==
    [comment EXCEPT ![i] =
        NewRow(@.owner, @.parent, @.likes + more, @.replies + replied)]

\* Mutant of Without: the replies get the mark of a deleted row for a parent.
WithoutMarked(rows, i) ==
    [k \in Ids |->
        IF k = i THEN Gone
        ELSE IF rows[k] # Gone /\ rows[k].parent = i
        THEN NewRow(rows[k].owner, Gone, rows[k].likes, rows[k].replies)
        ELSE rows[k]]

\* The rows after i is deleted: its replies lose their parent (SET NULL).
Without(rows, i) ==
    [k \in Ids |->
        IF k = i THEN Gone
        ELSE IF rows[k] # Gone /\ rows[k].parent = i
        THEN NewRow(rows[k].owner, NoParent, rows[k].likes, rows[k].replies)
        ELSE rows[k]]

-----------------------------------------------------------------------------
(* create: the video is looked up, then the comment inserted. *)
StartCreate(r) ==
    /\ request[r] = NoRequest
    /\ videoStored
    /\ \E u \in Users, id \in UserIds \ used :
          /\ Goes(r, [pc |-> "create", user |-> u, id |-> id])
          /\ used' = used \cup {id}
    /\ UNCHANGED <<videoStored, comment, liked>>

Create(r) ==
    /\ request[r].pc = "create"
    /\ \/ /\ videoStored
          /\ comment' = [comment EXCEPT ![request[r].id] =
                            NewRow(request[r].user, NoParent, 0, 0)]
          /\ Ends(r)
          /\ UNCHANGED <<videoStored, liked, used>>
       \/ ~ videoStored /\ RollsBack(r)

(* reply: the parent is looked up; the reply and the parent's counter are one
   transaction. *)
StartReply(r) ==
    /\ request[r] = NoRequest
    /\ \E u \in Users, id \in UserIds \ used, i \in Stored :
          /\ Goes(r, [pc |-> "reply", user |-> u, id |-> id, to |-> i])
          /\ used' = used \cup {id}
    /\ UNCHANGED <<videoStored, comment, liked>>

Reply(r) ==
    /\ request[r].pc = "reply"
    /\ \/ /\ request[r].to \in Stored
          /\ comment' = [Counted(request[r].to, 0, 1) EXCEPT ![request[r].id] =
                            NewRow(request[r].user, request[r].to, 0, 0)]
          /\ Ends(r)
          /\ UNCHANGED <<videoStored, liked, used>>
       \/ request[r].to \notin Stored /\ RollsBack(r)

(* toggleLike: the comment is looked up, then the like, and only then does the
   request know what its transaction is to do. *)
StartToggle(r) ==
    /\ request[r] = NoRequest
    /\ \E u \in Users, i \in Stored :
          Goes(r, [pc |-> "lookup", user |-> u, to |-> i])
    /\ UNCHANGED <<videoStored, comment, liked, used>>

LookUpLike(r) ==
    /\ request[r].pc = "lookup"
    /\ LET mine == <<request[r].user, request[r].to>> IN
       Goes(r, [request[r] EXCEPT !.pc = IF mine \in liked THEN "unlike" ELSE "like"])
    /\ UNCHANGED <<videoStored, comment, liked, used>>

\* Mutant of Like: the like row is upserted.
LikeTwice(r) ==
    /\ request[r].pc = "like"
    /\ LET i == request[r].to IN
       \/ /\ i \in Stored
          /\ liked' = liked \cup {<<request[r].user, i>>}
          /\ comment' = Counted(i, 1, 0)
          /\ Ends(r)
          /\ UNCHANGED <<videoStored, used>>
       \/ i \notin Stored /\ RollsBack(r)

\* The like row's key is unique, and its comment must be there.
Like(r) ==
    /\ request[r].pc = "like"
    /\ LET i == request[r].to
           mine == <<request[r].user, i>>
       IN  \/ /\ mine \notin liked /\ i \in Stored
              /\ liked' = liked \cup {mine}
              /\ comment' = Counted(i, 1, 0)
              /\ Ends(r)
              /\ UNCHANGED <<videoStored, used>>
           \/ (mine \in liked \/ i \notin Stored) /\ RollsBack(r)

\* Mutant of Unlike: deleting a like row that is gone does not throw.
UnlikeTwice(r) ==
    /\ request[r].pc = "unlike"
    /\ liked' = liked \ {<<request[r].user, request[r].to>>}
    /\ comment' = IF request[r].to \in Stored THEN Counted(request[r].to, -1, 0)
                  ELSE comment
    /\ Ends(r)
    /\ UNCHANGED <<videoStored, used>>

\* Deleting a like row that is gone already throws.
Unlike(r) ==
    /\ request[r].pc = "unlike"
    /\ LET i == request[r].to
           mine == <<request[r].user, i>>
       IN  \/ /\ mine \in liked
              /\ liked' = liked \ {mine}
              /\ comment' = Counted(i, -1, 0)
              /\ Ends(r)
              /\ UNCHANGED <<videoStored, used>>
           \/ mine \notin liked /\ RollsBack(r)

\* Mutant of StartRemove: anybody may.
StartRemoveAnyones(r) ==
    /\ request[r] = NoRequest
    /\ \E i \in Stored, u \in Users :
          Goes(r, [pc |-> "remove", user |-> u, to |-> i,
                   parent |-> comment[i].parent])
    /\ UNCHANGED <<videoStored, comment, liked, used>>

(* remove: owner and parent are read before the transaction, which throws when
   the comment, or the parent that was read, is gone. *)
StartRemove(r) ==
    /\ request[r] = NoRequest
    /\ \E i \in Stored :
          /\ comment[i].owner # NoUser
          /\ Goes(r, [pc |-> "remove", user |-> comment[i].owner, to |-> i,
                      parent |-> comment[i].parent])
    /\ UNCHANGED <<videoStored, comment, liked, used>>

\* Mutant of Remove: deleting a comment that is gone does not throw.
RemoveTwice(r) ==
    /\ request[r].pc = "remove"
    /\ LET i == request[r].to
           p == request[r].parent
       IN  \/ /\ p = NoParent \/ p \in Stored
              /\ comment' = Without(IF p = NoParent THEN comment ELSE Counted(p, 0, -1), i)
              /\ liked' = {l \in liked : l[2] # i}
              /\ Ends(r)
              /\ UNCHANGED <<videoStored, used>>
           \/ p \notin Stored \cup {NoParent} /\ RollsBack(r)

\* Mutant of Remove: the likes are not declared to cascade.
RemoveOnly(r) ==
    /\ request[r].pc = "remove"
    /\ LET i == request[r].to
           p == request[r].parent
       IN  \/ /\ i \in Stored
              /\ p = NoParent \/ p \in Stored
              /\ comment' = Without(IF p = NoParent THEN comment ELSE Counted(p, 0, -1), i)
              /\ Ends(r)
              /\ UNCHANGED <<videoStored, liked, used>>
           \/ (i \notin Stored \/ p \notin Stored \cup {NoParent}) /\ RollsBack(r)

Remove(r) ==
    /\ request[r].pc = "remove"
    /\ LET i == request[r].to
           p == request[r].parent
       IN  \/ /\ i \in Stored
              /\ p = NoParent \/ p \in Stored
              /\ comment' = Without(IF p = NoParent THEN comment ELSE Counted(p, 0, -1), i)
              /\ liked' = {l \in liked : l[2] # i}
              /\ Ends(r)
              /\ UNCHANGED <<videoStored, used>>
           \/ (i \notin Stored \/ p \notin Stored \cup {NoParent}) /\ RollsBack(r)

-----------------------------------------------------------------------------
(* What a crawl writes: an upsert per comment, with the crawler's counters. *)

CrawlTop(i, likes, replies) ==
    /\ videoStored
    /\ comment' = [comment EXCEPT ![i] =
          NewRow(NoUser, IF @ = Gone THEN NoParent ELSE @.parent, likes, replies)]
    /\ UNCHANGED <<videoStored, liked, used, request>>

\* Only the row's creation sets its parent.  The repository's update also
\* resets the counter of replies, VideoService's leaves it alone.
CrawlReply(i, p, likes, resets) ==
    /\ videoStored
    /\ p \in Stored /\ i # p
    /\ comment' = [comment EXCEPT ![i] =
          IF @ = Gone THEN NewRow(NoUser, p, likes, 0)
          ELSE NewRow(NoUser, @.parent, likes, IF resets THEN 0 ELSE @.replies)]
    /\ UNCHANGED <<videoStored, liked, used, request>>

\* cleanup deletes the video, and with it all of this; a crawl brings it back.
DropVideo ==
    /\ videoStored
    /\ videoStored' = FALSE
    /\ comment' = [i \in Ids |-> Gone]
    /\ liked' = {}
    /\ UNCHANGED <<used, request>>

StoreVideo ==
    /\ ~ videoStored
    /\ videoStored' = TRUE
    /\ UNCHANGED <<comment, liked, used, request>>

UserStep(r) ==
    \/ StartCreate(r) \/ Create(r)
    \/ StartReply(r) \/ Reply(r)
    \/ StartToggle(r) \/ LookUpLike(r) \/ Like(r) \/ Unlike(r)
    \/ StartRemove(r) \/ Remove(r)

Next ==
    \/ \E r \in Requests : UserStep(r)
    \/ \E i \in CrawledIds, likes \in Count, replies \in Count :
          CrawlTop(i, likes, replies)
    \/ \E i \in CrawledIds, p \in CrawledIds, likes \in Count, resets \in BOOLEAN :
          CrawlReply(i, p, likes, resets)
    \/ DropVideo
    \/ StoreVideo

Spec == Init /\ [][Next]_vars

-----------------------------------------------------------------------------
TypeOK ==
    /\ videoStored \in BOOLEAN
    /\ comment \in [Ids -> Row \cup {Gone}]
    /\ liked \subseteq Users \X Ids
    /\ used \subseteq UserIds
    /\ request \in [Requests -> RequestState]

\* The counter of likes on a user's comment is the number of users who like it,
\* however their toggles, removals and crawls interleave.
LikesExact ==
    \A i \in UserIds \cap Stored : comment[i].likes = Cardinality(Likers(i))

\* The counter of replies on a user's comment is the number of its replies.
RepliesExact ==
    \A i \in UserIds \cap Stored : comment[i].replies = Cardinality(RepliesOf(i))

\* A crawl overwrites the likes users gave a crawled comment, so taking one back
\* afterwards may even make its counter negative; but it is never off by more
\* than the users who like it, or did when it was crawled.
CrawledLikesWithin ==
    \A i \in CrawledIds \cap Stored :
        /\ comment[i].likes >= Cardinality(Likers(i)) - Cardinality(Users)
        /\ comment[i].likes <= Cardinality(Likers(i)) + MaxCount

\* Nobody likes a comment that is gone, and no reply hangs off one.
NothingDangles ==
    /\ \A l \in liked : l[2] \in Stored
    /\ \A i \in Stored : comment[i].parent \in Stored \cup {NoParent}

\* A comment goes away only with its video or through its owner: nobody takes
\* another's, or one that was crawled.
OwnersRemove ==
    [][\A i \in Stored :
          i \in Stored' \/ ~ videoStored'
          \/ \E r \in Requests : /\ request[r].pc = "remove" /\ request[r].to = i
                                 /\ request[r].user = comment[i].owner]_vars
=============================================================================
