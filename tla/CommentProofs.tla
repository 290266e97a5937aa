---------------------------- MODULE CommentProofs ----------------------------
(***************************************************************************)
(* Theorems about CommentThreads and CommentReads, for any users, ids and  *)
(* requests: the counters of users' comments are exact, and readers see    *)
(* what is there.                                                          *)
(***************************************************************************)
EXTENDS CommentReads, FiniteSetTheorems, TLAPS

\* Users' comments have an owner and crawled ones have none.
Owned == \A i \in Stored : comment[i].owner \in Users <=> i \in UserIds

\* What holds of the tables alone.
Tables ==
    /\ comment \in [Ids -> Row \cup {Gone}]
    /\ liked \subseteq Users \X Ids
    /\ NothingDangles
    /\ Owned
    /\ LikesExact
    /\ RepliesExact
    /\ CrawledLikesWithin

Pending(r) == request[r].pc \in {"create", "reply"}
Removing(r) == request[r].pc = "remove"

\* A UUID is stored only once, by the request that drew it.
Fresh ==
    /\ \A i \in UserIds \ used : comment[i] = Gone
    /\ \A r \in Requests : Pending(r) =>
          /\ request[r].id \in used
          /\ comment[request[r].id] = Gone
          /\ \A s \in Requests : Pending(s) /\ s # r => request[s].id # request[r].id

\* What a remove has read is still so, unless the parent is gone for good.
RemovesRead ==
    \A r \in Requests : Removing(r) =>
        /\ request[r].to \in used
        /\ request[r].parent \in used \cup CrawledIds \cup {NoParent}
        /\ \A s \in Requests : Pending(s) =>
              request[s].id \notin {request[r].to, request[r].parent}
        /\ request[r].to \in Stored =>
              /\ request[r].user = comment[request[r].to].owner
              /\ \/ request[r].parent = comment[request[r].to].parent
                 \/ request[r].parent \in used /\ comment[request[r].parent] = Gone

\* What holds of the requests.
Asked ==
    /\ used \subseteq UserIds
    /\ request \in [Requests -> RequestState]
    /\ Fresh
    /\ RemovesRead

\* The inductive invariant.
IInv == videoStored \in BOOLEAN /\ Tables /\ Asked

-----------------------------------------------------------------------------
\* A row has the fields it was given.
LEMMA RowIsMade ==
    ASSUME NEW o \in Users \cup {NoUser}, NEW p \in Ids \cup {NoParent},
           NEW n \in Int, NEW m \in Int
    PROVE  /\ NewRow(o, p, n, m) \in Row
           /\ NewRow(o, p, n, m) # Gone
           /\ NewRow(o, p, n, m).owner = o
           /\ NewRow(o, p, n, m).parent = p
           /\ NewRow(o, p, n, m).likes = n
           /\ NewRow(o, p, n, m).replies = m
<1>1. NewRow(o, p, n, m) \in Row
  BY DEF NewRow, Row
<1> QED
  BY <1>1, RowAssumption DEF NewRow

\* The row of a new comment.
LEMMA NewRowIsMade ==
    ASSUME NEW o \in Users, NEW p \in Ids \cup {NoParent}
    PROVE  NewRow(o, p, 0, 0) \in Row /\ NewRow(o, p, 0, 0) # Gone
<1>1. o \in Users \cup {NoUser} /\ 0 \in Int
  OBVIOUS
<1> QED
  BY <1>1, RowIsMade

\* What a stored row holds.
LEMMA RowHolds ==
    ASSUME Tables, NEW i \in Stored
    PROVE  /\ i \in Ids /\ comment[i] \in Row
           /\ comment[i].owner \in Users \cup {NoUser}
           /\ comment[i].parent \in Stored \cup {NoParent}
           /\ comment[i].parent \in Ids \cup {NoParent}
           /\ comment[i].likes \in Int
           /\ comment[i].replies \in Int
<1>1. i \in Ids /\ comment[i] \in Row
  BY DEF Tables, Stored
<1>2. comment[i].parent \in Stored \cup {NoParent}
  BY DEF Tables, NothingDangles
<1> QED
  BY <1>1, <1>2 DEF Row

\* The row of i after it got `more` likes and `replied` replies.
RowCounted(i, more, replied) ==
    NewRow(comment[i].owner, comment[i].parent,
           comment[i].likes + more, comment[i].replies + replied)

LEMMA CountedIsRow ==
    ASSUME Tables, NEW i \in Stored, NEW more \in Int, NEW replied \in Int
    PROVE  /\ Counted(i, more, replied) = [comment EXCEPT ![i] = RowCounted(i, more, replied)]
           /\ RowCounted(i, more, replied) \in Row
           /\ RowCounted(i, more, replied) # Gone
           /\ RowCounted(i, more, replied).owner = comment[i].owner
           /\ RowCounted(i, more, replied).parent = comment[i].parent
           /\ RowCounted(i, more, replied).likes = comment[i].likes + more
           /\ RowCounted(i, more, replied).replies = comment[i].replies + replied
<1>1. Counted(i, more, replied) = [comment EXCEPT ![i] = RowCounted(i, more, replied)]
  BY DEF Counted, RowCounted
<1> DEFINE n == comment[i].likes + more
           m == comment[i].replies + replied
<1>2. /\ comment[i].owner \in Users \cup {NoUser}
      /\ comment[i].parent \in Ids \cup {NoParent}
      /\ n \in Int
      /\ m \in Int
  BY RowHolds
<1>3. RowCounted(i, more, replied) = NewRow(comment[i].owner, comment[i].parent, n, m)
  BY DEF RowCounted
<1> HIDE DEF n, m
<1>4. /\ RowCounted(i, more, replied) \in Row
      /\ RowCounted(i, more, replied) # Gone
      /\ RowCounted(i, more, replied).owner = comment[i].owner
      /\ RowCounted(i, more, replied).parent = comment[i].parent
      /\ RowCounted(i, more, replied).likes = n
      /\ RowCounted(i, more, replied).replies = m
  BY <1>2, <1>3, RowIsMade
<1> QED
  BY <1>1, <1>4 DEF n, m

\* The likers and the replies of a comment can be counted.
LEMMA Countable ==
    ASSUME Tables, NEW i \in Ids
    PROVE  /\ IsFiniteSet(Likers(i)) /\ Cardinality(Likers(i)) \in Nat
           /\ Cardinality(Likers(i)) <= Cardinality(Users)
           /\ IsFiniteSet(RepliesOf(i)) /\ Cardinality(RepliesOf(i)) \in Nat
<1>1. IsFiniteSet(Users) /\ IsFiniteSet(Ids)
  BY CommentAssumption, FS_Union DEF Ids
<1>2. Likers(i) \subseteq Users /\ RepliesOf(i) \subseteq Ids
  BY DEF Likers, RepliesOf
<1> QED
  BY <1>1, <1>2, FS_Subset, FS_CardinalityType

-----------------------------------------------------------------------------
(* The tables, statement by statement. *)

\* A comment of a user is new and nobody's parent yet.
LEMMA CommentAppears ==
    ASSUME Tables, NEW u \in Users, NEW id \in UserIds, comment[id] = Gone,
           comment' = [comment EXCEPT ![id] = NewRow(u, NoParent, 0, 0)],
           liked' = liked
    PROVE  Tables'
<1> DEFINE row == NewRow(u, NoParent, 0, 0)
<1>1. /\ row \in Row /\ row # Gone /\ row.owner = u /\ row.parent = NoParent
      /\ row.likes = 0 /\ row.replies = 0
  BY RowIsMade
<1> HIDE DEF row
<1>2. id \in Ids /\ id \notin CrawledIds /\ NoParent \notin Ids
  BY CommentAssumption DEF Ids
<1>3. /\ comment'[id] = row
      /\ \A i \in Ids : i # id => comment'[i] = comment[i]
      /\ comment' \in [Ids -> Row \cup {Gone}]
  BY <1>1, <1>2 DEF Tables, row
<1>4. Stored' = Stored \cup {id} /\ id \notin Stored
  BY <1>1, <1>2, <1>3 DEF Stored
<1>5. \A i \in Ids : Likers(i)' = Likers(i) /\ RepliesOf(i)' = RepliesOf(i)
  BY <1>1, <1>2, <1>3 DEF Likers, RepliesOf
<1>6. Likers(id) = {} /\ RepliesOf(id) = {}
  BY <1>2, <1>4 DEF Tables, NothingDangles, Likers, RepliesOf, Stored
<1>7. NothingDangles' /\ Owned'
  BY <1>1, <1>2, <1>3, <1>4 DEF Tables, NothingDangles, Owned, Stored
<1>8. LikesExact' /\ RepliesExact'
  BY <1>1, <1>2, <1>3, <1>4, <1>5, <1>6, FS_EmptySet DEF Tables, LikesExact, RepliesExact, Ids
<1>9. CrawledLikesWithin'
  BY <1>2, <1>3, <1>4, <1>5 DEF Tables, CrawledLikesWithin, Stored
<1> QED
  BY <1>3, <1>7, <1>8, <1>9 DEF Tables

\* A reply is counted at its parent, in the same transaction.
LEMMA ReplyAppears ==
    ASSUME Tables, NEW u \in Users, NEW id \in UserIds, comment[id] = Gone,
           NEW to \in Stored,
           comment' = [Counted(to, 0, 1) EXCEPT ![id] = NewRow(u, to, 0, 0)],
           liked' = liked
    PROVE  Tables'
<1> DEFINE row == NewRow(u, to, 0, 0)
           parent == RowCounted(to, 0, 1)
<1>0. /\ id \in Ids /\ id \notin CrawledIds /\ NoParent \notin Ids
      /\ to \in Ids /\ to # id /\ comment[to] # Gone
  BY CommentAssumption DEF Ids, Stored
<1>1. /\ row \in Row /\ row # Gone /\ row.owner = u /\ row.parent = to
      /\ row.likes = 0 /\ row.replies = 0
  BY <1>0, RowIsMade
<1>2. /\ parent \in Row /\ parent # Gone /\ parent.owner = comment[to].owner
      /\ parent.parent = comment[to].parent
      /\ parent.likes = comment[to].likes
      /\ parent.replies = comment[to].replies + 1
  BY CountedIsRow, RowHolds
<1>3. comment' = [[comment EXCEPT ![to] = parent] EXCEPT ![id] = row]
  BY CountedIsRow
<1> DEFINE counted == [comment EXCEPT ![to] = parent]
<1> HIDE DEF row, parent
<1>3a. /\ counted \in [Ids -> Row \cup {Gone}] /\ counted[to] = parent
      /\ \A i \in Ids : i # to => counted[i] = comment[i]
  BY <1>0, <1>2 DEF Tables
<1>3b. comment' = [counted EXCEPT ![id] = row]
  BY <1>3 DEF counted
<1> HIDE DEF counted
<1>4. /\ comment'[id] = row /\ comment'[to] = parent
      /\ \A i \in Ids : i \notin {id, to} => comment'[i] = comment[i]
      /\ comment' \in [Ids -> Row \cup {Gone}]
  <2>1. comment' \in [Ids -> Row \cup {Gone}]
    BY <1>1, <1>3a, <1>3b
  <2>2. comment'[id] = row
    BY <1>0, <1>3a, <1>3b
  <2>3. \A i \in Ids : i # id => comment'[i] = counted[i]
    BY <1>3a, <1>3b
  <2> QED
    BY <1>0, <1>3a, <2>1, <2>2, <2>3
<1>5. Stored' = Stored \cup {id} /\ id \notin Stored
  BY <1>0, <1>1, <1>2, <1>4 DEF Stored
<1>6. /\ \A i \in Ids : Likers(i)' = Likers(i)
      /\ \A i \in Ids : i # to => RepliesOf(i)' = RepliesOf(i)
      /\ RepliesOf(to)' = RepliesOf(to) \cup {id} /\ id \notin RepliesOf(to)
  BY <1>0, <1>1, <1>2, <1>4 DEF Likers, RepliesOf
<1>7. Likers(id) = {} /\ RepliesOf(id) = {}
  BY <1>0, <1>5 DEF Tables, NothingDangles, Likers, RepliesOf, Stored
<1>8. NothingDangles' /\ Owned'
  BY <1>0, <1>1, <1>2, <1>4, <1>5 DEF Tables, NothingDangles, Owned, Stored
<1>9. LikesExact'
  BY <1>0, <1>1, <1>2, <1>4, <1>5, <1>6, <1>7, FS_EmptySet DEF Tables, LikesExact, Ids
<1>10. RepliesExact'
  <2>1. Cardinality(RepliesOf(to)') = Cardinality(RepliesOf(to)) + 1
    BY <1>0, <1>6, Countable, FS_AddElement
  <2> SUFFICES ASSUME NEW i \in UserIds, i \in Stored'
               PROVE  comment'[i].replies = Cardinality(RepliesOf(i)')
    BY DEF RepliesExact
  <2>2. CASE i = id
    BY <1>0, <1>1, <1>4, <1>6, <1>7, <2>2, FS_EmptySet
  <2>3. CASE i # id
    <3>1. i \in Ids /\ i \in Stored
      BY <1>5, <2>3 DEF Stored
    <3>2. comment[i].replies = Cardinality(RepliesOf(i))
      BY <3>1 DEF Tables, RepliesExact
    <3>3. CASE i = to
      BY <1>2, <1>4, <2>1, <3>2, <3>3
    <3>4. CASE i # to
      BY <1>4, <1>6, <2>3, <3>1, <3>2, <3>4
    <3> QED
      BY <3>3, <3>4
  <2> QED
    BY <2>2, <2>3
<1>11. CrawledLikesWithin'
  BY <1>0, <1>2, <1>4, <1>5, <1>6 DEF Tables, CrawledLikesWithin, Stored
<1> QED
  BY <1>4, <1>8, <1>9, <1>10, <1>11 DEF Tables

\* A like is a row and one more, or one less, on the counter.
LEMMA LikeCounted ==
    ASSUME Tables, NEW u \in Users, NEW i \in Stored,
           \/ /\ <<u, i>> \notin liked
              /\ liked' = liked \cup {<<u, i>>}
              /\ comment' = Counted(i, 1, 0)
           \/ /\ <<u, i>> \in liked
              /\ liked' = liked \ {<<u, i>>}
              /\ comment' = Counted(i, -1, 0)
    PROVE  Tables'
<1> DEFINE more == IF <<u, i>> \in liked THEN -1 ELSE 1
           row == RowCounted(i, more, 0)
<1>1. /\ row \in Row /\ row # Gone /\ row.owner = comment[i].owner
      /\ row.parent = comment[i].parent
      /\ row.likes = comment[i].likes + more
      /\ row.replies = comment[i].replies
  BY CountedIsRow, RowHolds
<1>2. comment' = [comment EXCEPT ![i] = row]
  BY CountedIsRow
<1> HIDE DEF row
<1>3. /\ comment'[i] = row /\ i \in Ids
      /\ \A k \in Ids : k # i => comment'[k] = comment[k]
      /\ comment' \in [Ids -> Row \cup {Gone}]
  BY <1>1, <1>2 DEF Tables, Stored
<1>4. Stored' = Stored
  BY <1>1, <1>3 DEF Stored
<1>5. liked' \subseteq Users \X Ids /\ \A l \in liked' : l[2] \in Stored
  BY <1>3 DEF Tables, NothingDangles
<1>6. /\ \A k \in Ids : k # i => Likers(k)' = Likers(k)
      /\ Likers(i)' = IF more = 1 THEN Likers(i) \cup {u} ELSE Likers(i) \ {u}
      /\ u \in Likers(i) <=> more = -1
  BY <1>3 DEF Likers
<1>7. \A k \in Ids : RepliesOf(k)' = RepliesOf(k)
  BY <1>1, <1>3, <1>4 DEF RepliesOf, Stored
<1>8. Cardinality(Likers(i)') = Cardinality(Likers(i)) + more
  <2>1. IsFiniteSet(Likers(i)) /\ Cardinality(Likers(i)) \in Nat
    BY <1>3, Countable
  <2>2. u \notin Likers(i) => Cardinality(Likers(i) \cup {u}) = Cardinality(Likers(i)) + 1
    BY <2>1, FS_AddElement
  <2>3. u \in Likers(i) => Cardinality(Likers(i) \ {u}) = Cardinality(Likers(i)) - 1
    BY <2>1, FS_RemoveElement
  <2>4. CASE <<u, i>> \in liked
    BY <1>6, <2>1, <2>3, <2>4
  <2>5. CASE <<u, i>> \notin liked
    BY <1>6, <2>1, <2>2, <2>5
  <2> QED
    BY <2>4, <2>5
<1>8a. more \in {1, -1}
  OBVIOUS
<1> HIDE DEF more
<1>9. NothingDangles' /\ Owned'
  BY <1>1, <1>3, <1>4, <1>5 DEF Tables, NothingDangles, Owned, Stored
<1>10. LikesExact' /\ RepliesExact'
  <2>1. RepliesExact'
    BY <1>1, <1>3, <1>4, <1>7 DEF Tables, RepliesExact, Ids
  <2>2. LikesExact'
    <3> SUFFICES ASSUME NEW k \in UserIds, k \in Stored
                 PROVE  comment'[k].likes = Cardinality(Likers(k)')
      BY <1>4 DEF LikesExact
    <3>1. comment[k].likes = Cardinality(Likers(k)) /\ k \in Ids
      BY DEF Tables, LikesExact, Ids
    <3>2. CASE k = i
      BY <1>1, <1>3, <1>8, <3>1, <3>2
    <3>3. CASE k # i
      BY <1>3, <1>6, <3>1, <3>3
    <3> QED
      BY <3>2, <3>3
  <2> QED
    BY <2>1, <2>2
<1>11. CrawledLikesWithin'
  <2>1. more \in Int /\ comment[i].likes \in Int /\ Cardinality(Likers(i)) \in Nat
        /\ Cardinality(Users) \in Nat /\ MaxCount \in Nat
    BY <1>3, RowHolds, Countable, CommentAssumption, FS_CardinalityType DEF more
  <2> SUFFICES ASSUME NEW k \in CrawledIds, k \in Stored
               PROVE  /\ comment'[k].likes >= Cardinality(Likers(k)') - Cardinality(Users)
                      /\ comment'[k].likes <= Cardinality(Likers(k)') + MaxCount
    BY <1>4 DEF CrawledLikesWithin
  <2>2. /\ comment[k].likes >= Cardinality(Likers(k)) - Cardinality(Users)
        /\ comment[k].likes <= Cardinality(Likers(k)) + MaxCount
        /\ k \in Ids
    BY DEF Tables, CrawledLikesWithin, Ids
  <2>3. CASE k = i
    BY <1>1, <1>3, <1>8, <2>1, <2>2, <2>3
  <2>4. CASE k # i
    BY <1>3, <1>6, <2>2, <2>4
  <2> QED
    BY <2>3, <2>4
<1> QED
  BY <1>3, <1>5, <1>9, <1>10, <1>11 DEF Tables

\* A crawl writes a row of its own, under nobody or under a crawled comment.
LEMMA CrawledRow ==
    ASSUME Tables, NEW i \in CrawledIds, NEW parent, NEW likes \in Count, NEW replies \in Int,
           \/ comment[i] = Gone /\ parent \in (Stored \cap CrawledIds) \cup {NoParent}
           \/ comment[i] # Gone /\ parent = comment[i].parent,
           comment' = [comment EXCEPT ![i] = NewRow(NoUser, parent, likes, replies)],
           liked' = liked
    PROVE  Tables'
<1> DEFINE row == NewRow(NoUser, parent, likes, replies)
<1>0. /\ i \in Ids /\ i \notin UserIds /\ NoParent \notin Ids
      /\ MaxCount \in Nat /\ Cardinality(Users) \in Nat /\ NoUser \notin Users
  BY CommentAssumption, FS_CardinalityType DEF Ids
<1>1. parent \in Stored \cup {NoParent} /\ parent \in Ids \cup {NoParent}
  BY <1>0, RowHolds DEF Stored
<1>2. /\ row \in Row /\ row # Gone /\ row.owner = NoUser /\ row.parent = parent
      /\ row.likes = likes
  BY <1>1, RowIsMade DEF Count
<1> HIDE DEF row
<1>3. /\ comment'[i] = row
      /\ \A k \in Ids : k # i => comment'[k] = comment[k]
      /\ comment' \in [Ids -> Row \cup {Gone}]
  BY <1>0, <1>2 DEF Tables, row
<1>4. Stored' = Stored \cup {i}
  BY <1>0, <1>2, <1>3 DEF Stored
<1>5. \A k \in Ids : Likers(k)' = Likers(k)
  BY DEF Likers
<1>6. \A k \in UserIds : RepliesOf(k)' = RepliesOf(k)
  <2> TAKE k \in UserIds
  <2>1. parent = k <=> comment[i] # Gone /\ comment[i].parent = k
    BY <1>0, CommentAssumption DEF Ids
  <2> QED
    BY <1>0, <1>2, <1>3, <2>1 DEF RepliesOf
<1>7. NothingDangles' /\ Owned'
  BY <1>0, <1>1, <1>2, <1>3, <1>4 DEF Tables, NothingDangles, Owned, Stored
<1>8. LikesExact' /\ RepliesExact'
  BY <1>0, <1>3, <1>4, <1>5, <1>6 DEF Tables, LikesExact, RepliesExact, Ids
<1>9. CrawledLikesWithin'
  <2>1. Cardinality(Likers(i)) \in Nat /\ Cardinality(Likers(i)) <= Cardinality(Users)
        /\ likes \in 0 .. MaxCount
    BY <1>0, Countable DEF Count
  <2> QED
    BY <1>0, <1>2, <1>3, <1>4, <1>5, <2>1 DEF Tables, CrawledLikesWithin, Stored
<1> QED
  BY <1>3, <1>7, <1>8, <1>9 DEF Tables

\* A comment goes with its likes; its replies stay, and its parent counts one
\* reply less.
LEMMA CommentGoes ==
    ASSUME Tables, NEW i \in UserIds \cap Stored,
           comment' = Without(IF comment[i].parent = NoParent THEN comment
                              ELSE Counted(comment[i].parent, 0, -1), i),
           liked' = {l \in liked : l[2] # i}
    PROVE  /\ Tables'
           /\ Stored' = Stored \ {i}
           /\ \A k \in Stored' : comment'[k].owner = comment[k].owner
           /\ \A k \in Stored' : comment'[k].parent =
                 IF comment[k].parent = i THEN NoParent ELSE comment[k].parent
<1> DEFINE p == comment[i].parent
           counted == RowCounted(p, 0, -1)
           old(k) == IF k = p THEN counted ELSE comment[k]
           orphan(k) == NewRow(old(k).owner, NoParent, old(k).likes, old(k).replies)
<1>0. /\ i \in Ids /\ NoParent \notin Ids
      /\ p \in Stored \cup {NoParent} /\ p \in Ids \cup {NoParent}
  BY RowHolds, CommentAssumption DEF Ids
<1>1. p # NoParent => /\ counted \in Row /\ counted # Gone
                      /\ counted.owner = comment[p].owner
                      /\ counted.parent = comment[p].parent
                      /\ counted.likes = comment[p].likes
                      /\ counted.replies = comment[p].replies - 1
  <2> SUFFICES ASSUME p # NoParent
               PROVE  /\ counted \in Row /\ counted # Gone
                      /\ counted.owner = comment[p].owner
                      /\ counted.parent = comment[p].parent
                      /\ counted.likes = comment[p].likes
                      /\ counted.replies = comment[p].replies - 1
    OBVIOUS
  <2>1. p \in Stored
    BY <1>0
  <2> HIDE DEF p
  <2>2. 0 \in Int /\ -1 \in Int /\ comment[p].likes \in Int /\ comment[p].replies \in Int
    BY <2>1, RowHolds
  <2>3. /\ counted \in Row /\ counted # Gone
        /\ counted.owner = comment[p].owner
        /\ counted.parent = comment[p].parent
        /\ counted.likes = comment[p].likes + 0
        /\ counted.replies = comment[p].replies + (-1)
    BY <2>1, <2>2, CountedIsRow, ZenonT(60)
  <2> QED
    BY <2>2, <2>3
<1> HIDE DEF counted
<1>2. \A k \in Stored : /\ old(k) \in Row /\ old(k) # Gone
                        /\ old(k).owner = comment[k].owner
                        /\ old(k).parent = comment[k].parent
                        /\ old(k).likes = comment[k].likes
                        /\ old(k).replies = IF k = p THEN comment[k].replies - 1
                                            ELSE comment[k].replies
  BY <1>0, <1>1, RowHolds DEF Stored
<1>3. \A k \in Ids : old(k) = Gone <=> comment[k] = Gone
  BY <1>0, <1>1, <1>2 DEF Stored
<1>4. comment' = [k \in Ids |-> IF k = i THEN Gone
                                ELSE IF old(k) # Gone /\ old(k).parent = i
                                THEN orphan(k) ELSE old(k)]
  <2>1. CASE p = NoParent
    BY <1>0, <2>1 DEF Without, Tables
  <2>2. CASE p # NoParent
    <3>1. Counted(p, 0, -1) = [comment EXCEPT ![p] = counted]
      BY DEF Counted, RowCounted, counted
    <3>2. Counted(p, 0, -1) = [k \in Ids |-> old(k)]
      BY <3>1 DEF Tables
    <3> QED
      BY <2>2, <3>2 DEF Without
  <2> QED
    BY <2>1, <2>2
<1>5. \A k \in Stored : /\ orphan(k) \in Row /\ orphan(k) # Gone
                        /\ orphan(k).owner = old(k).owner
                        /\ orphan(k).parent = NoParent
                        /\ orphan(k).likes = old(k).likes
                        /\ orphan(k).replies = old(k).replies
  <2> TAKE k \in Stored
  <2>1. /\ old(k).owner \in Users \cup {NoUser}
        /\ old(k).likes \in Int
        /\ old(k).replies \in Int
    BY <1>2 DEF Row
  <2> DEFINE o == old(k).owner
             n == old(k).likes
             m == old(k).replies
  <2>2. orphan(k) = NewRow(o, NoParent, n, m)
    OBVIOUS
  <2>3. o \in Users \cup {NoUser} /\ n \in Int /\ m \in Int
    BY <2>1
  <2> HIDE DEF o, n, m, orphan
  <2>4. NoParent \in Ids \cup {NoParent}
    OBVIOUS
  <2> DEFINE row == NewRow(o, NoParent, n, m)
  <2>5. /\ row \in Row /\ row # Gone /\ row.owner = o
        /\ row.parent = NoParent /\ row.likes = n /\ row.replies = m
    BY <2>3, <2>4, RowIsMade
  <2> HIDE DEF row
  <2> QED
    BY <2>2, <2>5 DEF o, n, m, row
<1> HIDE DEF old, orphan, p
<1>6. comment'[i] = Gone /\ \A k \in Ids \ Stored : comment'[k] = Gone
  BY <1>0, <1>3, <1>4 DEF Stored
<1>7. \A k \in Stored \ {i} :
         /\ comment'[k] \in Row /\ comment'[k] # Gone
         /\ comment'[k].owner = comment[k].owner
         /\ comment'[k].parent = IF comment[k].parent = i THEN NoParent
                                 ELSE comment[k].parent
         /\ comment'[k].likes = comment[k].likes
         /\ comment'[k].replies = IF k = p THEN comment[k].replies - 1
                                  ELSE comment[k].replies
  BY <1>2, <1>4, <1>5 DEF Stored
<1>8. comment' \in [Ids -> Row \cup {Gone}] /\ Stored' = Stored \ {i}
  BY <1>4, <1>6, <1>7 DEF Stored
<1>9. \A k \in Ids \ {i} : Likers(k)' = Likers(k)
  BY DEF Likers
<1>10. \A k \in Ids \ {i} : RepliesOf(k)' = RepliesOf(k) \ {i}
  BY <1>0, <1>6, <1>7, <1>8 DEF RepliesOf, Stored
<1>11. \A k \in Ids : i \in RepliesOf(k) <=> k = p
  BY <1>0, CommentAssumption DEF RepliesOf, p, Stored
<1>12. NothingDangles' /\ Owned'
  BY <1>0, <1>7, <1>8 DEF Tables, NothingDangles, Owned, Stored
<1>13. LikesExact'
  BY <1>7, <1>8, <1>9 DEF Tables, LikesExact, Ids
<1>14. RepliesExact'
  <2>1. \A k \in Ids \ {i} : Cardinality(RepliesOf(k)') =
           IF k = p THEN Cardinality(RepliesOf(k)) - 1 ELSE Cardinality(RepliesOf(k))
    BY <1>10, <1>11, Countable, FS_RemoveElement
  <2> QED
    BY <1>7, <1>8, <2>1 DEF Tables, RepliesExact, Ids
<1>15. CrawledLikesWithin'
  BY <1>7, <1>8, <1>9 DEF Tables, CrawledLikesWithin, Ids
<1>16. Tables'
  BY <1>8, <1>12, <1>13, <1>14, <1>15 DEF Tables
<1> QED
  BY <1>7, <1>8, <1>16

-----------------------------------------------------------------------------
(* The requests. *)

\* What a request, at each point of its code, has read.
LEMMA RequestHolds ==
    ASSUME Asked, NEW r \in Requests
    PROVE  /\ request[r].pc = "create"
              => request[r] \in [pc : {"create"}, user : Users, id : UserIds]
           /\ request[r].pc = "reply"
              => request[r] \in [pc : {"reply"}, user : Users, id : UserIds, to : Ids]
           /\ request[r].pc \in {"lookup", "like", "unlike"}
              => request[r] \in [pc : {"lookup", "like", "unlike"}, user : Users, to : Ids]
           /\ request[r].pc = "remove"
              => request[r] \in [pc : {"remove"}, user : Users, to : Ids,
                                 parent : Ids \cup {NoParent}]
  BY DEF Asked, RequestState, NoRequest

\* A step of the tables after which no new comment of a user is there, and the
\* others have their owner and, unless it is gone, their parent.
LEMMA AskedKept ==
    ASSUME Tables, Asked, used' = used,
           \/ request' = request
           \/ \E r \in Requests : request' = [request EXCEPT ![r] = NoRequest],
           \A i \in UserIds : comment'[i] # Gone =>
              /\ comment[i] # Gone
              /\ comment'[i].owner = comment[i].owner
              /\ \/ comment'[i].parent = comment[i].parent
                 \/ comment[i].parent \in UserIds /\ comment'[comment[i].parent] = Gone
    PROVE  Asked'
<1>1. request' \in [Requests -> RequestState]
  BY DEF Asked, RequestState
<1>2. \A r \in Requests : request'[r] \in {request[r], NoRequest}
  BY DEF Asked
<1>3. NoRequest.pc \notin {"create", "reply", "remove"}
  BY DEF NoRequest
<1>4. \A i \in UserIds : comment[i] = Gone => comment'[i] = Gone
  OBVIOUS
<1>5. Fresh'
  <2>1. \A i \in UserIds \ used : comment'[i] = Gone
    BY <1>4 DEF Asked, Fresh
  <2>2. \A r \in Requests : Pending(r)' => Pending(r) /\ request'[r] = request[r]
    BY <1>2, <1>3 DEF Pending
  <2>3. \A r \in Requests : Pending(r) => comment'[request[r].id] = Gone
    BY <1>4, RequestHolds DEF Pending, Asked, Fresh
  <2> QED
    BY <2>1, <2>2, <2>3 DEF Asked, Fresh
<1>6. RemovesRead'
  <2> SUFFICES ASSUME NEW r \in Requests, Removing(r)'
               PROVE  /\ request'[r].to \in used
                      /\ request'[r].parent \in used \cup CrawledIds \cup {NoParent}
                      /\ \A s \in Requests : Pending(s)' =>
                            request'[s].id \notin {request'[r].to, request'[r].parent}
                      /\ request'[r].to \in Stored' =>
                            /\ request'[r].user = comment'[request'[r].to].owner
                            /\ \/ request'[r].parent = comment'[request'[r].to].parent
                               \/ /\ request'[r].parent \in used
                                  /\ comment'[request'[r].parent] = Gone
    BY DEF RemovesRead
  <2>1. request'[r] = request[r] /\ Removing(r)
    BY <1>2, <1>3 DEF Removing
  <2>2. \A s \in Requests : Pending(s)' => Pending(s) /\ request'[s] = request[s]
    BY <1>2, <1>3 DEF Pending
  <2>3. /\ request[r].to \in used
        /\ request[r].parent \in used \cup CrawledIds \cup {NoParent}
        /\ \A s \in Requests : Pending(s) =>
              request[s].id \notin {request[r].to, request[r].parent}
        /\ request[r].to \in Stored =>
              /\ request[r].user = comment[request[r].to].owner
              /\ \/ request[r].parent = comment[request[r].to].parent
                 \/ request[r].parent \in used /\ comment[request[r].parent] = Gone
    BY <2>1 DEF Asked, RemovesRead
  <2>4. used \subseteq UserIds
    BY DEF Asked
  <2> SUFFICES ASSUME request[r].to \in Stored'
               PROVE  /\ request[r].user = comment'[request[r].to].owner
                      /\ \/ request[r].parent = comment'[request[r].to].parent
                         \/ /\ request[r].parent \in used
                            /\ comment'[request[r].parent] = Gone
    BY <2>1, <2>2, <2>3
  <2> DEFINE i == request[r].to
  <2>5. i \in UserIds /\ comment'[i] # Gone /\ i \in Ids
    BY <2>3, <2>4 DEF Stored
  <2>6. i \in Stored /\ comment'[i].owner = comment[i].owner
    BY <2>5 DEF Stored
  <2>7. CASE request[r].parent \in used /\ comment[request[r].parent] = Gone
    BY <1>4, <2>3, <2>4, <2>6, <2>7
  <2>8. CASE request[r].parent = comment[i].parent
    <3>1. CASE comment'[i].parent = comment[i].parent
      BY <2>3, <2>6, <2>8, <3>1
    <3>2. CASE comment[i].parent \in UserIds /\ comment'[comment[i].parent] = Gone
      <4>1. comment[i].parent \in used
        BY <2>3, <2>8, <3>2, CommentAssumption DEF Ids
      <4> QED
        BY <2>3, <2>6, <2>8, <3>2, <4>1
    <3> QED
      BY <2>5, <3>1, <3>2
  <2> QED
    BY <2>3, <2>6, <2>7, <2>8
<1> QED
  BY <1>1, <1>5, <1>6 DEF Asked

\* The comment of request r is stored.
LEMMA AskedStored ==
    ASSUME Tables, Asked, NEW r \in Requests, Pending(r), used' = used,
           request' = [request EXCEPT ![r] = NoRequest],
           \A i \in Ids : i # request[r].id =>
              /\ comment'[i] = Gone <=> comment[i] = Gone
              /\ comment[i] # Gone => /\ comment'[i].owner = comment[i].owner
                                      /\ comment'[i].parent = comment[i].parent
    PROVE  Asked'
<1> DEFINE id == request[r].id
<1>1. /\ request' \in [Requests -> RequestState]
      /\ request'[r] = NoRequest
      /\ \A s \in Requests : s # r => request'[s] = request[s]
  BY DEF Asked, RequestState
<1>2. NoRequest.pc \notin {"create", "reply", "remove"}
  BY DEF NoRequest
<1>3. id \in used /\ used \subseteq UserIds /\ UserIds \subseteq Ids /\ comment[id] = Gone
  BY DEF Asked, Fresh, Ids
<1>4. Fresh'
  <2>1. \A i \in UserIds \ used : comment'[i] = Gone
    BY <1>3 DEF Asked, Fresh
  <2>2. \A s \in Requests : Pending(s)' => Pending(s) /\ s # r
    BY <1>1, <1>2 DEF Pending
  <2>3. \A s \in Requests : Pending(s) /\ s # r =>
           /\ request[s].id \in used /\ comment[request[s].id] = Gone
           /\ request[s].id # id
    BY DEF Asked, Fresh
  <2> QED
    BY <1>1, <1>3, <2>1, <2>2, <2>3 DEF Asked, Fresh
<1>5. RemovesRead'
  <2>1. \A s \in Requests : Pending(s)' => Pending(s) /\ request'[s] = request[s]
    BY <1>1, <1>2 DEF Pending
  <2> SUFFICES ASSUME NEW q \in Requests, Removing(q)'
               PROVE  /\ request'[q].to \in used
                      /\ request'[q].parent \in used \cup CrawledIds \cup {NoParent}
                      /\ \A s \in Requests : Pending(s)' =>
                            request'[s].id \notin {request'[q].to, request'[q].parent}
                      /\ request'[q].to \in Stored' =>
                            /\ request'[q].user = comment'[request'[q].to].owner
                            /\ \/ request'[q].parent = comment'[request'[q].to].parent
                               \/ /\ request'[q].parent \in used
                                  /\ comment'[request'[q].parent] = Gone
    BY DEF RemovesRead
  <2>2. request'[q] = request[q] /\ Removing(q)
    BY <1>1, <1>2 DEF Removing
  <2>3. /\ request[q].to \in used
        /\ request[q].parent \in used \cup CrawledIds \cup {NoParent}
        /\ \A s \in Requests : Pending(s) =>
              request[s].id \notin {request[q].to, request[q].parent}
        /\ request[q].to \in Stored =>
              /\ request[q].user = comment[request[q].to].owner
              /\ \/ request[q].parent = comment[request[q].to].parent
                 \/ request[q].parent \in used /\ comment[request[q].parent] = Gone
    BY <2>2 DEF Asked, RemovesRead
  <2>4. request[q].to \in Ids \ {id} /\ request[q].parent # id
    BY <1>3, <2>3
  <2> QED
    BY <1>3, <2>1, <2>2, <2>3, <2>4 DEF Stored
<1> QED
  BY <1>1, <1>4, <1>5 DEF Asked

\* Nothing happens to the tables.
LEMMA TablesKept ==
    ASSUME Tables, comment' = comment, liked' = liked
    PROVE  Tables'
BY DEF Tables, NothingDangles, Owned, LikesExact, RepliesExact, CrawledLikesWithin,
       Stored, Likers, RepliesOf

\* A request draws a fresh UUID.
LEMMA AskedDraws ==
    ASSUME Tables, Asked, NEW r \in Requests, ~ Removing(r), ~ Pending(r),
           NEW id \in UserIds \ used, NEW state \in RequestState,
           state.pc \in {"create", "reply"}, state.id = id,
           used' = used \cup {id}, request' = [request EXCEPT ![r] = state],
           comment' = comment
    PROVE  Asked'
<1>1. /\ request' \in [Requests -> RequestState]
      /\ request'[r] = state
      /\ \A s \in Requests : s # r => request'[s] = request[s]
      /\ used' \subseteq UserIds
  BY DEF Asked
<1>2. Fresh'
  BY <1>1 DEF Asked, Fresh, Pending
<1>3. RemovesRead'
  <2> SUFFICES ASSUME NEW q \in Requests, Removing(q)'
               PROVE  /\ request'[q].to \in used'
                      /\ request'[q].parent \in used' \cup CrawledIds \cup {NoParent}
                      /\ \A s \in Requests : Pending(s)' =>
                            request'[s].id \notin {request'[q].to, request'[q].parent}
                      /\ request'[q].to \in Stored' =>
                            /\ request'[q].user = comment'[request'[q].to].owner
                            /\ \/ request'[q].parent = comment'[request'[q].to].parent
                               \/ /\ request'[q].parent \in used'
                                  /\ comment'[request'[q].parent] = Gone
    BY DEF RemovesRead
  <2>1. q # r /\ request'[q] = request[q] /\ Removing(q)
    BY <1>1 DEF Removing
  <2>2. /\ request[q].to \in used
        /\ request[q].parent \in used \cup CrawledIds \cup {NoParent}
        /\ \A s \in Requests : Pending(s) =>
              request[s].id \notin {request[q].to, request[q].parent}
        /\ request[q].to \in Stored =>
              /\ request[q].user = comment[request[q].to].owner
              /\ \/ request[q].parent = comment[request[q].to].parent
                 \/ request[q].parent \in used /\ comment[request[q].parent] = Gone
    BY <2>1 DEF Asked, RemovesRead
  <2>3. id \notin {request[q].to, request[q].parent}
    BY <2>2, CommentAssumption DEF Ids
  <2>4. \A s \in Requests : Pending(s)' => \/ s = r /\ request'[s].id = id
                                           \/ Pending(s) /\ request'[s] = request[s]
    BY <1>1 DEF Pending
  <2> QED
    BY <2>1, <2>2, <2>3, <2>4 DEF Stored
<1> QED
  BY <1>1, <1>2, <1>3 DEF Asked

\* A request goes on with what needs no UUID and removes nothing.
LEMMA AskedGoes ==
    ASSUME Tables, Asked, NEW r \in Requests,
           NEW state \in RequestState, state.pc \in {"lookup", "like", "unlike"},
           used' = used, request' = [request EXCEPT ![r] = state],
           comment' = comment
    PROVE  Asked'
<1>1. /\ request' \in [Requests -> RequestState]
      /\ request'[r] = state
      /\ \A s \in Requests : s # r => request'[s] = request[s]
  BY DEF Asked
<1>2. \A s \in Requests : /\ Pending(s)' => Pending(s) /\ request'[s] = request[s]
                          /\ Removing(s)' => Removing(s) /\ request'[s] = request[s]
  BY <1>1 DEF Pending, Removing
<1>3. Fresh'
  BY <1>2 DEF Asked, Fresh
<1>4. RemovesRead'
  BY <1>2 DEF Asked, RemovesRead, Stored
<1> QED
  BY <1>1, <1>3, <1>4 DEF Asked

\* A remove reads the comment of a user.
LEMMA AskedRemoves ==
    ASSUME Tables, Asked, NEW r \in Requests, ~ Pending(r),
           NEW i \in Stored, comment[i].owner # NoUser,
           used' = used, comment' = comment,
           request' = [request EXCEPT ![r] =
              [pc |-> "remove", user |-> comment[i].owner, to |-> i,
               parent |-> comment[i].parent]]
    PROVE  Asked'
<1> DEFINE state == [pc |-> "remove", user |-> comment[i].owner, to |-> i,
                     parent |-> comment[i].parent]
<1>1. /\ comment[i].owner \in Users /\ comment[i].parent \in Ids \cup {NoParent}
      /\ comment[i].parent \in Stored \cup {NoParent} /\ i \in Ids
  BY RowHolds
<1>2. i \in UserIds
  BY <1>1 DEF Tables, Owned
<1>3. state \in RequestState /\ state.pc = "remove" /\ state.to = i
      /\ state.user = comment[i].owner /\ state.parent = comment[i].parent
  BY <1>1 DEF RequestState
<1> HIDE DEF state
<1>4. /\ request' \in [Requests -> RequestState]
      /\ request'[r] = state
      /\ \A s \in Requests : s # r => request'[s] = request[s]
  BY <1>3 DEF Asked, state
<1>5. \A s \in Requests : Pending(s)' => Pending(s) /\ request'[s] = request[s]
  BY <1>3, <1>4 DEF Pending
<1>6. Fresh'
  BY <1>5 DEF Asked, Fresh
<1>7. \A k \in Stored : k \in used \cup CrawledIds
  BY DEF Asked, Fresh, Stored, Ids
<1>8. \A s \in Requests : Pending(s) => request[s].id \notin Stored \cup {NoParent}
  BY CommentAssumption DEF Asked, Fresh, Stored, Ids
<1>9. i \in used /\ comment[i].parent \in used \cup CrawledIds \cup {NoParent}
  BY <1>1, <1>2, <1>7, CommentAssumption
<1>10. RemovesRead'
  <2> SUFFICES ASSUME NEW q \in Requests, Removing(q)'
               PROVE  /\ request'[q].to \in used
                      /\ request'[q].parent \in used \cup CrawledIds \cup {NoParent}
                      /\ \A s \in Requests : Pending(s)' =>
                            request'[s].id \notin {request'[q].to, request'[q].parent}
                      /\ request'[q].to \in Stored =>
                            /\ request'[q].user = comment[request'[q].to].owner
                            /\ \/ request'[q].parent = comment[request'[q].to].parent
                               \/ /\ request'[q].parent \in used
                                  /\ comment[request'[q].parent] = Gone
    BY DEF RemovesRead, Stored
  <2>1. CASE q = r
    BY <1>1, <1>3, <1>4, <1>5, <1>8, <1>9, <2>1
  <2>2. CASE q # r
    <3>1. request'[q] = request[q] /\ Removing(q)
      BY <1>4, <2>2 DEF Removing
    <3> QED
      BY <1>5, <3>1 DEF Asked, RemovesRead
  <2> QED
    BY <2>1, <2>2
<1> QED
  BY <1>4, <1>6, <1>10 DEF Asked

-----------------------------------------------------------------------------
(* The invariant, action by action. *)

\* The rows, once the invariant's parts hold again.
LEMMA Rejoined ==
    ASSUME videoStored' \in BOOLEAN, Tables', Asked'
    PROVE  IInv'
BY DEF IInv

\* A request that fails leaves no trace.
LEMMA RollsBackIInv ==
    ASSUME IInv, NEW r \in Requests, RollsBack(r)
    PROVE  IInv'
<1>1. /\ videoStored' = videoStored /\ comment' = comment /\ liked' = liked /\ used' = used
      /\ request' = [request EXCEPT ![r] = NoRequest]
  BY DEF RollsBack, Ends, Goes
<1>2. Tables'
  BY <1>1, TablesKept DEF IInv
<1>3. Asked'
  <2>1. \A i \in UserIds : comment'[i] # Gone =>
              /\ comment[i] # Gone
              /\ comment'[i].owner = comment[i].owner
              /\ comment'[i].parent = comment[i].parent
    BY <1>1
  <2> QED
    BY <1>1, <2>1, AskedKept DEF IInv
<1> QED
  BY <1>1, <1>2, <1>3 DEF IInv

\* What an idle request starts.
LEMMA StartsIInv ==
    ASSUME IInv, NEW r \in Requests,
           StartCreate(r) \/ StartReply(r) \/ StartToggle(r) \/ LookUpLike(r) \/ StartRemove(r)
    PROVE  IInv'
<1>1. /\ videoStored' = videoStored /\ comment' = comment /\ liked' = liked
  BY DEF StartCreate, StartReply, StartToggle, LookUpLike, StartRemove
<1>2. Tables /\ Asked /\ videoStored \in BOOLEAN
  BY DEF IInv
<1>3. Tables'
  BY <1>1, <1>2, TablesKept
<1>4. request[r] = NoRequest => ~ Pending(r) /\ ~ Removing(r)
  BY DEF NoRequest, Pending, Removing
<1>5. Asked'
  <2>1. CASE StartCreate(r)
    <3>1. PICK u \in Users, id \in UserIds \ used :
             /\ request' = [request EXCEPT ![r] = [pc |-> "create", user |-> u, id |-> id]]
             /\ used' = used \cup {id}
             /\ request[r] = NoRequest
      BY <2>1 DEF StartCreate, Goes
    <3> DEFINE state == [pc |-> "create", user |-> u, id |-> id]
    <3>2. state \in RequestState /\ state.pc = "create" /\ state.id = id
      BY DEF RequestState
    <3> HIDE DEF state
    <3>3. request' = [request EXCEPT ![r] = state]
      BY <3>1 DEF state
    <3> QED
      BY <1>1, <1>2, <1>4, <3>1, <3>2, <3>3, AskedDraws
  <2>2. CASE StartReply(r)
    <3>1. PICK u \in Users, id \in UserIds \ used, i \in Stored :
             /\ request' = [request EXCEPT ![r] =
                              [pc |-> "reply", user |-> u, id |-> id, to |-> i]]
             /\ used' = used \cup {id}
             /\ request[r] = NoRequest
      BY <2>2 DEF StartReply, Goes
    <3> DEFINE state == [pc |-> "reply", user |-> u, id |-> id, to |-> i]
    <3>2. state \in RequestState /\ state.pc = "reply" /\ state.id = id
      BY DEF RequestState, Stored
    <3> HIDE DEF state
    <3>3. request' = [request EXCEPT ![r] = state]
      BY <3>1 DEF state
    <3> QED
      BY <1>1, <1>2, <1>4, <3>1, <3>2, <3>3, AskedDraws
  <2>3. CASE StartToggle(r)
    <3>1. PICK u \in Users, i \in Stored :
             request' = [request EXCEPT ![r] = [pc |-> "lookup", user |-> u, to |-> i]]
      BY <2>3 DEF StartToggle, Goes
    <3> DEFINE state == [pc |-> "lookup", user |-> u, to |-> i]
    <3>2. state \in RequestState /\ state.pc = "lookup"
      BY DEF RequestState, Stored
    <3> HIDE DEF state
    <3>3. request' = [request EXCEPT ![r] = state] /\ used' = used
      BY <2>3, <3>1 DEF state, StartToggle
    <3> QED
      BY <1>1, <1>2, <3>2, <3>3, AskedGoes
  <2>4. CASE LookUpLike(r)
    <3>1. request[r] \in [pc : {"lookup", "like", "unlike"}, user : Users, to : Ids]
      BY <1>2, <2>4, RequestHolds DEF LookUpLike
    <3>2. PICK pc \in {"like", "unlike"} :
             request' = [request EXCEPT ![r] = [request[r] EXCEPT !.pc = pc]]
      BY <2>4 DEF LookUpLike, Goes
    <3> DEFINE state == [request[r] EXCEPT !.pc = pc]
    <3>3. state \in [pc : {"lookup", "like", "unlike"}, user : Users, to : Ids]
          /\ state.pc = pc
      BY <3>1
    <3> HIDE DEF state
    <3>4. state \in RequestState
      BY <3>3 DEF RequestState
    <3>5. request' = [request EXCEPT ![r] = state] /\ used' = used
      BY <2>4, <3>2 DEF state, LookUpLike
    <3> QED
      BY <1>1, <1>2, <3>3, <3>4, <3>5, AskedGoes
  <2>5. CASE StartRemove(r)
    <3>1. PICK i \in Stored :
             /\ comment[i].owner # NoUser
             /\ request' = [request EXCEPT ![r] =
                  [pc |-> "remove", user |-> comment[i].owner, to |-> i,
                   parent |-> comment[i].parent]]
      BY <2>5 DEF StartRemove, Goes
    <3>2. request[r] = NoRequest /\ used' = used
      BY <2>5 DEF StartRemove
    <3> QED
      BY <1>1, <1>2, <1>4, <3>1, <3>2, AskedRemoves
  <2> QED
    BY <2>1, <2>2, <2>3, <2>4, <2>5
<1> QED
  BY <1>1, <1>2, <1>3, <1>5 DEF IInv

\* A comment or a reply is stored.
LEMMA StoresIInv ==
    ASSUME IInv, NEW r \in Requests, Create(r) \/ Reply(r)
    PROVE  IInv'
<1>1. Tables /\ Asked /\ videoStored \in BOOLEAN
  BY DEF IInv
<1>2. Pending(r) /\ request[r].id \in UserIds /\ comment[request[r].id] = Gone
      /\ request[r].user \in Users
  BY <1>1, RequestHolds DEF Create, Reply, Pending, Asked, Fresh
<1>3. request[r].id \in Ids /\ comment \in [Ids -> Row \cup {Gone}]
  BY <1>1, <1>2 DEF Ids, Tables
<1> DEFINE id == request[r].id
           u == request[r].user
<1>4. CASE RollsBack(r)
  BY <1>4, RollsBackIInv
<1>5. CASE Create(r) /\ ~ RollsBack(r)
  <2>1. /\ comment' = [comment EXCEPT ![id] = NewRow(u, NoParent, 0, 0)]
        /\ request' = [request EXCEPT ![r] = NoRequest]
        /\ videoStored' = videoStored /\ liked' = liked /\ used' = used
    BY <1>5 DEF Create, Ends, Goes
  <2>2. Tables'
    BY <1>1, <1>2, <2>1, CommentAppears
  <2>3. \A i \in Ids : i # id => comment'[i] = comment[i]
    BY <1>3, <2>1
  <2>4. Asked'
    BY <1>1, <1>2, <2>1, <2>3, AskedStored
  <2> QED
    BY <1>1, <2>1, <2>2, <2>4 DEF IInv
<1>6. CASE Reply(r) /\ ~ RollsBack(r)
  <2> DEFINE to == request[r].to
             row == RowCounted(to, 0, 1)
  <2>1. /\ to \in Stored
        /\ comment' = [Counted(to, 0, 1) EXCEPT ![id] = NewRow(u, to, 0, 0)]
        /\ request' = [request EXCEPT ![r] = NoRequest]
        /\ videoStored' = videoStored /\ liked' = liked /\ used' = used
    BY <1>6 DEF Reply, Ends, Goes
  <2>2. Tables'
    BY <1>1, <1>2, <2>1, ReplyAppears
  <2>3. /\ Counted(to, 0, 1) = [comment EXCEPT ![to] = row]
        /\ row # Gone /\ row.owner = comment[to].owner /\ row.parent = comment[to].parent
        /\ comment[to] # Gone /\ to \in Ids
    BY <1>1, <2>1, CountedIsRow DEF Stored
  <2> HIDE DEF row
  <2>4. \A i \in Ids : i # id => comment'[i] = IF i = to THEN row ELSE comment[i]
    <3> DEFINE counted == [comment EXCEPT ![to] = row]
    <3>1. \A i \in Ids : i # id => comment'[i] = counted[i]
      BY <1>3, <2>1, <2>3
    <3>2. \A i \in Ids : counted[i] = IF i = to THEN row ELSE comment[i]
      BY <1>3
    <3> QED
      BY <3>1, <3>2
  <2>5. Asked'
    BY <1>1, <1>2, <2>1, <2>3, <2>4, AskedStored
  <2> QED
    BY <1>1, <2>1, <2>2, <2>5 DEF IInv
<1> QED
  BY <1>4, <1>5, <1>6

\* A like is given or taken back.
LEMMA LikesIInv ==
    ASSUME IInv, NEW r \in Requests, Like(r) \/ Unlike(r)
    PROVE  IInv'
<1>1. Tables /\ Asked /\ videoStored \in BOOLEAN
  BY DEF IInv
<1>2. request[r].user \in Users /\ request[r].to \in Ids
  BY <1>1, RequestHolds DEF Like, Unlike
<1> DEFINE i == request[r].to
           u == request[r].user
<1>3. CASE RollsBack(r)
  BY <1>3, RollsBackIInv
<1>4. CASE ~ RollsBack(r)
  <2>1. /\ request' = [request EXCEPT ![r] = NoRequest]
        /\ videoStored' = videoStored /\ used' = used
        /\ \/ /\ i \in Stored /\ <<u, i>> \notin liked
              /\ liked' = liked \cup {<<u, i>>}
              /\ comment' = Counted(i, 1, 0)
           \/ /\ <<u, i>> \in liked
              /\ liked' = liked \ {<<u, i>>}
              /\ comment' = Counted(i, -1, 0)
    BY <1>4 DEF Like, Unlike, Ends, Goes
  <2>2. i \in Stored
    BY <1>1, <2>1 DEF Tables, NothingDangles
  <2>3. Tables'
    BY <1>1, <1>2, <2>1, <2>2, LikeCounted
  <2>4. \E more \in Int : comment' = Counted(i, more, 0)
    BY <2>1
  <2>5. PICK more \in Int : comment' = Counted(i, more, 0)
    BY <2>4
  <2> DEFINE row == RowCounted(i, more, 0)
  <2>6. /\ comment' = [comment EXCEPT ![i] = row]
        /\ row # Gone /\ row.owner = comment[i].owner /\ row.parent = comment[i].parent
        /\ comment[i] # Gone /\ i \in Ids
    BY <1>1, <2>2, <2>5, CountedIsRow DEF Stored
  <2> HIDE DEF row
  <2>7. \A k \in Ids : comment'[k] = IF k = i THEN row ELSE comment[k]
    BY <1>1, <2>6 DEF Tables
  <2>8. UserIds \subseteq Ids
    BY DEF Ids
  <2>9. \A k \in UserIds : comment'[k] # Gone =>
              /\ comment[k] # Gone
              /\ comment'[k].owner = comment[k].owner
              /\ comment'[k].parent = comment[k].parent
    BY <2>6, <2>7, <2>8
  <2>10. Asked'
    BY <1>1, <2>1, <2>9, AskedKept
  <2> QED
    BY <1>1, <2>1, <2>3, <2>10 DEF IInv
<1> QED
  BY <1>3, <1>4

\* A remove finds what it read, or throws.
LEMMA RemoveIInv ==
    ASSUME IInv, NEW r \in Requests, Remove(r)
    PROVE  /\ IInv'
           /\ \A i \in Stored :
                 \/ i \in Stored'
                 \/ request[r].to = i /\ request[r].user = comment[i].owner
<1>1. Tables /\ Asked /\ videoStored \in BOOLEAN
  BY DEF IInv
<1> DEFINE i == request[r].to
           p == request[r].parent
<1>2. CASE RollsBack(r)
  <2>1. Stored' = Stored
    BY <1>2 DEF RollsBack, Stored
  <2> QED
    BY <1>2, <2>1, RollsBackIInv
<1>3. CASE ~ RollsBack(r)
  <2>1. /\ i \in Stored /\ (p = NoParent \/ p \in Stored)
        /\ comment' = Without(IF p = NoParent THEN comment ELSE Counted(p, 0, -1), i)
        /\ liked' = {l \in liked : l[2] # i}
        /\ request' = [request EXCEPT ![r] = NoRequest]
        /\ videoStored' = videoStored /\ used' = used
    BY <1>3 DEF Remove, Ends, Goes
  <2>2. /\ i \in used /\ used \subseteq UserIds
        /\ request[r].user = comment[i].owner
        /\ p = comment[i].parent \/ (p \in used /\ comment[p] = Gone)
    BY <1>1, <2>1 DEF Remove, Removing, Asked, RemovesRead
  <2>3. p = comment[i].parent
    BY <2>1, <2>2, CommentAssumption DEF Ids, Stored
  <2> HIDE DEF i, p
  <2>4. i \in UserIds \cap Stored
    BY <2>1, <2>2
  <2>5. comment' = Without(IF comment[i].parent = NoParent THEN comment
                           ELSE Counted(comment[i].parent, 0, -1), i)
    BY <2>1, <2>3
  <2>6. /\ Tables'
        /\ Stored' = Stored \ {i}
        /\ \A k \in Stored' : comment'[k].owner = comment[k].owner
        /\ \A k \in Stored' : comment'[k].parent =
              IF comment[k].parent = i THEN NoParent ELSE comment[k].parent
    BY <1>1, <2>1, <2>4, <2>5, CommentGoes
  <2>7. \A k \in UserIds : comment'[k] # Gone <=> k \in Stored'
    BY DEF Stored, Ids
  <2>8. comment'[i] = Gone
    BY <2>4, <2>6, <2>7
  <2>9. \A k \in UserIds : comment'[k] # Gone =>
              /\ comment[k] # Gone
              /\ comment'[k].owner = comment[k].owner
              /\ \/ comment'[k].parent = comment[k].parent
                 \/ comment[k].parent \in UserIds /\ comment'[comment[k].parent] = Gone
    BY <2>4, <2>6, <2>7, <2>8 DEF Stored
  <2>10. Asked'
    BY <1>1, <2>1, <2>9, AskedKept
  <2>11. IInv'
    BY <1>1, <2>1, <2>6, <2>10 DEF IInv
  <2>12. \A k \in Stored :
            k \in Stored' \/ (i = k /\ request[r].user = comment[k].owner)
    BY <2>2, <2>6
  <2> QED
    BY <2>11, <2>12 DEF i
<1> QED
  BY <1>2, <1>3

\* A crawl leaves users' comments as they are.
LEMMA CrawlIInv ==
    ASSUME IInv,
           \/ \E i \in CrawledIds, likes \in Count, replies \in Count :
                 CrawlTop(i, likes, replies)
           \/ \E i \in CrawledIds, p \in CrawledIds, likes \in Count, resets \in BOOLEAN :
                 CrawlReply(i, p, likes, resets)
    PROVE  IInv' /\ Stored \subseteq Stored'
<1>1. Tables /\ Asked /\ videoStored \in BOOLEAN
  BY DEF IInv
<1>2. \E i \in CrawledIds, likes \in Count, replies \in Int : \E parent :
         /\ \/ comment[i] = Gone /\ parent \in (Stored \cap CrawledIds) \cup {NoParent}
            \/ comment[i] # Gone /\ parent = comment[i].parent
         /\ comment' = [comment EXCEPT ![i] = NewRow(NoUser, parent, likes, replies)]
  <2>1. CASE \E i \in CrawledIds, likes \in Count, replies \in Count :
                CrawlTop(i, likes, replies)
    <3>1. PICK i \in CrawledIds, likes \in Count, replies \in Count :
             CrawlTop(i, likes, replies)
      BY <2>1
    <3> DEFINE parent == IF comment[i] = Gone THEN NoParent ELSE comment[i].parent
    <3>2. comment' = [comment EXCEPT ![i] = NewRow(NoUser, parent, likes, replies)]
      BY <1>1, <3>1 DEF CrawlTop, Tables, Ids
    <3>3. replies \in Int
      BY CommentAssumption DEF Count
    <3> QED
      BY <3>2, <3>3
  <2>2. CASE \E i \in CrawledIds, p \in CrawledIds, likes \in Count, resets \in BOOLEAN :
                CrawlReply(i, p, likes, resets)
    <3>1. PICK i \in CrawledIds, p \in CrawledIds, likes \in Count, resets \in BOOLEAN :
             CrawlReply(i, p, likes, resets)
      BY <2>2
    <3> DEFINE parent == IF comment[i] = Gone THEN p ELSE comment[i].parent
               replies == IF comment[i] = Gone \/ resets THEN 0 ELSE comment[i].replies
    <3>2. comment' = [comment EXCEPT ![i] =
             IF comment[i] = Gone THEN NewRow(NoUser, p, likes, 0)
             ELSE NewRow(NoUser, comment[i].parent, likes,
                         IF resets THEN 0 ELSE comment[i].replies)]
      BY <1>1, <3>1 DEF CrawlReply, Tables, Ids
    <3>3. (IF comment[i] = Gone THEN NewRow(NoUser, p, likes, 0)
             ELSE NewRow(NoUser, comment[i].parent, likes,
                         IF resets THEN 0 ELSE comment[i].replies))
          = NewRow(NoUser, parent, likes, replies)
      OBVIOUS
    <3>4. comment' = [comment EXCEPT ![i] = NewRow(NoUser, parent, likes, replies)]
      BY <3>2, <3>3
    <3>5. p \in Stored
      BY <3>1 DEF CrawlReply
    <3>6. comment[i] # Gone => i \in Stored
      BY DEF Stored, Ids
    <3>7. replies \in Int
      BY <1>1, <3>6, RowHolds
    <3> QED
      BY <3>4, <3>5, <3>7
  <2> QED
    BY <2>1, <2>2
<1>3. /\ videoStored' = videoStored /\ liked' = liked /\ used' = used /\ request' = request
  BY DEF CrawlTop, CrawlReply
<1>4. PICK i \in CrawledIds, likes \in Count, replies \in Int : \E parent :
         /\ \/ comment[i] = Gone /\ parent \in (Stored \cap CrawledIds) \cup {NoParent}
            \/ comment[i] # Gone /\ parent = comment[i].parent
         /\ comment' = [comment EXCEPT ![i] = NewRow(NoUser, parent, likes, replies)]
  BY <1>2
<1> PICK parent :
         /\ \/ comment[i] = Gone /\ parent \in (Stored \cap CrawledIds) \cup {NoParent}
            \/ comment[i] # Gone /\ parent = comment[i].parent
         /\ comment' = [comment EXCEPT ![i] = NewRow(NoUser, parent, likes, replies)]
  BY <1>4
<1>5. Tables'
  BY <1>1, <1>3, CrawledRow
<1> DEFINE row == NewRow(NoUser, parent, likes, replies)
<1>6. i \in Ids /\ comment' = [comment EXCEPT ![i] = row]
  BY DEF Ids
<1> HIDE DEF row
<1>7. comment'[i] = row /\ \A k \in Ids : k # i => comment'[k] = comment[k]
  BY <1>1, <1>6 DEF Tables
<1>8. \A k \in UserIds : k \in Ids /\ k # i
  BY CommentAssumption DEF Ids
<1>9. \A k \in UserIds : comment'[k] # Gone =>
              /\ comment[k] # Gone
              /\ comment'[k].owner = comment[k].owner
              /\ comment'[k].parent = comment[k].parent
  BY <1>7, <1>8
<1>10. Asked'
  BY <1>1, <1>3, <1>9, AskedKept
<1>11. row # Gone
  <2>1. parent \in Ids \cup {NoParent}
    BY <1>1, <1>6, RowHolds, CommentAssumption DEF Stored, Ids
  <2> QED
    BY <2>1, RowIsMade, CommentAssumption DEF row, Count
<1>12. Stored \subseteq Stored'
  BY <1>7, <1>11 DEF Stored
<1> QED
  BY <1>1, <1>3, <1>5, <1>10, <1>12 DEF IInv

\* The video goes with everything on it, or comes back with nothing.
LEMMA VideoIInv ==
    ASSUME IInv, DropVideo \/ StoreVideo
    PROVE  IInv'
<1>1. Tables /\ Asked /\ videoStored \in BOOLEAN
  BY DEF IInv
<1>2. CASE StoreVideo
  <2>1. Tables'
    BY <1>1, <1>2, TablesKept DEF StoreVideo
  <2>2. /\ used' = used /\ request' = request /\ comment' = comment
    BY <1>2 DEF StoreVideo
  <2>3. Asked'
    BY <1>1, <2>2, AskedKept
  <2> QED
    BY <1>2, <2>1, <2>3 DEF StoreVideo, IInv
<1>3. CASE DropVideo
  <2>1. /\ \A i \in Ids : comment'[i] = Gone
        /\ comment' = [i \in Ids |-> Gone]
        /\ liked' = {} /\ used' = used /\ request' = request
    BY <1>3 DEF DropVideo
  <2>2. Stored' = {}
    BY <2>1 DEF Stored
  <2>3. Tables'
    BY <2>1, <2>2 DEF Tables, NothingDangles, Owned, LikesExact, RepliesExact,
                      CrawledLikesWithin
  <2>4. \A i \in UserIds : comment'[i] = Gone
    BY <2>1 DEF Ids
  <2>5. Asked'
    BY <1>1, <2>1, <2>4, AskedKept
  <2> QED
    BY <1>3, <2>3, <2>5 DEF DropVideo, IInv
<1> QED
  BY <1>2, <1>3

LEMMA InitIInv == Init => IInv
<1> SUFFICES ASSUME Init PROVE IInv
  OBVIOUS
<1>1. Stored = {} /\ comment \in [Ids -> Row \cup {Gone}] /\ liked = {}
  BY DEF Init, Stored
<1>2. Tables
  BY <1>1 DEF Tables, NothingDangles, Owned, LikesExact, RepliesExact, CrawledLikesWithin
<1>3. NoRequest \in RequestState /\ NoRequest.pc \notin {"create", "reply", "remove"}
  BY DEF NoRequest, RequestState
<1>4. /\ request \in [Requests -> RequestState]
      /\ \A r \in Requests : ~ Pending(r) /\ ~ Removing(r)
  BY <1>3 DEF Init, Pending, Removing
<1>5. Asked
  BY <1>4 DEF Init, Asked, Fresh, RemovesRead, Ids
<1> QED
  BY <1>2, <1>5 DEF Init, IInv

\* What every step keeps: the invariant, and users' comments unless their owner
\* removes them or their video goes.
Removed(i) == \E r \in Requests : /\ request[r].pc = "remove" /\ request[r].to = i
                                  /\ request[r].user = comment[i].owner
OwnersOnly == \A i \in Stored : i \in Stored' \/ ~ videoStored' \/ Removed(i)

LEMMA StoresKeep ==
    ASSUME IInv, NEW r \in Requests,
           \/ StartCreate(r) \/ StartReply(r) \/ StartToggle(r) \/ LookUpLike(r)
           \/ StartRemove(r) \/ Create(r) \/ Reply(r) \/ Like(r) \/ Unlike(r)
    PROVE  Stored \subseteq Stored'
<1>1. Tables /\ comment \in [Ids -> Row \cup {Gone}]
  BY DEF IInv, Tables
<1>2. CASE comment' = comment
  BY <1>2 DEF Stored
<1>3. CASE \E i \in Stored, more \in Int : comment' = Counted(i, more, 0)
  <2>1. PICK i \in Stored, more \in Int : comment' = Counted(i, more, 0)
    BY <1>3
  <2> DEFINE row == RowCounted(i, more, 0)
  <2>2. comment' = [comment EXCEPT ![i] = row] /\ row # Gone
    BY <1>1, <2>1, CountedIsRow
  <2> HIDE DEF row
  <2> QED
    BY <1>1, <2>2 DEF Stored
<1>4. CASE Create(r) /\ comment' # comment
  <2>1. comment' = [comment EXCEPT ![request[r].id] = NewRow(request[r].user, NoParent, 0, 0)]
    BY <1>4 DEF Create, RollsBack
  <2> DEFINE u == request[r].user
             row == NewRow(u, NoParent, 0, 0)
  <2>2. u \in Users
    BY <1>4, RequestHolds DEF Create, IInv
  <2> HIDE DEF u
  <2>3. row # Gone
    BY <2>2, NewRowIsMade
  <2> USE DEF u
  <2> HIDE DEF row
  <2>4. comment' = [comment EXCEPT ![request[r].id] = row]
    BY <2>1 DEF row
  <2> QED
    BY <1>1, <2>3, <2>4 DEF Stored
<1>5. CASE Reply(r) /\ comment' # comment
  <2> DEFINE to == request[r].to
             row == NewRow(request[r].user, to, 0, 0)
             parent == RowCounted(to, 0, 1)
  <2>1. to \in Stored /\ comment' = [Counted(to, 0, 1) EXCEPT ![request[r].id] = row]
    BY <1>5 DEF Reply, RollsBack
  <2>2. request[r].user \in Users /\ to \in Ids
    BY <1>5, RequestHolds DEF Reply, IInv
  <2>3. row # Gone
    <3> HIDE DEF to
    <3> QED
      BY <2>2, NewRowIsMade DEF row
  <2>3a. to \in Stored
    BY <2>1
  <2> HIDE DEF to
  <2>4. Counted(to, 0, 1) = [comment EXCEPT ![to] = parent] /\ parent # Gone
    BY <1>1, <2>3a, CountedIsRow
  <2>5. comment' = [[comment EXCEPT ![to] = parent] EXCEPT ![request[r].id] = row]
    BY <2>1, <2>4
  <2> HIDE DEF row, parent
  <2> QED
    BY <1>1, <2>3, <2>4, <2>5 DEF Stored
<1>6. CASE (Like(r) \/ Unlike(r)) /\ comment' # comment
  <2> DEFINE i == request[r].to
  <2>1. /\ i \in Stored \/ <<request[r].user, i>> \in liked
        /\ \E more \in Int : comment' = Counted(i, more, 0)
    BY <1>6 DEF Like, Unlike, RollsBack
  <2>2. i \in Stored
    BY <1>1, <2>1 DEF Tables, NothingDangles
  <2> QED
    BY <1>3, <2>1, <2>2
<1> QED
  BY <1>2, <1>4, <1>5, <1>6 DEF StartCreate, StartReply, StartToggle, LookUpLike, StartRemove

LEMMA NextIInv ==
    ASSUME IInv, [Next]_vars
    PROVE  IInv' /\ OwnersOnly
<1>1. CASE UNCHANGED vars
  <2>1. Tables'
    BY <1>1, TablesKept DEF vars, IInv
  <2>2. /\ used' = used /\ request' = request /\ comment' = comment
        /\ videoStored' = videoStored
    BY <1>1 DEF vars
  <2>3. Asked'
    BY <2>2, AskedKept DEF IInv
  <2> QED
    BY <2>1, <2>2, <2>3 DEF IInv, OwnersOnly, Stored
<1>2. CASE \E r \in Requests : UserStep(r)
  <2>1. PICK r \in Requests : UserStep(r)
    BY <1>2
  <2>2. CASE Remove(r)
    BY <2>2, RemoveIInv DEF OwnersOnly, Removed, Remove
  <2>3. CASE ~ Remove(r)
    BY <2>1, <2>3, StartsIInv, StoresIInv, LikesIInv, StoresKeep DEF UserStep, OwnersOnly
  <2> QED
    BY <2>2, <2>3
<1>3. CASE \/ \E i \in CrawledIds, likes \in Count, replies \in Count :
                 CrawlTop(i, likes, replies)
           \/ \E i \in CrawledIds, p \in CrawledIds, likes \in Count, resets \in BOOLEAN :
                 CrawlReply(i, p, likes, resets)
  BY <1>3, CrawlIInv DEF OwnersOnly
<1>4. CASE DropVideo
  BY <1>4, VideoIInv DEF OwnersOnly, DropVideo
<1>5. CASE StoreVideo
  BY <1>5, VideoIInv DEF OwnersOnly, StoreVideo, Stored
<1> QED
  BY <1>1, <1>2, <1>3, <1>4, <1>5 DEF Next

-----------------------------------------------------------------------------
\* The invariant holds always: for any number of users and concurrent requests,
\* between whatever crawls and cleanups.
THEOREM CommentsInvariant == Spec => []IInv
<1>1. IInv /\ [Next]_vars => IInv'
  BY NextIInv
<1> QED
  BY InitIInv, <1>1, PTL DEF Spec

\* The tables and the requests stay within their types.
THEOREM CommentsTypeOK == Spec => []TypeOK
<1>1. IInv => TypeOK
  BY DEF IInv, Tables, Asked, TypeOK
<1> QED
  BY <1>1, CommentsInvariant, PTL

\* The counter of likes of a user's comment never drifts from its like rows,
\* though toggleLike reads the like before the transaction that counts it.
THEOREM LikesAreExact == Spec => []LikesExact
<1>1. IInv => LikesExact
  BY DEF IInv, Tables
<1> QED
  BY <1>1, CommentsInvariant, PTL

\* Nor does its counter of replies drift from its replies, though remove reads
\* the parent it decrements before its transaction.
THEOREM RepliesAreExact == Spec => []RepliesExact
<1>1. IInv => RepliesExact
  BY DEF IInv, Tables
<1> QED
  BY <1>1, CommentsInvariant, PTL

\* The likes of a crawled comment are off by at most those given before it was
\* crawled, and by what the crawler counted.
THEOREM CrawledLikesAreWithin == Spec => []CrawledLikesWithin
<1>1. IInv => CrawledLikesWithin
  BY DEF IInv, Tables
<1> QED
  BY <1>1, CommentsInvariant, PTL

\* Deleting a comment or its video leaves no like and no reply that refers to it.
THEOREM NothingIsLeftDangling == Spec => []NothingDangles
<1>1. IInv => NothingDangles
  BY DEF IInv, Tables
<1> QED
  BY <1>1, CommentsInvariant, PTL

\* Only its owner, or cleanup of its video, takes a comment away: the
\* owner that was checked before the transaction is still the owner within it.
THEOREM OwnersAloneRemove == Spec => OwnersRemove
<1>1. IInv /\ [Next]_vars =>
        [\A i \in Stored :
          i \in Stored' \/ ~ videoStored'
          \/ \E r \in Requests : /\ request[r].pc = "remove" /\ request[r].to = i
                                 /\ request[r].user = comment[i].owner]_vars
  BY NextIInv DEF OwnersOnly, Removed
<1> QED
  BY <1>1, CommentsInvariant, PTL DEF Spec, OwnersRemove

-----------------------------------------------------------------------------
(* The readers. *)

Points == {"idle", "count", "marker", "crawl", "save", "mark", "markEmpty", "list", "empty"}

ReaderState ==
    [pc : Points, thread : CrawledIds \cup {NoParent}, shown : BOOLEAN, late : BOOLEAN]

\* A call that has met no comments was not shown any all along; one that began
\* after a crawl finds its marker.
Noted ==
    /\ reader \in [Readers -> ReaderState]
    /\ marker \in BOOLEAN /\ tried \in BOOLEAN
    /\ tried => marker
    /\ \A d \in Readers :
          /\ reader[d].shown => TopLevel(comment) # {}
          /\ reader[d].pc \in {"marker", "crawl", "save", "mark", "markEmpty", "empty"}
             => ~ reader[d].shown
          /\ reader[d].late => tried
          /\ reader[d].pc = "crawl" => ~ reader[d].late

\* Reader d goes to pc: fine if what it has noted allows it.
LEMMA ReaderMoves ==
    ASSUME Noted, NEW d \in Readers, NEW pc \in Points, ReaderGoes(d, pc), Stays,
           marker' \in BOOLEAN, tried' \in BOOLEAN, tried => tried', tried' => marker',
           pc \in {"marker", "crawl", "save", "mark", "markEmpty", "empty"}
              => ~ reader[d].shown,
           pc = "crawl" => ~ reader[d].late
    PROVE  Noted'
<1>1. /\ reader' \in [Readers -> ReaderState]
      /\ reader'[d].pc = pc
      /\ reader'[d].shown = reader[d].shown
      /\ reader'[d].late = reader[d].late
      /\ \A e \in Readers : e # d => reader'[e] = reader[e]
  BY DEF Noted, ReaderGoes, ReaderState
<1>2. TopLevel(comment)' = TopLevel(comment)
  BY DEF Stays, vars, TopLevel
<1>3. \A e \in Readers : /\ reader'[e].shown => TopLevel(comment) # {}
                         /\ reader'[e].late => tried'
  BY <1>1 DEF Noted
<1>4. \A e \in Readers :
         /\ reader'[e].pc \in {"marker", "crawl", "save", "mark", "markEmpty", "empty"}
            => ~ reader'[e].shown
         /\ reader'[e].pc = "crawl" => ~ reader'[e].late
  BY <1>1 DEF Noted
<1> QED
  BY <1>1, <1>2, <1>3, <1>4 DEF Noted

\* Reader d ends.
LEMMA ReaderStops ==
    ASSUME Noted, NEW d \in Readers, ReaderEnds(d), Stays, UNCHANGED <<marker, tried>>
    PROVE  Noted'
<1>1. NoReader \in ReaderState /\ NoReader.pc = "idle" /\ ~ NoReader.shown /\ ~ NoReader.late
  BY DEF NoReader, ReaderState, Points
<1>2. TopLevel(comment)' = TopLevel(comment)
  BY DEF Stays, vars, TopLevel
<1> QED
  BY <1>1, <1>2 DEF Noted, ReaderEnds

\* A step of the tables, at which every call looks.
LEMMA TablesWatched ==
    ASSUME Noted, NEW readers \in [Readers -> ReaderState],
           \A d \in Readers : /\ readers[d].pc = reader[d].pc
                              /\ readers[d].shown = reader[d].shown
                              /\ readers[d].late = reader[d].late,
           reader' = Watched(readers), UNCHANGED <<marker, tried>>
    PROVE  Noted'
<1> DEFINE now(d) == readers[d].shown /\ TopLevel(comment') # {}
<1>1. \A d \in Readers : now(d) \in BOOLEAN
  OBVIOUS
<1>2. reader' = [d \in Readers |-> [readers[d] EXCEPT !.shown = now(d)]]
  BY DEF Watched
<1>3. \A d \in Readers : now(d) => reader[d].shown /\ (TopLevel(comment) # {})'
  BY DEF TopLevel
<1> HIDE DEF now
<1>4. \A d \in Readers :
         /\ reader'[d] \in ReaderState
         /\ reader'[d].pc = reader[d].pc
         /\ reader'[d].shown = now(d)
         /\ reader'[d].late = reader[d].late
  BY <1>1, <1>2 DEF ReaderState
<1>5. reader' \in [Readers -> ReaderState]
  BY <1>2, <1>4
<1> QED
  BY <1>3, <1>4, <1>5 DEF Noted

\* A reader does to the tables what a crawl does, or nothing.
LEMMA ReadStepOfTables ==
    ASSUME Noted, NEW d \in Readers, ReadStep(d)
    PROVE  [Next]_vars
<1>1. CASE SaveTop(d)
  BY <1>1 DEF SaveTop, Next
<1>2. CASE SaveReply(d)
  <2>1. reader[d].thread \in CrawledIds
    BY <1>2 DEF SaveReply, Noted, ReaderState
  <2>2. \E i \in CrawledIds, likes \in Count : CrawlReply(i, reader[d].thread, likes, FALSE)
    BY <1>2 DEF SaveReply
  <2> QED
    BY <2>1, <2>2 DEF Next
<1>3. CASE ~ SaveTop(d) /\ ~ SaveReply(d)
  BY <1>3 DEF ReadStep, Stays, StartRead, CountTop, AskMarker, CrawlAnswers, SaveEnds,
              TryThrows, Mark, List, AnswerEmpty, ReadDies
<1> QED
  BY <1>1, <1>2, <1>3

LEMMA ReadStepNoted ==
    ASSUME Noted, NEW d \in Readers, ReadStep(d)
    PROVE  Noted'
<1>1. /\ reader \in [Readers -> ReaderState] /\ marker \in BOOLEAN /\ tried \in BOOLEAN
      /\ tried => marker
      /\ reader[d].shown => TopLevel(comment) # {}
      /\ reader[d].pc \in {"marker", "crawl", "save", "mark", "markEmpty", "empty"}
             => ~ reader[d].shown
      /\ reader[d].late => tried
      /\ reader[d].pc = "crawl" => ~ reader[d].late
  BY DEF Noted
<1>2. CASE StartRead(d)
  <2> DEFINE new == [pc |-> "count", thread |-> NoParent,
                     shown |-> TopLevel(comment) # {}, late |-> tried]
  <2>1. /\ TopLevel(comment)' = TopLevel(comment) /\ marker' = marker /\ tried' = tried
        /\ reader' = [reader EXCEPT ![d] = new]
    BY <1>2 DEF StartRead, Stays, vars, TopLevel
  <2>2. /\ new \in ReaderState /\ new.pc = "count"
        /\ new.shown => TopLevel(comment) # {}
        /\ new.late => tried
    BY <1>1 DEF ReaderState, Points
  <2> HIDE DEF new
  <2> QED
    BY <2>1, <2>2 DEF Noted
<1>3. CASE CountTop(d)
  BY <1>1, <1>3, ReaderMoves DEF CountTop, Points
<1>4. CASE AskMarker(d)
  BY <1>1, <1>4, ReaderMoves DEF AskMarker, At, Points
<1>5. CASE CrawlAnswers(d)
  BY <1>1, <1>5, ReaderMoves DEF CrawlAnswers, At, Points
<1>6. CASE SaveTop(d)
  <2>1. PICK i \in CrawledIds : reader' = Watched([reader EXCEPT ![d].thread = i])
    BY <1>6 DEF SaveTop
  <2> DEFINE readers == [reader EXCEPT ![d].thread = i]
  <2>2. /\ readers \in [Readers -> ReaderState]
        /\ \A e \in Readers : /\ readers[e].pc = reader[e].pc
                              /\ readers[e].shown = reader[e].shown
                              /\ readers[e].late = reader[e].late
    BY <1>1 DEF ReaderState
  <2> HIDE DEF readers
  <2>3. reader' = Watched(readers) /\ UNCHANGED <<marker, tried>>
    BY <1>6, <2>1 DEF SaveTop, readers
  <2> QED
    BY <2>2, <2>3, TablesWatched
<1>7. CASE SaveReply(d)
  BY <1>1, <1>7, TablesWatched DEF SaveReply
<1>8. CASE SaveEnds(d)
  BY <1>1, <1>8, ReaderMoves DEF SaveEnds, At, Points
<1>9. CASE TryThrows(d)
  BY <1>1, <1>9, ReaderMoves DEF TryThrows, At, Points
<1>10. CASE Mark(d)
  <2> DEFINE pc == IF At(d, "mark") THEN "list" ELSE "empty"
  <2>1. /\ pc \in {"list", "empty"} /\ ReaderGoes(d, pc) /\ Stays
        /\ ~ reader[d].shown /\ marker' = TRUE /\ tried' = TRUE
    BY <1>1, <1>10 DEF Mark, At
  <2> HIDE DEF pc
  <2> QED
    BY <2>1, ReaderMoves DEF Points
<1>11. CASE List(d)
  <2>1. CASE TopLevel(comment) = {}
    BY <1>1, <1>11, <2>1, ReaderMoves DEF List, Points
  <2>2. CASE TopLevel(comment) # {}
    BY <1>11, <2>2, ReaderStops DEF List
  <2> QED
    BY <2>1, <2>2
<1>12. CASE AnswerEmpty(d) \/ ReadDies(d)
  BY <1>12, ReaderStops DEF AnswerEmpty, ReadDies
<1> QED
  BY <1>2, <1>3, <1>4, <1>5, <1>6, <1>7, <1>8, <1>9, <1>10, <1>11, <1>12 DEF ReadStep

LEMMA ReadNextNoted ==
    ASSUME Noted, [ReadNext]_readVars
    PROVE  Noted' /\ [Next]_vars
<1>1. reader \in [Readers -> ReaderState]
  BY DEF Noted
<1>2. CASE UNCHANGED readVars
  BY <1>2 DEF readVars, Noted, vars, TopLevel
<1>3. CASE TableStep
  BY <1>1, <1>3, TablesWatched DEF TableStep
<1>4. CASE \E d \in Readers : ReadStep(d)
  BY <1>4, ReadStepNoted, ReadStepOfTables
<1>5. CASE Expire
  <2>1. TopLevel(comment)' = TopLevel(comment)
    BY <1>5 DEF Expire, Stays, vars, TopLevel
  <2>2. /\ reader' = [d \in Readers |-> [reader[d] EXCEPT !.late = FALSE]]
        /\ marker' = FALSE /\ tried' = FALSE
    BY <1>5 DEF Expire
  <2>3. reader' \in [Readers -> ReaderState]
        /\ \A d \in Readers : /\ reader'[d].pc = reader[d].pc
                              /\ reader'[d].shown = reader[d].shown
                              /\ ~ reader'[d].late
    BY <1>1, <2>2 DEF ReaderState
  <2>4. Noted'
    BY <2>1, <2>2, <2>3 DEF Noted
  <2> QED
    BY <1>5, <2>4 DEF Expire, Stays
<1> QED
  BY <1>2, <1>3, <1>4, <1>5 DEF ReadNext

\* The readers' bookkeeping holds always, whatever is written meanwhile.
THEOREM ReadersInvariant == ReadSpec => []Noted
<1>1. ReadInit => Noted
  <2>1. NoReader \in ReaderState /\ NoReader.pc = "idle" /\ ~ NoReader.shown /\ ~ NoReader.late
    BY DEF NoReader, ReaderState, Points
  <2> QED
    BY <2>1 DEF ReadInit, Noted
<1>2. Noted /\ [ReadNext]_readVars => Noted'
  BY ReadNextNoted
<1> QED
  BY <1>1, <1>2, PTL DEF ReadSpec

\* Readers write to the tables nothing that a crawl does not write: all that is
\* proved of CommentThreads holds with them, too.
THEOREM ReadersRefineThreads == ReadSpec => Spec
<1>1. ReadInit => Init
  BY DEF ReadInit
<1>2. Noted /\ [ReadNext]_readVars => [Next]_vars
  BY ReadNextNoted
<1> QED
  BY <1>1, <1>2, ReadersInvariant, PTL DEF ReadSpec, Spec

\* No reader of a video that has comments all along is answered with none,
\* whoever adds, removes or crawls comments during the call.
THEOREM ReadersAreShown == ReadSpec => []ShownWhenThere
<1>1. Noted => ShownWhenThere
  BY DEF Noted, ShownWhenThere, At
<1> QED
  BY <1>1, ReadersInvariant, PTL

\* However many readers there are, after one's crawl has ended none that comes
\* crawls again until the marker expires.
THEOREM ReadersAreSpaced == ReadSpec => []CrawlsAreSpaced
<1>1. Noted => CrawlsAreSpaced
  BY DEF Noted, CrawlsAreSpaced, At
<1> QED
  BY <1>1, ReadersInvariant, PTL

\* Readers who crawl and save leave nothing dangling, either.
THEOREM ReadersLeaveNothingDangling == ReadSpec => []NothingDangles
BY ReadersRefineThreads, NothingIsLeftDangling, PTL
=============================================================================
