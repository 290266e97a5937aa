--------------------------- MODULE SessionsProofs ---------------------------
(* Theorems about Sessions: its type invariant, the session cap, and that no *)
(* session outlives a logout-all, for any number of users, devices, requests *)
(* and sessions.                                                             *)
EXTENDS Sessions, FiniteSetTheorems, SequenceTheorems, TLAPS

\* What a request holds refers to rows that exist; what it is about to revoke
\* or bar is the user's, or was signed.
Refers(r) ==
    /\ request[r].pc \in {"cap", "evict", "user", "reuse", "expire", "rotate", "end"}
          => request[r].session \in DOMAIN session
    /\ At(r, "evict") => /\ request[r].doomed \subseteq DOMAIN session
                         /\ IsFiniteSet(request[r].doomed)
    /\ request[r].pc \in {"end", "bar"} => request[r].bar \subseteq access

RequestsRefer == \A r \in Requests : Refers(r)

IInv == TypeOK /\ RequestsRefer

-----------------------------------------------------------------------------
\* What a request holds at each of its steps.
LEMMA Shape ==
    ASSUME NEW q \in RequestState
    PROVE  /\ q.pc \in {"idle", "insert", "cap", "evict", "user", "reuse",
                        "expire", "rotate", "end", "bar", "all"}
           /\ q.pc = "insert" => q.user \in Users /\ q.device \in Devices /\ q.version \in Nat
           /\ q.pc = "cap" => q.user \in Users /\ q.version \in Nat /\ q.session \in Nat
           /\ q.pc = "evict" => /\ q.user \in Users /\ q.version \in Nat
                                /\ q.session \in Nat /\ q.doomed \subseteq Nat
           /\ q.pc = "user" => q.session \in Nat /\ q.shown \in Nat /\ q.match \in BOOLEAN
           /\ q.pc = "reuse" => q.session \in Nat /\ q.shown \in Nat
           /\ q.pc = "expire" => q.session \in Nat
           /\ q.pc = "rotate" => q.session \in Nat /\ q.version \in Nat
           /\ q.pc = "end" => q.session \in Nat /\ q.bar \subseteq AccessToken
           /\ q.pc = "bar" => q.bar \subseteq AccessToken
           /\ q.pc = "all" => q.user \in Users /\ q.version \in Nat
  BY DEF RequestState, Idle

\* The states a request goes on to are states of a request.
LEMMA Shapes ==
    /\ Idle \in RequestState
    /\ \A u \in Users, d \in Devices, v \in Nat :
          [pc |-> "insert", user |-> u, device |-> d, version |-> v] \in RequestState
    /\ \A u \in Users, v \in Nat, s \in Nat :
          [pc |-> "cap", user |-> u, version |-> v, session |-> s] \in RequestState
    /\ \A u \in Users, v \in Nat, s \in Nat, D \in SUBSET Nat :
          [pc |-> "evict", user |-> u, version |-> v, session |-> s, doomed |-> D]
             \in RequestState
    /\ \A s \in Nat, t \in Nat, m \in BOOLEAN :
          [pc |-> "user", session |-> s, shown |-> t, match |-> m] \in RequestState
    /\ \A s \in Nat, t \in Nat :
          [pc |-> "reuse", session |-> s, shown |-> t] \in RequestState
    /\ \A s \in Nat : [pc |-> "expire", session |-> s] \in RequestState
    /\ \A s \in Nat, v \in Nat :
          [pc |-> "rotate", session |-> s, version |-> v] \in RequestState
    /\ \A s \in Nat, B \in SUBSET AccessToken :
          [pc |-> "end", session |-> s, bar |-> B] \in RequestState
    /\ \A B \in SUBSET AccessToken : [pc |-> "bar", bar |-> B] \in RequestState
    /\ \A u \in Users, v \in Nat :
          [pc |-> "all", user |-> u, version |-> v] \in RequestState
  BY DEF RequestState

\* Writing a status leaves everything else of every row alone.
LEMMA StatusIsSet ==
    ASSUME session \in Seq(SessionRecord), NEW S,
           NEW st \in {"ACTIVE", "REVOKED", "EXPIRED"}, SetStatus(S, st)
    PROVE  /\ session' \in Seq(SessionRecord)
           /\ DOMAIN session' = DOMAIN session
           /\ \A s \in DOMAIN session :
                 /\ session'[s].user = session[s].user
                 /\ session'[s].born = session[s].born
                 /\ session'[s].status = IF s \in S THEN st ELSE session[s].status
<1>1. DOMAIN session = 1..Len(session) /\ Len(session) \in Nat
  OBVIOUS
<1>2. \A s \in DOMAIN session : session[s] \in SessionRecord
  OBVIOUS
<1>3. \A s \in DOMAIN session :
         session'[s] = IF s \in S THEN [session[s] EXCEPT !.status = st]
                                  ELSE session[s]
  BY DEF SetStatus
<1>4. \A s \in DOMAIN session : session'[s] \in SessionRecord
  BY <1>2, <1>3 DEF SessionRecord
<1>5. session' \in [1..Len(session) -> SessionRecord]
  BY <1>1, <1>4 DEF SetStatus
<1>6. session' \in Seq(SessionRecord)
  BY <1>1, <1>5, SeqDef
<1> QED
  BY <1>2, <1>3, <1>6 DEF SetStatus, SessionRecord

\* So does a rotation, but for the token.
LEMMA TokenIsRotated ==
    ASSUME session \in Seq(SessionRecord), NEW m \in DOMAIN session,
           session' = [session EXCEPT ![m].token = @ + 1]
    PROVE  /\ session' \in Seq(SessionRecord)
           /\ DOMAIN session' = DOMAIN session
           /\ \A s \in DOMAIN session :
                 /\ session'[s].user = session[s].user
                 /\ session'[s].born = session[s].born
                 /\ session'[s].status = session[s].status
<1>1. DOMAIN session = 1..Len(session) /\ Len(session) \in Nat
  OBVIOUS
<1>2. \A s \in DOMAIN session : session[s] \in SessionRecord
  OBVIOUS
<1>3. \A s \in DOMAIN session :
         session'[s] = IF s = m THEN [session[s] EXCEPT !.token = session[s].token + 1]
                                ELSE session[s]
  OBVIOUS
<1>4. \A s \in DOMAIN session : session'[s] \in SessionRecord
  <2> DEFINE old == session[m]
             new == [old EXCEPT !.token = old.token + 1]
  <2>1. old \in SessionRecord
    BY <1>2
  <2>2. old.token + 1 \in Nat
    BY <2>1 DEF SessionRecord
  <2>3. new \in SessionRecord
    BY <2>1, <2>2 DEF SessionRecord
  <2> QED
    BY <1>2, <1>3, <2>3
<1>5. session' \in [1..Len(session) -> SessionRecord]
  BY <1>1, <1>4
<1>6. session' \in Seq(SessionRecord)
  BY <1>1, <1>5, SeqDef
<1> QED
  BY <1>2, <1>3, <1>6 DEF SessionRecord

\* A new row comes after all the others.
LEMMA RowIsAppended ==
    ASSUME session \in Seq(SessionRecord), NEW row \in SessionRecord,
           session' = Append(session, row)
    PROVE  /\ session' \in Seq(SessionRecord)
           /\ DOMAIN session' = DOMAIN session \cup {Len(session) + 1}
           /\ Len(session) + 1 \notin DOMAIN session
           /\ \A s \in DOMAIN session : session'[s] = session[s]
           /\ session'[Len(session) + 1] = row
  OBVIOUS

-----------------------------------------------------------------------------
\* When one request goes on and nothing that others refer to disappears, it is
\* enough to look at what that request refers to.
LEMMA OthersRefer ==
    ASSUME request \in [Requests -> RequestState], RequestsRefer,
           NEW r \in Requests, NEW q \in RequestState, Goes(r, q),
           DOMAIN session \subseteq DOMAIN session', access \subseteq access',
           q.pc \in {"cap", "evict", "user", "reuse", "expire", "rotate", "end"}
              => q.session \in DOMAIN session',
           q.pc = "evict" => /\ q.doomed \subseteq DOMAIN session'
                             /\ IsFiniteSet(q.doomed),
           q.pc \in {"end", "bar"} => q.bar \subseteq access'
    PROVE  request' \in [Requests -> RequestState] /\ RequestsRefer'
<1>1. request' \in [Requests -> RequestState]
  BY DEF Goes
<1>2. \A p \in Requests : request'[p] = IF p = r THEN q ELSE request[p]
  BY DEF Goes
<1>3. ASSUME NEW p \in Requests PROVE Refers(p)'
  <2>1. CASE p = r
    BY <1>2, <2>1 DEF Refers, At
  <2>2. CASE p # r
    BY <1>2, <2>2 DEF RequestsRefer, Refers, At
  <2> QED
    BY <2>1, <2>2
<1> QED
  BY <1>1, <1>3 DEF RequestsRefer

\* A signed token names a row that exists.
LEMMA SignedRefers ==
    ASSUME TypeOK, NEW s \in DOMAIN session', NEW v \in Nat, NEW n \in Nat,
           Sign(s, v, n), DOMAIN session \subseteq DOMAIN session',
           s \in Nat
    PROVE  /\ access' \subseteq {a \in AccessToken : a.session \in DOMAIN session'}
           /\ access \subseteq access'
<1> DEFINE new == [session |-> s, version |-> v, token |-> n]
<1>1. new \in AccessToken /\ new.session \in DOMAIN session'
  BY DEF AccessToken
<1>2. access' = access \cup {new}
  BY DEF Sign
<1>3. \A a \in access : a \in AccessToken /\ a.session \in DOMAIN session'
  BY DEF TypeOK
<1> QED
  BY <1>1, <1>2, <1>3

LEMMA ActiveIsFinite ==
    ASSUME session \in Seq(SessionRecord), NEW u
    PROVE  Active(u) \subseteq DOMAIN session /\ IsFiniteSet(Active(u))
<1>1. DOMAIN session = 1..Len(session) /\ Len(session) \in Nat
  OBVIOUS
<1>2. IsFiniteSet(1..Len(session))
  BY <1>1, FS_Interval
<1>3. Active(u) \subseteq DOMAIN session
  BY DEF Active
<1> QED
  BY <1>1, <1>2, <1>3, FS_Subset

LEMMA NextIInv == IInv /\ [Next]_vars => IInv'
<1> SUFFICES ASSUME IInv, [Next]_vars PROVE IInv'
  OBVIOUS
<1> USE DEF IInv
<1>0. /\ DOMAIN session = 1..Len(session) /\ Len(session) \in Nat
      /\ \A s \in DOMAIN session : session[s] \in SessionRecord /\ s \in Nat
      /\ \A a \in access : /\ a \in AccessToken /\ a.session \in DOMAIN session
                           /\ session[a.session].user \in Users
  <2>1. /\ DOMAIN session = 1..Len(session) /\ Len(session) \in Nat
        /\ \A s \in DOMAIN session : session[s] \in SessionRecord
    BY DEF TypeOK
  <2>2. \A s \in DOMAIN session : s \in Nat /\ session[s].user \in Users
    BY <2>1 DEF SessionRecord
  <2>3. \A a \in access : a \in AccessToken /\ a.session \in DOMAIN session
    BY DEF TypeOK
  <2> QED
    BY <2>1, <2>2, <2>3
<1>1. ASSUME NEW r \in Requests, Arrives(r) PROVE IInv'
  <2>1. ASSUME NEW u \in Users, NEW d \in Devices, StartLogin(r, u, d) PROVE IInv'
    <3> DEFINE q == [pc |-> "insert", user |-> u, device |-> d, version |-> version[u]]
    <3>1. q \in RequestState /\ Goes(r, q) /\ q.pc = "insert"
      BY <2>1, Shapes DEF StartLogin, TypeOK
    <3> HIDE DEF q
    <3>2. request' \in [Requests -> RequestState] /\ RequestsRefer'
      BY <2>1, <3>1, OthersRefer DEF StartLogin, TypeOK
    <3> QED
      BY <2>1, <3>2 DEF StartLogin, TypeOK
  <2>2. ASSUME NEW a \in access, StartRefresh(r, a) PROVE IInv'
    <3>1. PICK m \in DOMAIN session : Goes(r, [pc |-> "user", session |-> m, shown |-> a.session,
                         match |-> m = a.session /\ session[m].token = a.token])
      BY <2>2 DEF StartRefresh, ActiveOn
    <3> DEFINE q == [pc |-> "user", session |-> m, shown |-> a.session,
                     match |-> m = a.session /\ session[m].token = a.token]
    <3>2. q \in RequestState /\ Goes(r, q) /\ q.pc = "user" /\ q.session = m
      BY <1>0, <3>1, Shapes DEF AccessToken
    <3> HIDE DEF q
    <3>3. request' \in [Requests -> RequestState] /\ RequestsRefer'
      BY <2>2, <3>2, OthersRefer DEF StartRefresh, TypeOK
    <3> QED
      BY <2>2, <3>3 DEF StartRefresh, TypeOK
  <2>3. ASSUME NEW a \in access, StartLogout(r, a) PROVE IInv'
    <3> DEFINE q == [pc |-> "end", session |-> a.session, bar |-> {a}]
    <3>1. /\ q \in RequestState /\ Goes(r, q) /\ q.pc = "end" /\ q.bar \subseteq access
          /\ q.session = a.session
      BY <1>0, <2>3, Shapes DEF StartLogout
    <3> HIDE DEF q
    <3>2. request' \in [Requests -> RequestState] /\ RequestsRefer'
      BY <1>0, <2>3, <3>1, OthersRefer DEF StartLogout, TypeOK
    <3> QED
      BY <2>3, <3>2 DEF StartLogout, TypeOK
  <2>4. ASSUME NEW a \in access, StartLogoutAll(r, a) PROVE IInv'
    <3> DEFINE u == session[a.session].user
               q == [pc |-> "all", user |-> u, version |-> version[u]]
    <3>1. q \in RequestState /\ Goes(r, q) /\ q.pc = "all"
      BY <1>0, <2>4, Shapes DEF StartLogoutAll, TypeOK
    <3> HIDE DEF q
    <3>2. request' \in [Requests -> RequestState] /\ RequestsRefer'
      BY <2>4, <3>1, OthersRefer DEF StartLogoutAll, TypeOK
    <3> QED
      BY <2>4, <3>2 DEF StartLogoutAll, TypeOK
  <2>5. ASSUME NEW a \in access, NEW s \in DOMAIN session, StartRevoke(r, a, s)
        PROVE IInv'
    <3> DEFINE q == [pc |-> "end", session |-> s, bar |-> {}]
    <3>1. /\ q \in RequestState /\ Goes(r, q) /\ q.pc = "end" /\ q.bar = {}
          /\ q.session = s
      BY <1>0, <2>5, Shapes DEF StartRevoke
    <3> HIDE DEF q
    <3>2. request' \in [Requests -> RequestState] /\ RequestsRefer'
      BY <2>5, <3>1, OthersRefer DEF StartRevoke, TypeOK
    <3> QED
      BY <2>5, <3>2 DEF StartRevoke, TypeOK
  <2> QED
    BY <1>1, <2>1, <2>2, <2>3, <2>4, <2>5 DEF Arrives
<1>2. ASSUME NEW r \in Requests, InsertSession(r) PROVE IInv'
  <2> DEFINE u == request[r].user
             row == [user |-> u, device |-> request[r].device, born |-> version[u],
                     token |-> 0, status |-> "ACTIVE"]
             q == [pc |-> "cap", user |-> u, version |-> request[r].version,
                   session |-> Len(session) + 1]
  <2>1. u \in Users /\ request[r].device \in Devices /\ request[r].version \in Nat
    BY <1>2, Shape DEF InsertSession, At, TypeOK
  <2>2. row \in SessionRecord /\ session' = Append(session, row)
    BY <1>2, <2>1 DEF InsertSession, SessionRecord, TypeOK
  <2>3. /\ q \in RequestState /\ Goes(r, q) /\ q.pc = "cap"
        /\ q.session = Len(session) + 1
    BY <1>0, <1>2, <2>1, Shapes DEF InsertSession
  <2> HIDE DEF row, q
  <2>4. /\ session' \in Seq(SessionRecord)
        /\ DOMAIN session' = DOMAIN session \cup {Len(session) + 1}
    BY <2>2, RowIsAppended DEF TypeOK
  <2>5. access' = access /\ barred' = barred /\ version' = version
    BY <1>2 DEF InsertSession
  <2>6. request' \in [Requests -> RequestState] /\ RequestsRefer'
    BY <2>3, <2>4, <2>5, OthersRefer DEF TypeOK
  <2> QED
    BY <2>4, <2>5, <2>6 DEF TypeOK
<1>3. ASSUME NEW r \in Requests, CapRead(r) PROVE IInv'
  <2> DEFINE p == request[r]
             active == Active(p.user)
  <2>1. /\ p.user \in Users /\ p.version \in Nat /\ p.session \in DOMAIN session
    BY <1>3, Shape DEF CapRead, At, TypeOK, RequestsRefer, Refers
  <2>2. active \subseteq DOMAIN session /\ IsFiniteSet(active)
    BY ActiveIsFinite DEF TypeOK
  <2>3. CASE Sign(p.session, p.version, 0) /\ Goes(r, Idle)
    <3>1. UNCHANGED <<session, version, barred>>
      BY <1>3 DEF CapRead
    <3>2. /\ access' \subseteq {a \in AccessToken : a.session \in DOMAIN session'}
          /\ access \subseteq access'
      BY <1>0, <2>1, <2>3, <3>1, SignedRefers
    <3>3. Idle \in RequestState /\ Idle.pc = "idle"
      BY Shapes DEF Idle
    <3>4. request' \in [Requests -> RequestState] /\ RequestsRefer'
      BY <2>3, <3>1, <3>2, <3>3, OthersRefer DEF TypeOK
    <3> QED
      BY <3>1, <3>2, <3>4 DEF TypeOK
  <2>4. ASSUME NEW kept \in SUBSET active,
               Goes(r, [pc |-> "evict", user |-> p.user, version |-> p.version,
                        session |-> p.session, doomed |-> active \ kept]),
               UNCHANGED <<session, version, access, barred>>
        PROVE  IInv'
    <3> DEFINE q == [pc |-> "evict", user |-> p.user, version |-> p.version,
                     session |-> p.session, doomed |-> active \ kept]
    <3>1. active \ kept \in SUBSET Nat /\ IsFiniteSet(active \ kept)
      BY <1>0, <2>2, FS_Difference
    <3>2. /\ q \in RequestState /\ Goes(r, q) /\ q.pc = "evict"
          /\ q.session \in DOMAIN session /\ q.doomed \subseteq DOMAIN session
          /\ IsFiniteSet(q.doomed)
      BY <1>0, <2>1, <2>2, <2>4, <3>1, Shapes
    <3> HIDE DEF q
    <3>3. request' \in [Requests -> RequestState] /\ RequestsRefer'
      BY <2>4, <3>2, OthersRefer DEF TypeOK
    <3> QED
      BY <2>4, <3>3 DEF TypeOK
  <2> QED
    BY <1>3, <2>3, <2>4 DEF CapRead
<1>4. ASSUME NEW r \in Requests, Evict(r) PROVE IInv'
  <2> DEFINE p == request[r]
  <2>1. p.version \in Nat /\ p.session \in DOMAIN session
    BY <1>4, Shape DEF Evict, At, TypeOK, RequestsRefer, Refers
  <2>2. session' \in Seq(SessionRecord) /\ DOMAIN session' = DOMAIN session
    BY <1>4, StatusIsSet DEF Evict, TypeOK
  <2>3. /\ access' \subseteq {a \in AccessToken : a.session \in DOMAIN session'}
        /\ access \subseteq access'
    BY <1>0, <1>4, <2>1, <2>2, SignedRefers DEF Evict
  <2>4. Idle \in RequestState /\ Idle.pc = "idle"
    BY Shapes DEF Idle
  <2>5. request' \in [Requests -> RequestState] /\ RequestsRefer'
    BY <1>4, <2>2, <2>3, <2>4, OthersRefer DEF TypeOK, Evict
  <2> QED
    BY <1>4, <2>2, <2>3, <2>5 DEF TypeOK, Evict
<1>5. ASSUME NEW r \in Requests, ReadUser(r) PROVE IInv'
  <2> DEFINE m == request[r].session
  <2>1. m \in DOMAIN session /\ m \in Nat
    BY <1>0, <1>5 DEF ReadUser, At, RequestsRefer, Refers
  <2>2. session[m].user \in Users /\ version[session[m].user] \in Nat
    BY <1>0, <2>1 DEF TypeOK, SessionRecord
  <2>3. UNCHANGED <<session, version, access, barred>>
    BY <1>5 DEF ReadUser
  <2>4. ASSUME NEW q \in RequestState, Goes(r, q),
               q.pc \in {"idle", "reuse", "expire", "rotate"},
               q.pc = "idle" \/ q.session = m
        PROVE  IInv'
    <3>1. request' \in [Requests -> RequestState] /\ RequestsRefer'
      BY <2>1, <2>3, <2>4, OthersRefer DEF TypeOK
    <3> QED
      BY <2>3, <3>1 DEF TypeOK
  <2>5. CASE Goes(r, [pc |-> "reuse", session |-> m, shown |-> request[r].shown])
    <3>1. request[r].shown \in Nat
      BY <1>5, Shape DEF ReadUser, At, TypeOK
    <3>2. [pc |-> "reuse", session |-> m, shown |-> request[r].shown] \in RequestState
      BY <2>1, <3>1, Shapes
    <3> QED
      BY <2>4, <2>5, <3>2
  <2>6. CASE Goes(r, [pc |-> "expire", session |-> m])
    BY <2>1, <2>4, <2>6, Shapes
  <2>7. CASE Goes(r, [pc |-> "rotate", session |-> m, version |-> version[session[m].user]])
    BY <2>1, <2>2, <2>4, <2>7, Shapes
  <2>8. CASE Goes(r, Idle)
    BY <2>4, <2>8, Shapes DEF Idle
  <2> QED
    BY <1>5, <2>5, <2>6, <2>7, <2>8 DEF ReadUser
<1>6. ASSUME NEW r \in Requests,
             \/ RevokeFamily(r) \/ Expire(r)
             \/ EndSession(r)
      PROVE  IInv'
  <2>1. session' \in Seq(SessionRecord) /\ DOMAIN session' = DOMAIN session
    BY <1>6, StatusIsSet DEF RevokeFamily, Expire, EndSession, TypeOK
  <2>2. UNCHANGED <<version, access, barred>>
    BY <1>6 DEF RevokeFamily, Expire, EndSession
  <2>3. CASE Goes(r, Idle)
    <3>1. Idle \in RequestState /\ Idle.pc = "idle"
      BY Shapes DEF Idle
    <3>2. request' \in [Requests -> RequestState] /\ RequestsRefer'
      BY <2>1, <2>2, <2>3, <3>1, OthersRefer DEF TypeOK
    <3> QED
      BY <2>1, <2>2, <3>2 DEF TypeOK
  <2>4. CASE EndSession(r) /\ Goes(r, [pc |-> "bar", bar |-> request[r].bar])
    <3> DEFINE q == [pc |-> "bar", bar |-> request[r].bar]
    <3>1. request[r].bar \subseteq access
      BY <2>4 DEF EndSession, At, RequestsRefer, Refers
    <3>2. q \in RequestState /\ q.pc = "bar" /\ q.bar \subseteq access' /\ Goes(r, q)
      BY <1>0, <2>2, <2>4, <3>1, Shapes
    <3> HIDE DEF q
    <3>3. request' \in [Requests -> RequestState] /\ RequestsRefer'
      BY <2>1, <2>2, <3>2, OthersRefer DEF TypeOK
    <3> QED
      BY <2>1, <2>2, <3>3 DEF TypeOK
  <2> QED
    BY <1>6, <2>3, <2>4 DEF RevokeFamily, Expire, EndSession
<1>7. ASSUME NEW r \in Requests, Rotate(r) PROVE IInv'
  <2> DEFINE m == request[r].session
  <2>1. m \in DOMAIN session /\ m \in Nat /\ request[r].version \in Nat
    BY <1>0, <1>7, Shape DEF Rotate, At, TypeOK, RequestsRefer, Refers
  <2>2. session[m].token + 1 \in Nat
    BY <1>0, <2>1 DEF SessionRecord
  <2>3. session' \in Seq(SessionRecord) /\ DOMAIN session' = DOMAIN session
    BY <1>7, <2>1, TokenIsRotated DEF Rotate, TypeOK
  <2>4. /\ access' \subseteq {a \in AccessToken : a.session \in DOMAIN session'}
        /\ access \subseteq access'
    BY <1>7, <2>1, <2>2, <2>3, SignedRefers DEF Rotate
  <2>5. Idle \in RequestState /\ Idle.pc = "idle"
    BY Shapes DEF Idle
  <2>6. request' \in [Requests -> RequestState] /\ RequestsRefer'
    BY <1>7, <2>3, <2>4, <2>5, OthersRefer DEF TypeOK, Rotate
  <2> QED
    BY <1>7, <2>3, <2>4, <2>6 DEF TypeOK, Rotate
<1>8. ASSUME NEW r \in Requests, Bar(r) PROVE IInv'
  <2>1. request[r].bar \subseteq access
    BY <1>8 DEF Bar, At, RequestsRefer, Refers
  <2>2. Idle \in RequestState /\ Idle.pc = "idle"
    BY Shapes DEF Idle
  <2>3. request' \in [Requests -> RequestState] /\ RequestsRefer'
    BY <1>8, <2>2, OthersRefer DEF TypeOK, Bar
  <2> QED
    BY <1>8, <2>1, <2>3 DEF TypeOK, Bar
<1>9. ASSUME NEW r \in Requests, LogoutAll(r) PROVE IInv'
  <2>1. session' \in Seq(SessionRecord) /\ DOMAIN session' = DOMAIN session
    BY <1>9, StatusIsSet DEF LogoutAll, TypeOK
  <2> DEFINE u == request[r].user
  <2>2. version' \in [Users -> Nat] /\ UNCHANGED <<access, barred>>
    <3>1. u \in Users
      BY <1>9, Shape DEF LogoutAll, At, TypeOK
    <3>2. version \in [Users -> Nat] /\ version' = [version EXCEPT ![u] = @ + 1]
      BY <1>9 DEF LogoutAll, TypeOK
    <3>3. version[u] + 1 \in Nat
      BY <3>1, <3>2
    <3> QED
      BY <1>9, <3>1, <3>2, <3>3 DEF LogoutAll
  <2>3. Idle \in RequestState /\ Idle.pc = "idle"
    BY Shapes DEF Idle
  <2>4. request' \in [Requests -> RequestState] /\ RequestsRefer'
    BY <1>9, <2>1, <2>2, <2>3, OthersRefer DEF TypeOK, LogoutAll
  <2> QED
    BY <2>1, <2>2, <2>4 DEF TypeOK
<1>10. CASE UNCHANGED vars
  BY <1>10 DEF vars, TypeOK, RequestsRefer, Refers, At
<1> QED
  BY <1>1, <1>2, <1>3, <1>4, <1>5, <1>6, <1>7, <1>8, <1>9, <1>10 DEF Next, GoesOn

\* What holds of every request, row and token from the start.
LEMMA InitIInv == Init => IInv
<1> SUFFICES ASSUME Init PROVE IInv
  OBVIOUS
<1>1. session \in Seq(SessionRecord) /\ version \in [Users -> Nat]
  BY DEF Init
<1>2. access = {} /\ barred = {}
  BY DEF Init
<1>3. request \in [Requests -> RequestState] /\ RequestsRefer
  BY Shapes DEF Init, RequestsRefer, Refers, At, Idle
<1> QED
  BY <1>1, <1>2, <1>3 DEF IInv, TypeOK

LEMMA Invariant == Spec => []IInv
  BY InitIInv, NextIInv, PTL DEF Spec

\* TypeOK of Sessions: what a request, a row or a token may hold, and that a
\* token in the hands of a client names a row of auth_sessions.
THEOREM SessionsTypeOK == Spec => []TypeOK
<1>1. IInv => TypeOK
  BY DEF IInv
<1> QED
  BY <1>1, Invariant, PTL

-----------------------------------------------------------------------------
\* No step takes a row away, gives it to another user or brings it back to
\* life; only a login adds one, and only a logout-all changes a version.
LEMMA RowsAreKept ==
    ASSUME IInv, [Next]_vars
    PROVE  /\ \A s \in DOMAIN session :
                 /\ s \in DOMAIN session'
                 /\ session'[s].user = session[s].user
                 /\ session'[s].born = session[s].born
                 /\ IsActive(s)' => IsActive(s)
           /\ \/ \E r \in Requests : InsertSession(r)
              \/ DOMAIN session' = DOMAIN session
           /\ (\E r \in Requests : LogoutAll(r)) \/ version' = version
<1> USE DEF IInv, TypeOK, IsActive
<1>1. CASE UNCHANGED <<session, version>>
  BY <1>1
<1>2. ASSUME NEW r \in Requests, InsertSession(r)
      PROVE  /\ version' = version
             /\ \A s \in DOMAIN session : s \in DOMAIN session' /\ session'[s] = session[s]
  <2> DEFINE u == request[r].user
             row == [user |-> u, device |-> request[r].device, born |-> version[u],
                     token |-> 0, status |-> "ACTIVE"]
  <2>1. u \in Users /\ request[r].device \in Devices
    BY <1>2, Shape DEF InsertSession, At
  <2>2. row \in SessionRecord /\ session' = Append(session, row)
    BY <1>2, <2>1 DEF InsertSession, SessionRecord
  <2> HIDE DEF row
  <2> QED
    BY <1>2, <2>2, RowIsAppended DEF InsertSession
<1>3. ASSUME NEW S, NEW st \in {"REVOKED", "EXPIRED"}, SetStatus(S, st)
      PROVE  /\ DOMAIN session' = DOMAIN session
             /\ \A s \in DOMAIN session :
                   /\ session'[s].user = session[s].user
                   /\ session'[s].born = session[s].born
                   /\ IsActive(s)' => IsActive(s)
  BY <1>3, StatusIsSet
<1>4. ASSUME NEW r \in Requests,
             \/ Evict(r) \/ RevokeFamily(r) \/ Expire(r) \/ EndSession(r)
      PROVE  /\ version' = version
             /\ DOMAIN session' = DOMAIN session
             /\ \A s \in DOMAIN session :
                   /\ session'[s].user = session[s].user
                   /\ session'[s].born = session[s].born
                   /\ IsActive(s)' => IsActive(s)
  <2>1. version' = version
    BY <1>4 DEF Evict, RevokeFamily, Expire, EndSession
  <2>2. CASE Evict(r)
    BY <1>3, <2>1, <2>2 DEF Evict
  <2>3. CASE RevokeFamily(r)
    BY <1>3, <2>1, <2>3 DEF RevokeFamily
  <2>4. CASE Expire(r)
    BY <1>3, <2>1, <2>4 DEF Expire
  <2>5. CASE EndSession(r)
    BY <1>3, <2>1, <2>5 DEF EndSession
  <2> QED
    BY <1>4, <2>2, <2>3, <2>4, <2>5
<1>5. ASSUME NEW r \in Requests, Rotate(r)
      PROVE  /\ version' = version
             /\ DOMAIN session' = DOMAIN session
             /\ \A s \in DOMAIN session :
                   /\ session'[s].user = session[s].user
                   /\ session'[s].born = session[s].born
                   /\ IsActive(s)' => IsActive(s)
  <2>1. request[r].session \in DOMAIN session
    BY <1>5 DEF Rotate, At, RequestsRefer, Refers
  <2> QED
    BY <1>5, <2>1, TokenIsRotated DEF Rotate
<1>6. ASSUME NEW r \in Requests, LogoutAll(r)
      PROVE  SetStatus(Active(request[r].user), "REVOKED")
  BY <1>6 DEF LogoutAll
<1>7. ASSUME NEW r \in Requests, CapRead(r) \/ ReadUser(r) \/ Bar(r) \/ Arrives(r)
      PROVE  UNCHANGED <<session, version>>
  BY <1>7 DEF CapRead, ReadUser, Bar, Arrives, StartLogin, StartRefresh, StartLogout,
              StartLogoutAll, StartRevoke
<1>8. UNCHANGED vars => UNCHANGED <<session, version>>
  BY DEF vars
<1> QED
  <2>1. CASE \E r \in Requests : InsertSession(r)
    BY <1>2, <2>1
  <2>2. CASE \E r \in Requests : Evict(r) \/ RevokeFamily(r) \/ Expire(r) \/ EndSession(r)
    BY <1>4, <2>2
  <2>3. CASE \E r \in Requests : Rotate(r)
    BY <1>5, <2>3
  <2>4. CASE \E r \in Requests : LogoutAll(r)
    BY <1>3, <1>6, <2>4
  <2>5. CASE \E r \in Requests : CapRead(r) \/ ReadUser(r) \/ Bar(r) \/ Arrives(r)
    BY <1>1, <1>7, <2>5
  <2>6. CASE UNCHANGED vars
    BY <1>1, <1>8, <2>6
  <2> QED
    BY <2>1, <2>2, <2>3, <2>4, <2>5, <2>6 DEF Next, GoesOn

-----------------------------------------------------------------------------
LEMMA NextActiveIsOfThisVersion ==
    ASSUME IInv, ActiveIsOfThisVersion, [Next]_vars
    PROVE  ActiveIsOfThisVersion'
<1> USE DEF IInv, TypeOK, ActiveIsOfThisVersion, IsActive
<1>1. CASE \E r \in Requests : InsertSession(r)
  <2> PICK r \in Requests : InsertSession(r)
    BY <1>1
  <2> DEFINE u == request[r].user
             row == [user |-> u, device |-> request[r].device, born |-> version[u],
                     token |-> 0, status |-> "ACTIVE"]
  <2>1. u \in Users /\ request[r].device \in Devices
    BY Shape DEF InsertSession, At
  <2>2. row \in SessionRecord /\ session' = Append(session, row) /\ version' = version
    BY <2>1 DEF InsertSession, SessionRecord
  <2>3. row.born = version[row.user]
    OBVIOUS
  <2> HIDE DEF row
  <2>4. /\ DOMAIN session' = DOMAIN session \cup {Len(session) + 1}
        /\ \A s \in DOMAIN session : session'[s] = session[s]
        /\ session'[Len(session) + 1] = row
    BY <2>2, RowIsAppended
  <2> QED
    BY <2>2, <2>3, <2>4
<1>2. CASE \E r \in Requests : LogoutAll(r)
  <2> PICK r \in Requests : LogoutAll(r)
    BY <1>2
  <2> DEFINE u == request[r].user
  <2>1. SetStatus(Active(u), "REVOKED") /\ version' = [version EXCEPT ![u] = @ + 1]
    BY DEF LogoutAll
  <2>2. /\ DOMAIN session' = DOMAIN session
        /\ \A s \in DOMAIN session :
              /\ session'[s].user = session[s].user
              /\ session'[s].born = session[s].born
              /\ session'[s].status = IF s \in Active(u) THEN "REVOKED" ELSE session[s].status
    BY <2>1, StatusIsSet
  <2>3. ASSUME NEW s \in DOMAIN session', IsActive(s)'
        PROVE  session'[s].born = version'[session'[s].user]
    <3>1. s \in DOMAIN session /\ s \notin Active(u) /\ IsActive(s)
      BY <2>2, <2>3
    <3>2. session[s].user # u
      BY <3>1 DEF Active
    <3>3. session[s] \in SessionRecord
      BY <3>1
    <3>4. version'[session[s].user] = version[session[s].user]
      BY <2>1, <3>2, <3>3 DEF SessionRecord
    <3> QED
      BY <2>2, <3>1, <3>4
  <2> QED
    BY <2>3
<1>3. CASE DOMAIN session' = DOMAIN session /\ version' = version
  BY <1>3, RowsAreKept
<1> QED
  BY <1>1, <1>2, <1>3, RowsAreKept

\* logoutAll and changePassword raise the version and revoke the sessions in one
\* transaction, and nothing revives a session: one that is active was created
\* since, whatever refresh or logout was under way.
THEOREM SessionsVersion == Spec => []ActiveIsOfThisVersion
<1>1. Init => ActiveIsOfThisVersion
  BY DEF Init, ActiveIsOfThisVersion
<1>2. IInv /\ ActiveIsOfThisVersion /\ [Next]_vars => ActiveIsOfThisVersion'
  BY NextActiveIsOfThisVersion
<1> QED
  BY <1>1, <1>2, Invariant, PTL DEF Spec

-----------------------------------------------------------------------------
Newer(u, s) == {t \in DOMAIN session : session[t].user = u /\ t > s}

\* Of requests at one of these steps, only the one that moves changes, and it
\* comes to "cap" by an insert and to "evict" by a read of the list.
LEMMA OthersStay ==
    ASSUME IInv, [Next]_vars, NEW r \in Requests
    PROVE  /\ At(r, "cap")' => request'[r] = request[r] \/ InsertSession(r)
           /\ At(r, "evict")' => request'[r] = request[r] \/ CapRead(r)
<1>0. request \in [Requests -> RequestState]
  BY DEF IInv, TypeOK
<1>1. ASSUME NEW p \in Requests, NEW q, Goes(p, q), q.pc \notin {"cap", "evict"}
      PROVE  /\ At(r, "cap")' => request'[r] = request[r]
             /\ At(r, "evict")' => request'[r] = request[r]
  BY <1>0, <1>1 DEF Goes, At
<1>2. ASSUME NEW p \in Requests, Arrives(p)
      PROVE  \E q : Goes(p, q) /\ q.pc \notin {"cap", "evict"}
  <2>1. ASSUME NEW u \in Users, NEW d \in Devices, StartLogin(p, u, d)
        PROVE  \E q : Goes(p, q) /\ q.pc \notin {"cap", "evict"}
    BY <2>1 DEF StartLogin
  <2>2. ASSUME NEW a \in access, StartRefresh(p, a)
        PROVE  \E q : Goes(p, q) /\ q.pc \notin {"cap", "evict"}
    BY <2>2 DEF StartRefresh
  <2>3. ASSUME NEW a \in access, StartLogout(p, a)
        PROVE  \E q : Goes(p, q) /\ q.pc \notin {"cap", "evict"}
    BY <2>3 DEF StartLogout
  <2>4. ASSUME NEW a \in access, StartLogoutAll(p, a)
        PROVE  \E q : Goes(p, q) /\ q.pc \notin {"cap", "evict"}
    BY <2>4 DEF StartLogoutAll
  <2>5. ASSUME NEW a \in access, NEW s \in DOMAIN session, StartRevoke(p, a, s)
        PROVE  \E q : Goes(p, q) /\ q.pc \notin {"cap", "evict"}
    BY <2>5 DEF StartRevoke
  <2> QED
    BY <1>2, <2>1, <2>2, <2>3, <2>4, <2>5 DEF Arrives
<1>3. ASSUME NEW p \in Requests, ReadUser(p)
      PROVE  \E q : Goes(p, q) /\ q.pc \notin {"cap", "evict"}
  BY <1>3 DEF ReadUser, Idle
<1>4. ASSUME NEW p \in Requests, EndSession(p)
      PROVE  \E q : Goes(p, q) /\ q.pc \notin {"cap", "evict"}
  BY <1>4 DEF EndSession, Idle
<1>5. ASSUME NEW p \in Requests,
             \/ Evict(p) \/ RevokeFamily(p) \/ Expire(p) \/ Rotate(p)
             \/ Bar(p) \/ LogoutAll(p)
      PROVE  Goes(p, Idle) /\ Idle.pc \notin {"cap", "evict"}
  BY <1>5 DEF Evict, RevokeFamily, Expire, Rotate, Bar, LogoutAll, Idle
<1>6. ASSUME NEW p \in Requests, InsertSession(p) \/ CapRead(p), p # r
      PROVE  request'[r] = request[r]
  BY <1>0, <1>6 DEF InsertSession, CapRead, Goes
<1>7. ASSUME InsertSession(r)
      PROVE  ~ At(r, "evict")'
  BY <1>0, <1>7 DEF InsertSession, Goes, At
<1>8. ASSUME CapRead(r)
      PROVE  ~ At(r, "cap")'
  BY <1>0, <1>8 DEF CapRead, Goes, At, Idle
<1>9. CASE UNCHANGED vars
  BY <1>9 DEF vars
<1> QED
  BY <1>1, <1>2, <1>3, <1>4, <1>5, <1>6, <1>7, <1>8, <1>9 DEF Next, GoesOn

\* A login leaves "cap" and "evict" by its own next statement only.
LEMMA MovesOn ==
    ASSUME IInv, [Next]_vars, NEW r \in Requests
    PROVE  /\ At(r, "cap") => request'[r] = request[r] \/ CapRead(r)
           /\ At(r, "evict") => request'[r] = request[r] \/ Evict(r)
<1>0. request \in [Requests -> RequestState]
  BY DEF IInv, TypeOK
<1>1. ASSUME NEW p \in Requests, Arrives(p) \/ GoesOn(p), p # r
      PROVE  request'[r] = request[r]
  <2>1. \E q : Goes(p, q)
    BY <1>1 DEF Arrives, GoesOn, StartLogin, StartRefresh, StartLogout, StartLogoutAll,
       StartRevoke, InsertSession, CapRead, Evict, ReadUser, RevokeFamily, Expire,
       Rotate, EndSession, Bar, LogoutAll
  <2> QED
    BY <1>0, <1>1, <2>1 DEF Goes
<1>2. ASSUME Arrives(r)
      PROVE  At(r, "idle")
  BY <1>2 DEF Arrives, StartLogin, StartRefresh, StartLogout, StartLogoutAll, StartRevoke
<1>3. ASSUME GoesOn(r)
      PROVE  /\ At(r, "cap") => CapRead(r)
             /\ At(r, "evict") => Evict(r)
  BY <1>3 DEF GoesOn, At, InsertSession, CapRead, Evict, ReadUser, RevokeFamily, Expire,
     Rotate, EndSession, Bar, LogoutAll
<1>4. CASE UNCHANGED vars
  BY <1>4 DEF vars
<1> QED
  BY <1>1, <1>2, <1>3, <1>4 DEF Next, At

LEMMA NextEvictsOldest ==
    ASSUME IInv, EvictsOldest, [Next]_vars
    PROVE  EvictsOldest'
<1> SUFFICES ASSUME NEW r \in Requests, At(r, "evict")', NEW s \in request'[r].doomed,
                    NEW u, u = request'[r].user
             PROVE  Cardinality(Newer(u, s)') >= Cap
  BY DEF EvictsOldest, Newer
<1>1. session' \in Seq(SessionRecord)
  BY NextIInv DEF IInv, TypeOK
<1>2. IsFiniteSet(Newer(u, s)')
  <2>1. DOMAIN session' = 1..Len(session') /\ Len(session') \in Nat
    BY <1>1
  <2>2. IsFiniteSet(1..Len(session'))
    BY <2>1, FS_Interval
  <2>3. Newer(u, s)' \subseteq 1..Len(session')
    BY <2>1 DEF Newer
  <2> QED
    BY <2>2, <2>3, FS_Subset
<1> USE SessionsAssumption DEF IInv, TypeOK
<1>3. Newer(u, s) \subseteq Newer(u, s)'
  BY RowsAreKept DEF Newer
<1>4. IsFiniteSet(Newer(u, s)) /\ Cardinality(Newer(u, s)) <= Cardinality(Newer(u, s)')
  BY <1>2, <1>3, FS_Subset
<1>5. Cardinality(Newer(u, s)) \in Nat /\ Cardinality(Newer(u, s)') \in Nat
  BY <1>2, <1>4, FS_CardinalityType
<1>6. CASE request'[r] = request[r]
  <2>1. Cardinality(Newer(u, s)) >= Cap
    BY <1>6 DEF EvictsOldest, At, Newer
  <2> QED
    BY <1>4, <1>5, <2>1
<1>7. CASE CapRead(r)
  <2> DEFINE active == Active(request[r].user)
  <2>1. PICK kept \in SUBSET active :
           /\ Spares(active, kept)
           /\ Goes(r, [pc |-> "evict", user |-> request[r].user,
                       version |-> request[r].version, session |-> request[r].session,
                       doomed |-> active \ kept])
    <3>1. request' # [request EXCEPT ![r] = Idle]
      BY DEF At, Idle
    <3> QED
      BY <1>7, <3>1 DEF CapRead, Goes
  <2>2. u = request[r].user /\ s \in active \ kept
    BY <2>1 DEF Goes
  <2>3. kept \subseteq Newer(u, s)
    BY <2>1, <2>2 DEF Spares, Newer, Active
  <2>4. Cardinality(kept) = Cap
    BY <2>1 DEF Spares
  <2>5. Cardinality(kept) <= Cardinality(Newer(u, s))
    BY <1>4, <2>3, FS_Subset
  <2> QED
    BY <1>4, <1>5, <2>4, <2>5
<1> QED
  BY <1>6, <1>7, OthersStay

\* A login takes a session away only for the sake of Cap newer ones of the user,
\* whatever happens to the list between its read and its write.
THEOREM SessionsEvictOldest == Spec => []EvictsOldest
<1>1. Init => EvictsOldest
  BY DEF Init, EvictsOldest, At, Idle
<1>2. IInv /\ EvictsOldest /\ [Next]_vars => EvictsOldest'
  BY NextEvictsOldest
<1> QED
  BY <1>1, <1>2, Invariant, PTL DEF Spec

-----------------------------------------------------------------------------
\* The sessions of u that no login is about to revoke.  Once no login of u has
\* its read of the list before it, there are no more of them than the cap: the
\* last one to read saw them all.
Sure(u) == {s \in Active(u) : \A r \in Requests :
               At(r, "evict") /\ request[r].user = u => s \notin request[r].doomed}
Unread(u) == \E r \in Requests : At(r, "cap") /\ request[r].user = u

CapInv == \A u \in Users : Unread(u) \/ Cardinality(Sure(u)) <= Cap

LEMMA SureShrinks ==
    ASSUME IInv, NEW u, Cardinality(Sure(u)) <= Cap, Sure(u)' \subseteq Sure(u)
    PROVE  Cardinality(Sure(u)') <= Cap
<1>1. IsFiniteSet(Active(u)) /\ Sure(u) \subseteq Active(u)
  BY ActiveIsFinite DEF IInv, TypeOK, Sure
<1>2. IsFiniteSet(Sure(u))
  BY <1>1, FS_Subset
<1>3. IsFiniteSet(Sure(u)') /\ Cardinality(Sure(u)') <= Cardinality(Sure(u))
  BY <1>2, FS_Subset
<1>4. Cardinality(Sure(u)) \in Nat /\ Cardinality(Sure(u)') \in Nat
  BY <1>2, <1>3, FS_CardinalityType
<1> QED
  BY <1>3, <1>4, SessionsAssumption

LEMMA NextCapInv ==
    ASSUME IInv, CapInv, [Next]_vars
    PROVE  CapInv'
<1> USE SessionsAssumption DEF IInv, TypeOK
<1> SUFFICES ASSUME NEW u \in Users, ~ Unread(u)'
             PROVE  Cardinality(Sure(u)') <= Cap
  BY DEF CapInv
<1>0. request \in [Requests -> RequestState]
  OBVIOUS
\* A login that inserts has the list to read.
<1>1. \A r \in Requests : InsertSession(r) => request[r].user # u
  BY <1>0 DEF InsertSession, Goes, Unread, At
\* So no row is new among the active ones of u.
<1>2. Active(u)' \subseteq Active(u)
  <2>1. CASE DOMAIN session' = DOMAIN session
    BY <2>1, RowsAreKept DEF Active
  <2>2. ASSUME NEW r \in Requests, InsertSession(r) PROVE Active(u)' \subseteq Active(u)
    <3> DEFINE v == request[r].user
               row == [user |-> v, device |-> request[r].device, born |-> version[v],
                       token |-> 0, status |-> "ACTIVE"]
    <3>1. v \in Users /\ request[r].device \in Devices
      BY <2>2, Shape DEF InsertSession, At
    <3>2. row \in SessionRecord /\ session' = Append(session, row) /\ row.user # u
      BY <1>1, <2>2, <3>1 DEF InsertSession, SessionRecord
    <3> HIDE DEF row
    <3>3. /\ DOMAIN session' = DOMAIN session \cup {Len(session) + 1}
          /\ \A s \in DOMAIN session : session'[s] = session[s]
          /\ session'[Len(session) + 1].user # u
      BY <3>2, RowIsAppended
    <3> QED
      BY <3>3 DEF Active, IsActive
  <2> QED
    BY <2>1, <2>2, RowsAreKept
<1>3. CASE \E r \in Requests : CapRead(r) /\ request[r].user = u
  <2> PICK r \in Requests : CapRead(r) /\ request[r].user = u
    BY <1>3
  <2>1. IsFiniteSet(Active(u))
    BY ActiveIsFinite
  <2>2. Cardinality(Active(u)) \in Nat
    BY <2>1, FS_CardinalityType
  <2>3. CASE Cardinality(Active(u)) <= Cap
    <3>1. Sure(u)' \subseteq Active(u)
      BY <1>2 DEF Sure
    <3>2. IsFiniteSet(Sure(u)') /\ Cardinality(Sure(u)') <= Cardinality(Active(u))
      BY <2>1, <3>1, FS_Subset
    <3>3. Cardinality(Sure(u)') \in Nat
      BY <3>2, FS_CardinalityType
    <3> QED
      BY <2>2, <2>3, <3>2, <3>3
  <2>4. CASE ~ Cardinality(Active(u)) <= Cap
    <3>1. PICK kept \in SUBSET Active(u) :
             /\ Spares(Active(u), kept)
             /\ Goes(r, [pc |-> "evict", user |-> u,
                         version |-> request[r].version, session |-> request[r].session,
                         doomed |-> Active(u) \ kept])
      BY <2>4 DEF CapRead
    <3>2. /\ request'[r].pc = "evict" /\ request'[r].user = u
          /\ request'[r].doomed = Active(u) \ kept
      BY <1>0, <3>1 DEF Goes
    <3>3. Sure(u)' \subseteq kept
      BY <1>2, <3>2 DEF Sure, At
    <3>4. IsFiniteSet(kept) /\ Cardinality(kept) = Cap
      BY <2>1, <3>1, FS_Subset DEF Spares
    <3> QED
      BY <3>3, <3>4, FS_Subset
  <2> QED
    BY <2>3, <2>4
<1>4. CASE ~ \E r \in Requests : CapRead(r) /\ request[r].user = u
  \* The reads that are due stay due, and what is doomed is either still doomed
  \* or revoked.
  <2>1. ~ Unread(u)
    <3> SUFFICES ASSUME NEW r \in Requests, At(r, "cap"), request[r].user = u
                 PROVE  request'[r] = request[r]
      BY DEF Unread, At
    <3> QED
      BY <1>4, MovesOn
  <2>2. Cardinality(Sure(u)) <= Cap
    BY <2>1 DEF CapInv
  <2>3. Sure(u)' \subseteq Sure(u)
    <3> SUFFICES ASSUME NEW s \in Sure(u)', NEW r \in Requests,
                        At(r, "evict"), request[r].user = u
                 PROVE  s \notin request[r].doomed
      BY <1>2 DEF Sure
    <3>1. CASE request'[r] = request[r]
      BY <3>1 DEF Sure, At
    <3>2. CASE Evict(r)
      <4>1. s \in Active(u)' /\ s \in DOMAIN session
        BY <1>2 DEF Sure, Active
      <4>2. s \in request[r].doomed => session'[s].status = "REVOKED"
        BY <3>2, <4>1, StatusIsSet DEF Evict
      <4> QED
        BY <4>1, <4>2 DEF Active, IsActive
    <3> QED
      BY <3>1, <3>2, MovesOn
  <2> QED
    BY <2>2, <2>3, SureShrinks
<1> QED
  BY <1>3, <1>4

\* The session cap, for any number of logins at once: when the logins of a user
\* are through, he has no more than Cap active sessions.
THEOREM SessionsCap == Spec => []CapAtRest
<1>1. Init => CapInv
  <2> SUFFICES ASSUME Init, NEW u \in Users PROVE Cardinality(Sure(u)) <= Cap
    BY DEF CapInv
  <2>1. Sure(u) = {}
    BY DEF Init, Sure, Active
  <2> QED
    BY <2>1, FS_EmptySet, SessionsAssumption
<1>2. IInv /\ CapInv /\ [Next]_vars => CapInv'
  BY NextCapInv
<1>3. IInv /\ CapInv => CapAtRest
  <2> SUFFICES ASSUME CapInv, NEW u \in Users, LoggingIn(u) = {}
               PROVE  Cardinality(Active(u)) <= Cap
    BY DEF CapAtRest
  <2>1. ~ Unread(u) /\ Sure(u) = Active(u)
    BY DEF LoggingIn, Unread, Sure, At
  <2> QED
    BY <2>1 DEF CapInv
<1> QED
  BY <1>1, <1>2, <1>3, Invariant, PTL DEF Spec

-----------------------------------------------------------------------------
\* No token, signed or about to be, is ahead of its user's version.
Behind(r) ==
    /\ request[r].pc \in {"insert", "cap", "evict"}
          => request[r].version <= version[request[r].user]
    /\ request[r].pc \in {"cap", "evict"}
          => session[request[r].session].user = request[r].user
    /\ At(r, "rotate")
          => request[r].version <= version[session[request[r].session].user]

TokensBehind == \A a \in access : a.version <= version[session[a.session].user]
NotAhead == TokensBehind /\ \A r \in Requests : Behind(r)

LEMMA VersionsGrow ==
    ASSUME IInv, [Next]_vars
    PROVE  \A u \in Users : /\ version[u] \in Nat /\ version'[u] \in Nat
                            /\ version[u] <= version'[u]
<1>1. version \in [Users -> Nat]
  BY DEF IInv, TypeOK
<1>2. CASE version' = version
  BY <1>1, <1>2
<1>3. ASSUME NEW r \in Requests, LogoutAll(r)
      PROVE  \A u \in Users : version'[u] \in Nat /\ version[u] <= version'[u]
  BY <1>1, <1>3 DEF LogoutAll
<1> QED
  BY <1>1, <1>2, <1>3, RowsAreKept

\* A request that stays where it is stays behind.
LEMMA StaysBehind ==
    ASSUME IInv, [Next]_vars, NEW r \in Requests, Behind(r), request'[r] = request[r]
    PROVE  Behind(r)'
<1> DEFINE q == request[r]
<1>0. q \in RequestState /\ \A s \in DOMAIN session : session[s].user \in Users
  <2>1. \A s \in DOMAIN session : session[s] \in SessionRecord
    BY DEF IInv, TypeOK
  <2> QED
    BY <2>1 DEF IInv, TypeOK, SessionRecord
<1>1. /\ q.pc \in {"insert", "cap", "evict"} => q.user \in Users /\ q.version \in Nat
      /\ q.pc = "rotate" => q.version \in Nat
  BY <1>0, Shape
<1>2. q.pc \in {"cap", "evict", "rotate"} => q.session \in DOMAIN session
  BY DEF IInv, RequestsRefer, Refers
<1>3. q.pc \in {"insert", "cap", "evict"} => q.version <= version'[q.user]
  BY <1>1, VersionsGrow DEF Behind
<1>4. q.pc \in {"cap", "evict"} => session'[q.session].user = q.user
  BY <1>2, RowsAreKept DEF Behind
<1>5. q.pc = "rotate" => q.version <= version'[session'[q.session].user]
  <2> SUFFICES ASSUME q.pc = "rotate" PROVE q.version <= version'[session'[q.session].user]
    OBVIOUS
  <2> DEFINE u == session[q.session].user
  <2>1. u \in Users /\ session'[q.session].user = u
    BY <1>0, <1>2, RowsAreKept
  <2>2. q.version <= version[u] /\ q.version \in Nat
    BY <1>1 DEF Behind, At
  <2> QED
    BY <2>1, <2>2, VersionsGrow
<1> QED
  BY <1>3, <1>4, <1>5 DEF Behind, At

\* Nor does a token that is signed get ahead later.
LEMMA TokensStayBehind ==
    ASSUME IInv, NotAhead, [Next]_vars
    PROVE  \A a \in access : a.version <= version'[session'[a.session].user]
<1> SUFFICES ASSUME NEW a \in access
             PROVE  a.version <= version'[session'[a.session].user]
  OBVIOUS
<1>1. a.version \in Nat /\ a.session \in DOMAIN session
  BY DEF IInv, TypeOK, AccessToken
<1>2. session[a.session] \in SessionRecord
  BY <1>1 DEF IInv, TypeOK
<1>3. session[a.session].user \in Users
  BY <1>2 DEF SessionRecord
<1>4. a.version <= version[session[a.session].user]
  BY DEF NotAhead, TokensBehind
<1> QED
  BY <1>1, <1>3, <1>4, RowsAreKept, VersionsGrow

\* What an answer signs was read before, so it is behind too.
LEMMA SignedBehind ==
    ASSUME IInv, NotAhead, [Next]_vars, NEW r \in Requests,
           CapRead(r) \/ Evict(r) \/ Rotate(r)
    PROVE  TokensBehind'
<1> DEFINE s == request[r].session
           v == request[r].version
<1>1. s \in DOMAIN session
  BY DEF IInv, RequestsRefer, Refers, CapRead, Evict, Rotate, At
<1>2. v \in Nat
  BY Shape DEF IInv, TypeOK, CapRead, Evict, Rotate, At
<1>3. session[s] \in SessionRecord
  BY <1>1 DEF IInv, TypeOK
<1>4. session[s].user \in Users
  BY <1>3 DEF SessionRecord
<1>5. v <= version[session[s].user]
  BY DEF NotAhead, Behind, CapRead, Evict, Rotate, At
<1>6. v <= version'[session'[s].user]
  BY <1>1, <1>2, <1>4, <1>5, RowsAreKept, VersionsGrow
<1>7. access' = access \/ \E n : Sign(s, v, n)
  BY DEF CapRead, Evict, Rotate
<1> QED
  BY <1>6, <1>7, TokensStayBehind DEF TokensBehind, Sign

LEMMA NextNotAhead ==
    ASSUME IInv, NotAhead, [Next]_vars
    PROVE  NotAhead'
<1>0. /\ request \in [Requests -> RequestState] /\ version \in [Users -> Nat]
      /\ \A r \in Requests : Behind(r)
  BY DEF IInv, TypeOK, NotAhead
<1>1. \A u \in Users : version[u] \in Nat
  BY <1>0
<1>2. ASSUME NEW r \in Requests, NEW q, Goes(r, q),
             q.pc \notin {"insert", "cap", "evict", "rotate"}
      PROVE  \A p \in Requests : Behind(p)'
  <2> SUFFICES ASSUME NEW p \in Requests PROVE Behind(p)'
    OBVIOUS
  <2>1. CASE p = r
    BY <1>0, <1>2, <2>1 DEF Behind, Goes, At
  <2>2. CASE p # r
    BY <1>0, <1>2, <2>2, StaysBehind DEF Goes
  <2> QED
    BY <2>1, <2>2
<1>3. ASSUME NEW r \in Requests, NEW q, Goes(r, q), Behind(r)'
      PROVE  \A p \in Requests : Behind(p)'
  BY <1>0, <1>3, StaysBehind DEF Goes
<1>4. ASSUME NEW r \in Requests, Arrives(r) PROVE NotAhead'
  <2>1. TokensBehind'
    <3>1. access' = access
      BY <1>4 DEF Arrives, StartLogin, StartRefresh, StartLogout, StartLogoutAll, StartRevoke
    <3> QED
      BY <3>1, TokensStayBehind DEF TokensBehind
  <2>2. CASE \E u \in Users, d \in Devices : StartLogin(r, u, d)
    <3> PICK u \in Users, d \in Devices : StartLogin(r, u, d)
      BY <2>2
    <3>1. /\ request'[r].pc = "insert" /\ request'[r].user = u
          /\ request'[r].version = version[u] /\ version' = version
      BY <1>0 DEF StartLogin, Goes
    <3>2. Behind(r)'
      BY <1>1, <3>1 DEF Behind, At
    <3> QED
      BY <1>3, <2>1, <3>2 DEF StartLogin, NotAhead
  <2>3. CASE \E a \in access : \/ StartRefresh(r, a) \/ StartLogout(r, a)
                              \/ StartLogoutAll(r, a)
                              \/ \E s \in DOMAIN session : StartRevoke(r, a, s)
    <3> DEFINE Moves == \E q : Goes(r, q) /\ q.pc \notin {"insert", "cap", "evict", "rotate"}
    <3>1. ASSUME NEW a \in access, StartRefresh(r, a) PROVE Moves
      BY <3>1 DEF StartRefresh
    <3>2. ASSUME NEW a \in access, StartLogout(r, a) PROVE Moves
      BY <3>2 DEF StartLogout
    <3>3. ASSUME NEW a \in access, StartLogoutAll(r, a) PROVE Moves
      BY <3>3 DEF StartLogoutAll
    <3>4. ASSUME NEW a \in access, NEW s \in DOMAIN session, StartRevoke(r, a, s)
          PROVE  Moves
      BY <3>4 DEF StartRevoke
    <3> QED
      BY <1>2, <2>1, <2>3, <3>1, <3>2, <3>3, <3>4 DEF NotAhead
  <2> QED
    BY <1>4, <2>2, <2>3 DEF Arrives
<1>5. ASSUME NEW r \in Requests, InsertSession(r) PROVE NotAhead'
  <2> DEFINE u == request[r].user
             row == [user |-> u, device |-> request[r].device, born |-> version[u],
                     token |-> 0, status |-> "ACTIVE"]
  <2>1. u \in Users /\ request[r].device \in Devices
    BY <1>0, <1>5, Shape DEF InsertSession, At
  <2>2. row \in SessionRecord /\ session' = Append(session, row) /\ row.user = u
    BY <1>1, <1>5, <2>1 DEF InsertSession, SessionRecord
  <2> HIDE DEF row
  <2>3. session'[Len(session) + 1].user = u
    BY <2>2, RowIsAppended DEF IInv, TypeOK
  <2>4. /\ request'[r].pc = "cap" /\ request'[r].user = u
        /\ request'[r].version = request[r].version
        /\ request'[r].session = Len(session) + 1
        /\ version' = version /\ access' = access
    BY <1>0, <1>5 DEF InsertSession, Goes
  <2>5. request[r].version <= version[u]
    BY <1>0, <1>5 DEF Behind, InsertSession, At
  <2>6. Behind(r)'
    BY <2>3, <2>4, <2>5 DEF Behind, At
  <2> QED
    BY <1>3, <1>5, <2>4, <2>6, TokensStayBehind DEF InsertSession, NotAhead, TokensBehind
<1>6. ASSUME NEW r \in Requests, CapRead(r) PROVE NotAhead'
  <2>1. TokensBehind'
    BY <1>6, SignedBehind
  <2>2. CASE Goes(r, Idle)
    BY <1>2, <2>1, <2>2 DEF NotAhead, Idle
  <2>3. CASE ~ Goes(r, Idle)
    <3>1. /\ request'[r].pc = "evict" /\ request'[r].user = request[r].user
          /\ request'[r].version = request[r].version
          /\ request'[r].session = request[r].session
          /\ version' = version /\ session' = session
      BY <1>0, <1>6, <2>3 DEF CapRead, Goes
    <3>2. Behind(r)'
      BY <1>0, <1>6, <3>1 DEF Behind, CapRead, At
    <3>3. \E q : Goes(r, q)
      BY <1>6 DEF CapRead
    <3> QED
      BY <1>3, <2>1, <3>2, <3>3 DEF NotAhead
  <2> QED
    BY <2>2, <2>3
<1>7. ASSUME NEW r \in Requests, Evict(r) \/ Rotate(r) PROVE NotAhead'
  BY <1>2, <1>7, SignedBehind DEF NotAhead, Evict, Rotate, Idle
<1>8. ASSUME NEW r \in Requests, ReadUser(r) PROVE NotAhead'
  <2> DEFINE m == request[r].session
  <2>1. session' = session /\ version' = version /\ access' = access
    BY <1>8 DEF ReadUser
  <2>2. CASE Goes(r, [pc |-> "rotate", session |-> m, version |-> version[session[m].user]])
    <3>1. m \in DOMAIN session
      BY <1>8 DEF IInv, RequestsRefer, Refers, ReadUser, At
    <3>2. session[m] \in SessionRecord
      BY <3>1 DEF IInv, TypeOK
    <3>3. version[session[m].user] \in Nat
      BY <1>1, <3>2 DEF SessionRecord
    <3>4. /\ request'[r].pc = "rotate" /\ request'[r].session = m
          /\ request'[r].version = version[session[m].user]
      BY <1>0, <2>2 DEF Goes
    <3>5. Behind(r)'
      BY <2>1, <3>3, <3>4 DEF Behind, At
    <3> QED
      BY <1>3, <2>1, <2>2, <3>5, TokensStayBehind DEF NotAhead, TokensBehind
  <2>3. CASE \E q : Goes(r, q) /\ q.pc \in {"reuse", "expire", "idle"}
    BY <1>2, <2>1, <2>3, TokensStayBehind DEF NotAhead, TokensBehind
  <2> QED
    BY <1>8, <2>2, <2>3 DEF ReadUser, Idle
<1>9. ASSUME NEW r \in Requests,
             \/ RevokeFamily(r) \/ Expire(r) \/ EndSession(r)
             \/ Bar(r) \/ LogoutAll(r)
      PROVE  NotAhead'
  <2>1. access' = access
    BY <1>9 DEF RevokeFamily, Expire, EndSession, Bar, LogoutAll
  <2>2. \E q : Goes(r, q) /\ q.pc \in {"idle", "bar"}
    BY <1>9 DEF RevokeFamily, Expire, EndSession, Bar, LogoutAll, Idle
  <2> QED
    BY <1>2, <2>1, <2>2, TokensStayBehind DEF NotAhead, TokensBehind
<1>10. CASE UNCHANGED vars
  BY <1>10 DEF vars, NotAhead, TokensBehind, Behind, At
<1> QED
  BY <1>4, <1>5, <1>6, <1>7, <1>8, <1>9, <1>10 DEF Next, GoesOn

\* A logout-all leaves "all" by its own transaction only.
LEMMA AllMovesOn ==
    ASSUME IInv, [Next]_vars, NEW r \in Requests, At(r, "all"), request'[r] # request[r]
    PROVE  LogoutAll(r)
<1>0. request \in [Requests -> RequestState]
  BY DEF IInv, TypeOK
<1>1. ASSUME NEW p \in Requests, Arrives(p) \/ GoesOn(p), p # r
      PROVE  request'[r] = request[r]
  <2>1. \E q : Goes(p, q)
    BY <1>1 DEF Arrives, GoesOn, StartLogin, StartRefresh, StartLogout, StartLogoutAll,
       StartRevoke, InsertSession, CapRead, Evict, ReadUser, RevokeFamily, Expire,
       Rotate, EndSession, Bar, LogoutAll
  <2> QED
    BY <1>0, <1>1, <2>1 DEF Goes
<1>2. ~ Arrives(r)
  BY DEF Arrives, StartLogin, StartRefresh, StartLogout, StartLogoutAll, StartRevoke, At
<1>3. GoesOn(r) => LogoutAll(r)
  BY DEF GoesOn, At, InsertSession, CapRead, Evict, ReadUser, RevokeFamily, Expire,
     Rotate, EndSession, Bar, LogoutAll
<1>4. ~ UNCHANGED vars
  BY DEF vars
<1> QED
  BY <1>1, <1>2, <1>3, <1>4 DEF Next

\* After a logout-all or a change of password no access token the user holds is
\* accepted: none was signed, or will be, ahead of the version it ends.
THEOREM SessionsLogoutAll == Spec => LogoutAllRejects
<1> DEFINE Rejects ==
       \A r \in Requests : At(r, "all") /\ request'[r] # request[r] =>
          \A a \in access : session[a.session].user = request[r].user
                               => ~ Accepted(a)'
<1>1. Init => NotAhead
  BY DEF Init, NotAhead, TokensBehind, Behind, At, Idle
<1>2. IInv /\ NotAhead /\ [Next]_vars => NotAhead'
  BY NextNotAhead
<1>3. IInv /\ NotAhead /\ [Next]_vars => [Rejects]_vars
  <2> SUFFICES ASSUME IInv, NotAhead, [Next]_vars, NEW r \in Requests, At(r, "all"),
                      request'[r] # request[r], NEW a \in access,
                      session[a.session].user = request[r].user
               PROVE  ~ Accepted(a)'
    OBVIOUS
  <2>1. LogoutAll(r)
    BY AllMovesOn
  <2> DEFINE u == request[r].user
  <2>2. u \in Users /\ version[u] \in Nat
    BY Shape DEF IInv, TypeOK, At
  <2>3. version'[u] = version[u] + 1
    BY <2>1, <2>2 DEF LogoutAll, IInv, TypeOK
  <2>4. a.version \in Nat /\ a.session \in DOMAIN session /\ a.version <= version[u]
    BY DEF IInv, TypeOK, AccessToken, NotAhead, TokensBehind
  <2>5. session'[a.session].user = u
    BY <2>4, RowsAreKept
  <2> QED
    BY <2>2, <2>3, <2>4, <2>5 DEF Accepted
<1> QED
  BY <1>1, <1>2, <1>3, Invariant, PTL DEF Spec, LogoutAllRejects
=============================================================================
