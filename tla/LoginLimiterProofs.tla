------------------------- MODULE LoginLimiterProofs -------------------------
(***************************************************************************)
(* Theorems about LoginLimiter: whatever the limits, the windows and the   *)
(* number of logins at once, neither limit is exceeded by as many failures *)
(* as logins can be under way.                                             *)
(*                                                                         *)
(* The count a login reads is old when its failure is written.  What makes *)
(* the bounds inductive is to count the logins that have been let through  *)
(* and not yet written together with the failures that are.                *)
(***************************************************************************)
EXTENDS LoginLimiter, FiniteSetTheorems, TLAPS

\* Logins let through for i whose failure is still to be recorded.
LetThrough(i) == {r \in Requests : /\ request[r].pc \in {"trim", "card", "judge"}
                                   /\ request[r].identifier = i}

\* Logins let through for ip whose failure is still to be charged to it.
Uncharged(ip) == {r \in Requests : /\ request[r].pc \in {"judge", "add", "expire"}
                                   /\ request[r].ip = ip}

Finite == /\ IsFiniteSet(attempts)
          /\ \A ip \in Ips : IsFiniteSet(landed[ip]) /\ IsFiniteSet(window[ip])

IdSlack == \A i \in Identifiers :
    Cardinality(JudgedRecently(i)) + Cardinality(LetThrough(i))
        < IdLimit + Cardinality(Requests)

IpSlack == \A ip \in Ips :
    Cardinality(LandedRecently(ip)) + Cardinality(Uncharged(ip))
        < IpLimit + Cardinality(Requests)

\* Redis keeps what has landed until its window is over.
Outlasts(ip, m) == expiry[ip] = 0 \/ expiry[ip] > m.at + IpWindow

Kept ==
    /\ \A ip \in Ips : \A m \in landed[ip] : m.at <= now
    /\ \A ip \in Ips : \A m \in LandedRecently(ip) : m \in window[ip] /\ Outlasts(ip, m)
    /\ \A r \in Requests :
          /\ request[r].pc = "trim" => request[r].since <= now - IpWindow
          /\ request[r].pc = "expire" => request[r].member.at <= now

IInv == TypeOK /\ Finite /\ IdSlack /\ IpSlack /\ Kept

-----------------------------------------------------------------------------
(* Two facts about a pair of finite sets that grow and shrink together. *)

LEMMA BothShrink ==
    ASSUME NEW N \in Nat, NEW S, NEW T, NEW S1, NEW T1,
           IsFiniteSet(S), IsFiniteSet(T), S1 \subseteq S, T1 \subseteq T,
           Cardinality(S) + Cardinality(T) < N
    PROVE  Cardinality(S1) + Cardinality(T1) < N
<1>1. /\ Cardinality(S) \in Nat /\ Cardinality(T) \in Nat
      /\ Cardinality(S1) \in Nat /\ Cardinality(T1) \in Nat
      /\ Cardinality(S1) <= Cardinality(S)
      /\ Cardinality(T1) <= Cardinality(T)
  BY FS_Subset, FS_CardinalityType
<1> QED
  BY <1>1

LEMMA OneMovesOver ==
    ASSUME NEW N \in Nat, NEW S, NEW T, NEW S1, NEW T1, NEW s, NEW t,
           IsFiniteSet(S), IsFiniteSet(T), t \in T,
           S1 \subseteq S \cup {s}, T1 \subseteq T \ {t},
           Cardinality(S) + Cardinality(T) < N
    PROVE  Cardinality(S1) + Cardinality(T1) < N
<1> DEFINE U == S \cup {s}
<1>0. IsFiniteSet(U) /\ (U = S \/ Cardinality(U) = Cardinality(S) + 1)
  BY FS_AddElement
<1> HIDE DEF U
<1>1. IsFiniteSet(U) /\ Cardinality(U) <= Cardinality(S) + 1
  BY <1>0, FS_CardinalityType
<1>2. IsFiniteSet(T \ {t}) /\ Cardinality(T \ {t}) = Cardinality(T) - 1
  BY FS_RemoveElement
<1>3. /\ Cardinality(S) \in Nat /\ Cardinality(T) \in Nat
      /\ Cardinality(S1) \in Nat /\ Cardinality(T1) \in Nat
      /\ Cardinality(U) \in Nat
      /\ Cardinality(S1) <= Cardinality(U)
      /\ Cardinality(T1) <= Cardinality(T \ {t})
  BY <1>1, <1>2, FS_Subset, FS_CardinalityType DEF U
<1> QED
  BY <1>1, <1>2, <1>3

\* What a login is let through with: fewer than Limit so far, and no more
\* logins can be on their way than there are.
LEMMA LetIn ==
    ASSUME NEW Limit \in Nat, NEW S, NEW S0, NEW T, IsFiniteSet(S0),
           IsFiniteSet(Requests), S \subseteq S0, T \subseteq Requests,
           Cardinality(S0) < Limit
    PROVE  Cardinality(S) + Cardinality(T) < Limit + Cardinality(Requests)
<1>1. /\ Cardinality(S) \in Nat /\ Cardinality(T) \in Nat
      /\ Cardinality(S0) \in Nat /\ Cardinality(Requests) \in Nat
      /\ Cardinality(S) <= Cardinality(S0)
      /\ Cardinality(T) <= Cardinality(Requests)
  BY FS_Subset, FS_CardinalityType
<1> QED
  BY <1>1

\* The sets the invariant counts are finite.
LEMMA CountedAreFinite ==
    ASSUME Finite
    PROVE  /\ \A i \in Identifiers : /\ IsFiniteSet(Failures(i))
                                     /\ IsFiniteSet(JudgedRecently(i))
                                     /\ IsFiniteSet(LetThrough(i))
           /\ \A ip \in Ips : /\ IsFiniteSet(LandedRecently(ip))
                              /\ IsFiniteSet(Uncharged(ip))
           /\ Cardinality(Requests) \in Nat
           /\ Cardinality(attempts) \in Nat
           /\ IdLimit + Cardinality(Requests) \in Nat
           /\ IpLimit + Cardinality(Requests) \in Nat
<1>1. \A i \in Identifiers : /\ Failures(i) \subseteq attempts
                             /\ JudgedRecently(i) \subseteq attempts
                             /\ LetThrough(i) \subseteq Requests
  BY DEF Failures, JudgedRecently, LetThrough
<1>2. \A ip \in Ips : LandedRecently(ip) \subseteq landed[ip]
                      /\ Uncharged(ip) \subseteq Requests
  BY DEF LandedRecently, Uncharged
<1>3. Cardinality(Requests) \in Nat /\ Cardinality(attempts) \in Nat
  BY LimiterAssumption, FS_CardinalityType DEF Finite
<1> QED
  BY <1>1, <1>2, <1>3, LimiterAssumption, FS_Subset DEF Finite

-----------------------------------------------------------------------------
(* Types. *)

LEMMA NextTypes == TypeOK /\ Finite /\ [Next]_vars => TypeOK' /\ Finite'
<1> SUFFICES ASSUME TypeOK, Finite, [Next]_vars PROVE TypeOK' /\ Finite'
  OBVIOUS
<1> USE LimiterAssumption
<1> USE DEF TypeOK
<1>0. Cardinality(attempts) \in Nat
  BY FS_CardinalityType DEF Finite
<1>1. ASSUME NEW r \in Requests, Arrive(r) PROVE TypeOK' /\ Finite'
  BY <1>1 DEF Arrive, Goes, RequestState, Finite
<1>2. ASSUME NEW r \in Requests, CountIdentifier(r) PROVE TypeOK' /\ Finite'
  <2>1. request[r].identifier \in Identifiers /\ request[r].ip \in Ips
    BY <1>2 DEF CountIdentifier, RequestState, NoRequest
  <2>2. now - IpWindow \in Int
    OBVIOUS
  <2> QED
    BY <1>2, <2>1, <2>2 DEF CountIdentifier, Goes, At, RequestState, Finite
<1>3. ASSUME NEW r \in Requests, Trim(r) PROVE TypeOK' /\ Finite'
  <2>1. request[r].identifier \in Identifiers /\ request[r].ip \in Ips
    BY <1>3 DEF Trim, RequestState, NoRequest
  <2> DEFINE ip == request[r].ip
             kept == {m \in Held(ip) : m.at > request[r].since}
  <2>2. /\ window' = [window EXCEPT ![ip] = kept]
        /\ expiry' = [expiry EXCEPT ![ip] = IF kept = {} THEN 0 ELSE @]
        /\ request' = [request EXCEPT ![r] = At(r, "card")]
        /\ UNCHANGED <<now, attempts, landed>>
    BY <1>3 DEF Trim, Goes
  <2>3. kept \subseteq window[ip]
    BY DEF Held
  <2>4. At(r, "card") \in RequestState
    BY <2>1 DEF At, RequestState
  <2>5. IsFiniteSet(kept)
    BY <2>1, <2>3, FS_Subset DEF Finite
  <2> HIDE DEF kept
  <2>6. TypeOK'
    BY <2>1, <2>2, <2>3, <2>4
  <2>7. Finite'
    BY <2>1, <2>2, <2>5 DEF Finite
  <2> QED
    BY <2>6, <2>7
<1>4. ASSUME NEW r \in Requests, CountIp(r) PROVE TypeOK' /\ Finite'
  <2>1. request[r].identifier \in Identifiers /\ request[r].ip \in Ips
    BY <1>4 DEF CountIp, RequestState, NoRequest
  <2> QED
    BY <1>4, <2>1 DEF CountIp, Goes, At, RequestState, Finite
<1>5. ASSUME NEW r \in Requests, NEW success \in BOOLEAN,
             NEW reason \in Judged \cup Refused \cup {"null"},
             request[r] # NoRequest, Record(r, success, reason)
      PROVE  attempts' \subseteq Attempt /\ IsFiniteSet(attempts')
  <2>1. request[r].identifier \in Identifiers
    BY <1>5 DEF RequestState, NoRequest
  <2> DEFINE a == [id |-> Cardinality(attempts) + 1, identifier |-> request[r].identifier,
                   success |-> success, reason |-> reason, at |-> now]
  <2>2. attempts' = attempts \cup {a}
    BY <1>5 DEF Record
  <2>3. a \in Attempt
    BY <1>0, <2>1 DEF Attempt
  <2> HIDE DEF a
  <2>4. IsFiniteSet(attempts \cup {a})
    BY FS_AddElement DEF Finite
  <2> QED
    BY <2>2, <2>3, <2>4
<1>6. ASSUME NEW r \in Requests, Refuse(r) PROVE TypeOK' /\ Finite'
  <2>1. request[r] # NoRequest
    BY <1>6 DEF Refuse, NoRequest
  <2>2. PICK reason \in Refused : Record(r, FALSE, reason)
    BY <1>6 DEF Refuse, Refused
  <2>3. attempts' \subseteq Attempt /\ IsFiniteSet(attempts')
    BY <1>5, <2>1, <2>2
  <2> QED
    BY <1>6, <2>3 DEF Refuse, Goes, RequestState, Finite
<1>7. ASSUME NEW r \in Requests, Judge(r) PROVE TypeOK' /\ Finite'
  <2>1. request[r] # NoRequest /\ request[r].identifier \in Identifiers
        /\ request[r].ip \in Ips
    BY <1>7 DEF Judge, RequestState, NoRequest
  <2>2. \E success \in BOOLEAN, reason \in Judged \cup {"null"} :
          Record(r, success, reason)
    BY <1>7 DEF Judge
  <2>3. attempts' \subseteq Attempt /\ IsFiniteSet(attempts')
    BY <1>5, <2>1, <2>2
  <2>4. request' \in [Requests -> RequestState]
    <3>1. At(r, "add") \in RequestState /\ NoRequest \in RequestState
      BY <2>1 DEF At, RequestState
    <3>2. \E state \in {NoRequest, At(r, "add")} :
             request' = [request EXCEPT ![r] = state]
      BY <1>7 DEF Judge, Goes
    <3> QED
      BY <3>1, <3>2
  <2>5. UNCHANGED <<now, window, expiry, landed>>
    BY <1>7 DEF Judge
  <2> QED
    BY <2>3, <2>4, <2>5 DEF Finite
<1>8. ASSUME NEW r \in Requests, AddMember(r) PROVE TypeOK' /\ Finite'
  <2>1. request[r].identifier \in Identifiers /\ request[r].ip \in Ips
    BY <1>8 DEF AddMember, RequestState, NoRequest
  <2> DEFINE ip == request[r].ip
             m == [by |-> r, id |-> Cardinality(attempts), at |-> now]
             state == [pc |-> "expire", identifier |-> request[r].identifier,
                       ip |-> ip, member |-> m]
  <2>2. /\ window' = [window EXCEPT ![ip] = Held(ip) \cup {m}]
        /\ expiry' = [expiry EXCEPT ![ip] = IF Held(ip) = {} THEN 0 ELSE @]
        /\ request' = [request EXCEPT ![r] = state]
        /\ UNCHANGED <<now, attempts, landed>>
    BY <1>8 DEF AddMember, Goes
  <2>3. m \in Member
    BY <1>0 DEF Member
  <2>4. Held(ip) \subseteq window[ip]
    BY DEF Held
  <2>5. state \in RequestState
    BY <2>1, <2>3 DEF RequestState
  <2> HIDE DEF m, state
  <2>6. IsFiniteSet(Held(ip) \cup {m})
    BY <2>1, <2>4, FS_Subset, FS_AddElement DEF Finite
  <2>7. Held(ip) \cup {m} \in SUBSET Member
    BY <2>1, <2>3, <2>4
  <2>8. TypeOK'
    BY <2>1, <2>2, <2>5, <2>7
  <2>9. Finite'
    BY <2>1, <2>2, <2>6 DEF Finite
  <2> QED
    BY <2>8, <2>9
<1>9. ASSUME NEW r \in Requests, SetExpiry(r) PROVE TypeOK' /\ Finite'
  <2> DEFINE p == request[r].ip
             a == request[r].member
             more == landed[p] \cup (Held(p) \cap {a})
  <2>1. p \in Ips /\ a \in Member
    BY <1>9 DEF SetExpiry, RequestState, NoRequest
  <2>2. IsFiniteSet(landed[p] \cup {a})
    BY <2>1, FS_AddElement DEF Finite
  <2>3. more \in SUBSET Member /\ IsFiniteSet(more)
    <3>1. more \subseteq landed[p] \cup {a}
      OBVIOUS
    <3> QED
      BY <2>1, <2>2, <3>1, FS_Subset
  <2>4. /\ UNCHANGED <<now, attempts, window>> /\ Goes(r, NoRequest)
        /\ \/ UNCHANGED <<expiry, landed>>
           \/ /\ expiry' = [expiry EXCEPT ![p] = now + IpWindow + 1]
              /\ landed' = [landed EXCEPT ![p] = more]
    BY <1>9 DEF SetExpiry
  <2> HIDE DEF more, a
  <2>5. TypeOK'
    BY <2>1, <2>3, <2>4 DEF Goes, RequestState
  <2>6. Finite'
    BY <2>1, <2>3, <2>4 DEF Finite
  <2> QED
    BY <2>5, <2>6
<1>10. CASE Tick
  BY <1>10 DEF Tick, Finite
<1>11. CASE Crash
  BY <1>11 DEF Crash, RequestState, Finite
<1>12. CASE UNCHANGED vars
  BY <1>12 DEF vars, Finite
<1> QED
  BY <1>1, <1>2, <1>3, <1>4, <1>6, <1>7, <1>8, <1>9, <1>10, <1>11, <1>12 DEF Next

-----------------------------------------------------------------------------
(* What the two counts look at, and who is on the way. *)

\* Only the step of r itself changes what r is counted as.
LEMMA OneRequestMoves ==
    ASSUME TypeOK, NEW r \in Requests, NEW state, Goes(r, state)
    PROVE  \A q \in Requests : request'[q] = IF q = r THEN state ELSE request[q]
BY DEF TypeOK, Goes

\* The bound on identifiers.
LEMMA NextIdSlack == TypeOK /\ Finite /\ IdSlack /\ [Next]_vars => IdSlack'
<1> SUFFICES ASSUME TypeOK, Finite, IdSlack, [Next]_vars, NEW i \in Identifiers
             PROVE  (Cardinality(JudgedRecently(i)) + Cardinality(LetThrough(i))
                        < IdLimit + Cardinality(Requests))'
  BY DEF IdSlack
<1> USE LimiterAssumption
<1>0. /\ IsFiniteSet(JudgedRecently(i)) /\ IsFiniteSet(LetThrough(i))
      /\ IsFiniteSet(Failures(i)) /\ IdLimit + Cardinality(Requests) \in Nat
      /\ Cardinality(JudgedRecently(i)) + Cardinality(LetThrough(i))
            < IdLimit + Cardinality(Requests)
  BY CountedAreFinite DEF IdSlack
<1> DEFINE Goal == Cardinality(JudgedRecently(i)') + Cardinality(LetThrough(i)')
                      < IdLimit + Cardinality(Requests)
<1>a. ASSUME JudgedRecently(i)' \subseteq JudgedRecently(i),
             LetThrough(i)' \subseteq LetThrough(i)
      PROVE  Goal
  BY <1>0, <1>a, BothShrink
<1>b. ASSUME UNCHANGED <<now, attempts>>
      PROVE  JudgedRecently(i)' = JudgedRecently(i) /\ Failures(i)' = Failures(i)
  BY <1>b DEF JudgedRecently, Failures
<1>1. ASSUME NEW r \in Requests, Arrive(r) PROVE Goal
  <2>1. JudgedRecently(i)' = JudgedRecently(i)
    BY <1>1, <1>b DEF Arrive
  <2>2. PICK state : Goes(r, state) /\ state.pc = "count"
    BY <1>1 DEF Arrive
  <2>3. LetThrough(i)' \subseteq LetThrough(i)
    BY <2>2, OneRequestMoves DEF LetThrough
  <2> QED
    BY <1>a, <2>1, <2>3
<1>2. ASSUME NEW r \in Requests, CountIdentifier(r) PROVE Goal
  <2>1. JudgedRecently(i)' = JudgedRecently(i)
    BY <1>2, <1>b DEF CountIdentifier
  <2>2. CASE request[r].identifier = i /\ Cardinality(Failures(i)) < IdLimit
    <3>1. LetThrough(i)' \subseteq Requests
      BY DEF LetThrough
    <3>2. JudgedRecently(i)' \subseteq Failures(i)
      BY <2>1 DEF JudgedRecently
    <3> QED
      BY <1>0, <2>2, <3>1, <3>2, LetIn
  <2>3. CASE request[r].identifier # i
    <3>1. PICK state : Goes(r, state) /\ state.identifier = request[r].identifier
      BY <1>2 DEF CountIdentifier, At
    <3>2. LetThrough(i)' \subseteq LetThrough(i)
      BY <2>3, <3>1, OneRequestMoves DEF LetThrough
    <3> QED
      BY <1>a, <2>1, <3>2
  <2>4. CASE request[r].identifier = i /\ Cardinality(Failures(i)) >= IdLimit
    <3>1. PICK state : Goes(r, state) /\ state.pc = "refuseId"
      BY <1>2, <2>4 DEF CountIdentifier, At
    <3>2. LetThrough(i)' \subseteq LetThrough(i)
      BY <3>1, OneRequestMoves DEF LetThrough
    <3> QED
      BY <1>a, <2>1, <3>2
  <2>5. Cardinality(Failures(i)) \in Nat
    BY <1>0, FS_CardinalityType
  <2> QED
    BY <2>2, <2>3, <2>4, <2>5
<1>3. ASSUME NEW r \in Requests, Trim(r) \/ CountIp(r) PROVE Goal
  <2>1. JudgedRecently(i)' = JudgedRecently(i)
    BY <1>3, <1>b DEF Trim, CountIp
  <2>2. PICK pc \in {"card", "judge", "refuseIp"} : Goes(r, At(r, pc))
    BY <1>3 DEF Trim, CountIp
  <2>3. request[r].pc \in {"trim", "card"}
    BY <1>3 DEF Trim, CountIp
  <2>4. LetThrough(i)' \subseteq LetThrough(i)
    BY <2>2, <2>3, OneRequestMoves DEF LetThrough, At
  <2> QED
    BY <1>a, <2>1, <2>4
<1>4. ASSUME NEW r \in Requests, Refuse(r) PROVE Goal
  <2>1. JudgedRecently(i)' \subseteq JudgedRecently(i)
    BY <1>4 DEF Refuse, Record, JudgedRecently, Failures, Judged, CountedByIp
  <2>2. LetThrough(i)' \subseteq LetThrough(i)
    BY <1>4, OneRequestMoves DEF Refuse, LetThrough, NoRequest
  <2> QED
    BY <1>a, <2>1, <2>2
<1>5. ASSUME NEW r \in Requests, Judge(r) PROVE Goal
  <2>1. request[r].pc = "judge" /\ now' = now
    BY <1>5 DEF Judge
  <2>2. PICK state \in {NoRequest, At(r, "add")}, success \in BOOLEAN,
             reason \in Judged \cup {"null"} :
             Goes(r, state) /\ Record(r, success, reason)
             /\ (success => reason = "null")
    BY <1>5 DEF Judge
  <2>3. state.pc \in {"idle", "add"}
    BY <2>2 DEF NoRequest, At
  <2>4. LetThrough(i)' \subseteq LetThrough(i) \ {r}
    BY <2>2, <2>3, OneRequestMoves DEF LetThrough
  <2>5. CASE request[r].identifier = i
    <3> DEFINE a == [id |-> Cardinality(attempts) + 1, identifier |-> request[r].identifier,
                     success |-> success, reason |-> reason, at |-> now]
    <3>1. attempts' = attempts \cup {a}
      BY <2>2 DEF Record
    <3> HIDE DEF a
    <3>2. JudgedRecently(i)' \subseteq JudgedRecently(i) \cup {a}
      BY <2>1, <3>1 DEF JudgedRecently, Failures
    <3>3. r \in LetThrough(i)
      BY <2>1, <2>5 DEF LetThrough
    <3> QED
      BY <1>0, <2>4, <3>2, <3>3, OneMovesOver
  <2>6. CASE request[r].identifier # i
    <3>1. JudgedRecently(i)' \subseteq JudgedRecently(i)
      BY <2>1, <2>2, <2>6 DEF Record, JudgedRecently, Failures
    <3> QED
      BY <1>a, <2>4, <3>1
  <2> QED
    BY <2>5, <2>6
<1>6. ASSUME NEW r \in Requests, AddMember(r) \/ SetExpiry(r) PROVE Goal
  <2>1. JudgedRecently(i)' = JudgedRecently(i)
    BY <1>6, <1>b DEF AddMember, SetExpiry
  <2>2. PICK state : Goes(r, state) /\ state.pc \in {"expire", "idle"}
    BY <1>6 DEF AddMember, SetExpiry, NoRequest
  <2>3. LetThrough(i)' \subseteq LetThrough(i)
    BY <2>2, OneRequestMoves DEF LetThrough
  <2> QED
    BY <1>a, <2>1, <2>3
<1>7. CASE Tick
  <2>1. JudgedRecently(i)' \subseteq JudgedRecently(i)
    <3>1. now' = now + 1 /\ now \in Int /\ IdWindow \in Int /\ attempts' = attempts
          /\ \A a \in attempts : a.at \in Int
      BY <1>7 DEF Tick, TypeOK, Attempt
    <3> QED
      BY <3>1 DEF JudgedRecently, Failures
  <2>2. LetThrough(i)' = LetThrough(i)
    BY <1>7 DEF Tick, LetThrough
  <2> QED
    BY <1>a, <2>1, <2>2
<1>8. CASE Crash
  <2>1. JudgedRecently(i)' = JudgedRecently(i)
    BY <1>8, <1>b DEF Crash
  <2>2. LetThrough(i)' \subseteq LetThrough(i)
    BY <1>8 DEF Crash, LetThrough, NoRequest
  <2> QED
    BY <1>a, <2>1, <2>2
<1>9. CASE UNCHANGED vars
  <2>1. JudgedRecently(i)' = JudgedRecently(i) /\ LetThrough(i)' = LetThrough(i)
    BY <1>9 DEF vars, JudgedRecently, Failures, LetThrough
  <2> QED
    BY <1>a, <2>1
<1>10. Goal
  BY <1>1, <1>2, <1>3, <1>4, <1>5, <1>6, <1>7, <1>8, <1>9 DEF Next
<1> QED
  BY <1>10

-----------------------------------------------------------------------------
(* What Redis keeps. *)

\* Until its window is over, no TTL hides a member that has landed.
LEMMA LandedIsHeld ==
    ASSUME TypeOK, Kept, NEW ip \in Ips
    PROVE  LandedRecently(ip) \subseteq Held(ip)
<1> SUFFICES ASSUME NEW m \in LandedRecently(ip) PROVE m \in Held(ip)
  OBVIOUS
<1>1. m \in window[ip] /\ (expiry[ip] = 0 \/ expiry[ip] > m.at + IpWindow)
  BY DEF Kept, Outlasts
<1>2. m.at > now - IpWindow /\ m.at \in Nat /\ now \in Nat /\ expiry[ip] \in Nat
  BY DEF LandedRecently, TypeOK, Member
<1>3. expiry[ip] = 0 \/ ~ (expiry[ip] <= now)
  BY <1>1, <1>2, LimiterAssumption
<1> QED
  BY <1>1, <1>3 DEF Held

LEMMA NextKept == TypeOK /\ Kept /\ [Next]_vars => Kept'
<1> SUFFICES ASSUME TypeOK, Kept, [Next]_vars PROVE Kept'
  OBVIOUS
<1> USE LimiterAssumption
<1>0. now \in Nat /\ IpWindow \in Nat \ {0}
  BY DEF TypeOK
\* A request that goes on by itself, and not to a trim or an add's second half.
<1>1. ASSUME NEW r \in Requests, NEW state, Goes(r, state),
             state.pc \notin {"trim", "expire"},
             UNCHANGED <<now, window, expiry, landed>>
      PROVE  Kept'
  BY <1>1, OneRequestMoves DEF Kept, LandedRecently, Outlasts
<1>2. ASSUME NEW r \in Requests,
             Arrive(r) \/ CountIp(r) \/ Refuse(r) \/ Judge(r)
      PROVE  Kept'
  <2>1. UNCHANGED <<now, window, expiry, landed>>
    BY <1>2 DEF Arrive, CountIp, Refuse, Judge
  <2>2. \E state : Goes(r, state) /\ state.pc \notin {"trim", "expire"}
    <3>1. CASE Arrive(r)
      BY <3>1 DEF Arrive
    <3>2. CASE CountIp(r)
      BY <3>2 DEF CountIp, At
    <3>3. CASE Refuse(r)
      BY <3>3 DEF Refuse, NoRequest
    <3>4. CASE Judge(r)
      <4>1. \E state \in {NoRequest, At(r, "add")} : Goes(r, state)
        BY <3>4 DEF Judge
      <4>2. \A state \in {NoRequest, At(r, "add")} : state.pc \notin {"trim", "expire"}
        BY DEF At, NoRequest
      <4> QED
        BY <4>1, <4>2
    <3> QED
      BY <1>2, <3>1, <3>2, <3>3, <3>4
  <2> QED
    BY <1>1, <2>1, <2>2
<1>3. ASSUME NEW r \in Requests, CountIdentifier(r) PROVE Kept'
  <2>1. UNCHANGED <<now, window, expiry, landed>>
    BY <1>3 DEF CountIdentifier
  <2>2. PICK state : /\ Goes(r, state)
                     /\ state.pc \in {"refuseId", "trim"}
                     /\ state.pc = "trim" => state.since = now - IpWindow
    BY <1>3 DEF CountIdentifier, At
  <2>3. now - IpWindow <= now - IpWindow
    BY <1>0
  <2> QED
    BY <2>1, <2>2, <2>3, OneRequestMoves DEF Kept, LandedRecently, Outlasts
<1>4. ASSUME NEW r \in Requests, Trim(r) PROVE Kept'
  <2> DEFINE p == request[r].ip
             kept == {m \in Held(p) : m.at > request[r].since}
  <2>1. /\ p \in Ips
        /\ request[r].since \in Int /\ request[r].since <= now - IpWindow
        /\ UNCHANGED <<now, landed>>
        /\ Goes(r, At(r, "card"))
    BY <1>4 DEF Trim, Kept, TypeOK, RequestState, NoRequest
  <2>2. \A ip \in Ips : /\ window'[ip] = IF ip = p THEN kept ELSE window[ip]
                        /\ expiry'[ip] = IF ip = p /\ kept = {} THEN 0 ELSE expiry[ip]
    BY <1>4 DEF Trim, TypeOK
  <2> HIDE DEF kept
  <2>3. LandedRecently(p) \subseteq kept
    <3> SUFFICES ASSUME NEW m \in LandedRecently(p) PROVE m \in kept
      OBVIOUS
    <3>1. m \in Held(p)
      BY <2>1, LandedIsHeld
    <3>2. m.at > now - IpWindow /\ m.at \in Nat
      BY <2>1 DEF LandedRecently, TypeOK, Member
    <3>3. m.at > request[r].since
      BY <1>0, <2>1, <3>2
    <3> QED
      BY <3>1, <3>3 DEF kept
  <2>5. \A ip \in Ips : \A m \in LandedRecently(ip)' :
           m \in window'[ip] /\ (expiry'[ip] = 0 \/ expiry'[ip] > m.at + IpWindow)
    BY <2>1, <2>2, <2>3 DEF Kept, LandedRecently, Outlasts
  <2>6. \A q \in Requests : request'[q] = IF q = r THEN At(r, "card") ELSE request[q]
    BY <2>1, OneRequestMoves
  <2>7. \A q \in Requests : request'[q].pc = "trim" => request'[q].since <= now - IpWindow
    BY <2>6 DEF Kept, At
  <2>8. \A q \in Requests : request'[q].pc = "expire" => request'[q].member.at <= now
    BY <2>6 DEF Kept, At
  <2>9. \A ip \in Ips : \A m \in landed'[ip] : m.at <= now'
    BY <2>1 DEF Kept
  <2> QED
    BY <2>1, <2>5, <2>7, <2>8, <2>9 DEF Kept, Outlasts
<1>5. ASSUME NEW r \in Requests, AddMember(r) PROVE Kept'
  <2> DEFINE p == request[r].ip
             a == [by |-> r, id |-> Cardinality(attempts), at |-> now]
             state == [pc |-> "expire", identifier |-> request[r].identifier,
                       ip |-> p, member |-> a]
  <2>1. p \in Ips /\ UNCHANGED <<now, landed>> /\ Goes(r, state)
    BY <1>5 DEF AddMember, TypeOK, RequestState, NoRequest
  <2>2. \A ip \in Ips :
           /\ window'[ip] = IF ip = p THEN Held(p) \cup {a} ELSE window[ip]
           /\ expiry'[ip] = IF ip = p /\ Held(p) = {} THEN 0 ELSE expiry[ip]
    BY <1>5 DEF AddMember, TypeOK
  <2>3. a.at = now /\ state.pc = "expire" /\ state.ip = p /\ state.member = a
    OBVIOUS
  <2> HIDE DEF a, state
  <2>4. \A ip \in Ips : \A m \in LandedRecently(ip)' :
           m \in window'[ip] /\ (expiry'[ip] = 0 \/ expiry'[ip] > m.at + IpWindow)
    <3>1. \A ip \in Ips : LandedRecently(ip)' = LandedRecently(ip)
      BY <2>1 DEF LandedRecently
    <3>2. \A ip \in Ips : LandedRecently(ip) \subseteq Held(ip)
      BY LandedIsHeld
    <3> QED
      BY <2>1, <2>2, <3>1, <3>2 DEF Kept, Outlasts
  <2>5. \A q \in Requests : request'[q] = IF q = r THEN state ELSE request[q]
    BY <2>1, OneRequestMoves
  <2>6. \A q \in Requests : request'[q].pc = "trim" => request'[q].since <= now - IpWindow
    BY <2>3, <2>5 DEF Kept
  <2>8. \A q \in Requests : request'[q].pc = "expire" => request'[q].member.at <= now
    BY <1>0, <2>3, <2>5 DEF Kept
  <2>9. \A ip \in Ips : \A m \in landed'[ip] : m.at <= now'
    BY <2>1 DEF Kept
  <2> QED
    BY <2>1, <2>4, <2>6, <2>8, <2>9 DEF Kept, Outlasts
<1>6. ASSUME NEW r \in Requests, SetExpiry(r) PROVE Kept'
  <2> DEFINE p == request[r].ip
             a == request[r].member
  <2>1. /\ p \in Ips /\ a \in Member /\ a.at <= now
        /\ UNCHANGED <<now, window>> /\ Goes(r, NoRequest)
    BY <1>6 DEF SetExpiry, TypeOK, RequestState, NoRequest, Kept
  <2>2. \/ UNCHANGED <<expiry, landed>>
        \/ \A ip \in Ips :
              /\ landed'[ip] = IF ip = p THEN landed[p] \cup (Held(p) \cap {a}) ELSE landed[ip]
              /\ expiry'[ip] = IF ip = p THEN now + IpWindow + 1 ELSE expiry[ip]
    BY <1>6 DEF SetExpiry, TypeOK
  <2>3. Held(p) \subseteq window[p]
    BY DEF Held
  <2> HIDE DEF p, a
  <2>4. \A ip \in Ips : \A m \in landed'[ip] : m.at <= now
    BY <1>0, <2>1, <2>2 DEF Kept
  <2>5. ASSUME NEW ip \in Ips, NEW m \in LandedRecently(ip)'
        PROVE  m \in window'[ip] /\ (expiry'[ip] = 0 \/ expiry'[ip] > m.at + IpWindow)
    <3>1. CASE UNCHANGED <<expiry, landed>> \/ ip # p
      <4>1. m \in LandedRecently(ip) /\ expiry'[ip] = expiry[ip]
        BY <2>1, <2>2, <3>1 DEF LandedRecently
      <4> QED
        BY <2>1, <4>1 DEF Kept, Outlasts
    <3>2. CASE ~ UNCHANGED <<expiry, landed>> /\ ip = p
      <4>1. /\ landed'[p] = landed[p] \cup (Held(p) \cap {a})
            /\ expiry'[p] = now + IpWindow + 1
        BY <2>1, <2>2, <3>2
      <4>2. m \in landed'[p] /\ m.at <= now /\ m.at > now - IpWindow
        BY <2>1, <2>4, <3>2 DEF LandedRecently
      <4>3. m.at \in Nat
        BY <2>1, <4>1, <4>2 DEF TypeOK, Member
      <4>4. m \in window[p]
        BY <2>1, <2>3, <4>1, <4>2 DEF Kept, LandedRecently
      <4>5. now + IpWindow + 1 > m.at + IpWindow
        BY <1>0, <4>2, <4>3
      <4> QED
        BY <2>1, <3>2, <4>1, <4>4, <4>5
    <3> QED
      BY <3>1, <3>2
  <2>6. \A q \in Requests : request'[q] = IF q = r THEN NoRequest ELSE request[q]
    BY <2>1, OneRequestMoves
  <2>7. \A q \in Requests :
           /\ request'[q].pc = "trim" => request'[q].since <= now - IpWindow
           /\ request'[q].pc = "expire" => request'[q].member.at <= now
    BY <2>6 DEF Kept, NoRequest
  <2> QED
    BY <2>1, <2>4, <2>5, <2>7 DEF Kept, Outlasts
<1>7. CASE Tick
  <2>1. now' = now + 1 /\ UNCHANGED <<window, expiry, landed, request>>
    BY <1>7 DEF Tick
  <2>2. \A ip \in Ips : \A m \in landed[ip] : m.at \in Nat
    BY DEF TypeOK, Member
  <2>3. \A ip \in Ips : LandedRecently(ip)' \subseteq LandedRecently(ip)
    BY <1>0, <2>1, <2>2 DEF LandedRecently
  <2>4. \A ip \in Ips : \A m \in landed'[ip] : m.at <= now'
    BY <1>0, <2>1, <2>2 DEF Kept
  <2>5. \A r \in Requests : request[r].pc = "trim" => request[r].since \in Int
    BY DEF TypeOK, RequestState, NoRequest
  <2>6. \A r \in Requests : request'[r].pc = "trim" => request'[r].since <= now' - IpWindow
    BY <1>0, <2>1, <2>5 DEF Kept
  <2>7. \A r \in Requests : request[r].pc = "expire" => request[r].member.at \in Nat
    BY DEF TypeOK, RequestState, NoRequest, Member
  <2>8. \A r \in Requests : request'[r].pc = "expire" => request'[r].member.at <= now'
    BY <1>0, <2>1, <2>7 DEF Kept
  <2>9. \A ip \in Ips : \A m \in LandedRecently(ip)' :
           m \in window'[ip] /\ (expiry'[ip] = 0 \/ expiry'[ip] > m.at + IpWindow)
    BY <2>1, <2>3 DEF Kept, Outlasts
  <2> QED
    BY <2>1, <2>4, <2>6, <2>8, <2>9 DEF Kept, Outlasts
<1>8. CASE Crash
  BY <1>8 DEF Crash, Kept, LandedRecently, Outlasts, NoRequest
<1>9. CASE UNCHANGED vars
  BY <1>9 DEF vars, Kept, LandedRecently, Outlasts
<1> QED
  BY <1>2, <1>3, <1>4, <1>5, <1>6, <1>7, <1>8, <1>9 DEF Next

\* The bound on addresses.
LEMMA NextIpSlack == TypeOK /\ Finite /\ Kept /\ IpSlack /\ [Next]_vars => IpSlack'
<1> SUFFICES ASSUME TypeOK, Finite, Kept, IpSlack, [Next]_vars, NEW ip \in Ips
             PROVE  (Cardinality(LandedRecently(ip)) + Cardinality(Uncharged(ip))
                        < IpLimit + Cardinality(Requests))'
  BY DEF IpSlack
<1> USE LimiterAssumption
<1>0. /\ IsFiniteSet(LandedRecently(ip)) /\ IsFiniteSet(Uncharged(ip))
      /\ IpLimit + Cardinality(Requests) \in Nat
      /\ Cardinality(LandedRecently(ip)) + Cardinality(Uncharged(ip))
            < IpLimit + Cardinality(Requests)
  BY CountedAreFinite DEF IpSlack
<1> DEFINE Goal == Cardinality(LandedRecently(ip)') + Cardinality(Uncharged(ip)')
                      < IpLimit + Cardinality(Requests)
<1>a. ASSUME LandedRecently(ip)' \subseteq LandedRecently(ip),
             Uncharged(ip)' \subseteq Uncharged(ip)
      PROVE  Goal
  BY <1>0, <1>a, BothShrink
<1>b. ASSUME UNCHANGED <<now, landed>>
      PROVE  LandedRecently(ip)' = LandedRecently(ip)
  BY <1>b DEF LandedRecently
<1>1. ASSUME NEW r \in Requests,
             Arrive(r) \/ CountIdentifier(r) \/ Trim(r) \/ Refuse(r)
      PROVE  Goal
  <2>1. LandedRecently(ip)' = LandedRecently(ip)
    BY <1>1, <1>b DEF Arrive, CountIdentifier, Trim, Refuse
  <2>2. \E state : Goes(r, state) /\ state.pc \notin {"judge", "add", "expire"}
    <3>1. CASE Arrive(r)
      BY <3>1 DEF Arrive
    <3>2. CASE CountIdentifier(r)
      BY <3>2 DEF CountIdentifier, At
    <3>3. CASE Trim(r)
      BY <3>3 DEF Trim, At
    <3>4. CASE Refuse(r)
      BY <3>4 DEF Refuse, NoRequest
    <3> QED
      BY <1>1, <3>1, <3>2, <3>3, <3>4
  <2>3. Uncharged(ip)' \subseteq Uncharged(ip)
    BY <2>2, OneRequestMoves DEF Uncharged
  <2> QED
    BY <1>a, <2>1, <2>3
<1>2. ASSUME NEW r \in Requests, CountIp(r) PROVE Goal
  <2>1. LandedRecently(ip)' = LandedRecently(ip)
    BY <1>2, <1>b DEF CountIp
  <2>2. CASE request[r].ip = ip /\ Cardinality(Held(ip)) < IpLimit
    <3>1. Uncharged(ip)' \subseteq Requests
      BY DEF Uncharged
    <3>2. LandedRecently(ip)' \subseteq Held(ip)
      BY <2>1, LandedIsHeld
    <3>3. IsFiniteSet(Held(ip))
      BY FS_EmptySet DEF Held, Finite
    <3> QED
      BY <2>2, <3>1, <3>2, <3>3, LetIn
  <2>3. CASE request[r].ip # ip
    <3>1. PICK pc : Goes(r, At(r, pc))
      BY <1>2 DEF CountIp
    <3>2. Uncharged(ip)' \subseteq Uncharged(ip)
      BY <2>3, <3>1, OneRequestMoves DEF Uncharged, At
    <3> QED
      BY <1>a, <2>1, <3>2
  <2>4. CASE request[r].ip = ip /\ Cardinality(Held(ip)) >= IpLimit
    <3>1. Goes(r, At(r, "refuseIp"))
      BY <1>2, <2>4 DEF CountIp
    <3>2. Uncharged(ip)' \subseteq Uncharged(ip)
      BY <3>1, OneRequestMoves DEF Uncharged, At
    <3> QED
      BY <1>a, <2>1, <3>2
  <2>5. Cardinality(Held(ip)) \in Nat
    BY FS_EmptySet, FS_CardinalityType DEF Held, Finite
  <2> QED
    BY <2>2, <2>3, <2>4, <2>5
<1>3. ASSUME NEW r \in Requests, Judge(r) \/ AddMember(r) PROVE Goal
  <2>1. LandedRecently(ip)' = LandedRecently(ip)
    BY <1>3, <1>b DEF Judge, AddMember
  <2>2. request[r].pc \in {"judge", "add"}
    BY <1>3 DEF Judge, AddMember
  <2>3. \E state : /\ Goes(r, state)
                   /\ state.pc = "idle" \/ state.ip = request[r].ip
    <3>1. CASE Judge(r)
      <4>1. \E state \in {NoRequest, At(r, "add")} : Goes(r, state)
        BY <3>1 DEF Judge
      <4>2. \A state \in {NoRequest, At(r, "add")} :
               state.pc = "idle" \/ state.ip = request[r].ip
        BY DEF At, NoRequest
      <4> QED
        BY <4>1, <4>2
    <3>2. CASE AddMember(r)
      BY <3>2 DEF AddMember
    <3> QED
      BY <1>3, <3>1, <3>2
  <2>4. Uncharged(ip)' \subseteq Uncharged(ip)
    BY <2>2, <2>3, OneRequestMoves DEF Uncharged
  <2> QED
    BY <1>a, <2>1, <2>4
<1>4. ASSUME NEW r \in Requests, SetExpiry(r) PROVE Goal
  <2>1. request[r].pc = "expire" /\ now' = now /\ Goes(r, NoRequest)
    BY <1>4 DEF SetExpiry
  <2>2. Uncharged(ip)' \subseteq Uncharged(ip) \ {r}
    BY <2>1, OneRequestMoves DEF Uncharged, NoRequest
  <2>3. CASE request[r].ip = ip
    <3>1. landed'[ip] \subseteq landed[ip] \cup {request[r].member}
      BY <1>4, <2>3 DEF SetExpiry, TypeOK
    <3>2. LandedRecently(ip)' \subseteq LandedRecently(ip) \cup {request[r].member}
      BY <2>1, <3>1 DEF LandedRecently
    <3>3. r \in Uncharged(ip)
      BY <2>1, <2>3 DEF Uncharged
    <3> QED
      BY <1>0, <2>2, <3>2, <3>3, OneMovesOver
  <2>4. CASE request[r].ip # ip
    <3>1. landed'[ip] = landed[ip]
      BY <1>4, <2>4 DEF SetExpiry, TypeOK
    <3>2. LandedRecently(ip)' = LandedRecently(ip)
      BY <2>1, <3>1 DEF LandedRecently
    <3> QED
      BY <1>a, <2>2, <3>2
  <2> QED
    BY <2>3, <2>4
<1>5. CASE Tick
  <2>1. LandedRecently(ip)' \subseteq LandedRecently(ip)
    <3>1. now' = now + 1 /\ now \in Int /\ IpWindow \in Int /\ landed' = landed
          /\ \A m \in landed[ip] : m.at \in Int
      BY <1>5 DEF Tick, TypeOK, Member
    <3> QED
      BY <3>1 DEF LandedRecently
  <2>2. Uncharged(ip)' = Uncharged(ip)
    BY <1>5 DEF Tick, Uncharged
  <2> QED
    BY <1>a, <2>1, <2>2
<1>6. CASE Crash
  <2>1. LandedRecently(ip)' = LandedRecently(ip)
    BY <1>6, <1>b DEF Crash
  <2>2. Uncharged(ip)' \subseteq Uncharged(ip)
    BY <1>6 DEF Crash, Uncharged, NoRequest
  <2> QED
    BY <1>a, <2>1, <2>2
<1>7. CASE UNCHANGED vars
  <2>1. LandedRecently(ip)' = LandedRecently(ip) /\ Uncharged(ip)' = Uncharged(ip)
    BY <1>7 DEF vars, LandedRecently, Uncharged
  <2> QED
    BY <1>a, <2>1
<1>8. Goal
  BY <1>1, <1>2, <1>3, <1>4, <1>5, <1>6, <1>7 DEF Next
<1> QED
  BY <1>8

-----------------------------------------------------------------------------
LEMMA InitIInv == Init => IInv
<1> SUFFICES ASSUME Init PROVE IInv
  OBVIOUS
<1> USE LimiterAssumption DEF Init
<1>1. TypeOK /\ Finite
  BY FS_EmptySet DEF TypeOK, Finite, RequestState
<1>2. /\ Cardinality({}) = 0
      /\ 0 + 0 < IdLimit + Cardinality(Requests)
      /\ 0 + 0 < IpLimit + Cardinality(Requests)
  <2>1. Cardinality(Requests) \in Nat /\ IdLimit \in Nat \ {0} /\ IpLimit \in Nat \ {0}
    BY FS_CardinalityType
  <2> QED
    BY <2>1, FS_EmptySet
<1>3. IdSlack
  <2>1. \A i \in Identifiers : JudgedRecently(i) = {} /\ LetThrough(i) = {}
    BY DEF JudgedRecently, Failures, LetThrough, NoRequest
  <2> QED
    BY <1>2, <2>1 DEF IdSlack
<1>4. IpSlack
  <2>1. \A ip \in Ips : LandedRecently(ip) = {} /\ Uncharged(ip) = {}
    BY DEF LandedRecently, Uncharged, NoRequest
  <2> QED
    BY <1>2, <2>1 DEF IpSlack
<1>5. Kept
  BY DEF Kept, LandedRecently, NoRequest
<1> QED
  BY <1>1, <1>3, <1>4, <1>5 DEF IInv

\* The inductive invariant: types, the two bounds with the logins on their way
\* counted in, and what Redis still holds.
THEOREM LimiterInvariant == Spec => []IInv
<1>1. IInv /\ [Next]_vars => IInv'
  BY NextTypes, NextIdSlack, NextIpSlack, NextKept DEF IInv
<1> QED
  BY <1>1, InitIInv, PTL DEF Spec

\* The types of the limiter's table, keys and requests.
THEOREM LimiterTypeOK == Spec => []TypeOK
<1>1. IInv => TypeOK
  BY DEF IInv
<1> QED
  BY <1>1, LimiterInvariant, PTL

\* For any limit, window and number of logins at once, an identifier never has
\* as many failures let through in a window as the limit and the logins at once.
THEOREM IdentifiersAreBounded == Spec => []IdentifierBounded
<1>1. IInv => IdentifierBounded
  <2> SUFFICES ASSUME IInv, NEW i \in Identifiers
               PROVE  Cardinality(JudgedRecently(i)) < IdLimit + Cardinality(Requests)
    BY DEF IdentifierBounded
  <2>1. Finite /\ IdSlack
    BY DEF IInv
  <2>2. /\ Cardinality(JudgedRecently(i)) \in Nat /\ Cardinality(LetThrough(i)) \in Nat
        /\ IdLimit + Cardinality(Requests) \in Nat
        /\ Cardinality(JudgedRecently(i)) + Cardinality(LetThrough(i))
              < IdLimit + Cardinality(Requests)
    BY <2>1, CountedAreFinite, FS_CardinalityType DEF IdSlack
  <2> QED
    BY <2>2
<1> QED
  BY <1>1, LimiterInvariant, PTL

\* For any limit and window, and whatever trims, expiries and restarts come in
\* between, neither has an address failures charged to it.
THEOREM AddressesAreBounded == Spec => []IpBounded
<1>1. IInv => IpBounded
  <2> SUFFICES ASSUME IInv, NEW ip \in Ips
               PROVE  Cardinality(LandedRecently(ip)) < IpLimit + Cardinality(Requests)
    BY DEF IpBounded
  <2>1. Finite /\ IpSlack
    BY DEF IInv
  <2>2. /\ Cardinality(LandedRecently(ip)) \in Nat /\ Cardinality(Uncharged(ip)) \in Nat
        /\ IpLimit + Cardinality(Requests) \in Nat
        /\ Cardinality(LandedRecently(ip)) + Cardinality(Uncharged(ip))
              < IpLimit + Cardinality(Requests)
    BY <2>1, CountedAreFinite, FS_CardinalityType DEF IpSlack
  <2> QED
    BY <2>2
<1> QED
  BY <1>1, LimiterInvariant, PTL
=============================================================================
