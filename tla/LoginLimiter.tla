---------------------------- MODULE LoginLimiter ----------------------------
(***************************************************************************)
(* The two brute-force limits of AuthService.login, over logins that run   *)
(* at the same time: failures per identifier, counted in login_attempts,   *)
(* and failures per IP, counted in a Redis sorted set (RedisService's      *)
(* sliding window).  Each is read well before the failure it should count  *)
(* is written: in between, the other requests go on.                       *)
(*                                                                         *)
(* A step is one database or Redis command.  The clock is shared by the    *)
(* API, the database and Redis; a tick is at most the second by which the  *)
(* sorted set's time to live exceeds its window.  The session a successful *)
(* login goes on to create is in Sessions.                                 *)
(***************************************************************************)
EXTENDS Integers, FiniteSets

CONSTANTS
    Identifiers,  \* what is typed as email, phone or user name
    Ips,          \* the callers' hashed addresses
    Requests,     \* logins under way at once
    IdLimit, IdWindow,  \* IDENTIFIER_FAIL_LIMIT, IDENTIFIER_FAIL_WINDOW_MS
    IpLimit, IpWindow,  \* IP_FAIL_LIMIT, IP_FAIL_WINDOW_MS
    MaxRows,      \* bound: logins stop arriving at this many attempts
    MaxTime       \* bound: the clock stops here

ASSUME LimiterAssumption ==
    /\ IsFiniteSet(Requests)
    /\ {IdLimit, IdWindow, IpLimit, IpWindow} \subseteq Nat \ {0}
    /\ {MaxRows, MaxTime} \subseteq Nat

VARIABLES
    now,       \* Date.now()
    attempts,  \* the rows of login_attempts
    window,    \* window[ip]: the members of the sorted set brute:ip:<ip>
    expiry,    \* expiry[ip]: when Redis drops that key; 0 when no TTL is set
    landed,    \* history: landed[ip], every member Redis held when its add ended
    request    \* request[r]: how far the login r is

vars == <<now, attempts, window, expiry, landed, request>>

-----------------------------------------------------------------------------
\* How a login fails that neither limit refuses.  An unknown user is treated as
\* a bad password is, a deleted account as a banned one; only the failures of
\* the first kind are counted for the IP.
CountedByIp == {"bad_password"}
Judged == CountedByIp \cup {"user_banned"}
Refused == {"rate_limited", "ip_rate_limited"}

Attempt == [id : Nat, identifier : Identifiers, success : BOOLEAN,
            reason : Judged \cup Refused \cup {"null"}, at : Nat]
Member == [by : Requests, id : Nat, at : Nat]

\* since is slidingWindowCount's windowStart, taken before its first command;
\* member is what slidingWindowAdd adds.  Its random suffix makes it unique, as
\* the request and the number of rows do here.
NoRequest == [pc |-> "idle"]
RequestState ==
    {NoRequest}
    \cup [pc : {"count", "card", "judge", "refuseId", "refuseIp", "add"},
          identifier : Identifiers, ip : Ips]
    \cup [pc : {"trim"}, identifier : Identifiers, ip : Ips, since : Int]
    \cup [pc : {"expire"}, identifier : Identifiers, ip : Ips, member : Member]

Init ==
    /\ now = 0
    /\ attempts = {}
    /\ window = [ip \in Ips |-> {}]
    /\ expiry = [ip \in Ips |-> 0]
    /\ landed = [ip \in Ips |-> {}]
    /\ request = [r \in Requests |-> NoRequest]

Goes(r, state) == request' = [request EXCEPT ![r] = state]
At(r, pc) == [pc |-> pc, identifier |-> request[r].identifier, ip |-> request[r].ip]

\* recordLoginAttempt
Record(r, success, reason) ==
    attempts' = attempts \cup
        {[id |-> Cardinality(attempts) + 1, identifier |-> request[r].identifier,
          success |-> success, reason |-> reason, at |-> now]}

Arrive(r) ==
    /\ request[r] = NoRequest
    /\ Cardinality(attempts) < MaxRows
    /\ \E i \in Identifiers, ip \in Ips :
          Goes(r, [pc |-> "count", identifier |-> i, ip |-> ip])
    /\ UNCHANGED <<now, attempts, window, expiry, landed>>

\* The failures loginAttempt.count finds, refused logins among them.
Failures(i) == {a \in attempts : /\ a.identifier = i
                                 /\ ~ a.success
                                 /\ a.at >= now - IdWindow}

\* Mutant of CountIdentifier: one failure too many is let through.
CountOneMore(r) ==
    /\ request[r].pc = "count"
    /\ IF Cardinality(Failures(request[r].identifier)) > IdLimit
       THEN Goes(r, At(r, "refuseId"))
       ELSE Goes(r, [pc |-> "trim", identifier |-> request[r].identifier,
                     ip |-> request[r].ip, since |-> now - IpWindow])
    /\ UNCHANGED <<now, attempts, window, expiry, landed>>

CountIdentifier(r) ==
    /\ request[r].pc = "count"
    /\ IF Cardinality(Failures(request[r].identifier)) >= IdLimit
       THEN Goes(r, At(r, "refuseId"))
       ELSE Goes(r, [pc |-> "trim", identifier |-> request[r].identifier,
                     ip |-> request[r].ip, since |-> now - IpWindow])
    /\ UNCHANGED <<now, attempts, window, expiry, landed>>

\* What Redis holds under the key of ip: nothing once its TTL is over.
Held(ip) == IF expiry[ip] # 0 /\ expiry[ip] <= now THEN {} ELSE window[ip]

\* zremrangebyscore; a sorted set that gets empty is gone, its TTL with it.
Trim(r) ==
    /\ request[r].pc = "trim"
    /\ LET ip == request[r].ip
           kept == {m \in Held(ip) : m.at > request[r].since} IN
       /\ window' = [window EXCEPT ![ip] = kept]
       /\ expiry' = [expiry EXCEPT ![ip] = IF kept = {} THEN 0 ELSE @]
    /\ Goes(r, At(r, "card"))
    /\ UNCHANGED <<now, attempts, landed>>

\* zcard
CountIp(r) ==
    /\ request[r].pc = "card"
    /\ Goes(r, At(r, IF Cardinality(Held(request[r].ip)) >= IpLimit
                     THEN "refuseIp" ELSE "judge"))
    /\ UNCHANGED <<now, attempts, window, expiry, landed>>

\* A refused login is recorded as a failure: it keeps its identifier blocked.
Refuse(r) ==
    /\ request[r].pc \in {"refuseId", "refuseIp"}
    /\ Record(r, FALSE, IF request[r].pc = "refuseId" THEN "rate_limited"
                        ELSE "ip_rate_limited")
    /\ Goes(r, NoRequest)
    /\ UNCHANGED <<now, window, expiry, landed>>

\* The user is looked up and the password verified, which no limit depends on;
\* the outcome is recorded.
Judge(r) ==
    /\ request[r].pc = "judge"
    /\ \/ Record(r, TRUE, "null") /\ Goes(r, NoRequest)
       \/ \E reason \in Judged :
             /\ Record(r, FALSE, reason)
             /\ Goes(r, IF reason \in CountedByIp THEN At(r, "add") ELSE NoRequest)
    /\ UNCHANGED <<now, window, expiry, landed>>

\* zadd
AddMember(r) ==
    /\ request[r].pc = "add"
    /\ LET ip == request[r].ip
           m == [by |-> r, id |-> Cardinality(attempts), at |-> now] IN
       /\ window' = [window EXCEPT ![ip] = Held(ip) \cup {m}]
       /\ expiry' = [expiry EXCEPT ![ip] = IF Held(ip) = {} THEN 0 ELSE @]
       /\ Goes(r, [pc |-> "expire", identifier |-> request[r].identifier,
                   ip |-> ip, member |-> m])
    /\ UNCHANGED <<now, attempts, landed>>

\* Mutant of SetExpiry: the TTL falls short of the window.
SetExpiryShort(r) ==
    /\ request[r].pc = "expire"
    /\ LET ip == request[r].ip IN
       IF Held(ip) = {} THEN UNCHANGED <<expiry, landed>>
       ELSE /\ expiry' = [expiry EXCEPT ![ip] = now + IpWindow - 1]
            /\ landed' = [landed EXCEPT ![ip] = @ \cup (Held(ip) \cap {request[r].member})]
    /\ Goes(r, NoRequest)
    /\ UNCHANGED <<now, attempts, window>>

\* Mutant of SetExpiry: the TTL is counted back from now.
SetExpiryBack(r) ==
    /\ request[r].pc = "expire"
    /\ LET ip == request[r].ip IN
       IF Held(ip) = {} THEN UNCHANGED <<expiry, landed>>
       ELSE /\ expiry' = [expiry EXCEPT ![ip] = now - IpWindow - 1]
            /\ landed' = [landed EXCEPT ![ip] = @ \cup (Held(ip) \cap {request[r].member})]
    /\ Goes(r, NoRequest)
    /\ UNCHANGED <<now, attempts, window>>

\* expire, which does nothing to a key whose old TTL has run out since zadd: the
\* member just added is lost with it.
SetExpiry(r) ==
    /\ request[r].pc = "expire"
    /\ LET ip == request[r].ip IN
       IF Held(ip) = {} THEN UNCHANGED <<expiry, landed>>
       ELSE /\ expiry' = [expiry EXCEPT ![ip] = now + IpWindow + 1]
            /\ landed' = [landed EXCEPT ![ip] = @ \cup (Held(ip) \cap {request[r].member})]
    /\ Goes(r, NoRequest)
    /\ UNCHANGED <<now, attempts, window>>

Tick ==
    /\ now < MaxTime
    /\ now' = now + 1
    /\ UNCHANGED <<attempts, window, expiry, landed, request>>

\* The API dies and restarts; the table and Redis stay as they are.
Crash ==
    /\ request' = [r \in Requests |-> NoRequest]
    /\ UNCHANGED <<now, attempts, window, expiry, landed>>

Next ==
    \/ \E r \in Requests :
          \/ Arrive(r) \/ CountIdentifier(r) \/ Trim(r) \/ CountIp(r)
          \/ Refuse(r) \/ Judge(r) \/ AddMember(r) \/ SetExpiry(r)
    \/ Tick
    \/ Crash

Spec == Init /\ [][Next]_vars

-----------------------------------------------------------------------------
TypeOK ==
    /\ now \in 0 .. MaxTime
    /\ attempts \subseteq Attempt
    /\ window \in [Ips -> SUBSET Member]
    /\ expiry \in [Ips -> Nat]
    /\ landed \in [Ips -> SUBSET Member]
    /\ request \in [Requests -> RequestState]

\* However many logins run at once, the failures of one identifier that were
\* let through to the password check within a window exceed the limit by less
\* than the number of logins that can be under way.
JudgedRecently(i) == {a \in Failures(i) : a.reason \in Judged}

IdentifierBounded ==
    \A i \in Identifiers :
        Cardinality(JudgedRecently(i)) < IdLimit + Cardinality(Requests)

\* The same for one IP and the failures it is charged with: no trim, no expiry
\* of the key and no restart makes Redis forget one before its window is over.
LandedRecently(ip) == {m \in landed[ip] : m.at > now - IpWindow}

IpBounded ==
    \A ip \in Ips :
        Cardinality(LandedRecently(ip)) < IpLimit + Cardinality(Requests)
=============================================================================
