------------------------------ MODULE Sessions ------------------------------
(* AuthService: the sessions of the users, from login or registration to     *)
(* logout, and the access tokens JwtStrategy accepts.                        *)
(*                                                                           *)
(* A request is a chain of statements on auth_sessions and users; between    *)
(* two of them any other request goes on, and the writes are by id, whatever *)
(* has become of the row since it was read.  A session's number is its place *)
(* in the order of creation (createdAt); the n-th refresh token made for it  *)
(* is n, and the last one is the one whose hash is stored.  The family of a  *)
(* session's refresh tokens is its own (createSession draws a new one), so   *)
(* revoking the family is revoking the session.  Which password was given,   *)
(* and the limits on failed logins, are left out: a login starts here when   *)
(* it has been let in.                                                       *)
EXTENDS Integers, Sequences, FiniteSets

CONSTANTS
    Users, Devices,
    Requests,       \* requests that may be under way at once
    Cap,            \* MAX_SESSIONS_PER_USER
    MaxSessions,    \* bound: sessions created
    MaxRotations,   \* bound: no refresh starts on a session with so many tokens
    MaxVersion      \* bound: no logout-all starts at this tokenVersion

ASSUME SessionsAssumption ==
    /\ IsFiniteSet(Requests)
    /\ Cap \in Nat \ {0}
    /\ MaxSessions \in Nat /\ MaxRotations \in Nat /\ MaxVersion \in Nat

VARIABLES
    session,    \* auth_sessions in the order of creation
    version,    \* users.token_version
    access,     \* the access tokens signed
    barred,     \* the jti: keys in Redis
    request     \* what each request holds between two statements

vars == <<session, version, access, barred, request>>

\* born: the user's tokenVersion when the row was inserted, for the properties.
SessionRecord ==
    [user : Users, device : Devices, born : Nat, token : Nat,
     status : {"ACTIVE", "REVOKED", "EXPIRED"}]

AccessToken == [session : Nat, version : Nat, token : Nat]

IsActive(s) == session[s].status = "ACTIVE"
Active(u) == {s \in DOMAIN session : session[s].user = u /\ IsActive(s)}
ActiveOn(d) == {s \in DOMAIN session : session[s].device = d /\ IsActive(s)}

\* JwtStrategy.validate
Accepted(a) ==
    /\ a \notin barred
    /\ a.version = version[session[a.session].user]

\* doomed: the sessions a login is about to revoke; bar: the access token a
\* logout is about to put on the list; shown: the session whose refresh token
\* a refresh was called with.
Idle == [pc |-> "idle"]
RequestState ==
    {Idle}
    \cup [pc : {"insert"}, user : Users, device : Devices, version : Nat]
    \cup [pc : {"cap"}, user : Users, version : Nat, session : Nat]
    \cup [pc : {"evict"}, user : Users, version : Nat, session : Nat,
          doomed : SUBSET Nat]
    \cup [pc : {"user"}, session : Nat, shown : Nat, match : BOOLEAN]
    \cup [pc : {"reuse"}, session : Nat, shown : Nat]
    \cup [pc : {"expire"}, session : Nat]
    \cup [pc : {"rotate"}, session : Nat, version : Nat]
    \cup [pc : {"end"}, session : Nat, bar : SUBSET AccessToken]
    \cup [pc : {"bar"}, bar : SUBSET AccessToken]
    \cup [pc : {"all"}, user : Users, version : Nat]

Init ==
    /\ session = <<>>
    /\ version = [u \in Users |-> 0]
    /\ access = {}
    /\ barred = {}
    /\ request = [r \in Requests |-> Idle]

At(r, pc) == request[r].pc = pc
Goes(r, state) == request' = [request EXCEPT ![r] = state]
SetStatus(S, status) ==
    session' = [s \in DOMAIN session |->
                   IF s \in S THEN [session[s] EXCEPT !.status = status]
                              ELSE session[s]]
Sign(s, v, n) ==
    access' = access \cup {[session |-> s, version |-> v, token |-> n]}

-----------------------------------------------------------------------------
(* create, login and createSession. *)

\* The user is read, tokenVersion included.
StartLogin(r, u, d) ==
    /\ At(r, "idle")
    /\ Len(session) + Cardinality({q \in Requests : At(q, "insert")}) < MaxSessions
    /\ Goes(r, [pc |-> "insert", user |-> u, device |-> d, version |-> version[u]])
    /\ UNCHANGED <<session, version, access, barred>>

\* Mutant of InsertSession: the login goes on with the number after its row's.
InsertSessionAhead(r) ==
    /\ At(r, "insert")
    /\ LET u == request[r].user IN
          /\ session' = Append(session,
                [user |-> u, device |-> request[r].device, born |-> version[u],
                 token |-> 0, status |-> "ACTIVE"])
          /\ Goes(r, [pc |-> "cap", user |-> u, version |-> request[r].version,
                      session |-> Len(session) + 2])
    /\ UNCHANGED <<version, access, barred>>

InsertSession(r) ==
    /\ At(r, "insert")
    /\ LET u == request[r].user IN
          /\ session' = Append(session,
                [user |-> u, device |-> request[r].device, born |-> version[u],
                 token |-> 0, status |-> "ACTIVE"])
          /\ Goes(r, [pc |-> "cap", user |-> u, version |-> request[r].version,
                      session |-> Len(session) + 1])
    /\ UNCHANGED <<version, access, barred>>

\* Mutants of Spares: one session at most is revoked; the newest are.
SparesAllButOne(active, kept) ==
    /\ Cardinality(active \ kept) = 1
    /\ \A s \in active \ kept, t \in kept : s < t
SparesOldest(active, kept) ==
    /\ Cardinality(kept) = Cap
    /\ \A s \in active \ kept, t \in kept : s > t

\* Over the cap, the newest Cap sessions are kept.
Spares(active, kept) ==
    /\ Cardinality(kept) = Cap
    /\ \A s \in active \ kept, t \in kept : s < t

\* The active sessions, in order.  Within the cap, the login is answered.
CapRead(r) ==
    /\ At(r, "cap")
    /\ LET q == request[r]
           active == Active(q.user) IN
          \/ /\ Cardinality(active) <= Cap
             /\ Sign(q.session, q.version, 0)
             /\ Goes(r, Idle)
          \/ /\ Cardinality(active) > Cap
             /\ \E kept \in SUBSET active :
                   /\ Spares(active, kept)
                   /\ Goes(r, [pc |-> "evict", user |-> q.user,
                               version |-> q.version, session |-> q.session,
                               doomed |-> active \ kept])
             /\ UNCHANGED access
    /\ UNCHANGED <<session, version, barred>>

Evict(r) ==
    /\ At(r, "evict")
    /\ SetStatus(request[r].doomed, "REVOKED")
    /\ Sign(request[r].session, request[r].version, 0)
    /\ Goes(r, Idle)
    /\ UNCHANGED <<version, barred>>

-----------------------------------------------------------------------------
(* refresh: a client comes with a refresh token it was given, the one that   *)
(* came with access token a, and names its device.                           *)

\* The newest active session of the device, whosever it is.  None: 401.
StartRefresh(r, a) ==
    /\ At(r, "idle")
    /\ LET candidates == ActiveOn(session[a.session].device) IN
          \E m \in candidates :
             /\ \A t \in candidates : t <= m
             /\ session[m].token < MaxRotations
             /\ Goes(r, [pc |-> "user", session |-> m, shown |-> a.session,
                         match |-> m = a.session /\ session[m].token = a.token])
    /\ UNCHANGED <<session, version, access, barred>>

\* The user of that session is read by a query of its own.  A token that does
\* not match is taken for a reuse; one that does may have expired, and the user
\* may be banned.
ReadUser(r) ==
    /\ At(r, "user")
    /\ LET m == request[r].session IN
          \/ /\ ~ request[r].match
             /\ Goes(r, [pc |-> "reuse", session |-> m, shown |-> request[r].shown])
          \/ /\ request[r].match
             /\ \/ Goes(r, [pc |-> "expire", session |-> m])
                \/ Goes(r, [pc |-> "rotate", session |-> m,
                            version |-> version[session[m].user]])
                \/ Goes(r, Idle)
    /\ UNCHANGED <<session, version, access, barred>>

RevokeFamily(r) ==
    /\ At(r, "reuse")
    /\ SetStatus({request[r].session}, "REVOKED")
    /\ Goes(r, Idle)
    /\ UNCHANGED <<version, access, barred>>

Expire(r) ==
    /\ At(r, "expire")
    /\ SetStatus({request[r].session}, "EXPIRED")
    /\ Goes(r, Idle)
    /\ UNCHANGED <<version, access, barred>>

\* Mutant of Rotate: the row is written whole, as it was read.
RotateReactivates(r) ==
    /\ At(r, "rotate")
    /\ LET m == request[r].session IN
          /\ session' = [session EXCEPT ![m].token = @ + 1, ![m].status = "ACTIVE"]
          /\ Sign(m, request[r].version, session[m].token + 1)
    /\ Goes(r, Idle)
    /\ UNCHANGED <<version, barred>>

Rotate(r) ==
    /\ At(r, "rotate")
    /\ LET m == request[r].session IN
          /\ session' = [session EXCEPT ![m].token = @ + 1]
          /\ Sign(m, request[r].version, session[m].token + 1)
    /\ Goes(r, Idle)
    /\ UNCHANGED <<version, barred>>

-----------------------------------------------------------------------------
(* logout, revokeSession, logoutAll and changePassword: calls behind the     *)
(* JwtAuthGuard, with an access token it accepted.                           *)

StartLogout(r, a) ==
    /\ At(r, "idle") /\ Accepted(a)
    /\ IsActive(a.session)
    /\ Goes(r, [pc |-> "end", session |-> a.session, bar |-> {a}])
    /\ UNCHANGED <<session, version, access, barred>>

StartRevoke(r, a, s) ==
    /\ At(r, "idle") /\ Accepted(a)
    /\ s # a.session /\ session[s].user = session[a.session].user
    /\ IsActive(s)
    /\ Goes(r, [pc |-> "end", session |-> s, bar |-> {}])
    /\ UNCHANGED <<session, version, access, barred>>

EndSession(r) ==
    /\ At(r, "end")
    /\ SetStatus({request[r].session}, "REVOKED")
    /\ Goes(r, IF request[r].bar = {} THEN Idle
               ELSE [pc |-> "bar", bar |-> request[r].bar])
    /\ UNCHANGED <<version, access, barred>>

Bar(r) ==
    /\ At(r, "bar")
    /\ barred' = barred \cup request[r].bar
    /\ Goes(r, Idle)
    /\ UNCHANGED <<session, version, access>>

StartLogoutAll(r, a) ==
    /\ At(r, "idle") /\ Accepted(a)
    /\ LET u == session[a.session].user IN
          /\ version[u] < MaxVersion
          /\ Goes(r, [pc |-> "all", user |-> u, version |-> version[u]])
    /\ UNCHANGED <<session, version, access, barred>>

\* Mutant of LogoutAll: one more than the version that was read, not an increment.
LogoutAllFromRead(r) ==
    /\ At(r, "all")
    /\ LET u == request[r].user IN
          /\ version' = [version EXCEPT ![u] = request[r].version + 1]
          /\ SetStatus(Active(u), "REVOKED")
    /\ Goes(r, Idle)
    /\ UNCHANGED <<access, barred>>

\* One transaction.
LogoutAll(r) ==
    /\ At(r, "all")
    /\ LET u == request[r].user IN
          /\ version' = [version EXCEPT ![u] = @ + 1]
          /\ SetStatus(Active(u), "REVOKED")
    /\ Goes(r, Idle)
    /\ UNCHANGED <<access, barred>>

-----------------------------------------------------------------------------
Arrives(r) ==
    \/ \E u \in Users, d \in Devices : StartLogin(r, u, d)
    \/ \E a \in access :
          \/ StartRefresh(r, a) \/ StartLogout(r, a) \/ StartLogoutAll(r, a)
          \/ \E s \in DOMAIN session : StartRevoke(r, a, s)

GoesOn(r) ==
    \/ InsertSession(r) \/ CapRead(r) \/ Evict(r)
    \/ ReadUser(r) \/ RevokeFamily(r) \/ Expire(r) \/ Rotate(r)
    \/ EndSession(r) \/ Bar(r) \/ LogoutAll(r)

Next == \E r \in Requests : Arrives(r) \/ GoesOn(r)

Spec == Init /\ [][Next]_vars

-----------------------------------------------------------------------------
TypeOK ==
    /\ session \in Seq(SessionRecord)
    /\ version \in [Users -> Nat]
    /\ access \subseteq {a \in AccessToken : a.session \in DOMAIN session}
    /\ barred \subseteq access
    /\ request \in [Requests -> RequestState]

LoggingIn(u) == {r \in Requests : /\ request[r].pc \in {"cap", "evict"}
                                  /\ request[r].user = u}

\* Once the logins of a user are through, he has no more sessions than the cap
\* allows, however they overlapped: each reads and revokes on its own.
CapAtRest ==
    \A u \in Users : LoggingIn(u) = {} => Cardinality(Active(u)) <= Cap

\* A login revokes old sessions only: of each there are Cap newer ones of the
\* same user, whatever other logins, logouts and refreshes do to the list.
EvictsOldest ==
    \A r \in Requests : At(r, "evict") =>
        \A s \in request[r].doomed :
            Cardinality({t \in DOMAIN session :
                            /\ session[t].user = request[r].user
                            /\ t > s}) >= Cap

\* No session outlives a logout-all or a change of password: one that is active
\* was created since the last, also when a refresh or a logout was under way.
ActiveIsOfThisVersion ==
    \A s \in DOMAIN session :
        IsActive(s) => session[s].born = version[session[s].user]

\* auth/README.md: after a logout-all any existing access token is rejected,
\* those signed during an earlier logout-all included.
LogoutAllRejects ==
    [][\A r \in Requests : At(r, "all") /\ request'[r] # request[r] =>
          \A a \in access : session[a.session].user = request[r].user
                               => ~ Accepted(a)']_vars

\* auth/README.md: a family is revoked when an old token of it is used again.
ReuseIsOfTheFamily ==
    \A r \in Requests : At(r, "reuse") => request[r].shown = request[r].session
=============================================================================
