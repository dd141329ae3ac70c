--------------------------- MODULE RefreshSessions ---------------------------
(***************************************************************************)
(* The table auth_refresh_session and the transactions that write it:      *)
(* sign-in, rotation on refresh, logout, the revocation of a family when a *)
(* spent secret comes back, the revocation of all sessions of a principal, *)
(* and the cleanup of expired rows.                                        *)
(*                                                                         *)
(* A request is a worker thread with a database transaction of its own.    *)
(* PostgreSQL runs these at READ COMMITTED: a statement sees the rows      *)
(* committed before it, SELECT FOR UPDATE and UPDATE take a row lock that  *)
(* is held to the end of the transaction, and what a transaction wrote     *)
(* becomes visible when it commits.  One action is what a request does     *)
(* between two points where another request can make a difference to it.   *)
(* A request that is refused without writing anything (an unknown or       *)
(* expired secret, a CSRF mismatch, an inactive principal) is a stuttering *)
(* step: it has no action here, only the guard that keeps it out.          *)
(***************************************************************************)
EXTENDS Naturals, FiniteSets

CONSTANTS SessionIds,    \* primary keys; UPDATEs of one flush go in key order
          Requests,      \* the requests that may be in progress at a time
          Principals,
          Provider,      \* Provider[p]: how p authenticates
          SessionTtl,    \* settings.session_ttl_seconds, in ticks
          AdminReauth,   \* settings.admin_reauth_seconds, in ticks
          ProviderEnds,  \* when a Ping session may end at the provider
          StartRoles,    \* bound of the roles principals start with
          KeysAscend,    \* bound: new keys come in ascending order
          MaxTime,       \* bound of the clock
          MaxVersion,    \* bound of principal.authorization_version
          None

ASSUME SessionIdsAssumption == SessionIds \subseteq Nat
ASSUME RequestsAssumption == None \notin Requests
ASSUME NoneAssumption == None \notin SessionIds /\ None \notin Principals
ASSUME ProviderAssumption == Provider \in [Principals -> {"LOCAL", "PING_SAML"}]
ASSUME TtlAssumption == SessionTtl \in Nat \ {0} /\ AdminReauth \in Nat \ {0}
ASSUME TimeAssumption == MaxTime \in Nat /\ ProviderEnds \subseteq Nat
ASSUME RolesAssumption == StartRoles \subseteq {"ADMIN", "READ_ONLY"}
ASSUME KeysAssumption == KeysAscend \in BOOLEAN
ASSUME VersionAssumption == MaxVersion \in Nat \ {0}

VARIABLES sessions,    \* the rows of auth_refresh_session
          lock,        \* the request that holds the row lock, or None
          principals,  \* the authorization columns of each principal
          now,
          pc,          \* where each request is
          target,      \* the row a refresh presented and locked
          whose,       \* the principal a request works for
          seen,        \* the authorization_version it read
          victims      \* the rows a revocation selected

tables == <<sessions, lock, principals, now>>
locals == <<pc, target, whose, seen, victims>>
vars == <<tables, locals>>

Roles == {"ADMIN", "READ_ONLY"}

\* A row keeps its other columns when it is revoked or deleted, so that what
\* a family was started on can still be compared with what became of it.
\* A family is named after the row its sign-in inserted.
Rows == [status     : {"unused", "live", "revoked", "deleted"},
         principal  : Principals \cup {None},
         family     : SessionIds \cup {None},
         provider   : {"LOCAL", "PING_SAML", None},
         version    : Nat,
         authAt     : Nat,
         expires    : Nat,
         replacedBy : SessionIds \cup {None}]

NoRow == [status |-> "unused", principal |-> None, family |-> None, provider |-> None,
          version |-> 0, authAt |-> 0, expires |-> 0, replacedBy |-> None]

\* eligible: the local account is enabled, no password change is due, and
\* neither the account nor its password has expired.
PrincipalRows == [role : Roles, active : BOOLEAN, eligible : BOOLEAN, version : Nat]

TypeOK ==
    /\ sessions \in [SessionIds -> Rows]
    /\ lock \in [SessionIds -> Requests \cup {None}]
    /\ principals \in [Principals -> PrincipalRows]
    /\ now \in Nat
    /\ pc \in [Requests -> {"idle", "signing", "eligibility", "rotating", "flushing",
                         "leaving"}]
    /\ target \in [Requests -> SessionIds \cup {None}]
    /\ whose \in [Requests -> Principals \cup {None}]
    /\ seen \in [Requests -> Nat]
    /\ victims \in [Requests -> SUBSET SessionIds]

------------------------------------------------------------------------------

Used(s)   == sessions[s].status # "unused"
Live(s)   == sessions[s].status = "live"
Stored(s) == sessions[s].status \in {"live", "revoked"}

\* A slip that revokes without looking at revoked_at.
StoredOfFamily(f) == {s \in SessionIds : Stored(s) /\ sessions[s].family = f}
LiveOfFamily(f)    == {s \in SessionIds : Live(s) /\ sessions[s].family = f}
LiveOfPrincipal(p) == {s \in SessionIds : Live(s) /\ sessions[s].principal = p}

Smaller(a, b) == IF a <= b THEN a ELSE b

\* The lock table after r took s, and after r's transaction ended.  The slips: a
\* SELECT without FOR UPDATE, a transaction left open.
NoLocking(r, s)  == lock
NoUnlocking(r)   == lock
Locking(r, s) == [lock EXCEPT ![s] = r]
Unlocking(r)  == [s \in SessionIds |-> IF lock[s] = r THEN None ELSE lock[s]]

\* The bound of SessionIds, where the table has none: a request that will insert
\* a row starts only while a key is left for it.
KeyLeft ==
    Cardinality({r \in Requests : pc[r] \in {"signing", "eligibility", "rotating"}})
        < Cardinality({s \in SessionIds : ~Used(s)})

\* A key is a random UUID: the order in which keys are drawn is no order of theirs,
\* except under the bound KeysAscend.
Fresh(n) ==
    /\ ~Used(n)
    /\ KeysAscend => \A m \in SessionIds : m < n => Used(m)

\* Request r ends: its locals are forgotten.
Finish(r) ==
    /\ pc' = [pc EXCEPT ![r] = "idle"]
    /\ target' = [target EXCEPT ![r] = None]
    /\ whose' = [whose EXCEPT ![r] = None]
    /\ seen' = [seen EXCEPT ![r] = 0]
    /\ victims' = [victims EXCEPT ![r] = {}]

Init ==
    /\ sessions = [s \in SessionIds |-> NoRow]
    /\ lock = [s \in SessionIds |-> None]
    /\ principals \in [Principals -> [role : StartRoles, active : {TRUE}, eligible : {TRUE},
                                      version : {1}]]
    /\ now = 0
    /\ pc = [r \in Requests |-> "idle"]
    /\ target = [r \in Requests |-> None]
    /\ whose = [r \in Requests |-> None]
    /\ seen = [r \in Requests |-> 0]
    /\ victims = [r \in Requests |-> {}]

------------------------------------------------------------------------------
(* Sign-in.  The credentials are accepted in one transaction, the session  *)
(* row is inserted in the next, from the principal object the first left   *)
(* in memory (expire_on_commit is off).                                    *)

Authenticate(r, p) ==
    /\ pc[r] = "idle"
    /\ KeyLeft
    /\ principals[p].active
    /\ Provider[p] = "LOCAL" => principals[p].eligible
    /\ pc' = [pc EXCEPT ![r] = "signing"]
    /\ whose' = [whose EXCEPT ![r] = p]
    /\ seen' = [seen EXCEPT ![r] = principals[p].version]
    /\ UNCHANGED <<tables, target, victims>>

\* A slip: two columns changed places.
SwappedSignInRow(n, p, version, at, end) ==
    [status |-> "live", principal |-> Provider[p], family |-> n, provider |-> p,
     version |-> version, authAt |-> at, expires |-> end, replacedBy |-> None]

\* The row a sign-in of p inserts under key n.  A Ping sign-in carries the
\* provider's authentication instant and, when given, the provider's end.
SignInRow(n, p, version, at, end) ==
    [status |-> "live", principal |-> p, family |-> n, provider |-> Provider[p],
     version |-> version, authAt |-> at, expires |-> end, replacedBy |-> None]

CreateSession(r, n) ==
    /\ pc[r] = "signing"
    /\ Fresh(n)
    /\ LET p == whose[r]
           ttl == now + SessionTtl
           instants == IF Provider[p] = "LOCAL" THEN {now} ELSE 0 .. now
           ends == IF Provider[p] = "LOCAL" THEN {ttl}
                   ELSE {ttl} \cup {Smaller(ttl, e) : e \in ProviderEnds}
       IN \E at \in instants, end \in ends :
              sessions' = [sessions EXCEPT ![n] = SignInRow(n, p, seen[r], at, end)]
    /\ Finish(r)
    /\ UNCHANGED <<lock, principals, now>>

------------------------------------------------------------------------------
(* Refresh.                                                                *)

ReauthDue(s, p) ==
    /\ sessions[s].provider = "PING_SAML"
    /\ principals[p].role = "ADMIN"
    /\ sessions[s].authAt + AdminReauth <= now

\* A revocation of the family of s selects its unrevoked rows; the lock on s
\* is kept.
BeginFamilyRevocation(r, s) ==
    /\ pc' = [pc EXCEPT ![r] = "flushing"]
    /\ victims' = [victims EXCEPT ![r] = LiveOfFamily(sessions[s].family)]

\* SELECT FOR UPDATE of the presented row, then the principal's row.
Refresh(r, s) ==
    /\ pc[r] = "idle"
    /\ Stored(s)
    /\ lock[s] = None
    /\ LET p == sessions[s].principal IN
       /\ \/ /\ ~Live(s)
             /\ BeginFamilyRevocation(r, s)
          \/ /\ Live(s)
             /\ now < sessions[s].expires
             /\ principals[p].active
             /\ ReauthDue(s, p)
             /\ BeginFamilyRevocation(r, s)
          \/ /\ Live(s)
             /\ now < sessions[s].expires
             /\ principals[p].active
             /\ ~ReauthDue(s, p)
             /\ KeyLeft
             /\ pc' = [pc EXCEPT ![r] = IF sessions[s].provider = "LOCAL"
                                        THEN "eligibility" ELSE "rotating"]
             /\ UNCHANGED victims
       /\ seen' = [seen EXCEPT ![r] = principals[p].version]
       /\ whose' = [whose EXCEPT ![r] = p]
    /\ lock' = Locking(r, s)
    /\ target' = [target EXCEPT ![r] = s]
    /\ UNCHANGED <<sessions, principals, now>>

\* principal.local_account is loaded by a statement of its own.
CheckEligibility(r) ==
    /\ pc[r] = "eligibility"
    /\ \/ /\ principals[whose[r]].eligible
          /\ pc' = [pc EXCEPT ![r] = "rotating"]
          /\ UNCHANGED victims
       \/ /\ ~principals[whose[r]].eligible
          /\ BeginFamilyRevocation(r, target[r])
    /\ UNCHANGED <<tables, target, whose, seen>>

\* The slip of a sliding expiry.
ProlongedRow(s, version) ==
    [sessions[s] EXCEPT !.status = "live", !.version = version,
                        !.expires = now + SessionTtl, !.replacedBy = None]

SuccessorRow(s, version) ==
    [sessions[s] EXCEPT !.status = "live", !.version = version, !.replacedBy = None]

\* The successor row and the update of the redeemed one commit together.
Rotate(r, n) ==
    /\ pc[r] = "rotating"
    /\ Fresh(n)
    /\ LET s == target[r] IN
       sessions' = [sessions EXCEPT ![s].status = "revoked",
                                    ![s].replacedBy = n,
                                    ![n] = SuccessorRow(s, seen[r])]
    /\ lock' = Unlocking(r)
    /\ Finish(r)
    /\ UNCHANGED <<principals, now>>

------------------------------------------------------------------------------
(* Revocation.  The rows to revoke are selected without a lock and written *)
(* by the flush before the commit, one UPDATE per row in key order.        *)

RevokePrincipalSessions(r, p) ==
    /\ pc[r] = "idle"
    /\ pc' = [pc EXCEPT ![r] = "flushing"]
    /\ whose' = [whose EXCEPT ![r] = p]
    /\ victims' = [victims EXCEPT ![r] = LiveOfPrincipal(p)]
    /\ UNCHANGED <<tables, target, seen>>

\* The rows r has still to update; a row deleted meanwhile matches no UPDATE.
Pending(r) == {v \in victims[r] : lock[v] # r /\ Stored(v)}

IsNext(r, v) == v \in Pending(r) /\ \A w \in Pending(r) : v <= w

LockVictim(r, v) ==
    /\ pc[r] = "flushing"
    /\ IsNext(r, v)
    /\ lock[v] = None
    /\ lock' = Locking(r, v)
    /\ UNCHANGED <<sessions, principals, now, locals>>

\* A slip: flushed but not committed.
RevokingNothing(S) == sessions

Revoking(S) ==
    [s \in SessionIds |-> IF s \in S /\ Stored(s)
                          THEN [sessions[s] EXCEPT !.status = "revoked"]
                          ELSE sessions[s]]

CommitRevocation(r) ==
    /\ pc[r] = "flushing"
    /\ Pending(r) = {}
    /\ sessions' = Revoking(victims[r])
    /\ lock' = Unlocking(r)
    /\ Finish(r)
    /\ UNCHANGED <<principals, now>>

\* Logout locks the row and does not ask whether it is revoked already.
BeginLogout(r, s) ==
    /\ pc[r] = "idle"
    /\ Stored(s)
    /\ lock[s] = None
    /\ lock' = Locking(r, s)
    /\ pc' = [pc EXCEPT ![r] = "leaving"]
    /\ target' = [target EXCEPT ![r] = s]
    /\ UNCHANGED <<sessions, principals, now, whose, seen, victims>>

\* It revokes this row alone.
CommitLogout(r) ==
    /\ pc[r] = "leaving"
    /\ sessions' = Revoking({target[r]})
    /\ lock' = Unlocking(r)
    /\ Finish(r)
    /\ UNCHANGED <<principals, now>>

\* The transaction of r is rolled back: a crash, a lost connection, an UPDATE
\* that matched no row, the victim of PostgreSQL's deadlock detection.
Abort(r) ==
    /\ pc[r] # "idle"
    /\ lock' = Unlocking(r)
    /\ Finish(r)
    /\ UNCHANGED <<sessions, principals, now>>

------------------------------------------------------------------------------
(* The maintenance job and the clock.                                      *)

\* The rows the job selects, and the slip of clearing away spent rows too.
ExpiredOrRevoked(s) == Stored(s) /\ (~Live(s) \/ sessions[s].expires <= now)
Expired(s)          == Stored(s) /\ sessions[s].expires <= now

\* One batch: LIMIT without ORDER BY may return any of the expired rows.  The
\* foreign key sets the reference to a deleted row to NULL.
Cleanup(S) ==
    /\ S # {}
    /\ \A s \in S : Expired(s) /\ lock[s] = None
    /\ sessions' = [s \in SessionIds |->
           IF s \in S THEN [sessions[s] EXCEPT !.status = "deleted", !.replacedBy = None]
           ELSE IF sessions[s].replacedBy \in S THEN [sessions[s] EXCEPT !.replacedBy = None]
           ELSE sessions[s]]
    /\ UNCHANGED <<lock, principals, now, locals>>

Tick ==
    /\ now < MaxTime
    /\ now' = now + 1
    /\ UNCHANGED <<sessions, lock, principals, locals>>

------------------------------------------------------------------------------
(* What other components commit to the principal and account rows while    *)
(* sessions are in use.                                                    *)

Count(b) == IF b THEN 1 ELSE 0

\* authorization_version += 1 is computed from the value its transaction read, and
\* that may be older than the one it overwrites.
ReadVersions(p) == 1 .. principals[p].version

Bumped(p, read, bumps) == IF bumps = 0 THEN principals[p].version ELSE read + bumps

\* An administrator updates a local account: a new role and a new status
\* count one version each, an expiry none.
UpdateLocalAccount(p) ==
    /\ Provider[p] = "LOCAL"
    /\ \E role \in Roles, active, eligible \in BOOLEAN, bumps \in 0 .. 2,
          read \in ReadVersions(p) :
       /\ bumps >= Count(role # principals[p].role) + Count(active # principals[p].active)
       /\ eligible => active
       /\ Bumped(p, read, bumps) <= MaxVersion
       /\ principals' = [principals EXCEPT ![p] =
              [role |-> role, active |-> active, eligible |-> eligible,
               version |-> Bumped(p, read, bumps)]]
    /\ UNCHANGED <<sessions, lock, now, locals>>

\* A password action is issued (a change becomes due) or consumed (the account
\* is enabled; it may still have expired).
ReplaceCredential(p) ==
    /\ Provider[p] = "LOCAL"
    /\ \E read \in ReadVersions(p), due, expired \in BOOLEAN :
       /\ read < MaxVersion
       /\ principals' = [principals EXCEPT
              ![p] = [@ EXCEPT !.active = principals[p].active \/ ~due,
                               !.eligible = ~due /\ ~expired, !.version = read + 1]]
    /\ UNCHANGED <<sessions, lock, now, locals>>

\* A SAML response brings other groups for a known identity.
ResolvePingPrincipal(p) ==
    /\ Provider[p] = "PING_SAML"
    /\ \E role \in Roles \ {principals[p].role}, read \in ReadVersions(p) :
           /\ read < MaxVersion
           /\ principals' = [principals EXCEPT
                  ![p] = [@ EXCEPT !.role = role, !.version = read + 1]]
    /\ UNCHANGED <<sessions, lock, now, locals>>

------------------------------------------------------------------------------

Step(r) ==
    \/ \E n \in SessionIds : CreateSession(r, n)
    \/ CheckEligibility(r)
    \/ \E n \in SessionIds : Rotate(r, n)
    \/ \E v \in SessionIds : LockVictim(r, v)
    \/ CommitRevocation(r)
    \/ CommitLogout(r)

Next ==
    \/ \E r \in Requests, p \in Principals : Authenticate(r, p)
    \/ \E r \in Requests, s \in SessionIds : Refresh(r, s) \/ BeginLogout(r, s)
    \/ \E r \in Requests, p \in Principals : RevokePrincipalSessions(r, p)
    \/ \E r \in Requests : Step(r)
    \/ \E r \in Requests : Abort(r)
    \/ \E S \in SUBSET SessionIds : Cleanup(S)
    \/ \E p \in Principals :
           UpdateLocalAccount(p) \/ ReplaceCredential(p) \/ ResolvePingPrincipal(p)
    \/ Tick

Spec == Init /\ [][Next]_vars

\* r waits for the row lock q holds.
WaitsFor(r, q) ==
    /\ pc[r] = "flushing"
    /\ \E v \in SessionIds : IsNext(r, v) /\ lock[v] = q

\* The requests that wait in circles.
Deadlocked(C) ==
    \A r \in C : (\E q \in C : WaitsFor(r, q)) /\ (\E q \in C : WaitsFor(q, r))

InDeadlock(r) == \E C \in SUBSET Requests : r \in C /\ Deadlocked(C)

\* A worker keeps running its request; PostgreSQL queues the waiters of a row
\* lock, so one that waits long enough gets it; its deadlock detection rolls
\* one of the waiters back.  New requests, aborts and time are not fair.
Fairness ==
    \A r \in Requests :
        /\ WF_vars(Step(r))
        /\ SF_vars(\E v \in SessionIds : LockVictim(r, v))
        /\ WF_vars(InDeadlock(r) /\ Abort(r))

FairSpec == Spec /\ Fairness
==============================================================================
