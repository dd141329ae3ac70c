---------------------------- MODULE LocalAccounts -----------------------------
(***************************************************************************)
(* Local accounts: their creation and update by an administrator, the      *)
(* password actions an administrator issues and the user consumes, and     *)
(* what these do to the sessions of the account.                           *)
(*                                                                         *)
(* A request works on copies of the rows it loaded and commits several     *)
(* times; its flush writes the columns whose value differs from the copy   *)
(* and holds the rows it writes until the commit.  Sessions are selected   *)
(* without locks and revoked by the commit, which waits for refreshes.     *)
(***************************************************************************)
EXTENDS Naturals, FiniteSets

CONSTANTS Accounts,     \* normalized usernames, each with its principal
          Codes,        \* keys of local_password_action
          Keys,         \* keys of auth_idempotency_key
          Requests,     \* the requests that may be in progress at a time
          StartAdmins,  \* bound: the administrators there may be at first
          Asks,         \* bound: the updates administrators ask for
          SessionIds,   \* keys of auth_refresh_session
          MaxSessions,  \* bound of the live sessions
          MaxVersion,   \* bound of authorization_version
          None

Operations == {"update", "issue", "create", "consume", "signin", "refresh"}

ASSUME NoneAssumption ==
    None \notin Accounts \cup Codes \cup Keys \cup Requests \cup Operations
ASSUME StartAssumption == StartAdmins \subseteq SUBSET Accounts
ASSUME AsksAssumption ==
    Asks \subseteq [role : {"ADMIN", "READ_ONLY", None}, enabled : {TRUE, FALSE, None}]
                  \ {[role |-> None, enabled |-> None]}
ASSUME BoundsAssumption == MaxSessions \in Nat /\ MaxVersion \in Nat \ {0}

VARIABLES accounts,  \* rows of local_account, each joined with its principal
          codes,     \* rows of local_password_action
          grants,    \* the accounts each code has set the password of, and how often
          keys,      \* the reserved idempotency keys
          applied,   \* how often the operation of each key was committed
          audited,   \* the keys whose operation has its audit event
          sessions,  \* the rows of auth_refresh_session that are live
          lock,      \* the request that holds the lock on a code row
          req,       \* what each request works on
          late       \* history: sessions a new password has missed

rows == <<accounts, codes, grants, keys, applied, audited, sessions>>
vars == <<rows, lock, req, late>>

Roles == {"ADMIN", "READ_ONLY"}

\* password: the code that set it, None for one that was never chosen.
AccountRows == [exists : BOOLEAN, role : Roles, active : BOOLEAN, enabled : BOOLEAN,
                mustChange : BOOLEAN, version : 1 .. MaxVersion, password : Codes \cup {None}]

Absent == [exists |-> FALSE, role |-> "READ_ONLY", active |-> TRUE, enabled |-> TRUE,
           mustChange |-> TRUE, version |-> 1, password |-> None]

\* password: the one the session was signed in with.
SessionRows == [account : Accounts \cup {None}, version : 1 .. MaxVersion,
                password : Codes \cup {None}]

NoSession == [account |-> None, version |-> 1, password |-> None]

\* What an update may ask for; None leaves a column alone.  An update of neither
\* column changes nothing here and is left out.
NoPayload == [role |-> None, enabled |-> None]
Payloads  == [role : Roles \cup {None}, enabled : BOOLEAN \cup {None}] \ {NoPayload}

\* own: the administrator works on the own account.  ends: the sessions the request is to
\* end.
Idle == [at |-> "idle", op |-> None, own |-> FALSE, account |-> None, key |-> None,
         copy |-> Absent, counted |-> {}, code |-> None, outstanding |-> {},
         payload |-> NoPayload, ends |-> {}]

\* The request after its last use of what it loaded.
Done(q, at) == [Idle EXCEPT !.at = at, !.account = q.account, !.key = q.key]

RequestRecords ==
    [at : {"idle", "account", "loaded", "reserved", "written", "created", "selected",
           "revoking", "changed", "signing", "rotating", "checked"},
     op : Operations \cup {None},
     own : BOOLEAN, account : Accounts \cup {None}, key : Keys \cup {None},
     copy : AccountRows, counted : SUBSET Accounts, code : Codes \cup {None},
     outstanding : SUBSET Codes, payload : Payloads \cup {NoPayload},
     ends : SUBSET SessionIds]

TypeOK ==
    /\ accounts \in [Accounts -> AccountRows]
    /\ codes \in [Codes -> [status : {"unused", "open", "consumed"},
                            account : Accounts \cup {None}]]
    /\ grants \in [Codes -> [count : Nat, to : SUBSET Accounts]]
    /\ keys \subseteq Keys
    /\ applied \in [Keys -> Nat]
    /\ audited \subseteq Keys
    /\ sessions \in [SessionIds -> SessionRows]
    /\ lock \in [Codes -> Requests \cup {None}]
    /\ req \in [Requests -> RequestRecords]
    /\ late \in [Requests -> SUBSET SessionIds]

\* The bootstrap job and earlier requests have left some administrators and users.
Init ==
    /\ \E admins \in StartAdmins : \E users \in SUBSET (Accounts \ admins) :
           accounts = [a \in Accounts |->
               IF a \in admins \cup users
               THEN [Absent EXCEPT !.exists = TRUE, !.mustChange = FALSE,
                                   !.role = IF a \in admins THEN "ADMIN" ELSE "READ_ONLY"]
               ELSE Absent]
    /\ codes = [c \in Codes |-> [status |-> "unused", account |-> None]]
    /\ grants = [c \in Codes |-> [count |-> 0, to |-> {}]]
    /\ keys = {}
    /\ applied = [k \in Keys |-> 0]
    /\ audited = {}
    /\ sessions = [s \in SessionIds |-> NoSession]
    /\ lock = [c \in Codes |-> None]
    /\ req = [r \in Requests |-> Idle]
    /\ late = [r \in Requests |-> {}]

------------------------------------------------------------------------------

Exists(a) == accounts[a].exists
Open(c)   == codes[c].status = "open"

\* The check of the account on sign-in, on refresh and on every authorized request.
Usable(a) == Exists(a) /\ accounts[a].active /\ accounts[a].enabled /\ ~accounts[a].mustChange

Authorized(a) == Usable(a) /\ accounts[a].role = "ADMIN"

\* The administrators that count_active_admins counts; a slip that forgets whom
\* to leave out.
CountedAdmins == {a \in Accounts : Exists(a) /\ accounts[a].role = "ADMIN"
                                       /\ accounts[a].active /\ accounts[a].enabled}
AllAdmins(a)   == CountedAdmins
OtherAdmins(a) == CountedAdmins \ {a}

\* The slip of writing every column back.
WrittenBack(row, loaded, set) == set

\* A flush writes the columns that were given another value than the one loaded.
Flushed(row, loaded, set) ==
    [f \in DOMAIN row |-> IF set[f] = loaded[f] THEN row[f] ELSE set[f]]

\* A reset writes the account unless the change is due already; a new password always.
WritesAccount(r) ==
    \/ req[r].op = "consume"
    \/ req[r].op = "issue" /\ ~req[r].copy.mustChange

\* Loading the principal of an account flushes what has been assigned to the account, the
\* selection of sessions what has been assigned to both: until its commit the request holds
\* the rows.
FlushesEarly(r) == WritesAccount(r) /\ ~req[r].own

AccountHeld(a) ==
    \E r \in Requests : /\ req[r].account = a
                        /\ \/ req[r].at = "loaded" /\ FlushesEarly(r)
                           \/ req[r].at = "revoking" /\ WritesAccount(r)

PrincipalHeld(a) ==
    \E r \in Requests : /\ req[r].account = a
                        /\ req[r].at = "revoking"
                        /\ req[r].op \in {"issue", "consume"}

Live(s) == sessions[s].account # None

\* The slip of revoking the sessions of an earlier version.
OutdatedOf(a) == {s \in SessionIds : /\ Live(s) /\ sessions[s].account = a
                                     /\ sessions[s].version # accounts[a].version}

\* The sessions a revocation selects.
SessionsOf(a) == {s \in SessionIds : Live(s) /\ sessions[s].account = a}

Ended(S) == [s \in SessionIds |-> IF s \in S THEN NoSession ELSE sessions[s]]

\* A refresh holds the row it rotates.
RowHeld(s) == \E r \in Requests : req[r].op = "refresh" /\ s \in req[r].ends

\* A key stands for another row when no request works with the one it stood for.
Unused(s) == ~Live(s) /\ \A r \in Requests : s \notin req[r].ends

Unlocking(r) == [c \in Codes |-> IF lock[c] = r THEN None ELSE lock[c]]

\* The slip of a key that is not unique.
AnyKey(k)   == TRUE
KeyIsNew(k) == k \notin keys

------------------------------------------------------------------------------
(* An administrator's request loads the account, then its principal (the   *)
(* administrator's own rows have been loaded by the authorization check).  *)

BeginUpdate(r, p, a, payload) ==
    /\ req[r].at = "idle"
    /\ Authorized(p)
    /\ Exists(a)
    /\ req' = [req EXCEPT ![r] = [Idle EXCEPT !.at = "account", !.op = "update", !.own = (p = a),
                                              !.account = a, !.copy = accounts[a],
                                              !.payload = payload]]
    /\ UNCHANGED <<rows, lock>>

LoadPrincipal(r) ==
    LET a == req[r].account
        loaded == IF req[r].own THEN req[r].copy
                  ELSE [req[r].copy EXCEPT !.role = accounts[a].role,
                                           !.active = accounts[a].active,
                                           !.version = accounts[a].version]
    IN /\ req[r].at = "account"
       /\ FlushesEarly(r) => ~AccountHeld(a)
       /\ req' = [req EXCEPT ![r].at = "loaded", ![r].copy = loaded]
       /\ UNCHANGED <<rows, lock>>

RemovesAdmin(r) ==
    /\ req[r].copy.role = "ADMIN"
    /\ req[r].payload.role = "READ_ONLY" \/ req[r].payload.enabled = FALSE

\* The other administrators are counted without a lock, and the idempotency key
\* is committed.
ReserveUpdate(r, k) ==
    LET others == OtherAdmins(req[r].account) IN
    /\ req[r].at = "loaded"
    /\ req[r].op = "update"
    /\ RemovesAdmin(r) => others # {}
    /\ KeyIsNew(k)
    /\ keys' = keys \cup {k}
    /\ req' = [req EXCEPT ![r].at = "reserved", ![r].key = k,
                          ![r].counted = IF RemovesAdmin(r) THEN others ELSE {}]
    /\ UNCHANGED <<accounts, codes, grants, applied, audited, sessions, lock>>

\* The slip of assigning a column that was not asked for.
UpdatedVerbatim(copy, payload) ==
    [copy EXCEPT !.role = payload.role, !.enabled = payload.enabled]

\* What update_local_account assigns, from the copy and the payload.
Updated(copy, payload) ==
    LET role == IF payload.role = None THEN copy.role ELSE payload.role
        enabled == IF payload.enabled = None THEN copy.enabled ELSE payload.enabled
        changes == (IF role # copy.role THEN 1 ELSE 0)
                   + (IF enabled # copy.enabled THEN 1 ELSE 0)
    IN [copy EXCEPT !.role = role, !.enabled = enabled,
                    !.active = IF enabled # copy.enabled THEN enabled ELSE @,
                    !.version = @ + changes]

CommitUpdate(r) ==
    LET a == req[r].account
        set == Updated(req[r].copy, req[r].payload)
    IN /\ req[r].at = "reserved"
       /\ req[r].op = "update"
       /\ set.version <= MaxVersion
       /\ set.enabled # req[r].copy.enabled => ~AccountHeld(a)
       /\ set.version # req[r].copy.version => ~PrincipalHeld(a)
       /\ accounts' = [accounts EXCEPT ![a] = Flushed(@, req[r].copy, set)]
       /\ applied' = [applied EXCEPT ![req[r].key] = @ + 1]
       /\ req' = [req EXCEPT ![r] = Done(@, "written")]
       /\ UNCHANGED <<codes, grants, keys, audited, sessions, lock>>

\* The sessions to revoke are selected without locks: by an update in a transaction of its
\* own, otherwise after the flush of the account and its principal.
SelectSessions(r) ==
    LET a == req[r].account IN
    /\ \/ req[r].at = "written"
       \/ /\ req[r].at = "loaded"
          /\ req[r].op \in {"issue", "consume"}
          /\ ~PrincipalHeld(a)
          /\ WritesAccount(r) /\ req[r].own => ~AccountHeld(a)
    /\ req' = [req EXCEPT ![r].at = "revoking", ![r].ends = SessionsOf(a)]
    /\ UNCHANGED <<rows, lock>>

\* Their rows are written after the refreshes that hold them.
RevokeSelected(r) ==
    /\ req[r].at = "revoking"
    /\ \A s \in req[r].ends : ~RowHeld(s)
    /\ sessions' = Ended(req[r].ends)

RevokeSessions(r) ==
    /\ req[r].op = None
    /\ RevokeSelected(r)
    /\ req' = [req EXCEPT ![r] = Done(@, "changed")]
    /\ UNCHANGED <<accounts, codes, grants, keys, applied, audited, lock>>

\* The audit event is the last transaction of a request.
Audit(r) ==
    /\ req[r].at = "changed"
    /\ audited' = audited \cup {req[r].key}
    /\ req' = [req EXCEPT ![r] = Idle]
    /\ UNCHANGED <<accounts, codes, grants, keys, applied, sessions, lock>>

------------------------------------------------------------------------------
(* Creation of an account and issue of a password action.                  *)

\* The account is loaded and the key committed; of an account to be created there
\* is nothing to load.
Reserve(r, p, op, a, k) ==
    /\ req[r].at = "idle"
    /\ Authorized(p)
    /\ op = "issue" => Exists(a)
    /\ KeyIsNew(k)
    /\ keys' = keys \cup {k}
    /\ req' = [req EXCEPT ![r] = [Idle EXCEPT !.at = "reserved", !.op = op, !.own = (p = a),
                                              !.account = a, !.key = k,
                                              !.copy = IF op = "issue" THEN accounts[a]
                                                       ELSE Absent]]
    /\ UNCHANGED <<accounts, codes, grants, applied, audited, sessions, lock>>

\* The unique username lets one of two creations insert it.
CreateAccount(r) ==
    LET a == req[r].account IN
    /\ req[r].at = "reserved"
    /\ req[r].op = "create"
    /\ ~Exists(a)
    /\ \E role \in Roles :
           accounts' = [accounts EXCEPT ![a] = [Absent EXCEPT !.exists = TRUE, !.role = role]]
    /\ applied' = [applied EXCEPT ![req[r].key] = @ + 1]
    /\ req' = [req EXCEPT ![r].at = "created"]
    /\ UNCHANGED <<codes, grants, keys, audited, sessions, lock>>

\* The outstanding codes of the account are selected without a lock.
SelectOutstanding(r) ==
    /\ \/ req[r].at = "reserved" /\ req[r].op = "issue"
       \/ req[r].at = "created"
    /\ req' = [req EXCEPT ![r].at = "selected",
                          ![r].outstanding = {c \in Codes : Open(c)
                                                  /\ codes[c].account = req[r].account}]
    /\ UNCHANGED <<rows, lock>>

\* They are consumed and the new code is inserted by one commit, which waits for
\* the locks of those that are being redeemed.
CommitCode(r, c) ==
    /\ req[r].at = "selected"
    /\ codes[c].status = "unused"
    /\ \A o \in req[r].outstanding : lock[o] = None
    /\ codes' = [d \in Codes |->
           IF d = c THEN [status |-> "open", account |-> req[r].account]
           ELSE IF d \in req[r].outstanding THEN [codes[d] EXCEPT !.status = "consumed"]
           ELSE codes[d]]
    /\ req' = [req EXCEPT ![r] = IF req[r].op = "create" THEN Done(@, "changed")
                                 ELSE [@ EXCEPT !.at = "account", !.outstanding = {}]]
    /\ UNCHANGED <<accounts, grants, keys, applied, audited, sessions, lock>>

\* Of a reset, the change that is now due, the version and the sessions follow in
\* a second transaction, with the principal loaded for it.
CommitReset(r) ==
    LET a == req[r].account
        set == [req[r].copy EXCEPT !.mustChange = TRUE, !.version = @ + 1]
    IN /\ req[r].op = "issue"
       /\ RevokeSelected(r)
       /\ set.version <= MaxVersion
       /\ accounts' = [accounts EXCEPT ![a] = Flushed(@, req[r].copy, set)]
       /\ applied' = [applied EXCEPT ![req[r].key] = @ + 1]
       /\ req' = [req EXCEPT ![r] = Done(@, "changed")]
       /\ UNCHANGED <<codes, grants, keys, audited, lock>>

------------------------------------------------------------------------------
(* POST /auth/local/password-action.                                       *)

\* The slip of a select without FOR UPDATE.
NoLocking(r, c) == lock
Locking(r, c)   == [lock EXCEPT ![c] = r]

LockCode(r, c) ==
    /\ req[r].at = "idle"
    /\ Open(c)
    /\ lock[c] = None
    /\ lock' = Locking(r, c)
    /\ req' = [req EXCEPT ![r] = [Idle EXCEPT !.at = "account", !.op = "consume", !.code = c,
                                              !.account = codes[c].account,
                                              !.copy = accounts[codes[c].account]]]
    /\ UNCHANGED rows

\* The code, the password, the account and the sessions change in one commit.
CommitPassword(r) ==
    LET a == req[r].account
        c == req[r].code
        set == [req[r].copy EXCEPT !.password = c, !.mustChange = FALSE, !.enabled = TRUE,
                                   !.active = TRUE, !.version = @ + 1]
    IN /\ req[r].op = "consume"
       /\ RevokeSelected(r)
       /\ set.version <= MaxVersion
       /\ codes' = [codes EXCEPT ![c].status = "consumed"]
       /\ grants' = [grants EXCEPT ![c] = [count |-> @.count + 1, to |-> @.to \cup {a}]]
       /\ accounts' = [accounts EXCEPT ![a] = Flushed(@, req[r].copy, set)]
       /\ lock' = Unlocking(r)
       /\ req' = [req EXCEPT ![r] = Idle]
       /\ UNCHANGED <<keys, applied, audited>>

\* A code expires; the cleanup job deletes it some time later.
Expire(c) ==
    /\ Open(c)
    /\ lock[c] = None
    /\ codes' = [codes EXCEPT ![c].status = "consumed"]
    /\ UNCHANGED <<accounts, grants, keys, applied, audited, sessions, lock, req>>

------------------------------------------------------------------------------
(* The sessions of local accounts.                                         *)

\* The credentials are accepted by one transaction, which locks the account ...
Authenticate(r, a) ==
    /\ req[r].at = "idle"
    /\ ~AccountHeld(a)
    /\ Usable(a)
    /\ req' = [req EXCEPT ![r] = [Idle EXCEPT !.at = "signing", !.op = "signin",
                                              !.account = a, !.copy = accounts[a]]]
    /\ UNCHANGED <<rows, lock>>

\* ... and the session is inserted by the next, from what the first has loaded.
CreateSession(r, s) ==
    LET a == req[r].account IN
    /\ req[r].at = "signing"
    /\ Cardinality({t \in SessionIds : Live(t)}) < MaxSessions
    /\ Unused(s)
    /\ sessions' = [sessions EXCEPT ![s] = [account |-> a, version |-> req[r].copy.version,
                                            password |-> req[r].copy.password]]
    /\ req' = [req EXCEPT ![r] = Idle]
    /\ UNCHANGED <<accounts, codes, grants, keys, applied, audited, lock>>

\* A refresh locks the row of its session and reads the principal ...
BeginRefresh(r, s) ==
    /\ req[r].at = "idle"
    /\ Live(s)
    /\ ~RowHeld(s)
    /\ LET a == sessions[s].account
       IN /\ accounts[a].active
          /\ req' = [req EXCEPT ![r] = [Idle EXCEPT !.at = "rotating", !.op = "refresh",
                                                    !.account = a, !.ends = {s},
                                                    !.copy.version = accounts[a].version]]
    /\ UNCHANGED <<rows, lock>>

\* ... then the account, and ends the session if that is not eligible ...
CheckAccount(r) ==
    LET row == accounts[req[r].account] IN
    /\ req[r].at = "rotating"
    /\ IF row.enabled /\ ~row.mustChange
       THEN req' = [req EXCEPT ![r].at = "checked"] /\ UNCHANGED sessions
       ELSE req' = [req EXCEPT ![r] = Idle] /\ sessions' = Ended(req[r].ends)
    /\ UNCHANGED <<accounts, codes, grants, keys, applied, audited, lock>>

\* ... and inserts the successor under the version it has read.
CommitRefresh(r, s) ==
    LET a == req[r].account IN
    /\ req[r].at = "checked"
    /\ Unused(s)
    /\ \E t \in req[r].ends :
           sessions' = [Ended({t}) EXCEPT ![s] = [account |-> a,
                                                  version |-> req[r].copy.version,
                                                  password |-> sessions[t].password]]
    /\ req' = [req EXCEPT ![r] = Idle]
    /\ UNCHANGED <<accounts, codes, grants, keys, applied, audited, lock>>

\* A session ends by logout or in time.
EndSession(s) ==
    /\ Live(s)
    /\ ~RowHeld(s)
    /\ sessions' = Ended({s})
    /\ UNCHANGED <<accounts, codes, grants, keys, applied, audited, lock, req>>

\* get_current_principal accepts the access token of this session.
Accepted(s) ==
    LET a == sessions[s].account IN sessions[s].version = accounts[a].version /\ Usable(a)

------------------------------------------------------------------------------

\* A request ends where it is: it is refused, or its process dies.
Abort(r) ==
    /\ req[r].at # "idle"
    /\ lock' = Unlocking(r)
    /\ req' = [req EXCEPT ![r] = Idle]
    /\ UNCHANGED rows

Step ==
    \/ \E r \in Requests, p, a \in Accounts, payload \in Asks : BeginUpdate(r, p, a, payload)
    \/ \E r \in Requests, k \in Keys : ReserveUpdate(r, k)
    \/ \E r \in Requests, p, a \in Accounts, op \in {"issue", "create"}, k \in Keys :
           Reserve(r, p, op, a, k)
    \/ \E r \in Requests, c \in Codes : CommitCode(r, c) \/ LockCode(r, c)
    \/ \E r \in Requests, a \in Accounts : Authenticate(r, a)
    \/ \E r \in Requests, s \in SessionIds :
           CreateSession(r, s) \/ BeginRefresh(r, s) \/ CommitRefresh(r, s)
    \/ \E r \in Requests :
           \/ LoadPrincipal(r)
           \/ CommitUpdate(r)
           \/ SelectSessions(r)
           \/ RevokeSessions(r)
           \/ CheckAccount(r)
           \/ Audit(r)
           \/ CreateAccount(r)
           \/ SelectOutstanding(r)
           \/ CommitReset(r)
           \/ CommitPassword(r)
           \/ Abort(r)
    \/ \E c \in Codes : Expire(c)
    \/ \E s \in SessionIds : EndSession(s)

\* History: a request that sets a password misses the sessions that are inserted after it
\* has selected.
Replacing(r) == req[r].at = "revoking" /\ req[r].op = "consume"

Noticing ==
    late' = [r \in Requests |->
                IF Replacing(r) /\ Replacing(r)'
                THEN late[r] \cup {s \in SessionsOf(req[r].account)' : ~Live(s)}
                ELSE {}]

Next == Step /\ Noticing

Spec == Init /\ [][Next]_vars
==============================================================================
