------------------------- MODULE LocalAccountsProofs -------------------------
(***************************************************************************)
(* Proofs about LocalAccounts for every number of accounts, codes, keys    *)
(* and requests, and any updates administrators ask for.                   *)
(***************************************************************************)
EXTENDS LocalAccountsProperties, TLAPS

Consuming(q) == q.at \in {"account", "loaded", "revoking"} /\ q.op = "consume"

\* The requests that have reserved a key, and those of them that have not yet done what
\* they reserved it for.
HasKey(q) ==
    \/ q.at \in {"reserved", "created", "selected", "written", "changed"}
    \/ q.at \in {"account", "loaded"} /\ q.op = "issue"
    \/ q.at = "revoking" /\ q.op # "consume"

NotYet(q) ==
    \/ q.at = "reserved"
    \/ q.at \in {"account", "loaded", "selected", "revoking"} /\ q.op = "issue"

\* The requests whose account has a row.
OnRow(q) ==
    \/ q.at \in {"account", "loaded", "created", "selected"}
    \/ q.at = "reserved" /\ q.op # "create"
    \/ q.at = "revoking" /\ q.op # None

Removing(q) ==
    /\ q.at = "reserved"
    /\ q.op = "update"
    /\ q.copy.role = "ADMIN"
    /\ q.payload.role = "READ_ONLY" \/ q.payload.enabled = FALSE

\* What a request works on, whatever the others do.
RequestInOrder(q) ==
    /\ q.at # "idle" => q.account \in Accounts
    /\ q.at \in {"account", "loaded"} => q.op \in {"update", "issue", "consume"}
    /\ q.at = "reserved" => q.op \in {"update", "issue", "create"}
    /\ q.at = "created" => q.op = "create"
    /\ q.at = "selected" => q.op \in {"issue", "create"}
    /\ q.at = "written" => q.op = None
    /\ q.at = "revoking" => q.op \in {"issue", "consume", None}
    /\ q.op = "refresh" <=> q.at \in {"rotating", "checked"}
    /\ HasKey(q) => q.key \in Keys
    /\ Removing(q) => q.counted # {} /\ q.account \notin q.counted

\* A key is reserved by one request, and applied is what that request has done.
KeyInOrder(q) ==
    HasKey(q) => q.key \in keys /\ applied[q.key] = (IF NotYet(q) THEN 0 ELSE 1)

KeysInOrder ==
    /\ OncePerKey
    /\ \A k \in Keys \ keys : applied[k] = 0
    /\ \A r \in Requests : KeyInOrder(req[r])
    /\ \A r, s \in Requests :
           HasKey(req[r]) /\ HasKey(req[s]) /\ req[r].key = req[s].key => r = s

\* Rows stay; one that does not exist has no password.
RowsInOrder ==
    /\ \A a \in Accounts : ~Exists(a) => accounts[a].password = None
    /\ \A r \in Requests : OnRow(req[r]) => Exists(req[r].account)
    /\ \A c \in Codes : Open(c) => codes[c].account \in Accounts /\ Exists(codes[c].account)

\* A code that is redeemed is locked by its request, and open until that commits; those
\* a request found outstanding were issued for its account.
CodeHeld(q, r) ==
    /\ Consuming(q) => /\ q.code \in Codes /\ lock[q.code] = r
                       /\ Open(q.code) /\ codes[q.code].account = q.account
    /\ q.at = "selected" =>
           \A o \in q.outstanding : codes[o].status # "unused" /\ codes[o].account = q.account

CodesInOrder ==
    /\ \A c \in Codes : codes[c].status # "consumed" => grants[c].count = 0 /\ grants[c].to = {}
    /\ \A r \in Requests : CodeHeld(req[r], r)

\* A refresh holds a live session of its account, which no other refresh holds.
RefreshesInOrder ==
    /\ \A r \in Requests : req[r].op = "refresh" =>
           \A s \in req[r].ends : Live(s) /\ sessions[s].account = req[r].account
    /\ \A r, t \in Requests : req[r].op = "refresh" /\ req[t].op = "refresh" /\ r # t =>
           req[r].ends \cap req[t].ends = {}

\* What a replacement of a password has not selected has come since.
NothingMissed ==
    \A r \in Requests : Replacing(r) =>
        SessionsOf(req[r].account) \subseteq req[r].ends \cup late[r]

IInv ==
    /\ TypeOK
    /\ \A r \in Requests : RequestInOrder(req[r])
    /\ KeysInOrder
    /\ RowsInOrder
    /\ CodesInOrder
    /\ RefreshesInOrder
    /\ NothingMissed

------------------------------------------------------------------------------
(* Rows and what is written over them.                                     *)

LEMMA AbsentIsRow == Absent \in AccountRows
  BY BoundsAssumption DEF Absent, AccountRows, Roles

\* The columns of a row.
LEMMA RowColumns ==
    ASSUME NEW row \in AccountRows
    PROVE  /\ DOMAIN row = {"exists", "role", "active", "enabled", "mustChange", "version",
                            "password"}
           /\ row = [exists |-> row.exists, role |-> row.role, active |-> row.active,
                     enabled |-> row.enabled, mustChange |-> row.mustChange,
                     version |-> row.version, password |-> row.password]
           /\ row.exists \in BOOLEAN /\ row.role \in Roles /\ row.active \in BOOLEAN
           /\ row.enabled \in BOOLEAN /\ row.mustChange \in BOOLEAN
           /\ row.version \in 1 .. MaxVersion /\ row.password \in Codes \cup {None}
  BY DEF AccountRows

\* A flush leaves a row whose columns are those it found or those that were assigned.
LEMMA FlushedIsRow ==
    ASSUME NEW row \in AccountRows, NEW loaded \in AccountRows, NEW set \in AccountRows
    PROVE  /\ Flushed(row, loaded, set) \in AccountRows
           /\ \A f \in DOMAIN row :
                  Flushed(row, loaded, set)[f] = IF set[f] = loaded[f] THEN row[f] ELSE set[f]
<1> DEFINE new == Flushed(row, loaded, set)
<1>1. new = [f \in DOMAIN row |-> IF set[f] = loaded[f] THEN row[f] ELSE set[f]]
  BY DEF Flushed
<1>2. \A f \in DOMAIN row : new[f] = row[f] \/ new[f] = set[f]
  BY <1>1
<1>3. new = [exists |-> new.exists, role |-> new.role, active |-> new.active,
             enabled |-> new.enabled, mustChange |-> new.mustChange,
             version |-> new.version, password |-> new.password]
  BY <1>1, RowColumns
<1>4. /\ new.exists \in BOOLEAN /\ new.role \in Roles /\ new.active \in BOOLEAN
      /\ new.enabled \in BOOLEAN /\ new.mustChange \in BOOLEAN
      /\ new.version \in 1 .. MaxVersion /\ new.password \in Codes \cup {None}
  BY <1>2, RowColumns
<1>5. new \in AccountRows
  BY <1>3, <1>4 DEF AccountRows
<1>6. QED
  BY <1>1, <1>5

\* What the update of a copy assigns.
LEMMA UpdatedIsRow ==
    ASSUME NEW copy \in AccountRows, NEW payload \in Payloads \cup {NoPayload},
           Updated(copy, payload).version <= MaxVersion
    PROVE  /\ Updated(copy, payload) \in AccountRows
           /\ Updated(copy, payload).exists = copy.exists
           /\ Updated(copy, payload).password = copy.password
<1> DEFINE role == IF payload.role = None THEN copy.role ELSE payload.role
           enabled == IF payload.enabled = None THEN copy.enabled ELSE payload.enabled
           changes == (IF role # copy.role THEN 1 ELSE 0)
                      + (IF enabled # copy.enabled THEN 1 ELSE 0)
           active == IF enabled # copy.enabled THEN enabled ELSE copy.active
<1>1. payload.role \in Roles \cup {None} /\ payload.enabled \in BOOLEAN \cup {None}
  BY DEF Payloads, NoPayload
<1>2. role \in Roles /\ enabled \in BOOLEAN /\ active \in BOOLEAN
  BY <1>1, RowColumns
<1>3. changes \in Nat
  OBVIOUS
<1>4. Updated(copy, payload) = [exists |-> copy.exists, role |-> role, active |-> active,
                                enabled |-> enabled, mustChange |-> copy.mustChange,
                                version |-> copy.version + changes,
                                password |-> copy.password]
  <2>1. Updated(copy, payload) = [copy EXCEPT !.role = role, !.enabled = enabled,
                                              !.active = active,
                                              !.version = copy.version + changes]
    BY DEF Updated
  <2> HIDE DEF role, enabled, changes, active
  <2>2. QED
    BY <2>1, RowColumns
<1> HIDE DEF role, enabled, changes, active
<1>5. copy.version + changes \in 1 .. MaxVersion
  <2>1. copy.version \in Nat /\ copy.version >= 1
    BY RowColumns
  <2>2. copy.version + changes <= MaxVersion
    BY <1>4
  <2>3. QED
    BY <1>3, <2>1, <2>2, BoundsAssumption
<1>6. QED
  BY <1>2, <1>4, <1>5, RowColumns DEF AccountRows

\* What a reset and the consumption of a code assign.
LEMMA ReplacedIsRow ==
    ASSUME NEW copy \in AccountRows, copy.version + 1 <= MaxVersion
    PROVE  /\ [copy EXCEPT !.mustChange = TRUE, !.version = @ + 1] \in AccountRows
           /\ \A c \in Codes :
                  [copy EXCEPT !.password = c, !.mustChange = FALSE, !.enabled = TRUE,
                               !.active = TRUE, !.version = @ + 1] \in AccountRows
<1>1. copy.version + 1 \in 1 .. MaxVersion
  BY RowColumns, BoundsAssumption
<1>2. QED
  BY <1>1 DEF AccountRows

------------------------------------------------------------------------------
(* Types, and the shape of requests.                                       *)

LEMMA IdleIsRequest == Idle \in RequestRecords /\ RequestInOrder(Idle)
  BY AbsentIsRow, NoneAssumption DEF Idle, NoPayload, RequestRecords, Operations, RequestInOrder, HasKey, Removing

LEMMA DoneIsRequest ==
    ASSUME NEW q \in RequestRecords, RequestInOrder(q), HasKey(q),
           NEW at \in {"written", "changed"}
    PROVE  /\ Done(q, at) \in RequestRecords /\ RequestInOrder(Done(q, at))
           /\ Done(q, at).at = at /\ Done(q, at).account = q.account
           /\ Done(q, at).key = q.key /\ Done(q, at).op = None
<1> DEFINE d == Done(q, at)
<1>1. d = [Idle EXCEPT !.at = at, !.account = q.account, !.key = q.key]
  BY DEF Done
<1>2. /\ d.at = at /\ d.account = q.account /\ d.key = q.key /\ d.op = None
      /\ d.counted = {} /\ d \in RequestRecords
  BY <1>1, IdleIsRequest DEF Idle, RequestRecords, Operations
<1>3. q.account \in Accounts /\ q.key \in Keys
  <2>1. q.at # "idle"
    BY DEF HasKey
  <2>2. QED
    BY <2>1 DEF RequestInOrder
<1> HIDE DEF d
<1>4. RequestInOrder(d)
  BY <1>2, <1>3, NoneAssumption DEF RequestInOrder, HasKey, Removing, Operations
<1>5. QED
  BY <1>2, <1>4 DEF d

\* A request that goes on to q, where the others stay.
LEMMA RequestMoves ==
    ASSUME TypeOK, \A s \in Requests : RequestInOrder(req[s]), NEW r \in Requests,
           NEW q \in RequestRecords, RequestInOrder(q), req' = [req EXCEPT ![r] = q]
    PROVE  /\ req' \in [Requests -> RequestRecords]
           /\ \A s \in Requests : RequestInOrder(req'[s])
  BY DEF TypeOK

LEMMA UnlockingIsLock ==
    ASSUME TypeOK, NEW r \in Requests
    PROVE  /\ Unlocking(r) \in [Codes -> Requests \cup {None}]
           /\ \A c \in Codes : lock[c] # r => Unlocking(r)[c] = lock[c]
  BY DEF TypeOK, Unlocking

LEMMA EndedAreSessions ==
    ASSUME TypeOK, NEW S
    PROVE  /\ Ended(S) \in [SessionIds -> SessionRows]
           /\ \A s \in SessionIds : Ended(S)[s].account # None => Ended(S)[s] = sessions[s] /\ s \notin S
<1>1. NoSession \in SessionRows /\ NoSession.account = None
  BY BoundsAssumption DEF NoSession, SessionRows
<1>2. QED
  BY <1>1 DEF TypeOK, Ended

\* A sign-in ends with a session, a refresh takes one, goes on or ends it, and ends with
\* its successor.
SessionStep(r) ==
    \/ \E s \in SessionIds : CreateSession(r, s) \/ BeginRefresh(r, s) \/ CommitRefresh(r, s)
    \/ CheckAccount(r)

LEMMA SessionStepIsRequest ==
    ASSUME TypeOK, NEW r \in Requests, RequestInOrder(req[r]), SessionStep(r)
    PROVE  /\ \E q \in RequestRecords :
                  /\ RequestInOrder(q) /\ req' = [req EXCEPT ![r] = q]
                  /\ q.at \in {"idle", "rotating", "checked"}
           /\ sessions' \in [SessionIds -> SessionRows]
           /\ UNCHANGED <<accounts, codes, grants, keys, applied, audited, lock>>
<1> USE DEF rows
<1>0. /\ req[r] \in RequestRecords /\ accounts \in [Accounts -> AccountRows]
      /\ sessions \in [SessionIds -> SessionRows]
  BY DEF TypeOK
<1>1. Idle \in RequestRecords /\ RequestInOrder(Idle) /\ Idle.at = "idle"
  BY IdleIsRequest DEF Idle
<1>2. ASSUME NEW s \in SessionIds, CreateSession(r, s)
      PROVE  /\ req' = [req EXCEPT ![r] = Idle] /\ sessions' \in [SessionIds -> SessionRows]
             /\ UNCHANGED <<accounts, codes, grants, keys, applied, audited, lock>>
  <2> DEFINE new == [account |-> req[r].account, version |-> req[r].copy.version,
                     password |-> req[r].copy.password]
  <2>1. /\ req[r].at = "signing" /\ sessions' = [sessions EXCEPT ![s] = new]
        /\ req' = [req EXCEPT ![r] = Idle]
        /\ UNCHANGED <<accounts, codes, grants, keys, applied, audited, lock>>
    BY <1>2 DEF CreateSession
  <2>2. req[r].account \in Accounts /\ req[r].copy \in AccountRows
    BY <1>0, <2>1 DEF RequestInOrder, RequestRecords, Operations
  <2>3. new \in SessionRows
    BY <2>2, RowColumns DEF SessionRows
  <2> HIDE DEF new
  <2>4. QED
    BY <1>0, <2>1, <2>3
<1>3. ASSUME NEW s \in SessionIds, CommitRefresh(r, s)
      PROVE  /\ req' = [req EXCEPT ![r] = Idle] /\ sessions' \in [SessionIds -> SessionRows]
             /\ UNCHANGED <<accounts, codes, grants, keys, applied, audited, lock>>
  <2>1. /\ req[r].at = "checked" /\ req' = [req EXCEPT ![r] = Idle]
        /\ UNCHANGED <<accounts, codes, grants, keys, applied, audited, lock>>
    BY <1>3 DEF CommitRefresh
  <2>2. PICK t \in req[r].ends :
            sessions' = [Ended({t}) EXCEPT ![s] = [account |-> req[r].account,
                                                   version |-> req[r].copy.version,
                                                   password |-> sessions[t].password]]
    BY <1>3 DEF CommitRefresh
  <2> DEFINE new == [account |-> req[r].account, version |-> req[r].copy.version,
                     password |-> sessions[t].password]
  <2>3. t \in SessionIds /\ req[r].account \in Accounts /\ req[r].copy \in AccountRows
    BY <1>0, <2>1 DEF RequestInOrder, RequestRecords, Operations
  <2>4. new \in SessionRows
    BY <1>0, <2>3, RowColumns DEF SessionRows
  <2>5. Ended({t}) \in [SessionIds -> SessionRows]
    BY EndedAreSessions
  <2> HIDE DEF new
  <2>6. sessions' = [Ended({t}) EXCEPT ![s] = new]
    BY <2>2 DEF new
  <2>7. sessions' \in [SessionIds -> SessionRows]
    BY <2>4, <2>5, <2>6
  <2>8. QED
    BY <2>1, <2>7
<1>4. ASSUME NEW s \in SessionIds, BeginRefresh(r, s)
      PROVE  \E q \in RequestRecords : /\ RequestInOrder(q) /\ req' = [req EXCEPT ![r] = q]
                                        /\ q.at = "rotating"
  <2> DEFINE a == sessions[s].account
             copy == [Absent EXCEPT !.version = accounts[a].version]
             q == [Idle EXCEPT !.at = "rotating", !.op = "refresh", !.account = a, !.ends = {s},
                               !.copy = copy]
  <2>1. a \in Accounts
    BY <1>0, <1>4 DEF BeginRefresh, Live, SessionRows
  <2>2. copy \in AccountRows
    <3>1. accounts[a].version \in 1 .. MaxVersion
      BY <1>0, <2>1, RowColumns
    <3>2. QED
      BY <3>1, AbsentIsRow DEF AccountRows
  <2>3. Idle.copy = Absent
    BY DEF Idle
  <2>4. req' = [req EXCEPT ![r] = [Idle EXCEPT !.at = "rotating", !.op = "refresh",
                                               !.account = a, !.ends = {s},
                                               !.copy.version = accounts[a].version]]
    BY <1>4 DEF BeginRefresh
  <2>5. req' = [req EXCEPT ![r] = q]
    BY <2>3, <2>4
  <2> HIDE DEF copy
  <2>6. q \in RequestRecords
    BY <1>1, <2>1, <2>2 DEF RequestRecords, Operations
  <2>7. q.at = "rotating" /\ q.op = "refresh" /\ q.account = a
    BY DEF Idle
  <2> HIDE DEF q
  <2>8. RequestInOrder(q)
    BY <2>1, <2>7 DEF RequestInOrder, HasKey, Removing
  <2>9. QED
    BY <2>5, <2>6, <2>7, <2>8
<1>5. ASSUME CheckAccount(r)
      PROVE  /\ \E q \in RequestRecords :
                    /\ RequestInOrder(q) /\ req' = [req EXCEPT ![r] = q]
                    /\ q.at \in {"idle", "checked"}
             /\ sessions' \in [SessionIds -> SessionRows]
             /\ UNCHANGED <<accounts, codes, grants, keys, applied, audited, lock>>
  <2> DEFINE q == [req[r] EXCEPT !.at = "checked"]
  <2>1. /\ req[r].at = "rotating"
        /\ \/ req' = [req EXCEPT ![r] = q] /\ sessions' = sessions
           \/ req' = [req EXCEPT ![r] = Idle] /\ sessions' = Ended(req[r].ends)
        /\ UNCHANGED <<accounts, codes, grants, keys, applied, audited, lock>>
    BY <1>5 DEF CheckAccount
  <2>2. /\ q \in RequestRecords /\ q.at = "checked" /\ q.op = req[r].op
        /\ q.account = req[r].account
    BY <1>0 DEF RequestRecords, Operations
  <2> HIDE DEF q
  <2>3. RequestInOrder(q)
    BY <2>1, <2>2 DEF RequestInOrder, HasKey, Removing
  <2>4. QED
    BY <1>0, <1>1, <2>1, <2>2, <2>3, EndedAreSessions
<1>6. ASSUME NEW s \in SessionIds, BeginRefresh(r, s)
      PROVE  UNCHANGED <<accounts, codes, grants, keys, applied, audited, sessions, lock>>
  BY <1>6 DEF BeginRefresh
<1>7. QED
  BY <1>0, <1>1, <1>2, <1>3, <1>4, <1>5, <1>6 DEF SessionStep

\* A request that selects the sessions to revoke goes on with what it works on.
LEMMA SelectionIsRequest ==
    ASSUME TypeOK, NEW r \in Requests, RequestInOrder(req[r]), SelectSessions(r)
    PROVE  /\ \E q \in RequestRecords :
                  /\ RequestInOrder(q) /\ req' = [req EXCEPT ![r] = q]
                  /\ q.at = "revoking" /\ q.op = req[r].op /\ q.account = req[r].account
                  /\ q.key = req[r].key /\ q.code = req[r].code
           /\ req[r].at = "written" \/ (req[r].at = "loaded" /\ req[r].op \in {"issue", "consume"})
           /\ UNCHANGED <<rows, lock>>
<1> DEFINE found == SessionsOf(req[r].account)
           q == [req[r] EXCEPT !.at = "revoking", !.ends = found]
<1>1. /\ req' = [req EXCEPT ![r] = q] /\ UNCHANGED <<rows, lock>>
      /\ req[r].at = "written" \/ (req[r].at = "loaded" /\ req[r].op \in {"issue", "consume"})
  BY DEF SelectSessions
<1>2. found \subseteq SessionIds /\ req[r] \in RequestRecords
  BY DEF SessionsOf, TypeOK
<1> HIDE DEF found
<1>3. /\ q \in RequestRecords /\ q.at = "revoking" /\ q.op = req[r].op
      /\ q.account = req[r].account /\ q.key = req[r].key /\ q.code = req[r].code
  BY <1>2 DEF RequestRecords, Operations
<1> HIDE DEF q
<1>4. RequestInOrder(q)
  BY <1>1, <1>3 DEF RequestInOrder, HasKey, Removing
<1>5. QED
  BY <1>1, <1>3, <1>4

\* The copy a request goes on with when it has loaded the principal.
LEMMA LoadedIsRequest ==
    ASSUME TypeOK, NEW r \in Requests, RequestInOrder(req[r]), LoadPrincipal(r)
    PROVE  \E q \in RequestRecords :
               /\ RequestInOrder(q) /\ req' = [req EXCEPT ![r] = q]
               /\ req[r].at = "account" /\ q.at = "loaded" /\ q.op = req[r].op
               /\ q.account = req[r].account /\ q.key = req[r].key /\ q.code = req[r].code
<1> DEFINE a == req[r].account
           copy == req[r].copy
           mixed == [copy EXCEPT !.role = accounts[a].role, !.active = accounts[a].active,
                                 !.version = accounts[a].version]
           loaded == IF req[r].own THEN copy ELSE mixed
           q == [req[r] EXCEPT !.at = "loaded", !.copy = loaded]
<1>1. req[r] \in RequestRecords /\ copy \in AccountRows /\ req[r].at = "account"
  BY DEF TypeOK, RequestRecords, Operations, LoadPrincipal
<1>2. a \in Accounts /\ accounts[a] \in AccountRows
  BY <1>1 DEF TypeOK, RequestInOrder
<1>3. mixed \in AccountRows
  BY <1>1, <1>2 DEF AccountRows
<1>4. loaded \in AccountRows
  BY <1>1, <1>3
<1>5. req' = [req EXCEPT ![r] = q]
  BY DEF LoadPrincipal
<1> HIDE DEF loaded
<1>6. q \in RequestRecords
  BY <1>1, <1>4 DEF RequestRecords, Operations
<1>7. /\ q.at = "loaded" /\ q.op = req[r].op /\ q.account = req[r].account
      /\ q.key = req[r].key /\ q.code = req[r].code
  BY <1>1 DEF RequestRecords, Operations
<1> HIDE DEF q
<1>8. RequestInOrder(q)
  BY <1>1, <1>7 DEF RequestInOrder, HasKey, Removing
<1>9. QED
  BY <1>1, <1>5, <1>6, <1>7, <1>8

\* Every step keeps the types and the shape of requests.
LEMMA TypesKept ==
    ASSUME TypeOK, \A r \in Requests : RequestInOrder(req[r]), RowsInOrder, CodesInOrder,
           [Next]_vars
    PROVE  TypeOK' /\ \A r \in Requests : RequestInOrder(req[r])'
<1> USE DEF rows
<1>0. /\ req \in [Requests -> RequestRecords] /\ accounts \in [Accounts -> AccountRows]
      /\ \A r \in Requests : req[r] \in RequestRecords
  BY DEF TypeOK
<1>late. late' \in [Requests -> SUBSET SessionIds]
  <2>1. CASE UNCHANGED vars
    BY <2>1 DEF vars, TypeOK
  <2>2. CASE Noticing
    <3>1. \A r \in Requests : SessionsOf(req[r].account)' \subseteq SessionIds
      BY DEF SessionsOf
    <3>2. \A r \in Requests : late[r] \subseteq SessionIds
      BY DEF TypeOK
    <3>3. QED
      BY <2>2, <3>1, <3>2 DEF Noticing
  <2>3. QED
    BY <2>1, <2>2 DEF Next
<1> USE <1>late
<1>1. ASSUME NEW r \in Requests, NEW p \in Accounts, NEW a \in Accounts, NEW payload \in Asks,
             BeginUpdate(r, p, a, payload)
      PROVE  TypeOK' /\ \A s \in Requests : RequestInOrder(req[s])'
  <2> DEFINE q == [Idle EXCEPT !.at = "account", !.op = "update", !.own = (p = a),
                               !.account = a, !.copy = accounts[a], !.payload = payload]
  <2>1. payload \in Payloads
    BY AsksAssumption DEF Payloads, NoPayload, Roles
  <2>2. q \in RequestRecords
    <3>1. "update" \in Operations /\ (p = a) \in BOOLEAN /\ accounts[a] \in AccountRows
      BY <1>0 DEF Operations
    <3>2. QED
      BY <2>1, <3>1, IdleIsRequest DEF RequestRecords
  <2>3. q.at = "account" /\ q.op = "update" /\ q.account = a
    BY DEF Idle
  <2>4. req' = [req EXCEPT ![r] = q] /\ UNCHANGED <<rows, lock>>
    BY <1>1 DEF BeginUpdate
  <2> HIDE DEF q
  <2>5. RequestInOrder(q)
    BY <2>3 DEF RequestInOrder, HasKey, Removing
  <2>6. QED
    BY <2>2, <2>4, <2>5, RequestMoves DEF TypeOK
<1>2. ASSUME NEW r \in Requests, NEW k \in Keys, ReserveUpdate(r, k)
      PROVE  TypeOK' /\ \A s \in Requests : RequestInOrder(req[s])'
  <2> DEFINE others == OtherAdmins(req[r].account)
             q == [req[r] EXCEPT !.at = "reserved", !.key = k,
                                 !.counted = IF RemovesAdmin(r) THEN others ELSE {}]
  <2>1. /\ req' = [req EXCEPT ![r] = q] /\ keys' = keys \cup {k}
        /\ UNCHANGED <<accounts, codes, grants, applied, audited, sessions, lock>>
        /\ req[r].at = "loaded" /\ req[r].op = "update" /\ (RemovesAdmin(r) => others # {})
    BY <1>2 DEF ReserveUpdate
  <2>2. others \subseteq Accounts /\ req[r].account \notin others
    BY DEF OtherAdmins, CountedAdmins
  <2> HIDE DEF others
  <2>3. q \in RequestRecords
    <3>1. req[r] \in RequestRecords
      BY <1>0
    <3> DEFINE counted == IF RemovesAdmin(r) THEN others ELSE {}
    <3>2. counted \in SUBSET Accounts
      BY <2>2
    <3> HIDE DEF counted
    <3>3. q = [req[r] EXCEPT !.at = "reserved", !.key = k, !.counted = counted]
      BY DEF counted
    <3>4. QED
      BY <3>1, <3>2, <3>3 DEF RequestRecords
  <2>4. /\ q.at = "reserved" /\ q.op = "update" /\ q.key = k /\ q.account = req[r].account
        /\ q.copy = req[r].copy /\ q.payload = req[r].payload
        /\ q.counted = IF RemovesAdmin(r) THEN others ELSE {}
    BY <1>0, <2>1 DEF RequestRecords, Operations
  <2> HIDE DEF q
  <2>5. Removing(q) => RemovesAdmin(r)
    BY <2>4 DEF Removing, RemovesAdmin
  <2>6. q.account \in Accounts
    BY <2>1, <2>4 DEF RequestInOrder
  <2>7. RequestInOrder(q)
    BY <2>1, <2>2, <2>4, <2>5, <2>6 DEF RequestInOrder, HasKey
  <2>8. QED
    BY <2>1, <2>3, <2>7, RequestMoves DEF TypeOK
<1>3. ASSUME NEW r \in Requests, NEW p \in Accounts, NEW a \in Accounts,
             NEW op \in {"issue", "create"}, NEW k \in Keys, Reserve(r, p, op, a, k)
      PROVE  TypeOK' /\ \A s \in Requests : RequestInOrder(req[s])'
  <2> DEFINE q == [Idle EXCEPT !.at = "reserved", !.op = op, !.own = (p = a), !.account = a,
                               !.key = k, !.copy = IF op = "issue" THEN accounts[a] ELSE Absent]
  <2>1. /\ req' = [req EXCEPT ![r] = q] /\ keys' = keys \cup {k}
        /\ UNCHANGED <<accounts, codes, grants, applied, audited, sessions, lock>>
    BY <1>3 DEF Reserve
  <2>2. q \in RequestRecords
    <3> DEFINE copy == IF op = "issue" THEN accounts[a] ELSE Absent
    <3>1. copy \in AccountRows
      BY AbsentIsRow DEF TypeOK
    <3>2. op \in Operations /\ (p = a) \in BOOLEAN
      BY DEF Operations
    <3> HIDE DEF copy
    <3>3. q = [Idle EXCEPT !.at = "reserved", !.op = op, !.own = (p = a), !.account = a,
                           !.key = k, !.copy = copy]
      BY DEF copy
    <3>4. QED
      BY <3>1, <3>2, <3>3, IdleIsRequest DEF RequestRecords, Operations
  <2>3. q.at = "reserved" /\ q.op = op /\ q.account = a /\ q.key = k
    BY DEF Idle
  <2> HIDE DEF q
  <2>4. RequestInOrder(q)
    BY <2>3 DEF RequestInOrder, HasKey, Removing
  <2>5. QED
    BY <2>1, <2>2, <2>4, RequestMoves DEF TypeOK
<1>4. ASSUME NEW r \in Requests, NEW c \in Codes, CommitCode(r, c)
      PROVE  TypeOK' /\ \A s \in Requests : RequestInOrder(req[s])'
  <2> DEFINE waiting == [req[r] EXCEPT !.at = "account", !.outstanding = {}]
             q == IF req[r].op = "create" THEN Done(req[r], "changed") ELSE waiting
  <2>1. /\ req' = [req EXCEPT ![r] = q] /\ req[r].at = "selected"
        /\ UNCHANGED <<accounts, grants, keys, applied, audited, sessions, lock>>
    BY <1>4 DEF CommitCode
  <2>2. req[r].account \in Accounts /\ HasKey(req[r]) /\ req[r].op \in {"issue", "create"}
    BY <2>1 DEF RequestInOrder, HasKey
  <2>3. codes' \in [Codes -> [status : {"unused", "open", "consumed"},
                              account : Accounts \cup {None}]]
    BY <1>4, <2>2 DEF CommitCode, TypeOK
  <2>4. waiting \in RequestRecords
    BY <1>0 DEF RequestRecords, Operations
  <2>5. /\ waiting.at = "account" /\ waiting.op = req[r].op
        /\ waiting.account = req[r].account /\ waiting.key = req[r].key
    BY <1>0 DEF RequestRecords, Operations
  <2>6. Done(req[r], "changed") \in RequestRecords /\ RequestInOrder(Done(req[r], "changed"))
    BY <1>0, <2>2, DoneIsRequest
  <2> HIDE DEF waiting
  <2>7. req[r].op # "create" => RequestInOrder(waiting)
    BY <2>1, <2>2, <2>5 DEF RequestInOrder, HasKey, Removing
  <2>8. q \in RequestRecords /\ RequestInOrder(q)
    BY <2>4, <2>6, <2>7
  <2> HIDE DEF q
  <2>9. QED
    BY <2>1, <2>3, <2>8, RequestMoves DEF TypeOK
<1>5. ASSUME NEW r \in Requests, NEW c \in Codes, LockCode(r, c)
      PROVE  TypeOK' /\ \A s \in Requests : RequestInOrder(req[s])'
  <2> DEFINE a == codes[c].account
             q == [Idle EXCEPT !.at = "account", !.op = "consume", !.code = c,
                               !.account = a, !.copy = accounts[a]]
  <2>1. req' = [req EXCEPT ![r] = q] /\ lock' = [lock EXCEPT ![c] = r] /\ UNCHANGED rows
    BY <1>5 DEF LockCode, Locking
  <2>2. a \in Accounts
    BY <1>5 DEF LockCode, RowsInOrder
  <2>3. q \in RequestRecords
    BY <1>0, <2>2, IdleIsRequest DEF RequestRecords, Operations
  <2>4. q.at = "account" /\ q.op = "consume" /\ q.account = a
    BY DEF Idle
  <2> HIDE DEF q
  <2>5. RequestInOrder(q)
    BY <2>2, <2>4 DEF RequestInOrder, HasKey, Removing
  <2>6. QED
    BY <2>1, <2>3, <2>5, RequestMoves DEF TypeOK
<1>6. ASSUME NEW r \in Requests, NEW a \in Accounts, Authenticate(r, a)
      PROVE  TypeOK' /\ \A s \in Requests : RequestInOrder(req[s])'
  <2> DEFINE q == [Idle EXCEPT !.at = "signing", !.op = "signin", !.account = a,
                               !.copy = accounts[a]]
  <2>1. req' = [req EXCEPT ![r] = q] /\ UNCHANGED <<rows, lock>>
    BY <1>6 DEF Authenticate
  <2>2. q \in RequestRecords
    BY <1>0, IdleIsRequest DEF RequestRecords, Operations
  <2>3. q.at = "signing" /\ q.op = "signin" /\ q.account = a
    BY DEF Idle
  <2> HIDE DEF q
  <2>4. RequestInOrder(q)
    BY <2>3 DEF RequestInOrder, HasKey, Removing
  <2>5. QED
    BY <2>1, <2>2, <2>4, RequestMoves DEF TypeOK
<1>7. ASSUME NEW r \in Requests, LoadPrincipal(r)
      PROVE  TypeOK' /\ \A s \in Requests : RequestInOrder(req[s])'
  <2>1. PICK q \in RequestRecords : RequestInOrder(q) /\ req' = [req EXCEPT ![r] = q]
    BY <1>7, LoadedIsRequest
  <2>2. UNCHANGED <<rows, lock>>
    BY <1>7 DEF LoadPrincipal
  <2>3. QED
    BY <2>1, <2>2, RequestMoves DEF TypeOK
<1>8. ASSUME NEW r \in Requests, CommitUpdate(r)
      PROVE  TypeOK' /\ \A s \in Requests : RequestInOrder(req[s])'
  <2> DEFINE a == req[r].account
             set == Updated(req[r].copy, req[r].payload)
             q == Done(req[r], "written")
  <2>1. /\ req[r].at = "reserved" /\ set.version <= MaxVersion
        /\ accounts' = [accounts EXCEPT ![a] = Flushed(accounts[a], req[r].copy, set)]
        /\ applied' = [applied EXCEPT ![req[r].key] = @ + 1]
        /\ req' = [req EXCEPT ![r] = q]
        /\ UNCHANGED <<codes, grants, keys, audited, sessions, lock>>
    BY <1>8 DEF CommitUpdate
  <2>2. a \in Accounts /\ req[r].key \in Keys /\ HasKey(req[r])
    BY <2>1 DEF RequestInOrder, HasKey
  <2>3. set \in AccountRows
    BY <1>0, <2>1, UpdatedIsRow DEF RequestRecords, Operations
  <2>4. accounts' \in [Accounts -> AccountRows]
    BY <1>0, <2>1, <2>2, <2>3, FlushedIsRow DEF RequestRecords, Operations
  <2>5. applied' \in [Keys -> Nat]
    BY <2>1, <2>2 DEF TypeOK
  <2>6. q \in RequestRecords /\ RequestInOrder(q)
    BY <1>0, <2>2, DoneIsRequest
  <2>7. QED
    BY <2>1, <2>4, <2>5, <2>6, RequestMoves DEF TypeOK
<1>9. ASSUME NEW r \in Requests, RevokeSessions(r)
      PROVE  TypeOK' /\ \A s \in Requests : RequestInOrder(req[s])'
  <2> DEFINE q == Done(req[r], "changed")
  <2>1. /\ req[r].at = "revoking" /\ req[r].op = None /\ sessions' = Ended(req[r].ends)
        /\ req' = [req EXCEPT ![r] = q]
        /\ UNCHANGED <<accounts, codes, grants, keys, applied, audited, lock>>
    BY <1>9 DEF RevokeSessions, RevokeSelected
  <2>2. q \in RequestRecords /\ RequestInOrder(q)
    BY <1>0, <2>1, DoneIsRequest, NoneAssumption DEF HasKey, Operations
  <2>3. sessions' \in [SessionIds -> SessionRows]
    BY <2>1, EndedAreSessions
  <2>4. QED
    BY <2>1, <2>2, <2>3, RequestMoves DEF TypeOK
<1>10. ASSUME NEW r \in Requests, Audit(r)
       PROVE  TypeOK' /\ \A s \in Requests : RequestInOrder(req[s])'
  <2>1. req[r].at = "changed" /\ req[r].key \in Keys
    BY <1>10 DEF Audit, RequestInOrder, HasKey
  <2>2. /\ audited' = audited \cup {req[r].key} /\ req' = [req EXCEPT ![r] = Idle]
        /\ UNCHANGED <<accounts, codes, grants, keys, applied, sessions, lock>>
    BY <1>10 DEF Audit
  <2>3. QED
    BY <2>1, <2>2, IdleIsRequest, RequestMoves DEF TypeOK
<1>11. ASSUME NEW r \in Requests, CreateAccount(r)
       PROVE  TypeOK' /\ \A s \in Requests : RequestInOrder(req[s])'
  <2> DEFINE a == req[r].account
             q == [req[r] EXCEPT !.at = "created"]
  <2>1. PICK role \in Roles :
            accounts' = [accounts EXCEPT ![a] = [Absent EXCEPT !.exists = TRUE, !.role = role]]
    BY <1>11 DEF CreateAccount
  <2>2. /\ req[r].at = "reserved" /\ req[r].op = "create"
        /\ applied' = [applied EXCEPT ![req[r].key] = @ + 1]
        /\ req' = [req EXCEPT ![r] = q]
        /\ UNCHANGED <<codes, grants, keys, audited, sessions, lock>>
    BY <1>11 DEF CreateAccount
  <2>3. a \in Accounts /\ req[r].key \in Keys
    BY <2>2 DEF RequestInOrder, HasKey
  <2>4. [Absent EXCEPT !.exists = TRUE, !.role = role] \in AccountRows
    BY AbsentIsRow DEF AccountRows
  <2>5. accounts' \in [Accounts -> AccountRows] /\ applied' \in [Keys -> Nat]
    BY <2>1, <2>2, <2>3, <2>4 DEF TypeOK
  <2>6. /\ q \in RequestRecords /\ q.at = "created" /\ q.op = "create"
        /\ q.account = a /\ q.key = req[r].key
    BY <1>0, <2>2 DEF RequestRecords, Operations
  <2> HIDE DEF q
  <2>7. RequestInOrder(q)
    BY <2>3, <2>6 DEF RequestInOrder, HasKey, Removing
  <2>8. QED
    BY <2>2, <2>5, <2>6, <2>7, RequestMoves DEF TypeOK
<1>12. ASSUME NEW r \in Requests, SelectOutstanding(r)
       PROVE  TypeOK' /\ \A s \in Requests : RequestInOrder(req[s])'
  <2> DEFINE found == {c \in Codes : Open(c) /\ codes[c].account = req[r].account}
             q == [req[r] EXCEPT !.at = "selected", !.outstanding = found]
  <2>1. /\ \/ req[r].at = "reserved" /\ req[r].op = "issue"
           \/ req[r].at = "created"
        /\ req' = [req EXCEPT ![r] = q]
        /\ UNCHANGED <<rows, lock>>
    BY <1>12 DEF SelectOutstanding
  <2>2. found \subseteq Codes
    OBVIOUS
  <2> HIDE DEF found
  <2>3. /\ q \in RequestRecords /\ q.at = "selected" /\ q.op = req[r].op
        /\ q.account = req[r].account /\ q.key = req[r].key
    BY <1>0, <2>2 DEF RequestRecords, Operations
  <2> HIDE DEF q
  <2>4. RequestInOrder(q)
    BY <2>1, <2>3 DEF RequestInOrder, HasKey, Removing
  <2>5. QED
    BY <2>1, <2>3, <2>4, RequestMoves DEF TypeOK
<1>13. ASSUME NEW r \in Requests, CommitReset(r)
       PROVE  TypeOK' /\ \A s \in Requests : RequestInOrder(req[s])'
  <2> DEFINE a == req[r].account
             set == [req[r].copy EXCEPT !.mustChange = TRUE, !.version = @ + 1]
             q == Done(req[r], "changed")
  <2>1. /\ req[r].at = "revoking" /\ req[r].op = "issue" /\ set.version <= MaxVersion
        /\ accounts' = [accounts EXCEPT ![a] = Flushed(accounts[a], req[r].copy, set)]
        /\ sessions' = Ended(req[r].ends)
        /\ applied' = [applied EXCEPT ![req[r].key] = @ + 1]
        /\ req' = [req EXCEPT ![r] = q]
        /\ UNCHANGED <<codes, grants, keys, audited, lock>>
    BY <1>13 DEF CommitReset, RevokeSelected
  <2>2. a \in Accounts /\ req[r].key \in Keys /\ HasKey(req[r])
    BY <2>1 DEF RequestInOrder, HasKey
  <2>3. req[r].copy \in AccountRows
    BY <1>0 DEF RequestRecords, Operations
  <2>4. set \in AccountRows
    <3>1. set.version = req[r].copy.version + 1
      BY <2>3, RowColumns
    <3>2. QED
      BY <2>1, <2>3, <3>1, ReplacedIsRow
  <2> HIDE DEF set
  <2>5. accounts' \in [Accounts -> AccountRows]
    BY <1>0, <2>1, <2>2, <2>3, <2>4, FlushedIsRow
  <2>6. applied' \in [Keys -> Nat] /\ sessions' \in [SessionIds -> SessionRows]
    BY <2>1, <2>2, EndedAreSessions DEF TypeOK
  <2>7. q \in RequestRecords /\ RequestInOrder(q)
    BY <1>0, <2>2, DoneIsRequest
  <2>8. QED
    BY <2>1, <2>5, <2>6, <2>7, RequestMoves DEF TypeOK
<1>14. ASSUME NEW r \in Requests, CommitPassword(r)
       PROVE  TypeOK' /\ \A s \in Requests : RequestInOrder(req[s])'
  <2> DEFINE a == req[r].account
             c == req[r].code
             set == [req[r].copy EXCEPT !.password = c, !.mustChange = FALSE, !.enabled = TRUE,
                                        !.active = TRUE, !.version = @ + 1]
             grant == [count |-> grants[c].count + 1, to |-> grants[c].to \cup {a}]
  <2>1. /\ req[r].at = "revoking" /\ req[r].op = "consume" /\ set.version <= MaxVersion
        /\ codes' = [codes EXCEPT ![c].status = "consumed"]
        /\ grants' = [grants EXCEPT ![c] = grant]
        /\ accounts' = [accounts EXCEPT ![a] = Flushed(accounts[a], req[r].copy, set)]
        /\ sessions' = Ended(req[r].ends)
        /\ lock' = Unlocking(r)
        /\ req' = [req EXCEPT ![r] = Idle]
        /\ UNCHANGED <<keys, applied, audited>>
    BY <1>14 DEF CommitPassword, RevokeSelected
  <2>2. a \in Accounts /\ c \in Codes
    BY <2>1 DEF RequestInOrder, CodesInOrder, CodeHeld, Consuming
  <2>3. req[r].copy \in AccountRows
    BY <1>0 DEF RequestRecords, Operations
  <2>4. set \in AccountRows
    <3>1. set.version = req[r].copy.version + 1
      BY <2>3, RowColumns
    <3>2. QED
      BY <2>1, <2>2, <2>3, <3>1, ReplacedIsRow
  <2> HIDE DEF set
  <2>5. accounts' \in [Accounts -> AccountRows]
    BY <1>0, <2>1, <2>2, <2>3, <2>4, FlushedIsRow
  <2>6. grant \in [count : Nat, to : SUBSET Accounts]
    <3>1. grants[c] \in [count : Nat, to : SUBSET Accounts]
      BY <2>2 DEF TypeOK
    <3>2. QED
      BY <2>2, <3>1
  <2> HIDE DEF grant
  <2>7. grants' \in [Codes -> [count : Nat, to : SUBSET Accounts]]
    BY <2>1, <2>6 DEF TypeOK
  <2>8. codes' \in [Codes -> [status : {"unused", "open", "consumed"},
                              account : Accounts \cup {None}]]
    BY <2>1, <2>2 DEF TypeOK
  <2>9. sessions' \in [SessionIds -> SessionRows] /\ lock' \in [Codes -> Requests \cup {None}]
    BY <2>1, EndedAreSessions, UnlockingIsLock
  <2>10. QED
    BY <2>1, <2>5, <2>7, <2>8, <2>9, IdleIsRequest, RequestMoves DEF TypeOK
<1>15. ASSUME NEW r \in Requests, SessionStep(r)
       PROVE  TypeOK' /\ \A s \in Requests : RequestInOrder(req[s])'
  <2>1. PICK q \in RequestRecords : RequestInOrder(q) /\ req' = [req EXCEPT ![r] = q]
    BY <1>15, SessionStepIsRequest
  <2>2. /\ sessions' \in [SessionIds -> SessionRows]
        /\ UNCHANGED <<accounts, codes, grants, keys, applied, audited, lock>>
    BY <1>15, SessionStepIsRequest
  <2>3. QED
    BY <2>1, <2>2, RequestMoves DEF TypeOK
<1>16. ASSUME NEW r \in Requests, Abort(r)
       PROVE  TypeOK' /\ \A s \in Requests : RequestInOrder(req[s])'
  <2>1. req' = [req EXCEPT ![r] = Idle] /\ lock' = Unlocking(r) /\ UNCHANGED rows
    BY <1>16 DEF Abort
  <2>2. QED
    BY <2>1, IdleIsRequest, UnlockingIsLock, RequestMoves DEF TypeOK
<1>17. ASSUME NEW c \in Codes, Expire(c)
       PROVE  TypeOK' /\ \A s \in Requests : RequestInOrder(req[s])'
  <2>1. /\ codes' = [codes EXCEPT ![c].status = "consumed"]
        /\ UNCHANGED <<accounts, grants, keys, applied, audited, sessions, lock, req>>
    BY <1>17 DEF Expire
  <2>2. codes' \in [Codes -> [status : {"unused", "open", "consumed"},
                              account : Accounts \cup {None}]]
    BY <2>1 DEF TypeOK
  <2>3. QED
    BY <2>1, <2>2 DEF TypeOK
<1>18. ASSUME NEW s \in SessionIds, EndSession(s)
       PROVE  TypeOK' /\ \A r \in Requests : RequestInOrder(req[r])'
  <2>1. /\ UNCHANGED <<accounts, codes, grants, keys, applied, audited, lock, req>>
        /\ sessions' = Ended({s})
    BY <1>18 DEF EndSession
  <2>2. QED
    BY <2>1, EndedAreSessions DEF TypeOK
<1>19. ASSUME NEW r \in Requests, SelectSessions(r)
       PROVE  TypeOK' /\ \A s \in Requests : RequestInOrder(req[s])'
  <2>1. PICK q \in RequestRecords : RequestInOrder(q) /\ req' = [req EXCEPT ![r] = q]
    BY <1>19, SelectionIsRequest
  <2>2. UNCHANGED <<rows, lock>>
    BY <1>19, SelectionIsRequest
  <2>3. QED
    BY <2>1, <2>2, RequestMoves DEF TypeOK
<1>20. CASE UNCHANGED vars
  BY <1>20 DEF vars, TypeOK
<1>21. QED
  BY <1>1, <1>2, <1>3, <1>4, <1>5, <1>6, <1>7, <1>8, <1>9, <1>10, <1>11, <1>12, <1>13, <1>14,
     <1>15, <1>16, <1>17, <1>18, <1>19, <1>20 DEF Next, Step, SessionStep

------------------------------------------------------------------------------
(* Idempotency keys: a request takes a new key, goes on with it, does what *)
(* it took the key for, or drops it.                                       *)

LEMMA KeyTaken ==
    ASSUME TypeOK, KeysInOrder, NEW r \in Requests, NEW q, NEW k \in Keys \ keys,
           req' = [req EXCEPT ![r] = q], HasKey(q), NotYet(q), q.key = k,
           keys' = keys \cup {k}, UNCHANGED <<applied, audited>>
    PROVE  KeysInOrder'
<1>1. \A s \in Requests : req'[s] = IF s = r THEN q ELSE req[s]
  BY DEF TypeOK
<1>2. applied[k] = 0
  BY DEF KeysInOrder
<1>3. \A s \in Requests \ {r} : HasKey(req[s]) => req[s].key \in keys
  BY DEF KeysInOrder, KeyInOrder
<1>4. \A s \in Requests : KeyInOrder(req[s])'
  BY <1>1, <1>2 DEF KeysInOrder, KeyInOrder
<1>5. \A s, t \in Requests :
          HasKey(req'[s]) /\ HasKey(req'[t]) /\ req'[s].key = req'[t].key => s = t
  BY <1>1, <1>3 DEF KeysInOrder
<1>6. OncePerKey' /\ \A l \in Keys \ keys' : applied'[l] = 0
  BY DEF KeysInOrder, OncePerKey
<1>7. QED
  BY <1>4, <1>5, <1>6 DEF KeysInOrder

LEMMA KeyCarried ==
    ASSUME TypeOK, KeysInOrder, NEW r \in Requests, NEW q, req' = [req EXCEPT ![r] = q],
           HasKey(q) => HasKey(req[r]) /\ q.key = req[r].key /\ (NotYet(q) <=> NotYet(req[r])),
           UNCHANGED <<keys, applied, audited>>
    PROVE  KeysInOrder'
<1>1. \A s \in Requests : req'[s] = IF s = r THEN q ELSE req[s]
  BY DEF TypeOK
<1>2. \A s \in Requests : KeyInOrder(req[s])'
  BY <1>1 DEF KeysInOrder, KeyInOrder
<1>3. \A s, t \in Requests :
          HasKey(req'[s]) /\ HasKey(req'[t]) /\ req'[s].key = req'[t].key => s = t
  BY <1>1 DEF KeysInOrder
<1>4. OncePerKey' /\ \A l \in Keys \ keys' : applied'[l] = 0
  BY DEF KeysInOrder, OncePerKey
<1>5. QED
  BY <1>2, <1>3, <1>4 DEF KeysInOrder

LEMMA KeyApplied ==
    ASSUME TypeOK, KeysInOrder, NEW r \in Requests, NEW q, req' = [req EXCEPT ![r] = q],
           RequestInOrder(req[r]), HasKey(req[r]), NotYet(req[r]),
           HasKey(q), q.key = req[r].key, ~NotYet(q),
           applied' = [applied EXCEPT ![q.key] = @ + 1], UNCHANGED <<keys, audited>>
    PROVE  KeysInOrder'
<1> DEFINE k == q.key
<1>1. \A s \in Requests : req'[s] = IF s = r THEN q ELSE req[s]
  BY DEF TypeOK
<1>2. k \in Keys /\ k \in keys /\ applied[k] = 0
  BY DEF RequestInOrder, KeysInOrder, KeyInOrder
<1>3. \A l \in Keys : applied'[l] = IF l = k THEN 1 ELSE applied[l]
  BY <1>2 DEF TypeOK
<1>4. \A s \in Requests \ {r} : HasKey(req[s]) => req[s].key # k /\ req[s].key \in Keys
  BY DEF KeysInOrder, KeyInOrder, TypeOK
<1>5. \A s \in Requests : KeyInOrder(req[s])'
  BY <1>1, <1>2, <1>3, <1>4 DEF KeysInOrder, KeyInOrder
<1>6. \A s, t \in Requests :
          HasKey(req'[s]) /\ HasKey(req'[t]) /\ req'[s].key = req'[t].key => s = t
  BY <1>1 DEF KeysInOrder
<1>7. OncePerKey'
  <2>1. k \notin audited
    BY <1>2 DEF KeysInOrder, OncePerKey
  <2>2. QED
    BY <1>3, <2>1 DEF KeysInOrder, OncePerKey
<1>8. \A l \in Keys \ keys' : applied'[l] = 0
  BY <1>2, <1>3 DEF KeysInOrder
<1>9. QED
  BY <1>5, <1>6, <1>7, <1>8 DEF KeysInOrder

LEMMA KeyAudited ==
    ASSUME TypeOK, KeysInOrder, NEW r \in Requests, RequestInOrder(req[r]), Audit(r)
    PROVE  KeysInOrder'
<1>1. /\ req[r].at = "changed" /\ audited' = audited \cup {req[r].key}
      /\ req' = [req EXCEPT ![r] = Idle] /\ UNCHANGED <<keys, applied>>
  BY DEF Audit
<1>2. \A s \in Requests : req'[s] = IF s = r THEN Idle ELSE req[s]
  BY <1>1 DEF TypeOK
<1>3. ~HasKey(Idle)
  BY DEF Idle, HasKey
<1>4. req[r].key \in Keys /\ applied[req[r].key] = 1
  BY <1>1 DEF RequestInOrder, KeysInOrder, KeyInOrder, HasKey, NotYet
<1>5. OncePerKey'
  BY <1>1, <1>4 DEF KeysInOrder, OncePerKey
<1>6. \A s \in Requests : KeyInOrder(req[s])'
  BY <1>1, <1>2, <1>3 DEF KeysInOrder, KeyInOrder
<1>7. QED
  BY <1>1, <1>2, <1>3, <1>5, <1>6 DEF KeysInOrder

\* Every step keeps the order of the keys.
LEMMA KeysKept ==
    ASSUME TypeOK, \A r \in Requests : RequestInOrder(req[r]), KeysInOrder, [Next]_vars
    PROVE  KeysInOrder'
<1>0. \A r \in Requests : req[r] \in RequestRecords
  BY DEF TypeOK
<1>1. ASSUME NEW r \in Requests, NEW q, req' = [req EXCEPT ![r] = q], ~HasKey(q),
             UNCHANGED <<keys, applied, audited>>
      PROVE  KeysInOrder'
  BY <1>1, KeyCarried
<1>2. ASSUME NEW r \in Requests, NEW p \in Accounts, NEW a \in Accounts, NEW payload \in Asks,
             BeginUpdate(r, p, a, payload)
      PROVE  KeysInOrder'
  <2> DEFINE q == [Idle EXCEPT !.at = "account", !.op = "update", !.own = (p = a),
                               !.account = a, !.copy = accounts[a], !.payload = payload]
  <2>1. q.at = "account" /\ q.op = "update"
    BY DEF Idle
  <2>2. req' = [req EXCEPT ![r] = q] /\ UNCHANGED <<keys, applied, audited>>
    BY <1>2 DEF BeginUpdate, rows
  <2> HIDE DEF q
  <2>3. QED
    BY <1>1, <2>1, <2>2 DEF HasKey
<1>3. ASSUME NEW r \in Requests, NEW k \in Keys, ReserveUpdate(r, k) PROVE KeysInOrder'
  <2> DEFINE q == [req[r] EXCEPT !.at = "reserved", !.key = k,
                       !.counted = IF RemovesAdmin(r) THEN OtherAdmins(req[r].account) ELSE {}]
  <2>1. q.at = "reserved" /\ q.key = k
    BY <1>0 DEF RequestRecords
  <2>2. /\ req' = [req EXCEPT ![r] = q] /\ keys' = keys \cup {k} /\ k \notin keys
        /\ UNCHANGED <<applied, audited>>
    BY <1>3 DEF ReserveUpdate, KeyIsNew
  <2> HIDE DEF q
  <2>3. HasKey(q) /\ NotYet(q)
    BY <2>1 DEF HasKey, NotYet
  <2>4. QED
    BY <2>1, <2>2, <2>3, KeyTaken
<1>4. ASSUME NEW r \in Requests, NEW p \in Accounts, NEW a \in Accounts,
             NEW op \in {"issue", "create"}, NEW k \in Keys, Reserve(r, p, op, a, k)
      PROVE  KeysInOrder'
  <2> DEFINE q == [Idle EXCEPT !.at = "reserved", !.op = op, !.own = (p = a), !.account = a,
                               !.key = k, !.copy = IF op = "issue" THEN accounts[a] ELSE Absent]
  <2>1. q.at = "reserved" /\ q.key = k
    BY DEF Idle
  <2>2. /\ req' = [req EXCEPT ![r] = q] /\ keys' = keys \cup {k} /\ k \notin keys
        /\ UNCHANGED <<applied, audited>>
    BY <1>4 DEF Reserve, KeyIsNew
  <2> HIDE DEF q
  <2>3. HasKey(q) /\ NotYet(q)
    BY <2>1 DEF HasKey, NotYet
  <2>4. QED
    BY <2>1, <2>2, <2>3, KeyTaken
<1>5. ASSUME NEW r \in Requests, NEW c \in Codes, CommitCode(r, c) PROVE KeysInOrder'
  <2> DEFINE waiting == [req[r] EXCEPT !.at = "account", !.outstanding = {}]
             q == IF req[r].op = "create" THEN Done(req[r], "changed") ELSE waiting
  <2>1. /\ req' = [req EXCEPT ![r] = q] /\ req[r].at = "selected"
        /\ UNCHANGED <<keys, applied, audited>>
    BY <1>5 DEF CommitCode
  <2>2. req[r].op \in {"issue", "create"} /\ HasKey(req[r])
    BY <2>1 DEF RequestInOrder, HasKey
  <2>3. waiting.at = "account" /\ waiting.op = req[r].op /\ waiting.key = req[r].key
    BY <1>0 DEF RequestRecords
  <2>4. Done(req[r], "changed").at = "changed" /\ Done(req[r], "changed").key = req[r].key
    BY <1>0, <2>2, DoneIsRequest
  <2> HIDE DEF waiting
  <2>5. /\ HasKey(q) /\ q.key = req[r].key
        /\ NotYet(q) <=> NotYet(req[r])
    BY <2>1, <2>2, <2>3, <2>4 DEF HasKey, NotYet
  <2> HIDE DEF q
  <2>6. QED
    BY <2>1, <2>2, <2>5, KeyCarried
<1>6. ASSUME NEW r \in Requests, NEW c \in Codes, LockCode(r, c) PROVE KeysInOrder'
  <2> DEFINE q == [Idle EXCEPT !.at = "account", !.op = "consume", !.code = c,
                               !.account = codes[c].account,
                               !.copy = accounts[codes[c].account]]
  <2>1. q.at = "account" /\ q.op = "consume"
    BY DEF Idle
  <2>2. req' = [req EXCEPT ![r] = q] /\ UNCHANGED <<keys, applied, audited>>
    BY <1>6 DEF LockCode, rows
  <2> HIDE DEF q
  <2>3. QED
    BY <1>1, <2>1, <2>2 DEF HasKey
<1>7. ASSUME NEW r \in Requests, NEW a \in Accounts, Authenticate(r, a) PROVE KeysInOrder'
  <2> DEFINE q == [Idle EXCEPT !.at = "signing", !.op = "signin", !.account = a,
                               !.copy = accounts[a]]
  <2>1. q.at = "signing"
    BY DEF Idle
  <2>2. req' = [req EXCEPT ![r] = q] /\ UNCHANGED <<keys, applied, audited>>
    BY <1>7 DEF Authenticate, rows
  <2> HIDE DEF q
  <2>3. QED
    BY <1>1, <2>1, <2>2 DEF HasKey
<1>8. ASSUME NEW r \in Requests, LoadPrincipal(r) PROVE KeysInOrder'
  <2>1. PICK q \in RequestRecords :
            /\ req' = [req EXCEPT ![r] = q] /\ req[r].at = "account" /\ q.at = "loaded"
            /\ q.op = req[r].op /\ q.key = req[r].key
    BY <1>8, LoadedIsRequest
  <2>2. UNCHANGED <<keys, applied, audited>>
    BY <1>8 DEF LoadPrincipal, rows
  <2>3. QED
    BY <2>1, <2>2, KeyCarried DEF HasKey, NotYet
<1>9. ASSUME NEW r \in Requests, CommitUpdate(r) \/ CommitReset(r) PROVE KeysInOrder'
  <2> DEFINE q == IF req[r].at = "reserved" THEN Done(req[r], "written")
                  ELSE Done(req[r], "changed")
  <2>1. /\ req' = [req EXCEPT ![r] = q]
        /\ req[r].at = "reserved" \/ (req[r].at = "revoking" /\ req[r].op = "issue")
        /\ applied' = [applied EXCEPT ![req[r].key] = @ + 1]
        /\ UNCHANGED <<keys, audited>>
    BY <1>9 DEF CommitUpdate, CommitReset, RevokeSelected
  <2>2. HasKey(req[r]) /\ NotYet(req[r])
    BY <2>1 DEF HasKey, NotYet
  <2>3. q.at \in {"written", "changed"} /\ q.key = req[r].key
    BY <1>0, <2>2, DoneIsRequest
  <2> HIDE DEF q
  <2>4. HasKey(q) /\ ~NotYet(q)
    BY <2>3 DEF HasKey, NotYet
  <2>5. QED
    BY <2>1, <2>2, <2>3, <2>4, KeyApplied
<1>10. ASSUME NEW r \in Requests, RevokeSessions(r) PROVE KeysInOrder'
  <2> DEFINE q == Done(req[r], "changed")
  <2>1. /\ req' = [req EXCEPT ![r] = q] /\ req[r].at = "revoking" /\ req[r].op = None
        /\ UNCHANGED <<keys, applied, audited>>
    BY <1>10 DEF RevokeSessions, RevokeSelected
  <2>2. HasKey(req[r]) /\ ~NotYet(req[r])
    BY <2>1, NoneAssumption DEF HasKey, NotYet, Operations
  <2>3. q.at = "changed" /\ q.key = req[r].key
    BY <1>0, <2>2, DoneIsRequest
  <2> HIDE DEF q
  <2>4. ~NotYet(q)
    BY <2>3 DEF NotYet
  <2>5. QED
    BY <2>1, <2>2, <2>3, <2>4, KeyCarried
<1>11. ASSUME NEW r \in Requests, Audit(r) PROVE KeysInOrder'
  BY <1>11, KeyAudited
<1>12. ASSUME NEW r \in Requests, CreateAccount(r) PROVE KeysInOrder'
  <2> DEFINE q == [req[r] EXCEPT !.at = "created"]
  <2>1. /\ req' = [req EXCEPT ![r] = q] /\ req[r].at = "reserved"
        /\ applied' = [applied EXCEPT ![req[r].key] = @ + 1] /\ UNCHANGED <<keys, audited>>
    BY <1>12 DEF CreateAccount
  <2>2. q.at = "created" /\ q.key = req[r].key
    BY <1>0 DEF RequestRecords
  <2> HIDE DEF q
  <2>3. HasKey(req[r]) /\ NotYet(req[r]) /\ HasKey(q) /\ ~NotYet(q)
    BY <2>1, <2>2 DEF HasKey, NotYet
  <2>4. QED
    BY <2>1, <2>2, <2>3, KeyApplied
<1>13. ASSUME NEW r \in Requests, SelectOutstanding(r) PROVE KeysInOrder'
  <2> DEFINE q == [req[r] EXCEPT !.at = "selected",
                                 !.outstanding = {c \in Codes : Open(c)
                                                      /\ codes[c].account = req[r].account}]
  <2>1. /\ req' = [req EXCEPT ![r] = q] /\ UNCHANGED <<keys, applied, audited>>
        /\ \/ req[r].at = "reserved" /\ req[r].op = "issue"
           \/ req[r].at = "created" /\ req[r].op = "create"
    BY <1>13 DEF SelectOutstanding, rows, RequestInOrder
  <2>2. q.at = "selected" /\ q.key = req[r].key /\ q.op = req[r].op
    BY <1>0 DEF RequestRecords
  <2> HIDE DEF q
  <2>3. HasKey(req[r]) /\ (NotYet(q) <=> NotYet(req[r]))
    BY <2>1, <2>2 DEF HasKey, NotYet
  <2>4. QED
    BY <2>1, <2>2, <2>3, KeyCarried
<1>14. ASSUME NEW r \in Requests, CommitPassword(r) \/ Abort(r)
       PROVE  KeysInOrder'
  <2>1. req' = [req EXCEPT ![r] = Idle] /\ UNCHANGED <<keys, applied, audited>>
    BY <1>14 DEF CommitPassword, Abort, rows
  <2>2. ~HasKey(Idle)
    BY DEF HasKey, Idle
  <2>3. QED
    BY <1>1, <2>1, <2>2
<1>15. ASSUME UNCHANGED <<keys, applied, audited, req>> PROVE KeysInOrder'
  BY <1>15 DEF KeysInOrder, KeyInOrder, OncePerKey
<1>16. ASSUME NEW c \in Codes, Expire(c) PROVE KeysInOrder'
  BY <1>15, <1>16 DEF Expire
<1>17. ASSUME NEW s \in SessionIds, EndSession(s) PROVE KeysInOrder'
  BY <1>15, <1>17 DEF EndSession
<1>18. CASE UNCHANGED vars
  BY <1>15, <1>18 DEF vars, rows
<1>19. ASSUME NEW r \in Requests, SessionStep(r) PROVE KeysInOrder'
  <2>1. PICK q \in RequestRecords :
            req' = [req EXCEPT ![r] = q] /\ q.at \in {"idle", "rotating", "checked"}
    BY <1>19, SessionStepIsRequest
  <2>2. UNCHANGED <<keys, applied, audited>>
    BY <1>19, SessionStepIsRequest
  <2>3. QED
    BY <1>1, <2>1, <2>2 DEF HasKey
<1>20. ASSUME NEW r \in Requests, SelectSessions(r) PROVE KeysInOrder'
  <2>1. PICK q \in RequestRecords :
            /\ req' = [req EXCEPT ![r] = q] /\ q.at = "revoking" /\ q.op = req[r].op
            /\ q.key = req[r].key
    BY <1>20, SelectionIsRequest
  <2>2. /\ UNCHANGED <<keys, applied, audited>>
        /\ \/ req[r].at = "written" /\ req[r].op = None
           \/ req[r].at = "loaded" /\ req[r].op \in {"issue", "consume"}
    BY <1>20, SelectionIsRequest DEF rows, RequestInOrder
  <2>3. HasKey(q) => HasKey(req[r]) /\ (NotYet(q) <=> NotYet(req[r]))
    BY <2>1, <2>2, NoneAssumption DEF HasKey, NotYet, Operations
  <2>4. QED
    BY <2>1, <2>2, <2>3, KeyCarried
<1>21. QED
  BY <1>2, <1>3, <1>4, <1>5, <1>6, <1>7, <1>8, <1>9, <1>10, <1>11, <1>12, <1>13, <1>14, <1>16,
     <1>17, <1>18, <1>19, <1>20 DEF Next, Step, SessionStep

------------------------------------------------------------------------------
(* Rows are made once and stay; their password changes with a code only.   *)

\* What a step does to the rows of accounts.
RowsStay ==
    \A a \in Accounts : /\ Exists(a) => Exists(a)'
                        /\ ~Exists(a) /\ ~Exists(a)' => accounts'[a].password = accounts[a].password

\* What a flush leaves of a row, unless a code sets the password.
LEMMA FlushKeepsPassword ==
    ASSUME NEW row \in AccountRows, NEW loaded \in AccountRows, NEW set \in AccountRows,
           set.exists = loaded.exists
    PROVE  /\ Flushed(row, loaded, set).exists = row.exists
           /\ set.password = loaded.password => Flushed(row, loaded, set).password = row.password
<1>1. {"exists", "password"} \subseteq DOMAIN row
  BY RowColumns
<1>2. QED
  BY <1>1, FlushedIsRow

\* An update, a reset and a password are flushed over a row.
LEMMA WritesKeepRows ==
    ASSUME TypeOK, RowsInOrder, NEW r \in Requests, RequestInOrder(req[r]),
           CodeHeld(req[r], r), CommitUpdate(r) \/ CommitReset(r) \/ CommitPassword(r)
    PROVE  /\ \A a \in Accounts \ {req[r].account} : accounts'[a] = accounts[a]
           /\ accounts'[req[r].account].exists = accounts[req[r].account].exists
           /\ CommitPassword(r)
              \/ accounts'[req[r].account].password = accounts[req[r].account].password
<1> DEFINE a == req[r].account
           copy == req[r].copy
<1>0. a \in Accounts /\ accounts \in [Accounts -> AccountRows] /\ copy \in AccountRows
  BY DEF CommitUpdate, CommitReset, CommitPassword, RevokeSelected, RequestInOrder, TypeOK,
         RequestRecords
<1>1. ASSUME NEW set \in AccountRows, set.exists = copy.exists,
             accounts' = [accounts EXCEPT ![a] = Flushed(accounts[a], copy, set)]
      PROVE  /\ \A b \in Accounts \ {a} : accounts'[b] = accounts[b]
             /\ accounts'[a].exists = accounts[a].exists
             /\ set.password = copy.password => accounts'[a].password = accounts[a].password
  <2>1. accounts'[a] = Flushed(accounts[a], copy, set) /\ accounts[a] \in AccountRows
    BY <1>0, <1>1
  <2>2. QED
    BY <1>0, <1>1, <2>1, FlushKeepsPassword
<1>2. CASE CommitUpdate(r)
  <2> DEFINE set == Updated(copy, req[r].payload)
  <2>1. /\ set.version <= MaxVersion
        /\ accounts' = [accounts EXCEPT ![a] = Flushed(accounts[a], copy, set)]
    BY <1>2 DEF CommitUpdate
  <2>2. req[r].payload \in Payloads \cup {NoPayload}
    BY DEF TypeOK, RequestRecords
  <2>3. set \in AccountRows /\ set.exists = copy.exists /\ set.password = copy.password
    BY <1>0, <2>1, <2>2, UpdatedIsRow
  <2> HIDE DEF set
  <2>4. QED
    BY <1>1, <2>1, <2>3
<1>3. CASE CommitReset(r)
  <2> DEFINE set == [copy EXCEPT !.mustChange = TRUE, !.version = @ + 1]
  <2>1. /\ set.version <= MaxVersion
        /\ accounts' = [accounts EXCEPT ![a] = Flushed(accounts[a], copy, set)]
    BY <1>3 DEF CommitReset
  <2>2. set.version = copy.version + 1 /\ set.exists = copy.exists /\ set.password = copy.password
    BY <1>0, RowColumns
  <2>3. set \in AccountRows
    BY <1>0, <2>1, <2>2, ReplacedIsRow
  <2> HIDE DEF set
  <2>4. QED
    BY <1>1, <2>1, <2>2, <2>3
<1>4. CASE CommitPassword(r)
  <2> DEFINE c == req[r].code
             set == [copy EXCEPT !.password = c, !.mustChange = FALSE, !.enabled = TRUE,
                                 !.active = TRUE, !.version = @ + 1]
  <2>1. /\ set.version <= MaxVersion /\ c \in Codes
        /\ accounts' = [accounts EXCEPT ![a] = Flushed(accounts[a], copy, set)]
    BY <1>4 DEF CommitPassword, RevokeSelected, CodeHeld, Consuming
  <2>2. set.version = copy.version + 1 /\ set.exists = copy.exists
    BY <1>0, RowColumns
  <2>3. set \in AccountRows
    BY <1>0, <2>1, <2>2, ReplacedIsRow
  <2> HIDE DEF set
  <2>4. QED
    BY <1>1, <1>4, <2>1, <2>2, <2>3
<1>5. QED
  BY <1>2, <1>3, <1>4

\* The creation of an account, where there was none.
LEMMA CreationMakesRow ==
    ASSUME TypeOK, NEW r \in Requests, RequestInOrder(req[r]), CreateAccount(r)
    PROVE  /\ req[r].account \in Accounts /\ ~Exists(req[r].account)
           /\ \A a \in Accounts \ {req[r].account} : accounts'[a] = accounts[a]
           /\ accounts'[req[r].account].exists /\ accounts'[req[r].account].password = None
<1> DEFINE a == req[r].account
<1>1. /\ a \in Accounts /\ ~Exists(a)
      /\ \E role \in Roles :
             accounts' = [accounts EXCEPT ![a] = [Absent EXCEPT !.exists = TRUE, !.role = role]]
  BY DEF CreateAccount, RequestInOrder
<1>2. QED
  BY <1>1 DEF TypeOK, Absent

\* The rows of accounts are written by four actions only.
LEMMA AccountsStay ==
    ASSUME [Next]_vars
    PROVE  \/ UNCHANGED accounts
           \/ \E r \in Requests : \/ CommitUpdate(r) \/ CommitReset(r) \/ CommitPassword(r)
                                  \/ CreateAccount(r)
<1>1. ASSUME NEW r \in Requests,
             \/ \E p, a \in Accounts, payload \in Asks : BeginUpdate(r, p, a, payload)
             \/ \E k \in Keys : ReserveUpdate(r, k)
             \/ \E p, a \in Accounts, op \in {"issue", "create"}, k \in Keys :
                    Reserve(r, p, op, a, k)
             \/ \E c \in Codes : CommitCode(r, c) \/ LockCode(r, c)
             \/ \E a \in Accounts : Authenticate(r, a)
      PROVE  UNCHANGED accounts
  BY <1>1 DEF BeginUpdate, ReserveUpdate, Reserve, CommitCode, LockCode, Authenticate, rows
<1>2. ASSUME NEW r \in Requests,
             \/ LoadPrincipal(r) \/ SelectSessions(r) \/ RevokeSessions(r) \/ Audit(r)
             \/ SelectOutstanding(r) \/ SessionStep(r) \/ Abort(r)
      PROVE  UNCHANGED accounts
  BY <1>2 DEF LoadPrincipal, SelectSessions, RevokeSessions, Audit, SelectOutstanding, Abort,
              SessionStep, CreateSession, BeginRefresh, CheckAccount, CommitRefresh, rows
<1>3. ASSUME \/ \E c \in Codes : Expire(c)
             \/ \E s \in SessionIds : EndSession(s)
             \/ UNCHANGED vars
      PROVE  UNCHANGED accounts
  BY <1>3 DEF Expire, EndSession, vars, rows
<1>4. QED
  BY <1>1, <1>2, <1>3 DEF Next, Step, SessionStep

LEMMA RowsStayed ==
    ASSUME TypeOK, RowsInOrder, \A r \in Requests : RequestInOrder(req[r]), CodesInOrder,
           [Next]_vars
    PROVE  RowsStay
<1>1. ASSUME NEW r \in Requests, CommitUpdate(r) \/ CommitReset(r) \/ CommitPassword(r)
      PROVE  RowsStay
  <2>1. /\ \A a \in Accounts \ {req[r].account} : accounts'[a] = accounts[a]
        /\ accounts'[req[r].account].exists = accounts[req[r].account].exists
    BY <1>1, WritesKeepRows DEF CodesInOrder
  <2>2. Exists(req[r].account)
    <3>1. OnRow(req[r])
      BY <1>1, NoneAssumption DEF CommitUpdate, CommitReset, CommitPassword, RevokeSelected,
                                  OnRow, Operations
    <3>2. QED
      BY <3>1 DEF RowsInOrder
  <2>3. QED
    BY <2>1, <2>2 DEF RowsStay, Exists
<1>2. ASSUME NEW r \in Requests, CreateAccount(r) PROVE RowsStay
  <2>1. /\ \A a \in Accounts \ {req[r].account} : accounts'[a] = accounts[a]
        /\ accounts'[req[r].account].exists
    BY <1>2, CreationMakesRow
  <2>2. QED
    BY <2>1 DEF RowsStay, Exists
<1>3. ASSUME UNCHANGED accounts PROVE RowsStay
  BY <1>3 DEF RowsStay, Exists
<1>4. QED
  BY <1>1, <1>2, <1>3, AccountsStay

\* One request goes on, codes are issued for existing accounts.
LEMMA RowsMove ==
    ASSUME TypeOK, RowsInOrder, RowsStay, NEW r \in Requests, NEW q,
           req' = [req EXCEPT ![r] = q],
           OnRow(q) => q.account \in Accounts /\ (Exists(q.account) \/ accounts'[q.account].exists),
           \A c \in Codes : Open(c)' =>
               \/ Open(c) /\ codes'[c].account = codes[c].account
               \/ codes'[c].account \in Accounts /\ Exists(codes'[c].account),
           \A s \in Requests : RequestInOrder(req[s])
    PROVE  RowsInOrder'
<1>1. \A s \in Requests : req'[s] = IF s = r THEN q ELSE req[s]
  BY DEF TypeOK
<1>2. \A a \in Accounts : accounts[a].exists => accounts'[a].exists
  BY DEF RowsStay, Exists
<1>3. \A a \in Accounts : ~accounts'[a].exists => accounts'[a].password = None
  BY <1>2 DEF RowsStay, RowsInOrder, Exists
<1>4. ASSUME NEW s \in Requests, OnRow(req'[s]) PROVE accounts'[req'[s].account].exists
  <2>1. CASE s = r
    <3>1. OnRow(q) /\ req'[s] = q
      BY <1>1, <1>4, <2>1
    <3>2. q.account \in Accounts /\ (accounts[q.account].exists \/ accounts'[q.account].exists)
      BY <3>1 DEF Exists
    <3>3. QED
      BY <1>2, <3>1, <3>2
  <2>2. CASE s # r
    <3>1. OnRow(req[s]) /\ req'[s] = req[s]
      BY <1>1, <1>4, <2>2
    <3>2. req[s].account \in Accounts /\ accounts[req[s].account].exists
      BY <3>1 DEF RowsInOrder, RequestInOrder, OnRow, Exists
    <3>3. QED
      BY <1>2, <3>1, <3>2
  <2>3. QED
    BY <2>1, <2>2
<1>5. ASSUME NEW c \in Codes, codes'[c].status = "open"
      PROVE  codes'[c].account \in Accounts /\ accounts'[codes'[c].account].exists
  <2>1. codes'[c].account \in Accounts /\ accounts[codes'[c].account].exists
    BY <1>5 DEF RowsInOrder, Open, Exists
  <2>2. QED
    BY <1>2, <2>1
<1>6. QED
  BY <1>3, <1>4, <1>5 DEF RowsInOrder, Exists, Open

LEMMA RowsKept ==
    ASSUME TypeOK, RowsInOrder, \A r \in Requests : RequestInOrder(req[r]), CodesInOrder,
           [Next]_vars
    PROVE  RowsInOrder'
<1> USE DEF rows
<1>0. RowsStay /\ \A r \in Requests : req[r] \in RequestRecords
  BY RowsStayed DEF TypeOK
<1>1. ASSUME NEW r \in Requests, NEW q, req' = [req EXCEPT ![r] = q], UNCHANGED codes,
             OnRow(q) => q.account \in Accounts /\ (Exists(q.account) \/ accounts'[q.account].exists)
      PROVE  RowsInOrder'
  <2>1. \A c \in Codes : Open(c)' => Open(c) /\ codes'[c].account = codes[c].account
    BY <1>1 DEF Open
  <2>2. QED
    BY <1>0, <1>1, <2>1, RowsMove
<1>2. ASSUME NEW r \in Requests, NEW p \in Accounts, NEW a \in Accounts, NEW payload \in Asks,
             BeginUpdate(r, p, a, payload)
      PROVE  RowsInOrder'
  <2> DEFINE q == [Idle EXCEPT !.at = "account", !.op = "update", !.own = (p = a),
                               !.account = a, !.copy = accounts[a], !.payload = payload]
  <2>1. q.account = a
    BY DEF Idle
  <2>2. req' = [req EXCEPT ![r] = q] /\ UNCHANGED codes /\ Exists(a)
    BY <1>2 DEF BeginUpdate
  <2> HIDE DEF q
  <2>3. QED
    BY <1>1, <2>1, <2>2
<1>3. ASSUME NEW r \in Requests, NEW k \in Keys, ReserveUpdate(r, k) PROVE RowsInOrder'
  <2> DEFINE q == [req[r] EXCEPT !.at = "reserved", !.key = k,
                       !.counted = IF RemovesAdmin(r) THEN OtherAdmins(req[r].account) ELSE {}]
  <2>1. q.account = req[r].account
    BY <1>0 DEF RequestRecords
  <2>2. req' = [req EXCEPT ![r] = q] /\ UNCHANGED codes /\ req[r].at = "loaded"
    BY <1>3 DEF ReserveUpdate
  <2> HIDE DEF q
  <2>3. req[r].account \in Accounts /\ Exists(req[r].account)
    BY <2>2 DEF RowsInOrder, RequestInOrder, OnRow
  <2>4. QED
    BY <1>1, <2>1, <2>2, <2>3
<1>4. ASSUME NEW r \in Requests, NEW p \in Accounts, NEW a \in Accounts,
             NEW op \in {"issue", "create"}, NEW k \in Keys, Reserve(r, p, op, a, k)
      PROVE  RowsInOrder'
  <2> DEFINE q == [Idle EXCEPT !.at = "reserved", !.op = op, !.own = (p = a), !.account = a,
                               !.key = k, !.copy = IF op = "issue" THEN accounts[a] ELSE Absent]
  <2>1. q.at = "reserved" /\ q.op = op /\ q.account = a
    BY DEF Idle
  <2>2. req' = [req EXCEPT ![r] = q] /\ UNCHANGED codes /\ (op = "issue" => Exists(a))
    BY <1>4 DEF Reserve
  <2> HIDE DEF q
  <2>3. QED
    BY <1>1, <2>1, <2>2 DEF OnRow
<1>5. ASSUME NEW r \in Requests, NEW c \in Codes, CommitCode(r, c) PROVE RowsInOrder'
  <2> DEFINE waiting == [req[r] EXCEPT !.at = "account", !.outstanding = {}]
             q == IF req[r].op = "create" THEN Done(req[r], "changed") ELSE waiting
  <2>1. req' = [req EXCEPT ![r] = q] /\ req[r].at = "selected"
    BY <1>5 DEF CommitCode
  <2>2. req[r].account \in Accounts /\ Exists(req[r].account) /\ HasKey(req[r])
    BY <2>1 DEF RowsInOrder, RequestInOrder, OnRow, HasKey
  <2>3. waiting.account = req[r].account /\ Done(req[r], "changed").account = req[r].account
    BY <1>0, <2>2, DoneIsRequest DEF RequestRecords
  <2>4. q.account = req[r].account
    BY <2>3
  <2> HIDE DEF q
  <2>5. \A d \in Codes : Open(d)' =>
            \/ Open(d) /\ codes'[d].account = codes[d].account
            \/ codes'[d].account \in Accounts /\ Exists(codes'[d].account)
    <3>1. \A d \in Codes : codes'[d] = IF d = c THEN [status |-> "open", account |-> req[r].account]
                                       ELSE IF d \in req[r].outstanding
                                       THEN [codes[d] EXCEPT !.status = "consumed"]
                                       ELSE codes[d]
      BY <1>5 DEF CommitCode
    <3>2. \A d \in Codes : [codes[d] EXCEPT !.status = "consumed"].status = "consumed"
      BY DEF TypeOK
    <3>3. ASSUME NEW d \in Codes, codes'[d].status = "open"
          PROVE  \/ codes[d].status = "open" /\ codes'[d].account = codes[d].account
                 \/ codes'[d].account = req[r].account
      <4>1. CASE d = c
        <5>1. codes'[d] = [status |-> "open", account |-> req[r].account]
          BY <3>1, <4>1
        <5>2. QED
          BY <5>1
      <4>2. CASE d # c /\ d \in req[r].outstanding
        BY <3>1, <3>2, <3>3, <4>2
      <4>3. CASE d # c /\ d \notin req[r].outstanding
        BY <3>1, <3>3, <4>3
      <4>4. QED
        BY <4>1, <4>2, <4>3
    <3>4. QED
      BY <2>2, <3>3 DEF Open, Exists
  <2>6. QED
    BY <1>0, <2>1, <2>2, <2>4, <2>5, RowsMove
<1>6. ASSUME NEW r \in Requests, NEW c \in Codes, LockCode(r, c) PROVE RowsInOrder'
  <2> DEFINE q == [Idle EXCEPT !.at = "account", !.op = "consume", !.code = c,
                               !.account = codes[c].account,
                               !.copy = accounts[codes[c].account]]
  <2>1. q.account = codes[c].account
    BY DEF Idle
  <2>2. req' = [req EXCEPT ![r] = q] /\ UNCHANGED codes /\ Open(c)
    BY <1>6 DEF LockCode
  <2> HIDE DEF q
  <2>3. codes[c].account \in Accounts /\ Exists(codes[c].account)
    BY <2>2 DEF RowsInOrder
  <2>4. QED
    BY <1>1, <2>1, <2>2, <2>3
<1>7. ASSUME NEW r \in Requests, NEW a \in Accounts, Authenticate(r, a) PROVE RowsInOrder'
  <2> DEFINE q == [Idle EXCEPT !.at = "signing", !.op = "signin", !.account = a,
                               !.copy = accounts[a]]
  <2>1. q.at = "signing"
    BY DEF Idle
  <2>2. req' = [req EXCEPT ![r] = q] /\ UNCHANGED codes
    BY <1>7 DEF Authenticate
  <2> HIDE DEF q
  <2>3. QED
    BY <1>1, <2>1, <2>2 DEF OnRow
<1>8. ASSUME NEW r \in Requests, LoadPrincipal(r) PROVE RowsInOrder'
  <2>1. PICK q \in RequestRecords :
            /\ req' = [req EXCEPT ![r] = q] /\ req[r].at = "account"
            /\ q.account = req[r].account
    BY <1>8, LoadedIsRequest
  <2>2. UNCHANGED codes
    BY <1>8 DEF LoadPrincipal
  <2>3. req[r].account \in Accounts /\ Exists(req[r].account)
    BY <2>1 DEF RowsInOrder, RequestInOrder, OnRow
  <2>4. QED
    BY <1>1, <2>1, <2>2, <2>3
<1>9. ASSUME NEW r \in Requests, CommitUpdate(r) \/ CommitReset(r) \/ RevokeSessions(r)
      PROVE  RowsInOrder'
  <2> DEFINE q == IF req[r].at = "reserved" THEN Done(req[r], "written")
                  ELSE Done(req[r], "changed")
  <2>1. /\ req' = [req EXCEPT ![r] = q] /\ UNCHANGED codes
        /\ req[r].at = "reserved"
           \/ (req[r].at = "revoking" /\ req[r].op \in {"issue", None})
    BY <1>9 DEF CommitUpdate, CommitReset, RevokeSessions, RevokeSelected
  <2>2. HasKey(req[r])
    BY <2>1, NoneAssumption DEF HasKey, Operations
  <2>3. q.at \in {"written", "changed"}
    BY <1>0, <2>2, DoneIsRequest
  <2> HIDE DEF q
  <2>4. ~OnRow(q)
    BY <2>3 DEF OnRow
  <2>5. QED
    BY <1>1, <2>1, <2>4
<1>10. ASSUME NEW r \in Requests, CreateAccount(r) PROVE RowsInOrder'
  <2> DEFINE q == [req[r] EXCEPT !.at = "created"]
  <2>1. req' = [req EXCEPT ![r] = q] /\ UNCHANGED codes
    BY <1>10 DEF CreateAccount
  <2>2. q.account = req[r].account
    BY <1>0 DEF RequestRecords
  <2> HIDE DEF q
  <2>3. req[r].account \in Accounts /\ accounts'[req[r].account].exists
    BY <1>10, CreationMakesRow
  <2>4. QED
    BY <1>1, <2>1, <2>2, <2>3
<1>11. ASSUME NEW r \in Requests, SelectOutstanding(r) PROVE RowsInOrder'
  <2> DEFINE q == [req[r] EXCEPT !.at = "selected",
                                 !.outstanding = {c \in Codes : Open(c)
                                                      /\ codes[c].account = req[r].account}]
  <2>1. /\ req' = [req EXCEPT ![r] = q] /\ UNCHANGED codes
        /\ \/ req[r].at = "reserved" /\ req[r].op = "issue"
           \/ req[r].at = "created"
    BY <1>11 DEF SelectOutstanding
  <2>2. q.account = req[r].account
    BY <1>0 DEF RequestRecords
  <2> HIDE DEF q
  <2>3. req[r].account \in Accounts /\ Exists(req[r].account)
    BY <2>1 DEF RowsInOrder, RequestInOrder, OnRow
  <2>4. QED
    BY <1>1, <2>1, <2>2, <2>3
<1>12. ~OnRow(Idle)
  BY DEF Idle, OnRow
<1>13. ASSUME NEW r \in Requests, Audit(r) \/ Abort(r) PROVE RowsInOrder'
  <2>1. req' = [req EXCEPT ![r] = Idle] /\ UNCHANGED codes
    BY <1>13 DEF Audit, Abort
  <2>2. QED
    BY <1>1, <1>12, <2>1
<1>14. ASSUME NEW c \in Codes, codes' = [codes EXCEPT ![c].status = "consumed"]
       PROVE  \A d \in Codes : Open(d)' => Open(d) /\ codes'[d].account = codes[d].account
  BY <1>14 DEF Open, TypeOK
<1>15. ASSUME NEW r \in Requests, CommitPassword(r) PROVE RowsInOrder'
  <2>1. /\ req' = [req EXCEPT ![r] = Idle] /\ req[r].code \in Codes
        /\ codes' = [codes EXCEPT ![req[r].code].status = "consumed"]
    BY <1>15 DEF CommitPassword, RevokeSelected, CodesInOrder, CodeHeld, Consuming
  <2>2. QED
    BY <1>0, <1>12, <1>14, <2>1, RowsMove
<1>16. ASSUME UNCHANGED <<accounts, req>>,
              \A d \in Codes : Open(d)' => Open(d) /\ codes'[d].account = codes[d].account
       PROVE  RowsInOrder'
  BY <1>16 DEF RowsInOrder, Open, Exists
<1>17. ASSUME NEW c \in Codes, Expire(c) PROVE RowsInOrder'
  <2>1. codes' = [codes EXCEPT ![c].status = "consumed"] /\ UNCHANGED <<accounts, req>>
    BY <1>17 DEF Expire
  <2>2. QED
    BY <1>14, <1>16, <2>1
<1>18. ASSUME UNCHANGED <<accounts, req, codes>> PROVE RowsInOrder'
  BY <1>16, <1>18 DEF Open
<1>19. ASSUME (\E s \in SessionIds : EndSession(s)) \/ UNCHANGED vars
       PROVE  RowsInOrder'
  BY <1>18, <1>19 DEF EndSession, vars
<1>20. ASSUME NEW r \in Requests, SessionStep(r) PROVE RowsInOrder'
  <2>1. PICK q \in RequestRecords :
            req' = [req EXCEPT ![r] = q] /\ q.at \in {"idle", "rotating", "checked"}
    BY <1>20, SessionStepIsRequest
  <2>2. UNCHANGED codes
    BY <1>20, SessionStepIsRequest
  <2>3. QED
    BY <1>1, <2>1, <2>2 DEF OnRow
<1>21. ASSUME NEW r \in Requests, SelectSessions(r) PROVE RowsInOrder'
  <2>1. PICK q \in RequestRecords :
            /\ req' = [req EXCEPT ![r] = q] /\ q.at = "revoking" /\ q.op = req[r].op
            /\ q.account = req[r].account
    BY <1>21, SelectionIsRequest
  <2>2. /\ UNCHANGED codes
        /\ (req[r].at = "written" /\ req[r].op = None) \/ req[r].at = "loaded"
    BY <1>21, SelectionIsRequest DEF RequestInOrder
  <2>3. req[r].at = "loaded" => req[r].account \in Accounts /\ Exists(req[r].account)
    BY DEF RowsInOrder, RequestInOrder, OnRow
  <2>4. QED
    BY <1>1, <2>1, <2>2, <2>3 DEF OnRow
<1>22. QED
  BY <1>2, <1>3, <1>4, <1>5, <1>6, <1>7, <1>8, <1>9, <1>10, <1>11, <1>13, <1>15, <1>17,
     <1>19, <1>20, <1>21 DEF Next, Step, SessionStep

------------------------------------------------------------------------------
(* Password actions.                                                       *)

\* A step leaves what the others have locked, and a code that was issued stays issued
\* for its account.
OthersHold(r) ==
    \A c \in Codes :
        /\ codes[c].status # "unused" =>
               codes'[c].status # "unused" /\ codes'[c].account = codes[c].account
        /\ lock[c] # r /\ lock[c] # None =>
               lock'[c] = lock[c] /\ (codes[c].status = "open" => codes'[c].status = "open")

GrantsInOrder ==
    \A c \in Codes : codes[c].status # "consumed" => grants[c].count = 0 /\ grants[c].to = {}

LEMMA CodesMove ==
    ASSUME TypeOK, CodesInOrder, NEW r \in Requests, OthersHold(r), NEW q,
           req' = [req EXCEPT ![r] = q],
           Consuming(q) => /\ q.code \in Codes /\ lock'[q.code] = r
                           /\ codes'[q.code].status = "open"
                           /\ codes'[q.code].account = q.account,
           q.at = "selected" => \A o \in q.outstanding :
                codes'[o].status # "unused" /\ codes'[o].account = q.account,
           GrantsInOrder'
    PROVE  CodesInOrder'
<1>1. \A s \in Requests : req'[s] = IF s = r THEN q ELSE req[s]
  BY DEF TypeOK
<1>2. ASSUME NEW s \in Requests PROVE CodeHeld(req[s], s)'
  <2>1. CASE s = r
    BY <1>1, <2>1 DEF CodeHeld, Open
  <2>2. CASE s # r
    <3>1. req'[s] = req[s] /\ CodeHeld(req[s], s)
      BY <1>1, <2>2 DEF CodesInOrder
    <3>2. ASSUME Consuming(req[s])
          PROVE  /\ req[s].code \in Codes /\ lock'[req[s].code] = s
                 /\ codes'[req[s].code].status = "open"
                 /\ codes'[req[s].code].account = req[s].account
      <4>1. /\ req[s].code \in Codes /\ lock[req[s].code] = s
            /\ codes[req[s].code].status = "open"
            /\ codes[req[s].code].account = req[s].account
        BY <3>1, <3>2 DEF CodeHeld, Open
      <4>2. s # None
        BY NoneAssumption
      <4>3. QED
        BY <2>2, <4>1, <4>2 DEF OthersHold
    <3>3. ASSUME req[s].at = "selected", NEW o \in req[s].outstanding
          PROVE  codes'[o].status # "unused" /\ codes'[o].account = req[s].account
      <4>1. o \in Codes
        BY DEF TypeOK, RequestRecords
      <4>2. codes[o].status # "unused" /\ codes[o].account = req[s].account
        BY <3>1, <3>3 DEF CodeHeld
      <4>3. QED
        BY <4>1, <4>2 DEF OthersHold
    <3>4. QED
      BY <3>1, <3>2, <3>3 DEF CodeHeld, Open
  <2>3. QED
    BY <2>1, <2>2
<1>3. QED
  BY <1>2 DEF CodesInOrder, GrantsInOrder

\* A request that has nothing to do with codes, or goes on with its code.
LEMMA CodesRest ==
    ASSUME TypeOK, CodesInOrder, NEW r \in Requests, NEW q, req' = [req EXCEPT ![r] = q],
           UNCHANGED <<codes, grants, lock>>, q.at # "selected",
           Consuming(q) => /\ Consuming(req[r]) /\ q.code = req[r].code
                           /\ q.account = req[r].account
    PROVE  CodesInOrder'
<1>1. OthersHold(r)
  BY DEF OthersHold
<1>2. GrantsInOrder'
  BY DEF CodesInOrder, GrantsInOrder
<1>3. Consuming(q) => /\ q.code \in Codes /\ lock'[q.code] = r
                      /\ codes'[q.code].status = "open"
                      /\ codes'[q.code].account = q.account
  BY DEF CodesInOrder, CodeHeld, Open
<1>4. QED
  BY <1>1, <1>2, <1>3, CodesMove

\* The issue of a code consumes those found outstanding that nobody redeems.
LEMMA IssueMakesCode ==
    ASSUME TypeOK, CodesInOrder, NEW r \in Requests, NEW c \in Codes, CommitCode(r, c)
    PROVE  /\ codes'[c] = [status |-> "open", account |-> req[r].account]
           /\ codes[c].status = "unused" /\ c \notin req[r].outstanding
           /\ \A d \in Codes \ {c} :
                  /\ codes'[d].account = codes[d].account
                  /\ codes'[d].status = IF d \in req[r].outstanding THEN "consumed"
                                        ELSE codes[d].status
           /\ \A o \in req[r].outstanding :
                  o \in Codes /\ lock[o] = None /\ codes[o].status # "unused"
                  /\ codes[o].account = req[r].account
<1>1. /\ req[r].at = "selected" /\ codes[c].status = "unused"
      /\ \A o \in req[r].outstanding : lock[o] = None
      /\ codes' = [d \in Codes |->
             IF d = c THEN [status |-> "open", account |-> req[r].account]
             ELSE IF d \in req[r].outstanding THEN [codes[d] EXCEPT !.status = "consumed"]
             ELSE codes[d]]
  BY DEF CommitCode
<1>2. \A o \in req[r].outstanding :
          o \in Codes /\ codes[o].status # "unused" /\ codes[o].account = req[r].account
  BY <1>1 DEF CodesInOrder, CodeHeld, TypeOK, RequestRecords
<1>3. ASSUME NEW d \in Codes \ {c}
      PROVE  /\ codes'[d].account = codes[d].account
             /\ codes'[d].status = IF d \in req[r].outstanding THEN "consumed"
                                   ELSE codes[d].status
  <2>1. CASE d \in req[r].outstanding
    <3>1. codes'[d] = [codes[d] EXCEPT !.status = "consumed"]
      BY <1>1, <2>1
    <3>2. QED
      BY <2>1, <3>1 DEF TypeOK
  <2>2. CASE d \notin req[r].outstanding
    BY <1>1, <2>2
  <2>3. QED
    BY <2>1, <2>2
<1>4. codes'[c] = [status |-> "open", account |-> req[r].account]
  BY <1>1
<1>5. QED
  BY <1>1, <1>2, <1>3, <1>4

\* A code whose account and status stay, but for its consumption.
LEMMA ConsumedIsCode ==
    ASSUME TypeOK, NEW c \in Codes, codes' = [codes EXCEPT ![c].status = "consumed"]
    PROVE  /\ codes'[c].status = "consumed" /\ codes'[c].account = codes[c].account
           /\ \A d \in Codes \ {c} : codes'[d] = codes[d]
  BY DEF TypeOK

\* The consumption of a code by its request.
LEMMA ConsumptionUsesCode ==
    ASSUME TypeOK, CodesInOrder, NEW r \in Requests, CommitPassword(r)
    PROVE  LET c == req[r].code IN
           /\ c \in Codes /\ lock[c] = r /\ Open(c) /\ codes[c].account = req[r].account
           /\ codes'[c].status = "consumed" /\ codes'[c].account = codes[c].account
           /\ \A d \in Codes \ {c} : codes'[d] = codes[d] /\ grants'[d] = grants[d]
           /\ grants' = [grants EXCEPT ![c] = [count |-> 1, to |-> {codes[c].account}]]
<1> DEFINE c == req[r].code
<1>1. /\ req[r].at = "revoking" /\ req[r].op = "consume"
      /\ codes' = [codes EXCEPT ![c].status = "consumed"]
      /\ grants' = [grants EXCEPT ![c] = [count |-> grants[c].count + 1,
                                          to |-> grants[c].to \cup {req[r].account}]]
  BY DEF CommitPassword, RevokeSelected
<1>2. c \in Codes /\ lock[c] = r /\ codes[c].status = "open" /\ codes[c].account = req[r].account
  BY <1>1 DEF CodesInOrder, CodeHeld, Consuming, Open
<1>3. grants[c].count = 0 /\ grants[c].to = {}
  BY <1>2 DEF CodesInOrder
<1>4. grants[c].count + 1 = 1 /\ grants[c].to \cup {req[r].account} = {codes[c].account}
  BY <1>2, <1>3
<1>5. grants' = [grants EXCEPT ![c] = [count |-> 1, to |-> {codes[c].account}]]
  BY <1>1, <1>4
<1>6. /\ codes'[c].status = "consumed" /\ codes'[c].account = codes[c].account
      /\ \A d \in Codes \ {c} : codes'[d] = codes[d]
  BY <1>1, <1>2, ConsumedIsCode
<1>7. \A d \in Codes \ {c} : grants'[d] = grants[d]
  BY <1>2, <1>5 DEF TypeOK
<1>8. QED
  BY <1>2, <1>5, <1>6, <1>7 DEF Open

LEMMA CodesKept ==
    ASSUME TypeOK, \A r \in Requests : RequestInOrder(req[r]), CodesInOrder, [Next]_vars
    PROVE  CodesInOrder'
<1> USE DEF rows
<1>0. \A r \in Requests : req[r] \in RequestRecords
  BY DEF TypeOK
<1>1. ASSUME NEW r \in Requests, NEW q, req' = [req EXCEPT ![r] = q],
             UNCHANGED <<codes, grants, lock>>, q.at # "selected", ~Consuming(q)
      PROVE  CodesInOrder'
  BY <1>1, CodesRest
<1>2. ASSUME NEW r \in Requests, NEW p \in Accounts, NEW a \in Accounts, NEW payload \in Asks,
             BeginUpdate(r, p, a, payload)
      PROVE  CodesInOrder'
  <2> DEFINE q == [Idle EXCEPT !.at = "account", !.op = "update", !.own = (p = a),
                               !.account = a, !.copy = accounts[a], !.payload = payload]
  <2>1. q.at = "account" /\ q.op = "update"
    BY DEF Idle
  <2>2. req' = [req EXCEPT ![r] = q] /\ UNCHANGED <<codes, grants, lock>>
    BY <1>2 DEF BeginUpdate
  <2> HIDE DEF q
  <2>3. QED
    BY <1>1, <2>1, <2>2 DEF Consuming
<1>3. ASSUME NEW r \in Requests, NEW k \in Keys, ReserveUpdate(r, k) PROVE CodesInOrder'
  <2> DEFINE q == [req[r] EXCEPT !.at = "reserved", !.key = k,
                       !.counted = IF RemovesAdmin(r) THEN OtherAdmins(req[r].account) ELSE {}]
  <2>1. q.at = "reserved"
    BY <1>0 DEF RequestRecords
  <2>2. req' = [req EXCEPT ![r] = q] /\ UNCHANGED <<codes, grants, lock>>
    BY <1>3 DEF ReserveUpdate
  <2> HIDE DEF q
  <2>3. QED
    BY <1>1, <2>1, <2>2 DEF Consuming
<1>4. ASSUME NEW r \in Requests, NEW p \in Accounts, NEW a \in Accounts,
             NEW op \in {"issue", "create"}, NEW k \in Keys, Reserve(r, p, op, a, k)
      PROVE  CodesInOrder'
  <2> DEFINE q == [Idle EXCEPT !.at = "reserved", !.op = op, !.own = (p = a), !.account = a,
                               !.key = k, !.copy = IF op = "issue" THEN accounts[a] ELSE Absent]
  <2>1. q.at = "reserved"
    BY DEF Idle
  <2>2. req' = [req EXCEPT ![r] = q] /\ UNCHANGED <<codes, grants, lock>>
    BY <1>4 DEF Reserve
  <2> HIDE DEF q
  <2>3. QED
    BY <1>1, <2>1, <2>2 DEF Consuming
<1>5. ASSUME NEW r \in Requests, NEW c \in Codes, CommitCode(r, c) PROVE CodesInOrder'
  <2> DEFINE waiting == [req[r] EXCEPT !.at = "account", !.outstanding = {}]
             q == IF req[r].op = "create" THEN Done(req[r], "changed") ELSE waiting
  <2>1. req' = [req EXCEPT ![r] = q] /\ req[r].at = "selected" /\ UNCHANGED <<grants, lock>>
    BY <1>5 DEF CommitCode
  <2>2. HasKey(req[r]) /\ req[r].op \in {"issue", "create"}
    BY <2>1 DEF RequestInOrder, HasKey
  <2>3. /\ waiting.at = "account" /\ waiting.op = req[r].op
        /\ Done(req[r], "changed").at = "changed"
    BY <1>0, <2>2, DoneIsRequest DEF RequestRecords
  <2> HIDE DEF waiting
  <2>4. q.at # "selected" /\ ~Consuming(q)
    BY <2>2, <2>3 DEF Consuming
  <2> HIDE DEF q
  <2>5. /\ codes[c].status = "unused"
        /\ \A d \in Codes \ {c} :
               /\ codes'[d].account = codes[d].account
               /\ codes'[d].status = IF d \in req[r].outstanding THEN "consumed"
                                     ELSE codes[d].status
        /\ \A o \in req[r].outstanding :
               o \in Codes /\ lock[o] = None /\ codes[o].status # "unused"
               /\ codes[o].account = req[r].account
        /\ codes'[c] = [status |-> "open", account |-> req[r].account]
    BY <1>5, IssueMakesCode
  <2>10. codes'[c].status = "open"
    BY <2>5
  <2>6. \A d \in Codes : lock[d] # None => codes'[d].status = codes[d].status \/ d = c
    BY <2>5
  <2>7. OthersHold(r)
    BY <2>1, <2>5, <2>6, <2>10 DEF OthersHold
  <2>8. GrantsInOrder'
    BY <2>1, <2>5, <2>10 DEF CodesInOrder, GrantsInOrder
  <2>9. QED
    BY <2>1, <2>4, <2>7, <2>8, CodesMove
<1>6. ASSUME NEW r \in Requests, NEW c \in Codes, LockCode(r, c) PROVE CodesInOrder'
  <2> DEFINE q == [Idle EXCEPT !.at = "account", !.op = "consume", !.code = c,
                               !.account = codes[c].account,
                               !.copy = accounts[codes[c].account]]
  <2>1. q.at = "account" /\ q.code = c /\ q.account = codes[c].account
    BY DEF Idle
  <2>2. /\ req' = [req EXCEPT ![r] = q] /\ codes[c].status = "open" /\ lock[c] = None
        /\ lock' = [lock EXCEPT ![c] = r] /\ UNCHANGED <<codes, grants>>
    BY <1>6 DEF LockCode, Locking, Open
  <2> HIDE DEF q
  <2>3. lock'[c] = r /\ \A d \in Codes \ {c} : lock'[d] = lock[d]
    BY <2>2 DEF TypeOK
  <2>4. OthersHold(r)
    BY <2>2, <2>3 DEF OthersHold
  <2>5. GrantsInOrder'
    BY <2>2 DEF CodesInOrder, GrantsInOrder
  <2>6. QED
    BY <2>1, <2>2, <2>3, <2>4, <2>5, CodesMove
<1>7. ASSUME NEW r \in Requests, NEW a \in Accounts, Authenticate(r, a) PROVE CodesInOrder'
  <2> DEFINE q == [Idle EXCEPT !.at = "signing", !.op = "signin", !.account = a,
                               !.copy = accounts[a]]
  <2>1. q.at = "signing"
    BY DEF Idle
  <2>2. req' = [req EXCEPT ![r] = q] /\ UNCHANGED <<codes, grants, lock>>
    BY <1>7 DEF Authenticate
  <2> HIDE DEF q
  <2>3. QED
    BY <1>1, <2>1, <2>2 DEF Consuming
<1>8. ASSUME NEW r \in Requests, LoadPrincipal(r) PROVE CodesInOrder'
  <2>1. PICK q \in RequestRecords :
            /\ req' = [req EXCEPT ![r] = q] /\ req[r].at = "account" /\ q.at = "loaded"
            /\ q.op = req[r].op /\ q.code = req[r].code /\ q.account = req[r].account
    BY <1>8, LoadedIsRequest
  <2>2. UNCHANGED <<codes, grants, lock>>
    BY <1>8 DEF LoadPrincipal
  <2>3. QED
    BY <2>1, <2>2, CodesRest DEF Consuming
<1>9. ASSUME NEW r \in Requests, CommitUpdate(r) \/ CommitReset(r) \/ RevokeSessions(r)
      PROVE  CodesInOrder'
  <2> DEFINE q == IF req[r].at = "reserved" THEN Done(req[r], "written")
                  ELSE Done(req[r], "changed")
  <2>1. /\ req' = [req EXCEPT ![r] = q] /\ UNCHANGED <<codes, grants, lock>>
        /\ req[r].at = "reserved"
           \/ (req[r].at = "revoking" /\ req[r].op \in {"issue", None})
    BY <1>9 DEF CommitUpdate, CommitReset, RevokeSessions, RevokeSelected
  <2>2. HasKey(req[r])
    BY <2>1, NoneAssumption DEF HasKey, Operations
  <2>3. q.at \in {"written", "changed"}
    BY <1>0, <2>2, DoneIsRequest
  <2> HIDE DEF q
  <2>4. QED
    BY <1>1, <2>1, <2>3 DEF Consuming
<1>10. ASSUME NEW r \in Requests, CreateAccount(r) PROVE CodesInOrder'
  <2> DEFINE q == [req[r] EXCEPT !.at = "created"]
  <2>1. req' = [req EXCEPT ![r] = q] /\ UNCHANGED <<codes, grants, lock>>
    BY <1>10 DEF CreateAccount
  <2>2. q.at = "created"
    BY <1>0 DEF RequestRecords
  <2> HIDE DEF q
  <2>3. QED
    BY <1>1, <2>1, <2>2 DEF Consuming
<1>11. ASSUME NEW r \in Requests, SelectOutstanding(r) PROVE CodesInOrder'
  <2> DEFINE found == {c \in Codes : Open(c) /\ codes[c].account = req[r].account}
             q == [req[r] EXCEPT !.at = "selected", !.outstanding = found]
  <2>1. req' = [req EXCEPT ![r] = q] /\ UNCHANGED <<codes, grants, lock>>
    BY <1>11 DEF SelectOutstanding
  <2>2. q.at = "selected" /\ q.outstanding = found /\ q.account = req[r].account
    BY <1>0 DEF RequestRecords
  <2>3. \A o \in found : codes[o].status = "open" /\ codes[o].account = req[r].account
    BY DEF Open
  <2> HIDE DEF q, found
  <2>4. OthersHold(r) /\ GrantsInOrder'
    BY <2>1 DEF OthersHold, GrantsInOrder, CodesInOrder
  <2>5. \A o \in q.outstanding : codes'[o].status # "unused" /\ codes'[o].account = q.account
    BY <2>1, <2>2, <2>3
  <2>6. QED
    BY <2>1, <2>2, <2>4, <2>5, CodesMove DEF Consuming
<1>12. Idle.at = "idle" /\ ~Consuming(Idle)
  BY DEF Idle, Consuming
<1>13. ASSUME NEW r \in Requests, Audit(r) PROVE CodesInOrder'
  <2>1. req' = [req EXCEPT ![r] = Idle] /\ UNCHANGED <<codes, grants, lock>>
    BY <1>13 DEF Audit
  <2>2. QED
    BY <1>1, <1>12, <2>1
<1>14. ASSUME NEW r \in Requests, CommitPassword(r) PROVE CodesInOrder'
  <2>1. req' = [req EXCEPT ![r] = Idle] /\ lock' = Unlocking(r)
    BY <1>14 DEF CommitPassword
  <2> DEFINE c == req[r].code
  <2>2. /\ c \in Codes /\ lock[c] = r
        /\ codes'[c].status = "consumed" /\ codes'[c].account = codes[c].account
        /\ \A d \in Codes \ {c} : codes'[d] = codes[d] /\ grants'[d] = grants[d]
    BY <1>14, ConsumptionUsesCode
  <2> HIDE DEF c
  <2>3. OthersHold(r)
    BY <2>1, <2>2, UnlockingIsLock DEF OthersHold
  <2>4. GrantsInOrder'
    BY <2>2 DEF GrantsInOrder, CodesInOrder
  <2>5. QED
    BY <1>12, <2>1, <2>3, <2>4, CodesMove
<1>15. ASSUME NEW r \in Requests, Abort(r) PROVE CodesInOrder'
  <2>1. /\ req' = [req EXCEPT ![r] = Idle] /\ lock' = Unlocking(r)
        /\ UNCHANGED <<codes, grants>>
    BY <1>15 DEF Abort
  <2>2. OthersHold(r)
    BY <2>1, UnlockingIsLock DEF OthersHold
  <2>3. GrantsInOrder'
    BY <2>1 DEF GrantsInOrder, CodesInOrder
  <2>4. QED
    BY <1>12, <2>1, <2>2, <2>3, CodesMove
<1>16. ASSUME NEW c \in Codes, Expire(c) PROVE CodesInOrder'
  <2>1. /\ codes' = [codes EXCEPT ![c].status = "consumed"] /\ UNCHANGED <<grants, lock, req>>
        /\ lock[c] = None
    BY <1>16 DEF Expire
  <2>2. /\ codes'[c].status = "consumed" /\ codes'[c].account = codes[c].account
        /\ \A d \in Codes \ {c} : codes'[d] = codes[d]
    BY <2>1, ConsumedIsCode
  <2>3. ASSUME NEW s \in Requests PROVE CodeHeld(req[s], s)'
    <3>1. CodeHeld(req[s], s) /\ req'[s] = req[s] /\ s # None
      BY <2>1, NoneAssumption DEF CodesInOrder
    <3>2. Consuming(req[s]) => req[s].code # c
      BY <2>1, <3>1 DEF CodeHeld
    <3>3. req[s].outstanding \subseteq Codes
      BY DEF TypeOK, RequestRecords
    <3>4. QED
      BY <2>1, <2>2, <3>1, <3>2, <3>3 DEF CodeHeld, Open
  <2>4. GrantsInOrder'
    BY <2>1, <2>2 DEF GrantsInOrder, CodesInOrder
  <2>5. QED
    BY <2>3, <2>4 DEF CodesInOrder, GrantsInOrder
<1>17. ASSUME (\E s \in SessionIds : EndSession(s)) \/ UNCHANGED vars
       PROVE  CodesInOrder'
  <2>1. UNCHANGED <<codes, grants, lock, req>>
    BY <1>17 DEF EndSession, vars
  <2>2. QED
    BY <2>1 DEF CodesInOrder, CodeHeld, Open
<1>18. ASSUME NEW r \in Requests, SessionStep(r) PROVE CodesInOrder'
  <2>1. PICK q \in RequestRecords :
            req' = [req EXCEPT ![r] = q] /\ q.at \in {"idle", "rotating", "checked"}
    BY <1>18, SessionStepIsRequest
  <2>2. UNCHANGED <<codes, grants, lock>>
    BY <1>18, SessionStepIsRequest
  <2>3. QED
    BY <1>1, <2>1, <2>2 DEF Consuming
<1>19. ASSUME NEW r \in Requests, SelectSessions(r) PROVE CodesInOrder'
  <2>1. PICK q \in RequestRecords :
            /\ req' = [req EXCEPT ![r] = q] /\ q.at = "revoking" /\ q.op = req[r].op
            /\ q.code = req[r].code /\ q.account = req[r].account
    BY <1>19, SelectionIsRequest
  <2>2. /\ UNCHANGED <<codes, grants, lock>>
        /\ (req[r].at = "written" /\ req[r].op = None) \/ req[r].at = "loaded"
    BY <1>19, SelectionIsRequest DEF RequestInOrder
  <2>3. Consuming(q) => Consuming(req[r])
    BY <2>1, <2>2, NoneAssumption DEF Consuming, Operations
  <2>4. QED
    BY <2>1, <2>2, <2>3, CodesRest
<1>20. QED
  BY <1>2, <1>3, <1>4, <1>5, <1>6, <1>7, <1>8, <1>9, <1>10, <1>11, <1>13, <1>14, <1>15,
     <1>16, <1>17, <1>18, <1>19 DEF Next, Step, SessionStep

------------------------------------------------------------------------------
(* Sessions and the requests that have them in view.                       *)

\* Which step takes a request where it ends or rotates sessions.
LEMMA RequestsMove ==
    ASSUME TypeOK, [Next]_vars, NEW r \in Requests, req'[r] # req[r]
    PROVE  \/ req'[r].at \notin {"revoking", "rotating", "checked"}
           \/ SelectSessions(r)
           \/ \E s \in SessionIds : BeginRefresh(r, s)
           \/ CheckAccount(r)
<1> USE DEF rows
<1> DEFINE Away == req'[r].at \notin {"revoking", "rotating", "checked"}
<1>0. req \in [Requests -> RequestRecords] /\ \A t \in Requests : req[t] \in RequestRecords
  BY DEF TypeOK
<1>1. ASSUME NEW t \in Requests, NEW q, req' = [req EXCEPT ![t] = q] PROVE t = r /\ req'[r] = q
  BY <1>0, <1>1
<1> HIDE DEF Away
<1>2. ASSUME NEW t \in Requests, NEW q, req' = [req EXCEPT ![t] = q],
             q.at \notin {"revoking", "rotating", "checked"}
      PROVE  Away
  BY <1>1, <1>2 DEF Away
<1>3. ASSUME NEW t \in Requests, NEW p \in Accounts, NEW a \in Accounts, NEW payload \in Asks,
             BeginUpdate(t, p, a, payload)
      PROVE  Away
  <2> DEFINE q == [Idle EXCEPT !.at = "account", !.op = "update", !.own = (p = a),
                               !.account = a, !.copy = accounts[a], !.payload = payload]
  <2>1. req' = [req EXCEPT ![t] = q]
    BY <1>3 DEF BeginUpdate
  <2>2. q.at = "account"
    BY DEF Idle
  <2> HIDE DEF q
  <2>3. QED
    BY <1>2, <2>1, <2>2
<1>4. ASSUME NEW t \in Requests, NEW p \in Accounts, NEW a \in Accounts,
             NEW op \in {"issue", "create"}, NEW k \in Keys, Reserve(t, p, op, a, k)
      PROVE  Away
  <2> DEFINE q == [Idle EXCEPT !.at = "reserved", !.op = op, !.own = (p = a), !.account = a,
                               !.key = k, !.copy = IF op = "issue" THEN accounts[a] ELSE Absent]
  <2>1. req' = [req EXCEPT ![t] = q]
    BY <1>4 DEF Reserve
  <2>2. q.at = "reserved"
    BY DEF Idle
  <2> HIDE DEF q
  <2>3. QED
    BY <1>2, <2>1, <2>2
<1>5. ASSUME NEW t \in Requests, NEW c \in Codes, LockCode(t, c) PROVE Away
  <2> DEFINE q == [Idle EXCEPT !.at = "account", !.op = "consume", !.code = c,
                               !.account = codes[c].account,
                               !.copy = accounts[codes[c].account]]
  <2>1. req' = [req EXCEPT ![t] = q]
    BY <1>5 DEF LockCode
  <2>2. q.at = "account"
    BY DEF Idle
  <2> HIDE DEF q
  <2>3. QED
    BY <1>2, <2>1, <2>2
<1>6. ASSUME NEW t \in Requests, NEW a \in Accounts, Authenticate(t, a) PROVE Away
  <2> DEFINE q == [Idle EXCEPT !.at = "signing", !.op = "signin", !.account = a,
                               !.copy = accounts[a]]
  <2>1. req' = [req EXCEPT ![t] = q]
    BY <1>6 DEF Authenticate
  <2>2. q.at = "signing"
    BY DEF Idle
  <2> HIDE DEF q
  <2>3. QED
    BY <1>2, <2>1, <2>2
<1>7. ASSUME NEW t \in Requests, NEW at \in {"written", "changed"},
             req' = [req EXCEPT ![t] = Done(req[t], at)]
      PROVE  Away
  <2>1. Done(req[t], at).at = at
    BY DEF Done, Idle
  <2>2. QED
    BY <1>2, <1>7, <2>1
<1>8. ASSUME NEW t \in Requests, CommitUpdate(t) \/ RevokeSessions(t) \/ CommitReset(t)
      PROVE  Away
  BY <1>7, <1>8 DEF CommitUpdate, RevokeSessions, CommitReset
<1>9. ASSUME NEW t \in Requests, NEW c \in Codes, CommitCode(t, c) PROVE Away
  <2> DEFINE q == [req[t] EXCEPT !.at = "account", !.outstanding = {}]
  <2>1. req' = [req EXCEPT ![t] = IF req[t].op = "create" THEN Done(req[t], "changed") ELSE q]
    BY <1>9 DEF CommitCode
  <2>2. q.at = "account"
    BY <1>0 DEF RequestRecords
  <2> HIDE DEF q
  <2>3. CASE req[t].op = "create"
    BY <1>7, <2>1, <2>3
  <2>4. CASE req[t].op # "create"
    BY <1>2, <2>1, <2>2, <2>4
  <2>5. QED
    BY <2>3, <2>4
<1>10. ASSUME NEW t \in Requests, LoadPrincipal(t) \/ CreateAccount(t) \/ SelectOutstanding(t)
       PROVE  Away
  <2>1. \E q : req' = [req EXCEPT ![t] = q] /\ q.at \in {"loaded", "created", "selected"}
    <3>1. CASE LoadPrincipal(t)
      <4> DEFINE loaded == IF req[t].own THEN req[t].copy
                           ELSE [req[t].copy EXCEPT !.role = accounts[req[t].account].role,
                                                    !.active = accounts[req[t].account].active,
                                                    !.version = accounts[req[t].account].version]
                 q == [req[t] EXCEPT !.at = "loaded", !.copy = loaded]
      <4>1. req' = [req EXCEPT ![t] = q]
        BY <3>1 DEF LoadPrincipal
      <4> HIDE DEF loaded
      <4>2. q.at = "loaded"
        BY <1>0 DEF RequestRecords
      <4> HIDE DEF q
      <4>3. QED
        BY <4>1, <4>2
    <3>2. CASE CreateAccount(t)
      <4> DEFINE q == [req[t] EXCEPT !.at = "created"]
      <4>1. req' = [req EXCEPT ![t] = q]
        BY <3>2 DEF CreateAccount
      <4>2. q.at = "created"
        BY <1>0 DEF RequestRecords
      <4> HIDE DEF q
      <4>3. QED
        BY <4>1, <4>2
    <3>3. CASE SelectOutstanding(t)
      <4> DEFINE q == [req[t] EXCEPT !.at = "selected",
                                     !.outstanding = {c \in Codes : Open(c)
                                                          /\ codes[c].account = req[t].account}]
      <4>1. req' = [req EXCEPT ![t] = q]
        BY <3>3 DEF SelectOutstanding
      <4>2. q.at = "selected"
        BY <1>0 DEF RequestRecords
      <4> HIDE DEF q
      <4>3. QED
        BY <4>1, <4>2
    <3>4. QED
      BY <1>10, <3>1, <3>2, <3>3
  <2>2. QED
    BY <1>2, <2>1
<1>11. ASSUME NEW t \in Requests, NEW k \in Keys, ReserveUpdate(t, k) PROVE Away
  <2> DEFINE q == [req[t] EXCEPT !.at = "reserved", !.key = k,
                       !.counted = IF RemovesAdmin(t) THEN OtherAdmins(req[t].account) ELSE {}]
  <2>1. req' = [req EXCEPT ![t] = q]
    BY <1>11 DEF ReserveUpdate
  <2>2. q.at = "reserved"
    BY <1>0 DEF RequestRecords
  <2> HIDE DEF q
  <2>3. QED
    BY <1>2, <2>1, <2>2
<1>12. ASSUME NEW t \in Requests,
              \/ CommitPassword(t) \/ Abort(t) \/ Audit(t)
              \/ \E s \in SessionIds : CreateSession(t, s) \/ CommitRefresh(t, s)
       PROVE  Away
  <2>1. req' = [req EXCEPT ![t] = Idle]
    BY <1>12 DEF CommitPassword, Abort, Audit, CreateSession, CommitRefresh
  <2>2. Idle.at = "idle"
    BY DEF Idle
  <2>3. QED
    BY <1>2, <2>1, <2>2
<1>13. ASSUME NEW t \in Requests, SelectSessions(t) PROVE SelectSessions(r)
  <2>1. \E q : req' = [req EXCEPT ![t] = q]
    BY <1>13 DEF SelectSessions
  <2>2. QED
    BY <1>1, <1>13, <2>1
<1>14. ASSUME NEW t \in Requests, NEW s \in SessionIds, BeginRefresh(t, s) PROVE BeginRefresh(r, s)
  <2>1. \E q : req' = [req EXCEPT ![t] = q]
    BY <1>14 DEF BeginRefresh
  <2>2. QED
    BY <1>1, <1>14, <2>1
<1>15. ASSUME NEW t \in Requests, CheckAccount(t) PROVE CheckAccount(r)
  <2>1. \E q : req' = [req EXCEPT ![t] = q]
    BY <1>15 DEF CheckAccount
  <2>2. QED
    BY <1>1, <1>15, <2>1
<1>16. CASE UNCHANGED vars
  BY <1>16 DEF vars
<1>17. CASE \/ \E c \in Codes : Expire(c)
            \/ \E s \in SessionIds : EndSession(s)
  BY <1>17 DEF Expire, EndSession
<1>18. QED
  BY <1>3, <1>4, <1>5, <1>6, <1>8, <1>9, <1>10, <1>11, <1>12, <1>13, <1>14, <1>15, <1>16,
     <1>17 DEF Next, Step, Away

\* A key that is given a new session was free; a session ends by its refresh, or when no
\* refresh holds it.
LEMMA SessionsMove ==
    ASSUME TypeOK, [Next]_vars, NEW s \in SessionIds
    PROVE  \/ sessions'[s] = sessions[s]
           \/ Unused(s) /\ \E r \in Requests : CreateSession(r, s) \/ CommitRefresh(r, s)
           \/ ~Live(s)' /\ ~RowHeld(s)
           \/ \E r \in Requests : /\ req[r].at \in {"rotating", "checked"} /\ s \in req[r].ends
                                  /\ req'[r] = Idle /\ ~Live(s)'
<1> USE DEF rows
<1>0. req \in [Requests -> RequestRecords] /\ sessions \in [SessionIds -> SessionRows]
  BY DEF TypeOK
<1> DEFINE Moved == \/ sessions'[s] = sessions[s]
                    \/ /\ Unused(s)
                       /\ \E r \in Requests : CreateSession(r, s) \/ CommitRefresh(r, s)
                    \/ ~Live(s)' /\ ~RowHeld(s)
                    \/ \E r \in Requests : /\ req[r].at \in {"rotating", "checked"}
                                           /\ s \in req[r].ends
                                           /\ req'[r] = Idle /\ ~Live(s)'
<1>1. \A S : Ended(S)[s] = IF s \in S THEN NoSession ELSE sessions[s]
  BY DEF Ended
<1>2. NoSession.account = None
  BY DEF NoSession
<1>3. ASSUME NEW r \in Requests, RevokeSelected(r) PROVE Moved
  BY <1>1, <1>2, <1>3 DEF RevokeSelected, Live
<1>4. ASSUME NEW t \in SessionIds, EndSession(t) PROVE Moved
  BY <1>1, <1>2, <1>4 DEF EndSession, Live
<1>5. ASSUME NEW r \in Requests, NEW t \in SessionIds, CreateSession(r, t) PROVE Moved
  <2>1. Unused(t) /\ \E new : sessions' = [sessions EXCEPT ![t] = new]
    BY <1>5 DEF CreateSession
  <2>2. s # t => sessions'[s] = sessions[s]
    BY <1>0, <2>1
  <2>3. QED
    BY <1>5, <2>1, <2>2
<1>6. ASSUME NEW r \in Requests, NEW t \in SessionIds, CommitRefresh(r, t) PROVE Moved
  <2>1. /\ Unused(t) /\ req[r].at = "checked" /\ req' = [req EXCEPT ![r] = Idle]
        /\ \E u \in req[r].ends : \E new : sessions' = [Ended({u}) EXCEPT ![t] = new]
    BY <1>6 DEF CommitRefresh
  <2>2. PICK u \in req[r].ends : \E new : sessions' = [Ended({u}) EXCEPT ![t] = new]
    BY <2>1
  <2>3. CASE s = t
    BY <1>6, <2>1, <2>3
  <2>4. CASE s # t
    <3>1. sessions'[s] = Ended({u})[s]
      BY <2>2, <2>4 DEF Ended
    <3>2. CASE s = u
      <4>1. ~Live(s)' /\ req'[r] = Idle
        BY <1>0, <1>1, <1>2, <2>1, <3>1, <3>2 DEF Live
      <4>2. QED
        BY <2>1, <3>2, <4>1
    <3>3. CASE s # u
      BY <1>1, <3>1, <3>3
    <3>4. QED
      BY <3>2, <3>3
  <2>5. QED
    BY <2>3, <2>4
<1>7. ASSUME NEW r \in Requests, CheckAccount(r) PROVE Moved
  <2>1. /\ req[r].at = "rotating"
        /\ \/ sessions' = sessions
           \/ req' = [req EXCEPT ![r] = Idle] /\ sessions' = Ended(req[r].ends)
    BY <1>7 DEF CheckAccount
  <2>2. CASE sessions' = sessions
    BY <2>2
  <2>3. CASE req' = [req EXCEPT ![r] = Idle] /\ sessions' = Ended(req[r].ends)
    <3>1. req'[r] = Idle
      BY <1>0, <2>3
    <3>2. QED
      BY <1>1, <1>2, <2>1, <2>3, <3>1 DEF Live
  <2>4. QED
    BY <2>1, <2>2, <2>3
<1>8. ASSUME NEW r \in Requests,
             \/ \E p, a \in Accounts, payload \in Asks : BeginUpdate(r, p, a, payload)
             \/ \E k \in Keys : ReserveUpdate(r, k)
             \/ \E p, a \in Accounts, op \in {"issue", "create"}, k \in Keys :
                    Reserve(r, p, op, a, k)
             \/ \E c \in Codes : CommitCode(r, c) \/ LockCode(r, c)
             \/ \E a \in Accounts : Authenticate(r, a)
             \/ \E t \in SessionIds : BeginRefresh(r, t)
      PROVE  Moved
  BY <1>8 DEF BeginUpdate, ReserveUpdate, Reserve, CommitCode, LockCode, Authenticate,
              BeginRefresh
<1>9. ASSUME NEW r \in Requests,
             \/ LoadPrincipal(r) \/ CommitUpdate(r) \/ SelectSessions(r) \/ Audit(r)
             \/ CreateAccount(r) \/ SelectOutstanding(r) \/ Abort(r)
      PROVE  Moved
  BY <1>9 DEF LoadPrincipal, CommitUpdate, SelectSessions, Audit, CreateAccount,
              SelectOutstanding, Abort
<1>10. ASSUME UNCHANGED vars \/ \E c \in Codes : Expire(c) PROVE Moved
  BY <1>10 DEF vars, Expire
<1>11. ASSUME NEW r \in Requests, RevokeSessions(r) \/ CommitReset(r) \/ CommitPassword(r)
       PROVE  Moved
  BY <1>3, <1>11 DEF RevokeSessions, CommitReset, CommitPassword
<1> HIDE DEF Moved
<1>12. Moved
  BY <1>4, <1>5, <1>6, <1>7, <1>8, <1>9, <1>10, <1>11 DEF Next, Step
<1>13. QED
  BY <1>12 DEF Moved

LEMMA RefreshesKept ==
    ASSUME TypeOK, \A r \in Requests : RequestInOrder(req[r]), RefreshesInOrder, [Next]_vars,
           \A r \in Requests : RequestInOrder(req'[r])
    PROVE  RefreshesInOrder'
<1>0. /\ req \in [Requests -> RequestRecords] /\ \A r \in Requests : req[r].ends \subseteq SessionIds
      /\ Idle.op # "refresh"
  BY NoneAssumption DEF TypeOK, RequestRecords, Idle, Operations
<1>1. ASSUME NEW r \in Requests, req'[r].op = "refresh", req'[r] # req[r]
      PROVE  \/ \E s \in SessionIds : BeginRefresh(r, s)
             \/ /\ CheckAccount(r) /\ req' = [req EXCEPT ![r].at = "checked"]
                /\ sessions' = sessions
  <2>1. req'[r].at \in {"rotating", "checked"}
    BY <1>1 DEF RequestInOrder
  <2>2. ~SelectSessions(r)
    <3>1. SelectSessions(r) => \E q : req' = [req EXCEPT ![r] = q] /\ q.at = "revoking"
      BY SelectionIsRequest
    <3>2. QED
      BY <1>0, <2>1, <3>1
  <2>3. (\E s \in SessionIds : BeginRefresh(r, s)) \/ CheckAccount(r)
    BY <1>1, <2>1, <2>2, RequestsMove
  <2>4. CheckAccount(r) => \/ req' = [req EXCEPT ![r].at = "checked"] /\ sessions' = sessions
                           \/ req' = [req EXCEPT ![r] = Idle]
    BY DEF CheckAccount
  <2>5. QED
    BY <1>0, <1>1, <2>3, <2>4
<1>2. ASSUME NEW r \in Requests, req'[r].op = "refresh", NEW s \in req'[r].ends
      PROVE  (Live(s) /\ sessions[s].account = req[r].account)'
  <2>1. CASE req'[r] = req[r]
    <3>1. /\ s \in SessionIds /\ req[r].op = "refresh" /\ s \in req[r].ends
          /\ Live(s) /\ sessions[s].account = req[r].account
      BY <1>0, <1>2, <2>1 DEF RefreshesInOrder
    <3>2. ~Unused(s) /\ RowHeld(s)
      BY <3>1 DEF Unused, RowHeld
    <3>3. ASSUME NEW t \in Requests, req[t].at \in {"rotating", "checked"}, s \in req[t].ends,
                 req'[t] = Idle
          PROVE  FALSE
      <4>1. req[t].op = "refresh"
        BY <3>3 DEF RequestInOrder
      <4>2. t = r
        BY <3>1, <3>3, <4>1 DEF RefreshesInOrder
      <4>3. QED
        BY <1>0, <1>2, <3>3, <4>2
    <3>4. sessions'[s] = sessions[s]
      BY <3>1, <3>2, <3>3, SessionsMove
    <3>5. QED
      BY <2>1, <3>1, <3>4 DEF Live
  <2>2. CASE \E t \in SessionIds : BeginRefresh(r, t)
    <3>1. PICK t \in SessionIds : BeginRefresh(r, t)
      BY <2>2
    <3> DEFINE q == [Idle EXCEPT !.at = "rotating", !.op = "refresh",
                                 !.account = sessions[t].account, !.ends = {t},
                                 !.copy.version = accounts[sessions[t].account].version]
    <3>2. req' = [req EXCEPT ![r] = q] /\ Live(t) /\ sessions' = sessions
      BY <3>1 DEF BeginRefresh, rows
    <3>3. q.account = sessions[t].account /\ q.ends = {t}
      BY DEF Idle
    <3> HIDE DEF q
    <3>4. req'[r] = q
      BY <1>0, <3>2
    <3>5. QED
      BY <1>2, <3>2, <3>3, <3>4 DEF Live
  <2>3. CASE req' = [req EXCEPT ![r].at = "checked"] /\ sessions' = sessions /\ CheckAccount(r)
    <3>1. /\ req'[r].ends = req[r].ends /\ req'[r].account = req[r].account
          /\ req[r].at = "rotating"
      BY <1>0, <2>3 DEF RequestRecords, CheckAccount
    <3>2. req[r].op = "refresh"
      BY <3>1 DEF RequestInOrder
    <3>3. QED
      BY <1>2, <2>3, <3>1, <3>2 DEF RefreshesInOrder, Live
  <2>4. QED
    BY <1>1, <1>2, <2>1, <2>2, <2>3
<1>3. ASSUME NEW r \in Requests, NEW t \in Requests, req'[r].op = "refresh",
             req'[t].op = "refresh", r # t, req'[r] # req[r]
      PROVE  req'[r].ends \cap req'[t].ends = {}
  <2>1. CASE \E s \in SessionIds : BeginRefresh(r, s)
    <3>1. PICK s \in SessionIds : BeginRefresh(r, s)
      BY <2>1
    <3> DEFINE q == [Idle EXCEPT !.at = "rotating", !.op = "refresh",
                                 !.account = sessions[s].account, !.ends = {s},
                                 !.copy.version = accounts[sessions[s].account].version]
    <3>2. req' = [req EXCEPT ![r] = q] /\ ~RowHeld(s)
      BY <3>1 DEF BeginRefresh
    <3>3. q.ends = {s}
      BY DEF Idle
    <3> HIDE DEF q
    <3>4. req'[r] = q /\ req'[t] = req[t]
      BY <1>0, <1>3, <3>2
    <3>5. s \notin req[t].ends
      BY <1>3, <3>2, <3>4 DEF RowHeld
    <3>6. QED
      BY <3>3, <3>4, <3>5
  <2>2. CASE CheckAccount(r) /\ req' = [req EXCEPT ![r].at = "checked"]
    <3>1. /\ req'[r].ends = req[r].ends /\ req'[t] = req[t] /\ req[r].at = "rotating"
      BY <1>0, <1>3, <2>2 DEF RequestRecords, CheckAccount
    <3>2. req[r].op = "refresh"
      BY <3>1 DEF RequestInOrder
    <3>3. QED
      BY <1>3, <3>1, <3>2 DEF RefreshesInOrder
  <2>3. QED
    BY <1>1, <1>3, <2>1, <2>2
<1>4. ASSUME NEW r \in Requests, NEW t \in Requests, req'[r].op = "refresh",
             req'[t].op = "refresh", r # t
      PROVE  req'[r].ends \cap req'[t].ends = {}
  <2>1. CASE req'[r] # req[r]
    BY <1>3, <1>4, <2>1
  <2>2. CASE req'[t] # req[t]
    <3>1. req'[t].ends \cap req'[r].ends = {}
      BY <1>3, <1>4, <2>2
    <3>2. QED
      BY <3>1
  <2>3. CASE req'[r] = req[r] /\ req'[t] = req[t]
    BY <1>4, <2>3 DEF RefreshesInOrder
  <2>4. QED
    BY <2>1, <2>2, <2>3
<1>5. QED
  BY <1>2, <1>4 DEF RefreshesInOrder

LEMMA NothingMissedKept ==
    ASSUME TypeOK, \A r \in Requests : RequestInOrder(req[r]), NothingMissed, [Next]_vars
    PROVE  NothingMissed'
<1>0. /\ req \in [Requests -> RequestRecords] /\ late \in [Requests -> SUBSET SessionIds]
  BY DEF TypeOK
<1>1. CASE UNCHANGED vars
  BY <1>1 DEF vars, rows, NothingMissed, Replacing, SessionsOf, Live
<1>2. CASE Next
  <2>1. SUFFICES ASSUME NEW r \in Requests, Replacing(r)', NEW s \in SessionIds,
                        Live(s)', sessions'[s].account = req'[r].account
                 PROVE  s \in req'[r].ends \cup late'[r]
    BY DEF NothingMissed, SessionsOf
  <2>2. req'[r].at = "revoking" /\ req'[r].op = "consume"
    BY <2>1 DEF Replacing
  <2>3. CASE req'[r] = req[r]
    <3>1. Replacing(r)
      BY <2>2, <2>3 DEF Replacing
    <3>2. late'[r] = late[r] \cup {t \in SessionsOf(req[r].account)' : ~Live(t)}
      BY <1>2, <2>1, <3>1 DEF Next, Noticing
    <3>3. s \in SessionsOf(req[r].account)'
      BY <2>1 DEF SessionsOf
    <3>4. CASE ~Live(s)
      BY <3>2, <3>3, <3>4
    <3>5. CASE Live(s)
      <4>1. sessions'[s] = sessions[s]
        <5>1. ~Unused(s)
          BY <3>5 DEF Unused
        <5>2. QED
          BY <2>1, <5>1, SessionsMove
      <4>2. s \in SessionsOf(req[r].account)
        BY <2>1, <2>3, <3>5, <4>1 DEF SessionsOf
      <4>3. s \in req[r].ends \cup late[r]
        BY <3>1, <4>2 DEF NothingMissed
      <4>4. QED
        BY <2>3, <3>2, <4>3
    <3>6. QED
      BY <3>4, <3>5
  <2>4. CASE SelectSessions(r)
    <3> DEFINE found == SessionsOf(req[r].account)
               q == [req[r] EXCEPT !.at = "revoking", !.ends = found]
    <3>1. req' = [req EXCEPT ![r] = q] /\ sessions' = sessions
      BY <2>4 DEF SelectSessions, rows
    <3>2. found = {t \in SessionIds : Live(t) /\ sessions[t].account = req[r].account}
      BY DEF SessionsOf
    <3> HIDE DEF found
    <3>3. q.ends = found /\ q.account = req[r].account
      BY <1>0 DEF RequestRecords
    <3> HIDE DEF q
    <3>4. req'[r] = q
      BY <1>0, <3>1
    <3>5. QED
      BY <2>1, <3>1, <3>2, <3>3, <3>4 DEF Live
  <2>5. CASE (\E t \in SessionIds : BeginRefresh(r, t)) \/ CheckAccount(r)
    <3>1. SessionStep(r)
      BY <2>5 DEF SessionStep
    <3>2. \E q : req' = [req EXCEPT ![r] = q] /\ q.at \in {"idle", "rotating", "checked"}
      BY <3>1, SessionStepIsRequest
    <3>3. QED
      BY <1>0, <2>2, <3>2
  <2>6. QED
    BY <2>2, <2>3, <2>4, <2>5, RequestsMove
<1>3. QED
  BY <1>1, <1>2

------------------------------------------------------------------------------
(* The invariant.                                                          *)

LEMMA InitIsInOrder == ASSUME Init PROVE IInv
<1>1. /\ codes = [c \in Codes |-> [status |-> "unused", account |-> None]]
      /\ grants = [c \in Codes |-> [count |-> 0, to |-> {}]]
      /\ keys = {} /\ applied = [k \in Keys |-> 0] /\ audited = {}
      /\ sessions = [s \in SessionIds |-> NoSession]
      /\ lock = [c \in Codes |-> None]
      /\ req = [r \in Requests |-> Idle]
      /\ late = [r \in Requests |-> {}]
  BY DEF Init
<1> DEFINE row(role) == [Absent EXCEPT !.exists = TRUE, !.mustChange = FALSE, !.role = role]
<1>2. PICK admins \in StartAdmins, users \in SUBSET Accounts :
          accounts = [a \in Accounts |->
              IF a \in admins \cup users
              THEN row(IF a \in admins THEN "ADMIN" ELSE "READ_ONLY")
              ELSE Absent]
  BY Zenon DEF Init
<1>3. \A role \in Roles : row(role) \in AccountRows /\ row(role).password = None
  <2>1. \A role \in Roles : row(role) \in AccountRows
    BY AbsentIsRow DEF AccountRows, Roles
  <2>2. \A role \in Roles : row(role).password = None
    BY DEF Absent
  <2>3. QED
    BY <2>1, <2>2
<1>4. Absent \in AccountRows /\ Absent.password = None
  BY AbsentIsRow DEF Absent
<1> HIDE DEF row
<1>5. /\ accounts \in [Accounts -> AccountRows]
      /\ \A a \in Accounts : accounts[a].password = None
  <2>1. ASSUME NEW a \in Accounts
        PROVE  accounts[a] \in AccountRows /\ accounts[a].password = None
    <3>1. PICK role \in Roles : role = IF a \in admins THEN "ADMIN" ELSE "READ_ONLY"
      BY DEF Roles
    <3>2. accounts[a] = IF a \in admins \cup users THEN row(role) ELSE Absent
      BY <1>2, <3>1
    <3>3. QED
      BY <1>3, <1>4, <3>2
  <2>2. QED
    BY <1>2, <2>1
<1>6. Idle.at = "idle" /\ Idle \in RequestRecords /\ RequestInOrder(Idle)
  BY IdleIsRequest DEF Idle
<1>7. TypeOK
  <2>1. NoSession \in SessionRows
    BY BoundsAssumption DEF NoSession, SessionRows
  <2>2. QED
    BY <1>1, <1>5, <1>6, <2>1 DEF TypeOK
<1>8. \A r \in Requests : req[r] = Idle /\ req[r].at = "idle"
  BY <1>1, <1>6
<1>9. KeysInOrder
  BY <1>1, <1>8 DEF KeysInOrder, OncePerKey, KeyInOrder, HasKey
<1>10. \A c \in Codes : codes[c].status = "unused" /\ grants[c].count = 0 /\ grants[c].to = {}
  BY <1>1
<1>11. RowsInOrder
  BY <1>5, <1>8, <1>10 DEF RowsInOrder, OnRow, Open
<1>12. CodesInOrder
  BY <1>8, <1>10 DEF CodesInOrder, CodeHeld, Consuming
<1>13. \A r \in Requests : req[r].op # "refresh"
  BY <1>8, NoneAssumption DEF Idle, Operations
<1>14. RefreshesInOrder /\ NothingMissed
  BY <1>8, <1>13 DEF RefreshesInOrder, NothingMissed, Replacing
<1>15. QED
  BY <1>6, <1>7, <1>8, <1>9, <1>11, <1>12, <1>14 DEF IInv

LEMMA InvariantKept == ASSUME IInv, [Next]_vars PROVE IInv'
<1>1. TypeOK' /\ (\A r \in Requests : RequestInOrder(req[r]))'
  BY TypesKept DEF IInv
<1>2. KeysInOrder'
  BY KeysKept DEF IInv
<1>3. RowsInOrder'
  BY RowsKept DEF IInv
<1>4. CodesInOrder'
  BY CodesKept DEF IInv
<1>5. RefreshesInOrder'
  BY <1>1, RefreshesKept DEF IInv
<1>6. NothingMissed'
  BY NothingMissedKept DEF IInv
<1>7. QED
  BY <1>1, <1>2, <1>3, <1>4, <1>5, <1>6 DEF IInv

\* The invariant holds throughout.
THEOREM Invariant == Spec => []IInv
<1>1. Init => IInv
  BY InitIsInOrder
<1>2. IInv /\ [Next]_vars => IInv'
  BY InvariantKept
<1>3. QED
  BY <1>1, <1>2, PTL DEF Spec

\* The state always has its types (TypeOK).
THEOREM AccountTypes == Spec => []TypeOK
<1>1. IInv => TypeOK
  BY DEF IInv
<1>2. QED
  BY <1>1, Invariant, PTL

\* Whatever requests die or repeat, the operation of an idempotency key is committed
\* once at most, and no audit event reports one that was not (OncePerKey).
THEOREM KeysAreUsedOnce == Spec => []OncePerKey
<1>1. IInv => OncePerKey
  BY DEF IInv, KeysInOrder
<1>2. QED
  BY <1>1, Invariant, PTL

------------------------------------------------------------------------------
(* What a new password leaves behind.                                      *)

\* Passwords change with a code only.
LEMMA PasswordsStay ==
    ASSUME IInv, [Next]_vars, \A r \in Requests : ~CommitPassword(r), NEW a \in Accounts
    PROVE  accounts'[a].password = accounts[a].password
<1> USE DEF rows
<1>0. TypeOK /\ RowsInOrder /\ \A r \in Requests : RequestInOrder(req[r]) /\ CodeHeld(req[r], r)
  BY DEF IInv, CodesInOrder
<1>1. ASSUME NEW r \in Requests, CommitUpdate(r) \/ CommitReset(r) \/ CommitPassword(r)
      PROVE  accounts'[a].password = accounts[a].password
  <2>1. /\ \A b \in Accounts \ {req[r].account} : accounts'[b] = accounts[b]
        /\ accounts'[req[r].account].password = accounts[req[r].account].password
    BY <1>0, <1>1, WritesKeepRows
  <2>2. QED
    BY <2>1
<1>2. ASSUME NEW r \in Requests, CreateAccount(r)
      PROVE  accounts'[a].password = accounts[a].password
  <2>1. /\ req[r].account \in Accounts /\ ~Exists(req[r].account)
        /\ \A b \in Accounts \ {req[r].account} : accounts'[b] = accounts[b]
        /\ accounts'[req[r].account].password = None
    BY <1>0, <1>2, CreationMakesRow
  <2>2. accounts[req[r].account].password = None
    BY <1>0, <2>1 DEF RowsInOrder
  <2>3. QED
    BY <2>1, <2>2
<1>3. CASE UNCHANGED accounts
  BY <1>3
<1>4. QED
  BY <1>1, <1>2, <1>3, AccountsStay

\* A session of a replaced password comes by an overlap.
Overlapping(s) ==
    \/ Stale(s)
    \/ \E r \in Requests :
          \/ CreateSession(r, s)
          \/ CommitRefresh(r, s) /\ \E t \in req[r].ends : Stale(t)
          \/ CommitPassword(r) /\ s \in late[r]

LEMMA ReplacementMissesLate ==
    ASSUME IInv, [Next]_vars, NEW r \in Requests, CommitPassword(r), NEW s \in SessionIds, Stale(s)'
    PROVE  Stale(s) \/ s \in late[r]
<1>0. /\ TypeOK /\ RowsInOrder /\ RequestInOrder(req[r]) /\ CodeHeld(req[r], r) /\ NothingMissed
  BY DEF IInv, CodesInOrder
<1>1. /\ req[r].at = "revoking" /\ req[r].op = "consume" /\ sessions' = Ended(req[r].ends)
  BY DEF CommitPassword, RevokeSelected
<1>2. sessions'[s].account # None /\ sessions'[s].password # accounts'[sessions'[s].account].password
  BY DEF Stale, Live
<1>3. sessions'[s] = sessions[s] /\ s \notin req[r].ends /\ Live(s)
  BY <1>0, <1>1, <1>2, EndedAreSessions DEF Live
<1>4. CASE sessions[s].account = req[r].account
  <2>1. s \in SessionsOf(req[r].account) /\ Replacing(r)
    BY <1>1, <1>3, <1>4 DEF SessionsOf, Replacing
  <2>2. QED
    BY <1>0, <1>3, <2>1 DEF NothingMissed
<1>5. CASE sessions[s].account # req[r].account
  <2>1. sessions[s].account \in Accounts
    BY <1>0, <1>3 DEF TypeOK, SessionRows, Live
  <2>2. \A a \in Accounts \ {req[r].account} : accounts'[a] = accounts[a]
    BY <1>0, WritesKeepRows
  <2>3. QED
    BY <1>2, <1>3, <1>5, <2>1, <2>2 DEF Stale
<1>6. QED
  BY <1>4, <1>5

\* A session that is inserted is that of a sign-in, or has the account and the password of
\* the one it succeeds.
LEMMA SuccessionKeepsPassword ==
    ASSUME IInv, NEW r \in Requests, NEW s \in SessionIds, CommitRefresh(r, s), Stale(s)'
    PROVE  \E t \in req[r].ends : Stale(t)
<1>1. PICK t \in req[r].ends :
          sessions' = [Ended({t}) EXCEPT ![s] = [account |-> req[r].account,
                                                 version |-> req[r].copy.version,
                                                 password |-> sessions[t].password]]
  BY DEF CommitRefresh
<1> DEFINE new == [account |-> req[r].account, version |-> req[r].copy.version,
                   password |-> sessions[t].password]
<1>2. new.account = req[r].account /\ new.password = sessions[t].password
  OBVIOUS
<1> HIDE DEF new
<1>3. sessions'[s] = new
  BY <1>1 DEF Ended, new
<1>4. req[r].at = "checked" /\ accounts' = accounts
  BY DEF CommitRefresh
<1>5. Live(t) /\ sessions[t].account = req[r].account
  <2>1. req[r].op = "refresh"
    BY <1>4 DEF IInv, RequestInOrder
  <2>2. QED
    BY <2>1 DEF IInv, RefreshesInOrder
<1>6. QED
  BY <1>2, <1>3, <1>4, <1>5 DEF Stale

LEMMA StaleComesByOverlap ==
    ASSUME IInv, [Next]_vars, NEW s \in SessionIds, Stale(s)'
    PROVE  Overlapping(s)
<1>1. CASE \E r \in Requests : CommitPassword(r)
  BY <1>1, ReplacementMissesLate DEF Overlapping
<1>2. CASE \A r \in Requests : ~CommitPassword(r)
  <2>1. CASE \E r \in Requests : CreateSession(r, s) \/ CommitRefresh(r, s)
    BY <2>1, SuccessionKeepsPassword DEF Overlapping
  <2>2. CASE ~\E r \in Requests : CreateSession(r, s) \/ CommitRefresh(r, s)
    <3>1. sessions'[s] = sessions[s] /\ Live(s)'
      BY <2>2, SessionsMove DEF IInv, Stale
    <3>2. sessions[s].account \in Accounts
      BY <3>1 DEF IInv, TypeOK, SessionRows, Live
    <3>3. accounts'[sessions[s].account].password = accounts[sessions[s].account].password
      BY <1>2, <3>2, PasswordsStay
    <3>4. Stale(s)
      BY <3>1, <3>3 DEF Stale, Live
    <3>5. QED
      BY <3>4 DEF Overlapping
  <2>3. QED
    BY <2>1, <2>2
<1>3. QED
  BY <1>1, <1>2

\* Only an overlap leaves a session of a password that has been replaced: its credentials
\* were accepted before, it was inserted after the sessions to revoke had been selected,
\* or it succeeds such a session (StaleOnlyByOverlap).
THEOREM StaleSessionsNeedOverlap == Spec => StaleOnlyByOverlap
<1>1. IInv /\ [Next]_vars => [\A s \in SessionIds : Stale(s)' => Overlapping(s)]_vars
  BY StaleComesByOverlap
<1>2. [\A s \in SessionIds : Stale(s)' => Overlapping(s)]_vars =>
          [\A s \in SessionIds : Stale(s)' =>
              \/ Stale(s)
              \/ \E r \in Requests :
                    \/ CreateSession(r, s)
                    \/ CommitRefresh(r, s) /\ \E t \in req[r].ends : Stale(t)
                    \/ CommitPassword(r) /\ s \in late[r]]_vars
  BY DEF Overlapping
<1>3. QED
  BY <1>1, <1>2, Invariant, PTL DEF Spec, StaleOnlyByOverlap

------------------------------------------------------------------------------
(* What an account may do changes on purpose only.                         *)

RightsOf(a) ==
    Exists(a) =>
        /\ accounts'[a].role # accounts[a].role =>
               \E r \in Requests : AskedFor(r, a, "role", accounts'[a].role)
        /\ \A column \in {"enabled", "active"} :
               accounts'[a][column] # accounts[a][column] =>
                   \E r \in Requests : \/ AskedFor(r, a, "enabled", accounts'[a][column])
                                       \/ accounts'[a][column] /\ Redeems(r, a)
        /\ accounts'[a].mustChange # accounts[a].mustChange =>
               \E r \in Requests : \/ ~accounts'[a].mustChange /\ Redeems(r, a)
                                   \/ /\ accounts'[a].mustChange
                                      /\ CommitReset(r) /\ req[r].account = a

\* A column that a flush changes has been assigned, and to what it becomes.
LEMMA FlushChangesAssigned ==
    ASSUME NEW row \in AccountRows, NEW loaded \in AccountRows, NEW set \in AccountRows
    PROVE  \A column \in {"role", "enabled", "active", "mustChange"} :
               Flushed(row, loaded, set)[column] # row[column] =>
                   /\ Flushed(row, loaded, set)[column] = set[column]
                   /\ set[column] # loaded[column]
<1>1. {"role", "enabled", "active", "mustChange"} \subseteq DOMAIN row
  BY RowColumns
<1>2. QED
  BY <1>1, FlushedIsRow

\* An update assigns what it is asked for, and nothing else.
LEMMA UpdateAssignsAsked ==
    ASSUME NEW copy \in AccountRows, NEW payload \in Payloads \cup {NoPayload}
    PROVE  LET set == Updated(copy, payload) IN
           /\ set.role # copy.role => set.role = payload.role
           /\ \A column \in {"enabled", "active"} :
                  set[column] # copy[column] => set[column] = payload.enabled
           /\ set.mustChange = copy.mustChange
<1> DEFINE role == IF payload.role = None THEN copy.role ELSE payload.role
           enabled == IF payload.enabled = None THEN copy.enabled ELSE payload.enabled
           active == IF enabled # copy.enabled THEN enabled ELSE copy.active
           version == copy.version + ((IF role # copy.role THEN 1 ELSE 0)
                                      + (IF enabled # copy.enabled THEN 1 ELSE 0))
           set == Updated(copy, payload)
<1>1. set = [copy EXCEPT !.role = role, !.enabled = enabled, !.active = active,
                         !.version = version]
  BY DEF Updated
<1>2. /\ role # copy.role => role = payload.role
      /\ enabled # copy.enabled => enabled = payload.enabled
      /\ active # copy.active => active = payload.enabled
  OBVIOUS
<1> HIDE DEF role, enabled, active, version, set
<1>3. /\ set.role = role /\ set.enabled = enabled /\ set.active = active
      /\ set.mustChange = copy.mustChange
  BY <1>1, RowColumns
<1>4. /\ set.role # copy.role => set.role = payload.role
      /\ set.enabled # copy.enabled => set.enabled = payload.enabled
      /\ set.active # copy.active => set.active = payload.enabled
  BY <1>2, <1>3
<1>5. \A column \in {"enabled", "active"} :
          set[column] # copy[column] => set[column] = payload.enabled
  BY <1>4
<1>6. QED
  BY <1>3, <1>4, <1>5 DEF set

\* An update, a reset and a password leave every account with the rights it had, or with
\* those they were made to give.
LEMMA WritesKeepRights ==
    ASSUME IInv, NEW r \in Requests, CommitUpdate(r) \/ CommitReset(r) \/ CommitPassword(r),
           NEW a \in Accounts
    PROVE  RightsOf(a)
<1> DEFINE copy == req[r].copy
<1>0. /\ accounts \in [Accounts -> AccountRows] /\ copy \in AccountRows
      /\ TypeOK /\ RequestInOrder(req[r]) /\ CodeHeld(req[r], r)
      /\ req[r].account \in Accounts
  BY DEF IInv, CodesInOrder, TypeOK, RequestRecords, RequestInOrder, CommitUpdate, CommitReset,
         CommitPassword, RevokeSelected
<1>1. CASE req[r].account # a
  <2>1. accounts'[a] = accounts[a]
    BY <1>0, <1>1, WritesKeepRows DEF IInv
  <2>2. QED
    BY <2>1 DEF RightsOf
<1>2. CASE req[r].account = a /\ CommitUpdate(r)
  <2> DEFINE set == Updated(copy, req[r].payload)
  <2>1. /\ set.version <= MaxVersion
        /\ accounts' = [accounts EXCEPT ![a] = Flushed(accounts[a], copy, set)]
    BY <1>2 DEF CommitUpdate
  <2>2. req[r].payload \in Payloads \cup {NoPayload}
    BY <1>0 DEF TypeOK, RequestRecords
  <2>3. set \in AccountRows
    BY <1>0, <2>1, <2>2, UpdatedIsRow
  <2>4. /\ set.role # copy.role => set.role = req[r].payload.role
        /\ \A column \in {"enabled", "active"} :
               set[column] # copy[column] => set[column] = req[r].payload.enabled
        /\ set.mustChange = copy.mustChange
    BY <1>0, <2>2, UpdateAssignsAsked
  <2> HIDE DEF set
  <2>5. accounts'[a] = Flushed(accounts[a], copy, set) /\ accounts[a] \in AccountRows
    BY <1>0, <2>1
  <2>6. \A column \in {"role", "enabled", "active", "mustChange"} :
            accounts'[a][column] # accounts[a][column] =>
                accounts'[a][column] = set[column] /\ set[column] # copy[column]
    <3> DEFINE new == Flushed(accounts[a], copy, set)
    <3>1. copy \in AccountRows /\ set \in AccountRows /\ accounts[a] \in AccountRows
      BY <1>0, <2>3, <2>5
    <3> HIDE DEF copy
    <3>2. \A column \in {"role", "enabled", "active", "mustChange"} :
              new[column] # accounts[a][column] =>
                  new[column] = set[column] /\ set[column] # copy[column]
      BY <3>1, FlushChangesAssigned
    <3>3. accounts'[a] = new
      BY <2>5
    <3> HIDE DEF new
    <3>4. QED
      BY <3>2, <3>3
  <2>7. accounts'[a].role # accounts[a].role => AskedFor(r, a, "role", accounts'[a].role)
    BY <1>2, <2>4, <2>6 DEF AskedFor
  <2>8. \A column \in {"enabled", "active"} : accounts'[a][column] # accounts[a][column] =>
            AskedFor(r, a, "enabled", accounts'[a][column])
    BY <1>2, <2>4, <2>6 DEF AskedFor
  <2>9. accounts'[a].mustChange = accounts[a].mustChange
    BY <2>4, <2>6
  <2>10. QED
    BY <2>7, <2>8, <2>9 DEF RightsOf
<1>3. CASE req[r].account = a /\ CommitReset(r)
  <2> DEFINE set == [copy EXCEPT !.mustChange = TRUE, !.version = @ + 1]
  <2>1. /\ set.version <= MaxVersion
        /\ accounts' = [accounts EXCEPT ![a] = Flushed(accounts[a], copy, set)]
    BY <1>3 DEF CommitReset
  <2>2. /\ set.version = copy.version + 1 /\ set.role = copy.role
        /\ set.enabled = copy.enabled /\ set.active = copy.active /\ set.mustChange = TRUE
    BY <1>0, RowColumns
  <2>3. set \in AccountRows
    BY <1>0, <2>1, <2>2, ReplacedIsRow
  <2> HIDE DEF set
  <2>4. accounts'[a] = Flushed(accounts[a], copy, set) /\ accounts[a] \in AccountRows
    BY <1>0, <2>1
  <2>5. \A column \in {"role", "enabled", "active", "mustChange"} :
            accounts'[a][column] # accounts[a][column] =>
                accounts'[a][column] = set[column] /\ set[column] # copy[column]
    <3> DEFINE new == Flushed(accounts[a], copy, set)
    <3>1. copy \in AccountRows /\ set \in AccountRows /\ accounts[a] \in AccountRows
      BY <1>0, <2>3, <2>4
    <3> HIDE DEF copy
    <3>2. \A column \in {"role", "enabled", "active", "mustChange"} :
              new[column] # accounts[a][column] =>
                  new[column] = set[column] /\ set[column] # copy[column]
      BY <3>1, FlushChangesAssigned
    <3>3. accounts'[a] = new
      BY <2>4
    <3> HIDE DEF new
    <3>4. QED
      BY <3>2, <3>3
  <2>6. \A column \in {"role", "enabled", "active"} : accounts'[a][column] = accounts[a][column]
    BY <2>2, <2>5
  <2>7. accounts'[a].mustChange # accounts[a].mustChange => accounts'[a].mustChange
    BY <2>2, <2>5
  <2>8. QED
    BY <1>3, <2>6, <2>7 DEF RightsOf
<1>4. CASE req[r].account = a /\ CommitPassword(r)
  <2> DEFINE c == req[r].code
             set == [copy EXCEPT !.password = c, !.mustChange = FALSE, !.enabled = TRUE,
                                 !.active = TRUE, !.version = @ + 1]
  <2>1. /\ set.version <= MaxVersion /\ c \in Codes /\ Open(c) /\ codes[c].account = a
        /\ codes' = [codes EXCEPT ![c].status = "consumed"]
        /\ accounts' = [accounts EXCEPT ![a] = Flushed(accounts[a], copy, set)]
    BY <1>0, <1>4 DEF CommitPassword, RevokeSelected, CodeHeld, Consuming
  <2>2. /\ set.version = copy.version + 1 /\ set.role = copy.role
        /\ set.enabled = TRUE /\ set.active = TRUE /\ set.mustChange = FALSE
    BY <1>0, RowColumns
  <2>3. set \in AccountRows
    BY <1>0, <2>1, <2>2, ReplacedIsRow
  <2> HIDE DEF set
  <2>4. accounts'[a] = Flushed(accounts[a], copy, set) /\ accounts[a] \in AccountRows
    BY <1>0, <2>1
  <2>5. \A column \in {"role", "enabled", "active", "mustChange"} :
            accounts'[a][column] # accounts[a][column] =>
                accounts'[a][column] = set[column] /\ set[column] # copy[column]
    <3> DEFINE new == Flushed(accounts[a], copy, set)
    <3>1. copy \in AccountRows /\ set \in AccountRows /\ accounts[a] \in AccountRows
      BY <1>0, <2>3, <2>4
    <3> HIDE DEF copy
    <3>2. \A column \in {"role", "enabled", "active", "mustChange"} :
              new[column] # accounts[a][column] =>
                  new[column] = set[column] /\ set[column] # copy[column]
      BY <3>1, FlushChangesAssigned
    <3>3. accounts'[a] = new
      BY <2>4
    <3> HIDE DEF new
    <3>4. QED
      BY <3>2, <3>3
  <2>6. codes'[c].status = "consumed"
    BY <1>0, <2>1 DEF TypeOK
  <2>7. Redeems(r, a)
    BY <1>4, <2>1, <2>6 DEF Redeems
  <2>8. accounts'[a].role = accounts[a].role
    BY <2>2, <2>5
  <2>9. \A column \in {"enabled", "active"} :
            accounts'[a][column] # accounts[a][column] => accounts'[a][column]
    BY <2>2, <2>5
  <2>10. accounts'[a].mustChange # accounts[a].mustChange => ~accounts'[a].mustChange
    BY <2>2, <2>5
  <2>11. QED
    BY <2>7, <2>8, <2>9, <2>10 DEF RightsOf
<1>5. QED
  BY <1>1, <1>2, <1>3, <1>4

LEMMA RightsKept == ASSUME IInv, [Next]_vars PROVE \A a \in Accounts : RightsOf(a)
<1>1. ASSUME NEW r \in Requests, CommitUpdate(r) \/ CommitReset(r) \/ CommitPassword(r)
      PROVE  \A a \in Accounts : RightsOf(a)
  BY <1>1, WritesKeepRights
<1>2. ASSUME NEW r \in Requests, CreateAccount(r) PROVE \A a \in Accounts : RightsOf(a)
  <2>1. /\ ~Exists(req[r].account)
        /\ \A a \in Accounts \ {req[r].account} : accounts'[a] = accounts[a]
    BY <1>2, CreationMakesRow DEF IInv
  <2>2. QED
    BY <2>1 DEF RightsOf
<1>3. ASSUME UNCHANGED accounts PROVE \A a \in Accounts : RightsOf(a)
  BY <1>3 DEF RightsOf
<1>4. QED
  BY <1>1, <1>2, <1>3, AccountsStay

\* Whatever requests overlap and whatever copies they work on, an account's role, its
\* status and the change of password that is due change only by a request that was made
\* to change them, or by a code of that account that is spent by it
\* (RightsChangeOnPurpose).
THEOREM RightsAreGivenOnPurpose == Spec => RightsChangeOnPurpose
<1>1. IInv /\ [Next]_vars => [\A a \in Accounts : RightsOf(a)]_vars
  BY RightsKept
<1>2. [\A a \in Accounts : RightsOf(a)]_vars =>
          [\A a \in Accounts : Exists(a) =>
              /\ accounts'[a].role # accounts[a].role =>
                     \E r \in Requests : AskedFor(r, a, "role", accounts'[a].role)
              /\ \A column \in {"enabled", "active"} :
                     accounts'[a][column] # accounts[a][column] =>
                         \E r \in Requests : \/ AskedFor(r, a, "enabled", accounts'[a][column])
                                             \/ accounts'[a][column] /\ Redeems(r, a)
              /\ accounts'[a].mustChange # accounts[a].mustChange =>
                     \E r \in Requests : \/ ~accounts'[a].mustChange /\ Redeems(r, a)
                                         \/ /\ accounts'[a].mustChange
                                            /\ CommitReset(r) /\ req[r].account = a]_vars
  BY DEF RightsOf
<1>3. QED
  BY <1>1, <1>2, Invariant, PTL DEF Spec, RightsChangeOnPurpose

\* Where an update removes the last counted administrator.
RemovesLast ==
    \E r \in Requests :
        /\ CommitUpdate(r)
        /\ \/ /\ RemovesAdmin(r)
              /\ req[r].counted # {}
              /\ req[r].counted \cap CountedAdmins = {}
           \/ /\ req[r].copy.role # "ADMIN"
              /\ accounts[req[r].account].role = "ADMIN"

LEMMA LastAdminRemoved ==
    ASSUME IInv, [Next]_vars, CountedAdmins # {}, CountedAdmins' = {}
    PROVE  RemovesLast
<1>1. PICK b \in CountedAdmins : TRUE
  OBVIOUS
<1>2. /\ b \in Accounts /\ accounts[b].exists /\ accounts[b].role = "ADMIN"
      /\ accounts[b].active /\ accounts[b].enabled
  BY <1>1 DEF CountedAdmins, Exists
<1>3. accounts'[b].exists
  BY <1>2, RowsStayed DEF IInv, RowsStay, Exists
<1>4. accounts'[b].role # "ADMIN" \/ ~accounts'[b].active \/ ~accounts'[b].enabled
  BY <1>2, <1>3 DEF CountedAdmins, Exists
<1>5. PICK r \in Requests : /\ CommitUpdate(r) /\ req[r].account = b
                            /\ \/ req[r].payload.role = accounts'[b].role /\ accounts'[b].role # "ADMIN"
                               \/ req[r].payload.enabled \in {accounts'[b].active, accounts'[b].enabled}
                                  /\ ~req[r].payload.enabled
  <2>1. RightsOf(b)
    BY <1>2, RightsKept
  <2>2. CASE accounts'[b].role # "ADMIN"
    BY <1>2, <2>1, <2>2 DEF RightsOf, AskedFor, Exists
  <2>3. CASE ~accounts'[b].active
    <3>1. accounts'[b]["active"] # accounts[b]["active"]
      BY <1>2, <2>3
    <3>2. QED
      BY <1>2, <2>1, <2>3, <3>1 DEF RightsOf, AskedFor, Exists
  <2>4. CASE ~accounts'[b].enabled
    <3>1. accounts'[b]["enabled"] # accounts[b]["enabled"]
      BY <1>2, <2>4
    <3>2. QED
      BY <1>2, <2>1, <2>4, <3>1 DEF RightsOf, AskedFor, Exists
  <2>5. QED
    BY <1>4, <2>2, <2>3, <2>4
<1>6. CountedAdmins = {b}
  <2>1. \A c \in Accounts \ {b} : accounts'[c] = accounts[c]
    BY <1>5, WritesKeepRows DEF IInv, CodesInOrder
  <2>2. QED
    BY <1>1, <2>1 DEF CountedAdmins, Exists
<1>7. /\ RequestInOrder(req[r]) /\ req[r].at = "reserved" /\ req[r].op = "update"
      /\ req[r].payload.role \in Roles \cup {None}
      /\ req[r].payload.enabled \in BOOLEAN \cup {None}
      /\ accounts'[b] \in AccountRows
  BY <1>2, <1>5, InvariantKept
     DEF CommitUpdate, IInv, TypeOK, RequestRecords, Payloads, NoPayload
<1>8. CASE req[r].copy.role # "ADMIN"
  BY <1>2, <1>5, <1>8 DEF RemovesLast
<1>9. CASE req[r].copy.role = "ADMIN"
  <2>1. req[r].payload.role = "READ_ONLY" \/ req[r].payload.enabled = FALSE
    BY <1>5, <1>7 DEF AccountRows, Roles
  <2>2. RemovesAdmin(r) /\ Removing(req[r])
    BY <1>7, <1>9, <2>1 DEF RemovesAdmin, Removing
  <2>3. req[r].counted # {} /\ b \notin req[r].counted
    BY <1>5, <1>7, <2>2 DEF RequestInOrder
  <2>4. QED
    BY <1>5, <1>6, <2>2, <2>3 DEF RemovesLast
<1>10. QED
  BY <1>8, <1>9

\* The last administrator is removed only by an update that overlapped another one
\* (LastAdminNeedsOverlap).
THEOREM LastAdminsNeedOverlap == Spec => LastAdminNeedsOverlap
<1>1. IInv /\ [Next]_vars =>
          [CountedAdmins # {} /\ CountedAdmins' = {} => RemovesLast]_vars
  BY LastAdminRemoved
<1>2. [CountedAdmins # {} /\ CountedAdmins' = {} => RemovesLast]_vars =>
          [CountedAdmins # {} /\ CountedAdmins' = {} =>
              \E r \in Requests :
                  /\ CommitUpdate(r)
                  /\ \/ /\ RemovesAdmin(r)
                        /\ req[r].counted # {}
                        /\ req[r].counted \cap CountedAdmins = {}
                     \/ /\ req[r].copy.role # "ADMIN"
                        /\ accounts[req[r].account].role = "ADMIN"]_vars
  BY DEF RemovesLast
<1>3. QED
  BY <1>1, <1>2, Invariant, PTL DEF Spec, LastAdminNeedsOverlap

------------------------------------------------------------------------------
(* The steps of the password actions, seen as steps of OneTimeCode.        *)

States == [c \in Codes |-> ActionState(c)]

HolderOf == [c \in Codes |-> codes[c].account]

LEMMA IssueIsPromised ==
    ASSUME IInv, NEW r \in Requests, NEW c \in Codes, CommitCode(r, c)
    PROVE  \E h \in Accounts : Promise!Issue(c, h)
<1>0. PICK h \in Accounts : h = req[r].account
  BY DEF IInv, RequestInOrder, CommitCode
<1> DEFINE C == {o \in req[r].outstanding : Open(o)}
<1>1. /\ codes'[c] = [status |-> "open", account |-> h]
      /\ codes[c].status = "unused" /\ c \notin req[r].outstanding
      /\ \A d \in Codes \ {c} :
             /\ codes'[d].account = codes[d].account
             /\ codes'[d].status = IF d \in req[r].outstanding THEN "consumed"
                                   ELSE codes[d].status
      /\ \A o \in req[r].outstanding :
             o \in Codes /\ codes[o].status # "unused" /\ codes[o].account = h
  BY <1>0, IssueMakesCode DEF IInv
<1>2. codes'[c].status = "open" /\ codes'[c].account = h
  BY <1>1
<1>3. grants' = grants
  BY DEF CommitCode
<1>4. States[c] = "absent" /\ States'[c] = "issued"
  BY <1>1, <1>2 DEF States, ActionState
<1>5. \A d \in Codes : codes[d].status \in {"unused", "open", "consumed"}
  BY DEF IInv, TypeOK
<1>6. \A d \in Codes : codes[d].status = "open" => grants[d].count = 0
  BY DEF IInv, CodesInOrder
<1>7. ASSUME NEW d \in Codes \ {c}
      PROVE  States'[d] = IF d \in C THEN "void" ELSE States[d]
  <2>1. CASE d \in C
    <3>1. codes'[d].status = "consumed" /\ grants[d].count = 0
      BY <1>1, <1>6, <2>1 DEF Open
    <3>2. QED
      BY <1>3, <2>1, <3>1 DEF States, ActionState
  <2>2. CASE d \notin C
    <3>1. codes'[d].status = codes[d].status
      BY <1>1, <1>5, <2>2 DEF Open
    <3>2. QED
      BY <1>3, <2>2, <3>1 DEF States, ActionState
  <2>3. QED
    BY <2>1, <2>2
<1>8. States' = [d \in Codes |-> IF d = c THEN "issued" ELSE IF d \in C THEN "void" ELSE States[d]]
  BY <1>4, <1>7 DEF States
<1>9. C \in SUBSET {d \in Codes : States[d] = "issued" /\ HolderOf[d] = h}
  BY <1>1 DEF States, HolderOf, ActionState, Open
<1>10. HolderOf' = [HolderOf EXCEPT ![c] = h]
  BY <1>1, <1>2 DEF HolderOf
<1> HIDE DEF C
<1>11. Promise!Issue(c, h)
  BY <1>3, <1>4, <1>8, <1>9, <1>10 DEF Promise!Issue, States, HolderOf
<1>12. QED
  BY <1>11

LEMMA ConsumptionIsPromised ==
    ASSUME IInv, NEW r \in Requests, CommitPassword(r)
    PROVE  \E c \in Codes : Promise!Redeem(c)
<1> DEFINE c == req[r].code
<1>1. /\ c \in Codes /\ codes[c].status = "open"
      /\ codes'[c].status = "consumed" /\ codes'[c].account = codes[c].account
      /\ \A d \in Codes \ {c} : codes'[d] = codes[d] /\ grants'[d] = grants[d]
      /\ grants' = [grants EXCEPT ![c] = [count |-> 1, to |-> {codes[c].account}]]
  BY ConsumptionUsesCode DEF IInv, Open
<1> HIDE DEF c
<1>2. grants'[c] = [count |-> 1, to |-> {codes[c].account}]
  BY <1>1 DEF IInv, TypeOK
<1>3. grants'[c].count > 0
  BY <1>2
<1>4. States[c] = "issued" /\ States'[c] = "redeemed"
  BY <1>1, <1>3 DEF States, ActionState
<1>5. States' = [States EXCEPT ![c] = "redeemed"]
  BY <1>1, <1>4 DEF States, ActionState
<1>6. HolderOf' = HolderOf /\ HolderOf[c] = codes[c].account
  BY <1>1 DEF HolderOf
<1>7. Promise!Redeem(c)
  BY <1>1, <1>4, <1>5, <1>6 DEF Promise!Redeem, States, HolderOf
<1>8. QED
  BY <1>1, <1>7

LEMMA ExpiryIsPromised ==
    ASSUME IInv, NEW c \in Codes, Expire(c)
    PROVE  Promise!Void({c})
<1>1. /\ codes[c].status = "open" /\ codes' = [codes EXCEPT ![c].status = "consumed"]
      /\ grants' = grants
  BY DEF Expire, Open
<1>2. /\ codes'[c].status = "consumed" /\ codes'[c].account = codes[c].account
      /\ \A d \in Codes \ {c} : codes'[d] = codes[d]
  BY <1>1, ConsumedIsCode DEF IInv
<1>3. grants[c].count = 0
  BY <1>1 DEF IInv, CodesInOrder
<1>4. States[c] = "issued" /\ States'[c] = "void"
  BY <1>1, <1>2, <1>3 DEF States, ActionState
<1>5. States' = [d \in Codes |-> IF d \in {c} THEN "void" ELSE States[d]]
  BY <1>1, <1>2, <1>4 DEF States, ActionState
<1>6. HolderOf' = HolderOf
  BY <1>2 DEF HolderOf
<1>7. QED
  BY <1>1, <1>4, <1>5, <1>6 DEF Promise!Void, States, HolderOf

LEMMA StepIsPromised ==
    ASSUME IInv, [Next]_vars
    PROVE  Promise!Next \/ UNCHANGED <<States, HolderOf, grants>>
<1> USE DEF rows
<1>1. ASSUME UNCHANGED <<codes, grants>> PROVE UNCHANGED <<States, HolderOf, grants>>
  BY <1>1 DEF States, HolderOf, ActionState
<1>2. ASSUME NEW r \in Requests, NEW c \in Codes, CommitCode(r, c) PROVE Promise!Next
  BY <1>2, IssueIsPromised DEF Promise!Next
<1>3. ASSUME NEW r \in Requests, CommitPassword(r) PROVE Promise!Next
  BY <1>3, ConsumptionIsPromised DEF Promise!Next
<1>4. ASSUME NEW c \in Codes, Expire(c) PROVE Promise!Next
  <2>1. {c} \in SUBSET Codes
    OBVIOUS
  <2>2. QED
    BY <1>4, <2>1, ExpiryIsPromised DEF Promise!Next
<1>5. ASSUME NEW r \in Requests, NEW p \in Accounts, NEW a \in Accounts, NEW payload \in Asks,
             BeginUpdate(r, p, a, payload)
      PROVE  UNCHANGED <<codes, grants>>
  BY <1>5 DEF BeginUpdate
<1>6. ASSUME NEW r \in Requests, NEW k \in Keys, ReserveUpdate(r, k)
      PROVE  UNCHANGED <<codes, grants>>
  BY <1>6 DEF ReserveUpdate
<1>7. ASSUME NEW r \in Requests, NEW p \in Accounts, NEW a \in Accounts,
             NEW op \in {"issue", "create"}, NEW k \in Keys, Reserve(r, p, op, a, k)
      PROVE  UNCHANGED <<codes, grants>>
  BY <1>7 DEF Reserve
<1>8. ASSUME NEW r \in Requests, NEW c \in Codes, LockCode(r, c)
      PROVE  UNCHANGED <<codes, grants>>
  BY <1>8 DEF LockCode
<1>9. ASSUME NEW r \in Requests, NEW a \in Accounts, Authenticate(r, a)
      PROVE  UNCHANGED <<codes, grants>>
  BY <1>9 DEF Authenticate
<1>10. ASSUME NEW r \in Requests,
              \/ LoadPrincipal(r) \/ CommitUpdate(r) \/ SelectSessions(r) \/ RevokeSessions(r)
              \/ Audit(r) \/ CreateAccount(r) \/ SelectOutstanding(r) \/ CommitReset(r)
              \/ SessionStep(r) \/ Abort(r)
       PROVE  UNCHANGED <<codes, grants>>
  BY <1>10 DEF LoadPrincipal, CommitUpdate, SelectSessions, RevokeSessions, Audit,
               CreateAccount, SelectOutstanding, CommitReset, Abort, SessionStep,
               CreateSession, BeginRefresh, CheckAccount, CommitRefresh
<1>11. ASSUME NEW s \in SessionIds, EndSession(s)
       PROVE  UNCHANGED <<codes, grants>>
  BY <1>11 DEF EndSession
<1>12. CASE UNCHANGED vars
  BY <1>1, <1>12 DEF vars
<1>13. QED
  BY <1>1, <1>2, <1>3, <1>4, <1>5, <1>6, <1>7, <1>8, <1>9, <1>10, <1>11, <1>12
     DEF Next, Step, SessionStep

\* The password actions implement OneTimeCode: a code sets the password of the account it
\* was issued for, once, or becomes void and stays so (ActionsAreOneTimeCodes).
THEOREM ActionsImplementOneTimeCode == Spec => ActionsAreOneTimeCodes
<1>1. Init => Promise!Init
  <2> SUFFICES ASSUME Init PROVE Promise!Init
    OBVIOUS
  <2>1. /\ \A c \in Codes : codes[c].status = "unused" /\ codes[c].account = None
        /\ grants = [c \in Codes |-> [count |-> 0, to |-> {}]]
    BY DEF Init
  <2>2. \A c \in Codes : ActionState(c) = "absent"
    BY <2>1 DEF ActionState
  <2>3. QED
    BY <2>1, <2>2 DEF Promise!Init
<1>2. IInv /\ [Next]_vars => [Promise!Next]_Promise!vars
  BY StepIsPromised DEF Promise!vars, States, HolderOf
<1>3. QED
  BY <1>1, <1>2, Invariant, PTL DEF Spec, ActionsAreOneTimeCodes, Promise!Spec
==============================================================================
