------------------------ MODULE RefreshSessionsProofs ------------------------
(***************************************************************************)
(* Proofs about RefreshSessions for every set of keys, requests and        *)
(* principals and every value of the time constants.                       *)
(***************************************************************************)
EXTENDS RefreshSessionsProperties, TLAPS

\* Every stored row was inserted for a principal that exists, with columns in
\* the range of the clock, and a row that is gone had expired.
Founded ==
    /\ now \in 0 .. MaxTime
    /\ \A s \in SessionIds : Used(s) =>
          /\ sessions[s].principal \in Principals
          /\ sessions[s].provider = Provider[sessions[s].principal]
          /\ sessions[s].authAt \in 0 .. MaxTime
          /\ sessions[s].expires \in 0 .. MaxTime + SessionTtl
    /\ \A s \in SessionIds : sessions[s].status = "deleted" => sessions[s].expires <= now

SigningFor == \A r \in Requests : pc[r] = "signing" => whose[r] \in Principals

\* A logout in progress holds its row too, revoked already or not.
LogoutHoldsRow ==
    \A r \in Requests : pc[r] = "leaving" =>
        target[r] \in SessionIds /\ lock[target[r]] = r

RowsHeld == RotationHoldsRow /\ LogoutHoldsRow

IInv ==
    /\ TypeOK
    /\ Founded
    /\ SigningFor
    /\ RowsHeld
    /\ InheritsSignIn
    /\ OneLivePerFamily

\* A row keeps the columns it took over from its sign-in.
SameSignIn(s) ==
    /\ sessions'[s].principal = sessions[s].principal
    /\ sessions'[s].family = sessions[s].family
    /\ sessions'[s].provider = sessions[s].provider
    /\ sessions'[s].authAt = sessions[s].authAt
    /\ sessions'[s].expires = sessions[s].expires

\* A step that inserts no row and brings none back to life.
OnlyEnds ==
    /\ sessions' \in [SessionIds -> Rows]
    /\ \A s \in SessionIds :
          /\ Live(s)' => Live(s)
          /\ Used(s)' <=> Used(s)
          /\ SameSignIn(s)

------------------------------------------------------------------------------
(* The steps that end sessions.                                            *)

\* A revocation of any set of rows only ends sessions, and ends those.
LEMMA RevokingEnds ==
    ASSUME TypeOK, NEW S, sessions' = Revoking(S)
    PROVE  /\ OnlyEnds
           /\ \A s \in SessionIds : Live(s)' <=> Live(s) /\ s \notin S
           /\ \A s \in SessionIds :
                 sessions'[s].status = "deleted" <=> sessions[s].status = "deleted"
           /\ \A s \in SessionIds : sessions'[s].replacedBy = sessions[s].replacedBy
<1>1. ASSUME NEW s \in SessionIds
      PROVE  /\ sessions'[s] \in Rows
             /\ Live(s)' <=> Live(s) /\ s \notin S
             /\ Used(s)' <=> Used(s)
             /\ SameSignIn(s)
             /\ sessions'[s].status = "deleted" <=> sessions[s].status = "deleted"
             /\ sessions'[s].replacedBy = sessions[s].replacedBy
  <2>1. CASE s \in S /\ Stored(s)
    <3>1. sessions'[s] = [sessions[s] EXCEPT !.status = "revoked"]
      BY <2>1 DEF Revoking
    <3>2. QED
      BY <2>1, <3>1 DEF TypeOK, Rows, Stored, Live, Used, SameSignIn
  <2>2. CASE ~(s \in S /\ Stored(s))
    <3>1. sessions'[s] = sessions[s]
      BY <2>2 DEF Revoking
    <3>2. QED
      BY <2>2, <3>1 DEF TypeOK, Rows, Stored, Live, Used, SameSignIn
  <2>3. QED
    BY <2>1, <2>2
<1>2. sessions' \in [SessionIds -> Rows]
  BY <1>1 DEF Revoking
<1>3. QED
  BY <1>1, <1>2 DEF OnlyEnds

\* So does a batch of the cleanup job, and what it deletes had expired.
LEMMA CleanupEnds ==
    ASSUME TypeOK, NEW S, Cleanup(S)
    PROVE  /\ OnlyEnds
           /\ \A s \in SessionIds : Live(s) /\ s \notin S => Live(s)'
           /\ \A s \in SessionIds :
                 sessions'[s].status = "deleted"
                     => sessions[s].status = "deleted" \/ sessions[s].expires <= now
           /\ \A s \in SessionIds :
                 sessions'[s].replacedBy \in {sessions[s].replacedBy, None}
<1>1. ASSUME NEW s \in SessionIds
      PROVE  /\ sessions'[s] \in Rows
             /\ Live(s)' => Live(s)
             /\ Live(s) /\ s \notin S => Live(s)'
             /\ Used(s)' <=> Used(s)
             /\ SameSignIn(s)
             /\ sessions'[s].status = "deleted"
                    => sessions[s].status = "deleted" \/ sessions[s].expires <= now
             /\ sessions'[s].replacedBy \in {sessions[s].replacedBy, None}
  <2>1. CASE s \in S
    <3>1. sessions'[s] = [sessions[s] EXCEPT !.status = "deleted", !.replacedBy = None]
      BY <2>1 DEF Cleanup
    <3>2. Stored(s) /\ sessions[s].expires <= now
      BY <2>1 DEF Cleanup, Expired
    <3>3. QED
      BY <2>1, <3>1, <3>2 DEF TypeOK, Rows, Stored, Live, Used, SameSignIn
  <2>2. CASE s \notin S
    <3>1. \/ sessions'[s] = [sessions[s] EXCEPT !.replacedBy = None]
          \/ sessions'[s] = sessions[s]
      BY <2>2 DEF Cleanup
    <3>2. QED
      BY <2>2, <3>1 DEF TypeOK, Rows, Stored, Live, Used, SameSignIn
  <2>3. QED
    BY <2>1, <2>2
<1>2. sessions' \in [SessionIds -> Rows]
  BY <1>1 DEF Cleanup
<1>3. QED
  BY <1>1, <1>2 DEF OnlyEnds

\* Ending sessions disturbs neither the lineage nor the uniqueness.
LEMMA EndsKeepFamilies ==
    ASSUME IInv, OnlyEnds
    PROVE  InheritsSignIn' /\ OneLivePerFamily'
<1>1. InheritsSignIn'
  <2>1. SUFFICES ASSUME NEW s \in SessionIds, Used(s)'
                 PROVE  \E f \in SessionIds :
                           /\ f = sessions'[s].family
                           /\ Used(f)'
                           /\ sessions'[f].family = f
                           /\ sessions'[s].principal = sessions'[f].principal
                           /\ sessions'[s].provider = sessions'[f].provider
                           /\ sessions'[s].authAt = sessions'[f].authAt
                           /\ sessions'[s].expires = sessions'[f].expires
    BY DEF InheritsSignIn, Used
  <2>2. Used(s)
    BY <2>1 DEF OnlyEnds
  <2>3. PICK f \in SessionIds :
           /\ f = sessions[s].family
           /\ Used(f)
           /\ sessions[f].family = f
           /\ sessions[s].principal = sessions[f].principal
           /\ sessions[s].provider = sessions[f].provider
           /\ sessions[s].authAt = sessions[f].authAt
           /\ sessions[s].expires = sessions[f].expires
    BY <2>2 DEF IInv, InheritsSignIn, Used
  <2>4. SameSignIn(s) /\ SameSignIn(f) /\ Used(f)'
    BY <2>3 DEF OnlyEnds
  <2>5. QED
    BY <2>3, <2>4 DEF SameSignIn
<1>2. OneLivePerFamily'
  <2>1. SUFFICES ASSUME NEW s \in SessionIds, NEW t \in SessionIds, Live(s)', Live(t)',
                        sessions'[s].family = sessions'[t].family
                 PROVE  s = t
    BY DEF OneLivePerFamily, Live
  <2>2. Live(s) /\ Live(t) /\ sessions[s].family = sessions[t].family
    BY <2>1 DEF OnlyEnds, SameSignIn
  <2>3. QED
    BY <2>2 DEF IInv, OneLivePerFamily
<1>3. QED
  BY <1>1, <1>2

\* Nor does a step that leaves the rows alone.
LEMMA QuietKeepsRows ==
    ASSUME IInv, UNCHANGED sessions, now' \in now .. MaxTime
    PROVE  Founded' /\ InheritsSignIn' /\ OneLivePerFamily'
<1>1. Founded'
  BY TimeAssumption DEF IInv, Founded, Used, TypeOK, Rows
<1>2. InheritsSignIn' /\ OneLivePerFamily'
  BY DEF IInv, InheritsSignIn, OneLivePerFamily, Used, Live
<1>3. QED
  BY <1>1, <1>2

------------------------------------------------------------------------------
(* Row locks.                                                              *)

\* What a request may do to the locks, the rows and the locals of the others:
\* it takes no lock from them and changes no live row they have locked.
RespectsLocks(r) ==
    /\ \A q \in Requests \ {r} : pc'[q] = pc[q] /\ target'[q] = target[q]
    /\ \A s \in SessionIds : lock[s] \notin {None, r} =>
          /\ lock'[s] = lock[s]
          /\ sessions[s].status = "live" => sessions'[s].status = "live"

LEMMA LocksProtectRows ==
    ASSUME RowsHeld, NEW r, RespectsLocks(r),
           r \in Requests /\ pc'[r] \in {"eligibility", "rotating"} =>
               /\ target'[r] \in SessionIds
               /\ lock'[target'[r]] = r
               /\ sessions'[target'[r]].status = "live",
           r \in Requests /\ pc'[r] = "leaving" =>
               /\ target'[r] \in SessionIds
               /\ lock'[target'[r]] = r
    PROVE  RowsHeld'
<1>1. ASSUME NEW q \in Requests, pc'[q] \in {"eligibility", "rotating"}
      PROVE  /\ target'[q] \in SessionIds
             /\ lock'[target'[q]] = q
             /\ sessions'[target'[q]].status = "live"
  <2>1. CASE q = r
    BY <1>1, <2>1
  <2>2. CASE q # r
    BY <1>1, <2>2, RequestsAssumption DEF RespectsLocks, RowsHeld, RotationHoldsRow, Live
  <2>3. QED
    BY <2>1, <2>2
<1>2. ASSUME NEW q \in Requests, pc'[q] = "leaving"
      PROVE  target'[q] \in SessionIds /\ lock'[target'[q]] = q
  <2>1. CASE q = r
    BY <1>2, <2>1
  <2>2. CASE q # r
    BY <1>2, <2>2, RequestsAssumption DEF RespectsLocks, RowsHeld, LogoutHoldsRow
  <2>3. QED
    BY <2>1, <2>2
<1>3. QED
  BY <1>1, <1>2 DEF RowsHeld, RotationHoldsRow, LogoutHoldsRow, Live

\* The end of a transaction gives back the locks of its request alone.
LEMMA UnlockingIsLocal ==
    ASSUME TypeOK, NEW r \in Requests, lock' = Unlocking(r)
    PROVE  /\ lock' \in [SessionIds -> Requests \cup {None}]
           /\ \A s \in SessionIds : lock[s] # r => lock'[s] = lock[s]
BY DEF TypeOK, Unlocking

LEMMA FinishIsTyped ==
    ASSUME TypeOK, NEW r \in Requests, Finish(r)
    PROVE  /\ pc' \in [Requests -> {"idle", "signing", "eligibility", "rotating",
                                    "flushing", "leaving"}]
           /\ target' \in [Requests -> SessionIds \cup {None}]
           /\ whose' \in [Requests -> Principals \cup {None}]
           /\ seen' \in [Requests -> Nat]
           /\ victims' \in [Requests -> SUBSET SessionIds]
           /\ pc'[r] = "idle"
           /\ \A q \in Requests \ {r} : pc'[q] = pc[q] /\ target'[q] = target[q]
                                         /\ whose'[q] = whose[q]
BY DEF TypeOK, Finish

------------------------------------------------------------------------------
(* The inductive invariant, one lemma per operation.                       *)

LEMMA InitIInv == Init => IInv
<1>1. SUFFICES ASSUME Init PROVE IInv
  OBVIOUS
<1>2. TypeOK
  <2>1. sessions \in [SessionIds -> Rows]
    BY <1>1 DEF Init, Rows, NoRow
  <2>2. principals \in [Principals -> PrincipalRows]
    <3>1. {TRUE} \subseteq BOOLEAN /\ {1} \subseteq Nat /\ StartRoles \subseteq Roles
      BY RolesAssumption DEF Roles
    <3>2. \A A, B, D : A \subseteq Roles /\ B \subseteq BOOLEAN /\ D \subseteq Nat =>
             [role : A, active : B, eligible : B, version : D] \subseteq PrincipalRows
      BY DEF PrincipalRows
    <3>3. [role : StartRoles, active : {TRUE}, eligible : {TRUE}, version : {1}]
              \subseteq PrincipalRows
      BY <3>1, <3>2
    <3>4. QED
      BY <1>1, <3>3 DEF Init
  <2>3. QED
    BY <1>1, <2>1, <2>2 DEF Init, TypeOK
<1>3. Founded
  BY <1>1, TimeAssumption DEF Init, Founded, Used, NoRow
<1>4. SigningFor /\ RowsHeld
  BY <1>1 DEF Init, SigningFor, RowsHeld, RotationHoldsRow, LogoutHoldsRow
<1>5. InheritsSignIn /\ OneLivePerFamily
  BY <1>1 DEF Init, InheritsSignIn, OneLivePerFamily, Used, Live, NoRow
<1>6. QED
  BY <1>2, <1>3, <1>4, <1>5 DEF IInv

LEMMA AuthenticateKeeps ==
    ASSUME IInv, NEW r \in Requests, NEW p \in Principals, Authenticate(r, p)
    PROVE  IInv'
<1>1. TypeOK /\ SigningFor /\ RowsHeld /\ now \in 0 .. MaxTime
  BY DEF IInv, Founded
<1>2. sessions' = sessions /\ lock' = lock /\ principals' = principals /\ now' = now
  BY DEF Authenticate, tables
<1>3. target' = target /\ victims' = victims
  BY DEF Authenticate
<1>4. /\ pc' = [pc EXCEPT ![r] = "signing"]
      /\ whose' = [whose EXCEPT ![r] = p]
      /\ seen' = [seen EXCEPT ![r] = principals[p].version]
  BY DEF Authenticate
<1>5. TypeOK'
  BY <1>1, <1>2, <1>3, <1>4 DEF TypeOK, PrincipalRows
<1>6. SigningFor'
  BY <1>1, <1>4 DEF TypeOK, SigningFor
<1>7. RowsHeld'
  BY <1>1, <1>2, <1>3, <1>4 DEF TypeOK, RowsHeld, RotationHoldsRow, LogoutHoldsRow, Live
<1>8. now' \in now .. MaxTime
  BY <1>1, <1>2, TimeAssumption
<1>9. QED
  BY <1>2, <1>5, <1>6, <1>7, <1>8, QuietKeepsRows DEF IInv

\* A refresh takes the lock and, to go on, finds the row live under it.
LEMMA RefreshKeeps ==
    ASSUME IInv, NEW r \in Requests, NEW s \in SessionIds, Refresh(r, s)
    PROVE  IInv'
<1>1. /\ TypeOK /\ SigningFor /\ RowsHeld /\ now \in 0 .. MaxTime
      /\ Used(s) => sessions[s].principal \in Principals
  BY DEF IInv, Founded
<1>2. sessions' = sessions /\ principals' = principals /\ now' = now /\ Used(s)
  BY DEF Refresh, Stored, Used
<1>3. lock[s] = None /\ lock' = [lock EXCEPT ![s] = r] /\ target' = [target EXCEPT ![r] = s]
  BY DEF Refresh, Locking
<1>4. /\ whose' = [whose EXCEPT ![r] = sessions[s].principal]
      /\ seen' = [seen EXCEPT ![r] = principals[sessions[s].principal].version]
  BY DEF Refresh
<1>5. \/ /\ pc' = [pc EXCEPT ![r] = "flushing"]
         /\ victims' = [victims EXCEPT ![r] = LiveOfFamily(sessions[s].family)]
      \/ /\ Live(s)
         /\ \E next \in {"eligibility", "rotating"} : pc' = [pc EXCEPT ![r] = next]
         /\ victims' = victims
  BY DEF Refresh, BeginFamilyRevocation
<1>6. LiveOfFamily(sessions[s].family) \subseteq SessionIds
  BY DEF LiveOfFamily
<1>7. pc' \in [Requests -> {"idle", "signing", "eligibility", "rotating", "flushing",
                            "leaving"}]
      /\ victims' \in [Requests -> SUBSET SessionIds]
  BY <1>1, <1>5, <1>6 DEF TypeOK
<1>8. TypeOK'
  BY <1>1, <1>2, <1>3, <1>4, <1>7 DEF TypeOK, PrincipalRows
<1>9. pc'[r] # "signing" /\ (\A q \in Requests \ {r} : pc'[q] = pc[q] /\ whose'[q] = whose[q])
  BY <1>1, <1>4, <1>5 DEF TypeOK
<1>10. SigningFor'
  BY <1>1, <1>9 DEF SigningFor
<1>11. RespectsLocks(r)
  BY <1>1, <1>2, <1>3, <1>9 DEF RespectsLocks, TypeOK
<1>12. /\ pc'[r] # "leaving"
       /\ pc'[r] \in {"eligibility", "rotating"} => sessions[s].status = "live"
  BY <1>1, <1>5 DEF TypeOK, Live
<1>13. target'[r] = s /\ lock'[s] = r
  BY <1>1, <1>3 DEF TypeOK
<1>14. RowsHeld'
  BY <1>1, <1>2, <1>11, <1>12, <1>13, LocksProtectRows
<1>15. now' \in now .. MaxTime
  BY <1>1, <1>2, TimeAssumption
<1>16. QED
  BY <1>2, <1>8, <1>10, <1>14, <1>15, QuietKeepsRows DEF IInv

\* A sign-in inserts a row that begins a family of its own.
LEMMA CreateSessionKeeps ==
    ASSUME IInv, NEW r \in Requests, NEW n \in SessionIds, CreateSession(r, n)
    PROVE  IInv'
<1>1. /\ TypeOK /\ Founded /\ SigningFor /\ RowsHeld /\ InheritsSignIn
      /\ OneLivePerFamily /\ now \in 0 .. MaxTime /\ whose[r] \in Principals
  BY DEF IInv, Founded, SigningFor, CreateSession
<1>2. lock' = lock /\ principals' = principals /\ now' = now /\ Finish(r) /\ ~Used(n)
  BY DEF CreateSession, Fresh
<1>3. PICK at \in 0 .. MaxTime, end \in 0 .. MaxTime + SessionTtl :
          sessions' = [sessions EXCEPT ![n] = SignInRow(n, whose[r], seen[r], at, end)]
  <2>1. PICK at \in {now} \cup 0 .. now,
             end \in {now + SessionTtl}
                         \cup {Smaller(now + SessionTtl, e) : e \in ProviderEnds} :
          sessions' = [sessions EXCEPT ![n] = SignInRow(n, whose[r], seen[r], at, end)]
    BY DEF CreateSession
  <2>2. at \in 0 .. MaxTime
    BY <1>1, TimeAssumption
  <2>3. end \in 0 .. MaxTime + SessionTtl
    BY <1>1, TimeAssumption, TtlAssumption DEF Smaller
  <2>4. QED
    BY <2>1, <2>2, <2>3
<1>4. /\ sessions'[n].status = "live"
      /\ sessions'[n].principal = whose[r]
      /\ sessions'[n].family = n
      /\ sessions'[n].provider = Provider[whose[r]]
      /\ sessions'[n].authAt = at
      /\ sessions'[n].expires = end
      /\ \A s \in SessionIds \ {n} : sessions'[s] = sessions[s]
  BY <1>1, <1>3 DEF TypeOK, SignInRow
<1>5. sessions' \in [SessionIds -> Rows]
  <2>1. SignInRow(n, whose[r], seen[r], at, end) \in Rows
    BY <1>1, ProviderAssumption, TimeAssumption, TtlAssumption DEF SignInRow, Rows, TypeOK
  <2>2. QED
    BY <1>1, <1>3, <2>1 DEF TypeOK
<1>6. TypeOK'
  BY <1>1, <1>2, <1>5, FinishIsTyped DEF TypeOK
<1>7. Founded'
  BY <1>1, <1>2, <1>4 DEF Founded, Used
<1>8. SigningFor'
  BY <1>1, <1>2, FinishIsTyped DEF SigningFor
<1>9. RowsHeld'
  <2>1. RespectsLocks(r)
    BY <1>1, <1>2, <1>4, FinishIsTyped DEF RespectsLocks, Used
  <2>2. QED
    BY <1>1, <1>2, <2>1, FinishIsTyped, LocksProtectRows
<1>10. InheritsSignIn'
  <2>1. SUFFICES ASSUME NEW s \in SessionIds, sessions'[s].status # "unused"
                 PROVE  \E f \in SessionIds :
                           /\ f = sessions'[s].family
                           /\ sessions'[f].status # "unused"
                           /\ sessions'[f].family = f
                           /\ sessions'[s].principal = sessions'[f].principal
                           /\ sessions'[s].provider = sessions'[f].provider
                           /\ sessions'[s].authAt = sessions'[f].authAt
                           /\ sessions'[s].expires = sessions'[f].expires
    BY DEF InheritsSignIn, Used
  <2>2. CASE s = n
    BY <1>4, <2>2
  <2>3. CASE s # n
    BY <1>1, <1>2, <1>4, <2>1, <2>3 DEF InheritsSignIn, Used
  <2>4. QED
    BY <2>2, <2>3
<1>11. OneLivePerFamily'
  <2>1. \A s \in SessionIds : sessions[s].status = "live" => sessions[s].family # n
    BY <1>1, <1>2 DEF InheritsSignIn, Used
  <2>2. QED
    BY <1>1, <1>4, <2>1 DEF OneLivePerFamily, Live
<1>12. QED
  BY <1>6, <1>7, <1>8, <1>9, <1>10, <1>11 DEF IInv

\* What a rotation does to the rows: the row it presented gives its life, its
\* family and the terms of its sign-in to a row that was not used before.
LEMMA RotateMoves ==
    ASSUME IInv, NEW r \in Requests, NEW n \in SessionIds, Rotate(r, n)
    PROVE  /\ target[r] \in SessionIds /\ Live(target[r]) /\ lock[target[r]] = r
           /\ ~Used(n) /\ n # target[r]
           /\ sessions' \in [SessionIds -> Rows]
           /\ \A t \in SessionIds \ {target[r], n} : sessions'[t] = sessions[t]
           /\ sessions'[target[r]].status = "revoked"
           /\ sessions'[target[r]].replacedBy = n
           /\ sessions'[n].status = "live"
           /\ sessions'[n].replacedBy = None
           /\ \A t \in {target[r], n} :
                 /\ sessions'[t].principal = sessions[target[r]].principal
                 /\ sessions'[t].family = sessions[target[r]].family
                 /\ sessions'[t].provider = sessions[target[r]].provider
                 /\ sessions'[t].authAt = sessions[target[r]].authAt
                 /\ sessions'[t].expires = sessions[target[r]].expires
<1> DEFINE s == target[r]
<1>1. TypeOK /\ s \in SessionIds /\ Live(s) /\ lock[s] = r /\ ~Used(n)
  BY DEF IInv, RowsHeld, RotationHoldsRow, Rotate, Fresh
<1>2. n # s
  BY <1>1 DEF Used, Live
<1>3. sessions' = [sessions EXCEPT ![s].status = "revoked", ![s].replacedBy = n,
                                   ![n] = SuccessorRow(s, seen[r])]
  BY DEF Rotate
<1>4. sessions[s] \in Rows /\ seen[r] \in Nat
  BY <1>1 DEF TypeOK
<1>5. SuccessorRow(s, seen[r]) \in Rows
  BY <1>4 DEF SuccessorRow, Rows
<1>6. /\ \A t \in SessionIds \ {s, n} : sessions'[t] = sessions[t]
      /\ sessions'[s] = [sessions[s] EXCEPT !.status = "revoked", !.replacedBy = n]
      /\ sessions'[n] = SuccessorRow(s, seen[r])
      /\ DOMAIN sessions' = SessionIds
      /\ sessions' = [t \in SessionIds |-> sessions'[t]]
  BY <1>1, <1>2, <1>3 DEF TypeOK
<1>7. sessions'[s] \in Rows
  BY <1>4, <1>6 DEF Rows
<1>8. \A t \in SessionIds : sessions'[t] \in Rows
  BY <1>1, <1>5, <1>6, <1>7 DEF TypeOK
<1>9. sessions' \in [SessionIds -> Rows]
  BY <1>6, <1>8
<1>10. /\ sessions'[s].status = "revoked"
       /\ sessions'[s].replacedBy = n
       /\ sessions'[s].principal = sessions[s].principal
       /\ sessions'[s].family = sessions[s].family
       /\ sessions'[s].provider = sessions[s].provider
       /\ sessions'[s].authAt = sessions[s].authAt
       /\ sessions'[s].expires = sessions[s].expires
  BY <1>4, <1>6 DEF Rows
<1>11. /\ sessions'[n].status = "live"
       /\ sessions'[n].replacedBy = None
       /\ sessions'[n].principal = sessions[s].principal
       /\ sessions'[n].family = sessions[s].family
       /\ sessions'[n].provider = sessions[s].provider
       /\ sessions'[n].authAt = sessions[s].authAt
       /\ sessions'[n].expires = sessions[s].expires
  BY <1>1, <1>4, <1>6 DEF Rows, SuccessorRow, Live
<1>12. QED
  BY <1>1, <1>2, <1>6, <1>9, <1>10, <1>11

LEMMA RotateKeeps ==
    ASSUME IInv, NEW r \in Requests, NEW n \in SessionIds, Rotate(r, n)
    PROVE  IInv'
<1> DEFINE s == target[r]
<1>1. /\ TypeOK /\ Founded /\ SigningFor /\ RowsHeld /\ InheritsSignIn
      /\ OneLivePerFamily
  BY DEF IInv
<1>2. lock' = Unlocking(r) /\ principals' = principals /\ now' = now /\ Finish(r)
  BY DEF Rotate
<1>3. /\ s \in SessionIds /\ sessions[s].status = "live" /\ lock[s] = r
      /\ sessions[n].status = "unused" /\ n # s
      /\ sessions' \in [SessionIds -> Rows]
      /\ \A t \in SessionIds \ {s, n} : sessions'[t] = sessions[t]
      /\ sessions'[s].status = "revoked"
      /\ sessions'[n].status = "live"
      /\ \A t \in {s, n} :
            /\ sessions'[t].principal = sessions[s].principal
            /\ sessions'[t].family = sessions[s].family
            /\ sessions'[t].provider = sessions[s].provider
            /\ sessions'[t].authAt = sessions[s].authAt
            /\ sessions'[t].expires = sessions[s].expires
  BY RotateMoves DEF Live, Used
<1>4. TypeOK'
  BY <1>1, <1>2, <1>3, FinishIsTyped, UnlockingIsLocal DEF TypeOK
<1>5. Founded'
  <2>1. \A t \in SessionIds : sessions'[t].status # "unused" =>
           \E u \in SessionIds :
              /\ sessions[u].status # "unused"
              /\ sessions'[t].principal = sessions[u].principal
              /\ sessions'[t].provider = sessions[u].provider
              /\ sessions'[t].authAt = sessions[u].authAt
              /\ sessions'[t].expires = sessions[u].expires
    BY <1>3
  <2>2. \A t \in SessionIds : sessions'[t].status = "deleted" => sessions'[t] = sessions[t]
    BY <1>3
  <2>3. QED
    BY <1>1, <1>2, <2>1, <2>2 DEF Founded, Used
<1>6. SigningFor'
  BY <1>1, <1>2, FinishIsTyped DEF SigningFor
<1>7. RowsHeld'
  <2>1. RespectsLocks(r)
    BY <1>1, <1>2, <1>3, FinishIsTyped, UnlockingIsLocal DEF RespectsLocks
  <2>2. QED
    BY <1>1, <1>2, <2>1, FinishIsTyped, LocksProtectRows
<1>8. InheritsSignIn'
  <2>1. SUFFICES ASSUME NEW t \in SessionIds, sessions'[t].status # "unused"
                 PROVE  \E f \in SessionIds :
                           /\ f = sessions'[t].family
                           /\ sessions'[f].status # "unused"
                           /\ sessions'[f].family = f
                           /\ sessions'[t].principal = sessions'[f].principal
                           /\ sessions'[t].provider = sessions'[f].provider
                           /\ sessions'[t].authAt = sessions'[f].authAt
                           /\ sessions'[t].expires = sessions'[f].expires
    BY DEF InheritsSignIn, Used
  <2>2. PICK u \in SessionIds :
           /\ sessions[u].status # "unused"
           /\ sessions'[t].principal = sessions[u].principal
           /\ sessions'[t].family = sessions[u].family
           /\ sessions'[t].provider = sessions[u].provider
           /\ sessions'[t].authAt = sessions[u].authAt
           /\ sessions'[t].expires = sessions[u].expires
    BY <1>3, <2>1
  <2>3. PICK f \in SessionIds :
           /\ f = sessions[u].family
           /\ sessions[f].status # "unused"
           /\ sessions[f].family = f
           /\ sessions[u].principal = sessions[f].principal
           /\ sessions[u].provider = sessions[f].provider
           /\ sessions[u].authAt = sessions[f].authAt
           /\ sessions[u].expires = sessions[f].expires
    BY <1>1, <2>2 DEF InheritsSignIn, Used
  <2>4. /\ sessions'[f].status # "unused"
        /\ sessions'[f].principal = sessions[f].principal
        /\ sessions'[f].family = sessions[f].family
        /\ sessions'[f].provider = sessions[f].provider
        /\ sessions'[f].authAt = sessions[f].authAt
        /\ sessions'[f].expires = sessions[f].expires
    BY <1>3, <2>3
  <2>5. QED
    BY <2>2, <2>3, <2>4
<1>9. OneLivePerFamily'
  <2>1. SUFFICES ASSUME NEW t \in SessionIds, NEW u \in SessionIds,
                        sessions'[t].status = "live", sessions'[u].status = "live",
                        sessions'[t].family = sessions'[u].family, t # u
                 PROVE  FALSE
    BY DEF OneLivePerFamily, Live
  <2>2. t # s /\ u # s
    BY <1>3, <2>1
  <2>3. \A v \in SessionIds \ {s, n} :
           sessions[v].status = "live" => sessions[v].family # sessions[s].family
    BY <1>1, <1>3 DEF OneLivePerFamily, Live
  <2>4. t \in SessionIds \ {s, n} /\ u \in SessionIds \ {s, n}
    BY <1>3, <2>1, <2>2, <2>3
  <2>5. QED
    BY <1>1, <1>3, <2>1, <2>4 DEF OneLivePerFamily, Live
<1>10. QED
  BY <1>4, <1>5, <1>6, <1>7, <1>8, <1>9 DEF IInv

LEMMA CheckEligibilityKeeps ==
    ASSUME IInv, NEW r \in Requests, CheckEligibility(r)
    PROVE  IInv'
<1>1. TypeOK /\ SigningFor /\ RowsHeld /\ now \in 0 .. MaxTime
  BY DEF IInv, Founded
<1>2. sessions' = sessions /\ lock' = lock /\ principals' = principals /\ now' = now
  BY DEF CheckEligibility, tables
<1>3. target' = target /\ whose' = whose /\ seen' = seen /\ pc[r] = "eligibility"
  BY DEF CheckEligibility
<1>4. \/ /\ pc' = [pc EXCEPT ![r] = "rotating"]
         /\ victims' = victims
      \/ /\ pc' = [pc EXCEPT ![r] = "flushing"]
         /\ victims' = [victims EXCEPT ![r] = LiveOfFamily(sessions[target[r]].family)]
  BY DEF CheckEligibility, BeginFamilyRevocation
<1>5. LiveOfFamily(sessions[target[r]].family) \subseteq SessionIds
  BY DEF LiveOfFamily
<1>6. TypeOK'
  BY <1>1, <1>2, <1>3, <1>4, <1>5 DEF TypeOK
<1>7. SigningFor'
  BY <1>1, <1>3, <1>4 DEF TypeOK, SigningFor
<1>8. RowsHeld'
  BY <1>1, <1>2, <1>3, <1>4 DEF TypeOK, RowsHeld, RotationHoldsRow, LogoutHoldsRow, Live
<1>9. now' \in now .. MaxTime
  BY <1>1, <1>2, TimeAssumption
<1>10. QED
  BY <1>2, <1>6, <1>7, <1>8, <1>9, QuietKeepsRows DEF IInv

LEMMA RevokePrincipalSessionsKeeps ==
    ASSUME IInv, NEW r \in Requests, NEW p \in Principals, RevokePrincipalSessions(r, p)
    PROVE  IInv'
<1>1. TypeOK /\ SigningFor /\ RowsHeld /\ now \in 0 .. MaxTime
  BY DEF IInv, Founded
<1>2. sessions' = sessions /\ lock' = lock /\ principals' = principals /\ now' = now
  BY DEF RevokePrincipalSessions, tables
<1>3. /\ target' = target /\ seen' = seen
      /\ pc' = [pc EXCEPT ![r] = "flushing"]
      /\ whose' = [whose EXCEPT ![r] = p]
      /\ victims' = [victims EXCEPT ![r] = LiveOfPrincipal(p)]
  BY DEF RevokePrincipalSessions
<1>4. LiveOfPrincipal(p) \subseteq SessionIds
  BY DEF LiveOfPrincipal
<1>5. TypeOK'
  BY <1>1, <1>2, <1>3, <1>4 DEF TypeOK
<1>6. SigningFor'
  BY <1>1, <1>3 DEF TypeOK, SigningFor
<1>7. RowsHeld'
  BY <1>1, <1>2, <1>3 DEF TypeOK, RowsHeld, RotationHoldsRow, LogoutHoldsRow, Live
<1>8. now' \in now .. MaxTime
  BY <1>1, <1>2, TimeAssumption
<1>9. QED
  BY <1>2, <1>5, <1>6, <1>7, <1>8, QuietKeepsRows DEF IInv

\* Taking one more row lock, for a flush or for a logout.
LEMMA LockVictimKeeps ==
    ASSUME IInv, NEW r \in Requests, NEW v \in SessionIds, LockVictim(r, v)
    PROVE  IInv'
<1>1. TypeOK /\ SigningFor /\ RowsHeld /\ now \in 0 .. MaxTime
  BY DEF IInv, Founded
<1>2. sessions' = sessions /\ principals' = principals /\ now' = now
  BY DEF LockVictim
<1>3. /\ pc' = pc /\ target' = target /\ whose' = whose /\ seen' = seen
      /\ victims' = victims
  BY DEF LockVictim, locals
<1>4. pc[r] = "flushing" /\ lock[v] = None /\ lock' = [lock EXCEPT ![v] = r]
  BY DEF LockVictim, Locking
<1>5. TypeOK'
  BY <1>1, <1>2, <1>3, <1>4 DEF TypeOK
<1>6. SigningFor'
  BY <1>1, <1>3 DEF SigningFor
<1>7. RespectsLocks(r)
  BY <1>1, <1>2, <1>3, <1>4 DEF RespectsLocks, TypeOK
<1>8. RowsHeld'
  BY <1>1, <1>3, <1>4, <1>7, LocksProtectRows
<1>9. now' \in now .. MaxTime
  BY <1>1, <1>2, TimeAssumption
<1>10. QED
  BY <1>2, <1>5, <1>6, <1>8, <1>9, QuietKeepsRows DEF IInv

LEMMA BeginLogoutKeeps ==
    ASSUME IInv, NEW r \in Requests, NEW s \in SessionIds, BeginLogout(r, s)
    PROVE  IInv'
<1>1. TypeOK /\ SigningFor /\ RowsHeld /\ now \in 0 .. MaxTime
  BY DEF IInv, Founded
<1>2. sessions' = sessions /\ principals' = principals /\ now' = now
  BY DEF BeginLogout
<1>3. whose' = whose /\ seen' = seen /\ victims' = victims
  BY DEF BeginLogout
<1>4. /\ lock[s] = None /\ lock' = [lock EXCEPT ![s] = r]
      /\ pc' = [pc EXCEPT ![r] = "leaving"]
      /\ target' = [target EXCEPT ![r] = s]
  BY DEF BeginLogout, Locking
<1>5. TypeOK'
  BY <1>1, <1>2, <1>3, <1>4 DEF TypeOK
<1>6. SigningFor'
  BY <1>1, <1>3, <1>4 DEF TypeOK, SigningFor
<1>7. RespectsLocks(r)
  BY <1>1, <1>2, <1>4 DEF RespectsLocks, TypeOK
<1>8. pc'[r] = "leaving" /\ target'[r] = s /\ lock'[s] = r
  BY <1>1, <1>4 DEF TypeOK
<1>9. RowsHeld'
  BY <1>1, <1>7, <1>8, LocksProtectRows
<1>10. now' \in now .. MaxTime
  BY <1>1, <1>2, TimeAssumption
<1>11. QED
  BY <1>2, <1>5, <1>6, <1>9, <1>10, QuietKeepsRows DEF IInv

\* A step that only ends sessions keeps the invariant when its request does
\* and nothing but expired rows is deleted.
LEMMA EndsKeep ==
    ASSUME IInv, OnlyEnds, TypeOK', SigningFor', RowsHeld', now' = now,
           \A s \in SessionIds : sessions'[s].status = "deleted" =>
               sessions[s].status = "deleted" \/ sessions[s].expires <= now
    PROVE  IInv'
<1>1. Founded
  BY DEF IInv
<1>2. Founded'
  BY <1>1 DEF Founded, OnlyEnds, SameSignIn, Used
<1>3. QED
  BY <1>2, EndsKeepFamilies DEF IInv

LEMMA CommitRevocationKeeps ==
    ASSUME IInv, NEW r \in Requests, CommitRevocation(r)
    PROVE  IInv'
<1>1. TypeOK /\ SigningFor /\ RowsHeld
  BY DEF IInv
<1>2. /\ sessions' = Revoking(victims[r]) /\ lock' = Unlocking(r) /\ Finish(r)
      /\ principals' = principals /\ now' = now /\ Pending(r) = {}
  BY DEF CommitRevocation
<1>3. /\ OnlyEnds
      /\ \A s \in SessionIds : Live(s)' <=> Live(s) /\ s \notin victims[r]
      /\ \A s \in SessionIds :
            sessions'[s].status = "deleted" <=> sessions[s].status = "deleted"
  BY <1>1, <1>2, RevokingEnds
<1>4. TypeOK'
  BY <1>1, <1>2, <1>3, FinishIsTyped, UnlockingIsLocal DEF TypeOK, OnlyEnds
<1>5. SigningFor'
  BY <1>1, <1>2, FinishIsTyped DEF SigningFor
<1>6. \A s \in SessionIds : lock[s] # r /\ sessions[s].status = "live" => s \notin victims[r]
  BY <1>2 DEF Pending, Stored
<1>7. RespectsLocks(r)
  BY <1>1, <1>2, <1>3, <1>6, FinishIsTyped, UnlockingIsLocal DEF RespectsLocks, Live
<1>8. RowsHeld'
  BY <1>1, <1>2, <1>7, FinishIsTyped, LocksProtectRows
<1>9. QED
  BY <1>2, <1>3, <1>4, <1>5, <1>8, EndsKeep

LEMMA CommitLogoutKeeps ==
    ASSUME IInv, NEW r \in Requests, CommitLogout(r)
    PROVE  IInv'
<1>1. TypeOK /\ SigningFor /\ RowsHeld
  BY DEF IInv
<1>2. /\ sessions' = Revoking({target[r]}) /\ lock' = Unlocking(r) /\ Finish(r)
      /\ principals' = principals /\ now' = now /\ pc[r] = "leaving"
  BY DEF CommitLogout
<1>3. /\ OnlyEnds
      /\ \A s \in SessionIds : Live(s)' <=> Live(s) /\ s \notin {target[r]}
      /\ \A s \in SessionIds :
            sessions'[s].status = "deleted" <=> sessions[s].status = "deleted"
  BY <1>1, <1>2, RevokingEnds
<1>4. TypeOK'
  BY <1>1, <1>2, <1>3, FinishIsTyped, UnlockingIsLocal DEF TypeOK, OnlyEnds
<1>5. SigningFor'
  BY <1>1, <1>2, FinishIsTyped DEF SigningFor
<1>6. lock[target[r]] = r
  BY <1>1, <1>2 DEF RowsHeld, LogoutHoldsRow
<1>7. RespectsLocks(r)
  BY <1>1, <1>2, <1>3, <1>6, FinishIsTyped, UnlockingIsLocal DEF RespectsLocks, Live
<1>8. RowsHeld'
  BY <1>1, <1>2, <1>7, FinishIsTyped, LocksProtectRows
<1>9. QED
  BY <1>2, <1>3, <1>4, <1>5, <1>8, EndsKeep

LEMMA AbortKeeps ==
    ASSUME IInv, NEW r \in Requests, Abort(r)
    PROVE  IInv'
<1>1. TypeOK /\ SigningFor /\ RowsHeld /\ now \in 0 .. MaxTime
  BY DEF IInv, Founded
<1>2. /\ sessions' = sessions /\ lock' = Unlocking(r) /\ Finish(r)
      /\ principals' = principals /\ now' = now
  BY DEF Abort
<1>3. TypeOK'
  BY <1>1, <1>2, FinishIsTyped, UnlockingIsLocal DEF TypeOK
<1>4. SigningFor'
  BY <1>1, <1>2, FinishIsTyped DEF SigningFor
<1>5. RespectsLocks(r)
  BY <1>1, <1>2, FinishIsTyped, UnlockingIsLocal DEF RespectsLocks
<1>6. RowsHeld'
  BY <1>1, <1>2, <1>5, FinishIsTyped, LocksProtectRows
<1>7. now' \in now .. MaxTime
  BY <1>1, <1>2, TimeAssumption
<1>8. QED
  BY <1>2, <1>3, <1>4, <1>6, <1>7, QuietKeepsRows DEF IInv

LEMMA CleanupKeeps ==
    ASSUME IInv, NEW S, Cleanup(S)
    PROVE  IInv'
<1>1. TypeOK /\ SigningFor /\ RowsHeld
  BY DEF IInv
<1>2. /\ lock' = lock /\ principals' = principals /\ now' = now
      /\ pc' = pc /\ target' = target /\ whose' = whose /\ seen' = seen
      /\ victims' = victims
      /\ \A s \in S : lock[s] = None
  BY DEF Cleanup, locals
<1>3. /\ OnlyEnds
      /\ \A s \in SessionIds : Live(s) /\ s \notin S => Live(s)'
      /\ \A s \in SessionIds : sessions'[s].status = "deleted" =>
            sessions[s].status = "deleted" \/ sessions[s].expires <= now
  BY <1>1, CleanupEnds
<1>4. TypeOK'
  BY <1>1, <1>2, <1>3 DEF TypeOK, OnlyEnds
<1>5. SigningFor'
  BY <1>1, <1>2 DEF SigningFor
<1>6. RowsHeld'
  BY <1>1, <1>2, <1>3, RequestsAssumption
     DEF RowsHeld, RotationHoldsRow, LogoutHoldsRow, Live
<1>7. QED
  BY <1>2, <1>3, <1>4, <1>5, <1>6, EndsKeep

\* The clock and the writers of the principal rows.
LEMMA EnvironmentKeeps ==
    ASSUME IInv,
           \/ Tick
           \/ \E p \in Principals :
                 UpdateLocalAccount(p) \/ ReplaceCredential(p) \/ ResolvePingPrincipal(p)
    PROVE  IInv'
<1>1. TypeOK /\ SigningFor /\ RowsHeld /\ now \in 0 .. MaxTime
  BY DEF IInv, Founded
<1>2. /\ sessions' = sessions /\ lock' = lock
      /\ pc' = pc /\ target' = target /\ whose' = whose /\ seen' = seen
      /\ victims' = victims
  BY DEF Tick, UpdateLocalAccount, ReplaceCredential, ResolvePingPrincipal, locals
<1>3. now' \in now .. MaxTime
  <2>1. (now < MaxTime /\ now' = now + 1) \/ now' = now
    BY DEF Tick, UpdateLocalAccount, ReplaceCredential, ResolvePingPrincipal
  <2>2. QED
    BY <1>1, <2>1, TimeAssumption
<1>4. principals' \in [Principals -> PrincipalRows]
  <2>0. ASSUME NEW p \in Principals
        PROVE  /\ principals[p] \in PrincipalRows
               /\ principals[p].version \in Nat
               /\ ReadVersions(p) \subseteq Nat
    <3>1. principals[p] \in PrincipalRows
      BY <1>1, <2>0 DEF TypeOK
    <3>2. principals[p].version \in Nat
      BY <3>1 DEF PrincipalRows
    <3>3. QED
      BY <3>1, <3>2 DEF ReadVersions
  <2>1. CASE Tick
    BY <1>1, <2>1 DEF Tick, TypeOK
  <2>2. ASSUME NEW p \in Principals, UpdateLocalAccount(p)
        PROVE  principals' \in [Principals -> PrincipalRows]
    <3>1. PICK role \in Roles, active, eligible \in BOOLEAN, bumps \in 0 .. 2,
               read \in ReadVersions(p) :
             /\ bumps >= Count(role # principals[p].role)
                            + Count(active # principals[p].active)
             /\ eligible => active
             /\ Bumped(p, read, bumps) <= MaxVersion
             /\ principals' = [principals EXCEPT ![p] =
                    [role |-> role, active |-> active, eligible |-> eligible,
                     version |-> Bumped(p, read, bumps)]]
      BY <2>2 DEF UpdateLocalAccount
    <3>2. principals[p].version \in Nat /\ read \in Nat
      BY <2>0
    <3>3. Bumped(p, read, bumps) \in Nat
      BY <3>2 DEF Bumped
    <3>4. QED
      BY <1>1, <3>1, <3>3 DEF TypeOK, PrincipalRows
  <2>3. ASSUME NEW p \in Principals, ReplaceCredential(p)
        PROVE  principals' \in [Principals -> PrincipalRows]
    <3>1. PICK read \in ReadVersions(p), due, expired \in BOOLEAN :
             principals' = [principals EXCEPT
                ![p] = [principals[p] EXCEPT !.active = principals[p].active \/ ~due,
                                             !.eligible = ~due /\ ~expired,
                                             !.version = read + 1]]
      BY <2>3 DEF ReplaceCredential
    <3>2. principals[p] \in PrincipalRows /\ read \in Nat
      BY <2>0
    <3>3. ASSUME NEW active \in BOOLEAN, NEW eligible \in BOOLEAN, NEW v \in Nat
          PROVE  [principals[p] EXCEPT !.active = active, !.eligible = eligible,
                                       !.version = v] \in PrincipalRows
      BY <3>2 DEF PrincipalRows
    <3>4. (principals[p].active \/ ~due) \in BOOLEAN /\ (~due /\ ~expired) \in BOOLEAN
      BY <3>2, Zenon DEF PrincipalRows
    <3>5. read + 1 \in Nat
      BY <3>2
    <3>6. [principals[p] EXCEPT !.active = principals[p].active \/ ~due,
                                !.eligible = ~due /\ ~expired, !.version = read + 1]
              \in PrincipalRows
      BY <3>3, <3>4, <3>5, Zenon
    <3>7. QED
      BY <1>1, <3>1, <3>6, Zenon DEF TypeOK
  <2>4. ASSUME NEW p \in Principals, ResolvePingPrincipal(p)
        PROVE  principals' \in [Principals -> PrincipalRows]
    <3>1. PICK role \in Roles, read \in ReadVersions(p) :
             principals' = [principals EXCEPT
                ![p] = [principals[p] EXCEPT !.role = role, !.version = read + 1]]
      BY <2>4 DEF ResolvePingPrincipal
    <3>2. principals[p] \in PrincipalRows /\ read \in Nat
      BY <2>0
    <3>3. \A v \in Nat : [principals[p] EXCEPT !.role = role, !.version = v] \in PrincipalRows
      BY <3>2 DEF PrincipalRows
    <3>4. read + 1 \in Nat
      BY <3>2
    <3>5. QED
      BY <1>1, <3>1, <3>3, <3>4 DEF TypeOK
  <2>5. QED
    BY <2>1, <2>2, <2>3, <2>4
<1>5. TypeOK'
  BY <1>1, <1>2, <1>3, <1>4, TimeAssumption DEF TypeOK
<1>6. SigningFor' /\ RowsHeld'
  BY <1>1, <1>2 DEF SigningFor, RowsHeld, RotationHoldsRow, LogoutHoldsRow, Live
<1>7. QED
  BY <1>2, <1>3, <1>5, <1>6, QuietKeepsRows DEF IInv

LEMMA StutteringKeeps ==
    ASSUME IInv, UNCHANGED vars
    PROVE  IInv'
<1>1. TypeOK /\ SigningFor /\ RowsHeld /\ now \in 0 .. MaxTime
  BY DEF IInv, Founded
<1>2. /\ sessions' = sessions /\ lock' = lock /\ principals' = principals /\ now' = now
      /\ pc' = pc /\ target' = target /\ whose' = whose /\ seen' = seen
      /\ victims' = victims
  BY DEF vars, tables, locals
<1>3. TypeOK' /\ SigningFor' /\ RowsHeld'
  BY <1>1, <1>2 DEF TypeOK, SigningFor, RowsHeld, RotationHoldsRow, LogoutHoldsRow, Live
<1>4. now' \in now .. MaxTime
  BY <1>1, <1>2, TimeAssumption
<1>5. QED
  BY <1>2, <1>3, <1>4, QuietKeepsRows DEF IInv

LEMMA NextKeepsIInv == IInv /\ [Next]_vars => IInv'
<1>1. SUFFICES ASSUME IInv, [Next]_vars PROVE IInv'
  OBVIOUS
<1>2. ASSUME NEW r \in Requests, Step(r) PROVE IInv'
  BY <1>1, <1>2, CreateSessionKeeps, CheckEligibilityKeeps, RotateKeeps, LockVictimKeeps,
     CommitRevocationKeeps, CommitLogoutKeeps DEF Step
<1>3. ASSUME NEW r \in Requests, NEW s \in SessionIds, Refresh(r, s) \/ BeginLogout(r, s)
      PROVE  IInv'
  BY <1>1, <1>3, RefreshKeeps, BeginLogoutKeeps
<1>4. ASSUME NEW r \in Requests, NEW p \in Principals,
             Authenticate(r, p) \/ RevokePrincipalSessions(r, p)
      PROVE  IInv'
  BY <1>1, <1>4, AuthenticateKeeps, RevokePrincipalSessionsKeeps
<1>5. ASSUME NEW r \in Requests, Abort(r) PROVE IInv'
  BY <1>1, <1>5, AbortKeeps
<1>6. ASSUME NEW S \in SUBSET SessionIds, Cleanup(S) PROVE IInv'
  BY <1>1, <1>6, CleanupKeeps
<1>7. CASE Tick \/ \E p \in Principals :
              UpdateLocalAccount(p) \/ ReplaceCredential(p) \/ ResolvePingPrincipal(p)
  BY <1>1, <1>7, EnvironmentKeeps
<1>8. CASE UNCHANGED vars
  BY <1>1, <1>8, StutteringKeeps
<1>9. QED
  BY <1>1, <1>2, <1>3, <1>4, <1>5, <1>6, <1>7, <1>8 DEF Next

------------------------------------------------------------------------------
(* The theorems.                                                           *)

LEMMA IInvHolds == Spec => []IInv
BY InitIInv, NextKeepsIInv, PTL DEF Spec

\* Every reachable state of the session table is well typed.
THEOREM TypesHold == Spec => []TypeOK
<1>1. IInv => TypeOK
  BY DEF IInv
<1>2. QED
  BY <1>1, IInvHolds, PTL

\* A refresh that has passed its checks holds its row, unrevoked, to the end
\* of its transaction.
THEOREM RotationIsProtected == Spec => []RotationHoldsRow
<1>1. IInv => RotationHoldsRow
  BY DEF IInv, RowsHeld
<1>2. QED
  BY <1>1, IInvHolds, PTL

\* No interleaving leaves a family two sessions that can be redeemed.
THEOREM FamiliesStaySingle == Spec => []OneLivePerFamily
<1>1. IInv => OneLivePerFamily
  BY DEF IInv
<1>2. QED
  BY <1>1, IInvHolds, PTL

\* Refreshing never extends what the sign-in granted.
THEOREM SignInBindsFamily == Spec => []InheritsSignIn
<1>1. IInv => InheritsSignIn
  BY DEF IInv
<1>2. QED
  BY <1>1, IInvHolds, PTL

\* The rows of a family expire together, so the cleanup job takes no trace of
\* a redeemed secret while a session of its family can be refreshed.
THEOREM CleanupKeepsEvidence == Spec => []ReuseEvidenceKept
<1>1. ASSUME IInv PROVE ReuseEvidenceKept
  <2>1. SUFFICES ASSUME NEW s \in SessionIds, NEW t \in SessionIds, Live(s),
                        now < sessions[s].expires, Used(t),
                        sessions[t].family = sessions[s].family
                 PROVE  Stored(t)
    BY DEF ReuseEvidenceKept
  <2>2. TypeOK /\ InheritsSignIn /\ (sessions[t].status = "deleted" => sessions[t].expires <= now)
    BY <1>1 DEF IInv, Founded
  <2>3. sessions[t].expires = sessions[s].expires
    BY <2>1, <2>2 DEF InheritsSignIn, Used, Live
  <2>4. sessions[t].status # "deleted"
    BY <2>1, <2>2, <2>3 DEF TypeOK, Rows
  <2>5. QED
    BY <2>1, <2>2, <2>4 DEF TypeOK, Rows, Used, Stored
<1>2. QED
  BY <1>1, IInvHolds, PTL

\* What the clock, the principals' writers, the locks and the selections leave alone.
LEMMA QuietSteps ==
    ASSUME \/ \E r \in Requests, p \in Principals :
                 Authenticate(r, p) \/ RevokePrincipalSessions(r, p)
           \/ \E r \in Requests, s \in SessionIds :
                 Refresh(r, s) \/ BeginLogout(r, s) \/ LockVictim(r, s)
           \/ \E r \in Requests : CheckEligibility(r) \/ Abort(r)
           \/ \E p \in Principals :
                 UpdateLocalAccount(p) \/ ReplaceCredential(p) \/ ResolvePingPrincipal(p)
           \/ Tick
           \/ UNCHANGED vars
    PROVE  UNCHANGED sessions
<1>1. ASSUME NEW r \in Requests, NEW p \in Principals,
             Authenticate(r, p) \/ RevokePrincipalSessions(r, p)
      PROVE  UNCHANGED sessions
  BY <1>1 DEF Authenticate, RevokePrincipalSessions, tables
<1>2. ASSUME NEW r \in Requests, NEW s \in SessionIds,
             Refresh(r, s) \/ BeginLogout(r, s) \/ LockVictim(r, s)
      PROVE  UNCHANGED sessions
  BY <1>2 DEF Refresh, BeginLogout, LockVictim
<1>3. ASSUME NEW r \in Requests, CheckEligibility(r) \/ Abort(r)
      PROVE  UNCHANGED sessions
  BY <1>3 DEF CheckEligibility, Abort, tables
<1>4. ASSUME NEW p \in Principals,
             UpdateLocalAccount(p) \/ ReplaceCredential(p) \/ ResolvePingPrincipal(p)
      PROVE  UNCHANGED sessions
  BY <1>4 DEF UpdateLocalAccount, ReplaceCredential, ResolvePingPrincipal
<1>5. Tick \/ (UNCHANGED vars) => (UNCHANGED sessions)
  BY DEF Tick, vars, tables
<1>6. QED
  BY <1>1, <1>2, <1>3, <1>4, <1>5

\* Every step is one of five: a sign-in, a rotation, two ways to end sessions
\* by name, the cleanup, or one that does not touch the rows.
LEMMA StepsOfTheTable ==
    ASSUME [Next]_vars
    PROVE  \/ \E r \in Requests, n \in SessionIds : CreateSession(r, n)
           \/ \E r \in Requests, n \in SessionIds : Rotate(r, n)
           \/ \E r \in Requests : CommitRevocation(r)
           \/ \E r \in Requests : CommitLogout(r)
           \/ \E S \in SUBSET SessionIds : Cleanup(S)
           \/ UNCHANGED sessions
<1>1. CASE \E r \in Requests : Step(r)
  BY <1>1, QuietSteps DEF Step
<1>2. CASE ~\E r \in Requests : Step(r)
  BY <1>2, QuietSteps DEF Next
<1>3. QED
  BY <1>1, <1>2

\* A row that gets a successor was live until that step.
THEOREM SpentStaysSpent == Spec => RevokedNeverRedeemed
<1> DEFINE OnlyLive == \A s \in SessionIds :
               sessions[s].replacedBy = None /\ sessions'[s].replacedBy # None => Live(s)
<1>1. ASSUME IInv, [Next]_vars PROVE OnlyLive
  <2>0. TypeOK
    BY <1>1 DEF IInv
  <2>1. ASSUME NEW r \in Requests, NEW n \in SessionIds, CreateSession(r, n)
        PROVE  OnlyLive
    <3>1. \E row : row.replacedBy = None /\ sessions' = [sessions EXCEPT ![n] = row]
      <4>1. PICK at, end :
              sessions' = [sessions EXCEPT ![n] = SignInRow(n, whose[r], seen[r], at, end)]
        BY <2>1 DEF CreateSession
      <4>2. QED
        BY <4>1 DEF SignInRow
    <3>2. QED
      BY <2>0, <3>1 DEF TypeOK
  <2>2. ASSUME NEW r \in Requests, NEW n \in SessionIds, Rotate(r, n)
        PROVE  OnlyLive
    BY <1>1, <2>2, RotateMoves
  <2>3. ASSUME NEW S, sessions' = Revoking(S)
        PROVE  OnlyLive
    BY <2>0, <2>3, RevokingEnds
  <2>4. ASSUME NEW S, Cleanup(S)
        PROVE  OnlyLive
    BY <2>0, <2>4, CleanupEnds
  <2>5. CASE UNCHANGED sessions
    BY <2>5
  <2>6. QED
    BY <1>1, <2>1, <2>2, <2>3, <2>4, <2>5, StepsOfTheTable DEF CommitRevocation, CommitLogout
<1>2. QED
  BY <1>1, IInvHolds, PTL DEF Spec, RevokedNeverRedeemed

\* The commit of a revocation leaves no live session in the families of the
\* selected sessions that were still live.
THEOREM RevocationsEndFamilies == Spec => RevocationEndsFamily
<1> DEFINE Ended == \A r \in Requests : CommitRevocation(r) =>
               \A v \in victims[r] : Live(v) => LiveOfFamily(sessions[v].family)' = {}
<1>1. ASSUME IInv PROVE Ended
  <2>1. SUFFICES ASSUME NEW r \in Requests, CommitRevocation(r), NEW v \in victims[r], Live(v),
                        v \in SessionIds
                 PROVE  \A w \in SessionIds :
                            sessions'[w].family = sessions'[v].family
                                => sessions'[w].status # "live"
    BY <1>1 DEF LiveOfFamily, Live, IInv, TypeOK
  <2>2. TypeOK /\ OneLivePerFamily /\ sessions' = Revoking(victims[r])
    BY <1>1, <2>1 DEF IInv, CommitRevocation
  <2>3. /\ OnlyEnds
        /\ \A w \in SessionIds : Live(w)' <=> Live(w) /\ w \notin victims[r]
    BY <2>2, RevokingEnds
  <2>4. ASSUME NEW w \in SessionIds, sessions'[w].family = sessions'[v].family,
               sessions'[w].status = "live"
        PROVE  FALSE
    <3>1. Live(w) /\ w \notin victims[r]
      BY <2>3, <2>4 DEF Live
    <3>2. sessions[w].family = sessions[v].family
      BY <2>1, <2>3, <2>4 DEF OnlyEnds, SameSignIn
    <3>3. QED
      BY <2>1, <2>2, <3>1, <3>2 DEF OneLivePerFamily
  <2>5. QED
    BY <2>4
<1>2. QED
  BY <1>1, IInvHolds, PTL DEF Spec, RevocationEndsFamily
------------------------------------------------------------------------------
(* Refinement.                                                             *)

\* The terms the abstract specification gives to family f.
TermsOf(f) == IF StartsFamily(f)
              THEN [principal |-> sessions[f].principal, provider |-> sessions[f].provider,
                    authAt |-> sessions[f].authAt, expires |-> sessions[f].expires]
              ELSE None

SpentRows == {s \in SessionIds : sessions[s].status \in {"revoked", "deleted"}}
LiveRows  == {s \in SessionIds : Live(s)}
Lineage   == [s \in SessionIds |-> sessions[s].family]
TermsMap  == [f \in SessionIds |-> TermsOf(f)]

\* Ending sessions, however many, is End of the abstract specification.
LEMMA EndsAreEnd ==
    ASSUME IInv, OnlyEnds
    PROVE  \E C \in SUBSET LiveRows : Family!End(C)
<1>0. PICK C : C = LiveRows \ LiveRows'
  OBVIOUS
<1>1. TypeOK /\ sessions' \in [SessionIds -> Rows]
  BY DEF IInv, OnlyEnds
<1>2. /\ \A s \in SessionIds : sessions'[s].status = "live" => sessions[s].status = "live"
      /\ \A s \in SessionIds :
            sessions'[s].status # "unused" <=> sessions[s].status # "unused"
      /\ \A s \in SessionIds :
            /\ sessions'[s].principal = sessions[s].principal
            /\ sessions'[s].family = sessions[s].family
            /\ sessions'[s].provider = sessions[s].provider
            /\ sessions'[s].authAt = sessions[s].authAt
            /\ sessions'[s].expires = sessions[s].expires
  BY DEF OnlyEnds, SameSignIn, Live, Used
<1>3. LiveRows' = LiveRows \ C
  BY <1>0, <1>2 DEF LiveRows, Live
<1>4. SpentRows' = SpentRows \cup C
  <2>1. ASSUME NEW s \in SessionIds
        PROVE  sessions'[s].status \in {"revoked", "deleted"} <=>
                  \/ sessions[s].status \in {"revoked", "deleted"}
                  \/ sessions[s].status = "live" /\ sessions'[s].status # "live"
    BY <1>1, <1>2 DEF TypeOK, Rows
  <2>2. QED
    BY <1>0, <2>1 DEF SpentRows, LiveRows, Live
<1>5. Lineage' = Lineage
  BY <1>2 DEF Lineage
<1>6. TermsMap' = TermsMap
  <2>1. \A f \in SessionIds : TermsOf(f)' = TermsOf(f)
    BY <1>2 DEF TermsOf, StartsFamily, Used
  <2>2. QED
    BY <2>1 DEF TermsMap
<1>7. C \subseteq LiveRows /\ Family!End(C)
  BY <1>0, <1>3, <1>4, <1>5, <1>6
     DEF Family!End, LiveRows, SpentRows, Lineage, TermsMap, TermsOf
<1>8. QED
  BY <1>7

\* A sign-in is SignIn of a family that bears the name of its row.
LEMMA CreateIsSignIn ==
    ASSUME IInv, NEW r \in Requests, NEW n \in SessionIds, CreateSession(r, n)
    PROVE  Family!SignIn(n, n)
<1>1. TypeOK /\ whose[r] \in Principals /\ now \in 0 .. MaxTime
  BY DEF IInv, Founded, SigningFor, CreateSession
<1>2. ~Used(n)
  BY DEF CreateSession, Fresh
<1>3. IInv'
  BY CreateSessionKeeps
<1>4. PICK at, end :
          sessions' = [sessions EXCEPT ![n] = SignInRow(n, whose[r], seen[r], at, end)]
  BY DEF CreateSession
<1>5. /\ sessions'[n].status = "live"
      /\ sessions'[n].principal = whose[r]
      /\ sessions'[n].family = n
      /\ sessions'[n].provider = Provider[whose[r]]
      /\ sessions'[n].authAt = at
      /\ sessions'[n].expires = end
      /\ \A s \in SessionIds \ {n} : sessions'[s] = sessions[s]
  BY <1>1, <1>4 DEF TypeOK, SignInRow
<1>6. at \in 0 .. MaxTime /\ end \in 0 .. MaxTime + SessionTtl
  BY <1>3, <1>5 DEF IInv, Founded, Used
<1>7. LiveRows' = LiveRows \cup {n} /\ SpentRows' = SpentRows
  BY <1>2, <1>5 DEF LiveRows, SpentRows, Live, Used
<1>8. Lineage' = [Lineage EXCEPT ![n] = n]
  BY <1>5 DEF Lineage
<1>9. TermsMap[n] = None
  BY <1>2 DEF TermsMap, TermsOf, StartsFamily
<1> DEFINE t == [principal |-> whose[r], provider |-> Provider[whose[r]],
                 authAt |-> at, expires |-> end]
<1>10. t \in SessionTerms
  BY <1>1, <1>6, ProviderAssumption DEF SessionTerms
<1>11. TermsMap' = [TermsMap EXCEPT ![n] = t]
  <2>1. TermsOf(n)' = t
    BY <1>5 DEF TermsOf, StartsFamily, Used
  <2>2. \A f \in SessionIds \ {n} : TermsOf(f)' = TermsOf(f)
    BY <1>5 DEF TermsOf, StartsFamily, Used
  <2>3. QED
    BY <2>1, <2>2 DEF TermsMap
<1>12. n \notin LiveRows \cup SpentRows
  BY <1>2 DEF LiveRows, SpentRows, Live, Used
<1>13. QED
  BY <1>7, <1>8, <1>9, <1>10, <1>11, <1>12
     DEF Family!SignIn, Family!HandedOut, LiveRows, SpentRows, Lineage, TermsMap, TermsOf

\* A refresh is Rotate of its row and the new one.
LEMMA RotateIsRotate ==
    ASSUME IInv, NEW r \in Requests, NEW n \in SessionIds, Rotate(r, n),
           NEW s, s = target[r]
    PROVE  Family!Rotate(s, n)
<1>1. TypeOK /\ InheritsSignIn
  BY DEF IInv
<1>2. /\ s \in SessionIds /\ sessions[s].status = "live"
      /\ sessions[n].status = "unused" /\ n # s
      /\ \A t \in SessionIds \ {s, n} : sessions'[t] = sessions[t]
      /\ sessions'[s].status = "revoked"
      /\ sessions'[n].status = "live"
      /\ \A t \in {s, n} :
            /\ sessions'[t].principal = sessions[s].principal
            /\ sessions'[t].family = sessions[s].family
            /\ sessions'[t].provider = sessions[s].provider
            /\ sessions'[t].authAt = sessions[s].authAt
            /\ sessions'[t].expires = sessions[s].expires
  BY RotateMoves DEF Live, Used
<1>3. sessions[s].family # n
  BY <1>1, <1>2 DEF InheritsSignIn, Used
<1>4. LiveRows' = (LiveRows \ {s}) \cup {n} /\ SpentRows' = SpentRows \cup {s}
  BY <1>2 DEF LiveRows, SpentRows, Live
<1>5. Lineage' = [Lineage EXCEPT ![n] = Lineage[s]]
  BY <1>2 DEF Lineage
<1>6. TermsMap' = TermsMap
  <2>1. TermsOf(s)' = TermsOf(s)
    BY <1>2 DEF TermsOf, StartsFamily, Used
  <2>2. TermsOf(n)' = TermsOf(n)
    BY <1>2, <1>3 DEF TermsOf, StartsFamily, Used
  <2>3. \A f \in SessionIds \ {s, n} : TermsOf(f)' = TermsOf(f)
    BY <1>2 DEF TermsOf, StartsFamily, Used
  <2>4. QED
    BY <2>1, <2>2, <2>3 DEF TermsMap
<1>7. s \in LiveRows /\ n \notin LiveRows \cup SpentRows
  BY <1>2 DEF LiveRows, SpentRows, Live
<1>8. QED
  BY <1>4, <1>5, <1>6, <1>7
     DEF Family!Rotate, Family!HandedOut, LiveRows, SpentRows, Lineage, TermsMap, TermsOf

\* The session table implements SessionFamily.
THEOREM TableImplementsFamilies == Spec => ImplementsSessionFamily
<1>1. Init => Family!Init
  BY NoneAssumption DEF Init, Family!Init, NoRow, Live, StartsFamily, Used
<1>2. ASSUME IInv, [Next]_vars PROVE [Family!Next]_Family!vars
  <2>0. TypeOK
    BY <1>2 DEF IInv
  <2>1. ASSUME NEW r \in Requests, NEW n \in SessionIds, CreateSession(r, n)
        PROVE  Family!Next
    BY <1>2, <2>1, CreateIsSignIn DEF Family!Next
  <2>2. ASSUME NEW r \in Requests, NEW n \in SessionIds, Rotate(r, n)
        PROVE  Family!Next
    <3>1. PICK s \in SessionIds : s = target[r]
      BY <1>2, <2>2, RotateMoves
    <3>2. Family!Rotate(s, n)
      BY <1>2, <2>2, <3>1, RotateIsRotate
    <3>3. QED
      BY <3>2 DEF Family!Next
  <2>3. ASSUME OnlyEnds PROVE Family!Next
    BY <1>2, <2>3, EndsAreEnd DEF Family!Next, LiveRows
  <2>4. ASSUME NEW r \in Requests, CommitRevocation(r) \/ CommitLogout(r)
        PROVE  OnlyEnds
    BY <2>0, <2>4, RevokingEnds DEF CommitRevocation, CommitLogout
  <2>5. ASSUME NEW S \in SUBSET SessionIds, Cleanup(S) PROVE OnlyEnds
    BY <2>0, <2>5, CleanupEnds
  <2>6. CASE UNCHANGED sessions
    BY <2>6 DEF Family!vars, Live, StartsFamily, Used
  <2>7. QED
    BY <1>2, <2>1, <2>2, <2>3, <2>4, <2>5, <2>6, StepsOfTheTable
<1>3. QED
  BY <1>1, <1>2, IInvHolds, PTL DEF Spec, ImplementsSessionFamily, Family!Spec
==============================================================================
