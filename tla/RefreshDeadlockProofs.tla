------------------------ MODULE RefreshDeadlockProofs ------------------------
(***************************************************************************)
(* The row locks of RefreshSessions: that any number of refreshes, and one *)
(* revocation of a principal's sessions, never wait for each other in a    *)
(* circle.                                                                 *)
(***************************************************************************)
EXTENDS RefreshSessionsProofs, FiniteSetTheorems

\* A request has locked the row it presented and rows it revokes, no others; only one
\* that revokes has selected rows.
LocksInOrder ==
    /\ \A q \in Requests, s \in SessionIds : lock[s] = q => s = target[q] \/ s \in victims[q]
    /\ \A q \in Requests : target[q] \in SessionIds => lock[target[q]] = q
    /\ \A q \in Requests : pc[q] # "flushing" => victims[q] = {}
    /\ \A q \in Requests : pc[q] \in {"idle", "signing"} => target[q] = None

\* A revocation has selected one row at most of each family, and a refresh that revokes
\* only rows of the family of the row presented to it.
SelectionInOrder(q) ==
    pc[q] = "flushing" =>
        /\ \A v \in victims[q] : Used(v)
        /\ \A v, w \in victims[q] : sessions[v].family = sessions[w].family => v = w
        /\ target[q] # None =>
               /\ Used(target[q])
               /\ \A v \in victims[q] : sessions[v].family = sessions[target[q]].family

\* A refresh that revokes another row than the one presented to it, which was spent when it
\* came back.
Chasing(q) ==
    /\ pc[q] = "flushing"
    /\ target[q] \in SessionIds
    /\ \E v \in victims[q] : v # target[q]

Chases(r, q) == target[q] \in victims[r] \ {target[r]}

SpentPresented == \A q \in Requests : Chasing(q) => ~Live(target[q])

\* Refreshes do not chase each other in a circle: of those there are, one chases no other.
NoCircle ==
    \A C \in SUBSET Requests : C # {} /\ (\A q \in C : Chasing(q)) =>
        \E r \in C : \A q \in C : ~Chases(r, q)

DInv ==
    /\ LocksInOrder
    /\ \A q \in Requests : SelectionInOrder(q)
    /\ SpentPresented
    /\ NoCircle

------------------------------------------------------------------------------
(* What a step leaves alone.                                               *)

OthersStay(r) ==
    \A q \in Requests \ {r} :
        pc'[q] = pc[q] /\ target'[q] = target[q] /\ victims'[q] = victims[q]

\* No step gives a row another family or brings one back to life.
RowsAge ==
    \A s \in SessionIds : sessions[s].status # "unused" =>
        /\ sessions'[s].status # "unused"
        /\ sessions'[s].family = sessions[s].family
        /\ sessions'[s].status = "live" => sessions[s].status = "live"

LEMMA StepsAgeRows ==
    ASSUME IInv, [Next]_vars
    PROVE  RowsAge
<1>0. TypeOK
  BY DEF IInv
<1>1. ASSUME NEW r \in Requests, NEW n \in SessionIds, CreateSession(r, n) PROVE RowsAge
  <2>1. ~Used(n) /\ \E row : sessions' = [sessions EXCEPT ![n] = row]
    BY <1>1 DEF CreateSession, Fresh
  <2>2. \A s \in SessionIds \ {n} : sessions'[s] = sessions[s]
    BY <1>0, <2>1 DEF TypeOK
  <2>3. QED
    BY <2>1, <2>2 DEF RowsAge, Used
<1>2. ASSUME NEW r \in Requests, NEW n \in SessionIds, Rotate(r, n) PROVE RowsAge
  <2>1. /\ target[r] \in SessionIds /\ ~Used(n)
        /\ \A t \in SessionIds \ {target[r], n} : sessions'[t] = sessions[t]
        /\ sessions'[target[r]].status = "revoked"
        /\ \A t \in {target[r], n} : sessions'[t].family = sessions[target[r]].family
    BY <1>2, RotateMoves
  <2>2. QED
    BY <2>1 DEF RowsAge, Used
<1>3. ASSUME OnlyEnds PROVE RowsAge
  BY <1>3 DEF OnlyEnds, RowsAge, Live, Used, SameSignIn
<1>4. ASSUME NEW r \in Requests, CommitRevocation(r) \/ CommitLogout(r) PROVE RowsAge
  <2>1. OnlyEnds
    BY <1>0, <1>4, RevokingEnds DEF CommitRevocation, CommitLogout
  <2>2. QED
    BY <1>3, <2>1
<1>5. ASSUME NEW S, Cleanup(S) PROVE RowsAge
  BY <1>0, <1>3, <1>5, CleanupEnds
<1>6. CASE UNCHANGED sessions
  BY <1>6 DEF RowsAge
<1>7. QED
  BY <1>1, <1>2, <1>4, <1>5, <1>6, StepsOfTheTable

\* A request that ends forgets its locals.
LEMMA FinishForgets ==
    ASSUME TypeOK, NEW r \in Requests, Finish(r)
    PROVE  OthersStay(r) /\ pc'[r] = "idle" /\ target'[r] = None /\ victims'[r] = {}
  BY DEF TypeOK, Finish, OthersStay

\* Locks are accounted for when the request that moved accounts for its own.
LEMMA LocksMove ==
    ASSUME LocksInOrder, NEW r, OthersStay(r),
           \A s \in SessionIds :
               lock'[s] = lock[s] \/ (lock[s] \in {None, r} /\ lock'[s] \in {None, r}),
           r \in Requests =>
               /\ \A s \in SessionIds : lock'[s] = r => s = target'[r] \/ s \in victims'[r]
               /\ target'[r] \in SessionIds => lock'[target'[r]] = r
               /\ pc'[r] # "flushing" => victims'[r] = {}
               /\ pc'[r] \in {"idle", "signing"} => target'[r] = None
    PROVE  LocksInOrder'
<1>1. ASSUME NEW q \in Requests
      PROVE  /\ \A s \in SessionIds : lock'[s] = q => s = target'[q] \/ s \in victims'[q]
             /\ target'[q] \in SessionIds => lock'[target'[q]] = q
             /\ pc'[q] # "flushing" => victims'[q] = {}
             /\ pc'[q] \in {"idle", "signing"} => target'[q] = None
  <2>1. CASE q = r
    BY <1>1, <2>1
  <2>2. CASE q # r
    <3>1. pc'[q] = pc[q] /\ target'[q] = target[q] /\ victims'[q] = victims[q]
      BY <2>2 DEF OthersStay
    <3>2. \A s \in SessionIds : lock'[s] = q <=> lock[s] = q
      BY <2>2, RequestsAssumption
    <3>3. QED
      BY <3>1, <3>2 DEF LocksInOrder
  <2>3. QED
    BY <2>1, <2>2
<1>2. QED
  BY <1>1 DEF LocksInOrder

\* r begins a revocation: of the family of the row it presented, or of a principal.
Begins(r) ==
    /\ UNCHANGED sessions
    /\ pc'[r] = "flushing"
    /\ \/ /\ target'[r] \in SessionIds
          /\ Used(target'[r])
          /\ victims'[r] = LiveOfFamily(sessions[target'[r]].family)
       \/ /\ target'[r] = None
          /\ \E p \in Principals : victims'[r] = LiveOfPrincipal(p)

LEMMA SelectionsMove ==
    ASSUME IInv, RowsAge, NEW r, OthersStay(r),
           \A q \in Requests : SelectionInOrder(q), SpentPresented, NoCircle,
           \/ r \in Requests => pc'[r] # "flushing"
           \/ pc'[r] = pc[r] /\ target'[r] = target[r] /\ victims'[r] = victims[r]
           \/ Begins(r)
    PROVE  (\A q \in Requests : SelectionInOrder(q))' /\ SpentPresented' /\ NoCircle'
<1> DEFINE Same(q) == pc'[q] = pc[q] /\ target'[q] = target[q] /\ victims'[q] = victims[q]
<1>0. /\ \A q \in Requests : victims[q] \subseteq SessionIds /\ target[q] \in SessionIds \cup {None}
      /\ OneLivePerFamily
      /\ None \notin SessionIds
  BY NoneAssumption DEF IInv, TypeOK
<1>1. ASSUME NEW q \in Requests, pc'[q] = "flushing"
      PROVE  Same(q) \/ (q = r /\ Begins(r))
  BY <1>1 DEF OthersStay
<1>2. ASSUME Begins(r)
      PROVE  /\ \A v \in victims'[r] : v \in SessionIds /\ sessions[v].status = "live"
             /\ \A v, w \in victims'[r] : sessions[v].family = sessions[w].family => v = w
             /\ target'[r] # None =>
                    /\ target'[r] \in SessionIds
                    /\ sessions[target'[r]].status # "unused"
                    /\ \A v \in victims'[r] :
                           sessions[v].family = sessions[target'[r]].family
  <2>1. \A v \in victims'[r] : v \in SessionIds /\ sessions[v].status = "live"
    BY <1>2 DEF Begins, LiveOfFamily, LiveOfPrincipal, Live
  <2>2. target'[r] # None => /\ target'[r] \in SessionIds
                             /\ sessions[target'[r]].status # "unused"
                             /\ \A v \in victims'[r] :
                                    sessions[v].family = sessions[target'[r]].family
    BY <1>2 DEF Begins, LiveOfFamily, Used
  <2>3. QED
    BY <1>0, <2>1, <2>2 DEF OneLivePerFamily, Live
<1>3. ASSUME NEW q \in Requests PROVE SelectionInOrder(q)'
  <2>1. CASE pc'[q] # "flushing"
    BY <2>1 DEF SelectionInOrder
  <2>2. CASE Same(q) /\ pc'[q] = "flushing"
    <3>1. /\ \A v \in victims[q] : v \in SessionIds /\ sessions[v].status # "unused"
          /\ \A v, w \in victims[q] : sessions[v].family = sessions[w].family => v = w
          /\ target[q] # None =>
                 /\ target[q] \in SessionIds
                 /\ sessions[target[q]].status # "unused"
                 /\ \A v \in victims[q] : sessions[v].family = sessions[target[q]].family
      BY <1>0, <2>2 DEF SelectionInOrder, Used
    <3>2. \A v \in victims[q] : /\ sessions'[v].status # "unused"
                                /\ sessions'[v].family = sessions[v].family
      BY <3>1 DEF RowsAge
    <3>3. target[q] # None => /\ sessions'[target[q]].status # "unused"
                              /\ sessions'[target[q]].family = sessions[target[q]].family
      BY <3>1 DEF RowsAge
    <3>4. \A v, w \in victims[q] : sessions'[v].family = sessions'[w].family => v = w
      BY <3>1, <3>2
    <3>5. QED
      BY <2>2, <3>1, <3>2, <3>3, <3>4 DEF SelectionInOrder, Used
  <2>3. CASE q = r /\ Begins(r)
    <3>1. sessions' = sessions
      BY <2>3 DEF Begins
    <3>2. QED
      BY <1>2, <2>3, <3>1 DEF SelectionInOrder, Used
  <2>4. QED
    BY <1>1, <2>1, <2>2, <2>3
<1>4. ASSUME NEW q \in Requests, Chasing(q)' PROVE sessions'[target'[q]].status # "live"
  <2>0. pc'[q] = "flushing" /\ target'[q] \in SessionIds /\ \E v \in victims'[q] : v # target'[q]
    BY <1>4 DEF Chasing
  <2>1. CASE Same(q)
    <3>1. Chasing(q) /\ Used(target[q])
      BY <1>0, <2>0, <2>1 DEF Chasing, SelectionInOrder
    <3>2. ~Live(target[q])
      BY <3>1 DEF SpentPresented
    <3>3. QED
      BY <2>0, <2>1, <3>1, <3>2 DEF RowsAge, Used, Live
  <2>2. CASE q = r /\ Begins(r)
    <3>1. PICK v \in victims'[q] : v # target'[q]
      BY <2>0
    <3>2. /\ v \in SessionIds /\ sessions[v].status = "live"
          /\ sessions[v].family = sessions[target'[q]].family
      BY <1>0, <1>2, <2>0, <2>2, <3>1
    <3>3. sessions[target'[q]].status # "live"
      BY <1>0, <2>0, <3>1, <3>2 DEF OneLivePerFamily, Live
    <3>4. QED
      BY <2>2, <3>3 DEF Begins
  <2>3. QED
    BY <1>1, <2>0, <2>1, <2>2
<1>5. SpentPresented'
  BY <1>4 DEF SpentPresented, Live
<1>6. ASSUME NEW C \in SUBSET Requests, C # {}, \A q \in C : Chasing(q)'
      PROVE  \E c \in C : \A q \in C : target'[q] \notin victims'[c] \ {target'[c]}
  <2>1. \A q \in C : q \in Requests /\ pc'[q] = "flushing" /\ target'[q] \in SessionIds
    BY <1>6 DEF Chasing
  <2>2. CASE r \in C /\ Begins(r)
    <3>1. \A q \in C : sessions[target'[q]].status # "live"
      BY <1>4, <1>6, <2>1, <2>2 DEF Begins
    <3>2. \A v \in victims'[r] : sessions[v].status = "live"
      BY <1>2, <2>2
    <3>3. QED
      BY <2>2, <3>1, <3>2
  <2>3. CASE \A q \in C : Same(q)
    <3>1. \A q \in C : Chasing(q)
      BY <1>6, <2>1, <2>3 DEF Chasing
    <3>2. PICK c \in C : \A q \in C : ~Chases(c, q)
      BY <1>6, <3>1 DEF NoCircle
    <3>3. QED
      BY <2>3, <3>2 DEF Chases
  <2>4. QED
    BY <1>1, <2>1, <2>2, <2>3
<1>7. NoCircle'
  BY <1>6 DEF NoCircle, Chases
<1>8. QED
  BY <1>3, <1>5, <1>7

------------------------------------------------------------------------------
(* The invariant of the locks, one lemma per kind of step.                 *)

LEMMA InitLocks == Init => DInv
<1>1. SUFFICES ASSUME Init PROVE DInv
  OBVIOUS
<1>2. /\ \A s \in SessionIds : lock[s] = None
      /\ \A r \in Requests : pc[r] = "idle" /\ target[r] = None /\ victims[r] = {}
  BY <1>1 DEF Init
<1>3. LocksInOrder
  BY <1>2, RequestsAssumption, NoneAssumption DEF LocksInOrder
<1>4. (\A q \in Requests : SelectionInOrder(q)) /\ (\A q \in Requests : ~Chasing(q))
  BY <1>2 DEF SelectionInOrder, Chasing
<1>5. QED
  BY <1>3, <1>4 DEF DInv, SpentPresented, NoCircle

LEMMA EndKeepsLocks ==
    ASSUME IInv, DInv, RowsAge, NEW r \in Requests, Finish(r),
           lock' = Unlocking(r) \/ (lock' = lock /\ pc[r] = "signing")
    PROVE  DInv'
<1>1. OthersStay(r) /\ pc'[r] = "idle" /\ target'[r] = None /\ victims'[r] = {}
  BY FinishForgets DEF IInv
<1>2. /\ \A s \in SessionIds :
             lock'[s] = lock[s] \/ (lock[s] \in {None, r} /\ lock'[s] \in {None, r})
      /\ \A s \in SessionIds : lock'[s] # r
      /\ None \notin SessionIds
  <2>1. CASE lock' = Unlocking(r)
    BY <2>1, RequestsAssumption, NoneAssumption DEF Unlocking
  <2>2. CASE lock' = lock /\ pc[r] = "signing"
    BY <2>2, NoneAssumption DEF DInv, LocksInOrder
  <2>3. QED
    BY <2>1, <2>2
<1>3. LocksInOrder'
  BY <1>1, <1>2, LocksMove DEF DInv
<1>4. pc'[r] # "flushing"
  BY <1>1
<1>5. QED
  BY <1>1, <1>3, <1>4, SelectionsMove DEF DInv

LEMMA IdleKeepsLocks ==
    ASSUME IInv, DInv, RowsAge, UNCHANGED <<lock, pc, target, victims>>
    PROVE  DInv'
<1>1. OthersStay(None) /\ None \notin Requests
  BY RequestsAssumption DEF OthersStay
<1>2. LocksInOrder'
  BY <1>1 DEF DInv, LocksInOrder
<1>3. QED
  BY <1>1, <1>2, SelectionsMove DEF DInv

\* A request begins to sign in, to log out or to revoke.
LEMMA BeginningKeepsLocks ==
    ASSUME IInv, DInv, RowsAge, NEW r \in Requests,
           \/ \E p \in Principals : Authenticate(r, p) \/ RevokePrincipalSessions(r, p)
           \/ \E s \in SessionIds : BeginLogout(r, s)
    PROVE  DInv'
<1>0. TypeOK /\ LocksInOrder
  BY DEF IInv, DInv
<1>1. /\ pc[r] = "idle" /\ target[r] = None /\ victims[r] = {} /\ None \notin SessionIds
      /\ \A s \in SessionIds : lock[s] # r
  BY <1>0, NoneAssumption
     DEF Authenticate, RevokePrincipalSessions, BeginLogout, LocksInOrder
<1>2. ASSUME NEW p \in Principals, Authenticate(r, p) PROVE DInv'
  <2>1. pc' = [pc EXCEPT ![r] = "signing"] /\ UNCHANGED <<lock, target, victims>>
    BY <1>2 DEF Authenticate, tables
  <2>2. OthersStay(r) /\ pc'[r] = "signing" /\ target'[r] = None /\ victims'[r] = {}
    BY <1>0, <1>1, <2>1 DEF TypeOK, OthersStay
  <2>3. LocksInOrder'
    BY <1>0, <1>1, <2>1, <2>2, LocksMove
  <2>4. pc'[r] # "flushing"
    BY <2>2
  <2>5. QED
    BY <2>2, <2>3, <2>4, SelectionsMove DEF DInv
<1>3. ASSUME NEW p \in Principals, RevokePrincipalSessions(r, p) PROVE DInv'
  <2>1. /\ pc' = [pc EXCEPT ![r] = "flushing"] /\ UNCHANGED <<sessions, lock, target>>
        /\ victims' = [victims EXCEPT ![r] = LiveOfPrincipal(p)]
    BY <1>3 DEF RevokePrincipalSessions, tables
  <2>2. /\ OthersStay(r) /\ pc'[r] = "flushing" /\ target'[r] = None
        /\ victims'[r] = LiveOfPrincipal(p)
    BY <1>0, <1>1, <2>1 DEF TypeOK, OthersStay
  <2>3. LocksInOrder'
    BY <1>0, <1>1, <2>1, <2>2, LocksMove
  <2>4. Begins(r)
    BY <2>1, <2>2 DEF Begins
  <2>5. QED
    BY <2>2, <2>3, <2>4, SelectionsMove DEF DInv
<1>4. ASSUME NEW s \in SessionIds, BeginLogout(r, s) PROVE DInv'
  <2>1. /\ pc' = [pc EXCEPT ![r] = "leaving"] /\ target' = [target EXCEPT ![r] = s]
        /\ lock[s] = None /\ lock' = [lock EXCEPT ![s] = r] /\ UNCHANGED victims
    BY <1>4 DEF BeginLogout, Locking
  <2>2. OthersStay(r) /\ pc'[r] = "leaving" /\ target'[r] = s /\ victims'[r] = {}
    BY <1>0, <1>1, <2>1 DEF TypeOK, OthersStay
  <2>3. \A t \in SessionIds : lock'[t] = IF t = s THEN r ELSE lock[t]
    BY <1>0, <2>1 DEF TypeOK
  <2>4. LocksInOrder'
    BY <1>0, <1>1, <2>1, <2>2, <2>3, LocksMove
  <2>5. pc'[r] # "flushing"
    BY <2>2
  <2>6. QED
    BY <2>2, <2>4, <2>5, SelectionsMove DEF DInv
<1>5. QED
  BY <1>2, <1>3, <1>4

\* A refresh begins, to rotate the row or to revoke its family.
LEMMA RefreshKeepsLocks ==
    ASSUME IInv, DInv, RowsAge, NEW r \in Requests, NEW s \in SessionIds, Refresh(r, s)
    PROVE  DInv'
<1>0. TypeOK /\ LocksInOrder
  BY DEF IInv, DInv
<1>1. /\ pc[r] = "idle" /\ target[r] = None /\ victims[r] = {}
      /\ \A t \in SessionIds : lock[t] # r
  BY <1>0, NoneAssumption DEF Refresh, LocksInOrder
<1>2. /\ lock[s] = None /\ lock' = [lock EXCEPT ![s] = r]
      /\ target' = [target EXCEPT ![r] = s]
      /\ UNCHANGED sessions /\ Used(s)
  BY DEF Refresh, Locking, Stored, Used
<1>3. \/ /\ pc' = [pc EXCEPT ![r] = "flushing"]
         /\ victims' = [victims EXCEPT ![r] = LiveOfFamily(sessions[s].family)]
      \/ /\ \E next \in {"eligibility", "rotating"} : pc' = [pc EXCEPT ![r] = next]
         /\ victims' = victims
  BY DEF Refresh, BeginFamilyRevocation
<1>4. OthersStay(r) /\ target'[r] = s
  BY <1>0, <1>2, <1>3 DEF TypeOK, OthersStay
<1>5. \/ pc'[r] = "flushing" /\ victims'[r] = LiveOfFamily(sessions[s].family)
      \/ pc'[r] \in {"eligibility", "rotating"} /\ victims'[r] = {}
  BY <1>0, <1>1, <1>3 DEF TypeOK
<1>6. \A t \in SessionIds : lock'[t] = IF t = s THEN r ELSE lock[t]
  BY <1>0, <1>2 DEF TypeOK
<1>7. LocksInOrder'
  BY <1>0, <1>1, <1>2, <1>4, <1>5, <1>6, LocksMove
<1>8. pc'[r] # "flushing" \/ Begins(r)
  BY <1>2, <1>4, <1>5 DEF Begins
<1>9. QED
  BY <1>4, <1>7, <1>8, SelectionsMove DEF DInv

\* The eligibility is checked, and the family revoked when it is wanting.
LEMMA CheckKeepsLocks ==
    ASSUME IInv, DInv, RowsAge, NEW r \in Requests, CheckEligibility(r)
    PROVE  DInv'
<1>0. TypeOK /\ LocksInOrder
  BY DEF IInv, DInv
<1>1. pc[r] = "eligibility" /\ UNCHANGED <<sessions, lock, target>>
  BY DEF CheckEligibility, tables
<1>2. /\ victims[r] = {} /\ target[r] \in SessionIds /\ Live(target[r])
      /\ \A t \in SessionIds : lock[t] = r <=> t = target[r]
  BY <1>0, <1>1 DEF LocksInOrder, IInv, RowsHeld, RotationHoldsRow
<1>3. \/ /\ pc' = [pc EXCEPT ![r] = "flushing"]
         /\ victims' = [victims EXCEPT ![r] = LiveOfFamily(sessions[target[r]].family)]
      \/ pc' = [pc EXCEPT ![r] = "rotating"] /\ victims' = victims
  BY DEF CheckEligibility, BeginFamilyRevocation
<1>4. OthersStay(r) /\ target'[r] = target[r]
  BY <1>0, <1>1, <1>3 DEF TypeOK, OthersStay
<1>5. \/ pc'[r] = "flushing" /\ victims'[r] = LiveOfFamily(sessions[target[r]].family)
      \/ pc'[r] = "rotating" /\ victims'[r] = {}
  BY <1>0, <1>2, <1>3 DEF TypeOK
<1>6. LocksInOrder'
  BY <1>0, <1>1, <1>2, <1>4, <1>5, LocksMove
<1>7. pc'[r] # "flushing" \/ Begins(r)
  BY <1>1, <1>2, <1>4, <1>5 DEF Begins, Used, Live
<1>8. QED
  BY <1>4, <1>6, <1>7, SelectionsMove DEF DInv

LEMMA LockingKeepsLocks ==
    ASSUME IInv, DInv, RowsAge, NEW r \in Requests, NEW v \in SessionIds, LockVictim(r, v)
    PROVE  DInv'
<1>0. TypeOK /\ LocksInOrder
  BY DEF IInv, DInv
<1>1. /\ pc[r] = "flushing" /\ v \in victims[r] /\ lock[v] = None
      /\ lock' = [lock EXCEPT ![v] = r] /\ UNCHANGED <<pc, target, victims>>
  BY DEF LockVictim, Locking, IsNext, Pending, locals
<1>2. OthersStay(r)
  BY <1>1 DEF OthersStay
<1>3. \A t \in SessionIds : lock'[t] = IF t = v THEN r ELSE lock[t]
  BY <1>0, <1>1 DEF TypeOK
<1>4. LocksInOrder'
  <2>1. \A t \in SessionIds : lock'[t] = r => t = target'[r] \/ t \in victims'[r]
    BY <1>0, <1>1, <1>3 DEF LocksInOrder
  <2>2. target'[r] \in SessionIds => lock'[target'[r]] = r
    BY <1>0, <1>1, <1>3 DEF LocksInOrder
  <2>3. pc'[r] = "flushing"
    BY <1>1
  <2>4. QED
    BY <1>0, <1>1, <1>2, <1>3, <2>1, <2>2, <2>3, LocksMove
<1>5. QED
  BY <1>1, <1>2, <1>4, SelectionsMove DEF DInv

LEMMA StepKeepsLocks == IInv /\ DInv /\ [Next]_vars => DInv'
<1>1. SUFFICES ASSUME IInv, DInv, [Next]_vars PROVE DInv'
  OBVIOUS
<1>2. RowsAge
  BY <1>1, StepsAgeRows
<1>3. ASSUME NEW r \in Requests, NEW n \in SessionIds, CreateSession(r, n) \/ Rotate(r, n)
      PROVE  DInv'
  BY <1>1, <1>2, <1>3, EndKeepsLocks DEF CreateSession, Rotate
<1>4. ASSUME NEW r \in Requests, CommitRevocation(r) \/ CommitLogout(r) \/ Abort(r)
      PROVE  DInv'
  BY <1>1, <1>2, <1>4, EndKeepsLocks DEF CommitRevocation, CommitLogout, Abort
<1>5. ASSUME NEW r \in Requests, Step(r) PROVE DInv'
  BY <1>1, <1>2, <1>3, <1>4, <1>5, CheckKeepsLocks, LockingKeepsLocks DEF Step
<1>6. ASSUME NEW S, Cleanup(S) PROVE DInv'
  BY <1>1, <1>2, <1>6, IdleKeepsLocks DEF Cleanup, locals
<1>7. ASSUME NEW p \in Principals,
             UpdateLocalAccount(p) \/ ReplaceCredential(p) \/ ResolvePingPrincipal(p)
      PROVE  DInv'
  BY <1>1, <1>2, <1>7, IdleKeepsLocks
     DEF UpdateLocalAccount, ReplaceCredential, ResolvePingPrincipal, locals
<1>8. CASE Tick \/ UNCHANGED vars
  BY <1>1, <1>2, <1>8, IdleKeepsLocks DEF Tick, vars, tables, locals
<1>9. QED
  BY <1>1, <1>2, <1>4, <1>5, <1>6, <1>7, <1>8, BeginningKeepsLocks, RefreshKeepsLocks DEF Next

\* The invariant of the locks holds throughout.
LEMMA DInvHolds == Spec => []DInv
<1>1. IInv /\ DInv /\ [Next]_vars => DInv'
  BY StepKeepsLocks
<1>2. QED
  BY <1>1, InitLocks, IInvHolds, PTL DEF Spec

------------------------------------------------------------------------------
(* Requests that wait.                                                     *)

\* A refresh that waits is chasing, and holds the row presented to it alone.
LEMMA WaitingRefresh ==
    ASSUME IInv, DInv, NEW r \in Requests, NEW q, WaitsFor(r, q), target[r] # None
    PROVE  /\ Chasing(r)
           /\ \A s \in SessionIds : lock[s] = r => s = target[r]
           /\ \E v \in victims[r] :
                 /\ lock[v] = q /\ v # target[r]
                 /\ sessions[v].family = sessions[target[r]].family
<1>0. /\ TypeOK /\ LocksInOrder /\ SelectionInOrder(r)
  BY DEF IInv, DInv
<1>1. PICK v \in SessionIds : v \in victims[r] /\ lock[v] # r /\ lock[v] = q
  BY DEF WaitsFor, IsNext, Pending
<1>2. pc[r] = "flushing" /\ target[r] \in SessionIds
  BY <1>0 DEF WaitsFor, TypeOK
<1>3. \A w \in victims[r] : w = v
  BY <1>0, <1>1, <1>2 DEF SelectionInOrder
<1>4. \A s \in SessionIds : lock[s] = r => s = target[r]
  BY <1>0, <1>1, <1>3 DEF LocksInOrder
<1>5. sessions[v].family = sessions[target[r]].family
  BY <1>0, <1>1, <1>2 DEF SelectionInOrder
<1>6. v # target[r]
  BY <1>0, <1>1, <1>2 DEF LocksInOrder
<1>7. QED
  BY <1>1, <1>2, <1>4, <1>5, <1>6 DEF Chasing

\* No circle of refreshes alone: each would chase the next.
LEMMA RefreshesDoNotCircle ==
    ASSUME IInv, DInv, NEW F \in SUBSET Requests, F # {},
           \A r \in F : target[r] # None /\ \E q \in F : WaitsFor(r, q)
    PROVE  FALSE
<1>1. \A r \in F : Chasing(r) /\ \A s \in SessionIds : lock[s] = r => s = target[r]
  BY WaitingRefresh
<1>2. ASSUME NEW r \in F PROVE \E q \in F : Chases(r, q)
  <2>1. PICK q \in F : WaitsFor(r, q)
    OBVIOUS
  <2>2. PICK v \in victims[r] : lock[v] = q /\ v # target[r]
    BY <2>1, WaitingRefresh
  <2>3. v \in SessionIds
    BY <2>2 DEF IInv, TypeOK
  <2>4. target[q] = v
    BY <1>1, <2>2, <2>3
  <2>5. QED
    BY <2>2, <2>4 DEF Chases
<1>3. QED
  BY <1>1, <1>2 DEF DInv, NoCircle

\* Nor with one revocation of a principal's sessions: those it waits for work on the family
\* of its next row, and whoever they wait for does too.
LEMMA OneRevocationDoesNotCircle ==
    ASSUME IInv, DInv, NEW C \in SUBSET Requests, NEW p \in C, Deadlocked(C),
           target[p] = None, \A r \in C \ {p} : target[r] # None
    PROVE  FALSE
<1>0. /\ \A q \in Requests : victims[q] \subseteq SessionIds /\ target[q] \in SessionIds \cup {None}
      /\ LocksInOrder /\ \A q \in Requests : SelectionInOrder(q)
      /\ None \notin SessionIds
  BY NoneAssumption DEF IInv, TypeOK, DInv
<1>1. \A r \in C : r \in Requests /\ \E q \in C : WaitsFor(r, q)
  BY DEF Deadlocked
<1>2. PICK q \in C : WaitsFor(p, q)
  BY <1>1
<1>3. PICK v \in SessionIds : v \in victims[p] /\ lock[v] # p /\ lock[v] = q
  BY <1>2 DEF WaitsFor, IsNext, Pending
<1>4. pc[p] = "flushing"
  BY <1>2 DEF WaitsFor
<1> DEFINE F == {r \in C \ {p} : sessions[target[r]].family = sessions[v].family}
<1>5. \A r \in C \ {p} : \A s \in SessionIds : lock[s] = r => s = target[r]
  BY <1>1, WaitingRefresh
<1>6. q \in F
  BY <1>3, <1>5
<1>7. ASSUME NEW r \in F PROVE target[r] # None /\ \E t \in F : WaitsFor(r, t)
  <2>1. r \in C \ {p} /\ r \in Requests /\ target[r] # None
    BY <1>1
  <2>2. PICK t \in C : WaitsFor(r, t)
    BY <1>1, <2>1
  <2>3. PICK w \in victims[r] : /\ lock[w] = t
                                /\ sessions[w].family = sessions[target[r]].family
    BY <2>1, <2>2, WaitingRefresh
  <2>4. w \in SessionIds /\ sessions[w].family = sessions[v].family
    BY <1>0, <2>1, <2>3
  <2>5. t # p
    <3>1. SUFFICES ASSUME t = p PROVE FALSE
      OBVIOUS
    <3>2. w \in victims[p]
      BY <1>0, <1>1, <2>3, <2>4, <3>1 DEF LocksInOrder
    <3>3. w = v
      BY <1>0, <1>1, <1>3, <1>4, <2>4, <3>2 DEF SelectionInOrder
    <3>4. QED
      BY <1>3, <2>3, <3>1, <3>3
  <2>6. w = target[t]
    BY <1>5, <2>3, <2>4, <2>5
  <2>7. t \in F
    BY <2>4, <2>5, <2>6
  <2>8. QED
    BY <2>1, <2>2, <2>7
<1>8. F \in SUBSET Requests /\ F # {}
  BY <1>1, <1>6
<1> HIDE DEF F
<1>9. QED
  BY <1>7, <1>8, RefreshesDoNotCircle

\* Requests that wait for each other in a circle include two revocations of all sessions of
\* a principal, however many requests there are and whatever rows they work on
\* (DeadlockNeedsTwoPrincipalRevocations).
THEOREM DeadlocksNeedTwoRevocations ==
    ASSUME IsFiniteSet(Requests) PROVE Spec => []DeadlockNeedsTwoPrincipalRevocations
<1>1. ASSUME IInv, DInv, NEW C \in SUBSET Requests, C # {}, Deadlocked(C)
      PROVE  Cardinality({r \in C : target[r] = None}) >= 2
  <2> DEFINE R == {r \in C : target[r] = None}
  <2>1. R \in SUBSET Requests
    OBVIOUS
  <2>2. IsFiniteSet(R) /\ Cardinality(R) \in Nat
    BY <2>1, FS_Subset, FS_CardinalityType
  <2>3. R # {}
    <3>1. \A r \in C : \E q \in C : WaitsFor(r, q)
      BY <1>1 DEF Deadlocked
    <3>2. SUFFICES ASSUME R = {} PROVE FALSE
      OBVIOUS
    <3>3. \A r \in C : target[r] # None
      BY <3>2
    <3>4. QED
      BY <1>1, <3>1, <3>3, RefreshesDoNotCircle
  <2>4. ASSUME NEW p, R = {p} PROVE FALSE
    <3>1. p \in C /\ target[p] = None /\ \A r \in C \ {p} : target[r] # None
      BY <2>4
    <3>2. QED
      BY <1>1, <3>1, OneRevocationDoesNotCircle
  <2> HIDE DEF R
  <2>5. Cardinality(R) # 0 /\ Cardinality(R) # 1
    BY <2>2, <2>3, <2>4, FS_EmptySet, FS_Singleton
  <2>6. Cardinality(R) >= 2
    BY <2>2, <2>5
  <2>7. QED
    BY <2>6 DEF R
<1>2. IInv /\ DInv => DeadlockNeedsTwoPrincipalRevocations
  BY <1>1 DEF DeadlockNeedsTwoPrincipalRevocations
<1>3. QED
  BY <1>2, IInvHolds, DInvHolds, PTL
==============================================================================
