-------------------------- MODULE MCRefreshSessions --------------------------
(***************************************************************************)
(* Instances of RefreshSessions for TLC.                                   *)
(***************************************************************************)
EXTENDS RefreshSessionsProperties, TLC

CONSTANTS ann, bob, r1, r2, r3

LocalOnly == ann :> "LOCAL"
Both      == ann :> "LOCAL" @@ bob :> "PING_SAML"

\* A behaviour in which p alone has sessions and changes; with three sessions in use, the
\* version is the first.
About(p) ==
    /\ principals[p].version > 1 => Cardinality({s \in SessionIds : Used(s)}) <= 2
    /\ \A s \in SessionIds : Used(s) => sessions[s].principal = p
    /\ \A r \in Requests : whose[r] \in {p, None}
    /\ \A q \in Principals \ {p} :
           principals[q] = [role |-> "ADMIN", active |-> TRUE, eligible |-> TRUE, version |-> 1]

\* Bound of the run sessions_safety, ann's sessions: no time passes, and her role, which
\* matters for Ping sessions only, stays.
LocalSessions == About(ann) /\ now = 0 /\ principals[ann].role = "ADMIN"

\* Bound of the run sessions_safety, bob's sessions: two requests, one when three sessions
\* are in use, and keys in ascending order.
PingSessions ==
    /\ About(bob)
    /\ LET busy == Cardinality({r \in Requests : pc[r] # "idle"})
       IN busy <= 2 /\ (busy = 2 => \E s \in SessionIds : ~Used(s))
    /\ \A m, n \in SessionIds : Used(n) /\ m < n => Used(m)

OneUser == LocalSessions \/ PingSessions

\* Requests are interchangeable; session keys are not (flushes follow their
\* order).  Sound for the safety runs only.
RequestSymmetry == Permutations(Requests)
==============================================================================
