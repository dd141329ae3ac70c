----------------------------- MODULE MCProgress ------------------------------
(***************************************************************************)
(* Instances for TLC of what must happen eventually: in RefreshSessions,   *)
(* and in LocalLogin.  The two have no variable in common; part tells      *)
(* whose behaviour it is, and the other rests.                             *)
(***************************************************************************)
EXTENDS MCRefreshSessions

CONSTANTS ghost, l1, l2, Logins, Users, Known, Address, AddressLimit, LoginLimit, MaxFailures,
          LockMinutes, LastMinute

VARIABLES part, minute, buckets, accounts, login, admitted, guesses

loginVars == <<minute, buckets, accounts, login, admitted, guesses>>

L == INSTANCE LocalLoginProperties WITH now <- minute

LoginsAnswered == L!LoginsAnswered

ProgressInit == part \in {"sessions", "login"} /\ Init /\ L!LoginInit

ProgressNext ==
    \/ /\ part = "sessions"
       /\ Next
       /\ UNCHANGED <<part, loginVars>>
    \/ /\ part = "login"
       /\ L!LoginNext
       /\ UNCHANGED <<part, vars>>

\* At rest a part has nothing to do that fairness could ask for.
ProgressSpec ==
    /\ ProgressInit
    /\ [][ProgressNext]_<<part, vars, loginVars>>
    /\ Fairness
    /\ L!LoginFairness
==============================================================================
