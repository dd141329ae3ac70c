------------------------------ MODULE Lockout -------------------------------
(***************************************************************************)
(* What the lockout of local accounts promises: between two resets of an   *)
(* account, at most Tolerance guesses at its password are answered, and    *)
(* the one that exhausts them locks the account until its lock ends.       *)
(***************************************************************************)
EXTENDS Naturals

CONSTANTS Accounts,   \* the accounts that have a password
          Tolerance   \* the wrong guesses that lock an account

VARIABLES wrong,   \* the wrong guesses answered since the last reset
          locked   \* the accounts that are locked

promised == <<wrong, locked>>

Init ==
    /\ wrong = [a \in Accounts |-> 0]
    /\ locked = {}

\* A wrong guess is counted, or is the last one.
Guess(a) ==
    /\ a \notin locked
    /\ \/ /\ wrong[a] + 1 < Tolerance
          /\ wrong' = [wrong EXCEPT ![a] = @ + 1]
          /\ UNCHANGED locked
       \/ /\ wrong[a] + 1 = Tolerance
          /\ wrong' = [wrong EXCEPT ![a] = 0]
          /\ locked' = locked \cup {a}

\* Nobody signs in to a locked account.
SignIn(a) ==
    /\ a \notin locked
    /\ wrong' = [wrong EXCEPT ![a] = 0]
    /\ UNCHANGED locked

\* An administrator, or a new password, clears the count and may lift the lock.
Clear(a) ==
    /\ wrong' = [wrong EXCEPT ![a] = 0]
    /\ locked' \in {locked, locked \ {a}}

\* Time ends locks; an administrator may lift one and leave what was counted since.
Unlock(ended) ==
    /\ ended \subseteq locked
    /\ locked' = locked \ ended
    /\ UNCHANGED wrong

Next ==
    \/ \E a \in Accounts : Guess(a) \/ SignIn(a) \/ Clear(a)
    \/ \E ended \in SUBSET Accounts : Unlock(ended)

Spec == Init /\ [][Next]_promised
==============================================================================
