----------------------------- MODULE OneTimeCode -----------------------------
(***************************************************************************)
(* What a one-time code promises, whoever issues and redeems it: it is     *)
(* issued for one holder, only that holder is granted what it stands for,  *)
(* and only once; a code that became void stays void.                      *)
(***************************************************************************)
EXTENDS Naturals

CONSTANTS Codes, Holders, None

VARIABLES state,    \* of each code
          holder,   \* for whom it was issued
          grants    \* how often, and to whom, it was honoured

vars == <<state, holder, grants>>

Init ==
    /\ state = [c \in Codes |-> "absent"]
    /\ holder = [c \in Codes |-> None]
    /\ grants = [c \in Codes |-> [count |-> 0, to |-> {}]]

\* Earlier codes of the holder may become void with it.
Issue(c, h) ==
    /\ state[c] = "absent"
    /\ \E C \in SUBSET {d \in Codes : state[d] = "issued" /\ holder[d] = h} :
           state' = [d \in Codes |-> IF d = c THEN "issued"
                                    ELSE IF d \in C THEN "void" ELSE state[d]]
    /\ holder' = [holder EXCEPT ![c] = h]
    /\ UNCHANGED grants

Redeem(c) ==
    /\ state[c] = "issued"
    /\ state' = [state EXCEPT ![c] = "redeemed"]
    /\ grants' = [grants EXCEPT ![c] = [count |-> 1, to |-> {holder[c]}]]
    /\ UNCHANGED holder

\* Codes expire, are presented by somebody else, or are lost with the request
\* that was to redeem them.
Void(C) ==
    /\ \A c \in C : state[c] = "issued"
    /\ state' = [c \in Codes |-> IF c \in C THEN "void" ELSE state[c]]
    /\ UNCHANGED <<holder, grants>>

Next ==
    \/ \E c \in Codes, h \in Holders : Issue(c, h)
    \/ \E c \in Codes : Redeem(c)
    \/ \E C \in SUBSET Codes : Void(C)

Spec == Init /\ [][Next]_vars
==============================================================================
