---------------------------- MODULE SessionFamily ----------------------------
(***************************************************************************)
(* What the refresh-session table promises to a caller, without requests,  *)
(* locks or SQL: a sign-in starts a family on fixed terms, a family is     *)
(* carried by one live credential at a time, redeeming the credential      *)
(* replaces it inside the same family, and a family that lost its live     *)
(* credential never gets another.                                          *)
(***************************************************************************)

CONSTANTS Credentials,  \* the secrets a sign-in or a rotation may hand out
          Families,     \* the families a sign-in may start
          Terms,        \* who signed in, through whom, when and until when
          None

VARIABLES live,     \* the credentials that can be redeemed
          spent,    \* the credentials that were redeemed or revoked
          lineage,  \* the family of each credential that was handed out
          terms     \* the terms of each family that was started

vars == <<live, spent, lineage, terms>>

HandedOut == live \cup spent

Init ==
    /\ live = {}
    /\ spent = {}
    /\ lineage = [c \in Credentials |-> None]
    /\ terms = [f \in Families |-> None]

SignIn(f, c) ==
    /\ terms[f] = None
    /\ c \notin HandedOut
    /\ live' = live \cup {c}
    /\ lineage' = [lineage EXCEPT ![c] = f]
    /\ \E t \in Terms : terms' = [terms EXCEPT ![f] = t]
    /\ UNCHANGED spent

Rotate(c, d) ==
    /\ c \in live
    /\ d \notin HandedOut
    /\ live' = (live \ {c}) \cup {d}
    /\ spent' = spent \cup {c}
    /\ lineage' = [lineage EXCEPT ![d] = lineage[c]]
    /\ UNCHANGED terms

\* A logout ends one family, a revocation of a principal several at once.
End(C) ==
    /\ live' = live \ C
    /\ spent' = spent \cup C
    /\ UNCHANGED <<lineage, terms>>

Next ==
    \/ \E f \in Families, c \in Credentials : SignIn(f, c)
    \/ \E c, d \in Credentials : Rotate(c, d)
    \/ \E C \in SUBSET live : End(C)

Spec == Init /\ [][Next]_vars
==============================================================================
