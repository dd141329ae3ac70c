--------------------------- MODULE MCSamlExchange ----------------------------
(***************************************************************************)
(* Instances of SamlExchange for TLC.                                      *)
(***************************************************************************)
EXTENDS SamlExchangeProperties, TLC

CONSTANTS t1, t2, a1, a2, ann, b1, b2, c1, c2, r1, r2

\* Each login is answered once.
OnceEach == [a \in Assertions |-> IF a = a1 THEN t1 ELSE t2]

\* The provider answers the first login twice.
TwiceFirst == [a \in Assertions |-> t1]

OneUser  == [a \in Assertions |-> ann]
\* Nothing tells requests, codes or browsers apart but their history.
Interchangeable == Permutations(Requests) \cup Permutations(Codes) \cup Permutations(Browsers)

TwoRoles == [a \in Assertions |-> IF a = a1 THEN "ADMIN" ELSE "ACCESS"]
==============================================================================
