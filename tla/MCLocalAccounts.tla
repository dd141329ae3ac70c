--------------------------- MODULE MCLocalAccounts ---------------------------
(***************************************************************************)
(* Instances of LocalAccounts for TLC.                                     *)
(***************************************************************************)
EXTENDS LocalAccountsProperties, TLC

CONSTANTS ann, bob, c1, c2, k1, k2, k3, r1, r2, s1, s2

\* Two administrators, or one and a user, or one and an account to create.
OneOrTwo == SUBSET Accounts \ {{}}
Two      == {Accounts}

\* Demotion, promotion and disablement, one at a time; accounts are enabled by consuming
\* a code.
Simple == {[role |-> "READ_ONLY", enabled |-> None],
           [role |-> "ADMIN", enabled |-> None],
           [role |-> None, enabled |-> FALSE]}

\* Bound of the run accounts_safety: promotions, and a third operation, only where no code
\* and no session is about.
PromotionsAlone ==
    \/ Cardinality(keys) <= 2 /\ \A r \in Requests : req[r].payload.role # "ADMIN"
    \/ /\ \A c \in Codes : codes[c].status = "unused"
       /\ \A r \in Requests : req[r].op \notin {"signin", "issue"}
       /\ \A s \in SessionIds : ~Live(s)

\* Bound of the run accounts_safety: while there is a session, requests work on its account.
SessionsOfTheirs ==
    \A s \in SessionIds, r \in Requests :
        Live(s) /\ req[r].at # "idle" => req[r].account = sessions[s].account

\* Keys are used in this order; which comes first makes no difference.
KeysInOrder == (k2 \in keys => k1 \in keys) /\ (k3 \in keys => k2 \in keys)

\* Nothing tells accounts, requests, codes or sessions apart but their history.
Interchangeable == Permutations(Accounts) \cup Permutations(Requests)
                       \cup Permutations(Codes) \cup Permutations(SessionIds)
==============================================================================
