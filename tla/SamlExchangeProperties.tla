------------------------ MODULE SamlExchangeProperties ------------------------
(***************************************************************************)
(* What SamlExchange guarantees, and what the documents say of it.         *)
(***************************************************************************)
EXTENDS SamlExchange

Made(c) == codes[c].status # "unused"

\* An assertion never yields two exchange codes, even when two replicas have
\* both loaded its login transaction before either consumed it, and even when
\* the cleanup job runs while the slower one is under way: its replay marker
\* outlives every request that can still present it.
OneCodePerAssertion ==
    \A c, d \in Codes : Made(c) /\ Made(d) /\ codes[c].source = codes[d].source => c = d

\* However often and from wherever a code is presented, it grants one session
\* at most (consume_exchange_code reads and consumes it under its row lock).
OneSessionPerCode == \A c \in Codes : grants[c].count <= 1

\* A session is granted to the browser that began the login of its code, also
\* when that browser has begun another login since or another one presents the
\* code first.
SessionsBoundToBrowser ==
    \A c \in Codes : Made(c) => grants[c].to \subseteq {logins[codes[c].login].browser}

\* The promise of OneTimeCode, kept by the exchange-code table together with
\* the requests that have consumed a code and not yet created its session.
CodeState(c) ==
    CASE codes[c].status = "unused" -> "absent"
      [] grants[c].count > 0 -> "redeemed"
      [] grants[c].count = 0 /\ \/ codes[c].status = "issued"
                                \/ \E r \in Requests : req[r].at = "granting" /\ req[r].code = c
             -> "issued"
      [] OTHER -> "void"

Promise == INSTANCE OneTimeCode WITH
    Holders <- Browsers,
    state <- [c \in Codes |-> CodeState(c)],
    holder <- [c \in Codes |-> IF Made(c) THEN logins[codes[c].login].browser ELSE None]

\* The exchange implements OneTimeCode: a code is honoured once, for the browser that began the login, or
\* becomes void and stays so.
ImplementsOneTimeCode == Promise!Spec

\* docs/architecture/ping-sso-integration-plan.md:382 says that a concurrent
\* ACS request must not create a second code for a login transaction.
OneCodePerLogin ==
    \A c, d \in Codes : Made(c) /\ Made(d) /\ codes[c].login = codes[d].login => c = d
==============================================================================
