---------------------------- MODULE SamlExchange -----------------------------
(***************************************************************************)
(* Sign-in through Ping: the login transaction that /auth/login opens for  *)
(* a browser, the assertion the provider answers it with, the ACS handler  *)
(* that turns an assertion into an exchange code, the exchange of the code *)
(* for a session, and the cleanup of the three tables.                     *)
(*                                                                         *)
(* Handlers of several replicas run at the same time, each with database   *)
(* transactions at READ COMMITTED; a row lock is held to the end of the    *)
(* transaction that took it.                                               *)
(***************************************************************************)
EXTENDS Naturals, FiniteSets

CONSTANTS Logins,       \* keys of saml_login_transaction
          Browsers,
          Assertions,   \* the responses the provider may give
          Codes,        \* keys of auth_exchange_code
          Users,
          Requests,     \* the requests that may be in progress at a time
          InResponseTo, \* InResponseTo[a]: the login a answers
          Subject,      \* Subject[a]: the durable subject it names
          Groups,       \* Groups[a]: "ADMIN", "ACCESS" or "NONE", the approved group it carries
          LoginTtl,     \* settings.login_transaction_ttl_seconds, in ticks
          AssertionTtl, \* bound: the validity of an assertion
          Skew,         \* settings.saml_clock_skew_seconds
          CodeTtl,      \* settings.auth_code_ttl_seconds
          Patience,     \* bound: how long an ACS request may run
          MaxTime,      \* bound of the clock
          None

ASSUME NoneAssumption ==
    /\ None \notin Logins \cup Browsers \cup Assertions \cup Codes \cup Users \cup Requests
    /\ None \notin Nat
ASSUME AnswersAssumption ==
    /\ InResponseTo \in [Assertions -> Logins]
    /\ Subject \in [Assertions -> Users]
    /\ Groups \in [Assertions -> {"ADMIN", "ACCESS", "NONE"}]
ASSUME TimesAssumption ==
    /\ LoginTtl \in Nat \ {0} /\ AssertionTtl \in Nat \ {0} /\ CodeTtl \in Nat \ {0}
    /\ Skew \in Nat /\ Patience \in Nat /\ MaxTime \in Nat

VARIABLES logins,     \* rows of saml_login_transaction
          answers,    \* when each assertion the provider gave expires, or None
          markers,    \* rows of saml_assertion_replay: when each expires, or None
          codes,      \* rows of auth_exchange_code
          principals, \* the role of each user who has a principal
          cookie,     \* the login nonce each browser holds
          grants,     \* the browsers each code has given a session, and how many
          lock,       \* the request that holds the lock on a login or code row
          req,        \* what each request works on
          now

rows == <<logins, answers, markers, codes, principals, cookie, grants>>
vars == <<rows, lock, req, now>>

LoginRows == [status : {"unused", "open", "consumed", "deleted"},
              browser : Browsers \cup {None}, expires : Nat]

\* source: the assertion a code was made from, which the table does not keep.
CodeRows == [status : {"unused", "issued", "consumed", "deleted"},
             login : Logins \cup {None}, source : Assertions \cup {None}, expires : Nat]

Idle == [at |-> "idle", answer |-> None, row |-> "unused", principal |-> "unknown",
         code |-> None, browser |-> None, since |-> 0]

\* row: the status of the login as the request loaded it; principal: the role it
\* found for the subject.
RequestRecords ==
    [at : {"idle", "checked", "resolved", "holding", "granting"},
     answer : Assertions \cup {None},
     row : {"unused", "open", "issued", "consumed"},
     principal : {"unknown", "READ_ONLY", "ADMIN"},
     code : Codes \cup {None}, browser : Browsers \cup {None}, since : Nat]

TypeOK ==
    /\ logins \in [Logins -> LoginRows]
    /\ answers \in [Assertions -> Nat \cup {None}]
    /\ markers \in [Assertions -> Nat \cup {None}]
    /\ codes \in [Codes -> CodeRows]
    /\ principals \in [Users -> {"unknown", "READ_ONLY", "ADMIN"}]
    /\ cookie \in [Browsers -> Logins \cup {None}]
    /\ grants \in [Codes -> [count : Nat, to : SUBSET Browsers]]
    /\ lock \in [Logins \cup Codes -> Requests \cup {None}]
    /\ req \in [Requests -> RequestRecords]
    /\ now \in Nat

Init ==
    /\ logins = [t \in Logins |-> [status |-> "unused", browser |-> None, expires |-> 0]]
    /\ answers = [a \in Assertions |-> None]
    /\ markers = [a \in Assertions |-> None]
    /\ codes = [c \in Codes |-> [status |-> "unused", login |-> None, source |-> None,
                                 expires |-> 0]]
    /\ principals = [u \in Users |-> "unknown"]
    /\ cookie = [b \in Browsers |-> None]
    /\ grants = [c \in Codes |-> [count |-> 0, to |-> {}]]
    /\ lock = [k \in Logins \cup Codes |-> None]
    /\ req = [r \in Requests |-> Idle]
    /\ now = 0

\* The lock table after r took row k, and after its transaction ended; a slip that
\* selects without FOR UPDATE.
NoLocking(r, k) == lock
Locking(r, k)   == [lock EXCEPT ![k] = r]
Unlocking(r)    == [k \in DOMAIN lock |-> IF lock[k] = r THEN None ELSE lock[k]]

------------------------------------------------------------------------------
(* The browser and the provider.                                           *)

\* GET /auth/login.  The response that sets the cookie may get lost.
BeginLogin(b, t) ==
    /\ logins[t].status = "unused"
    /\ logins' = [logins EXCEPT ![t] = [status |-> "open", browser |-> b,
                                        expires |-> now + LoginTtl]]
    /\ \E reached \in BOOLEAN :
           cookie' = IF reached THEN [cookie EXCEPT ![b] = t] ELSE cookie
    /\ UNCHANGED <<answers, markers, codes, principals, grants, lock, req, now>>

\* A cookie lives as long as its login transaction.
Nonce(b) == IF cookie[b] # None /\ now < logins[cookie[b]].expires THEN cookie[b] ELSE None

\* Logout and the end of the browser session clear the cookie.
ClearCookie(b) ==
    /\ cookie[b] # None
    /\ cookie' = [cookie EXCEPT ![b] = None]
    /\ UNCHANGED <<logins, answers, markers, codes, principals, grants, lock, req, now>>

\* The provider answers an authentication request, maybe more than once.
Answer(a) ==
    /\ answers[a] = None
    /\ logins[InResponseTo[a]].status # "unused"
    /\ answers' = [answers EXCEPT ![a] = now + AssertionTtl]
    /\ UNCHANGED <<logins, markers, codes, principals, cookie, grants, lock, req, now>>

------------------------------------------------------------------------------
(* POST /auth/saml/acs.                                                    *)

\* The login transaction is loaded without a lock, and the response is validated.
Check(r, a) ==
    LET t == InResponseTo[a] IN
    /\ req[r].at = "idle"
    /\ logins[t].status = "open"
    /\ now < logins[t].expires
    /\ answers[a] # None
    /\ now < answers[a]
    /\ Groups[a] # "NONE"
    /\ req' = [req EXCEPT ![r] = [Idle EXCEPT !.at = "checked", !.answer = a,
                                              !.row = logins[t].status, !.since = now]]
    /\ UNCHANGED <<rows, lock, now>>

\* The login row is locked.  The ORM has the object already and keeps the columns
\* it loaded: only a row that was deleted looks different.
LockLogin(r) ==
    LET a == req[r].answer
        t == InResponseTo[a]
    IN /\ req[r].at = "checked"
       /\ lock[t] = None
       /\ logins[t].status # "deleted"
       /\ req[r].row = "open"
       /\ now < logins[t].expires
       /\ lock' = Locking(r, t)
       /\ req' = [req EXCEPT ![r].at = "resolved",
                             ![r].principal = principals[Subject[a]]]
       /\ UNCHANGED <<rows, now>>

\* The slip of taking the group for the role.
GroupAsRole(a) == Groups[a]
GrantedRole(a) == IF Groups[a] = "ADMIN" THEN "ADMIN" ELSE "READ_ONLY"

\* The slips: a marker that is not kept for the clock skew, and one that is not unique.
UnskewedExpiry(a) == answers[a]
MarkerExpiry(a)   == answers[a] + Skew

NoMarkerCheck(a)  == TRUE
MarkerIsNew(a)    == markers[a] = None

\* Two transactions may both have found no principal for a subject; the unique
\* identity lets one of them insert it.
IdentityIsNew(r) ==
    req[r].principal = "unknown" => principals[Subject[req[r].answer]] = "unknown"

\* The marker, the principal and the code are committed together.
CommitCode(r, c) ==
    LET a == req[r].answer
        t == InResponseTo[a]
        u == Subject[a]
    IN /\ req[r].at = "resolved"
       /\ MarkerIsNew(a)
       /\ IdentityIsNew(r)
       /\ codes[c].status = "unused"
       /\ logins' = [logins EXCEPT ![t].status = "consumed"]
       /\ markers' = [markers EXCEPT ![a] = MarkerExpiry(a)]
       /\ principals' = [principals EXCEPT
              ![u] = IF req[r].principal = GrantedRole(a) THEN @ ELSE GrantedRole(a)]
       /\ codes' = [codes EXCEPT
              ![c] = [status |-> "issued", login |-> t, source |-> a,
                      expires |-> req[r].since + CodeTtl]]
       /\ lock' = Unlocking(r)
       /\ req' = [req EXCEPT ![r] = Idle]
       /\ UNCHANGED <<answers, cookie, grants, now>>

------------------------------------------------------------------------------
(* POST /auth/exchange.                                                    *)

\* A browser presents a code, its own or one it came by.
LockCode(r, b, c) ==
    /\ req[r].at = "idle"
    /\ codes[c].status \in {"issued", "consumed"}
    /\ lock[c] = None
    /\ lock' = Locking(r, c)
    /\ req' = [req EXCEPT ![r] = [Idle EXCEPT !.at = "holding", !.code = c, !.browser = b,
                                              !.row = codes[c].status]]
    /\ UNCHANGED <<rows, now>>

\* The slip of an exchange that does not look at the cookie.
AnyBrowser(r)  == TRUE
SameBrowser(r) == Nonce(req[r].browser) = codes[req[r].code].login

Acceptable(r) == now < codes[req[r].code].expires /\ SameBrowser(r)

\* A code that is expired or comes from another browser is consumed all the same.
ConsumeCode(r) ==
    /\ req[r].at = "holding"
    /\ req[r].row = "issued"
    /\ codes' = [codes EXCEPT ![req[r].code].status = "consumed"]
    /\ lock' = Unlocking(r)
    /\ req' = [req EXCEPT ![r] = IF Acceptable(r) THEN [@ EXCEPT !.at = "granting"] ELSE Idle]
    /\ UNCHANGED <<logins, answers, markers, principals, cookie, grants, now>>

\* The session is a transaction of its own; the response that clears the cookie
\* may get lost.
CreateSession(r) ==
    LET c == req[r].code
        b == req[r].browser
    IN /\ req[r].at = "granting"
       /\ grants' = [grants EXCEPT ![c] = [count |-> @.count + 1, to |-> @.to \cup {b}]]
       /\ \E reached \in BOOLEAN :
              cookie' = IF reached THEN [cookie EXCEPT ![b] = None] ELSE cookie
       /\ req' = [req EXCEPT ![r] = Idle]
       /\ UNCHANGED <<logins, answers, markers, codes, principals, lock, now>>

\* A request ends without a commit: it is rejected (a reused code, a row that was
\* deleted or expired, a marker or an identity that exists), or its process dies.
Abort(r) ==
    /\ req[r].at # "idle"
    /\ lock' = Unlocking(r)
    /\ req' = [req EXCEPT ![r] = Idle]
    /\ UNCHANGED <<rows, now>>

------------------------------------------------------------------------------
(* The maintenance job and the clock.                                      *)

StaleLogins  == {t \in Logins : logins[t].status \in {"open", "consumed"}
                                    /\ logins[t].expires <= now /\ lock[t] = None}
StaleMarkers == {a \in Assertions : markers[a] # None /\ markers[a] <= now}
StaleCodes   == {c \in Codes : codes[c].status \in {"issued", "consumed"}
                                    /\ codes[c].expires <= now /\ lock[c] = None}

Cleanup ==
    /\ StaleLogins \cup StaleMarkers \cup StaleCodes # {}
    /\ logins' = [t \in Logins |-> IF t \in StaleLogins
                                   THEN [logins[t] EXCEPT !.status = "deleted"] ELSE logins[t]]
    /\ markers' = [a \in Assertions |-> IF a \in StaleMarkers THEN None ELSE markers[a]]
    /\ codes' = [c \in Codes |-> IF c \in StaleCodes
                                 THEN [codes[c] EXCEPT !.status = "deleted"] ELSE codes[c]]
    /\ UNCHANGED <<answers, principals, cookie, grants, lock, req, now>>

\* Time passes; no ACS request runs for longer than Patience.
Tick ==
    /\ now < MaxTime
    /\ \A r \in Requests : req[r].at \in {"checked", "resolved"} => now < req[r].since + Patience
    /\ now' = now + 1
    /\ UNCHANGED <<rows, lock, req>>

Next ==
    \/ \E b \in Browsers, t \in Logins : BeginLogin(b, t)
    \/ \E b \in Browsers : ClearCookie(b)
    \/ \E a \in Assertions : Answer(a)
    \/ \E r \in Requests, a \in Assertions : Check(r, a)
    \/ \E r \in Requests : LockLogin(r)
    \/ \E r \in Requests, c \in Codes : CommitCode(r, c)
    \/ \E r \in Requests, b \in Browsers, c \in Codes : LockCode(r, b, c)
    \/ \E r \in Requests : ConsumeCode(r) \/ CreateSession(r) \/ Abort(r)
    \/ Cleanup
    \/ Tick

Spec == Init /\ [][Next]_vars
==============================================================================
