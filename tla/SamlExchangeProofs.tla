------------------------- MODULE SamlExchangeProofs --------------------------
(***************************************************************************)
(* Proofs about SamlExchange for every number of logins, assertions, codes *)
(* and requests, any lifetimes and any order of their ends.                *)
(***************************************************************************)
EXTENDS SamlExchangeProperties, TLAPS

\* A login that was begun belongs to a browser, and so does the nonce for it.
LoginsInOrder ==
    /\ \A t \in Logins : logins[t].status # "unused" => logins[t].browser \in Browsers
    /\ \A b \in Browsers : cookie[b] # None =>
           logins[cookie[b]].status # "unused" /\ logins[cookie[b]].browser = b

MarkersInOrder ==
    \A a \in Assertions : markers[a] # None => answers[a] # None /\ markers[a] = answers[a] + Skew

\* An ACS request began when its assertion was valid, not longer ago than it may take.
AcsInOrder(q) ==
    q.at \in {"checked", "resolved"} =>
        /\ q.answer \in Assertions
        /\ answers[q.answer] # None
        /\ logins[InResponseTo[q.answer]].status # "unused"
        /\ q.since < answers[q.answer]
        /\ now <= q.since + Patience

\* A code has a source, whose marker stands until it is too late to use the source.
CodeInOrder(c) ==
    Made(c) =>
        /\ codes[c].source \in Assertions
        /\ codes[c].login = InResponseTo[codes[c].source]
        /\ logins[codes[c].login].status # "unused"
        /\ answers[codes[c].source] # None
        /\ markers[codes[c].source] # None \/ answers[codes[c].source] + Skew <= now

Holder(c) == logins[codes[c].login].browser

\* What a code has granted.
GrantInOrder(c) ==
    \/ grants[c].count = 0 /\ grants[c].to = {}
    \/ /\ grants[c].count = 1 /\ grants[c].to = {Holder(c)}
       /\ codes[c].status \in {"consumed", "deleted"}

\* A request that presents a code has locked it; one that may create a session for it
\* is the only one, comes from the browser of its login and has not done so.
ExchangeInOrder(q, r) ==
    /\ q.at = "holding" =>
           /\ q.code \in Codes /\ q.browser \in Browsers
           /\ lock[q.code] = r
           /\ codes[q.code].status = q.row /\ q.row \in {"issued", "consumed"}
    /\ q.at = "granting" =>
           /\ q.code \in Codes /\ q.browser \in Browsers /\ q.browser = Holder(q.code)
           /\ codes[q.code].status \in {"consumed", "deleted"}
           /\ grants[q.code].count = 0

OneGranting ==
    \A r, s \in Requests :
        req[r].at = "granting" /\ req[s].at = "granting" /\ req[r].code = req[s].code => r = s

AnswersInOrder ==
    /\ LoginsInOrder
    /\ MarkersInOrder
    /\ \A r \in Requests : AcsInOrder(req[r])

ExchangesInOrder ==
    /\ \A c \in Codes : GrantInOrder(c)
    /\ \A r \in Requests : ExchangeInOrder(req[r], r)
    /\ OneGranting

IInv ==
    /\ TypeOK
    /\ AnswersInOrder
    /\ \A c \in Codes : CodeInOrder(c)
    /\ Patience <= Skew => OneCodePerAssertion
    /\ ExchangesInOrder

------------------------------------------------------------------------------
(* Types.                                                                  *)

LEMMA IdleIsRecord == Idle \in RequestRecords
  BY DEF Idle, RequestRecords

\* A request takes one step, and the others rest.
LEMMA RequestMoves ==
    ASSUME TypeOK, NEW r \in Requests, NEW q \in RequestRecords, req' = [req EXCEPT ![r] = q]
    PROVE  /\ req' \in [Requests -> RequestRecords]
           /\ \A s \in Requests : req'[s] = IF s = r THEN q ELSE req[s]
  BY DEF TypeOK

LEMMA UnlockingIsLock ==
    ASSUME TypeOK, NEW r \in Requests
    PROVE  /\ Unlocking(r) \in [Logins \cup Codes -> Requests \cup {None}]
           /\ \A k \in Logins \cup Codes, s \in Requests \ {r} :
                  lock[k] = s => Unlocking(r)[k] = s
  BY DEF TypeOK, Unlocking

LEMMA RoleIsRole ==
    ASSUME NEW a \in Assertions PROVE GrantedRole(a) \in {"ADMIN", "READ_ONLY"}
  BY DEF GrantedRole

\* Rows that change their status only.
LEMMA CodeIsCode ==
    ASSUME NEW row \in CodeRows, NEW s \in {"unused", "issued", "consumed", "deleted"}
    PROVE  /\ [row EXCEPT !.status = s] \in CodeRows
           /\ [row EXCEPT !.status = s].status = s
           /\ [row EXCEPT !.status = s].login = row.login
           /\ [row EXCEPT !.status = s].source = row.source
  BY DEF CodeRows

LEMMA LoginIsLogin ==
    ASSUME NEW row \in LoginRows, NEW s \in {"unused", "open", "consumed", "deleted"}
    PROVE  /\ [row EXCEPT !.status = s] \in LoginRows
           /\ [row EXCEPT !.status = s].status = s
           /\ [row EXCEPT !.status = s].browser = row.browser
  BY DEF LoginRows

LEMMA TypesKept ==
    ASSUME TypeOK, AnswersInOrder, ExchangesInOrder, [Next]_vars
    PROVE  TypeOK'
<1> USE NoneAssumption, AnswersAssumption, TimesAssumption
<1>0. /\ logins \in [Logins -> LoginRows] /\ answers \in [Assertions -> Nat \cup {None}]
      /\ markers \in [Assertions -> Nat \cup {None}] /\ codes \in [Codes -> CodeRows]
      /\ cookie \in [Browsers -> Logins \cup {None}]
      /\ req \in [Requests -> RequestRecords] /\ now \in Nat
      /\ lock \in [Logins \cup Codes -> Requests \cup {None}]
  BY DEF TypeOK
<1>1. ASSUME NEW b \in Browsers, NEW t \in Logins, BeginLogin(b, t) PROVE TypeOK'
  <2> DEFINE row == [status |-> "open", browser |-> b, expires |-> now + LoginTtl]
  <2>1. row \in LoginRows
    BY <1>0 DEF LoginRows
  <2>2. logins' = [logins EXCEPT ![t] = row] /\ cookie' \in [Browsers -> Logins \cup {None}]
    BY <1>0, <1>1 DEF BeginLogin
  <2> HIDE DEF row
  <2>3. QED
    BY <1>0, <1>1, <2>1, <2>2 DEF BeginLogin, TypeOK
<1>2. ASSUME NEW b \in Browsers, ClearCookie(b) PROVE TypeOK'
  BY <1>2 DEF ClearCookie, TypeOK
<1>3. ASSUME NEW a \in Assertions, Answer(a) PROVE TypeOK'
  BY <1>3 DEF Answer, TypeOK
<1>4. ASSUME NEW r \in Requests, NEW a \in Assertions, Check(r, a) PROVE TypeOK'
  <2> DEFINE q == [Idle EXCEPT !.at = "checked", !.answer = a,
                               !.row = logins[InResponseTo[a]].status, !.since = now]
  <2>1. q \in RequestRecords
    BY <1>0, <1>4 DEF Check, Idle, RequestRecords
  <2>2. req' = [req EXCEPT ![r] = q] /\ UNCHANGED <<rows, lock, now>>
    BY <1>4 DEF Check
  <2> HIDE DEF q
  <2>3. QED
    BY <2>1, <2>2, RequestMoves DEF rows, TypeOK
<1>5. ASSUME NEW r \in Requests, LockLogin(r) PROVE TypeOK'
  <2> DEFINE q == [req[r] EXCEPT !.at = "resolved", !.principal = principals[Subject[req[r].answer]]]
  <2>1. req[r].answer \in Assertions
    BY <1>5 DEF LockLogin, AnswersInOrder, AcsInOrder
  <2>2. /\ req[r] \in RequestRecords
        /\ principals[Subject[req[r].answer]] \in {"unknown", "READ_ONLY", "ADMIN"}
    BY <1>0, <2>1 DEF TypeOK
  <2>3. q \in RequestRecords
    BY <2>2 DEF RequestRecords
  <2>4. req' = [req EXCEPT ![r] = q] /\ UNCHANGED <<rows, now>>
    BY <1>0, <1>5 DEF LockLogin
  <2>5. lock' \in [Logins \cup Codes -> Requests \cup {None}]
    BY <1>0, <1>5 DEF LockLogin, Locking
  <2> HIDE DEF q
  <2>6. QED
    BY <2>3, <2>4, <2>5, RequestMoves DEF rows, TypeOK
<1>6. ASSUME NEW r \in Requests, NEW c \in Codes, CommitCode(r, c) PROVE TypeOK'
  <2> DEFINE a == req[r].answer
             t == InResponseTo[a]
             row == [status |-> "issued", login |-> t, source |-> a,
                     expires |-> req[r].since + CodeTtl]
  <2>1. a \in Assertions /\ answers[a] \in Nat /\ req[r].since \in Nat
    BY <1>0, <1>6 DEF CommitCode, AnswersInOrder, AcsInOrder, RequestRecords
  <2>2. row \in CodeRows
    BY <2>1 DEF CodeRows
  <2>3. codes' \in [Codes -> CodeRows]
    BY <1>0, <1>6, <2>2 DEF CommitCode
  <2>4. [logins[t] EXCEPT !.status = "consumed"] \in LoginRows
    BY <1>0, <2>1, LoginIsLogin
  <2>5. logins' \in [Logins -> LoginRows]
    BY <1>0, <1>6, <2>1, <2>4 DEF CommitCode
  <2>6. markers' \in [Assertions -> Nat \cup {None}]
    BY <1>0, <1>6, <2>1 DEF CommitCode, MarkerExpiry
  <2>7. principals' \in [Users -> {"unknown", "READ_ONLY", "ADMIN"}]
    BY <1>6, <2>1, RoleIsRole DEF CommitCode, TypeOK
  <2>8. lock' = Unlocking(r) /\ req' = [req EXCEPT ![r] = Idle]
        /\ UNCHANGED <<answers, cookie, grants, now>>
    BY <1>6 DEF CommitCode
  <2>9. QED
    BY <2>3, <2>5, <2>6, <2>7, <2>8, IdleIsRecord, UnlockingIsLock DEF TypeOK
<1>7. ASSUME NEW r \in Requests, NEW b \in Browsers, NEW c \in Codes, LockCode(r, b, c)
      PROVE  TypeOK'
  <2> DEFINE q == [Idle EXCEPT !.at = "holding", !.code = c, !.browser = b,
                               !.row = codes[c].status]
  <2>1. q \in RequestRecords
    BY <1>7 DEF LockCode, Idle, RequestRecords
  <2>2. req' = [req EXCEPT ![r] = q] /\ UNCHANGED <<rows, now>>
    BY <1>7 DEF LockCode
  <2>3. lock' \in [Logins \cup Codes -> Requests \cup {None}]
    BY <1>0, <1>7 DEF LockCode, Locking
  <2> HIDE DEF q
  <2>4. QED
    BY <2>1, <2>2, <2>3, RequestMoves DEF rows, TypeOK
<1>8. ASSUME NEW r \in Requests, ConsumeCode(r) PROVE TypeOK'
  <2> DEFINE q == IF Acceptable(r) THEN [req[r] EXCEPT !.at = "granting"] ELSE Idle
  <2>1. q \in RequestRecords
    BY <1>0, IdleIsRecord DEF RequestRecords
  <2>2. req' = [req EXCEPT ![r] = q] /\ lock' = Unlocking(r)
        /\ UNCHANGED <<logins, answers, markers, principals, cookie, grants, now>>
    BY <1>0, <1>8 DEF ConsumeCode
  <2>3. ASSUME NEW c \in Codes PROVE [codes[c] EXCEPT !.status = "consumed"] \in CodeRows
    BY <1>0, CodeIsCode
  <2>4. codes' \in [Codes -> CodeRows]
    BY <1>0, <1>8, <2>3 DEF ConsumeCode
  <2> HIDE DEF q
  <2>5. QED
    BY <2>1, <2>2, <2>4, RequestMoves, UnlockingIsLock DEF TypeOK
<1>9. ASSUME NEW r \in Requests, CreateSession(r) PROVE TypeOK'
  <2> DEFINE c == req[r].code
             grant == [count |-> grants[c].count + 1, to |-> grants[c].to \cup {req[r].browser}]
  <2>1. c \in Codes /\ req[r].browser \in Browsers
    BY <1>9 DEF CreateSession, ExchangesInOrder, ExchangeInOrder
  <2>2. grants \in [Codes -> [count : Nat, to : SUBSET Browsers]]
    BY DEF TypeOK
  <2>3. grant \in [count : Nat, to : SUBSET Browsers]
    <3>1. grants[c] \in [count : Nat, to : SUBSET Browsers]
      BY <2>1, <2>2
    <3>2. QED
      BY <2>1, <3>1
  <2>4. grants' = [grants EXCEPT ![c] = grant]
    BY <1>9 DEF CreateSession
  <2> HIDE DEF grant
  <2>5. grants' \in [Codes -> [count : Nat, to : SUBSET Browsers]]
    BY <2>2, <2>3, <2>4
  <2>6. cookie' \in [Browsers -> Logins \cup {None}]
    BY <1>0, <1>9 DEF CreateSession
  <2>7. QED
    BY <1>0, <1>9, <2>5, <2>6, IdleIsRecord DEF CreateSession, TypeOK
<1>10. ASSUME NEW r \in Requests, Abort(r) PROVE TypeOK'
  BY <1>10, IdleIsRecord, UnlockingIsLock DEF Abort, rows, TypeOK
<1>11. CASE Cleanup
  <2>1. ASSUME NEW c \in Codes PROVE [codes[c] EXCEPT !.status = "deleted"] \in CodeRows
    <3>1. codes[c] \in CodeRows
      BY <1>0
    <3>2. QED
      BY <3>1, CodeIsCode
  <2>2. ASSUME NEW t \in Logins PROVE [logins[t] EXCEPT !.status = "deleted"] \in LoginRows
    BY <1>0, LoginIsLogin
  <2>3. codes' \in [Codes -> CodeRows]
    BY <1>0, <1>11, <2>1 DEF Cleanup
  <2>4. logins' \in [Logins -> LoginRows]
    BY <1>0, <1>11, <2>2 DEF Cleanup
  <2>5. markers' \in [Assertions -> Nat \cup {None}]
    BY <1>0, <1>11 DEF Cleanup
  <2>6. QED
    BY <1>11, <2>3, <2>4, <2>5 DEF Cleanup, TypeOK
<1>12. CASE Tick
  BY <1>12 DEF Tick, rows, TypeOK
<1>13. CASE UNCHANGED vars
  BY <1>13 DEF vars, rows, TypeOK
<1>14. QED
  BY <1>1, <1>2, <1>3, <1>4, <1>5, <1>6, <1>7, <1>8, <1>9, <1>10, <1>11, <1>12, <1>13 DEF Next

------------------------------------------------------------------------------
(* What stays: a login its browser, an answer its end, a code its source.  *)

LoginsStay ==
    \A t \in Logins : logins[t].status # "unused" =>
        logins'[t].status # "unused" /\ logins'[t].browser = logins[t].browser

AnswersStay == \A a \in Assertions : answers[a] # None => answers'[a] = answers[a]

CodesStay ==
    \A c \in Codes : Made(c) =>
        /\ codes'[c].status # "unused"
        /\ codes'[c].login = codes[c].login /\ codes'[c].source = codes[c].source
        /\ codes[c].status \in {"consumed", "deleted"} => codes'[c].status \in {"consumed", "deleted"}

LEMMA SpentCodesStay ==
    ASSUME TypeOK, NEW s \in {"consumed", "deleted"},
           \A c \in Codes : codes'[c] = codes[c] \/ codes'[c] = [codes[c] EXCEPT !.status = s]
    PROVE  CodesStay
<1> SUFFICES ASSUME NEW c \in Codes, Made(c)
             PROVE  /\ codes'[c].status # "unused"
                    /\ codes'[c].login = codes[c].login /\ codes'[c].source = codes[c].source
                    /\ codes[c].status \in {"consumed", "deleted"}
                           => codes'[c].status \in {"consumed", "deleted"}
  BY DEF CodesStay
<1>1. codes[c] \in CodeRows /\ s \in {"unused", "issued", "consumed", "deleted"}
  BY DEF TypeOK
<1>2. CASE codes'[c] = codes[c]
  BY <1>2 DEF Made
<1>3. CASE codes'[c] = [codes[c] EXCEPT !.status = s]
  BY <1>1, <1>3, CodeIsCode
<1>4. QED
  BY <1>2, <1>3

LEMMA RowsStay ==
    ASSUME TypeOK, AnswersInOrder, [Next]_vars
    PROVE  LoginsStay /\ AnswersStay /\ CodesStay
<1>0. /\ logins \in [Logins -> LoginRows] /\ codes \in [Codes -> CodeRows]
      /\ answers \in [Assertions -> Nat \cup {None}]
  BY DEF TypeOK
<1> DEFINE Stay == LoginsStay /\ AnswersStay /\ CodesStay
<1>1. ASSUME UNCHANGED <<logins, answers, codes>> PROVE Stay
  BY <1>1 DEF LoginsStay, AnswersStay, CodesStay, Made
<1>2. ASSUME NEW b \in Browsers, NEW t \in Logins, BeginLogin(b, t) PROVE Stay
  <2>1. /\ \A u \in Logins \ {t} : logins'[u] = logins[u]
        /\ logins[t].status = "unused" /\ UNCHANGED <<answers, codes>>
    BY <1>0, <1>2 DEF BeginLogin
  <2>2. QED
    BY <2>1 DEF LoginsStay, AnswersStay, CodesStay, Made
<1>3. ASSUME NEW a \in Assertions, Answer(a) PROVE Stay
  <2>1. /\ \A u \in Assertions \ {a} : answers'[u] = answers[u]
        /\ answers[a] = None /\ UNCHANGED <<logins, codes>>
    BY <1>0, <1>3 DEF Answer
  <2>2. QED
    BY <2>1 DEF LoginsStay, AnswersStay, CodesStay, Made
<1>4. ASSUME NEW r \in Requests, NEW c \in Codes, CommitCode(r, c) PROVE Stay
  <2> DEFINE t == InResponseTo[req[r].answer]
  <2>1. logins' = [logins EXCEPT ![t] = [logins[t] EXCEPT !.status = "consumed"]]
    BY <1>0, <1>4 DEF CommitCode
  <2>2. \A u \in Logins : logins'[u] \in {logins[u], [logins[u] EXCEPT !.status = "consumed"]}
    BY <1>0, <2>1
  <2>3. LoginsStay
    BY <1>0, <2>2, LoginIsLogin DEF LoginsStay
  <2>4. /\ \A d \in Codes \ {c} : codes'[d] = codes[d]
        /\ codes[c].status = "unused" /\ UNCHANGED answers
    BY <1>0, <1>4 DEF CommitCode
  <2>5. QED
    BY <2>3, <2>4 DEF AnswersStay, CodesStay, Made
<1>5. ASSUME NEW r \in Requests, ConsumeCode(r) PROVE Stay
  <2>1. \A d \in Codes : codes'[d] = codes[d] \/ codes'[d] = [codes[d] EXCEPT !.status = "consumed"]
    BY <1>0, <1>5 DEF ConsumeCode
  <2>2. CodesStay
    BY <2>1, SpentCodesStay
  <2>3. QED
    BY <1>5, <2>2 DEF ConsumeCode, LoginsStay, AnswersStay
<1>6. CASE Cleanup
  <2>1. \A d \in Codes : codes'[d] = codes[d] \/ codes'[d] = [codes[d] EXCEPT !.status = "deleted"]
    BY <1>0, <1>6 DEF Cleanup
  <2>2. \A u \in Logins : logins'[u] \in {logins[u], [logins[u] EXCEPT !.status = "deleted"]}
    BY <1>0, <1>6 DEF Cleanup
  <2>3. CodesStay
    BY <2>1, SpentCodesStay
  <2>4. LoginsStay
    BY <1>0, <2>2, LoginIsLogin DEF LoginsStay
  <2>5. QED
    BY <1>6, <2>3, <2>4 DEF Cleanup, AnswersStay
<1>7. ASSUME NEW r \in Requests, LockLogin(r) \/ Abort(r) \/ CreateSession(r) PROVE Stay
  BY <1>1, <1>7 DEF LockLogin, Abort, CreateSession, rows
<1>8. ASSUME NEW r \in Requests, NEW a \in Assertions, Check(r, a) PROVE Stay
  BY <1>1, <1>8 DEF Check, rows
<1>9. ASSUME NEW r \in Requests, NEW b \in Browsers, NEW c \in Codes, LockCode(r, b, c) PROVE Stay
  BY <1>1, <1>9 DEF LockCode, rows
<1>10. ASSUME NEW b \in Browsers, ClearCookie(b) PROVE Stay
  BY <1>1, <1>10 DEF ClearCookie
<1>11. CASE Tick \/ UNCHANGED vars
  BY <1>1, <1>11 DEF Tick, rows, vars
<1>12. QED
  BY <1>2, <1>3, <1>4, <1>5, <1>6, <1>7, <1>8, <1>9, <1>10, <1>11 DEF Next

------------------------------------------------------------------------------
(* Logins, cookies, markers, and the requests that present an assertion.   *)

LEMMA LoginsKept ==
    ASSUME TypeOK, AnswersInOrder, LoginsStay, [Next]_vars
    PROVE  LoginsInOrder'
<1>0. /\ logins \in [Logins -> LoginRows] /\ cookie \in [Browsers -> Logins \cup {None}]
      /\ LoginsInOrder
  BY DEF TypeOK, AnswersInOrder
<1>1. ASSUME \A t \in Logins : logins'[t].status # "unused" => logins[t].status # "unused",
             \A b \in Browsers : cookie'[b] \in {cookie[b], None}
      PROVE  LoginsInOrder'
  <2>1. ASSUME NEW t \in Logins, logins'[t].status # "unused" PROVE logins'[t].browser \in Browsers
    BY <1>0, <1>1, <2>1 DEF LoginsInOrder, LoginsStay
  <2>2. ASSUME NEW b \in Browsers, cookie'[b] # None
        PROVE  logins'[cookie'[b]].status # "unused" /\ logins'[cookie'[b]].browser = b
    <3>1. cookie'[b] = cookie[b] /\ cookie[b] \in Logins
      BY <1>0, <1>1, <2>2
    <3>2. QED
      BY <1>0, <2>2, <3>1 DEF LoginsInOrder, LoginsStay
  <2>3. QED
    BY <2>1, <2>2 DEF LoginsInOrder
<1>2. ASSUME UNCHANGED logins, \A b \in Browsers : cookie'[b] \in {cookie[b], None}
      PROVE  LoginsInOrder'
  BY <1>1, <1>2
<1>3. ASSUME NEW b \in Browsers, NEW t \in Logins, BeginLogin(b, t) PROVE LoginsInOrder'
  <2>1. /\ logins'[t].status = "open" /\ logins'[t].browser = b
        /\ \A u \in Logins \ {t} : logins'[u] = logins[u]
        /\ \A d \in Browsers : cookie'[d] \in {cookie[d]} \/ (d = b /\ cookie'[d] = t)
    BY <1>0, <1>3 DEF BeginLogin
  <2>2. \A d \in Browsers : cookie[d] # None => cookie[d] # t
    BY <1>0, <1>3 DEF BeginLogin, LoginsInOrder
  <2>3. ASSUME NEW d \in Browsers, cookie'[d] # None
        PROVE  logins'[cookie'[d]].status # "unused" /\ logins'[cookie'[d]].browser = d
    <3>1. CASE cookie'[d] = cookie[d]
      BY <1>0, <2>1, <2>2, <2>3, <3>1 DEF LoginsInOrder
    <3>2. CASE d = b /\ cookie'[d] = t
      BY <2>1, <3>2
    <3>3. QED
      BY <2>1, <3>1, <3>2
  <2>4. \A u \in Logins : logins'[u].status # "unused" => logins'[u].browser \in Browsers
    BY <1>0, <2>1 DEF LoginsInOrder
  <2>5. QED
    BY <2>3, <2>4 DEF LoginsInOrder
<1>4. ASSUME NEW b \in Browsers, ClearCookie(b) PROVE LoginsInOrder'
  BY <1>0, <1>2, <1>4 DEF ClearCookie
<1>5. ASSUME NEW r \in Requests, NEW c \in Codes, CommitCode(r, c) PROVE LoginsInOrder'
  <2>1. logins[InResponseTo[req[r].answer]].status # "unused"
    BY <1>5 DEF CommitCode, AnswersInOrder, AcsInOrder
  <2>2. \A t \in Logins : logins'[t].status # "unused" => logins[t].status # "unused"
    BY <1>0, <1>5, <2>1 DEF CommitCode
  <2>3. QED
    BY <1>1, <1>5, <2>2 DEF CommitCode
<1>6. CASE Cleanup
  <2>1. \A t \in Logins : logins'[t].status # "unused" => logins[t].status # "unused"
    BY <1>6 DEF Cleanup, StaleLogins
  <2>2. QED
    BY <1>1, <1>6, <2>1 DEF Cleanup
<1>7. ASSUME NEW r \in Requests, CreateSession(r) PROVE LoginsInOrder'
  BY <1>0, <1>2, <1>7 DEF CreateSession
<1>8. ASSUME UNCHANGED <<logins, cookie>> PROVE LoginsInOrder'
  BY <1>2, <1>8
<1>9. ASSUME NEW r \in Requests, LockLogin(r) \/ ConsumeCode(r) \/ Abort(r) PROVE LoginsInOrder'
  BY <1>8, <1>9 DEF LockLogin, ConsumeCode, Abort, rows
<1>10. ASSUME NEW r \in Requests, NEW a \in Assertions, Check(r, a) PROVE LoginsInOrder'
  BY <1>8, <1>10 DEF Check, rows
<1>11. ASSUME NEW r \in Requests, NEW b \in Browsers, NEW c \in Codes, LockCode(r, b, c)
       PROVE  LoginsInOrder'
  BY <1>8, <1>11 DEF LockCode, rows
<1>12. ASSUME NEW a \in Assertions, Answer(a) PROVE LoginsInOrder'
  BY <1>8, <1>12 DEF Answer
<1>13. CASE Tick \/ UNCHANGED vars
  BY <1>8, <1>13 DEF Tick, rows, vars
<1>14. QED
  BY <1>3, <1>4, <1>5, <1>6, <1>7, <1>9, <1>10, <1>11, <1>12, <1>13 DEF Next

LEMMA MarkersKept ==
    ASSUME TypeOK, AnswersInOrder, AnswersStay, [Next]_vars
    PROVE  MarkersInOrder'
<1>0. markers \in [Assertions -> Nat \cup {None}] /\ MarkersInOrder
  BY DEF TypeOK, AnswersInOrder
<1>1. ASSUME \A a \in Assertions : markers'[a] \in {markers[a], None} PROVE MarkersInOrder'
  BY <1>0, <1>1 DEF MarkersInOrder, AnswersStay
<1>2. ASSUME UNCHANGED markers PROVE MarkersInOrder'
  BY <1>1, <1>2
<1>3. ASSUME NEW r \in Requests, NEW c \in Codes, CommitCode(r, c) PROVE MarkersInOrder'
  <2> DEFINE a == req[r].answer
  <2>1. a \in Assertions /\ answers[a] # None /\ UNCHANGED answers
    BY <1>3 DEF CommitCode, AnswersInOrder, AcsInOrder
  <2>2. markers' = [markers EXCEPT ![a] = answers[a] + Skew]
    BY <1>3 DEF CommitCode, MarkerExpiry
  <2>3. QED
    BY <1>0, <2>1, <2>2 DEF MarkersInOrder
<1>4. CASE Cleanup
  BY <1>1, <1>4 DEF Cleanup
<1>5. ASSUME NEW r \in Requests, LockLogin(r) \/ ConsumeCode(r) \/ CreateSession(r) \/ Abort(r)
      PROVE  MarkersInOrder'
  BY <1>2, <1>5 DEF LockLogin, ConsumeCode, CreateSession, Abort, rows
<1>6. ASSUME NEW r \in Requests, NEW a \in Assertions, Check(r, a) PROVE MarkersInOrder'
  BY <1>2, <1>6 DEF Check, rows
<1>7. ASSUME NEW r \in Requests, NEW b \in Browsers, NEW c \in Codes, LockCode(r, b, c)
       PROVE  MarkersInOrder'
  BY <1>2, <1>7 DEF LockCode, rows
<1>8. ASSUME NEW b \in Browsers, NEW t \in Logins, BeginLogin(b, t)
      PROVE  MarkersInOrder'
  BY <1>2, <1>8 DEF BeginLogin
<1>9. ASSUME NEW a \in Assertions, Answer(a) PROVE MarkersInOrder'
  BY <1>2, <1>9 DEF Answer
<1>10. CASE Tick \/ UNCHANGED vars
  BY <1>2, <1>10 DEF Tick, rows, vars
<1>11. ASSUME NEW b \in Browsers, ClearCookie(b) PROVE MarkersInOrder'
  BY <1>2, <1>11 DEF ClearCookie
<1>12. QED
  BY <1>3, <1>4, <1>5, <1>6, <1>7, <1>8, <1>9, <1>10, <1>11 DEF Next

LEMMA AcsKept ==
    ASSUME TypeOK, AnswersInOrder, LoginsStay, AnswersStay, [Next]_vars
    PROVE  \A r \in Requests : AcsInOrder(req[r])'
<1> USE NoneAssumption, AnswersAssumption, TimesAssumption
<1>0. /\ answers \in [Assertions -> Nat \cup {None}] /\ now \in Nat
      /\ req \in [Requests -> RequestRecords]
      /\ \A r \in Requests : AcsInOrder(req[r])
  BY DEF TypeOK, AnswersInOrder
<1>1. ASSUME NEW r \in Requests, NEW q, q.at \in {"checked", "resolved"} =>
                 /\ req[r].at \in {"checked", "resolved"}
                 /\ q.answer = req[r].answer /\ q.since = req[r].since,
             UNCHANGED now, req'[r] = q
      PROVE  AcsInOrder(req[r])'
  <2> SUFFICES ASSUME q.at \in {"checked", "resolved"}
               PROVE  /\ q.answer \in Assertions
                      /\ answers'[q.answer] # None
                      /\ logins'[InResponseTo[q.answer]].status # "unused"
                      /\ q.since < answers'[q.answer]
                      /\ now' <= q.since + Patience
    BY <1>1 DEF AcsInOrder
  <2>1. /\ q.answer \in Assertions /\ answers[q.answer] # None
        /\ logins[InResponseTo[q.answer]].status # "unused"
        /\ q.since < answers[q.answer] /\ now <= q.since + Patience
    BY <1>0, <1>1 DEF AcsInOrder
  <2>2. InResponseTo[q.answer] \in Logins
    BY <2>1
  <2>3. QED
    BY <1>1, <2>1, <2>2 DEF LoginsStay, AnswersStay
<1>2. ASSUME UNCHANGED now, NEW r \in Requests, NEW q, q.at \notin {"checked", "resolved"},
             req' = [req EXCEPT ![r] = q]
      PROVE  \A s \in Requests : AcsInOrder(req[s])'
  <2>1. \A s \in Requests : req'[s] = IF s = r THEN q ELSE req[s]
    BY <1>0, <1>2
  <2>2. ASSUME NEW s \in Requests PROVE AcsInOrder(req[s])'
    <3>1. CASE s = r
      BY <1>1, <1>2, <2>1, <3>1
    <3>2. CASE s # r
      BY <1>1, <1>2, <2>1, <3>2
    <3>3. QED
      BY <3>1, <3>2
  <2>3. QED
    BY <2>2
<1>3. ASSUME UNCHANGED <<now, req>> PROVE \A s \in Requests : AcsInOrder(req[s])'
  BY <1>1, <1>3
<1>4. Idle.at = "idle"
  BY DEF Idle
<1>5. ASSUME NEW r \in Requests, NEW a \in Assertions, Check(r, a)
      PROVE  \A s \in Requests : AcsInOrder(req[s])'
  <2> DEFINE q == [Idle EXCEPT !.at = "checked", !.answer = a,
                               !.row = logins[InResponseTo[a]].status, !.since = now]
  <2>1. q.answer = a /\ q.since = now
    BY DEF Idle
  <2>2. /\ logins[InResponseTo[a]].status = "open" /\ answers[a] # None /\ now < answers[a]
        /\ req' = [req EXCEPT ![r] = q] /\ UNCHANGED <<logins, answers, now>>
    BY <1>5 DEF Check, rows
  <2> HIDE DEF q
  <2>3. \A s \in Requests : req'[s] = IF s = r THEN q ELSE req[s]
    BY <1>0, <2>2
  <2>4. now <= now + Patience
    BY <1>0
  <2>5. ASSUME NEW s \in Requests PROVE AcsInOrder(req[s])'
    <3>1. CASE s = r
      BY <2>1, <2>2, <2>3, <2>4, <3>1 DEF AcsInOrder
    <3>2. CASE s # r
      BY <1>1, <2>2, <2>3, <3>2
    <3>3. QED
      BY <3>1, <3>2
  <2>6. QED
    BY <2>5
<1>6. ASSUME NEW r \in Requests, LockLogin(r) PROVE \A s \in Requests : AcsInOrder(req[s])'
  <2> DEFINE q == [req[r] EXCEPT !.at = "resolved", !.principal = principals[Subject[req[r].answer]]]
  <2>1. q.answer = req[r].answer /\ q.since = req[r].since
    BY <1>0 DEF RequestRecords
  <2>2. req[r].at = "checked" /\ req' = [req EXCEPT ![r] = q] /\ UNCHANGED now
    BY <1>0, <1>6 DEF LockLogin
  <2> HIDE DEF q
  <2>3. \A s \in Requests : req'[s] = IF s = r THEN q ELSE req[s]
    BY <1>0, <2>2
  <2>4. ASSUME NEW s \in Requests PROVE AcsInOrder(req[s])'
    <3>1. CASE s = r
      BY <1>1, <2>1, <2>2, <2>3, <3>1
    <3>2. CASE s # r
      BY <1>1, <2>2, <2>3, <3>2
    <3>3. QED
      BY <3>1, <3>2
  <2>5. QED
    BY <2>4
<1>7. ASSUME NEW r \in Requests, NEW c \in Codes, CommitCode(r, c)
      PROVE  \A s \in Requests : AcsInOrder(req[s])'
  BY <1>2, <1>4, <1>7 DEF CommitCode
<1>8. ASSUME NEW r \in Requests, NEW b \in Browsers, NEW c \in Codes, LockCode(r, b, c)
      PROVE  \A s \in Requests : AcsInOrder(req[s])'
  <2> DEFINE q == [Idle EXCEPT !.at = "holding", !.code = c, !.browser = b,
                               !.row = codes[c].status]
  <2>1. q.at = "holding"
    BY DEF Idle
  <2>2. req' = [req EXCEPT ![r] = q] /\ UNCHANGED now
    BY <1>8 DEF LockCode
  <2> HIDE DEF q
  <2>3. QED
    BY <1>2, <2>1, <2>2
<1>9. ASSUME NEW r \in Requests, ConsumeCode(r) PROVE \A s \in Requests : AcsInOrder(req[s])'
  <2> DEFINE q == IF Acceptable(r) THEN [req[r] EXCEPT !.at = "granting"] ELSE Idle
  <2>1. q.at \notin {"checked", "resolved"}
    BY <1>0, <1>4 DEF RequestRecords
  <2>2. req' = [req EXCEPT ![r] = q] /\ UNCHANGED now
    BY <1>0, <1>9 DEF ConsumeCode
  <2> HIDE DEF q
  <2>3. QED
    BY <1>2, <2>1, <2>2
<1>10. ASSUME NEW r \in Requests, CreateSession(r) \/ Abort(r)
       PROVE  \A s \in Requests : AcsInOrder(req[s])'
  BY <1>2, <1>4, <1>10 DEF CreateSession, Abort, rows
<1>11. CASE Cleanup
  BY <1>3, <1>11 DEF Cleanup
<1>12. CASE Tick
  <2>1. /\ \A r \in Requests : req[r].at \in {"checked", "resolved"} => now < req[r].since + Patience
        /\ now' = now + 1 /\ UNCHANGED <<logins, answers, req>>
    BY <1>12 DEF Tick, rows
  <2>2. \A r \in Requests : req[r].since \in Nat
    BY <1>0 DEF RequestRecords
  <2>3. ASSUME NEW r \in Requests PROVE AcsInOrder(req[r])'
    BY <1>0, <2>1, <2>2 DEF AcsInOrder
  <2>4. QED
    BY <2>3
<1>13. ASSUME NEW b \in Browsers, NEW t \in Logins, BeginLogin(b, t)
       PROVE  \A s \in Requests : AcsInOrder(req[s])'
  BY <1>3, <1>13 DEF BeginLogin
<1>14. ASSUME NEW b \in Browsers, ClearCookie(b) PROVE \A s \in Requests : AcsInOrder(req[s])'
  BY <1>3, <1>14 DEF ClearCookie
<1>15. ASSUME NEW a \in Assertions, Answer(a) PROVE \A s \in Requests : AcsInOrder(req[s])'
  BY <1>3, <1>15 DEF Answer
<1>16. CASE UNCHANGED vars
  BY <1>3, <1>16 DEF vars
<1>17. QED
  BY <1>5, <1>6, <1>7, <1>8, <1>9, <1>10, <1>11, <1>12, <1>13, <1>14, <1>15, <1>16 DEF Next

LEMMA AnswersKept ==
    ASSUME TypeOK, AnswersInOrder, [Next]_vars
    PROVE  AnswersInOrder'
<1>1. LoginsStay /\ AnswersStay
  BY RowsStay
<1>2. LoginsInOrder'
  BY <1>1, LoginsKept
<1>3. MarkersInOrder'
  BY <1>1, MarkersKept
<1>4. \A r \in Requests : AcsInOrder(req[r])'
  BY <1>1, AcsKept
<1>5. QED
  BY <1>2, <1>3, <1>4 DEF AnswersInOrder

------------------------------------------------------------------------------
(* Codes and their sources.                                                *)

\* A marker stands until the time for which it was to stand has passed.
LEMMA MarkersStay ==
    ASSUME TypeOK, AnswersInOrder, [Next]_vars, NEW a \in Assertions, markers[a] # None
    PROVE  markers'[a] # None \/ answers[a] + Skew <= now
<1> USE NoneAssumption, TimesAssumption
<1>0. /\ markers \in [Assertions -> Nat \cup {None}] /\ markers[a] = answers[a] + Skew
      /\ answers \in [Assertions -> Nat \cup {None}]
  BY DEF TypeOK, AnswersInOrder, MarkersInOrder
<1>1. CASE Cleanup
  BY <1>0, <1>1 DEF Cleanup, StaleMarkers
<1>2. ASSUME NEW r \in Requests, NEW c \in Codes, CommitCode(r, c) PROVE markers'[a] # None
  <2>1. req[r].answer \in Assertions /\ answers[req[r].answer] # None
    BY <1>2 DEF CommitCode, AnswersInOrder, AcsInOrder
  <2>2. answers[req[r].answer] \in Nat
    BY <1>0, <2>1
  <2>3. markers' = [markers EXCEPT ![req[r].answer] = answers[req[r].answer] + Skew]
    BY <1>2 DEF CommitCode, MarkerExpiry
  <2>4. answers[req[r].answer] + Skew \in Nat
    BY <2>2
  <2>5. QED
    BY <1>0, <2>3, <2>4
<1>3. CASE UNCHANGED markers
  BY <1>3
<1>4. QED
  BY <1>1, <1>2, <1>3
     DEF Next, BeginLogin, ClearCookie, Answer, Check, LockLogin, LockCode, ConsumeCode,
         CreateSession, Abort, Tick, rows, vars

LEMMA TimePasses ==
    ASSUME TypeOK, [Next]_vars
    PROVE  now \in Nat /\ now' \in Nat /\ now <= now'
<1>0. now \in Nat
  BY DEF TypeOK
<1>1. CASE Tick
  BY <1>0, <1>1 DEF Tick
<1>2. CASE UNCHANGED now
  BY <1>0, <1>2
<1>3. QED
  BY <1>1, <1>2
     DEF Next, BeginLogin, ClearCookie, Answer, Check, LockLogin, CommitCode, LockCode,
         ConsumeCode, CreateSession, Abort, Cleanup, rows, vars

\* Codes are made one at a time, and by CommitCode.
LEMMA CodesAppear ==
    ASSUME TypeOK, ExchangesInOrder, [Next]_vars
    PROVE  \/ \A c \in Codes : Made(c)' => Made(c)
           \/ \E r \in Requests, c \in Codes : CommitCode(r, c)
<1>0. codes \in [Codes -> CodeRows]
  BY DEF TypeOK
<1>1. ASSUME NEW r \in Requests, ConsumeCode(r) PROVE \A c \in Codes : Made(c)' => Made(c)
  <2>1. codes[req[r].code].status = "issued"
    BY <1>1 DEF ConsumeCode, ExchangesInOrder, ExchangeInOrder
  <2>2. \A d \in Codes : d # req[r].code => codes'[d] = codes[d]
    BY <1>0, <1>1 DEF ConsumeCode
  <2>3. QED
    BY <2>1, <2>2 DEF Made
<1>2. CASE Cleanup
  BY <1>2 DEF Cleanup, StaleCodes, Made
<1>3. CASE UNCHANGED codes
  BY <1>3 DEF Made
<1>4. QED
  BY <1>1, <1>2, <1>3
     DEF Next, BeginLogin, ClearCookie, Answer, Check, LockLogin, LockCode,
         CreateSession, Abort, Tick, rows, vars

LEMMA NewCode ==
    ASSUME TypeOK, AnswersInOrder, NEW r \in Requests, NEW c \in Codes, CommitCode(r, c)
    PROVE  LET a == req[r].answer
           IN /\ a \in Assertions /\ answers[a] \in Nat /\ answers[a] # None
              /\ InResponseTo[a] \in Logins /\ logins[InResponseTo[a]].status # "unused"
              /\ markers[a] = None /\ markers'[a] # None
              /\ ~Made(c) /\ \A d \in Codes \ {c} : codes'[d] = codes[d]
              /\ codes'[c].status = "issued" /\ codes'[c].login = InResponseTo[a]
              /\ codes'[c].source = a
              /\ UNCHANGED <<answers, grants, now>>
<1> DEFINE a == req[r].answer
<1>1. /\ a \in Assertions /\ answers[a] # None /\ logins[InResponseTo[a]].status # "unused"
      /\ answers[a] \in Nat \cup {None} /\ codes \in [Codes -> CodeRows]
      /\ markers \in [Assertions -> Nat \cup {None}]
  BY DEF CommitCode, AnswersInOrder, AcsInOrder, TypeOK
<1>2. /\ markers[a] = None /\ markers' = [markers EXCEPT ![a] = answers[a] + Skew]
      /\ codes[c].status = "unused"
      /\ codes' = [codes EXCEPT ![c] = [status |-> "issued", login |-> InResponseTo[a],
                                        source |-> a, expires |-> req[r].since + CodeTtl]]
      /\ UNCHANGED <<answers, grants, now>>
  BY DEF CommitCode, MarkerIsNew, MarkerExpiry
<1>3. answers[a] \in Nat /\ answers[a] + Skew \in Nat
  BY <1>1, TimesAssumption
<1>4. markers'[a] = answers[a] + Skew /\ markers'[a] # None
  BY <1>1, <1>2, <1>3, NoneAssumption
<1>5. InResponseTo[a] \in Logins
  BY <1>1, AnswersAssumption
<1>6. codes'[c] = [status |-> "issued", login |-> InResponseTo[a],
                   source |-> a, expires |-> req[r].since + CodeTtl]
  BY <1>1, <1>2
<1>7. \A d \in Codes \ {c} : codes'[d] = codes[d]
  BY <1>1, <1>2
<1>8. QED
  BY <1>1, <1>2, <1>3, <1>4, <1>5, <1>6, <1>7 DEF Made

LEMMA SourcesKept ==
    ASSUME TypeOK, AnswersInOrder, ExchangesInOrder, \A c \in Codes : CodeInOrder(c), [Next]_vars
    PROVE  \A c \in Codes : CodeInOrder(c)'
<1> USE TimesAssumption
<1>0. LoginsStay /\ AnswersStay /\ CodesStay /\ now \in Nat /\ now' \in Nat /\ now <= now'
      /\ answers \in [Assertions -> Nat \cup {None}]
  BY RowsStay, TimePasses DEF TypeOK
<1>1. ASSUME NEW c \in Codes, Made(c) PROVE CodeInOrder(c)'
  <2> DEFINE a == codes[c].source
  <2>1. /\ a \in Assertions /\ codes[c].login = InResponseTo[a]
        /\ logins[InResponseTo[a]].status # "unused" /\ answers[a] # None /\ answers[a] \in Nat
        /\ markers[a] # None \/ answers[a] + Skew <= now
    BY <1>0, <1>1 DEF CodeInOrder
  <2>2. codes'[c].source = a /\ codes'[c].login = codes[c].login
    BY <1>0, <1>1 DEF CodesStay
  <2>3. InResponseTo[a] \in Logins
    BY <2>1, AnswersAssumption
  <2>4. markers'[a] # None \/ answers[a] + Skew <= now
    BY <2>1, MarkersStay
  <2>5. markers'[a] # None \/ answers[a] + Skew <= now'
    BY <1>0, <2>1, <2>4
  <2>6. answers'[a] = answers[a] /\ logins'[InResponseTo[a]].status # "unused"
    BY <1>0, <2>1, <2>3 DEF LoginsStay, AnswersStay
  <2>7. QED
    BY <2>1, <2>2, <2>5, <2>6 DEF CodeInOrder
<1>2. ASSUME NEW r \in Requests, NEW d \in Codes, CommitCode(r, d), NEW c \in Codes
      PROVE  CodeInOrder(c)'
  <2>1. CASE Made(c)
    BY <1>1, <2>1
  <2>2. CASE ~Made(c) /\ c # d
    BY <1>2, <2>2, NewCode DEF CodeInOrder, Made
  <2>3. CASE c = d
    <3> DEFINE a == req[r].answer
    <3>1. /\ a \in Assertions /\ answers[a] # None
          /\ InResponseTo[a] \in Logins /\ logins[InResponseTo[a]].status # "unused"
          /\ markers'[a] # None /\ codes'[c].login = InResponseTo[a] /\ codes'[c].source = a
          /\ UNCHANGED answers
      BY <1>2, <2>3, NewCode
    <3>2. QED
      BY <1>0, <3>1 DEF CodeInOrder, LoginsStay
  <2>4. QED
    BY <2>1, <2>2, <2>3
<1>3. CASE \A c \in Codes : Made(c)' => Made(c)
  BY <1>1, <1>3 DEF CodeInOrder
<1>4. QED
  BY <1>2, <1>3, CodesAppear

\* A request that still holds the source of an older code is within Patience of a time
\* when it was valid, and so the marker is still there.
LEMMA UniqueKept ==
    ASSUME TypeOK, AnswersInOrder, ExchangesInOrder, \A c \in Codes : CodeInOrder(c),
           OneCodePerAssertion, Patience <= Skew, [Next]_vars
    PROVE  OneCodePerAssertion'
<1>0. CodesStay
  BY RowsStay
<1>1. CASE \A c \in Codes : Made(c)' => Made(c)
  BY <1>0, <1>1 DEF OneCodePerAssertion, CodesStay
<1>2. ASSUME NEW r \in Requests, NEW c \in Codes, CommitCode(r, c) PROVE OneCodePerAssertion'
  <2> DEFINE a == req[r].answer
  <2>1. /\ a \in Assertions /\ answers[a] \in Nat /\ markers[a] = None /\ codes'[c].source = a
        /\ \A d \in Codes \ {c} : codes'[d] = codes[d]
    BY <1>2, NewCode
  <2>2. req[r].since < answers[a] /\ now <= req[r].since + Patience
    BY <1>2 DEF CommitCode, AnswersInOrder, AcsInOrder
  <2>3. now \in Nat /\ req[r].since \in Nat
    BY DEF TypeOK, RequestRecords
  <2>4. ~(answers[a] + Skew <= now)
    BY <2>1, <2>2, <2>3, TimesAssumption
  <2>5. \A d \in Codes : Made(d) => codes[d].source # a
    BY <2>1, <2>4 DEF CodeInOrder
  <2>6. QED
    BY <2>1, <2>5 DEF OneCodePerAssertion, Made
<1>3. QED
  BY <1>1, <1>2, CodesAppear

------------------------------------------------------------------------------
(* Requests that present a code.                                           *)

LEMMA HolderStays ==
    ASSUME TypeOK, AnswersInOrder, LoginsStay, CodesStay, NEW c \in Codes, CodeInOrder(c), Made(c)
    PROVE  Holder(c) \in Browsers /\ Holder(c)' = Holder(c) /\ Made(c)'
<1>1. /\ codes[c].login \in Logins /\ logins[codes[c].login].status # "unused"
      /\ codes'[c].login = codes[c].login
  BY AnswersAssumption DEF CodeInOrder, CodesStay
<1>2. QED
  BY <1>1 DEF Holder, LoginsStay, CodesStay, AnswersInOrder, LoginsInOrder, Made

\* What a request finds as it goes on, and a code when nothing is done to it.
LEMMA ExchangeRests ==
    ASSUME TypeOK, AnswersInOrder, LoginsStay, CodesStay, \A c \in Codes : CodeInOrder(c),
           NEW r \in Requests, ExchangeInOrder(req[r], r), req'[r] = req[r],
           req[r].at = "holding" => lock'[req[r].code] = r
                                    /\ codes'[req[r].code].status = codes[req[r].code].status,
           req[r].at = "granting" => grants'[req[r].code] = grants[req[r].code]
    PROVE  ExchangeInOrder(req[r], r)'
<1>1. CASE req[r].at = "granting"
  <2>1. /\ req[r].code \in Codes /\ Made(req[r].code)
        /\ codes'[req[r].code].status \in {"consumed", "deleted"}
    BY <1>1 DEF ExchangeInOrder, CodesStay, Made
  <2>2. Holder(req[r].code)' = Holder(req[r].code)
    BY <2>1, HolderStays
  <2>3. QED
    BY <1>1, <2>1, <2>2 DEF ExchangeInOrder, Holder
<1>2. CASE req[r].at # "granting"
  BY <1>2 DEF ExchangeInOrder
<1>3. QED
  BY <1>1, <1>2

LEMMA GrantRests ==
    ASSUME TypeOK, AnswersInOrder, LoginsStay, CodesStay, NEW c \in Codes, CodeInOrder(c),
           GrantInOrder(c), grants'[c] = grants[c]
    PROVE  GrantInOrder(c)'
<1>1. CASE grants[c].count = 0 /\ grants[c].to = {}
  BY <1>1 DEF GrantInOrder
<1>2. CASE grants[c].to = {Holder(c)} /\ codes[c].status \in {"consumed", "deleted"}
  <2>1. Made(c) /\ codes'[c].status \in {"consumed", "deleted"}
    BY <1>2 DEF Made, CodesStay
  <2>2. Holder(c)' = Holder(c)
    BY <2>1, HolderStays
  <2>3. QED
    BY <1>2, <2>1, <2>2 DEF GrantInOrder
<1>3. QED
  BY <1>1, <1>2 DEF GrantInOrder

\* One request moves on, and presents no code after that.
LEMMA LeavingKeepsExchanges ==
    ASSUME TypeOK, AnswersInOrder, ExchangesInOrder, LoginsStay, CodesStay,
           \A c \in Codes : CodeInOrder(c),
           NEW r \in Requests, NEW q, q.at \notin {"holding", "granting"},
           req' = [req EXCEPT ![r] = q], UNCHANGED grants,
           \A s \in Requests \ {r} : req[s].at = "holding" =>
               /\ lock'[req[s].code] = s
               /\ codes'[req[s].code].status = codes[req[s].code].status
    PROVE  ExchangesInOrder'
<1>1. \A s \in Requests : req'[s] = IF s = r THEN q ELSE req[s]
  BY DEF TypeOK
<1>2. ASSUME NEW s \in Requests PROVE ExchangeInOrder(req[s], s)'
  <2>1. CASE s = r
    BY <1>1, <2>1 DEF ExchangeInOrder
  <2>2. CASE s # r
    <3>1. ExchangeInOrder(req[s], s) /\ req'[s] = req[s]
      BY <1>1, <2>2 DEF ExchangesInOrder
    <3>2. QED
      BY <2>2, <3>1, ExchangeRests
  <2>3. QED
    BY <2>1, <2>2
<1>3. ASSUME NEW c \in Codes PROVE GrantInOrder(c)'
  BY GrantRests DEF ExchangesInOrder
<1>4. OneGranting'
  BY <1>1 DEF ExchangesInOrder, OneGranting
<1>5. QED
  BY <1>2, <1>3, <1>4 DEF ExchangesInOrder

\* Nobody presents a code.
LEMMA RestKeepsExchanges ==
    ASSUME TypeOK, AnswersInOrder, ExchangesInOrder, LoginsStay, CodesStay,
           \A c \in Codes : CodeInOrder(c), UNCHANGED <<grants, req, lock>>,
           \A s \in Requests : req[s].at = "holding" =>
               codes'[req[s].code].status = codes[req[s].code].status
    PROVE  ExchangesInOrder'
<1>1. ASSUME NEW s \in Requests PROVE ExchangeInOrder(req[s], s)'
  <2>1. ExchangeInOrder(req[s], s) /\ (req[s].at = "holding" => lock[req[s].code] = s)
    BY DEF ExchangesInOrder, ExchangeInOrder
  <2>2. QED
    BY <2>1, ExchangeRests
<1>2. ASSUME NEW c \in Codes PROVE GrantInOrder(c)'
  BY GrantRests DEF ExchangesInOrder
<1>3. OneGranting'
  BY DEF ExchangesInOrder, OneGranting
<1>4. QED
  BY <1>1, <1>2, <1>3 DEF ExchangesInOrder

LEMMA PresentedCode ==
    ASSUME ExchangesInOrder, NEW r \in Requests, req[r].at = "holding"
    PROVE  /\ req[r].code \in Codes /\ req[r].browser \in Browsers /\ lock[req[r].code] = r
           /\ codes[req[r].code].status = req[r].row /\ req[r].row \in {"issued", "consumed"}
  BY DEF ExchangesInOrder, ExchangeInOrder

LEMMA GrantedCode ==
    ASSUME ExchangesInOrder, NEW r \in Requests, req[r].at = "granting"
    PROVE  /\ req[r].code \in Codes /\ req[r].browser \in Browsers
           /\ req[r].browser = Holder(req[r].code)
           /\ codes[req[r].code].status \in {"consumed", "deleted"}
           /\ grants[req[r].code].count = 0
  BY DEF ExchangesInOrder, ExchangeInOrder

\* A code that is accepted comes from the browser whose nonce it carries.
LEMMA AcceptedFromHolder ==
    ASSUME TypeOK, AnswersInOrder, NEW r \in Requests, req[r].code \in Codes,
           req[r].browser \in Browsers, CodeInOrder(req[r].code), Made(req[r].code), Acceptable(r)
    PROVE  req[r].browser = Holder(req[r].code)
<1> DEFINE c == req[r].code
           b == req[r].browser
<1>1. codes[c].login \in Logins /\ codes[c].login # None
  BY AnswersAssumption, NoneAssumption DEF CodeInOrder
<1>2. Nonce(b) = codes[c].login
  BY DEF Acceptable, SameBrowser
<1>3. cookie[b] # None /\ cookie[b] = codes[c].login
  BY <1>1, <1>2 DEF Nonce
<1>4. QED
  BY <1>3 DEF AnswersInOrder, LoginsInOrder, Holder

LEMMA ExchangesKept ==
    ASSUME TypeOK, AnswersInOrder, ExchangesInOrder, \A c \in Codes : CodeInOrder(c),
           [Next]_vars
    PROVE  ExchangesInOrder'
<1> USE NoneAssumption
<1>0. /\ LoginsStay /\ CodesStay
      /\ req \in [Requests -> RequestRecords] /\ codes \in [Codes -> CodeRows]
      /\ grants \in [Codes -> [count : Nat, to : SUBSET Browsers]]
      /\ lock \in [Logins \cup Codes -> Requests \cup {None}]
  BY RowsStay DEF TypeOK
<1>1. Idle.at = "idle"
  BY DEF Idle
<1>2. ASSUME UNCHANGED <<codes, grants, req, lock>> PROVE ExchangesInOrder'
  BY <1>0, <1>2, RestKeepsExchanges
<1>3. ASSUME NEW r \in Requests, NEW a \in Assertions, Check(r, a) PROVE ExchangesInOrder'
  <2> DEFINE q == [Idle EXCEPT !.at = "checked", !.answer = a,
                               !.row = logins[InResponseTo[a]].status, !.since = now]
  <2>1. q.at = "checked"
    BY DEF Idle
  <2>2. req' = [req EXCEPT ![r] = q] /\ UNCHANGED <<codes, grants, lock>>
    BY <1>3 DEF Check, rows
  <2> HIDE DEF q
  <2>3. \A s \in Requests \ {r} : req[s].at = "holding" =>
            lock'[req[s].code] = s /\ codes'[req[s].code].status = codes[req[s].code].status
    BY <2>2, PresentedCode
  <2>4. QED
    BY <1>0, <2>1, <2>2, <2>3, LeavingKeepsExchanges
<1>4. ASSUME NEW r \in Requests, LockLogin(r) PROVE ExchangesInOrder'
  <2> DEFINE t == InResponseTo[req[r].answer]
             q == [req[r] EXCEPT !.at = "resolved", !.principal = principals[Subject[req[r].answer]]]
  <2>1. q.at = "resolved"
    BY <1>0 DEF RequestRecords
  <2>2. /\ req' = [req EXCEPT ![r] = q] /\ UNCHANGED <<codes, grants>>
        /\ lock[t] = None /\ lock' = [lock EXCEPT ![t] = r]
    BY <1>0, <1>4 DEF LockLogin, Locking, rows
  <2> HIDE DEF q, t
  <2>3. \A s \in Requests \ {r} : req[s].at = "holding" =>
            lock'[req[s].code] = s /\ codes'[req[s].code].status = codes[req[s].code].status
    BY <1>0, <2>2, PresentedCode
  <2>4. QED
    BY <1>0, <2>1, <2>2, <2>3, LeavingKeepsExchanges
<1>5. ASSUME NEW r \in Requests, Abort(r) PROVE ExchangesInOrder'
  <2>1. req' = [req EXCEPT ![r] = Idle] /\ lock' = Unlocking(r) /\ UNCHANGED <<codes, grants>>
    BY <1>5 DEF Abort, rows
  <2>2. \A s \in Requests \ {r} : req[s].at = "holding" =>
            lock'[req[s].code] = s /\ codes'[req[s].code].status = codes[req[s].code].status
    BY <2>1, PresentedCode, UnlockingIsLock
  <2>3. QED
    BY <1>0, <1>1, <2>1, <2>2, LeavingKeepsExchanges
<1>6. ASSUME NEW r \in Requests, NEW c \in Codes, CommitCode(r, c) PROVE ExchangesInOrder'
  <2>1. req' = [req EXCEPT ![r] = Idle] /\ lock' = Unlocking(r) /\ UNCHANGED grants
    BY <1>6 DEF CommitCode
  <2>2. ~Made(c) /\ \A d \in Codes \ {c} : codes'[d] = codes[d]
    BY <1>6, NewCode
  <2>3. \A s \in Requests \ {r} : req[s].at = "holding" =>
            lock'[req[s].code] = s /\ codes'[req[s].code].status = codes[req[s].code].status
    BY <2>1, <2>2, PresentedCode, UnlockingIsLock DEF Made
  <2>4. QED
    BY <1>0, <1>1, <2>1, <2>3, LeavingKeepsExchanges
<1>7. ASSUME NEW r \in Requests, NEW b \in Browsers, NEW c \in Codes, LockCode(r, b, c)
      PROVE  ExchangesInOrder'
  <2> DEFINE q == [Idle EXCEPT !.at = "holding", !.code = c, !.browser = b,
                               !.row = codes[c].status]
  <2>1. q.at = "holding" /\ q.code = c /\ q.browser = b /\ q.row = codes[c].status
    BY DEF Idle
  <2>2. /\ req' = [req EXCEPT ![r] = q] /\ UNCHANGED <<codes, grants>>
        /\ lock[c] = None /\ lock' = [lock EXCEPT ![c] = r]
        /\ codes[c].status \in {"issued", "consumed"}
    BY <1>7 DEF LockCode, Locking, rows
  <2> HIDE DEF q
  <2>3. \A s \in Requests : req'[s] = IF s = r THEN q ELSE req[s]
    BY <1>0, <2>2
  <2>4. ASSUME NEW s \in Requests PROVE ExchangeInOrder(req[s], s)'
    <3>1. CASE s = r
      BY <1>0, <2>1, <2>2, <2>3, <3>1 DEF ExchangeInOrder
    <3>2. CASE s # r
      <4>1. ExchangeInOrder(req[s], s) /\ req'[s] = req[s]
        BY <2>3, <3>2 DEF ExchangesInOrder
      <4>2. req[s].at = "holding" => lock'[req[s].code] = s
        BY <1>0, <2>2, PresentedCode
      <4>3. QED
        BY <1>0, <2>2, <4>1, <4>2, ExchangeRests
    <3>3. QED
      BY <3>1, <3>2
  <2>5. ASSUME NEW d \in Codes PROVE GrantInOrder(d)'
    BY <1>0, <2>2, GrantRests DEF ExchangesInOrder
  <2>6. OneGranting'
    BY <2>1, <2>3 DEF ExchangesInOrder, OneGranting
  <2>7. QED
    BY <2>4, <2>5, <2>6 DEF ExchangesInOrder
<1>8. ASSUME NEW r \in Requests, ConsumeCode(r) PROVE ExchangesInOrder'
  <2>0. PICK c \in Codes : c = req[r].code
    BY <1>8, PresentedCode DEF ConsumeCode
  <2> DEFINE q == IF Acceptable(r) THEN [req[r] EXCEPT !.at = "granting"] ELSE Idle
  <2>1. /\ c \in Codes /\ req[r].browser \in Browsers /\ lock[c] = r
        /\ codes[c].status = "issued" /\ Made(c)
    BY <1>8, <2>0, PresentedCode DEF ConsumeCode, Made
  <2>2. /\ req' = [req EXCEPT ![r] = q] /\ lock' = Unlocking(r) /\ UNCHANGED grants
        /\ codes' = [codes EXCEPT ![c] = [codes[c] EXCEPT !.status = "consumed"]]
    BY <1>0, <1>8, <2>0 DEF ConsumeCode
  <2>3. q.at = "granting" => q.code = c /\ q.browser = req[r].browser /\ q.browser = Holder(c)
    BY <1>0, <1>1, <2>0, <2>1, AcceptedFromHolder DEF RequestRecords
  <2>4. q.at # "holding"
    BY <1>0, <1>1 DEF RequestRecords
  <2> HIDE DEF q
  <2>5. codes'[c].status = "consumed" /\ \A d \in Codes \ {c} : codes'[d] = codes[d]
    BY <1>0, <2>1, <2>2, CodeIsCode
  <2>6. \A s \in Requests : req'[s] = IF s = r THEN q ELSE req[s]
    BY <1>0, <2>2
  <2>7. Holder(c)' = Holder(c)
    BY <1>0, <2>1, HolderStays
  <2>8. grants[c].count = 0
    BY <2>1 DEF ExchangesInOrder, GrantInOrder
  <2>9. \A s \in Requests \ {r} : ~(req[s].at \in {"holding", "granting"} /\ req[s].code = c)
    BY <2>1, PresentedCode, GrantedCode
  <2>10. ASSUME NEW s \in Requests PROVE ExchangeInOrder(req[s], s)'
    <3>1. CASE s = r
      BY <2>1, <2>2, <2>3, <2>4, <2>5, <2>6, <2>7, <2>8, <3>1 DEF ExchangeInOrder, Holder
    <3>2. CASE s # r
      <4>1. ExchangeInOrder(req[s], s) /\ req'[s] = req[s]
        BY <2>6, <3>2 DEF ExchangesInOrder
      <4>2. req[s].at = "holding" =>
                lock'[req[s].code] = s /\ codes'[req[s].code].status = codes[req[s].code].status
        BY <2>2, <2>5, <2>9, <3>2, PresentedCode, UnlockingIsLock
      <4>3. QED
        BY <1>0, <2>2, <4>1, <4>2, ExchangeRests
    <3>3. QED
      BY <3>1, <3>2
  <2>11. ASSUME NEW d \in Codes PROVE GrantInOrder(d)'
    BY <1>0, <2>2, GrantRests DEF ExchangesInOrder
  <2>12. OneGranting'
    BY <2>3, <2>6, <2>9 DEF ExchangesInOrder, OneGranting
  <2>13. QED
    BY <2>10, <2>11, <2>12 DEF ExchangesInOrder
<1>9. ASSUME NEW r \in Requests, CreateSession(r) PROVE ExchangesInOrder'
  <2>0. PICK c \in Codes : c = req[r].code
    BY <1>9, GrantedCode DEF CreateSession
  <2> DEFINE grant == [count |-> grants[c].count + 1, to |-> grants[c].to \cup {req[r].browser}]
  <2>1. /\ req[r].at = "granting" /\ grants' = [grants EXCEPT ![c] = grant]
        /\ req' = [req EXCEPT ![r] = Idle] /\ UNCHANGED <<logins, codes, lock>>
    BY <1>9, <2>0 DEF CreateSession
  <2>2. /\ c \in Codes /\ req[r].browser = Holder(c) /\ grants[c].count = 0
        /\ codes[c].status \in {"consumed", "deleted"} /\ Made(c)
    BY <2>0, <2>1, GrantedCode DEF Made
  <2>3. grants[c].to = {}
    BY <2>2 DEF ExchangesInOrder, GrantInOrder
  <2>4. grant.count = 1 /\ grant.to = {Holder(c)}
    BY <2>2, <2>3
  <2> HIDE DEF grant
  <2>5. \A d \in Codes : grants'[d] = IF d = c THEN grant ELSE grants[d]
    BY <1>0, <2>1, <2>2
  <2>6. \A s \in Requests : req'[s] = IF s = r THEN Idle ELSE req[s]
    BY <1>0, <2>1
  <2>7. \A s \in Requests \ {r} : ~(req[s].at = "granting" /\ req[s].code = c)
    BY <2>0, <2>1 DEF ExchangesInOrder, OneGranting
  <2>8. ASSUME NEW s \in Requests PROVE ExchangeInOrder(req[s], s)'
    <3>1. CASE s = r
      BY <1>1, <2>6, <3>1 DEF ExchangeInOrder
    <3>2. CASE s # r
      <4>1. ExchangeInOrder(req[s], s) /\ req'[s] = req[s]
        BY <2>6, <3>2 DEF ExchangesInOrder
      <4>2. req[s].at = "holding" => lock'[req[s].code] = s
        BY <2>1, PresentedCode
      <4>3. req[s].at = "granting" => grants'[req[s].code] = grants[req[s].code]
        BY <2>5, <2>7, <3>2, GrantedCode
      <4>4. QED
        BY <1>0, <2>1, <4>1, <4>2, <4>3, ExchangeRests
    <3>3. QED
      BY <3>1, <3>2
  <2>9. Holder(c)' = Holder(c)
    BY <1>0, <2>2, HolderStays
  <2>10. ASSUME NEW d \in Codes PROVE GrantInOrder(d)'
    <3>1. CASE d = c
      BY <2>1, <2>2, <2>4, <2>5, <2>9, <3>1 DEF GrantInOrder, Holder
    <3>2. CASE d # c
      BY <1>0, <2>5, <3>2, GrantRests DEF ExchangesInOrder
    <3>3. QED
      BY <3>1, <3>2
  <2>11. OneGranting'
    BY <1>1, <2>6 DEF ExchangesInOrder, OneGranting
  <2>12. QED
    BY <2>8, <2>10, <2>11 DEF ExchangesInOrder
<1>10. CASE Cleanup
  <2>1. \A c \in Codes : lock[c] # None => codes'[c] = codes[c]
    BY <1>10 DEF Cleanup, StaleCodes
  <2>2. \A s \in Requests : req[s].at = "holding" =>
            codes'[req[s].code].status = codes[req[s].code].status
    BY <2>1, PresentedCode
  <2>3. QED
    BY <1>0, <1>10, <2>2, RestKeepsExchanges DEF Cleanup
<1>11. CASE Tick \/ UNCHANGED vars
  BY <1>2, <1>11 DEF Tick, rows, vars
<1>12. ASSUME NEW b \in Browsers, NEW t \in Logins, BeginLogin(b, t) PROVE ExchangesInOrder'
  BY <1>2, <1>12 DEF BeginLogin
<1>13. ASSUME NEW b \in Browsers, ClearCookie(b) PROVE ExchangesInOrder'
  BY <1>2, <1>13 DEF ClearCookie
<1>14. ASSUME NEW a \in Assertions, Answer(a) PROVE ExchangesInOrder'
  BY <1>2, <1>14 DEF Answer
<1>15. QED
  BY <1>3, <1>4, <1>5, <1>6, <1>7, <1>8, <1>9, <1>10, <1>11, <1>12, <1>13, <1>14 DEF Next

------------------------------------------------------------------------------
(* The theorems.                                                           *)

LEMMA InitIsInOrder == Init => IInv
<1> SUFFICES ASSUME Init PROVE IInv
  OBVIOUS
<1> USE NoneAssumption, TimesAssumption
<1>1. Idle.at = "idle"
  BY DEF Idle
<1>2. [status |-> "unused", browser |-> None, expires |-> 0] \in LoginRows
  BY DEF LoginRows
<1>3. [status |-> "unused", login |-> None, source |-> None, expires |-> 0] \in CodeRows
  BY DEF CodeRows
<1>4. TypeOK
  BY <1>2, <1>3, IdleIsRecord DEF Init, TypeOK
<1>5. AnswersInOrder
  BY <1>1 DEF Init, AnswersInOrder, LoginsInOrder, MarkersInOrder, AcsInOrder
<1>6. \A c \in Codes : ~Made(c) /\ grants[c].count = 0 /\ grants[c].to = {}
  BY DEF Init, Made
<1>7. ExchangesInOrder
  BY <1>1, <1>6 DEF Init, ExchangesInOrder, GrantInOrder, ExchangeInOrder, OneGranting
<1>8. QED
  BY <1>4, <1>5, <1>6, <1>7 DEF IInv, CodeInOrder, OneCodePerAssertion

LEMMA InvariantKept == IInv /\ [Next]_vars => IInv'
<1> SUFFICES ASSUME IInv, [Next]_vars PROVE IInv'
  OBVIOUS
<1>0. /\ TypeOK /\ AnswersInOrder /\ ExchangesInOrder
      /\ \A c \in Codes : CodeInOrder(c)
  BY DEF IInv
<1>1. TypeOK' /\ AnswersInOrder' /\ ExchangesInOrder' /\ \A c \in Codes : CodeInOrder(c)'
  BY <1>0, TypesKept, AnswersKept, ExchangesKept, SourcesKept
<1>2. Patience <= Skew => OneCodePerAssertion'
  BY <1>0, UniqueKept DEF IInv
<1>3. QED
  BY <1>1, <1>2 DEF IInv

\* The invariant of the exchange.
THEOREM Invariant == Spec => []IInv
  BY InitIsInOrder, InvariantKept, PTL DEF Spec

\* Every variable keeps its type.
THEOREM ExchangeTypes == Spec => []TypeOK
<1>1. IInv => TypeOK
  BY DEF IInv
<1>2. QED
  BY <1>1, Invariant, PTL

\* An assertion yields one exchange code at most, whatever replicas and the cleanup job
\* do, if no ACS request takes longer than the marker outlives the assertion.
THEOREM AssertionsUsedOnce ==
    ASSUME Patience <= Skew PROVE Spec => []OneCodePerAssertion
<1>1. IInv => OneCodePerAssertion
  BY DEF IInv
<1>2. QED
  BY <1>1, Invariant, PTL

\* However often a code is presented, it grants one session at most.
THEOREM CodesGrantOnce == Spec => []OneSessionPerCode
<1>1. IInv => OneSessionPerCode
  BY DEF IInv, ExchangesInOrder, GrantInOrder, OneSessionPerCode
<1>2. QED
  BY <1>1, Invariant, PTL

\* A session is granted to the browser that began the login of its code.
THEOREM SessionsAreBound == Spec => []SessionsBoundToBrowser
<1>1. IInv => SessionsBoundToBrowser
  BY DEF IInv, ExchangesInOrder, GrantInOrder, SessionsBoundToBrowser, Holder
<1>2. QED
  BY <1>1, Invariant, PTL

------------------------------------------------------------------------------
(* The steps of the exchange, seen as steps of OneTimeCode.                *)

States == [c \in Codes |-> CodeState(c)]

HolderOf == [c \in Codes |-> IF Made(c) THEN logins[codes[c].login].browser ELSE None]

GrantingOn(c) == \E r \in Requests : req[r].at = "granting" /\ req[r].code = c

LEMMA StateStays ==
    ASSUME NEW c \in Codes, codes'[c].status = codes[c].status, grants'[c] = grants[c],
           GrantingOn(c)' <=> GrantingOn(c)
    PROVE  CodeState(c)' = CodeState(c)
  BY DEF CodeState, GrantingOn

LEMMA HoldersStay ==
    ASSUME IInv, [Next]_vars, \A c \in Codes : Made(c)' => Made(c)
    PROVE  HolderOf' = HolderOf
<1>1. LoginsStay /\ CodesStay /\ TypeOK /\ AnswersInOrder
  BY RowsStay DEF IInv
<1>2. ASSUME NEW c \in Codes PROVE HolderOf'[c] = HolderOf[c]
  <2>1. CASE Made(c)
    <3>1. Made(c)' /\ Holder(c)' = Holder(c)
      BY <1>1, <2>1, HolderStays DEF IInv
    <3>2. QED
      BY <2>1, <3>1 DEF HolderOf, Holder
  <2>2. CASE ~Made(c)
    BY <2>2 DEF HolderOf
  <2>3. QED
    BY <2>1, <2>2
<1>3. QED
  BY <1>2 DEF HolderOf

\* A request becomes another, that has nothing to do with c.
LEMMA GrantingStays ==
    ASSUME TypeOK, NEW c \in Codes, NEW r \in Requests, NEW q, req' = [req EXCEPT ![r] = q],
           ~(req[r].at = "granting" /\ req[r].code = c), ~(q.at = "granting" /\ q.code = c)
    PROVE  GrantingOn(c)' <=> GrantingOn(c)
<1>1. \A s \in Requests : req'[s] = IF s = r THEN q ELSE req[s]
  BY DEF TypeOK
<1>2. QED
  BY <1>1 DEF GrantingOn

LEMMA StutteringStep ==
    ASSUME IInv, [Next]_vars, UNCHANGED <<codes, grants>>,
           \A c \in Codes : GrantingOn(c)' <=> GrantingOn(c)
    PROVE  UNCHANGED <<States, HolderOf, grants>>
<1>1. \A c \in Codes : CodeState(c)' = CodeState(c)
  BY StateStays
<1>2. HolderOf' = HolderOf
  BY HoldersStay DEF Made
<1>3. QED
  BY <1>1, <1>2 DEF States

\* One code becomes void.
LEMMA VoidingStep ==
    ASSUME IInv, [Next]_vars, \A c \in Codes : Made(c)' => Made(c), UNCHANGED grants,
           \A c \in Codes : \/ States'[c] = States[c]
                            \/ (States[c] = "issued" /\ States'[c] = "void")
    PROVE  \E C \in SUBSET Codes : Promise!Void(C)
<1>1. PICK C \in SUBSET Codes :
          \A c \in Codes : c \in C <=> (States[c] = "issued" /\ States'[c] = "void")
  <2>1. {c \in Codes : States[c] = "issued" /\ States'[c] = "void"} \in SUBSET Codes
    OBVIOUS
  <2>2. QED
    BY <2>1
<1>2. \A c \in C : States[c] = "issued"
  BY <1>1
<1>3. States' = [c \in Codes |-> IF c \in C THEN "void" ELSE States[c]]
  BY <1>1 DEF States
<1>4. HolderOf' = HolderOf
  BY HoldersStay
<1>5. QED
  BY <1>2, <1>3, <1>4 DEF Promise!Void, States, HolderOf

LEMMA AbortIsPromised ==
    ASSUME IInv, NEW r \in Requests, Abort(r)
    PROVE  UNCHANGED <<States, HolderOf, grants>> \/ \E C \in SUBSET Codes : Promise!Void(C)
<1>0. /\ [Next]_vars /\ req' = [req EXCEPT ![r] = Idle] /\ Idle.at = "idle"
      /\ UNCHANGED <<codes, grants>> /\ TypeOK /\ ExchangesInOrder
  BY DEF Next, Abort, rows, IInv, Idle
<1>1. CASE req[r].at # "granting"
  BY <1>0, <1>1, GrantingStays, StutteringStep
<1>2. CASE req[r].at = "granting"
  <2>1. PICK c \in Codes :
            /\ c = req[r].code /\ codes[c].status \in {"consumed", "deleted"}
            /\ grants[c].count = 0
    BY <1>0, <1>2, GrantedCode
  <2>2. States[c] = "issued"
    BY <1>2, <2>1 DEF States, CodeState
  <2>3. ~GrantingOn(c)'
    BY <1>0, <1>2, <2>1 DEF GrantingOn, ExchangesInOrder, OneGranting, TypeOK
  <2>4. States'[c] = "void"
    BY <1>0, <2>1, <2>3 DEF States, CodeState, GrantingOn
  <2>5. \A d \in Codes \ {c} : States'[d] = States[d]
    <3>1. \A d \in Codes \ {c} : CodeState(d)' = CodeState(d)
      BY <1>0, <2>1, GrantingStays, StateStays
    <3>2. QED
      BY <3>1 DEF States
  <2>6. \A d \in Codes : \/ States'[d] = States[d]
                         \/ (States[d] = "issued" /\ States'[d] = "void")
    BY <2>2, <2>4, <2>5
  <2>7. \A d \in Codes : Made(d)' => Made(d)
    BY <1>0 DEF Made
  <2>8. QED
    BY <1>0, <2>6, <2>7, VoidingStep
<1>3. QED
  BY <1>1, <1>2

LEMMA CommitIsIssue ==
    ASSUME IInv, NEW r \in Requests, NEW c \in Codes, CommitCode(r, c)
    PROVE  \E h \in Browsers : Promise!Issue(c, h)
<1> DEFINE t == InResponseTo[req[r].answer]
<1>0. /\ [Next]_vars /\ TypeOK /\ AnswersInOrder /\ ExchangesInOrder
      /\ \A d \in Codes : CodeInOrder(d)
  BY DEF Next, IInv
<1>1. /\ t \in Logins /\ logins[t].status # "unused" /\ ~Made(c)
      /\ \A d \in Codes \ {c} : codes'[d] = codes[d]
      /\ codes'[c].status = "issued" /\ codes'[c].login = t /\ UNCHANGED grants
  BY <1>0, NewCode
<1>2. LoginsStay /\ CodesStay
  BY <1>0, RowsStay
<1>3. PICK h \in Browsers : h = logins[t].browser
  BY <1>0, <1>1 DEF AnswersInOrder, LoginsInOrder
<1>4. /\ req' = [req EXCEPT ![r] = Idle] /\ req[r].at = "resolved" /\ Idle.at = "idle"
  BY DEF CommitCode, Idle
<1>5. \A d \in Codes : GrantingOn(d)' <=> GrantingOn(d)
  BY <1>0, <1>4, GrantingStays
<1>6. \A d \in Codes \ {c} : CodeState(d)' = CodeState(d)
  BY <1>1, <1>5, StateStays
<1>7. grants[c].count = 0
  BY <1>0, <1>1 DEF ExchangesInOrder, GrantInOrder, Made
<1>8. CodeState(c) = "absent" /\ CodeState(c)' = "issued"
  <2>1. ~GrantingOn(c)
    BY <1>0, <1>1, GrantedCode DEF GrantingOn, Made
  <2>2. CodeState(c) = "absent"
    BY <1>1, <1>7, <2>1 DEF CodeState, Made, GrantingOn
  <2>3. codes'[c].status = "issued" /\ grants'[c].count = 0
    BY <1>1, <1>7
  <2>4. CodeState(c)' = "issued"
    BY <2>3 DEF CodeState
  <2>5. QED
    BY <2>2, <2>4
<1>9. HolderOf' = [HolderOf EXCEPT ![c] = h]
  <2>1. logins'[t].browser = h
    BY <1>1, <1>2, <1>3 DEF LoginsStay
  <2>2. HolderOf'[c] = h
    BY <1>1, <2>1 DEF HolderOf, Made
  <2>3. ASSUME NEW d \in Codes \ {c} PROVE HolderOf'[d] = HolderOf[d]
    <3>1. CASE Made(d)
      <4>1. Made(d)' /\ Holder(d)' = Holder(d)
        BY <1>0, <1>2, <3>1, HolderStays
      <4>2. QED
        BY <3>1, <4>1 DEF HolderOf, Holder
    <3>2. CASE ~Made(d)
      BY <1>1, <3>2 DEF HolderOf, Made
    <3>3. QED
      BY <3>1, <3>2
  <2>4. QED
    BY <2>2, <2>3 DEF HolderOf
<1>10. States[c] = "absent"
  BY <1>8 DEF States
<1>11. States' = [d \in Codes |-> IF d = c THEN "issued" ELSE IF d \in {} THEN "void" ELSE States[d]]
  BY <1>6, <1>8 DEF States
<1>12. {} \in SUBSET {d \in Codes : States[d] = "issued" /\ HolderOf[d] = h}
  OBVIOUS
<1>13. Promise!Issue(c, h)
  BY <1>1, <1>9, <1>10, <1>11, <1>12 DEF Promise!Issue, States, HolderOf
<1>14. QED
  BY <1>13

LEMMA ConsumptionIsPromised ==
    ASSUME IInv, NEW r \in Requests, ConsumeCode(r)
    PROVE  UNCHANGED <<States, HolderOf, grants>> \/ \E C \in SUBSET Codes : Promise!Void(C)
<1>0. /\ [Next]_vars /\ TypeOK /\ ExchangesInOrder /\ codes \in [Codes -> CodeRows]
      /\ req \in [Requests -> RequestRecords] /\ Idle.at = "idle"
  BY DEF Next, IInv, TypeOK, Idle
<1>1. PICK c \in Codes : c = req[r].code
  BY <1>0, PresentedCode DEF ConsumeCode
<1> DEFINE q == IF Acceptable(r) THEN [req[r] EXCEPT !.at = "granting"] ELSE Idle
<1>2. /\ req[r].at = "holding" /\ codes[c].status = "issued" /\ grants[c].count = 0
  BY <1>0, <1>1, PresentedCode DEF ConsumeCode, ExchangesInOrder, GrantInOrder
<1>3. /\ req' = [req EXCEPT ![r] = q] /\ UNCHANGED grants
      /\ codes' = [codes EXCEPT ![c] = [codes[c] EXCEPT !.status = "consumed"]]
  BY <1>0, <1>1 DEF ConsumeCode
<1>4. Acceptable(r) => q.at = "granting" /\ q.code = c
  BY <1>0, <1>1 DEF RequestRecords
<1>5. ~Acceptable(r) => q.at = "idle"
  BY <1>0
<1> HIDE DEF q
<1>6. codes'[c].status = "consumed" /\ \A d \in Codes \ {c} : codes'[d] = codes[d]
  BY <1>0, <1>3, CodeIsCode
<1>7. \A d \in Codes \ {c} : CodeState(d)' = CodeState(d)
  <2>1. ASSUME NEW d \in Codes \ {c} PROVE GrantingOn(d)' <=> GrantingOn(d)
    BY <1>0, <1>2, <1>3, <1>4, <1>5, GrantingStays
  <2>2. QED
    BY <1>3, <1>6, <2>1, StateStays
<1>8. \A s \in Requests : ~(req[s].at = "granting" /\ req[s].code = c)
  BY <1>0, <1>2, GrantedCode
<1>9. \A s \in Requests : req'[s] = IF s = r THEN q ELSE req[s]
  BY <1>0, <1>3
<1>10. CodeState(c) = "issued"
  BY <1>2 DEF CodeState
<1>11. \A d \in Codes : Made(d)' => Made(d)
  BY <1>2, <1>6 DEF Made
<1>12. CASE Acceptable(r)
  <2>1. GrantingOn(c)'
    BY <1>4, <1>9, <1>12 DEF GrantingOn
  <2>2. CodeState(c)' = "issued"
    BY <1>2, <1>3, <1>6, <2>1 DEF CodeState, GrantingOn
  <2>3. UNCHANGED States
    BY <1>7, <1>10, <2>2 DEF States
  <2>4. QED
    BY <1>0, <1>3, <1>11, <2>3, HoldersStay
<1>13. CASE ~Acceptable(r)
  <2>1. ~GrantingOn(c)'
    BY <1>5, <1>8, <1>9, <1>13 DEF GrantingOn
  <2>2. States'[c] = "void" /\ States[c] = "issued"
    BY <1>2, <1>3, <1>6, <1>10, <2>1 DEF States, CodeState, GrantingOn
  <2>3. \A d \in Codes : \/ States'[d] = States[d]
                         \/ (States[d] = "issued" /\ States'[d] = "void")
    <3>1. \A d \in Codes \ {c} : States'[d] = States[d]
      BY <1>7 DEF States
    <3>2. QED
      BY <2>2, <3>1
  <2>4. QED
    BY <1>0, <1>3, <1>11, <2>3, VoidingStep
<1>14. QED
  BY <1>12, <1>13

LEMMA CreationIsRedeem ==
    ASSUME IInv, NEW r \in Requests, CreateSession(r)
    PROVE  \E c \in Codes : Promise!Redeem(c)
<1>0. /\ [Next]_vars /\ TypeOK /\ ExchangesInOrder /\ Idle.at = "idle"
      /\ grants \in [Codes -> [count : Nat, to : SUBSET Browsers]]
  BY DEF Next, IInv, TypeOK, Idle
<1>1. req[r].at = "granting" /\ req' = [req EXCEPT ![r] = Idle] /\ UNCHANGED codes
  BY DEF CreateSession
<1>2. PICK c \in Codes :
          /\ c = req[r].code /\ req[r].browser = Holder(c)
          /\ codes[c].status \in {"consumed", "deleted"} /\ grants[c].count = 0
  BY <1>0, <1>1, GrantedCode
<1>3. grants[c].to = {}
  BY <1>0, <1>2 DEF ExchangesInOrder, GrantInOrder
<1>4. grants' = [grants EXCEPT ![c] = [count |-> 1, to |-> {Holder(c)}]]
  <2>1. grants' = [grants EXCEPT ![c] = [count |-> grants[c].count + 1,
                                         to |-> grants[c].to \cup {req[r].browser}]]
    BY <1>2 DEF CreateSession
  <2>2. grants[c].count + 1 = 1 /\ grants[c].to \cup {req[r].browser} = {Holder(c)}
    BY <1>2, <1>3
  <2>3. QED
    BY <2>1, <2>2
<1>5. HolderOf[c] = Holder(c) /\ HolderOf' = HolderOf
  BY <1>0, <1>1, <1>2, HoldersStay DEF HolderOf, Holder, Made
<1>6. States[c] = "issued"
  BY <1>1, <1>2 DEF States, CodeState
<1>7. \A d \in Codes \ {c} : CodeState(d)' = CodeState(d)
  <2>1. \A d \in Codes \ {c} : GrantingOn(d)' <=> GrantingOn(d)
    BY <1>0, <1>1, <1>2, GrantingStays
  <2>2. \A d \in Codes \ {c} : grants'[d] = grants[d]
    BY <1>0, <1>4
  <2>3. QED
    BY <1>1, <2>1, <2>2, StateStays
<1>8. CodeState(c)' = "redeemed"
  <2>1. grants'[c].count = 1
    BY <1>0, <1>4
  <2>2. QED
    BY <1>1, <1>2, <2>1 DEF CodeState
<1>9. States' = [States EXCEPT ![c] = "redeemed"]
  BY <1>7, <1>8 DEF States
<1>10. Promise!Redeem(c)
  BY <1>4, <1>5, <1>6, <1>9 DEF Promise!Redeem, States, HolderOf
<1>11. QED
  BY <1>10

LEMMA CleanupIsVoid ==
    ASSUME IInv, Cleanup
    PROVE  \E C \in SUBSET Codes : Promise!Void(C)
<1>0. /\ [Next]_vars /\ codes \in [Codes -> CodeRows] /\ UNCHANGED <<grants, req>>
      /\ ExchangesInOrder /\ grants \in [Codes -> [count : Nat, to : SUBSET Browsers]]
  BY DEF Next, IInv, TypeOK, Cleanup
<1>1. ASSUME NEW c \in Codes
      PROVE  \/ codes'[c].status = codes[c].status
             \/ codes[c].status \in {"issued", "consumed"} /\ codes'[c].status = "deleted"
  <2>1. CASE c \in StaleCodes
    <3>1. codes'[c] = [codes[c] EXCEPT !.status = "deleted"]
      BY <2>1 DEF Cleanup
    <3>2. QED
      BY <1>0, <2>1, <3>1, CodeIsCode DEF StaleCodes
  <2>2. CASE c \notin StaleCodes
    BY <2>2 DEF Cleanup
  <2>3. QED
    BY <2>1, <2>2
<1>2. \A c \in Codes : GrantingOn(c)' <=> GrantingOn(c)
  BY <1>0 DEF GrantingOn
<1>3. \A c \in Codes : codes[c].status = "issued" => grants[c].count = 0
  BY <1>0 DEF ExchangesInOrder, GrantInOrder
<1>4. ASSUME NEW c \in Codes
      PROVE  \/ States'[c] = States[c]
             \/ (States[c] = "issued" /\ States'[c] = "void")
  <2>1. /\ grants'[c] = grants[c] /\ grants[c].count \in Nat
        /\ GrantingOn(c)' <=> GrantingOn(c)
    BY <1>0, <1>2
  <2>2. CASE codes'[c].status = codes[c].status
    <3>1. CodeState(c)' = CodeState(c)
      BY <2>1, <2>2, StateStays
    <3>2. QED
      BY <3>1 DEF States
  <2>3. CASE codes[c].status \in {"issued", "consumed"} /\ codes'[c].status = "deleted"
    <3>1. CASE grants[c].count > 0
      BY <2>1, <2>3, <3>1 DEF States, CodeState
    <3>2. CASE grants[c].count = 0 /\ GrantingOn(c)
      BY <2>1, <2>3, <3>2 DEF States, CodeState, GrantingOn
    <3>3. CASE grants[c].count = 0 /\ ~GrantingOn(c)
      BY <2>1, <2>3, <3>3 DEF States, CodeState, GrantingOn
    <3>4. QED
      BY <2>1, <3>1, <3>2, <3>3
  <2>4. QED
    BY <1>1, <2>2, <2>3
<1>5. \A c \in Codes : Made(c)' => Made(c)
  BY <1>1 DEF Made
<1>6. QED
  BY <1>0, <1>4, <1>5, VoidingStep

LEMMA StepIsPromised ==
    ASSUME IInv, [Next]_vars
    PROVE  Promise!Next \/ UNCHANGED <<States, HolderOf, grants>>
<1>0. TypeOK /\ Idle.at = "idle" /\ req \in [Requests -> RequestRecords]
  BY DEF IInv, Idle, TypeOK
<1>1. ASSUME UNCHANGED <<codes, grants, req>> PROVE UNCHANGED <<States, HolderOf, grants>>
  BY <1>1, StutteringStep DEF GrantingOn
<1>2. ASSUME NEW r \in Requests, NEW a \in Assertions, Check(r, a)
      PROVE  UNCHANGED <<States, HolderOf, grants>>
  <2> DEFINE q == [Idle EXCEPT !.at = "checked", !.answer = a,
                               !.row = logins[InResponseTo[a]].status, !.since = now]
  <2>1. q.at = "checked"
    BY DEF Idle
  <2>2. req' = [req EXCEPT ![r] = q] /\ req[r].at = "idle" /\ UNCHANGED <<codes, grants>>
    BY <1>2 DEF Check, rows
  <2> HIDE DEF q
  <2>3. QED
    BY <1>0, <2>1, <2>2, GrantingStays, StutteringStep
<1>3. ASSUME NEW r \in Requests, LockLogin(r) PROVE UNCHANGED <<States, HolderOf, grants>>
  <2> DEFINE q == [req[r] EXCEPT !.at = "resolved", !.principal = principals[Subject[req[r].answer]]]
  <2>1. q.at = "resolved"
    BY <1>0 DEF RequestRecords
  <2>2. req' = [req EXCEPT ![r] = q] /\ req[r].at = "checked" /\ UNCHANGED <<codes, grants>>
    BY <1>0, <1>3 DEF LockLogin, rows
  <2> HIDE DEF q
  <2>3. QED
    BY <1>0, <2>1, <2>2, GrantingStays, StutteringStep
<1>4. ASSUME NEW r \in Requests, NEW b \in Browsers, NEW c \in Codes, LockCode(r, b, c)
      PROVE  UNCHANGED <<States, HolderOf, grants>>
  <2> DEFINE q == [Idle EXCEPT !.at = "holding", !.code = c, !.browser = b,
                               !.row = codes[c].status]
  <2>1. q.at = "holding"
    BY DEF Idle
  <2>2. req' = [req EXCEPT ![r] = q] /\ req[r].at = "idle" /\ UNCHANGED <<codes, grants>>
    BY <1>4 DEF LockCode, rows
  <2> HIDE DEF q
  <2>3. QED
    BY <1>0, <2>1, <2>2, GrantingStays, StutteringStep
<1>5. ASSUME \E C \in SUBSET Codes : Promise!Void(C) PROVE Promise!Next
  BY <1>5 DEF Promise!Next
<1>6. ASSUME NEW r \in Requests, NEW c \in Codes, CommitCode(r, c) PROVE Promise!Next
  BY <1>6, CommitIsIssue DEF Promise!Next
<1>7. ASSUME NEW r \in Requests, CreateSession(r) PROVE Promise!Next
  BY <1>7, CreationIsRedeem DEF Promise!Next
<1>8. ASSUME NEW r \in Requests, ConsumeCode(r) \/ Abort(r)
      PROVE  Promise!Next \/ UNCHANGED <<States, HolderOf, grants>>
  BY <1>5, <1>8, ConsumptionIsPromised, AbortIsPromised
<1>9. CASE Cleanup
  BY <1>5, <1>9, CleanupIsVoid
<1>10. ASSUME NEW b \in Browsers, NEW t \in Logins, BeginLogin(b, t)
       PROVE  UNCHANGED <<States, HolderOf, grants>>
  BY <1>1, <1>10 DEF BeginLogin
<1>11. ASSUME NEW b \in Browsers, ClearCookie(b) PROVE UNCHANGED <<States, HolderOf, grants>>
  BY <1>1, <1>11 DEF ClearCookie
<1>12. ASSUME NEW a \in Assertions, Answer(a) PROVE UNCHANGED <<States, HolderOf, grants>>
  BY <1>1, <1>12 DEF Answer
<1>13. CASE Tick \/ UNCHANGED vars
  BY <1>1, <1>13 DEF Tick, rows, vars
<1>14. QED
  BY <1>2, <1>3, <1>4, <1>6, <1>7, <1>8, <1>9, <1>10, <1>11, <1>12, <1>13 DEF Next

\* The exchange implements OneTimeCode: a code is honoured once, for the browser that
\* began the login, or becomes void and stays so.
THEOREM ExchangeImplementsOneTimeCode == Spec => ImplementsOneTimeCode
<1>1. Init => Promise!Init
  <2> SUFFICES ASSUME Init PROVE Promise!Init
    OBVIOUS
  <2>1. /\ \A c \in Codes : codes[c].status = "unused" /\ grants[c].count = 0
        /\ \A r \in Requests : req[r].at = "idle"
    BY DEF Init, Idle
  <2>2. \A c \in Codes : CodeState(c) = "absent" /\ ~Made(c)
    BY <2>1 DEF CodeState, Made
  <2>3. grants = [c \in Codes |-> [count |-> 0, to |-> {}]]
    BY DEF Init
  <2>4. QED
    BY <2>2, <2>3 DEF Promise!Init
<1>2. IInv /\ [Next]_vars => [Promise!Next]_Promise!vars
  BY StepIsPromised DEF Promise!vars, States, HolderOf
<1>3. QED
  BY <1>1, <1>2, Invariant, PTL DEF Spec, ImplementsOneTimeCode, Promise!Spec
==============================================================================
