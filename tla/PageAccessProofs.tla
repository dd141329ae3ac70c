-------------------------- MODULE PageAccessProofs ---------------------------
(***************************************************************************)
(* Proofs about PageAccess for every number of requests, tokens and        *)
(* changes of the user's rights.                                           *)
(***************************************************************************)
EXTENDS PageAccessProperties, TLAPS

Entitled(row) == row.active /\ row.enabled /\ ~row.mustChange

\* The requests that go on with a copy of the principal.
HasCopy(q) ==
    \/ q.at \in {"signing", "rotating", "checked", "own", "loaded", "holding"}
    \/ q.at = "revoking" /\ q.op # "update"

\* The columns of the principal in a copy are older than those of the row, or equal to
\* them; those of the account may be of any age.
InOrder(copy, row) ==
    /\ copy.version <= row.version
    /\ copy.version = row.version => copy.role = row.role

CopyInOrder(q, row) ==
    /\ HasCopy(q) => InOrder(q.copy, row)
    /\ q.at \in {"signing", "checked"} /\ q.copy.version = row.version => Entitled(row)
    /\ q.at = "rotating" /\ q.copy.version = row.version => row.active
    /\ q.at = "written" => q.op = "update"

CopiesInOrder == \A w \in Workers : CopyInOrder(work[w], person)

\* The sessions that a request rotates or revokes are among those issued.
NamesIssued(q, rows) ==
    /\ q.at \in {"rotating", "checked"} => q.token \in Tokens /\ rows[q.token].status # "none"
    /\ \A t \in q.targets : rows[t].status # "none"

NamedIssued == \A w \in Workers : NamesIssued(work[w], tokens)

\* So is a token, and one that is not older belongs to a user who may sign in.
TokenInOrder(token, row) ==
    /\ token.version <= row.version
    /\ token.version = row.version => token.role = row.role /\ Entitled(row)

TokensInOrder == \A t \in Tokens : Issued(t) => TokenInOrder(tokens[t], person)

\* What a request for a page has found out so far, if its session is alive, was the case
\* at one moment.
PageInOrder ==
    /\ page.at # "none" => page.token \in Tokens /\ Issued(page.token)
    /\ page.at # "none" /\ Valid(page.token) => page.current
    /\ page.at = "principal" /\ Alive(page.token) => page.current
    /\ page.at \in {"session", "served"} => page.current

IInv ==
    /\ AccessTypeOK
    /\ lost \/ (CopiesInOrder /\ NamedIssued /\ TokensInOrder /\ PageInOrder)

\* The principal stays or gets a version that no copy and no token has.
Newer == person' = person \/ person'.version > person.version

\* Tokens keep their claims and do not come back to life; a new one is in order.
OldTokensFade ==
    \A t \in Tokens : Issued(t) =>
        /\ Issued(t)'
        /\ Alive(t)' => Alive(t)
        /\ tokens'[t].role = tokens[t].role
        /\ tokens'[t].version = tokens[t].version

NewTokensInOrder ==
    \A t \in Tokens : Issued(t)' /\ ~Issued(t) => TokenInOrder(tokens'[t], person')

------------------------------------------------------------------------------
(* Changes of the principal.                                               *)

\* Writing what a copy was changed to over a row gives a row of the same columns.
LEMMA OverwrittenIsPerson ==
    ASSUME NEW copy \in People, NEW set \in People, NEW row \in People
    PROVE  /\ Overwritten(copy, set, row) \in People
           /\ row.version = copy.version => Overwritten(copy, set, row).version = set.version
           /\ set = copy => Overwritten(copy, set, row) = row
<1> DEFINE new == Overwritten(copy, set, row)
<1>1. /\ DOMAIN row = {"role", "active", "version", "enabled", "mustChange"}
      /\ DOMAIN set = DOMAIN row
  BY DEF People
<1>2. /\ new = [f \in DOMAIN row |-> IF set[f] = copy[f] THEN row[f] ELSE set[f]]
  BY DEF Overwritten
<1>3. \A f \in DOMAIN row : new[f] = row[f] \/ new[f] = set[f]
  BY <1>2
<1>4. new = [role |-> new.role, active |-> new.active, version |-> new.version,
             enabled |-> new.enabled, mustChange |-> new.mustChange]
  BY <1>1, <1>2
<1>5. /\ new.role \in Rights /\ new.active \in BOOLEAN /\ new.version \in Versions
      /\ new.enabled \in BOOLEAN /\ new.mustChange \in BOOLEAN
  BY <1>1, <1>3 DEF People
<1>6. new \in People
  BY <1>4, <1>5 DEF People
<1>7. ASSUME row.version = copy.version PROVE new.version = set.version
  BY <1>1, <1>2, <1>7
<1>8. ASSUME set = copy PROVE new = row
  <2>1. row = [f \in DOMAIN row |-> row[f]]
    BY DEF People
  <2>2. QED
    BY <1>2, <1>8, <2>1
<1>9. QED
  BY <1>6, <1>7, <1>8

\* What a request assigns to its copy: a new version, unless it changes nothing.
LEMMA ChangedIsPerson ==
    ASSUME NEW q, q.copy \in People, q.wish \in Payloads,
           q.op \in {"none", "update", "reset", "consume"},
           Changed(q).version <= LastVersion
    PROVE  /\ Changed(q) \in People
           /\ Changed(q) = q.copy \/ Changed(q).version > q.copy.version
<1> DEFINE copy == q.copy
<1>0. /\ copy.role \in Rights /\ copy.active \in BOOLEAN /\ copy.version \in Versions
      /\ copy.enabled \in BOOLEAN /\ copy.mustChange \in BOOLEAN
      /\ copy = [role |-> copy.role, active |-> copy.active, version |-> copy.version,
                 enabled |-> copy.enabled, mustChange |-> copy.mustChange]
      /\ copy.version \in Nat /\ copy.version >= 1
  BY DEF People, Versions
<1>1. CASE q.op = "update"
  <2>1. Changed(q) = Update(copy, q.wish)
    BY <1>1 DEF Changed
  <2> DEFINE role == IF q.wish.role = None THEN copy.role ELSE q.wish.role
             enabled == IF q.wish.enabled = None THEN copy.enabled ELSE q.wish.enabled
  <2>2. role \in Rights /\ enabled \in BOOLEAN
    BY <1>0 DEF Payloads
  <2>3. Changed(q) = [role |-> role,
                      active |-> IF enabled = copy.enabled THEN copy.active ELSE enabled,
                      version |-> copy.version + Counted(role # copy.role)
                                      + Counted(enabled # copy.enabled),
                      enabled |-> enabled, mustChange |-> copy.mustChange]
    BY <1>0, <2>1 DEF Update
  <2> HIDE DEF role, enabled
  <2>4. Changed(q).version \in Versions
    BY <1>0, <2>3, VersionAssumption DEF Counted, Versions
  <2>5. Changed(q) \in People
    BY <1>0, <2>2, <2>3, <2>4 DEF People
  <2>6. \/ Changed(q).version > copy.version
        \/ role = copy.role /\ enabled = copy.enabled
    BY <1>0, <2>3 DEF Counted
  <2>7. role = copy.role /\ enabled = copy.enabled => Changed(q) = copy
    BY <1>0, <2>3 DEF Counted
  <2>8. QED
    BY <2>5, <2>6, <2>7
<1>2. CASE q.op = "reset"
  <2>1. Changed(q) = [copy EXCEPT !.mustChange = TRUE, !.version = @ + 1]
    BY <1>2 DEF Changed, Reset
  <2>2. Changed(q) = [role |-> copy.role, active |-> copy.active,
                      version |-> copy.version + 1, enabled |-> copy.enabled,
                      mustChange |-> TRUE]
    BY <1>0, <2>1
  <2>3. QED
    BY <1>0, <2>2, VersionAssumption DEF People, Versions
<1>3. CASE q.op \in {"none", "consume"}
  <2>1. Changed(q) = [copy EXCEPT !.mustChange = FALSE, !.enabled = TRUE, !.active = TRUE,
                                  !.version = @ + 1]
    BY <1>3 DEF Changed, Renewed
  <2>2. Changed(q) = [role |-> copy.role, active |-> TRUE, version |-> copy.version + 1,
                      enabled |-> TRUE, mustChange |-> FALSE]
    BY <1>0, <2>1
  <2>3. QED
    BY <1>0, <2>2, VersionAssumption DEF People, Versions
<1>4. QED
  BY <1>1, <1>2, <1>3

\* The commit of a change: unless an increment is lost, the principal stays as it was or
\* gets a version nobody has seen.
LEMMA CommitKeepsOrder ==
    ASSUME AccessTypeOK, NEW w \in Workers, CommitChange(w)
    PROVE  /\ person' \in People
           /\ lost' \in BOOLEAN
           /\ ~lost' => ~lost
           /\ ~lost' /\ InOrder(work[w].copy, person)
                 => person' = person \/ person'.version > person.version
<1> DEFINE q == work[w]
           set == Changed(q)
<1>1. /\ q.copy \in People /\ q.wish \in Payloads
      /\ q.op \in {"none", "update", "reset", "consume"} /\ person \in People
  BY DEF AccessTypeOK
<1>2. /\ set.version <= LastVersion
      /\ person' = Overwritten(q.copy, set, person)
      /\ lost' = (lost \/ (set.version # q.copy.version /\ q.copy.version # person.version))
  BY DEF CommitChange
<1>3. set \in People /\ (set = q.copy \/ set.version > q.copy.version)
  BY <1>1, <1>2, ChangedIsPerson
<1>4. /\ person' \in People
      /\ person.version = q.copy.version => person'.version = set.version
      /\ set = q.copy => person' = person
  BY <1>1, <1>2, <1>3, OverwrittenIsPerson
<1>5. lost' \in BOOLEAN /\ (~lost' => ~lost)
  BY <1>2 DEF AccessTypeOK
<1>6. ASSUME ~lost', InOrder(q.copy, person)
      PROVE  person' = person \/ person'.version > person.version
  <2>1. CASE set = q.copy
    BY <1>4, <2>1
  <2>2. CASE set.version > q.copy.version
    <3>1. set.version # q.copy.version
      BY <1>1, <1>3, <2>2 DEF People, Versions
    <3>2. q.copy.version = person.version
      BY <1>2, <1>6, <3>1
    <3>3. QED
      BY <1>4, <2>2, <3>2
  <2>3. QED
    BY <1>3, <2>1, <2>2
<1>7. QED
  BY <1>4, <1>5, <1>6

------------------------------------------------------------------------------
(* Types.                                                                  *)

\* What a request works on has the right columns.
Tasks == [at : {"idle", "signing", "rotating", "checked", "own", "account", "loaded",
                "holding", "written", "revoking"},
          op : {"none", "update", "reset", "consume"}, token : Tokens \cup {None},
          targets : SUBSET Tokens, copy : People, wish : Payloads]

LEMMA SpareIsTask == Spare \in Tasks
<1>1. 1 \in Versions
  BY VersionAssumption DEF Versions
<1>2. Spare.copy \in People
  BY <1>1 DEF Spare, People, Rights
<1>3. QED
  BY <1>2 DEF Spare, Tasks, Payloads

\* Loading a row gives a copy with the right columns.
LEMMA LoadedIsPerson ==
    ASSUME person \in People, NEW copy \in People
    PROVE  /\ WithPrincipal(copy) \in People
           /\ WithPrincipal(copy).version = person.version
           /\ WithPrincipal(copy).role = person.role
           /\ WithAccount(copy) \in People
           /\ WithAccount(copy).version = copy.version
           /\ WithAccount(copy).role = copy.role
  BY DEF WithPrincipal, WithAccount, People

\* Revoking sessions that have been issued ends those and changes nothing else.
LEMMA RevokedEnds ==
    ASSUME AccessTypeOK, NEW S, tokens' = Revoked(S), \A t \in Tokens \cap S : Issued(t)
    PROVE  /\ tokens' \in [Tokens -> TokenRows]
           /\ OldTokensFade
           /\ \A t \in Tokens : Issued(t)' => Issued(t)
  BY DEF AccessTypeOK, Revoked, OldTokensFade, Issued, Alive, TokenRows

LEMMA RevokedKeepsTypes ==
    ASSUME AccessTypeOK, NEW S, tokens' = Revoked(S)
    PROVE  tokens' \in [Tokens -> TokenRows]
  BY DEF AccessTypeOK, Revoked, TokenRows

\* Every step but those of the page.
LEMMA ChangesKeepTypes ==
    ASSUME AccessTypeOK, Change
    PROVE  /\ person' \in People
           /\ tokens' \in [Tokens -> TokenRows]
           /\ work' \in [Workers -> Tasks]
           /\ lost' \in BOOLEAN
<1>0. /\ person \in People /\ tokens \in [Tokens -> TokenRows]
      /\ work \in [Workers -> Tasks] /\ lost \in BOOLEAN /\ Spare \in Tasks
  BY SpareIsTask DEF AccessTypeOK, Tasks
<1>1. ASSUME NEW w \in Workers, NEW t \in Tokens, BeginRefresh(w, t)
      PROVE  work' \in [Workers -> Tasks] /\ UNCHANGED <<person, tokens, lost>>
  <2>1. WithPrincipal(Spare.copy) \in People
    BY <1>0, LoadedIsPerson DEF Tasks
  <2>2. QED
    BY <1>0, <1>1, <2>1 DEF BeginRefresh, Tasks
<1>2. ASSUME NEW copy \in People PROVE TokenOf(copy) \in TokenRows
  BY DEF TokenOf, TokenRows, People
<1>3. ASSUME NEW w \in Workers, NEW t \in Tokens, InsertSession(w, t)
      PROVE  /\ tokens' \in [Tokens -> TokenRows] /\ work' \in [Workers -> Tasks]
             /\ UNCHANGED <<person, lost>>
  <2>1. TokenOf(work[w].copy) \in TokenRows
    BY <1>0, <1>2 DEF Tasks
  <2>2. QED
    BY <1>0, <1>3, <2>1 DEF InsertSession
<1>4. ASSUME NEW w \in Workers, NEW t \in Tokens, RotateToken(w, t)
      PROVE  /\ tokens' \in [Tokens -> TokenRows] /\ work' \in [Workers -> Tasks]
             /\ UNCHANGED <<person, lost>>
  <2>1. TokenOf(work[w].copy) \in TokenRows
    BY <1>0, <1>2 DEF Tasks
  <2>2. \A u \in Tokens : tokens'[u] \in TokenRows
    BY <1>0, <1>4, <2>1 DEF RotateToken, TokenRows
  <2>3. QED
    BY <1>0, <1>4, <2>2 DEF RotateToken
<1>5. ASSUME NEW w \in Workers, BeginSignIn(w)
      PROVE  work' \in [Workers -> Tasks] /\ UNCHANGED <<person, tokens, lost>>
  BY <1>0, <1>5 DEF BeginSignIn, Tasks
<1>a. WithPrincipal(Spare.copy) \in People /\ WithAccount(Spare.copy) \in People
  BY <1>0, LoadedIsPerson DEF Tasks
<1>b. ASSUME NEW w \in Workers
      PROVE  /\ WithPrincipal(work[w].copy) \in People
             /\ WithAccount(work[w].copy) \in People
  BY <1>0, LoadedIsPerson DEF Tasks
<1>6. ASSUME NEW w \in Workers, NEW wish \in Wishes, BeginUpdate(w, wish)
      PROVE  work' \in [Workers -> Tasks] /\ UNCHANGED <<person, tokens, lost>>
  <2>1. wish \in Payloads
    BY WishesAssumption DEF Payloads, Rights
  <2>2. QED
    BY <1>0, <1>6, <1>a, <2>1 DEF BeginUpdate, Tasks
<1>7. ASSUME NEW w \in Workers, NEW op \in {"reset", "consume"}, BeginPassword(w, op)
      PROVE  work' \in [Workers -> Tasks] /\ UNCHANGED <<person, tokens, lost>>
  BY <1>0, <1>7, <1>a DEF BeginPassword, Tasks
<1>14. ASSUME NEW w \in Workers, NEW op \in {"update", "reset"}, NEW wish \in Payloads,
              BeginOwn(w, op, wish)
       PROVE  work' \in [Workers -> Tasks] /\ UNCHANGED <<person, tokens, lost>>
  BY <1>0, <1>14, <1>a DEF BeginOwn, Tasks
<1>15. ASSUME NEW w \in Workers, LoadPrincipal(w) \/ LoadOwnAccount(w)
       PROVE  work' \in [Workers -> Tasks] /\ UNCHANGED <<person, tokens, lost>>
  BY <1>0, <1>15, <1>b DEF LoadPrincipal, LoadOwnAccount, Tasks
<1>16. ASSUME NEW w \in Workers, CheckAccount(w)
       PROVE  /\ work' \in [Workers -> Tasks] /\ tokens' \in [Tokens -> TokenRows]
              /\ UNCHANGED <<person, lost>>
  <2>1. tokens' = tokens \/ tokens' = Revoked({work[w].token})
    BY <1>16 DEF CheckAccount
  <2>2. tokens' \in [Tokens -> TokenRows]
    BY <1>0, <2>1, RevokedKeepsTypes
  <2>3. QED
    BY <1>0, <1>16, <2>2 DEF CheckAccount, Tasks
<1>17. /\ \A wish \in Wishes : wish \in Payloads
       /\ Spare.wish \in Payloads
  BY <1>0, WishesAssumption DEF Payloads, Rights, Tasks
<1>8. ASSUME NEW w \in Workers, CommitAlone(w)
      PROVE  /\ person' \in People /\ lost' \in BOOLEAN
             /\ work' \in [Workers -> Tasks] /\ UNCHANGED tokens
  <2>1. CommitChange(w)
    BY <1>8 DEF CommitAlone
  <2>2. person' \in People /\ lost' \in BOOLEAN
    BY <2>1, CommitKeepsOrder
  <2>3. QED
    BY <1>0, <1>8, <2>2 DEF CommitAlone, Tasks
<1>9. ASSUME NEW w \in Workers, SelectTargets(w)
      PROVE  work' \in [Workers -> Tasks] /\ UNCHANGED <<person, tokens, lost>>
  BY <1>0, <1>9 DEF SelectTargets, Tasks, LiveTokens
<1>10. ASSUME NEW w \in Workers, CommitTargets(w)
       PROVE  /\ person' \in People /\ lost' \in BOOLEAN
              /\ work' \in [Workers -> Tasks] /\ tokens' \in [Tokens -> TokenRows]
  <2>1. tokens' \in [Tokens -> TokenRows]
    BY <1>10, RevokedKeepsTypes DEF CommitTargets
  <2>2. person' \in People /\ lost' \in BOOLEAN
    BY <1>0, <1>10, CommitKeepsOrder DEF CommitTargets
  <2>3. QED
    BY <1>0, <1>10, <2>1, <2>2 DEF CommitTargets
<1>11. ASSUME NEW w \in Workers, AbortWork(w)
       PROVE  work' \in [Workers -> Tasks] /\ UNCHANGED <<person, tokens, lost>>
  BY <1>0, <1>11 DEF AbortWork
<1>12. ASSUME NEW t \in Tokens, EndToken(t)
       PROVE  tokens' \in [Tokens -> TokenRows] /\ UNCHANGED <<person, work, lost>>
  BY <1>12, RevokedKeepsTypes DEF EndToken
<1>18. ASSUME NEW w \in Workers, \E wish \in Wishes : BeginOwn(w, "update", wish)
       PROVE  work' \in [Workers -> Tasks] /\ UNCHANGED <<person, tokens, lost>>
  BY <1>14, <1>17, <1>18
<1>19. ASSUME NEW w \in Workers, BeginOwn(w, "reset", Spare.wish)
       PROVE  work' \in [Workers -> Tasks] /\ UNCHANGED <<person, tokens, lost>>
  BY <1>14, <1>17, <1>19
<1>13. QED
  BY <1>0, <1>1, <1>3, <1>4, <1>5, <1>6, <1>7, <1>8, <1>9, <1>10, <1>11, <1>12, <1>15, <1>16,
     <1>18, <1>19 DEF Change

\* What is lost stays lost.
LEMMA LossIsRemembered ==
    ASSUME AccessTypeOK, Change, lost
    PROVE  lost'
<1>1. ASSUME NEW w \in Workers, CommitChange(w) PROVE lost'
  BY <1>1 DEF CommitChange
<1>2. ASSUME NEW w \in Workers, CommitAlone(w) \/ CommitTargets(w) PROVE lost'
  BY <1>1, <1>2 DEF CommitAlone, CommitTargets
<1>3. ASSUME NEW w \in Workers, NEW t \in Tokens,
             BeginRefresh(w, t) \/ InsertSession(w, t) \/ RotateToken(w, t)
      PROVE  lost'
  BY <1>3 DEF BeginRefresh, InsertSession, RotateToken
<1>4. ASSUME NEW w \in Workers, NEW wish, NEW op,
             BeginUpdate(w, wish) \/ BeginPassword(w, op) \/ BeginOwn(w, op, wish)
      PROVE  lost'
  BY <1>4 DEF BeginUpdate, BeginPassword, BeginOwn
<1>5. ASSUME NEW w \in Workers,
             \/ BeginSignIn(w) \/ LoadPrincipal(w) \/ LoadOwnAccount(w) \/ CheckAccount(w)
             \/ SelectTargets(w) \/ AbortWork(w)
      PROVE  lost'
  BY <1>5 DEF BeginSignIn, LoadPrincipal, LoadOwnAccount, CheckAccount, SelectTargets,
              AbortWork
<1>6. ASSUME NEW t \in Tokens, EndToken(t) PROVE lost'
  BY <1>6 DEF EndToken
<1>7. QED
  BY <1>2, <1>3, <1>4, <1>5, <1>6 DEF Change

\* The steps of the page.
PageNext ==
    \/ \E t \in Tokens : BeginPage(t)
    \/ ReadPrincipal \/ ReadSession \/ ReadAccount
    \/ EndPage

LEMMA TypesKept ==
    ASSUME AccessTypeOK, [AccessNext]_accessVars
    PROVE  AccessTypeOK'
<1>1. CASE Change /\ Noticing
  <2>1. /\ person' \in People /\ tokens' \in [Tokens -> TokenRows]
        /\ work' \in [Workers -> Tasks] /\ lost' \in BOOLEAN
    BY <1>1, ChangesKeepTypes
  <2>2. page' \in [at : {"none", "token", "principal", "session", "served"},
                   token : Tokens \cup {None}, current : BOOLEAN]
    <3> DEFINE valid == \E t \in Tokens : t = page.token /\ Valid(t)'
    <3>1. page' = [page EXCEPT !.current = page.current \/ valid]
      BY <1>1 DEF Noticing
    <3>2. page.current \in BOOLEAN /\ (page.current \/ valid) \in BOOLEAN
      BY DEF AccessTypeOK
    <3> HIDE DEF valid
    <3>3. QED
      BY <3>1, <3>2 DEF AccessTypeOK
  <2>3. QED
    BY <2>1, <2>2 DEF AccessTypeOK, Tasks
<1>2. CASE PageNext /\ UNCHANGED <<person, tokens, work, lost>>
  <2>1. ASSUME NEW t \in Tokens, BeginPage(t)
        PROVE  page' \in [at : {"none", "token", "principal", "session", "served"},
                          token : Tokens \cup {None}, current : BOOLEAN]
    <3>1. page' = [at |-> "token", token |-> t, current |-> Valid(t)]
      BY <2>1 DEF BeginPage
    <3>2. Valid(t) \in BOOLEAN
      BY DEF Valid, Eligible
    <3>3. QED
      BY <3>1, <3>2
  <2>2. ASSUME ReadPrincipal \/ ReadSession \/ ReadAccount \/ EndPage
        PROVE  page' \in [at : {"none", "token", "principal", "session", "served"},
                          token : Tokens \cup {None}, current : BOOLEAN]
    <3>1. \/ page' = NoPage
          \/ \E to \in {"principal", "session", "served"} : page' = [page EXCEPT !.at = to]
      BY <2>2 DEF ReadPrincipal, ReadSession, ReadAccount, EndPage, PageStep
    <3>2. QED
      <4>1. /\ page.token \in Tokens \cup {None} /\ page.current \in BOOLEAN
            /\ page = [at |-> page.at, token |-> page.token, current |-> page.current]
        BY DEF AccessTypeOK
      <4>2. CASE page' = NoPage
        BY <4>2 DEF NoPage
      <4>3. ASSUME NEW to \in {"principal", "session", "served"}, page' = [page EXCEPT !.at = to]
            PROVE  page' = [at |-> to, token |-> page.token, current |-> page.current]
        BY <4>1, <4>3
      <4>4. QED
        BY <3>1, <4>1, <4>2, <4>3
  <2>3. QED
    BY <1>2, <2>1, <2>2 DEF PageNext, AccessTypeOK
<1>3. CASE UNCHANGED accessVars
  BY <1>3 DEF accessVars, AccessTypeOK
<1>4. QED
  BY <1>1, <1>2, <1>3 DEF AccessNext, PageNext

------------------------------------------------------------------------------
(* Steps of the requests.                                                  *)

LEMMA NewerKeepsOrder ==
    ASSUME NEW row \in People, NEW new \in People, new = row \/ new.version > row.version
    PROVE  /\ \A q : CopyInOrder(q, row) /\ q.copy \in People => CopyInOrder(q, new)
           /\ \A token \in TokenRows : TokenInOrder(token, row) => TokenInOrder(token, new)
<1>1. /\ row.version \in Nat /\ new.version \in Nat
      /\ \A copy \in People : copy.version \in Nat
      /\ \A token \in TokenRows : token.version \in Nat
  BY DEF People, TokenRows, Versions
<1>2. \A copy \in People : InOrder(copy, row) => /\ InOrder(copy, new)
                                                 /\ copy.version = new.version => new = row
  BY <1>1 DEF InOrder
<1>3. ASSUME NEW q, CopyInOrder(q, row), q.copy \in People
      PROVE  CopyInOrder(q, new)
  <2>1. HasCopy(q) => InOrder(q.copy, row)
    BY <1>3 DEF CopyInOrder
  <2>2. HasCopy(q) => /\ InOrder(q.copy, new)
                      /\ q.copy.version = new.version => new = row
    BY <1>2, <1>3, <2>1
  <2>3. QED
    BY <1>3, <2>2 DEF CopyInOrder, HasCopy
<1>4. ASSUME NEW token \in TokenRows, TokenInOrder(token, row)
      PROVE  TokenInOrder(token, new)
  BY <1>1, <1>4 DEF TokenInOrder
<1>5. QED
  BY <1>3, <1>4

LEMMA RestInOrder == \A row, rows : CopyInOrder(Spare, row) /\ NamesIssued(Spare, rows)
  BY DEF CopyInOrder, NamesIssued, HasCopy, Spare

\* A token made from a copy that is in order is in order.
LEMMA TokenOfInOrder ==
    ASSUME NEW q, NEW row, CopyInOrder(q, row), q.at \in {"signing", "checked"}
    PROVE  TokenInOrder(TokenOf(q.copy), row)
  BY DEF CopyInOrder, HasCopy, InOrder, TokenInOrder, TokenOf

\* When one request has taken a step that leaves it in order, all are.
LEMMA OthersInOrder ==
    ASSUME AccessTypeOK, CopiesInOrder, NamedIssued, person' \in People,
           NEW w \in Workers, NEW q, work' = [work EXCEPT ![w] = q],
           CopyInOrder(q, person'), NamesIssued(q, tokens'), Newer, OldTokensFade
    PROVE  CopiesInOrder' /\ NamedIssued'
<1>1. /\ person \in People /\ work \in [Workers -> Tasks]
  BY DEF AccessTypeOK, Tasks
<1>2. ASSUME NEW v \in Workers
      PROVE  CopyInOrder(work'[v], person') /\ NamesIssued(work'[v], tokens')
  <2>1. CASE v = w
    BY <1>1, <2>1
  <2>2. CASE v # w
    <3>1. work'[v] = work[v] /\ work[v].copy \in People /\ work[v].targets \subseteq Tokens
      BY <1>1, <2>2 DEF Tasks
    <3>2. CopyInOrder(work[v], person) /\ NamesIssued(work[v], tokens)
      BY DEF CopiesInOrder, NamedIssued
    <3>3. CopyInOrder(work[v], person')
      BY <1>1, <3>1, <3>2, NewerKeepsOrder DEF Newer
    <3>4. NamesIssued(work[v], tokens')
      BY <3>1, <3>2 DEF NamesIssued, OldTokensFade, Issued
    <3>5. QED
      BY <3>1, <3>3, <3>4
  <2>3. QED
    BY <2>1, <2>2
<1>3. QED
  BY <1>2 DEF CopiesInOrder, NamedIssued

\* The same for a step that only starts a request or ends it.
LEMMA StartInOrder ==
    ASSUME AccessTypeOK, CopiesInOrder, NamedIssued, ~lost, UNCHANGED <<person, tokens, lost>>,
           NEW w \in Workers, NEW q, work' = [work EXCEPT ![w] = q],
           CopyInOrder(q, person), NamesIssued(q, tokens)
    PROVE  /\ Newer /\ OldTokensFade /\ NewTokensInOrder
           /\ CopiesInOrder' /\ NamedIssued'
<1>1. Newer /\ OldTokensFade /\ NewTokensInOrder
  BY DEF Newer, OldTokensFade, NewTokensInOrder, Issued, Alive
<1>2. person' \in People /\ CopyInOrder(q, person') /\ NamesIssued(q, tokens')
  BY DEF AccessTypeOK
<1>3. QED
  BY <1>1, <1>2, OthersInOrder

LEMMA ChangeInOrder ==
    ASSUME AccessTypeOK, CopiesInOrder, NamedIssued, ~lost, Change, ~lost'
    PROVE  /\ Newer /\ OldTokensFade /\ NewTokensInOrder
           /\ CopiesInOrder' /\ NamedIssued'
<1>0. /\ person \in People /\ tokens \in [Tokens -> TokenRows]
      /\ work \in [Workers -> Tasks]
  BY DEF AccessTypeOK, Tasks
<1>1. person' \in People
  BY ChangesKeepTypes
<1>2. /\ InOrder(WithPrincipal(Spare.copy), person)
      /\ \A w \in Workers : InOrder(WithPrincipal(work[w].copy), person)
  <2>1. Spare.copy \in People /\ \A w \in Workers : work[w].copy \in People
    BY <1>0, SpareIsTask DEF Tasks
  <2>2. ASSUME NEW copy \in People PROVE InOrder(WithPrincipal(copy), person)
    BY <1>0, <2>2, LoadedIsPerson DEF InOrder, People, Versions
  <2>3. QED
    BY <2>1, <2>2
<1>3. ASSUME NEW w \in Workers, NEW t \in Tokens, BeginRefresh(w, t)
      PROVE  /\ Newer /\ OldTokensFade /\ NewTokensInOrder
             /\ CopiesInOrder' /\ NamedIssued'
  <2> DEFINE q == [Spare EXCEPT !.at = "rotating", !.token = t,
                                !.copy = WithPrincipal(Spare.copy)]
  <2>1. work' = [work EXCEPT ![w] = q] /\ UNCHANGED <<person, tokens, lost>>
    BY <1>3 DEF BeginRefresh, Spare
  <2>2. q.at = "rotating" /\ q.token = t /\ q.copy = WithPrincipal(Spare.copy) /\ q.targets = {}
    BY DEF Spare
  <2>3. person.active /\ Issued(t)
    BY <1>3 DEF BeginRefresh, Alive, Issued
  <2> HIDE DEF q
  <2>4. CopyInOrder(q, person) /\ NamesIssued(q, tokens)
    BY <1>2, <2>2, <2>3 DEF CopyInOrder, NamesIssued, HasCopy, Issued
  <2>5. QED
    BY <2>1, <2>4, StartInOrder
<1>4. ASSUME NEW w \in Workers, BeginSignIn(w)
      PROVE  /\ Newer /\ OldTokensFade /\ NewTokensInOrder
             /\ CopiesInOrder' /\ NamedIssued'
  <2> DEFINE q == [Spare EXCEPT !.at = "signing", !.copy = person]
  <2>1. work' = [work EXCEPT ![w] = q] /\ UNCHANGED <<person, tokens, lost>>
    BY <1>4 DEF BeginSignIn
  <2>2. q.at = "signing" /\ q.copy = person /\ q.targets = {}
    BY DEF Spare
  <2>3. Eligible
    BY <1>4 DEF BeginSignIn
  <2> HIDE DEF q
  <2>4. CopyInOrder(q, person) /\ NamesIssued(q, tokens)
    BY <1>0, <2>2, <2>3
       DEF CopyInOrder, NamesIssued, InOrder, HasCopy, Entitled, Eligible, Issued, People, Versions
  <2>5. QED
    BY <2>1, <2>4, StartInOrder
<1>5. ASSUME NEW w \in Workers, NEW wish \in Wishes, BeginUpdate(w, wish)
      PROVE  /\ Newer /\ OldTokensFade /\ NewTokensInOrder
             /\ CopiesInOrder' /\ NamedIssued'
  <2> DEFINE q == [Spare EXCEPT !.at = "account", !.op = "update",
                                !.copy = WithAccount(Spare.copy), !.wish = wish]
  <2>1. work' = [work EXCEPT ![w] = q] /\ UNCHANGED <<person, tokens, lost>>
    BY <1>5 DEF BeginUpdate, Spare
  <2>2. q.at = "account" /\ q.targets = {}
    BY DEF Spare
  <2> HIDE DEF q
  <2>3. CopyInOrder(q, person) /\ NamesIssued(q, tokens)
    BY <2>2 DEF CopyInOrder, NamesIssued, HasCopy
  <2>4. QED
    BY <2>1, <2>3, StartInOrder
<1>6. ASSUME NEW w \in Workers, NEW op \in {"reset", "consume"}, BeginPassword(w, op)
      PROVE  /\ Newer /\ OldTokensFade /\ NewTokensInOrder
             /\ CopiesInOrder' /\ NamedIssued'
  <2> DEFINE q == [Spare EXCEPT !.at = "account", !.op = op,
                                !.copy = WithAccount(Spare.copy)]
  <2>1. work' = [work EXCEPT ![w] = q] /\ UNCHANGED <<person, tokens, lost>>
    BY <1>6 DEF BeginPassword, Spare
  <2>2. q.at = "account" /\ q.targets = {}
    BY DEF Spare
  <2> HIDE DEF q
  <2>3. CopyInOrder(q, person) /\ NamesIssued(q, tokens)
    BY <2>2 DEF CopyInOrder, NamesIssued, HasCopy
  <2>4. QED
    BY <2>1, <2>3, StartInOrder
<1>14. ASSUME NEW w \in Workers, NEW op, NEW wish, BeginOwn(w, op, wish)
       PROVE  /\ Newer /\ OldTokensFade /\ NewTokensInOrder
              /\ CopiesInOrder' /\ NamedIssued'
  <2> DEFINE q == [Spare EXCEPT !.at = "own", !.op = op, !.wish = wish,
                                !.copy = WithPrincipal(Spare.copy)]
  <2>1. work' = [work EXCEPT ![w] = q] /\ UNCHANGED <<person, tokens, lost>>
    BY <1>14 DEF BeginOwn, Spare
  <2>2. q.at = "own" /\ q.copy = WithPrincipal(Spare.copy) /\ q.targets = {}
    BY DEF Spare
  <2> HIDE DEF q
  <2>3. CopyInOrder(q, person) /\ NamesIssued(q, tokens)
    BY <1>2, <2>2 DEF CopyInOrder, NamesIssued, HasCopy
  <2>4. QED
    BY <2>1, <2>3, StartInOrder
<1>15. ASSUME NEW w \in Workers, LoadPrincipal(w)
       PROVE  /\ Newer /\ OldTokensFade /\ NewTokensInOrder
              /\ CopiesInOrder' /\ NamedIssued'
  <2> DEFINE at == IF WritesAccount(work[w]) THEN "holding" ELSE "loaded"
             q == [work[w] EXCEPT !.at = at, !.copy = WithPrincipal(work[w].copy)]
  <2>1. work' = [work EXCEPT ![w] = q] /\ UNCHANGED <<person, tokens, lost>>
    BY <1>0, <1>15 DEF LoadPrincipal, Tasks
  <2>2. /\ q.at \in {"holding", "loaded"} /\ q.copy = WithPrincipal(work[w].copy)
        /\ q.targets = work[w].targets
    BY <1>0 DEF Tasks
  <2> HIDE DEF q
  <2>3. NamesIssued(work[w], tokens)
    BY DEF NamedIssued
  <2>4. CopyInOrder(q, person) /\ NamesIssued(q, tokens)
    BY <1>2, <2>2, <2>3 DEF CopyInOrder, NamesIssued, HasCopy
  <2>5. QED
    BY <2>1, <2>4, StartInOrder
<1>16. ASSUME NEW w \in Workers, LoadOwnAccount(w)
       PROVE  /\ Newer /\ OldTokensFade /\ NewTokensInOrder
              /\ CopiesInOrder' /\ NamedIssued'
  <2> DEFINE q == [work[w] EXCEPT !.at = "loaded", !.copy = WithAccount(work[w].copy)]
  <2>1. work' = [work EXCEPT ![w] = q] /\ UNCHANGED <<person, tokens, lost>>
    BY <1>0, <1>16 DEF LoadOwnAccount, Tasks
  <2>2. /\ q.at = "loaded" /\ q.copy = WithAccount(work[w].copy)
        /\ q.targets = work[w].targets
    BY <1>0 DEF Tasks
  <2> HIDE DEF q
  <2>3. CopyInOrder(work[w], person) /\ NamesIssued(work[w], tokens) /\ work[w].at = "own"
    BY <1>16 DEF LoadOwnAccount, CopiesInOrder, NamedIssued
  <2>4. InOrder(work[w].copy, person) /\ work[w].copy \in People
    BY <1>0, <2>3 DEF CopyInOrder, HasCopy, Tasks
  <2>5. InOrder(q.copy, person)
    BY <1>0, <2>2, <2>4, LoadedIsPerson DEF InOrder
  <2>6. CopyInOrder(q, person) /\ NamesIssued(q, tokens)
    BY <2>2, <2>3, <2>5 DEF CopyInOrder, NamesIssued, HasCopy
  <2>7. QED
    BY <2>1, <2>6, StartInOrder
<1>17. ASSUME NEW w \in Workers, CheckAccount(w)
       PROVE  /\ Newer /\ OldTokensFade /\ NewTokensInOrder
              /\ CopiesInOrder' /\ NamedIssued'
  <2>1. CopyInOrder(work[w], person) /\ NamesIssued(work[w], tokens)
    BY DEF CopiesInOrder, NamedIssued
  <2>2. work[w].at = "rotating" /\ UNCHANGED <<person, lost>>
    BY <1>17 DEF CheckAccount
  <2>3. CASE person.enabled /\ ~person.mustChange
    <3> DEFINE q == [work[w] EXCEPT !.at = "checked"]
    <3>1. work' = [work EXCEPT ![w] = q] /\ UNCHANGED <<person, tokens, lost>>
      BY <1>0, <1>17, <2>3 DEF CheckAccount
    <3>2. /\ q.at = "checked" /\ q.copy = work[w].copy /\ q.token = work[w].token
          /\ q.targets = work[w].targets
      BY <1>0 DEF Tasks
    <3> HIDE DEF q
    <3>3. CopyInOrder(q, person) /\ NamesIssued(q, tokens)
      BY <2>1, <2>2, <2>3, <3>2 DEF CopyInOrder, NamesIssued, HasCopy, Entitled
    <3>4. QED
      BY <3>1, <3>3, StartInOrder
  <2>4. CASE ~(person.enabled /\ ~person.mustChange)
    <3>1. work' = [work EXCEPT ![w] = Spare] /\ tokens' = Revoked({work[w].token})
      BY <1>17, <2>4 DEF CheckAccount
    <3>2. Issued(work[w].token)
      BY <2>1, <2>2 DEF NamesIssued, Issued
    <3>3. Newer /\ OldTokensFade /\ NewTokensInOrder
      BY <2>2, <3>1, <3>2, RevokedEnds DEF Newer, NewTokensInOrder
    <3>4. QED
      BY <1>1, <3>1, <3>3, OthersInOrder, RestInOrder
  <2>5. QED
    BY <2>3, <2>4
<1>7. ASSUME NEW w \in Workers, NEW t \in Tokens, InsertSession(w, t) \/ RotateToken(w, t)
      PROVE  /\ Newer /\ OldTokensFade /\ NewTokensInOrder
             /\ CopiesInOrder' /\ NamedIssued'
  <2>1. /\ work' = [work EXCEPT ![w] = Spare] /\ UNCHANGED <<person, lost>>
        /\ work[w].at \in {"signing", "checked"} /\ ~Issued(t)
    BY <1>7 DEF InsertSession, RotateToken
  <2>2. CopyInOrder(work[w], person) /\ NamesIssued(work[w], tokens)
    BY DEF CopiesInOrder, NamedIssued
  <2>3. /\ TokenOf(work[w].copy).role = tokens'[t].role
        /\ TokenOf(work[w].copy).version = tokens'[t].version
    BY <1>0, <1>7 DEF InsertSession, RotateToken
  <2>4. \A u \in Tokens \ {t} :
            \/ tokens'[u] = tokens[u]
            \/ tokens'[u] = [tokens[u] EXCEPT !.status = "revoked"] /\ Issued(u)
    BY <1>0, <1>7, <2>2 DEF InsertSession, RotateToken, NamesIssued, Issued
  <2>5. \A u \in Tokens \ {t} : /\ Issued(u)' <=> Issued(u)
                                /\ Alive(u)' => Alive(u)
                                /\ tokens'[u].role = tokens[u].role
                                /\ tokens'[u].version = tokens[u].version
    BY <1>0, <2>4 DEF TokenRows, Issued, Alive
  <2>6. TokenInOrder(TokenOf(work[w].copy), person)
    BY <2>1, <2>2, TokenOfInOrder
  <2>7. TokenInOrder(tokens'[t], person')
    BY <2>1, <2>3, <2>6 DEF TokenInOrder
  <2>8. OldTokensFade
    BY <2>1, <2>5 DEF OldTokensFade
  <2>9. NewTokensInOrder
    BY <2>5, <2>7 DEF NewTokensInOrder
  <2>10. QED
    BY <1>1, <2>1, <2>8, <2>9, OthersInOrder, RestInOrder DEF Newer
<1>8. ASSUME NEW w \in Workers, CommitAlone(w)
      PROVE  /\ Newer /\ OldTokensFade /\ NewTokensInOrder
             /\ CopiesInOrder' /\ NamedIssued'
  <2> DEFINE q == [Spare EXCEPT !.at = "written", !.op = "update"]
  <2>1. /\ work' = [work EXCEPT ![w] = q] /\ UNCHANGED tokens
        /\ work[w].at = "loaded" /\ CommitChange(w)
    BY <1>8 DEF CommitAlone
  <2>2. InOrder(work[w].copy, person)
    BY <2>1 DEF CopiesInOrder, CopyInOrder, HasCopy
  <2>3. Newer
    BY <2>1, <2>2, CommitKeepsOrder DEF Newer
  <2>4. OldTokensFade /\ NewTokensInOrder
    BY <2>1 DEF OldTokensFade, NewTokensInOrder, Issued, Alive
  <2>5. CopyInOrder(q, person') /\ NamesIssued(q, tokens')
    BY DEF CopyInOrder, NamesIssued, HasCopy, Spare
  <2>6. QED
    BY <1>1, <2>1, <2>3, <2>4, <2>5, OthersInOrder
<1>9. ASSUME NEW w \in Workers, SelectTargets(w)
      PROVE  /\ Newer /\ OldTokensFade /\ NewTokensInOrder
             /\ CopiesInOrder' /\ NamedIssued'
  <2> DEFINE q == [work[w] EXCEPT !.at = "revoking", !.targets = LiveTokens]
  <2>1. work' = [work EXCEPT ![w] = q] /\ UNCHANGED <<person, tokens, lost>>
    BY <1>0, <1>9 DEF SelectTargets
  <2>2. CopyInOrder(work[w], person) /\ work[w] \in Tasks
    BY <1>0 DEF CopiesInOrder
  <2>3. CopyInOrder(q, person)
    BY <1>9, <2>2 DEF SelectTargets, CopyInOrder, HasCopy, Tasks
  <2>4. NamesIssued(q, tokens)
    BY <2>2 DEF NamesIssued, LiveTokens, Alive, Tasks
  <2>5. QED
    BY <2>1, <2>3, <2>4, StartInOrder
<1>10. ASSUME NEW w \in Workers, CommitTargets(w)
       PROVE  /\ Newer /\ OldTokensFade /\ NewTokensInOrder
              /\ CopiesInOrder' /\ NamedIssued'
  <2>1. /\ work' = [work EXCEPT ![w] = Spare] /\ tokens' = Revoked(work[w].targets)
        /\ work[w].at = "revoking"
        /\ UNCHANGED person \/ (work[w].op # "update" /\ CommitChange(w))
    BY <1>10 DEF CommitTargets
  <2>2. CopyInOrder(work[w], person) /\ NamesIssued(work[w], tokens)
    BY DEF CopiesInOrder, NamedIssued
  <2>3. Newer
    <3>1. CASE UNCHANGED person
      BY <3>1 DEF Newer
    <3>2. CASE work[w].op # "update" /\ CommitChange(w)
      <4>1. InOrder(work[w].copy, person)
        BY <2>1, <2>2, <3>2 DEF CopyInOrder, HasCopy
      <4>2. QED
        BY <3>2, <4>1, CommitKeepsOrder DEF Newer
    <3>3. QED
      BY <2>1, <3>1, <3>2
  <2>4. OldTokensFade /\ NewTokensInOrder
    BY <2>1, <2>2, RevokedEnds DEF NamesIssued, NewTokensInOrder, Issued
  <2>5. QED
    BY <1>1, <2>1, <2>3, <2>4, OthersInOrder, RestInOrder
<1>11. ASSUME NEW w \in Workers, AbortWork(w)
       PROVE  /\ Newer /\ OldTokensFade /\ NewTokensInOrder
              /\ CopiesInOrder' /\ NamedIssued'
  BY <1>11, RestInOrder, StartInOrder DEF AbortWork
<1>12. ASSUME NEW t \in Tokens, EndToken(t)
       PROVE  /\ Newer /\ OldTokensFade /\ NewTokensInOrder
              /\ CopiesInOrder' /\ NamedIssued'
  <2>1. tokens' = Revoked({t}) /\ Alive(t) /\ UNCHANGED <<person, work, lost>>
    BY <1>12 DEF EndToken
  <2>2. Newer /\ OldTokensFade /\ NewTokensInOrder
    BY <2>1, RevokedEnds DEF Newer, NewTokensInOrder, Issued, Alive
  <2>3. CopiesInOrder'
    BY <2>1 DEF CopiesInOrder
  <2>4. ASSUME NEW w \in Workers PROVE NamesIssued(work'[w], tokens')
    <3>1. work[w].targets \subseteq Tokens /\ NamesIssued(work[w], tokens)
      BY <1>0 DEF Tasks, NamedIssued
    <3>2. QED
      BY <2>1, <2>2, <3>1 DEF NamesIssued, OldTokensFade, Issued
  <2>5. QED
    BY <2>2, <2>3, <2>4 DEF NamedIssued
<1>13. QED
  BY <1>3, <1>4, <1>5, <1>6, <1>7, <1>8, <1>9, <1>10, <1>11, <1>12, <1>14, <1>15, <1>16, <1>17
     DEF Change

------------------------------------------------------------------------------
(* The invariant.                                                          *)

LEMMA TokensStayInOrder ==
    ASSUME AccessTypeOK, AccessTypeOK', TokensInOrder, Newer, OldTokensFade, NewTokensInOrder
    PROVE  TokensInOrder'
<1>1. ASSUME NEW t \in Tokens, Issued(t)'
      PROVE  TokenInOrder(tokens'[t], person')
  <2>1. CASE Issued(t)
    <3>1. /\ TokenInOrder(tokens[t], person) /\ tokens[t] \in TokenRows
          /\ person \in People /\ person' \in People
      BY <2>1 DEF TokensInOrder, AccessTypeOK
    <3>2. TokenInOrder(tokens[t], person')
      BY <3>1, NewerKeepsOrder DEF Newer
    <3>3. /\ tokens'[t].role = tokens[t].role
          /\ tokens'[t].version = tokens[t].version
      BY <2>1 DEF OldTokensFade
    <3>4. QED
      BY <3>2, <3>3 DEF TokenInOrder
  <2>2. CASE ~Issued(t)
    BY <1>1, <2>2 DEF NewTokensInOrder
  <2>3. QED
    BY <2>1, <2>2
<1>2. QED
  BY <1>1 DEF TokensInOrder

\* A token that has not been overtaken belongs to a user who may sign in.
LEMMA MatchingIsEligible ==
    ASSUME TokensInOrder, NEW t \in Tokens, Issued(t),
           person.active, person.role = tokens[t].role, person.version = tokens[t].version
    PROVE  Eligible
  BY DEF TokensInOrder, TokenInOrder, Entitled, Eligible

LEMMA InvariantKept ==
    ASSUME IInv, [AccessNext]_accessVars
    PROVE  IInv'
<1>1. AccessTypeOK /\ AccessTypeOK'
  BY TypesKept DEF IInv
<1>2. CASE lost'
  BY <1>1, <1>2 DEF IInv
<1>3. CASE ~lost' /\ Change /\ Noticing /\ ~lost
  <2>1. CopiesInOrder /\ NamedIssued /\ TokensInOrder /\ PageInOrder
    BY <1>3 DEF IInv
  <2>2. /\ Newer /\ OldTokensFade /\ NewTokensInOrder
        /\ CopiesInOrder' /\ NamedIssued'
    BY <1>1, <1>3, <2>1, ChangeInOrder
  <2>3. TokensInOrder'
    BY <1>1, <2>1, <2>2, TokensStayInOrder
  <2>4. PageInOrder'
    <3> DEFINE valid == \E t \in Tokens : t = page.token /\ Valid(t)'
    <3>1. page' = [page EXCEPT !.current = page.current \/ valid]
      BY <1>3 DEF Noticing
    <3> HIDE DEF valid
    <3>2. /\ page'.at = page.at /\ page'.token = page.token
          /\ page'.current = (page.current \/ valid)
      BY <1>1, <3>1 DEF AccessTypeOK
    <3>3. ASSUME NEW t \in Tokens, page.token = t, page.at # "none"
          PROVE  /\ Issued(t)'
                 /\ Valid(t)' => valid
                 /\ page.at = "principal" /\ Alive(t)' => page.current
      <4>1. Issued(t) /\ (page.at = "principal" /\ Alive(t) => page.current)
        BY <2>1, <3>3 DEF PageInOrder
      <4>2. Issued(t)' /\ (Alive(t)' => Alive(t))
        BY <2>2, <4>1 DEF OldTokensFade
      <4>3. Valid(t)' => valid
        BY <3>3 DEF valid
      <4>4. QED
        BY <4>1, <4>2, <4>3
    <3>4. /\ page.at # "none" => page.token \in Tokens
          /\ page.at \in {"session", "served"} => page.current
      BY <2>1 DEF PageInOrder
    <3>5. QED
      BY <3>2, <3>3, <3>4 DEF PageInOrder, Issued, Alive, Valid, Eligible
  <2>5. QED
    BY <1>1, <2>2, <2>3, <2>4 DEF IInv
<1>4. CASE ~lost' /\ PageNext /\ UNCHANGED <<person, tokens, work, lost>>
  <2>1. CopiesInOrder /\ NamedIssued /\ TokensInOrder /\ PageInOrder
    BY <1>4 DEF IInv
  <2>2. CopiesInOrder' /\ NamedIssued' /\ TokensInOrder'
    BY <1>4, <2>1 DEF CopiesInOrder, NamedIssued, TokensInOrder, Issued
  <2>4. ASSUME NEW t \in Tokens, BeginPage(t)
        PROVE  PageInOrder'
    <3>1. page' = [at |-> "token", token |-> t, current |-> Valid(t)] /\ Issued(t)
      BY <2>4 DEF BeginPage
    <3>2. page'.at = "token" /\ page'.token = t /\ (Valid(t) => page'.current)
      BY <3>1
    <3>3. QED
      BY <1>4, <3>1, <3>2 DEF PageInOrder, Issued, Valid, Alive, Eligible
  <2>5. ASSUME EndPage PROVE PageInOrder'
    BY <2>5 DEF EndPage, NoPage, PageInOrder
  <2>6. ASSUME NEW t \in Tokens, page.token = t, page.at # "none",
               NEW to \in {"principal", "session", "served"}, page' = [page EXCEPT !.at = to],
               to = "principal" /\ Alive(t) => page.current,
               to \in {"session", "served"} => page.current
        PROVE  PageInOrder'
    <3>1. page'.at = to /\ page'.token = t /\ page'.current = page.current
      BY <1>1, <2>6 DEF AccessTypeOK
    <3>2. Issued(t) /\ (Valid(t) => page.current)
      BY <2>1, <2>6 DEF PageInOrder
    <3>3. QED
      BY <1>4, <2>6, <3>1, <3>2 DEF PageInOrder, Issued, Valid, Alive, Eligible
  <2>7. ASSUME ReadPrincipal PROVE PageInOrder'
    <3>1. /\ page.at = "token" /\ Matches(page.token)
          /\ page' = [page EXCEPT !.at = "principal"]
      BY <2>7 DEF ReadPrincipal, PageStep
    <3>2. PICK t \in Tokens : page.token = t /\ Issued(t)
      BY <2>1, <3>1 DEF PageInOrder
    <3>3. person.active /\ person.role = tokens[t].role /\ person.version = tokens[t].version
      BY <3>1, <3>2 DEF Matches, SameRole
    <3>4. Eligible
      BY <2>1, <3>2, <3>3, MatchingIsEligible
    <3>5. Alive(t) => page.current
      BY <2>1, <3>1, <3>2, <3>3, <3>4 DEF PageInOrder, Valid
    <3>6. QED
      BY <2>6, <3>1, <3>2, <3>5
  <2>8. ASSUME ReadSession PROVE PageInOrder'
    <3>1. /\ page.at = "principal" /\ Alive(page.token)
          /\ page' = [page EXCEPT !.at = "session"]
      BY <2>8 DEF ReadSession, PageStep
    <3>2. page.token \in Tokens /\ page.current
      BY <2>1, <3>1 DEF PageInOrder
    <3>3. QED
      BY <2>6, <3>1, <3>2
  <2>9. ASSUME ReadAccount PROVE PageInOrder'
    <3>1. page.at = "session" /\ page' = [page EXCEPT !.at = "served"]
      BY <2>9 DEF ReadAccount, PageStep
    <3>2. page.token \in Tokens /\ page.current
      BY <2>1, <3>1 DEF PageInOrder
    <3>3. QED
      BY <2>6, <3>1, <3>2
  <2>10. QED
    BY <1>1, <1>4, <2>2, <2>4, <2>5, <2>7, <2>8, <2>9 DEF IInv, PageNext
<1>5. CASE UNCHANGED accessVars
  BY <1>5 DEF accessVars, IInv, AccessTypeOK, CopiesInOrder, NamedIssued, TokensInOrder,
              PageInOrder, Issued, Alive, Valid, Eligible
<1>6. ~lost' /\ Change => ~lost
  BY <1>1, LossIsRemembered
<1>7. QED
  BY <1>2, <1>3, <1>4, <1>5, <1>6 DEF AccessNext, PageNext

------------------------------------------------------------------------------
(* Theorems.                                                               *)

LEMMA InitIsInOrder == AccessInit => IInv
<1> SUFFICES ASSUME AccessInit PROVE IInv
  OBVIOUS
<1>1. person \in People
  BY VersionAssumption DEF AccessInit, People, Rights, Versions
<1>2. tokens \in [Tokens -> TokenRows] /\ \A t \in Tokens : ~Issued(t)
  BY VersionAssumption DEF AccessInit, TokenRows, Rights, Versions, Issued
<1>3. work \in [Workers -> Tasks] /\ \A w \in Workers : work[w] = Spare
  BY SpareIsTask DEF AccessInit
<1>4. AccessTypeOK
  BY <1>1, <1>2, <1>3 DEF AccessInit, AccessTypeOK, Tasks, NoPage
<1>5. CopiesInOrder /\ NamedIssued
  BY <1>3, RestInOrder DEF CopiesInOrder, NamedIssued
<1>6. TokensInOrder /\ PageInOrder
  BY <1>2 DEF AccessInit, NoPage, TokensInOrder, PageInOrder
<1>7. QED
  BY <1>4, <1>5, <1>6 DEF IInv

THEOREM Invariant == AccessSpec => []IInv
<1>1. AccessInit => IInv
  BY InitIsInOrder
<1>2. IInv /\ [AccessNext]_accessVars => IInv'
  BY InvariantKept
<1>3. QED
  BY <1>1, <1>2, PTL DEF AccessSpec

\* The rows, the copies and the request for a page keep their types (models.py and
\* what the requests of router.py and dependencies.py hold).
THEOREM AccessTypes == AccessSpec => []AccessTypeOK
<1>1. IInv => AccessTypeOK
  BY DEF IInv
<1>2. QED
  BY <1>1, Invariant, PTL

\* get_current_principal reads rows at three moments, and serves a page only to a
\* token that was valid at one.
THEOREM PagesAuthorized == AccessSpec => []AuthorizedAtOneMoment
<1>1. IInv => AuthorizedAtOneMoment
  BY DEF IInv, PageInOrder, AuthorizedAtOneMoment
<1>2. QED
  BY <1>1, Invariant, PTL
==============================================================================
