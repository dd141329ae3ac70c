----------------------------- MODULE PageAccess ------------------------------
(***************************************************************************)
(* Who may read a page of the portal: the access token is checked against  *)
(* the current principal, its session and its account by three statements, *)
(* while administrators change the user's rights, passwords are reset and  *)
(* renewed, and the user signs in and refreshes sessions.                  *)
(*                                                                         *)
(* One user with a local account.  Every step is a statement or a commit;  *)
(* requests write what they changed of the copies they have loaded, the    *)
(* account and the principal each at its own moment.                       *)
(***************************************************************************)
EXTENDS Naturals

CONSTANTS Workers,      \* requests, other than for a page, that may be in progress
          Tokens,       \* session rows, each with the access token issued with it
          Wishes,       \* bound: the updates administrators may ask for
          LastVersion,  \* bound of authorization_version
          None

ASSUME TokenAssumption == None \notin Tokens
ASSUME WishesAssumption ==
    Wishes \subseteq [role : {"ADMIN", "READ_ONLY", None}, enabled : {TRUE, FALSE, None}]
ASSUME VersionAssumption == LastVersion \in Nat \ {0}

VARIABLES person,  \* the principal joined with its local account
          tokens,  \* auth_refresh_session, with the claims of the token of each row
          work,    \* what each request works on
          page,    \* the request for a page
          lost     \* history: an increment of authorization_version was overwritten

accessVars == <<person, tokens, work, page, lost>>

Rights == {"ADMIN", "READ_ONLY"}
Versions == 1 .. LastVersion

People == [role : Rights, active : BOOLEAN, version : Versions, enabled : BOOLEAN,
           mustChange : BOOLEAN]

TokenRows == [status : {"none", "live", "revoked"}, role : Rights, version : Versions]

\* What an update asks for; None leaves a column alone.
Payloads == [role : Rights \cup {None}, enabled : BOOLEAN \cup {None}]

\* current: whether the token was valid at some moment since the request arrived.
NoPage == [at |-> "none", token |-> None, current |-> FALSE]

Spare == [at |-> "idle", op |-> "none", token |-> None, targets |-> {},
          copy |-> [role |-> "READ_ONLY", active |-> TRUE, version |-> 1, enabled |-> TRUE,
                    mustChange |-> FALSE],
          wish |-> [role |-> None, enabled |-> None]]

AccessTypeOK ==
    /\ person \in People
    /\ tokens \in [Tokens -> TokenRows]
    /\ work \in [Workers ->
           [at : {"idle", "signing", "rotating", "checked", "own", "account", "loaded",
                  "holding", "written", "revoking"},
            op : {"none", "update", "reset", "consume"}, token : Tokens \cup {None},
            targets : SUBSET Tokens, copy : People, wish : Payloads]]
    /\ page \in [at : {"none", "token", "principal", "session", "served"},
                 token : Tokens \cup {None}, current : BOOLEAN]
    /\ lost \in BOOLEAN

AccessInit ==
    /\ person = [role |-> "ADMIN", active |-> TRUE, version |-> 1, enabled |-> TRUE,
                 mustChange |-> FALSE]
    /\ tokens = [t \in Tokens |-> [status |-> "none", role |-> "READ_ONLY", version |-> 1]]
    /\ work = [w \in Workers |-> Spare]
    /\ page = NoPage
    /\ lost = FALSE

------------------------------------------------------------------------------

Eligible == person.active /\ person.enabled /\ ~person.mustChange

Issued(t) == tokens[t].status # "none"
Alive(t)  == tokens[t].status = "live"

\* The slip of a check that does not compare versions.
SameRole(t) == person.active /\ person.role = tokens[t].role
Matches(t)  == SameRole(t) /\ person.version = tokens[t].version

\* All that get_current_principal looks at, at one moment.
Valid(t) == Eligible /\ Alive(t) /\ person.role = tokens[t].role
                                /\ person.version = tokens[t].version

\* What a request has loaded when it has read the principal, or the account.
WithPrincipal(copy) ==
    [copy EXCEPT !.role = person.role, !.active = person.active, !.version = person.version]
WithAccount(copy) ==
    [copy EXCEPT !.enabled = person.enabled, !.mustChange = person.mustChange]

\* A refresh holds the row of the session it rotates.
RowHeld(t) ==
    \E w \in Workers : work[w].at \in {"rotating", "checked"} /\ work[w].token = t

\* A reset writes the account unless the change is due already; a new password always.
WritesAccount(q) ==
    \/ q.op = "consume"
    \/ q.op = "reset" /\ ~q.copy.mustChange

\* They have flushed the principal, and the account, before they wait for sessions; the
\* account before that if there was a principal to be loaded.
Flushed(q)  == q.at = "revoking" /\ q.op # "update"
PersonTaken  == \E w \in Workers : Flushed(work[w])
AccountTaken ==
    \E w \in Workers : \/ work[w].at = "holding"
                       \/ Flushed(work[w]) /\ WritesAccount(work[w])

Overwritten(copy, set, row) ==
    [f \in DOMAIN row |-> IF set[f] = copy[f] THEN row[f] ELSE set[f]]

LiveTokens == {t \in Tokens : Alive(t)}

\* The slip of a revocation that deletes the rows.
Deleted(targets) == [t \in Tokens \ targets |-> tokens[t]]
Revoked(targets) ==
    [t \in Tokens |-> IF t \in targets THEN [tokens[t] EXCEPT !.status = "revoked"]
                      ELSE tokens[t]]

------------------------------------------------------------------------------
(* Sign-in and refresh issue a token from the principal they have read.    *)

\* Sign-in reads the principal under the lock of the account.
BeginSignIn(w) ==
    /\ work[w].at = "idle"
    /\ ~AccountTaken
    /\ Eligible
    /\ work' = [work EXCEPT ![w] = [Spare EXCEPT !.at = "signing", !.copy = person]]
    /\ UNCHANGED <<person, tokens, lost>>

TokenOf(copy) == [status |-> "live", role |-> copy.role, version |-> copy.version]

InsertSession(w, t) ==
    /\ work[w].at = "signing"
    /\ ~Issued(t)
    /\ tokens' = [tokens EXCEPT ![t] = TokenOf(work[w].copy)]
    /\ work' = [work EXCEPT ![w] = Spare]
    /\ UNCHANGED <<person, lost>>

\* The row is locked and found live, then the principal is read, then the account.
BeginRefresh(w, t) ==
    /\ work[w].at = "idle"
    /\ Alive(t)
    /\ ~RowHeld(t)
    /\ person.active
    /\ work' = [work EXCEPT ![w] = [Spare EXCEPT !.at = "rotating", !.token = t,
                                                 !.copy = WithPrincipal(@)]]
    /\ UNCHANGED <<person, tokens, lost>>

CheckAccount(w) ==
    /\ work[w].at = "rotating"
    /\ IF person.enabled /\ ~person.mustChange
       THEN work' = [work EXCEPT ![w].at = "checked"] /\ UNCHANGED tokens
       ELSE work' = [work EXCEPT ![w] = Spare] /\ tokens' = Revoked({work[w].token})
    /\ UNCHANGED <<person, lost>>

RotateToken(w, t) ==
    /\ work[w].at = "checked"
    /\ ~Issued(t)
    /\ tokens' = [tokens EXCEPT ![t] = TokenOf(work[w].copy),
                                ![work[w].token].status = "revoked"]
    /\ work' = [work EXCEPT ![w] = Spare]
    /\ UNCHANGED <<person, lost>>

\* A session is logged out, or expires.
EndToken(t) ==
    /\ Alive(t)
    /\ ~RowHeld(t)
    /\ tokens' = Revoked({t})
    /\ UNCHANGED <<person, work, lost>>

------------------------------------------------------------------------------
(* The user's rights change.                                               *)

\* A request loads the account, and the principal when it needs it; what it has
\* assigned to the account by then is flushed.
BeginUpdate(w, wish) ==
    /\ work[w].at = "idle"
    /\ work' = [work EXCEPT ![w] = [Spare EXCEPT !.at = "account", !.op = "update",
                                                 !.copy = WithAccount(@), !.wish = wish]]
    /\ UNCHANGED <<person, tokens, lost>>

BeginPassword(w, op) ==
    /\ work[w].at = "idle"
    /\ op \in {"reset", "consume"}
    /\ work' = [work EXCEPT ![w] = [Spare EXCEPT !.at = "account", !.op = op,
                                                 !.copy = WithAccount(@)]]
    /\ UNCHANGED <<person, tokens, lost>>

LoadPrincipal(w) ==
    /\ work[w].at = "account"
    /\ WritesAccount(work[w]) => ~AccountTaken
    /\ work' = [work EXCEPT ![w].at = IF WritesAccount(work[w]) THEN "holding" ELSE "loaded",
                            ![w].copy = WithPrincipal(@)]
    /\ UNCHANGED <<person, tokens, lost>>

\* Of administrators who work on their own account, the authorization of the request
\* has loaded both rows, in the other order.
BeginOwn(w, op, wish) ==
    /\ work[w].at = "idle"
    /\ person.active /\ person.role = "ADMIN"
    /\ work' = [work EXCEPT ![w] = [Spare EXCEPT !.at = "own", !.op = op, !.wish = wish,
                                                 !.copy = WithPrincipal(@)]]
    /\ UNCHANGED <<person, tokens, lost>>

LoadOwnAccount(w) ==
    /\ work[w].at = "own"
    /\ person.enabled /\ ~person.mustChange
    /\ work' = [work EXCEPT ![w].at = "loaded", ![w].copy = WithAccount(@)]
    /\ UNCHANGED <<person, tokens, lost>>

Counted(differs) == IF differs THEN 1 ELSE 0

\* What update_local_account assigns to the copy.
Update(copy, wish) ==
    LET role == IF wish.role = None THEN copy.role ELSE wish.role
        enabled == IF wish.enabled = None THEN copy.enabled ELSE wish.enabled
    IN [copy EXCEPT !.role = role, !.enabled = enabled,
                    !.active = IF enabled = copy.enabled THEN @ ELSE enabled,
                    !.version = @ + Counted(role # copy.role)
                                  + Counted(enabled # copy.enabled)]

Reset(copy)   == [copy EXCEPT !.mustChange = TRUE, !.version = @ + 1]
Renewed(copy) == [copy EXCEPT !.mustChange = FALSE, !.enabled = TRUE, !.active = TRUE,
                              !.version = @ + 1]

Changed(q) ==
    CASE q.op = "update" -> Update(q.copy, q.wish)
      [] q.op = "reset"  -> Reset(q.copy)
      [] OTHER           -> Renewed(q.copy)

CommitChange(w) ==
    LET set == Changed(work[w]) IN
    /\ set.version <= LastVersion
    /\ person' = Overwritten(work[w].copy, set, person)
    /\ lost' = (lost \/ (set.version # work[w].copy.version
                         /\ work[w].copy.version # person.version))

\* An update is committed before the sessions are revoked.
CommitAlone(w) ==
    /\ work[w].at = "loaded"
    /\ work[w].op = "update"
    /\ LET copy == work[w].copy  set == Changed(work[w])
       IN /\ set.version # copy.version => ~PersonTaken
          /\ set.enabled # copy.enabled => ~AccountTaken
    /\ CommitChange(w)
    /\ work' = [work EXCEPT ![w] = [Spare EXCEPT !.at = "written", !.op = "update"]]
    /\ UNCHANGED tokens

\* The sessions to revoke are selected without locks: by an update after its commit,
\* otherwise after the flush of the change.
SelectTargets(w) ==
    /\ \/ work[w].at = "written"
       \/ /\ work[w].at \in {"loaded", "holding"}
          /\ work[w].op # "update"
          /\ ~PersonTaken
          /\ work[w].at = "loaded" /\ WritesAccount(work[w]) => ~AccountTaken
    /\ work' = [work EXCEPT ![w].at = "revoking", ![w].targets = LiveTokens]
    /\ UNCHANGED <<person, tokens, lost>>

\* They are written one by one, each after a refresh that holds it.
CommitTargets(w) ==
    /\ work[w].at = "revoking"
    /\ \A t \in work[w].targets : ~RowHeld(t)
    /\ tokens' = Revoked(work[w].targets)
    /\ IF work[w].op = "update" THEN UNCHANGED <<person, lost>> ELSE CommitChange(w)
    /\ work' = [work EXCEPT ![w] = Spare]

AbortWork(w) ==
    /\ work[w].at # "idle"
    /\ work' = [work EXCEPT ![w] = Spare]
    /\ UNCHANGED <<person, tokens, lost>>

------------------------------------------------------------------------------
(* A page is requested: three reads, each of what is committed by then.    *)

PageStep(from, to, check) ==
    /\ page.at = from
    /\ check
    /\ page' = [page EXCEPT !.at = to]

BeginPage(t) ==
    /\ page.at = "none"
    /\ Issued(t)
    /\ page' = [at |-> "token", token |-> t, current |-> Valid(t)]

ReadPrincipal == PageStep("token", "principal", Matches(page.token))
ReadSession   == PageStep("principal", "session", Alive(page.token))
ReadAccount   == PageStep("session", "served", person.enabled /\ ~person.mustChange)

\* The answer has been sent: a page, or the refusal after any of the reads.
EndPage ==
    /\ page.at # "none"
    /\ page' = NoPage

\* History: whatever else happens, the token of the request may be valid after it.
Noticing ==
    page' = [page EXCEPT !.current = @ \/ \E t \in Tokens : t = page.token /\ Valid(t)']

------------------------------------------------------------------------------

Change ==
    \/ \E w \in Workers, t \in Tokens :
           BeginRefresh(w, t) \/ InsertSession(w, t) \/ RotateToken(w, t)
    \/ \E w \in Workers :
           \/ BeginSignIn(w)
           \/ \E wish \in Wishes : BeginUpdate(w, wish)
           \/ \E op \in {"reset", "consume"} : BeginPassword(w, op)
           \/ \E wish \in Wishes : BeginOwn(w, "update", wish)
           \/ BeginOwn(w, "reset", Spare.wish)
           \/ LoadPrincipal(w) \/ LoadOwnAccount(w) \/ CheckAccount(w)
           \/ CommitAlone(w) \/ SelectTargets(w) \/ CommitTargets(w)
           \/ AbortWork(w)
    \/ \E t \in Tokens : EndToken(t)

AccessNext ==
    \/ Change /\ Noticing
    \/ /\ \/ \E t \in Tokens : BeginPage(t)
          \/ ReadPrincipal \/ ReadSession \/ ReadAccount
          \/ EndPage
       /\ UNCHANGED <<person, tokens, work, lost>>

AccessSpec == AccessInit /\ [][AccessNext]_accessVars
==============================================================================
