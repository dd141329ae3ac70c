----------------------- MODULE LocalAccountsProperties ------------------------
(***************************************************************************)
(* What LocalAccounts guarantees, and what the documents say of it.        *)
(***************************************************************************)
EXTENDS LocalAccounts

\* However often an administrator's operation is submitted under its
\* idempotency key, and wherever its request dies, it is done once at most; and
\* the audit trail never reports an operation that was not done
\* (reserve_idempotency_key commits before it, audit after it).
OncePerKey ==
    \A k \in Keys : applied[k] <= 1 /\ (k \in audited => applied[k] = 1)

\* The last administrator is removed only by an update that overlapped another one: those
\* it counted as remaining have all been removed since, or it counted nobody because it
\* had loaded the account before that became an administrator's.
LastAdminNeedsOverlap ==
    [][CountedAdmins # {} /\ CountedAdmins' = {} =>
          \E r \in Requests :
              /\ CommitUpdate(r)
              /\ \/ /\ RemovesAdmin(r)
                    /\ req[r].counted # {}
                    /\ req[r].counted \cap CountedAdmins = {}
                 \/ /\ req[r].copy.role # "ADMIN"
                    /\ accounts[req[r].account].role = "ADMIN"]_vars

Stale(s) == Live(s) /\ sessions[s].password # accounts[sessions[s].account].password

\* A session of a replaced password is there only by an overlap: it was inserted after its
\* credentials were accepted under the earlier one, or between the selection of the
\* sessions to revoke and the commit of the new password, or it succeeded such a session.
\* A password that is set between two requests leaves none behind.
StaleOnlyByOverlap ==
    [][\A s \in SessionIds : Stale(s)' =>
          \/ Stale(s)
          \/ \E r \in Requests :
                \/ CreateSession(r, s)
                \/ CommitRefresh(r, s) /\ \E t \in req[r].ends : Stale(t)
                \/ CommitPassword(r) /\ s \in late[r]]_vars

\* r commits an update of a that asks for this value of the column; r sets a new password
\* with a code that was issued for a and is open until then.
AskedFor(r, a, column, value) ==
    CommitUpdate(r) /\ req[r].account = a /\ req[r].payload[column] = value

Redeems(r, a) ==
    /\ CommitPassword(r)
    /\ req[r].account = a
    /\ Open(req[r].code) /\ codes[req[r].code].account = a
    /\ codes'[req[r].code].status = "consumed"

\* However many requests work on copies of the same account, what an account may do
\* changes only by a request that was made to change it, and to what it asks for: a
\* stale copy never brings back a role, a disabled account or a password that is due
\* for change.  What enables an account or ends the change that is due without an
\* administrator is an open code of that very account, and it is spent by that.
RightsChangeOnPurpose ==
    [][\A a \in Accounts : Exists(a) =>
          /\ accounts'[a].role # accounts[a].role =>
                 \E r \in Requests : AskedFor(r, a, "role", accounts'[a].role)
          /\ \A column \in {"enabled", "active"} :
                 accounts'[a][column] # accounts[a][column] =>
                     \E r \in Requests : \/ AskedFor(r, a, "enabled", accounts'[a][column])
                                         \/ accounts'[a][column] /\ Redeems(r, a)
          /\ accounts'[a].mustChange # accounts[a].mustChange =>
                 \E r \in Requests : \/ ~accounts'[a].mustChange /\ Redeems(r, a)
                                     \/ /\ accounts'[a].mustChange
                                        /\ CommitReset(r) /\ req[r].account = a]_vars

\* The promise of OneTimeCode, kept by the password actions.
ActionState(c) ==
    CASE codes[c].status = "unused" -> "absent"
      [] codes[c].status = "open" -> "issued"
      [] codes[c].status = "consumed" /\ grants[c].count > 0 -> "redeemed"
      [] OTHER -> "void"

Promise == INSTANCE OneTimeCode WITH
    Holders <- Accounts,
    state <- [c \in Codes |-> ActionState(c)],
    holder <- [c \in Codes |-> codes[c].account]

\* The password actions implement OneTimeCode: a code sets the password of the
\* account it was issued for, once, or becomes void for good - by expiry or by
\* a later code - whatever administrators and users do at the same time.
ActionsAreOneTimeCodes == Promise!Spec

\* docs/architecture/ping-sso-integration-plan.md:502 says that the
\* administration of local accounts is protected against disabling or demoting
\* the final active administrator.
FinalAdminProtected == CountedAdmins # {}

\* docs/architecture/data-model.md:113 says that issuing a new password action
\* consumes any older outstanding code for the same account.
OneOutstandingCode ==
    \A c, d \in Codes : Open(c) /\ Open(d) /\ codes[c].account = codes[d].account => c = d

\* docs/architecture/ping-sso-integration-plan.md:436 says that a password
\* reset revokes all existing sessions of the account: nobody who signed in
\* with an earlier password is let in any more.
OldPasswordsLockedOut == \A s \in SessionIds : Stale(s) => ~Accepted(s)
==============================================================================
