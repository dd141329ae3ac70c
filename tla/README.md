# A TLA+ model of the DSP hub

The hub is a FastAPI service. What it keeps, and what several requests fight over, is the
authentication state in PostgreSQL (`app/auth`, `enterprise_auth`); most of this project models
that state and the transactions that change it. Behind it, the portal API (`app/api`,
`app/services`) computes pages from preview data, filtered for whoever asks: that part is
sequential, and modelled as functions of the scope of a request.

## The system

Handlers run in a thread pool, in several replicas, each request with one SQLAlchemy `Session`.
Four facts about the database decide what can go wrong, and the modules take them from the code:

* PostgreSQL runs at READ COMMITTED (`app/auth/db.py` sets no other level): every statement sees
  what was committed before it, so a transaction can read two different states.
* `SELECT ... FOR UPDATE` and `UPDATE` lock a row to the end of the transaction.
* `expire_on_commit` is off, and a query does not refresh an object the session already holds: a
  request goes on with the columns it first loaded, also under a lock and after a commit.
* A handler may commit several times (`reserve_idempotency_key`, `audit` and most repository
  methods commit): between two commits anybody may act, and the process may die.

| component | state | operations |
|---|---|---|
| refresh sessions (`repository.py:387-473`, `service.py:101-200`) | `auth_refresh_session`: principal, family, version, authentication instant, end, `revoked_at`, `replaced_by` | sign-in, refresh (rotation, reuse detection, refusal), logout, revocation of a family and of a principal |
| SAML sign-in (`router.py:221-426`, `repository.py:163-385`) | `saml_login_transaction`, `saml_assertion_replay`, `auth_exchange_code`, the nonce cookie | begin a login, ACS, exchange of the code |
| local accounts (`router.py:429-529, 619-768`, `repository.py:60-161, 475-533`) | `principal`, `local_account`, `local_password_action` | create, update, issue and consume a password action, sign-in |
| login throttle (`service.py:74-99`, `repository.py:108-126`) | `failed_attempts`, `locked_until` | failure, success, unlock |
| rate limit (`repository.py:535-573`) | `auth_rate_limit_bucket` | count a request |
| idempotency and audit (`repository.py:575-642`) | `auth_idempotency_key`, `authentication_audit_event` | reserve, append |
| authorization of a request (`dependencies.py`) | none of its own; three reads of principal, session and account | check token, session row, principal and version; the resource scope |
| cleanup (`cleanup.py`, `repository.py:590-610`) | the expired rows of seven tables | delete a batch |
| bootstrap (`bootstrap.py`) | the first administrator | count, create |
| SAML adapter, tokens, hashing, configuration (`enterprise_auth`, `app/core`) | none | pure |
| portal API and preview services (`app/api`, `app/services`) | constant preview data | the pages: home, devspaces, jobs, VMs, their details, data access, control plane |

Components meet in the tables: a password action, an update of an account and a SAML response
write the principal that sign-in, refresh and every authorized request read; a reset and an update
revoke sessions; the exchange of a code and a local sign-in create them; the cleanup job deletes
under all of them.

What is hard here, and hardly reached by the repository's tests (which are sequential): two requests
with one secret, a revocation overlapping a rotation, stale objects under a lock, several commits in
one handler, requests that outlive what they checked, the order in which the database gets to see
what the provider or an administrator decided first, the insertion race of a new rate-limit bucket,
a count or a version computed from a copy. In the pages: filters and numbers that are written again
in every service, with links from one to the other. `PROJECT.json` lists these as hazards at their
lines, with the property that covers each or the module that will.

## The modules

`SessionFamily` - what the session table promises, without requests, locks or SQL: a sign-in
starts a family on fixed terms, a family has one live credential, redeeming it replaces it inside
the family, and a family that lost its live credential never gets another.

`RefreshSessions` - the table with the requests that work on it. `sessions` is
`auth_refresh_session` (status for unused, live, revoked by `revoked_at`, deleted), `lock` the row
locks, `principals` the columns the decisions read; `pc`, `target`, `whose`, `seen` and `victims`
are the locals of each request: the row it locked, the principal it loaded, the version it read
and the rows a revocation selected. Its actions follow the code's statements: `Refresh` is the
locking select with the checks after it, `CheckEligibility` the separate load of the local
account, `Rotate` the commit; a revocation selects (`RevokePrincipalSessions`,
`BeginFamilyRevocation`), takes its row locks one UPDATE at a time in key order (`LockVictim`) and
commits; `BeginLogout` waits for the row and `CommitLogout` revokes that row alone. `Abort` is a
crash, a lost connection, an UPDATE that matched no row, or the victim of deadlock detection.
`UpdateLocalAccount`, `ReplaceCredential` and `ResolvePingPrincipal` are what other components
commit to a principal meanwhile; a version may be overwritten by one computed from an older read.
A request that is refused without a write is a stuttering step. A response that is lost needs no
action: any stored secret, old or new, may be presented at any time.

`OneTimeCode` - what a one-time code promises: issued for one holder, honoured once and only for
that holder, and void for good once it is void.

`SamlExchange` - sign-in through Ping. `BeginLogin` writes the transaction and sets the nonce
cookie (the response may get lost); `Answer` is the provider, external; `Check` is the unlocked
load with the validation of the response; `LockLogin` takes the row lock and goes on with the
status it loaded; `CommitCode` commits marker, principal and code together. `LockCode` and
`ConsumeCode` are `consume_exchange_code`, which spends a code also when it is expired or comes
from another browser; `CreateSession` is the transaction after it. `source` in a code row is a
history field: the table does not keep which assertion a code came from. `grants` counts the
sessions a code has given and to whom.

`LocalAccounts` - administration of local accounts, password actions, and sign-in and sessions as
far as they depend on them. `accounts` joins `local_account` with its principal, `codes` is
`local_password_action`, `keys` the reserved idempotency keys; `applied`, `audited` and `grants` are
history (what was done under a key, which of it has an audit event, which password a code set). An
administrator's request goes through its commits one by one: an update loads the account
(`BeginUpdate`), loads the principal, counts administrators and reserves its key (`ReserveUpdate`),
writes (`CommitUpdate`), revokes (`RevokeSessions`) and audits; an issue reserves (`Reserve`),
selects the outstanding codes, commits the new code (`CommitCode`), loads the principal and commits
the reset (`CommitReset`), and audits. Consumption is `LockCode`, `LoadPrincipal`, `CommitPassword`.
`Flushed` is SQLAlchemy's flush: only the columns that differ from the loaded copy are written. A
reset and a consumption flush the account when they load its principal and both when they select
sessions, and hold the rows they wrote until their commit (`AccountHeld`, `PrincipalHeld`); an
update flushes with its commit. Sessions are the live rows of `auth_refresh_session`, each with its
account, version and the password it was signed in with. A revocation selects them without locks
(`SelectSessions`) and ends those it selected when no refresh holds one of them (`RevokeSelected`);
for an update that is a transaction of its own, a reset and a consumption do it in the commit that
changes the account (`CommitReset`, `CommitPassword`). A refresh is three steps: it locks its row
and reads the principal (`BeginRefresh`), reads the account (`CheckAccount`), and inserts the
successor (`CommitRefresh`), which no selection before has seen. `late` is history: the sessions
inserted while a new password waits for its commit. `Abort` is a refusal or a crash anywhere;
`Accepted` is the check of `dependencies.py` on every request.

`Lockout` - what the lockout promises: between two resets of an account a bounded number of guesses
is answered, and the last one locks it.

`LocalLogin` - `POST /auth/local/login` up to its answer. `buckets` is
`auth_rate_limit_bucket`, `accounts` what sign-in uses of `local_account`, `login` the locals of
each request; `admitted` and `guesses` are history. A request arrives with the minute it reads
(`Arrive`), selects the bucket of the address under its row lock (`SelectBucket`), inserts or
increments it (`InsertBucket`, `CountRequest`), starts again when another was faster to insert
(`RetryCount`, the recursion of `allow_rate_limit`) or is refused (`RefuseRequest`); then the same
for the username. Behind them `LockAccount` locks the account and decides what it allows,
`AnswerFailure` and `AnswerSuccess` commit the outcome. `BeginClear` and `CommitClear` are an
administrator's unlock and a new password, which work on a copy loaded without the lock;
`CleanupBuckets` is the job's batch.

`PageAccess` - who gets a page. `person` is the principal joined with its local account, `tokens`
the session rows with the claims of the access token issued with each. `ReadPrincipal`,
`ReadSession` and `ReadAccount` are the three reads of `get_current_principal`; between them
administrators update role and status (`BeginUpdate`, `CommitAlone`, `SelectTargets`,
`CommitTargets`), passwords are reset and renewed (`BeginPassword`, and the same two last steps
in one commit), the user signs in and refreshes (`BeginSignIn`, `InsertSession`, `BeginRefresh`,
`CheckAccount`, `RotateToken`) and sessions end. A request loads the account first and the principal
when it needs it (`LoadPrincipal`), administrators who work on their own account the other way round,
by the authorization of the request (`BeginOwn`, `LoadOwnAccount`): a copy may join columns of two
moments. `Overwritten` is again the flush of the columns that differ from the copy, the version
among them: `+= 1` is computed in memory, and one that is overwritten sets `lost`, after which
everything goes on. `current` and `lost` are history.

`PreviewData`, `PortalPages` - the inventory the services hold, reduced to the columns they
compute with, and each page as a function of the scope: `Inventory`, `Jobs`, `DevspaceDetail`,
`VmDetail`, `Vms`, `Home`, `DataAccess`, `ControlPlane`. `Found` tells which addresses are
answered and which get 403 or 404; a visitor goes from page to page while the role changes.

`...Properties` state what is checked of a module, `MC...` instantiate it for TLC, `...Proofs` hold
the proofs; `Counting` has lemmas about finite sets that are not about the hub. `MCPortal` takes
`LocalLogin`, `PageAccess` and `PortalPages` in one run, and `MCProgress` `RefreshSessions` and
`LocalLogin`: these have no variable in common, `part` says whose behaviour it is and the others
rest, so that the states add up and do not multiply. A few definitions come in pairs (`NoLocking`
and `Locking`): the first is a plausible slip that is not part of the specification and shows that a
property would notice it.

## What the runs check

| run | instance | shows |
|---|---|---|
| `sessions_safety` | 3 rows; of a local principal whose version changes with 3 requests, or of a Ping administrator whose role changes with 2 requests, a clock and cleanup | types; a rotation holds its live row; one live session per family; a secret that was spent is never redeemed; a committed revocation ends the families of the live rows it selected; only two principal revocations can deadlock; refreshing extends neither lifetime nor reauthentication deadline; cleanup keeps the evidence of reuse; the table implements `SessionFamily` |
| `sessions_live` | sessions: 2 rows, 2 requests; sign-in: 2 requests, 2 usernames, one with an account; fairness | every request on sessions ends, deadlocks included; every sign-in is answered, also by way of the recursion of the rate limit |
| `login_and_pages` | sign-in: 2 requests, one account, 3 minutes; access: 2 requests, 2 tokens, 3 versions; pages: all sets of up to three names | no key has more requests let through in a minute than its limit, and none is forgotten or counted twice; sign-in implements `Lockout`; a page is served only to a token that was valid as a whole at one moment; visitors see entries of their own only; what a page links to is found; the numbers of the pages agree; running jobs are not cut off |
| `access_versions` | as `login_and_pages` | violated: a demotion that was loaded before a disablement changes the role and leaves the version |
| `sessions_logout` | 2 requests | violated: a logout with a replaced secret leaves the sign-in live |
| `sessions_revocation` | 2 requests | violated: a revocation misses the successor of a concurrent rotation |
| `saml_codes` | 2 browsers, logins, assertions, codes and requests, a clock | an assertion yields one code; a code yields one session, for the browser that began the login; the exchange implements `OneTimeCode` |
| `saml_login` | two assertions answer one login | violated: a concurrent ACS request gets a second code |
| `accounts_safety` | 2 accounts, codes, session keys and requests, 3 idempotency keys, one live session | an operation is done once per key and audited only if done; the last administrator is removed only by an update whose counted administrators were removed meanwhile or that loaded its target before a promotion; a replaced password keeps a session only by the overlap of its commit with a sign-in or a refresh; role, status and a change of password that is due are changed on purpose only, never by a stale copy; password actions implement `OneTimeCode` |
| `accounts_admin` | two administrators | violated: both are demoted, each counted for the other |
| `accounts_codes` | | violated: two issues leave two outstanding codes |
| `accounts_reset` | | violated: a session with the old password, inserted while the new one is being committed, outlives the reset |

The violated properties are sentences of `docs/architecture/ping-sso-integration-plan.md` (:492 and
:904, :436, :382, :502) and `docs/architecture/data-model.md` (:96, :113). `RevocationEndsFamily`,
`OneCodePerAssertion` and `ActionsAreOneTimeCodes` are parts of them that do hold.
`LastAdminNeedsOverlap` and `StaleOnlyByOverlap` say exactly how the last administrator is removed
and how an old password keeps a session: by those overlaps of requests and no others, so that
neither happens to requests that run one after the other. `AuthorizedAtOneMoment` is what holds of
the three reads as long as `VersionChangesWithRights` is not violated by a lost increment.
`RightsChangeOnPurpose` is what bounds the handlers' use of copies loaded before anything is locked:
the code has no lock that keeps an update, an issue and a consumption apart (`repository.py:148,
528`), and what one of them grants or takes away is nevertheless not undone by another that read the
row before, unless it was made to do so. The converse is not promised: an update whose copy already
has the value asked for writes nothing, also if the row has another value by then.

### Bounds

Three rows are a sign-in, its successor and either a second successor or a second sign-in: the
smallest table in which a revocation, a spent row and a live row of the same or another family
coexist. Three requests let a third act between two that overlap, and are what a deadlock of
revocation, reuse detection and refresh would need. `sessions_safety` looks at behaviours of one
user at a time (`OneUser`): those of the local one with three requests, in any order of the keys but
without a clock, and with one role, which only decides when a Ping session is reauthenticated
(`LocalSessions`); those of the Ping administrator with a clock, expiry and cleanup, ascending keys,
and two requests, or one when all rows are in use (`PingSessions`). `KeysAscend` drops the order in
which random keys are drawn, where a run has no lock order to vary. `MaxTime` lets a lifetime (1
tick) end, `MaxVersion` an authorization change happen during a session. In `saml_codes` a login
lives for 3 ticks and an assertion and a code for 1, so that each expires alone; `Patience` bounds
how long an ACS request runs. `OneCodePerAssertion` needs `Patience <= Skew`: the replay marker is
kept for `saml_clock_skew_seconds` beyond the assertion, which the configuration allows to be 0
(`app/core/config.py:44`), and a request that takes longer than that could be passed by the cleanup
job. In `accounts_safety` three versions are what an issue and the consumption of its code need, and
the initial states have one administrator with a user or an account to create, or two
administrators. `Asks` are demotion, promotion and disablement; an account is enabled again by
consuming a code. `PromotionsAlone` keeps promotions, and the third idempotency key that bounds the
operations of administrators, to the behaviours without codes and sessions: there an update that has
loaded its target as `READ_ONLY`, its promotion, and the demotion of the other administrator fit
together. `SessionsOfTheirs` lets requests work on one account while that has a session, since
nothing relates the sessions of one account to requests about another. `KeysInOrder` fixes the order
in which the idempotency keys are used. In `sessions_safety` the version stays at its first value
where three rows are in use: it only makes a refresh read another number, which two rows show.

In `login_and_pages` two requests race for the bucket, the account or a copy of it, and three
minutes are what a bucket takes to expire. `MaxFailures` is 2, below the least the configuration
allows (3), and the limits are 1 and 2: what matters is that there is a guess that counts and
one that locks, a request that inserts, one that increments and one that is refused. The source
address is one, since addresses share no row. `Patient` is an assumption, not a bound: the
statements of one count take less than a minute, so that the cleanup job, which keeps a bucket for
two, does not delete one that somebody waits for; `allow_rate_limit` has no other protection. Three
versions let a token be two changes behind. `NoIncrementLost` keeps `login_and_pages` from following
a behaviour of `PageAccess` any further once an increment of the version was overwritten by one
computed from an older read (`repository.py:146`): of these `AuthorizedAtOneMoment` claims nothing,
and a token can come back to life in them after a demotion and a promotion. The module itself has no
such bound, `access_versions` and the proofs are about all its behaviours. Names of visitors are
taken in sets of up to three since a principal has three (user name, enterprise id, mail): one
that owns nothing, one with a dot and its slug, two that share a VM.

Requests, tokens, codes, accounts and browsers are symmetric in the safety runs; the session keys of
`RefreshSessions` are not, since updates go in key order. Deadlock checking is off in the SAML and
account runs and not in the others: the bounded clock, the used-up logins, or accounts that are all
disabled end every behaviour, whereas a session instance can always take an account update or
another refresh.

### Fairness

`FairSpec` gives weak fairness to the steps of a request that has begun (its worker thread runs
until it is done), strong fairness to the acquisition of a row lock (PostgreSQL queues the waiters
of a row, so that one is not overtaken for ever while the lock is released again and again), and
weak fairness to the abort of a request that is in a deadlock (the deadlock detector always picks a
victim). `LoginFairness` is strong fairness of the steps of one sign-in: its worker thread runs, and
a bucket or an account that is released again and again is handed to the waiters in the order of
PostgreSQL's queue. That the recursion of `allow_rate_limit` ends is then a fact about the code: the
row that was in the way is found the next time, unless the minute has changed and somebody was
faster once more, which the minutes bound. No fairness is assumed for the browsers, for crashes, for
the clock or the cleanup job.

## What is proved

`RefreshSessionsProofs` proves, for every set of rows, requests and principals, any lifetimes and
any bounds, everything `sessions_safety` checks, except the deadlock property, which has a module of
its own: `TypesHold`, `RotationIsProtected`, `FamiliesStaySingle`, `SignInBindsFamily`,
`CleanupKeepsEvidence`, `SpentStaysSpent`, `RevocationsEndFamilies`, and `TableImplementsFamilies`,
the refinement of `SessionFamily`. The assumptions are the named ones of `RefreshSessions`: keys are
numbers, `None` is no key, principal or request, lifetimes are positive.

The inductive invariant `IInv` is, beside the types:

* `RowsHeld`: a request in the middle of a rotation or a logout holds the lock of its row, and the
  row is live (rotation) or stored (logout). Without it a step of another request could revoke the
  row between check and commit. It survives the steps of others because each of them writes
  only rows it has locked, or deletes rows nobody has locked.
* `Founded` and `SigningFor`: a stored row has a family, and a request that signs in has a
  principal; needed for the next two.
* `InheritsSignIn`: family columns equal those of the row the family is named after. It makes all
  rows of a family expire at once, which is the whole reason why cleanup keeps the evidence.
* `OneLivePerFamily`: rotation puts a live row in and takes one out, and only a live row rotates
  (`RowsHeld`); sign-in starts a family of its own.

`RevokedNeverRedeemed`, `RevocationEndsFamily` and the refinement are then step by step
consequences of `IInv`. Each proof has one step per action and below it one per conjunct the action
can disturb.

`RefreshDeadlockProofs` proves `DeadlocksNeedTwoRevocations` for any finite set of requests (those
in flight, which the thread pool bounds: an infinite set has no cardinality to state the property
with) and any order of the keys. Its invariant `DInv`, on top of `IInv`: a request holds
the row presented to it and rows among those it selected, nothing else (`LocksInOrder`); a
revocation has selected one row at most of each family, because only one is live, and a refresh
selects in the family of the row presented to it (`SelectionInOrder`); when that is not the row
presented, the latter is spent (`SpentPresented`). The argument: refreshes alone wait in a circle
only if each chases the next, that is, has selected the row presented to it. The one that began to
revoke last selected rows that were live, and those presented to the others were spent: it chases
none of them. That is `NoCircle`, the conjunct every step of every request has to keep. One
revocation of a principal among them changes nothing: whoever it waits for, and whoever these wait
for, works on one family; of that family it has selected the one row it is still waiting for, so
that nobody in the family waits for it, and what is left is a circle of refreshes alone.
`DInv` was checked by TLC on three rows and three requests of a local account before it was proved.

`LocalAccountsProofs` proves everything `accounts_safety` checks, for any number of accounts, codes,
keys, sessions and requests, any initial administrators and any updates they ask for:
`AccountTypes`, `KeysAreUsedOnce`, `LastAdminsNeedOverlap`, `StaleSessionsNeedOverlap`,
`RightsAreGivenOnPurpose` and `ActionsImplementOneTimeCode`. The invariant `IInv`: what a request
carries from one commit to the next fits where it is (`RequestInOrder`), among it that an update
which loaded an administrator to be removed has counted another one; a key is held by one request,
and what was done under it is what that request has done so far (`KeysInOrder`), which makes
`OncePerKey` inductive although reservation, operation and audit are commits of their own; rows of
accounts stay, and an open code belongs to an account there is (`RowsInOrder`); a code that is being
redeemed is locked, open and of the account its request works on, and those an issue is about to
replace are of its account (`CodesInOrder`); a refresh holds a live session of its account that no
other refresh holds (`RefreshesInOrder`); and a request that sets a password has, of the sessions of
its account, selected those that have not come since (`NothingMissed`). That stale copies do no more
harm than the properties admit rests on `FlushedIsRow` and its neighbours: a flush leaves every
column that the copy did not change, so that neither a role nor a password comes back;
`RightsAreGivenOnPurpose` says it of every step, and needs of the invariant that a code being
consumed belongs to the account its request works on. `LastAdminsNeedOverlap` rests on the same: of
all commits only an update can take the last administrator's role or status, and one that loaded its
target with that role has counted somebody else, who can then be no administrator any more.
`StaleSessionsNeedOverlap` follows the sessions: a new password leaves those that `NothingMissed`
excepts, and a successor has the password of the row its refresh holds, which stays live and of that
account until then. No assumption is made beyond the named ones of `LocalAccounts`.

`PortalPagesProofs` proves the four properties of the pages for any visitors with any names, where
the run takes up to three names of those in the data: `VisitorsSeeTheirOwn`, `LinksLeadSomewhere`,
`RunningJobsAreListed` and `PagesAgreeEverywhere`. The data is that of the code, and lemmas say what
matters about it: ids are unique, every VM with an issue hosts a devspace, a job has owner and VM of
its devspace, the two jobs that run do so in devspaces that are not stopped and use more of the cpu
than any other process. From the last follows that at most two processes come before that of a
running job, which is then among the first eight. The invariant `PageInOrder`: the page was served
in a scope of the visitor, perhaps with another role than now, and a detail page was found in it.
`VisitorsSeeTheirOwn` has a hypothesis: whoever has one of the three keys of the preview's only user
has `alex-morgan` among the names of the scope. The code treats the three as one person
(`app/services/data_platform.py:292-293, 323-325`) and names that person's tables to whoever has
one.

`PagesAgreeEverywhere` is about numbers that are computed in different ways: the devspaces, jobs and
issues of a scope are counted in one service and summed over its VMs in another. `Counting` has the
lemmas for it. A sum over a set is recursive, and the provers cannot do an induction for a property
they are given as an operator; `SetInduction` takes the set of the subsets of a finite set for which
a statement holds instead, and rests on the well-foundedness of the numbers. `SumExists` shows that
a function which keeps to the recursion exists, so that the one `CHOOSE` takes does;
`SumCountsUnits` that it counts the units below the terms; `CountedByKey` that terms which count
what has a certain key count everything once, which for VMs rests on each devspace, job and issue of
a scope having a VM of that scope; and `UnitsBetween` bounds a sum and thereby an average, also
after `round()` took it to an even neighbour. The rest is the parts of a whole: states that exclude
each other and leave none out.

`PageAccessProofs` proves what `login_and_pages` checks of `PageAccess`, for any number of requests,
tokens and versions and any wishes of administrators: `AccessTypes`, and `PagesAuthorized`, which
claims nothing of a behaviour once an increment was lost. The invariant says, as long as no
increment was lost: the principal's columns in a copy are older than those of the row or equal to
them, whatever the age of the account's columns beside them (`CopiesInOrder`), so that whatever is
written has a new version or changes nothing (`Newer`); a token of the current version belongs to a
user who may sign in with its role (`TokensInOrder`), which makes the version alone decide; and what
the three reads have found so far was true at one moment (`PageInOrder`), since sessions never come
back to life. That an increment is never lost is not among it: `access_versions` shows that it is.

`LocalLoginProofs` proves for any number of requests, usernames, accounts and minutes, and any
limits: `LoginTypes`, `LimitsKept`, `NoneForgotten` and `LoginImplementsLockout`. The
invariant has two halves. `CountsInOrder`: who has found a bucket alone holds it, has read what
is in it, and counts in this minute or the one before (`Patient`); hence the row tells how many
were let through. `AttemptsInOrder`: who verifies a password alone holds the account and its copy
is the row; and the number of guesses since the last reset is what is stored, also after a clear
that worked on an old copy, because its flush leaves the columns it did not change. The
refinement follows step by step: an answered guess is `Guess`, a right password `SignIn`,
a clear `Clear` or, where it leaves what was counted since, `Unlock`, and a minute that passes
`Unlock` for the locks that end with it.

`SamlExchangeProofs` proves everything `saml_codes` checks, for any number of browsers, logins,
assertions, codes and requests, any lifetimes and any order in which they end: `ExchangeTypes`,
`AssertionsUsedOnce`, `CodesGrantOnce`, `SessionsAreBound` and `ExchangeImplementsOneTimeCode`.
The invariant says: a login that was begun belongs to a browser, and a nonce to a login of that
browser (`LoginsInOrder`); a marker lasts `Skew` beyond its assertion (`MarkersInOrder`); an ACS
request began when its assertion was valid and at most `Patience` ago (`AcsInOrder`); the source
of a code has its marker until it is too late to use it (`CodeInOrder`), which together with
`Patience <= Skew` leaves no request that could use it once more after the cleanup. That
assumption is needed by `AssertionsUsedOnce` alone. For the sessions: a request that may create
one is the only one to do so for its code, comes from the browser of the login, and finds a code
that is spent and has granted nothing (`ExchangeInOrder`, `OneGranting`, `GrantInOrder`); this
survives the gap between the two transactions of an exchange because a spent code never becomes
issued again. In the refinement a request that dies in that gap, and a code presented by
somebody else or too late, are `Void`.

Only model-checked: liveness (`RequestsEnd`, `LoginsAnswered`), which needs fairness and
`ENABLED`. The other properties of passing runs are all theorems.

## What is left out

CSRF values, cookies of the session and the contents of tokens are not in the session module: a
secret is the row it identifies, and a mismatch is a refusal without a write. A cleanup batch is one
step for the tables of a module; the locks it waits for are a guard. Cryptography, XML and HTTP are
the libraries'. Operations that no handler calls are not modelled
(`consume_login_and_record_assertion`, `create_exchange_code`, `resolve_ping_principal`). In
`LocalAccounts` the expiry of accounts and passwords, updates of names and mail, and the expiry of
idempotency keys after a day are left out; what administrators have loaded of their own account by
the authorization of the request is taken at one moment (`PageAccess` has the two); an update takes
its two rows together, so that a circle of waiting between it and a consumption shows only as the
abort of its victim. Spent session rows, and with them the detection of reuse, are in
`RefreshSessions` only. In `LocalLogin` an account becomes usable by a
new password and otherwise stays what it is: that it may be disabled meanwhile is in `PageAccess`
and `LocalAccounts`. The other handlers with a rate limit call the same function once, with a scope
of their own. `PageAccess` has one local user: Ping principals, expiry dates and the audit of
refused administrators are left out. Of the pages, support, onboarding, health and readiness are the
same for everybody and descriptive columns decide nothing; the principal's id is not among the names
of a scope, and two names with one slug do not occur. Two things in the preview data were seen and
are outside the properties: the fleet and the dashboard of an administrator are literals that do not
add up with the lists beside them, and the attention entry of the control plane names a VM
(`vm-031`) that has no page.

## Plan

Done: `SessionFamily`, `RefreshSessions` with proofs; `OneTimeCode`, `SamlExchange` with proofs;
`LocalAccounts`, the second implementation of `OneTimeCode`, with proofs; the deadlock property
of the sessions for any number of requests; `Lockout`, `LocalLogin` with proofs;
`PageAccess` with proofs; `PreviewData`, `PortalPages` with proofs. Left, in this order:

1. Ping principals in `PageAccess`: role changes by SAML responses that are processed out of
   order, and the administrator's reauthentication at refresh.
2. Proofs about what these add.
