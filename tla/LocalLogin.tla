----------------------------- MODULE LocalLogin ------------------------------
(***************************************************************************)
(* POST /auth/local/login up to the answer: the two rate limits a request  *)
(* passes in turn, and the attempt at the account behind them, with the    *)
(* lock that wrong passwords lead to and the ways it is lifted.            *)
(*                                                                         *)
(* The requests come from one source address.  Time is in minutes.  Every  *)
(* action is a statement, or a commit with the statements it flushes, so   *)
(* that requests of any process meet between them.                         *)
(***************************************************************************)
EXTENDS Naturals

CONSTANTS Logins,       \* the requests that may be in progress at a time
          Users,        \* normalized usernames that are typed in
          Known,        \* those that have an account
          Address,      \* the source address, the key of the first limit
          AddressLimit, \* auth_rate_limit_per_minute
          LoginLimit,   \* local_auth_rate_limit_per_minute
          MaxFailures,  \* local_max_failures
          LockMinutes,  \* local_lock_seconds
          LastMinute    \* bound of the clock

ASSUME UsersAssumption == Known \subseteq Users /\ Address \notin Users
ASSUME LimitsAssumption ==
    /\ AddressLimit \in Nat \ {0} /\ LoginLimit \in Nat \ {0}
    /\ MaxFailures \in Nat \ {0} /\ LockMinutes \in Nat \ {0}
    /\ LastMinute \in Nat

VARIABLES now,       \* the minute
          buckets,   \* auth_rate_limit_bucket: request_count, 0 where there is no row
          accounts,  \* the columns of local_account that sign-in uses
          login,     \* what each request works on
          admitted,  \* history: the requests each bucket has let through
          guesses    \* history: the wrong passwords answered since the last reset

loginVars == <<now, buckets, accounts, login, admitted, guesses>>

Minutes == 0 .. LastMinute

\* A scope is told by its key: LOCAL_LOGIN_IP has the address, LOCAL_LOGIN the
\* address with the username.
BucketKeys == Users \cup {Address}
Buckets == BucketKeys \X Minutes

Limit(key) == IF key = Address THEN AddressLimit ELSE LoginLimit

\* usable: enabled, its principal active, nothing expired.  lockedUntil: 0 for NULL.
AccountRows == [usable : BOOLEAN, failed : 0 .. MaxFailures,
                lockedUntil : 0 .. LastMinute + LockMinutes]

NoAccount == [usable |-> FALSE, failed |-> 0, lockedUntil |-> 0]

Resting == [at |-> "idle", user |-> Address, gate |-> Address, window |-> 0, seen |-> 0,
            copy |-> NoAccount, allowed |-> FALSE]

LoginTypeOK ==
    /\ now \in Minutes
    /\ buckets \in [Buckets -> Nat]
    /\ accounts \in [Known -> AccountRows]
    /\ login \in [Logins ->
           [at : {"idle", "count", "found", "absent", "attempt", "verify", "clear"},
            user : BucketKeys, gate : BucketKeys, window : Minutes, seen : Nat,
            copy : AccountRows, allowed : BOOLEAN]]
    /\ admitted \in [Buckets -> Nat]
    /\ guesses \in [Known -> Nat]

LoginInit ==
    /\ now = 0
    /\ buckets = [b \in Buckets |-> 0]
    /\ accounts \in [Known -> {[NoAccount EXCEPT !.usable = u] : u \in BOOLEAN}]
    /\ login = [r \in Logins |-> Resting]
    /\ admitted = [b \in Buckets |-> 0]
    /\ guesses = [a \in Known |-> 0]

------------------------------------------------------------------------------
(* allow_rate_limit: a bucket for each key and minute.                     *)

Bucket(r) == <<login[r].gate, login[r].window>>

\* The slip of a select without FOR UPDATE.
NeverHeld(b) == FALSE
Held(b) == \E r \in Logins : login[r].at = "found" /\ Bucket(r) = b

\* The minute is read when the count of a key begins.
Counting(q, key) == [q EXCEPT !.at = "count", !.gate = key, !.window = now, !.seen = 0]

Arrive(r, user) ==
    /\ login[r].at = "idle"
    /\ login' = [login EXCEPT ![r] = Counting([@ EXCEPT !.user = user], Address)]
    /\ UNCHANGED <<now, buckets, accounts, admitted, guesses>>

\* The row of the bucket is locked where there is one.
SelectBucket(r) ==
    LET b == Bucket(r) IN
    /\ login[r].at = "count"
    /\ ~Held(b)
    /\ login' = [login EXCEPT ![r].at = IF buckets[b] = 0 THEN "absent" ELSE "found",
                              ![r].seen = buckets[b]]
    /\ UNCHANGED <<now, buckets, accounts, admitted, guesses>>

\* After the address, the username; after both, the attempt.
Passed(q) ==
    IF q.gate = Address THEN Counting(q, q.user)
    ELSE [Resting EXCEPT !.at = "attempt", !.user = q.user]

Admit(r, count) ==
    /\ buckets' = [buckets EXCEPT ![Bucket(r)] = count]
    /\ admitted' = [admitted EXCEPT ![Bucket(r)] = @ + 1]
    /\ login' = [login EXCEPT ![r] = Passed(@)]
    /\ UNCHANGED <<now, accounts, guesses>>

\* The first request of a bucket inserts it ...
InsertBucket(r) ==
    /\ login[r].at = "absent"
    /\ buckets[Bucket(r)] = 0
    /\ Admit(r, 1)

\* ... and one that another was faster than starts again, in the minute it is now; a
\* slip that tries the insertion again.
InsertAgain(r) ==
    /\ login[r].at = "absent"
    /\ buckets[Bucket(r)] # 0
    /\ UNCHANGED loginVars
RetryCount(r) ==
    /\ login[r].at = "absent"
    /\ buckets[Bucket(r)] # 0
    /\ login' = [login EXCEPT ![r] = Counting(@, @.gate)]
    /\ UNCHANGED <<now, buckets, accounts, admitted, guesses>>

CountRequest(r) ==
    /\ login[r].at = "found"
    /\ login[r].seen < Limit(login[r].gate)
    /\ Admit(r, login[r].seen + 1)

RefuseRequest(r) ==
    /\ login[r].at = "found"
    /\ login[r].seen >= Limit(login[r].gate)
    /\ login' = [login EXCEPT ![r] = Resting]
    /\ UNCHANGED <<now, buckets, accounts, admitted, guesses>>

\* The slip of a bucket that does not outlive its minute long enough.
ExpiresAtOnce(window) == window + 1
BucketExpiry(window)  == window + 2

\* The cleanup job deletes a batch of the expired buckets.
Expired == {b \in Buckets : buckets[b] # 0 /\ BucketExpiry(b[2]) <= now}

CleanupBuckets(batch) ==
    /\ \A b \in batch : ~Held(b)
    /\ buckets' = [b \in Buckets |-> IF b \in batch THEN 0 ELSE buckets[b]]
    /\ UNCHANGED <<now, accounts, login, admitted, guesses>>

------------------------------------------------------------------------------
(* authenticate_local.                                                     *)

\* The slip of a select without FOR UPDATE.
NeverLocked(a) == FALSE
AccountHeld(a) == \E r \in Logins : login[r].at = "verify" /\ login[r].user = a

CanAttempt(row) == row.usable /\ row.lockedUntil <= now

\* The account is locked and what it allows decided before the password is verified.
LockAccount(r) ==
    LET a == login[r].user
        row == IF a \in Known THEN accounts[a] ELSE NoAccount
    IN /\ login[r].at = "attempt"
       /\ ~AccountHeld(a) \/ a \notin Known
       /\ login' = [login EXCEPT ![r] = [@ EXCEPT !.at = "verify", !.copy = row,
                                                  !.allowed = CanAttempt(row)]]
       /\ UNCHANGED <<now, buckets, accounts, admitted, guesses>>

\* A wrong password is counted; the last one that is tolerated locks the account.  The
\* slip of a count that goes on.
NeverLocking(row) == [row EXCEPT !.failed = @ + 1]
Failed(row) ==
    IF row.failed + 1 >= MaxFailures
    THEN [row EXCEPT !.failed = 0, !.lockedUntil = now + LockMinutes]
    ELSE [row EXCEPT !.failed = @ + 1]

\* A flush writes the columns that were given another value than the one loaded.
Written(row, loaded, set) ==
    [f \in DOMAIN row |-> IF set[f] = loaded[f] THEN row[f] ELSE set[f]]

\* Whatever the reason, the answer is the same; only a guess is counted.
AnswerFailure(r) ==
    LET a == login[r].user
        copy == login[r].copy
        counts == login[r].allowed
    IN /\ login[r].at = "verify"
       /\ accounts' = IF counts
                      THEN [accounts EXCEPT ![a] = Written(@, copy, Failed(copy))]
                      ELSE accounts
       /\ guesses' = IF counts
                     THEN [guesses EXCEPT ![a] = IF @ + 1 >= MaxFailures THEN 0 ELSE @ + 1]
                     ELSE guesses
       /\ login' = [login EXCEPT ![r] = Resting]
       /\ UNCHANGED <<now, buckets, admitted>>

Cleared(row) == [row EXCEPT !.failed = 0, !.lockedUntil = 0]

\* The right password resets the account, even where a change of it is due and the
\* request is refused after that.
AnswerSuccess(r) ==
    LET a == login[r].user
        copy == login[r].copy
    IN /\ login[r].at = "verify"
       /\ login[r].allowed
       /\ accounts' = [accounts EXCEPT ![a] = Written(@, copy, Cleared(copy))]
       /\ guesses' = [guesses EXCEPT ![a] = 0]
       /\ login' = [login EXCEPT ![r] = Resting]
       /\ UNCHANGED <<now, buckets, admitted>>

------------------------------------------------------------------------------
(* What lifts a lock: an administrator's unlock, or a new password.        *)

\* The account is loaded without its lock ...
BeginClear(r, a) ==
    /\ login[r].at = "idle"
    /\ login' = [login EXCEPT ![r] = [@ EXCEPT !.at = "clear", !.user = a,
                                               !.copy = accounts[a]]]
    /\ UNCHANGED <<now, buckets, accounts, admitted, guesses>>

\* ... which an unlock needs only where it changes something, a new password always;
\* the latter also makes the account usable.
CommitClear(r, renewed) ==
    LET a == login[r].user
        copy == login[r].copy
        set == [Cleared(copy) EXCEPT !.usable = @ \/ renewed]
    IN /\ login[r].at = "clear"
       /\ renewed \/ set # copy => ~AccountHeld(a)
       /\ accounts' = [accounts EXCEPT ![a] = Written(@, copy, set)]
       /\ guesses' = IF copy.failed # 0 THEN [guesses EXCEPT ![a] = 0] ELSE guesses
       /\ login' = [login EXCEPT ![r] = Resting]
       /\ UNCHANGED <<now, buckets, admitted>>

------------------------------------------------------------------------------

\* Assumed of the database: the statements of one count take less than a minute, so
\* that none begun in an earlier minute than the last is still going on.
Patient == \A r \in Logins : login[r].at \in {"count", "found", "absent"} =>
                                 login[r].window = now

Tick ==
    /\ now < LastMinute
    /\ Patient
    /\ now' = now + 1
    /\ UNCHANGED <<buckets, accounts, login, admitted, guesses>>

\* The process dies, or the client leaves; the transaction is rolled back.
AbortLogin(r) ==
    /\ login[r].at # "idle"
    /\ login' = [login EXCEPT ![r] = Resting]
    /\ UNCHANGED <<now, buckets, accounts, admitted, guesses>>

Proceed(r) ==
    \/ SelectBucket(r) \/ InsertBucket(r) \/ RetryCount(r)
    \/ CountRequest(r) \/ RefuseRequest(r)
    \/ LockAccount(r) \/ AnswerFailure(r) \/ AnswerSuccess(r)

LoginNext ==
    \/ \E r \in Logins :
           \/ \E user \in Users : Arrive(r, user)
           \/ \E a \in Known : BeginClear(r, a)
           \/ \E renewed \in BOOLEAN : CommitClear(r, renewed)
           \/ Proceed(r)
           \/ AbortLogin(r)
    \/ \E batch \in SUBSET Expired : CleanupBuckets(batch)
    \/ Tick

\* A request that can go on does: its statements end, and so do those it waits for.
LoginFairness == \A r \in Logins : SF_loginVars(Proceed(r))

LoginSpec == LoginInit /\ [][LoginNext]_loginVars /\ LoginFairness
==============================================================================
