-------------------------- MODULE LocalLoginProofs ---------------------------
(***************************************************************************)
(* Proofs about LocalLogin for every number of requests, users and         *)
(* minutes, and every limit.                                               *)
(***************************************************************************)
EXTENDS LocalLoginProperties, TLAPS

Progress == [at : {"idle", "count", "found", "absent", "attempt", "verify", "clear"},
             user : BucketKeys, gate : BucketKeys, window : Minutes, seen : Nat,
             copy : AccountRows, allowed : BOOLEAN]

\* A request counts in the minute it is, or in the one before; the row it has locked
\* is as it has read it.
CountInOrder(q, counted, minute) ==
    /\ q.at \in {"count", "found", "absent"} => q.window <= minute /\ minute <= q.window + 1
    /\ q.at = "found" => q.seen = counted[<<q.gate, q.window>>] /\ q.seen # 0

OneHolder ==
    \A r, s \in Logins :
        login[r].at = "found" /\ login[s].at = "found" /\ Bucket(r) = Bucket(s) => r = s

CountsInOrder ==
    /\ \A r \in Logins : CountInOrder(login[r], buckets, now)
    /\ OneHolder
    /\ AdmittedAreCounted
    /\ WindowsKeepLimit

\* Who verifies a password has locked the account, and has a copy of it.
AttemptInOrder(q, rows, minute) ==
    q.at = "verify" =>
        IF q.user \in Known
        THEN q.copy = rows[q.user] /\ (q.allowed => rows[q.user].lockedUntil <= minute)
        ELSE ~q.allowed

OneAttempt ==
    \A r, s \in Logins :
        /\ login[r].at = "verify" /\ login[s].at = "verify"
        /\ login[r].user = login[s].user /\ login[r].user \in Known
        => r = s

\* What is stored of wrong guesses is what was answered, and never enough for a lock.
GuessesAreStored ==
    \A a \in Known : guesses[a] = accounts[a].failed /\ accounts[a].failed < MaxFailures

AttemptsInOrder ==
    /\ \A r \in Logins : AttemptInOrder(login[r], accounts, now)
    /\ OneAttempt
    /\ GuessesAreStored

IInv == LoginTypeOK /\ CountsInOrder /\ AttemptsInOrder

------------------------------------------------------------------------------
(* Rows and requests.                                                      *)

LEMMA NoAccountIsRow == NoAccount \in AccountRows
  BY LimitsAssumption DEF NoAccount, AccountRows

LEMMA RestingIsProgress == Resting \in Progress
<1>1. Address \in BucketKeys /\ 0 \in Minutes /\ 0 \in Nat
  BY LimitsAssumption DEF BucketKeys, Minutes
<1>2. QED
  BY <1>1, NoAccountIsRow DEF Resting, Progress

LEMMA CountingIsProgress ==
    ASSUME NEW q \in Progress, NEW key \in BucketKeys, now \in Minutes
    PROVE  /\ Counting(q, key) \in Progress
           /\ Counting(q, key).at = "count"
           /\ Counting(q, key).window = now
<1>1. 0 \in Nat
  OBVIOUS
<1>2. QED
  BY <1>1 DEF Counting, Progress

\* A flush gives a row: of each column what was set, or what was there.
LEMMA WrittenIsRow ==
    ASSUME NEW row \in AccountRows, NEW loaded \in AccountRows, NEW set \in AccountRows
    PROVE  /\ Written(row, loaded, set) \in AccountRows
           /\ Written(row, loaded, set).failed
                  = IF set.failed = loaded.failed THEN row.failed ELSE set.failed
           /\ Written(row, loaded, set).lockedUntil
                  = IF set.lockedUntil = loaded.lockedUntil THEN row.lockedUntil
                    ELSE set.lockedUntil
           /\ set = loaded => Written(row, loaded, set) = row
           /\ row = loaded => Written(row, loaded, set) = set
<1> DEFINE new == Written(row, loaded, set)
<1>1. /\ DOMAIN row = {"usable", "failed", "lockedUntil"}
      /\ row = [f \in DOMAIN row |-> row[f]]
  BY DEF AccountRows
<1>2. new = [f \in DOMAIN row |-> IF set[f] = loaded[f] THEN row[f] ELSE set[f]]
  BY DEF Written
<1>3. new = [usable |-> new.usable, failed |-> new.failed, lockedUntil |-> new.lockedUntil]
  BY <1>1, <1>2
<1>4. /\ new.usable = IF set.usable = loaded.usable THEN row.usable ELSE set.usable
      /\ new.failed = IF set.failed = loaded.failed THEN row.failed ELSE set.failed
      /\ new.lockedUntil = IF set.lockedUntil = loaded.lockedUntil THEN row.lockedUntil
                           ELSE set.lockedUntil
  BY <1>1, <1>2
<1>5. new \in AccountRows
  BY <1>3, <1>4 DEF AccountRows
<1>6. set = loaded => new = row
  BY <1>1, <1>2
<1>7. row = loaded => new = set
  <2>1. set = [f \in DOMAIN row |-> set[f]]
    BY <1>1 DEF AccountRows
  <2>2. QED
    BY <1>2, <2>1
<1>8. QED
  BY <1>4, <1>5, <1>6, <1>7

LEMMA FailedIsRow ==
    ASSUME NEW row \in AccountRows, now \in Minutes
    PROVE  /\ Failed(row) \in AccountRows
           /\ row.failed + 1 < MaxFailures
                  => Failed(row).failed = row.failed + 1 /\ Failed(row).lockedUntil = row.lockedUntil
           /\ row.failed + 1 >= MaxFailures
                  => Failed(row).failed = 0 /\ Failed(row).lockedUntil = now + LockMinutes
<1>1. /\ row = [usable |-> row.usable, failed |-> row.failed, lockedUntil |-> row.lockedUntil]
      /\ row.usable \in BOOLEAN /\ row.failed \in 0 .. MaxFailures
      /\ row.lockedUntil \in 0 .. LastMinute + LockMinutes
  BY DEF AccountRows
<1>2. now + LockMinutes \in 0 .. LastMinute + LockMinutes
  BY LimitsAssumption DEF Minutes
<1>3. CASE row.failed + 1 >= MaxFailures
  <2>1. Failed(row) = [usable |-> row.usable, failed |-> 0, lockedUntil |-> now + LockMinutes]
    BY <1>1, <1>3 DEF Failed
  <2>2. QED
    BY <1>1, <1>2, <1>3, <2>1, LimitsAssumption DEF AccountRows
<1>4. CASE ~(row.failed + 1 >= MaxFailures)
  <2>1. Failed(row) = [usable |-> row.usable, failed |-> row.failed + 1,
                       lockedUntil |-> row.lockedUntil]
    BY <1>1, <1>4 DEF Failed
  <2>2. row.failed + 1 \in 0 .. MaxFailures
    BY <1>1, <1>4, LimitsAssumption
  <2>3. QED
    BY <1>1, <1>4, <2>1, <2>2, LimitsAssumption DEF AccountRows
<1>5. QED
  BY <1>3, <1>4

LEMMA ClearedIsRow ==
    ASSUME NEW row \in AccountRows, NEW usable \in BOOLEAN
    PROVE  /\ Cleared(row) \in AccountRows
           /\ Cleared(row).failed = 0 /\ Cleared(row).lockedUntil = 0
           /\ [Cleared(row) EXCEPT !.usable = usable] \in AccountRows
           /\ [Cleared(row) EXCEPT !.usable = usable].failed = 0
           /\ [Cleared(row) EXCEPT !.usable = usable].lockedUntil = 0
<1>1. 0 \in 0 .. MaxFailures /\ 0 \in 0 .. LastMinute + LockMinutes
  BY LimitsAssumption
<1>2. Cleared(row) \in AccountRows /\ Cleared(row).failed = 0 /\ Cleared(row).lockedUntil = 0
  BY <1>1 DEF Cleared, AccountRows
<1>3. QED
  BY <1>2 DEF AccountRows

------------------------------------------------------------------------------
(* Types.                                                                  *)

LEMMA BucketIsBucket ==
    ASSUME LoginTypeOK, NEW r \in Logins
    PROVE  Bucket(r) \in Buckets /\ Bucket(r) = <<login[r].gate, login[r].window>>
  BY DEF LoginTypeOK, Bucket, Buckets

\* What Admit does to the request.
LEMMA PassedIsProgress ==
    ASSUME NEW q \in Progress, now \in Minutes
    PROVE  /\ Passed(q) \in Progress
           /\ Passed(q).at \in {"count", "attempt"}
           /\ Passed(q).at = "count" => Passed(q).window = now
<1>1. CASE q.gate = Address
  <2>1. q.user \in BucketKeys
    BY DEF Progress
  <2>2. QED
    BY <1>1, <2>1, CountingIsProgress DEF Passed
<1>2. CASE q.gate # Address
  <2>1. Passed(q) = [Resting EXCEPT !.at = "attempt", !.user = q.user]
    BY <1>2 DEF Passed
  <2>2. [Resting EXCEPT !.at = "attempt", !.user = q.user] \in Progress
    BY RestingIsProgress DEF Progress
  <2>3. Passed(q).at = "attempt"
    BY <2>1 DEF Resting
  <2>4. QED
    BY <2>1, <2>2, <2>3
<1>3. QED
  BY <1>1, <1>2

LEMMA TypesKept ==
    ASSUME LoginTypeOK, [LoginNext]_loginVars
    PROVE  LoginTypeOK'
<1>0. /\ now \in Minutes /\ buckets \in [Buckets -> Nat] /\ accounts \in [Known -> AccountRows]
      /\ login \in [Logins -> Progress] /\ admitted \in [Buckets -> Nat]
      /\ guesses \in [Known -> Nat]
  BY DEF LoginTypeOK, Progress
<1>1. ASSUME NEW r \in Logins, NEW q \in Progress, login' = [login EXCEPT ![r] = q],
             UNCHANGED <<now, buckets, accounts, admitted, guesses>>
      PROVE  LoginTypeOK'
  <2>1. login' \in [Logins -> Progress]
    BY <1>0, <1>1
  <2>2. QED
    BY <1>0, <1>1, <2>1 DEF LoginTypeOK, Progress
<1>2. ASSUME NEW r \in Logins, NEW user \in Users, Arrive(r, user) PROVE LoginTypeOK'
  <2>1. [login[r] EXCEPT !.user = user] \in Progress
    BY <1>0 DEF Progress, BucketKeys
  <2>2. Counting([login[r] EXCEPT !.user = user], Address) \in Progress
    BY <1>0, <2>1, CountingIsProgress DEF BucketKeys
  <2>3. QED
    BY <1>1, <1>2, <2>2 DEF Arrive
<1>3. ASSUME NEW r \in Logins, SelectBucket(r) PROVE LoginTypeOK'
  <2> DEFINE at == IF buckets[Bucket(r)] = 0 THEN "absent" ELSE "found"
             q  == [login[r] EXCEPT !.at = at, !.seen = buckets[Bucket(r)]]
  <2>1. buckets[Bucket(r)] \in Nat /\ at \in {"absent", "found"}
    BY <1>0, BucketIsBucket
  <2>2. login' = [login EXCEPT ![r] = q]
    BY <1>0, <1>3 DEF SelectBucket
  <2>3. q \in Progress
    BY <1>0, <2>1 DEF Progress
  <2>4. QED
    BY <1>1, <1>3, <2>2, <2>3 DEF SelectBucket
<1>4. ASSUME NEW r \in Logins, NEW n \in Nat, Admit(r, n) PROVE LoginTypeOK'
  <2>1. /\ buckets' \in [Buckets -> Nat] /\ admitted' \in [Buckets -> Nat]
        /\ UNCHANGED <<now, accounts, guesses>>
    BY <1>0, <1>4, BucketIsBucket DEF Admit
  <2>2. login' \in [Logins -> Progress]
    BY <1>0, <1>4, PassedIsProgress DEF Admit
  <2>3. QED
    BY <1>0, <2>1, <2>2 DEF LoginTypeOK, Progress
<1>5. ASSUME NEW r \in Logins, InsertBucket(r) \/ CountRequest(r) PROVE LoginTypeOK'
  <2>1. 1 \in Nat /\ login[r].seen + 1 \in Nat
    BY <1>0 DEF Progress
  <2>2. QED
    BY <1>4, <1>5, <2>1 DEF InsertBucket, CountRequest
<1>6. ASSUME NEW r \in Logins, RetryCount(r) PROVE LoginTypeOK'
  <2>1. Counting(login[r], login[r].gate) \in Progress
    <3>1. login[r].gate \in BucketKeys
      BY <1>0 DEF Progress
    <3>2. QED
      BY <1>0, <3>1, CountingIsProgress
  <2>2. QED
    BY <1>1, <1>6, <2>1 DEF RetryCount
<1>7. ASSUME NEW r \in Logins, RefuseRequest(r) \/ AbortLogin(r) PROVE LoginTypeOK'
  BY <1>1, <1>7, RestingIsProgress DEF RefuseRequest, AbortLogin
<1>8. ASSUME NEW r \in Logins, LockAccount(r) PROVE LoginTypeOK'
  <2> DEFINE row == IF login[r].user \in Known THEN accounts[login[r].user] ELSE NoAccount
             q   == [login[r] EXCEPT !.at = "verify", !.copy = row, !.allowed = CanAttempt(row)]
  <2>1. row \in AccountRows
    BY <1>0, NoAccountIsRow
  <2>2. CanAttempt(row) \in BOOLEAN
    BY <2>1, Zenon DEF CanAttempt, AccountRows
  <2>3. q \in Progress
    <3> HIDE DEF row
    <3>1. QED
      BY <1>0, <2>1, <2>2 DEF Progress
  <2>4. QED
    BY <1>1, <1>8, <2>3 DEF LockAccount
<1>9. ASSUME NEW a, NEW row, a \in Known => row \in AccountRows,
             accounts' = [accounts EXCEPT ![a] = row] \/ UNCHANGED accounts,
             \/ \E n \in Nat : guesses' = [guesses EXCEPT ![a] = n]
             \/ UNCHANGED guesses,
             NEW r \in Logins, login' = [login EXCEPT ![r] = Resting],
             UNCHANGED <<now, buckets, admitted>>
      PROVE  LoginTypeOK'
  <2>1. accounts' \in [Known -> AccountRows]
    BY <1>0, <1>9
  <2>2. guesses' \in [Known -> Nat]
    BY <1>0, <1>9
  <2>3. login' \in [Logins -> Progress]
    BY <1>0, <1>9, RestingIsProgress
  <2>4. QED
    BY <1>0, <1>9, <2>1, <2>2, <2>3 DEF LoginTypeOK, Progress
<1>10. ASSUME NEW r \in Logins, AnswerFailure(r) PROVE LoginTypeOK'
  <2> DEFINE a == login[r].user
             copy == login[r].copy
             row == Written(accounts[a], copy, Failed(copy))
             n == IF guesses[a] + 1 >= MaxFailures THEN 0 ELSE guesses[a] + 1
  <2>1. a \in Known => row \in AccountRows /\ n \in Nat
    BY <1>0, FailedIsRow, WrittenIsRow DEF Progress
  <2>2. /\ login' = [login EXCEPT ![r] = Resting] /\ UNCHANGED <<now, buckets, admitted>>
        /\ accounts' = [accounts EXCEPT ![a] = row] \/ UNCHANGED accounts
        /\ guesses' = [guesses EXCEPT ![a] = n] \/ UNCHANGED guesses
    BY <1>10 DEF AnswerFailure
  <2> HIDE DEF row, n
  <2>3. CASE a \in Known
    BY <1>9, <2>1, <2>2, <2>3
  <2>4. CASE a \notin Known
    <3>1. UNCHANGED <<accounts, guesses>>
      BY <1>0, <2>2, <2>4
    <3>2. QED
      BY <1>1, <2>2, <3>1, RestingIsProgress
  <2>5. QED
    BY <2>3, <2>4
<1>11. ASSUME NEW r \in Logins, AnswerSuccess(r) PROVE LoginTypeOK'
  <2> DEFINE a == login[r].user
             copy == login[r].copy
             row == Written(accounts[a], copy, Cleared(copy))
  <2>1. a \in Known => row \in AccountRows
    BY <1>0, ClearedIsRow, WrittenIsRow DEF Progress
  <2>2. /\ login' = [login EXCEPT ![r] = Resting] /\ UNCHANGED <<now, buckets, admitted>>
        /\ accounts' = [accounts EXCEPT ![a] = row] /\ guesses' = [guesses EXCEPT ![a] = 0]
    BY <1>11 DEF AnswerSuccess
  <2>3. QED
    BY <1>9, <2>1, <2>2
<1>12. ASSUME NEW r \in Logins, NEW renewed \in BOOLEAN, CommitClear(r, renewed)
       PROVE  LoginTypeOK'
  <2> DEFINE a == login[r].user
             copy == login[r].copy
             set == [Cleared(copy) EXCEPT !.usable = Cleared(copy).usable \/ renewed]
             row == Written(accounts[a], copy, set)
  <2>1. copy \in AccountRows /\ (Cleared(copy).usable \/ renewed) \in BOOLEAN
    BY <1>0 DEF Progress
  <2>2. set \in AccountRows
    BY <2>1, ClearedIsRow
  <2>3. a \in Known => row \in AccountRows
    BY <1>0, <2>1, <2>2, WrittenIsRow
  <2>4. /\ login' = [login EXCEPT ![r] = Resting] /\ UNCHANGED <<now, buckets, admitted>>
        /\ accounts' = [accounts EXCEPT ![a] = row]
        /\ guesses' = [guesses EXCEPT ![a] = 0] \/ UNCHANGED guesses
    BY <1>12 DEF CommitClear
  <2>5. QED
    BY <1>9, <2>3, <2>4
<1>13. ASSUME NEW r \in Logins, NEW a \in Known, BeginClear(r, a) PROVE LoginTypeOK'
  <2>1. [login[r] EXCEPT !.at = "clear", !.user = a, !.copy = accounts[a]] \in Progress
    BY <1>0, UsersAssumption DEF Progress, BucketKeys
  <2>2. QED
    BY <1>1, <1>13, <2>1 DEF BeginClear
<1>14. ASSUME NEW batch \in SUBSET Expired, CleanupBuckets(batch) PROVE LoginTypeOK'
  BY <1>0, <1>14 DEF CleanupBuckets, LoginTypeOK
<1>15. CASE Tick
  BY <1>0, <1>15, LimitsAssumption DEF Tick, LoginTypeOK, Minutes
<1>16. CASE UNCHANGED loginVars
  BY <1>16 DEF loginVars, LoginTypeOK
<1>17. QED
  BY <1>2, <1>3, <1>5, <1>6, <1>7, <1>8, <1>10, <1>11, <1>12, <1>13, <1>14, <1>15, <1>16
     DEF LoginNext, Proceed

------------------------------------------------------------------------------
(* Counting.                                                               *)

\* A step that only moves one request on, and takes no row.
LEMMA MovedKeepsCounts ==
    ASSUME LoginTypeOK, CountsInOrder, NEW r \in Logins, NEW q, q.at # "found",
           q.at \in {"count", "absent"} => q.window <= now /\ now <= q.window + 1,
           login' = [login EXCEPT ![r] = q], UNCHANGED <<now, buckets, admitted>>
    PROVE  CountsInOrder'
<1>1. \A s \in Logins : login'[s] = IF s = r THEN q ELSE login[s]
  BY DEF LoginTypeOK
<1>2. \A s \in Logins : CountInOrder(login'[s], buckets', now')
  BY <1>1 DEF CountsInOrder, CountInOrder
<1>3. OneHolder'
  BY <1>1 DEF CountsInOrder, OneHolder, Bucket
<1>4. AdmittedAreCounted' /\ WindowsKeepLimit'
  BY DEF CountsInOrder, AdmittedAreCounted, WindowsKeepLimit
<1>5. QED
  BY <1>2, <1>3, <1>4 DEF CountsInOrder

\* A request that is let through is counted, and counts are not forgotten.
LEMMA AdmitKeepsCounts ==
    ASSUME LoginTypeOK, CountsInOrder, NEW r \in Logins, NEW n \in Nat, Admit(r, n),
           login[r].at \in {"found", "absent"}, n = buckets[Bucket(r)] + 1,
           n <= Limit(login[r].gate),
           \A s \in Logins \ {r} : login[s].at = "found" => Bucket(s) # Bucket(r)
    PROVE  CountsInOrder'
<1> DEFINE b == Bucket(r)
<1>0. /\ buckets \in [Buckets -> Nat] /\ admitted \in [Buckets -> Nat] /\ now \in Nat
      /\ login \in [Logins -> Progress] /\ now \in Minutes
  BY DEF LoginTypeOK, Progress, Minutes
<1>1. b \in Buckets /\ b = <<login[r].gate, login[r].window>> /\ b[1] = login[r].gate
      /\ b[2] = login[r].window
  BY BucketIsBucket
<1>2. b[2] + 1 >= now
  BY <1>0, <1>1 DEF CountsInOrder, CountInOrder, Progress, Minutes
<1>3. admitted[b] = buckets[b]
  BY <1>1, <1>2 DEF CountsInOrder, AdmittedAreCounted
<1>4. /\ \A c \in Buckets : buckets'[c] = IF c = b THEN n ELSE buckets[c]
      /\ \A c \in Buckets : admitted'[c] = IF c = b THEN n ELSE admitted[c]
      /\ \A s \in Logins : login'[s] = IF s = r THEN Passed(login[r]) ELSE login[s]
      /\ UNCHANGED now
  BY <1>0, <1>1, <1>3 DEF Admit
<1>5. Passed(login[r]).at \in {"count", "attempt"}
      /\ (Passed(login[r]).at = "count" => Passed(login[r]).window = now)
  BY <1>0, PassedIsProgress
<1>6. ASSUME NEW s \in Logins PROVE CountInOrder(login'[s], buckets', now')
  <2>1. CASE s = r
    BY <1>0, <1>4, <1>5, <2>1 DEF CountInOrder
  <2>2. CASE s # r
    <3>1. CountInOrder(login[s], buckets, now)
      BY DEF CountsInOrder
    <3>2. login[s].at = "found" => buckets'[<<login[s].gate, login[s].window>>]
                                       = buckets[<<login[s].gate, login[s].window>>]
      BY <1>4, <2>2, BucketIsBucket
    <3>3. QED
      BY <1>4, <2>2, <3>1, <3>2 DEF CountInOrder
  <2>3. QED
    BY <2>1, <2>2
<1>7. OneHolder'
  BY <1>4, <1>5 DEF CountsInOrder, OneHolder, Bucket
<1>8. AdmittedAreCounted'
  BY <1>4 DEF CountsInOrder, AdmittedAreCounted
<1>9. WindowsKeepLimit'
  BY <1>1, <1>4 DEF CountsInOrder, WindowsKeepLimit, Limit
<1>10. QED
  BY <1>6, <1>7, <1>8, <1>9 DEF CountsInOrder

LEMMA CountsKept ==
    ASSUME LoginTypeOK, CountsInOrder, [LoginNext]_loginVars
    PROVE  CountsInOrder'
<1>0. /\ now \in Minutes /\ now \in Nat /\ buckets \in [Buckets -> Nat]
      /\ login \in [Logins -> Progress] /\ accounts \in [Known -> AccountRows]
  BY DEF LoginTypeOK, Progress, Minutes
<1>1. Resting.at = "idle"
  BY DEF Resting
<1>2. ASSUME NEW r \in Logins, NEW user \in Users, Arrive(r, user) PROVE CountsInOrder'
  <2> DEFINE q == Counting([login[r] EXCEPT !.user = user], Address)
  <2>1. [login[r] EXCEPT !.user = user] \in Progress
    BY <1>0 DEF Progress, BucketKeys
  <2>2. q.at = "count" /\ q.window = now
    BY <1>0, <2>1, CountingIsProgress DEF BucketKeys
  <2>3. login' = [login EXCEPT ![r] = q] /\ UNCHANGED <<now, buckets, admitted>>
    BY <1>2 DEF Arrive
  <2> HIDE DEF q
  <2>4. q.at # "found" /\ q.window <= now /\ now <= q.window + 1
    BY <1>0, <2>2
  <2>5. QED
    BY <2>3, <2>4, MovedKeepsCounts
<1>3. ASSUME NEW r \in Logins, SelectBucket(r) PROVE CountsInOrder'
  <2> DEFINE b == Bucket(r)
             q == [login[r] EXCEPT !.at = IF buckets[b] = 0 THEN "absent" ELSE "found",
                                   !.seen = buckets[b]]
  <2>1. login' = [login EXCEPT ![r] = q] /\ UNCHANGED <<now, buckets, admitted>>
    BY <1>0, <1>3 DEF SelectBucket
  <2>2. /\ q.at = IF buckets[b] = 0 THEN "absent" ELSE "found"
        /\ q.seen = buckets[b] /\ q.gate = login[r].gate /\ q.window = login[r].window
    BY <1>0 DEF Progress
  <2> HIDE DEF q
  <2>3. login[r].at = "count" /\ login[r].window <= now /\ now <= login[r].window + 1
    BY <1>3 DEF SelectBucket, CountsInOrder, CountInOrder
  <2>4. CASE buckets[b] = 0
    BY <2>1, <2>2, <2>3, <2>4, MovedKeepsCounts
  <2>5. CASE buckets[b] # 0
    <3>1. \A s \in Logins : login'[s] = IF s = r THEN q ELSE login[s]
      BY <1>0, <2>1
    <3>2. CountInOrder(q, buckets, now)
      BY <2>2, <2>3, BucketIsBucket DEF CountInOrder
    <3>3. \A s \in Logins : CountInOrder(login'[s], buckets', now')
      BY <2>1, <3>1, <3>2 DEF CountsInOrder
    <3>4. \A s \in Logins : login[s].at = "found" => Bucket(s) # b
      BY <1>3 DEF SelectBucket, Held
    <3>5. OneHolder'
      BY <2>2, <3>1, <3>4 DEF CountsInOrder, OneHolder, Bucket
    <3>6. AdmittedAreCounted' /\ WindowsKeepLimit'
      BY <2>1 DEF CountsInOrder, AdmittedAreCounted, WindowsKeepLimit
    <3>7. QED
      BY <3>3, <3>5, <3>6 DEF CountsInOrder
  <2>6. QED
    BY <2>4, <2>5
<1>4. ASSUME NEW r \in Logins, InsertBucket(r) PROVE CountsInOrder'
  <2>1. login[r].at = "absent" /\ buckets[Bucket(r)] = 0 /\ Admit(r, 1)
    BY <1>4 DEF InsertBucket
  <2>2. 1 <= Limit(login[r].gate)
    BY LimitsAssumption DEF Limit
  <2>3. \A s \in Logins \ {r} : login[s].at = "found" => Bucket(s) # Bucket(r)
    BY <2>1, BucketIsBucket DEF CountsInOrder, CountInOrder
  <2>4. QED
    BY <2>1, <2>2, <2>3, AdmitKeepsCounts
<1>5. ASSUME NEW r \in Logins, CountRequest(r) PROVE CountsInOrder'
  <2>1. /\ login[r].at = "found" /\ login[r].seen < Limit(login[r].gate)
        /\ Admit(r, login[r].seen + 1)
    BY <1>5 DEF CountRequest
  <2>2. login[r].seen = buckets[Bucket(r)] /\ login[r].seen \in Nat
    BY <1>0, <2>1, BucketIsBucket DEF CountsInOrder, CountInOrder, Progress
  <2>3. login[r].seen + 1 \in Nat /\ login[r].seen + 1 <= Limit(login[r].gate)
    BY <2>1, <2>2, LimitsAssumption DEF Limit
  <2>4. \A s \in Logins \ {r} : login[s].at = "found" => Bucket(s) # Bucket(r)
    BY <2>1 DEF CountsInOrder, OneHolder
  <2>5. QED
    BY <2>1, <2>2, <2>3, <2>4, AdmitKeepsCounts
<1>6. ASSUME NEW r \in Logins, RetryCount(r) PROVE CountsInOrder'
  <2> DEFINE q == Counting(login[r], login[r].gate)
  <2>1. login[r] \in Progress /\ login[r].gate \in BucketKeys
    BY <1>0 DEF Progress
  <2>2. q.at = "count" /\ q.window = now
    BY <1>0, <2>1, CountingIsProgress
  <2>3. login' = [login EXCEPT ![r] = q] /\ UNCHANGED <<now, buckets, admitted>>
    BY <1>6 DEF RetryCount
  <2> HIDE DEF q
  <2>4. q.at # "found" /\ q.window <= now /\ now <= q.window + 1
    BY <1>0, <2>2
  <2>5. QED
    BY <2>3, <2>4, MovedKeepsCounts
<1>7. ASSUME NEW r \in Logins, \/ RefuseRequest(r) \/ AbortLogin(r)
                               \/ AnswerFailure(r) \/ AnswerSuccess(r)
                               \/ \E renewed \in BOOLEAN : CommitClear(r, renewed)
      PROVE  CountsInOrder'
  <2>1. login' = [login EXCEPT ![r] = Resting] /\ UNCHANGED <<now, buckets, admitted>>
    BY <1>7 DEF RefuseRequest, AbortLogin, AnswerFailure, AnswerSuccess, CommitClear
  <2>2. QED
    BY <1>1, <2>1, MovedKeepsCounts
<1>8. ASSUME NEW r \in Logins, LockAccount(r) PROVE CountsInOrder'
  <2> DEFINE row == IF login[r].user \in Known THEN accounts[login[r].user] ELSE NoAccount
             q   == [login[r] EXCEPT !.at = "verify", !.copy = row, !.allowed = CanAttempt(row)]
  <2>1. login' = [login EXCEPT ![r] = q] /\ UNCHANGED <<now, buckets, admitted>>
    BY <1>8 DEF LockAccount
  <2> HIDE DEF row
  <2>2. q.at = "verify"
    BY <1>0 DEF Progress
  <2> HIDE DEF q
  <2>3. QED
    BY <2>1, <2>2, MovedKeepsCounts
<1>9. ASSUME NEW r \in Logins, NEW a \in Known, BeginClear(r, a) PROVE CountsInOrder'
  <2> DEFINE q == [login[r] EXCEPT !.at = "clear", !.user = a, !.copy = accounts[a]]
  <2>1. login' = [login EXCEPT ![r] = q] /\ UNCHANGED <<now, buckets, admitted>>
    BY <1>9 DEF BeginClear
  <2>2. q.at = "clear"
    BY <1>0 DEF Progress
  <2> HIDE DEF q
  <2>3. QED
    BY <2>1, <2>2, MovedKeepsCounts
<1>10. ASSUME NEW batch \in SUBSET Expired, CleanupBuckets(batch) PROVE CountsInOrder'
  <2>1. /\ UNCHANGED <<now, login, admitted>> /\ \A b \in batch : ~Held(b)
        /\ buckets' = [b \in Buckets |-> IF b \in batch THEN 0 ELSE buckets[b]]
    BY <1>10 DEF CleanupBuckets
  <2>2. \A b \in batch : b \in Buckets /\ b[2] \in Nat /\ ~(b[2] + 1 >= now)
    BY <1>0 DEF Expired, BucketExpiry, Buckets, Minutes
  <2>3. ASSUME NEW r \in Logins PROVE CountInOrder(login'[r], buckets', now')
    <3>1. CountInOrder(login[r], buckets, now)
      BY DEF CountsInOrder
    <3>2. login[r].at = "found" => Bucket(r) \notin batch
      BY <2>1 DEF Held
    <3>3. Bucket(r) \in Buckets /\ Bucket(r) = <<login[r].gate, login[r].window>>
      BY BucketIsBucket
    <3>4. QED
      BY <2>1, <3>1, <3>2, <3>3 DEF CountInOrder
  <2>4. AdmittedAreCounted'
    BY <2>1, <2>2 DEF CountsInOrder, AdmittedAreCounted
  <2>5. OneHolder' /\ WindowsKeepLimit'
    BY <2>1 DEF CountsInOrder, OneHolder, Bucket, WindowsKeepLimit
  <2>6. QED
    BY <2>3, <2>4, <2>5 DEF CountsInOrder
<1>11. CASE Tick
  <2>1. Patient /\ now' = now + 1 /\ UNCHANGED <<buckets, login, admitted>>
    BY <1>11 DEF Tick
  <2>2. ASSUME NEW r \in Logins PROVE CountInOrder(login'[r], buckets', now')
    BY <1>0, <2>1 DEF CountsInOrder, CountInOrder, Patient
  <2>3. \A b \in Buckets : b[2] \in Nat
    BY DEF Buckets, Minutes
  <2>4. AdmittedAreCounted'
    BY <1>0, <2>1, <2>3 DEF CountsInOrder, AdmittedAreCounted
  <2>5. OneHolder' /\ WindowsKeepLimit'
    BY <2>1 DEF CountsInOrder, OneHolder, Bucket, WindowsKeepLimit
  <2>6. QED
    BY <2>2, <2>4, <2>5 DEF CountsInOrder
<1>12. CASE UNCHANGED loginVars
  BY <1>12 DEF loginVars, CountsInOrder, CountInOrder, OneHolder, Bucket, AdmittedAreCounted,
               WindowsKeepLimit
<1>13. QED
  BY <1>2, <1>3, <1>4, <1>5, <1>6, <1>7, <1>8, <1>9, <1>10, <1>11, <1>12
     DEF LoginNext, Proceed

------------------------------------------------------------------------------
(* Attempts.                                                               *)

\* A step that moves one request on, other than to a password, and writes no account.
LEMMA MovedKeepsAttempts ==
    ASSUME LoginTypeOK, AttemptsInOrder, NEW r \in Logins, NEW q, q.at # "verify",
           login' = [login EXCEPT ![r] = q], UNCHANGED <<now, accounts, guesses>>
    PROVE  AttemptsInOrder'
<1>1. \A s \in Logins : login'[s] = IF s = r THEN q ELSE login[s]
  BY DEF LoginTypeOK
<1>2. \A s \in Logins : AttemptInOrder(login'[s], accounts', now')
  BY <1>1 DEF AttemptsInOrder, AttemptInOrder
<1>3. OneAttempt'
  BY <1>1 DEF AttemptsInOrder, OneAttempt
<1>4. GuessesAreStored'
  BY DEF AttemptsInOrder, GuessesAreStored
<1>5. QED
  BY <1>2, <1>3, <1>4 DEF AttemptsInOrder

\* A step that ends a request, and writes an account whose password nobody else
\* verifies, or writes it as it was.
LEMMA WritingKeepsAttempts ==
    ASSUME LoginTypeOK, AttemptsInOrder, NEW r \in Logins, NEW a \in Known, NEW row,
           login' = [login EXCEPT ![r] = Resting], UNCHANGED now,
           accounts' = [accounts EXCEPT ![a] = row],
           guesses' = [guesses EXCEPT ![a] = row.failed], row.failed < MaxFailures,
           \/ row = accounts[a]
           \/ \A s \in Logins \ {r} : ~(login[s].at = "verify" /\ login[s].user = a)
    PROVE  AttemptsInOrder'
<1>1. /\ \A s \in Logins : login'[s] = IF s = r THEN Resting ELSE login[s]
      /\ \A c \in Known : accounts'[c] = IF c = a THEN row ELSE accounts[c]
      /\ \A c \in Known : guesses'[c] = IF c = a THEN row.failed ELSE guesses[c]
      /\ Resting.at = "idle"
  BY DEF LoginTypeOK, Resting
<1>2. \A s \in Logins : AttemptInOrder(login'[s], accounts', now')
  BY <1>1 DEF AttemptsInOrder, AttemptInOrder
<1>3. OneAttempt'
  BY <1>1 DEF AttemptsInOrder, OneAttempt
<1>4. GuessesAreStored'
  BY <1>1 DEF AttemptsInOrder, GuessesAreStored
<1>5. QED
  BY <1>2, <1>3, <1>4 DEF AttemptsInOrder

\* The account of a request that answers.
LEMMA AnsweredAccount ==
    ASSUME LoginTypeOK, AttemptsInOrder, NEW r \in Logins, login[r].at = "verify",
           login[r].allowed
    PROVE  /\ login[r].user \in Known
           /\ login[r].copy = accounts[login[r].user]
           /\ accounts[login[r].user] \in AccountRows
           /\ accounts[login[r].user].lockedUntil <= now
           /\ \A s \in Logins \ {r} : ~(login[s].at = "verify" /\ login[s].user = login[r].user)
<1>1. AttemptInOrder(login[r], accounts, now)
  BY DEF AttemptsInOrder
<1>2. login[r].user \in Known
  BY <1>1 DEF AttemptInOrder
<1>3. QED
  BY <1>1, <1>2 DEF AttemptInOrder, AttemptsInOrder, OneAttempt, LoginTypeOK

\* What a wrong password writes, and the history of it.
LEMMA FailureWrites ==
    ASSUME LoginTypeOK, AttemptsInOrder, NEW r \in Logins, AnswerFailure(r), login[r].allowed
    PROVE  LET a == login[r].user
               row == accounts[a]
           IN /\ a \in Known /\ row.lockedUntil <= now
              /\ accounts' = [accounts EXCEPT ![a] = Failed(row)]
              /\ guesses' = [guesses EXCEPT ![a] = Failed(row).failed]
              /\ Failed(row).failed < MaxFailures
              /\ row.failed + 1 < MaxFailures
                     => Failed(row).failed = row.failed + 1
                        /\ Failed(row).lockedUntil = row.lockedUntil
              /\ ~(row.failed + 1 < MaxFailures)
                     => /\ row.failed + 1 = MaxFailures
                        /\ Failed(row).failed = 0 /\ Failed(row).lockedUntil > now
<1> DEFINE a == login[r].user
           row == accounts[a]
<1>1. /\ login[r].at = "verify"
      /\ accounts' = [accounts EXCEPT ![a] = Written(accounts[a], login[r].copy,
                                                     Failed(login[r].copy))]
      /\ guesses' = [guesses EXCEPT ![a] = IF guesses[a] + 1 >= MaxFailures THEN 0
                                           ELSE guesses[a] + 1]
  BY DEF AnswerFailure
<1>2. a \in Known /\ login[r].copy = row /\ row \in AccountRows /\ row.lockedUntil <= now
  BY <1>1, AnsweredAccount
<1>3. now \in Minutes /\ now \in Nat /\ row.failed \in Nat
  BY <1>2 DEF LoginTypeOK, Minutes, AccountRows
<1>4. /\ Failed(row) \in AccountRows
      /\ row.failed + 1 < MaxFailures
             => Failed(row).failed = row.failed + 1 /\ Failed(row).lockedUntil = row.lockedUntil
      /\ row.failed + 1 >= MaxFailures
             => Failed(row).failed = 0 /\ Failed(row).lockedUntil = now + LockMinutes
  BY <1>2, <1>3, FailedIsRow
<1>5. Written(row, row, Failed(row)) = Failed(row)
  BY <1>2, <1>4, WrittenIsRow
<1>6. guesses[a] = row.failed /\ row.failed < MaxFailures
  BY <1>2 DEF AttemptsInOrder, GuessesAreStored
<1>7. accounts' = [accounts EXCEPT ![a] = Failed(row)]
  BY <1>1, <1>2, <1>5
<1>8. Failed(row).failed = IF guesses[a] + 1 >= MaxFailures THEN 0 ELSE guesses[a] + 1
  BY <1>3, <1>4, <1>6, LimitsAssumption
<1>9. Failed(row).failed < MaxFailures
  BY <1>3, <1>6, <1>8, LimitsAssumption
<1>10. ~(row.failed + 1 < MaxFailures) => row.failed + 1 = MaxFailures
  BY <1>3, <1>6, LimitsAssumption
<1>11. now + LockMinutes > now
  BY <1>3, LimitsAssumption
<1>12. guesses' = [guesses EXCEPT ![a] = Failed(row).failed]
  BY <1>1, <1>8
<1>13. QED
  BY <1>2, <1>3, <1>4, <1>7, <1>9, <1>10, <1>11, <1>12, LimitsAssumption

\* The right password clears an account that was not locked.
LEMMA SuccessWrites ==
    ASSUME LoginTypeOK, AttemptsInOrder, NEW r \in Logins, AnswerSuccess(r)
    PROVE  LET a == login[r].user
               new == Cleared(accounts[a])
           IN /\ a \in Known /\ accounts[a].lockedUntil <= now
              /\ accounts' = [accounts EXCEPT ![a] = new]
              /\ guesses' = [guesses EXCEPT ![a] = 0]
              /\ new.failed = 0 /\ new.lockedUntil = 0
<1> DEFINE a == login[r].user
           row == accounts[a]
<1>1. /\ login[r].at = "verify" /\ login[r].allowed
      /\ accounts' = [accounts EXCEPT ![a] = Written(accounts[a], login[r].copy,
                                                     Cleared(login[r].copy))]
      /\ guesses' = [guesses EXCEPT ![a] = 0]
  BY DEF AnswerSuccess
<1>2. a \in Known /\ login[r].copy = row /\ row \in AccountRows /\ row.lockedUntil <= now
  BY <1>1, AnsweredAccount
<1>3. Cleared(row) \in AccountRows /\ Cleared(row).failed = 0 /\ Cleared(row).lockedUntil = 0
  BY <1>2, ClearedIsRow
<1>4. Written(row, row, Cleared(row)) = Cleared(row)
  BY <1>2, <1>3, WrittenIsRow
<1>5. QED
  BY <1>1, <1>2, <1>3, <1>4

\* An unlock or a new password clears what its copy tells it to, and may lift the lock.
LEMMA ClearWrites ==
    ASSUME LoginTypeOK, AttemptsInOrder, NEW r \in Logins, NEW renewed \in BOOLEAN,
           CommitClear(r, renewed), login[r].user \in Known
    PROVE  \E new \in AccountRows :
               LET a == login[r].user
               IN /\ accounts' = [accounts EXCEPT ![a] = new]
                  /\ guesses' = [guesses EXCEPT ![a] = new.failed]
                  /\ new.failed \in {0, accounts[a].failed}
                  /\ new.lockedUntil \in {0, accounts[a].lockedUntil}
                  /\ \/ new = accounts[a]
                     \/ \A s \in Logins : ~(login[s].at = "verify" /\ login[s].user = a)
<1> DEFINE a == login[r].user
           copy == login[r].copy
           set == [Cleared(copy) EXCEPT !.usable = Cleared(copy).usable \/ renewed]
           new == Written(accounts[a], copy, set)
<1>1. /\ copy \in AccountRows /\ accounts[a] \in AccountRows
      /\ guesses[a] = accounts[a].failed /\ guesses \in [Known -> Nat]
  BY DEF LoginTypeOK, AttemptsInOrder, GuessesAreStored
<1>2. (Cleared(copy).usable \/ renewed) \in BOOLEAN
  BY <1>1
<1>3. set \in AccountRows /\ set.failed = 0 /\ set.lockedUntil = 0
  BY <1>1, <1>2, ClearedIsRow
<1>4. /\ accounts' = [accounts EXCEPT ![a] = new]
      /\ guesses' = IF copy.failed # 0 THEN [guesses EXCEPT ![a] = 0] ELSE guesses
      /\ set # copy => ~AccountHeld(a)
  BY DEF CommitClear
<1> HIDE DEF set
<1>5. /\ new \in AccountRows
      /\ new.failed = IF set.failed = copy.failed THEN accounts[a].failed ELSE set.failed
      /\ new.lockedUntil = IF set.lockedUntil = copy.lockedUntil THEN accounts[a].lockedUntil
                           ELSE set.lockedUntil
      /\ set = copy => new = accounts[a]
  BY <1>1, <1>3, WrittenIsRow
<1> HIDE DEF new
<1>6. guesses' = [guesses EXCEPT ![a] = new.failed]
  <2>1. CASE copy.failed # 0
    BY <1>3, <1>4, <1>5, <2>1
  <2>2. CASE copy.failed = 0
    <3>1. guesses' = guesses /\ new.failed = guesses[a]
      BY <1>1, <1>3, <1>4, <1>5, <2>2
    <3>2. QED
      BY <1>1, <3>1
  <2>3. QED
    BY <2>1, <2>2
<1>7. \/ new = accounts[a]
      \/ \A s \in Logins : ~(login[s].at = "verify" /\ login[s].user = a)
  BY <1>4, <1>5 DEF AccountHeld
<1>8. new.failed \in {0, accounts[a].failed} /\ new.lockedUntil \in {0, accounts[a].lockedUntil}
  BY <1>3, <1>5
<1>9. QED
  BY <1>4, <1>5, <1>6, <1>7, <1>8

\* The steps that end a request without an account, and those that go on with one.
Moves(r) ==
    \/ \E user \in Users : Arrive(r, user)
    \/ \E a \in Known : BeginClear(r, a)
    \/ SelectBucket(r) \/ InsertBucket(r) \/ RetryCount(r) \/ CountRequest(r)
    \/ RefuseRequest(r) \/ AbortLogin(r)

LEMMA MovesMove ==
    ASSUME LoginTypeOK, NEW r \in Logins, Moves(r)
    PROVE  /\ UNCHANGED <<now, accounts, guesses>>
           /\ \E q : q.at # "verify" /\ login' = [login EXCEPT ![r] = q]
<1>0. now \in Minutes /\ login \in [Logins -> Progress] /\ login[r] \in Progress
  BY DEF LoginTypeOK, Progress
<1>1. CASE \E user \in Users : Arrive(r, user)
  <2>1. PICK user \in Users : Arrive(r, user)
    BY <1>1
  <2>2. [login[r] EXCEPT !.user = user] \in Progress
    BY <1>0 DEF Progress, BucketKeys
  <2>3. Counting([login[r] EXCEPT !.user = user], Address).at = "count"
    BY <1>0, <2>2, CountingIsProgress DEF BucketKeys
  <2>4. QED
    BY <2>1, <2>3 DEF Arrive
<1>2. CASE \E a \in Known : BeginClear(r, a)
  <2>1. PICK a \in Known : BeginClear(r, a)
    BY <1>2
  <2>2. [login[r] EXCEPT !.at = "clear", !.user = a, !.copy = accounts[a]].at = "clear"
    BY <1>0 DEF Progress
  <2>3. QED
    BY <2>1, <2>2 DEF BeginClear
<1>3. CASE SelectBucket(r)
  <2> DEFINE q == [login[r] EXCEPT !.at = IF buckets[Bucket(r)] = 0 THEN "absent" ELSE "found",
                                   !.seen = buckets[Bucket(r)]]
  <2>1. q.at # "verify"
    BY <1>0 DEF Progress
  <2>2. login' = [login EXCEPT ![r] = q] /\ UNCHANGED <<now, accounts, guesses>>
    BY <1>0, <1>3 DEF SelectBucket
  <2> HIDE DEF q
  <2>3. QED
    BY <2>1, <2>2
<1>4. CASE InsertBucket(r) \/ CountRequest(r)
  <2>1. Passed(login[r]).at # "verify"
    BY <1>0, PassedIsProgress
  <2>2. login' = [login EXCEPT ![r] = Passed(login[r])] /\ UNCHANGED <<now, accounts, guesses>>
    BY <1>4 DEF InsertBucket, CountRequest, Admit
  <2>3. QED
    BY <2>1, <2>2
<1>5. CASE RetryCount(r)
  <2>1. login[r].gate \in BucketKeys
    BY <1>0 DEF Progress
  <2>2. Counting(login[r], login[r].gate).at # "verify"
    BY <1>0, <2>1, CountingIsProgress
  <2>3. QED
    BY <1>5, <2>2 DEF RetryCount
<1>6. CASE RefuseRequest(r) \/ AbortLogin(r)
  <2>1. Resting.at # "verify"
    BY DEF Resting
  <2>2. QED
    BY <1>6, <2>1 DEF RefuseRequest, AbortLogin
<1>7. QED
  BY <1>1, <1>2, <1>3, <1>4, <1>5, <1>6 DEF Moves

LEMMA AttemptsKept ==
    ASSUME LoginTypeOK, AttemptsInOrder, [LoginNext]_loginVars
    PROVE  AttemptsInOrder'
<1>0. /\ now \in Nat /\ accounts \in [Known -> AccountRows] /\ login \in [Logins -> Progress]
      /\ guesses \in [Known -> Nat]
  BY DEF LoginTypeOK, Progress, Minutes
<1>1. ASSUME NEW r \in Logins, Moves(r) PROVE AttemptsInOrder'
  BY <1>1, MovesMove, MovedKeepsAttempts
<1>2. ASSUME NEW r \in Logins, LockAccount(r) PROVE AttemptsInOrder'
  <2> DEFINE a == login[r].user
             row == IF a \in Known THEN accounts[a] ELSE NoAccount
             q == [login[r] EXCEPT !.at = "verify", !.copy = row, !.allowed = CanAttempt(row)]
  <2>1. /\ ~AccountHeld(a) \/ a \notin Known
        /\ login' = [login EXCEPT ![r] = q] /\ UNCHANGED <<now, accounts, guesses>>
    BY <1>2 DEF LockAccount
  <2> HIDE DEF row
  <2>2. q.at = "verify" /\ q.user = a /\ q.copy = row /\ q.allowed = CanAttempt(row)
    BY <1>0 DEF Progress
  <2> HIDE DEF q
  <2>3. \A s \in Logins : login'[s] = IF s = r THEN q ELSE login[s]
    BY <1>0, <2>1
  <2>4. a \notin Known => ~CanAttempt(row)
    BY DEF row, CanAttempt, NoAccount
  <2>5. a \in Known => row = accounts[a] /\ (CanAttempt(row) => accounts[a].lockedUntil <= now)
    BY DEF row, CanAttempt
  <2>6. AttemptInOrder(q, accounts, now)
    BY <2>2, <2>4, <2>5 DEF AttemptInOrder
  <2>7. \A s \in Logins : AttemptInOrder(login'[s], accounts', now')
    BY <2>1, <2>3, <2>6 DEF AttemptsInOrder
  <2>8. OneAttempt'
    BY <2>1, <2>2, <2>3 DEF AttemptsInOrder, OneAttempt, AccountHeld
  <2>9. GuessesAreStored'
    BY <2>1 DEF AttemptsInOrder, GuessesAreStored
  <2>10. QED
    BY <2>7, <2>8, <2>9 DEF AttemptsInOrder
<1>3. ASSUME NEW r \in Logins, AnswerFailure(r) PROVE AttemptsInOrder'
  <2>1. login' = [login EXCEPT ![r] = Resting] /\ UNCHANGED now /\ login[r].at = "verify"
    BY <1>3 DEF AnswerFailure
  <2>2. CASE ~login[r].allowed
    <3>1. UNCHANGED <<now, accounts, guesses>> /\ Resting.at # "verify"
      BY <1>3, <2>2 DEF AnswerFailure, Resting
    <3>2. QED
      BY <2>1, <3>1, MovedKeepsAttempts
  <2>3. CASE login[r].allowed
    <3> DEFINE a == login[r].user
               row == Failed(accounts[a])
    <3>1. /\ a \in Known /\ row.failed < MaxFailures
          /\ accounts' = [accounts EXCEPT ![a] = row]
          /\ guesses' = [guesses EXCEPT ![a] = row.failed]
      BY <1>3, <2>3, FailureWrites
    <3>2. \A s \in Logins \ {r} : ~(login[s].at = "verify" /\ login[s].user = a)
      BY <2>1, <2>3, AnsweredAccount
    <3> HIDE DEF row
    <3>3. QED
      BY <2>1, <3>1, <3>2, WritingKeepsAttempts
  <2>4. QED
    BY <2>2, <2>3
<1>4. ASSUME NEW r \in Logins, AnswerSuccess(r) PROVE AttemptsInOrder'
  <2> DEFINE a == login[r].user
             row == Cleared(accounts[a])
  <2>1. /\ login' = [login EXCEPT ![r] = Resting] /\ UNCHANGED now
        /\ login[r].at = "verify" /\ login[r].allowed
    BY <1>4 DEF AnswerSuccess
  <2>2. /\ a \in Known /\ row.failed = 0
        /\ accounts' = [accounts EXCEPT ![a] = row] /\ guesses' = [guesses EXCEPT ![a] = 0]
    BY <1>4, SuccessWrites
  <2>3. \A s \in Logins \ {r} : ~(login[s].at = "verify" /\ login[s].user = a)
    BY <2>1, AnsweredAccount
  <2> HIDE DEF row
  <2>4. row.failed < MaxFailures /\ guesses' = [guesses EXCEPT ![a] = row.failed]
    BY <2>2, LimitsAssumption
  <2>5. QED
    BY <2>1, <2>2, <2>3, <2>4, WritingKeepsAttempts
<1>5. ASSUME NEW r \in Logins, NEW renewed \in BOOLEAN, CommitClear(r, renewed)
      PROVE  AttemptsInOrder'
  <2> DEFINE a == login[r].user
  <2>1. login' = [login EXCEPT ![r] = Resting] /\ UNCHANGED now
    BY <1>5 DEF CommitClear
  <2>2. CASE a \in Known
    <3>1. PICK new \in AccountRows :
              /\ accounts' = [accounts EXCEPT ![a] = new]
              /\ guesses' = [guesses EXCEPT ![a] = new.failed]
              /\ new.failed \in {0, accounts[a].failed}
              /\ \/ new = accounts[a]
                 \/ \A s \in Logins : ~(login[s].at = "verify" /\ login[s].user = a)
      BY <1>5, <2>2, ClearWrites
    <3>2. new.failed < MaxFailures
      BY <2>2, <3>1, LimitsAssumption DEF AttemptsInOrder, GuessesAreStored
    <3>3. QED
      BY <2>1, <2>2, <3>1, <3>2, WritingKeepsAttempts
  <2>3. CASE a \notin Known
    <3>1. UNCHANGED <<accounts, guesses>> /\ Resting.at # "verify"
      BY <1>0, <1>5, <2>3 DEF CommitClear, Resting
    <3>2. QED
      BY <2>1, <3>1, MovedKeepsAttempts
  <2>4. QED
    BY <2>2, <2>3
<1>6. ASSUME NEW batch \in SUBSET Expired, CleanupBuckets(batch) PROVE AttemptsInOrder'
  BY <1>6 DEF CleanupBuckets, AttemptsInOrder, AttemptInOrder, OneAttempt, GuessesAreStored
<1>7. CASE Tick
  <2>1. now' = now + 1 /\ UNCHANGED <<accounts, login, guesses>>
    BY <1>7 DEF Tick
  <2>2. ASSUME NEW r \in Logins PROVE AttemptInOrder(login'[r], accounts', now')
    <3>1. AttemptInOrder(login[r], accounts, now)
      BY DEF AttemptsInOrder
    <3>2. \A a \in Known : accounts[a].lockedUntil \in Nat
      BY <1>0, LimitsAssumption DEF AccountRows
    <3>3. QED
      BY <1>0, <2>1, <3>1, <3>2 DEF AttemptInOrder
  <2>3. QED
    BY <2>1, <2>2 DEF AttemptsInOrder, OneAttempt, GuessesAreStored
<1>8. CASE UNCHANGED loginVars
  BY <1>8 DEF loginVars, AttemptsInOrder, AttemptInOrder, OneAttempt, GuessesAreStored
<1>9. QED
  BY <1>1, <1>2, <1>3, <1>4, <1>5, <1>6, <1>7, <1>8 DEF LoginNext, Proceed, Moves

LEMMA InitIsInOrder == LoginInit => IInv
<1> SUFFICES ASSUME LoginInit PROVE IInv
  OBVIOUS
<1>1. /\ now = 0 /\ now \in Minutes /\ 0 \in Nat
      /\ buckets = [b \in Buckets |-> 0] /\ admitted = [b \in Buckets |-> 0]
      /\ guesses = [a \in Known |-> 0] /\ login = [r \in Logins |-> Resting]
  BY LimitsAssumption DEF LoginInit, Minutes
<1>2. accounts \in [Known -> AccountRows] /\ \A a \in Known : accounts[a].failed = 0
  <2>1. ASSUME NEW u \in BOOLEAN
        PROVE  /\ [NoAccount EXCEPT !.usable = u] \in AccountRows
               /\ [NoAccount EXCEPT !.usable = u].failed = 0
    BY NoAccountIsRow DEF NoAccount, AccountRows
  <2>2. accounts \in [Known -> {[NoAccount EXCEPT !.usable = u] : u \in BOOLEAN}]
    BY DEF LoginInit
  <2>3. ASSUME NEW a \in Known PROVE accounts[a] \in AccountRows /\ accounts[a].failed = 0
    <3>1. PICK u \in BOOLEAN : accounts[a] = [NoAccount EXCEPT !.usable = u]
      BY <2>2
    <3>2. QED
      BY <2>1, <3>1
  <2>4. QED
    BY <2>2, <2>3
<1>3. LoginTypeOK
  BY <1>1, <1>2, RestingIsProgress DEF LoginTypeOK, Progress
<1>4. Resting.at = "idle"
  BY DEF Resting
<1>5. \A b \in Buckets : b[1] \in BucketKeys
  BY DEF Buckets
<1>6. CountsInOrder
  BY <1>1, <1>4, <1>5, LimitsAssumption
     DEF CountsInOrder, CountInOrder, OneHolder, AdmittedAreCounted, WindowsKeepLimit, Limit
<1>7. AttemptsInOrder
  BY <1>1, <1>2, <1>4, LimitsAssumption
     DEF AttemptsInOrder, AttemptInOrder, OneAttempt, GuessesAreStored
<1>8. QED
  BY <1>3, <1>6, <1>7 DEF IInv

LEMMA InvariantKept == IInv /\ [LoginNext]_loginVars => IInv'
  BY TypesKept, CountsKept, AttemptsKept DEF IInv

\* The invariant of sign-in: what is counted, and what is worked on, is what is stored.
THEOREM Invariant == LoginSpec => []IInv
  BY InitIsInOrder, InvariantKept, PTL DEF LoginSpec

\* Every variable keeps its type.
THEOREM LoginTypes == LoginSpec => []LoginTypeOK
<1>1. IInv => LoginTypeOK
  BY DEF IInv
<1>2. QED
  BY <1>1, Invariant, PTL

\* No key has more requests let through in a minute than its limit allows, whatever
\* the number of requests that count at the same time.
THEOREM LimitsKept == LoginSpec => []WindowsKeepLimit
<1>1. IInv => WindowsKeepLimit
  BY DEF IInv, CountsInOrder
<1>2. QED
  BY <1>1, Invariant, PTL

\* The rows tell how many requests were let through, as long as any may still count.
THEOREM NoneForgotten == LoginSpec => []AdmittedAreCounted
<1>1. IInv => AdmittedAreCounted
  BY DEF IInv, CountsInOrder
<1>2. QED
  BY <1>1, Invariant, PTL

------------------------------------------------------------------------------
(* The steps of sign-in, seen as steps of Lockout.                         *)

Locked == {a \in Known : accounts[a].lockedUntil > now}

\* What is locked after the row of one account has been written.
LEMMA LockedByOne ==
    ASSUME LoginTypeOK, NEW a \in Known, NEW row,
           accounts' = [accounts EXCEPT ![a] = row], UNCHANGED now
    PROVE  Locked' = IF row.lockedUntil > now THEN Locked \cup {a} ELSE Locked \ {a}
<1>1. \A b \in Known : accounts'[b] = IF b = a THEN row ELSE accounts[b]
  BY DEF LoginTypeOK
<1>2. QED
  BY <1>1 DEF Locked

LEMMA FailureIsGuess ==
    ASSUME LoginTypeOK, AttemptsInOrder, NEW r \in Logins, AnswerFailure(r), login[r].allowed
    PROVE  \E a \in Known : Promise!Guess(a)
<1>0. PICK a \in Known : a = login[r].user
  BY FailureWrites
<1> DEFINE row == Failed(accounts[a])
<1>1. /\ a \in Known /\ accounts[a].lockedUntil <= now
      /\ accounts' = [accounts EXCEPT ![a] = row] /\ guesses' = [guesses EXCEPT ![a] = row.failed]
      /\ accounts[a].failed + 1 < MaxFailures
             => row.failed = accounts[a].failed + 1 /\ row.lockedUntil = accounts[a].lockedUntil
      /\ ~(accounts[a].failed + 1 < MaxFailures)
             => accounts[a].failed + 1 = MaxFailures /\ row.failed = 0 /\ row.lockedUntil > now
  BY <1>0, FailureWrites
<1>2. guesses[a] = accounts[a].failed
  BY <1>1 DEF AttemptsInOrder, GuessesAreStored
<1>3. UNCHANGED now
  BY DEF AnswerFailure
<1>4. now \in Nat /\ accounts[a].lockedUntil \in Nat
  BY <1>1, LimitsAssumption DEF LoginTypeOK, Minutes, AccountRows
<1>5. a \notin Locked
  BY <1>1, <1>4 DEF Locked
<1> HIDE DEF row
<1>6. Locked' = IF row.lockedUntil > now THEN Locked \cup {a} ELSE Locked \ {a}
  BY <1>1, <1>3, LockedByOne
<1>7. CASE accounts[a].failed + 1 < MaxFailures
  <2>1. row.failed = guesses[a] + 1 /\ ~(row.lockedUntil > now)
    BY <1>1, <1>2, <1>4, <1>7
  <2>2. Locked' = Locked
    BY <1>5, <1>6, <2>1
  <2>3. guesses' = [guesses EXCEPT ![a] = guesses[a] + 1]
    BY <1>1, <2>1
  <2>4. QED
    BY <1>2, <1>5, <1>7, <2>2, <2>3 DEF Promise!Guess, Locked
<1>8. CASE ~(accounts[a].failed + 1 < MaxFailures)
  <2>1. Locked' = Locked \cup {a} /\ guesses' = [guesses EXCEPT ![a] = 0]
    BY <1>1, <1>6, <1>8
  <2>2. guesses[a] + 1 = MaxFailures
    BY <1>1, <1>2, <1>8
  <2>3. QED
    BY <1>5, <2>1, <2>2 DEF Promise!Guess, Locked
<1>9. QED
  BY <1>7, <1>8

LEMMA SuccessIsSignIn ==
    ASSUME LoginTypeOK, AttemptsInOrder, NEW r \in Logins, AnswerSuccess(r)
    PROVE  login[r].user \in Known /\ Promise!SignIn(login[r].user)
<1> DEFINE a == login[r].user
           row == Cleared(accounts[a])
<1>1. /\ a \in Known /\ accounts[a].lockedUntil <= now
      /\ accounts' = [accounts EXCEPT ![a] = row]
      /\ guesses' = [guesses EXCEPT ![a] = 0] /\ row.lockedUntil = 0
  BY SuccessWrites
<1>2. UNCHANGED now
  BY DEF AnswerSuccess
<1>3. now \in Nat /\ accounts[a].lockedUntil \in Nat
  BY <1>1, LimitsAssumption DEF LoginTypeOK, Minutes, AccountRows
<1>4. a \notin Locked
  BY <1>1, <1>3 DEF Locked
<1> HIDE DEF row
<1>5. Locked' = IF row.lockedUntil > now THEN Locked \cup {a} ELSE Locked \ {a}
  BY <1>1, <1>2, LockedByOne
<1>6. Locked' = Locked
  BY <1>1, <1>3, <1>4, <1>5
<1>7. QED
  BY <1>1, <1>4, <1>6 DEF Promise!SignIn, Locked

\* A clear that takes the count away is one of Lockout's; one that leaves what was
\* counted since its copy was made only lifts the lock, or does nothing.
LEMMA ClearIsClear ==
    ASSUME LoginTypeOK, AttemptsInOrder, NEW r \in Logins, NEW renewed \in BOOLEAN,
           CommitClear(r, renewed)
    PROVE  [Promise!Next]_<<guesses, Locked>>
<1>0. PICK a : a = login[r].user
  OBVIOUS
<1>1. UNCHANGED now /\ now \in Nat /\ guesses \in [Known -> Nat]
  BY DEF CommitClear, LoginTypeOK, Minutes
<1>2. CASE a \notin Known
  <2>1. UNCHANGED <<now, accounts, guesses>>
    BY <1>2, <1>0 DEF CommitClear, LoginTypeOK
  <2>2. QED
    BY <2>1 DEF Locked
<1>3. CASE a \in Known
  <2>1. PICK new \in AccountRows :
            /\ accounts' = [accounts EXCEPT ![a] = new]
            /\ guesses' = [guesses EXCEPT ![a] = new.failed]
            /\ new.failed \in {0, accounts[a].failed}
            /\ new.lockedUntil \in {0, accounts[a].lockedUntil}
    BY <1>3, <1>0, ClearWrites
  <2>2. guesses[a] = accounts[a].failed
    BY <1>3 DEF AttemptsInOrder, GuessesAreStored
  <2>3. Locked' = IF new.lockedUntil > now THEN Locked \cup {a} ELSE Locked \ {a}
    BY <1>1, <1>3, <2>1, LockedByOne
  <2>4. Locked' \in {Locked, Locked \ {a}}
    BY <1>1, <1>3, <2>1, <2>3 DEF Locked
  <2>5. CASE new.failed = 0
    <3>1. Promise!Clear(a)
      BY <2>1, <2>4, <2>5 DEF Promise!Clear, Locked
    <3>2. Promise!Next
      BY <1>3, <3>1 DEF Promise!Next
    <3>3. QED
      BY <3>2
  <2>6. CASE new.failed = accounts[a].failed
    <3>1. UNCHANGED guesses
      BY <1>1, <2>1, <2>2, <2>6
    <3>2. CASE Locked' = Locked
      BY <3>1, <3>2
    <3>3. CASE Locked' = Locked \ {a} /\ a \in Locked
      <4>1. Promise!Unlock({a})
        BY <3>1, <3>3 DEF Promise!Unlock, Locked
      <4>2. Promise!Next
        BY <1>3, <4>1 DEF Promise!Next
      <4>3. QED
        BY <4>2
    <3>4. QED
      BY <2>4, <3>2, <3>3
  <2>7. QED
    BY <2>1, <2>5, <2>6
<1>4. QED
  BY <1>2, <1>3

LEMMA TickIsUnlock ==
    ASSUME LoginTypeOK, Tick
    PROVE  \E ended \in SUBSET Known : Promise!Unlock(ended)
<1>1. now \in Nat /\ now' = now + 1 /\ UNCHANGED <<accounts, guesses>>
  BY DEF Tick, LoginTypeOK, Minutes
<1>2. \A b \in Known : accounts[b].lockedUntil \in Nat
  BY LimitsAssumption DEF LoginTypeOK, AccountRows
<1>3. Locked' \subseteq Locked
  BY <1>1, <1>2 DEF Locked
<1>4. Locked \subseteq Known
  BY DEF Locked
<1>5. PICK ended \in SUBSET Known : ended = Locked \ Locked'
  BY <1>4
<1>6. ended \subseteq Locked /\ Locked' = Locked \ ended
  BY <1>3, <1>5
<1>7. QED
  BY <1>1, <1>6 DEF Promise!Unlock, Locked

LEMMA StepIsPromised ==
    ASSUME IInv, [LoginNext]_loginVars
    PROVE  [Promise!Next]_<<guesses, Locked>>
<1>0. LoginTypeOK /\ AttemptsInOrder
  BY DEF IInv
<1>1. ASSUME UNCHANGED <<now, accounts, guesses>> PROVE UNCHANGED <<guesses, Locked>>
  BY <1>1 DEF Locked
<1>2. ASSUME NEW r \in Logins, Moves(r) PROVE UNCHANGED <<guesses, Locked>>
  BY <1>0, <1>1, <1>2, MovesMove
<1>3. ASSUME NEW r \in Logins, LockAccount(r) PROVE UNCHANGED <<guesses, Locked>>
  BY <1>1, <1>3 DEF LockAccount
<1>4. ASSUME NEW r \in Logins, AnswerFailure(r) PROVE [Promise!Next]_<<guesses, Locked>>
  <2>1. CASE login[r].allowed
    <3>1. \E a \in Known : Promise!Guess(a)
      BY <1>0, <1>4, <2>1, FailureIsGuess
    <3>2. Promise!Next
      BY <3>1 DEF Promise!Next
    <3>3. QED
      BY <3>2
  <2>2. CASE ~login[r].allowed
    BY <1>1, <1>4, <2>2 DEF AnswerFailure
  <2>3. QED
    BY <2>1, <2>2
<1>5. ASSUME NEW r \in Logins, AnswerSuccess(r) PROVE Promise!Next
  BY <1>0, <1>5, SuccessIsSignIn DEF Promise!Next
<1>6. ASSUME NEW r \in Logins, NEW renewed \in BOOLEAN, CommitClear(r, renewed)
      PROVE  [Promise!Next]_<<guesses, Locked>>
  BY <1>0, <1>6, ClearIsClear
<1>7. ASSUME NEW batch \in SUBSET Expired, CleanupBuckets(batch)
      PROVE  UNCHANGED <<guesses, Locked>>
  BY <1>1, <1>7 DEF CleanupBuckets
<1>8. CASE Tick
  <2>1. \E ended \in SUBSET Known : Promise!Unlock(ended)
    BY <1>0, <1>8, TickIsUnlock
  <2>2. Promise!Next
    BY <2>1 DEF Promise!Next
  <2>3. QED
    BY <2>2
<1>9. CASE UNCHANGED loginVars
  BY <1>1, <1>9 DEF loginVars
<1>10. QED
  BY <1>2, <1>3, <1>4, <1>5, <1>6, <1>7, <1>8, <1>9 DEF LoginNext, Proceed, Moves

\* Local sign-in implements Lockout: every guess that is answered counts towards the
\* lock, and nobody signs in to a locked account, for every number of requests and
\* accounts.
THEOREM LoginImplementsLockout == LoginSpec => ImplementsLockout
<1>1. LoginInit => Promise!Init
  <2> SUFFICES ASSUME LoginInit PROVE Promise!Init
    OBVIOUS
  <2>1. now = 0 /\ guesses = [a \in Known |-> 0]
    BY DEF LoginInit
  <2>2. ASSUME NEW a \in Known PROVE ~(accounts[a].lockedUntil > now)
    <3>1. PICK u \in BOOLEAN : accounts[a] = [NoAccount EXCEPT !.usable = u]
      BY DEF LoginInit
    <3>2. accounts[a].lockedUntil = 0
      BY <3>1 DEF NoAccount
    <3>3. QED
      BY <2>1, <3>2
  <2>3. QED
    BY <2>1, <2>2 DEF Promise!Init
<1>2. IInv /\ [LoginNext]_loginVars => [Promise!Next]_Promise!promised
  BY StepIsPromised DEF Promise!promised, Locked
<1>3. QED
  BY <1>1, <1>2, Invariant, PTL DEF LoginSpec, ImplementsLockout, Promise!Spec
==============================================================================
