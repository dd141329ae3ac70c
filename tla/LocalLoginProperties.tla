------------------------ MODULE LocalLoginProperties -------------------------
(***************************************************************************)
(* What LocalLogin guarantees.                                             *)
(***************************************************************************)
EXTENDS LocalLogin

\* No key has more requests let through in a minute than its limit, however many
\* count at the same time, insert the same bucket, or count while the cleanup job
\* deletes buckets (allow_rate_limit).
WindowsKeepLimit == \A b \in Buckets : admitted[b] <= Limit(b[1])

\* As long as a request may still count in a bucket, its row tells how many were
\* let through: none is counted twice, and none is forgotten.
AdmittedAreCounted == \A b \in Buckets : b[2] + 1 >= now => buckets[b] = admitted[b]

Promise == INSTANCE Lockout WITH
    Accounts <- Known,
    Tolerance <- MaxFailures,
    wrong <- guesses,
    locked <- {a \in Known : accounts[a].lockedUntil > now}

\* Local sign-in implements Lockout: every guess that is answered counts towards the
\* lock, although requests, administrators and new passwords work on copies of the
\* account; and nobody signs in to a locked account.
ImplementsLockout == Promise!Spec

\* Every request for sign-in is answered, or ends with its process: the repetition of
\* a count that lost the race for its bucket comes to an end.
LoginsAnswered ==
    \A r \in Logins : login[r].at \in {"count", "found", "absent", "attempt", "verify"}
                          ~> login[r].at = "idle"
==============================================================================
