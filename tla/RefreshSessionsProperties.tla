---------------------- MODULE RefreshSessionsProperties ----------------------
(***************************************************************************)
(* What RefreshSessions guarantees, and what the documents say of it.      *)
(***************************************************************************)
EXTENDS RefreshSessions

\* A request that has been allowed to rotate a session holds its row, and the
\* row is not revoked: no logout, revocation or second refresh that commits
\* between the check in refresh_session and the commit of the rotation.
RotationHoldsRow ==
    \A r \in Requests : pc[r] \in {"eligibility", "rotating"} =>
        /\ target[r] \in SessionIds
        /\ lock[target[r]] = r
        /\ Live(target[r])

\* A family never has two sessions that can both be redeemed, whatever
\* refreshes, logouts, revocations, aborts and cleanups overlap
\* (rotate_refresh_session revokes the row it replaces in the same commit).
OneLivePerFamily ==
    \A s, t \in SessionIds :
        Live(s) /\ Live(t) /\ sessions[s].family = sessions[t].family => s = t

\* Whatever the number of refreshes, a session belongs to the principal and
\* the provider of its sign-in, and its authentication instant and its end are
\* those of the sign-in: refreshing never extends the absolute lifetime, nor
\* the time in which an enterprise administrator must authenticate again.
InheritsSignIn ==
    \A s \in SessionIds : Used(s) =>
        LET f == sessions[s].family IN
        /\ f \in SessionIds
        /\ Used(f)
        /\ sessions[f].family = f
        /\ sessions[s].principal = sessions[f].principal
        /\ sessions[s].provider = sessions[f].provider
        /\ sessions[s].authAt = sessions[f].authAt
        /\ sessions[s].expires = sessions[f].expires

\* The cleanup job never removes the trace of a redeemed secret while its
\* family could still be refreshed: a replay of any earlier secret is
\* recognised as reuse for as long as it matters.
ReuseEvidenceKept ==
    \A s, t \in SessionIds :
        /\ Live(s)
        /\ now < sessions[s].expires
        /\ Used(t)
        /\ sessions[t].family = sessions[s].family
        => Stored(t)

\* Requests that wait for each other in a circle include two revocations of
\* all sessions of a principal: refreshes that detect reuse lock their rows in
\* an order of their own (the presented row first), and still cannot block
\* each other for ever, nor can they together with one such revocation.
DeadlockNeedsTwoPrincipalRevocations ==
    \A C \in SUBSET Requests : C # {} /\ Deadlocked(C) =>
        Cardinality({r \in C : target[r] = None}) >= 2

\* A secret that was logged out, revoked or redeemed never yields a successor:
\* a row gets one only in the step that ends its life (the row lock spans the
\* check of revoked_at and the rotation).
RevokedNeverRedeemed ==
    [][\A s \in SessionIds :
          sessions[s].replacedBy = None /\ sessions'[s].replacedBy # None
              => Live(s)]_vars

\* When a revocation commits, each family from which it selected a session
\* that is still live at that moment is over: no concurrent refresh has left
\* that family a live session behind the revocation's back.
RevocationEndsFamily ==
    [][\A r \in Requests : CommitRevocation(r) =>
          \A v \in victims[r] : Live(v) => LiveOfFamily(sessions[v].family)' = {}]_vars

\* Every request that was taken up ends, committed or rolled back: no row
\* lock is waited for without end.
RequestsEnd == \A r \in Requests : pc[r] # "idle" ~> pc[r] = "idle"

\* The promise of SessionFamily, kept by the tables: the revoked_at columns
\* tell live from spent, and a family is on the terms of the row that began it.
SessionTerms == [principal : Principals, provider : {"LOCAL", "PING_SAML"},
                 authAt : 0 .. MaxTime, expires : 0 .. MaxTime + SessionTtl]

StartsFamily(f) == Used(f) /\ sessions[f].family = f

Family == INSTANCE SessionFamily WITH
    Credentials <- SessionIds,
    Families <- SessionIds,
    Terms <- SessionTerms,
    live <- {s \in SessionIds : Live(s)},
    spent <- {s \in SessionIds : sessions[s].status \in {"revoked", "deleted"}},
    lineage <- [s \in SessionIds |-> sessions[s].family],
    terms <- [f \in SessionIds |->
                IF StartsFamily(f)
                THEN [principal |-> sessions[f].principal, provider |-> sessions[f].provider,
                      authAt |-> sessions[f].authAt, expires |-> sessions[f].expires]
                ELSE None]

\* The session table implements SessionFamily: every commit is a sign-in, a
\* rotation inside a family or the end of some families, and a family that
\* has ended is never continued.
ImplementsSessionFamily == Family!Spec

\* docs/architecture/ping-sso-integration-plan.md:492 says a logout revokes
\* the DSP session, and :904 that logout takes effect immediately: after a
\* logout nothing of that sign-in can be redeemed.
LogoutEndsSession ==
    [][\A r \in Requests, s \in SessionIds : CommitLogout(r) /\ target[r] = s =>
          LiveOfFamily(sessions[s].family)' = {}]_vars

\* docs/architecture/ping-sso-integration-plan.md:436 says a password reset
\* revokes all existing refresh sessions of the account: when the revocation
\* commits, none of the sign-ins it found in the table is live.
RevocationIsComplete ==
    [][\A r \in Requests : CommitRevocation(r) =>
          \A v \in victims[r] : LiveOfFamily(sessions[v].family)' = {}]_vars
==============================================================================
