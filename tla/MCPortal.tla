------------------------------ MODULE MCPortal -------------------------------
(***************************************************************************)
(* Instances of LocalLogin, PageAccess and PortalPages for TLC.  The three *)
(* have no variable in common, so that a behaviour of one says nothing of  *)
(* another: part tells whose behaviour it is, and the others rest.         *)
(***************************************************************************)
EXTENDS LocalLoginProperties, PageAccessProperties, PortalPagesProperties, TLC

CONSTANTS l1, l2, ann, w1, w2, t1, t2

VARIABLE part

\* What administrators ask for: a demotion, a promotion, to disable, to enable.
RoleOrStatus == {[role |-> "READ_ONLY", enabled |-> None],
                 [role |-> "ADMIN", enabled |-> None],
                 [role |-> None, enabled |-> FALSE],
                 [role |-> None, enabled |-> TRUE]}

\* Names as principals have them, with and without a dot; the last owns nothing.
Slugs == "alex.morgan" :> "alex-morgan" @@ "priya.nair" :> "priya-nair"
         @@ "omar.hassan" :> "omar-hassan" @@ "leila.khan" :> "leila-khan"
         @@ "daniel.lee" :> "daniel-lee" @@ "sara.ali" :> "sara-ali"
         @@ "michael-ross" :> "michael-ross" @@ "visitor" :> "visitor"

\* Sets of up to three names, so that VMs of one owner, and of two, are looked at.
UpToThree == UNION {kSubset(n, DOMAIN Slugs) : n \in 1 .. 3}

PortalInit ==
    /\ part \in {"login", "access", "pages"}
    /\ LoginInit
    /\ part # "login" => \A a \in Known : accounts[a].usable
    /\ AccessInit
    /\ PagesInit
    /\ part # "pages" => names = {"visitor"}

PortalNext ==
    \/ /\ part = "login"
       /\ LoginNext
       /\ UNCHANGED <<part, accessVars, pagesVars>>
    \/ /\ part = "access"
       /\ AccessNext
       /\ UNCHANGED <<part, loginVars, pagesVars>>
    \/ /\ part = "pages"
       /\ PagesNext
       /\ UNCHANGED <<part, loginVars, accessVars>>

PortalSpec == PortalInit /\ [][PortalNext]_<<part, loginVars, accessVars, pagesVars>>

\* Bound of the run login_and_pages: a page is not followed any further once an increment
\* of authorization_version has been lost.
NoIncrementLost == ~lost

\* Requests of one kind, and tokens, differ by their history only.
Interchangeable == Permutations(Logins) \cup Permutations(Workers) \cup Permutations(Tokens)
==============================================================================
