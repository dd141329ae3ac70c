-------------------------- MODULE PortalPagesProofs ---------------------------
(***************************************************************************)
(* Proofs about the pages of the portal for any visitors, whatever names   *)
(* they have.                                                              *)
(***************************************************************************)
EXTENDS PortalPagesProperties, Counting

------------------------------------------------------------------------------
(* The preview data.                                                       *)

LEMMA DevspacesAre ==
    /\ \A c, d \in Devspaces : c.id = d.id => c = d
    /\ \A d \in Devspaces : d.vm \in DescribedVms
    /\ \A i \in VmIssues : \E d \in Devspaces : d.vm = i.vm
<1>1. \A c, d \in Devspaces : c.id = d.id => c = d
  BY DEF Devspaces, DevspaceList, Devspace
<1>2. \A d \in Devspaces : d.vm \in DescribedVms
  BY DEF Devspaces, DevspaceList, Devspace, DescribedVms
<1>3. \A vm \in DescribedVms : \E d \in Devspaces : d.vm = vm
  BY DEF Devspaces, DevspaceList, Devspace, DescribedVms
<1>4. \A i \in VmIssues : i.vm \in DescribedVms
  BY DEF VmIssues, VmIssue, DescribedVms
<1>5. QED
  BY <1>1, <1>2, <1>3, <1>4

\* The runs of the list, each of a devspace there is.
LEMMA RunsAre ==
    /\ DOMAIN RunList = 1 .. 10
    /\ \A i \in 1 .. 10 : \E d \in Devspaces : d.id = RunList[i].devspace
    /\ \A i, k \in 1 .. 10 : RunList[i].id = RunList[k].id => i = k
    /\ \A i \in 1 .. 10 : RunList[i].id # NoJob
    /\ \A i \in 1 .. 10 : RunList[i].state = "running" => i \in {1, 2}
<1>1. DOMAIN RunList = 1 .. 10
  BY DEF RunList
<1>2. \A i \in 1 .. 10 : \E d \in Devspaces : d.id = RunList[i].devspace
  BY DEF Devspaces, DevspaceList, Devspace, RunList, Run
<1>3. \A i, k \in 1 .. 10 : RunList[i].id = RunList[k].id => i = k
  BY DEF RunList, Run
<1>4. \A i \in 1 .. 10 : RunList[i].id # NoJob
  BY DEF RunList, Run, NoJob
<1>5. \A i \in 1 .. 10 : RunList[i].state = "running" => i \in {1, 2}
  BY DEF RunList, Run
<1>6. QED
  BY <1>1, <1>2, <1>3, <1>4, <1>5

\* A job has the owner and the VM of its devspace.
LEMMA JobsAre ==
    /\ DOMAIN JobRuns = 1 .. 10
    /\ \A i \in 1 .. 10 :
          /\ JobRuns[i].nth = i
          /\ JobRuns[i].id = RunList[i].id /\ JobRuns[i].devspace = RunList[i].devspace
          /\ JobRuns[i].state = RunList[i].state /\ JobRuns[i].peak = RunList[i].peak
          /\ \E d \in Devspaces : /\ d.id = JobRuns[i].devspace
                                  /\ d.owner = JobRuns[i].owner /\ d.vm = JobRuns[i].vm
<1> DEFINE Of(i) == CHOOSE d \in Devspaces : d.id = RunList[i].devspace
<1>1. JobRuns = [i \in DOMAIN RunList |-> Job(i, RunList[i], Of(i))]
  BY DEF JobRuns
<1>2. \A i \in 1 .. 10 : Of(i) \in Devspaces /\ Of(i).id = RunList[i].devspace
  BY RunsAre
<1> HIDE DEF Of
<1>3. \A i \in 1 .. 10 : JobRuns[i] = Job(i, RunList[i], Of(i))
  BY <1>1, RunsAre
<1>4. \A i \in 1 .. 10 :
          /\ JobRuns[i].nth = i
          /\ JobRuns[i].id = RunList[i].id /\ JobRuns[i].devspace = Of(i).id
          /\ JobRuns[i].owner = Of(i).owner /\ JobRuns[i].vm = Of(i).vm
          /\ JobRuns[i].state = RunList[i].state /\ JobRuns[i].peak = RunList[i].peak
  BY <1>3 DEF Job
<1>5. DOMAIN JobRuns = 1 .. 10
  BY <1>1, RunsAre
<1>6. QED
  BY <1>2, <1>4, <1>5

\* What the lists of a page are.
LEMMA ListsAre ==
    ASSUME NEW scope \in Scopes
    PROVE  /\ Inventory[scope].devspaces = OwnDevspaces(scope)
           /\ Jobs[scope].jobs = OwnJobs(scope)
           /\ Home[scope].resources = {r \in DashboardResources : Sees(scope, r.owner)}
           /\ Home[scope].activity =
                  {a \in DashboardActivity : Sees(scope, a.owner) \/ a.owner = "platform"}
           /\ DataAccess[scope].tables = IF Mapped(scope) THEN UserTables ELSE {}
<1>1. Jobs[scope].jobs = OwnJobs(scope)
  BY DEF Jobs
<1>2. /\ Home[scope].resources = {r \in DashboardResources : Sees(scope, r.owner)}
      /\ Home[scope].activity =
             {a \in DashboardActivity : Sees(scope, a.owner) \/ a.owner = "platform"}
  BY DEF Home
<1>3. DataAccess[scope].tables = IF Mapped(scope) THEN UserTables ELSE {}
  BY DEF DataAccess
<1>4. Inventory[scope].devspaces = OwnDevspaces(scope)
  BY DEF Inventory
<1>5. QED
  BY <1>1, <1>2, <1>3, <1>4

\* What the details are.
LEMMA DetailsAre ==
    ASSUME NEW scope \in Scopes
    PROVE  /\ \A d \in Devspaces :
                 /\ DevspaceDetail[scope][d].jobs = {j \in OwnJobs(scope) : j.devspace = d.id}
                 /\ DevspaceDetail[scope][d].processes = Processes(scope, d)
           /\ \A vm \in DescribedVms :
                 LET page == VmDetail[scope][vm] IN
                 /\ page.vm = vm
                 /\ page.devspaces = Hosted(scope, vm)
                 /\ page.users = {d.owner : d \in Hosted(scope, vm)}
                 /\ page.top = TopProcesses(UNION {Processes(scope, d) : d \in Hosted(scope, vm)})
           /\ Vms[scope].vms = {VmDetail[scope][vm] : vm \in {d.vm : d \in OwnDevspaces(scope)}}
           /\ Inventory[scope].issues = IF scope.everything THEN VmIssues
                                        ELSE {i \in VmIssues : i.vm \in {d.vm : d \in OwnDevspaces(scope)}}
<1>1. ASSUME NEW d \in Devspaces
      PROVE  /\ DevspaceDetail[scope][d].jobs = {j \in OwnJobs(scope) : j.devspace = d.id}
             /\ DevspaceDetail[scope][d].processes = Processes(scope, d)
  BY DEF DevspaceDetail
<1>2. ASSUME NEW vm \in DescribedVms
      PROVE  /\ VmDetail[scope][vm].vm = vm
             /\ VmDetail[scope][vm].devspaces = Hosted(scope, vm)
             /\ VmDetail[scope][vm].users = {d.owner : d \in Hosted(scope, vm)}
             /\ VmDetail[scope][vm].top
                    = TopProcesses(UNION {Processes(scope, d) : d \in Hosted(scope, vm)})
  BY DEF VmDetail
<1>3. Vms[scope].vms = {VmDetail[scope][vm] : vm \in {d.vm : d \in OwnDevspaces(scope)}}
  BY DEF Vms
<1>4. Inventory[scope].issues = IF scope.everything THEN VmIssues
                                ELSE {i \in VmIssues : i.vm \in {d.vm : d \in OwnDevspaces(scope)}}
  BY DEF Inventory
<1>5. QED
  BY <1>1, <1>2, <1>3, <1>4

------------------------------------------------------------------------------
(* The page that is shown.                                                 *)

\* It was served in a scope of the visitor, who may have had another role then; a detail
\* page was found.
PageInOrder ==
    /\ names \in Visitors
    /\ shown.scope \in {Everything, Own(names)}
    /\ shown.kind = "devspace" => \E d \in OwnDevspaces(shown.scope) : d.id = shown.id
    /\ shown.kind = "vm" => Hosted(shown.scope, shown.id) # {}

LEMMA VisitsKeepOrder ==
    ASSUME PageInOrder, NEW address \in Addresses, Visit(address)
    PROVE  PageInOrder'
<1> DEFINE kind == IF Found(CurrentScope, address) THEN address.kind ELSE "none"
           id == IF Found(CurrentScope, address) THEN address.id ELSE ""
<1>1. names' = names /\ shown' = [kind |-> kind, id |-> id, scope |-> CurrentScope]
  BY DEF Visit
<1>2. kind = "devspace" => \E d \in OwnDevspaces(CurrentScope) : d.id = id
  BY DEF Found
<1>3. kind = "vm" => Hosted(CurrentScope, id) # {}
  BY DEF Found
<1>4. CurrentScope \in {Everything, Own(names)}
  BY DEF CurrentScope
<1> HIDE DEF kind, id
<1>5. shown'.kind = kind /\ shown'.id = id /\ shown'.scope = CurrentScope
  BY <1>1
<1>6. QED
  BY <1>1, <1>2, <1>3, <1>4, <1>5 DEF PageInOrder

LEMMA PagesStayInOrder == PagesSpec => []PageInOrder
<1>1. ASSUME PagesInit PROVE PageInOrder
  <2>1. names \in Visitors /\ CurrentScope = Own(names)
    BY <1>1 DEF PagesInit, CurrentScope
  <2>2. shown = [kind |-> "none", id |-> "", scope |-> CurrentScope]
    BY <1>1 DEF PagesInit
  <2>3. shown.kind = "none" /\ shown.scope = CurrentScope
    BY <2>2
  <2>4. QED
    BY <2>1, <2>3 DEF PageInOrder
<1>2. PageInOrder /\ [PagesNext]_pagesVars => PageInOrder'
  <2>1. SUFFICES ASSUME PageInOrder, [PagesNext]_pagesVars PROVE PageInOrder'
    OBVIOUS
  <2>2. CASE ChangeRole \/ UNCHANGED pagesVars
    <3>1. names' = names /\ shown' = shown
      BY <2>2 DEF ChangeRole, pagesVars
    <3>2. QED
      BY <2>1, <3>1 DEF PageInOrder
  <2>3. QED
    BY <2>1, <2>2, VisitsKeepOrder DEF PagesNext
<1>3. QED
  BY <1>1, <1>2, PTL DEF PagesSpec

\* The scopes, and what a visitor who is no administrator sees.
LEMMA ScopesAre ==
    ASSUME PageInOrder
    PROVE  /\ shown.scope \in Scopes
           /\ Everything.everything = TRUE
           /\ ~shown.scope.everything =>
                 /\ shown.scope = Own(names)
                 /\ shown.scope.keys = names \cup {SlugOf[n] : n \in names}
                 /\ \A o : Sees(shown.scope, o) => o \in names \cup {SlugOf[n] : n \in names}
<1>1. Everything.everything = TRUE
  BY DEF Everything
<1>2. shown.scope \in Scopes
  BY DEF PageInOrder, Scopes
<1>3. ASSUME ~shown.scope.everything
      PROVE  /\ shown.scope = Own(names)
             /\ shown.scope.keys = names \cup {SlugOf[n] : n \in names}
  <2>1. shown.scope = Own(names)
    BY <1>1, <1>3 DEF PageInOrder
  <2>2. Own(names).keys = names \cup {SlugOf[n] : n \in names}
    BY DEF Own
  <2>3. QED
    BY <2>1, <2>2
<1>4. QED
  BY <1>1, <1>2, <1>3 DEF Sees

\* The devspace of a detail page is the visitor's.
LEMMA ShownDevspaceIsOwn ==
    ASSUME PageInOrder, shown.kind = "devspace"
    PROVE  ShownDevspace \in OwnDevspaces(shown.scope) /\ ShownDevspace.id = shown.id
<1>1. PICK d \in OwnDevspaces(shown.scope) : d.id = shown.id
  BY DEF PageInOrder
<1>2. d \in Devspaces
  BY DEF OwnDevspaces
<1>3. ShownDevspace = d
  BY <1>1, <1>2, DevspacesAre DEF ShownDevspace
<1>4. QED
  BY <1>1, <1>3

\* The processes on a page are of jobs the visitor sees.
LEMMA ProcessesAreOwn ==
    ASSUME NEW scope, NEW d, NEW p \in Processes(scope, d)
    PROVE  p.job = NoJob \/ \E j \in OwnJobs(scope) : p.job = j.id
<1> DEFINE running == {j \in OwnJobs(scope) : j.devspace = d.id /\ j.state = "running"}
           OfJob(j) == Process(d, 0, j.id, Min({824, 10 * j.peak}))
           OfDevspace(nth) == Process(d, nth, NoJob, OwnProcesses[nth])
<1>1. Processes(scope, d)
          = IF d.state = "stopped" THEN {}
            ELSE {OfJob(j) : j \in First(running)}
                 \cup {OfDevspace(nth) : nth \in DOMAIN OwnProcesses}
  BY DEF Processes
<1>2. First(running) \subseteq OwnJobs(scope)
  BY DEF First
<1>3. \A j : OfJob(j).job = j.id
  BY DEF Process
<1>4. \A nth : OfDevspace(nth).job = NoJob
  BY DEF Process
<1> HIDE DEF running, OfJob, OfDevspace
<1>5. QED
  BY <1>1, <1>2, <1>3, <1>4

LEMMA JobIds ==
    ASSUME NEW j \in ToSet(JobRuns)
    PROVE  /\ j.id # NoJob
           /\ \A k \in ToSet(JobRuns) : k.id = j.id => k = j
           /\ \E d \in Devspaces : d.id = j.devspace /\ d.owner = j.owner /\ d.vm = j.vm
<1>1. \A k \in ToSet(JobRuns) : \E i \in 1 .. 10 : k = JobRuns[i]
  BY JobsAre DEF ToSet
<1>2. PICK i \in 1 .. 10 : j = JobRuns[i]
  BY <1>1
<1>3. ASSUME NEW k \in ToSet(JobRuns), k.id = j.id PROVE k = j
  <2>1. PICK n \in 1 .. 10 : k = JobRuns[n]
    BY <1>1
  <2>2. RunList[n].id = RunList[i].id
    BY <1>2, <1>3, <2>1, JobsAre
  <2>3. QED
    BY <1>2, <2>1, <2>2, RunsAre
<1>4. QED
  BY <1>2, <1>3, JobsAre, RunsAre

LEMMA TopAreProcesses ==
    ASSUME NEW processes PROVE TopProcesses(processes) \subseteq processes
BY DEF TopProcesses

------------------------------------------------------------------------------
(* Nobody sees what is not theirs.                                         *)

\* The names under which the visitor's things are owned.
OwnKeys == names \cup {SlugOf[n] : n \in names}

\* The owners that the pages of a scope without everything show.
LEMMA ListsAreOwn ==
    ASSUME PageInOrder, ~shown.scope.everything
    PROVE  /\ \A d \in OwnDevspaces(shown.scope) : d.owner \in OwnKeys
           /\ \A j \in OwnJobs(shown.scope) : j.owner \in OwnKeys /\ j \in ToSet(JobRuns)
           /\ \A o : Sees(shown.scope, o) => o \in OwnKeys
<1>1. \A o : Sees(shown.scope, o) => o \in OwnKeys
  BY ScopesAre DEF OwnKeys
<1>2. \A d \in OwnDevspaces(shown.scope) : Sees(shown.scope, d.owner)
  BY DEF OwnDevspaces
<1>3. \A j \in OwnJobs(shown.scope) : Sees(shown.scope, j.owner) /\ j \in ToSet(JobRuns)
  BY DEF OwnJobs
<1>4. QED
  BY <1>1, <1>2, <1>3

LEMMA ShownListsAreOwn ==
    ASSUME PageInOrder, ~shown.scope.everything,
           shown.kind \in {"home", "devspaces", "jobs", "devspace"}
    PROVE  OwnersOn(shown.scope) \subseteq OwnKeys
<1> DEFINE scope == shown.scope
<1>1. scope \in Scopes
  BY ScopesAre
<1>2. CASE shown.kind = "home"
  <2>1. OwnersOn(scope) = {r.owner : r \in Home[scope].resources}
                              \cup ({a.owner : a \in Home[scope].activity} \ {"platform"})
    BY <1>2 DEF OwnersOn
  <2>2. \A r \in Home[scope].resources : r.owner \in OwnKeys
    BY <1>1, ListsAre, ListsAreOwn
  <2>3. \A a \in Home[scope].activity : a.owner \in OwnKeys \/ a.owner = "platform"
    BY <1>1, ListsAre, ListsAreOwn
  <2>4. QED
    BY <2>1, <2>2, <2>3
<1>3. CASE shown.kind = "devspaces"
  <2>1. OwnersOn(scope) = {d.owner : d \in Inventory[scope].devspaces}
    BY <1>3 DEF OwnersOn
  <2>2. QED
    BY <1>1, <2>1, ListsAre, ListsAreOwn
<1>4. CASE shown.kind = "jobs"
  <2>1. OwnersOn(scope) = {j.owner : j \in Jobs[scope].jobs}
    BY <1>4 DEF OwnersOn
  <2>2. QED
    BY <1>1, <2>1, ListsAre, ListsAreOwn
<1>5. CASE shown.kind = "devspace"
  <2>1. OwnersOn(scope) = {ShownDevspace.owner}
                              \cup {j.owner : j \in DevspaceDetail[scope][ShownDevspace].jobs}
    BY <1>5 DEF OwnersOn
  <2>2. ShownDevspace \in OwnDevspaces(scope) /\ ShownDevspace \in Devspaces
    BY <1>5, ShownDevspaceIsOwn DEF OwnDevspaces
  <2>3. DevspaceDetail[scope][ShownDevspace].jobs \subseteq OwnJobs(scope)
    <3>1. \A d \in Devspaces :
              DevspaceDetail[scope][d].jobs = {j \in OwnJobs(scope) : j.devspace = d.id}
      BY <1>1, DetailsAre
    <3>2. DevspaceDetail[scope][ShownDevspace].jobs
              = {j \in OwnJobs(scope) : j.devspace = ShownDevspace.id}
      BY <2>2, <3>1
    <3>3. QED
      BY <3>2
  <2>4. QED
    BY <2>1, <2>2, <2>3, ListsAreOwn
<1>6. QED
  BY <1>2, <1>3, <1>4, <1>5

\* A VM that is shown is one there are facts of.
LEMMA ShownVmIsDescribed ==
    ASSUME PageInOrder, shown.kind = "vm"
    PROVE  shown.id \in DescribedVms
<1>1. PICK d \in Hosted(shown.scope, shown.id) : TRUE
  BY DEF PageInOrder
<1>2. d \in Devspaces /\ d.vm = shown.id
  BY <1>1 DEF Hosted, OwnDevspaces
<1>3. QED
  BY <1>2, DevspacesAre

\* Users that share a VM do not see each other there, nor each other's processes.
LEMMA ShownVmsAreOwn ==
    ASSUME PageInOrder, ~shown.scope.everything, shown.kind \in {"vm", "vms"}
    PROVE  OwnersOn(shown.scope) \subseteq OwnKeys
<1> DEFINE scope == shown.scope
<1>1. scope \in Scopes
  BY ScopesAre
<1>2. ASSUME NEW vm
      PROVE  \A d \in Hosted(scope, vm) : d.owner \in OwnKeys /\ d \in OwnDevspaces(scope)
  BY ListsAreOwn DEF Hosted
<1>3. CASE shown.kind = "vm"
  <2> DEFINE page == VmDetail[scope][shown.id]
             ids == {p.job : p \in page.top}
  <2>1. OwnersOn(scope) = page.users \cup {d.owner : d \in page.devspaces}
                              \cup {j.owner : j \in {j \in ToSet(JobRuns) : j.id \in ids}}
    BY <1>3 DEF OwnersOn
  <2>2. /\ page.devspaces = Hosted(scope, shown.id)
        /\ page.users = {d.owner : d \in Hosted(scope, shown.id)}
        /\ page.top \subseteq UNION {Processes(scope, d) : d \in Hosted(scope, shown.id)}
    <3>1. shown.id \in DescribedVms
      BY <1>3, ShownVmIsDescribed
    <3>2. \A vm \in DescribedVms :
              /\ VmDetail[scope][vm].devspaces = Hosted(scope, vm)
              /\ VmDetail[scope][vm].users = {d.owner : d \in Hosted(scope, vm)}
              /\ VmDetail[scope][vm].top
                     = TopProcesses(UNION {Processes(scope, d) : d \in Hosted(scope, vm)})
      BY <1>1, DetailsAre
    <3>3. /\ page.devspaces = Hosted(scope, shown.id)
          /\ page.users = {d.owner : d \in Hosted(scope, shown.id)}
          /\ page.top
                 = TopProcesses(UNION {Processes(scope, d) : d \in Hosted(scope, shown.id)})
      BY <3>1, <3>2
    <3>4. QED
      BY <3>3, TopAreProcesses
  <2> HIDE DEF page
  <2>3. ASSUME NEW j \in ToSet(JobRuns), j.id \in ids PROVE j.owner \in OwnKeys
    <3>1. PICK p \in page.top : p.job = j.id
      BY <2>3
    <3>2. PICK d \in Hosted(scope, shown.id) : p \in Processes(scope, d)
      BY <2>2
    <3>3. PICK k \in OwnJobs(scope) : k.id = j.id
      BY <3>1, <3>2, ProcessesAreOwn, JobIds
    <3>4. QED
      BY <3>3, JobIds, ListsAreOwn
  <2>4. QED
    BY <1>2, <2>1, <2>2, <2>3
<1>4. CASE shown.kind = "vms"
  <2>1. OwnersOn(scope) = UNION {i.users : i \in Vms[scope].vms}
    BY <1>4 DEF OwnersOn
  <2>2. Vms[scope].vms = {VmDetail[scope][vm] : vm \in {d.vm : d \in OwnDevspaces(scope)}}
    BY <1>1, DetailsAre
  <2>3. \A vm \in {d.vm : d \in OwnDevspaces(scope)} : vm \in DescribedVms
    BY DevspacesAre DEF OwnDevspaces
  <2>4. \A vm \in DescribedVms : VmDetail[scope][vm].users = {d.owner : d \in Hosted(scope, vm)}
    BY <1>1, DetailsAre
  <2>5. QED
    BY <1>2, <2>1, <2>2, <2>3, <2>4
<1>5. QED
  BY <1>3, <1>4

\* What the keys of the preview's one user are for: they are the keys of one person, so
\* that whoever has one of them has alex-morgan among the names of which items are owned.
KnownUser == "alex-morgan"

LEMMA PagesShowOwnItems ==
    ASSUME \A ns \in Visitors : Own(ns).keys \cap KnownUserKeys # {} => KnownUser \in Own(ns).keys,
           PageInOrder
    PROVE  OwnItemsOnly
<1> SUFFICES ASSUME ~shown.scope.everything
             PROVE  OwnersOn(shown.scope) \subseteq OwnKeys
  BY DEF OwnItemsOnly, OwnKeys
<1> DEFINE scope == shown.scope
<1>1. CASE shown.kind = "data-access"
  <2>1. scope = Own(names) /\ scope.keys = OwnKeys /\ scope \in Scopes /\ names \in Visitors
    BY ScopesAre DEF OwnKeys, PageInOrder
  <2>2. DataAccess[scope].tables # {} => scope.keys \cap KnownUserKeys # {}
    BY <2>1, ListsAre DEF Mapped
  <2>3. DataAccess[scope].tables # {} => OwnersOn(scope) = {KnownUser}
    BY <1>1 DEF OwnersOn, KnownUser
  <2>4. DataAccess[scope].tables = {} => OwnersOn(scope) = {}
    BY <1>1 DEF OwnersOn
  <2>5. QED
    BY <2>1, <2>2, <2>3, <2>4
<1>2. CASE shown.kind \notin {"home", "devspaces", "jobs", "devspace", "vm", "vms", "data-access"}
  <2>1. OwnersOn(scope) = {}
    BY <1>2 DEF OwnersOn
  <2>2. QED
    BY <2>1
<1>3. QED
  BY <1>1, <1>2, ShownListsAreOwn, ShownVmsAreOwn

\* No page shows a visitor who is no administrator an entry of another user, whoever the
\* visitors are and whatever their names, as long as the keys of the preview's user are
\* those of one person.
THEOREM VisitorsSeeTheirOwn ==
    ASSUME \A ns \in Visitors : Own(ns).keys \cap KnownUserKeys # {} => KnownUser \in Own(ns).keys
    PROVE  PagesSpec => []OwnItemsOnly
<1>1. PagesSpec => []PageInOrder
  BY PagesStayInOrder
<1>2. PageInOrder => OwnItemsOnly
  BY PagesShowOwnItems
<1>3. QED
  BY <1>1, <1>2, PTL

------------------------------------------------------------------------------
(* Every link leads to a page that is found.                               *)

LEMMA PagesFound ==
    ASSUME NEW scope, NEW d \in OwnDevspaces(scope)
    PROVE  Found(scope, DevspacePage(d.id)) /\ Found(scope, VmPage(d.vm))
<1>1. DevspacePage(d.id).kind = "devspace" /\ DevspacePage(d.id).id = d.id
  BY DEF DevspacePage
<1>2. VmPage(d.vm).kind = "vm" /\ VmPage(d.vm).id = d.vm
  BY DEF VmPage
<1>3. Found(scope, DevspacePage(d.id))
  BY <1>1 DEF Found
<1>4. d \in Hosted(scope, d.vm)
  BY DEF Hosted, OwnDevspaces
<1>5. Found(scope, VmPage(d.vm))
  BY <1>2, <1>4 DEF Found
<1>6. QED
  BY <1>3, <1>5

\* A job that is seen is of a devspace that is seen, on the same VM.
LEMMA JobPagesFound ==
    ASSUME NEW scope, NEW j \in OwnJobs(scope)
    PROVE  Found(scope, DevspacePage(j.devspace)) /\ Found(scope, VmPage(j.vm))
<1>1. j \in ToSet(JobRuns) /\ Sees(scope, j.owner)
  BY DEF OwnJobs
<1>2. PICK d \in Devspaces : d.id = j.devspace /\ d.owner = j.owner /\ d.vm = j.vm
  BY <1>1, JobIds
<1>3. d \in OwnDevspaces(scope)
  BY <1>1, <1>2 DEF OwnDevspaces
<1>4. QED
  BY <1>2, <1>3, PagesFound

\* The issues of the inventory are on VMs that are seen.
LEMMA IssuePagesFound ==
    ASSUME NEW scope \in Scopes, NEW i \in Inventory[scope].issues
    PROVE  Found(scope, VmPage(i.vm))
<1>1. CASE scope.everything
  <2>1. i \in VmIssues
    BY <1>1, DetailsAre
  <2>2. PICK d \in Devspaces : d.vm = i.vm
    BY <2>1, DevspacesAre
  <2>3. d \in OwnDevspaces(scope)
    BY <1>1 DEF OwnDevspaces, Sees
  <2>4. QED
    BY <2>2, <2>3, PagesFound
<1>2. CASE ~scope.everything
  <2>1. Inventory[scope].issues
            = {k \in VmIssues : k.vm \in {d.vm : d \in OwnDevspaces(scope)}}
    BY <1>2, DetailsAre
  <2>2. PICK d \in OwnDevspaces(scope) : d.vm = i.vm
    BY <2>1
  <2>3. QED
    BY <2>2, PagesFound
<1>3. QED
  BY <1>1, <1>2

\* Links of the lists.
LEMMA ListLinksFound ==
    ASSUME PageInOrder, shown.kind \in {"devspaces", "jobs", "vms"},
           NEW link \in LinksOn(shown.scope)
    PROVE  Found(shown.scope, link)
<1> DEFINE scope == shown.scope
<1>1. scope \in Scopes
  BY ScopesAre
<1>2. CASE shown.kind = "devspaces"
  <2>1. LinksOn(scope) = {DevspacePage(d.id) : d \in Inventory[scope].devspaces}
                             \cup {VmPage(d.vm) : d \in Inventory[scope].devspaces}
                             \cup {VmPage(i.vm) : i \in Inventory[scope].issues}
    BY <1>2 DEF LinksOn
  <2>2. Inventory[scope].devspaces = OwnDevspaces(scope)
    BY <1>1, ListsAre
  <2>3. CASE link \in {VmPage(i.vm) : i \in Inventory[scope].issues}
    <3>1. PICK i \in Inventory[scope].issues : link = VmPage(i.vm)
      BY <2>3
    <3>2. QED
      BY <1>1, <3>1, IssuePagesFound
  <2>4. CASE link \notin {VmPage(i.vm) : i \in Inventory[scope].issues}
    <3>1. PICK d \in OwnDevspaces(scope) : link = DevspacePage(d.id) \/ link = VmPage(d.vm)
      BY <2>1, <2>2, <2>4
    <3>2. QED
      BY <3>1, PagesFound
  <2>5. QED
    BY <2>3, <2>4
<1>3. CASE shown.kind = "jobs"
  <2>1. LinksOn(scope) = {DevspacePage(j.devspace) : j \in Jobs[scope].jobs}
                             \cup {VmPage(j.vm) : j \in Jobs[scope].jobs}
    BY <1>3 DEF LinksOn
  <2>2. Jobs[scope].jobs = OwnJobs(scope)
    BY <1>1, ListsAre
  <2>3. PICK j \in OwnJobs(scope) : link = DevspacePage(j.devspace) \/ link = VmPage(j.vm)
    BY <2>1, <2>2
  <2>4. QED
    BY <2>3, JobPagesFound
<1>4. CASE shown.kind = "vms"
  <2>1. LinksOn(scope) = {VmPage(i.vm) : i \in Vms[scope].vms}
    BY <1>4 DEF LinksOn
  <2>2. Vms[scope].vms = {VmDetail[scope][vm] : vm \in {d.vm : d \in OwnDevspaces(scope)}}
    BY <1>1, DetailsAre
  <2>3. \A vm \in DescribedVms : VmDetail[scope][vm].vm = vm
    BY <1>1, DetailsAre
  <2>4. \A d \in OwnDevspaces(scope) : d.vm \in DescribedVms
    BY DevspacesAre DEF OwnDevspaces
  <2>5. PICK d \in OwnDevspaces(scope) : link = VmPage(d.vm)
    BY <2>1, <2>2, <2>3, <2>4
  <2>6. QED
    BY <2>5, PagesFound
<1>5. QED
  BY <1>2, <1>3, <1>4

\* Links of the details.
LEMMA DetailLinksFound ==
    ASSUME PageInOrder, shown.kind \in {"devspace", "vm"}, NEW link \in LinksOn(shown.scope)
    PROVE  Found(shown.scope, link)
<1> DEFINE scope == shown.scope
<1>1. CASE shown.kind = "devspace"
  <2>1. link = VmPage(ShownDevspace.vm)
    BY <1>1 DEF LinksOn
  <2>2. ShownDevspace \in OwnDevspaces(scope)
    BY <1>1, ShownDevspaceIsOwn
  <2>3. QED
    BY <2>1, <2>2, PagesFound
<1>2. CASE shown.kind = "vm"
  <2>1. LinksOn(scope) = {DevspacePage(d.id) : d \in VmDetail[scope][shown.id].devspaces}
    BY <1>2 DEF LinksOn
  <2>2. \A vm \in DescribedVms : VmDetail[scope][vm].devspaces = Hosted(scope, vm)
    BY ScopesAre, DetailsAre
  <2>3. PICK d \in Hosted(scope, shown.id) : link = DevspacePage(d.id)
    BY <1>2, <2>1, <2>2, ShownVmIsDescribed
  <2>4. d \in OwnDevspaces(scope)
    BY DEF Hosted
  <2>5. QED
    BY <2>3, <2>4, PagesFound
<1>3. QED
  BY <1>1, <1>2

\* Whoever the visitors are: each devspace and VM that a page refers to is found in the
\* page's scope.
THEOREM LinksLeadSomewhere == PagesSpec => []LinksResolve
<1>1. ASSUME PageInOrder PROVE LinksResolve
  <2>1. shown.kind \notin {"devspaces", "jobs", "vms", "devspace", "vm"} => LinksOn(shown.scope) = {}
    BY DEF LinksOn
  <2>2. QED
    BY <1>1, <2>1, ListLinksFound, DetailLinksFound, ShownVmIsDescribed DEF LinksResolve
<1>2. QED
  BY <1>1, PagesStayInOrder, PTL

------------------------------------------------------------------------------
(* Every running job has its process on the pages of its devspace and VM.  *)

\* What runs: two jobs, of two devspaces that are not stopped, each with more of the cpu
\* than any process of the devspaces' own.
LEMMA RunningAre ==
    /\ RunList[1].devspace # RunList[2].devspace
    /\ \A i \in {1, 2} : RunList[i].peak \in 5 .. 100
    /\ \A i \in {1, 2} : \A d \in Devspaces : d.id = RunList[i].devspace => d.state # "stopped"
<1>1. RunList[1].devspace = "customer-model" /\ RunList[2].devspace = "fraud-lab"
  BY DEF RunList, Run
<1>2. \A i \in {1, 2} : RunList[i].peak \in 5 .. 100
  BY DEF RunList, Run
<1>3. \A d \in Devspaces : d.id \in {"customer-model", "fraud-lab"} => d.state # "stopped"
  BY DEF Devspaces, DevspaceList, Devspace
<1>4. QED
  BY <1>1, <1>2, <1>3

JobProcess(d, i) == Process(d, 0, JobRuns[i].id, Min({824, 10 * JobRuns[i].peak}))

\* What runs in the devspace and is seen in the scope.
RunningIn(scope, d) == {j \in OwnJobs(scope) : j.devspace = d.id /\ j.state = "running"}

LEMMA ProcessesAre ==
    ASSUME NEW scope, NEW d
    PROVE  Processes(scope, d)
               = IF d.state = "stopped" THEN {}
                 ELSE {Process(d, 0, j.id, Min({824, 10 * j.peak})) :
                           j \in First(RunningIn(scope, d))}
                      \cup {Process(d, nth, NoJob, OwnProcesses[nth]) : nth \in DOMAIN OwnProcesses}
  BY DEF Processes, RunningIn

LEMMA JobIndices ==
    ASSUME NEW scope, NEW j \in OwnJobs(scope), j.state = "running"
    PROVE  \E i \in {1, 2} : j = JobRuns[i]
<1>1. PICK i \in 1 .. 10 : j = JobRuns[i]
  BY JobsAre DEF OwnJobs, ToSet
<1>2. QED
  BY <1>1, JobsAre, RunsAre

\* A process is either of a job that runs in the devspace or light.
LEMMA ProcessesOfJobs ==
    ASSUME NEW scope, NEW d, NEW p \in Processes(scope, d)
    PROVE  \/ p.job = NoJob /\ p.cpu \in 0 .. 42
           \/ \E i \in {1, 2} : JobRuns[i] \in RunningIn(scope, d) /\ p = JobProcess(d, i)
<1> DEFINE OfJob(j) == Process(d, 0, j.id, Min({824, 10 * j.peak}))
           OfDevspace(nth) == Process(d, nth, NoJob, OwnProcesses[nth])
<1>1. Processes(scope, d)
          = IF d.state = "stopped" THEN {}
            ELSE {OfJob(j) : j \in First(RunningIn(scope, d))}
                 \cup {OfDevspace(nth) : nth \in DOMAIN OwnProcesses}
  BY ProcessesAre
<1>2. \A nth : OfDevspace(nth).job = NoJob /\ OfDevspace(nth).cpu = OwnProcesses[nth]
  BY DEF Process
<1>3. \A nth \in DOMAIN OwnProcesses : OwnProcesses[nth] \in 0 .. 42
  BY DEF OwnProcesses
<1>4. ASSUME NEW j \in First(RunningIn(scope, d))
      PROVE  \E i \in {1, 2} : JobRuns[i] \in RunningIn(scope, d) /\ OfJob(j) = JobProcess(d, i)
  <2>1. j \in RunningIn(scope, d)
    BY DEF First
  <2>2. PICK i \in {1, 2} : j = JobRuns[i]
    BY <2>1, JobIndices DEF RunningIn
  <2>3. OfJob(j) = JobProcess(d, i)
    BY <2>2 DEF JobProcess
  <2>4. QED
    BY <2>1, <2>2, <2>3
<1> HIDE DEF OfJob, OfDevspace
<1>5. QED
  BY <1>1, <1>2, <1>3, <1>4

\* A job that runs has its process.
LEMMA RunningHaveProcesses ==
    ASSUME NEW scope, NEW d \in Devspaces, NEW i \in {1, 2}, JobRuns[i] \in RunningIn(scope, d)
    PROVE  JobProcess(d, i) \in Processes(scope, d)
<1> DEFINE OfJob(j) == Process(d, 0, j.id, Min({824, 10 * j.peak}))
           OfDevspace(nth) == Process(d, nth, NoJob, OwnProcesses[nth])
<1>1. Processes(scope, d)
          = IF d.state = "stopped" THEN {}
            ELSE {OfJob(j) : j \in First(RunningIn(scope, d))}
                 \cup {OfDevspace(nth) : nth \in DOMAIN OwnProcesses}
  BY ProcessesAre
<1>2. JobRuns[i].devspace = d.id
  BY DEF RunningIn
<1>3. d.state # "stopped"
  BY <1>2, JobsAre, RunningAre
<1>4. ASSUME NEW j \in RunningIn(scope, d) PROVE j = JobRuns[i]
  <2>1. j \in OwnJobs(scope) /\ j.state = "running" /\ j.devspace = d.id
    BY DEF RunningIn
  <2>2. PICK k \in {1, 2} : j = JobRuns[k]
    BY <2>1, JobIndices
  <2>3. RunList[k].devspace = RunList[i].devspace
    BY <1>2, <2>1, <2>2, JobsAre
  <2>4. QED
    BY <2>2, <2>3, RunningAre
<1>5. JobRuns[i].nth \in 1 .. 10
  BY JobsAre
<1>6. JobRuns[i] \in First(RunningIn(scope, d))
  BY <1>4, <1>5 DEF First
<1>7. OfJob(JobRuns[i]) = JobProcess(d, i)
  BY DEF JobProcess
<1> HIDE DEF OfJob, OfDevspace
<1>8. QED
  BY <1>1, <1>3, <1>6, <1>7

\* The ids of the processes on a devspace's page are those of the jobs that run there.
LEMMA DevspacesShowJobs ==
    ASSUME NEW scope, NEW d \in Devspaces
    PROVE  {p.job : p \in Processes(scope, d)} \ {NoJob} = {j.id : j \in RunningIn(scope, d)}
<1>1. \A i : JobProcess(d, i).job = JobRuns[i].id
  BY DEF JobProcess, Process
<1>2. ASSUME NEW p \in Processes(scope, d), p.job # NoJob
      PROVE  \E j \in RunningIn(scope, d) : p.job = j.id
  <2>1. PICK i \in {1, 2} : JobRuns[i] \in RunningIn(scope, d) /\ p = JobProcess(d, i)
    BY <1>2, ProcessesOfJobs
  <2>2. QED
    BY <1>1, <2>1
<1>3. ASSUME NEW j \in RunningIn(scope, d)
      PROVE  j.id # NoJob /\ \E p \in Processes(scope, d) : p.job = j.id
  <2>1. j \in OwnJobs(scope) /\ j.state = "running" /\ j.devspace = d.id
    BY DEF RunningIn
  <2>2. PICK i \in {1, 2} : j = JobRuns[i]
    BY <2>1, JobIndices
  <2>3. JobProcess(d, i) \in Processes(scope, d)
    BY <2>2, RunningHaveProcesses
  <2>4. j.id # NoJob
    BY <2>1, JobIds DEF OwnJobs
  <2>5. QED
    BY <1>1, <2>2, <2>3, <2>4
<1>4. QED
  BY <1>2, <1>3

\* A job's process uses more than any process of a devspace's own.
LEMMA JobsAreHeavy ==
    ASSUME NEW d, NEW i \in {1, 2}
    PROVE  JobProcess(d, i).cpu \in Nat /\ JobProcess(d, i).cpu > 42
<1>1. JobRuns[i].peak \in 5 .. 100
  BY JobsAre, RunningAre
<1>2. Min({824, 10 * JobRuns[i].peak}) \in {824, 10 * JobRuns[i].peak}
  <2> DEFINE n == 10 * JobRuns[i].peak
  <2>1. n \in Nat
    BY <1>1
  <2> HIDE DEF n
  <2>2. \E x \in {824, n} : \A y \in {824, n} : x <= y
    BY <2>1
  <2>3. Min({824, n}) \in {824, n}
    BY <2>2 DEF Min
  <2>4. QED
    BY <2>3 DEF n
<1>3. JobProcess(d, i).cpu = Min({824, 10 * JobRuns[i].peak})
  BY DEF JobProcess, Process
<1>4. QED
  BY <1>1, <1>2, <1>3

\* At most two processes are heavier than a job's, those of jobs: it is among the first eight.
LEMMA TopHasJobs ==
    ASSUME NEW scope, NEW vm, NEW d, NEW i \in {1, 2},
           JobProcess(d, i) \in UNION {Processes(scope, e) : e \in Hosted(scope, vm)}
    PROVE  JobProcess(d, i)
               \in TopProcesses(UNION {Processes(scope, e) : e \in Hosted(scope, vm)})
<1> DEFINE S == UNION {Processes(scope, e) : e \in Hosted(scope, vm)}
           p == JobProcess(d, i)
           H == {q \in S : Heavier(q, p)}
           Of(k) == CHOOSE e \in Devspaces : e.id = JobRuns[k].devspace
           J == {JobProcess(Of(1), 1), JobProcess(Of(2), 2)}
<1>1. \A e \in Hosted(scope, vm) : e \in Devspaces
  BY DEF Hosted, OwnDevspaces
<1>2. p.cpu \in Nat /\ p.cpu > 42
  BY JobsAreHeavy
<1> HIDE DEF p
<1>3. ASSUME NEW q \in H PROVE q \in J
  <2>1. q.cpu > p.cpu \/ q.cpu = p.cpu
    BY DEF Heavier, Listed
  <2>2. PICK e \in Hosted(scope, vm) : q \in Processes(scope, e)
    OBVIOUS
  <2>3. ~(q.cpu \in 0 .. 42)
    BY <1>2, <2>1
  <2>4. PICK k \in {1, 2} : JobRuns[k] \in RunningIn(scope, e) /\ q = JobProcess(e, k)
    BY <2>2, <2>3, ProcessesOfJobs
  <2>5. e \in Devspaces /\ e.id = JobRuns[k].devspace
    BY <1>1, <2>4 DEF RunningIn
  <2>6. Of(k) = e
    BY <2>5, DevspacesAre
  <2> HIDE DEF Of
  <2>7. QED
    BY <2>4, <2>6
<1>4. IsFiniteSet(J) /\ Cardinality(J) <= 2
  <2> DEFINE a == JobProcess(Of(1), 1)
             b == JobProcess(Of(2), 2)
  <2> HIDE DEF a, b
  <2>1. IsFiniteSet({a}) /\ Cardinality({a}) = 1
    BY FS_Singleton
  <2>2. /\ IsFiniteSet({a} \cup {b})
        /\ Cardinality({a} \cup {b}) = Cardinality({a}) \/ Cardinality({a} \cup {b}) = Cardinality({a}) + 1
    BY <2>1, FS_AddElement
  <2>3. J = {a} \cup {b}
    BY DEF a, b
  <2> HIDE DEF J
  <2>4. QED
    BY <2>1, <2>2, <2>3
<1> HIDE DEF J, H
<1>5. IsFiniteSet(H) /\ Cardinality(H) <= Cardinality(J)
  BY <1>3, <1>4, FS_Subset
<1>6. Cardinality(H) \in Nat /\ Cardinality(J) \in Nat
  BY <1>4, <1>5, FS_CardinalityType
<1>7. Cardinality(H) < 8
  BY <1>4, <1>5, <1>6
<1>8. p \in S
  BY DEF p
<1> HIDE DEF S
<1>9. TopProcesses(S) = {r \in S : Cardinality({q \in S : Heavier(q, r)}) < 8}
  BY DEF TopProcesses
<1>10. Cardinality({q \in S : Heavier(q, p)}) < 8
  BY <1>7 DEF H
<1>11. p \in TopProcesses(S)
  BY <1>8, <1>9, <1>10
<1>12. QED
  BY <1>11 DEF p, S

\* What a VM's page lists of jobs is what runs on the VM.
LEMMA VmsShowJobs ==
    ASSUME NEW scope, NEW vm
    PROVE  {p.job : p \in TopProcesses(UNION {Processes(scope, d) : d \in Hosted(scope, vm)})} \ {NoJob}
               = {j.id : j \in {j \in OwnJobs(scope) : j.state = "running" /\ j.vm = vm}}
<1> DEFINE S == UNION {Processes(scope, d) : d \in Hosted(scope, vm)}
           R == {j \in OwnJobs(scope) : j.state = "running" /\ j.vm = vm}
<1>1. \A d \in Hosted(scope, vm) : d \in Devspaces /\ d.vm = vm
  BY DEF Hosted, OwnDevspaces
<1>2. ASSUME NEW p \in TopProcesses(S), p.job # NoJob PROVE \E j \in R : p.job = j.id
  <2>1. PICK d \in Hosted(scope, vm) : p \in Processes(scope, d)
    BY TopAreProcesses
  <2>2. PICK j \in RunningIn(scope, d) : p.job = j.id
    BY <1>1, <1>2, <2>1, DevspacesShowJobs
  <2>3. j \in OwnJobs(scope) /\ j.state = "running" /\ j.devspace = d.id
    BY DEF RunningIn
  <2>4. \E e \in Devspaces : e.id = j.devspace /\ e.vm = j.vm
    BY <2>3, JobIds DEF OwnJobs
  <2>5. j.vm = vm
    BY <1>1, <2>1, <2>3, <2>4, DevspacesAre
  <2>6. QED
    BY <2>2, <2>3, <2>5
<1>3. ASSUME NEW j \in R
      PROVE  j.id # NoJob /\ \E p \in TopProcesses(S) : p.job = j.id
  <2>1. j \in OwnJobs(scope) /\ j.state = "running" /\ j.vm = vm
    OBVIOUS
  <2>2. j \in ToSet(JobRuns) /\ Sees(scope, j.owner)
    BY <2>1 DEF OwnJobs
  <2>3. PICK d \in Devspaces : d.id = j.devspace /\ d.owner = j.owner /\ d.vm = j.vm
    BY <2>2, JobIds
  <2>4. d \in Hosted(scope, vm)
    BY <2>1, <2>2, <2>3 DEF Hosted, OwnDevspaces
  <2>5. PICK i \in {1, 2} : j = JobRuns[i]
    BY <2>1, JobIndices
  <2>6. JobProcess(d, i) \in Processes(scope, d)
    BY <2>1, <2>3, <2>5, RunningHaveProcesses DEF RunningIn
  <2>7. JobProcess(d, i) \in TopProcesses(S)
    BY <2>4, <2>6, TopHasJobs
  <2>8. JobProcess(d, i).job = j.id
    BY <2>5 DEF JobProcess, Process
  <2>9. QED
    BY <2>2, <2>7, <2>8, JobIds
<1> HIDE DEF S, R
<1>4. {p.job : p \in TopProcesses(S)} \ {NoJob} = {j.id : j \in R}
  BY <1>2, <1>3
<1>5. QED
  BY <1>4 DEF S, R

LEMMA PagesShowRunningJobs ==
    ASSUME PageInOrder PROVE RunningJobsShown
<1> DEFINE scope == shown.scope
<1>1. scope \in Scopes
  BY ScopesAre
<1>2. ASSUME shown.kind = "devspace"
      PROVE  {p.job : p \in DevspaceDetail[scope][ShownDevspace].processes} \ {NoJob}
                 = {j.id : j \in {j \in OwnJobs(scope) :
                                      j.state = "running" /\ j.devspace = shown.id}}
  <2>1. ShownDevspace \in Devspaces /\ ShownDevspace.id = shown.id
    BY <1>2, ShownDevspaceIsOwn DEF OwnDevspaces
  <2>2. \A d \in Devspaces : DevspaceDetail[scope][d].processes = Processes(scope, d)
    BY <1>1, DetailsAre
  <2>3. \A d \in Devspaces :
            {p.job : p \in Processes(scope, d)} \ {NoJob}
                = {j.id : j \in {j \in OwnJobs(scope) : j.devspace = d.id /\ j.state = "running"}}
    BY DevspacesShowJobs DEF RunningIn
  <2>4. QED
    BY <2>1, <2>2, <2>3
<1>3. ASSUME shown.kind = "vm"
      PROVE  {p.job : p \in VmDetail[scope][shown.id].top} \ {NoJob}
                 = {j.id : j \in {j \in OwnJobs(scope) : j.state = "running" /\ j.vm = shown.id}}
  <2>1. \A vm \in DescribedVms :
            VmDetail[scope][vm].top
                = TopProcesses(UNION {Processes(scope, d) : d \in Hosted(scope, vm)})
    BY <1>1, DetailsAre
  <2>2. VmDetail[scope][shown.id].top
            = TopProcesses(UNION {Processes(scope, d) : d \in Hosted(scope, shown.id)})
    BY <1>3, <2>1, ShownVmIsDescribed
  <2>3. QED
    BY <2>2, VmsShowJobs
<1>4. QED
  BY <1>2, <1>3 DEF RunningJobsShown

\* Whoever the visitors are: each job that runs has its process on the page of its devspace
\* and among the eight that the page of its VM lists.
THEOREM RunningJobsAreListed == PagesSpec => []RunningJobsShown
<1>1. PageInOrder => RunningJobsShown
  BY PagesShowRunningJobs
<1>2. QED
  BY <1>1, PagesStayInOrder, PTL

------------------------------------------------------------------------------
(* The pages of one scope agree.  What they list is finite, ...            *)

LEMMA DataIsFinite ==
    /\ IsFiniteSet(Devspaces) /\ Cardinality(Devspaces) = 7
    /\ IsFiniteSet(ToSet(JobRuns)) /\ Cardinality(ToSet(JobRuns)) = 10
    /\ IsFiniteSet(VmIssues) /\ IsFiniteSet(UserTables)
    /\ IsFiniteSet(DescribedVms) /\ Cardinality(DescribedVms) = 4
<1>1. \A n \in Nat : IsFiniteSet(1 .. n) /\ Cardinality(1 .. n) = n
  BY FS_Interval
<1>2. IsFiniteSet(Devspaces) /\ Cardinality(Devspaces) = 7
  <2>1. Devspaces = {DevspaceList[i] : i \in 1 .. 7}
    BY DEF Devspaces, DevspaceList
  <2>2. \A i, k \in 1 .. 7 : DevspaceList[i] = DevspaceList[k] => i = k
    BY DEF DevspaceList, Devspace
  <2> DEFINE N == 1 .. 7
  <2>3. IsFiniteSet(N) /\ Cardinality(N) = 7
    BY <1>1
  <2> HIDE DEF N
  <2>4. IsFiniteSet({DevspaceList[i] : i \in N}) /\ Cardinality({DevspaceList[i] : i \in N}) = Cardinality(N)
    <3>1. \A i, k \in N : DevspaceList[i] = DevspaceList[k] => i = k
      BY <2>2 DEF N
    <3>2. QED
      BY <2>3, <3>1, ImagesCounted
  <2>5. QED
    BY <2>1, <2>3, <2>4 DEF N
<1>3. IsFiniteSet(ToSet(JobRuns)) /\ Cardinality(ToSet(JobRuns)) = 10
  <2>1. ToSet(JobRuns) = {JobRuns[i] : i \in 1 .. 10}
    BY JobsAre DEF ToSet
  <2>2. \A i, k \in 1 .. 10 : JobRuns[i] = JobRuns[k] => i = k
    BY JobsAre
  <2> DEFINE N == 1 .. 10
  <2>3. IsFiniteSet(N) /\ Cardinality(N) = 10
    BY <1>1
  <2> HIDE DEF N
  <2>4. IsFiniteSet({JobRuns[i] : i \in N}) /\ Cardinality({JobRuns[i] : i \in N}) = Cardinality(N)
    <3>1. \A i, k \in N : JobRuns[i] = JobRuns[k] => i = k
      BY <2>2 DEF N
    <3>2. QED
      BY <2>3, <3>1, ImagesCounted
  <2>5. QED
    BY <2>1, <2>3, <2>4 DEF N
<1>4. IsFiniteSet(VmIssues)
  <2> DEFINE list == <<VmIssue("vm041-runtime", "vm-041", "critical", "active"),
                       VmIssue("vm021-memory", "vm-021", "warning", "active"),
                       VmIssue("vm041-disk", "vm-041", "warning", "active"),
                       VmIssue("vm034-nexus", "vm-034", "warning", "resolved"),
                       VmIssue("vm021-runtime-restart", "vm-021", "informational", "resolved"),
                       VmIssue("vm052-network", "vm-052", "warning", "resolved"),
                       VmIssue("vm041-cdp", "vm-041", "warning", "resolved"),
                       VmIssue("vm034-maintenance", "vm-034", "informational", "resolved"),
                       VmIssue("vm021-disk-cleanup", "vm-021", "warning", "resolved"),
                       VmIssue("vm052-image-pull", "vm-052", "informational", "resolved")>>
  <2>1. VmIssues = {list[i] : i \in 1 .. 10}
    BY DEF VmIssues
  <2> HIDE DEF list
  <2>2. QED
    BY <1>1, <2>1, ImagesAreFinite
<1>5. IsFiniteSet(UserTables)
  <2> DEFINE list == <<HiveTable("customer-customer_features", "succeeded"),
                       HiveTable("customer-customer_segments", "succeeded"),
                       HiveTable("risk-customer_risk_scores", "late"),
                       HiveTable("finance-daily_transactions", "failed"),
                       HiveTable("reference-product_hierarchy", "succeeded"),
                       HiveTable("digital-web_events", "pending"),
                       HiveTable("customer-churn_features", "succeeded"),
                       HiveTable("marketing-campaign_response", "not_received")>>
  <2>1. UserTables = {list[i] : i \in 1 .. 8}
    BY DEF UserTables
  <2> HIDE DEF list
  <2>2. QED
    BY <1>1, <2>1, ImagesAreFinite
<1>6. IsFiniteSet(DescribedVms) /\ Cardinality(DescribedVms) = 4
  <2> DEFINE list == <<"vm-021", "vm-034", "vm-041", "vm-052">>
  <2>1. DescribedVms = {list[i] : i \in 1 .. 4}
    BY DEF DescribedVms
  <2>2. \A i, k \in 1 .. 4 : list[i] = list[k] => i = k
    OBVIOUS
  <2> HIDE DEF list
  <2> DEFINE N == 1 .. 4
  <2>3. IsFiniteSet(N) /\ Cardinality(N) = 4
    BY <1>1
  <2> HIDE DEF N
  <2>4. IsFiniteSet({list[i] : i \in N}) /\ Cardinality({list[i] : i \in N}) = Cardinality(N)
    <3>1. \A i, k \in N : list[i] = list[k] => i = k
      BY <2>2 DEF N
    <3>2. QED
      BY <2>3, <3>1, ImagesCounted
  <2>5. QED
    BY <2>1, <2>3, <2>4 DEF N
<1>7. QED
  BY <1>2, <1>3, <1>4, <1>5, <1>6

LEMMA ListsAreFinite ==
    ASSUME NEW scope
    PROVE  /\ \A A : A \subseteq OwnDevspaces(scope) =>
                  IsFiniteSet(A) /\ Cardinality(A) \in Nat /\ Cardinality(A) <= 7
           /\ \A A : A \subseteq OwnJobs(scope) =>
                  IsFiniteSet(A) /\ Cardinality(A) \in Nat /\ Cardinality(A) <= 10
           /\ \A A : A \subseteq VmIssues => IsFiniteSet(A) /\ Cardinality(A) \in Nat
           /\ \A A : A \subseteq UserTables => IsFiniteSet(A) /\ Cardinality(A) \in Nat
           /\ \A A : A \subseteq DescribedVms => IsFiniteSet(A) /\ Cardinality(A) \in Nat
<1>1. ASSUME NEW S, IsFiniteSet(S)
      PROVE  \A A : A \subseteq S =>
                 IsFiniteSet(A) /\ Cardinality(A) \in Nat /\ Cardinality(A) <= Cardinality(S)
  BY <1>1, FS_Subset, FS_CardinalityType
<1>2. OwnDevspaces(scope) \subseteq Devspaces /\ OwnJobs(scope) \subseteq ToSet(JobRuns)
  BY DEF OwnDevspaces, OwnJobs
<1>3. \A A : A \subseteq OwnDevspaces(scope) =>
          IsFiniteSet(A) /\ Cardinality(A) \in Nat /\ Cardinality(A) <= 7
  BY <1>1, <1>2, DataIsFinite
<1>4. \A A : A \subseteq OwnJobs(scope) =>
          IsFiniteSet(A) /\ Cardinality(A) \in Nat /\ Cardinality(A) <= 10
  BY <1>1, <1>2, DataIsFinite
<1>5. /\ \A A : A \subseteq VmIssues => IsFiniteSet(A) /\ Cardinality(A) \in Nat
      /\ \A A : A \subseteq UserTables => IsFiniteSet(A) /\ Cardinality(A) \in Nat
      /\ \A A : A \subseteq DescribedVms => IsFiniteSet(A) /\ Cardinality(A) \in Nat
  BY <1>1, DataIsFinite
<1>6. QED
  BY <1>3, <1>4, <1>5

\* ... and in one of few states each.
LEMMA StatesAre ==
    /\ \A d \in Devspaces : /\ d.state \in {"healthy", "attention", "critical", "stopped"}
                            /\ d.cpu \in Nat /\ d.memory \in Nat /\ d.disk \in Nat
    /\ \A j \in ToSet(JobRuns) : j.state \in {"running", "succeeded", "failed", "queued"}
    /\ \A t \in UserTables :
           t.ingestion \in {"succeeded", "late", "failed", "pending", "not_received"}
    /\ \A vm \in DescribedVms : \E d \in Devspaces : d.vm = vm
<1>1. \A d \in Devspaces : /\ d.state \in {"healthy", "attention", "critical", "stopped"}
                           /\ d.cpu \in Nat /\ d.memory \in Nat /\ d.disk \in Nat
  BY DEF Devspaces, DevspaceList, Devspace
<1>2. \A j \in ToSet(JobRuns) : j.state \in {"running", "succeeded", "failed", "queued"}
  <2>1. \A i \in 1 .. 10 : RunList[i].state \in {"running", "succeeded", "failed", "queued"}
    BY DEF RunList, Run
  <2>2. QED
    BY <2>1, JobsAre DEF ToSet
<1>3. \A t \in UserTables :
          t.ingestion \in {"succeeded", "late", "failed", "pending", "not_received"}
  BY DEF UserTables, HiveTable
<1>4. \A vm \in DescribedVms : \E d \in Devspaces : d.vm = vm
  BY DEF Devspaces, DevspaceList, Devspace, DescribedVms
<1>5. QED
  BY <1>1, <1>2, <1>3, <1>4

------------------------------------------------------------------------------
(* The parts of the inventory and of the jobs.                             *)

LEMMA ScopesSee ==
    ASSUME NEW scope \in Scopes, scope.everything
    PROVE  OwnDevspaces(scope) = Devspaces /\ OwnJobs(scope) = ToSet(JobRuns)
  BY DEF OwnDevspaces, OwnJobs, Sees

\* What the inventory tells of a scope without everything.
LEMMA OwnInventoryIs ==
    ASSUME NEW scope \in Scopes, ~scope.everything
    PROVE  LET ds == OwnDevspaces(scope)
               i == Inventory[scope]
           IN /\ i.total = Cardinality(ds)
              /\ i.active = Cardinality({d \in ds : d.state # "stopped"})
              /\ i.healthy = Cardinality({d \in ds : d.state = "healthy"})
              /\ i.attention = Cardinality({d \in ds : d.state \in {"attention", "critical"}})
              /\ i.stopped = Cardinality({d \in ds : d.state = "stopped"})
              /\ i.vms = Cardinality({d.vm : d \in ds})
              /\ i.cpu = Average(ds, "cpu")
              /\ i.memory = Average(ds, "memory")
              /\ i.storage = Average(ds, "disk")
  BY DEF Inventory, Number, Active, InAlarm

LEMMA AllInventoryIs ==
    ASSUME NEW scope \in Scopes, scope.everything
    PROVE  LET i == Inventory[scope]
           IN /\ i.total = Cardinality(OwnDevspaces(scope))
              /\ i.active = 6 /\ i.healthy = 4 /\ i.attention = 2 /\ i.stopped = 1 /\ i.vms = 4
  BY DEF Inventory

LEMMA InventoryAddsUp ==
    ASSUME NEW scope \in Scopes
    PROVE  LET i == Inventory[scope] IN
           /\ i.total = Cardinality(OwnDevspaces(scope))
           /\ i.vms = Cardinality({d.vm : d \in OwnDevspaces(scope)})
           /\ i.active + i.stopped = i.total
           /\ i.healthy + i.attention + i.stopped = i.total
<1> DEFINE ds == OwnDevspaces(scope)
           Of(states) == {d \in ds : d.state \in states}
<1>1. CASE scope.everything
  <2>1. ds = Devspaces /\ Cardinality(ds) = 7
    BY <1>1, ScopesSee, DataIsFinite
  <2>2. {d.vm : d \in ds} = DescribedVms
    BY <2>1, DevspacesAre, StatesAre
  <2>3. /\ Inventory[scope].total = Cardinality(ds) /\ Inventory[scope].vms = 4
        /\ Inventory[scope].active = 6 /\ Inventory[scope].healthy = 4
        /\ Inventory[scope].attention = 2 /\ Inventory[scope].stopped = 1
    BY <1>1, AllInventoryIs
  <2>4. Inventory[scope].vms = Cardinality({d.vm : d \in ds})
    BY <2>2, <2>3, DataIsFinite
  <2> HIDE DEF ds
  <2>5. QED
    BY <2>1, <2>3, <2>4 DEF ds
<1>2. CASE ~scope.everything
  <2>1. \A A : A \subseteq ds => IsFiniteSet(A) /\ Cardinality(A) \in Nat
    BY ListsAreFinite
  <2>2. \A d \in ds : d.state \in {"healthy", "attention", "critical", "stopped"}
    BY StatesAre DEF OwnDevspaces
  <2> DEFINE active == {d \in ds : d.state # "stopped"}
             healthy == {d \in ds : d.state = "healthy"}
             attention == {d \in ds : d.state \in {"attention", "critical"}}
             stopped == {d \in ds : d.state = "stopped"}
  <2>3. ds = active \cup stopped /\ active \cap stopped = {}
    OBVIOUS
  <2>4. /\ ds = healthy \cup attention \cup stopped
        /\ healthy \cap attention = {} /\ healthy \cap stopped = {} /\ attention \cap stopped = {}
    BY <2>2
  <2>5. active \subseteq ds /\ healthy \subseteq ds /\ attention \subseteq ds /\ stopped \subseteq ds
    OBVIOUS
  <2>6. /\ Inventory[scope].total = Cardinality(ds)
        /\ Inventory[scope].vms = Cardinality({d.vm : d \in ds})
        /\ Inventory[scope].active = Cardinality(active)
        /\ Inventory[scope].healthy = Cardinality(healthy)
        /\ Inventory[scope].attention = Cardinality(attention)
        /\ Inventory[scope].stopped = Cardinality(stopped)
    BY <1>2, OwnInventoryIs
  <2> HIDE DEF active, healthy, attention, stopped
  <2>7. Cardinality(ds) = Cardinality(active) + Cardinality(stopped)
    BY <2>1, <2>3, <2>5, TwoParts
  <2>8. Cardinality(ds) = Cardinality(healthy) + Cardinality(attention) + Cardinality(stopped)
    BY <2>1, <2>4, <2>5, ThreeParts
  <2>9. QED
    BY <2>6, <2>7, <2>8
<1>3. QED
  BY <1>1, <1>2

\* The success rate is full when nothing has failed.
LEMMA FullRate ==
    ASSUME NEW s \in Nat, NEW f \in Nat, s + f \in 1 .. 10
    PROVE  (Rounded(100 * s, s + f) = 100) = (f = 0)
<1>1. ASSUME NEW n \in 1 .. 10, n = s + f
      PROVE  (Rounded(100 * (n - f), n) = 100) = (f = 0)
  <2>1. f \in 0 .. 10
    BY <1>1
  <2>2. QED
    BY <1>1, <2>1 DEF Rounded
<1>2. s = (s + f) - f
  OBVIOUS
<1>3. QED
  BY <1>1, <1>2

LEMMA JobsAddUp ==
    ASSUME NEW scope \in Scopes
    PROVE  LET jobs == Jobs[scope] IN
           /\ jobs.running + jobs.succeeded + jobs.failed + jobs.queued = jobs.total
           /\ (jobs.successRate = 100) = (jobs.failed = 0)
           /\ jobs.running + jobs.queued = Cardinality({j \in OwnJobs(scope) : Unfinished(j)})
<1> DEFINE own == OwnJobs(scope)
           running == {j \in own : j.state \in {"running"}}
           succeeded == {j \in own : j.state \in {"succeeded"}}
           failed == {j \in own : j.state \in {"failed"}}
           queued == {j \in own : j.state \in {"queued"}}
           completed == {j \in own : j.state \in {"succeeded", "failed"}}
           unfinished == {j \in own : Unfinished(j)}
           jobs == Jobs[scope]
<1>1. /\ jobs.total = Cardinality(own) /\ jobs.running = Cardinality(running)
      /\ jobs.succeeded = Cardinality(succeeded) /\ jobs.failed = Cardinality(failed)
      /\ jobs.queued = Cardinality(queued)
      /\ jobs.successRate = IF Cardinality(completed) = 0 THEN 100
                            ELSE Rounded(100 * Cardinality(succeeded), Cardinality(completed))
  BY DEF Jobs, Number
<1>2. \A A : A \subseteq own => IsFiniteSet(A) /\ Cardinality(A) \in Nat /\ Cardinality(A) <= 10
  BY ListsAreFinite
<1>3. \A j \in own : j.state \in {"running", "succeeded", "failed", "queued"}
  BY StatesAre DEF OwnJobs
<1>4. /\ own = running \cup succeeded \cup failed \cup queued
      /\ running \cap succeeded = {} /\ running \cap failed = {} /\ succeeded \cap failed = {}
      /\ running \cap queued = {} /\ succeeded \cap queued = {} /\ failed \cap queued = {}
  BY <1>3
<1>5. completed = succeeded \cup failed /\ unfinished = running \cup queued
  BY DEF Unfinished
<1>6. /\ running \subseteq own /\ succeeded \subseteq own /\ failed \subseteq own
      /\ queued \subseteq own /\ completed \subseteq own
  OBVIOUS
<1> HIDE DEF own, running, succeeded, failed, queued, completed, unfinished, jobs
<1>7. Cardinality(own) = Cardinality(running) + Cardinality(succeeded) + Cardinality(failed)
                             + Cardinality(queued)
  BY <1>2, <1>4, <1>6, FourParts
<1>8. /\ Cardinality(completed) = Cardinality(succeeded) + Cardinality(failed)
      /\ Cardinality(unfinished) = Cardinality(running) + Cardinality(queued)
  BY <1>2, <1>4, <1>5, <1>6, TwoParts
<1>9. /\ Cardinality(succeeded) \in Nat /\ Cardinality(failed) \in Nat
      /\ Cardinality(completed) \in Nat /\ Cardinality(completed) <= 10
  BY <1>2, <1>6
<1>10. (jobs.successRate = 100) = (jobs.failed = 0)
  <2>1. CASE Cardinality(completed) = 0
    BY <1>1, <1>8, <1>9, <2>1
  <2>2. CASE Cardinality(completed) # 0
    <3>1. Cardinality(succeeded) + Cardinality(failed) \in 1 .. 10
      BY <1>8, <1>9, <2>2
    <3>2. (Rounded(100 * Cardinality(succeeded), Cardinality(succeeded) + Cardinality(failed)) = 100)
              = (Cardinality(failed) = 0)
      BY <1>9, <3>1, FullRate
    <3>3. QED
      BY <1>1, <1>8, <2>2, <3>2
  <2>3. QED
    BY <2>1, <2>2
<1>11. /\ jobs.running + jobs.succeeded + jobs.failed + jobs.queued = jobs.total
       /\ jobs.running + jobs.queued = Cardinality(unfinished)
  BY <1>1, <1>7, <1>8
<1>12. QED
  BY <1>10, <1>11 DEF jobs, unfinished, own

------------------------------------------------------------------------------
(* The VMs: each devspace, job and issue belongs to one of them.           *)

ScopeVms(scope) == {d.vm : d \in OwnDevspaces(scope)}

Items(scope) == {VmDetail[scope][vm] : vm \in ScopeVms(scope)}

LEMMA ItemsAre ==
    ASSUME NEW scope \in Scopes
    PROVE  /\ ScopeVms(scope) \subseteq DescribedVms
           /\ Vms[scope].vms = Items(scope)
           /\ \A i \in Items(scope) : i.vm \in ScopeVms(scope) /\ i = VmDetail[scope][i.vm]
           /\ \A vm \in ScopeVms(scope) :
                  /\ VmDetail[scope][vm] \in Items(scope)
                  /\ VmDetail[scope][vm].vm = vm
           /\ IsFiniteSet(Items(scope)) /\ Cardinality(Items(scope)) = Cardinality(ScopeVms(scope))
<1>1. ScopeVms(scope) \subseteq DescribedVms
  BY DevspacesAre DEF ScopeVms, OwnDevspaces
<1>2. \A vm \in DescribedVms : VmDetail[scope][vm].vm = vm
  BY DetailsAre
<1>3. Vms[scope].vms = Items(scope)
  BY DetailsAre DEF Items, ScopeVms
<1>4. \A i \in Items(scope) : i.vm \in ScopeVms(scope) /\ i = VmDetail[scope][i.vm]
  BY <1>1, <1>2 DEF Items
<1>5. \A vm \in ScopeVms(scope) :
          VmDetail[scope][vm] \in Items(scope) /\ VmDetail[scope][vm].vm = vm
  BY <1>1, <1>2 DEF Items
<1>6. IsFiniteSet(Items(scope)) /\ Cardinality(Items(scope)) = Cardinality(ScopeVms(scope))
  <2>1. IsFiniteSet(ScopeVms(scope))
    BY <1>1, ListsAreFinite
  <2> DEFINE detail == VmDetail[scope]
  <2>2. \A v, w \in ScopeVms(scope) : detail[v] = detail[w] => v = w
    BY <1>5
  <2> HIDE DEF detail
  <2>3. /\ IsFiniteSet({detail[vm] : vm \in ScopeVms(scope)})
        /\ Cardinality({detail[vm] : vm \in ScopeVms(scope)}) = Cardinality(ScopeVms(scope))
    BY <2>1, <2>2, ImagesCounted
  <2>4. QED
    BY <2>3 DEF detail, Items
<1>7. QED
  BY <1>1, <1>3, <1>4, <1>5, <1>6

\* What the items tell of their VM.
LEMMA ItemsTell ==
    ASSUME NEW scope \in Scopes, NEW i \in Items(scope)
    PROVE  /\ i.devspaces = {d \in OwnDevspaces(scope) : d.vm = i.vm}
           /\ i.users = {d.owner : d \in i.devspaces}
           /\ i.activeIssues = Cardinality({x \in VmIssues : x.vm = i.vm /\ x.status = "active"})
           /\ i.state \in {"healthy", "attention", "critical"}
<1>1. PICK vm \in DescribedVms : i = VmDetail[scope][vm] /\ i.vm = vm
  BY ItemsAre
<1>2. \A v \in DescribedVms :
          /\ VmDetail[scope][v].devspaces = Hosted(scope, v)
          /\ VmDetail[scope][v].users = {d.owner : d \in Hosted(scope, v)}
  BY DetailsAre
<1>3. \A v \in DescribedVms :
          /\ VmDetail[scope][v].activeIssues
                 = Cardinality({x \in {x \in VmIssues : x.vm = v} : x.status = "active"})
          /\ VmDetail[scope][v].state \in {"healthy", "attention", "critical"}
  BY DEF VmDetail
<1>4. {x \in {x \in VmIssues : x.vm = vm} : x.status = "active"}
          = {x \in VmIssues : x.vm = vm /\ x.status = "active"}
  OBVIOUS
<1>5. QED
  BY <1>1, <1>2, <1>3, <1>4 DEF Hosted

\* What is counted at every VM of a scope is counted once.
LEMMA CountedAtVms ==
    ASSUME NEW scope \in Scopes, NEW A, IsFiniteSet(A), \A a \in A : a.vm \in ScopeVms(scope),
           NEW f \in [Items(scope) -> Nat],
           \A i \in Items(scope) : f[i] = Cardinality({a \in A : a.vm = i.vm})
    PROVE  Cardinality(Units(Items(scope), f)) = Cardinality(A)
<1> DEFINE items == Items(scope)
           key == [a \in A |-> VmDetail[scope][a.vm]]
<1>1. key \in [A -> items]
  BY ItemsAre
<1>2. \A a \in A : \A i \in items : key[a] = i <=> a.vm = i.vm
  BY ItemsAre
<1>3. \A i \in items : {a \in A : key[a] = i} = {a \in A : a.vm = i.vm}
  BY <1>2
<1>4. IsFiniteSet(items)
  BY ItemsAre
<1>5. \A i \in items : f[i] = Cardinality({a \in A : key[a] = i})
  BY <1>3
<1> HIDE DEF key, items
<1>6. Cardinality(Units(items, f)) = Cardinality(A)
  <2>1. f \in [items -> Nat]
    BY DEF items
  <2>2. QED
    BY <1>1, <1>4, <1>5, <2>1, CountedByKey
<1>7. QED
  BY <1>6 DEF items

\* The devspaces of all VMs are counted by a sum over the VMs.
LEMMA DevspacesOfVms ==
    ASSUME NEW scope \in Scopes
    PROVE  Vms[scope].devspaces = Cardinality(OwnDevspaces(scope))
<1> DEFINE items == Items(scope)
           f == [i \in items |-> Cardinality(i.devspaces)]
           Next(sum) == [T \in SUBSET items |->
                             IF T = {} THEN 0
                             ELSE LET x == CHOOSE x \in T : TRUE
                                  IN Cardinality(x.devspaces) + sum[T \ {x}]]
           chosen == CHOOSE sum : sum = Next(sum)
<1>1. Vms[scope].devspaces = MapThenSumSet(LAMBDA i : Cardinality(i.devspaces), items)
  BY DEF Vms, Items, ScopeVms
<1>2. MapThenSumSet(LAMBDA i : Cardinality(i.devspaces), items) = chosen[items]
  BY DEF MapThenSumSet, MapThenFoldSet
<1>3. /\ \A i \in items : i.devspaces = {d \in OwnDevspaces(scope) : d.vm = i.vm}
      /\ IsFiniteSet(items)
  BY ItemsTell, ItemsAre
<1>4. /\ f \in [items -> Nat]
      /\ \A i \in items : f[i] = Cardinality({d \in OwnDevspaces(scope) : d.vm = i.vm})
  BY <1>3, ListsAreFinite
<1>5. \A sum : sum = Next(sum) <=> IsSum(sum, items, f)
  <2>1. \A sum : Next(sum) = [T \in SUBSET items |-> Added(f, sum, T)]
    <3>1. \A T \in SUBSET items : T # {} => (CHOOSE x \in T : TRUE) \in items
      OBVIOUS
    <3> HIDE DEF items
    <3>2. QED
      BY <3>1 DEF Added
  <2>2. QED
    BY <2>1 DEF IsSum
<1> HIDE DEF Next, f, items
<1>6. IsSum(chosen, items, f)
  <2>1. PICK sum : IsSum(sum, items, f)
    BY <1>3, <1>4, SumExists
  <2>2. chosen = Next(chosen)
    BY <1>5, <2>1
  <2>3. QED
    BY <1>5, <2>2
<1> HIDE DEF chosen
<1>7. chosen[items] = Cardinality(Units(items, f))
  BY <1>3, <1>4, <1>6, SumCountsUnits
<1>8. Cardinality(Units(items, f)) = Cardinality(OwnDevspaces(scope))
  <2>1. IsFiniteSet(OwnDevspaces(scope)) /\ \A d \in OwnDevspaces(scope) : d.vm \in ScopeVms(scope)
    BY ListsAreFinite DEF ScopeVms
  <2>2. QED
    BY <1>4, <2>1, CountedAtVms DEF items
<1>9. Vms[scope].devspaces = chosen[items]
  BY <1>1, <1>2, Zenon
<1>10. QED
  BY <1>7, <1>8, <1>9

\* So are the jobs that are not finished, ...
LEMMA JobsOfVms ==
    ASSUME NEW scope \in Scopes
    PROVE  Vms[scope].jobs = Cardinality({j \in OwnJobs(scope) : Unfinished(j)})
<1> DEFINE items == Items(scope)
           jobs == {j \in OwnJobs(scope) : Unfinished(j)}
           f == [i \in items |-> Cardinality({j \in jobs : j.vm = i.vm})]
           Next(sum) == [T \in SUBSET items |->
                             IF T = {} THEN 0
                             ELSE LET x == CHOOSE x \in T : TRUE
                                  IN Cardinality({j \in jobs : j.vm = x.vm}) + sum[T \ {x}]]
           chosen == CHOOSE sum : sum = Next(sum)
<1>1. Vms[scope].jobs = MapThenSumSet(LAMBDA i : Number(jobs, LAMBDA j : j.vm = i.vm), items)
  BY DEF Vms, Items, ScopeVms
<1>2. MapThenSumSet(LAMBDA i : Number(jobs, LAMBDA j : j.vm = i.vm), items) = chosen[items]
  BY DEF MapThenSumSet, MapThenFoldSet, Number
<1>3. IsFiniteSet(items) /\ IsFiniteSet(jobs) /\ \A S : S \subseteq jobs => Cardinality(S) \in Nat
  BY ItemsAre, ListsAreFinite
<1>4. /\ f \in [items -> Nat]
      /\ \A i \in items : f[i] = Cardinality({j \in jobs : j.vm = i.vm})
  <2> HIDE DEF jobs
  <2>1. \A i \in items : Cardinality({j \in jobs : j.vm = i.vm}) \in Nat
    BY <1>3
  <2>2. QED
    BY <2>1
<1>5. \A sum : sum = Next(sum) <=> IsSum(sum, items, f)
  <2> HIDE DEF jobs
  <2>1. \A sum : Next(sum) = [T \in SUBSET items |-> Added(f, sum, T)]
    <3>1. \A T \in SUBSET items : T # {} => (CHOOSE x \in T : TRUE) \in items
      OBVIOUS
    <3> HIDE DEF items
    <3>2. QED
      BY <3>1 DEF Added
  <2>2. QED
    BY <2>1 DEF IsSum
<1> HIDE DEF Next, f, items
<1>6. IsSum(chosen, items, f)
  <2>1. PICK sum : IsSum(sum, items, f)
    BY <1>3, <1>4, SumExists
  <2>2. chosen = Next(chosen)
    BY <1>5, <2>1
  <2>3. QED
    BY <1>5, <2>2
<1> HIDE DEF chosen
<1>7. chosen[items] = Cardinality(Units(items, f))
  BY <1>3, <1>4, <1>6, SumCountsUnits
<1>8. Cardinality(Units(items, f)) = Cardinality(jobs)
  <2>1. \A j \in jobs : j.vm \in ScopeVms(scope)
    <3>1. SUFFICES ASSUME NEW j \in jobs PROVE j.vm \in ScopeVms(scope)
      OBVIOUS
    <3>2. j \in ToSet(JobRuns) /\ Sees(scope, j.owner)
      BY DEF OwnJobs
    <3>3. PICK d \in Devspaces : d.owner = j.owner /\ d.vm = j.vm
      BY <3>2, JobIds
    <3>4. d \in OwnDevspaces(scope)
      BY <3>2, <3>3 DEF OwnDevspaces
    <3>5. QED
      BY <3>3, <3>4 DEF ScopeVms
  <2> HIDE DEF jobs
  <2>2. QED
    BY <1>3, <1>4, <2>1, CountedAtVms DEF items
<1>9. Vms[scope].jobs = chosen[items]
  BY <1>1, <1>2, Zenon
<1>10. QED
  BY <1>7, <1>8, <1>9

\* ... and the issues that are active.
LEMMA IssuesOfVms ==
    ASSUME NEW scope \in Scopes
    PROVE  Vms[scope].issues
               = Cardinality({x \in VmIssues : x.vm \in ScopeVms(scope) /\ x.status = "active"})
<1> DEFINE items == Items(scope)
           issues == {x \in VmIssues : x.vm \in ScopeVms(scope) /\ x.status = "active"}
           f == [i \in items |-> i.activeIssues]
           Next(sum) == [T \in SUBSET items |->
                             IF T = {} THEN 0
                             ELSE LET x == CHOOSE x \in T : TRUE
                                  IN x.activeIssues + sum[T \ {x}]]
           chosen == CHOOSE sum : sum = Next(sum)
<1>1. Vms[scope].issues = MapThenSumSet(LAMBDA i : i.activeIssues, items)
  BY DEF Vms, Items, ScopeVms
<1>2. MapThenSumSet(LAMBDA i : i.activeIssues, items) = chosen[items]
  BY DEF MapThenSumSet, MapThenFoldSet
<1>3. IsFiniteSet(items) /\ IsFiniteSet(issues) /\ \A S : S \subseteq issues => Cardinality(S) \in Nat
  BY ItemsAre, ListsAreFinite
<1>4. /\ f \in [items -> Nat]
      /\ \A i \in items : f[i] = Cardinality({x \in issues : x.vm = i.vm})
  <2>1. ASSUME NEW i \in items
        PROVE  i.activeIssues = Cardinality({x \in issues : x.vm = i.vm})
    <3>1. i.vm \in ScopeVms(scope)
      BY ItemsAre
    <3>2. {x \in VmIssues : x.vm = i.vm /\ x.status = "active"} = {x \in issues : x.vm = i.vm}
      BY <3>1
    <3>3. i.activeIssues = Cardinality({x \in VmIssues : x.vm = i.vm /\ x.status = "active"})
      BY ItemsTell
    <3>4. QED
      BY <3>2, <3>3
  <2> HIDE DEF issues
  <2>2. \A i \in items : Cardinality({x \in issues : x.vm = i.vm}) \in Nat
    BY <1>3
  <2>3. QED
    BY <2>1, <2>2
<1>5. \A sum : sum = Next(sum) <=> IsSum(sum, items, f)
  <2>1. \A sum : Next(sum) = [T \in SUBSET items |-> Added(f, sum, T)]
    <3>1. \A T \in SUBSET items : T # {} => (CHOOSE x \in T : TRUE) \in items
      OBVIOUS
    <3> HIDE DEF items
    <3>2. QED
      BY <3>1 DEF Added
  <2>2. QED
    BY <2>1 DEF IsSum
<1> HIDE DEF Next, f, items
<1>6. IsSum(chosen, items, f)
  <2>1. PICK sum : IsSum(sum, items, f)
    BY <1>3, <1>4, SumExists
  <2>2. chosen = Next(chosen)
    BY <1>5, <2>1
  <2>3. QED
    BY <1>5, <2>2
<1> HIDE DEF chosen
<1>7. chosen[items] = Cardinality(Units(items, f))
  BY <1>3, <1>4, <1>6, SumCountsUnits
<1>8. Cardinality(Units(items, f)) = Cardinality(issues)
  <2>1. \A x \in issues : x.vm \in ScopeVms(scope)
    OBVIOUS
  <2> HIDE DEF issues
  <2>2. QED
    BY <1>3, <1>4, <2>1, CountedAtVms DEF items
<1>9. Vms[scope].issues = chosen[items]
  BY <1>1, <1>2, Zenon
<1>10. QED
  BY <1>7, <1>8, <1>9

\* Each VM is in one of three states and has the users of its devspaces.
LEMMA VmsAddUp ==
    ASSUME NEW scope \in Scopes
    PROVE  LET vms == Vms[scope] IN
           /\ vms.total = Cardinality(ScopeVms(scope))
           /\ vms.healthy + vms.attention + vms.critical = vms.total
           /\ vms.users = Cardinality({d.owner : d \in OwnDevspaces(scope)})
<1> DEFINE items == Items(scope)
           healthy == {i \in items : i.state = "healthy"}
           attention == {i \in items : i.state = "attention"}
           critical == {i \in items : i.state = "critical"}
           vms == Vms[scope]
<1>1. /\ vms.total = Cardinality(items)
      /\ vms.healthy = Cardinality(healthy) /\ vms.attention = Cardinality(attention)
      /\ vms.critical = Cardinality(critical)
      /\ vms.users = Cardinality(UNION {i.users : i \in items})
  BY DEF Vms, Number, Items, ScopeVms
<1>2. IsFiniteSet(items) /\ Cardinality(items) = Cardinality(ScopeVms(scope))
  BY ItemsAre
<1>3. /\ items = healthy \cup attention \cup critical
      /\ healthy \cap attention = {} /\ healthy \cap critical = {} /\ attention \cap critical = {}
      /\ IsFiniteSet(healthy) /\ IsFiniteSet(attention) /\ IsFiniteSet(critical)
  <2>1. \A i \in items : i.state \in {"healthy", "attention", "critical"}
    BY ItemsTell
  <2> HIDE DEF items
  <2>2. /\ items = healthy \cup attention \cup critical
        /\ healthy \cap attention = {} /\ healthy \cap critical = {} /\ attention \cap critical = {}
    BY <2>1
  <2>3. IsFiniteSet(healthy) /\ IsFiniteSet(attention) /\ IsFiniteSet(critical)
    BY <1>2, FS_Subset
  <2>4. QED
    BY <2>2, <2>3
<1>4. UNION {i.users : i \in items} = {d.owner : d \in OwnDevspaces(scope)}
  <2>1. ASSUME NEW i \in items
        PROVE  i.users = {d.owner : d \in {d \in OwnDevspaces(scope) : d.vm = i.vm}}
    BY ItemsTell
  <2>2. \A d \in OwnDevspaces(scope) : \E i \in items : i.vm = d.vm
    BY ItemsAre DEF ScopeVms
  <2> HIDE DEF items
  <2>3. QED
    BY <2>1, <2>2
<1> HIDE DEF items, healthy, attention, critical, vms
<1>5. Cardinality(items) = Cardinality(healthy) + Cardinality(attention) + Cardinality(critical)
  BY <1>3, ThreeParts
<1>6. QED
  BY <1>1, <1>2, <1>4, <1>5 DEF vms

------------------------------------------------------------------------------
(* What else the pages of a scope tell.                                    *)

\* The jobs of the devspaces are all jobs.
LEMMA JobsOfDevspaces ==
    ASSUME NEW scope \in Scopes
    PROVE  UNION {x.jobs : x \in {DevspaceDetail[scope][d] : d \in OwnDevspaces(scope)}}
               = OwnJobs(scope)
<1> DEFINE detail == DevspaceDetail[scope]
<1>1. \A d \in OwnDevspaces(scope) : detail[d].jobs = {j \in OwnJobs(scope) : j.devspace = d.id}
  BY DetailsAre DEF OwnDevspaces
<1>2. ASSUME NEW j \in OwnJobs(scope) PROVE \E d \in OwnDevspaces(scope) : j.devspace = d.id
  <2>1. j \in ToSet(JobRuns) /\ Sees(scope, j.owner)
    BY DEF OwnJobs
  <2>2. PICK d \in Devspaces : d.id = j.devspace /\ d.owner = j.owner
    BY <2>1, JobIds
  <2>3. QED
    BY <2>1, <2>2 DEF OwnDevspaces
<1> HIDE DEF detail
<1>3. UNION {x.jobs : x \in {detail[d] : d \in OwnDevspaces(scope)}} = OwnJobs(scope)
  BY <1>1, <1>2
<1>4. QED
  BY <1>3 DEF detail

\* Each table is in one of the states that are counted.
LEMMA TablesAddUp ==
    ASSUME NEW scope \in Scopes
    PROVE  LET access == DataAccess[scope] IN
           /\ access.ingested + access.late + access.failed + access.pending = access.accessible
           /\ access.tables \subseteq ControlPlane.tables
<1> DEFINE tables == IF Mapped(scope) THEN UserTables ELSE {}
           ingested == {t \in tables : t.ingestion \in {"succeeded"}}
           late == {t \in tables : t.ingestion \in {"late"}}
           failed == {t \in tables : t.ingestion \in {"failed"}}
           pending == {t \in tables : t.ingestion \in {"pending", "not_received"}}
           access == DataAccess[scope]
<1>1. /\ access.tables = tables /\ access.accessible = Cardinality(tables)
      /\ access.ingested = Cardinality(ingested) /\ access.late = Cardinality(late)
      /\ access.failed = Cardinality(failed) /\ access.pending = Cardinality(pending)
  BY DEF DataAccess, Number
<1>2. tables \subseteq UserTables
  OBVIOUS
<1> HIDE DEF tables
<1>3. /\ tables = ingested \cup late \cup failed \cup pending
      /\ ingested \cap late = {} /\ ingested \cap failed = {} /\ late \cap failed = {}
      /\ ingested \cap pending = {} /\ late \cap pending = {} /\ failed \cap pending = {}
  BY <1>2, StatesAre
<1>4. /\ IsFiniteSet(ingested) /\ IsFiniteSet(late) /\ IsFiniteSet(failed) /\ IsFiniteSet(pending)
  <2>1. IsFiniteSet(tables)
    BY <1>2, ListsAreFinite
  <2>2. QED
    BY <2>1, FS_Subset
<1>5. tables \subseteq ControlPlane.tables
  <2>1. ControlPlane.tables = AdminTables
    BY DEF ControlPlane
  <2>2. UserTables \subseteq AdminTables
    BY DEF AdminTables
  <2>3. QED
    BY <1>2, <2>1, <2>2
<1> HIDE DEF ingested, late, failed, pending, access
<1>6. Cardinality(tables) = Cardinality(ingested) + Cardinality(late) + Cardinality(failed)
                                + Cardinality(pending)
  BY <1>3, <1>4, FourParts
<1>7. QED
  BY <1>1, <1>5, <1>6 DEF access

\* The dashboard counts the devspaces that need attention among all.
LEMMA HomeAddsUp ==
    ASSUME NEW scope \in Scopes, ~scope.everything
    PROVE  Home[scope].warnings + Inventory[scope].healthy + Inventory[scope].stopped
               = Home[scope].workspaces
<1>1. Home[scope].warnings = Inventory[scope].attention
  BY DEF Home
<1>2. Home[scope].workspaces = Inventory[scope].total
  BY DEF Home
<1> DEFINE ds == OwnDevspaces(scope)
<1>3. /\ Inventory[scope].healthy = Cardinality({d \in ds : d.state = "healthy"})
      /\ Inventory[scope].attention = Cardinality({d \in ds : d.state \in {"attention", "critical"}})
      /\ Inventory[scope].stopped = Cardinality({d \in ds : d.state = "stopped"})
  BY OwnInventoryIs
<1>4. \A A : A \subseteq ds => Cardinality(A) \in Nat
  BY ListsAreFinite
<1> HIDE DEF ds
<1>5. /\ Inventory[scope].healthy \in Nat /\ Inventory[scope].attention \in Nat
      /\ Inventory[scope].stopped \in Nat
  BY <1>3, <1>4
<1>6. Inventory[scope].healthy + Inventory[scope].attention + Inventory[scope].stopped
          = Inventory[scope].total
  BY InventoryAddsUp
<1>7. QED
  BY <1>1, <1>2, <1>5, <1>6

------------------------------------------------------------------------------
(* The fleet lies within what its active devspaces use.                    *)

LEMMA RoundedBetween ==
    ASSUME NEW total \in Nat, NEW n \in 1 .. 7, NEW low \in Nat, NEW high \in Nat,
           n * low <= total, total <= n * high
    PROVE  low <= Rounded(total, n) /\ Rounded(total, n) <= high
<1> DEFINE q == total \div n
           r == total % n
<1>1. q \in Nat /\ r \in 0 .. n - 1 /\ total = n * q + r
  OBVIOUS
<1>2. Rounded(total, n) = IF 2 * r > n \/ (2 * r = n /\ q % 2 = 1) THEN q + 1 ELSE q
  BY DEF Rounded
<1> HIDE DEF q, r
<1>3. ASSUME NEW m \in 1 .. 7, m = n
      PROVE  low <= q /\ q <= high /\ (q = high => r = 0)
  BY <1>1, <1>3
<1>4. QED
  BY <1>1, <1>2, <1>3

LEMMA AverageIsBetween ==
    ASSUME NEW scope, NEW column, \A d \in Devspaces : d[column] \in Nat
    PROVE  LET ds == OwnDevspaces(scope)
           IN Between(Average(ds, column), {d[column] : d \in Active(ds)})
<1> DEFINE ds == OwnDevspaces(scope)
           items == Active(ds)
           f == [d \in items |-> d[column]]
           Next(sum) == [T \in SUBSET items |->
                             IF T = {} THEN 0
                             ELSE LET x == CHOOSE x \in T : TRUE
                                  IN x[column] + sum[T \ {x}]]
           chosen == CHOOSE sum : sum = Next(sum)
           values == {d[column] : d \in items}
<1>1. Average(ds, column) = IF items = {} THEN 0
                            ELSE Rounded(MapThenSumSet(LAMBDA d : d[column], items),
                                         Cardinality(items))
  BY DEF Average
<1>2. MapThenSumSet(LAMBDA d : d[column], items) = chosen[items]
  BY DEF MapThenSumSet, MapThenFoldSet
<1>3. /\ IsFiniteSet(items) /\ Cardinality(items) \in 0 .. 7
      /\ items # {} => Cardinality(items) \in 1 .. 7
  <2>1. items \subseteq ds
    BY DEF Active
  <2>2. IsFiniteSet(items) /\ Cardinality(items) \in 0 .. 7
    BY <2>1, ListsAreFinite
  <2> HIDE DEF items
  <2>3. items # {} => Cardinality(items) # 0
    BY <2>2, FS_EmptySet
  <2>4. QED
    BY <2>2, <2>3
<1>4. f \in [items -> Nat] /\ \A d \in items : f[d] = d[column] /\ f[d] \in Nat
  BY DEF Active, OwnDevspaces
<1>5. \A sum : sum = Next(sum) <=> IsSum(sum, items, f)
  <2> HIDE DEF ds
  <2>1. \A sum : Next(sum) = [T \in SUBSET items |-> Added(f, sum, T)]
    <3>1. \A T \in SUBSET items : T # {} => (CHOOSE x \in T : TRUE) \in items
      OBVIOUS
    <3> HIDE DEF items
    <3>2. QED
      BY <3>1 DEF Added
  <2>2. QED
    BY <2>1 DEF IsSum
<1>6. values = {f[d] : d \in items}
  BY <1>4
<1>7. items # {} => Average(ds, column) = Rounded(chosen[items], Cardinality(items))
  BY <1>1, <1>2, Zenon
<1>8. items = {} => Average(ds, column) = 0
  BY <1>1
<1> HIDE DEF Next, f, items, ds, values
<1>9. IsSum(chosen, items, f)
  <2>1. PICK sum : IsSum(sum, items, f)
    BY <1>3, <1>4, SumExists
  <2>2. chosen = Next(chosen)
    BY <1>5, <2>1
  <2>3. QED
    BY <1>5, <2>2
<1> HIDE DEF chosen
<1>10. chosen[items] = Cardinality(Units(items, f)) /\ chosen[items] \in Nat
  <2>1. chosen[items] = Cardinality(Units(items, f))
    BY <1>3, <1>4, <1>9, SumCountsUnits
  <2>2. items \in SUBSET items
    OBVIOUS
  <2>3. Cardinality(Units(items, f)) \in Nat
    BY <1>3, <1>4, <2>2, UnitsAreFinite
  <2>4. QED
    BY <2>1, <2>3
<1>11. CASE items = {}
  <2>1. values = {}
    BY <1>6, <1>11
  <2>2. QED
    BY <1>8, <1>11, <2>1 DEF Between, values, ds, items
<1>12. CASE items # {}
  <2>1. IsFiniteSet(values) /\ values \subseteq Nat /\ values # {}
    <3>1. IsFiniteSet({f[d] : d \in items})
      BY <1>3, ImagesAreFinite
    <3>2. QED
      BY <1>4, <1>6, <1>12, <3>1
  <2>2. /\ Min(values) \in values /\ \A v \in values : Min(values) <= v
        /\ Max(values) \in values /\ \A v \in values : Max(values) >= v
    <3>1. /\ \E x \in values : \A y \in values : x <= y
          /\ \E x \in values : \A y \in values : x >= y
      BY <2>1, LeastAndGreatest
    <3>2. QED
      BY <3>1 DEF Min, Max
  <2>3. \A d \in items : Min(values) <= f[d] /\ f[d] <= Max(values)
    <3>1. \A d \in items : f[d] \in values
      BY <1>6
    <3>2. QED
      BY <2>1, <2>2, <3>1
  <2>4. /\ Cardinality(items) * Min(values) <= chosen[items]
        /\ chosen[items] <= Cardinality(items) * Max(values)
    <3>1. Min(values) \in Nat /\ Max(values) \in Nat
      BY <2>1, <2>2
    <3>2. /\ Cardinality(items) * Min(values) <= Cardinality(Units(items, f))
          /\ Cardinality(Units(items, f)) <= Cardinality(items) * Max(values)
      BY <1>3, <1>4, <2>3, <3>1, UnitsBetween
    <3>3. QED
      BY <1>10, <3>2
  <2> DEFINE n == Cardinality(items)
             total == chosen[items]
             low == Min(values)
             high == Max(values)
  <2>5. n \in 1 .. 7 /\ total \in Nat /\ low \in Nat /\ high \in Nat /\ n * low <= total /\ total <= n * high
    BY <1>3, <1>10, <1>12, <2>1, <2>2, <2>4
  <2> HIDE DEF n, total, low, high
  <2>6. low <= Rounded(total, n) /\ Rounded(total, n) <= high
    BY <2>5, RoundedBetween
  <2>7. Average(ds, column) = Rounded(total, n)
    BY <1>7, <1>12 DEF total, n
  <2>8. Between(Average(ds, column), values)
    BY <2>1, <2>6, <2>7 DEF Between, low, high
  <2>9. QED
    BY <2>8 DEF values, ds, items
<1>13. QED
  BY <1>11, <1>12

\* The active devspaces of a scope without everything bound what its fleet uses.
LEMMA FleetIsBetween ==
    ASSUME NEW scope \in Scopes, ~scope.everything
    PROVE  LET inventory == Inventory[scope]
               active == Active(inventory.devspaces)
           IN /\ Between(inventory.cpu, {d.cpu : d \in active})
              /\ Between(inventory.memory, {d.memory : d \in active})
              /\ Between(inventory.storage, {d.disk : d \in active})
<1> DEFINE ds == OwnDevspaces(scope)
<1>1. /\ Inventory[scope].cpu = Average(ds, "cpu")
      /\ Inventory[scope].memory = Average(ds, "memory")
      /\ Inventory[scope].storage = Average(ds, "disk")
  BY OwnInventoryIs
<1>2. Inventory[scope].devspaces = ds
  BY ListsAre
<1>3. \A d \in Devspaces : d["cpu"] \in Nat /\ d["memory"] \in Nat /\ d["disk"] \in Nat
  BY StatesAre
<1>4. Between(Average(ds, "cpu"), {d["cpu"] : d \in Active(ds)})
  BY <1>3, AverageIsBetween
<1>5. Between(Average(ds, "memory"), {d["memory"] : d \in Active(ds)})
  BY <1>3, AverageIsBetween
<1>6. Between(Average(ds, "disk"), {d["disk"] : d \in Active(ds)})
  BY <1>3, AverageIsBetween
<1> HIDE DEF ds
<1>7. QED
  BY <1>1, <1>2, <1>4, <1>5, <1>6

LEMMA PagesOfScopeAgree ==
    ASSUME PageInOrder
    PROVE  PagesAgree
<1> DEFINE scope == shown.scope
           inventory == Inventory[scope]
           jobs == Jobs[scope]
           vms == Vms[scope]
           access == DataAccess[scope]
           details == {DevspaceDetail[scope][d] : d \in inventory.devspaces}
<1>1. scope \in Scopes
  BY ScopesAre
<1>2. inventory.devspaces = OwnDevspaces(scope) /\ jobs.jobs = OwnJobs(scope)
  BY <1>1, ListsAre
<1>3. /\ inventory.active + inventory.stopped = inventory.total
      /\ inventory.healthy + inventory.attention + inventory.stopped = inventory.total
      /\ vms.total = inventory.vms
      /\ vms.healthy + vms.attention + vms.critical = vms.total
      /\ vms.devspaces = inventory.total
  BY <1>1, InventoryAddsUp, VmsAddUp, DevspacesOfVms DEF ScopeVms
<1>4. /\ jobs.running + jobs.succeeded + jobs.failed + jobs.queued = jobs.total
      /\ (jobs.successRate = 100) = (jobs.failed = 0)
      /\ vms.jobs = jobs.running + jobs.queued
  BY <1>1, JobsAddUp, JobsOfVms
<1>5. UNION {d.jobs : d \in details} = jobs.jobs
  BY <1>1, <1>2, JobsOfDevspaces
<1>6. vms.users = Cardinality({d.owner : d \in inventory.devspaces})
  BY <1>1, <1>2, VmsAddUp
<1>7. vms.issues = Number(inventory.issues, LAMBDA i : i.status = "active")
  <2> DEFINE here == {x \in VmIssues : x.vm \in ScopeVms(scope) /\ x.status = "active"}
  <2>1. inventory.issues = IF scope.everything THEN VmIssues
                           ELSE {i \in VmIssues : i.vm \in ScopeVms(scope)}
    BY <1>1, DetailsAre DEF ScopeVms
  <2>2. scope.everything => \A x \in VmIssues : x.vm \in ScopeVms(scope)
    BY <1>1, ScopesSee, DevspacesAre DEF ScopeVms
  <2>3. here = {x \in inventory.issues : x.status = "active"}
    BY <2>1, <2>2
  <2>4. vms.issues = Cardinality(here)
    BY <1>1, IssuesOfVms
  <2> HIDE DEF here, inventory, vms, scope
  <2>5. QED
    BY <2>3, <2>4 DEF Number
<1>8. /\ access.ingested + access.late + access.failed + access.pending = access.accessible
      /\ access.tables \subseteq ControlPlane.tables
  BY <1>1, TablesAddUp
<1>9. scope.everything \/
          /\ Between(inventory.cpu, {d.cpu : d \in Active(inventory.devspaces)})
          /\ Between(inventory.memory, {d.memory : d \in Active(inventory.devspaces)})
          /\ Between(inventory.storage, {d.disk : d \in Active(inventory.devspaces)})
          /\ Home[scope].warnings + inventory.healthy + inventory.stopped = Home[scope].workspaces
  BY <1>1, FleetIsBetween, HomeAddsUp
<1>10. QED
  BY <1>3, <1>4, <1>5, <1>6, <1>7, <1>8, <1>9, Zenon DEF PagesAgree

\* Whoever the visitors are: what one page of a scope tells of devspaces, VMs, users, jobs,
\* issues, tables and the fleet is what the other pages of the scope tell.
THEOREM PagesAgreeEverywhere == PagesSpec => []PagesAgree
<1>1. PageInOrder => PagesAgree
  BY PagesOfScopeAgree
<1>2. QED
  BY <1>1, PagesStayInOrder, PTL
==============================================================================
