----------------------- MODULE PortalPagesProperties -------------------------
(***************************************************************************)
(* What the pages of the portal guarantee.                                 *)
(***************************************************************************)
EXTENDS PortalPages

ShownDevspace == CHOOSE d \in Devspaces : d.id = shown.id

\* Whose entries a page shows.
OwnersOn(scope) ==
    LET owners(items) == {i.owner : i \in items}
        jobOwners(ids) == {j.owner : j \in {j \in ToSet(JobRuns) : j.id \in ids}}
    IN CASE shown.kind = "home" -> owners(Home[scope].resources)
                                       \cup (owners(Home[scope].activity) \ {"platform"})
         [] shown.kind = "devspaces" -> owners(Inventory[scope].devspaces)
         [] shown.kind = "jobs" -> owners(Jobs[scope].jobs)
         [] shown.kind = "devspace" ->
                {ShownDevspace.owner} \cup owners(DevspaceDetail[scope][ShownDevspace].jobs)
         [] shown.kind = "vm" ->
                LET page == VmDetail[scope][shown.id]
                IN page.users \cup owners(page.devspaces)
                   \cup jobOwners({p.job : p \in page.top})
         [] shown.kind = "vms" -> UNION {i.users : i \in Vms[scope].vms}
         [] shown.kind = "data-access" /\ DataAccess[scope].tables # {} -> {"alex-morgan"}
         [] OTHER -> {}

\* A visitor who is not an administrator sees no entry of another user: on no page,
\* whether it was reached by a link or typed in, and not on the page of a VM that
\* users share either.  An administrator's view of data access is that of the one
\* user the preview has.
OwnItemsOnly ==
    shown.scope.everything
        \/ OwnersOn(shown.scope) \subseteq {SlugOf[n] : n \in names} \cup names

\* Where the entries of a page lead.
LinksOn(scope) ==
    LET toDevspaces(ds) == {DevspacePage(d.id) : d \in ds}
        toVms(ds) == {VmPage(d.vm) : d \in ds}
        jobs == Jobs[scope].jobs
        hosted == VmDetail[scope][shown.id].devspaces
    IN CASE shown.kind = "devspaces" ->
                LET ds == Inventory[scope].devspaces IN toDevspaces(ds) \cup toVms(ds)
                    \cup {VmPage(i.vm) : i \in Inventory[scope].issues}
         [] shown.kind = "jobs" ->
                {DevspacePage(j.devspace) : j \in jobs} \cup {VmPage(j.vm) : j \in jobs}
         [] shown.kind = "devspace" -> {VmPage(ShownDevspace.vm)}
         [] shown.kind = "vm" -> toDevspaces(hosted)
         [] shown.kind = "vms" -> {VmPage(i.vm) : i \in Vms[scope].vms}
         [] OTHER -> {}

\* Every devspace and VM a page refers to is found by a request with the same scope,
\* and a VM that is found has facts and host resources: the lists and the details,
\* written in two services, agree on what the visitor may see.
LinksResolve ==
    /\ \A link \in LinksOn(shown.scope) : Found(shown.scope, link)
    /\ shown.kind = "vm" => shown.id \in DescribedVms

Between(n, values) == IF values = {} THEN n = 0 ELSE Min(values) <= n /\ n <= Max(values)

\* The pages of one scope agree with each other, and each with itself: devspaces,
\* users and unfinished jobs of all VMs are those of the inventory and of the jobs;
\* the jobs of all devspaces are all jobs; the parts of a summary add up; the fleet
\* lies within what its active devspaces use.  The fleet and the dashboard that are
\* written down for an administrator are left out.
PagesAgree ==
    LET scope == shown.scope
        inventory == Inventory[scope]
        jobs == Jobs[scope]
        vms == Vms[scope]
        access == DataAccess[scope]
        details == {DevspaceDetail[scope][d] : d \in inventory.devspaces}
    IN shown.kind = "none" \/
       /\ inventory.active + inventory.stopped = inventory.total
       /\ inventory.healthy + inventory.attention + inventory.stopped = inventory.total
       /\ jobs.running + jobs.succeeded + jobs.failed + jobs.queued = jobs.total
       /\ UNION {d.jobs : d \in details} = jobs.jobs
       /\ (jobs.successRate = 100) = (jobs.failed = 0)
       /\ vms.total = inventory.vms
       /\ vms.healthy + vms.attention + vms.critical = vms.total
       /\ vms.devspaces = inventory.total
       /\ vms.users = Cardinality({d.owner : d \in inventory.devspaces})
       /\ vms.jobs = jobs.running + jobs.queued
       /\ vms.issues = Number(inventory.issues, LAMBDA i : i.status = "active")
       /\ access.ingested + access.late + access.failed + access.pending = access.accessible
       /\ access.tables \subseteq ControlPlane.tables
       /\ scope.everything \/
              /\ Between(inventory.cpu, {d.cpu : d \in Active(inventory.devspaces)})
              /\ Between(inventory.memory, {d.memory : d \in Active(inventory.devspaces)})
              /\ Between(inventory.storage, {d.disk : d \in Active(inventory.devspaces)})
              /\ Home[scope].warnings + inventory.healthy + inventory.stopped
                     = Home[scope].workspaces

\* Whoever looks at a VM or a devspace finds the process of every job that runs
\* there, although a VM lists eight processes only and a stopped devspace none.
RunningJobsShown ==
    LET scope == shown.scope
        running(P(_)) == {j.id : j \in {j \in OwnJobs(scope) : j.state = "running" /\ P(j)}}
        shownIn(processes) == {p.job : p \in processes} \ {NoJob}
    IN /\ shown.kind = "devspace" =>
              shownIn(DevspaceDetail[scope][ShownDevspace].processes)
                  = running(LAMBDA j : j.devspace = shown.id)
       /\ shown.kind = "vm" =>
              shownIn(VmDetail[scope][shown.id].top) = running(LAMBDA j : j.vm = shown.id)
==============================================================================
