---------------------------- MODULE PortalPages ------------------------------
(***************************************************************************)
(* The pages of the portal: what each shows of the preview data within the *)
(* scope of its request - everything for an administrator, otherwise what  *)
(* is owned under one of the visitor's names - and where its entries lead. *)
(***************************************************************************)
EXTENDS PreviewData, Integers, FiniteSets, FiniteSetsExt, SequencesExt

CONSTANTS Visitors,  \* the sets of names that a visitor may have
          SlugOf     \* the slug of each name

ASSUME NamesAssumption == \A names \in Visitors : names \subseteq DOMAIN SlugOf

VARIABLES names,  \* username, enterprise user id and mail address of the visitor
          admin,  \* the visitor's role is ADMIN
          shown   \* the page that was requested last, and the scope it was served with

pagesVars == <<names, admin, shown>>

\* get_resource_scope: an administrator's, or the names and the slug of each.
Everything == [everything |-> TRUE, keys |-> {}]

Own(ns) == [everything |-> FALSE, keys |-> ns \cup {SlugOf[n] : n \in ns}]

Scopes == {Everything} \cup {Own(ns) : ns \in Visitors}

Sees(scope, owner) == scope.everything \/ owner \in scope.keys

Number(S, P(_)) == Cardinality({x \in S : P(x)})

\* round() of a quotient: halves go to the even neighbour.
Rounded(total, n) ==
    LET q == total \div n
        r == total % n
    IN IF 2 * r > n \/ (2 * r = n /\ q % 2 = 1) THEN q + 1 ELSE q

------------------------------------------------------------------------------
(* GET /devspaces                                                          *)

OwnDevspaces(scope) == {d \in Devspaces : Sees(scope, d.owner)}

InAlarm(d) == d.state \in {"attention", "critical"}

Active(ds) == {d \in ds : d.state # "stopped"}

Average(ds, resource) ==
    IF Active(ds) = {} THEN 0
    ELSE Rounded(MapThenSumSet(LAMBDA d : d[resource], Active(ds)), Cardinality(Active(ds)))

\* What an administrator gets is written down, not computed.
Inventory[scope \in Scopes] ==
    LET ds == OwnDevspaces(scope)
        vms == {d.vm : d \in ds}
    IN IF scope.everything
       THEN [devspaces |-> ds, total |-> Cardinality(ds), active |-> 6, healthy |-> 4,
             attention |-> 2, stopped |-> 1, vms |-> 4, risky |-> 1,
             cpu |-> 47, memory |-> 61, storage |-> 54, issues |-> VmIssues]
       ELSE [devspaces |-> ds, total |-> Cardinality(ds), active |-> Cardinality(Active(ds)),
             healthy |-> Number(ds, LAMBDA d : d.state = "healthy"),
             attention |-> Number(ds, InAlarm),
             stopped |-> Number(ds, LAMBDA d : d.state = "stopped"),
             vms |-> Cardinality(vms), risky |-> Cardinality({d.vm : d \in {e \in ds : InAlarm(e)}}),
             cpu |-> Average(ds, "cpu"),
             memory |-> Average(ds, "memory"),
             storage |-> Average(ds, "disk"),
             issues |-> {i \in VmIssues : i.vm \in vms}]

------------------------------------------------------------------------------
(* GET /jobs                                                               *)

OwnJobs(scope) == {j \in ToSet(JobRuns) : Sees(scope, j.owner)}

Jobs[scope \in Scopes] ==
    LET jobs == OwnJobs(scope)
        In(states) == Number(jobs, LAMBDA j : j.state \in states)
        completed == In({"succeeded", "failed"})
    IN [jobs |-> jobs, total |-> Cardinality(jobs), running |-> In({"running"}),
        succeeded |-> In({"succeeded"}), failed |-> In({"failed"}), queued |-> In({"queued"}),
        successRate |-> IF completed = 0 THEN 100
                        ELSE Rounded(100 * In({"succeeded"}), completed)]

------------------------------------------------------------------------------
(* GET /devspaces/{id}                                                     *)

\* cpu: tenths of a percent.  place: the order among all processes there are.
Process(d, nth, job, cpu) ==
    LET rank == CHOOSE i \in DOMAIN DevspaceList : DevspaceList[i] = d
    IN [place |-> 5 * rank + nth, job |-> job, cpu |-> cpu]

NoJob == "none"

\* cpu of what runs in every devspace: editor, language server, notebooks, conmon.
OwnProcesses == <<28, 6, 42, 2>>

First(jobs) == {j \in jobs : \A k \in jobs : j.nth <= k.nth}

\* The first running job of the devspace has a process of its own.
Processes(scope, d) ==
    LET running == {j \in OwnJobs(scope) : j.devspace = d.id /\ j.state = "running"}
    IN IF d.state = "stopped" THEN {}
       ELSE {Process(d, 0, j.id, Min({824, 10 * j.peak})) : j \in First(running)}
            \cup {Process(d, nth, NoJob, OwnProcesses[nth]) : nth \in DOMAIN OwnProcesses}

DevspaceDetail[scope \in Scopes] ==
    [d \in Devspaces |->
        [devspace |-> d, jobs |-> {j \in OwnJobs(scope) : j.devspace = d.id},
         processes |-> Processes(scope, d), issues |-> {i \in VmIssues : i.vm = d.vm}]]

------------------------------------------------------------------------------
(* GET /vms/{id} and /vms                                                  *)

\* The slips of a VM page with everybody's devspaces, and of one without those stopped.
AnyHosted(scope, vm)    == {d \in Devspaces : d.vm = vm}
ActiveHosted(scope, vm) == Active({d \in OwnDevspaces(scope) : d.vm = vm})
Hosted(scope, vm)       == {d \in OwnDevspaces(scope) : d.vm = vm}

\* Processes in descending order of cpu, otherwise as they are listed; a slip that lists
\* the idle ones first.
Listed(p, q)  == p.cpu = q.cpu /\ p.place < q.place
Lighter(p, q) == p.cpu < q.cpu \/ Listed(p, q)
Heavier(p, q) == p.cpu > q.cpu \/ Listed(p, q)

\* The first eight.
TopProcesses(processes) ==
    {p \in processes : Cardinality({q \in processes : Heavier(q, p)}) < 8}

VmDetail[scope \in Scopes] == [vm \in DescribedVms |->
    LET hosted == Hosted(scope, vm)
        issues == {i \in VmIssues : i.vm = vm}
        active == {i \in issues : i.status = "active"}
    IN [vm |-> vm, devspaces |-> hosted, users |-> {d.owner : d \in hosted},
        issues |-> issues, activeIssues |-> Cardinality(active),
        state |-> IF \E i \in active : i.severity = "critical" THEN "critical"
                  ELSE IF active # {} THEN "attention" ELSE "healthy",
        top |-> TopProcesses(UNION {Processes(scope, d) : d \in hosted})]]

\* The slip of a count that forgets what waits.
RunningOnly(j)  == j.state = "running"
Unfinished(j)   == j.state \in {"running", "queued"}

Vms[scope \in Scopes] ==
    LET items == {VmDetail[scope][vm] : vm \in {d.vm : d \in OwnDevspaces(scope)}}
        jobs == {j \in OwnJobs(scope) : Unfinished(j)}
        In(state) == Number(items, LAMBDA i : i.state = state)
    IN [vms |-> items, total |-> Cardinality(items), healthy |-> In("healthy"),
        attention |-> In("attention"), critical |-> In("critical"),
        devspaces |-> MapThenSumSet(LAMBDA i : Cardinality(i.devspaces), items),
        users |-> Cardinality(UNION {i.users : i \in items}),
        jobs |-> MapThenSumSet(LAMBDA i : Number(jobs, LAMBDA j : j.vm = i.vm), items),
        issues |-> MapThenSumSet(LAMBDA i : i.activeIssues, items)]

------------------------------------------------------------------------------
(* GET /home, /data-access and /admin/control-plane                        *)

Home[scope \in Scopes] ==
    [resources |-> {r \in DashboardResources : Sees(scope, r.owner)},
     activity |-> {a \in DashboardActivity : Sees(scope, a.owner) \/ a.owner = "platform"},
     jobs |-> IF scope.everything THEN 12 ELSE Jobs[scope].total,
     workspaces |-> IF scope.everything THEN 3 ELSE Inventory[scope].total,
     warnings |-> IF scope.everything THEN 2 ELSE Inventory[scope].attention,
     failed |-> IF scope.everything THEN 1 ELSE Jobs[scope].failed,
     affected |-> IF scope.everything THEN 2 ELSE Inventory[scope].total]

Mapped(scope) == scope.everything \/ scope.keys \cap KnownUserKeys # {}

DataAccess[scope \in Scopes] ==
    LET tables == IF Mapped(scope) THEN UserTables ELSE {}
        In(states) == Number(tables, LAMBDA t : t.ingestion \in states)
    IN [tables |-> tables, accessible |-> Cardinality(tables),
        ingested |-> In({"succeeded"}), late |-> In({"late"}), failed |-> In({"failed"}),
        pending |-> In({"pending", "not_received"}),
        queues |-> IF Mapped(scope) THEN {q \in YarnQueues : q.team = "Customer Analytics"}
                   ELSE {}]

ControlPlane ==
    [tables |-> AdminTables, governed |-> Cardinality(AdminTables),
     ingestion |-> Number(AdminTables, LAMBDA t : t.ingestion # "succeeded"),
     queues |-> YarnQueues, pressed |-> Number(YarnQueues, LAMBDA q : q.state # "healthy")]

------------------------------------------------------------------------------
(* A visitor looks at one page after another.                              *)

Kinds == {"home", "devspaces", "jobs", "vms", "data-access"}

\* A page tells its parameter; an unknown id is among those that may be typed in.
DevspacePage(id) == [kind |-> "devspace", id |-> id]
VmPage(vm)       == [kind |-> "vm", id |-> vm]

Addresses ==
    {[kind |-> k, id |-> ""] : k \in Kinds \cup {"control-plane"}}
    \cup {DevspacePage(d.id) : d \in Devspaces} \cup {VmPage(vm) : vm \in DescribedVms}
    \cup {DevspacePage("missing"), VmPage("missing")}

\* Whether a request in this scope finds the page, or gets 403 or 404.
Found(scope, address) ==
    CASE address.kind = "control-plane" -> scope.everything
      [] address.kind = "devspace" -> \E d \in OwnDevspaces(scope) : d.id = address.id
      [] address.kind = "vm" -> Hosted(scope, address.id) # {}
      [] OTHER -> TRUE

CurrentScope == IF admin THEN Everything ELSE Own(names)

PagesInit ==
    /\ names \in Visitors
    /\ admin = FALSE
    /\ shown = [kind |-> "none", id |-> "", scope |-> CurrentScope]

Visit(address) ==
    /\ shown' = IF Found(CurrentScope, address)
                THEN [kind |-> address.kind, id |-> address.id, scope |-> CurrentScope]
                ELSE [kind |-> "none", id |-> "", scope |-> CurrentScope]
    /\ UNCHANGED <<names, admin>>

\* An administrator changes the visitor's role; the visitor has a new token.
ChangeRole ==
    /\ admin' = ~admin
    /\ UNCHANGED <<names, shown>>

PagesNext == ChangeRole \/ \E address \in Addresses : Visit(address)

PagesSpec == PagesInit /\ [][PagesNext]_pagesVars
==============================================================================
