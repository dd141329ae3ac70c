---------------------------- MODULE PreviewData ------------------------------
(***************************************************************************)
(* The preview inventory that stands in for the integrations to come: what *)
(* the services hold of devspaces, VMs, their issues, job runs, tables and *)
(* queues, reduced to the columns that the pages compute with.             *)
(***************************************************************************)
EXTENDS Naturals

\* cpu, memory, disk: percentages.
Devspace(id, owner, vm, state, cpu, memory, disk) ==
    [id |-> id, owner |-> owner, vm |-> vm, state |-> state,
     cpu |-> cpu, memory |-> memory, disk |-> disk]

\* In the order of the inventory.
DevspaceList ==
    <<Devspace("analytics-dev", "alex-morgan", "vm-021", "healthy", 18, 26, 38),
      Devspace("customer-model", "priya-nair", "vm-021", "attention", 87, 88, 64),
      Devspace("risk-research", "omar-hassan", "vm-041", "critical", 98, 96, 91),
      Devspace("fraud-lab", "leila-khan", "vm-034", "healthy", 28, 28, 43),
      Devspace("data-observability", "daniel-lee", "vm-034", "healthy", 23, 36, 44),
      Devspace("pricing-experiment", "sara-ali", "vm-052", "healthy", 20, 39, 36),
      Devspace("treasury-sandbox", "michael-ross", "vm-052", "stopped", 0, 0, 21)>>

Devspaces == {DevspaceList[i] : i \in DOMAIN DevspaceList}

VmIssue(id, vm, severity, status) ==
    [id |-> id, vm |-> vm, severity |-> severity, status |-> status]

VmIssues ==
    {VmIssue("vm041-runtime", "vm-041", "critical", "active"),
     VmIssue("vm021-memory", "vm-021", "warning", "active"),
     VmIssue("vm041-disk", "vm-041", "warning", "active"),
     VmIssue("vm034-nexus", "vm-034", "warning", "resolved"),
     VmIssue("vm021-runtime-restart", "vm-021", "informational", "resolved"),
     VmIssue("vm052-network", "vm-052", "warning", "resolved"),
     VmIssue("vm041-cdp", "vm-041", "warning", "resolved"),
     VmIssue("vm034-maintenance", "vm-034", "informational", "resolved"),
     VmIssue("vm021-disk-cleanup", "vm-021", "warning", "resolved"),
     VmIssue("vm052-image-pull", "vm-052", "informational", "resolved")}

\* The VMs that vm_detail has facts and host resources of.
DescribedVms == {"vm-021", "vm-034", "vm-041", "vm-052"}

\* peak: cpu_peak_percentage.
Run(id, devspace, state, peak) ==
    [id |-> id, devspace |-> devspace, state |-> state, peak |-> peak]

RunList ==
    <<Run("run-churn-284", "customer-model", "running", 87),
      Run("run-fraud-118", "fraud-lab", "running", 61),
      Run("run-risk-912", "risk-research", "failed", 98),
      Run("run-features-410", "analytics-dev", "succeeded", 54),
      Run("run-observe-633", "data-observability", "succeeded", 38),
      Run("run-price-207", "pricing-experiment", "succeeded", 48),
      Run("run-segment-399", "analytics-dev", "failed", 32),
      Run("run-fraud-117", "fraud-lab", "succeeded", 72),
      Run("run-churn-285", "customer-model", "queued", 0),
      Run("run-observe-632", "data-observability", "succeeded", 29)>>

\* A run has the owner and the VM of its devspace.  nth: its place in the list.
Job(nth, run, d) ==
    [nth |-> nth, id |-> run.id, devspace |-> d.id, owner |-> d.owner, vm |-> d.vm,
     state |-> run.state, peak |-> run.peak]

JobRuns ==
    [i \in DOMAIN RunList |->
        Job(i, RunList[i], CHOOSE d \in Devspaces : d.id = RunList[i].devspace)]

\* The dashboard's items; those of the platform are everybody's.
DashboardResources ==
    {[id |-> "analytics-dev", owner |-> "alex-morgan"],
     [id |-> "model-training", owner |-> "priya-nair"],
     [id |-> "customer-model", owner |-> "priya-nair"],
     [id |-> "data-observability", owner |-> "daniel-lee"]}

DashboardActivity ==
    {[id |-> "build-182", owner |-> "priya-nair"],
     [id |-> "workspace-analytics-dev", owner |-> "alex-morgan"],
     [id |-> "commit-8f21a", owner |-> "omar-hassan"],
     [id |-> "image-python-311", owner |-> "platform"]}

\* ingestion: the state of the morning ingestion.
HiveTable(id, ingestion) == [id |-> id, ingestion |-> ingestion]

UserTables ==
    {HiveTable("customer-customer_features", "succeeded"),
     HiveTable("customer-customer_segments", "succeeded"),
     HiveTable("risk-customer_risk_scores", "late"),
     HiveTable("finance-daily_transactions", "failed"),
     HiveTable("reference-product_hierarchy", "succeeded"),
     HiveTable("digital-web_events", "pending"),
     HiveTable("customer-churn_features", "succeeded"),
     HiveTable("marketing-campaign_response", "not_received")}

AdminTables == UserTables \cup {HiveTable("risk-model-features", "succeeded"),
                                HiveTable("finance-ledger-daily", "pending")}

YarnQueue(id, team, state) == [id |-> id, team |-> team, state |-> state]

YarnQueues ==
    {YarnQueue("customer-models", "Customer Analytics", "attention"),
     YarnQueue("customer-shared", "Customer Analytics", "healthy"),
     YarnQueue("risk-models", "Risk Modelling", "healthy"),
     YarnQueue("finance-insights", "Finance Insights", "critical"),
     YarnQueue("fraud-lab", "Fraud Analytics", "attention")}

\* The keys of the one user whose data access is in the preview.
KnownUserKeys == {"alex-morgan", "alex.morgan", "user-1048"}
==============================================================================
