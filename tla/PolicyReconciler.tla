------------------------- MODULE PolicyReconciler -------------------------
(***************************************************************************)
(* The CompatibilityPolicy controller: the reconciler that scans the       *)
(* cluster for a policy, creates upgrade plans when autoplan is enabled,   *)
(* and writes the report into the policy's status, one scan after the      *)
(* other, and what it works against: the API server, the informer caches   *)
(* of policies and of plans, the work queue, users, the cluster it scans,  *)
(* the clock that stamps a scan, and restarts.                             *)
(*                                                                         *)
(* The queries of the knowledge base are those of Matrix.  How a scan      *)
(* arrives at what is installed is the subject of Scan; here a scan sees   *)
(* the installed tools, or other ones when a source of it failed.          *)
(*                                                                         *)
(* Left out: the namespaces a policy watches, unknownInstalled, and the    *)
(* parts of a plan that say where its tool is installed.                   *)
(***************************************************************************)
EXTENDS PolicyReport, FiniteSetsExt

CONSTANTS
    Policies,      \* names of CompatibilityPolicy objects
    Home,          \* the namespace of each policy
    PlanName,      \* sanitizeName of "auto-", a tool, "-" and a version
    Rejected,      \* plans the API server refuses to create: a quota, an admission policy
    NoPolicy,      \* "no object"
    MaxFaults,     \* bound: crashes, failed writes and scans with a failed source
    MaxEdits,      \* bound: policies written and deleted, plans deleted
    MaxChanges,    \* bound: changes of what is installed
    MaxClock       \* bound: the last second

ASSUME PlanNameAssumption == Tools \X Versions \subseteq DOMAIN PlanName
ASSUME BoundsAssumption == {MaxFaults, MaxEdits, MaxChanges, MaxClock} \subseteq Nat

Status == [mode: {"", "discovery", "focused"}, tools: Seq(ToolReport),
           untrackable: Seq(Names), lastScanTime: Nat]

Stored == [rv: Nat, spec: Specs, status: Status]

ASSUME NoPolicyAssumption == NoPolicy \notin Specs \union Stored

VARIABLES
    api,       \* per policy, the version the API server stores, or NoPolicy
    rev,       \* per policy, the last resourceVersion given out under its name
    watch,     \* per policy, the versions the informer has still to receive
    cache,     \* per policy, the informer's copy
    queue,     \* per policy, its entry in the work queue: none, due later, or due now
    worker,    \* the one reconcile in progress
    plans,     \* the StackUpgrade objects there are: name -> approved
    planWatch, \* what the plan informer has still to receive: <<name, whether it exists>>
    planCache, \* the names of plans the informer has
    gates,     \* history: per policy, every spec users gave it
    cluster,   \* what is installed: tool -> version and source
    clock,     \* seconds
    asked,     \* history: policies with a reason to scan: see ScansKeepInterval
    planned,   \* history: names of all plans ever created
    faults, edits, changes

policies == <<api, rev, watch, cache, queue>>
upgrades == <<plans, planWatch, planCache, planned>>
bounds == <<faults, edits, changes>>
vars == <<api, rev, watch, cache, queue, worker, plans, planWatch, planCache,
          gates, cluster, clock, asked, planned, faults, edits, changes>>

Idle == [pc |-> "idle", key |-> NoPolicy, copy |-> NoPolicy, report |-> NoPolicy, todo |-> {}]

NewStatus == [mode |-> "", tools |-> <<>>, untrackable |-> <<>>, lastScanTime |-> 0]

Init ==
    /\ api = [p \in Policies |-> NoPolicy]
    /\ rev = [p \in Policies |-> 0]
    /\ watch = [p \in Policies |-> <<>>]
    /\ cache = [p \in Policies |-> NoPolicy]
    /\ queue = [p \in Policies |-> "none"]
    /\ worker = Idle
    /\ plans = <<>>
    /\ planWatch = <<>>
    /\ planCache = {}
    /\ gates = [p \in Policies |-> {}]
    /\ cluster \in Clusters
    /\ clock = 0
    /\ asked = {}
    /\ planned = {}
    /\ faults = 0 /\ edits = 0 /\ changes = 0

UpgradeName(p, ts) == <<Home[p], PlanName[<<ts.name, ts.recommended>>]>>

-----------------------------------------------------------------------------
(* The API server, users, and the cluster.                                 *)

Store(p, v) ==
    /\ api' = [api EXCEPT ![p] = [v EXCEPT !.rv = rev[p] + 1]]
    /\ rev' = [rev EXCEPT ![p] = @ + 1]
    /\ watch' = [watch EXCEPT ![p] = Append(@, [v EXCEPT !.rv = rev[p] + 1])]

\* The copy v of policy p is the one stored, so that a write of it is taken.
IsCurrent(p, v) == api[p] # NoPolicy /\ api[p].rv = v.rv

\* Status().Update of the copy v with the status s: no new version when
\* nothing changes.
PutStatus(p, v, s) ==
    /\ IsCurrent(p, v)
    /\ IF s = v.status THEN UNCHANGED <<api, rev, watch>> ELSE Store(p, [v EXCEPT !.status = s])

\* A user creates the policy or changes its spec.
WritePolicy(p) ==
    /\ edits < MaxEdits
    /\ edits' = edits + 1
    /\ \E spec \in Specs :
         /\ IF api[p] = NoPolicy
              THEN Store(p, [rv |-> 0, spec |-> spec, status |-> NewStatus])
              ELSE spec # api[p].spec /\ Store(p, [api[p] EXCEPT !.spec = spec])
         /\ gates' = [gates EXCEPT ![p] = @ \union {spec}]
    /\ UNCHANGED <<cache, queue, worker, upgrades, cluster, clock, asked, faults, changes>>

DeletePolicy(p) ==
    /\ edits < MaxEdits
    /\ edits' = edits + 1
    /\ api[p] # NoPolicy
    /\ api' = [api EXCEPT ![p] = NoPolicy]
    /\ rev' = [rev EXCEPT ![p] = @ + 1]
    /\ watch' = [watch EXCEPT ![p] = Append(@, NoPolicy)]
    /\ UNCHANGED <<cache, queue, worker, upgrades, cluster, gates, clock, asked,
                   faults, changes>>

\* A user deletes a plan.
DeletePlan(name) ==
    /\ edits < MaxEdits
    /\ edits' = edits + 1
    /\ name \in DOMAIN plans
    /\ plans' = [n \in DOMAIN plans \ {name} |-> plans[n]]
    /\ planWatch' = Append(planWatch, <<name, FALSE>>)
    /\ UNCHANGED <<policies, worker, planCache, planned, cluster, gates, clock, asked,
                   faults, changes>>

\* Tools are installed, upgraded and removed.
ChangeCluster ==
    /\ changes < MaxChanges
    /\ changes' = changes + 1
    /\ cluster' \in Clusters \ {cluster}
    /\ UNCHANGED <<policies, worker, upgrades, gates, clock, asked, faults, edits>>

Tick ==
    /\ clock < MaxClock
    /\ clock' = clock + 1
    /\ UNCHANGED <<policies, worker, upgrades, gates, cluster, asked, bounds>>

-----------------------------------------------------------------------------
(* The informers and the work queue.                                       *)

SpecOf(v) == IF v = NoPolicy THEN NoPolicy ELSE v.spec

\* The next watch event of a policy: a reason to scan if a user caused it.
Deliver(p) ==
    /\ watch[p] # <<>>
    /\ cache' = [cache EXCEPT ![p] = Head(watch[p])]
    /\ watch' = [watch EXCEPT ![p] = Tail(@)]
    /\ queue' = [queue EXCEPT ![p] = "now"]
    /\ asked' = IF SpecOf(cache'[p]) # SpecOf(cache[p]) THEN asked \union {p} ELSE asked
    /\ UNCHANGED <<api, rev, worker, upgrades, cluster, gates, clock, bounds>>

DeliverPlan ==
    /\ planWatch # <<>>
    /\ planWatch' = Tail(planWatch)
    /\ planCache' = IF Head(planWatch)[2] THEN planCache \union {Head(planWatch)[1]}
                    ELSE planCache \ {Head(planWatch)[1]}
    /\ UNCHANGED <<policies, worker, plans, planned, cluster, gates, clock, asked, bounds>>

\* scanInterval, or the back-off after an error, has passed.
FallsDue(p) ==
    /\ queue[p] = "later"
    /\ queue' = [queue EXCEPT ![p] = "now"]
    /\ asked' = asked \union {p}
    /\ UNCHANGED <<api, rev, watch, cache, worker, upgrades, cluster, gates, clock, bounds>>

Requeue(p) == [queue EXCEPT ![p] = IF @ = "now" THEN "now" ELSE "later"]

-----------------------------------------------------------------------------
(* Reconcile.                                                              *)

\* It reads the policy from the cache; one that is gone ends it at once.
Begin(p) ==
    /\ worker.pc = "idle"
    /\ queue[p] = "now"
    /\ queue' = [queue EXCEPT ![p] = "none"]
    /\ asked' = asked \ {p}
    /\ worker' = IF cache[p] = NoPolicy THEN Idle
                 ELSE [Idle EXCEPT !.pc = "scan", !.key = p, !.copy = cache[p]]
    /\ UNCHANGED <<api, rev, watch, cache, upgrades, cluster, gates, clock, bounds>>

\* The entries of a report that autoplan makes plans of.
ToPlan(spec, tools) == {i \in DOMAIN tools : WantsPlan(spec, tools[i])}

\* The scan and the report; when a source of the scan fails it is another one.
Scan ==
    /\ worker.pc = "scan"
    /\ \E seen \in Clusters :
         /\ \/ seen = cluster /\ UNCHANGED faults
            \/ seen # cluster /\ faults < MaxFaults /\ faults' = faults + 1
         /\ LET report == Report(worker.copy.spec, seen)
            IN worker' = [worker EXCEPT !.pc = "plan", !.report = report,
                                        !.todo = ToPlan(worker.copy.spec, report.tools)]
    /\ UNCHANGED <<policies, upgrades, cluster, gates, clock, asked, edits, changes>>

\* The loop takes the entries in their order.
Turn == Min(worker.todo)
Upgrade == worker.report.tools[Turn]
Name == UpgradeName(worker.key, Upgrade)
AtUpgrade == worker.pc = "plan" /\ worker.todo # {}

\* Mutant: a plan that exists already ends the loop.
SkipUpgradeAndRest ==
    /\ AtUpgrade
    /\ Name \in planCache \/ ~CanPlan(Upgrade)
    /\ worker' = [worker EXCEPT !.todo = {}]
    /\ UNCHANGED <<policies, upgrades, cluster, gates, clock, asked, bounds>>

\* One turn of the autoplan loop: the plan exists, as far as the cache knows,
\* or it cannot be made.
SkipUpgrade ==
    /\ AtUpgrade
    /\ Name \in planCache \/ ~CanPlan(Upgrade)
    /\ worker' = [worker EXCEPT !.todo = @ \ {Turn}]
    /\ UNCHANGED <<policies, upgrades, cluster, gates, clock, asked, bounds>>

MustCreate == AtUpgrade /\ Name \notin planCache /\ CanPlan(Upgrade)

\* Mutant: a plan that is there already is updated.
CreateOrUpdate ==
    /\ Name \notin Rejected
    /\ plans' = [n \in DOMAIN plans \union {Name} |->
                   IF n = Name THEN worker.copy.spec.autoApprove ELSE plans[n]]
    /\ planWatch' = Append(planWatch, <<Name, TRUE>>)
    /\ planned' = planned \union {Name}
    /\ UNCHANGED planCache

\* The API server takes a plan under a name that is free.
Create ==
    /\ Name \notin DOMAIN plans
    /\ Name \notin Rejected
    /\ plans' = [n \in DOMAIN plans \union {Name} |->
                   IF n = Name THEN worker.copy.spec.autoApprove ELSE plans[n]]
    /\ planWatch' = Append(planWatch, <<Name, TRUE>>)
    /\ planned' = planned \union {Name}
    /\ UNCHANGED planCache

CreateUpgrade ==
    /\ MustCreate
    /\ Create
    /\ worker' = [worker EXCEPT !.todo = @ \ {Turn}]
    /\ UNCHANGED <<policies, cluster, gates, clock, asked, bounds>>

\* Mutant: a plan that cannot be created is left for the next scan.
CreateFailsGoesOn ==
    /\ MustCreate
    /\ \/ Name \in DOMAIN plans \union Rejected /\ UNCHANGED <<upgrades, faults>>
       \/ /\ faults < MaxFaults /\ faults' = faults + 1
          /\ Create \/ UNCHANGED upgrades
    /\ worker' = [worker EXCEPT !.todo = @ \ {Turn}]
    /\ UNCHANGED <<policies, cluster, gates, clock, asked, edits, changes>>

\* Mutant: the error of a plan that cannot be created is swallowed.
CreateFailsSilently ==
    /\ MustCreate
    /\ \/ Name \in DOMAIN plans \union Rejected /\ UNCHANGED <<upgrades, faults>>
       \/ /\ faults < MaxFaults /\ faults' = faults + 1
          /\ Create \/ UNCHANGED upgrades
    /\ worker' = Idle
    /\ UNCHANGED <<policies, cluster, gates, clock, asked, edits, changes>>

\* The name is taken, the plan is refused, or the request fails before or after
\* the server took it: the reconcile ends with an error.
CreateFails ==
    /\ MustCreate
    /\ \/ Name \in DOMAIN plans \union Rejected /\ UNCHANGED <<upgrades, faults>>
       \/ /\ faults < MaxFaults /\ faults' = faults + 1
          /\ Create \/ UNCHANGED upgrades
    /\ worker' = Idle
    /\ queue' = Requeue(worker.key)
    /\ UNCHANGED <<api, rev, watch, cache, cluster, gates, clock, asked, edits, changes>>

\* A report as it is stored, with the time of the scan.
StatusOf(report, time) ==
    [mode |-> report.mode, tools |-> report.tools, untrackable |-> report.untrackable,
     lastScanTime |-> time]

ScanStatus == StatusOf(worker.report, clock)

AtPersist == worker.pc = "plan" /\ worker.todo = {}

\* Mutant: the status goes to whatever is stored by then.
PersistUnlocked ==
    /\ AtPersist
    /\ IF api[worker.key] # NoPolicy
         THEN Store(worker.key, [api[worker.key] EXCEPT !.status = ScanStatus])
         ELSE UNCHANGED <<api, rev, watch>>
    /\ worker' = Idle
    /\ queue' = Requeue(worker.key)
    /\ UNCHANGED <<cache, upgrades, cluster, gates, clock, asked, bounds>>

\* The status write is taken: the next scan is due after scanInterval.
Persist ==
    /\ AtPersist
    /\ PutStatus(worker.key, worker.copy, ScanStatus)
    /\ worker' = Idle
    /\ queue' = Requeue(worker.key)
    /\ UNCHANGED <<cache, upgrades, cluster, gates, clock, asked, bounds>>

\* A conflict, or a request that fails before or after the server took it.
PersistFails ==
    /\ AtPersist
    /\ \/ /\ ~IsCurrent(worker.key, worker.copy)
          /\ UNCHANGED <<api, rev, watch, faults>>
       \/ /\ faults < MaxFaults /\ faults' = faults + 1
          /\ \/ PutStatus(worker.key, worker.copy, ScanStatus)
             \/ UNCHANGED <<api, rev, watch>>
    /\ worker' = Idle
    /\ queue' = Requeue(worker.key)
    /\ UNCHANGED <<cache, upgrades, cluster, gates, clock, asked, edits, changes>>

-----------------------------------------------------------------------------
\* The operator dies and starts again: the informers list and queue everything.
Restart ==
    /\ faults < MaxFaults
    /\ faults' = faults + 1
    /\ worker' = Idle
    /\ cache' = api
    /\ watch' = [p \in Policies |-> <<>>]
    /\ queue' = [p \in Policies |-> IF api[p] = NoPolicy THEN "none" ELSE "now"]
    /\ asked' = {p \in Policies : api[p] # NoPolicy}
    /\ planCache' = DOMAIN plans
    /\ planWatch' = <<>>
    /\ UNCHANGED <<api, rev, plans, planned, cluster, gates, clock, edits, changes>>

Users == \/ \E p \in Policies : WritePolicy(p) \/ DeletePolicy(p)
         \/ \E name \in DOMAIN plans : DeletePlan(name)
Reconcile == \/ Scan \/ SkipUpgrade \/ CreateUpgrade \/ CreateFails
             \/ Persist \/ PersistFails

Next ==
    \/ Users
    \/ ChangeCluster
    \/ Tick
    \/ \E p \in Policies : Deliver(p) \/ FallsDue(p) \/ Begin(p)
    \/ DeliverPlan
    \/ Reconcile
    \/ Restart

Spec == Init /\ [][Next]_vars

\* Events arrive, intervals and back-offs pass, a reconcile ends, and the queue
\* serves every policy in turn.  Nothing is assumed of the clock.
Fairness ==
    /\ \A p \in Policies : WF_vars(Deliver(p)) /\ WF_vars(FallsDue(p)) /\ SF_vars(Begin(p))
    /\ WF_vars(DeliverPlan)
    /\ WF_vars(Reconcile)

FairSpec == Spec /\ Fairness

-----------------------------------------------------------------------------
(* Properties.                                                             *)

IsVersion(v) == /\ v.rv \in Nat /\ v.spec \in Specs
                /\ IsReport(v.status) /\ v.status.lastScanTime \in 0..MaxClock

PlanNames == {Home[p] : p \in Policies} \X {PlanName[x] : x \in DOMAIN PlanName}

\* The state has its types.
TypeOK ==
    /\ \A p \in Policies :
         /\ api[p] # NoPolicy => IsVersion(api[p])
         /\ cache[p] # NoPolicy => IsVersion(cache[p])
         /\ \A i \in DOMAIN watch[p] : watch[p][i] # NoPolicy => IsVersion(watch[p][i])
    /\ rev \in [Policies -> Nat]
    /\ queue \in [Policies -> {"none", "later", "now"}]
    /\ \/ worker = Idle
       \/ /\ worker.pc \in {"scan", "plan"}
          /\ worker.key \in Policies /\ IsVersion(worker.copy)
          /\ worker.pc = "plan" => /\ IsReport(worker.report)
                                  /\ worker.todo \subseteq DOMAIN worker.report.tools
    /\ plans \in [DOMAIN plans -> BOOLEAN] /\ DOMAIN plans \subseteq PlanNames
    /\ planWatch \in Seq(PlanNames \X BOOLEAN)
    /\ planCache \subseteq PlanNames /\ planned \subseteq PlanNames
    /\ gates \in [Policies -> SUBSET Specs]
    /\ cluster \in Clusters
    /\ clock \in 0..MaxClock
    /\ asked \subseteq Policies
    /\ faults \in 0..MaxFaults /\ edits \in 0..MaxEdits /\ changes \in 0..MaxChanges

Written(p) == /\ api[p] # NoPolicy /\ api'[p] # NoPolicy
              /\ api'[p].status # api[p].status

\* A report is about the spec it is stored with: a report made for an earlier
\* spec never replaces the status of a policy that was changed, or deleted and
\* created again, during the scan.
ReportFitsSpec ==
    [][\A p \in Policies :
         Written(p) =>
           \E seen \in Clusters :
             api'[p].status = StatusOf(Report(api'[p].spec, seen),
                                       api'[p].status.lastScanTime)]_vars

\* compatibilitypolicy_controller.go: each tool, and each name without one, is
\* listed once, however often and under whichever alias it is tracked; and no
\* name of the policy the report was made for is dropped.
EachToolOnce ==
    \A p \in Policies : api[p] # NoPolicy /\ api[p].status.mode = "focused" =>
      LET status == api[p].status
          listed == [i \in DOMAIN status.tools |-> status.tools[i].name]
      IN /\ IsInjective(listed) /\ IsInjective(status.untrackable)
         /\ \E spec \in Specs :
              LET tracked == Range(spec.tracked) IN
              /\ Range(listed) = {KnownNames[n] : n \in tracked \cap DOMAIN KnownNames}
              /\ Range(status.untrackable) = tracked \ DOMAIN KnownNames

\* When a report is stored, every upgrade in it that autoplan is to plan has
\* got its plan, now or earlier, made from this policy or another one: no
\* failed, refused or conflicting Create is passed over.
ReportedUpgradesPlanned ==
    [][\A p \in Policies :
         Written(p) =>
           LET tools == api'[p].status.tools IN
           \A i \in ToPlan(api'[p].spec, tools) :
              CanPlan(tools[i]) => UpgradeName(p, tools[i]) \in planned]_vars

\* Once users, the cluster and the faults rest, each policy's status is and
\* stays the report of its spec and of what is installed, also when it was read
\* from stale copies, its writes met conflicts, or two policies raced to create
\* one plan.
ReportsConverge ==
    <>[](\A p \in Policies : api[p] # NoPolicy =>
           api[p].status = StatusOf(Report(api[p].spec, cluster),
                                    api[p].status.lastScanTime))

\* ... and every upgrade that autoplan is to plan has its plan, also one that
\* was deleted.
PlansConverge ==
    <>[](\A p \in Policies : api[p] # NoPolicy =>
           LET tools == Report(api[p].spec, cluster).tools IN
           \A i \in ToPlan(api[p].spec, tools) :
              CanPlan(tools[i]) => UpgradeName(p, tools[i]) \in DOMAIN plans)

\* compatibilitypolicy_controller_test.go: the next scan comes after
\* scanInterval.  It comes earlier only after an error, a restart, or a change
\* of the spec.
ScansKeepInterval ==
    [][\A p \in Policies :
         worker.pc = "idle" /\ worker'.pc = "scan" /\ worker'.key = p => p \in asked]_vars

\* The names of the plans that a scan calls for: policy -> spec -> cluster.
Called == [p \in Policies |-> [spec \in Specs |-> [seen \in Clusters |->
    LET tools == Report(spec, seen).tools
    IN {UpgradeName(p, tools[i]) : i \in {j \in ToPlan(spec, tools) : CanPlan(tools[j])}}]]]

\* The statuses that a scan may write: spec -> cluster.
Scanned == [spec \in Specs |-> [seen \in Clusters |->
    {StatusOf(Report(spec, seen), time) : time \in 0..MaxClock}]]

\* What is stored, as PolicyPromise sees it.
AbstractSpecs == [p \in Policies |-> SpecOf(api[p])]
AbstractStatuses ==
    [p \in Policies |-> IF api[p] = NoPolicy THEN NewStatus ELSE api[p].status]

Promise == INSTANCE PolicyPromise WITH spec <- AbstractSpecs, status <- AbstractStatuses

\* The controller keeps the promise: for each plan it makes there is a spec that a
\* user gave the policy, which calls for the plan and approves it or not, and it
\* makes none in the place of another; for each report it stores, the policy has
\* at that moment a spec which gives that report, and whose upgrades were planned.
\* So it is although it works with specs from a cache, while users change and
\* delete policies and plans, and requests fail before or after they are taken.
ImplementsPromise == Promise!Spec

\* docs/HANDOFF.md: the operator always scans and writes a status report, also
\* when the API server refuses a plan.
ReportsAlwaysOn == ReportsConverge
=============================================================================
