# A TLA+ model of Kube-Viltrumite

Kube-Viltrumite is a Kubernetes operator. It scans a cluster for known
tools, recommends upgrades from a knowledge base of compatible versions, turns
recommendations into upgrade plans, and carries an approved plan out with Helm.
This directory models the parts of it in which order, failure and stale data
matter, checks them with TLC on small instances, and proves the central safety
properties, and that each of the two controllers implements its abstract
specification, with TLAPS for instances of every size.

Paths below are relative to the repository (`src/`); line numbers of every
definition are in `PROJECT.json`, under `map`.

## 1. The system

```
  users ---- CompatibilityPolicy --+                 +-- StackUpgrade ---- users
                                   v                 ^  (edit, approve, delete)
   knowledge base --> Matrix --> policy controller --+ creates
                        |          ^                 |
                        |          | finds           v
                        |       scanners        informer cache, work queue
                        |     (cluster, raw)         |
                        +----------> StackUpgrade controller --> HelmExecutor --> Helm releases
                                             ^
        UI --> HTTP server (approve) --------+ (through the API server)
```

Everything that is remembered is in the API server (the two custom resources)
and in Helm's storage (the releases). The operator keeps only what it can
rebuild: the informer cache, the work queue, and the reconcile under way.

| Component | State | Operations | Interacts with | Hard behaviour | Correct when |
|---|---|---|---|---|---|
| **StackUpgrade controller** (`internal/controller/stackupgrade_controller.go`) | none of its own; the plan's status holds phase, `currentStep` and conditions | `Reconcile` dispatches on the phase: `reconcilePending`, `reconcileApproved`, `reconcileUpgrading`, `reconcileFailed` | reads the cache, writes status with optimistic locking, calls the executor, asks the matrix whether a step resolves | stale reads, conflicts, lost answers, crashes in the middle of a step, plans edited, deleted or created again meanwhile | only an approved, frozen plan runs; no step is skipped, or repeated without cause; every plan ends or says what it waits for |
| **API types** (`api/v1alpha1/`) | the stored objects | create, edit, delete, status update; the CRD rule that an approved plan cannot change | both controllers, users, the server | the rule is the only thing between a check of the plan and its use | approved plans keep their steps |
| **Helm executor** (`internal/executor/helm.go`) | the Helm releases | `Upgrade`: look up the release, choose values and chart, run an atomic upgrade, report | the StackUpgrade controller, the Helm library | a kill in the middle leaves the release pending; errors of every kind are reported as one | what it reports is what happened |
| **HTTP server** (`internal/server/server.go`) | none | list, get, approve | the cache for reads, a merge patch for approval | the patch carries no version | approving changes only `spec.approved` |
| **CompatibilityPolicy controller** (`internal/controller/compatibilitypolicy_controller.go`) | the policy's status | `Reconcile`: scan, report per tool, autoplan, status write, requeue | scanners, matrix, API server | check then create of plans, failure in the middle, its own writes wake it | plans are created once, within `maxRisk`; the report describes the scan |
| **Planner: matrix** (`internal/planner/matrix.go`) | tools and names, immutable after `Load` | `Load`, `CanonicalName`, `IdentifyChart`, `AppVersionForChart`, `LatestSafeVersion`, `Resolve`, ... | both controllers, `main` | one broken file must not hide or invent errors of another; boundaries of version comparisons | names are unambiguous; recommendations are upgrades within tolerance and resolve to their own entry |
| **Cluster scanner** (`internal/scanner/cluster.go`) | none | `ScanAll`: Flux, Helm, Argo CD, merged | the API server, the policy controller | one source may fail; the same install is seen by several sources | an install is reported once, as what manages it |
| **Workload scanner** (`internal/scanner/workload.go`) | none | `ScanWorkloads` | the API server, the policy controller | order of workloads and rules | the first match with a version wins |
| **Operator process** (`cmd/operator/main.go`) | flags, the loaded matrix | start, stop, leader election | everything | a restart with another knowledge base or flag; two leaders at once while a lease changes hands | plans go on after a restart, and under the next leader |
| AI providers, UI, generated code, knowledge data | - | - | - | - | not modelled, see section 7 |

Two controllers and an HTTP server run in one process, each controller with one
worker (`SetupWithManager` sets no `MaxConcurrentReconciles`). They share the
manager's client, whose reads come from the informer cache, so that each of them
sees the past; their writes go to the API server and meet a `resourceVersion`
check, except for the approve patch, which carries none.

## 2. Modules

| Module | What it is |
|---|---|
| `StackUpgrade` | the StackUpgrade controller, with the executor, the approve handler, and the API server, informer, queue, users, Helm and restarts it works against |
| `PlanLifecycle` | the abstract specification: what is promised about a plan and its steps. `StackUpgrade` implements it |
| `StackUpgradeProofs` | the types of `StackUpgrade` and its inductive invariant, action by action: only approved, unchanged plans run; no step is counted that was not carried out, what was carried out is installed, every repetition of a step is paid for by a fault; it implements `PlanLifecycle`; and what an operator's step leaves true of another one |
| `MCStackUpgrade` | instances of `StackUpgrade` for TLC |
| `Handover`, `MCHandover` | two operators, each of them a `StackUpgrade`, and the lease that changes hands between them |
| `HandoverProofs` | the safety properties of `Handover` |
| `Matrix` | the queries of the compatibility matrix and the rules of its documents, as operators |
| `MatrixProofs` | what the queries of `Matrix` return for documents of any length |
| `MatrixLoad`, `MCMatrix` | `Load` as a state machine over the files; sets of knowledge bases |
| `LoadProofs` | what `Load` accepts, and what the queries return from it |
| `Knowledge` | one loaded knowledge base, with the queries of `Matrix` over it |
| `PolicyReport` | what one scan makes of a policy and of what is installed: the report, and the upgrades autoplan plans |
| `ReportProofs` | what a report lists, and what the upgrades in it are |
| `PolicyReconciler`, `MCPolicyReconciler` | the CompatibilityPolicy controller: scan, report, autoplan, status write, with the API server, the two informers, the queue, users, the cluster, the clock and restarts |
| `PolicyPromise` | the abstract specification: what is promised about a policy's reports and about the plans made for it. `PolicyReconciler` implements it |
| `PolicyReconcilerProofs` | the types of `PolicyReconciler`, each tool is listed once, a report fits the spec it is stored with, and its upgrades have their plans; it implements `PolicyPromise` |
| `Workloads` | how the workload scanner recognises tools and reads versions from images and labels |
| `Scan`, `MCScan` | one scan: the sources listed one after the other while the cluster changes, the merge of Flux with Helm, one record per tool |
| `ScanProofs` | what a scan reports: no tool is missed, none is invented, and its version is one that can be compared if there is one |
| `Operator`, `MCOperator` | both controllers together: scans make plans, plans change the cluster, the cluster is scanned |
| `OperatorProofs` | what may run was approved, and plans lower no version on their own |

```
 PlanLifecycle <-- implemented by -- StackUpgrade <-- instantiated twice -- Handover
       ^                                  ^                                   ^
       | instance                 StackUpgradeProofs <-- instantiated -- HandoverProofs
       |
   Operator <------ OperatorProofs
       | instance, per build   | instance, of the running build
       v                       v
 PolicyReport <---------- ReportProofs <-- PolicyReconcilerProofs --> PolicyReconciler
       |                     |      ^                                   |        | implements
       |                     |      | instance          PolicyReport <--+        v
       |                     |      +-- ScanProofs --> Scan --> Workloads   PolicyPromise
       v                     v             |                       |
   Knowledge <---------------|-------------|-----------------------+
       |                     v             v instance
       +-- instance --> Matrix <------ MatrixProofs <-- instance -- LoadProofs --> MatrixLoad
```

### StackUpgrade

State and code:

| Variable | In the system |
|---|---|
| `api`, `rev`, `watch` | the stored StackUpgrade objects, the last `resourceVersion` given out under each name, the watch events still to be delivered |
| `cache` | the informer's copy, which `r.Get` reads |
| `queue` | the plan's entry in the work queue: none, waiting (a `RequeueAfter` or a back-off), or due. controller-runtime keeps one entry per key, due at the earliest time asked for |
| `worker` | the reconcile under way: where it is (`pc`), the plan (`key`), the `plan` variable of the code (`copy`), the executor's answer (`result`) |
| `approving` | plans whose approve handler is between its `Get` and its `Patch` |
| `rel` | the Helm releases: version and status |
| `kb`, `dryRun` | what the running build's knowledge base resolves, and its `--dry-run` flag |
| `started`, `repeats`, `done` | history, read by properties only: the steps handed to the executor, how often one was handed over again, the steps carried out for the stored object |
| `faults`, `edits`, `creations` | how much of the bounds is used up |

A version of an object is reduced to `uid`, `rv`, `approved`, `tools` and a
status of `phase`, `step`, `total` and the reasons of the two conditions;
`rv` is the `resourceVersion` as a number, and `uid` is the `rv` the object was
created with. The `phase` decides which handler runs.

Actions are the stretches of the code between two moments at which another
process can matter:

* `Begin` is the start of `Reconcile` up to its dispatch: the read from the
  cache and the early returns for a missing or a final plan.
* `ReconcilePending`, `ReconcileApproved`, `FinishPlan`, `ReconcileFailed` and
  `RecordResult` are a handler that ends with one status write. `Conclude` is
  that write with each of its outcomes: taken; a conflict, since the copy is not
  the stored version any more; failed without being taken; taken and the answer
  lost. Each error returns to the queue, as `Reconcile` returns it.
* `StartStep` and `StartRefused` are the first half of `reconcileUpgrading`: the
  status write that precedes the step, and whether the step is then run.
* `PreflightFails`, `HelmRefuses`, `HelmDryRuns`, `HelmBegins`, `HelmSucceeds`
  and `HelmRollsBack` are `HelmExecutor.Upgrade` and Helm underneath. Helm is
  external: its outcomes are nondeterministic, constrained by the release's
  state. A release between `HelmBegins` and the end is `pending`, and Helm
  refuses to work on it.
* `CreatePlan`, `EditPlan`, `TouchPlan`, `DeletePlan` are users and other clients;
  `EditPlan` obeys the CRD's rule, `MayChange`. `ApproveGet`, `ApprovePatch`,
  `ApproveFails` are the approve handler.
* `Deliver`, `Relist`, `FallsDue` are the informer and the queue.
* `Restart` ends the process anywhere and starts one, perhaps another build;
  `Start` is the part of it that happens in the new process.

A status update that changes nothing is accepted without a new version, as the
API server does it; the watch then reports nothing, which is what brings the
controller to rest.

### PlanLifecycle

The state is, per name, the plan (`approved`, `tools`, `phase`, `step`) and the
set `done` of steps carried out. Its actions are the legal moves: `Hold`,
`Accept` (approved plans only), `Start`, `CarryOut` (the next step of an approved
plan, perhaps again), `Advance` (only over a step in `done`), `Succeed`, `Fail`,
`RollBack`. There are no caches, queues or conflicts in it. The refinement
mapping is `Abstract`, applied to `api` (`AbstractPlans`).

### Handover

The deployment runs one replica with leader election (`main.go`, `LeaderElection`).
During a rollout there are two pods, and the lease decides which one runs the
controllers. Both are instances of `StackUpgrade` with a cache, watch, queue and
worker of their own; objects and releases are shared, and what one writes both
watches report (`Told`). `lease` is who holds it, `leads` who believes it does:
`Acquire` starts the controllers, which begin with every plan the informer
knows, `Lapse` is a lease that runs out while its holder is paused, `Notice` is the
holder finding out (controller-runtime's manager returns an error, `main` exits,
the pod starts again), `Crash` and `Expire` are a holder that dies. Between `Lapse`
and `Notice` two operators reconcile.

Nothing that is written or asked of Helm carries the lease, so some of what holds
of one operator does not hold of two that overlap, and is not claimed:

* A release may have been changed by the other operator when a step is recorded
  (`StepsInstalled`), and a step may be carried out after the other operator has
  moved its plan on (`CarryOut` of the lifecycle, and the part of
  `RunsApprovedPlan` that says the object is as the worker read it). Writing the same
  `StepStarted` condition once more changes nothing, so it does not conflict, and
  both go on to Helm.
* Helm refuses the second of two upgrades under way; the executor reports that as
  rolled back, although nothing was.
* Two operators with different knowledge bases rewrite the `Pending` status of a
  plan in turn until one of them notices. `Handover` gives both the same one.

What does hold is in section 3.

### Matrix and MatrixLoad

`ReadFile` is one turn of `Load`'s loop: `validateTool` and `Add`, which
registers a document even when it is not valid. `Finish` is `checkReferences` and
the verdict. The queries of the loaded matrix are operators with the names of the
methods. A version is a tuple of four numbers, the last one 0 for a pre-release;
`BadVersion` is one that does not parse. What no query reads is one Boolean,
`rest`.

### PolicyReport and PolicyReconciler

`Report` is steps 1 to 3 of `Reconcile`, `WantsPlan` and `CanPlan` what step 4 asks of
an entry before it makes a plan.

| Variable | In the system |
|---|---|
| `api`, `rev`, `watch`, `cache`, `queue` | CompatibilityPolicy objects, as in `StackUpgrade` |
| `worker` | the reconcile under way: `pc`, the policy (`key`), the `policy` variable (`copy`), the status under construction (`report`), the entries of it the autoplan loop has still to visit (`todo`, a set of indices that are taken in order) |
| `plans`, `planWatch`, `planCache` | the StackUpgrade objects there are, and the informer of them that autoplan's `Get` reads |
| `cluster` | what a scan in which nothing fails would find |
| `clock` | `metav1.Now()`, which a status holds in seconds |
| `asked`, `planned`, `gates` | history: policies with a reason to scan other than the controller's own write; the plans ever created; per policy, every spec users gave it |

* `Begin` is the read of the policy; `Scan` is steps 1 to 3 of `Reconcile`: the
  list of tools, the scan, `Report`. A scan sees `cluster`, or, as a fault,
  another one, which stands for a source that failed.
* `SkipUpgrade`, `CreateUpgrade`, `CreateFails` are one turn of the autoplan loop
  each. The turns that only `continue` on the contents of the report are not
  steps: `todo` is without them.
* `Persist` and `PersistFails` are the status write: taken; a conflict; failed,
  taken by the server or not.
* `WritePolicy`, `DeletePolicy`, `DeletePlan` are users, `ChangeCluster` is everyone
  who installs something, `Tick` is the clock. `Deliver`, `DeliverPlan`,
  `FallsDue`, `Restart` are informers, queue and process.
* `Rejected` is a set of plans the API server never admits.

The name of a plan is the constant `PlanName`, applied to the tool and the
version; the instances give each pair its own name (section 7). The knowledge base
is the same before and after a restart; in `Operator` it is not.

### PolicyPromise

The state is, per name, the `spec` of the policy there is, its `status`, which holds the
report, and the `gates`, every spec users ever gave a policy of that name; and the `plans` there
are, each approved or not, with the names of all that were ever `planned`. Users `Write`
and `Delete`; `MakePlan` makes a plan that some spec in `gates` calls for, under a free name,
approved as that spec says; `Post` replaces the status by the report for the spec there is,
once all that this report calls for was planned. There is no cache, no queue, no scan that takes
time, no conflict and no restart in it. What a scan may write (`Scanned`) and which plans it
calls for (`Called`) are constants, which `PolicyReconciler` gives their values. The
refinement mapping is `AbstractSpecs` and `AbstractStatuses`, of `api`.

### Workloads

A text is a sequence of tokens: separators, numbers, and words that contain
neither. On these `splitImage`, `CleanVersion` and `parseVersion` do what the code's
string and regular expression work does: a digest is dropped, a colon starts the
tag only after the last slash, the longest version at the start of a tag is its
version. `matchesWorkload`, `extractVersion` and `VersionFromImages` are the
functions of those names.

### Scan

The state is a cursor (`pc`, `at`), what each source was found to hold (`finds`, of
which `flux`, `helm`, `argo` and `raw` are the parts), and the result
(`installed`, `unknown`). `ListFlux`, `ListHelm` (one namespace), `ListArgo` and
`ListRaw` (one namespace) read the cluster as it is at that moment, or fail;
`resolveInstalled` is `ScanAll`'s merge and the function of that name.
`ChangeCluster` changes one source between any two of them. `answered`, `listed` and
`before` are history: which sources answered, the namespaces whose Helm releases could be
listed, and every state the cluster was in.
What the API server may list is a constant per source (`FluxLists`, ...), since
the objects are made by others. A find has the fields of `InstalledTool` that
decide something; `words` is the evidence among a chart's origins, and `images`
an Application's images, which the rules of `Workloads` read. The workloads of a
namespace are a set and are taken in any order; `applyDetections` keeps, per tool,
the first one with a version.

### Operator

`Operator` closes the loop: a scan makes plans, a plan run changes what is
installed, and the next scan sees that. It is composed of the two abstractions
the detailed modules support: a plan moves as in `PlanLifecycle`, which
`StackUpgrade` implements, and a scan asks for what `PolicyReport` computes, per build.

| Variable | In the system |
|---|---|
| `policy`, `cached` | the spec the API server stores, and the informer's copy |
| `scan` | the reconcile of the policy under way: the spec it read, and the upgrades it has still to plan |
| `plan`, `done` | per name (a tool and a version) the plan, and its steps carried out |
| `cluster` | the tools that are installed, with version and source |
| `build` | the running operator: its knowledge base and its `--dry-run` flag |
| `asked`, `gates` | history: the plans a user approved; every policy that was in force, with the build it was in force for |

`BeginScan`, `SkipUpgrade`, `CreateUpgrade` and `ScanFails` are the policy
controller, `Advance`, `RunStep` and `StepFails` the StackUpgrade controller and Helm.
Users write the policy, approve and delete plans; `FluxReverts` is Flux undoing an
upgrade of a release it manages; `ChangeCluster` is anybody else; `Restart` may start
another build. Helm installs the plan's target over whatever version is there by
then: no code compares the plan's `currentVersion` with it. A plan's pre-flight is
only whether there is a chart and a release. Wake-ups, conflicts and lost answers
are left to the detailed modules: here a scan may begin at any time and end early.

## 3. Properties and runs

| Run | Question | Properties |
|---|---|---|
| `upgrade_safety` | one name and two of its incarnations; a crash, failed write or foreign write, and an edit, at any point | `TypeOK`, `IInv`, `RunsApprovedPlan`, `StepsCarriedOut`, `RepeatsBounded`, `StepsInstalled` |
| `upgrade_lifecycle` | two faults and an edit, dry run switched at restarts, releases installed or not: does the controller implement the lifecycle, do plans settle, does it come to rest? | `ImplementsLifecycle`, `PlansSettle`, `ComesToRest` |
| `handover` | two operators, one of which loses its lease or dies in the middle of a plan of two steps | `RunsApprovedSteps`, `StepsCarriedOut`, `RepeatsBounded`, `NeverBack`, `PlansSettle` |
| `failed_is_final`, `rolled_back_is_true` | two statements of the repository that the code does not keep | section 6 |
| `matrix` | knowledge bases of one and two documents that differ in names; documents of up to three entries; all queries | `LoadAcceptsWellFormed`, `NamesAreUnambiguous`, `ChartsHaveEvidence`, `RecommendationIsSafe`, `RecommendedResolves`, `ResolveIsLatestOnLine`, `ChartsIdentifyVersions` |
| `policy_safety` | one policy, written, changed, deleted and created again; a fault and a change of the cluster at any point | `TypeOK`, `EachToolOnce`, `ReportedUpgradesPlanned`, `ImplementsPromise` |
| `policy_liveness` | two policies of one namespace that may create the same plans: do reports and plans become what the cluster calls for? | `ReportsConverge`, `PlansConverge` |
| `scan` | two namespaces, every combination of what the sources list, failures and one change; image references taken apart | `TypeOK`, `NothingMissed`, `NothingInvented`, `ComparableVersionKept`, `DeployedVersionRead`, `FluxReleasesOnce`, `ImagesReadBack`, `DetectedVersionKept` |
| `operator` | both controllers around one tool, with users, Flux, and restarts with another knowledge base or flag: what may run, what may be downgraded, does it end? | `TypeOK`, `TwoGates`, `DowngradeNeedsDisturbance`, `ClosedGatesClose`, `UpgradesEnd` |
| `scan_interval`, `reports_always_on` | two statements of the repository that the code does not keep | section 6 |

Of `StackUpgrade`:

* `RunsApprovedPlan`: what the executor is given is approved, and while that
  object exists it stays the one the worker read. The controller checks
  `spec.approved` once, from a stale copy, several reconciles before the step
  runs; it is the CRD's rule and the locked write before the step that carry the
  check over. The mutant drops the rule.
* `StepsCarriedOut`: `currentStep` never gets ahead of Helm, and a plan that is
  `Succeeded` had every step carried out for that very object (not for an earlier
  one of the same name). The mutant ignores `result.Success`.
* `RepeatsBounded`: every repetition of a step is paid for by a crash, a failed
  write or a foreign write. So the lag of the cache alone never repeats a step,
  though after each write the controller reads a copy that is behind: the write
  of `StepStarted` conflicts. The mutant runs the step without the write before
  it.
* `StepsInstalled`: at the moment a step is recorded as complete, its release is
  deployed at the step's version. With several plans on one release this holds
  because one worker runs a step and records it without another step between.
* `PlansSettle`, `ComesToRest`: no approval, correction or requeue gets lost, and
  the controller's own writes stop waking it.

Of `Handover`, where two operators may reconcile one plan at once:

* `RunsApprovedSteps` is what is left of `RunsApprovedPlan` when the step in hand may
  be one the other operator has already recorded: the steps are those a user approved,
  and the stored plan still has them and its approval. It rests on the rule of the
  custom resource that an approved plan may not be changed; the mutant drops it.
* `StepsCarriedOut` and `NeverBack` hold because every status write is locked: of
  two operators that write from one version one meets a conflict, and a phase or a
  step that was left is not returned to. The mutant patches the status without a
  `resourceVersion`.
* `RepeatsBounded`: as long as the two never overlapped, a repetition is paid for by a
  fault or a lost lease, as it is with one operator. If they did, a foreign write may
  cost one in each of them, and the other one may run every step of every plan once
  more: writing `StepStarted` again changes nothing, so that does not conflict. A plan
  that is deleted and created again brings its steps again (`MaxSteps * creations`).
  But the two do not drive one another on to repeat a step for ever.
* `PlansSettle`: a plan left half done is taken up by the next leader, whose
  controllers start with every plan listed. In the mutant a step that was started is
  left to whoever started it.

Of `Matrix`:

* `LoadAcceptsWellFormed` compares the verdict of the file-by-file loading with
  `WellFormed`, a definition without an order. `RecommendedResolves` ties the two
  queries a plan depends on together: what `LatestSafeVersion` recommends,
  `Resolve` resolves to the same entry.

Of `PolicyReconciler`:

* `ReportedUpgradesPlanned`: the status is written only after every turn of the
  autoplan loop went through, so a stored report vouches for its plans: they exist
  or existed. The mutant logs a failing `Create` and goes on, as the code does with
  a failing `planStep`.
* `ImplementsPromise`: the status is written from a copy read before a scan that may
  take minutes; the policy may have got another spec, or be another object of the
  same name, by then. The locked write rejects the report (one mutant writes it to
  whatever is stored); what remains of this when nothing but the status is looked at is
  `ReportFitsSpec`, which is proved as a theorem of its own. And whatever is stale when a
  scan runs, each plan it makes is called for
  and approved or not by *one* spec a user gave that policy: it never takes the
  upgrade of one spec with the approval of another. No plan is overwritten, though the
  look-up that should prevent it reads a cache: a plan that waits for a user's approval
  does not become approved because a later scan works with another spec. Another mutant
  updates a plan that is there.
* `ReportsConverge`, `PlansConverge`: a scan that met a conflict, a stale cache, a
  plan another policy had just created, a failed request or a crash is made good
  by a later one; a plan that was deleted is created again. Both are checked with a
  server that admits every plan; with one that does not, see `reports_always_on`.

Of `Scan` and `Workloads`:

* `NothingMissed`, `NothingInvented`: the finds of a scan are read at different
  moments and from sources that report the same install, and are merged by
  namespace and release name. What was there all the time in a source that
  answered is in the result, from that source or one that outranks it; what is in
  the result was there, with that source, and with a version some source gave for
  that very release. `NothingMissed` assumes that a HelmRelease and the Helm
  release in its place are of one chart, whenever during the scan each of the two is
  listed, as they are once Flux has reconciled; until then the HelmRelease hides the
  release (hazards, `cluster.go:167`). To assume it of each state of the cluster by
  itself is not enough: the HelmRelease may be of one and the release of another.
* `ComparableVersionKept`, `DetectedVersionKept`: of several installs of a tool by
  equally ranked sources, and of several raw workloads, one with a version that can
  be compared is reported, in whatever order they are found: an available upgrade is
  not hidden behind a record without a version, or one whose tag is `latest`.
* `ImagesReadBack`: an image reference is put together from path parts, a registry
  with a port, a release, a distribution's suffix and a digest (`IsReference` says how
  they may be put together), and must be read back as these. A definition that writes
  stands against one that reads.
* `FluxReleasesOnce` is stated for lists of namespaces without repetitions. In a list
  with one, which the run has too (nothing forbids it), Helm releases are found twice and
  `mergeFluxManagedReleases` takes out the last copy only; the report does not show
  the other, since fluxcd outranks helm.

Of `Operator`:

* `TwoGates`: an upgrade is carried out only if a user approved that very plan, or
  if a policy that was in force at some time had both `autoplan.enabled` and
  `autoApprove` set, tracked the tool and allowed the risk. The policy is read from a
  cache before a scan, and the plan it makes runs much later, perhaps under another
  policy and another build. `Opened` says what a gate is without the code's lists and
  loops.
* `DowngradeNeedsDisturbance`: a plan may wait for its approval while the tool
  moves past its target, and nothing compares the two when it runs. A tool is
  lowered all the same only if somebody else changed what is installed, or the
  tolerance or the knowledge base changed, or if Flux manages the tool and declares
  a version above that of the plan: it may have put that version there since. The
  last case is not in any document of the repository; TLC found it. The reason is that a recommendation
  depends on the tolerance but not on `maxRisk`, so that undisturbed all plans of a
  tool have one target; the mutant looks for the best version within `maxRisk`
  instead, and a step made under the lower one runs after one made under the higher.
* `ClosedGatesClose`: a gate that is closed during a scan stays open for what that
  scan still creates; once the policy rests, only scans of the stored policy make
  plans.
* `UpgradesEnd`: scans and plans come to an end, and an upgrade that is still
  reported then has a plan that waits for a user, has failed, or succeeded and was
  undone, by one of four things: a dry run, Flux, somebody else, or another plan made
  under another tolerance or knowledge base. The name of such a plan is taken, so
  that autoplan does not make the upgrade again: the report goes on showing it.

### Bounds

`MaxFaults`, `MaxEdits` and `MaxCreations` bound what the environment does; the
operator itself is not bounded, apart from the length of the plans. `rev` grows
only with writes, of which a plan has finitely many between two faults or edits.
The runs have one plan name: nothing but the worker and the releases is shared
between names, and for any number of names the safety properties are proved
(section 4). Two creations are needed to meet a plan that takes over a name; one
edit to change a plan between its check and its start; one fault for a crash, a
lost answer or a foreign write; two faults to combine them. Two steps are enough
for "the next step", and the lists `<<A>>` and `<<B, A>>` differ in length and in
their first step, so that an edit changes both. All of the `upgrade_*` runs stop
when the bounds are used up and every plan has settled, so deadlock is not checked
there; `PlansSettle` says instead that the end is a good one. A loaded matrix and a
finished scan have no next state. The policy runs stop when no policy is left.

`handover` has one plan of two steps, one edit (its approval or its deletion) and
one loss: a lease that lapses or a crash, at any point. One is enough for two
operators to overlap, to be at the same step or one step apart, and for the one
that was overtaken to come back as the one that waits. Failed writes are not in
this run, conflicts are.

`MCMatrix` takes four versions, which include two patches of a minor line, a
pre-release and its release, and lists of up to three entries (in every order,
valid or not); two documents are enough for a name to be declared twice, in one
and in two of them, in either order of the files.

In `policy_safety` three edits are enough to delete a policy and create it again
under a scan, with one more change; one change of the cluster is enough to make
any read of it stale. In `policy_liveness` two edits make two policies, or one and
the deletion of its plan; the cluster rests, and one fault makes a scan see
another one. `MaxClock` bounds the seconds: two different ones are enough for a
status write that is a change and one that is not; `policy_safety` takes place
within one, since what it checks compares no times. Two tools are enough for a loop
with a turn after the failing one; they differ in what matters: one has an alias, a
chart and a risky version, the other is installed raw or lacks a chart for its
newest version. The three clusters have versions that are known, unknown and not
recognised, and every source.

`MCScan` takes two releases, two namespaces and Flux's own. A policy watches one of them,
one twice, two or none. The lists
are few but chosen so that each meets each: a HelmRelease with a failed newer
attempt, one without a chart, one with a chart known by an alias only; a Helm
release of the same name in another namespace, an unknown chart, a version missing
or not recognised; Applications of one and two sources, with and without a known
image; workloads recognised by name, by image, and by two images at once, with and
without a version. One change is enough to come between any two sources. The
about 120 image references are all combinations of repositories with and without a
registry and a port, releases of one to three numbers with a "v" or a pre-release,
suffixes, and digests.

`operator` has one tool of four versions: the oldest is in no knowledge base, the
newest is risky and in the newer of two knowledge bases, and between it and the one
that both have is the one Flux declares, so that Flux may take a release above one plan
and below another. There are three builds (one of them a dry run), and four policies that
differ in tolerance, `maxRisk` and both gates. Tools do not interact: their plans have
different names and releases. One fault and two edits let a restart with
another build come between a policy, a change of it and a plan deleted or a cluster
changed.

### Fairness

`FairSpec` of `StackUpgrade` assumes that watch events arrive and requeued plans
fall due (weak fairness per plan), that a reconcile which has begun goes on and
ends (weak fairness of `Reconcile` and of `Helm`: the code has no loop or lock to
wait in, and Helm's wait ends after five minutes, `helm.go`), and that the queue
serves every plan (strong fairness of `Begin` per plan, since a plan waits while the
worker has another one: the queue is first in, first out). Nothing is assumed of
users, of the approve handler, of faults and of `Relist`. The informer's resync
every ten hours is left out, so no liveness property leans on it.

`Handover` assumes the same of each operator, and that a lease nobody holds is taken
by one of them, that the lease of one that died expires, and that an operator
which lost its lease finds out: client-go's elector retries until then and the
manager stops when it gives up.

`FairSpec` of `PolicyReconciler` assumes the same of its informers, queue and
reconcile (a scan is a number of list requests, each of which ends), and nothing
of the clock: the reports converge also if all of it happens within a second, in
which case a write may change nothing and the requeue alone brings the next scan.
`Scan` has no liveness property: each of its steps moves the cursor.

`Operator` assumes that the policy's events arrive (`Deliver`), that scans begin
(`BeginScan`: every status write of a scan asks for the next one after
`scanInterval`, and errors back off) and go on (`Turn`), and that the StackUpgrade
controller goes on with each plan (`Controller(n)`: `PlansSettle` of the detailed
model). Nothing is assumed of users, Flux and faults.

## 4. Proofs

All theorems hold for any sets of plans, tools, versions, releases, policies and
knowledge bases, any lists of steps, files, entries and tracked names, and any bounds
(`HandoverRepeats` for plans of at most `MaxSteps` steps, whatever number that is).
They use the named assumptions of the modules on their constants, all of which TLC
evaluates. Apart from types these say that `NoPlan` is not a plan, that `NoPolicy` is
neither a spec nor a stored policy, and that a missing
name or version is not one of the names and versions; that the knowledge base of a
running operator is one `Load` accepts (`main` exits otherwise); of `Clusters` that
whatever version of a tool is installed, another one may be; and of what a scan may be
given that every list is finite, that Helm lists a release of a namespace once (its last
revision), that `Versions` has every version that is read from an image, and that an image
reference is one by its grammar: no part is empty, only the first of several has a port, and
what is added to a release begins with a dash and is no further pre-release.

| Theorem | States |
|---|---|
| `StackUpgradeProofs!Invariance`, `TypeCorrect`, `Safety` | `Spec => []IInv`, `[]TypeOK`, `[]RunsApprovedPlan` |
| `StackUpgradeProofs!Progress`, `Installed` | `Spec => []StepsCarriedOut`, `Spec => StepsInstalled` |
| `StackUpgradeProofs!NoFreeRepeats` | `Spec => []RepeatsBounded` |
| `StackUpgradeProofs!Refinement` | `Spec => ImplementsLifecycle` |
| `HandoverProofs!HandoverSafety`, `HandoverProgress`, `HandoverForward` | for two operators: `Spec => []RunsApprovedSteps`, `Spec => []StepsCarriedOut`, `Spec => NeverBack` |
| `HandoverProofs!HandoverRepeats` | for two operators: `Spec => []RepeatsBounded` |
| `LoadProofs!LoadAccepts`, `LoadNames` | `Spec => []LoadAcceptsWellFormed`, `[]NamesAreUnambiguous` |
| `LoadProofs!LoadRecommends`, `LoadResolves`, `LoadResolvesLatest`, `LoadCharts`, `LoadEvidence` | `Spec => []RecommendationIsSafe`, `[]RecommendedResolves`, `[]ResolveIsLatestOnLine`, `[]ChartsIdentifyVersions`, `[]ChartsHaveEvidence` |
| `PolicyReconcilerProofs!TypeCorrect`, `ToolsListedOnce` | `Spec => []TypeOK`, `[]EachToolOnce` |
| `PolicyReconcilerProofs!ReportsFit`, `UpgradesPlanned` | `Spec => ReportFitsSpec`, `Spec => ReportedUpgradesPlanned` |
| `PolicyReconcilerProofs!Refinement` | `Spec => ImplementsPromise` |
| `ScanProofs!TypeCorrect`, `MissesNothing`, `InventsNothing` | `Spec => []TypeOK`, `[]NothingMissed`, `[]NothingInvented` |
| `ScanProofs!KeepsComparableVersions`, `KeepsDetectedVersions` | `Spec => []ComparableVersionKept`, `[]DetectedVersionKept` |
| `ScanProofs!ReadsDeployedVersions`, `ReportsFluxReleasesOnce` | `Spec => []DeployedVersionRead`, `[]FluxReleasesOnce` |
| `ScanProofs!ReadsImagesBack` | `Spec => []ImagesReadBack` |
| `OperatorProofs!OperatorTypes`, `OperatorGates`, `OperatorOrder` | `Spec => []TypeOK`, `[]TwoGates`, `Spec => DowngradeNeedsDisturbance` |

**Only approved plans run.** Neither `TypeOK` nor `RunsApprovedPlan` is inductive.
To know that the step the executor is given is one of the plan's (`HelmSucceeds`
installs its version) one has to know that the copy does not change; and to know
that the copy is still the stored plan one has to know what an *old* copy says
about the *stored* version. That is `CopyOf(p, v)`: if `v` has the stored
`resourceVersion` it is the stored version; if it is an approved version of the
stored object, the stored version is approved and has the same steps; and it is
approved if its phase is past Pending. `IInv` says this of every copy there is: the
stored one, those in the watch, in the cache and in the worker. `RunningInv` adds that
from the write before a step to the write after it the worker's copy is Upgrading at
that step, and `LockedInv` that the stored status is then the copy's. All but
`LockedInv` is `SideInv`: it does not need the controller to be alone.
A write that is `Legal` (what the API server admits) keeps every copy a copy
(`StoreCopies`); users and the approve handler make legal writes that leave the
status alone (`UserWrites`); the controller's are legal since they are taken only
from the stored version and lead out of Pending only when that is approved
(`PutCopies`); everything else moves copies (`InformerInv`, `StartInv`). The step
that matters is `StartStepInv`.

**Steps.** `SInv == IInv /\ StepsCarriedOut /\ DoneInv /\ DeployedInv`. The last two
are about the moment between Helm's answer and the write of it: the step is in `done` if
the stored object is still the worker's, and its release is as Helm left it. A status write
changes the stored plan only if that is the worker's copy (`PutEffect`), so the one
write that raises `currentStep` is made of a result that still holds.

**Repeats.** A started step that no worker is at any longer is *open*: a worker may
start it again. `CreditInv` counts the open plans: repeats and open plans
together are no more than the faults. Each action keeps the account (`Balanced`): it
opens nothing, or opens one plan at the price of a fault, or closes one by
repeating its step. `StartedInv` is needed beside it: the steps started are at
most the next one, so that advancing leaves no open step behind.

**Refinement.** `RInv` adds `OrderlyInv` to `SInv`: a plan that has not begun is at
step 0, and a failed one has a step left. Without it two moves of the lifecycle
would not be simulated: the code sets `currentStep` to 0 where the lifecycle
leaves it alone, and rolls a failed plan back without looking at its steps. Every
status write is one of `Moves`; Helm's success is `CarryOut` of the stored plan,
by `RunsApprovedPlan`'s argument; all else is a user's action or a stutter.

**Two operators.** What holds of one operator beside another is `CarriedInv`: `SideInv`,
`StepsCarriedOut` and `DoneInv`, which say nothing of a status that the other may
write or a release it may change. `HInv` of `HandoverProofs` has it of both. A step
of an operator, or of the users, keeps its own `CarriedInv` and does to the stored
plans no more than `Evolves` allows (`OwnStep`): an object keeps its uid, its status
stays or advances, and nothing is taken out of `done`. Such a step leaves the
`CarriedInv` of the other operator true, with the watch told or not (`Bystander`). The
lease moves no plan: a start empties the worker, and a loss leaves everything as it
is. So the proof has no case for which of them holds it. `NeverBack` follows from
`Evolves`. Beside `CarriedInv` one needs `FreshInv`, that a plan which has not begun is
at step 0: only then does the write that begins it not lower `currentStep`.

**Repeats of two operators.** `AccountInv` of `HandoverProofs` keeps an account for each
operator: the plans under way whose step is not in *its* worker's hands. `StepBalance`
says what a step does to the operator's own account, and to the plans, so to the
account of the other one (`Shifts`): a step started for the first time is open to the
other operator at once, and so is a plan that a fault changed under both. `JointInv`
pays for the first with the steps nobody has started yet (`Unstarted`, at most `MaxSteps`
for each plan created), and counts faults twice. A lost lease is a credit in advance:
it is due (`Due`) until its holder notices and starts again, which leaves the step it was
at open. `LoneInv` says more as long as the two have not overlapped: the account of the one
that leads alone is covered by the faults and losses, for an operator that does not
lead has an idle worker (`ElectionInv`), and starts nothing. When nobody leads both
workers are idle and both accounts are the same, so the one that takes the lease takes
a covered account over. An earlier form of the property, with the losses times the steps
of a plan for the last two terms, was refuted by TLC with two plans of one name after
one loss.

**Reports.** `RInv` of `PolicyReconcilerProofs` says of the worker that its report is
that of some scan for the spec in its copy (`WorkerInv`), and of the loop that an entry
it has left has got its plan (`LoopInv`), where a plan the informer knows is one that
was created (`PlansInv`). The write is taken only from the stored version, so what
it stores is the copy's spec with its report.

**The policy controller's promise.** For the refinement one has to know two things more of a
copy, wherever it is (`Seen`, in `GatesInv`): its spec is one that users gave the policy, so
that a plan made from it is made at a gate; and it has a number no other version of the
policy has, so that if it has the stored version's, it *is* the stored version. So a status
write that is taken leaves the spec alone, and is a `Post`. Every write gives out a new
number (`SeenKept`), and the server, the watch, the cache and the worker pass copies on
(`GatesKept`). A `Create` that is taken, with its answer lost or not, is a `MakePlan`; the
rest is users or a stutter.

**Loops.** The loops of the code (`Best`, `Once`) are recursive functions over the
positions of a list. The library's induction rules take an operator, which the provers
cannot instantiate, so `MatrixProofs` begins with induction over a *set* of positions:
a set of numbers has a least element (`Least`, from the library's fact that finite sets
are well-founded under inclusion); so a set that has 0 and, with each position, the next
one has them all (`UpTo`); so a loop has a result, and only one (`Loop`). `BestIsHighest`
is then the invariant of the loop in `LatestSafeVersion` and `Resolve`: after `i` entries
it holds the highest candidate among them. `AscendingOverGaps` shows that comparing each
version with the last one before it, as `validateTool` does, puts *all* of them in
ascending order, also the chart versions, which may be missing in between: the last
one before is the greatest element of a set of positions. So versions and charts are
injective, and an entry's version resolves to that entry.

**Loading.** `NamesAreUnambiguous` is not inductive: that the names of a registered
document lead to it needs to be known of documents under their own name, and what `Load`
accepts is known only if one knows what it has seen. `LoadInv` says that an error was
found exactly if the files read so far are not `Consistent` (valid, and no name declared
twice in or between them), and that as long as none was found the matrix has exactly the
names and documents read (`Registered`). A file that is not `Addable` then repeats a name
of an earlier file, or of itself, and the other way round.

**What a report lists.** `ReportProofs` takes the queries from `MatrixProofs`, for the
tools and names of a knowledge base, and shows what `Once` lists (`OnceLists`: each wanted
value, once) and what a status is (`StatusOfTool`), so that `IsReport` holds of every
report, each tool is listed once, and an upgrade that autoplan wants is of an installed
tool the policy tracks, above what is installed, to the highest version the tolerance
allows in the whole knowledge base, within `maxRisk` (`WantedUpgrade`). The types of the
policy controller and `EachToolOnce` follow, with the invariant that every stored,
cached or watched status holds a report of some spec and some cluster, or none.

**Two gates and the order of plans.** `OInv` of `OperatorProofs` has four parts.
`PolicyInv`: the stored policy and the informer's copy of it are in `gates`, with the
running build. `ScanInv`: so is the spec of a scan, and every upgrade it has still to plan
is one that gate calls for (`Due`), and opens if it approves plans. `PlanInv`: every plan
was called for by some gate, and one that is approved, or was carried out, was approved
by a user or opened by a gate. `OrderInv`: while nobody interferes and no two gates
disagree, a tool with a plan, or one a scan is about to plan, is installed at a version
that is not above the plan's, unless it is the one Flux declares. The last part is
inductive because all plans of a tool then have the same target (`OneTarget`): it is the
highest version in the knowledge base within the tolerance, which does not depend on what
was installed when the scan ran. So Helm never takes a tool above another plan of it.

**Scans.** A scan has no single state of the cluster to be right about. `IInv` of
`ScanProofs` says of each source that its finds are those of *some* cluster in `before`:
of one for Flux, of one for Argo CD, and of one per namespace for Helm and for raw
workloads; a Helm release is found once if no namespace is listed twice. When the scan is done, `DoneInv` says that the result is what `resolveInstalled` makes of them. What is left
is to follow a find through the loops. A loop that keeps the better of two ends with the
first of the best, for any relation that orders the candidates (`FirstBestExists`):
snapshots in `latestDeployedSnapshot`, finds in `resolveInstalled` (`RecordsKept`). A loop
that appends is a concatenation, of which each element is at one place (`FlattenPlaces`).
For `NothingMissed` a find is followed by its source (`AllFinds`, `FindsBySource`). A Flux
find is completed from the Helm release in its place, which only adds evidence of what
its chart is, so it stays the tool it was (`CompletedTool`). A Helm find is either
kept, or dropped for a Flux find of its place, which by `Reconciled` is then the same tool
from a source that ranks higher (`ManagedCompletes`). For `NothingInvented` the
version of a completed find is that of one of the two, at the same place.

**Image references.** `ReadBack` is about constants, so no invariant is needed, but texts
of any length. With a "/" before it, a repository is its parts with a "/" before each
(`RepositoryJoined`, by steps of `FlattenSeq`: `FlattenSteps`). Two such texts end in each
other exactly if their last parts are equal and what is before them ends in each other
(`JoinedEnds`: no part has a "/"), so repositories end in each other part by part
(`EndsOfJoined`, by `UpTo`), and the "/" that `imageMatches` asks for makes the ends whole
parts (`WholeSuffix`). `SplitText` finds the first "@" and the last ":" of a reference
where they were written: every colon of a repository is in front of a "/". In a version,
only the name of a pre-release may follow a dash (`VersionDashes`), so no version at the
start of a tag goes beyond the release it was written from (`ReleaseRead`).

Only model-checked: liveness and fairness, which are out of the prover's reach.

## 5. Plan

Done: the StackUpgrade controller with everything it works against, alone and
between two leaders; its abstract specification; the matrix; the policy controller and
its abstract specification; the scan with the recognition of raw workloads; both controllers together. Proved:
all safety properties of `StackUpgrade` and of the policy controller and their two
refinements, and all safety properties of `Handover`, of `MatrixLoad`, of the scan and of
both controllers together.

What is left, in this order:

1. Plan names as `sanitizeName` makes them, with a knowledge base that changes at a
   restart of `PolicyReconciler`: two versions whose names become equal.
2. Two operators with different knowledge bases in `Handover`.

## 6. Findings

* `failed_is_final`: `docs/HANDOFF.md:25` calls Failed one of the final phases.
  `reconcileFailed` moves a failed plan on to RolledBack, with nothing rolled
  back, so every plan whose pre-flight fails is reported as RolledBack.
* `rolled_back_is_true`: `helm.go:117` takes every error of Helm's `Run` to mean
  that Helm has rolled back. If the operator is killed while Helm upgrades, the
  release stays pending; after the restart Helm refuses the same step, and the
  plan ends as RolledBack with the release still pending.
* `scan_interval`: `compatibilitypolicy_controller_test.go:958` says that the next
  scan comes after `scanInterval`. Every status write has a new `lastScanTime`, the
  controller watches policies without a predicate, so its own write queues the next
  scan. It comes at once, and again, as long as each scan ends in another second
  than the one before.
* `reports_always_on`: `docs/HANDOFF.md:34` says that the operator always scans and
  writes a report. A plan that cannot be created ends the reconcile before the
  status write (`compatibilitypolicy_controller.go:185`); while a quota or an
  admission policy refuses it, the policy has no report of any tool.

## 7. What is not modelled

* Timestamps, messages, `failureReason`, events and logs: nothing reads them.
* The contents of charts and values; Helm's own storage beyond a release's
  version and status. `GetCurrentValues` and `RollbackToVersion` have no caller.
* Parsing of YAML, of URLs, and of chart names from paths, which the unit tests of
  the repository cover; words of an image reference that run into a number.
* The characters of plan names: `PlanName` is a constant. `sanitizeName` maps
  several texts to one (`1.0.0+a` and `1.0.0-a`, `RC` and `rc`), in which case the
  second upgrade finds the plan of the first and is passed over; and it leaves a `.`
  next to a `-` as it is, which is no valid DNS subdomain name though its comment
  promises one. Whether that happens depends on the versions a knowledge base has.
* AI providers: `main` builds one and discards it; nothing calls it.
* In `PolicyReconciler` the namespaces of a policy, `unknownInstalled` and where a
  plan says its tool is installed: `Scan` has these, and nothing in the loop
  depends on them. A reconciler without a scanner or matrix, which `main` never
  makes. `spec.autoApprove` (the one beside `autoplan`), `spec.ai` and `spec.gitRepo`
  of a policy are read by no code.
* In `Operator` plans that users write by hand and several policies; in `Handover` the
  approve handler, whose patch is an edit of the plan.
* The UI: it polls a list and sends the approve request.
* The list and get handlers, the static files and the loopback guards of the HTTP
  server, and probes and metrics: they change no state.
* RBAC, manifests, generated deep copies, and the knowledge base's data.
