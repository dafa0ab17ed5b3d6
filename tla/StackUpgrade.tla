--------------------------- MODULE StackUpgrade ---------------------------
(***************************************************************************)
(* The StackUpgrade controller: the reconciler that carries an approved    *)
(* upgrade plan out, one Helm upgrade per step, and everything it works    *)
(* against: the API server with its optimistic locking, the informer cache *)
(* that lags behind it, the work queue, the approve handler of the HTTP    *)
(* server, the Helm releases, users who write plans, and the restarts of   *)
(* the operator.                                                           *)
(*                                                                         *)
(* Covered: stale cached copies, conflicts, writes that fail or whose      *)
(* answer is lost, a crash at any point, a plan edited, deleted or created *)
(* again under its name at any point, a release that Helm left pending.    *)
(*                                                                         *)
(* Left out: timestamps, messages and failureReason, which nothing reads;  *)
(* two operators at once, which is Handover; the 10 hour                   *)
(* resync of the informer, on which nothing may depend.                    *)
(***************************************************************************)
EXTENDS Naturals, Sequences

CONSTANTS
    Plans,           \* names of StackUpgrade objects (namespace and name)
    Tools,           \* knowledge-base tool names
    Versions,        \* tool versions
    Releases,        \* Helm releases
    ToolLists,       \* the lists of steps users and the scan write
    KnowledgeBases,  \* the <<tool, version>> pairs a build of the operator resolves
    InitialReleases, \* what may be installed before the operator starts
    NoPlan,          \* "no object"
    DryRuns,         \* values the operator's --dry-run flag may have
    RollbackMayFail, \* whether Helm's own rollback may fail
    MaxFaults,       \* bound: crashes, failed writes and foreign writes
    MaxEdits,        \* bound: spec edits
    MaxCreations     \* bound: objects created

\* A step of a plan: the tool, the version to install and the release to upgrade.
Step == [tool: Tools, target: Versions, release: Releases]

Phases == {"", "Pending", "Approved", "Upgrading", "Succeeded", "Failed", "RolledBack"}
Final  == {"Succeeded", "RolledBack"}

\* The status, reduced to the fields that decide: "ready" and "progress" are
\* the reasons of the Ready and the Progressing condition.
Status == [phase: Phases, step: Nat, total: Nat,
           ready: {"None", "UnknownTool", "WaitingForApproval", "Approved",
                   "Upgrading", "UpgradeError", "UpgradeComplete"},
           progress: {"None", "StepStarted", "StepComplete"}]

\* One version of an object, as the API server stores it and a watch sends it.
Version == [uid: Nat, rv: Nat, approved: BOOLEAN, tools: ToolLists, status: Status]

\* A plan as PlanLifecycle sees it.
AbstractPlan == [approved: BOOLEAN, tools: ToolLists, phase: Phases, step: Nat]

Release == [version: Versions, status: {"absent", "deployed", "pending", "failed"}]

ASSUME ListsAssumption == ToolLists \subseteq Seq(Step) \ {<<>>}
ASSUME KnowledgeAssumption == KnowledgeBases \subseteq SUBSET (Tools \X Versions)
ASSUME ReleasesAssumption == InitialReleases \subseteq [Releases -> Release]
ASSUME NoPlanAssumption == NoPlan \notin Plans \union Version \union AbstractPlan
ASSUME FlagsAssumption == DryRuns \subseteq BOOLEAN /\ RollbackMayFail \in BOOLEAN
ASSUME BoundsAssumption == MaxFaults \in Nat /\ MaxEdits \in Nat /\ MaxCreations \in Nat

VARIABLES
    api,       \* per plan, the version the API server stores, or NoPlan
    rev,       \* per plan, the last resourceVersion given out under its name
    watch,     \* per plan, the versions the informer has still to receive, in order
    cache,     \* per plan, the informer's copy: what Get of the manager's client reads
    queue,     \* per plan, its entry in the work queue: none, due later, or due now
    worker,    \* the one reconcile in progress
    approving, \* plans whose approve handler is between its Get and its Patch
    rel,       \* the Helm releases
    kb,        \* what the running operator's knowledge base resolves
    dryRun,    \* its --dry-run flag
    started,   \* history: steps of the stored plan handed to the executor
    repeats,   \* history: how often a step was handed over again
    done,      \* history: steps of the stored plan the executor carried out
    faults, edits, creations

server == <<api, rev, watch>>
history == <<started, repeats, done>>
bounds == <<faults, edits, creations>>
operator == <<kb, dryRun>>
vars == <<api, rev, watch, cache, queue, worker, approving, rel, kb, dryRun,
          started, repeats, done, faults, edits, creations>>

Idle == [pc |-> "idle", key |-> NoPlan, copy |-> NoPlan, result |-> "none"]

NewStatus == [phase |-> "", step |-> 0, total |-> 0, ready |-> "None", progress |-> "None"]

Resolvable(tools) == \A i \in DOMAIN tools : <<tools[i].tool, tools[i].target>> \in kb

Init ==
    /\ api = [p \in Plans |-> NoPlan]
    /\ rev = [p \in Plans |-> 0]
    /\ watch = [p \in Plans |-> <<>>]
    /\ cache = [p \in Plans |-> NoPlan]
    /\ queue = [p \in Plans |-> "none"]
    /\ worker = Idle
    /\ approving = {}
    /\ rel \in InitialReleases
    /\ kb \in KnowledgeBases
    /\ dryRun \in DryRuns
    /\ started = [p \in Plans |-> {}]
    /\ repeats = 0
    /\ done = [p \in Plans |-> {}]
    /\ faults = 0 /\ edits = 0 /\ creations = 0

-----------------------------------------------------------------------------
(* The API server.  Every change of an object gives it the next            *)
(* resourceVersion under its name and is sent to the watch.                *)

Store(p, v) ==
    /\ api' = [api EXCEPT ![p] = [v EXCEPT !.rv = rev[p] + 1]]
    /\ rev' = [rev EXCEPT ![p] = @ + 1]
    /\ watch' = [watch EXCEPT ![p] = Append(@, [v EXCEPT !.rv = rev[p] + 1])]

\* The copy v of plan p is the one stored, so that a write of it is taken.
IsCurrent(p, v) == api[p] # NoPlan /\ api[p].rv = v.rv

\* Status().Update of the copy v with the status s.  A write that changes
\* nothing is taken without a new version.
PutStatus(p, v, s) ==
    /\ IsCurrent(p, v)
    /\ IF s = v.status THEN UNCHANGED server ELSE Store(p, [v EXCEPT !.status = s])

\* The same, answered with an error: a conflict (or the object is gone), or
\* a request that failed, before or after the server took it.
PutFails(p, v, s) ==
    \/ ~IsCurrent(p, v) /\ UNCHANGED <<server, faults>>
    \/ /\ faults < MaxFaults
       /\ faults' = faults + 1
       /\ PutStatus(p, v, s) \/ UNCHANGED server

\* Mutant: no such rule.
MayChangeAlways(v) == TRUE

\* The CRD's rule on updates: an approved plan cannot change.
MayChange(v) == ~v.approved

CreatePlan(p) ==
    /\ creations < MaxCreations
    /\ creations' = creations + 1
    /\ api[p] = NoPlan
    /\ \E tools \in ToolLists, approved \in BOOLEAN :
         Store(p, [uid |-> rev[p] + 1, rv |-> 0, approved |-> approved,
                   tools |-> tools, status |-> NewStatus])
    /\ started' = [started EXCEPT ![p] = {}]
    /\ done' = [done EXCEPT ![p] = {}]
    /\ UNCHANGED <<cache, queue, worker, approving, rel, operator, repeats, faults, edits>>

\* A user corrects a plan, approves it, or both.
EditPlan(p) ==
    /\ edits < MaxEdits
    /\ edits' = edits + 1
    /\ api[p] # NoPlan
    /\ MayChange(api[p])
    /\ \E tools \in ToolLists, approved \in BOOLEAN :
         /\ <<tools, approved>> # <<api[p].tools, api[p].approved>>
         /\ Store(p, [api[p] EXCEPT !.tools = tools, !.approved = approved])
    /\ UNCHANGED <<cache, queue, worker, approving, rel, operator, history, faults, creations>>

\* Another client changes the object's metadata (a label, an annotation).
TouchPlan(p) ==
    /\ faults < MaxFaults
    /\ faults' = faults + 1
    /\ api[p] # NoPlan
    /\ Store(p, api[p])
    /\ UNCHANGED <<cache, queue, worker, approving, rel, operator, history, edits, creations>>

DeletePlan(p) ==
    /\ api[p] # NoPlan
    /\ api' = [api EXCEPT ![p] = NoPlan]
    /\ rev' = [rev EXCEPT ![p] = @ + 1]
    /\ watch' = [watch EXCEPT ![p] = Append(@, NoPlan)]
    /\ UNCHANGED <<cache, queue, worker, approving, rel, operator, history, bounds>>

-----------------------------------------------------------------------------
(* The approve handler: a cached Get, then a merge patch of spec.approved  *)
(* that carries no resourceVersion.                                        *)

ApproveGet(p) ==
    /\ cache[p] # NoPlan
    /\ ~cache[p].approved
    /\ approving' = approving \union {p}
    /\ UNCHANGED <<server, cache, queue, worker, rel, operator, history, bounds>>

\* The patch meets whatever plan the name holds now; it changes nothing when
\* that is approved, and fails when there is none.
ApprovePatch(p) ==
    /\ p \in approving
    /\ approving' = approving \ {p}
    /\ IF api[p] # NoPlan /\ ~api[p].approved
         THEN Store(p, [api[p] EXCEPT !.approved = TRUE])
         ELSE UNCHANGED server
    /\ UNCHANGED <<cache, queue, worker, rel, operator, history, bounds>>

\* The patch does not reach the server.
ApproveFails(p) ==
    /\ p \in approving
    /\ approving' = approving \ {p}
    /\ UNCHANGED <<server, cache, queue, worker, rel, operator, history, bounds>>

-----------------------------------------------------------------------------
(* The informer and the work queue.                                        *)

\* The next watch event: the cache takes it and the plan is queued.
Deliver(p) ==
    /\ watch[p] # <<>>
    /\ cache' = [cache EXCEPT ![p] = Head(watch[p])]
    /\ watch' = [watch EXCEPT ![p] = Tail(@)]
    /\ queue' = [queue EXCEPT ![p] = "now"]
    /\ UNCHANGED <<api, rev, worker, approving, rel, operator, history, bounds>>

\* The watch was interrupted and the informer lists again: it skips versions.
Relist(p) ==
    /\ Len(watch[p]) > 1
    /\ cache' = [cache EXCEPT ![p] = api[p]]
    /\ watch' = [watch EXCEPT ![p] = <<>>]
    /\ queue' = [queue EXCEPT ![p] = "now"]
    /\ UNCHANGED <<api, rev, worker, approving, rel, operator, history, bounds>>

\* A RequeueAfter or the back-off after an error has passed.
FallsDue(p) ==
    /\ queue[p] = "later"
    /\ queue' = [queue EXCEPT ![p] = "now"]
    /\ UNCHANGED <<server, cache, worker, approving, rel, operator, history, bounds>>

\* The entry of a plan that is to be reconciled again later; one that is due
\* already stays due.
Requeue(p) == [queue EXCEPT ![p] = IF @ = "now" THEN "now" ELSE "later"]

\* Reconcile is called and reads the plan from the cache; a plan that is gone
\* or final ends it at once.
Begin(p) ==
    /\ worker.pc = "idle"
    /\ queue[p] = "now"
    /\ queue' = [queue EXCEPT ![p] = "none"]
    /\ worker' = IF cache[p] = NoPlan \/ cache[p].status.phase \in Final
                   THEN Idle
                   ELSE [pc |-> "reconcile", key |-> p, copy |-> cache[p], result |-> "none"]
    /\ UNCHANGED <<server, cache, approving, rel, operator, history, bounds>>

-----------------------------------------------------------------------------
(* Reconcile, by the phase of the copy.                                    *)

InPhase(phases) == worker.pc = "reconcile" /\ worker.copy.status.phase \in phases

\* Mutant: an error of the write is logged and forgotten.
ConcludeForgetful(s, again) ==
    /\ \/ /\ PutStatus(worker.key, worker.copy, s)
          /\ queue' = IF again THEN Requeue(worker.key) ELSE queue
          /\ UNCHANGED faults
       \/ /\ PutFails(worker.key, worker.copy, s)
          /\ UNCHANGED queue
    /\ worker' = Idle
    /\ UNCHANGED <<cache, approving, rel, operator, history, edits, creations>>

\* Mutant: the status is patched, without a resourceVersion.
ConcludeUnlocked(s, again) ==
    /\ IF api[worker.key] = NoPlan THEN UNCHANGED server
       ELSE Store(worker.key, [api[worker.key] EXCEPT !.status = s])
    /\ queue' = IF again THEN Requeue(worker.key) ELSE queue
    /\ worker' = Idle
    /\ UNCHANGED <<cache, approving, rel, operator, history, bounds>>

\* The last write of a reconcile: status s, after which the plan is to be
\* reconciled again iff "again"; after an error it always is.
Conclude(s, again) ==
    /\ \/ /\ PutStatus(worker.key, worker.copy, s)
          /\ queue' = IF again THEN Requeue(worker.key) ELSE queue
          /\ UNCHANGED faults
       \/ /\ PutFails(worker.key, worker.copy, s)
          /\ queue' = Requeue(worker.key)
    /\ worker' = Idle
    /\ UNCHANGED <<cache, approving, rel, operator, history, edits, creations>>

\* Mutant: spec.approved is not looked at.
PendingStatusUnchecked(v) ==
    [v.status EXCEPT !.phase = IF Resolvable(v.tools) THEN "Approved" ELSE "Pending",
                     !.ready = IF Resolvable(v.tools) THEN "Approved" ELSE "UnknownTool"]

PendingStatus(v) ==
    [v.status EXCEPT
       !.phase = IF Resolvable(v.tools) /\ v.approved THEN "Approved" ELSE "Pending",
       !.ready = IF ~Resolvable(v.tools) THEN "UnknownTool"
                 ELSE IF ~v.approved THEN "WaitingForApproval" ELSE "Approved"]

\* Mutant: every plan is looked at again.
PendingRequeuesAlways(v) == TRUE

\* A plan that waits is not queued again: the watch delivers what it waits for.
PendingRequeues(v) == Resolvable(v.tools) /\ v.approved

ReconcilePending ==
    /\ InPhase({"", "Pending"})
    /\ Conclude(PendingStatus(worker.copy), PendingRequeues(worker.copy))

ReconcileApproved ==
    /\ InPhase({"Approved"})
    /\ Conclude([worker.copy.status EXCEPT !.phase = "Upgrading", !.step = 0,
                   !.total = Len(worker.copy.tools), !.ready = "Upgrading"], TRUE)

\* reconcileUpgrading with every step behind it.
FinishPlan ==
    /\ InPhase({"Upgrading"})
    /\ worker.copy.status.step >= Len(worker.copy.tools)
    /\ Conclude([worker.copy.status EXCEPT !.phase = "Succeeded",
                   !.ready = "UpgradeComplete"], FALSE)

\* The step the copy has reached, counted from 1.
StepNo == worker.copy.status.step + 1

StartedStatus == [worker.copy.status EXCEPT !.progress = "StepStarted"]

\* Mutant: a step that was started is left to whoever started it.
StartStepOnce ==
    /\ InPhase({"Upgrading"})
    /\ StepNo \in DOMAIN worker.copy.tools
    /\ \/ /\ worker.copy.status.progress = "StepStarted"
          /\ worker' = Idle
          /\ UNCHANGED <<server, started, repeats>>
       \/ /\ worker.copy.status.progress # "StepStarted"
          /\ PutStatus(worker.key, worker.copy, StartedStatus)
          /\ worker' = [worker EXCEPT !.pc = "helm", !.copy = api'[worker.key]]
          /\ started' = [started EXCEPT ![worker.key] = @ \union {StepNo}]
          /\ UNCHANGED repeats
    /\ UNCHANGED <<cache, queue, approving, rel, operator, done, bounds>>

\* Mutant: the step is run without the write that precedes it.
StartStepUnrecorded ==
    /\ InPhase({"Upgrading"})
    /\ StepNo \in DOMAIN worker.copy.tools
    /\ worker' = [worker EXCEPT !.pc = "helm"]
    /\ started' = [started EXCEPT ![worker.key] = @ \union {StepNo}]
    /\ repeats' = IF StepNo \in started[worker.key] THEN repeats + 1 ELSE repeats
    /\ UNCHANGED <<server, cache, queue, approving, rel, operator, done, bounds>>

\* reconcileUpgrading with a step to run: the write that precedes it is taken,
\* the copy becomes the stored version and the executor is called.
StartStep ==
    /\ InPhase({"Upgrading"})
    /\ StepNo \in DOMAIN worker.copy.tools
    /\ PutStatus(worker.key, worker.copy, StartedStatus)
    /\ worker' = [worker EXCEPT !.pc = "helm", !.copy = api'[worker.key]]
    /\ started' = [started EXCEPT ![worker.key] = @ \union {StepNo}]
    /\ repeats' = IF StepNo \in started[worker.key] THEN repeats + 1 ELSE repeats
    /\ UNCHANGED <<cache, queue, approving, rel, operator, done, bounds>>

\* The write that precedes the step fails, so the step is not run.
StartRefused ==
    /\ InPhase({"Upgrading"})
    /\ StepNo \in DOMAIN worker.copy.tools
    /\ PutFails(worker.key, worker.copy, StartedStatus)
    /\ worker' = Idle
    /\ queue' = Requeue(worker.key)
    /\ UNCHANGED <<cache, approving, rel, operator, history, edits, creations>>

\* reconcileFailed rolls nothing back.
ReconcileFailed ==
    /\ InPhase({"Failed"})
    /\ Conclude([worker.copy.status EXCEPT !.phase = "RolledBack"], FALSE)

-----------------------------------------------------------------------------
(* HelmExecutor.Upgrade of the step, and the Helm library under it.        *)

CurrentStep == worker.copy.tools[StepNo]
Target == rel[CurrentStep.release]

\* The executor returns; a step it carried out belongs to the stored plan
\* only while that is still the plan the worker read.
Return(result) ==
    /\ worker' = [worker EXCEPT !.pc = "record", !.result = result]
    /\ done' = IF /\ result = "ok"
                  /\ api[worker.key] # NoPlan
                  /\ api[worker.key].uid = worker.copy.uid
                 THEN [done EXCEPT ![worker.key] = @ \union {StepNo}]
                 ELSE done
    /\ UNCHANGED <<server, cache, queue, approving, operator, started, repeats, bounds>>

\* Before Helm's upgrade runs: the release is not there, or its values or the
\* chart cannot be read.  A Go error.
PreflightFails ==
    /\ worker.pc = "helm"
    /\ Return("error")
    /\ UNCHANGED rel

\* Helm's upgrade returns an error before it changed the release: always so
\* when another operation is pending on it.  The executor reports a rollback.
HelmRefuses ==
    /\ worker.pc = "helm"
    /\ Target.status # "absent"
    /\ Return("rolledback")
    /\ UNCHANGED rel

HelmDryRuns ==
    /\ worker.pc = "helm"
    /\ dryRun
    /\ Target.status \in {"deployed", "failed"}
    /\ Return("ok")
    /\ UNCHANGED rel

\* Helm stores the new revision as pending-upgrade and starts to apply it.
HelmBegins ==
    /\ worker.pc = "helm"
    /\ ~dryRun
    /\ Target.status \in {"deployed", "failed"}
    /\ rel' = [rel EXCEPT ![CurrentStep.release].status = "pending"]
    /\ worker' = [worker EXCEPT !.pc = "running"]
    /\ UNCHANGED <<server, cache, queue, approving, operator, history, bounds>>

HelmSucceeds ==
    /\ worker.pc = "running"
    /\ rel' = [rel EXCEPT ![CurrentStep.release] =
                 [version |-> CurrentStep.target, status |-> "deployed"]]
    /\ Return("ok")

\* The upgrade fails or times out, and Helm's rollback restores the release;
\* or the rollback fails too.  The executor reports both as rolled back.
HelmRollsBack ==
    /\ worker.pc = "running"
    /\ \/ rel' = [rel EXCEPT ![CurrentStep.release].status = "deployed"]
       \/ RollbackMayFail /\ rel' = [rel EXCEPT ![CurrentStep.release].status = "failed"]
    /\ Return("rolledback")

\* Mutant: Success is not looked at when there is no Go error.
ResultStatusUnchecked(s, result) ==
    IF result = "error" THEN [s EXCEPT !.phase = "Failed", !.ready = "UpgradeError"]
    ELSE [s EXCEPT !.step = @ + 1, !.progress = "StepComplete"]

\* Mutant: a rolled back step takes currentStep back.
ResultStatusStepsBack(s, result) ==
    CASE result = "ok"         -> [s EXCEPT !.step = @ + 1, !.progress = "StepComplete"]
      [] result = "error"      -> [s EXCEPT !.phase = "Failed", !.ready = "UpgradeError"]
      [] result = "rolledback" -> [s EXCEPT !.phase = "RolledBack", !.step = @ - 1]

\* The status that records the executor's result.
ResultStatus(s, result) ==
    CASE result = "ok"         -> [s EXCEPT !.step = @ + 1, !.progress = "StepComplete"]
      [] result = "error"      -> [s EXCEPT !.phase = "Failed", !.ready = "UpgradeError"]
      [] result = "rolledback" -> [s EXCEPT !.phase = "RolledBack"]

RecordResult ==
    /\ worker.pc = "record"
    /\ Conclude(ResultStatus(worker.copy.status, worker.result), worker.result = "ok")

-----------------------------------------------------------------------------
\* An operator starts, perhaps with another knowledge base and flag: what the
\* one before held in memory is gone, a Helm upgrade under way stays pending,
\* and the informer lists and queues every plan.
Start ==
    /\ worker' = Idle
    /\ approving' = {}
    /\ cache' = api
    /\ watch' = [p \in Plans |-> <<>>]
    /\ queue' = [p \in Plans |-> IF api[p] = NoPlan THEN "none" ELSE "now"]
    /\ kb' \in KnowledgeBases
    /\ dryRun' \in DryRuns

\* The operator dies and starts again.
Restart ==
    /\ faults < MaxFaults
    /\ faults' = faults + 1
    /\ Start
    /\ UNCHANGED <<api, rev, rel, history, edits, creations>>

Users(p) == CreatePlan(p) \/ EditPlan(p) \/ TouchPlan(p) \/ DeletePlan(p)
Approve(p) == ApproveGet(p) \/ ApprovePatch(p) \/ ApproveFails(p)
Informer(p) == Deliver(p) \/ Relist(p) \/ FallsDue(p)
Reconcile == \/ ReconcilePending \/ ReconcileApproved \/ FinishPlan
             \/ StartStep \/ StartRefused \/ ReconcileFailed \/ RecordResult
Helm == \/ PreflightFails \/ HelmRefuses \/ HelmDryRuns
        \/ HelmBegins \/ HelmSucceeds \/ HelmRollsBack

Next ==
    \/ \E p \in Plans : Users(p) \/ Approve(p) \/ Informer(p) \/ Begin(p)
    \/ Reconcile
    \/ Helm
    \/ Restart

Spec == Init /\ [][Next]_vars

\* Watch events arrive and requeued plans fall due; a reconcile ends, because
\* Helm gives up after five minutes; the queue serves every plan in turn.
Fairness ==
    /\ \A p \in Plans : WF_vars(Deliver(p)) /\ WF_vars(FallsDue(p)) /\ SF_vars(Begin(p))
    /\ WF_vars(Reconcile)
    /\ WF_vars(Helm)

FairSpec == Spec /\ Fairness

-----------------------------------------------------------------------------
(* Properties.                                                             *)

\* A worker before and after the executor has returned.
Reconciling == [pc: {"reconcile", "helm", "running"}, key: Plans,
                copy: Version, result: {"none"}]
Recording == [pc: {"record"}, key: Plans,
              copy: Version, result: {"ok", "error", "rolledback"}]

\* The state has its types.
TypeOK ==
    /\ api \in [Plans -> Version \union {NoPlan}]
    /\ rev \in [Plans -> Nat]
    /\ watch \in [Plans -> Seq(Version \union {NoPlan})]
    /\ cache \in [Plans -> Version \union {NoPlan}]
    /\ queue \in [Plans -> {"none", "later", "now"}]
    /\ worker \in {Idle} \union Reconciling \union Recording
    /\ approving \subseteq Plans
    /\ rel \in [Releases -> Release]
    /\ kb \in KnowledgeBases
    /\ dryRun \in DryRuns
    /\ started \in [Plans -> SUBSET Nat]
    /\ repeats \in Nat
    /\ done \in [Plans -> SUBSET Nat]
    /\ faults \in 0..MaxFaults /\ edits \in 0..MaxEdits /\ creations \in 0..MaxCreations

\* What the executor is given is an approved plan, and as long as that object
\* exists it stays the plan the worker read: approved, with the same steps, in
\* the same phase and at the same step.  Neither a stale copy, nor an edit
\* between the check of the plan and its start, nor a plan created again under
\* the name makes Helm run something nobody approved.
RunsApprovedPlan ==
    worker.pc \in {"helm", "running", "record"} =>
      /\ worker.copy.approved
      /\ worker.copy.status.phase = "Upgrading"
      /\ LET stored == api[worker.key] IN
         stored # NoPlan /\ stored.uid = worker.copy.uid =>
           /\ stored.approved
           /\ stored.tools = worker.copy.tools
           /\ stored.status = worker.copy.status

\* currentStep never runs ahead of Helm: every step before it, and in phase
\* Succeeded every step, was carried out for this very object.
StepsCarriedOut ==
    \A p \in Plans : api[p] # NoPlan =>
      /\ 1..api[p].status.step \subseteq done[p]
      /\ api[p].status.phase = "Succeeded" => DOMAIN api[p].tools \subseteq done[p]

\* The write before a step keeps a stale copy from repeating it: a step is
\* handed to the executor once, and once more for each crash, failed write or
\* foreign write, however late the cache is.
RepeatsBounded == repeats <= faults

\* When a step is recorded as complete its release is deployed at the step's
\* version, whatever happened between the Helm run and the write.
StepsInstalled ==
    [][\A p \in Plans :
         /\ ~dryRun
         /\ api[p] # NoPlan /\ api'[p] # NoPlan
         /\ api'[p].uid = api[p].uid
         /\ api'[p].status.step > api[p].status.step
         => LET step == api[p].tools[api'[p].status.step]
            IN rel[step.release] = [version |-> step.target, status |-> "deployed"]]_vars

\* Nothing is left to do for plan p: it is gone or final, or it waits and its
\* status says what for.
Settled(p) ==
    \/ api[p] = NoPlan
    \/ api[p].status.phase \in Final
    \/ /\ api[p].status.phase = "Pending"
       /\ ~Resolvable(api[p].tools) /\ api[p].status.ready = "UnknownTool"
    \/ /\ api[p].status.phase = "Pending"
       /\ Resolvable(api[p].tools) /\ ~api[p].approved
       /\ api[p].status.ready = "WaitingForApproval"

\* Once the faults and the edits are over, every plan is settled for good: no
\* approval, correction or requeue is lost, though a waiting plan is not queued
\* again and its events may be read from stale copies.
PlansSettle == <>[](\A p \in Plans : Settled(p))

\* ... and the controller comes to rest: its own status writes do not keep
\* waking it.
ComesToRest ==
    <>[](worker = Idle /\ \A p \in Plans : queue[p] = "none" /\ watch[p] = <<>>)

\* The refinement mapping: phase, approval, steps and currentStep.
Abstract(v) == IF v = NoPlan THEN NoPlan
               ELSE [approved |-> v.approved, tools |-> v.tools,
                     phase |-> v.status.phase, step |-> v.status.step]

AbstractPlans == [p \in Plans |-> Abstract(api[p])]

Lifecycle == INSTANCE PlanLifecycle WITH plan <- AbstractPlans

\* The controller implements PlanLifecycle: whatever it reads late, repeats or
\* loses, what happens to the stored plans and their steps is a lifecycle.
ImplementsLifecycle == Lifecycle!Spec

\* docs/HANDOFF.md: Failed is one of the three final phases.
FailedIsFinal ==
    [][\A p \in Plans :
         api[p] # NoPlan /\ api'[p] # NoPlan /\ api[p].uid = api'[p].uid
           /\ api[p].status.phase = "Failed"
         => api'[p].status.phase = "Failed"]_vars

\* helm.go on the result it reports: "Helm already rolled back".
RolledBackIsTrue ==
    worker.pc = "record" /\ worker.result = "rolledback" => Target.status = "deployed"

-----------------------------------------------------------------------------
(* The inductive invariant behind RunsApprovedPlan: what a copy of a plan, *)
(* wherever it is held, says about the plan that is stored.                *)

\* A plan that has left Pending is approved.
PhaseApproved(v) == v.status.phase \notin {"", "Pending"} => v.approved

\* v is a version the name p had: a copy with the stored resourceVersion is the
\* stored version, and an approved copy of the stored object has its steps.
CopyOf(p, v) ==
    /\ v.rv <= rev[p] /\ v.uid <= rev[p]
    /\ PhaseApproved(v)
    /\ api[p] # NoPlan =>
         /\ v.rv = api[p].rv => v = api[p]
         /\ v.uid = api[p].uid /\ v.approved => api[p].approved /\ v.tools = api[p].tools

StoredInv == \A p \in Plans : api[p] # NoPlan => CopyOf(p, api[p])
CacheInv  == \A p \in Plans : cache[p] # NoPlan => CopyOf(p, cache[p])
WatchInv  == \A p \in Plans : \A i \in DOMAIN watch[p] :
                watch[p][i] # NoPlan => CopyOf(p, watch[p][i])
WorkerInv == worker.pc # "idle" => CopyOf(worker.key, worker.copy)

\* From its first write to its last the executor's plan is at the step it runs
\* in the worker's copy ...
RunningInv ==
    worker.pc \in {"helm", "running", "record"} =>
      worker.copy.status.phase = "Upgrading" /\ StepNo \in DOMAIN worker.copy.tools

\* ... and, while that object exists, on the server: nobody else writes a status.
LockedInv ==
    /\ worker.pc \in {"helm", "running", "record"}
    /\ api[worker.key] # NoPlan /\ api[worker.key].uid = worker.copy.uid
    => api[worker.key].status = worker.copy.status

\* What one operator holds; it needs no other operator to keep still.
SideInv == TypeOK /\ StoredInv /\ CacheInv /\ WatchInv /\ WorkerInv /\ RunningInv

IInv == SideInv /\ LockedInv

=============================================================================
