------------------------- MODULE StackUpgradeProofs -------------------------
(***************************************************************************)
(* Proofs about StackUpgrade, for any number of plans that share releases  *)
(* and any number of steps, faults, edits and incarnations.                *)
(*                                                                         *)
(* Only approved plans run: what an old copy of a plan says about the      *)
(* stored one (CopyOf) is kept by every step.                              *)
(*                                                                         *)
(* currentStep never runs ahead of Helm.  A status write is taken only     *)
(* from the stored version (PutEffect), the only one that raises           *)
(* currentStep records a result, and until that write nothing can undo     *)
(* what the result says (DoneInv, DeployedInv): one reconcile runs at a    *)
(* time, users cannot change releases, and another object has another uid. *)
(* What the plan of a second operator may not disturb is CarriedInv; that  *)
(* the release is still as Helm left it takes an operator that is alone.   *)
(***************************************************************************)
EXTENDS StackUpgrade, FiniteSetTheorems, TLAPS

-----------------------------------------------------------------------------
(* Types.                                                                  *)

ServerType == /\ api \in [Plans -> Version \union {NoPlan}]
              /\ rev \in [Plans -> Nat]
              /\ watch \in [Plans -> Seq(Version \union {NoPlan})]

\* Lists of steps are sequences that are not empty.
LEMMA ListsType ==
    ASSUME NEW tools \in ToolLists
    PROVE  /\ tools \in Seq(Step) /\ tools # <<>>
           /\ Len(tools) \in Nat /\ Len(tools) > 0
           /\ DOMAIN tools = 1..Len(tools)
BY ListsAssumption

\* A version is stored with its type.
LEMMA StoreType ==
    ASSUME ServerType, NEW p \in Plans, NEW v \in Version, Store(p, v)
    PROVE  ServerType'
<1>1. rev[p] + 1 \in Nat
  BY DEF ServerType
<1>2. [v EXCEPT !.rv = rev[p] + 1] \in Version
  BY <1>1 DEF Version
<1>3. api' \in [Plans -> Version \union {NoPlan}]
  BY <1>2 DEF ServerType, Store
<1>4. rev' \in [Plans -> Nat]
  BY <1>1 DEF ServerType, Store
<1>5. Append(watch[p], [v EXCEPT !.rv = rev[p] + 1]) \in Seq(Version \union {NoPlan})
  BY <1>2 DEF ServerType
<1>6. watch' \in [Plans -> Seq(Version \union {NoPlan})]
  BY <1>5 DEF ServerType, Store
<1> QED
  BY <1>3, <1>4, <1>6 DEF ServerType

\* So is a status, and a write that fails leaves the types too.
LEMMA PutType ==
    ASSUME ServerType, NEW p \in Plans, NEW v \in Version, NEW s \in Status,
           PutStatus(p, v, s) \/ PutFails(p, v, s)
    PROVE  ServerType'
<1>1. [v EXCEPT !.status = s] \in Version
  BY DEF Version
<1>2. CASE PutStatus(p, v, s)
  BY <1>1, <1>2, StoreType DEF PutStatus, server, ServerType
<1>3. CASE PutFails(p, v, s)
  <2>1. CASE UNCHANGED server
    BY <2>1 DEF server, ServerType
  <2>2. CASE PutStatus(p, v, s)
    BY <1>2, <2>2
  <2> QED
    BY <1>3, <2>1, <2>2 DEF PutFails, server
<1> QED
  BY <1>2, <1>3

\* A failed write counts as a fault only below the bound.
LEMMA FaultsType ==
    ASSUME faults \in 0..MaxFaults, NEW p, NEW v, NEW s,
           PutFails(p, v, s)
    PROVE  faults' \in 0..MaxFaults
BY BoundsAssumption DEF PutFails, server

\* A queue entry keeps its type when its plan is queued again.
LEMMA RequeueType ==
    ASSUME queue \in [Plans -> {"none", "later", "now"}], NEW p \in Plans
    PROVE  Requeue(p) \in [Plans -> {"none", "later", "now"}]
BY DEF Requeue

\* The type of a worker that is not idle.
LEMMA WorkerType ==
    ASSUME TypeOK, worker.pc # "idle"
    PROVE  /\ worker \in Reconciling \union Recording
           /\ worker.key \in Plans /\ worker.copy \in Version
           /\ worker.copy.status \in Status
           /\ worker.copy.tools \in ToolLists
           /\ worker.pc # "record" => worker \in Reconciling
           /\ worker.pc = "record" => worker \in Recording
BY DEF TypeOK, Idle, Version, Reconciling, Recording

\* The last write of a reconcile preserves the types.
LEMMA ConcludeType ==
    ASSUME TypeOK, worker.pc # "idle", NEW s \in Status, NEW again, Conclude(s, again)
    PROVE  TypeOK'
<1>1. worker.key \in Plans /\ worker.copy \in Version
  BY WorkerType
<1>2. ServerType
  BY DEF TypeOK, ServerType
<1>3. ServerType'
  BY <1>1, <1>2, PutType DEF Conclude
<1>4. faults' \in 0..MaxFaults
  BY FaultsType DEF Conclude, TypeOK
<1>5. queue' \in [Plans -> {"none", "later", "now"}]
  BY <1>1, RequeueType DEF Conclude, TypeOK
<1> QED
  BY <1>3, <1>4, <1>5 DEF Conclude, TypeOK, ServerType, history, operator

-----------------------------------------------------------------------------
(* TypeOK, one lemma per group of actions.                                 *)

\* The initial state has its types.
LEMMA InitType == Init => TypeOK
BY ReleasesAssumption, BoundsAssumption DEF Init, TypeOK

\* What users write.
LEMMA UsersType ==
    ASSUME TypeOK, NEW p \in Plans, Users(p)
    PROVE  TypeOK'
<1> USE BoundsAssumption
<1>1. ServerType
  BY DEF TypeOK, ServerType
<1>2. CASE CreatePlan(p)
  <2>1. PICK tools \in ToolLists, approved \in BOOLEAN :
          Store(p, [uid |-> rev[p] + 1, rv |-> 0, approved |-> approved,
                    tools |-> tools, status |-> NewStatus])
    BY <1>2 DEF CreatePlan
  <2>2. [uid |-> rev[p] + 1, rv |-> 0, approved |-> approved,
         tools |-> tools, status |-> NewStatus] \in Version
    <3>1. NewStatus \in Status
      BY DEF Status, NewStatus, Phases
    <3>2. rev[p] + 1 \in Nat /\ 0 \in Nat
      BY <1>1 DEF ServerType
    <3> QED
      BY <3>1, <3>2 DEF Version
  <2>3. ServerType'
    BY <1>1, <2>1, <2>2, StoreType
  <2>4. creations' \in 0..MaxCreations
    BY <1>2 DEF CreatePlan, TypeOK
  <2>5. started' \in [Plans -> SUBSET Nat] /\ done' \in [Plans -> SUBSET Nat]
    BY <1>2 DEF CreatePlan, TypeOK
  <2> QED
    BY <1>2, <2>3, <2>4, <2>5 DEF CreatePlan, TypeOK, ServerType, operator
<1>3. CASE EditPlan(p)
  <2>1. PICK tools \in ToolLists, approved \in BOOLEAN :
          Store(p, [api[p] EXCEPT !.tools = tools, !.approved = approved])
    BY <1>3 DEF EditPlan
  <2>2. [api[p] EXCEPT !.tools = tools, !.approved = approved] \in Version
    BY <1>1, <1>3 DEF EditPlan, ServerType, Version
  <2>3. ServerType'
    BY <1>1, <2>1, <2>2, StoreType
  <2> QED
    BY <1>3, <2>3 DEF EditPlan, TypeOK, ServerType, operator, history
<1>4. CASE TouchPlan(p)
  <2>1. ServerType'
    BY <1>1, <1>4, StoreType DEF TouchPlan, ServerType
  <2> QED
    BY <1>4, <2>1 DEF TouchPlan, TypeOK, ServerType, operator, history
<1>5. CASE DeletePlan(p)
  BY <1>5 DEF DeletePlan, TypeOK, operator, history, bounds
<1> QED
  BY <1>2, <1>3, <1>4, <1>5 DEF Users

\* The approve handler.
LEMMA ApproveType ==
    ASSUME TypeOK, NEW p \in Plans, Approve(p)
    PROVE  TypeOK'
<1>1. CASE ApproveGet(p)
  BY <1>1 DEF ApproveGet, TypeOK, server, operator, history, bounds
<1>2. CASE ApprovePatch(p)
  <2>1. ServerType
    BY DEF TypeOK, ServerType
  <2>2. CASE api[p] # NoPlan /\ ~api[p].approved
    <3>1. [api[p] EXCEPT !.approved = TRUE] \in Version
      BY <2>1, <2>2 DEF ServerType, Version
    <3>2. ServerType'
      BY <1>2, <2>1, <2>2, <3>1, StoreType DEF ApprovePatch
    <3> QED
      BY <1>2, <3>2 DEF ApprovePatch, TypeOK, ServerType, operator, history, bounds
  <2>3. CASE ~(api[p] # NoPlan /\ ~api[p].approved)
    BY <1>2, <2>3 DEF ApprovePatch, TypeOK, server, operator, history, bounds
  <2> QED
    BY <2>2, <2>3
<1>3. CASE ApproveFails(p)
  BY <1>3 DEF ApproveFails, TypeOK, server, operator, history, bounds
<1> QED
  BY <1>1, <1>2, <1>3 DEF Approve

\* The informer, the queue and the start of a reconcile.
LEMMA InformerType ==
    ASSUME TypeOK, NEW p \in Plans, Informer(p) \/ Begin(p)
    PROVE  TypeOK'
<1>1. CASE Deliver(p)
  <2>1. /\ Head(watch[p]) \in Version \union {NoPlan}
        /\ Tail(watch[p]) \in Seq(Version \union {NoPlan})
    BY <1>1 DEF Deliver, TypeOK
  <2> QED
    BY <1>1, <2>1 DEF Deliver, TypeOK, operator, history, bounds
<1>2. CASE Relist(p)
  <2>1. <<>> \in Seq(Version \union {NoPlan})
    OBVIOUS
  <2> QED
    BY <1>2, <2>1 DEF Relist, TypeOK, operator, history, bounds
<1>3. CASE FallsDue(p)
  BY <1>3 DEF FallsDue, TypeOK, server, operator, history, bounds
<1>4. CASE Begin(p)
  <2>1. worker' \in {Idle} \union Reconciling
    BY <1>4 DEF Begin, TypeOK, Reconciling
  <2> QED
    BY <1>4, <2>1 DEF Begin, TypeOK, server, operator, history, bounds
<1> QED
  BY <1>1, <1>2, <1>3, <1>4 DEF Informer

\* Each result of the executor gives a status.
LEMMA ResultStatusType ==
    ASSUME NEW s \in Status, NEW result \in {"ok", "error", "rolledback"}
    PROVE  ResultStatus(s, result) \in Status
<1>1. CASE result = "ok"
  <2>1. s.step + 1 \in Nat
    BY DEF Status
  <2>2. ResultStatus(s, result) = [s EXCEPT !.step = s.step + 1, !.progress = "StepComplete"]
    BY <1>1 DEF ResultStatus
  <2> QED
    BY <2>1, <2>2 DEF Status
<1>2. CASE result = "error"
  BY <1>2 DEF ResultStatus, Status, Phases
<1>3. CASE result = "rolledback"
  BY <1>3 DEF ResultStatus, Status, Phases
<1> QED
  BY <1>1, <1>2, <1>3

\* The handlers of the phases.
LEMMA ReconcileType ==
    ASSUME TypeOK, Reconcile
    PROVE  TypeOK'
<1> DEFINE s == worker.copy.status
           tools == worker.copy.tools
<1>1. worker.pc # "idle"
  BY DEF Reconcile, ReconcilePending, ReconcileApproved, FinishPlan, StartStep,
         StartRefused, ReconcileFailed, RecordResult, InPhase
<1>2. /\ worker.key \in Plans /\ worker.copy \in Version
      /\ s \in Status /\ tools \in ToolLists
  BY <1>1, WorkerType
<1>3. CASE ReconcilePending
  <2>1. PendingStatus(worker.copy) \in Status
    BY <1>2 DEF PendingStatus, Status, Phases
  <2> QED
    BY <1>1, <1>3, <2>1, ConcludeType DEF ReconcilePending
<1>4. CASE ReconcileApproved
  <2>1. [s EXCEPT !.phase = "Upgrading", !.step = 0, !.total = Len(tools),
                  !.ready = "Upgrading"] \in Status
    BY <1>2, ListsType DEF Status, Phases
  <2> QED
    BY <1>1, <1>4, <2>1, ConcludeType DEF ReconcileApproved
<1>5. CASE FinishPlan
  <2>1. [s EXCEPT !.phase = "Succeeded", !.ready = "UpgradeComplete"] \in Status
    BY <1>2 DEF Status, Phases
  <2> QED
    BY <1>1, <1>5, <2>1, ConcludeType DEF FinishPlan
<1>6. CASE StartStep
  <2>1. StartedStatus \in Status /\ StepNo \in Nat
    BY <1>2 DEF StartedStatus, StepNo, Status
  <2>2. ServerType'
    BY <1>2, <1>6, <2>1, PutType DEF StartStep, TypeOK, ServerType
  <2>3. api'[worker.key] \in Version
    <3>1. PutStatus(worker.key, worker.copy, StartedStatus)
      BY <1>6 DEF StartStep
    <3>2. CASE UNCHANGED server
      BY <1>2, <3>1, <3>2 DEF PutStatus, IsCurrent, server, TypeOK
    <3>3. CASE Store(worker.key, [worker.copy EXCEPT !.status = StartedStatus])
      <4>1. api'[worker.key] = [[worker.copy EXCEPT !.status = StartedStatus]
                                  EXCEPT !.rv = rev[worker.key] + 1]
        BY <1>2, <3>3 DEF Store, TypeOK
      <4>2. rev[worker.key] + 1 \in Nat
        BY <1>2 DEF TypeOK
      <4> QED
        BY <1>2, <2>1, <4>1, <4>2 DEF Version
    <3> QED
      BY <3>1, <3>2, <3>3 DEF PutStatus
  <2>4. worker' \in Reconciling
    BY <1>1, <1>6, <2>3, WorkerType DEF StartStep, InPhase, Reconciling
  <2>5. started' \in [Plans -> SUBSET Nat]
    BY <1>2, <1>6, <2>1 DEF StartStep, TypeOK
  <2>6. repeats' \in Nat
    BY <1>6 DEF StartStep, TypeOK
  <2> QED
    BY <1>6, <2>2, <2>4, <2>5, <2>6 DEF StartStep, TypeOK, ServerType, operator, bounds
<1>7. CASE StartRefused
  <2>1. StartedStatus \in Status
    BY <1>2 DEF StartedStatus, Status
  <2>2. ServerType'
    BY <1>2, <1>7, <2>1, PutType DEF StartRefused, TypeOK, ServerType
  <2>3. faults' \in 0..MaxFaults
    BY <1>7, FaultsType DEF StartRefused, TypeOK
  <2>4. queue' \in [Plans -> {"none", "later", "now"}]
    BY <1>2, <1>7, RequeueType DEF StartRefused, TypeOK
  <2> QED
    BY <1>7, <2>2, <2>3, <2>4 DEF StartRefused, TypeOK, ServerType, operator, history
<1>8. CASE ReconcileFailed
  <2>1. [s EXCEPT !.phase = "RolledBack"] \in Status
    BY <1>2 DEF Status, Phases
  <2> QED
    BY <1>1, <1>8, <2>1, ConcludeType DEF ReconcileFailed
<1>9. CASE RecordResult
  <2>1. worker.result \in {"ok", "error", "rolledback"}
    BY <1>1, <1>9, WorkerType DEF RecordResult, Recording
  <2>2. ResultStatus(s, worker.result) \in Status
    BY <1>2, <2>1, ResultStatusType
  <2> QED
    BY <1>1, <1>9, <2>2, ConcludeType DEF RecordResult
<1> QED
  BY <1>3, <1>4, <1>5, <1>6, <1>7, <1>8, <1>9 DEF Reconcile

\* The executor's answer.
LEMMA ReturnType ==
    ASSUME TypeOK, worker.pc \in {"helm", "running"},
           NEW result \in {"ok", "error", "rolledback"}, Return(result),
           rel' \in [Releases -> Release]
    PROVE  TypeOK'
<1>1. worker \in Reconciling /\ worker.key \in Plans /\ worker.copy.status \in Status
  BY WorkerType
<1>2. worker' \in Recording
  BY <1>1 DEF Return, Reconciling, Recording
<1>3. StepNo \in Nat
  BY <1>1 DEF StepNo, Status
<1>4. done' \in [Plans -> SUBSET Nat]
  BY <1>3 DEF Return, TypeOK
<1> QED
  BY <1>2, <1>4 DEF Return, TypeOK, server, bounds, operator

\* A release keeps its type when its status or its version changes.
LEMMA ReleaseType ==
    ASSUME TypeOK, NEW release, NEW value \in {"absent", "deployed", "pending", "failed"}
    PROVE  [rel EXCEPT ![release].status = value] \in [Releases -> Release]
BY DEF TypeOK, Release

\* The version Helm installs is one because the step is one of the plan's.
LEMMA HelmType ==
    ASSUME TypeOK, RunningInv, Helm
    PROVE  TypeOK'
<1>1. rel \in [Releases -> Release]
  BY DEF TypeOK
<1>2. CASE PreflightFails
  BY <1>1, <1>2, ReturnType DEF PreflightFails
<1>3. CASE HelmRefuses
  BY <1>1, <1>3, ReturnType DEF HelmRefuses
<1>4. CASE HelmDryRuns
  BY <1>1, <1>4, ReturnType DEF HelmDryRuns
<1>5. CASE HelmBegins
  <2>1. rel' \in [Releases -> Release]
    BY <1>5, ReleaseType DEF HelmBegins
  <2>2. worker' \in Reconciling
    BY <1>5, WorkerType DEF HelmBegins, Reconciling
  <2> QED
    BY <1>5, <2>1, <2>2 DEF HelmBegins, TypeOK, server, operator, history, bounds
<1>6. CASE HelmSucceeds
  <2>1. worker.copy.tools \in Seq(Step) /\ StepNo \in DOMAIN worker.copy.tools
    BY <1>6, WorkerType, ListsType DEF HelmSucceeds, RunningInv
  <2>2. CurrentStep \in Step
    BY <2>1 DEF CurrentStep
  <2>3. [version |-> CurrentStep.target, status |-> "deployed"] \in Release
    BY <2>2 DEF Step, Release
  <2>4. rel' \in [Releases -> Release]
    BY <1>1, <1>6, <2>3 DEF HelmSucceeds
  <2> QED
    BY <1>6, <2>4, ReturnType DEF HelmSucceeds
<1>7. CASE HelmRollsBack
  <2>1. rel' \in [Releases -> Release]
    <3>1. PICK status \in {"deployed", "failed"} :
            rel' = [rel EXCEPT ![CurrentStep.release].status = status]
      BY <1>7 DEF HelmRollsBack
    <3> QED
      BY <3>1, ReleaseType
  <2> QED
    BY <1>7, <2>1, ReturnType DEF HelmRollsBack
<1> QED
  BY <1>2, <1>3, <1>4, <1>5, <1>6, <1>7 DEF Helm

\* A new start.
LEMMA StartType ==
    ASSUME TypeOK, Start, UNCHANGED <<api, rev, rel, history, edits, creations>>,
           faults' \in 0..MaxFaults
    PROVE  TypeOK'
<1>1. <<>> \in Seq(Version \union {NoPlan})
  OBVIOUS
<1>2. watch' \in [Plans -> Seq(Version \union {NoPlan})]
  BY <1>1 DEF Start
<1> QED
  BY <1>2 DEF Start, TypeOK, history

\* A crash and a new start.
LEMMA RestartType ==
    ASSUME TypeOK, Restart
    PROVE  TypeOK'
<1>1. faults' \in 0..MaxFaults
  BY BoundsAssumption DEF Restart, TypeOK
<1> QED
  BY <1>1, StartType DEF Restart

-----------------------------------------------------------------------------
(***************************************************************************)
(* Proofs about StackUpgrade: only approved plans run.  The argument is    *)
(* about copies.  A copy of a plan in the cache, in the watch or in the    *)
(* worker says something about the plan that is stored (CopyOf); the API   *)
(* server's rules make every write keep that true (Legal, KeepsCopies);    *)
(* and what the executor is given is such a copy, with a resourceVersion   *)
(* that was current when the write before the step was taken.              *)
(***************************************************************************)

\* No copy stops being one.
KeepsCopies == \A q \in Plans, v \in Version : CopyOf(q, v) => CopyOf(q, v)'

\* What the server lets a write of w to plan p do: an object created gets a new
\* uid, one that is updated keeps its uid and, once approved, its steps.
Legal(p, w) ==
    /\ PhaseApproved(w)
    /\ api[p] = NoPlan => w.uid = rev[p] + 1
    /\ api[p] # NoPlan =>
         /\ w.uid = api[p].uid
         /\ api[p].approved => w.approved /\ w.tools = api[p].tools

-----------------------------------------------------------------------------
(* Copies.                                                                 *)

\* A write that is legal keeps every copy of every plan a copy, and stores one.
LEMMA StoreCopies ==
    ASSUME ServerType, StoredInv, NEW p \in Plans, NEW w \in Version,
           Store(p, w), Legal(p, w)
    PROVE  KeepsCopies /\ StoredInv' /\ (WatchInv => WatchInv')
<1> DEFINE new == [w EXCEPT !.rv = rev[p] + 1]
<1>1. /\ rev[p] \in Nat /\ new \in Version /\ new # NoPlan
      /\ new.rv = rev[p] + 1 /\ new.uid = w.uid /\ new.approved = w.approved
      /\ new.tools = w.tools /\ new.status = w.status
  <2>1. rev[p] \in Nat /\ rev[p] + 1 \in Nat
    BY DEF ServerType
  <2>2. /\ new \in Version
        /\ new.rv = rev[p] + 1 /\ new.uid = w.uid /\ new.approved = w.approved
        /\ new.tools = w.tools /\ new.status = w.status
    BY <2>1 DEF Version
  <2> QED
    BY <2>1, <2>2, NoPlanAssumption
<1>2. /\ api'[p] = new /\ rev'[p] = rev[p] + 1
      /\ \A q \in Plans \ {p} : api'[q] = api[q] /\ rev'[q] = rev[q]
  BY <1>1 DEF ServerType, Store
<1>3. KeepsCopies
  <2> SUFFICES ASSUME NEW q \in Plans, NEW v \in Version, CopyOf(q, v)
               PROVE  CopyOf(q, v)'
    BY DEF KeepsCopies
  <2>1. CASE q # p
    BY <1>2, <2>1 DEF CopyOf, PhaseApproved
  <2>2. CASE q = p
    <3>1. v.rv \in Nat /\ v.uid \in Nat /\ v.rv <= rev[p] /\ v.uid <= rev[p]
      BY <2>2 DEF CopyOf, Version
    <3>2. v.rv <= rev'[p] /\ v.uid <= rev'[p] /\ v.rv # api'[p].rv
      BY <1>1, <1>2, <3>1
    <3>3. ASSUME v.uid = api'[p].uid, v.approved
          PROVE  api'[p].approved /\ v.tools = api'[p].tools
      <4>1. api[p] # NoPlan /\ v.uid = api[p].uid
        BY <1>1, <1>2, <3>1, <3>3 DEF Legal
      <4>2. api[p].approved /\ v.tools = api[p].tools
        BY <2>2, <3>3, <4>1 DEF CopyOf
      <4> QED
        BY <1>1, <1>2, <4>1, <4>2 DEF Legal
    <3> QED
      BY <2>2, <3>2, <3>3 DEF CopyOf, PhaseApproved
  <2> QED
    BY <2>1, <2>2
<1>4. new.uid <= rev[p] + 1
  <2>1. CASE api[p] = NoPlan
    BY <1>1, <2>1 DEF Legal
  <2>2. CASE api[p] # NoPlan
    <3>1. api[p] \in Version
      BY <2>2 DEF ServerType
    <3>2. api[p].uid <= rev[p] /\ api[p].uid \in Nat /\ w.uid = api[p].uid
      BY <2>2, <3>1 DEF StoredInv, CopyOf, Legal, Version
    <3> QED
      BY <1>1, <3>2
  <2> QED
    BY <2>1, <2>2
<1>5. /\ new.rv <= rev'[p] /\ new.uid <= rev'[p] /\ PhaseApproved(new)
      /\ api'[p] = new
  <2>1. PhaseApproved(new)
    BY <1>1 DEF Legal, PhaseApproved
  <2>2. new.rv <= rev'[p]
    BY <1>1, <1>2
  <2> QED
    BY <1>1, <1>2, <1>4, <2>1, <2>2
<1>6. StoredInv'
  <2> SUFFICES ASSUME NEW q \in Plans, api'[q] # NoPlan
               PROVE  CopyOf(q, api[q])'
    BY DEF StoredInv
  <2>1. CASE q = p
    BY <1>5, <2>1 DEF CopyOf, PhaseApproved
  <2>2. CASE q # p
    BY <1>2, <2>2 DEF StoredInv, CopyOf, PhaseApproved
  <2> QED
    BY <2>1, <2>2
<1>7. ASSUME WatchInv
      PROVE  WatchInv'
  <2> SUFFICES ASSUME NEW q \in Plans, NEW i \in DOMAIN watch'[q], watch'[q][i] # NoPlan
               PROVE  CopyOf(q, watch[q][i])'
    BY DEF WatchInv
  <2>1. watch[q] \in Seq(Version \union {NoPlan})
    BY DEF ServerType
  <2>2. CASE q = p /\ i = Len(watch[p]) + 1
    <3>1. watch'[q][i] = new
      BY <2>1, <2>2 DEF Store, ServerType
    <3> QED
      BY <1>5, <2>2, <3>1 DEF CopyOf, PhaseApproved
  <2>3. CASE ~(q = p /\ i = Len(watch[p]) + 1)
    <3>1. i \in DOMAIN watch[q] /\ watch'[q][i] = watch[q][i]
      <4>1. watch' = [watch EXCEPT ![p] = Append(watch[p], new)]
        BY DEF Store, ServerType
      <4>2. CASE q = p
        <5>1. watch'[q] = Append(watch[q], new)
          BY <4>1, <4>2 DEF ServerType
        <5>2. i # Len(watch[q]) + 1
          BY <2>3, <4>2
        <5> HIDE DEF new
        <5> QED
          BY <2>1, <5>1, <5>2
      <4>3. CASE q # p
        BY <4>1, <4>3 DEF ServerType
      <4> QED
        BY <4>2, <4>3
    <3>2. watch[q][i] \in Version /\ CopyOf(q, watch[q][i])
      BY <1>7, <2>1, <3>1 DEF WatchInv
    <3>3. PICK v \in Version : v = watch[q][i]
      BY <3>2
    <3>4. CopyOf(q, v)'
      BY <1>3, <3>2, <3>3 DEF KeepsCopies, CopyOf
    <3> QED
      BY <3>1, <3>3, <3>4 DEF CopyOf
  <2> QED
    BY <2>2, <2>3
<1> QED
  BY <1>3, <1>6, <1>7

\* A deletion keeps every copy a copy.
LEMMA DeleteCopies ==
    ASSUME ServerType, StoredInv, WatchInv, NEW p \in Plans, DeletePlan(p)
    PROVE  KeepsCopies /\ StoredInv' /\ WatchInv'
<1>1. /\ api'[p] = NoPlan /\ rev'[p] = rev[p] + 1 /\ rev[p] \in Nat
      /\ \A q \in Plans \ {p} : api'[q] = api[q] /\ rev'[q] = rev[q]
  BY DEF ServerType, DeletePlan
<1>2. KeepsCopies
  <2> SUFFICES ASSUME NEW q \in Plans, NEW v \in Version, CopyOf(q, v)
               PROVE  CopyOf(q, v)'
    BY DEF KeepsCopies
  <2>1. CASE q # p
    BY <1>1, <2>1 DEF CopyOf, PhaseApproved
  <2>2. CASE q = p
    <3>1. v.rv \in Nat /\ v.uid \in Nat /\ v.rv <= rev[p] /\ v.uid <= rev[p]
      BY <2>2 DEF CopyOf, Version
    <3>2. v.rv <= rev'[p] /\ v.uid <= rev'[p]
      BY <1>1, <3>1
    <3> QED
      BY <1>1, <2>2, <3>2 DEF CopyOf, PhaseApproved
  <2> QED
    BY <2>1, <2>2
<1>3. StoredInv'
  <2> SUFFICES ASSUME NEW q \in Plans, api'[q] # NoPlan
               PROVE  CopyOf(q, api[q])'
    BY DEF StoredInv
  <2>1. q # p
    BY <1>1
  <2>2. api'[q] = api[q] /\ rev'[q] = rev[q]
    BY <1>1, <2>1
  <2>3. CopyOf(q, api[q])
    BY <2>2 DEF StoredInv
  <2> QED
    BY <2>2, <2>3 DEF CopyOf, PhaseApproved
<1>4. WatchInv'
  <2> SUFFICES ASSUME NEW q \in Plans, NEW i \in DOMAIN watch'[q], watch'[q][i] # NoPlan
               PROVE  CopyOf(q, watch[q][i])'
    BY DEF WatchInv
  <2>1. watch[q] \in Seq(Version \union {NoPlan})
    BY DEF ServerType
  <2>2. i \in DOMAIN watch[q] /\ watch'[q][i] = watch[q][i]
    <3>1. watch'[q] = IF q = p THEN Append(watch[q], NoPlan) ELSE watch[q]
      BY DEF DeletePlan, ServerType
    <3> QED
      BY <2>1, <3>1
  <2>3. PICK v \in Version : v = watch[q][i]
    BY <2>1, <2>2
  <2>4. CopyOf(q, v)'
    BY <1>2, <2>2, <2>3 DEF KeepsCopies, WatchInv, CopyOf
  <2> QED
    BY <2>2, <2>3, <2>4 DEF CopyOf
<1> QED
  BY <1>2, <1>3, <1>4

\* A step that leaves the server keeps them too.
LEMMA SameCopies ==
    ASSUME UNCHANGED server
    PROVE  KeepsCopies /\ (StoredInv => StoredInv') /\ (WatchInv => WatchInv')
BY DEF server, KeepsCopies, StoredInv, WatchInv, CopyOf, PhaseApproved

\* The cache keeps its copies while the informer does nothing.
LEMMA CacheKept ==
    ASSUME TypeOK, CacheInv, KeepsCopies, UNCHANGED cache
    PROVE  CacheInv'
<1> SUFFICES ASSUME NEW q \in Plans, cache'[q] # NoPlan
             PROVE  CopyOf(q, cache[q])'
  BY DEF CacheInv
<1>1. PICK v \in Version : v = cache[q]
  BY DEF TypeOK
<1>2. CopyOf(q, v)'
  BY <1>1 DEF KeepsCopies, CacheInv, CopyOf
<1> QED
  BY <1>1, <1>2 DEF CopyOf

\* So does the worker, while it waits.
LEMMA WorkerKept ==
    ASSUME TypeOK, WorkerInv, KeepsCopies, worker'.pc # "idle" => worker.pc # "idle",
           worker'.key = worker.key, worker'.copy = worker.copy
    PROVE  WorkerInv'
<1> SUFFICES ASSUME worker'.pc # "idle"
             PROVE  CopyOf(worker.key, worker.copy)'
  BY DEF WorkerInv
<1>1. PICK q \in Plans, v \in Version : q = worker.key /\ v = worker.copy
  BY WorkerType
<1>2. CopyOf(q, v)'
  BY <1>1 DEF KeepsCopies, WorkerInv, CopyOf
<1> QED
  BY <1>1, <1>2 DEF CopyOf

-----------------------------------------------------------------------------
(* Users and the approve handler.                                          *)

\* What they do to the server: nothing, a deletion, or a legal write that leaves
\* the status of the object as it is.
LEMMA UserWrites ==
    ASSUME TypeOK, StoredInv, NEW p \in Plans, Users(p) \/ Approve(p)
    PROVE  /\ UNCHANGED <<cache, worker>>
           /\ \/ UNCHANGED server
              \/ DeletePlan(p)
              \/ \E w \in Version : /\ Store(p, w) /\ Legal(p, w)
                                    /\ api[p] # NoPlan => w.status = api[p].status
<1>1. api[p] # NoPlan => api[p] \in Version /\ PhaseApproved(api[p])
  BY DEF TypeOK, StoredInv, CopyOf
<1>2. CASE CreatePlan(p)
  <2>1. PICK tools \in ToolLists, approved \in BOOLEAN :
          Store(p, [uid |-> rev[p] + 1, rv |-> 0, approved |-> approved,
                    tools |-> tools, status |-> NewStatus])
    BY <1>2 DEF CreatePlan
  <2> DEFINE w == [uid |-> rev[p] + 1, rv |-> 0, approved |-> approved,
                   tools |-> tools, status |-> NewStatus]
  <2>2. w \in Version
    <3>1. NewStatus \in Status
      BY DEF Status, NewStatus, Phases
    <3>2. rev[p] + 1 \in Nat /\ 0 \in Nat
      BY DEF TypeOK
    <3> QED
      BY <3>1, <3>2 DEF Version
  <2>3. Legal(p, w) /\ api[p] = NoPlan
    BY <1>2 DEF CreatePlan, Legal, PhaseApproved, NewStatus
  <2> QED
    BY <1>2, <2>1, <2>2, <2>3 DEF CreatePlan
<1>3. CASE EditPlan(p)
  <2>1. PICK tools \in ToolLists, approved \in BOOLEAN :
          Store(p, [api[p] EXCEPT !.tools = tools, !.approved = approved])
    BY <1>3 DEF EditPlan
  <2> DEFINE w == [api[p] EXCEPT !.tools = tools, !.approved = approved]
  <2>2. w \in Version /\ w.status = api[p].status /\ w.uid = api[p].uid
    BY <1>1, <1>3 DEF EditPlan, Version
  <2>3. ~api[p].approved /\ api[p] # NoPlan
    BY <1>3 DEF EditPlan, MayChange
  <2>4. Legal(p, w)
    BY <1>1, <2>2, <2>3 DEF Legal, PhaseApproved
  <2> QED
    BY <1>3, <2>1, <2>2, <2>4 DEF EditPlan
<1>4. CASE TouchPlan(p)
  <2>1. api[p] # NoPlan /\ Store(p, api[p])
    BY <1>4 DEF TouchPlan
  <2>2. Legal(p, api[p])
    BY <1>1, <2>1 DEF Legal
  <2> QED
    BY <1>1, <1>4, <2>1, <2>2 DEF TouchPlan
<1>5. CASE DeletePlan(p)
  BY <1>5 DEF DeletePlan
<1>6. CASE ApprovePatch(p) /\ api[p] # NoPlan /\ ~api[p].approved
  <2> DEFINE w == [api[p] EXCEPT !.approved = TRUE]
  <2>1. w \in Version /\ w.status = api[p].status /\ w.uid = api[p].uid /\ w.approved
    BY <1>1, <1>6 DEF Version
  <2>2. Legal(p, w)
    BY <1>6, <2>1 DEF Legal, PhaseApproved
  <2> QED
    BY <1>6, <2>1, <2>2 DEF ApprovePatch
<1>7. CASE ApprovePatch(p) /\ ~(api[p] # NoPlan /\ ~api[p].approved)
  BY <1>7 DEF ApprovePatch
<1>8. CASE ApproveGet(p) \/ ApproveFails(p)
  BY <1>8 DEF ApproveGet, ApproveFails
<1> QED
  BY <1>2, <1>3, <1>4, <1>5, <1>6, <1>7, <1>8 DEF Users, Approve

\* SideInv without the types.
HeldInv == StoredInv /\ CacheInv /\ WatchInv /\ WorkerInv /\ RunningInv

\* What every step does: it keeps all copies, and the copies the operator holds;
\* and, where the stored plan is locked, it leaves that so.
KeepsInv == KeepsCopies /\ HeldInv' /\ (LockedInv => LockedInv')

\* Nothing users do disturbs the plan the executor works on: an approved object
\* keeps its steps, its status is the controller's, and another object that
\* takes its name has another uid.
LEMMA UsersInv ==
    ASSUME SideInv, NEW p \in Plans, Users(p) \/ Approve(p)
    PROVE  KeepsInv
<1>1. TypeOK /\ StoredInv /\ CacheInv /\ WatchInv /\ WorkerInv /\ RunningInv /\ ServerType
  BY DEF SideInv, TypeOK, ServerType
<1>2. UNCHANGED <<cache, worker>>
  BY <1>1, UserWrites
<1> DEFINE KeepsStatus ==
             \A q \in Plans : api'[q] # NoPlan =>
               \/ api[q] # NoPlan /\ api'[q].uid = api[q].uid /\ api'[q].status = api[q].status
               \/ api[q] = NoPlan /\ api'[q].uid = rev[q] + 1
<1>3. KeepsCopies /\ StoredInv' /\ WatchInv' /\ KeepsStatus
  <2>1. CASE UNCHANGED server
    BY <1>1, <2>1, SameCopies DEF server
  <2>2. CASE DeletePlan(p)
    BY <1>1, <2>2, DeleteCopies DEF DeletePlan, ServerType
  <2>3. CASE \E w \in Version : /\ Store(p, w) /\ Legal(p, w)
                                /\ api[p] # NoPlan => w.status = api[p].status
    <3>0. PICK w \in Version : /\ Store(p, w) /\ Legal(p, w)
                               /\ api[p] # NoPlan => w.status = api[p].status
      BY <2>3
    <3>1. KeepsCopies /\ StoredInv' /\ WatchInv'
      BY <1>1, <3>0, StoreCopies
    <3>2. /\ api'[p].uid = w.uid /\ api'[p].status = w.status
          /\ \A q \in Plans \ {p} : api'[q] = api[q]
      BY <1>1, <3>0 DEF Store, ServerType, Version
    <3> QED
      BY <3>0, <3>1, <3>2 DEF Legal
  <2>4. \/ UNCHANGED server
        \/ DeletePlan(p)
        \/ \E w \in Version : /\ Store(p, w) /\ Legal(p, w)
                              /\ api[p] # NoPlan => w.status = api[p].status
    BY <1>1, UserWrites
  <2> HIDE DEF KeepsStatus
  <2> QED
    BY <2>1, <2>2, <2>3, <2>4
<1>4. CacheInv' /\ WorkerInv'
  BY <1>1, <1>2, <1>3, CacheKept, WorkerKept
<1>5. RunningInv'
  BY <1>1, <1>2 DEF RunningInv, StepNo
<1>6. LockedInv => LockedInv'
  <2> SUFFICES ASSUME LockedInv, worker.pc \in {"helm", "running", "record"},
                      api'[worker.key] # NoPlan, api'[worker.key].uid = worker.copy.uid
               PROVE  api'[worker.key].status = worker.copy.status
    BY <1>2 DEF LockedInv
  <2>1. /\ worker.key \in Plans /\ worker.copy.uid \in Nat
        /\ rev[worker.key] \in Nat /\ worker.copy.uid <= rev[worker.key]
    BY <1>1, WorkerType DEF TypeOK, Version, WorkerInv, CopyOf
  <2>2. api[worker.key] # NoPlan /\ api'[worker.key].uid = api[worker.key].uid
        /\ api'[worker.key].status = api[worker.key].status
    BY <1>3, <2>1
  <2> QED
    BY <2>2 DEF LockedInv
<1> QED
  BY <1>3, <1>4, <1>5, <1>6 DEF KeepsInv, HeldInv

-----------------------------------------------------------------------------
(* The informer, the queue and a restart: copies move.                     *)

\* What the informer delivers and a reconcile reads are copies.
LEMMA InformerInv ==
    ASSUME SideInv, NEW p \in Plans, Informer(p) \/ Begin(p)
    PROVE  KeepsInv
<1>1. TypeOK /\ StoredInv /\ CacheInv /\ WatchInv /\ WorkerInv /\ RunningInv
  BY DEF SideInv
<1>2. api' = api /\ rev' = rev
  BY DEF Informer, Deliver, Relist, FallsDue, Begin, server
<1>3. KeepsCopies /\ StoredInv'
  BY <1>1, <1>2 DEF KeepsCopies, StoredInv, CopyOf, PhaseApproved
<1>4. CASE Deliver(p)
  <2>1. watch[p] \in Seq(Version \union {NoPlan}) /\ watch[p] # <<>>
    BY <1>1, <1>4 DEF Deliver, TypeOK
  <2>2. CacheInv'
    <3> SUFFICES ASSUME NEW q \in Plans, cache'[q] # NoPlan
                 PROVE  CopyOf(q, cache[q])'
      BY DEF CacheInv
    <3>1. CASE q = p
      <4>1. 1 \in DOMAIN watch[p] /\ cache'[p] = watch[p][1]
        BY <1>1, <1>4, <2>1 DEF Deliver, TypeOK
      <4>2. CopyOf(p, watch[p][1])
        BY <1>1, <3>1, <4>1 DEF WatchInv
      <4> QED
        BY <1>2, <3>1, <4>1, <4>2 DEF CopyOf, PhaseApproved
    <3>2. CASE q # p
      <4>1. cache'[q] = cache[q]
        BY <1>1, <1>4, <3>2 DEF Deliver, TypeOK
      <4> QED
        BY <1>1, <1>2, <4>1 DEF CacheInv, CopyOf, PhaseApproved
    <3> QED
      BY <3>1, <3>2
  <2>3. WatchInv'
    <3> SUFFICES ASSUME NEW q \in Plans, NEW i \in DOMAIN watch'[q], watch'[q][i] # NoPlan
                 PROVE  CopyOf(q, watch[q][i])'
      BY DEF WatchInv
    <3>1. PICK j \in DOMAIN watch[q] : watch'[q][i] = watch[q][j]
      <4>1. CASE q = p
        <5>1. watch'[q] = Tail(watch[q])
          BY <1>1, <1>4, <4>1 DEF Deliver, TypeOK
        <5>2. i + 1 \in DOMAIN watch[q] /\ watch'[q][i] = watch[q][i + 1]
          BY <2>1, <4>1, <5>1
        <5> QED
          BY <5>2
      <4>2. CASE q # p
        BY <1>1, <1>4, <4>2 DEF Deliver, TypeOK
      <4> QED
        BY <4>1, <4>2
    <3>2. CopyOf(q, watch'[q][i])
      BY <1>1, <3>1 DEF WatchInv
    <3> QED
      BY <1>2, <3>2 DEF CopyOf, PhaseApproved
  <2> QED
    BY <1>1, <1>2, <1>3, <1>4, <2>2, <2>3
       DEF Deliver, KeepsInv, HeldInv, WorkerInv, RunningInv, LockedInv, CopyOf,
           PhaseApproved, StepNo
<1>5. CASE Relist(p)
  <2>1. CacheInv'
    <3> SUFFICES ASSUME NEW q \in Plans, cache'[q] # NoPlan
                 PROVE  CopyOf(q, cache[q])'
      BY DEF CacheInv
    <3>1. cache'[q] = IF q = p THEN api[q] ELSE cache[q]
      BY <1>1, <1>5 DEF Relist, TypeOK
    <3>2. CopyOf(q, cache'[q])
      BY <1>1, <3>1 DEF StoredInv, CacheInv
    <3> QED
      BY <1>2, <3>2 DEF CopyOf, PhaseApproved
  <2>2. WatchInv'
    <3> SUFFICES ASSUME NEW q \in Plans, NEW i \in DOMAIN watch'[q], watch'[q][i] # NoPlan
                 PROVE  CopyOf(q, watch[q][i])'
      BY DEF WatchInv
    <3>1. i \in DOMAIN watch[q] /\ watch'[q][i] = watch[q][i]
      BY <1>1, <1>5 DEF Relist, TypeOK
    <3>2. CopyOf(q, watch'[q][i])
      BY <1>1, <3>1 DEF WatchInv
    <3> QED
      BY <1>2, <3>2 DEF CopyOf, PhaseApproved
  <2> QED
    BY <1>1, <1>2, <1>3, <1>5, <2>1, <2>2
       DEF Relist, KeepsInv, HeldInv, WorkerInv, RunningInv, LockedInv, CopyOf,
           PhaseApproved, StepNo
<1>6. CASE FallsDue(p)
  <2>1. UNCHANGED <<server, cache, worker>>
    BY <1>6 DEF FallsDue
  <2>2. CacheInv' /\ WatchInv' /\ WorkerInv'
    BY <1>1, <2>1, SameCopies, CacheKept, WorkerKept
  <2> QED
    BY <1>1, <1>2, <1>3, <2>1, <2>2 DEF KeepsInv, HeldInv, RunningInv, LockedInv, StepNo
<1>7. CASE Begin(p)
  <2>1. CacheInv' /\ WatchInv'
    BY <1>1, <1>7, SameCopies, CacheKept DEF Begin
  <2>2. WorkerInv' /\ RunningInv' /\ LockedInv'
    <3>1. CASE worker' = Idle
      BY <3>1 DEF Idle, WorkerInv, RunningInv, LockedInv
    <3>2. CASE worker' = [pc |-> "reconcile", key |-> p, copy |-> cache[p],
                          result |-> "none"] /\ cache[p] # NoPlan
      BY <1>1, <1>2, <3>2
         DEF CacheInv, WorkerInv, RunningInv, LockedInv, CopyOf, PhaseApproved
    <3> QED
      BY <1>7, <3>1, <3>2 DEF Begin
  <2> QED
    BY <1>3, <2>1, <2>2 DEF KeepsInv, HeldInv
<1> QED
  BY <1>4, <1>5, <1>6, <1>7 DEF Informer

\* An operator that starts lists the stored plans.
LEMMA StartInv ==
    ASSUME SideInv, Start, UNCHANGED <<api, rev>>
    PROVE  KeepsInv
<1>1. TypeOK /\ StoredInv
  BY DEF SideInv
<1>2. api' = api /\ rev' = rev /\ cache' = api /\ worker' = Idle
  BY DEF Start
<1>3. \A q \in Plans : watch'[q] = <<>>
  BY DEF Start
<1>4. KeepsCopies /\ StoredInv' /\ CacheInv'
  BY <1>1, <1>2 DEF KeepsCopies, StoredInv, CacheInv, CopyOf, PhaseApproved
<1>5. WatchInv'
  BY <1>3 DEF WatchInv
<1>6. WorkerInv' /\ RunningInv' /\ LockedInv'
  BY <1>2 DEF WorkerInv, RunningInv, LockedInv, Idle
<1> QED
  BY <1>4, <1>5, <1>6 DEF KeepsInv, HeldInv

-----------------------------------------------------------------------------
(* The reconciler.                                                         *)

\* A status write, taken or not: it is taken only when the worker's copy is the
\* stored version, and it takes a plan out of Pending only when that is approved.
LEMMA PutCopies ==
    ASSUME SideInv, worker.pc # "idle", NEW s \in Status,
           s.phase \notin {"", "Pending"} => worker.copy.approved,
           PutStatus(worker.key, worker.copy, s) \/ PutFails(worker.key, worker.copy, s)
    PROVE  KeepsCopies /\ StoredInv' /\ WatchInv'
<1> DEFINE w == [worker.copy EXCEPT !.status = s]
<1>1. /\ worker.key \in Plans /\ worker.copy \in Version /\ ServerType
      /\ StoredInv /\ WatchInv /\ CopyOf(worker.key, worker.copy)
  BY WorkerType DEF SideInv, TypeOK, ServerType, WorkerInv
<1>2. \/ UNCHANGED server
      \/ IsCurrent(worker.key, worker.copy) /\ Store(worker.key, w)
  <2>1. CASE PutStatus(worker.key, worker.copy, s)
    BY <2>1 DEF PutStatus
  <2>2. CASE PutFails(worker.key, worker.copy, s)
    <3>1. UNCHANGED server \/ PutStatus(worker.key, worker.copy, s)
      BY <2>2 DEF PutFails
    <3> QED
      BY <2>1, <3>1
  <2> QED
    BY <2>1, <2>2
<1>3. CASE UNCHANGED server
  BY <1>1, <1>3, SameCopies
<1>4. CASE IsCurrent(worker.key, worker.copy) /\ Store(worker.key, w)
  <2>1. /\ w \in Version /\ w.uid = worker.copy.uid /\ w.tools = worker.copy.tools
        /\ w.approved = worker.copy.approved /\ w.status = s
    BY <1>1 DEF Version
  <2>2. api[worker.key] # NoPlan /\ worker.copy = api[worker.key]
    BY <1>1, <1>4 DEF IsCurrent, CopyOf
  <2>3. Legal(worker.key, w)
    BY <2>1, <2>2 DEF Legal, PhaseApproved
  <2> QED
    BY <1>1, <1>4, <2>1, <2>3, StoreCopies
<1> QED
  BY <1>2, <1>3, <1>4

\* The last write of a reconcile leaves the worker idle.
LEMMA ConcludeInv ==
    ASSUME SideInv, worker.pc # "idle", NEW s \in Status, NEW again,
           s.phase \notin {"", "Pending"} => worker.copy.approved,
           Conclude(s, again)
    PROVE  KeepsInv
<1>1. KeepsCopies /\ StoredInv' /\ WatchInv'
  BY PutCopies DEF Conclude
<1>2. CacheInv'
  BY <1>1, CacheKept DEF Conclude, SideInv
<1>3. WorkerInv' /\ RunningInv' /\ LockedInv'
  BY DEF Conclude, WorkerInv, RunningInv, LockedInv, Idle
<1> QED
  BY <1>1, <1>2, <1>3 DEF KeepsInv, HeldInv

\* The write before a step is the one that matters: it is taken only from the
\* stored version, and the executor gets the version it made.
LEMMA StartStepInv ==
    ASSUME SideInv, StartStep
    PROVE  KeepsInv
<1> DEFINE p == worker.key
           v == worker.copy
<1>1. /\ worker.pc # "idle" /\ v.status.phase = "Upgrading"
      /\ StepNo \in DOMAIN v.tools /\ PutStatus(p, v, StartedStatus)
      /\ worker' = [worker EXCEPT !.pc = "helm", !.copy = api'[p]]
      /\ cache' = cache
  BY DEF StartStep, InPhase
<1>2. /\ p \in Plans /\ v \in Version /\ v.status \in Status /\ TypeOK
      /\ CopyOf(p, v) /\ CacheInv
  BY <1>1, WorkerType DEF SideInv, WorkerInv
<1>3. /\ StartedStatus \in Status /\ StartedStatus.phase = "Upgrading"
      /\ StartedStatus.step = v.status.step /\ v.approved
  BY <1>1, <1>2 DEF StartedStatus, Status, CopyOf, PhaseApproved
<1>4. KeepsCopies /\ StoredInv' /\ WatchInv'
  BY <1>1, <1>3, PutCopies
<1>5. CacheInv'
  BY <1>1, <1>2, <1>4, CacheKept
<1>6. /\ api'[p] # NoPlan /\ api'[p].status.phase = "Upgrading"
      /\ api'[p].status.step = v.status.step /\ api'[p].tools = v.tools
  <2>1. api[p] # NoPlan /\ v = api[p]
    BY <1>1, <1>2 DEF PutStatus, IsCurrent, CopyOf
  <2>2. CASE UNCHANGED server
    BY <1>1, <2>1, <2>2 DEF server
  <2>3. CASE Store(p, [v EXCEPT !.status = StartedStatus])
    <3> DEFINE w == [v EXCEPT !.status = StartedStatus]
               new == [w EXCEPT !.rv = rev[p] + 1]
    <3>1. w \in Version /\ w.status = StartedStatus /\ w.tools = v.tools
      BY <1>2, <1>3 DEF Version
    <3>2. rev[p] + 1 \in Nat /\ api'[p] = new
      <4>1. p \in Plans /\ api \in [Plans -> Version \union {NoPlan}] /\ rev[p] \in Nat
        BY <1>2 DEF TypeOK
      <4>2. api' = [api EXCEPT ![p] = new]
        BY <2>3 DEF Store
      <4> HIDE DEF new, p
      <4> QED
        BY <4>1, <4>2
    <3>3. new \in Version /\ new.status = w.status /\ new.tools = w.tools
      BY <3>1, <3>2 DEF Version
    <3> QED
      BY <1>3, <3>1, <3>2, <3>3, NoPlanAssumption
  <2> QED
    BY <1>1, <2>2, <2>3 DEF PutStatus
<1>7. /\ worker'.pc = "helm" /\ worker'.key = p /\ worker'.copy = api'[p]
  BY <1>1, WorkerType DEF SideInv, Reconciling, Recording
<1>8. WorkerInv'
  BY <1>2, <1>4, <1>6, <1>7 DEF WorkerInv, StoredInv
<1>9. RunningInv' /\ LockedInv'
  BY <1>1, <1>6, <1>7 DEF RunningInv, LockedInv, StepNo
<1> QED
  BY <1>4, <1>5, <1>8, <1>9 DEF KeepsInv, HeldInv

\* The handlers of the phases.
LEMMA ReconcileInv ==
    ASSUME SideInv, Reconcile
    PROVE  KeepsInv
<1> DEFINE s == worker.copy.status
           tools == worker.copy.tools
<1>1. worker.pc # "idle"
  BY DEF Reconcile, ReconcilePending, ReconcileApproved, FinishPlan, StartStep,
         StartRefused, ReconcileFailed, RecordResult, InPhase
<1>2. /\ s \in Status /\ tools \in ToolLists
      /\ s.phase \notin {"", "Pending"} => worker.copy.approved
  BY <1>1, WorkerType DEF SideInv, WorkerInv, CopyOf, PhaseApproved
<1>3. CASE ReconcilePending
  <2> DEFINE t == PendingStatus(worker.copy)
  <2>1. t \in Status /\ (t.phase \notin {"", "Pending"} => worker.copy.approved)
    BY <1>2 DEF PendingStatus, Status, Phases
  <2> QED
    BY <1>1, <1>3, <2>1, ConcludeInv DEF ReconcilePending
<1>4. CASE ReconcileApproved
  <2> DEFINE t == [s EXCEPT !.phase = "Upgrading", !.step = 0, !.total = Len(tools),
                            !.ready = "Upgrading"]
  <2>1. t \in Status /\ worker.copy.approved
    BY <1>2, <1>4, ListsType DEF ReconcileApproved, InPhase, Status, Phases
  <2> QED
    BY <1>1, <1>4, <2>1, ConcludeInv DEF ReconcileApproved
<1>5. CASE FinishPlan
  <2>1. /\ [s EXCEPT !.phase = "Succeeded", !.ready = "UpgradeComplete"] \in Status
        /\ worker.copy.approved
    BY <1>2, <1>5 DEF FinishPlan, InPhase, Status, Phases
  <2> QED
    BY <1>1, <1>5, <2>1, ConcludeInv DEF FinishPlan
<1>6. CASE StartStep
  BY <1>6, StartStepInv
<1>7. CASE StartRefused
  <2>1. StartedStatus \in Status /\ worker.copy.approved
    BY <1>2, <1>7 DEF StartRefused, InPhase, StartedStatus, Status
  <2>2. KeepsCopies /\ StoredInv' /\ WatchInv'
    BY <1>1, <1>7, <2>1, PutCopies DEF StartRefused
  <2>3. CacheInv'
    BY <1>7, <2>2, CacheKept DEF StartRefused, SideInv
  <2>4. WorkerInv' /\ RunningInv' /\ LockedInv'
    BY <1>7 DEF StartRefused, WorkerInv, RunningInv, LockedInv, Idle
  <2> QED
    BY <2>2, <2>3, <2>4 DEF KeepsInv, HeldInv
<1>8. CASE ReconcileFailed
  <2>1. [s EXCEPT !.phase = "RolledBack"] \in Status /\ worker.copy.approved
    BY <1>2, <1>8 DEF ReconcileFailed, InPhase, Status, Phases
  <2> QED
    BY <1>1, <1>8, <2>1, ConcludeInv DEF ReconcileFailed
<1>9. CASE RecordResult
  <2>1. worker.result \in {"ok", "error", "rolledback"} /\ worker.copy.approved
    BY <1>1, <1>2, <1>9, WorkerType DEF RecordResult, Recording, SideInv, RunningInv
  <2>2. ResultStatus(s, worker.result) \in Status
    BY <1>2, <2>1, ResultStatusType
  <2> QED
    BY <1>1, <1>9, <2>1, <2>2, ConcludeInv DEF RecordResult
<1> QED
  BY <1>3, <1>4, <1>5, <1>6, <1>7, <1>8, <1>9 DEF Reconcile

-----------------------------------------------------------------------------
(* The executor: it changes releases and the worker's pc, nothing else.    *)

\* Neither the plans nor the worker's copy change while Helm runs.
LEMMA HelmKeepsCopies ==
    ASSUME SideInv, Helm
    PROVE  KeepsInv
<1>1. /\ UNCHANGED <<server, cache>>
      /\ worker.pc \in {"helm", "running"} /\ worker'.pc \in {"running", "record"}
      /\ worker'.key = worker.key /\ worker'.copy = worker.copy
  <2>1. worker.pc \in {"helm", "running"}
    BY DEF Helm, PreflightFails, HelmRefuses, HelmDryRuns, HelmBegins, HelmSucceeds,
           HelmRollsBack
  <2>2. worker \in Reconciling
    BY <2>1, WorkerType DEF SideInv
  <2>3. CASE HelmBegins
    BY <2>1, <2>2, <2>3 DEF HelmBegins, Reconciling
  <2>4. CASE \E result \in {"ok", "error", "rolledback"} : Return(result)
    BY <2>1, <2>2, <2>4 DEF Return, Reconciling
  <2> QED
    BY <2>3, <2>4 DEF Helm, PreflightFails, HelmRefuses, HelmDryRuns, HelmSucceeds,
                      HelmRollsBack
<1>2. KeepsCopies /\ StoredInv' /\ CacheInv' /\ WatchInv' /\ WorkerInv'
  BY <1>1, SameCopies, CacheKept, WorkerKept DEF SideInv
<1>3. RunningInv' /\ (LockedInv => LockedInv')
  BY <1>1 DEF SideInv, RunningInv, LockedInv, StepNo, server
<1> QED
  BY <1>2, <1>3 DEF KeepsInv, HeldInv

-----------------------------------------------------------------------------
(* The invariant.                                                          *)

\* It holds initially: there is no plan.
LEMMA InitIInv == Init => IInv
BY InitType DEF Init, IInv, SideInv, StoredInv, CacheInv, WatchInv, WorkerInv, RunningInv,
                LockedInv, Idle

\* Every step keeps it.
LEMMA NextIInv == IInv /\ [Next]_vars => IInv'
<1> SUFFICES ASSUME IInv, [Next]_vars
             PROVE  TypeOK' /\ KeepsInv
  BY DEF IInv, SideInv, KeepsInv, HeldInv
<1>1. SideInv /\ TypeOK /\ RunningInv
  BY DEF IInv, SideInv
<1>2. ASSUME NEW p \in Plans, Users(p) \/ Approve(p)
      PROVE  TypeOK' /\ KeepsInv
  BY <1>1, <1>2, UsersType, ApproveType, UsersInv
<1>3. ASSUME NEW p \in Plans, Informer(p) \/ Begin(p)
      PROVE  TypeOK' /\ KeepsInv
  BY <1>1, <1>3, InformerType, InformerInv
<1>4. CASE Reconcile
  BY <1>1, <1>4, ReconcileType, ReconcileInv
<1>5. CASE Helm
  BY <1>1, <1>5, HelmType, HelmKeepsCopies
<1>6. CASE Restart
  BY <1>1, <1>6, RestartType, StartInv DEF Restart
<1>7. CASE UNCHANGED vars
  <2>1. UNCHANGED <<server, cache, worker>>
    BY <1>7 DEF vars, server
  <2>2. TypeOK'
    BY <1>1, <1>7 DEF vars, TypeOK
  <2>3. KeepsCopies /\ StoredInv' /\ CacheInv' /\ WatchInv' /\ WorkerInv'
    BY <1>1, <2>1, SameCopies, CacheKept, WorkerKept DEF SideInv
  <2>4. RunningInv' /\ (LockedInv => LockedInv')
    BY <1>1, <2>1 DEF RunningInv, LockedInv, StepNo, server
  <2> QED
    BY <2>2, <2>3, <2>4 DEF KeepsInv, HeldInv
<1> QED
  BY <1>2, <1>3, <1>4, <1>5, <1>6, <1>7 DEF Next

\* What an executor is given is past Pending, and as approved as the stored plan.
LEMMA SideSafe ==
    ASSUME SideInv, worker.pc \in {"helm", "running", "record"}
    PROVE  /\ worker.copy.approved
           /\ worker.copy.status.phase = "Upgrading"
           /\ api[worker.key] # NoPlan /\ api[worker.key].uid = worker.copy.uid =>
                /\ api[worker.key].approved
                /\ api[worker.key].tools = worker.copy.tools
<1>1. CopyOf(worker.key, worker.copy) /\ worker.copy.status.phase = "Upgrading"
  BY DEF SideInv, WorkerInv, RunningInv
<1>2. worker.copy.approved
  BY <1>1 DEF CopyOf, PhaseApproved
<1> QED
  BY <1>1, <1>2 DEF CopyOf

\* With one operator it is in the stored plan's status, too.
LEMMA IInvSafe == IInv => RunsApprovedPlan
BY SideSafe DEF IInv, LockedInv, RunsApprovedPlan

\* The inductive invariant holds of every behaviour.
THEOREM Invariance == Spec => []IInv
BY InitIInv, NextIInv, PTL DEF Spec

\* The state keeps its types: in particular the step the executor is given is
\* one of the plan's, so that Helm is never asked for a version out of range.
THEOREM TypeCorrect == Spec => []TypeOK
<1>1. IInv => TypeOK
  BY DEF IInv, SideInv
<1> QED
  BY <1>1, Invariance, PTL

\* The executor is only ever given approved plans, and as long as the object
\* exists it stays as the worker read it.
THEOREM Safety == Spec => []RunsApprovedPlan
BY Invariance, IInvSafe, PTL

-----------------------------------------------------------------------------
(* What the steps do to the stored plans.                                  *)

\* A status write changes the plan in the worker only, from the worker's copy.
LEMMA PutEffect ==
    ASSUME SideInv, worker.pc # "idle", NEW s \in Status,
           PutStatus(worker.key, worker.copy, s) \/ PutFails(worker.key, worker.copy, s),
           NEW q \in Plans
    PROVE  \/ api'[q] = api[q]
           \/ /\ q = worker.key /\ api[q] # NoPlan /\ api[q] = worker.copy
              /\ api'[q] # NoPlan /\ api'[q].status = s
              /\ api'[q].tools = worker.copy.tools /\ api'[q].approved = worker.copy.approved
              /\ api'[q].uid = worker.copy.uid
<1> DEFINE v == worker.copy
           w == [v EXCEPT !.status = s]
           new == [w EXCEPT !.rv = rev[worker.key] + 1]
<1>1. /\ worker.key \in Plans /\ v \in Version /\ CopyOf(worker.key, v)
      /\ api \in [Plans -> Version \union {NoPlan}] /\ rev[worker.key] + 1 \in Nat
  BY WorkerType DEF SideInv, TypeOK, WorkerInv
<1>2. \/ UNCHANGED server
      \/ IsCurrent(worker.key, v) /\ Store(worker.key, w)
  <2>1. CASE PutStatus(worker.key, v, s)
    BY <2>1 DEF PutStatus
  <2>2. CASE PutFails(worker.key, v, s)
    <3>1. UNCHANGED server \/ PutStatus(worker.key, v, s)
      BY <2>2 DEF PutFails
    <3> QED
      BY <2>1, <3>1
  <2> QED
    BY <2>1, <2>2
<1>3. CASE UNCHANGED server
  BY <1>3 DEF server
<1>4. CASE IsCurrent(worker.key, v) /\ Store(worker.key, w)
  <2>1. api[worker.key] # NoPlan /\ api[worker.key] = v
    BY <1>1, <1>4 DEF IsCurrent, CopyOf
  <2>2. /\ new.status = s /\ new.tools = v.tools /\ new.approved = v.approved
        /\ new.uid = v.uid /\ new # NoPlan
    <3>1. new \in Version /\ new.status = s /\ new.tools = v.tools
          /\ new.approved = v.approved /\ new.uid = v.uid
      BY <1>1 DEF Version
    <3> QED
      BY <3>1, NoPlanAssumption
  <2>3. api' = [api EXCEPT ![worker.key] = new]
    BY <1>4 DEF Store
  <2>4. CASE q = worker.key
    <3>1. api'[q] = new
      BY <1>1, <2>3, <2>4
    <3> QED
      BY <2>1, <2>2, <2>4, <3>1
  <2>5. CASE q # worker.key
    BY <1>1, <2>3, <2>5
  <2> QED
    BY <2>4, <2>5
<1> QED
  BY <1>2, <1>3, <1>4

\* Users create plans that have not begun, and leave the status of the others
\* and, once they are approved, their steps.
LEMMA UserEffect ==
    ASSUME SideInv, NEW p \in Plans, Users(p) \/ Approve(p),
           NEW q \in Plans, api'[q] # NoPlan
    PROVE  \/ /\ api[q] = NoPlan /\ api'[q].uid = rev[q] + 1
              /\ api'[q].status = NewStatus
           \/ /\ api[q] # NoPlan /\ api'[q].uid = api[q].uid
              /\ api'[q].status = api[q].status
              /\ api[q].approved => api'[q].tools = api[q].tools
              /\ done'[q] = done[q]
<1>1. /\ TypeOK /\ StoredInv
      /\ api \in [Plans -> Version \union {NoPlan}] /\ rev[p] + 1 \in Nat
      /\ done \in [Plans -> SUBSET Nat]
  BY DEF SideInv, TypeOK
<1>2. \A r \in Plans : r # p => done'[r] = done[r]
  BY <1>1 DEF Users, Approve, CreatePlan, EditPlan, TouchPlan, DeletePlan, ApproveGet,
             ApprovePatch, ApproveFails, history
<1>3. CASE CreatePlan(p)
  <2>1. PICK w \in Version : Store(p, w) /\ w.uid = rev[p] + 1 /\ w.status = NewStatus
    <3>1. PICK tools \in ToolLists, approved \in BOOLEAN :
            Store(p, [uid |-> rev[p] + 1, rv |-> 0, approved |-> approved,
                      tools |-> tools, status |-> NewStatus])
      BY <1>3 DEF CreatePlan
    <3>2. NewStatus \in Status
      BY DEF Status, NewStatus, Phases
    <3>3. [uid |-> rev[p] + 1, rv |-> 0, approved |-> approved,
           tools |-> tools, status |-> NewStatus] \in Version
      BY <1>1, <3>2 DEF Version
    <3> QED
      BY <3>1, <3>3
  <2>2. /\ api'[p].uid = rev[p] + 1 /\ api'[p].status = NewStatus
        /\ \A r \in Plans \ {p} : api'[r] = api[r]
    BY <1>1, <2>1 DEF Store, Version
  <2>3. api[p] = NoPlan
    BY <1>3 DEF CreatePlan
  <2> QED
    BY <1>2, <2>2, <2>3
<1>4. CASE ~CreatePlan(p)
  <2>1. done' = done
    BY <1>4 DEF Users, Approve, EditPlan, TouchPlan, DeletePlan, ApproveGet,
                ApprovePatch, ApproveFails, history
  <2>2. CASE UNCHANGED server
    BY <2>1, <2>2 DEF server
  <2>3. CASE DeletePlan(p)
    BY <1>1, <2>1, <2>3 DEF DeletePlan
  <2>4. ASSUME NEW w \in Version, Store(p, w), Legal(p, w),
               api[p] # NoPlan => w.status = api[p].status, api[p] # NoPlan
        PROVE  \/ q # p /\ api'[q] = api[q]
               \/ /\ q = p /\ api'[q].uid = api[q].uid /\ api'[q].status = api[q].status
                  /\ api[q].approved => api'[q].tools = api[q].tools
    BY <1>1, <2>4 DEF Store, Legal, Version
  <2>5. \/ UNCHANGED server
        \/ DeletePlan(p)
        \/ \E w \in Version : /\ Store(p, w) /\ Legal(p, w)
                              /\ api[p] # NoPlan => w.status = api[p].status
    BY <1>1, UserWrites
  <2>6. api[p] # NoPlan \/ UNCHANGED server
    BY <1>4 DEF Users, Approve, EditPlan, TouchPlan, DeletePlan, ApproveGet,
                ApprovePatch, ApproveFails, server
  <2> QED
    BY <2>1, <2>2, <2>3, <2>4, <2>5, <2>6
<1> QED
  BY <1>3, <1>4

\* Only the reconciler, the users and a crash do anything about plans; Helm only
\* adds to what was carried out.
LEMMA HelmEffect ==
    ASSUME SideInv, Helm
    PROVE  /\ UNCHANGED <<api, dryRun>>
           /\ worker'.key = worker.key /\ worker'.copy = worker.copy
           /\ \A q \in Plans : done[q] \subseteq done'[q]
<1>1. worker \in Reconciling /\ done \in [Plans -> SUBSET Nat]
  BY WorkerType DEF SideInv, TypeOK, Helm, PreflightFails, HelmRefuses, HelmDryRuns, HelmBegins,
                    HelmSucceeds, HelmRollsBack
<1>2. CASE HelmBegins
  BY <1>1, <1>2 DEF HelmBegins, Reconciling, server, operator, history
<1>3. CASE \E result : Return(result)
  BY <1>1, <1>3 DEF Return, Reconciling, server, operator
<1> QED
  BY <1>2, <1>3 DEF Helm, PreflightFails, HelmRefuses, HelmDryRuns, HelmSucceeds, HelmRollsBack

-----------------------------------------------------------------------------
(* A result holds until it is recorded.                                    *)

Carried == worker.pc = "record" /\ worker.result = "ok"

\* A step that was carried out belongs to the stored object, if that is still
\* the worker's ...
DoneInv ==
    Carried /\ api[worker.key] # NoPlan /\ api[worker.key].uid = worker.copy.uid
    => StepNo \in done[worker.key]

\* ... and, while only one operator runs Helm, its release is as Helm left it.
DeployedInv ==
    Carried /\ ~dryRun => Target = [version |-> CurrentStep.target, status |-> "deployed"]

\* What holds of one operator, beside another one or not.
CarriedInv == SideInv /\ StepsCarriedOut /\ DoneInv

SInv == CarriedInv /\ LockedInv /\ DeployedInv

KeepsResults == StepsCarriedOut' /\ DoneInv' /\ (DeployedInv => DeployedInv')

\* Users do not touch releases, and an object they create has a new uid.
LEMMA UsersResult ==
    ASSUME CarriedInv, NEW p \in Plans, Users(p) \/ Approve(p)
    PROVE  KeepsResults
<1>1. SideInv /\ StepsCarriedOut /\ DoneInv /\ api \in [Plans -> Version \union {NoPlan}]
  BY DEF CarriedInv, SideInv, TypeOK
<1>2. StepsCarriedOut'
  <2> SUFFICES ASSUME NEW q \in Plans, api'[q] # NoPlan
               PROVE  /\ 1..api'[q].status.step \subseteq done'[q]
                      /\ api'[q].status.phase = "Succeeded"
                         => DOMAIN api'[q].tools \subseteq done'[q]
    BY DEF StepsCarriedOut
  <2>1. CASE api[q] = NoPlan
    <3>1. api'[q].status = NewStatus
      BY <1>1, <2>1, UserEffect
    <3>2. NewStatus.step = 0 /\ NewStatus.phase = ""
      BY DEF NewStatus
    <3>3. 1..0 = {}
      OBVIOUS
    <3> QED
      BY <3>1, <3>2, <3>3
  <2>2. CASE api[q] # NoPlan
    <3>1. /\ api'[q].status = api[q].status /\ done'[q] = done[q]
          /\ api[q].approved => api'[q].tools = api[q].tools
      BY <1>1, <2>2, UserEffect
    <3>2. api[q].status.phase = "Succeeded" => api[q].approved
      BY <1>1, <2>2 DEF SideInv, StoredInv, CopyOf, PhaseApproved
    <3> QED
      BY <1>1, <2>2, <3>1, <3>2 DEF StepsCarriedOut
  <2> QED
    BY <2>1, <2>2
<1>3. DoneInv' /\ (DeployedInv => DeployedInv')
  <2>1. UNCHANGED <<worker, rel, dryRun>>
    BY DEF Users, Approve, CreatePlan, EditPlan, TouchPlan, DeletePlan, ApproveGet,
           ApprovePatch, ApproveFails, operator
  <2>2. SUFFICES ASSUME Carried, api'[worker.key] # NoPlan,
                        api'[worker.key].uid = worker.copy.uid
                 PROVE  StepNo \in done'[worker.key]
    BY <2>1 DEF DoneInv, DeployedInv, Carried, StepNo, Target, CurrentStep
  <2>3. /\ worker.key \in Plans /\ worker.copy.uid \in Nat
        /\ rev[worker.key] \in Nat /\ worker.copy.uid <= rev[worker.key]
    BY <1>1, <2>2, WorkerType DEF Carried, SideInv, TypeOK, Version, WorkerInv, CopyOf
  <2>4. /\ api[worker.key] # NoPlan /\ api'[worker.key].uid = api[worker.key].uid
        /\ done'[worker.key] = done[worker.key]
    <3>1. api'[worker.key].uid # rev[worker.key] + 1
      BY <2>2, <2>3
    <3> QED
      BY <1>1, <2>2, <2>3, <3>1, UserEffect
  <2> QED
    BY <1>1, <2>2, <2>4 DEF DoneInv
<1> QED
  BY <1>2, <1>3 DEF KeepsResults

\* A status write keeps StepsCarriedOut when every step before the new
\* currentStep, and on success every step, was carried out.
LEMMA PutCarriedOut ==
    ASSUME SideInv, StepsCarriedOut, worker.pc # "idle", NEW s \in Status,
           PutStatus(worker.key, worker.copy, s) \/ PutFails(worker.key, worker.copy, s),
           UNCHANGED done,
           api[worker.key] # NoPlan /\ api[worker.key] = worker.copy =>
             /\ 1..s.step \subseteq done[worker.key]
             /\ s.phase = "Succeeded" => DOMAIN worker.copy.tools \subseteq done[worker.key]
    PROVE  StepsCarriedOut'
<1> SUFFICES ASSUME NEW q \in Plans, api'[q] # NoPlan
             PROVE  /\ 1..api'[q].status.step \subseteq done[q]
                    /\ api'[q].status.phase = "Succeeded"
                       => DOMAIN api'[q].tools \subseteq done[q]
  BY DEF StepsCarriedOut
<1>1. CASE api'[q] = api[q]
  BY <1>1 DEF StepsCarriedOut
<1>2. CASE api'[q] # api[q]
  <2>1. /\ q = worker.key /\ api[q] # NoPlan /\ api[q] = worker.copy
        /\ api'[q].status = s /\ api'[q].tools = worker.copy.tools
    BY <1>2, PutEffect
  <2> QED
    BY <2>1
<1> QED
  BY <1>1, <1>2

\* The reconciler raises currentStep by the step that was carried out, and is
\* done with a plan when there is no step left.
LEMMA ReconcileResult ==
    ASSUME CarriedInv, Reconcile
    PROVE  KeepsResults
<1> DEFINE v == worker.copy
           s == v.status
<1>1. SideInv /\ StepsCarriedOut /\ DoneInv
  BY DEF CarriedInv
<1>2. worker.pc # "idle"
  BY DEF Reconcile, ReconcilePending, ReconcileApproved, FinishPlan, StartStep,
         StartRefused, ReconcileFailed, RecordResult, InPhase
<1>3. worker.key \in Plans /\ s \in Status /\ v.tools \in ToolLists /\ s.step \in Nat
  BY <1>1, <1>2, WorkerType DEF SideInv, Status
<1>4. api[worker.key] # NoPlan /\ api[worker.key] = v => 1..s.step \subseteq done[worker.key]
  BY <1>1, <1>3 DEF StepsCarriedOut
<1>5. ASSUME NEW t \in Status, NEW again, Conclude(t, again),
             api[worker.key] # NoPlan /\ api[worker.key] = v =>
               /\ 1..t.step \subseteq done[worker.key]
               /\ t.phase = "Succeeded" => DOMAIN v.tools \subseteq done[worker.key]
      PROVE  KeepsResults
  <2>1. worker' = Idle /\ done' = done
    BY <1>5 DEF Conclude, history
  <2>2. DoneInv' /\ DeployedInv'
    BY <2>1 DEF DoneInv, DeployedInv, Carried, Idle
  <2> QED
    BY <1>1, <1>2, <1>5, <2>1, <2>2, PutCarriedOut DEF Conclude, KeepsResults
<1>6. CASE ReconcilePending
  <2>1. /\ PendingStatus(v) \in Status /\ PendingStatus(v).step = s.step
        /\ PendingStatus(v).phase # "Succeeded"
    BY <1>3 DEF PendingStatus, Status, Phases
  <2> QED
    BY <1>4, <1>5, <1>6, <2>1 DEF ReconcilePending
<1>7. CASE ReconcileApproved
  <2> DEFINE t == [s EXCEPT !.phase = "Upgrading", !.step = 0, !.total = Len(v.tools),
                            !.ready = "Upgrading"]
  <2>1. t \in Status /\ t.step = 0 /\ t.phase = "Upgrading"
    BY <1>3, ListsType DEF Status, Phases
  <2>2. 1..t.step = {}
    BY <2>1
  <2> HIDE DEF t
  <2>3. Conclude(t, TRUE)
    BY <1>7 DEF ReconcileApproved, t
  <2> QED
    BY <1>5, <2>1, <2>2, <2>3
<1>8. CASE FinishPlan
  <2> DEFINE t == [s EXCEPT !.phase = "Succeeded", !.ready = "UpgradeComplete"]
  <2>1. t \in Status /\ t.step = s.step
    BY <1>3 DEF Status, Phases
  <2>2. DOMAIN v.tools \subseteq 1..s.step
    BY <1>3, <1>8, ListsType DEF FinishPlan
  <2> HIDE DEF t
  <2>3. Conclude(t, FALSE)
    BY <1>8 DEF FinishPlan, t
  <2> QED
    BY <1>4, <1>5, <2>1, <2>2, <2>3
<1>9. CASE StartStep \/ StartRefused
  <2>1. /\ StartedStatus \in Status /\ StartedStatus.step = s.step
        /\ StartedStatus.phase # "Succeeded"
    BY <1>3, <1>9 DEF StartStep, StartRefused, InPhase, StartedStatus, Status
  <2>2. /\ PutStatus(worker.key, v, StartedStatus) \/ PutFails(worker.key, v, StartedStatus)
        /\ done' = done
    BY <1>9 DEF StartStep, StartRefused, history
  <2>3. StepsCarriedOut'
    BY <1>1, <1>2, <1>4, <2>1, <2>2, PutCarriedOut
  <2>4. worker'.pc # "record"
    <3>1. CASE StartRefused
      BY <3>1 DEF StartRefused, Idle
    <3>2. CASE StartStep
      <4>1. worker' = [worker EXCEPT !.pc = "helm", !.copy = api'[worker.key]]
        BY <3>2 DEF StartStep
      <4>2. worker \in Reconciling \union Recording
        BY <1>1, <1>2, WorkerType DEF SideInv
      <4> QED
        BY <4>1, <4>2 DEF Reconciling, Recording
    <3> QED
      BY <1>9, <3>1, <3>2
  <2> QED
    BY <2>3, <2>4 DEF KeepsResults, DoneInv, DeployedInv, Carried
<1>10. CASE ReconcileFailed
  <2> DEFINE t == [s EXCEPT !.phase = "RolledBack"]
  <2>1. t \in Status /\ t.step = s.step /\ t.phase # "Succeeded"
    BY <1>3 DEF Status, Phases
  <2> HIDE DEF t
  <2>2. Conclude(t, FALSE)
    BY <1>10 DEF ReconcileFailed, t
  <2> QED
    BY <1>4, <1>5, <2>1, <2>2
<1>11. CASE RecordResult
  <2> DEFINE t == ResultStatus(s, worker.result)
  <2>1. worker.result \in {"ok", "error", "rolledback"} /\ s.phase = "Upgrading"
    BY <1>1, <1>2, <1>11, WorkerType DEF RecordResult, Recording, SideInv, RunningInv
  <2>2. t \in Status
    BY <1>3, <2>1, ResultStatusType
  <2>3. /\ worker.result = "ok" => t.step = StepNo
        /\ worker.result # "ok" => t.step = s.step
        /\ t.phase # "Succeeded"
    BY <1>3, <2>1 DEF ResultStatus, Status, StepNo
  <2>4. ASSUME api[worker.key] # NoPlan, api[worker.key] = v
        PROVE  1..t.step \subseteq done[worker.key]
    <3>1. CASE worker.result = "ok"
      <4>1. StepNo \in done[worker.key] /\ StepNo = s.step + 1
        BY <1>1, <1>11, <2>4, <3>1 DEF RecordResult, DoneInv, Carried, StepNo
      <4>2. 1..t.step = (1..s.step) \union {StepNo}
        BY <1>3, <2>3, <3>1, <4>1
      <4> QED
        BY <1>4, <2>4, <4>1, <4>2
    <3>2. CASE worker.result # "ok"
      BY <1>4, <2>3, <2>4, <3>2
    <3> QED
      BY <3>1, <3>2
  <2> HIDE DEF t
  <2>5. Conclude(t, worker.result = "ok")
    BY <1>11 DEF RecordResult, t
  <2> QED
    BY <1>5, <2>2, <2>3, <2>4, <2>5
<1> QED
  BY <1>6, <1>7, <1>8, <1>9, <1>10, <1>11 DEF Reconcile

\* The executor answers "ok" when Helm deployed the step's version, or in a dry run.
LEMMA HelmResult ==
    ASSUME CarriedInv, Helm
    PROVE  KeepsResults
<1>1. SideInv /\ StepsCarriedOut
  BY DEF CarriedInv
<1>2. /\ UNCHANGED <<api, dryRun>>
      /\ worker'.key = worker.key /\ worker'.copy = worker.copy
      /\ \A q \in Plans : done[q] \subseteq done'[q]
  BY <1>1, HelmEffect
<1>3. StepsCarriedOut'
  <2> SUFFICES ASSUME NEW q \in Plans, api[q] # NoPlan
               PROVE  /\ 1..api[q].status.step \subseteq done'[q]
                      /\ api[q].status.phase = "Succeeded"
                         => DOMAIN api[q].tools \subseteq done'[q]
    BY <1>2 DEF StepsCarriedOut
  <2> QED
    BY <1>1, <1>2 DEF StepsCarriedOut
<1>4. worker \in Reconciling /\ worker.key \in Plans
  BY <1>1, WorkerType DEF SideInv, Helm, PreflightFails, HelmRefuses, HelmDryRuns, HelmBegins,
                          HelmSucceeds, HelmRollsBack
<1>5. ASSUME NEW result, Return(result)
      PROVE  /\ worker'.result = result
             /\ result = "ok" /\ api[worker.key] # NoPlan /\ api[worker.key].uid = worker.copy.uid
                => StepNo \in done'[worker.key]
  BY <1>1, <1>4, <1>5 DEF Return, Reconciling, SideInv, TypeOK
<1>6. CASE PreflightFails \/ HelmRefuses \/ HelmRollsBack
  <2>1. Return("error") \/ Return("rolledback")
    BY <1>6 DEF PreflightFails, HelmRefuses, HelmRollsBack
  <2>2. worker'.result # "ok"
    BY <1>5, <2>1
  <2> QED
    BY <1>3, <2>2 DEF KeepsResults, DoneInv, DeployedInv, Carried
<1>7. CASE HelmBegins
  <2>1. worker' = [worker EXCEPT !.pc = "running"]
    BY <1>7 DEF HelmBegins
  <2>2. worker'.pc # "record"
    BY <1>4, <2>1 DEF Reconciling
  <2> QED
    BY <1>3, <2>2 DEF KeepsResults, DoneInv, DeployedInv, Carried
<1>8. CASE HelmDryRuns
  <2>1. Return("ok") /\ dryRun
    BY <1>8 DEF HelmDryRuns
  <2>2. /\ worker'.key = worker.key /\ worker'.copy = worker.copy /\ dryRun' = dryRun
        /\ api' = api /\ StepNo' = StepNo
    BY <1>2 DEF StepNo
  <2> QED
    BY <1>3, <1>5, <2>1, <2>2 DEF KeepsResults, DoneInv, DeployedInv, Carried
<1>9. CASE HelmSucceeds
  <2>1. /\ Return("ok")
        /\ rel' = [rel EXCEPT ![CurrentStep.release] =
                     [version |-> CurrentStep.target, status |-> "deployed"]]
    BY <1>9 DEF HelmSucceeds
  <2>2. CurrentStep.release \in DOMAIN rel
    <3>1. worker.copy.tools \in Seq(Step) /\ StepNo \in DOMAIN worker.copy.tools
      BY <1>1, <1>9, WorkerType, ListsType DEF SideInv, HelmSucceeds, RunningInv
    <3>2. CurrentStep \in Step
      BY <3>1 DEF CurrentStep
    <3> QED
      BY <1>1, <3>2 DEF Step, SideInv, TypeOK
  <2>3. rel'[CurrentStep.release] = [version |-> CurrentStep.target, status |-> "deployed"]
    BY <2>1, <2>2
  <2>4. /\ worker'.key = worker.key /\ worker'.copy = worker.copy
        /\ api' = api /\ StepNo' = StepNo /\ CurrentStep' = CurrentStep
    BY <1>2 DEF StepNo, CurrentStep
  <2>5. Target' = [version |-> CurrentStep'.target, status |-> "deployed"]
    BY <2>3, <2>4 DEF Target
  <2> QED
    BY <1>3, <1>5, <2>1, <2>4, <2>5 DEF KeepsResults, DoneInv, DeployedInv, Carried
<1> QED
  BY <1>3, <1>6, <1>7, <1>8, <1>9 DEF Helm

\* The informer and a start of the operator do nothing about plans and releases.
LEMMA InformerResult ==
    ASSUME CarriedInv, NEW p \in Plans, Informer(p) \/ Begin(p)
    PROVE  KeepsResults
<1>1. UNCHANGED <<api, done, rel, dryRun>> /\ (worker' = worker \/ worker'.pc # "record")
  BY DEF Informer, Deliver, Relist, FallsDue, Begin, Idle, server, history, operator
<1> QED
  BY <1>1 DEF KeepsResults, CarriedInv, StepsCarriedOut, DoneInv, DeployedInv, Carried,
              StepNo, Target, CurrentStep

\* A start of the operator keeps the results: no reconcile is running after it.
LEMMA StartResult ==
    ASSUME CarriedInv, Start, UNCHANGED <<api, done>>
    PROVE  KeepsResults
BY DEF Start, KeepsResults, CarriedInv, StepsCarriedOut, DoneInv, DeployedInv, Carried, Idle

-----------------------------------------------------------------------------
(* The invariant and what it implies.                                      *)

\* SInv holds at first.
LEMMA InitSInv == Init => SInv
BY InitIInv DEF Init, IInv, SInv, CarriedInv, StepsCarriedOut, DoneInv, DeployedInv, Carried, Idle

\* Every step keeps it.
LEMMA NextSInv == SInv /\ [Next]_vars => SInv'
<1> SUFFICES ASSUME SInv, [Next]_vars
             PROVE  KeepsResults
  BY NextIInv DEF IInv, SInv, CarriedInv, KeepsResults
<1>0. CarriedInv
  BY DEF SInv
<1>1. ASSUME NEW p \in Plans, Users(p) \/ Approve(p)
      PROVE  KeepsResults
  BY <1>0, <1>1, UsersResult
<1>2. ASSUME NEW p \in Plans, Informer(p) \/ Begin(p)
      PROVE  KeepsResults
  BY <1>0, <1>2, InformerResult
<1>3. CASE Reconcile
  BY <1>0, <1>3, ReconcileResult
<1>4. CASE Helm
  BY <1>0, <1>4, HelmResult
<1>5. CASE Restart
  BY <1>0, <1>5, StartResult DEF Restart, history
<1>6. CASE UNCHANGED vars
  BY <1>0, <1>6 DEF vars, KeepsResults, CarriedInv, StepsCarriedOut, DoneInv, DeployedInv,
                    Carried, StepNo, Target, CurrentStep
<1> QED
  BY <1>1, <1>2, <1>3, <1>4, <1>5, <1>6 DEF Next

Installs ==
    \A p \in Plans :
      /\ ~dryRun
      /\ api[p] # NoPlan /\ api'[p] # NoPlan
      /\ api'[p].uid = api[p].uid
      /\ api'[p].status.step > api[p].status.step
      => LET step == api[p].tools[api'[p].status.step]
         IN rel[step.release] = [version |-> step.target, status |-> "deployed"]

\* The write that raises currentStep records a result, of the stored plan.
LEMMA StepInstalls == SInv /\ [Next]_vars => Installs
<1> SUFFICES ASSUME SInv, [Next]_vars, NEW q \in Plans,
                    ~dryRun, api[q] # NoPlan, api'[q] # NoPlan, api'[q].uid = api[q].uid,
                    api'[q].status.step > api[q].status.step
             PROVE  rel[api[q].tools[api'[q].status.step].release] =
                      [version |-> api[q].tools[api'[q].status.step].target,
                       status |-> "deployed"]
  BY DEF Installs
<1>1. SideInv /\ DeployedInv /\ api[q] \in Version /\ api[q].status.step \in Nat
  BY DEF SInv, CarriedInv, SideInv, TypeOK, Version, Status
<1>2. api'[q].status # api[q].status /\ api'[q] # api[q]
  BY <1>1
<1>3. Reconcile
  <2>1. ASSUME NEW p \in Plans, Users(p) \/ Approve(p)
        PROVE  FALSE
    BY <1>1, <1>2, <2>1, UserEffect
  <2>2. ASSUME NEW p \in Plans, Informer(p) \/ Begin(p)
        PROVE  FALSE
    BY <1>2, <2>2 DEF Informer, Deliver, Relist, FallsDue, Begin, server
  <2>3. ~Helm
    BY <1>1, <1>2, HelmEffect
  <2>4. ~Restart /\ ~UNCHANGED vars
    BY <1>2 DEF Restart, vars
  <2> QED
    BY <2>1, <2>2, <2>3, <2>4 DEF Next
<1> DEFINE s == worker.copy.status
<1>4. worker.pc # "idle" /\ s \in Status /\ s.step \in Nat /\ worker.copy.tools \in ToolLists
  <2>1. worker.pc # "idle"
    BY <1>3 DEF Reconcile, ReconcilePending, ReconcileApproved, FinishPlan, StartStep,
                StartRefused, ReconcileFailed, RecordResult, InPhase
  <2> QED
    BY <1>1, <2>1, WorkerType DEF IInv, SideInv, Status
<1>5. ASSUME NEW t \in Status, t.step = s.step \/ t.step = 0,
             PutStatus(worker.key, worker.copy, t) \/ PutFails(worker.key, worker.copy, t)
      PROVE  FALSE
  <2>1. api[q] = worker.copy /\ api'[q].status = t
    BY <1>1, <1>2, <1>4, <1>5, PutEffect
  <2>2. t.step \in Nat
    BY <1>5 DEF Status
  <2> QED
    BY <1>4, <1>5, <2>1, <2>2
<1>6. ~ReconcilePending
  <2>1. PendingStatus(worker.copy) \in Status /\ PendingStatus(worker.copy).step = s.step
    BY <1>4 DEF PendingStatus, Status, Phases
  <2> QED
    BY <1>5, <2>1 DEF ReconcilePending, Conclude
<1>7. ~ReconcileApproved
  <2> DEFINE t == [s EXCEPT !.phase = "Upgrading", !.step = 0,
                            !.total = Len(worker.copy.tools), !.ready = "Upgrading"]
  <2>1. t \in Status /\ t.step = 0
    BY <1>4, ListsType DEF Status, Phases
  <2> HIDE DEF t
  <2>2. ReconcileApproved => Conclude(t, TRUE)
    BY DEF ReconcileApproved, t
  <2> QED
    BY <1>5, <2>1, <2>2 DEF Conclude
<1>8. ~FinishPlan
  <2> DEFINE t == [s EXCEPT !.phase = "Succeeded", !.ready = "UpgradeComplete"]
  <2>1. t \in Status /\ t.step = s.step
    BY <1>4 DEF Status, Phases
  <2> HIDE DEF t
  <2>2. FinishPlan => Conclude(t, FALSE)
    BY DEF FinishPlan, t
  <2> QED
    BY <1>5, <2>1, <2>2 DEF Conclude
<1>9. ~StartStep /\ ~StartRefused
  <2>1. StartedStatus \in Status /\ StartedStatus.step = s.step
    BY <1>4 DEF StartedStatus, Status
  <2> QED
    BY <1>5, <2>1 DEF StartStep, StartRefused
<1>10. ~ReconcileFailed
  <2> DEFINE t == [s EXCEPT !.phase = "RolledBack"]
  <2>1. t \in Status /\ t.step = s.step
    BY <1>4 DEF Status, Phases
  <2> HIDE DEF t
  <2>2. ReconcileFailed => Conclude(t, FALSE)
    BY DEF ReconcileFailed, t
  <2> QED
    BY <1>5, <2>1, <2>2 DEF Conclude
<1>11. RecordResult
  BY <1>3, <1>6, <1>7, <1>8, <1>9, <1>10 DEF Reconcile
<1> DEFINE t == ResultStatus(s, worker.result)
<1>12. worker.result \in {"ok", "error", "rolledback"} /\ worker.pc = "record"
  BY <1>1, <1>4, <1>11, WorkerType DEF RecordResult, Recording, IInv, SideInv
<1>13. t \in Status
  BY <1>4, <1>12, ResultStatusType
<1>14. PutStatus(worker.key, worker.copy, t) \/ PutFails(worker.key, worker.copy, t)
  BY <1>11 DEF RecordResult, Conclude
<1>15. worker.result = "ok"
  <2>1. worker.result # "ok" => t.step = s.step
    BY <1>4, <1>12 DEF ResultStatus, Status
  <2> HIDE DEF t
  <2> QED
    BY <1>5, <1>13, <1>14, <2>1
<1>16. t.step = StepNo
  BY <1>4, <1>15 DEF ResultStatus, Status, StepNo
<1>17. api[q] = worker.copy /\ api'[q].status = t
  <2> HIDE DEF t
  <2> QED
    BY <1>1, <1>2, <1>4, <1>13, <1>14, PutEffect
<1>18. Target = [version |-> CurrentStep.target, status |-> "deployed"]
  BY <1>1, <1>12, <1>15 DEF DeployedInv, Carried
<1> HIDE DEF t
<1> QED
  BY <1>16, <1>17, <1>18 DEF Target, CurrentStep

\* currentStep never runs ahead of Helm: for any number of plans, users, faults
\* and restarts, what a status says was done was done for this very object.
THEOREM Progress == Spec => []StepsCarriedOut
<1>1. Spec => []SInv
  BY InitSInv, NextSInv, PTL DEF Spec
<1>2. SInv => StepsCarriedOut
  BY DEF SInv, CarriedInv
<1> QED
  BY <1>1, <1>2, PTL

\* When currentStep passes a step its release is deployed at the step's version,
\* also when other plans have steps on that release.
THEOREM Installed == Spec => StepsInstalled
<1>1. Spec => []SInv
  BY InitSInv, NextSInv, PTL DEF Spec
<1>2. SInv /\ [Next]_vars => [Installs]_vars
  BY StepInstalls
<1>3. Spec => [][Installs]_vars
  BY <1>1, <1>2, PTL DEF Spec
<1> QED
  BY <1>3 DEF Installs, StepsInstalled

-----------------------------------------------------------------------------
(***************************************************************************)
(* Proofs about StackUpgrade for an operator that may not be alone: what   *)
(* each of its steps does to the stored plans (Evolves), and that such a   *)
(* step of another operator leaves what this one holds true (Bystander).   *)
(* Handover has two of them.                                               *)
(***************************************************************************)

\* A plan that has not started is at its first step.
FreshInv ==
    \A p \in Plans : api[p] # NoPlan /\ api[p].status.phase \in {"", "Pending", "Approved"}
                     => api[p].status.step = 0

\* The changes of a status the reconciler makes: on to a later phase at the same
\* step, or on to a later step of a plan that is upgrading.
Advances(s, t) ==
    /\ s.phase \notin Final
    /\ \/ t.step = s.step /\ t.phase = s.phase
       \/ t.step = s.step /\ s.phase = "" /\ t.phase \in {"Pending", "Approved"}
       \/ t.step = s.step /\ s.phase = "Pending" /\ t.phase = "Approved"
       \/ t.step = s.step /\ s.phase = "Approved" /\ t.phase = "Upgrading"
       \/ t.step = s.step /\ s.phase = "Upgrading"
            /\ t.phase \in {"Succeeded", "Failed", "RolledBack"}
       \/ t.step = s.step /\ s.phase = "Failed" /\ t.phase = "RolledBack"
       \/ t.step = s.step + 1 /\ s.phase = "Upgrading" /\ t.phase = "Upgrading"

\* What a step does to the stored plans: an object that is new has a new uid, and
\* one that is not keeps it; its status stays or advances, and what was carried out for
\* it stays so.
Evolves ==
    \A q \in Plans : api'[q] # NoPlan =>
      \/ api[q] = NoPlan /\ api'[q].uid = rev[q] + 1 /\ api'[q].status = NewStatus
      \/ /\ api[q] # NoPlan /\ api'[q].uid = api[q].uid
         /\ done[q] \subseteq done'[q]
         /\ api'[q].status = api[q].status \/ Advances(api[q].status, api'[q].status)

-----------------------------------------------------------------------------
(* The steps of the operator and of the users.                             *)

\* Users leave statuses alone.
LEMMA UsersEvolve ==
    ASSUME SideInv, NEW p \in Plans, Users(p) \/ Approve(p)
    PROVE  Evolves
<1> SUFFICES ASSUME NEW q \in Plans, api'[q] # NoPlan
             PROVE  \/ /\ api[q] = NoPlan /\ api'[q].uid = rev[q] + 1
                       /\ api'[q].status = NewStatus
                    \/ /\ api[q] # NoPlan /\ api'[q].uid = api[q].uid
                       /\ done[q] \subseteq done'[q] /\ api'[q].status = api[q].status
  BY DEF Evolves
<1> QED
  BY UserEffect

\* The informer, a start and Helm leave the plans alone.
LEMMA QuietEvolves ==
    ASSUME api' = api, \A q \in Plans : done[q] \subseteq done'[q]
    PROVE  Evolves
BY DEF Evolves

\* The informer and the start of a reconcile leave the plans alone.
LEMMA InformerEvolves ==
    ASSUME NEW p \in Plans, Informer(p) \/ Begin(p)
    PROVE  Evolves
BY QuietEvolves DEF Informer, Deliver, Relist, FallsDue, Begin, server, history

\* Helm leaves them alone.
LEMMA HelmEvolves ==
    ASSUME SideInv, Helm
    PROVE  Evolves
BY HelmEffect, QuietEvolves

\* A status write is taken from the stored version only.
LEMMA PutEvolves ==
    ASSUME SideInv, worker.pc # "idle", NEW s \in Status,
           PutStatus(worker.key, worker.copy, s) \/ PutFails(worker.key, worker.copy, s),
           UNCHANGED done,
           api[worker.key] # NoPlan /\ api[worker.key] = worker.copy =>
             Advances(worker.copy.status, s)
    PROVE  Evolves
<1> SUFFICES ASSUME NEW q \in Plans, api'[q] # NoPlan
             PROVE  /\ api[q] # NoPlan /\ api'[q].uid = api[q].uid
                    /\ \/ api'[q].status = api[q].status
                       \/ Advances(api[q].status, api'[q].status)
  BY DEF Evolves
<1>1. CASE api'[q] = api[q]
  BY <1>1
<1>2. CASE api'[q] # api[q]
  <2>1. /\ q = worker.key /\ api[q] # NoPlan /\ api[q] = worker.copy
        /\ api'[q].status = s /\ api'[q].uid = worker.copy.uid
    BY <1>2, PutEffect
  <2> QED
    BY <2>1
<1> QED
  BY <1>1, <1>2

\* Each handler advances the plan it read, if that is still the stored version.
LEMMA ReconcileEvolves ==
    ASSUME SideInv, FreshInv, Reconcile
    PROVE  Evolves
<1> DEFINE v == worker.copy
           s == v.status
<1>1. worker.pc # "idle"
  BY DEF Reconcile, ReconcilePending, ReconcileApproved, FinishPlan, StartStep,
         StartRefused, ReconcileFailed, RecordResult, InPhase
<1>2. /\ worker.key \in Plans /\ s \in Status /\ v.tools \in ToolLists
      /\ s.step \in Nat /\ s.phase \in Phases
  BY <1>1, WorkerType DEF SideInv, Status
<1>3. ASSUME NEW t \in Status, NEW again, Conclude(t, again),
             api[worker.key] # NoPlan /\ api[worker.key] = v => Advances(s, t)
      PROVE  Evolves
  BY <1>1, <1>3, PutEvolves DEF Conclude, history
<1>4. CASE ReconcilePending
  <2> DEFINE t == PendingStatus(v)
  <2>1. t \in Status /\ t.step = s.step /\ t.phase \in {"Pending", "Approved"}
    BY <1>2 DEF PendingStatus, Status, Phases
  <2>2. s.phase \in {"", "Pending"}
    BY <1>4 DEF ReconcilePending, InPhase
  <2>3. Advances(s, t)
    BY <2>1, <2>2 DEF Advances, Final
  <2> HIDE DEF t
  <2>4. Conclude(t, PendingRequeues(v))
    BY <1>4 DEF ReconcilePending, t
  <2> QED
    BY <1>3, <2>1, <2>3, <2>4
<1>5. CASE ReconcileApproved
  <2> DEFINE t == [s EXCEPT !.phase = "Upgrading", !.step = 0, !.total = Len(v.tools),
                            !.ready = "Upgrading"]
  <2>1. t \in Status /\ t.step = 0 /\ t.phase = "Upgrading" /\ s.phase = "Approved"
    BY <1>2, <1>5, ListsType DEF ReconcileApproved, InPhase, Status, Phases
  <2> HIDE DEF t
  <2>2. api[worker.key] # NoPlan /\ api[worker.key] = v => Advances(s, t)
    BY <1>2, <2>1 DEF FreshInv, Advances, Final
  <2>3. Conclude(t, TRUE)
    BY <1>5 DEF ReconcileApproved, t
  <2> QED
    BY <1>3, <2>1, <2>2, <2>3
<1>6. CASE FinishPlan
  <2> DEFINE t == [s EXCEPT !.phase = "Succeeded", !.ready = "UpgradeComplete"]
  <2>1. t \in Status /\ t.step = s.step /\ t.phase = "Succeeded" /\ s.phase = "Upgrading"
    BY <1>2, <1>6 DEF FinishPlan, InPhase, Status, Phases
  <2> HIDE DEF t
  <2>2. Advances(s, t)
    BY <2>1 DEF Advances, Final
  <2>3. Conclude(t, FALSE)
    BY <1>6 DEF FinishPlan, t
  <2> QED
    BY <1>3, <2>1, <2>2, <2>3
<1>7. CASE StartStep \/ StartRefused
  <2>1. /\ StartedStatus \in Status /\ StartedStatus.step = s.step
        /\ StartedStatus.phase = s.phase /\ s.phase = "Upgrading"
    BY <1>2, <1>7 DEF StartStep, StartRefused, InPhase, StartedStatus, Status
  <2>2. /\ PutStatus(worker.key, v, StartedStatus) \/ PutFails(worker.key, v, StartedStatus)
        /\ UNCHANGED done
    BY <1>7 DEF StartStep, StartRefused, history
  <2>3. Advances(s, StartedStatus)
    BY <2>1 DEF Advances, Final
  <2> QED
    BY <1>1, <2>1, <2>2, <2>3, PutEvolves
<1>8. CASE ReconcileFailed
  <2> DEFINE t == [s EXCEPT !.phase = "RolledBack"]
  <2>1. t \in Status /\ t.step = s.step /\ t.phase = "RolledBack" /\ s.phase = "Failed"
    BY <1>2, <1>8 DEF ReconcileFailed, InPhase, Status, Phases
  <2> HIDE DEF t
  <2>2. Advances(s, t)
    BY <2>1 DEF Advances, Final
  <2>3. Conclude(t, FALSE)
    BY <1>8 DEF ReconcileFailed, t
  <2> QED
    BY <1>3, <2>1, <2>2, <2>3
<1>9. CASE RecordResult
  <2> DEFINE t == ResultStatus(s, worker.result)
  <2>1. worker.result \in {"ok", "error", "rolledback"} /\ s.phase = "Upgrading"
    BY <1>1, <1>9, WorkerType DEF RecordResult, Recording, SideInv, RunningInv
  <2>2. t \in Status
    BY <1>2, <2>1, ResultStatusType
  <2>3. \/ t.step = s.step + 1 /\ t.phase = "Upgrading"
        \/ t.step = s.step /\ t.phase \in {"Failed", "RolledBack"}
    BY <1>2, <2>1 DEF ResultStatus, Status
  <2> HIDE DEF t
  <2>4. Advances(s, t)
    BY <2>1, <2>3 DEF Advances, Final
  <2>5. Conclude(t, worker.result = "ok")
    BY <1>9 DEF RecordResult, t
  <2> QED
    BY <1>3, <2>2, <2>4, <2>5
<1> QED
  BY <1>4, <1>5, <1>6, <1>7, <1>8, <1>9 DEF Reconcile

\* The operator starts, and nothing else changes.
Starts == Start /\ UNCHANGED <<api, rev, rel, history, bounds>>

\* What a step is worth to the operator that takes it and to the plans.
OwnEffect == TypeOK' /\ KeepsInv /\ StepsCarriedOut' /\ DoneInv' /\ Evolves

\* Each step of the operator or of the users has that effect.
LEMMA OwnStep ==
    ASSUME CarriedInv, FreshInv,
           \/ \E p \in Plans : Users(p) \/ Informer(p) \/ Begin(p)
           \/ Reconcile \/ Helm \/ Starts
    PROVE  OwnEffect
<1>1. SideInv /\ TypeOK /\ RunningInv
  BY DEF CarriedInv, SideInv
<1>2. ASSUME NEW p \in Plans, Users(p)
      PROVE  OwnEffect
  BY <1>1, <1>2, UsersType, UsersInv, UsersResult, UsersEvolve DEF OwnEffect, KeepsResults
<1>3. ASSUME NEW p \in Plans, Informer(p) \/ Begin(p)
      PROVE  OwnEffect
  BY <1>1, <1>3, InformerType, InformerInv, InformerResult, InformerEvolves
     DEF OwnEffect, KeepsResults
<1>4. CASE Reconcile
  BY <1>1, <1>4, ReconcileType, ReconcileInv, ReconcileResult, ReconcileEvolves
     DEF OwnEffect, KeepsResults
<1>5. CASE Helm
  BY <1>1, <1>5, HelmType, HelmKeepsCopies, HelmResult, HelmEvolves DEF OwnEffect, KeepsResults
<1>6. CASE Starts
  <2>1. /\ Start /\ UNCHANGED <<api, rev, rel, history, edits, creations, done>>
        /\ faults' \in 0..MaxFaults
    BY <1>1, <1>6 DEF Starts, bounds, history, TypeOK
  <2> QED
    BY <1>1, <2>1, StartType, StartInv, StartResult, QuietEvolves DEF OwnEffect, KeepsResults
<1> QED
  BY <1>2, <1>3, <1>4, <1>5, <1>6

-----------------------------------------------------------------------------
(* The operator beside the one that takes a step.                          *)

\* The types of what operators share.
SharedType ==
    /\ api \in [Plans -> Version \union {NoPlan}]
    /\ rev \in [Plans -> Nat]
    /\ approving \subseteq Plans
    /\ rel \in [Releases -> Release]
    /\ kb \in KnowledgeBases /\ dryRun \in DryRuns
    /\ started \in [Plans -> SUBSET Nat]
    /\ repeats \in Nat
    /\ done \in [Plans -> SUBSET Nat]
    /\ faults \in 0..MaxFaults /\ edits \in 0..MaxEdits /\ creations \in 0..MaxCreations

\* A plan that is new, or that advances, starts at its first step.
LEMMA FreshKept ==
    ASSUME FreshInv, Evolves
    PROVE  FreshInv'
<1> SUFFICES ASSUME NEW q \in Plans, api'[q] # NoPlan,
                    api'[q].status.phase \in {"", "Pending", "Approved"}
             PROVE  api'[q].status.step = 0
  BY DEF FreshInv
<1>1. CASE api'[q].status = NewStatus
  <2>1. NewStatus.step = 0
    BY DEF NewStatus
  <2> QED
    BY <1>1, <2>1
<1>2. CASE api[q] # NoPlan /\ api'[q].status = api[q].status
  BY <1>2 DEF FreshInv
<1>3. CASE api[q] # NoPlan /\ Advances(api[q].status, api'[q].status)
  <2>1. /\ api'[q].status.step = api[q].status.step
        /\ api[q].status.phase \in {"", "Pending", "Approved"}
    BY <1>3 DEF Advances
  <2> QED
    BY <1>3, <2>1 DEF FreshInv
<1> QED
  BY <1>1, <1>2, <1>3 DEF Evolves

\* A work queue that is filled anew changes nothing else.
LEMMA Requeued ==
    ASSUME CarriedInv,
           UNCHANGED <<server, cache, worker, approving, rel, operator, history, bounds>>,
           queue' \in [Plans -> {"none", "later", "now"}]
    PROVE  CarriedInv'
<1>1. TypeOK'
  BY DEF CarriedInv, SideInv, TypeOK, server, operator, history, bounds
<1>2. StoredInv' /\ CacheInv' /\ WatchInv' /\ WorkerInv'
  BY SameCopies, CacheKept, WorkerKept DEF CarriedInv, SideInv
<1>3. RunningInv' /\ StepsCarriedOut' /\ DoneInv'
  BY DEF CarriedInv, SideInv, RunningInv, StepsCarriedOut, DoneInv, Carried, StepNo,
         server, history
<1> QED
  BY <1>1, <1>2, <1>3 DEF CarriedInv, SideInv

\* What the other operator stores, and this one's watch is told of, is a copy;
\* the copies it holds stay copies; what it carried out stays so.
LEMMA Bystander ==
    ASSUME SideInv, DoneInv, KeepsCopies, StoredInv', Evolves, SharedType',
           UNCHANGED <<cache, queue, worker>>,
           watch' = [p \in Plans |-> IF rev'[p] = rev[p] THEN watch[p]
                                     ELSE Append(watch[p], api'[p])]
    PROVE  SideInv' /\ DoneInv'
<1>1. TypeOK /\ CacheInv /\ WatchInv /\ WorkerInv /\ RunningInv
  BY DEF SideInv
<1>2. \A p \in Plans : /\ watch[p] \in Seq(Version \union {NoPlan})
                       /\ api'[p] \in Version \union {NoPlan}
  BY <1>1 DEF TypeOK, SharedType
<1>3. TypeOK'
  <2>1. watch' \in [Plans -> Seq(Version \union {NoPlan})]
    BY <1>2
  <2> QED
    BY <1>1, <2>1 DEF TypeOK, SharedType
<1>4. CacheInv' /\ WorkerInv'
  BY <1>1, CacheKept, WorkerKept
<1>5. WatchInv'
  <2> SUFFICES ASSUME NEW q \in Plans, NEW i \in DOMAIN watch'[q], watch'[q][i] # NoPlan
               PROVE  CopyOf(q, watch[q][i])'
    BY DEF WatchInv
  <2>1. CASE i \in DOMAIN watch[q] /\ watch'[q][i] = watch[q][i]
    <3>1. PICK v \in Version : v = watch[q][i]
      BY <1>2, <2>1
    <3>2. CopyOf(q, v)'
      BY <1>1, <2>1, <3>1 DEF KeepsCopies, WatchInv, CopyOf
    <3> QED
      BY <2>1, <3>1, <3>2 DEF CopyOf
  <2>2. CASE watch'[q][i] = api'[q]
    BY <2>2 DEF StoredInv, CopyOf
  <2>3. \/ i \in DOMAIN watch[q] /\ watch'[q][i] = watch[q][i]
        \/ watch'[q][i] = api'[q]
    <3>1. watch'[q] = watch[q] \/ watch'[q] = Append(watch[q], api'[q])
      OBVIOUS
    <3>2. CASE watch'[q] = watch[q]
      BY <3>2
    <3>3. CASE watch'[q] = Append(watch[q], api'[q])
      BY <1>2, <3>3
    <3> QED
      BY <3>1, <3>2, <3>3
  <2> QED
    BY <2>1, <2>2, <2>3
<1>6. RunningInv'
  BY <1>1 DEF RunningInv, StepNo
<1>7. DoneInv'
  <2> SUFFICES ASSUME Carried, api'[worker.key] # NoPlan,
                      api'[worker.key].uid = worker.copy.uid
               PROVE  StepNo \in done'[worker.key]
    BY DEF DoneInv, Carried, StepNo
  <2>1. /\ worker.key \in Plans /\ worker.copy.uid \in Nat
        /\ rev[worker.key] \in Nat /\ worker.copy.uid <= rev[worker.key]
    BY <1>1, WorkerType DEF Carried, TypeOK, Version, WorkerInv, CopyOf
  <2>2. /\ api[worker.key] # NoPlan /\ api'[worker.key].uid = api[worker.key].uid
        /\ done[worker.key] \subseteq done'[worker.key]
    <3>1. api'[worker.key].uid # rev[worker.key] + 1
      BY <2>1
    <3> QED
      BY <2>1, <3>1 DEF Evolves
  <2> QED
    BY <2>2 DEF DoneInv
<1> QED
  BY <1>3, <1>4, <1>5, <1>6, <1>7 DEF SideInv

-----------------------------------------------------------------------------
(***************************************************************************)
(* The proof that StackUpgrade implements PlanLifecycle.  What the         *)
(* reconciler does to a stored plan is one status write from the stored    *)
(* version, so each handler is a move of the lifecycle (Moves) or nothing; *)
(* what Helm carries out is the next step of the stored plan, because that *)
(* is still the plan the worker read; users are Create, Edit and Delete.   *)
(*                                                                         *)
(* Two of the moves need more than SInv: Start leaves currentStep alone,   *)
(* though the code sets it to 0, and RollBack leaves from Failed only      *)
(* while there is a step left, which the code does not look at.            *)
(***************************************************************************)

\* A plan that has not started is at its first step; a failed one has one left.
OrderlyInv ==
    \A p \in Plans : api[p] # NoPlan =>
      /\ api[p].status.phase \in {"", "Pending", "Approved"} => api[p].status.step = 0
      /\ api[p].status.phase = "Failed" => api[p].status.step < Len(api[p].tools)

RInv == SInv /\ OrderlyInv

\* The changes of the status of a plan v, stored under p, that the lifecycle allows.
Moves(p, v, t) ==
    LET s == v.status IN
    \/ t.step = s.step /\ t.phase = s.phase
    \/ t.step = s.step /\ s.phase = "" /\ t.phase = "Pending"
    \/ t.step = s.step /\ s.phase \in {"", "Pending"} /\ v.approved /\ t.phase = "Approved"
    \/ t.step = s.step /\ s.phase = "Approved" /\ t.phase = "Upgrading"
    \/ /\ t.step = s.step /\ s.phase = "Upgrading" /\ t.phase = "Succeeded"
       /\ ~(s.step < Len(v.tools))
    \/ /\ t.step = s.step /\ s.phase = "Upgrading" /\ t.phase = "Failed"
       /\ s.step < Len(v.tools)
    \/ /\ t.step = s.step /\ s.phase \in {"Upgrading", "Failed"} /\ t.phase = "RolledBack"
       /\ s.step < Len(v.tools)
    \/ /\ s.phase = "Upgrading" /\ t.phase = "Upgrading"
       /\ t.step = s.step + 1 /\ s.step + 1 \in done[p]

-----------------------------------------------------------------------------
(* The mapping.                                                            *)

\* The stored plan as the lifecycle sees it.
LEMMA MappedPlan ==
    ASSUME IInv, NEW p \in Plans
    PROVE  /\ AbstractPlans \in [Plans -> AbstractPlan \union {NoPlan}]
           /\ api[p] = NoPlan => AbstractPlans[p] = NoPlan
           /\ api[p] # NoPlan =>
                /\ AbstractPlans[p] # NoPlan /\ AbstractPlans[p] \in AbstractPlan
                /\ AbstractPlans[p] = [approved |-> api[p].approved, tools |-> api[p].tools,
                                       phase |-> api[p].status.phase,
                                       step |-> api[p].status.step]
<1>1. ASSUME NEW q \in Plans, api[q] # NoPlan
      PROVE  /\ Abstract(api[q]) = [approved |-> api[q].approved, tools |-> api[q].tools,
                                    phase |-> api[q].status.phase,
                                    step |-> api[q].status.step]
             /\ Abstract(api[q]) \in AbstractPlan
  <2>1. api[q] \in Version
    BY <1>1 DEF IInv, SideInv, TypeOK
  <2> QED
    BY <1>1, <2>1 DEF Abstract, AbstractPlan, Version, Status
<1>2. ASSUME NEW q \in Plans
      PROVE  Abstract(api[q]) \in AbstractPlan \union {NoPlan}
  BY <1>1 DEF Abstract
<1>3. AbstractPlans[p] = Abstract(api[p])
  BY DEF AbstractPlans
<1>4. NoPlan \notin AbstractPlan
  BY NoPlanAssumption
<1> QED
  BY <1>1, <1>2, <1>3, <1>4 DEF AbstractPlans, Abstract

\* A change of one stored plan is a change of that plan.
LEMMA MappedChange ==
    ASSUME NEW p \in Plans, \A q \in Plans \ {p} : api'[q] = api[q]
    PROVE  AbstractPlans' = [AbstractPlans EXCEPT ![p] = Abstract(api'[p])]
BY DEF AbstractPlans

\* No change of a stored plan is a change of none.
LEMMA MappedSame ==
    ASSUME \A q \in Plans : api'[q] = api[q]
    PROVE  AbstractPlans' = AbstractPlans
BY DEF AbstractPlans

-----------------------------------------------------------------------------
(* The reconciler.                                                         *)

\* A status write that Moves allows is a step of the lifecycle.
LEMMA PutMoves ==
    ASSUME RInv, worker.pc # "idle", NEW t \in Status,
           PutStatus(worker.key, worker.copy, t) \/ PutFails(worker.key, worker.copy, t),
           UNCHANGED done,
           api[worker.key] # NoPlan /\ api[worker.key] = worker.copy =>
             Moves(worker.key, worker.copy, t)
    PROVE  OrderlyInv' /\ (Lifecycle!Next \/ UNCHANGED Lifecycle!vars)
<1> DEFINE k == worker.key
           v == worker.copy
           s == v.status
<1>1. IInv /\ SideInv /\ k \in Plans /\ OrderlyInv
  BY WorkerType DEF RInv, SInv, CarriedInv, IInv, SideInv
<1>2. CASE \A q \in Plans : api'[q] = api[q]
  BY <1>1, <1>2, MappedSame DEF OrderlyInv, Lifecycle!vars
<1>3. CASE \E q \in Plans : api'[q] # api[q]
  <2>1. /\ api[k] # NoPlan /\ api[k] = v
        /\ api'[k] # NoPlan /\ api'[k].status = t
        /\ api'[k].tools = v.tools /\ api'[k].approved = v.approved
        /\ \A q \in Plans \ {k} : api'[q] = api[q]
    BY <1>1, <1>3, PutEffect
  <2>2. Moves(k, v, t)
    BY <2>1
  <2>3. OrderlyInv'
    <3>1. /\ s.phase \in {"", "Pending", "Approved"} => s.step = 0
          /\ s.phase = "Failed" => s.step < Len(v.tools)
      BY <1>1, <2>1 DEF OrderlyInv
    <3>2. /\ t.phase \in {"", "Pending", "Approved"} => t.step = 0
          /\ t.phase = "Failed" => t.step < Len(v.tools)
      BY <2>2, <3>1 DEF Moves
    <3> QED
      BY <1>1, <2>1, <3>2 DEF OrderlyInv
  <2> DEFINE old == [approved |-> v.approved, tools |-> v.tools,
                     phase |-> s.phase, step |-> s.step]
             new == [approved |-> v.approved, tools |-> v.tools,
                     phase |-> t.phase, step |-> t.step]
  <2>4. AbstractPlans[k] = old /\ AbstractPlans[k] # NoPlan
    BY <1>1, <2>1, MappedPlan
  <2>5. AbstractPlans' = [AbstractPlans EXCEPT ![k] = new]
    <3>1. Abstract(api'[k]) = new
      BY <2>1 DEF Abstract
    <3> QED
      BY <1>1, <2>1, <3>1, MappedChange
  <2>6. CASE t.step = s.step /\ t.phase = s.phase
    <3>1. AbstractPlans' = AbstractPlans
      BY <1>1, <2>4, <2>5, <2>6, MappedPlan
    <3> QED
      BY <2>3, <3>1 DEF Lifecycle!vars
  <2>7. ASSUME t.step = s.step
        PROVE  Lifecycle!MoveTo(k, t.phase)
    <3>1. [old EXCEPT !.phase = t.phase] = new
      BY <2>7
    <3>2. [AbstractPlans EXCEPT ![k].phase = t.phase] = [AbstractPlans EXCEPT ![k] = new]
      BY <2>4, <3>1
    <3> QED
      BY <2>5, <3>2 DEF Lifecycle!MoveTo
  <2>8. /\ Lifecycle!Exists(k, {s.phase})
        /\ Lifecycle!MoreSteps(k) <=> s.step < Len(v.tools)
        /\ AbstractPlans[k].approved = v.approved
    BY <2>4 DEF Lifecycle!Exists, Lifecycle!MoreSteps
  <2>9. CASE t.step = s.step /\ t.phase # s.phase
    <3>1. \/ Lifecycle!Hold(k) \/ Lifecycle!Accept(k) \/ Lifecycle!Start(k)
          \/ Lifecycle!Succeed(k) \/ Lifecycle!Fail(k) \/ Lifecycle!RollBack(k)
      BY <2>2, <2>7, <2>8, <2>9
         DEF Moves, Lifecycle!Hold, Lifecycle!Accept, Lifecycle!Start, Lifecycle!Succeed,
             Lifecycle!Fail, Lifecycle!RollBack, Lifecycle!Exists
    <3> QED
      BY <1>1, <2>3, <3>1 DEF Lifecycle!Next
  <2>10. CASE t.step # s.step
    <3>1. /\ s.phase = "Upgrading" /\ t.phase = "Upgrading"
          /\ t.step = s.step + 1 /\ s.step + 1 \in done[k]
      BY <2>2, <2>10 DEF Moves
    <3>2. [old EXCEPT !.step = @ + 1] = new
      BY <3>1
    <3>3. [AbstractPlans EXCEPT ![k].step = @ + 1] = [AbstractPlans EXCEPT ![k] = new]
      BY <2>4, <3>2
    <3>4. Lifecycle!Advance(k)
      BY <2>4, <2>5, <3>1, <3>3 DEF Lifecycle!Advance, Lifecycle!Exists
    <3> QED
      BY <1>1, <2>3, <3>4 DEF Lifecycle!Next
  <2> QED
    BY <2>6, <2>9, <2>10
<1> QED
  BY <1>2, <1>3

\* Each handler writes a status that Moves allows, or none.
LEMMA ReconcileMoves ==
    ASSUME RInv, Reconcile
    PROVE  OrderlyInv' /\ (Lifecycle!Next \/ UNCHANGED Lifecycle!vars)
<1> DEFINE k == worker.key
           v == worker.copy
           s == v.status
<1>1. SInv /\ IInv /\ SideInv /\ OrderlyInv /\ DoneInv
  BY DEF RInv, SInv, CarriedInv, IInv
<1>2. worker.pc # "idle"
  BY DEF Reconcile, ReconcilePending, ReconcileApproved, FinishPlan, StartStep,
         StartRefused, ReconcileFailed, RecordResult, InPhase
<1>3. /\ k \in Plans /\ s \in Status /\ v.tools \in ToolLists
      /\ s.step \in Nat /\ Len(v.tools) \in Nat
  BY <1>1, <1>2, WorkerType, ListsType DEF IInv, SideInv, Status
<1>4. api[k] # NoPlan /\ api[k] = v =>
        /\ s.phase \in {"", "Pending", "Approved"} => s.step = 0
        /\ s.phase = "Failed" => s.step < Len(v.tools)
  BY <1>1, <1>3 DEF OrderlyInv
<1>5. ASSUME NEW t \in Status, NEW again, Conclude(t, again),
             api[k] # NoPlan /\ api[k] = v => Moves(k, v, t)
      PROVE  OrderlyInv' /\ (Lifecycle!Next \/ UNCHANGED Lifecycle!vars)
  BY <1>2, <1>5, PutMoves DEF Conclude, history
<1>6. CASE ReconcilePending
  <2>1. PendingStatus(v) \in Status /\ Moves(k, v, PendingStatus(v))
    BY <1>3, <1>6 DEF ReconcilePending, InPhase, PendingStatus, Moves, Status, Phases
  <2> QED
    BY <1>5, <1>6, <2>1 DEF ReconcilePending
<1>7. CASE ReconcileApproved
  <2> DEFINE t == [s EXCEPT !.phase = "Upgrading", !.step = 0, !.total = Len(v.tools),
                            !.ready = "Upgrading"]
  <2>1. t \in Status /\ t.step = 0 /\ t.phase = "Upgrading" /\ s.phase = "Approved"
    BY <1>3, <1>7 DEF Status, Phases, ReconcileApproved, InPhase
  <2> HIDE DEF t
  <2>2. Conclude(t, TRUE)
    BY <1>7 DEF ReconcileApproved, t
  <2>3. api[k] # NoPlan /\ api[k] = v => Moves(k, v, t)
    BY <1>4, <2>1 DEF Moves
  <2> QED
    BY <1>5, <2>1, <2>2, <2>3
<1>8. CASE FinishPlan
  <2> DEFINE t == [s EXCEPT !.phase = "Succeeded", !.ready = "UpgradeComplete"]
  <2>1. t \in Status /\ t.step = s.step /\ t.phase = "Succeeded"
    BY <1>3 DEF Status, Phases
  <2> HIDE DEF t
  <2>2. Conclude(t, FALSE) /\ s.phase = "Upgrading" /\ s.step >= Len(v.tools)
    BY <1>8 DEF FinishPlan, InPhase, t
  <2>3. ~(s.step < Len(v.tools))
    BY <1>3, <2>2
  <2> QED
    BY <1>5, <2>1, <2>2, <2>3 DEF Moves
<1>9. CASE StartStep \/ StartRefused
  <2>1. /\ StartedStatus \in Status /\ StartedStatus.step = s.step
        /\ StartedStatus.phase = s.phase
    BY <1>3 DEF StartedStatus, Status
  <2>2. /\ PutStatus(k, v, StartedStatus) \/ PutFails(k, v, StartedStatus)
        /\ done' = done
    BY <1>9 DEF StartStep, StartRefused, history
  <2>3. Moves(k, v, StartedStatus)
    BY <2>1 DEF Moves
  <2> QED
    BY <1>2, <2>1, <2>2, <2>3, PutMoves
<1>10. CASE ReconcileFailed
  <2> DEFINE t == [s EXCEPT !.phase = "RolledBack"]
  <2>1. /\ t \in Status /\ t.step = s.step /\ t.phase = "RolledBack" /\ s.phase = "Failed"
    BY <1>3, <1>10 DEF Status, Phases, ReconcileFailed, InPhase
  <2> HIDE DEF t
  <2>2. Conclude(t, FALSE)
    BY <1>10 DEF ReconcileFailed, t
  <2>3. api[k] # NoPlan /\ api[k] = v => Moves(k, v, t)
    BY <1>4, <2>1 DEF Moves
  <2> QED
    BY <1>5, <2>1, <2>2, <2>3
<1>11. CASE RecordResult
  <2> DEFINE t == ResultStatus(s, worker.result)
  <2>1. /\ worker.result \in {"ok", "error", "rolledback"}
        /\ s.phase = "Upgrading" /\ StepNo \in DOMAIN v.tools
    BY <1>1, <1>2, <1>11, WorkerType DEF RecordResult, Recording, IInv, SideInv, RunningInv
  <2>2. t \in Status
    BY <1>3, <2>1, ResultStatusType
  <2>3. s.step < Len(v.tools)
    BY <1>3, <2>1, ListsType DEF StepNo
  <2>4. /\ worker.result = "ok" => t.step = s.step + 1 /\ t.phase = "Upgrading"
        /\ worker.result = "error" => t.step = s.step /\ t.phase = "Failed"
        /\ worker.result = "rolledback" => t.step = s.step /\ t.phase = "RolledBack"
    BY <1>3, <2>1 DEF ResultStatus, Status
  <2>5. worker.result = "ok" /\ api[k] # NoPlan /\ api[k] = v => s.step + 1 \in done[k]
    BY <1>1, <1>11 DEF RecordResult, DoneInv, Carried, StepNo
  <2> HIDE DEF t
  <2>6. Conclude(t, worker.result = "ok")
    BY <1>11 DEF RecordResult, t
  <2>7. api[k] # NoPlan /\ api[k] = v => Moves(k, v, t)
    BY <2>1, <2>3, <2>4, <2>5 DEF Moves
  <2> QED
    BY <1>5, <2>2, <2>6, <2>7
<1> QED
  BY <1>6, <1>7, <1>8, <1>9, <1>10, <1>11 DEF Reconcile

-----------------------------------------------------------------------------
(* Helm, the users and the rest.                                           *)

\* What Helm carries out is the step the stored plan is at.
LEMMA HelmCarriesOut ==
    ASSUME RInv, Helm
    PROVE  OrderlyInv' /\ (Lifecycle!Next \/ UNCHANGED Lifecycle!vars)
<1> DEFINE k == worker.key
           v == worker.copy
<1>1. IInv /\ SideInv /\ OrderlyInv /\ done \in [Plans -> SUBSET Nat]
  BY DEF RInv, SInv, CarriedInv, IInv, SideInv, TypeOK
<1>2. api' = api
  BY <1>1, HelmEffect
<1>3. OrderlyInv' /\ AbstractPlans' = AbstractPlans
  BY <1>1, <1>2, MappedSame DEF OrderlyInv
<1>4. CASE done' = done
  BY <1>3, <1>4 DEF Lifecycle!vars
<1>5. CASE done' # done
  <2>1. /\ worker.pc \in {"helm", "running"}
        /\ api[k] # NoPlan /\ api[k].uid = v.uid
        /\ done' = [done EXCEPT ![k] = @ \union {StepNo}]
    BY <1>5 DEF Helm, PreflightFails, HelmRefuses, HelmDryRuns, HelmBegins, HelmSucceeds,
                HelmRollsBack, Return, history
  <2>2. RunsApprovedPlan
    BY <1>1, IInvSafe
  <2>3. /\ k \in Plans /\ StepNo \in DOMAIN v.tools /\ v.status \in Status
        /\ v.tools \in ToolLists
    BY <1>1, <2>1, WorkerType DEF IInv, SideInv, RunningInv
  <2>4. /\ api[k].approved /\ api[k].tools = v.tools /\ api[k].status = v.status
        /\ v.status.phase = "Upgrading"
    BY <2>1, <2>2 DEF RunsApprovedPlan
  <2>5. v.status.step \in Nat /\ StepNo = v.status.step + 1 /\ v.status.step < Len(v.tools)
    BY <2>3, ListsType DEF StepNo, Status
  <2>6. /\ AbstractPlans[k] # NoPlan
        /\ AbstractPlans[k] = [approved |-> api[k].approved, tools |-> v.tools,
                               phase |-> "Upgrading", step |-> v.status.step]
    BY <1>1, <2>1, <2>3, <2>4, MappedPlan
  <2>7. Lifecycle!CarryOut(k)
    BY <1>3, <2>1, <2>4, <2>5, <2>6
       DEF Lifecycle!CarryOut, Lifecycle!Exists, Lifecycle!MoreSteps
  <2> QED
    BY <1>3, <2>3, <2>7 DEF Lifecycle!Next
<1> QED
  BY <1>4, <1>5

\* Users and the approve handler create, edit and delete plans.
LEMMA UsersMove ==
    ASSUME RInv, NEW p \in Plans, Users(p) \/ Approve(p)
    PROVE  OrderlyInv' /\ (Lifecycle!Next \/ UNCHANGED Lifecycle!vars)
<1>1. /\ IInv /\ SideInv /\ OrderlyInv /\ StoredInv
      /\ api \in [Plans -> Version \union {NoPlan}] /\ rev[p] + 1 \in Nat
      /\ done \in [Plans -> SUBSET Nat]
  BY DEF RInv, SInv, CarriedInv, IInv, SideInv, TypeOK
<1>2. OrderlyInv'
  <2> SUFFICES ASSUME NEW q \in Plans, api'[q] # NoPlan
               PROVE  /\ api'[q].status.phase \in {"", "Pending", "Approved"}
                         => api'[q].status.step = 0
                      /\ api'[q].status.phase = "Failed"
                         => api'[q].status.step < Len(api'[q].tools)
    BY DEF OrderlyInv
  <2>1. CASE api[q] = NoPlan
    <3>1. api'[q].status = NewStatus
      BY <1>1, <2>1, UserEffect
    <3>2. NewStatus.phase = "" /\ NewStatus.step = 0
      BY DEF NewStatus
    <3> QED
      BY <3>1, <3>2
  <2>2. CASE api[q] # NoPlan
    <3>1. /\ api'[q].status = api[q].status
          /\ api[q].approved => api'[q].tools = api[q].tools
      BY <1>1, <2>2, UserEffect
    <3>2. api[q].status.phase = "Failed" => api[q].approved
      BY <1>1, <2>2 DEF StoredInv, CopyOf, PhaseApproved
    <3> QED
      BY <1>1, <2>2, <3>1, <3>2 DEF OrderlyInv
  <2> QED
    BY <2>1, <2>2
\* What is stored is what was written, under a new resourceVersion.
<1>3. ASSUME NEW w \in Version, Store(p, w)
      PROVE  AbstractPlans' = [AbstractPlans EXCEPT
               ![p] = [approved |-> w.approved, tools |-> w.tools,
                       phase |-> w.status.phase, step |-> w.status.step]]
  <2> DEFINE new == [w EXCEPT !.rv = rev[p] + 1]
  <2>1. /\ new \in Version /\ new.approved = w.approved /\ new.tools = w.tools
        /\ new.status = w.status
    BY <1>1 DEF Version
  <2>2. new # NoPlan
    BY <2>1, NoPlanAssumption
  <2>3. api' = [api EXCEPT ![p] = new]
    BY <1>3 DEF Store
  <2> HIDE DEF new
  <2>4. api'[p] = new /\ \A q \in Plans \ {p} : api'[q] = api[q]
    BY <1>1, <2>3
  <2> QED
    BY <2>1, <2>2, <2>4, MappedChange DEF Abstract
<1>4. CASE CreatePlan(p)
  <2>1. PICK tools \in ToolLists, approved \in BOOLEAN :
          Store(p, [uid |-> rev[p] + 1, rv |-> 0, approved |-> approved,
                    tools |-> tools, status |-> NewStatus])
    BY <1>4 DEF CreatePlan
  <2>2. NewStatus \in Status /\ NewStatus.phase = "" /\ NewStatus.step = 0
    BY DEF Status, NewStatus, Phases
  <2> DEFINE w == [uid |-> rev[p] + 1, rv |-> 0, approved |-> approved,
                   tools |-> tools, status |-> NewStatus]
  <2>3. w \in Version /\ w.approved = approved /\ w.tools = tools /\ w.status = NewStatus
    BY <1>1, <2>2 DEF Version
  <2> HIDE DEF w
  <2>4. Store(p, w)
    BY <2>1 DEF w
  <2>5. AbstractPlans' = [AbstractPlans EXCEPT
          ![p] = [approved |-> approved, tools |-> tools, phase |-> "", step |-> 0]]
    BY <1>3, <2>2, <2>3, <2>4
  <2>6. AbstractPlans[p] = NoPlan /\ done' = [done EXCEPT ![p] = {}]
    BY <1>1, <1>4, MappedPlan DEF CreatePlan
  <2>7. Lifecycle!Create(p)
    BY <2>5, <2>6 DEF Lifecycle!Create
  <2> QED
    BY <1>2, <2>7 DEF Lifecycle!Next
<1>5. CASE DeletePlan(p)
  <2>1. AbstractPlans[p] # NoPlan
    BY <1>1, <1>5, MappedPlan DEF DeletePlan
  <2>2. api'[p] = NoPlan /\ \A q \in Plans \ {p} : api'[q] = api[q]
    BY <1>1, <1>5 DEF DeletePlan
  <2>3. AbstractPlans' = [AbstractPlans EXCEPT ![p] = NoPlan]
    BY <2>2, MappedChange DEF Abstract
  <2>4. Lifecycle!Delete(p)
    BY <1>5, <2>1, <2>3 DEF Lifecycle!Delete, DeletePlan, history
  <2> QED
    BY <1>2, <2>4 DEF Lifecycle!Next
\* A write of another spec over the stored plan.
<1>6. ASSUME NEW tools \in ToolLists, NEW approved \in BOOLEAN, api[p] # NoPlan,
             Store(p, [api[p] EXCEPT !.tools = tools, !.approved = approved]),
             done' = done, ~api[p].approved
      PROVE  Lifecycle!Edit(p)
  <2> DEFINE w == [api[p] EXCEPT !.tools = tools, !.approved = approved]
  <2>1. /\ w \in Version /\ w.approved = approved /\ w.tools = tools
        /\ w.status = api[p].status
    BY <1>1, <1>6 DEF Version
  <2> HIDE DEF w
  <2>2. Store(p, w)
    BY <1>6 DEF w
  <2> DEFINE old == [approved |-> api[p].approved, tools |-> api[p].tools,
                     phase |-> api[p].status.phase, step |-> api[p].status.step]
             new == [approved |-> approved, tools |-> tools,
                     phase |-> api[p].status.phase, step |-> api[p].status.step]
  <2>3. AbstractPlans[p] # NoPlan /\ AbstractPlans[p] = old /\ ~AbstractPlans[p].approved
    BY <1>1, <1>6, MappedPlan
  <2>4. AbstractPlans' = [AbstractPlans EXCEPT ![p] = new]
    BY <1>3, <2>1, <2>2
  <2>5. [old EXCEPT !.tools = tools, !.approved = approved] = new
    <3> DEFINE mid == [approved |-> api[p].approved, tools |-> tools,
                       phase |-> api[p].status.phase, step |-> api[p].status.step]
    <3>1. [old EXCEPT !.tools = tools] = mid
      OBVIOUS
    <3>2. [mid EXCEPT !.approved = approved] = new
      OBVIOUS
    <3> HIDE DEF old, mid, new
    <3>3. [old EXCEPT !.tools = tools, !.approved = approved]
            = [[old EXCEPT !.tools = tools] EXCEPT !.approved = approved]
      OBVIOUS
    <3> QED
      BY <3>1, <3>2, <3>3
  <2> HIDE DEF old, new
  <2>6. AbstractPlans' = [AbstractPlans EXCEPT
          ![p].tools = tools, ![p].approved = approved]
    <3>1. AbstractPlans \in [Plans -> AbstractPlan \union {NoPlan}]
      BY <1>1, MappedPlan
    <3> QED
      BY <2>3, <2>4, <2>5, <3>1
  <2> QED
    <3>1. /\ AbstractPlans[p] # NoPlan
          /\ ~AbstractPlans[p].approved
          /\ UNCHANGED done
      BY <1>6, <2>3
    <3> QED
      BY <1>6, <2>6, <3>1 DEF Lifecycle!Edit
<1>7. CASE EditPlan(p)
  <2>1. Lifecycle!Edit(p)
    BY <1>6, <1>7 DEF EditPlan, MayChange, history
  <2> QED
    BY <1>2, <2>1 DEF Lifecycle!Next
<1>8. CASE ApprovePatch(p)
  <2>1. CASE api[p] # NoPlan /\ ~api[p].approved
    <3>1. api[p] \in Version /\ api[p].tools \in ToolLists
      BY <1>1, <2>1 DEF Version
    <3>2. [api[p] EXCEPT !.approved = TRUE]
            = [api[p] EXCEPT !.tools = api[p].tools, !.approved = TRUE]
      BY <3>1 DEF Version
    <3>3. Lifecycle!Edit(p)
      BY <1>6, <1>8, <2>1, <3>1, <3>2 DEF ApprovePatch, history
    <3> QED
      BY <1>2, <3>3 DEF Lifecycle!Next
  <2>2. CASE ~(api[p] # NoPlan /\ ~api[p].approved)
    <3>1. api' = api /\ done' = done
      BY <1>8, <2>2 DEF ApprovePatch, server, history
    <3> QED
      BY <1>2, <3>1, MappedSame DEF Lifecycle!vars
  <2> QED
    BY <2>1, <2>2
<1>9. CASE TouchPlan(p)
  <2>1. api[p] \in Version /\ api[p] # NoPlan /\ Store(p, api[p]) /\ done' = done
    BY <1>1, <1>9 DEF TouchPlan, history
  <2>2. AbstractPlans' = [AbstractPlans EXCEPT ![p] = AbstractPlans[p]]
    BY <1>1, <1>3, <2>1, MappedPlan
  <2>3. AbstractPlans' = AbstractPlans
    BY <1>1, <2>2, MappedPlan
  <2> QED
    BY <1>2, <2>1, <2>3 DEF Lifecycle!vars
<1>10. CASE ApproveGet(p) \/ ApproveFails(p)
  <2>1. api' = api /\ done' = done
    BY <1>10 DEF ApproveGet, ApproveFails, server, history
  <2> QED
    BY <1>2, <2>1, MappedSame DEF Lifecycle!vars
<1> QED
  BY <1>4, <1>5, <1>7, <1>8, <1>9, <1>10 DEF Users, Approve

-----------------------------------------------------------------------------
\* Every step is a step of the lifecycle or none of its concern.
LEMMA NextMoves ==
    RInv /\ [Next]_vars => OrderlyInv' /\ (Lifecycle!Next \/ UNCHANGED Lifecycle!vars)
<1> SUFFICES ASSUME RInv, [Next]_vars
             PROVE  OrderlyInv' /\ (Lifecycle!Next \/ UNCHANGED Lifecycle!vars)
  OBVIOUS
<1>1. ASSUME NEW p \in Plans, Users(p) \/ Approve(p)
      PROVE  OrderlyInv' /\ (Lifecycle!Next \/ UNCHANGED Lifecycle!vars)
  BY <1>1, UsersMove
<1>2. CASE Reconcile
  BY <1>2, ReconcileMoves
<1>3. CASE Helm
  BY <1>3, HelmCarriesOut
<1>4. ASSUME api' = api, done' = done
      PROVE  OrderlyInv' /\ (Lifecycle!Next \/ UNCHANGED Lifecycle!vars)
  BY <1>4, MappedSame DEF RInv, OrderlyInv, Lifecycle!vars
<1>5. ASSUME NEW p \in Plans, Informer(p) \/ Begin(p)
      PROVE  api' = api /\ done' = done
  BY <1>5 DEF Informer, Deliver, Relist, FallsDue, Begin, server, history
<1>6. CASE Restart
  BY <1>4, <1>6 DEF Restart, history
<1>7. CASE UNCHANGED vars
  BY <1>4, <1>7 DEF vars
<1> QED
  BY <1>1, <1>2, <1>3, <1>4, <1>5, <1>6, <1>7 DEF Next

\* An initial state is one of the lifecycle.
LEMMA InitMoves == Init => OrderlyInv /\ Lifecycle!Init
<1> SUFFICES ASSUME Init PROVE OrderlyInv /\ Lifecycle!Init
  OBVIOUS
<1>1. api = [p \in Plans |-> NoPlan] /\ done = [p \in Plans |-> {}]
  BY DEF Init
<1>2. AbstractPlans = [p \in Plans |-> NoPlan]
  BY <1>1 DEF AbstractPlans, Abstract
<1> QED
  BY <1>1, <1>2 DEF OrderlyInv, Lifecycle!Init

\* The controller implements the lifecycle, for any number of plans, steps, faults,
\* edits and incarnations.
THEOREM Refinement == Spec => ImplementsLifecycle
<1>1. Init => RInv
  BY InitSInv, InitMoves DEF RInv
<1>2. RInv /\ [Next]_vars => RInv'
  BY NextSInv, NextMoves DEF RInv
<1>3. RInv /\ [Next]_vars => [Lifecycle!Next]_Lifecycle!vars
  BY NextMoves
<1>4. Spec => []RInv
  BY <1>1, <1>2, PTL DEF Spec
<1>5. Init => Lifecycle!Init
  BY InitMoves
<1>6. Spec => Lifecycle!Init /\ [][Lifecycle!Next]_Lifecycle!vars
  BY <1>3, <1>4, <1>5, PTL DEF Spec
<1> QED
  BY <1>6 DEF ImplementsLifecycle, Lifecycle!Spec

-----------------------------------------------------------------------------
(***************************************************************************)
(* Proofs about StackUpgrade: how often a step can be handed to Helm again, *)
(* for any number of plans.  A started step that the worker is not at any   *)
(* longer is open: it may start it again.  Only a crash, a failed write or  *)
(* a foreign write opens a step, and a repeat closes one, so that the       *)
(* repeats there were and the open steps are together no more than the      *)
(* faults.  What the first start of a step and a write do to another        *)
(* operator's account is in Undisturbed; HandoverProofs uses it.            *)
(***************************************************************************)

\* The worker is at the step of p, with the stored version in its hands.
AtStep(p) == /\ worker.pc \in {"helm", "running", "record"}
             /\ worker.key = p /\ worker.copy = api[p]

\* Plans whose next step was started.
Underway == {p \in Plans : /\ api[p] # NoPlan
                           /\ api[p].status.phase = "Upgrading"
                           /\ api[p].status.step + 1 \in started[p]}

\* Those whose next step is not in the worker's hands.
Open == {p \in Underway : ~AtStep(p)}

\* No step beyond the next one was started, and none before the plan was; one that
\* was is recorded as started, so that starting it again writes nothing.
StartedInv ==
    \A p \in Plans : api[p] # NoPlan =>
      /\ started[p] \subseteq 1..(api[p].status.step + 1)
      /\ api[p].status.phase \in {"", "Pending", "Approved"} => started[p] = {}
      /\ p \in Underway => api[p].status.progress = "StepStarted"

CreditInv == IsFiniteSet(Open) /\ repeats + Cardinality(Open) <= faults

CInv == IInv /\ StartedInv /\ CreditInv

-----------------------------------------------------------------------------
(* What a step does to the account.                                        *)

\* Every plan under way that is not in S was so before, and is as it was.
Undisturbed(S) == \A q \in Underway' \ S : q \in Underway /\ api'[q] = api[q]

\* Plans are created only where A says so.
NoneNew(S) == \A q \in Plans \ S : api'[q] # NoPlan => api[q] # NoPlan

Same == UNCHANGED <<started, creations>> /\ NoneNew({})

\* Some step of k is started for the first time.
FirstStart(k) ==
    /\ api[k] # NoPlan /\ NoneNew({})
    /\ \E i \in DOMAIN api[k].tools \ started[k] : started' = [started EXCEPT ![k] = @ \union {i}]
    /\ creations' = creations

Creates(k) ==
    /\ NoneNew({k})
    /\ started' = [started EXCEPT ![k] = {}]
    /\ creations' = creations + 1

\* A step opens nothing, or one step at the price of a fault, or closes one by
\* repeating it; to others it does so also when it starts one.
Balanced ==
    \/ /\ Open' \subseteq Open /\ Undisturbed({}) /\ Same
       /\ repeats' = repeats /\ faults' \in {faults, faults + 1}
    \/ \E k : /\ Open' \subseteq Open \union {k} /\ Undisturbed({k}) /\ Same
              /\ repeats' = repeats /\ faults' = faults + 1
    \/ \E k \in Open : /\ Open' \subseteq Open \ {k} /\ Undisturbed({}) /\ Same
                       /\ repeats' = repeats + 1 /\ faults' = faults
    \/ \E k \in Plans : /\ Open' \subseteq Open /\ Undisturbed({k}) /\ FirstStart(k)
                        /\ repeats' = repeats /\ faults' = faults
    \/ \E k \in Plans : /\ Open' \subseteq Open /\ Undisturbed({}) /\ Creates(k)
                        /\ repeats' = repeats /\ faults' = faults

\* What a set of credits that changes that much is worth.
LEMMA Costs ==
    ASSUME NEW S, IsFiniteSet(S), NEW T
    PROVE  /\ Cardinality(S) \in Nat
           /\ T \subseteq S =>
                IsFiniteSet(T) /\ Cardinality(T) \in Nat /\ Cardinality(T) <= Cardinality(S)
           /\ \A k : T \subseteq S \union {k} =>
                IsFiniteSet(T) /\ Cardinality(T) \in Nat /\ Cardinality(T) <= Cardinality(S) + 1
           /\ \A k \in S : T \subseteq S \ {k} =>
                IsFiniteSet(T) /\ Cardinality(T) \in Nat /\ Cardinality(T) <= Cardinality(S) - 1
<1>1. Cardinality(S) \in Nat
  BY FS_CardinalityType
<1>2. ASSUME NEW U, IsFiniteSet(U), T \subseteq U
      PROVE  IsFiniteSet(T) /\ Cardinality(T) \in Nat /\ Cardinality(T) <= Cardinality(U)
  BY <1>2, FS_Subset, FS_CardinalityType
<1>3. ASSUME NEW k
      PROVE  /\ IsFiniteSet(S \union {k}) /\ Cardinality(S \union {k}) \in Nat
             /\ Cardinality(S \union {k}) <= Cardinality(S) + 1
  <2>1. /\ IsFiniteSet(S \union {k})
        /\ Cardinality(S \union {k})
             = IF k \in S THEN Cardinality(S) ELSE Cardinality(S) + 1
    BY FS_AddElement
  <2> QED
    BY <1>1, <2>1
<1>4. ASSUME NEW k, T \subseteq S \union {k}
      PROVE  IsFiniteSet(T) /\ Cardinality(T) \in Nat /\ Cardinality(T) <= Cardinality(S) + 1
  <2>1. /\ IsFiniteSet(T) /\ Cardinality(T) \in Nat
        /\ Cardinality(T) <= Cardinality(S \union {k})
    BY <1>2, <1>3, <1>4
  <2>2. /\ Cardinality(S \union {k}) \in Nat
        /\ Cardinality(S \union {k}) <= Cardinality(S) + 1
    BY <1>3
  <2> QED
    BY <1>1, <2>1, <2>2
<1>5. ASSUME NEW k \in S, T \subseteq S \ {k}
      PROVE  IsFiniteSet(T) /\ Cardinality(T) \in Nat /\ Cardinality(T) <= Cardinality(S) - 1
  <2>1. IsFiniteSet(S \ {k}) /\ Cardinality(S \ {k}) = Cardinality(S) - 1
    BY <1>5, FS_RemoveElement
  <2>2. /\ IsFiniteSet(T) /\ Cardinality(T) \in Nat
        /\ Cardinality(T) <= Cardinality(S \ {k})
    BY <1>2, <1>5, <2>1
  <2> QED
    BY <1>1, <2>1, <2>2
<1> QED
  BY <1>1, <1>2, <1>4, <1>5

\* A balanced step keeps the repeats within the faults.
LEMMA BalanceKept ==
    ASSUME CInv, Balanced
    PROVE  CreditInv'
<1>1. /\ repeats \in Nat /\ faults \in Nat
      /\ IsFiniteSet(Open) /\ repeats + Cardinality(Open) <= faults
  BY BoundsAssumption DEF CInv, IInv, SideInv, TypeOK, CreditInv
<1>2. ASSUME Open' \subseteq Open, repeats' = repeats, faults' \in {faults, faults + 1}
      PROVE  CreditInv'
  BY <1>1, <1>2, Costs DEF CreditInv
<1>3. ASSUME NEW k, Open' \subseteq Open \union {k}, repeats' = repeats, faults' = faults + 1
      PROVE  CreditInv'
  <2>1. /\ IsFiniteSet(Open') /\ Cardinality(Open') \in Nat /\ Cardinality(Open) \in Nat
        /\ Cardinality(Open') <= Cardinality(Open) + 1
    BY <1>1, <1>3, Costs, Zenon
  <2> QED
    BY <1>1, <1>3, <2>1 DEF CreditInv
<1>4. ASSUME NEW k \in Open, Open' \subseteq Open \ {k}, repeats' = repeats + 1, faults' = faults
      PROVE  CreditInv'
  BY <1>1, <1>4, Costs DEF CreditInv
<1> QED
  BY <1>2, <1>3, <1>4 DEF Balanced

-----------------------------------------------------------------------------
(* The actions.                                                            *)

\* What is open stays in the account of an operator that keeps its step.
LEMMA OpenKept ==
    ASSUME NEW S, Undisturbed(S),
           \A q \in Plans \ S : AtStep(q) /\ api'[q] = api[q] => AtStep(q)'
    PROVE  Open' \subseteq Open \union S
BY DEF Undisturbed, Open, Underway

\* What is under way in a state of the same plans and started steps.
LEMMA SameUnderway ==
    ASSUME StartedInv, UNCHANGED <<api, started>>
    PROVE  StartedInv' /\ Undisturbed({}) /\ NoneNew({})
BY DEF StartedInv, Underway, Undisturbed, NoneNew

\* Users and the approve handler leave started plans alone, except for TouchPlan.
LEMMA UsersKeep ==
    ASSUME SideInv, NEW p \in Plans, Users(p) \/ Approve(p), NEW q \in Plans, api'[q] # NoPlan
    PROVE  \/ api'[q] = api[q] /\ started'[q] = started[q]
           \/ api'[q].status = NewStatus /\ started'[q] = {}
           \/ /\ q = p /\ api[q] # NoPlan
              /\ api'[q].status = api[q].status /\ started'[q] = started[q]
              /\ api[q].approved => TouchPlan(p)
<1>1. /\ api \in [Plans -> Version \union {NoPlan}] /\ rev[p] + 1 \in Nat
      /\ started \in [Plans -> SUBSET Nat]
  BY DEF SideInv, TypeOK
<1>2. ASSUME NEW w \in Version, Store(p, w)
      PROVE  api'[p].status = w.status /\ \A r \in Plans \ {p} : api'[r] = api[r]
  <2> DEFINE new == [w EXCEPT !.rv = rev[p] + 1]
  <2>1. new.status = w.status
    BY <1>1 DEF Version
  <2>2. api' = [api EXCEPT ![p] = new]
    BY <1>2 DEF Store
  <2> HIDE DEF new
  <2> QED
    BY <1>1, <2>1, <2>2
<1>3. CASE CreatePlan(p)
  <2>1. PICK tools \in ToolLists, approved \in BOOLEAN :
          Store(p, [uid |-> rev[p] + 1, rv |-> 0, approved |-> approved,
                    tools |-> tools, status |-> NewStatus])
    BY <1>3 DEF CreatePlan
  <2> DEFINE w == [uid |-> rev[p] + 1, rv |-> 0, approved |-> approved,
                   tools |-> tools, status |-> NewStatus]
  <2>2. w \in Version /\ w.status = NewStatus
    BY <1>1 DEF Version, Status, NewStatus, Phases
  <2> HIDE DEF w
  <2>3. Store(p, w)
    BY <2>1 DEF w
  <2>4. started' = [started EXCEPT ![p] = {}]
    BY <1>3 DEF CreatePlan
  <2> QED
    BY <1>1, <1>2, <2>2, <2>3, <2>4
<1>4. ASSUME NEW tools \in ToolLists, NEW approved \in BOOLEAN, api[p] # NoPlan,
             Store(p, [api[p] EXCEPT !.tools = tools, !.approved = approved])
      PROVE  api'[p].status = api[p].status /\ \A r \in Plans \ {p} : api'[r] = api[r]
  <2> DEFINE w == [api[p] EXCEPT !.tools = tools, !.approved = approved]
  <2>1. w \in Version /\ w.status = api[p].status
    BY <1>1, <1>4 DEF Version
  <2> HIDE DEF w
  <2>2. Store(p, w)
    BY <1>4 DEF w
  <2> QED
    BY <1>2, <2>1, <2>2
<1>5. CASE EditPlan(p)
  BY <1>4, <1>5 DEF EditPlan, MayChange, history
<1>6. CASE ApprovePatch(p)
  <2>1. CASE api[p] # NoPlan /\ ~api[p].approved
    <3>1. api[p] \in Version /\ api[p].tools \in ToolLists
      BY <1>1, <2>1 DEF Version
    <3>2. [api[p] EXCEPT !.approved = TRUE]
            = [api[p] EXCEPT !.tools = api[p].tools, !.approved = TRUE]
      BY <3>1 DEF Version
    <3> QED
      BY <1>4, <1>6, <2>1, <3>1, <3>2 DEF ApprovePatch, history
  <2>2. CASE ~(api[p] # NoPlan /\ ~api[p].approved)
    BY <1>6, <2>2 DEF ApprovePatch, server, history
  <2> QED
    BY <2>1, <2>2
<1>7. CASE TouchPlan(p)
  BY <1>1, <1>2, <1>7 DEF TouchPlan, history
<1>8. CASE DeletePlan(p)
  BY <1>1, <1>8 DEF DeletePlan, history
<1>9. CASE ApproveGet(p) \/ ApproveFails(p)
  BY <1>9 DEF ApproveGet, ApproveFails, server, history
<1> QED
  BY <1>3, <1>5, <1>6, <1>7, <1>8, <1>9 DEF Users, Approve

\* Only CreatePlan makes a plan.
LEMMA UsersCreate ==
    ASSUME SideInv, NEW p \in Plans, Users(p) \/ Approve(p)
    PROVE  NoneNew({p}) /\ (~CreatePlan(p) \/ TouchPlan(p) => NoneNew({}))
<1>1. api \in [Plans -> Version \union {NoPlan}]
  BY DEF SideInv, TypeOK
<1>2. NoneNew({p})
  BY <1>1 DEF NoneNew, Users, Approve, CreatePlan, EditPlan, TouchPlan, DeletePlan, ApproveGet,
              ApprovePatch, ApproveFails, Store, server
<1>3. ASSUME ~CreatePlan(p) \/ TouchPlan(p)
      PROVE  api'[p] # NoPlan => api[p] # NoPlan
  BY <1>1, <1>3 DEF Users, Approve, EditPlan, TouchPlan, DeletePlan, ApproveGet,
                    ApprovePatch, ApproveFails, Store, server
<1> QED
  BY <1>2, <1>3 DEF NoneNew

\* A user opens no step of a plan, short of deleting it.
LEMMA UsersBalance ==
    ASSUME SideInv, StartedInv, NEW p \in Plans, Users(p) \/ Approve(p)
    PROVE  StartedInv' /\ Balanced
<1>1. /\ StoredInv /\ started \in [Plans -> SUBSET Nat]
      /\ NewStatus.phase = "" /\ NewStatus.step = 0
  BY DEF SideInv, TypeOK, NewStatus
<1>2. StartedInv'
  BY <1>1, UsersKeep DEF StartedInv, Underway
<1>3. worker' = worker /\ repeats' = repeats
  BY DEF Users, Approve, CreatePlan, EditPlan, TouchPlan, DeletePlan, ApproveGet,
         ApprovePatch, ApproveFails, history
<1>4. ASSUME NEW q \in Underway', q # p \/ ~TouchPlan(p)
      PROVE  q \in Underway /\ api'[q] = api[q]
  <2>1. q \in Plans /\ api'[q] # NoPlan /\ api'[q].status.phase = "Upgrading"
    BY DEF Underway
  <2>2. api'[q] = api[q] /\ started'[q] = started[q]
    <3>1. api[q] # NoPlan /\ api[q].status.phase = "Upgrading" => api[q].approved
      BY <1>1, <2>1 DEF StoredInv, CopyOf, PhaseApproved
    <3> QED
      BY <1>1, <1>4, <2>1, <3>1, UsersKeep
  <2> QED
    BY <2>2 DEF Underway
<1>5. ASSUME NEW S, Undisturbed(S)
      PROVE  Open' \subseteq Open \union S
  BY <1>3, <1>5, OpenKept DEF AtStep
<1>6. CASE TouchPlan(p)
  <2>1. faults' = faults + 1 /\ Same
    BY <1>6, UsersCreate DEF TouchPlan, Same, history
  <2>2. Undisturbed({p})
    BY <1>4 DEF Undisturbed
  <2> QED
    BY <1>2, <1>3, <1>5, <2>1, <2>2 DEF Balanced
<1>7. CASE ~TouchPlan(p)
  <2>1. Undisturbed({}) /\ Open' \subseteq Open
    BY <1>4, <1>5, <1>7 DEF Undisturbed
  <2>2. CASE CreatePlan(p)
    <3>1. faults' = faults /\ Creates(p)
      BY <2>2, UsersCreate DEF CreatePlan, Creates
    <3> QED
      BY <1>2, <1>3, <2>1, <3>1 DEF Balanced
  <2>3. CASE ~CreatePlan(p)
    <3>1. faults' = faults /\ UNCHANGED <<started, creations>>
      BY <1>7, <2>3 DEF Users, Approve, EditPlan, DeletePlan, ApproveGet,
                        ApprovePatch, ApproveFails, bounds, history
    <3>2. NoneNew({})
      BY <1>7, <2>3, UsersCreate
    <3> QED
      BY <1>2, <1>3, <2>1, <3>1, <3>2 DEF Balanced, Same
  <2> QED
    BY <2>2, <2>3
<1> QED
  BY <1>6, <1>7

\* The informer, the queue and the read that begins a reconcile.
LEMMA InformerBalance ==
    ASSUME StartedInv, NEW p \in Plans, Informer(p) \/ Begin(p)
    PROVE  StartedInv' /\ Balanced
<1>1. /\ UNCHANGED <<api, started, repeats, faults, creations>>
      /\ worker' = worker \/ worker.pc = "idle"
  BY DEF Informer, Deliver, Relist, FallsDue, Begin, server, history, bounds
<1>2. StartedInv' /\ Undisturbed({}) /\ NoneNew({})
  BY <1>1, SameUnderway
<1>3. Open' \subseteq Open
  BY <1>1, <1>2, OpenKept DEF AtStep
<1> QED
  BY <1>1, <1>2, <1>3 DEF Balanced, Same

\* A crash leaves the worker's step open.
LEMMA StartOpens ==
    ASSUME StartedInv, UNCHANGED <<api, started>>, worker' = Idle
    PROVE  /\ StartedInv' /\ Undisturbed({}) /\ NoneNew({})
           /\ Open' \subseteq Open \union {worker.key}
<1>1. StartedInv' /\ Undisturbed({}) /\ NoneNew({})
  BY SameUnderway
<1>2. Undisturbed({worker.key})
  BY <1>1 DEF Undisturbed
<1> QED
  BY <1>1, <1>2, OpenKept DEF AtStep

\* So it is with Restart, which is a fault.
LEMMA RestartBalance ==
    ASSUME StartedInv, Restart
    PROVE  StartedInv' /\ Balanced
<1>1. UNCHANGED <<api, started, repeats, creations>> /\ faults' = faults + 1 /\ worker' = Idle
  BY DEF Restart, Start, history
<1>2. /\ StartedInv' /\ Undisturbed({worker.key}) /\ NoneNew({})
      /\ Open' \subseteq Open \union {worker.key}
  BY <1>1, StartOpens DEF Undisturbed
<1> QED
  BY <1>1, <1>2 DEF Balanced, Same

\* Helm works on the step the worker is at.
LEMMA HelmBalance ==
    ASSUME SideInv, StartedInv, Helm
    PROVE  StartedInv' /\ Balanced
<1>1. worker.pc \in {"helm", "running"}
  BY DEF Helm, PreflightFails, HelmRefuses, HelmDryRuns, HelmBegins,
         HelmSucceeds, HelmRollsBack
<1>2. UNCHANGED <<api, started, repeats, faults, creations>>
  BY DEF Helm, PreflightFails, HelmRefuses, HelmDryRuns, HelmBegins, HelmSucceeds,
         HelmRollsBack, Return, server, history, bounds
<1>3. worker \in Reconciling
  BY <1>1, WorkerType DEF SideInv
<1>4. worker'.pc \in {"running", "record"}
  BY <1>3 DEF Helm, PreflightFails, HelmRefuses, HelmDryRuns, HelmBegins, HelmSucceeds,
              HelmRollsBack, Return, Reconciling
<1>5. worker'.key = worker.key /\ worker'.copy = worker.copy
  BY HelmEffect
<1>6. StartedInv' /\ Undisturbed({}) /\ NoneNew({})
  BY <1>2, SameUnderway
<1>7. Open' \subseteq Open
  BY <1>4, <1>5, <1>6, OpenKept DEF AtStep
<1> QED
  BY <1>2, <1>6, <1>7 DEF Balanced, Same

\* A status write that is taken is what is stored.
LEMMA PutTaken ==
    ASSUME SideInv, worker.pc # "idle", NEW s \in Status,
           PutStatus(worker.key, worker.copy, s)
    PROVE  /\ api[worker.key] # NoPlan /\ api[worker.key] = worker.copy
           /\ api'[worker.key] # NoPlan /\ api'[worker.key].status = s
<1> DEFINE k == worker.key
           w == [worker.copy EXCEPT !.status = s]
           new == [w EXCEPT !.rv = rev[k] + 1]
<1>1. /\ k \in Plans /\ worker.copy \in Version /\ CopyOf(k, worker.copy)
      /\ api \in [Plans -> Version \union {NoPlan}] /\ rev[k] + 1 \in Nat
  BY WorkerType DEF SideInv, TypeOK, WorkerInv
<1>2. api[k] # NoPlan /\ api[k] = worker.copy
  BY <1>1 DEF PutStatus, IsCurrent, CopyOf
<1>3. CASE s = worker.copy.status
  BY <1>2, <1>3 DEF PutStatus, server
<1>4. CASE s # worker.copy.status
  <2>1. new \in Version /\ new.status = s
    BY <1>1 DEF Version
  <2>2. new # NoPlan
    BY <2>1, NoPlanAssumption
  <2>3. api' = [api EXCEPT ![k] = new]
    BY <1>4 DEF PutStatus, Store
  <2> HIDE DEF new
  <2>4. api'[k] = new
    BY <1>1, <2>3
  <2> QED
    BY <1>2, <2>1, <2>2, <2>4
<1> QED
  BY <1>3, <1>4

\* A write that changes currentStep or the phase takes the plan to where nothing
\* was started yet, and one that fails opens the worker's step.
LEMMA WriteBalance ==
    ASSUME SideInv, StartedInv, NEW t \in Status,
           worker.pc = "reconcile" \/ worker.pc = "record",
           \/ PutStatus(worker.key, worker.copy, t) /\ UNCHANGED faults
           \/ PutFails(worker.key, worker.copy, t),
           worker' = Idle, UNCHANGED <<started, repeats, creations>>,
           api[worker.key] # NoPlan /\ api[worker.key] = worker.copy =>
             /\ started[worker.key] \subseteq 1..(t.step + 1)
             /\ t.phase \in {"", "Pending", "Approved"} => started[worker.key] = {}
             /\ t.phase = "Upgrading" /\ t.step + 1 \in started[worker.key] =>
                  /\ PutFails(worker.key, worker.copy, t)
                  /\ t.progress = "StepStarted"
    PROVE  StartedInv' /\ Balanced
<1> DEFINE k == worker.key
<1>1. k \in Plans /\ CopyOf(k, worker.copy)
  BY WorkerType DEF SideInv, WorkerInv
<1>2. ASSUME NEW q \in Plans
      PROVE  \/ api'[q] = api[q]
             \/ /\ q = k /\ api[q] # NoPlan /\ api[q] = worker.copy
                /\ api'[q] # NoPlan /\ api'[q].status = t
  BY PutEffect
<1>3. StartedInv'
  BY <1>1, <1>2 DEF StartedInv, Underway
<1>4. NoneNew({}) /\ Same
  BY <1>2 DEF NoneNew, Same
<1>5. Undisturbed({k})
  BY <1>2 DEF Undisturbed, Underway
<1>6. ASSUME NEW S, Undisturbed(S), AtStep(k) /\ k \notin S => api'[k] # api[k]
      PROVE  Open' \subseteq Open \union S
  BY <1>6, OpenKept DEF AtStep
<1>7. CASE k \notin Underway'
  <2>1. faults' \in {faults, faults + 1}
    BY DEF PutFails
  <2>2. Open' \subseteq Open \union {k} /\ k \notin Open'
    BY <1>5, <1>6, <1>7 DEF Open
  <2>3. Undisturbed({})
    BY <1>5, <1>7 DEF Undisturbed
  <2> QED
    BY <1>3, <1>4, <2>1, <2>2, <2>3 DEF Balanced
<1>8. CASE faults' = faults + 1
  BY <1>3, <1>4, <1>5, <1>6, <1>8 DEF Balanced
<1>9. CASE k \in Underway' /\ PutStatus(k, worker.copy, t) /\ ~PutFails(k, worker.copy, t)
  <2>1. /\ api[k] # NoPlan /\ api[k] = worker.copy /\ api'[k].status = t
    BY <1>1, <1>9, PutTaken
  <2>2. t.phase = "Upgrading" /\ t.step + 1 \in started[k]
    BY <1>9, <2>1 DEF Underway
  <2> QED
    BY <1>9, <2>1, <2>2
<1>10. CASE ~IsCurrent(k, worker.copy) /\ UNCHANGED <<server, faults>>
  <2>1. api' = api /\ ~(api[k] # NoPlan /\ api[k] = worker.copy)
    BY <1>10 DEF server, IsCurrent
  <2>2. Undisturbed({})
    BY <2>1, SameUnderway
  <2>3. Open' \subseteq Open
    BY <2>1, <2>2 DEF Undisturbed, Open, Underway, AtStep
  <2> QED
    BY <1>3, <1>4, <1>10, <2>2, <2>3 DEF Balanced
<1> QED
  BY <1>7, <1>8, <1>9, <1>10 DEF PutFails

\* The write before a step puts the step into the worker's hands; of a step that was
\* started it writes nothing.
LEMMA StartBalance ==
    ASSUME SideInv, StartedInv, StartStep
    PROVE  StartedInv' /\ Balanced
<1> DEFINE k == worker.key
           v == worker.copy
<1>1. /\ worker.pc = "reconcile" /\ v.status.phase = "Upgrading"
      /\ PutStatus(k, v, StartedStatus)
      /\ StepNo \in DOMAIN v.tools
      /\ worker' = [worker EXCEPT !.pc = "helm", !.copy = api'[k]]
      /\ started' = [started EXCEPT ![k] = @ \union {StepNo}]
      /\ repeats' = IF StepNo \in started[k] THEN repeats + 1 ELSE repeats
      /\ faults' = faults /\ creations' = creations
  BY DEF StartStep, InPhase, bounds
<1>2. /\ k \in Plans /\ worker \in Reconciling \union Recording /\ v.status \in Status
      /\ v.status.step \in Nat /\ started \in [Plans -> SUBSET Nat]
  BY <1>1, WorkerType DEF SideInv, TypeOK, Status
<1>3. /\ StartedStatus \in Status /\ StartedStatus.step = v.status.step
      /\ StartedStatus.phase = "Upgrading" /\ StartedStatus.progress = "StepStarted"
  BY <1>1, <1>2 DEF StartedStatus, Status
<1>4. /\ api[k] # NoPlan /\ api[k] = v
      /\ api'[k] # NoPlan /\ api'[k].status = StartedStatus
  BY <1>1, <1>3, PutTaken
<1>5. \A q \in Plans : q # k => api'[q] = api[q] /\ started'[q] = started[q]
  BY <1>1, <1>2, <1>3, PutEffect
<1>6. /\ worker'.pc = "helm" /\ worker'.key = k /\ worker'.copy = api'[k]
      /\ started'[k] = started[k] \union {StepNo} /\ StepNo = v.status.step + 1
  BY <1>1, <1>2 DEF Reconciling, Recording, StepNo
<1>7. StartedInv'
  <2> SUFFICES ASSUME NEW q \in Plans, api'[q] # NoPlan
               PROVE  /\ started'[q] \subseteq 1..(api'[q].status.step + 1)
                      /\ api'[q].status.phase \in {"", "Pending", "Approved"}
                         => started'[q] = {}
                      /\ q \in Underway' => api'[q].status.progress = "StepStarted"
    BY DEF StartedInv
  <2>1. CASE q = k
    <3>1. StepNo \in 1..(v.status.step + 1)
      BY <1>2, <1>6
    <3>2. started[k] \subseteq 1..(v.status.step + 1)
      BY <1>2, <1>4 DEF StartedInv
    <3> QED
      BY <1>3, <1>4, <1>6, <2>1, <3>1, <3>2
  <2>2. CASE q # k
    BY <1>5, <2>2 DEF StartedInv, Underway
  <2> QED
    BY <2>1, <2>2
<1>8. NoneNew({}) /\ Undisturbed({k})
  BY <1>4, <1>5 DEF NoneNew, Undisturbed, Underway
<1>9. Open' \subseteq Open \ {k}
  <2>1. k \notin Open'
    BY <1>6 DEF Open, AtStep
  <2>2. Open' \subseteq Open \union {k}
    BY <1>1, <1>8, OpenKept DEF AtStep
  <2> QED
    BY <2>1, <2>2
<1>10. CASE StepNo \in started[k]
  <2>1. k \in Underway /\ k \in Open
    BY <1>1, <1>2, <1>4, <1>6, <1>10 DEF Open, Underway, AtStep
  <2>2. started' = started
    BY <1>1, <1>2, <1>10
  <2>3. StartedStatus = v.status
    <3>1. v.status.progress = "StepStarted"
      BY <1>2, <1>4, <2>1 DEF StartedInv
    <3> QED
      BY <1>2, <3>1 DEF StartedStatus, Status
  <2>4. api' = api
    BY <1>1, <2>3 DEF PutStatus, server
  <2>5. Undisturbed({}) /\ Same
    BY <1>1, <1>8, <2>2, <2>4, SameUnderway DEF Same
  <2>6. repeats' = repeats + 1
    BY <1>1, <1>10
  <2> QED
    BY <1>1, <1>7, <1>9, <2>1, <2>5, <2>6 DEF Balanced
<1>11. CASE StepNo \notin started[k]
  <2>1. FirstStart(k)
    BY <1>1, <1>4, <1>8, <1>11 DEF FirstStart
  <2> QED
    BY <1>1, <1>2, <1>7, <1>8, <1>9, <1>11, <2>1 DEF Balanced
<1> QED
  BY <1>10, <1>11

\* The other writes of a reconcile.
LEMMA ReconcileBalance ==
    ASSUME SideInv, StartedInv, Reconcile
    PROVE  StartedInv' /\ Balanced
<1> DEFINE k == worker.key
           v == worker.copy
           s == v.status
<1>1. worker.pc \in {"reconcile", "record"}
  BY DEF Reconcile, ReconcilePending, ReconcileApproved, FinishPlan, StartStep,
         StartRefused, ReconcileFailed, RecordResult, InPhase
<1>2. /\ k \in Plans /\ s \in Status /\ v.tools \in ToolLists
      /\ s.step \in Nat /\ s.phase \in Phases
  BY <1>1, WorkerType DEF SideInv, Status
<1>3. api[k] # NoPlan /\ api[k] = v =>
        /\ started[k] \subseteq 1..(s.step + 1)
        /\ s.phase \in {"", "Pending", "Approved"} => started[k] = {}
  BY <1>1, <1>2 DEF StartedInv
<1>4. ASSUME NEW t \in Status, NEW again, Conclude(t, again),
             api[k] # NoPlan /\ api[k] = v =>
               /\ started[k] \subseteq 1..(t.step + 1)
               /\ t.phase \in {"", "Pending", "Approved"} => started[k] = {}
               /\ t.phase = "Upgrading" => t.step + 1 \notin started[k]
      PROVE  StartedInv' /\ Balanced
  <2>1. /\ \/ PutStatus(k, v, t) /\ UNCHANGED faults
           \/ PutFails(k, v, t)
        /\ worker' = Idle /\ UNCHANGED <<started, repeats, creations>>
    BY <1>4 DEF Conclude, history
  <2> QED
    BY <1>1, <1>4, <2>1, WriteBalance
<1>5. CASE ReconcilePending
  <2>1. /\ PendingStatus(v) \in Status /\ PendingStatus(v).step = s.step
        /\ PendingStatus(v).phase \in {"Pending", "Approved"}
    BY <1>2 DEF PendingStatus, Status, Phases
  <2>2. s.phase \in {"", "Pending"}
    BY <1>5 DEF ReconcilePending, InPhase
  <2> QED
    BY <1>3, <1>4, <1>5, <2>1, <2>2 DEF ReconcilePending
<1>6. CASE ReconcileApproved
  <2> DEFINE t == [s EXCEPT !.phase = "Upgrading", !.step = 0, !.total = Len(v.tools),
                            !.ready = "Upgrading"]
  <2>1. t \in Status /\ t.step = 0 /\ t.phase = "Upgrading"
    BY <1>2, ListsType DEF Status, Phases
  <2>2. s.phase = "Approved"
    BY <1>6 DEF ReconcileApproved, InPhase
  <2> HIDE DEF t
  <2>3. Conclude(t, TRUE)
    BY <1>6 DEF ReconcileApproved, t
  <2> QED
    BY <1>3, <1>4, <2>1, <2>2, <2>3
<1>7. CASE FinishPlan
  <2> DEFINE t == [s EXCEPT !.phase = "Succeeded", !.ready = "UpgradeComplete"]
  <2>1. t \in Status /\ t.step = s.step /\ t.phase = "Succeeded"
    BY <1>2 DEF Status, Phases
  <2> HIDE DEF t
  <2>2. Conclude(t, FALSE)
    BY <1>7 DEF FinishPlan, t
  <2> QED
    BY <1>3, <1>4, <2>1, <2>2
<1>8. CASE StartRefused
  <2>1. /\ StartedStatus \in Status /\ StartedStatus.step = s.step
        /\ StartedStatus.phase = "Upgrading" /\ StartedStatus.progress = "StepStarted"
        /\ worker.pc = "reconcile"
    BY <1>2, <1>8 DEF StartRefused, InPhase, StartedStatus, Status
  <2>2. /\ PutFails(k, v, StartedStatus)
        /\ worker' = Idle /\ UNCHANGED <<started, repeats, creations>>
    BY <1>8 DEF StartRefused, history
  <2> QED
    BY <1>1, <1>3, <2>1, <2>2, WriteBalance
<1>9. CASE ReconcileFailed
  <2> DEFINE t == [s EXCEPT !.phase = "RolledBack"]
  <2>1. t \in Status /\ t.step = s.step /\ t.phase = "RolledBack"
    BY <1>2 DEF Status, Phases
  <2> HIDE DEF t
  <2>2. Conclude(t, FALSE)
    BY <1>9 DEF ReconcileFailed, t
  <2> QED
    BY <1>3, <1>4, <2>1, <2>2
<1>10. CASE RecordResult
  <2> DEFINE t == ResultStatus(s, worker.result)
  <2>1. worker.result \in {"ok", "error", "rolledback"} /\ s.phase = "Upgrading"
    BY <1>1, <1>10, WorkerType DEF RecordResult, Recording, SideInv, RunningInv
  <2>2. t \in Status
    BY <1>2, <2>1, ResultStatusType
  <2>3. \/ t.step = s.step + 1 /\ t.phase = "Upgrading"
        \/ t.step = s.step /\ t.phase \in {"Failed", "RolledBack"}
    BY <1>2, <2>1 DEF ResultStatus, Status
  <2> HIDE DEF t
  <2>4. Conclude(t, worker.result = "ok")
    BY <1>10 DEF RecordResult, t
  <2>5. api[k] # NoPlan /\ api[k] = v =>
          /\ started[k] \subseteq 1..(t.step + 1)
          /\ t.phase = "Upgrading" => t.step + 1 \notin started[k]
    <3> SUFFICES ASSUME api[k] # NoPlan, api[k] = v
                 PROVE  /\ started[k] \subseteq 1..(t.step + 1)
                        /\ t.phase = "Upgrading" => t.step + 1 \notin started[k]
      OBVIOUS
    <3>1. started[k] \subseteq 1..(s.step + 1)
      BY <1>3
    <3>2. CASE t.step = s.step + 1 /\ t.phase = "Upgrading"
      <4>1. /\ 1..(s.step + 1) \subseteq 1..(t.step + 1)
            /\ t.step + 1 \notin 1..(s.step + 1)
        BY <1>2, <3>2
      <4> QED
        BY <3>1, <4>1
    <3>3. CASE t.step = s.step /\ t.phase \in {"Failed", "RolledBack"}
      BY <3>1, <3>3
    <3> QED
      BY <2>3, <3>2, <3>3
  <2> QED
    BY <1>4, <2>2, <2>3, <2>4, <2>5
<1> QED
  BY <1>5, <1>6, <1>7, <1>8, <1>9, <1>10, StartBalance DEF Reconcile

-----------------------------------------------------------------------------
\* Nothing is started at first, so nothing is open.
LEMMA InitCInv == Init => CInv
<1> SUFFICES ASSUME Init PROVE CInv
  OBVIOUS
<1>1. IInv
  BY InitIInv
<1>2. /\ api = [p \in Plans |-> NoPlan] /\ repeats = 0 /\ faults = 0
  BY DEF Init
<1>3. StartedInv
  BY <1>2 DEF StartedInv
<1>4. Open = {}
  BY <1>2 DEF Open, Underway
<1>5. CreditInv
  BY <1>2, <1>4, FS_EmptySet DEF CreditInv
<1> QED
  BY <1>1, <1>3, <1>5 DEF CInv

\* Each step of the operator or of the users keeps the account.
LEMMA StepBalance ==
    ASSUME SideInv, StartedInv,
           \/ \E p \in Plans : Users(p) \/ Approve(p) \/ Informer(p) \/ Begin(p)
           \/ Reconcile \/ Helm
    PROVE  StartedInv' /\ Balanced
<1>1. ASSUME NEW p \in Plans, Users(p) \/ Approve(p)
      PROVE  StartedInv' /\ Balanced
  BY <1>1, UsersBalance
<1>2. ASSUME NEW p \in Plans, Informer(p) \/ Begin(p)
      PROVE  StartedInv' /\ Balanced
  BY <1>2, InformerBalance
<1> QED
  BY <1>1, <1>2, ReconcileBalance, HelmBalance

\* And so does a crash.
LEMMA NextCInv == CInv /\ [Next]_vars => CInv'
<1> SUFFICES ASSUME CInv, [Next]_vars
             PROVE  StartedInv' /\ Balanced
  BY BalanceKept, NextIInv DEF CInv
<1>1. SideInv /\ StartedInv
  BY DEF CInv, IInv
<1>2. CASE UNCHANGED vars
  <2>1. UNCHANGED <<api, started, repeats, faults, creations, worker>>
    BY <1>2 DEF vars
  <2>2. StartedInv' /\ Undisturbed({}) /\ NoneNew({})
    BY <1>1, <2>1, SameUnderway
  <2>3. Open' \subseteq Open
    BY <2>1, <2>2, OpenKept DEF AtStep
  <2> QED
    BY <2>1, <2>2, <2>3 DEF Balanced, Same
<1> QED
  BY <1>1, <1>2, StepBalance, RestartBalance DEF Next

\* A step is handed to the executor once, and once more at most for each crash,
\* failed write or foreign write, for any number of plans and however late the
\* cache is.
THEOREM NoFreeRepeats == Spec => []RepeatsBounded
<1>1. Spec => []CInv
  BY InitCInv, NextCInv, PTL DEF Spec
<1>2. CInv => RepeatsBounded
  <2> SUFFICES ASSUME CInv PROVE repeats <= faults
    BY DEF RepeatsBounded
  <2>1. /\ repeats \in Nat /\ faults \in Nat
        /\ IsFiniteSet(Open) /\ repeats + Cardinality(Open) <= faults
    BY BoundsAssumption DEF CInv, IInv, SideInv, TypeOK, CreditInv
  <2>2. Cardinality(Open) \in Nat
    BY <2>1, FS_CardinalityType
  <2> QED
    BY <2>1, <2>2
<1> QED
  BY <1>1, <1>2, PTL
=============================================================================
