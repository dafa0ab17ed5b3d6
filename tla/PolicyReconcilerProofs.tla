----------------------- MODULE PolicyReconcilerProofs -----------------------
(***************************************************************************)
(* Proofs about PolicyReconciler, for any number of policies, specs and    *)
(* clusters: a stored report is about the spec it is stored with, and its  *)
(* upgrades have got their plans.  The argument: a report is made of the   *)
(* spec in the worker's copy, the copy does not change until the status is *)
(* written, an entry leaves the loop only when its plan was made, by the   *)
(* informer's word or by this worker, and what the write stores is the     *)
(* copy with the report in it, or nothing.  A copy has a spec that users   *)
(* gave the policy, and is the stored version if it has its number: so the *)
(* controller implements PolicyPromise.                                    *)
(***************************************************************************)
EXTENDS PolicyReconciler, ReportProofs

\* The statuses there are: that of a new policy, and reports.
Statuses == {NewStatus} \union
    {StatusOf(Report(spec, seen), time) :
       spec \in Specs, seen \in Clusters, time \in 0..MaxClock}

Version == [rv: Nat, spec: Specs, status: Statuses]

ServerInv == /\ api \in [Policies -> Version \union {NoPolicy}]
             /\ rev \in [Policies -> Nat]
             /\ watch \in [Policies -> Seq(Version \union {NoPolicy})]

\* The worker's report is one of a scan for the spec in its copy.
WorkerInv ==
    /\ DOMAIN worker = {"pc", "key", "copy", "report", "todo"}
    /\ worker.pc \in {"idle", "scan", "plan"}
    /\ worker.pc # "idle" => worker.key \in Policies /\ worker.copy \in Version
    /\ worker.pc = "plan" =>
         \E seen \in Clusters : worker.report = Report(worker.copy.spec, seen)

\* Entries the loop has left have got their plans.
LoopInv ==
    worker.pc = "plan" =>
      LET tools == worker.report.tools IN
      \A i \in ToPlan(worker.copy.spec, tools) \ worker.todo :
         CanPlan(tools[i]) => UpgradeName(worker.key, tools[i]) \in planned

\* What the informer says, and has still to say, is about plans there were.
PlansInv == /\ planCache \subseteq planned
            /\ planWatch \in Seq(planned \X BOOLEAN)
            /\ DOMAIN plans \subseteq planned

RInv == /\ ServerInv /\ WorkerInv /\ LoopInv /\ PlansInv
        /\ cache \in [Policies -> Version \union {NoPolicy}]
        /\ cluster \in Clusters
        /\ clock \in 0..MaxClock

\* What a step may do to a stored status.
Fits ==
    \A p \in Policies : Written(p) =>
      \E seen \in Clusters :
        api'[p].status = StatusOf(Report(api'[p].spec, seen),
                                  api'[p].status.lastScanTime)

Planned ==
    \A p \in Policies : Written(p) =>
      LET tools == api'[p].status.tools IN
      \A i \in ToPlan(api'[p].spec, tools) :
         CanPlan(tools[i]) => UpgradeName(p, tools[i]) \in planned

-----------------------------------------------------------------------------
(* Writes.                                                                 *)

\* A version is stored as it is written, under a new resourceVersion.
LEMMA StoreEffect ==
    ASSUME ServerInv, NEW p \in Policies, NEW v \in Version, Store(p, v)
    PROVE  /\ ServerInv'
           /\ api'[p].spec = v.spec /\ api'[p].status = v.status
           /\ \A q \in Policies \ {p} : api'[q] = api[q]
<1> DEFINE new == [v EXCEPT !.rv = rev[p] + 1]
<1>1. rev[p] + 1 \in Nat
  BY DEF ServerInv
<1>2. new \in Version /\ new.spec = v.spec /\ new.status = v.status
  BY <1>1 DEF Version
<1>3. /\ api' = [api EXCEPT ![p] = new]
      /\ rev' = [rev EXCEPT ![p] = rev[p] + 1]
      /\ watch' = [watch EXCEPT ![p] = Append(watch[p], new)]
  BY DEF Store
<1> HIDE DEF new
<1>4. Append(watch[p], new) \in Seq(Version \union {NoPolicy})
  BY <1>2 DEF ServerInv
<1>5. ServerInv'
  BY <1>1, <1>2, <1>3, <1>4 DEF ServerInv
<1> QED
  BY <1>2, <1>3, <1>5 DEF ServerInv

\* A status write stores the copy with the status in it, or nothing.
LEMMA PutEffect ==
    ASSUME ServerInv, NEW p \in Policies, NEW v \in Version, NEW s \in Statuses,
           PutStatus(p, v, s)
    PROVE  /\ ServerInv'
           /\ \A q \in Policies :
                \/ api'[q] = api[q]
                \/ q = p /\ api'[q].spec = v.spec /\ api'[q].status = s
<1> DEFINE w == [v EXCEPT !.status = s]
<1>1. w \in Version /\ w.spec = v.spec /\ w.status = s
  BY DEF Version
<1>2. CASE UNCHANGED <<api, rev, watch>>
  BY <1>2 DEF ServerInv
<1>3. CASE Store(p, w)
  <2> HIDE DEF w
  <2> QED
    BY <1>1, <1>3, StoreEffect
<1> QED
  BY <1>2, <1>3 DEF PutStatus

\* The status of a scan is one there may be.
LEMMA ScanStatusIn ==
    ASSUME RInv, AtPersist
    PROVE  ScanStatus \in Statuses
<1>1. worker.copy.spec \in Specs /\ clock \in 0..MaxClock
  BY DEF RInv, WorkerInv, AtPersist, Version
<1>2. PICK seen \in Clusters : worker.report = Report(worker.copy.spec, seen)
  BY DEF RInv, WorkerInv, AtPersist
<1> QED
  BY <1>1, <1>2 DEF ScanStatus, Statuses

\* What the worker writes after a scan is a report of its copy's spec.
LEMMA PersistEffect ==
    ASSUME RInv, AtPersist,
           PutStatus(worker.key, worker.copy, ScanStatus) \/ UNCHANGED <<api, rev, watch>>
    PROVE  ServerInv' /\ Fits /\ Planned
<1> DEFINE k == worker.key
           v == worker.copy
<1>1. /\ ServerInv /\ k \in Policies /\ v \in Version /\ v.spec \in Specs
      /\ clock \in 0..MaxClock
  BY DEF RInv, WorkerInv, AtPersist, Version
<1>2. PICK seen \in Clusters : worker.report = Report(v.spec, seen)
  BY DEF RInv, WorkerInv, AtPersist
<1>3. ScanStatus = StatusOf(Report(v.spec, seen), clock)
  BY <1>2 DEF ScanStatus
<1>4. ScanStatus \in Statuses
  BY ScanStatusIn
<1>5. ScanStatus.lastScanTime = clock
  BY DEF ScanStatus, StatusOf
<1>6. CASE UNCHANGED <<api, rev, watch>>
  BY <1>1, <1>6 DEF ServerInv, Fits, Planned, Written
<1>7. CASE PutStatus(k, v, ScanStatus)
  <2>1. /\ ServerInv'
        /\ \A q \in Policies :
             \/ api'[q] = api[q]
             \/ q = k /\ api'[q].spec = v.spec /\ api'[q].status = ScanStatus
    BY <1>1, <1>4, <1>7, PutEffect
  <2>2. ASSUME NEW q \in Policies, Written(q)
        PROVE  q = k /\ api'[q].spec = v.spec /\ api'[q].status = ScanStatus
    BY <2>1, <2>2 DEF Written
  <2>3. Fits
    BY <1>3, <1>5, <2>2 DEF Fits
  <2>4. ScanStatus.tools = worker.report.tools
    BY DEF ScanStatus, StatusOf
  <2>5. \A i \in ToPlan(v.spec, worker.report.tools) :
          CanPlan(worker.report.tools[i]) =>
            UpgradeName(k, worker.report.tools[i]) \in planned
    BY DEF RInv, LoopInv, AtPersist
  <2>6. Planned
    BY <2>2, <2>4, <2>5 DEF Planned
  <2> QED
    BY <2>1, <2>3, <2>6
<1> QED
  BY <1>6, <1>7

-----------------------------------------------------------------------------
(* The actions.                                                            *)

\* A step that leaves the server alone stores no report.
LEMMA NothingStored ==
    ASSUME ServerInv, UNCHANGED <<api, rev, watch>>
    PROVE  ServerInv' /\ Fits /\ Planned
BY DEF ServerInv, Fits, Planned, Written

\* Users write specs only.
LEMMA UsersFit ==
    ASSUME RInv, NEW p \in Policies, WritePolicy(p) \/ DeletePolicy(p)
    PROVE  ServerInv' /\ Fits /\ Planned
<1>1. ServerInv
  BY DEF RInv
<1>2. CASE WritePolicy(p)
  <2>1. PICK spec \in Specs :
          IF api[p] = NoPolicy
            THEN Store(p, [rv |-> 0, spec |-> spec, status |-> NewStatus])
            ELSE Store(p, [api[p] EXCEPT !.spec = spec])
    BY <1>2 DEF WritePolicy
  <2>2. CASE api[p] = NoPolicy
    <3>1. [rv |-> 0, spec |-> spec, status |-> NewStatus] \in Version
      BY DEF Version, Statuses
    <3>2. Store(p, [rv |-> 0, spec |-> spec, status |-> NewStatus])
      BY <2>1, <2>2
    <3>3. ServerInv' /\ \A q \in Policies \ {p} : api'[q] = api[q]
      BY <1>1, <3>1, <3>2, StoreEffect
    <3> QED
      BY <2>2, <3>3 DEF Fits, Planned, Written
  <2>3. CASE api[p] # NoPolicy
    <3> DEFINE w == [api[p] EXCEPT !.spec = spec]
    <3>1. w \in Version /\ w.status = api[p].status
      BY <1>1, <2>3 DEF ServerInv, Version
    <3>2. Store(p, w)
      BY <2>1, <2>3
    <3> HIDE DEF w
    <3>3. /\ ServerInv' /\ api'[p].status = w.status
          /\ \A q \in Policies \ {p} : api'[q] = api[q]
      BY <1>1, <3>1, <3>2, StoreEffect
    <3> QED
      BY <3>1, <3>3 DEF Fits, Planned, Written
  <2> QED
    BY <2>2, <2>3
<1>3. CASE DeletePolicy(p)
  <2>1. /\ api' = [api EXCEPT ![p] = NoPolicy]
        /\ rev' = [rev EXCEPT ![p] = rev[p] + 1]
        /\ watch' = [watch EXCEPT ![p] = Append(watch[p], NoPolicy)]
    BY <1>3 DEF DeletePolicy
  <2>2. Append(watch[p], NoPolicy) \in Seq(Version \union {NoPolicy})
    BY <1>1 DEF ServerInv
  <2>3. rev[p] + 1 \in Nat
    BY <1>1 DEF ServerInv
  <2>4. ServerInv'
    BY <1>1, <2>1, <2>2, <2>3 DEF ServerInv
  <2> QED
    BY <1>1, <2>1, <2>4 DEF ServerInv, Fits, Planned, Written
<1> QED
  BY <1>2, <1>3

\* Events leave the server alone, and the cache gets what was stored.
LEMMA DeliverFits ==
    ASSUME ServerInv, NEW p \in Policies, Deliver(p),
           cache \in [Policies -> Version \union {NoPolicy}]
    PROVE  /\ ServerInv' /\ Fits /\ Planned
           /\ cache' \in [Policies -> Version \union {NoPolicy}]
<1>1. /\ watch[p] \in Seq(Version \union {NoPolicy}) /\ watch[p] # <<>>
      /\ cache' = [cache EXCEPT ![p] = Head(watch[p])]
      /\ watch' = [watch EXCEPT ![p] = Tail(watch[p])]
      /\ UNCHANGED <<api, rev>>
  BY DEF ServerInv, Deliver
<1>2. /\ Head(watch[p]) \in Version \union {NoPolicy}
      /\ Tail(watch[p]) \in Seq(Version \union {NoPolicy})
  BY <1>1
<1> QED
  BY <1>1, <1>2 DEF ServerInv, Fits, Planned, Written

\* The names that were planned only become more.
LEMMA PlansKept ==
    ASSUME PlansInv, planned \subseteq planned', planCache' = planCache,
           DOMAIN plans' \subseteq planned',
           \/ planWatch' = planWatch
           \/ \E e \in planned' \X BOOLEAN : planWatch' = Append(planWatch, e)
    PROVE  PlansInv'
<1>1. planWatch \in Seq(planned' \X BOOLEAN)
  BY DEF PlansInv
<1>2. planWatch' \in Seq(planned' \X BOOLEAN)
  BY <1>1
<1> QED
  BY <1>2 DEF PlansInv

\* A plan that is created has been planned.
LEMMA CreatePlans ==
    ASSUME PlansInv, Create
    PROVE  PlansInv' /\ planned \subseteq planned' /\ Name \in planned'
<1>1. /\ planned' = planned \union {Name} /\ planCache' = planCache
      /\ DOMAIN plans' = DOMAIN plans \union {Name}
      /\ planWatch' = Append(planWatch, <<Name, TRUE>>)
  BY DEF Create
<1>2. <<Name, TRUE>> \in planned' \X BOOLEAN
  BY <1>1
<1>3. planned \subseteq planned' /\ DOMAIN plans' \subseteq planned'
  BY <1>1 DEF PlansInv
<1> QED
  BY <1>1, <1>2, <1>3, PlansKept

\* The worker and its loop stay as they are while only more is planned.
LEMMA WorkerKept ==
    ASSUME WorkerInv, LoopInv, worker' = worker \/ worker' = Idle, planned \subseteq planned'
    PROVE  WorkerInv' /\ LoopInv'
<1>1. CASE worker' = worker
  BY <1>1 DEF WorkerInv, LoopInv
<1>2. CASE worker' = Idle
  <2>1. worker'.pc = "idle" /\ DOMAIN worker' = {"pc", "key", "copy", "report", "todo"}
    BY <1>2 DEF Idle
  <2> QED
    BY <2>1 DEF WorkerInv, LoopInv
<1> QED
  BY <1>1, <1>2

\* A turn of the loop leaves an entry whose plan was made, or cannot be.
LEMMA TurnKept ==
    ASSUME WorkerInv, LoopInv, AtUpgrade, worker' = [worker EXCEPT !.todo = @ \ {Turn}],
           planned \subseteq planned', CanPlan(Upgrade) => Name \in planned'
    PROVE  WorkerInv' /\ LoopInv'
<1>1. /\ DOMAIN worker = {"pc", "key", "copy", "report", "todo"}
      /\ worker.pc = "plan"
  BY DEF WorkerInv, AtUpgrade
<1>2. /\ DOMAIN worker' = DOMAIN worker /\ worker'.pc = worker.pc
      /\ worker'.key = worker.key /\ worker'.copy = worker.copy
      /\ worker'.report = worker.report /\ worker'.todo = worker.todo \ {Turn}
  BY <1>1
<1>3. WorkerInv'
  BY <1>2 DEF WorkerInv
<1>4. LoopInv'
  <2> DEFINE tools == worker.report.tools
  <2> SUFFICES ASSUME NEW i \in ToPlan(worker.copy.spec, tools) \ (worker.todo \ {Turn}),
                      CanPlan(tools[i])
               PROVE  UpgradeName(worker.key, tools[i]) \in planned'
    BY <1>2 DEF LoopInv
  <2>1. CASE i = Turn
    BY <2>1 DEF Name, Upgrade
  <2>2. CASE i # Turn
    BY <1>1, <2>2 DEF LoopInv
  <2> QED
    BY <2>1, <2>2
<1> QED
  BY <1>3, <1>4

\* Begin and Scan give the worker its copy and its report.
LEMMA BeginKept ==
    ASSUME RInv, NEW p \in Policies, Begin(p)
    PROVE  WorkerInv' /\ LoopInv'
<1>1. CASE cache[p] = NoPolicy
  BY <1>1, WorkerKept DEF RInv, Begin, upgrades
<1>2. CASE cache[p] # NoPolicy
  <2>1. worker' = [Idle EXCEPT !.pc = "scan", !.key = p, !.copy = cache[p]]
    BY <1>2 DEF Begin
  <2>2. /\ DOMAIN worker' = {"pc", "key", "copy", "report", "todo"}
        /\ worker'.pc = "scan" /\ worker'.key = p /\ worker'.copy = cache[p]
    BY <2>1 DEF Idle
  <2>3. cache[p] \in Version
    BY <1>2 DEF RInv
  <2> QED
    BY <2>2, <2>3 DEF WorkerInv, LoopInv
<1> QED
  BY <1>1, <1>2

\* A scan leaves the worker with a report to plan from, and the queue as it was.
LEMMA ScanKept ==
    ASSUME RInv, Scan
    PROVE  WorkerInv' /\ LoopInv'
<1>1. PICK seen \in Clusters :
        worker' = [worker EXCEPT
          !.pc = "plan", !.report = Report(worker.copy.spec, seen),
          !.todo = ToPlan(worker.copy.spec, Report(worker.copy.spec, seen).tools)]
  BY DEF Scan
<1>2. /\ worker.pc = "scan" /\ DOMAIN worker = {"pc", "key", "copy", "report", "todo"}
      /\ worker.key \in Policies /\ worker.copy \in Version
  BY DEF RInv, WorkerInv, Scan
<1> DEFINE report == Report(worker.copy.spec, seen)
<1>3. /\ DOMAIN worker' = DOMAIN worker /\ worker'.pc = "plan"
      /\ worker'.key = worker.key /\ worker'.copy = worker.copy
      /\ worker'.report = report
      /\ worker'.todo = ToPlan(worker.copy.spec, report.tools)
  BY <1>1, <1>2
<1>4. WorkerInv'
  BY <1>2, <1>3 DEF WorkerInv
<1>5. LoopInv'
  BY <1>3 DEF LoopInv
<1> QED
  BY <1>4, <1>5

\* A reconcile stores its report, if anything, once the loop is done.
LEMMA ReconcileKept ==
    ASSUME RInv, Reconcile
    PROVE  RInv' /\ Fits /\ Planned
<1>1. /\ ServerInv /\ WorkerInv /\ LoopInv /\ PlansInv
      /\ UNCHANGED <<cache, cluster, clock>>
  BY DEF RInv, Reconcile, Scan, SkipUpgrade, CreateUpgrade, CreateFails, Persist, PersistFails,
         policies
<1>2. ASSUME ServerInv', PlansInv', WorkerInv', LoopInv'
      PROVE  RInv'
  BY <1>1, <1>2 DEF RInv
<1>3. CASE Scan
  <2>1. UNCHANGED <<api, rev, watch, plans, planWatch, planCache, planned>>
    BY <1>3 DEF Scan, policies, upgrades
  <2>2. PlansInv'
    BY <1>1, <2>1 DEF PlansInv
  <2> QED
    BY <1>1, <1>2, <1>3, <2>1, <2>2, NothingStored, ScanKept
<1>4. CASE SkipUpgrade
  <2>1. /\ UNCHANGED <<api, rev, watch, plans, planWatch, planCache, planned>>
        /\ AtUpgrade /\ worker' = [worker EXCEPT !.todo = @ \ {Turn}]
    BY <1>4 DEF SkipUpgrade, policies, upgrades
  <2>2. CanPlan(Upgrade) => Name \in planned'
    BY <1>1, <1>4, <2>1 DEF SkipUpgrade, PlansInv
  <2>3. WorkerInv' /\ LoopInv'
    BY <1>1, <2>1, <2>2, TurnKept
  <2>4. PlansInv'
    BY <1>1, <2>1 DEF PlansInv
  <2> QED
    BY <1>1, <1>2, <2>1, <2>3, <2>4, NothingStored
<1>5. CASE CreateUpgrade
  <2>1. /\ UNCHANGED <<api, rev, watch>> /\ Create
        /\ AtUpgrade /\ worker' = [worker EXCEPT !.todo = @ \ {Turn}]
    BY <1>5 DEF CreateUpgrade, MustCreate, policies
  <2>2. PlansInv' /\ planned \subseteq planned' /\ Name \in planned'
    BY <1>1, <2>1, CreatePlans
  <2>3. WorkerInv' /\ LoopInv'
    BY <1>1, <2>1, <2>2, TurnKept
  <2> QED
    BY <1>1, <1>2, <2>1, <2>2, <2>3, NothingStored
<1>6. CASE CreateFails
  <2>1. UNCHANGED <<api, rev, watch>> /\ worker' = Idle
    BY <1>6 DEF CreateFails
  <2>2. PlansInv' /\ planned \subseteq planned'
    <3>1. CASE Create
      BY <1>1, <3>1, CreatePlans
    <3>2. CASE UNCHANGED upgrades
      BY <1>1, <3>2 DEF PlansInv, upgrades
    <3> QED
      BY <1>6, <3>1, <3>2 DEF CreateFails
  <2>3. WorkerInv' /\ LoopInv'
    BY <1>1, <2>1, <2>2, WorkerKept
  <2> QED
    BY <1>1, <1>2, <2>1, <2>2, <2>3, NothingStored
<1>7. CASE Persist \/ PersistFails
  <2>1. /\ AtPersist /\ worker' = Idle
        /\ UNCHANGED <<plans, planWatch, planCache, planned>>
        /\ PutStatus(worker.key, worker.copy, ScanStatus) \/ UNCHANGED <<api, rev, watch>>
    BY <1>7 DEF Persist, PersistFails, upgrades
  <2>2. ServerInv' /\ Fits /\ Planned
    BY <2>1, PersistEffect
  <2>3. PlansInv'
    BY <1>1, <2>1 DEF PlansInv
  <2>4. WorkerInv' /\ LoopInv'
    BY <1>1, <2>1, WorkerKept
  <2> QED
    BY <1>2, <2>2, <2>3, <2>4
<1> QED
  BY <1>3, <1>4, <1>5, <1>6, <1>7 DEF Reconcile

\* Every step keeps the invariant and stores only reports that fit.
LEMMA NextRInv == RInv /\ [Next]_vars => RInv' /\ Fits /\ Planned
<1> SUFFICES ASSUME RInv, [Next]_vars
             PROVE  RInv' /\ Fits /\ Planned
  OBVIOUS
<1>1. ServerInv /\ WorkerInv /\ LoopInv /\ PlansInv
  BY DEF RInv
<1>2. ASSUME UNCHANGED <<api, rev, watch, cache>>, worker' = worker, UNCHANGED upgrades,
             cluster' \in Clusters, clock' \in 0..MaxClock
      PROVE  RInv' /\ Fits /\ Planned
  <2>1. WorkerInv' /\ LoopInv'
    BY <1>1, <1>2, WorkerKept DEF upgrades
  <2>2. PlansInv'
    BY <1>1, <1>2 DEF PlansInv, upgrades
  <2> QED
    BY <1>1, <1>2, <2>1, <2>2, NothingStored DEF RInv
<1>3. ASSUME NEW p \in Policies, WritePolicy(p) \/ DeletePolicy(p)
      PROVE  RInv' /\ Fits /\ Planned
  <2>1. UNCHANGED <<cache, worker, plans, planWatch, planCache, planned, cluster, clock>>
    BY <1>3 DEF WritePolicy, DeletePolicy, upgrades
  <2>2. WorkerInv' /\ LoopInv' /\ PlansInv'
    BY <1>1, <2>1, WorkerKept DEF PlansInv
  <2> QED
    BY <1>3, <2>1, <2>2, UsersFit DEF RInv
<1>4. ASSUME NEW name \in DOMAIN plans, DeletePlan(name)
      PROVE  RInv' /\ Fits /\ Planned
  <2>1. /\ UNCHANGED <<api, rev, watch, cache, worker, planCache, planned, cluster, clock>>
        /\ DOMAIN plans' \subseteq planned
        /\ planWatch' = Append(planWatch, <<name, FALSE>>)
    BY <1>1, <1>4 DEF DeletePlan, policies, PlansInv
  <2>2. <<name, FALSE>> \in planned \X BOOLEAN
    BY <1>1, <1>4 DEF PlansInv
  <2>3. PlansInv'
    BY <1>1, <2>1, <2>2, PlansKept
  <2>4. WorkerInv' /\ LoopInv'
    BY <1>1, <2>1, WorkerKept
  <2> QED
    BY <1>1, <2>1, <2>3, <2>4, NothingStored DEF RInv
<1>5. CASE ChangeCluster
  BY <1>2, <1>5 DEF ChangeCluster, policies, RInv
<1>6. CASE Tick
  <2>1. clock + 1 \in 0..MaxClock
    BY <1>6, BoundsAssumption DEF Tick, RInv
  <2> QED
    BY <1>2, <1>6, <2>1 DEF Tick, policies, RInv
<1>7. ASSUME NEW p \in Policies, Deliver(p)
      PROVE  RInv' /\ Fits /\ Planned
  <2>1. UNCHANGED <<worker, plans, planWatch, planCache, planned, cluster, clock>>
    BY <1>7 DEF Deliver, upgrades
  <2>2. WorkerInv' /\ LoopInv' /\ PlansInv'
    BY <1>1, <2>1, WorkerKept DEF PlansInv
  <2> QED
    BY <1>1, <1>7, <2>1, <2>2, DeliverFits DEF RInv
<1>8. ASSUME NEW p \in Policies, FallsDue(p)
      PROVE  RInv' /\ Fits /\ Planned
  BY <1>2, <1>8 DEF FallsDue, RInv
<1>9. ASSUME NEW p \in Policies, Begin(p)
      PROVE  RInv' /\ Fits /\ Planned
  <2>1. UNCHANGED <<api, rev, watch, cache, plans, planWatch, planCache, planned, cluster, clock>>
    BY <1>9 DEF Begin, upgrades
  <2>2. WorkerInv' /\ LoopInv' /\ PlansInv'
    BY <1>1, <1>9, <2>1, BeginKept DEF PlansInv
  <2> QED
    BY <1>1, <2>1, <2>2, NothingStored DEF RInv
<1>10. CASE DeliverPlan
  <2>1. /\ planWatch \in Seq(planned \X BOOLEAN) /\ planWatch # <<>>
        /\ UNCHANGED <<api, rev, watch, cache, worker, plans, planned, cluster, clock>>
        /\ planWatch' = Tail(planWatch)
    BY <1>1, <1>10 DEF DeliverPlan, policies, PlansInv
  <2>2. Head(planWatch) \in planned \X BOOLEAN /\ Tail(planWatch) \in Seq(planned \X BOOLEAN)
    BY <2>1
  <2>3. planCache' \subseteq planned
    BY <1>1, <1>10, <2>2 DEF DeliverPlan, PlansInv
  <2>4. PlansInv'
    BY <1>1, <2>1, <2>2, <2>3 DEF PlansInv
  <2>5. WorkerInv' /\ LoopInv'
    BY <1>1, <2>1, WorkerKept
  <2> QED
    BY <1>1, <2>1, <2>4, <2>5, NothingStored DEF RInv
<1>11. CASE Reconcile
  BY <1>11, ReconcileKept
<1>12. CASE Restart
  <2>1. /\ worker' = Idle /\ cache' = api /\ watch' = [p \in Policies |-> <<>>]
        /\ planCache' = DOMAIN plans /\ planWatch' = <<>>
        /\ UNCHANGED <<api, rev, plans, planned, cluster, clock>>
    BY <1>12 DEF Restart
  <2>2. ServerInv' /\ cache' \in [Policies -> Version \union {NoPolicy}]
    BY <1>1, <2>1 DEF ServerInv
  <2>3. PlansInv'
    BY <1>1, <2>1 DEF PlansInv
  <2>4. WorkerInv' /\ LoopInv'
    BY <1>1, <2>1, WorkerKept
  <2>5. Fits /\ Planned
    BY <2>1 DEF Fits, Planned, Written
  <2> QED
    BY <2>1, <2>2, <2>3, <2>4, <2>5 DEF RInv
<1>13. CASE UNCHANGED vars
  BY <1>2, <1>13 DEF vars, upgrades, RInv
<1> QED
  BY <1>3, <1>4, <1>5, <1>6, <1>7, <1>8, <1>9, <1>10, <1>11, <1>12, <1>13 DEF Next, Users

\* RInv holds at first.
LEMMA InitRInv == Init => RInv
<1> SUFFICES ASSUME Init PROVE RInv
  OBVIOUS
<1>1. worker.pc = "idle" /\ DOMAIN worker = {"pc", "key", "copy", "report", "todo"}
  BY DEF Init, Idle
<1>2. WorkerInv /\ LoopInv
  BY <1>1 DEF WorkerInv, LoopInv
<1>3. ServerInv /\ cache \in [Policies -> Version \union {NoPolicy}]
  BY DEF Init, ServerInv
<1>4. DOMAIN plans = {}
  BY DEF Init
<1>5. PlansInv
  BY <1>4 DEF Init, PlansInv
<1>6. cluster \in Clusters /\ clock \in 0..MaxClock
  BY BoundsAssumption DEF Init
<1> QED
  BY <1>2, <1>3, <1>5, <1>6 DEF RInv

\* RInv is an invariant.
LEMMA InvariantR == Spec => []RInv
<1>1. RInv /\ [Next]_vars => RInv'
  BY NextRInv
<1> QED
  BY <1>1, InitRInv, PTL DEF Spec

-----------------------------------------------------------------------------
\* A report is about the spec it is stored with, however stale the copy was and
\* whatever was written, deleted or restarted during the scan.
THEOREM ReportsFit == Spec => ReportFitsSpec
<1>1. RInv /\ [Next]_vars => Fits
  BY NextRInv
<1>2. Spec => [][Fits]_vars
  BY <1>1, InvariantR, PTL DEF Spec
<1> QED
  BY <1>2 DEF ReportFitsSpec, Fits

\* When a report is stored each upgrade that autoplan is to plan has got its plan,
\* from this scan or an earlier one, however late the informer of plans is.
THEOREM UpgradesPlanned == Spec => ReportedUpgradesPlanned
<1>1. RInv /\ [Next]_vars => Planned
  BY NextRInv
<1>2. Spec => [][Planned]_vars
  BY <1>1, InvariantR, PTL DEF Spec
<1> QED
  BY <1>2 DEF ReportedUpgradesPlanned, Planned

-----------------------------------------------------------------------------
(* What a stored report lists.                                             *)

\* Each tool and each unknown name of the tracked ones is listed once, none is dropped.
THEOREM ToolsListedOnce == Spec => []EachToolOnce
<1>1. ASSUME RInv
      PROVE  EachToolOnce
  <2> SUFFICES ASSUME NEW p \in Policies, api[p] # NoPolicy, api[p].status.mode = "focused"
               PROVE  LET status == api[p].status
                          listed == [i \in DOMAIN status.tools |-> status.tools[i].name]
                      IN /\ IsInjective(listed) /\ IsInjective(status.untrackable)
                         /\ \E spec \in Specs :
                              LET tracked == Range(spec.tracked) IN
                              /\ Range(listed) = {KnownNames[n] : n \in tracked \cap DOMAIN KnownNames}
                              /\ Range(status.untrackable) = tracked \ DOMAIN KnownNames
    BY DEF EachToolOnce
  <2>1. api[p] \in Version
    BY <1>1 DEF RInv, ServerInv
  <2>2. api[p].status \in Statuses /\ api[p].status # NewStatus
    <3>1. api[p].status \in Statuses
      BY <2>1 DEF Version
    <3>2. NewStatus.mode = ""
      BY DEF NewStatus
    <3> QED
      BY <3>1, <3>2
  <2>3. PICK spec \in Specs, seen \in Clusters, time \in 0..MaxClock :
          api[p].status = StatusOf(Report(spec, seen), time)
    BY <2>2 DEF Statuses
  <2> DEFINE r == Report(spec, seen)
  <2>4. /\ api[p].status.mode = r.mode /\ api[p].status.tools = r.tools
        /\ api[p].status.untrackable = r.untrackable
    BY <2>3 DEF StatusOf
  <2>5. spec.tracked # <<>>
    <3>1. r.mode = IF spec.tracked = <<>> THEN "discovery" ELSE "focused"
      BY ReportLists
    <3> QED
      BY <2>4, <3>1
  <2> QED
    BY <2>4, <2>5, ReportLists
<1> QED
  BY <1>1, InvariantR, PTL

-----------------------------------------------------------------------------
(* What users asked for.                                                   *)

\* What may be seen of policy p: versions with a spec that a user gave it, and with a
\* number that no other version had; the stored one is known by it.
Seen(p) == {v \in Version : /\ v.spec \in gates[p]
                            /\ v.rv <= rev[p]
                            /\ api[p] # NoPolicy /\ v.rv = api[p].rv => v = api[p]}

Given(p) == Seen(p) \union {NoPolicy}

GatesInv ==
    /\ gates \in [Policies -> SUBSET Specs]
    /\ \A p \in Policies :
         api[p] \in Given(p) /\ cache[p] \in Given(p) /\ watch[p] \in Seq(Given(p))
    /\ worker.pc # "idle" => worker.copy \in Seen(worker.key)

\* A version that was seen before a write may be seen after it.
LEMMA SeenKept ==
    ASSUME RInv, NEW p \in Policies, gates[p] \subseteq gates'[p],
           rev'[p] \in {rev[p], rev[p] + 1},
           \/ api'[p] = api[p] \/ api'[p] = NoPolicy
           \/ api'[p].rv = rev[p] + 1
    PROVE  Seen(p) \subseteq Seen(p)'
<1>1. rev[p] \in Nat
  BY DEF RInv, ServerInv
<1>2. ASSUME NEW v \in Seen(p)
      PROVE  v \in Seen(p)'
  <2>1. /\ v \in Version /\ v.rv \in Nat /\ v.spec \in gates[p] /\ v.rv <= rev[p]
        /\ api[p] # NoPolicy /\ v.rv = api[p].rv => v = api[p]
    BY DEF Seen, Version
  <2>2. v.rv <= rev'[p] /\ v.rv # rev[p] + 1
    BY <1>1, <2>1
  <2> QED
    BY <2>1, <2>2 DEF Seen
<1> QED
  BY <1>2

\* Versions are passed on from the server to the watch, the cache and the worker.
LEMMA GatesKept ==
    ASSUME RInv, GatesInv, gates' \in [Policies -> SUBSET Specs],
           \A p \in Policies :
             /\ Seen(p) \subseteq Seen(p)'
             /\ api'[p] \in Given(p) \/ api'[p] \in Given(p)'
             /\ cache'[p] \in Given(p)
             /\ \/ watch'[p] \in Seq(Given(p))
                \/ \E v \in Given(p)' : watch'[p] = Append(watch[p], v),
           \/ worker'.pc = "idle"
           \/ /\ worker.pc # "idle"
              /\ worker'.key = worker.key /\ worker'.copy = worker.copy
           \/ \E p \in Policies : /\ cache[p] # NoPolicy
                                  /\ worker'.key = p /\ worker'.copy = cache[p]
    PROVE  GatesInv'
<1>1. ASSUME NEW p \in Policies
      PROVE  api'[p] \in Given(p)' /\ cache'[p] \in Given(p)' /\ watch'[p] \in Seq(Given(p)')
  <2>1. Given(p) \subseteq Given(p)'
    BY DEF Given
  <2>2. watch[p] \in Seq(Given(p))
    BY DEF GatesInv
  <2> DEFINE old == Given(p)
             new == Given(p)'
  <2>3. Seq(old) \subseteq Seq(new)
    <3> HIDE DEF old, new
    <3> QED
      BY <2>1 DEF old, new
  <2>4. ASSUME NEW v \in Given(p)', watch'[p] = Append(watch[p], v)
        PROVE  watch'[p] \in Seq(Given(p)')
    <3>1. watch[p] \in Seq(new) /\ v \in new
      BY <2>2, <2>3
    <3> HIDE DEF new
    <3>2. Append(watch[p], v) \in Seq(new)
      BY <3>1
    <3> QED
      BY <2>4, <3>2 DEF new
  <2> QED
    BY <2>1, <2>3, <2>4
<1>2. ASSUME worker'.pc # "idle"
      PROVE  \E p \in Policies : worker'.key = p /\ worker'.copy \in Seen(p)
  <2>1. CASE worker.pc # "idle" /\ worker'.key = worker.key /\ worker'.copy = worker.copy
    BY <2>1 DEF GatesInv, RInv, WorkerInv
  <2>2. ASSUME NEW p \in Policies, cache[p] # NoPolicy,
               worker'.key = p, worker'.copy = cache[p]
        PROVE  worker'.copy \in Seen(p)
    BY <2>2 DEF GatesInv, Given
  <2> QED
    BY <1>2, <2>1, <2>2
<1>3. (worker.pc # "idle" => worker.copy \in Seen(worker.key))'
  <2> SUFFICES ASSUME worker'.pc # "idle"
               PROVE  worker'.copy \in Seen(worker.key)'
    OBVIOUS
  <2>1. PICK p \in Policies : worker'.key = p /\ worker'.copy \in Seen(p)
    BY <1>2
  <2> QED
    BY <2>1 DEF Seen
<1> QED
  BY <1>1, <1>3 DEF GatesInv

\* A version that is stored has the spec it is written with.
LEMMA StoreGives ==
    ASSUME RInv, NEW p \in Policies, NEW v \in Version, Store(p, v)
    PROVE  \E new \in Version :
             /\ new.spec = v.spec /\ new.status = v.status /\ new.rv = rev[p] + 1
             /\ api' = [api EXCEPT ![p] = new]
             /\ rev' = [rev EXCEPT ![p] = rev[p] + 1]
             /\ watch' = [watch EXCEPT ![p] = Append(watch[p], new)]
<1> DEFINE new == [v EXCEPT !.rv = rev[p] + 1]
<1>1. rev[p] + 1 \in Nat
  BY DEF RInv, ServerInv
<1>2. /\ new \in Version /\ new.rv = rev[p] + 1
      /\ new.spec = v.spec /\ new.status = v.status
  BY <1>1 DEF Version
<1> QED
  BY <1>2 DEF Store

\* A step that stores at most one version, of a spec that p was given, and leaves the
\* caches alone.
LEMMA StoreKept ==
    ASSUME RInv, GatesInv, NEW p \in Policies, gates' \in [Policies -> SUBSET Specs],
           \A q \in Policies : gates[q] \subseteq gates'[q],
           cache' = cache, worker' = worker \/ worker' = Idle,
           \/ UNCHANGED <<api, rev, watch>>
           \/ \E new \in Version \union {NoPolicy} :
                /\ new # NoPolicy => new.spec \in gates'[p] /\ new.rv = rev[p] + 1
                /\ api' = [api EXCEPT ![p] = new]
                /\ rev' = [rev EXCEPT ![p] = rev[p] + 1]
                /\ watch' = [watch EXCEPT ![p] = Append(watch[p], new)]
    PROVE  GatesInv'
<1>1. worker' = worker \/ worker'.pc = "idle"
  BY DEF Idle
<1>2. /\ api \in [Policies -> Version \union {NoPolicy}]
      /\ rev \in [Policies -> Nat]
      /\ watch \in [Policies -> Seq(Version \union {NoPolicy})]
  BY DEF RInv, ServerInv
<1>3. \A q \in Policies :
        api[q] \in Given(q) /\ cache[q] \in Given(q) /\ watch[q] \in Seq(Given(q))
  BY DEF GatesInv
<1>4. ASSUME NEW q \in Policies
      PROVE  /\ Seen(q) \subseteq Seen(q)'
             /\ api'[q] \in Given(q) \/ api'[q] \in Given(q)'
             /\ cache'[q] \in Given(q)
             /\ \/ watch'[q] \in Seq(Given(q))
                \/ \E v \in Given(q)' : watch'[q] = Append(watch[q], v)
  <2>1. CASE api'[q] = api[q] /\ rev'[q] = rev[q] /\ watch'[q] = watch[q]
    <3>1. Seen(q) \subseteq Seen(q)'
      BY <2>1, SeenKept
    <3> QED
      BY <1>3, <2>1, <3>1
  <2>2. ASSUME q = p, NEW new \in Version \union {NoPolicy},
               new # NoPolicy => new.spec \in gates'[p] /\ new.rv = rev[p] + 1,
               api'[p] = new, rev'[p] = rev[p] + 1, watch'[p] = Append(watch[p], new)
        PROVE  /\ Seen(q) \subseteq Seen(q)'
               /\ api'[q] \in Given(q)'
               /\ \E v \in Given(q)' : watch'[q] = Append(watch[q], v)
    <3>1. Seen(p) \subseteq Seen(p)'
      BY <2>2, SeenKept
    <3>2. rev[p] + 1 <= rev'[p]
      BY <1>2, <2>2
    <3>3. new \in Given(p)'
      BY <2>2, <3>2 DEF Given, Seen
    <3> QED
      BY <2>2, <3>1, <3>3
  <2> QED
    BY <1>2, <1>3, <2>1, <2>2
<1> QED
  BY <1>1, <1>4, GatesKept

\* Users write specs, and give them to the policy.
LEMMA UsersGive ==
    ASSUME RInv, GatesInv, NEW p \in Policies, WritePolicy(p) \/ DeletePolicy(p)
    PROVE  GatesInv'
<1>1. cache' = cache /\ worker' = worker
  BY DEF WritePolicy, DeletePolicy
<1>2. gates \in [Policies -> SUBSET Specs]
  BY DEF GatesInv
<1>3. CASE WritePolicy(p)
  <2>1. PICK spec \in Specs :
          /\ \/ api[p] = NoPolicy /\ Store(p, [rv |-> 0, spec |-> spec, status |-> NewStatus])
             \/ api[p] # NoPolicy /\ Store(p, [api[p] EXCEPT !.spec = spec])
          /\ gates' = [gates EXCEPT ![p] = gates[p] \union {spec}]
    BY <1>3 DEF WritePolicy
  <2>2. /\ gates' \in [Policies -> SUBSET Specs]
        /\ \A q \in Policies : gates[q] \subseteq gates'[q]
        /\ spec \in gates'[p]
    BY <1>2, <2>1
  <2>3. PICK v \in Version : v.spec = spec /\ Store(p, v)
    <3>1. CASE api[p] = NoPolicy
      <4>1. [rv |-> 0, spec |-> spec, status |-> NewStatus] \in Version
        BY DEF Version, Statuses
      <4> QED
        BY <2>1, <3>1, <4>1
    <3>2. CASE api[p] # NoPolicy
      <4>1. /\ [api[p] EXCEPT !.spec = spec] \in Version
            /\ [api[p] EXCEPT !.spec = spec].spec = spec
        BY <3>2 DEF RInv, ServerInv, Version
      <4> QED
        BY <2>1, <3>2, <4>1
    <3> QED
      BY <3>1, <3>2
  <2>4. PICK new \in Version : /\ new.spec = spec /\ new.rv = rev[p] + 1
                               /\ api' = [api EXCEPT ![p] = new]
                               /\ rev' = [rev EXCEPT ![p] = rev[p] + 1]
                               /\ watch' = [watch EXCEPT ![p] = Append(watch[p], new)]
    BY <2>3, StoreGives
  <2> QED
    BY <1>1, <2>2, <2>4, StoreKept
<1>4. CASE DeletePolicy(p)
  <2>1. /\ api' = [api EXCEPT ![p] = NoPolicy]
        /\ rev' = [rev EXCEPT ![p] = rev[p] + 1]
        /\ watch' = [watch EXCEPT ![p] = Append(watch[p], NoPolicy)]
        /\ gates' = gates
    BY <1>4 DEF DeletePolicy
  <2> QED
    BY <1>1, <1>2, <2>1, StoreKept
<1> QED
  BY <1>3, <1>4

\* A reconcile works with the copy it began with, and stores its spec.
LEMMA ReconcileGives ==
    ASSUME RInv, GatesInv, Reconcile
    PROVE  GatesInv'
<1>1. gates' = gates /\ cache' = cache /\ gates \in [Policies -> SUBSET Specs]
  BY DEF Reconcile, Scan, SkipUpgrade, CreateUpgrade, CreateFails, Persist, PersistFails,
         policies, GatesInv
<1>2. /\ worker.pc # "idle" /\ DOMAIN worker = {"pc", "key", "copy", "report", "todo"}
      /\ worker.key \in Policies /\ worker.copy \in Version
  BY DEF Reconcile, Scan, SkipUpgrade, CreateUpgrade, CreateFails, MustCreate, Persist,
         PersistFails, AtUpgrade, AtPersist, RInv, WorkerInv
<1>3. CASE Scan \/ SkipUpgrade \/ CreateUpgrade \/ CreateFails
  <2>1. UNCHANGED <<api, rev, watch>>
    BY <1>3 DEF Scan, SkipUpgrade, CreateUpgrade, CreateFails, policies
  <2>2. \/ worker'.key = worker.key /\ worker'.copy = worker.copy
        \/ worker'.pc = "idle"
    <3>1. CASE Scan
      BY <1>2, <3>1 DEF Scan
    <3>2. CASE SkipUpgrade \/ CreateUpgrade
      BY <1>2, <3>2 DEF SkipUpgrade, CreateUpgrade
    <3>3. CASE CreateFails
      BY <3>3 DEF CreateFails, Idle
    <3> QED
      BY <1>3, <3>1, <3>2, <3>3
  <2>3. \A p \in Policies :
          api[p] \in Given(p) /\ cache[p] \in Given(p) /\ watch[p] \in Seq(Given(p))
    BY DEF GatesInv
  <2>4. \A p \in Policies : Seen(p) \subseteq Seen(p)'
    BY <1>1, <2>1, SeenKept
  <2> QED
    BY <1>1, <1>2, <2>1, <2>2, <2>3, <2>4, GatesKept
<1>4. CASE Persist \/ PersistFails
  <2>1. PICK k \in Policies : k = worker.key
    BY <1>2
  <2>2. /\ AtPersist /\ worker' = Idle
        /\ PutStatus(k, worker.copy, ScanStatus) \/ UNCHANGED <<api, rev, watch>>
    BY <1>4, <2>1 DEF Persist, PersistFails
  <2>3. ASSUME Store(k, [worker.copy EXCEPT !.status = ScanStatus])
        PROVE  \E new \in Version :
                 /\ new.spec \in gates'[k] /\ new.rv = rev[k] + 1
                 /\ api' = [api EXCEPT ![k] = new]
                 /\ rev' = [rev EXCEPT ![k] = rev[k] + 1]
                 /\ watch' = [watch EXCEPT ![k] = Append(watch[k], new)]
    <3>1. ScanStatus \in Statuses
      BY <2>2, ScanStatusIn
    <3> DEFINE v == [worker.copy EXCEPT !.status = ScanStatus]
    <3>2. v \in Version /\ v.spec = worker.copy.spec
      BY <1>2, <3>1 DEF Version
    <3>3. Store(k, v)
      BY <2>3
    <3> HIDE DEF v
    <3>4. worker.copy.spec \in gates'[k]
      BY <1>1, <1>2, <2>1 DEF GatesInv, Seen
    <3> QED
      BY <3>2, <3>3, <3>4, StoreGives
  <2> QED
    BY <1>1, <2>2, <2>3, StoreKept DEF PutStatus
<1> QED
  BY <1>3, <1>4 DEF Reconcile

\* Whatever is seen of a policy was given to it.
LEMMA NextGates == RInv /\ GatesInv /\ [Next]_vars => GatesInv'
<1> SUFFICES ASSUME RInv, GatesInv, [Next]_vars
             PROVE  GatesInv'
  OBVIOUS
<1>1. /\ gates \in [Policies -> SUBSET Specs]
      /\ \A p \in Policies :
           api[p] \in Given(p) /\ cache[p] \in Given(p) /\ watch[p] \in Seq(Given(p))
  BY DEF GatesInv
<1>2. ASSUME UNCHANGED <<api, rev, watch, cache, gates, worker>>
      PROVE  GatesInv'
  BY <1>2 DEF GatesInv, Given, Seen
<1> DEFINE SeenStays == \A p \in Policies : Seen(p) \subseteq Seen(p)'
<1>0. UNCHANGED <<api, rev, gates>> => SeenStays
  BY SeenKept
<1> HIDE DEF SeenStays
<1>3. ASSUME NEW p \in Policies, Deliver(p)
      PROVE  GatesInv'
  <2>1. /\ watch[p] # <<>> /\ cache' = [cache EXCEPT ![p] = Head(watch[p])]
        /\ watch' = [watch EXCEPT ![p] = Tail(watch[p])]
        /\ UNCHANGED <<api, rev, worker, gates>>
    BY <1>3 DEF Deliver
  <2>2. Head(watch[p]) \in Given(p) /\ Tail(watch[p]) \in Seq(Given(p))
    <3> DEFINE G == Given(p)
    <3>1. watch[p] \in Seq(G) /\ watch[p] # <<>>
      BY <1>1, <2>1
    <3> HIDE DEF G
    <3>2. Head(watch[p]) \in G /\ Tail(watch[p]) \in Seq(G)
      BY <3>1
    <3> QED
      BY <3>2 DEF G
  <2>3. /\ cache \in [Policies -> Version \union {NoPolicy}]
        /\ watch \in [Policies -> Seq(Version \union {NoPolicy})]
    BY DEF RInv, ServerInv
  <2>4. \A q \in Policies : cache'[q] \in Given(q) /\ watch'[q] \in Seq(Given(q))
    BY <1>1, <2>1, <2>2, <2>3
  <2>5. \/ worker'.pc = "idle"
        \/ worker.pc # "idle" /\ worker'.key = worker.key /\ worker'.copy = worker.copy
    BY <2>1
  <2> QED
    BY <1>0, <1>1, <2>1, <2>4, <2>5, GatesKept DEF SeenStays
<1>4. ASSUME NEW p \in Policies, Begin(p)
      PROVE  GatesInv'
  <2>1. UNCHANGED <<api, rev, watch, cache, gates>>
    BY <1>4 DEF Begin
  <2>2. \/ worker'.pc = "idle"
        \/ cache[p] # NoPolicy /\ worker'.key = p /\ worker'.copy = cache[p]
    BY <1>4 DEF Begin, Idle
  <2> QED
    BY <1>0, <1>1, <2>1, <2>2, GatesKept DEF SeenStays
<1>5. CASE Restart
  <2>1. /\ worker' = Idle /\ cache' = api /\ watch' = [p \in Policies |-> <<>>]
        /\ UNCHANGED <<api, rev, gates>>
    BY <1>5 DEF Restart
  <2>2. worker'.pc = "idle"
    BY <2>1 DEF Idle
  <2>3. \A p \in Policies : watch'[p] \in Seq(Given(p))
    BY <2>1
  <2> QED
    BY <1>0, <1>1, <2>1, <2>2, <2>3, GatesKept DEF SeenStays
<1>6. ASSUME NEW p \in Policies, FallsDue(p)
      PROVE  GatesInv'
  BY <1>2, <1>6 DEF FallsDue
<1>7. CASE ChangeCluster \/ Tick \/ DeliverPlan \/ \E name \in DOMAIN plans : DeletePlan(name)
  BY <1>2, <1>7 DEF ChangeCluster, Tick, DeliverPlan, DeletePlan, policies
<1>8. CASE UNCHANGED vars
  BY <1>2, <1>8 DEF vars
<1> QED
  BY <1>3, <1>4, <1>5, <1>6, <1>7, <1>8, UsersGive, ReconcileGives DEF Next, Users

LEMMA InvariantG == Spec => [](RInv /\ GatesInv)
<1>1. Init => GatesInv
  <2> SUFFICES ASSUME Init PROVE GatesInv
    OBVIOUS
  <2>1. worker.pc = "idle"
    BY DEF Init, Idle
  <2>2. \A p \in Policies : api[p] = NoPolicy /\ cache[p] = NoPolicy /\ watch[p] = <<>>
    BY DEF Init
  <2>3. gates \in [Policies -> SUBSET Specs]
    BY DEF Init
  <2>4. ASSUME NEW p \in Policies
        PROVE  api[p] \in Given(p) /\ cache[p] \in Given(p) /\ watch[p] \in Seq(Given(p))
    <3>1. NoPolicy \in Given(p)
      BY DEF Given
    <3>2. ASSUME NEW G PROVE <<>> \in Seq(G)
      OBVIOUS
    <3>3. watch[p] \in Seq(Given(p))
      BY <2>2, <3>2
    <3> QED
      BY <2>2, <3>1, <3>3
  <2> QED
    BY <2>1, <2>3, <2>4 DEF GatesInv
<1>2. RInv /\ GatesInv /\ [Next]_vars => (RInv /\ GatesInv)'
  BY NextRInv, NextGates
<1> QED
  BY <1>1, <1>2, InitRInv, PTL DEF Spec

-----------------------------------------------------------------------------
(* The types of the state.                                                 *)

\* The worker has nothing to plan but entries that autoplan wants plans of.
TodoInv ==
    /\ worker.pc = "idle" => worker = Idle
    /\ worker.pc = "plan" => worker.todo \subseteq ToPlan(worker.copy.spec, worker.report.tools)

\* Plans have names of plans.
PlanTypes == plans \in [DOMAIN plans -> BOOLEAN] /\ planned \subseteq PlanNames

TypeInv ==
    /\ TodoInv /\ PlanTypes
    /\ queue \in [Policies -> {"none", "later", "now"}]
    /\ asked \subseteq Policies
    /\ faults \in 0..MaxFaults /\ edits \in 0..MaxEdits /\ changes \in 0..MaxChanges

\* An entry of a report that autoplan wants a plan of names a tool and a version.
LEMMA WantedNames ==
    ASSUME NEW spec \in Specs, NEW seen \in Clusters,
           NEW i \in ToPlan(spec, Report(spec, seen).tools)
    PROVE  LET ts == Report(spec, seen).tools[i]
           IN <<ts.name, ts.recommended>> \in Tools \X Versions
<1> DEFINE ts == Report(spec, seen).tools[i]
<1>1. i \in DOMAIN Report(spec, seen).tools /\ ts.message = "upgrade available"
  BY DEF ToPlan, WantsPlan
<1>2. ts.name \in Tools /\ ts = ToolStatus(ts.name, seen, Tolerance(spec))
  BY <1>1, ReportLists
<1>3. IsUpgrade(ts, seen, Tolerance(spec))
  BY <1>1, <1>2, StatusOfTool
<1> QED
  BY <1>2, <1>3 DEF IsUpgrade

\* A turn of the loop takes an entry that is to be planned, under the name of a plan.
LEMMA TurnIsNext ==
    ASSUME RInv, TypeInv, AtUpgrade
    PROVE  Turn \in worker.todo /\ Name \in PlanNames
<1>1. PICK seen \in Clusters : worker.report = Report(worker.copy.spec, seen)
  BY DEF RInv, WorkerInv, AtUpgrade
<1>2. /\ worker.key \in Policies /\ worker.copy.spec \in Specs
      /\ worker.todo \subseteq ToPlan(worker.copy.spec, worker.report.tools) /\ worker.todo # {}
  BY DEF RInv, WorkerInv, AtUpgrade, TypeInv, TodoInv, Version
<1>3. worker.todo \subseteq Nat
  <2>1. worker.report.tools \in Seq(ToolReport)
    BY <1>1, <1>2, ReportLists DEF IsReport
  <2>2. DOMAIN worker.report.tools \subseteq Nat
    BY <2>1
  <2> QED
    BY <1>2, <2>2 DEF ToPlan
<1>4. \E m \in worker.todo : \A n \in worker.todo : m <= n
  BY <1>2, <1>3, MatrixAssumptions, MP!Least
<1>5. Turn \in worker.todo
  BY <1>4 DEF Turn, Min
<1>6. <<Upgrade.name, Upgrade.recommended>> \in Tools \X Versions
  BY <1>1, <1>2, <1>5, WantedNames DEF Upgrade
<1>7. Name \in PlanNames
  BY <1>2, <1>6, PlanNameAssumption DEF Name, UpgradeName, PlanNames
<1> QED
  BY <1>5, <1>7

\* The worker's part of a step that leaves it, or ends its reconcile.
LEMMA TodoKept ==
    ASSUME TodoInv, worker' = worker \/ worker' = Idle
    PROVE  TodoInv'
<1>1. CASE worker' = worker
  BY <1>1 DEF TodoInv
<1>2. CASE worker' = Idle
  <2>1. worker'.pc = "idle"
    BY <1>2 DEF Idle
  <2> QED
    BY <1>2, <2>1 DEF TodoInv
<1> QED
  BY <1>1, <1>2

\* A turn takes one entry from those the worker has.
LEMMA TodoShrinks ==
    ASSUME RInv, TodoInv, AtUpgrade, worker' = [worker EXCEPT !.todo = @ \ {Turn}]
    PROVE  TodoInv'
<1>1. DOMAIN worker = {"pc", "key", "copy", "report", "todo"} /\ worker.pc = "plan"
  BY DEF RInv, WorkerInv, AtUpgrade
<1>2. /\ worker'.pc = "plan" /\ worker'.copy = worker.copy /\ worker'.report = worker.report
      /\ worker'.todo \subseteq worker.todo
  BY <1>1
<1> QED
  BY <1>1, <1>2 DEF TodoInv

\* A plan is created under the name of a plan, approved or not.
LEMMA CreateTyped ==
    ASSUME RInv, TypeInv, AtUpgrade, Create
    PROVE  PlanTypes'
<1>1. Name \in PlanNames
  BY TurnIsNext
<1>2. worker.copy.spec.autoApprove \in BOOLEAN
  BY SpecsAssumption DEF RInv, WorkerInv, AtUpgrade, Version, PolicySpec
<1>3. /\ plans' = [n \in DOMAIN plans \union {Name} |->
                     IF n = Name THEN worker.copy.spec.autoApprove ELSE plans[n]]
      /\ planned' = planned \union {Name}
  BY DEF Create
<1>4. plans \in [DOMAIN plans -> BOOLEAN] /\ planned \subseteq PlanNames
  BY DEF TypeInv, PlanTypes
<1>5. planned' \subseteq PlanNames
  BY <1>1, <1>3, <1>4
<1>6. \A n \in DOMAIN plans' : plans'[n] \in BOOLEAN
  BY <1>2, <1>3, <1>4
<1>7. plans' = [n \in DOMAIN plans' |-> plans'[n]]
  BY <1>3
<1>8. plans' \in [DOMAIN plans' -> BOOLEAN]
  BY <1>6, <1>7
<1> QED
  BY <1>5, <1>8 DEF PlanTypes, PlanNames

\* Requeue gives the queue an entry.
LEMMA RequeueTyped ==
    ASSUME NEW p, queue \in [Policies -> {"none", "later", "now"}]
    PROVE  Requeue(p) \in [Policies -> {"none", "later", "now"}]
BY DEF Requeue

\* A step of a reconcile keeps the types.
LEMMA ReconcileTyped ==
    ASSUME RInv, TypeInv, Reconcile
    PROVE  TypeInv'
<1> USE BoundsAssumption
<1>1. CASE Scan
  <2>1. /\ UNCHANGED <<queue, asked, plans, planned, edits, changes>>
        /\ faults' \in {faults, faults + 1} /\ (faults' # faults => faults < MaxFaults)
    BY <1>1 DEF Scan, policies, upgrades
  <2>2. TodoInv'
    <3>1. PICK seen \in Clusters :
            worker' = [worker EXCEPT
              !.pc = "plan", !.report = Report(worker.copy.spec, seen),
              !.todo = ToPlan(worker.copy.spec, Report(worker.copy.spec, seen).tools)]
      BY <1>1 DEF Scan
    <3>2. DOMAIN worker = {"pc", "key", "copy", "report", "todo"}
      BY DEF RInv, WorkerInv
    <3>3. /\ worker'.pc = "plan" /\ worker'.copy = worker.copy
          /\ worker'.report = Report(worker.copy.spec, seen)
          /\ worker'.todo = ToPlan(worker.copy.spec, Report(worker.copy.spec, seen).tools)
      BY <3>1, <3>2
    <3> QED
      BY <3>3 DEF TodoInv
  <2>3. PlanTypes'
    BY <2>1 DEF TypeInv, PlanTypes, PlanNames
  <2> QED
    BY <2>1, <2>2, <2>3 DEF TypeInv
<1>2. CASE SkipUpgrade
  <2>1. UNCHANGED <<queue, asked, plans, planned, faults, edits, changes>>
    BY <1>2 DEF SkipUpgrade, policies, upgrades, bounds
  <2>2. TodoInv'
    BY <1>2, TodoShrinks DEF SkipUpgrade, TypeInv
  <2>3. PlanTypes'
    BY <2>1 DEF TypeInv, PlanTypes, PlanNames
  <2> QED
    BY <2>1, <2>2, <2>3 DEF TypeInv
<1>3. CASE CreateUpgrade
  <2>1. UNCHANGED <<queue, asked, faults, edits, changes>>
    BY <1>3 DEF CreateUpgrade, policies, bounds
  <2>2. TodoInv'
    BY <1>3, TodoShrinks DEF CreateUpgrade, MustCreate, TypeInv
  <2>3. PlanTypes'
    BY <1>3, CreateTyped DEF CreateUpgrade, MustCreate
  <2> QED
    BY <2>1, <2>2, <2>3 DEF TypeInv
<1>4. CASE CreateFails
  <2>1. /\ UNCHANGED <<asked, edits, changes>> /\ worker' = Idle
        /\ queue' = Requeue(worker.key)
        /\ faults' \in {faults, faults + 1} /\ (faults' # faults => faults < MaxFaults)
    BY <1>4 DEF CreateFails, upgrades
  <2>2. TodoInv'
    BY <2>1, TodoKept DEF TypeInv
  <2>3. PlanTypes'
    <3>1. CASE Create
      BY <1>4, <3>1, CreateTyped DEF CreateFails, MustCreate
    <3>2. CASE UNCHANGED upgrades
      BY <3>2 DEF upgrades, TypeInv, PlanTypes, PlanNames
    <3> QED
      BY <1>4, <3>1, <3>2 DEF CreateFails
  <2>4. queue' \in [Policies -> {"none", "later", "now"}]
    BY <2>1, RequeueTyped DEF TypeInv
  <2> QED
    BY <2>1, <2>2, <2>3, <2>4 DEF TypeInv
<1>5. CASE Persist \/ PersistFails
  <2>1. /\ UNCHANGED <<asked, plans, planned, edits, changes>> /\ worker' = Idle
        /\ queue' = Requeue(worker.key)
        /\ faults' \in {faults, faults + 1} /\ (faults' # faults => faults < MaxFaults)
    BY <1>5 DEF Persist, PersistFails, upgrades, bounds
  <2>2. TodoInv'
    BY <2>1, TodoKept DEF TypeInv
  <2>3. PlanTypes'
    BY <2>1 DEF TypeInv, PlanTypes, PlanNames
  <2>4. queue' \in [Policies -> {"none", "later", "now"}]
    BY <2>1, RequeueTyped DEF TypeInv
  <2> QED
    BY <2>1, <2>2, <2>3, <2>4 DEF TypeInv
<1> QED
  BY <1>1, <1>2, <1>3, <1>4, <1>5 DEF Reconcile

\* The informers, the queue and users keep the types.
LEMMA OthersTyped ==
    ASSUME RInv, TypeInv,
           \/ Users \/ ChangeCluster \/ Tick \/ DeliverPlan \/ Restart
           \/ \E p \in Policies : Deliver(p) \/ FallsDue(p) \/ Begin(p)
    PROVE  TypeInv'
<1> USE BoundsAssumption
<1> DEFINE Bounded == /\ edits' \in {edits, edits + 1} /\ (edits' # edits => edits < MaxEdits)
                      /\ faults' \in {faults, faults + 1} /\ (faults' # faults => faults < MaxFaults)
                      /\ changes' \in {changes, changes + 1}
                      /\ (changes' # changes => changes < MaxChanges)
<1>1. Bounded =>
        faults' \in 0..MaxFaults /\ edits' \in 0..MaxEdits /\ changes' \in 0..MaxChanges
  BY DEF TypeInv
<1>2. CASE \E p \in Policies : WritePolicy(p) \/ DeletePolicy(p)
  <2>1. /\ UNCHANGED <<queue, asked, worker, plans, planned>> /\ Bounded
    BY <1>2 DEF WritePolicy, DeletePolicy, upgrades
  <2>2. TodoInv' /\ PlanTypes'
    BY <2>1, TodoKept DEF TypeInv, PlanTypes, PlanNames
  <2> HIDE DEF Bounded
  <2> QED
    BY <1>1, <2>1, <2>2 DEF TypeInv
<1>3. CASE \E name \in DOMAIN plans : DeletePlan(name)
  <2>1. PICK name \in DOMAIN plans : DeletePlan(name)
    BY <1>3
  <2>2. /\ UNCHANGED <<queue, asked, worker, planned>> /\ Bounded
        /\ plans' = [n \in DOMAIN plans \ {name} |-> plans[n]]
    BY <2>1 DEF DeletePlan, policies
  <2>3. TodoInv' /\ PlanTypes'
    BY <2>2, TodoKept DEF TypeInv, PlanTypes, PlanNames
  <2> HIDE DEF Bounded
  <2> QED
    BY <1>1, <2>2, <2>3 DEF TypeInv
<1>4. CASE ChangeCluster \/ Tick \/ DeliverPlan
  <2>1. UNCHANGED <<queue, asked, worker, plans, planned>> /\ Bounded
    BY <1>4 DEF ChangeCluster, Tick, DeliverPlan, policies, upgrades, bounds
  <2>2. TodoInv' /\ PlanTypes'
    BY <2>1, TodoKept DEF TypeInv, PlanTypes, PlanNames
  <2> HIDE DEF Bounded
  <2> QED
    BY <1>1, <2>1, <2>2 DEF TypeInv
<1>5. CASE \E p \in Policies : Deliver(p) \/ FallsDue(p)
  <2>1. PICK p \in Policies : Deliver(p) \/ FallsDue(p)
    BY <1>5
  <2>2. /\ UNCHANGED <<worker, plans, planned>> /\ Bounded
        /\ queue' = [queue EXCEPT ![p] = "now"] /\ asked' \subseteq asked \union {p}
    BY <2>1 DEF Deliver, FallsDue, upgrades, bounds
  <2>3. TodoInv' /\ PlanTypes'
    BY <2>2, TodoKept DEF TypeInv, PlanTypes, PlanNames
  <2> HIDE DEF Bounded
  <2> QED
    BY <1>1, <2>2, <2>3 DEF TypeInv
<1>6. CASE \E p \in Policies : Begin(p)
  <2>1. PICK p \in Policies : Begin(p)
    BY <1>6
  <2>2. /\ UNCHANGED <<plans, planned>> /\ Bounded
        /\ queue' = [queue EXCEPT ![p] = "none"] /\ asked' \subseteq asked
        /\ worker' = IF cache[p] = NoPolicy THEN Idle
                     ELSE [Idle EXCEPT !.pc = "scan", !.key = p, !.copy = cache[p]]
    BY <2>1 DEF Begin, upgrades, bounds
  <2>3. TodoInv'
    <3>1. CASE cache[p] = NoPolicy
      BY <2>2, <3>1, TodoKept DEF TypeInv
    <3>2. CASE cache[p] # NoPolicy
      <4>1. worker'.pc = "scan"
        BY <2>2, <3>2 DEF Idle
      <4> QED
        BY <4>1 DEF TodoInv
    <3> QED
      BY <3>1, <3>2
  <2>4. PlanTypes'
    BY <2>2 DEF TypeInv, PlanTypes, PlanNames
  <2> HIDE DEF Bounded
  <2> QED
    BY <1>1, <2>2, <2>3, <2>4 DEF TypeInv
<1>7. CASE Restart
  <2>1. /\ UNCHANGED <<plans, planned>> /\ Bounded /\ worker' = Idle
        /\ queue' = [p \in Policies |-> IF api[p] = NoPolicy THEN "none" ELSE "now"]
        /\ asked' \subseteq Policies
    BY <1>7 DEF Restart
  <2>2. TodoInv' /\ PlanTypes'
    BY <2>1, TodoKept DEF TypeInv, PlanTypes, PlanNames
  <2>3. queue' \in [Policies -> {"none", "later", "now"}]
    BY <2>1
  <2> HIDE DEF Bounded
  <2> QED
    BY <1>1, <2>1, <2>2, <2>3 DEF TypeInv
<1> QED
  BY <1>2, <1>3, <1>4, <1>5, <1>6, <1>7 DEF Users

\* The types are an invariant, together with RInv.
LEMMA InvariantT == Spec => [](RInv /\ TypeInv)
<1>1. Init => TypeInv
  <2> SUFFICES ASSUME Init PROVE TypeInv
    OBVIOUS
  <2>1. worker.pc = "idle" /\ worker = Idle
    BY DEF Init, Idle
  <2>2. TodoInv
    BY <2>1 DEF TodoInv
  <2>3. plans \in [DOMAIN plans -> BOOLEAN] /\ planned = {}
    BY DEF Init
  <2>4. PlanTypes
    BY <2>3 DEF PlanTypes
  <2>5. queue \in [Policies -> {"none", "later", "now"}] /\ asked = {}
        /\ faults = 0 /\ edits = 0 /\ changes = 0
    BY DEF Init
  <2> QED
    BY <2>2, <2>4, <2>5, BoundsAssumption DEF TypeInv
<1>2. ASSUME RInv, TypeInv, [Next]_vars
      PROVE  TypeInv'
  <2>1. CASE UNCHANGED vars
    <3>1. UNCHANGED <<worker, queue, asked, plans, planned, faults, edits, changes>>
      BY <2>1 DEF vars
    <3>2. TodoInv' /\ PlanTypes'
      BY <1>2, <3>1, TodoKept DEF TypeInv, PlanTypes, PlanNames
    <3> QED
      BY <1>2, <3>1, <3>2 DEF TypeInv
  <2> QED
    BY <1>2, <2>1, ReconcileTyped, OthersTyped DEF Next
<1>3. RInv /\ TypeInv /\ [Next]_vars => (RInv /\ TypeInv)'
  BY <1>2, NextRInv
<1> QED
  BY <1>1, <1>3, InitRInv, PTL DEF Spec

\* A version of a policy, as far as TypeOK says.
LEMMA VersionTyped ==
    ASSUME NEW v \in Version
    PROVE  IsVersion(v)
<1>1. v.rv \in Nat /\ v.spec \in Specs /\ v.status \in Statuses
  BY DEF Version
<1>2. CASE v.status = NewStatus
  <2> DEFINE none == <<>>
  <2>1. none \in Seq(ToolReport) /\ none \in Seq(Names)
    OBVIOUS
  <2>2. v.status = [mode |-> "", tools |-> none, untrackable |-> none, lastScanTime |-> 0]
    BY <1>2 DEF NewStatus
  <2> HIDE DEF none
  <2> DEFINE new == [mode |-> "", tools |-> none, untrackable |-> none, lastScanTime |-> 0]
  <2>3. new.mode = "" /\ new.tools = none /\ new.untrackable = none /\ new.lastScanTime = 0
    OBVIOUS
  <2>4. v.status = new
    BY <2>2
  <2> HIDE DEF new
  <2>5. 0 \in 0..MaxClock
    BY BoundsAssumption
  <2> QED
    BY <1>1, <2>1, <2>3, <2>4, <2>5 DEF IsVersion, IsReport
<1>3. CASE v.status # NewStatus
  <2>1. PICK spec \in Specs, seen \in Clusters, time \in 0..MaxClock :
          v.status = StatusOf(Report(spec, seen), time)
    BY <1>1, <1>3 DEF Statuses
  <2>2. /\ v.status.mode = Report(spec, seen).mode /\ v.status.tools = Report(spec, seen).tools
        /\ v.status.untrackable = Report(spec, seen).untrackable
        /\ v.status.lastScanTime = time
    BY <2>1 DEF StatusOf
  <2>3. IsReport(Report(spec, seen))
    BY ReportLists
  <2> QED
    BY <1>1, <2>2, <2>3 DEF IsVersion, IsReport
<1> QED
  BY <1>2, <1>3

\* The state has its types: in particular no plan is created but under a tool and
\* a version of the knowledge base.
THEOREM TypeCorrect == Spec => []TypeOK
<1>1. ASSUME RInv, GatesInv, TypeInv
      PROVE  TypeOK
  <2>1. ASSUME NEW p \in Policies
        PROVE  /\ api[p] # NoPolicy => IsVersion(api[p])
               /\ cache[p] # NoPolicy => IsVersion(cache[p])
               /\ \A i \in DOMAIN watch[p] : watch[p][i] # NoPolicy => IsVersion(watch[p][i])
    <3>1. /\ api[p] \in Version \union {NoPolicy} /\ cache[p] \in Version \union {NoPolicy}
          /\ watch[p] \in Seq(Version \union {NoPolicy})
      BY <1>1 DEF RInv, ServerInv
    <3>2. \A i \in DOMAIN watch[p] : watch[p][i] \in Version \union {NoPolicy}
      BY <3>1
    <3> QED
      BY <3>1, <3>2, VersionTyped
  <2>2. \/ worker = Idle
        \/ /\ worker.pc \in {"scan", "plan"}
           /\ worker.key \in Policies /\ IsVersion(worker.copy)
           /\ worker.pc = "plan" => /\ IsReport(worker.report)
                                   /\ worker.todo \subseteq DOMAIN worker.report.tools
    <3> SUFFICES ASSUME worker.pc # "idle"
                 PROVE  /\ worker.pc \in {"scan", "plan"}
                        /\ worker.key \in Policies /\ IsVersion(worker.copy)
                        /\ worker.pc = "plan" =>
                             /\ IsReport(worker.report)
                             /\ worker.todo \subseteq DOMAIN worker.report.tools
      BY <1>1 DEF TypeInv, TodoInv
    <3>1. worker.pc \in {"scan", "plan"} /\ worker.key \in Policies /\ worker.copy \in Version
      BY <1>1 DEF RInv, WorkerInv
    <3>2. ASSUME worker.pc = "plan"
          PROVE  IsReport(worker.report) /\ worker.todo \subseteq DOMAIN worker.report.tools
      <4>1. PICK seen \in Clusters : worker.report = Report(worker.copy.spec, seen)
        BY <1>1, <3>2 DEF RInv, WorkerInv
      <4>2. IsReport(worker.report)
        BY <3>1, <4>1, ReportLists DEF Version
      <4>3. worker.todo \subseteq DOMAIN worker.report.tools
        BY <1>1, <3>2 DEF TypeInv, TodoInv, ToPlan
      <4> QED
        BY <4>2, <4>3
    <3> QED
      BY <3>1, <3>2, VersionTyped
  <2>3. /\ plans \in [DOMAIN plans -> BOOLEAN] /\ DOMAIN plans \subseteq PlanNames
        /\ planCache \subseteq PlanNames /\ planned \subseteq PlanNames
    BY <1>1 DEF RInv, PlansInv, TypeInv, PlanTypes
  <2>4. planWatch \in Seq(PlanNames \X BOOLEAN)
    <3>1. planned \subseteq PlanNames /\ planWatch \in Seq(planned \X BOOLEAN)
      BY <1>1 DEF RInv, PlansInv, TypeInv, PlanTypes
    <3>2. planned \X BOOLEAN \subseteq PlanNames \X BOOLEAN
      BY <3>1
    <3> HIDE DEF PlanNames
    <3> QED
      BY <3>1, <3>2
  <2> QED
    BY <1>1, <2>1, <2>2, <2>3, <2>4 DEF TypeOK, RInv, ServerInv, TypeInv, GatesInv
<1> QED
  BY <1>1, InvariantG, InvariantT, PTL
-----------------------------------------------------------------------------
(* The promise.                                                            *)

\* No version is the sign for none.
LEMMA VersionsStored ==
    ASSUME NEW v \in Version
    PROVE  v # NoPolicy
<1>1. /\ v = [rv |-> v.rv, spec |-> v.spec, status |-> v.status]
      /\ v.rv \in Nat /\ v.spec \in Specs /\ v.status \in Statuses
  BY DEF Version
<1>2. IsReport(v.status) /\ v.status.lastScanTime \in Nat
  BY VersionTyped, BoundsAssumption DEF IsVersion
<1>3. v.status = [mode |-> v.status.mode, tools |-> v.status.tools,
                  untrackable |-> v.status.untrackable,
                  lastScanTime |-> v.status.lastScanTime]
  <2>1. ASSUME NEW m, NEW l, NEW u, NEW time,
               v.status = [mode |-> m, tools |-> l, untrackable |-> u, lastScanTime |-> time]
        PROVE  v.status = [mode |-> v.status.mode, tools |-> v.status.tools,
                           untrackable |-> v.status.untrackable,
                           lastScanTime |-> v.status.lastScanTime]
    BY <2>1
  <2>2. CASE v.status = NewStatus
    <3> DEFINE none == <<>>
    <3>1. v.status = [mode |-> "", tools |-> none, untrackable |-> none, lastScanTime |-> 0]
      BY <2>2 DEF NewStatus
    <3> HIDE DEF none
    <3> QED
      BY <2>1, <3>1
  <2>3. CASE v.status # NewStatus
    <3>1. PICK r, time : v.status = StatusOf(r, time)
      BY <1>1, <2>3 DEF Statuses
    <3> QED
      BY <2>1, <3>1 DEF StatusOf
  <2> QED
    BY <2>2, <2>3
<1>4. v.status \in Status
  BY <1>2, <1>3 DEF Status, IsReport
<1>5. v \in Stored
  BY <1>1, <1>4 DEF Stored
<1> QED
  BY <1>5, NoPolicyAssumption

\* A step that leaves the policies alone is none of the promise's.
LEMMA MappedSame ==
    ASSUME \A q \in Policies : api'[q] = api[q]
    PROVE  AbstractSpecs' = AbstractSpecs /\ AbstractStatuses' = AbstractStatuses
BY DEF AbstractSpecs, AbstractStatuses, SpecOf

\* A step that changes policy p alone.
LEMMA MappedChange ==
    ASSUME NEW p \in Policies, \A q \in Policies \ {p} : api'[q] = api[q],
           NEW s, SpecOf(api'[p]) = s,
           NEW r, (IF api'[p] = NoPolicy THEN NewStatus ELSE api'[p].status) = r
    PROVE  /\ AbstractSpecs' = [AbstractSpecs EXCEPT ![p] = s]
           /\ AbstractStatuses' = [AbstractStatuses EXCEPT ![p] = r]
<1>1. /\ AbstractSpecs' = [q \in Policies |-> SpecOf(api'[q])]
      /\ AbstractStatuses' =
           [q \in Policies |-> IF api'[q] = NoPolicy THEN NewStatus ELSE api'[q].status]
  BY DEF AbstractSpecs, AbstractStatuses, SpecOf
<1> QED
  BY <1>1 DEF AbstractSpecs, AbstractStatuses

\* What users do to policies, the promise lets them do.
LEMMA UsersPromised ==
    ASSUME RInv, NEW p \in Policies, WritePolicy(p) \/ DeletePolicy(p)
    PROVE  Promise!Next
<1>1. /\ api \in [Policies -> Version \union {NoPolicy}]
      /\ UNCHANGED <<plans, planned>>
  BY DEF RInv, ServerInv, WritePolicy, DeletePolicy, upgrades
<1>2. CASE WritePolicy(p)
  <2> DEFINE status == IF api[p] = NoPolicy THEN NewStatus ELSE api[p].status
  <2>1. PICK spec \in Specs :
          /\ \/ api[p] = NoPolicy /\ Store(p, [rv |-> 0, spec |-> spec, status |-> NewStatus])
             \/ api[p] # NoPolicy /\ Store(p, [api[p] EXCEPT !.spec = spec])
          /\ gates' = [gates EXCEPT ![p] = gates[p] \union {spec}]
    BY <1>2 DEF WritePolicy
  <2>2. PICK v \in Version : v.spec = spec /\ v.status = status /\ Store(p, v)
    <3>1. CASE api[p] = NoPolicy
      <4>1. [rv |-> 0, spec |-> spec, status |-> NewStatus] \in Version
        BY DEF Version, Statuses
      <4> QED
        BY <2>1, <3>1, <4>1
    <3>2. CASE api[p] # NoPolicy
      <4>1. /\ [api[p] EXCEPT !.spec = spec] \in Version
            /\ [api[p] EXCEPT !.spec = spec].spec = spec
            /\ [api[p] EXCEPT !.spec = spec].status = api[p].status
        BY <1>1, <3>2 DEF Version
      <4> QED
        BY <2>1, <3>2, <4>1
    <3> QED
      BY <3>1, <3>2
  <2>3. PICK new \in Version : /\ new.spec = spec /\ new.status = status
                               /\ api' = [api EXCEPT ![p] = new]
    BY <2>2, StoreGives
  <2>4. api'[p] = new /\ new # NoPolicy /\ \A q \in Policies \ {p} : api'[q] = api[q]
    BY <1>1, <2>3, VersionsStored
  <2>5. SpecOf(api'[p]) = spec
    BY <2>3, <2>4 DEF SpecOf
  <2>6. (IF api'[p] = NoPolicy THEN NewStatus ELSE api'[p].status) = AbstractStatuses[p]
    BY <2>3, <2>4 DEF AbstractStatuses
  <2>7. /\ AbstractSpecs' = [AbstractSpecs EXCEPT ![p] = spec]
        /\ AbstractStatuses' = [AbstractStatuses EXCEPT ![p] = AbstractStatuses[p]]
    BY <2>4, <2>5, <2>6, MappedChange
  <2>8. AbstractStatuses' = AbstractStatuses
    BY <2>7 DEF AbstractStatuses
  <2>9. Promise!Write(p)
    BY <1>1, <2>1, <2>7, <2>8 DEF Promise!Write
  <2> QED
    BY <2>9 DEF Promise!Next
<1>3. CASE DeletePolicy(p)
  <2>1. api' = [api EXCEPT ![p] = NoPolicy] /\ gates' = gates
    BY <1>3 DEF DeletePolicy
  <2>2. api'[p] = NoPolicy /\ \A q \in Policies \ {p} : api'[q] = api[q]
    BY <1>1, <2>1
  <2>3. /\ SpecOf(api'[p]) = NoPolicy
        /\ (IF api'[p] = NoPolicy THEN NewStatus ELSE api'[p].status) = NewStatus
    BY <2>2 DEF SpecOf
  <2>4. /\ AbstractSpecs' = [AbstractSpecs EXCEPT ![p] = NoPolicy]
        /\ AbstractStatuses' = [AbstractStatuses EXCEPT ![p] = NewStatus]
    BY <2>2, <2>3, MappedChange
  <2>5. Promise!Delete(p)
    BY <1>1, <2>1, <2>4 DEF Promise!Delete
  <2> QED
    BY <2>5 DEF Promise!Next
<1> QED
  BY <1>2, <1>3

\* A plan that is created is one a spec calls for that the policy had, under a free
\* name, and approved as that spec says.
LEMMA CreatePromised ==
    ASSUME RInv, GatesInv, TypeInv, MustCreate, Create, UNCHANGED <<api, gates>>
    PROVE  Promise!Next
<1>1. PICK k \in Policies : k = worker.key
  BY DEF RInv, WorkerInv, MustCreate, AtUpgrade
<1> DEFINE spec == worker.copy.spec
           tools == worker.report.tools
<1>2. spec \in gates[k] /\ spec \in Specs
  BY <1>1 DEF GatesInv, Seen, Version, MustCreate, AtUpgrade
<1>3. PICK seen \in Clusters : worker.report = Report(spec, seen)
  BY DEF RInv, WorkerInv, MustCreate, AtUpgrade
<1>4. Turn \in ToPlan(spec, tools) /\ CanPlan(tools[Turn])
  BY TurnIsNext DEF TypeInv, TodoInv, MustCreate, AtUpgrade, Upgrade
<1>5. Name = UpgradeName(k, tools[Turn])
  BY <1>1 DEF Name, Upgrade
<1>6. Called[k][spec][seen] =
        {UpgradeName(k, Report(spec, seen).tools[i]) :
           i \in {j \in ToPlan(spec, Report(spec, seen).tools) :
                    CanPlan(Report(spec, seen).tools[j])}}
  BY <1>2 DEF Called
<1>7. Name \in Called[k][spec][seen]
  BY <1>3, <1>4, <1>5, <1>6
<1>8. /\ Name \notin DOMAIN plans /\ planned' = planned \union {Name}
      /\ plans' = [n \in DOMAIN plans \union {Name} |->
                     IF n = Name THEN spec.autoApprove ELSE plans[n]]
  BY DEF Create
<1>9. AbstractSpecs' = AbstractSpecs /\ AbstractStatuses' = AbstractStatuses
  BY MappedSame
<1> HIDE DEF spec
<1>10. Promise!MakePlan(k)
  BY <1>2, <1>7, <1>8, <1>9 DEF Promise!MakePlan
<1> QED
  BY <1>10 DEF Promise!Next

\* A report that is stored is one for the spec that is stored, which is that of the
\* worker's copy, and what it calls for was planned.
LEMMA PersistPromised ==
    ASSUME RInv, GatesInv, AtPersist, UNCHANGED <<gates, plans, planned>>,
           PutStatus(worker.key, worker.copy, ScanStatus) \/ UNCHANGED <<api, rev, watch>>
    PROVE  Promise!Next \/ UNCHANGED Promise!vars
<1>1. CASE UNCHANGED api
  <2>1. AbstractSpecs' = AbstractSpecs /\ AbstractStatuses' = AbstractStatuses
    BY <1>1, MappedSame
  <2> QED
    BY <2>1 DEF Promise!vars
<1>2. CASE api' # api
  <2>1. PICK k \in Policies : k = worker.key
    BY DEF RInv, WorkerInv, AtPersist
  <2> DEFINE v == worker.copy
  <2>2. /\ v \in Version /\ v.spec \in Specs /\ v \in Seen(k)
        /\ api \in [Policies -> Version \union {NoPolicy}]
    BY <2>1 DEF RInv, ServerInv, WorkerInv, AtPersist, GatesInv, Version
  <2>3. /\ api[k] # NoPolicy /\ api[k].rv = v.rv
        /\ Store(k, [v EXCEPT !.status = ScanStatus])
    BY <1>2, <2>1 DEF PutStatus, IsCurrent
  <2>4. api[k] = v
    BY <2>2, <2>3 DEF Seen
  <2> DEFINE w == [v EXCEPT !.status = ScanStatus]
  <2>5. w \in Version /\ w.spec = v.spec /\ w.status = ScanStatus
    BY <2>2, ScanStatusIn DEF Version
  <2>6. PICK new \in Version : /\ new.spec = v.spec /\ new.status = ScanStatus
                               /\ api' = [api EXCEPT ![k] = new]
    <3>1. Store(k, w)
      BY <2>3
    <3> HIDE DEF w
    <3> QED
      BY <2>5, <3>1, StoreGives
  <2>7. api'[k] = new /\ new # NoPolicy /\ \A q \in Policies \ {k} : api'[q] = api[q]
    BY <2>2, <2>6, VersionsStored
  <2>8. PICK seen \in Clusters : worker.report = Report(v.spec, seen)
    BY DEF RInv, WorkerInv, AtPersist
  <2>9. ScanStatus \in Scanned[v.spec][seen]
    <3>1. Scanned[v.spec][seen] = {StatusOf(Report(v.spec, seen), time) : time \in 0..MaxClock}
      BY <2>2 DEF Scanned
    <3>2. ScanStatus = StatusOf(Report(v.spec, seen), clock) /\ clock \in 0..MaxClock
      BY <2>8 DEF ScanStatus, RInv
    <3> QED
      BY <3>1, <3>2
  <2>10. AbstractSpecs[k] = v.spec /\ AbstractSpecs[k] # NoPolicy
    BY <2>2, <2>3, <2>4, NoPolicyAssumption DEF AbstractSpecs, SpecOf
  <2>11. SpecOf(api'[k]) = AbstractSpecs[k]
    BY <2>6, <2>7, <2>10 DEF SpecOf
  <2>12. (IF api'[k] = NoPolicy THEN NewStatus ELSE api'[k].status) = ScanStatus
    BY <2>6, <2>7
  <2>13. /\ AbstractSpecs' = [AbstractSpecs EXCEPT ![k] = AbstractSpecs[k]]
         /\ AbstractStatuses' = [AbstractStatuses EXCEPT ![k] = ScanStatus]
    BY <2>7, <2>11, <2>12, MappedChange
  <2>14. AbstractSpecs' = AbstractSpecs
    BY <2>13 DEF AbstractSpecs
  <2>15. Called[k][AbstractSpecs[k]][seen] \subseteq planned
    <3>1. Called[k][v.spec][seen] =
            {UpgradeName(k, Report(v.spec, seen).tools[i]) :
               i \in {j \in ToPlan(v.spec, Report(v.spec, seen).tools) :
                        CanPlan(Report(v.spec, seen).tools[j])}}
      BY <2>2 DEF Called
    <3>2. \A i \in ToPlan(v.spec, Report(v.spec, seen).tools) :
            CanPlan(Report(v.spec, seen).tools[i]) =>
              UpgradeName(k, Report(v.spec, seen).tools[i]) \in planned
      BY <2>1, <2>8 DEF RInv, LoopInv, AtPersist
    <3> QED
      BY <2>10, <3>1, <3>2
  <2>16. Promise!Post(k)
    BY <2>9, <2>10, <2>13, <2>14, <2>15 DEF Promise!Post
  <2> QED
    BY <2>16 DEF Promise!Next
<1> QED
  BY <1>1, <1>2

\* Every step is one the promise allows, or none of its concern.
LEMMA NextPromised ==
    RInv /\ GatesInv /\ TypeInv /\ [Next]_vars => Promise!Next \/ UNCHANGED Promise!vars
<1> SUFFICES ASSUME RInv, GatesInv, TypeInv, [Next]_vars
             PROVE  Promise!Next \/ UNCHANGED Promise!vars
  OBVIOUS
<1>1. ASSUME UNCHANGED <<api, gates, plans, planned>>
      PROVE  UNCHANGED Promise!vars
  <2>1. AbstractSpecs' = AbstractSpecs /\ AbstractStatuses' = AbstractStatuses
    BY <1>1, MappedSame
  <2> QED
    BY <1>1, <2>1 DEF Promise!vars
<1>2. ASSUME NEW p \in Policies, WritePolicy(p) \/ DeletePolicy(p)
      PROVE  Promise!Next
  BY <1>2, UsersPromised
<1>3. ASSUME NEW name \in DOMAIN plans, DeletePlan(name)
      PROVE  Promise!Next
  <2>1. /\ plans' = [n \in DOMAIN plans \ {name} |-> plans[n]]
        /\ UNCHANGED <<api, gates, planned>>
    BY <1>3 DEF DeletePlan, policies
  <2>2. AbstractSpecs' = AbstractSpecs /\ AbstractStatuses' = AbstractStatuses
    BY <2>1, MappedSame
  <2>3. Promise!DeletePlan(name)
    BY <2>1, <2>2 DEF Promise!DeletePlan
  <2> QED
    BY <1>3, <2>3 DEF Promise!Next
<1>4. CASE CreateUpgrade
  <2>1. MustCreate /\ Create /\ UNCHANGED <<api, gates>>
    BY <1>4 DEF CreateUpgrade, policies
  <2> QED
    BY <2>1, CreatePromised
<1>5. CASE CreateFails
  <2>1. MustCreate /\ UNCHANGED <<api, gates>> /\ (Create \/ UNCHANGED <<plans, planned>>)
    BY <1>5 DEF CreateFails, upgrades
  <2> QED
    BY <1>1, <2>1, CreatePromised
<1>6. CASE Persist \/ PersistFails
  <2>1. /\ AtPersist /\ UNCHANGED <<gates, plans, planned>>
        /\ PutStatus(worker.key, worker.copy, ScanStatus) \/ UNCHANGED <<api, rev, watch>>
    BY <1>6 DEF Persist, PersistFails, upgrades
  <2> QED
    BY <2>1, PersistPromised
<1>7. CASE Scan \/ SkipUpgrade
  BY <1>1, <1>7 DEF Scan, SkipUpgrade, policies, upgrades
<1>8. ASSUME NEW p \in Policies, Deliver(p) \/ FallsDue(p) \/ Begin(p)
      PROVE  UNCHANGED <<api, gates, plans, planned>>
  BY <1>8 DEF Deliver, FallsDue, Begin, upgrades
<1>9. CASE ChangeCluster \/ Tick \/ DeliverPlan \/ Restart \/ UNCHANGED vars
  BY <1>1, <1>9 DEF ChangeCluster, Tick, DeliverPlan, Restart, vars, policies, upgrades
<1> QED
  BY <1>1, <1>2, <1>3, <1>4, <1>5, <1>6, <1>7, <1>8, <1>9 DEF Next, Users, Reconcile

\* The controller keeps its promise, for any number of policies, specs, clusters,
\* edits and faults.
THEOREM Refinement == Spec => ImplementsPromise
<1>1. Init => Promise!Init
  <2> SUFFICES ASSUME Init PROVE Promise!Init
    OBVIOUS
  <2>1. /\ api = [p \in Policies |-> NoPolicy] /\ gates = [p \in Policies |-> {}]
        /\ plans = <<>> /\ planned = {}
    BY DEF Init
  <2>2. /\ AbstractSpecs = [p \in Policies |-> NoPolicy]
        /\ AbstractStatuses = [p \in Policies |-> NewStatus]
    BY <2>1 DEF AbstractSpecs, AbstractStatuses, SpecOf
  <2> QED
    BY <2>1, <2>2 DEF Promise!Init
<1>2. RInv /\ GatesInv /\ TypeInv /\ [Next]_vars => [Promise!Next]_Promise!vars
  BY NextPromised
<1>3. Spec => Promise!Init /\ [][Promise!Next]_Promise!vars
  BY <1>1, <1>2, InvariantG, InvariantT, PTL DEF Spec
<1> QED
  BY <1>3 DEF ImplementsPromise, Promise!Spec
=============================================================================
