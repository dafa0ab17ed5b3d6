--------------------------- MODULE HandoverProofs ---------------------------
(***************************************************************************)
(* Proofs about Handover: beside another operator, too, only approved      *)
(* steps run, currentStep does not run ahead of Helm, no stored plan moves *)
(* back and no step is repeated without end, for any number of plans and   *)
(* lost leases.                                                            *)
(*                                                                         *)
(* Each operator keeps what StackUpgradeProofs calls CarriedInv: its own    *)
(* steps by OwnStep, the steps of the other by Bystander.                  *)
(***************************************************************************)
EXTENDS Handover, FiniteSetTheorems, TLAPS

PA == INSTANCE StackUpgradeProofs WITH
        watch <- watchA, cache <- cacheA, queue <- queueA, worker <- workerA

PB == INSTANCE StackUpgradeProofs WITH
        watch <- watchB, cache <- cacheB, queue <- queueB, worker <- workerB

HInv == PA!CarriedInv /\ PB!CarriedInv /\ PA!FreshInv

-----------------------------------------------------------------------------
(* The assumptions on the constants, as the two instances state them.      *)

\* The lemmas of operator A's instance rest on these.
LEMMA ConstantsA ==
    /\ ToolLists \subseteq Seq(PA!Step) \ {<<>>}
    /\ KnowledgeBases \subseteq SUBSET (Tools \X Versions)
    /\ InitialReleases \subseteq [Releases -> PA!Release]
    /\ NoPlan \notin Plans \union PA!Version \union PA!AbstractPlan
    /\ DryRuns \subseteq BOOLEAN /\ RollbackMayFail \in BOOLEAN
    /\ MaxFaults \in Nat /\ MaxEdits \in Nat /\ MaxCreations \in Nat
BY ListsAssumption, KnowledgeAssumption, ReleasesAssumption, NoPlanAssumption,
   FlagsAssumption, BoundsAssumption
   DEF A!Step, A!Release, A!Version, A!AbstractPlan, A!Status, A!Phases,
       PA!Step, PA!Release, PA!Version, PA!AbstractPlan, PA!Status, PA!Phases

\* The lemmas of operator B's instance rest on these.
LEMMA ConstantsB ==
    /\ ToolLists \subseteq Seq(PB!Step) \ {<<>>}
    /\ KnowledgeBases \subseteq SUBSET (Tools \X Versions)
    /\ InitialReleases \subseteq [Releases -> PB!Release]
    /\ NoPlan \notin Plans \union PB!Version \union PB!AbstractPlan
    /\ DryRuns \subseteq BOOLEAN /\ RollbackMayFail \in BOOLEAN
    /\ MaxFaults \in Nat /\ MaxEdits \in Nat /\ MaxCreations \in Nat
BY ListsAssumption, KnowledgeAssumption, ReleasesAssumption, NoPlanAssumption,
   FlagsAssumption, BoundsAssumption
   DEF A!Step, A!Release, A!Version, A!AbstractPlan, A!Status, A!Phases,
       PB!Step, PB!Release, PB!Version, PB!AbstractPlan, PB!Status, PB!Phases

-----------------------------------------------------------------------------
(* The steps of an operator in Handover are those the lemmas are about: A! *)
(* and PA! are two instances of the same definitions.                      *)

\* The steps of users, as operator A is told of them.
LEMMA UsersSame ==
    ASSUME NEW p \in Plans, A!Users(p)
    PROVE  PA!Users(p)
BY DEF A!Users, A!CreatePlan, A!EditPlan, A!TouchPlan, A!DeletePlan, A!Store, A!NewStatus,
       A!MayChange, A!server, A!history, A!bounds, A!operator, PA!Users, PA!CreatePlan,
       PA!EditPlan, PA!TouchPlan, PA!DeletePlan, PA!Store, PA!NewStatus, PA!MayChange,
       PA!server, PA!history, PA!bounds, PA!operator

\* So are those of the informer and the work queue of operator A,
LEMMA InformerSameA ==
    ASSUME NEW p \in Plans,
           A!Deliver(p) \/ A!Relist(p) \/ A!FallsDue(p) \/ A!Begin(p)
    PROVE  PA!Informer(p) \/ PA!Begin(p)
BY DEF A!Informer, A!Deliver, A!Relist, A!FallsDue, A!Begin, A!Idle, A!Final, A!server,
       A!history, A!bounds, A!operator, PA!Informer, PA!Deliver, PA!Relist, PA!FallsDue,
       PA!Begin, PA!Idle, PA!Final, PA!server, PA!history, PA!bounds, PA!operator

\* of its reconciler,
LEMMA ReconcileSameA == A!Reconcile => PA!Reconcile
BY DEF A!Reconcile, A!ReconcilePending, A!ReconcileApproved, A!FinishPlan, A!StartStep,
       A!StartRefused, A!ReconcileFailed, A!RecordResult, A!InPhase, A!Conclude,
       A!PendingStatus, A!Resolvable, A!PendingRequeues, A!PutStatus, A!PutFails,
       A!IsCurrent, A!Store, A!Requeue, A!StartedStatus, A!StepNo, A!ResultStatus, A!Idle,
       A!server, A!history, A!bounds, A!operator, PA!Reconcile, PA!ReconcilePending,
       PA!ReconcileApproved, PA!FinishPlan, PA!StartStep, PA!StartRefused,
       PA!ReconcileFailed, PA!RecordResult, PA!InPhase, PA!Conclude, PA!PendingStatus,
       PA!Resolvable, PA!PendingRequeues, PA!PutStatus, PA!PutFails, PA!IsCurrent, PA!Store,
       PA!Requeue, PA!StartedStatus, PA!StepNo, PA!ResultStatus, PA!Idle, PA!server,
       PA!history, PA!bounds, PA!operator

\* of its executor
LEMMA HelmSameA == A!Helm => PA!Helm
BY DEF A!Helm, A!PreflightFails, A!HelmRefuses, A!HelmDryRuns, A!HelmBegins, A!HelmSucceeds,
       A!HelmRollsBack, A!Return, A!Target, A!CurrentStep, A!StepNo, A!server, A!history,
       A!bounds, A!operator, PA!Helm, PA!PreflightFails, PA!HelmRefuses, PA!HelmDryRuns,
       PA!HelmBegins, PA!HelmSucceeds, PA!HelmRollsBack, PA!Return, PA!Target,
       PA!CurrentStep, PA!StepNo, PA!server, PA!history, PA!bounds, PA!operator

\* and its start.
LEMMA StartSameA == A!Start => PA!Start
BY DEF A!Start, A!Idle, PA!Start, PA!Idle

\* So are those of the informer and the work queue of operator B,
LEMMA InformerSameB ==
    ASSUME NEW p \in Plans,
           B!Deliver(p) \/ B!Relist(p) \/ B!FallsDue(p) \/ B!Begin(p)
    PROVE  PB!Informer(p) \/ PB!Begin(p)
BY DEF B!Informer, B!Deliver, B!Relist, B!FallsDue, B!Begin, B!Idle, B!Final, B!server,
       B!history, B!bounds, B!operator, PB!Informer, PB!Deliver, PB!Relist, PB!FallsDue,
       PB!Begin, PB!Idle, PB!Final, PB!server, PB!history, PB!bounds, PB!operator

\* of its reconciler,
LEMMA ReconcileSameB == B!Reconcile => PB!Reconcile
BY DEF B!Reconcile, B!ReconcilePending, B!ReconcileApproved, B!FinishPlan, B!StartStep,
       B!StartRefused, B!ReconcileFailed, B!RecordResult, B!InPhase, B!Conclude,
       B!PendingStatus, B!Resolvable, B!PendingRequeues, B!PutStatus, B!PutFails,
       B!IsCurrent, B!Store, B!Requeue, B!StartedStatus, B!StepNo, B!ResultStatus, B!Idle,
       B!server, B!history, B!bounds, B!operator, PB!Reconcile, PB!ReconcilePending,
       PB!ReconcileApproved, PB!FinishPlan, PB!StartStep, PB!StartRefused,
       PB!ReconcileFailed, PB!RecordResult, PB!InPhase, PB!Conclude, PB!PendingStatus,
       PB!Resolvable, PB!PendingRequeues, PB!PutStatus, PB!PutFails, PB!IsCurrent, PB!Store,
       PB!Requeue, PB!StartedStatus, PB!StepNo, PB!ResultStatus, PB!Idle, PB!server,
       PB!history, PB!bounds, PB!operator

\* of its executor
LEMMA HelmSameB == B!Helm => PB!Helm
BY DEF B!Helm, B!PreflightFails, B!HelmRefuses, B!HelmDryRuns, B!HelmBegins, B!HelmSucceeds,
       B!HelmRollsBack, B!Return, B!Target, B!CurrentStep, B!StepNo, B!server, B!history,
       B!bounds, B!operator, PB!Helm, PB!PreflightFails, PB!HelmRefuses, PB!HelmDryRuns,
       PB!HelmBegins, PB!HelmSucceeds, PB!HelmRollsBack, PB!Return, PB!Target,
       PB!CurrentStep, PB!StepNo, PB!server, PB!history, PB!bounds, PB!operator

\* and its start.
LEMMA StartSameB == B!Start => PB!Start
BY DEF B!Start, B!Idle, PB!Start, PB!Idle

-----------------------------------------------------------------------------
(* What the two instances say of what the operators share is the same.     *)

\* The stored plans, what was carried out for them, and what a step does to them.
LEMMA SharedSame ==
    /\ PA!StoredInv' <=> PB!StoredInv'
    /\ PA!StepsCarriedOut' <=> PB!StepsCarriedOut'
    /\ PA!KeepsCopies <=> PB!KeepsCopies
    /\ PA!FreshInv <=> PB!FreshInv
    /\ PA!Evolves <=> PB!Evolves
BY DEF PA!StoredInv, PA!CopyOf, PA!PhaseApproved, PA!StepsCarriedOut, PA!KeepsCopies,
       PA!Version, PA!Status, PA!Phases, PA!FreshInv, PA!Evolves, PA!Advances, PA!NewStatus,
       PA!Final, PB!StoredInv, PB!CopyOf, PB!PhaseApproved, PB!StepsCarriedOut,
       PB!KeepsCopies, PB!Version, PB!Status, PB!Phases, PB!FreshInv, PB!Evolves,
       PB!Advances, PB!NewStatus, PB!Final

\* The types of what they share.
LEMMA SharedTypes ==
    /\ PA!TypeOK' => PB!SharedType'
    /\ PB!TypeOK' => PA!SharedType'
BY DEF PA!TypeOK, PA!SharedType, PA!Version, PA!Status, PA!Phases, PA!Release, PB!TypeOK,
       PB!SharedType, PB!Version, PB!Status, PB!Phases, PB!Release

-----------------------------------------------------------------------------
(* The steps of Handover.                                                  *)

\* What operator A does keeps the invariant of both.
LEMMA MovesA ==
    ASSUME HInv, PA!OwnEffect, watchB' = Told(watchB), UNCHANGED ownB
    PROVE  HInv' /\ PA!Evolves
<1>1. /\ PA!SideInv' /\ PA!StepsCarriedOut' /\ PA!DoneInv' /\ PA!Evolves
      /\ PA!KeepsCopies /\ PA!StoredInv' /\ PA!TypeOK'
  BY DEF PA!OwnEffect, PA!KeepsInv, PA!HeldInv, PA!SideInv
<1>2. /\ PB!SideInv /\ PB!DoneInv /\ PB!KeepsCopies /\ PB!StoredInv' /\ PB!Evolves
      /\ PB!SharedType' /\ PB!StepsCarriedOut'
  BY <1>1, SharedSame, SharedTypes DEF HInv, PB!CarriedInv
<1>3. PB!SideInv' /\ PB!DoneInv'
  BY <1>2, ConstantsB, PB!Bystander DEF Told, ownB
<1>4. PA!FreshInv' /\ PA!Evolves
  BY <1>1, SharedSame, ConstantsA, PA!FreshKept DEF HInv
<1> QED
  BY <1>1, <1>2, <1>3, <1>4 DEF HInv, PA!CarriedInv, PB!CarriedInv

\* What operator B does keeps the invariant of both.
LEMMA MovesB ==
    ASSUME HInv, PB!OwnEffect, watchA' = Told(watchA), UNCHANGED ownA
    PROVE  HInv' /\ PA!Evolves
<1>1. /\ PB!SideInv' /\ PB!StepsCarriedOut' /\ PB!DoneInv' /\ PB!Evolves
      /\ PB!KeepsCopies /\ PB!StoredInv' /\ PB!TypeOK'
  BY DEF PB!OwnEffect, PB!KeepsInv, PB!HeldInv, PB!SideInv
<1>2. /\ PA!SideInv /\ PA!DoneInv /\ PA!KeepsCopies /\ PA!StoredInv' /\ PA!Evolves
      /\ PA!SharedType' /\ PA!StepsCarriedOut'
  BY <1>1, SharedSame, SharedTypes DEF HInv, PA!CarriedInv
<1>3. PA!SideInv' /\ PA!DoneInv'
  BY <1>2, ConstantsA, PA!Bystander DEF Told, ownA
<1>4. PA!FreshInv' /\ PA!Evolves
  BY <1>1, SharedSame, ConstantsA, PA!FreshKept DEF HInv
<1> QED
  BY <1>1, <1>2, <1>3, <1>4 DEF HInv, PA!CarriedInv, PB!CarriedInv

\* A step of operator A that changes plans, of which the other one is told, ...
LEMMA WriteMovesA ==
    ASSUME HInv, A!Reconcile, TellsB
    PROVE  HInv' /\ PA!Evolves
<1>1. PA!CarriedInv /\ PA!FreshInv
  BY SharedSame DEF HInv
<1>2. PA!OwnEffect
  BY <1>1, ReconcileSameA, ConstantsA, PA!OwnStep
<1> QED
  BY <1>2, MovesA DEF TellsB

\* ... and one that changes none.
LEMMA QuietMovesA ==
    ASSUME HInv, UNCHANGED <<watchB, ownB>>, UNCHANGED rev,
           \/ \E p \in Plans : A!Deliver(p) \/ A!Relist(p) \/ A!FallsDue(p) \/ A!Begin(p)
           \/ A!Helm
           \/ A!Start /\ UNCHANGED shared
    PROVE  HInv' /\ PA!Evolves
<1>1. PA!CarriedInv /\ PA!FreshInv /\ watchB \in [Plans -> Seq(PB!Version \union {NoPlan})]
  BY SharedSame DEF HInv, PB!CarriedInv, PB!SideInv, PB!TypeOK
<1>2. watchB' = Told(watchB)
  BY <1>1 DEF Told
<1>3. SUFFICES PA!OwnEffect
  BY <1>2, MovesA
<1>4. CASE \E p \in Plans : A!Deliver(p) \/ A!Relist(p) \/ A!FallsDue(p) \/ A!Begin(p)
  BY <1>1, <1>4, InformerSameA, ConstantsA, PA!OwnStep
<1>5. CASE A!Helm
  BY <1>1, <1>5, HelmSameA, ConstantsA, PA!OwnStep
<1>6. CASE A!Start /\ UNCHANGED shared
  <2>1. PA!Starts
    BY <1>6, StartSameA DEF shared, PA!Starts, PA!history, PA!bounds
  <2> QED
    BY <1>1, <2>1, ConstantsA, PA!OwnStep
<1> QED
  BY <1>4, <1>5, <1>6

\* A step of operator B that changes plans, of which the other one is told, ...
LEMMA WriteMovesB ==
    ASSUME HInv, B!Reconcile, TellsA
    PROVE  HInv' /\ PA!Evolves
<1>1. PB!CarriedInv /\ PB!FreshInv
  BY SharedSame DEF HInv
<1>2. PB!OwnEffect
  BY <1>1, ReconcileSameB, ConstantsB, PB!OwnStep
<1> QED
  BY <1>2, MovesB DEF TellsA

\* ... and one that changes none.
LEMMA QuietMovesB ==
    ASSUME HInv, UNCHANGED <<watchA, ownA>>, UNCHANGED rev,
           \/ \E p \in Plans : B!Deliver(p) \/ B!Relist(p) \/ B!FallsDue(p) \/ B!Begin(p)
           \/ B!Helm
           \/ B!Start /\ UNCHANGED shared
    PROVE  HInv' /\ PA!Evolves
<1>1. PB!CarriedInv /\ PB!FreshInv /\ watchA \in [Plans -> Seq(PA!Version \union {NoPlan})]
  BY SharedSame DEF HInv, PA!CarriedInv, PA!SideInv, PA!TypeOK
<1>2. watchA' = Told(watchA)
  BY <1>1 DEF Told
<1>3. SUFFICES PB!OwnEffect
  BY <1>2, MovesB
<1>4. CASE \E p \in Plans : B!Deliver(p) \/ B!Relist(p) \/ B!FallsDue(p) \/ B!Begin(p)
  BY <1>1, <1>4, InformerSameB, ConstantsB, PB!OwnStep
<1>5. CASE B!Helm
  BY <1>1, <1>5, HelmSameB, ConstantsB, PB!OwnStep
<1>6. CASE B!Start /\ UNCHANGED shared
  <2>1. PB!Starts
    BY <1>6, StartSameB DEF shared, PB!Starts, PB!history, PB!bounds
  <2> QED
    BY <1>1, <2>1, ConstantsB, PB!OwnStep
<1> QED
  BY <1>4, <1>5, <1>6

\* The election fills work queues, and changes nothing else of the operators.
LEMMA ElectionMoves ==
    ASSUME HInv,
           UNCHANGED <<shared, fixed, cacheA, workerA, watchA, cacheB, workerB, watchB>>,
           queueA' \in [Plans -> {"none", "later", "now"}],
           queueB' \in [Plans -> {"none", "later", "now"}]
    PROVE  HInv' /\ PA!Evolves
<1>1. PA!CarriedInv' /\ PB!CarriedInv'
  BY ConstantsA, ConstantsB, PA!Requeued, PB!Requeued
     DEF HInv, shared, fixed, PA!server, PA!operator, PA!history, PA!bounds,
         PB!server, PB!operator, PB!history, PB!bounds
<1>2. PA!Evolves
  BY ConstantsA, PA!QuietEvolves DEF shared
<1> QED
  BY <1>1, <1>2, ConstantsA, PA!FreshKept DEF HInv

-----------------------------------------------------------------------------
(* The invariant and what it implies.                                      *)

\* It holds initially: there is no plan.
LEMMA InitHInv == Init => HInv
<1> SUFFICES ASSUME Init PROVE HInv
  OBVIOUS
<1>1. PA!Init /\ PB!Init
  BY DEF Init, A!Init, B!Init, A!Idle, B!Idle, PA!Init, PB!Init, PA!Idle, PB!Idle
<1>2. PA!CarriedInv /\ PB!CarriedInv
  BY <1>1, ConstantsA, ConstantsB, PA!InitSInv, PB!InitSInv DEF PA!SInv, PB!SInv
<1>3. PA!FreshInv
  BY <1>1 DEF PA!Init, PA!FreshInv
<1> QED
  BY <1>2, <1>3 DEF HInv

\* Every step keeps it, and lets the stored plans evolve as one operator's steps do.
LEMMA NextHInv == HInv /\ [Next]_vars => HInv' /\ PA!Evolves
<1> SUFFICES ASSUME HInv, [Next]_vars
             PROVE  HInv' /\ PA!Evolves
  OBVIOUS
<1>1. ASSUME NEW p \in Plans, Users(p)
      PROVE  HInv' /\ PA!Evolves
  <2>1. PA!Users(p) /\ PA!CarriedInv /\ PA!FreshInv
    BY <1>1, UsersSame DEF Users, HInv
  <2>2. PA!OwnEffect
    BY <2>1, ConstantsA, PA!OwnStep
  <2> QED
    BY <1>1, <2>2, MovesA DEF Users, TellsB
<1>2. ASSUME NEW p \in Plans, DeliverA(p) \/ RelistA(p) \/ FallsDueA(p) \/ BeginA(p)
      PROVE  HInv' /\ PA!Evolves
  <2>1. UNCHANGED rev
    BY <1>2 DEF DeliverA, RelistA, FallsDueA, BeginA, A!Deliver, A!Relist, A!FallsDue,
                A!Begin, A!server
  <2> QED
    BY <1>2, <2>1, QuietMovesA DEF DeliverA, RelistA, FallsDueA, BeginA, KeepsB
<1>3. ASSUME NEW p \in Plans, DeliverB(p) \/ RelistB(p) \/ FallsDueB(p) \/ BeginB(p)
      PROVE  HInv' /\ PA!Evolves
  <2>1. UNCHANGED rev
    BY <1>3 DEF DeliverB, RelistB, FallsDueB, BeginB, B!Deliver, B!Relist, B!FallsDue,
                B!Begin, B!server
  <2> QED
    BY <1>3, <2>1, QuietMovesB DEF DeliverB, RelistB, FallsDueB, BeginB, KeepsA
<1>4. CASE ReconcileA
  BY <1>4, WriteMovesA DEF ReconcileA
<1>5. CASE ReconcileB
  BY <1>5, WriteMovesB DEF ReconcileB
<1>6. CASE HelmA
  <2>1. UNCHANGED rev
    BY <1>6 DEF HelmA, A!Helm, A!PreflightFails, A!HelmRefuses, A!HelmDryRuns,
                A!HelmBegins, A!HelmSucceeds, A!HelmRollsBack, A!Return, A!server
  <2> QED
    BY <1>6, <2>1, QuietMovesA DEF HelmA, KeepsB
<1>7. CASE HelmB
  <2>1. UNCHANGED rev
    BY <1>7 DEF HelmB, B!Helm, B!PreflightFails, B!HelmRefuses, B!HelmDryRuns,
                B!HelmBegins, B!HelmSucceeds, B!HelmRollsBack, B!Return, B!server
  <2> QED
    BY <1>7, <2>1, QuietMovesB DEF HelmB, KeepsA
<1>8. /\ queueA \in [Plans -> {"none", "later", "now"}]
      /\ queueB \in [Plans -> {"none", "later", "now"}]
  BY DEF HInv, PA!CarriedInv, PA!SideInv, PA!TypeOK, PB!CarriedInv, PB!SideInv, PB!TypeOK
<1>9. ASSUME NEW o \in Operators, Acquire(o)
      PROVE  HInv' /\ PA!Evolves
  <2>1. /\ queueA' \in [Plans -> {"none", "later", "now"}]
        /\ queueB' \in [Plans -> {"none", "later", "now"}]
    BY <1>8, <1>9 DEF Acquire, Listed
  <2> QED
    BY <1>9, <2>1, ElectionMoves DEF Acquire
<1>10. ASSUME NEW o \in Operators, Notice(o) \/ Crash(o)
       PROVE  HInv' /\ PA!Evolves
  <2>1. /\ UNCHANGED shared
        /\ \/ A!Start /\ UNCHANGED <<watchB, ownB>>
           \/ B!Start /\ UNCHANGED <<watchA, ownA>>
    BY <1>10 DEF Notice, Crash
  <2>2. UNCHANGED rev
    BY <2>1 DEF shared
  <2> QED
    BY <2>1, <2>2, QuietMovesA, QuietMovesB
<1>11. CASE Lapse \/ Expire \/ UNCHANGED vars
  BY <1>8, <1>11, ElectionMoves DEF Lapse, Expire, vars, ownA, ownB
<1> QED
  BY <1>1, <1>2, <1>3, <1>4, <1>5, <1>6, <1>7, <1>9, <1>10, <1>11 DEF Next

\* HInv is an invariant of the two operators.
LEMMA HandoverInvariance == Spec => []HInv
<1>1. HInv /\ [Next]_vars => HInv'
  BY NextHInv
<1> QED
  BY <1>1, InitHInv, PTL DEF Spec

\* Whichever operators believe they lead, what they hand Helm is approved.
THEOREM HandoverSafety == Spec => []RunsApprovedSteps
<1>1. HInv => RunsApprovedSteps
  <2> SUFFICES ASSUME HInv, NEW worker \in {workerA, workerB},
                      worker.pc \in {"helm", "running", "record"}
               PROVE  /\ worker.copy.approved
                      /\ worker.copy.status.phase = "Upgrading"
                      /\ api[worker.key] # NoPlan /\ api[worker.key].uid = worker.copy.uid =>
                           /\ api[worker.key].approved
                           /\ api[worker.key].tools = worker.copy.tools
    BY DEF RunsApprovedSteps
  <2>1. PA!SideInv /\ PB!SideInv
    BY DEF HInv, PA!CarriedInv, PB!CarriedInv
  <2>2. CASE worker = workerA
    BY <2>1, <2>2, ConstantsA, PA!SideSafe
  <2>3. CASE worker = workerB
    BY <2>1, <2>3, ConstantsB, PB!SideSafe
  <2> QED
    BY <2>2, <2>3
<1> QED
  BY <1>1, HandoverInvariance, PTL

\* currentStep counts steps Helm has carried out, whichever operator had it do so.
THEOREM HandoverProgress == Spec => []StepsCarriedOut
<1>1. HInv => StepsCarriedOut
  BY DEF HInv, PA!CarriedInv, StepsCarriedOut, A!StepsCarriedOut, PA!StepsCarriedOut
<1> QED
  BY <1>1, HandoverInvariance, PTL

\* The ranks of the phases, spelt out.
LEMMA RankValues ==
    /\ RankOf("") = 0
    /\ RankOf("Pending") = 1
    /\ RankOf("Approved") = 2
    /\ RankOf("Upgrading") = 3
    /\ RankOf("Failed") = 4
    /\ RankOf("RolledBack") = 5
    /\ RankOf("Succeeded") = 5
<1>1. RankOf("") = 0
  BY DEF RankOf
<1>2. RankOf("Pending") = 1
  BY DEF RankOf, Rank
<1>3. RankOf("Approved") = 2
  BY DEF RankOf, Rank
<1>4. RankOf("Upgrading") = 3
  BY DEF RankOf, Rank
<1>5. RankOf("Failed") = 4
  BY DEF RankOf, Rank
<1>6. RankOf("RolledBack") = 5
  BY DEF RankOf, Rank
<1>7. RankOf("Succeeded") = 5
  BY DEF RankOf, Rank
<1> QED
  BY <1>1, <1>2, <1>3, <1>4, <1>5, <1>6, <1>7

\* The comparisons of ranks RankUp needs.
LEMMA RankOrder ==
    /\ \A r \in {0, 1, 2, 3, 4, 5} : r >= r
    /\ 1 >= 0 /\ 2 >= 0 /\ 2 >= 1 /\ 3 >= 2 /\ 5 >= 3 /\ 4 >= 3 /\ 5 >= 4
OBVIOUS

\* A change the reconciler makes never lowers the rank.
LEMMA RankUp ==
    ASSUME NEW s, NEW t, PA!Advances(s, t) \/ s.phase = t.phase,
           s.phase \in {"", "Pending", "Approved", "Upgrading", "Succeeded", "Failed",
                        "RolledBack"}
    PROVE  RankOf(t.phase) >= RankOf(s.phase)
<1> DEFINE Pair(a, b) == s.phase = a /\ t.phase = b
<1>1. \/ s.phase = t.phase
      \/ Pair("", "Pending") \/ Pair("", "Approved") \/ Pair("Pending", "Approved")
      \/ Pair("Approved", "Upgrading") \/ Pair("Upgrading", "Succeeded")
      \/ Pair("Upgrading", "Failed") \/ Pair("Upgrading", "RolledBack")
      \/ Pair("Failed", "RolledBack")
  BY DEF PA!Advances
<1>2. CASE s.phase = t.phase
  <2>1. RankOf(s.phase) \in {0, 1, 2, 3, 4, 5}
    BY RankValues, Zenon
  <2>2. RankOf(t.phase) = RankOf(s.phase)
    BY <1>2, Zenon
  <2> QED
    BY <2>1, <2>2, RankOrder, Zenon
<1> QED
  BY <1>1, <1>2, RankOrder, RankValues, Zenon

Forward ==
    \A p \in Plans :
      LET old == api[p]  new == api'[p]
      IN old # NoPlan /\ new # NoPlan /\ new.uid = old.uid =>
           /\ RankOf(new.status.phase) >= RankOf(old.status.phase)
           /\ old.status.phase \in A!Final => new.status = old.status
           /\ new.status.step >= old.status.step

\* A stored plan only advances: a write is taken from the stored version alone, so
\* that an operator with an old copy can write nothing.
THEOREM HandoverForward == Spec => NeverBack
<1>1. HInv /\ [Next]_vars => [Forward]_vars
  <2> SUFFICES ASSUME HInv, [Next]_vars, NEW p \in Plans,
                      api[p] # NoPlan, api'[p] # NoPlan, api'[p].uid = api[p].uid
               PROVE  /\ RankOf(api'[p].status.phase) >= RankOf(api[p].status.phase)
                      /\ api[p].status.phase \in A!Final => api'[p].status = api[p].status
                      /\ api'[p].status.step >= api[p].status.step
    BY DEF Forward
  <2>1. /\ api[p].status.step \in Nat
        /\ api[p].status.phase \in {"", "Pending", "Approved", "Upgrading", "Succeeded",
                                    "Failed", "RolledBack"}
    BY DEF HInv, PA!CarriedInv, PA!SideInv, PA!TypeOK, PA!Version, PA!Status, PA!Phases
  <2>2. \/ api'[p].status = api[p].status
        \/ PA!Advances(api[p].status, api'[p].status)
    BY NextHInv DEF PA!Evolves
  <2>3. RankOf(api'[p].status.phase) >= RankOf(api[p].status.phase)
    <3>1. \/ PA!Advances(api[p].status, api'[p].status)
          \/ api[p].status.phase = api'[p].status.phase
      BY <2>2
    <3> QED
      BY <2>1, <3>1, RankUp, Zenon
  <2>4. api[p].status.phase \in A!Final => api'[p].status = api[p].status
    BY <2>2 DEF PA!Advances, PA!Final, A!Final
  <2>5. api'[p].status.step >= api[p].status.step
    <3>1. \/ api'[p].status.step = api[p].status.step
          \/ api'[p].status.step = api[p].status.step + 1
      BY <2>2, Zenon DEF PA!Advances
    <3>2. \A m \in Nat : m >= m /\ m + 1 >= m
      BY SMT
    <3> QED
      BY <2>1, <3>1, <3>2, Zenon
  <2> QED
    BY <2>3, <2>4, <2>5, Zenon
<1>2. Spec => [][Forward]_vars
  BY <1>1, HandoverInvariance, PTL DEF Spec
<1> QED
  BY <1>2 DEF Forward, NeverBack

-----------------------------------------------------------------------------
(***************************************************************************)
(* How often the two hand a step to Helm again.  Each has an account of    *)
(* open steps, as in StackUpgradeProofs.  The steps of one operator touch  *)
(* the account of the other when they start a step for the first time,     *)
(* which every step of every plan pays for once (Unstarted), and when a    *)
(* fault changes the plan under both.  A lost lease is due until its       *)
(* holder notices: its start opens the step it was at.                     *)
(*                                                                         *)
(* As long as they never overlapped only the one that leads matters, and   *)
(* the first starts cost it nothing.                                       *)
(***************************************************************************)

\* The steps of the plans there are that nobody has started.
Unstarted == {x \in Plans \X (1..MaxSteps) : api[x[1]] # NoPlan /\ x[2] \notin started[x[1]]}

\* o believes that it leads, and does not hold the lease.
Due(o) == IF o \in leads /\ lease # o THEN 1 ELSE 0

ElectionInv ==
    /\ leads \subseteq Operators /\ lease \in Operators \union {Nobody}
    /\ losses \in Nat /\ overlapped \in BOOLEAN
    /\ "A" \notin leads => workerA.pc = "idle"
    /\ "B" \notin leads => workerB.pc = "idle"

FiniteInv == IsFiniteSet(PA!Open) /\ IsFiniteSet(PB!Open) /\ IsFiniteSet(Unstarted)

JointInv ==
    repeats + Cardinality(PA!Open) + Cardinality(PB!Open) + Cardinality(Unstarted)
      + Due("A") + Due("B") <= 2 * faults + losses + MaxSteps * creations

LoneInv ==
    ~overlapped =>
      /\ leads # Operators
      /\ leads \subseteq {"A"} => repeats + Cardinality(PA!Open) + Due("A") <= faults + losses
      /\ leads \subseteq {"B"} => repeats + Cardinality(PB!Open) + Due("B") <= faults + losses

AccountInv == PA!StartedInv /\ ElectionInv /\ FiniteInv /\ JointInv /\ LoneInv

\* What a step of one operator, or of a user, does to its own account O and to the
\* other one's P.
Shifts(O, Onew, P, Pnew) ==
    \/ /\ Onew \subseteq O /\ Pnew \subseteq P /\ Unstarted' \subseteq Unstarted
       /\ repeats' = repeats /\ faults' \in {faults, faults + 1} /\ creations' = creations
    \/ \E k : /\ Onew \subseteq O \union {k} /\ Pnew \subseteq P \union {k}
              /\ Unstarted' \subseteq Unstarted
              /\ repeats' = repeats /\ faults' = faults + 1 /\ creations' = creations
    \/ \E k \in O : /\ Onew \subseteq O \ {k} /\ Pnew \subseteq P /\ Unstarted' \subseteq Unstarted
                    /\ repeats' = repeats + 1 /\ faults' = faults /\ creations' = creations
    \/ \E k : \E x \in Unstarted :
         /\ Onew \subseteq O /\ Pnew \subseteq P \union {k} /\ Unstarted' \subseteq Unstarted \ {x}
         /\ started' # started
         /\ repeats' = repeats /\ faults' = faults /\ creations' = creations
    \/ \E k : /\ Onew \subseteq O /\ Pnew \subseteq P
              /\ Unstarted' \subseteq Unstarted \union ({k} \X (1..MaxSteps))
              /\ repeats' = repeats /\ faults' = faults /\ creations' = creations + 1

\* It is a step of users or of the informer: it starts nothing.
Still == repeats' = repeats /\ (started' = started \/ creations' = creations + 1)

-----------------------------------------------------------------------------
(* From the accounts of StackUpgradeProofs to these.                       *)

\* The numbers in the accounts.
LEMMA AccountTypes ==
    ASSUME HInv
    PROVE  /\ api \in [Plans -> PA!Version \union {NoPlan}]
           /\ started \in [Plans -> SUBSET Nat]
           /\ repeats \in Nat /\ faults \in Nat /\ creations \in Nat
BY BoundsAssumption DEF HInv, PA!CarriedInv, PA!SideInv, PA!TypeOK

\* What is under way and what changes it is the same for both.
LEMMA AccountsSame ==
    /\ PA!StartedInv <=> PB!StartedInv
    /\ PA!StartedInv' <=> PB!StartedInv'
    /\ PA!Underway = PB!Underway /\ PA!Underway' = PB!Underway'
    /\ PA!Same <=> PB!Same
    /\ \A S : PA!Undisturbed(S) <=> PB!Undisturbed(S)
    /\ \A k : (PA!FirstStart(k) <=> PB!FirstStart(k)) /\ (PA!Creates(k) <=> PB!Creates(k))
BY DEF PA!StartedInv, PA!Underway, PA!Same, PA!NoneNew, PA!Undisturbed, PA!FirstStart,
       PA!Creates, PB!StartedInv, PB!Underway, PB!Same, PB!NoneNew, PB!Undisturbed,
       PB!FirstStart, PB!Creates

\* A step that is not started pays for its first start, a plan for its steps.
LEMMA UnstartedKept ==
    ASSUME HInv
    PROVE  /\ PA!Same => Unstarted' \subseteq Unstarted /\ creations' = creations
           /\ \A k \in Plans : PA!FirstStart(k) =>
                /\ \E x \in Unstarted : Unstarted' \subseteq Unstarted \ {x}
                /\ started' # started /\ creations' = creations
           /\ \A k \in Plans : PA!Creates(k) =>
                /\ Unstarted' \subseteq Unstarted \union ({k} \X (1..MaxSteps))
                /\ creations' = creations + 1
<1>1. PA!Same => Unstarted' \subseteq Unstarted /\ creations' = creations
  BY DEF PA!Same, PA!NoneNew, Unstarted
<1>2. ASSUME NEW k \in Plans, PA!FirstStart(k)
      PROVE  /\ \E x \in Unstarted : Unstarted' \subseteq Unstarted \ {x}
             /\ started' # started /\ creations' = creations
  <2>1. PICK i \in DOMAIN api[k].tools \ started[k] :
          started' = [started EXCEPT ![k] = @ \union {i}]
    BY <1>2 DEF PA!FirstStart
  <2>2. api[k] # NoPlan /\ PA!NoneNew({}) /\ creations' = creations
    BY <1>2 DEF PA!FirstStart
  <2>3. i \in 1..MaxSteps
    <3>1. api[k].tools \in ToolLists
      BY <2>2, AccountTypes DEF PA!Version
    <3>2. DOMAIN api[k].tools = 1..Len(api[k].tools) /\ Len(api[k].tools) \in Nat
      BY <3>1, ListsAssumption
    <3>3. Len(api[k].tools) <= MaxSteps /\ MaxSteps \in Nat
      BY <3>1, StepsAssumption
    <3> QED
      BY <2>1, <3>2, <3>3
  <2>4. <<k, i>> \in Unstarted
    BY <2>1, <2>2, <2>3 DEF Unstarted
  <2>5. started'[k] = started[k] \union {i} /\ \A q \in Plans : started[q] \subseteq started'[q]
    BY <2>1, AccountTypes
  <2>6. Unstarted' \subseteq Unstarted \ {<<k, i>>}
    BY <2>2, <2>5 DEF Unstarted, PA!NoneNew
  <2> QED
    BY <2>1, <2>2, <2>4, <2>5, <2>6
<1>3. ASSUME NEW k \in Plans, PA!Creates(k)
      PROVE  /\ Unstarted' \subseteq Unstarted \union ({k} \X (1..MaxSteps))
             /\ creations' = creations + 1
  <2>1. \A q \in Plans : q # k => started'[q] = started[q]
    BY <1>3, AccountTypes DEF PA!Creates
  <2> QED
    BY <1>3, <2>1 DEF PA!Creates, PA!NoneNew, Unstarted
<1> QED
  BY <1>1, <1>2, <1>3

\* What operator A does to the two accounts.
LEMMA ShiftsA ==
    ASSUME HInv, PA!Balanced, workerB' = workerB
    PROVE  Shifts(PA!Open, PA!Open', PB!Open, PB!Open')
<1>1. ASSUME NEW S, PA!Undisturbed(S)
      PROVE  PB!Open' \subseteq PB!Open \union S
  BY <1>1, AccountsSame, ConstantsB, PB!OpenKept DEF PB!AtStep
<1> USE UnstartedKept DEF Shifts
<1>2. CASE /\ PA!Open' \subseteq PA!Open /\ PA!Undisturbed({}) /\ PA!Same
           /\ repeats' = repeats /\ faults' \in {faults, faults + 1}
  BY <1>1, <1>2
<1>3. ASSUME NEW k, PA!Open' \subseteq PA!Open \union {k}, PA!Undisturbed({k}), PA!Same,
             repeats' = repeats, faults' = faults + 1
      PROVE  Shifts(PA!Open, PA!Open', PB!Open, PB!Open')
  BY <1>1, <1>3
<1>4. ASSUME NEW k \in PA!Open, PA!Open' \subseteq PA!Open \ {k}, PA!Undisturbed({}), PA!Same,
             repeats' = repeats + 1, faults' = faults
      PROVE  Shifts(PA!Open, PA!Open', PB!Open, PB!Open')
  BY <1>1, <1>4
<1>5. ASSUME NEW k \in Plans, PA!Open' \subseteq PA!Open, PA!Undisturbed({k}),
             PA!FirstStart(k), repeats' = repeats, faults' = faults
      PROVE  Shifts(PA!Open, PA!Open', PB!Open, PB!Open')
  <2>1. PB!Open' \subseteq PB!Open \union {k}
    BY <1>1, <1>5
  <2>2. PICK x \in Unstarted : Unstarted' \subseteq Unstarted \ {x}
    BY <1>5
  <2> QED
    BY <1>5, <2>1, <2>2
<1>6. ASSUME NEW k \in Plans, PA!Open' \subseteq PA!Open, PA!Undisturbed({}),
             PA!Creates(k), repeats' = repeats, faults' = faults
      PROVE  Shifts(PA!Open, PA!Open', PB!Open, PB!Open')
  BY <1>1, <1>6
<1> QED
  BY <1>2, <1>3, <1>4, <1>5, <1>6 DEF PA!Balanced

\* What operator B does to them.
LEMMA ShiftsB ==
    ASSUME HInv, PB!Balanced, workerA' = workerA
    PROVE  Shifts(PB!Open, PB!Open', PA!Open, PA!Open')
<1>1. ASSUME NEW S, PB!Undisturbed(S)
      PROVE  PA!Open' \subseteq PA!Open \union S
  BY <1>1, AccountsSame, ConstantsA, PA!OpenKept DEF PA!AtStep
<1> USE UnstartedKept, AccountsSame DEF Shifts
<1>2. CASE /\ PB!Open' \subseteq PB!Open /\ PB!Undisturbed({}) /\ PB!Same
           /\ repeats' = repeats /\ faults' \in {faults, faults + 1}
  BY <1>1, <1>2
<1>3. ASSUME NEW k, PB!Open' \subseteq PB!Open \union {k}, PB!Undisturbed({k}), PB!Same,
             repeats' = repeats, faults' = faults + 1
      PROVE  Shifts(PB!Open, PB!Open', PA!Open, PA!Open')
  BY <1>1, <1>3
<1>4. ASSUME NEW k \in PB!Open, PB!Open' \subseteq PB!Open \ {k}, PB!Undisturbed({}), PB!Same,
             repeats' = repeats + 1, faults' = faults
      PROVE  Shifts(PB!Open, PB!Open', PA!Open, PA!Open')
  BY <1>1, <1>4
<1>5. ASSUME NEW k \in Plans, PB!Open' \subseteq PB!Open, PB!Undisturbed({k}),
             PB!FirstStart(k), repeats' = repeats, faults' = faults
      PROVE  Shifts(PB!Open, PB!Open', PA!Open, PA!Open')
  <2>1. PA!Open' \subseteq PA!Open \union {k}
    BY <1>1, <1>5
  <2>2. PICK x \in Unstarted : Unstarted' \subseteq Unstarted \ {x}
    BY <1>5
  <2> QED
    BY <1>5, <2>1, <2>2
<1>6. ASSUME NEW k \in Plans, PB!Open' \subseteq PB!Open, PB!Undisturbed({}),
             PB!Creates(k), repeats' = repeats, faults' = faults
      PROVE  Shifts(PB!Open, PB!Open', PA!Open, PA!Open')
  BY <1>1, <1>6
<1> QED
  BY <1>2, <1>3, <1>4, <1>5, <1>6 DEF PB!Balanced

-----------------------------------------------------------------------------
(* What the shifts come to.                                                *)

\* PA!Costs without the assumptions its module makes.
LEMMA SetCosts ==
    ASSUME NEW S, IsFiniteSet(S), NEW T
    PROVE  /\ Cardinality(S) \in Nat
           /\ T \subseteq S =>
                IsFiniteSet(T) /\ Cardinality(T) \in Nat /\ Cardinality(T) <= Cardinality(S)
           /\ \A k : T \subseteq S \union {k} =>
                IsFiniteSet(T) /\ Cardinality(T) \in Nat /\ Cardinality(T) <= Cardinality(S) + 1
           /\ \A k \in S : T \subseteq S \ {k} =>
                IsFiniteSet(T) /\ Cardinality(T) \in Nat /\ Cardinality(T) <= Cardinality(S) - 1
BY ConstantsA, PA!Costs DEF PA!IsFiniteSet, IsFiniteSet, PA!Cardinality, Cardinality

\* A plan that is created brings MaxSteps credits at most.
LEMMA CreationCosts ==
    ASSUME NEW S, IsFiniteSet(S), NEW T, NEW k, T \subseteq S \union ({k} \X (1..MaxSteps))
    PROVE  IsFiniteSet(T) /\ Cardinality(T) \in Nat /\ Cardinality(T) <= Cardinality(S) + MaxSteps
<1> DEFINE U == {k} \X (1..MaxSteps)
<1>1. MaxSteps \in Nat
  BY StepsAssumption
<1>2. IsFiniteSet(1..MaxSteps) /\ Cardinality(1..MaxSteps) = MaxSteps
  <2>1. /\ IsFiniteSet(1..MaxSteps)
        /\ Cardinality(1..MaxSteps) = IF 1 > MaxSteps THEN 0 ELSE MaxSteps - 1 + 1
    BY <1>1, FS_Interval
  <2> QED
    BY <1>1, <2>1
<1>3. IsFiniteSet({k}) /\ Cardinality({k}) = 1
  BY FS_Singleton
<1>4. IsFiniteSet(U) /\ Cardinality(U) = MaxSteps
  <2>1. IsFiniteSet(U) /\ Cardinality(U) = Cardinality({k}) * Cardinality(1..MaxSteps)
    BY <1>2, <1>3, FS_Product
  <2> QED
    BY <1>1, <1>2, <1>3, <2>1
<1> HIDE DEF U
<1>5. /\ IsFiniteSet(S \union U)
      /\ Cardinality(S \union U) = Cardinality(S) + Cardinality(U) - Cardinality(S \cap U)
  BY <1>4, FS_Union
<1>6. /\ Cardinality(S) \in Nat
      /\ IsFiniteSet(S \cap U) /\ Cardinality(S \cap U) \in Nat
  BY <1>4, FS_Intersection, FS_CardinalityType
<1>7. IsFiniteSet(T) /\ Cardinality(T) <= Cardinality(S \union U) /\ Cardinality(T) \in Nat
  BY <1>5, FS_Subset, FS_CardinalityType DEF U
<1> QED
  BY <1>1, <1>4, <1>5, <1>6, <1>7

\* The joint account, whatever else (d) is due in it.
LEMMA JointKept ==
    ASSUME HInv, NEW O, NEW Onew, NEW P, NEW Pnew, NEW d \in Nat, losses \in Nat,
           IsFiniteSet(O), IsFiniteSet(P), IsFiniteSet(Unstarted),
           Shifts(O, Onew, P, Pnew),
           repeats + Cardinality(O) + Cardinality(P) + Cardinality(Unstarted) + d
             <= 2 * faults + losses + MaxSteps * creations
    PROVE  /\ IsFiniteSet(Onew) /\ IsFiniteSet(Pnew) /\ IsFiniteSet(Unstarted')
           /\ repeats' + Cardinality(Onew) + Cardinality(Pnew) + Cardinality(Unstarted') + d
                <= 2 * faults' + losses + MaxSteps * creations'
<1> DEFINE m == MaxSteps * creations
           Worth(S, T, n) == /\ IsFiniteSet(T) /\ Cardinality(T) \in Nat
                             /\ Cardinality(T) <= Cardinality(S) + n
           Goal == /\ IsFiniteSet(Onew) /\ IsFiniteSet(Pnew) /\ IsFiniteSet(Unstarted')
                   /\ repeats' + Cardinality(Onew) + Cardinality(Pnew)
                        + Cardinality(Unstarted') + d
                        <= 2 * faults' + losses + MaxSteps * creations'
<1>1. /\ repeats \in Nat /\ faults \in Nat /\ creations \in Nat /\ MaxSteps \in Nat
      /\ m \in Nat /\ MaxSteps * (creations + 1) = m + MaxSteps
  BY AccountTypes, StepsAssumption
<1>2. Cardinality(O) \in Nat /\ Cardinality(P) \in Nat /\ Cardinality(Unstarted) \in Nat
  BY FS_CardinalityType
<1>3. ASSUME NEW S, IsFiniteSet(S), NEW T
      PROVE  /\ T \subseteq S => Worth(S, T, 0)
             /\ \A k : T \subseteq S \union {k} => Worth(S, T, 1)
             /\ \A k \in S : T \subseteq S \ {k} => Worth(S, T, -1)
             /\ \A k : T \subseteq S \union ({k} \X (1..MaxSteps)) => Worth(S, T, MaxSteps)
  <2>1. /\ Cardinality(S) \in Nat
        /\ T \subseteq S => Worth(S, T, 0)
    BY <1>3, SetCosts
  <2>2. ASSUME NEW k, T \subseteq S \union {k}
        PROVE  Worth(S, T, 1)
    BY <1>3, <2>2, SetCosts
  <2>3. ASSUME NEW k \in S, T \subseteq S \ {k}
        PROVE  Worth(S, T, -1)
    <3>1. /\ IsFiniteSet(T) /\ Cardinality(T) \in Nat
          /\ Cardinality(T) <= Cardinality(S) - 1
      BY <1>3, <2>3, SetCosts
    <3> QED
      BY <2>1, <3>1
  <2>4. ASSUME NEW k, T \subseteq S \union ({k} \X (1..MaxSteps))
        PROVE  Worth(S, T, MaxSteps)
    BY <1>3, <2>4, CreationCosts
  <2> QED
    BY <2>1, <2>2, <2>3, <2>4
<1> HIDE DEF Worth
<1>4. CASE /\ Onew \subseteq O /\ Pnew \subseteq P /\ Unstarted' \subseteq Unstarted
           /\ repeats' = repeats /\ faults' \in {faults, faults + 1} /\ creations' = creations
  <2>1. Worth(O, Onew, 0) /\ Worth(P, Pnew, 0) /\ Worth(Unstarted, Unstarted', 0)
    BY <1>3, <1>4
  <2> QED
    BY <1>1, <1>2, <1>4, <2>1 DEF Worth
<1>5. ASSUME NEW k, Onew \subseteq O \union {k}, Pnew \subseteq P \union {k},
             Unstarted' \subseteq Unstarted,
             repeats' = repeats, faults' = faults + 1, creations' = creations
      PROVE  Goal
  <2>1. Worth(O, Onew, 1) /\ Worth(P, Pnew, 1) /\ Worth(Unstarted, Unstarted', 0)
    BY <1>3, <1>5
  <2> QED
    BY <1>1, <1>2, <1>5, <2>1 DEF Worth
<1>6. ASSUME NEW k \in O, Onew \subseteq O \ {k}, Pnew \subseteq P, Unstarted' \subseteq Unstarted,
             repeats' = repeats + 1, faults' = faults, creations' = creations
      PROVE  Goal
  <2>1. Worth(O, Onew, -1) /\ Worth(P, Pnew, 0) /\ Worth(Unstarted, Unstarted', 0)
    BY <1>3, <1>6
  <2> QED
    BY <1>1, <1>2, <1>6, <2>1 DEF Worth
<1>7. ASSUME NEW k, NEW x \in Unstarted, Onew \subseteq O, Pnew \subseteq P \union {k},
             Unstarted' \subseteq Unstarted \ {x},
             repeats' = repeats, faults' = faults, creations' = creations
      PROVE  Goal
  <2>1. Worth(O, Onew, 0) /\ Worth(P, Pnew, 1) /\ Worth(Unstarted, Unstarted', -1)
    BY <1>3, <1>7
  <2> QED
    BY <1>1, <1>2, <1>7, <2>1 DEF Worth
<1>8. ASSUME NEW k, Onew \subseteq O, Pnew \subseteq P,
             Unstarted' \subseteq Unstarted \union ({k} \X (1..MaxSteps)),
             repeats' = repeats, faults' = faults, creations' = creations + 1
      PROVE  Goal
  <2>1. Worth(O, Onew, 0) /\ Worth(P, Pnew, 0) /\ Worth(Unstarted, Unstarted', MaxSteps)
    BY <1>3, <1>8
  <2> QED
    BY <1>1, <1>2, <1>8, <2>1 DEF Worth
<1> QED
  BY <1>4, <1>5, <1>6, <1>7, <1>8 DEF Shifts

\* The account of the one that leads alone, and that of the other one while it is
\* only told of changes.
LEMMA LoneKept ==
    ASSUME HInv, NEW O, NEW Onew, NEW P, NEW Pnew, NEW d \in Nat, losses \in Nat,
           IsFiniteSet(O), IsFiniteSet(P), Shifts(O, Onew, P, Pnew)
    PROVE  /\ repeats + Cardinality(O) + d <= faults + losses =>
                repeats' + Cardinality(Onew) + d <= faults' + losses
           /\ Still /\ repeats + Cardinality(P) + d <= faults + losses =>
                repeats' + Cardinality(Pnew) + d <= faults' + losses
<1>1. repeats \in Nat /\ faults \in Nat /\ creations \in Nat
  BY AccountTypes
<1>2. ASSUME NEW S, IsFiniteSet(S), NEW T
      PROVE  /\ Cardinality(S) \in Nat
             /\ T \subseteq S => Cardinality(T) \in Nat /\ Cardinality(T) <= Cardinality(S)
             /\ \A k : T \subseteq S \union {k} =>
                  Cardinality(T) \in Nat /\ Cardinality(T) <= Cardinality(S) + 1
             /\ \A k \in S : T \subseteq S \ {k} =>
                  Cardinality(T) \in Nat /\ Cardinality(T) <= Cardinality(S) - 1
  BY <1>2, SetCosts, Zenon
<1>3. /\ \/ /\ Onew \subseteq O
            /\ repeats' = repeats /\ faults' \in {faults, faults + 1}
         \/ (\E k : Onew \subseteq O \union {k}) /\ repeats' = repeats /\ faults' = faults + 1
         \/ (\E k \in O : Onew \subseteq O \ {k}) /\ repeats' = repeats + 1 /\ faults' = faults
      /\ Still =>
           \/ Pnew \subseteq P /\ repeats' = repeats /\ faults' \in {faults, faults + 1}
           \/ (\E k : Pnew \subseteq P \union {k}) /\ repeats' = repeats /\ faults' = faults + 1
  BY <1>1 DEF Shifts, Still
<1>4. /\ Cardinality(O) \in Nat /\ Cardinality(P) \in Nat
      /\ \/ /\ Cardinality(Onew) \in Nat /\ Cardinality(Onew) <= Cardinality(O)
            /\ repeats' = repeats /\ faults' \in {faults, faults + 1}
         \/ /\ Cardinality(Onew) \in Nat /\ Cardinality(Onew) <= Cardinality(O) + 1
            /\ repeats' = repeats /\ faults' = faults + 1
         \/ /\ Cardinality(Onew) \in Nat /\ Cardinality(Onew) <= Cardinality(O) - 1
            /\ repeats' = repeats + 1 /\ faults' = faults
  BY <1>2, <1>3, Zenon
<1>5. Still =>
        \/ /\ Cardinality(Pnew) \in Nat /\ Cardinality(Pnew) <= Cardinality(P)
           /\ repeats' = repeats /\ faults' \in {faults, faults + 1}
        \/ /\ Cardinality(Pnew) \in Nat /\ Cardinality(Pnew) <= Cardinality(P) + 1
           /\ repeats' = repeats /\ faults' = faults + 1
  BY <1>2, <1>3, Zenon
<1>6. repeats + Cardinality(O) + d <= faults + losses =>
        repeats' + Cardinality(Onew) + d <= faults' + losses
  BY <1>1, <1>4
<1>7. Still /\ repeats + Cardinality(P) + d <= faults + losses =>
        repeats' + Cardinality(Pnew) + d <= faults' + losses
  BY <1>1, <1>4, <1>5
<1> QED
  BY <1>6, <1>7

-----------------------------------------------------------------------------
(* The steps of Handover keep the accounts.                                *)

\* What is due, as a number.
LEMMA DueTypes ==
    \A o : Due(o) \in {0, 1} /\ Due(o)' \in {0, 1}
BY DEF Due

\* A step of operator A that does not touch the lease, or one of a user.
LEMMA OwnKeptA ==
    ASSUME HInv, AccountInv, PA!StartedInv', PA!Balanced, UNCHANGED election, workerB' = workerB,
           "A" \in leads \/ (Still /\ workerA' = workerA)
    PROVE  AccountInv'
<1>1. Shifts(PA!Open, PA!Open', PB!Open, PB!Open')
  BY ShiftsA
<1>2. UNCHANGED <<lease, leads, losses, overlapped>> /\ \A o : Due(o)' = Due(o)
  BY DEF election, Due
<1>3. ElectionInv'
  BY <1>2 DEF AccountInv, ElectionInv
<1>4. /\ losses \in Nat /\ Due("A") \in {0, 1} /\ Due("B") \in {0, 1}
      /\ IsFiniteSet(PA!Open) /\ IsFiniteSet(PB!Open) /\ IsFiniteSet(Unstarted)
  BY DueTypes DEF AccountInv, ElectionInv, FiniteInv
<1>5. /\ Cardinality(PA!Open) \in Nat /\ Cardinality(PB!Open) \in Nat
      /\ Cardinality(Unstarted) \in Nat /\ Due("A") + Due("B") \in Nat
  BY <1>4, FS_CardinalityType
<1>6. repeats + Cardinality(PA!Open) + Cardinality(PB!Open) + Cardinality(Unstarted)
        + (Due("A") + Due("B")) <= 2 * faults + losses + MaxSteps * creations
  <2>1. repeats \in Nat
    BY AccountTypes
  <2> QED
    BY <1>4, <1>5, <2>1 DEF AccountInv, JointInv
<1>7. /\ IsFiniteSet(PA!Open') /\ IsFiniteSet(PB!Open') /\ IsFiniteSet(Unstarted')
      /\ repeats' + Cardinality(PA!Open') + Cardinality(PB!Open') + Cardinality(Unstarted')
           + (Due("A") + Due("B")) <= 2 * faults' + losses + MaxSteps * creations'
  BY <1>1, <1>4, <1>5, <1>6, JointKept
<1>8. FiniteInv'
  BY <1>7 DEF FiniteInv
<1>9. JointInv'
  <2>1. repeats' \in Nat
    BY <1>1, AccountTypes DEF Shifts
  <2>2. /\ Cardinality(PA!Open') \in Nat /\ Cardinality(PB!Open') \in Nat
        /\ Cardinality(Unstarted') \in Nat
    BY <1>7, FS_CardinalityType
  <2> QED
    BY <1>2, <1>4, <1>7, <2>1, <2>2 DEF JointInv
<1>10. LoneInv'
  <2>1. /\ repeats + Cardinality(PA!Open) + Due("A") <= faults + losses =>
             repeats' + Cardinality(PA!Open') + Due("A") <= faults' + losses
        /\ Still /\ repeats + Cardinality(PB!Open) + Due("B") <= faults + losses =>
             repeats' + Cardinality(PB!Open') + Due("B") <= faults' + losses
    <3>1. Due("A") \in Nat /\ Due("B") \in Nat
      BY <1>4
    <3> QED
      BY <1>1, <1>4, <3>1, LoneKept
  <2>2. leads \subseteq {"B"} => Still
    OBVIOUS
  <2> QED
    BY <1>2, <2>1, <2>2 DEF AccountInv, LoneInv
<1> QED
  BY <1>3, <1>8, <1>9, <1>10 DEF AccountInv

\* A step of operator B that does not touch the lease.
LEMMA OwnKeptB ==
    ASSUME HInv, AccountInv, PA!StartedInv', PB!Balanced, UNCHANGED election, workerA' = workerA,
           "B" \in leads \/ (Still /\ workerB' = workerB)
    PROVE  AccountInv'
<1>1. Shifts(PB!Open, PB!Open', PA!Open, PA!Open')
  BY ShiftsB
<1>2. UNCHANGED <<lease, leads, losses, overlapped>> /\ \A o : Due(o)' = Due(o)
  BY DEF election, Due
<1>3. ElectionInv'
  BY <1>2 DEF AccountInv, ElectionInv
<1>4. /\ losses \in Nat /\ Due("A") \in {0, 1} /\ Due("B") \in {0, 1}
      /\ IsFiniteSet(PA!Open) /\ IsFiniteSet(PB!Open) /\ IsFiniteSet(Unstarted)
  BY DueTypes DEF AccountInv, ElectionInv, FiniteInv
<1>5. /\ Cardinality(PA!Open) \in Nat /\ Cardinality(PB!Open) \in Nat
      /\ Cardinality(Unstarted) \in Nat /\ Due("A") + Due("B") \in Nat
  BY <1>4, FS_CardinalityType
<1>6. repeats + Cardinality(PB!Open) + Cardinality(PA!Open) + Cardinality(Unstarted)
        + (Due("A") + Due("B")) <= 2 * faults + losses + MaxSteps * creations
  <2>1. repeats \in Nat
    BY AccountTypes
  <2> QED
    BY <1>4, <1>5, <2>1 DEF AccountInv, JointInv
<1>7. /\ IsFiniteSet(PB!Open') /\ IsFiniteSet(PA!Open') /\ IsFiniteSet(Unstarted')
      /\ repeats' + Cardinality(PB!Open') + Cardinality(PA!Open') + Cardinality(Unstarted')
           + (Due("A") + Due("B")) <= 2 * faults' + losses + MaxSteps * creations'
  BY <1>1, <1>4, <1>5, <1>6, JointKept
<1>8. FiniteInv'
  BY <1>7 DEF FiniteInv
<1>9. JointInv'
  <2>1. repeats' \in Nat
    BY <1>1, AccountTypes DEF Shifts
  <2>2. /\ Cardinality(PB!Open') \in Nat /\ Cardinality(PA!Open') \in Nat
        /\ Cardinality(Unstarted') \in Nat
    BY <1>7, FS_CardinalityType
  <2> QED
    BY <1>2, <1>4, <1>7, <2>1, <2>2 DEF JointInv
<1>10. LoneInv'
  <2>1. /\ repeats + Cardinality(PB!Open) + Due("B") <= faults + losses =>
             repeats' + Cardinality(PB!Open') + Due("B") <= faults' + losses
        /\ Still /\ repeats + Cardinality(PA!Open) + Due("A") <= faults + losses =>
             repeats' + Cardinality(PA!Open') + Due("A") <= faults' + losses
    <3>1. Due("B") \in Nat /\ Due("A") \in Nat
      BY <1>4
    <3> QED
      BY <1>1, <1>4, <3>1, LoneKept
  <2>2. leads \subseteq {"A"} => Still
    OBVIOUS
  <2> QED
    BY <1>2, <2>1, <2>2 DEF AccountInv, LoneInv
<1> QED
  BY <1>3, <1>8, <1>9, <1>10 DEF AccountInv

\* What users do starts nothing, and is not done by an operator.
LEMMA UsersStill ==
    ASSUME NEW p \in Plans, A!Users(p)
    PROVE  Still /\ workerA' = workerA
BY DEF Still, A!Users, A!CreatePlan, A!EditPlan, A!TouchPlan, A!DeletePlan, A!history

\* The steps of users, ...
LEMMA UsersAccount ==
    ASSUME HInv, AccountInv, NEW p \in Plans, Users(p)
    PROVE  AccountInv'
<1>1. PA!Users(p) /\ PA!SideInv /\ PA!StartedInv
  BY UsersSame DEF Users, HInv, PA!CarriedInv, AccountInv
<1>2. PA!StartedInv' /\ PA!Balanced
  BY <1>1, ConstantsA, PA!StepBalance
<1>3. UNCHANGED election /\ workerB' = workerB
  BY DEF Users, TellsB, ownB
<1> QED
  BY <1>2, <1>3, UsersStill, OwnKeptA DEF Users

\* ... those of operator A and of its informer.
LEMMA OperatorAccountA ==
    ASSUME HInv, AccountInv,
           \/ \E p \in Plans : DeliverA(p) \/ RelistA(p) \/ FallsDueA(p) \/ BeginA(p)
           \/ ReconcileA \/ HelmA
    PROVE  AccountInv'
<1>1. PA!SideInv /\ PA!StartedInv /\ PA!StartedInv
  BY AccountsSame DEF HInv, PA!CarriedInv, PB!CarriedInv, AccountInv
<1>2. \/ \E p \in Plans : PA!Informer(p) \/ PA!Begin(p)
      \/ PA!Reconcile \/ PA!Helm
  BY InformerSameA, ReconcileSameA, HelmSameA
     DEF DeliverA, RelistA, FallsDueA, BeginA, ReconcileA, HelmA
<1>3. PA!StartedInv' /\ PA!Balanced
  BY <1>1, <1>2, ConstantsA, PA!StepBalance
<1>4. PA!StartedInv'
  BY <1>3, AccountsSame
<1>5. UNCHANGED election /\ workerB' = workerB
  BY DEF DeliverA, RelistA, FallsDueA, BeginA, ReconcileA, HelmA, TellsB, KeepsB, ownB
<1>6. "A" \in leads \/ (Still /\ workerA' = workerA)
  <2>1. ASSUME NEW p \in Plans, DeliverA(p) \/ RelistA(p) \/ FallsDueA(p)
        PROVE  Still /\ workerA' = workerA
    BY <2>1 DEF Still, DeliverA, RelistA, FallsDueA, A!Deliver, A!Relist, A!FallsDue, A!history
  <2>2. ASSUME NEW p \in Plans, BeginA(p)
        PROVE  "A" \in leads
    BY <2>2 DEF BeginA
  <2>3. ReconcileA \/ HelmA => workerA.pc # "idle"
    BY DEF ReconcileA, HelmA, A!Reconcile, A!ReconcilePending, A!ReconcileApproved,
           A!FinishPlan, A!StartStep, A!StartRefused, A!ReconcileFailed, A!RecordResult,
           A!InPhase, A!Helm, A!PreflightFails, A!HelmRefuses, A!HelmDryRuns, A!HelmBegins,
           A!HelmSucceeds, A!HelmRollsBack
  <2> QED
    BY <2>1, <2>2, <2>3 DEF AccountInv, ElectionInv
<1> QED
  BY <1>3, <1>4, <1>5, <1>6, OwnKeptA

\* ... those of operator B and of its informer.
LEMMA OperatorAccountB ==
    ASSUME HInv, AccountInv,
           \/ \E p \in Plans : DeliverB(p) \/ RelistB(p) \/ FallsDueB(p) \/ BeginB(p)
           \/ ReconcileB \/ HelmB
    PROVE  AccountInv'
<1>1. PB!SideInv /\ PB!StartedInv /\ PA!StartedInv
  BY AccountsSame DEF HInv, PA!CarriedInv, PB!CarriedInv, AccountInv
<1>2. \/ \E p \in Plans : PB!Informer(p) \/ PB!Begin(p)
      \/ PB!Reconcile \/ PB!Helm
  BY InformerSameB, ReconcileSameB, HelmSameB
     DEF DeliverB, RelistB, FallsDueB, BeginB, ReconcileB, HelmB
<1>3. PB!StartedInv' /\ PB!Balanced
  BY <1>1, <1>2, ConstantsB, PB!StepBalance
<1>4. PA!StartedInv'
  BY <1>3, AccountsSame
<1>5. UNCHANGED election /\ workerA' = workerA
  BY DEF DeliverB, RelistB, FallsDueB, BeginB, ReconcileB, HelmB, TellsA, KeepsA, ownA
<1>6. "B" \in leads \/ (Still /\ workerB' = workerB)
  <2>1. ASSUME NEW p \in Plans, DeliverB(p) \/ RelistB(p) \/ FallsDueB(p)
        PROVE  Still /\ workerB' = workerB
    BY <2>1 DEF Still, DeliverB, RelistB, FallsDueB, B!Deliver, B!Relist, B!FallsDue, B!history
  <2>2. ASSUME NEW p \in Plans, BeginB(p)
        PROVE  "B" \in leads
    BY <2>2 DEF BeginB
  <2>3. ReconcileB \/ HelmB => workerB.pc # "idle"
    BY DEF ReconcileB, HelmB, B!Reconcile, B!ReconcilePending, B!ReconcileApproved,
           B!FinishPlan, B!StartStep, B!StartRefused, B!ReconcileFailed, B!RecordResult,
           B!InPhase, B!Helm, B!PreflightFails, B!HelmRefuses, B!HelmDryRuns, B!HelmBegins,
           B!HelmSucceeds, B!HelmRollsBack
  <2> QED
    BY <2>1, <2>2, <2>3 DEF AccountInv, ElectionInv
<1> QED
  BY <1>3, <1>4, <1>5, <1>6, OwnKeptB

\* What the accounts count, where only the lease changes hands.
LEMMA OpenSame ==
    ASSUME UNCHANGED <<api, started, workerA, workerB>>
    PROVE  /\ PA!Open' = PA!Open /\ PB!Open' = PB!Open /\ Unstarted' = Unstarted
           /\ PA!StartedInv => PA!StartedInv'
BY DEF PA!Open, PA!Underway, PA!AtStep, PB!Open, PB!Underway, PB!AtStep, Unstarted,
       PA!StartedInv

\* The numbers of the accounts.
LEMMA CreditTypes ==
    ASSUME HInv, AccountInv
    PROVE  /\ repeats \in Nat /\ faults \in Nat /\ creations \in Nat /\ losses \in Nat
           /\ MaxSteps * creations \in Nat
           /\ Cardinality(PA!Open) \in Nat /\ Cardinality(PB!Open) \in Nat
           /\ Cardinality(Unstarted) \in Nat
<1>1. MaxSteps \in Nat
  BY StepsAssumption
<1> QED
  BY <1>1, AccountTypes, FS_CardinalityType DEF AccountInv, ElectionInv, FiniteInv

\* A new leader owes nothing; if it is alone, the account it takes over is its own.
LEMMA AcquireAccount ==
    ASSUME HInv, AccountInv, NEW o \in Operators, Acquire(o)
    PROVE  AccountInv'
<1>1. UNCHANGED <<api, started, repeats, faults, creations, workerA, workerB, losses>>
  BY DEF Acquire, shared
<1>2. /\ lease = Nobody /\ lease' = o /\ leads' = leads \union {o}
      /\ overlapped' = (overlapped \/ leads' # {o})
  BY DEF Acquire
<1>3. ElectionInv'
  BY <1>1, <1>2 DEF AccountInv, ElectionInv
<1>4. Due(o)' = 0 /\ \A x \in Operators \ {o} : Due(x)' = Due(x)
  BY <1>2, NobodyAssumption DEF Due
<1>5. /\ Due("A") \in {0, 1} /\ Due("A")' \in {0, Due("A")}
      /\ Due("B") \in {0, 1} /\ Due("B")' \in {0, Due("B")}
  BY <1>4, DueTypes DEF Operators
<1>6. JointInv'
  BY <1>1, <1>5, OpenSame, CreditTypes DEF AccountInv, JointInv
<1>7. LoneInv'
  <2> SUFFICES ASSUME ~overlapped'
               PROVE  LoneInv'
    BY DEF LoneInv
  <2>1. leads' = {o} /\ leads \subseteq {o} /\ ~overlapped
    BY <1>2
  <2>2. leads' # Operators
    BY <2>1 DEF Operators
  <2>3. leads' \subseteq {"A"} => leads \subseteq {"A"}
    BY <2>1
  <2>4. leads' \subseteq {"B"} => leads \subseteq {"B"}
    BY <2>1
  <2> QED
    BY <1>1, <1>5, <2>1, <2>2, <2>3, <2>4, OpenSame, CreditTypes DEF AccountInv, LoneInv
<1> QED
  BY <1>1, <1>3, <1>6, <1>7, OpenSame DEF AccountInv, FiniteInv

\* A lease that lapses is due.
LEMMA LapseAccount ==
    ASSUME HInv, AccountInv, Lapse
    PROVE  AccountInv'
<1>1. UNCHANGED <<api, started, repeats, faults, creations, workerA, workerB, leads, overlapped>>
  BY DEF Lapse, shared, ownA, ownB
<1>2. lease \in leads /\ lease' = Nobody /\ losses' = losses + 1
  BY DEF Lapse
<1>3. ElectionInv'
  BY <1>1, <1>2 DEF AccountInv, ElectionInv
<1>4. /\ Due("A") \in {0, 1} /\ Due("A")' \in {0, 1} /\ Due("B") \in {0, 1} /\ Due("B")' \in {0, 1}
      /\ Due("A")' = Due("A") \/ Due("B")' = Due("B")
  BY <1>1, <1>2, NobodyAssumption, DueTypes DEF Due, AccountInv, ElectionInv, Operators
<1>5. JointInv'
  BY <1>1, <1>2, <1>4, OpenSame, CreditTypes DEF AccountInv, JointInv
<1>6. LoneInv'
  BY <1>1, <1>2, <1>4, OpenSame, CreditTypes DEF AccountInv, LoneInv
<1> QED
  BY <1>1, <1>3, <1>5, <1>6, OpenSame DEF AccountInv, FiniteInv

\* The lease of an operator that died expires, which nobody owes anything for.
LEMMA ExpireAccount ==
    ASSUME HInv, AccountInv, Expire
    PROVE  AccountInv'
<1>1. /\ UNCHANGED <<api, started, repeats, faults, creations, workerA, workerB>>
      /\ UNCHANGED <<leads, losses, overlapped>>
  BY DEF Expire, shared, ownA, ownB
<1>2. lease \notin leads /\ lease' = Nobody
  BY DEF Expire
<1>3. ElectionInv'
  BY <1>1, <1>2 DEF AccountInv, ElectionInv
<1>4. Due("A")' = Due("A") /\ Due("B")' = Due("B")
  BY <1>1, <1>2, NobodyAssumption DEF Due, Operators
<1> QED
  BY <1>1, <1>3, <1>4, OpenSame DEF AccountInv, FiniteInv, JointInv, LoneInv

\* Operator A starts again, because it died or because it lost its lease.
LEMMA StartAccountA ==
    ASSUME HInv, AccountInv, A!Start, UNCHANGED <<shared, ownB, lease, overlapped>>,
           leads' = leads \ {"A"},
           losses' = losses + 1 \/ (losses' = losses /\ Due("A") = 1)
    PROVE  AccountInv'
<1>1. UNCHANGED <<api, started, repeats, faults, creations, workerB>>
  BY DEF shared, ownB
<1>2. workerA' = PA!Idle /\ workerA'.pc = "idle"
  BY StartSameA DEF PA!Start, PA!Idle
<1>3. /\ PA!StartedInv' /\ PA!StartedInv' /\ PA!Open' \subseteq PA!Open \union {workerA.key}
      /\ PB!Open' = PB!Open /\ Unstarted' = Unstarted
  <2>1. PA!StartedInv
    BY AccountsSame DEF AccountInv
  <2>2. PA!StartedInv' /\ PA!Open' \subseteq PA!Open \union {workerA.key}
    BY <1>1, <1>2, <2>1, ConstantsA, PA!StartOpens
  <2>3. PB!Open' = PB!Open /\ Unstarted' = Unstarted
    BY <1>1 DEF PB!Open, PB!Underway, PB!AtStep, Unstarted
  <2> QED
    BY <2>2, <2>3, AccountsSame
<1>4. /\ IsFiniteSet(PA!Open') /\ Cardinality(PA!Open') \in Nat
      /\ Cardinality(PA!Open') <= Cardinality(PA!Open) + 1
  BY <1>3, SetCosts DEF AccountInv, FiniteInv
<1>5. ElectionInv'
  BY <1>1, <1>2, CreditTypes DEF AccountInv, ElectionInv
<1>6. /\ Due("A") \in {0, 1} /\ Due("A")' = 0
      /\ Due("B") \in {0, 1} /\ Due("B")' = Due("B")
  BY DueTypes DEF Due
<1>7. FiniteInv'
  BY <1>3, <1>4 DEF AccountInv, FiniteInv
<1>8. JointInv'
  BY <1>1, <1>3, <1>4, <1>6, CreditTypes DEF AccountInv, JointInv
<1>9. LoneInv'
  <2> SUFFICES ASSUME ~overlapped
               PROVE  LoneInv'
    BY DEF LoneInv
  <2>1. leads \subseteq Operators /\ leads # Operators
    BY DEF AccountInv, ElectionInv, LoneInv
  <2>2. leads' # Operators
    BY <2>1
  <2>3. leads \subseteq {"A"} =>
          repeats' + Cardinality(PA!Open') + Due("A")' <= faults' + losses'
    BY <1>1, <1>4, <1>6, <2>1, CreditTypes DEF AccountInv, LoneInv
  <2>4. CASE leads \subseteq {"A"}
    <3>1. workerB'.pc = "idle"
      BY <1>5, <2>4 DEF ElectionInv
    <3>2. PB!Open' = PA!Open'
      BY <1>2, <3>1, AccountsSame DEF PB!Open, PB!AtStep, PA!Open, PA!AtStep
    <3>3. Due("B")' = 0
      BY <2>4 DEF Due
    <3> QED
      BY <1>6, <2>2, <2>3, <2>4, <3>2, <3>3 DEF LoneInv
  <2>5. CASE ~(leads \subseteq {"A"})
    <3>1. leads \subseteq {"B"} /\ "A" \notin leads /\ "B" \in leads
      BY <2>1, <2>5 DEF Operators
    <3>2. losses' = losses + 1
      BY <3>1 DEF Due
    <3>3. repeats' + Cardinality(PB!Open') + Due("B")' <= faults' + losses'
      BY <1>1, <1>3, <1>6, <3>1, <3>2, CreditTypes DEF AccountInv, LoneInv
    <3> QED
      BY <2>2, <3>1, <3>3 DEF LoneInv
  <2> QED
    BY <2>4, <2>5
<1> QED
  BY <1>3, <1>5, <1>7, <1>8, <1>9 DEF AccountInv

\* Operator B starts again, because it died or because it lost its lease.
LEMMA StartAccountB ==
    ASSUME HInv, AccountInv, B!Start, UNCHANGED <<shared, ownA, lease, overlapped>>,
           leads' = leads \ {"B"},
           losses' = losses + 1 \/ (losses' = losses /\ Due("B") = 1)
    PROVE  AccountInv'
<1>1. UNCHANGED <<api, started, repeats, faults, creations, workerA>>
  BY DEF shared, ownA
<1>2. workerB' = PB!Idle /\ workerB'.pc = "idle"
  BY StartSameB DEF PB!Start, PB!Idle
<1>3. /\ PB!StartedInv' /\ PA!StartedInv' /\ PB!Open' \subseteq PB!Open \union {workerB.key}
      /\ PA!Open' = PA!Open /\ Unstarted' = Unstarted
  <2>1. PB!StartedInv
    BY AccountsSame DEF AccountInv
  <2>2. PB!StartedInv' /\ PB!Open' \subseteq PB!Open \union {workerB.key}
    BY <1>1, <1>2, <2>1, ConstantsB, PB!StartOpens
  <2>3. PA!Open' = PA!Open /\ Unstarted' = Unstarted
    BY <1>1 DEF PA!Open, PA!Underway, PA!AtStep, Unstarted
  <2> QED
    BY <2>2, <2>3, AccountsSame
<1>4. /\ IsFiniteSet(PB!Open') /\ Cardinality(PB!Open') \in Nat
      /\ Cardinality(PB!Open') <= Cardinality(PB!Open) + 1
  BY <1>3, SetCosts DEF AccountInv, FiniteInv
<1>5. ElectionInv'
  BY <1>1, <1>2, CreditTypes DEF AccountInv, ElectionInv
<1>6. /\ Due("B") \in {0, 1} /\ Due("B")' = 0
      /\ Due("A") \in {0, 1} /\ Due("A")' = Due("A")
  BY DueTypes DEF Due
<1>7. FiniteInv'
  BY <1>3, <1>4 DEF AccountInv, FiniteInv
<1>8. JointInv'
  BY <1>1, <1>3, <1>4, <1>6, CreditTypes DEF AccountInv, JointInv
<1>9. LoneInv'
  <2> SUFFICES ASSUME ~overlapped
               PROVE  LoneInv'
    BY DEF LoneInv
  <2>1. leads \subseteq Operators /\ leads # Operators
    BY DEF AccountInv, ElectionInv, LoneInv
  <2>2. leads' # Operators
    BY <2>1
  <2>3. leads \subseteq {"B"} =>
          repeats' + Cardinality(PB!Open') + Due("B")' <= faults' + losses'
    BY <1>1, <1>4, <1>6, <2>1, CreditTypes DEF AccountInv, LoneInv
  <2>4. CASE leads \subseteq {"B"}
    <3>1. workerA'.pc = "idle"
      BY <1>5, <2>4 DEF ElectionInv
    <3>2. PA!Open' = PB!Open'
      BY <1>2, <3>1, AccountsSame DEF PA!Open, PA!AtStep, PB!Open, PB!AtStep
    <3>3. Due("A")' = 0
      BY <2>4 DEF Due
    <3> QED
      BY <1>6, <2>2, <2>3, <2>4, <3>2, <3>3 DEF LoneInv
  <2>5. CASE ~(leads \subseteq {"B"})
    <3>1. leads \subseteq {"A"} /\ "B" \notin leads /\ "A" \in leads
      BY <2>1, <2>5 DEF Operators
    <3>2. losses' = losses + 1
      BY <3>1 DEF Due
    <3>3. repeats' + Cardinality(PA!Open') + Due("A")' <= faults' + losses'
      BY <1>1, <1>3, <1>6, <3>1, <3>2, CreditTypes DEF AccountInv, LoneInv
    <3> QED
      BY <2>2, <3>1, <3>3 DEF LoneInv
  <2> QED
    BY <2>4, <2>5
<1> QED
  BY <1>3, <1>5, <1>7, <1>8, <1>9 DEF AccountInv

\* Initially there is no plan, and operator A leads alone.
LEMMA InitAccount == Init => AccountInv
<1> SUFFICES ASSUME Init PROVE AccountInv
  OBVIOUS
<1>1. /\ api = [p \in Plans |-> NoPlan] /\ repeats = 0 /\ faults = 0 /\ creations = 0
      /\ workerA.pc = "idle" /\ workerB.pc = "idle"
      /\ lease = "A" /\ leads = {"A"} /\ losses = 0 /\ overlapped = FALSE
  BY DEF Init, A!Init, B!Init, A!Idle, B!Idle
<1>2. PA!Open = {} /\ PB!Open = {} /\ Unstarted = {}
  <2>1. PA!Underway = {} /\ PB!Underway = {}
    BY <1>1 DEF PA!Underway, PB!Underway
  <2>2. PA!Open \subseteq PA!Underway /\ PB!Open \subseteq PB!Underway
    BY DEF PA!Open, PB!Open
  <2>3. Unstarted = {}
    BY <1>1 DEF Unstarted
  <2> QED
    BY <2>1, <2>2, <2>3
<1>3. IsFiniteSet({}) /\ Cardinality({}) = 0
  BY FS_EmptySet
<1>4. Due("A") = 0 /\ Due("B") = 0
  BY <1>1 DEF Due
<1>5. MaxSteps * 0 = 0
  BY StepsAssumption
<1>6. PA!StartedInv /\ ElectionInv
  BY <1>1 DEF PA!StartedInv, ElectionInv, Operators
<1>7. FiniteInv
  BY <1>2, <1>3 DEF FiniteInv
<1>8. JointInv
  BY <1>1, <1>2, <1>3, <1>4, <1>5 DEF JointInv
<1>9. LoneInv
  BY <1>1, <1>2, <1>3, <1>4 DEF LoneInv, Operators
<1> QED
  BY <1>6, <1>7, <1>8, <1>9 DEF AccountInv

\* Every step keeps the accounts.
LEMMA NextAccount == HInv /\ AccountInv /\ [Next]_vars => AccountInv'
<1> SUFFICES ASSUME HInv, AccountInv, [Next]_vars
             PROVE  AccountInv'
  OBVIOUS
<1>1. ASSUME NEW o \in Operators, Notice(o) \/ Crash(o)
      PROVE  AccountInv'
  <2>1. Notice(o) => Due(o) = 1
    BY DEF Notice, Due
  <2>2. CASE o = "A"
    <3>1. /\ A!Start /\ UNCHANGED <<shared, ownB, lease, overlapped>>
          /\ leads' = leads \ {"A"}
          /\ losses' = losses + 1 \/ (losses' = losses /\ Due("A") = 1)
      BY <1>1, <2>1, <2>2 DEF Notice, Crash
    <3> QED
      BY <3>1, StartAccountA
  <2>3. CASE o = "B"
    <3>1. /\ B!Start /\ UNCHANGED <<shared, ownA, lease, overlapped>>
          /\ leads' = leads \ {"B"}
          /\ losses' = losses + 1 \/ (losses' = losses /\ Due("B") = 1)
      BY <1>1, <2>1, <2>3 DEF Notice, Crash
    <3> QED
      BY <3>1, StartAccountB
  <2> QED
    BY <2>2, <2>3 DEF Operators
<1>2. CASE UNCHANGED vars
  <2>1. /\ UNCHANGED <<api, started, repeats, faults, creations, workerA, workerB>>
        /\ UNCHANGED election
    BY <1>2 DEF vars, shared, ownA, ownB
  <2> QED
    BY <2>1, OpenSame DEF AccountInv, ElectionInv, FiniteInv, JointInv, LoneInv, Due, election
<1> QED
  BY <1>1, <1>2, UsersAccount, OperatorAccountA, OperatorAccountB, AcquireAccount,
     LapseAccount, ExpireAccount DEF Next

\* Two operators repeat no step without end: each fault and each lost lease is paid for
\* once, by two operators that overlapped twice, and each step of each plan once more.
THEOREM HandoverRepeats == Spec => []RepeatsBounded
<1>1. HInv /\ AccountInv => RepeatsBounded
  <2> SUFFICES ASSUME HInv, AccountInv
               PROVE  RepeatsBounded
    OBVIOUS
  <2>1. Due("A") \in {0, 1} /\ Due("B") \in {0, 1}
    BY DueTypes
  <2>2. repeats <= 2 * faults + losses + MaxSteps * creations
    BY <2>1, CreditTypes DEF AccountInv, JointInv
  <2>3. ~overlapped => repeats <= faults + losses
    <3>1. ~overlapped => leads \subseteq {"A"} \/ leads \subseteq {"B"}
      BY DEF AccountInv, ElectionInv, LoneInv, Operators
    <3> QED
      BY <2>1, <3>1, CreditTypes DEF AccountInv, LoneInv
  <2> QED
    BY <2>2, <2>3 DEF RepeatsBounded
<1>2. AccountInv /\ HInv /\ [Next]_vars => AccountInv'
  BY NextAccount
<1> QED
  BY <1>1, <1>2, InitAccount, HandoverInvariance, PTL DEF Spec

=============================================================================
