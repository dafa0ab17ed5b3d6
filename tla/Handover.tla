----------------------------- MODULE Handover -----------------------------
(***************************************************************************)
(* Two operators, of which the lease lets one lead: the pods of a rollout, *)
(* the old one and the new.  Each has the informer, the work queue and the *)
(* reconciler of StackUpgrade; they share the API server and the Helm      *)
(* releases.  A leader that is paused longer than its lease lasts goes on  *)
(* until it notices, beside the operator that has taken the lease over:    *)
(* nothing it writes or asks Helm for carries the lease.                   *)
(*                                                                         *)
(* The lease is controller-runtime's and client-go's: an operator that has *)
(* noticed exits, and starts again as the one that waits.                  *)
(*                                                                         *)
(* Left out: the approve handler, whose patch is an edit of the plan; two  *)
(* operators with different knowledge bases or flags.                      *)
(***************************************************************************)
EXTENDS Naturals, Sequences

CONSTANTS
    Plans, Tools, Versions, Releases, ToolLists,   \* as in StackUpgrade
    InitialReleases, NoPlan, RollbackMayFail,
    KnowledgeBases, DryRuns,
    Nobody,          \* "no operator"
    MaxFaults, MaxEdits, MaxCreations,
    MaxSteps,        \* bound: steps of a plan
    MaxLosses        \* bound: leases that expire while their holder lives, and crashes

Operators == {"A", "B"}

VARIABLES
    api, rev, rel,                         \* shared, as in StackUpgrade
    started, repeats, done,
    faults, edits, creations,
    approving, kb, dryRun,
    watchA, cacheA, queueA, workerA,       \* the operators' own
    watchB, cacheB, queueB, workerB,
    lease,      \* who holds the lease
    leads,      \* the operators that believe they do
    losses,     \* how many leases have expired while their holder lived, and crashes
    overlapped  \* history: two operators have believed so at once

shared == <<api, rev, rel, started, repeats, done, faults, edits, creations>>
fixed == <<approving, kb, dryRun>>
ownA == <<cacheA, queueA, workerA>>
ownB == <<cacheB, queueB, workerB>>
election == <<lease, leads, losses, overlapped>>
vars == <<shared, fixed, ownA, watchA, ownB, watchB, election>>

A == INSTANCE StackUpgrade WITH
       watch <- watchA, cache <- cacheA, queue <- queueA, worker <- workerA

B == INSTANCE StackUpgrade WITH
       watch <- watchB, cache <- cacheB, queue <- queueB, worker <- workerB

\* As in StackUpgrade.
ASSUME ListsAssumption == ToolLists \subseteq Seq(A!Step) \ {<<>>}
ASSUME KnowledgeAssumption == KnowledgeBases \subseteq SUBSET (Tools \X Versions)
ASSUME ReleasesAssumption == InitialReleases \subseteq [Releases -> A!Release]
ASSUME NoPlanAssumption == NoPlan \notin Plans \union A!Version \union A!AbstractPlan
ASSUME FlagsAssumption == DryRuns \subseteq BOOLEAN /\ RollbackMayFail \in BOOLEAN
ASSUME BoundsAssumption == MaxFaults \in Nat /\ MaxEdits \in Nat /\ MaxCreations \in Nat
ASSUME StepsAssumption == MaxSteps \in Nat /\ \A tools \in ToolLists : Len(tools) <= MaxSteps
ASSUME NobodyAssumption == Nobody \notin Operators

\* The new pod starts beside the old one.
Init ==
    /\ A!Init /\ B!Init
    /\ lease = "A"
    /\ leads = {"A"}
    /\ losses = 0
    /\ overlapped = FALSE

\* What the watch of one operator is sent by a step of the other.
Told(watch) ==
    [p \in Plans |-> IF rev'[p] = rev[p] THEN watch[p] ELSE Append(watch[p], api'[p])]

\* A step of one operator that the other one is told of, or not.
TellsB == watchB' = Told(watchB) /\ UNCHANGED <<ownB, election>>
TellsA == watchA' = Told(watchA) /\ UNCHANGED <<ownA, election>>
KeepsB == UNCHANGED <<watchB, ownB, election>>
KeepsA == UNCHANGED <<watchA, ownA, election>>

\* Users write plans; both operators are told.
Users(p) == A!Users(p) /\ TellsB

\* The informer runs in the operator that waits, too.
DeliverA(p) == A!Deliver(p) /\ KeepsB
DeliverB(p) == B!Deliver(p) /\ KeepsA
RelistA(p) == A!Relist(p) /\ KeepsB
RelistB(p) == B!Relist(p) /\ KeepsA
FallsDueA(p) == A!FallsDue(p) /\ KeepsB
FallsDueB(p) == B!FallsDue(p) /\ KeepsA

\* Plans are reconciled by the operators that believe they lead.
BeginA(p) == "A" \in leads /\ A!Begin(p) /\ KeepsB
BeginB(p) == "B" \in leads /\ B!Begin(p) /\ KeepsA

ReconcileA == A!Reconcile /\ TellsB
ReconcileB == B!Reconcile /\ TellsA

HelmA == A!Helm /\ KeepsB
HelmB == B!Helm /\ KeepsA

-----------------------------------------------------------------------------
(* The lease.                                                              *)

\* The work queue of controllers that start: every plan the informer has.
Listed(cache) == [p \in Plans |-> IF cache[p] = NoPlan THEN "none" ELSE "now"]

\* An operator takes or renews a lease that nobody holds; one that did not
\* lead starts its controllers.
Acquire(o) ==
    /\ lease = Nobody
    /\ lease' = o
    /\ leads' = leads \union {o}
    /\ overlapped' = (overlapped \/ leads' # {o})
    /\ queueA' = IF o = "A" /\ o \notin leads THEN Listed(cacheA) ELSE queueA
    /\ queueB' = IF o = "B" /\ o \notin leads THEN Listed(cacheB) ELSE queueB
    /\ UNCHANGED <<shared, fixed, cacheA, workerA, watchA, cacheB, workerB, watchB, losses>>

\* The lease runs out before its holder, which is paused, renews it.
Lapse ==
    /\ losses < MaxLosses
    /\ losses' = losses + 1
    /\ lease \in leads
    /\ lease' = Nobody
    /\ UNCHANGED <<shared, fixed, ownA, watchA, ownB, watchB, leads, overlapped>>

\* The lease of an operator that died runs out.
Expire ==
    /\ lease # Nobody /\ lease \notin leads
    /\ lease' = Nobody
    /\ UNCHANGED <<shared, fixed, ownA, watchA, ownB, watchB, leads, losses, overlapped>>

\* An operator exits when it finds that it does not hold the lease any more,
\* in the middle of whatever it does, and starts again.
Notice(o) ==
    /\ o \in leads /\ lease # o
    /\ leads' = leads \ {o}
    /\ \/ o = "A" /\ A!Start /\ UNCHANGED <<watchB, ownB>>
       \/ o = "B" /\ B!Start /\ UNCHANGED <<watchA, ownA>>
    /\ UNCHANGED <<shared, lease, losses, overlapped>>

\* An operator dies, and starts again; its lease stays its own until it expires.
Crash(o) ==
    /\ losses < MaxLosses
    /\ losses' = losses + 1
    /\ leads' = leads \ {o}
    /\ \/ o = "A" /\ A!Start /\ UNCHANGED <<watchB, ownB>>
       \/ o = "B" /\ B!Start /\ UNCHANGED <<watchA, ownA>>
    /\ UNCHANGED <<shared, lease, overlapped>>

Next ==
    \/ \E p \in Plans : \/ Users(p)
                       \/ DeliverA(p) \/ RelistA(p) \/ FallsDueA(p) \/ BeginA(p)
                       \/ DeliverB(p) \/ RelistB(p) \/ FallsDueB(p) \/ BeginB(p)
    \/ ReconcileA \/ ReconcileB
    \/ HelmA \/ HelmB
    \/ \E o \in Operators : Acquire(o) \/ Notice(o) \/ Crash(o)
    \/ Lapse \/ Expire

Spec == Init /\ [][Next]_vars

\* As in StackUpgrade, for each operator; a lease nobody holds is taken, and an
\* operator notices that it has lost its own.
Fairness ==
    /\ \A p \in Plans : /\ WF_vars(DeliverA(p)) /\ WF_vars(FallsDueA(p)) /\ SF_vars(BeginA(p))
                        /\ WF_vars(DeliverB(p)) /\ WF_vars(FallsDueB(p)) /\ SF_vars(BeginB(p))
    /\ WF_vars(ReconcileA) /\ WF_vars(ReconcileB)
    /\ WF_vars(HelmA) /\ WF_vars(HelmB)
    /\ WF_vars(\E o \in Operators : Acquire(o)) /\ WF_vars(Expire)
    /\ \A o \in Operators : WF_vars(Notice(o))

FairSpec == Spec /\ Fairness

-----------------------------------------------------------------------------
(* Properties.                                                             *)

\* What either operator hands Helm is an approved plan, and while that object exists
\* it is approved with the same steps; but what it has in hand need not be the stored
\* step any more, because the other one may have carried it on.
RunsApprovedSteps ==
    \A worker \in {workerA, workerB} : worker.pc \in {"helm", "running", "record"} =>
      /\ worker.copy.approved
      /\ worker.copy.status.phase = "Upgrading"
      /\ LET stored == api[worker.key] IN
         stored # NoPlan /\ stored.uid = worker.copy.uid =>
           stored.approved /\ stored.tools = worker.copy.tools

\* currentStep never runs ahead of Helm, also when an operator that has lost
\* the lease and the one that has it carry the same plan out.
StepsCarriedOut == A!StepsCarriedOut

\* A step is handed to the executor once more for each failed write and
\* foreign write, and for each crash and lost lease.  If the operators overlapped,
\* both of them may do so for a foreign write, and the other one may run every step
\* of every plan once more: they do not drive one another on to repeat one for ever.
RepeatsBounded ==
    repeats <= IF overlapped THEN 2 * faults + losses + MaxSteps * creations
                             ELSE faults + losses

Rank == [Pending |-> 1, Approved |-> 2, Upgrading |-> 3, Failed |-> 4, RolledBack |-> 5,
         Succeeded |-> 5]
RankOf(phase) == IF phase = "" THEN 0 ELSE Rank[phase]

\* A stored plan never moves back, whichever operators write it from however old
\* a copy: its phase does not return to one before it, a final one stays, its
\* currentStep does not fall.
NeverBack ==
    [][\A p \in Plans :
         LET old == api[p]  new == api'[p]
         IN old # NoPlan /\ new # NoPlan /\ new.uid = old.uid =>
              /\ RankOf(new.status.phase) >= RankOf(old.status.phase)
              /\ old.status.phase \in A!Final => new.status = old.status
              /\ new.status.step >= old.status.step]_vars

\* Once faults, edits and losses of the lease are over every plan is settled: what one
\* operator left half done the next leader takes up, and what it wrote after it
\* had lost the lease keeps no plan from being carried on.
PlansSettle == <>[](\A p \in Plans : A!Settled(p))
=============================================================================
