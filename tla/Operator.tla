----------------------------- MODULE Operator -----------------------------
(***************************************************************************)
(* The two controllers together.  The policy controller scans the cluster  *)
(* and makes plans, the StackUpgrade controller carries them out, what it  *)
(* installs is what the next scan sees; users write the policy, approve    *)
(* and delete plans; somebody else, or Flux, changes what is installed;    *)
(* the operator restarts, perhaps with another knowledge base or flag.     *)
(*                                                                         *)
(* A plan moves as PlanLifecycle says, which StackUpgrade is shown to      *)
(* implement; what a scan asks for is that of PolicyReport.  The failures  *)
(* of single requests, the lag of the plan cache and the wake-ups of both  *)
(* controllers are the subject of PolicyReconciler and StackUpgrade: here  *)
(* a scan may begin at any time, and end early with an error.              *)
(*                                                                         *)
(* Left out: plans users write by hand, several policies.                  *)
(***************************************************************************)
EXTENDS Naturals, Sequences, Functions

CONSTANTS
    Names, Words, Versions, NoName, NoVersion, BadVersion,  \* as in Matrix
    ToolNames,       \* the tools of the knowledge bases
    Builds,          \* builds of the operator, with the flags they are run with
    KnowledgeBase,   \* the knowledge base of each
    DryRun,          \* the --dry-run flag of each
    Specs,           \* the specs users write
    Clusters,        \* what may be installed: tools with their version and source
    Initially,       \* what is installed when the operator is
    FluxDeclares,    \* per tool, the version Flux declares if it manages the tool
    NoPolicy, NoPlan, NoScan,
    MaxFaults,       \* bound: crashes and scans that fail
    MaxEdits         \* bound: policies written, plans deleted, changes of the cluster

\* The names of the plans autoplan makes: a tool and the version to install.
Plans == ToolNames \X Versions

Step == [tool: ToolNames, target: Versions, current: Versions,
         source: {"helm", "fluxcd", "argocd", "raw"}]

\* Scans of a build.
R(base) == INSTANCE PolicyReport WITH KnowledgeBase <- KnowledgeBase[base]

\* Mutant: the versions to plan are looked for within maxRisk, not the tolerance.
UpgradesWithinMaxRisk(base, spec, seen) ==
    LET within == {R(base)!ToolStatus(ts.name, seen, R(base)!MaxRisk(spec)) :
                     ts \in Range(R(base)!Report(spec, seen).tools)}
    IN {ts \in within : R(base)!WantsPlan(spec, ts) /\ R(base)!CanPlan(ts)}

\* The upgrades for which a scan that sees "seen" makes plans.
UpgradesOf(base, spec, seen) ==
    {ts \in Range(R(base)!Report(spec, seen).tools) :
       R(base)!WantsPlan(spec, ts) /\ R(base)!CanPlan(ts)}

\* The upgrades of every scan there may be, and the names whose step the matrix
\* of a build resolves.
Upgrades == UNION {{<<base, spec, seen>>} \X UpgradesOf(base, spec, seen) :
                     base \in Builds, spec \in Specs, seen \in Clusters}
Resolvable == {x \in Builds \X Plans :
                 R(x[1])!M!Resolve(x[2][1], x[2][2]) # R(x[1])!M!None}

ASSUME BasesAssumption ==
    /\ DOMAIN KnowledgeBase = Builds
    /\ \A base \in Builds :
         /\ KnowledgeBase[base] \in Seq(R(base)!M!Document)
         /\ R(base)!M!WellFormed(KnowledgeBase[base])
         /\ R(base)!Tools \subseteq ToolNames
ASSUME VersionsAssumption == Versions \subseteq Nat \X Nat \X Nat \X {0, 1}
ASSUME NoneAssumption == {NoName, NoVersion, BadVersion} \cap (Names \union Versions) = {}
ASSUME DryRunAssumption == DryRun \in [Builds -> BOOLEAN]
ASSUME SpecsAssumption == \A base \in Builds : Specs \subseteq R(base)!PolicySpec
\* Whatever version of a tool is installed, another may be.
ASSUME ClustersAssumption ==
    \A found \in Clusters : \A t \in DOMAIN found :
       /\ \A base \in Builds : found[t] \in R(base)!Installed
       /\ \A v \in Versions : [found EXCEPT ![t].version = v] \in Clusters
ASSUME InitiallyAssumption == Initially \subseteq Clusters
ASSUME FluxDeclaresAssumption == FluxDeclares \in [ToolNames -> Versions]
ASSUME BoundsAssumption == {MaxFaults, MaxEdits} \subseteq Nat

VARIABLES
    policy,   \* the spec of the policy the API server stores
    cached,    \* the informer's copy of it
    scan,     \* the scan in progress: the spec it read and the upgrades still to plan
    plan,     \* per name, the plan, as in PlanLifecycle
    done,     \* per name, the steps carried out, as in PlanLifecycle
    cluster,  \* what is installed
    build,    \* the running operator
    asked,    \* history: plans a user approved
    gates,    \* history: every policy that was in force, and the operator it was in force for
    faults, edits,
    changes   \* those of the edits that changed the cluster

bounds == <<faults, edits, changes>>
vars == <<policy, cached, scan, plan, done, cluster, build, asked, gates,
          faults, edits, changes>>

L == INSTANCE PlanLifecycle WITH ToolLists <- {<<s>> : s \in Step}

Gate(spec, base) == [spec |-> spec, build |-> base]

Init ==
    /\ policy = NoPolicy /\ cached = NoPolicy /\ scan = NoScan
    /\ L!Init
    /\ cluster \in Initially
    /\ build \in Builds
    /\ asked = {} /\ gates = {}
    /\ faults = 0 /\ edits = 0 /\ changes = 0

-----------------------------------------------------------------------------
(* The policy and its scans.                                               *)

WritePolicy ==
    /\ edits < MaxEdits
    /\ edits' = edits + 1
    /\ policy' \in Specs \ {policy}
    /\ gates' = gates \union {Gate(policy', build)}
    /\ UNCHANGED <<cached, scan, plan, done, cluster, build, asked, faults, changes>>

\* Mutant: the informer's first copy is kept.
DeliverOnce ==
    /\ cached = NoPolicy /\ policy # NoPolicy
    /\ cached' = policy
    /\ UNCHANGED <<policy, scan, plan, done, cluster, build, asked, gates, bounds>>

Deliver ==
    /\ cached # policy
    /\ cached' = policy
    /\ UNCHANGED <<policy, scan, plan, done, cluster, build, asked, gates, bounds>>

\* A scan with these upgrades still to plan; with none it is over.
Scanning(spec, todo) == IF todo = {} THEN NoScan ELSE [spec |-> spec, todo |-> todo]

\* What a scan of the running operator makes plans for.
Wanted(spec, seen) == {x[2] : x \in {y \in Upgrades : y[1] = <<build, spec, seen>>}}

BeginScan ==
    /\ scan = NoScan
    /\ cached # NoPolicy
    /\ scan' = Scanning(cached, Wanted(cached, cluster))
    /\ UNCHANGED <<policy, cached, plan, done, cluster, build, asked, gates, bounds>>

\* Mutant: a plan is named for the version there is.
NameOfCurrent(ts) == <<ts.name, ts.installed.version>>

Name(ts) == <<ts.name, ts.recommended>>

\* There is a plan of that name already, whatever became of it.
SkipUpgrade(ts) ==
    /\ plan[Name(ts)] # NoPlan
    /\ scan' = Scanning(scan.spec, scan.todo \ {ts})
    /\ UNCHANGED <<policy, cached, plan, done, cluster, build, asked, gates, bounds>>

\* Mutant: what autoplan makes is approved.
NewPlanApproved(spec, ts) ==
    [approved |-> spec.autoplan, phase |-> "", step |-> 0,
     tools |-> <<[tool |-> ts.name, target |-> ts.recommended,
                  current |-> ts.installed.version, source |-> ts.installed.source]>>]

NewPlan(spec, ts) ==
    [approved |-> spec.autoApprove, phase |-> "", step |-> 0,
     tools |-> <<[tool |-> ts.name, target |-> ts.recommended,
                  current |-> ts.installed.version, source |-> ts.installed.source]>>]

CreateUpgrade(ts) ==
    /\ plan[Name(ts)] = NoPlan
    /\ plan' = [plan EXCEPT ![Name(ts)] = NewPlan(scan.spec, ts)]
    /\ done' = [done EXCEPT ![Name(ts)] = {}]
    /\ asked' = asked \ {Name(ts)}
    /\ scan' = Scanning(scan.spec, scan.todo \ {ts})
    /\ UNCHANGED <<policy, cached, cluster, build, gates, bounds>>

\* A request of the scan fails, and the scan ends.
ScanFails ==
    /\ faults < MaxFaults
    /\ faults' = faults + 1
    /\ scan # NoScan
    /\ scan' = NoScan
    /\ UNCHANGED <<policy, cached, plan, done, cluster, build, asked, gates, edits, changes>>

-----------------------------------------------------------------------------
(* The plans.                                                              *)

\* A user approves the plan, at once or long after the scan that made it.
ApprovePlan(n) ==
    /\ plan[n] # NoPlan
    /\ ~plan[n].approved
    /\ plan' = [plan EXCEPT ![n].approved = TRUE]
    /\ asked' = asked \union {n}
    /\ UNCHANGED <<policy, cached, scan, done, cluster, build, gates, bounds>>

DeletePlan(n) ==
    /\ edits < MaxEdits
    /\ edits' = edits + 1
    /\ L!Delete(n)
    /\ UNCHANGED <<policy, cached, scan, cluster, build, asked, gates, faults, changes>>

\* What the StackUpgrade controller does without Helm.
Advance(n) ==
    /\ \/ L!Hold(n)
       \/ (<<build, n>> \in Resolvable /\ L!Accept(n))
       \/ L!Start(n)
       \/ L!Advance(n)
       \/ L!Succeed(n)
       \/ (L!Exists(n, {"Failed"}) /\ L!RollBack(n))
    /\ UNCHANGED <<policy, cached, scan, cluster, build, asked, gates, bounds>>

\* A step that was carried out is attempted again only when its result was lost.
Attempt(n) ==
    IF done[n] = {} THEN UNCHANGED faults
    ELSE faults < MaxFaults /\ faults' = faults + 1

\* The step names a chart, and Helm has a release of the tool.
HasRelease(n) ==
    /\ plan[n].tools[1].source # "raw"
    /\ n[1] \in DOMAIN cluster /\ cluster[n[1]].source \in {"helm", "fluxcd"}

\* Helm installs the target over whatever version is there by now.
RunStep(n) ==
    /\ L!CarryOut(n)
    /\ HasRelease(n)
    /\ Attempt(n)
    /\ cluster' = IF DryRun[build] THEN cluster ELSE [cluster EXCEPT ![n[1]].version = n[2]]
    /\ UNCHANGED <<policy, cached, scan, build, asked, gates, edits, changes>>

\* The pre-flight fails, as it does without a chart or a release, or Helm does.
StepFails(n) ==
    /\ L!Exists(n, {"Upgrading"})
    /\ L!Fail(n) \/ (HasRelease(n) /\ L!RollBack(n))
    /\ Attempt(n)
    /\ UNCHANGED <<policy, cached, scan, cluster, build, asked, gates, edits, changes>>

-----------------------------------------------------------------------------
(* The cluster and the operator process.                                   *)

\* Somebody installs, upgrades, removes or takes over a tool.
ChangeCluster ==
    /\ edits < MaxEdits
    /\ edits' = edits + 1
    /\ changes' = changes + 1
    /\ cluster' \in Clusters \ {cluster}
    /\ UNCHANGED <<policy, cached, scan, plan, done, build, asked, gates, faults>>

\* Flux finds a release it manages at another version than it declares.
FluxReverts(t) ==
    /\ t \in DOMAIN cluster /\ cluster[t].source = "fluxcd"
    /\ cluster[t].version # FluxDeclares[t]
    /\ cluster' = [cluster EXCEPT ![t].version = FluxDeclares[t]]
    /\ UNCHANGED <<policy, cached, scan, plan, done, build, asked, gates, bounds>>

Restart ==
    /\ faults < MaxFaults
    /\ faults' = faults + 1
    /\ build' \in Builds
    /\ cached' = policy
    /\ scan' = NoScan
    /\ gates' = IF policy = NoPolicy THEN gates ELSE gates \union {Gate(policy, build')}
    /\ UNCHANGED <<policy, plan, done, cluster, asked, edits, changes>>

\* The upgrades of a scan have their turns, in whatever order its report lists them.
Turn == /\ scan # NoScan
        /\ \E ts \in scan.todo : SkipUpgrade(ts) \/ CreateUpgrade(ts)
Controller(n) == Advance(n) \/ RunStep(n) \/ StepFails(n)

Next ==
    \/ WritePolicy \/ Deliver \/ BeginScan \/ Turn \/ ScanFails
    \/ \E n \in Plans : ApprovePlan(n) \/ DeletePlan(n) \/ Controller(n)
    \/ ChangeCluster
    \/ \E t \in ToolNames : FluxReverts(t)
    \/ Restart

Spec == Init /\ [][Next]_vars

\* The policy's events arrive, scans begin and go on, the StackUpgrade
\* controller goes on with every plan it can.  Nothing is assumed of users, of
\* Flux and of faults.
Fairness ==
    /\ WF_vars(Deliver) /\ WF_vars(BeginScan) /\ WF_vars(Turn)
    /\ \A n \in Plans : WF_vars(Controller(n))

FairSpec == Spec /\ Fairness

-----------------------------------------------------------------------------
(* Properties.                                                             *)

PlanType == [approved: BOOLEAN, tools: {<<s>> : s \in Step}, step: {0, 1},
             phase: {"", "Pending", "Approved", "Upgrading", "Succeeded", "Failed", "RolledBack"}]

\* The state has its types, and the plan of a name has the step of that name.
TypeOK ==
    /\ policy \in Specs \union {NoPolicy} /\ cached \in Specs \union {NoPolicy}
    /\ scan # NoScan => scan.spec \in Specs /\ scan.todo # {}
    /\ plan \in [Plans -> PlanType \union {NoPlan}]
    /\ \A n \in Plans : plan[n] # NoPlan =>
         plan[n].tools[1].tool = n[1] /\ plan[n].tools[1].target = n[2]
    /\ done \in [Plans -> SUBSET {1}]
    /\ cluster \in Clusters
    /\ build \in Builds
    /\ asked \subseteq Plans
    /\ gates \subseteq {Gate(s, b) : s \in Specs, b \in Builds}
    /\ faults \in 0..MaxFaults /\ edits \in 0..MaxEdits /\ changes \in 0..edits

\* A policy that was in force opened both gates for the upgrade n: autoplan
\* and autoApprove, for a tool it tracks and a risk within both of its limits.
Opened(g, n) ==
    /\ g.spec.autoplan /\ g.spec.autoApprove
    /\ \E doc \in Range(KnowledgeBase[g.build]) :
         /\ doc.tool = n[1]
         /\ g.spec.tracked = <<>>
            \/ Range(g.spec.tracked) \cap ({doc.tool} \union Range(doc.aliases)) # {}
         /\ \E v \in Range(doc.versions) :
              /\ v.app = n[2]
              /\ R(g.build)!M!RiskAtOrBelow(v.risk, R(g.build)!Tolerance(g.spec))
              /\ R(g.build)!M!RiskAtOrBelow(v.risk, R(g.build)!MaxRisk(g.spec))

\* docs/HANDOFF.md: push has two gates.  Helm carries out an upgrade only if a
\* user approved that very plan, or if a policy in force at some time had both
\* gates open for it: stale copies of the policy, plans deleted and made again,
\* restarts and other knowledge bases open none.
TwoGates ==
    \A n \in Plans : done[n] # {} => n \in asked \/ \E g \in gates : Opened(g, n)

\* Two policies or builds that were in force disagree about which versions may
\* be recommended.
Disagreed ==
    \E g, h \in gates :
       \/ R(build)!Tolerance(g.spec) # R(build)!Tolerance(h.spec)
       \/ KnowledgeBase[g.build] # KnowledgeBase[h.build]

Lowers(t) == R(build)!M!Greater(cluster[t].version, cluster'[t].version)

\* Flux manages the tool, and declares a version above this one.
FluxAbove(t, version) ==
    cluster[t].source = "fluxcd" /\ R(build)!M!Greater(FluxDeclares[t], version)

\* Nothing compares a plan's current version with what is installed when the
\* plan runs.  Even so a plan lowers a tool's version only if somebody else
\* changed what is installed, Flux included, or the tolerance or the knowledge
\* base was changed: however late a plan is approved, run, or run again after a
\* crash, no two plans of a tool are made that could be carried out in the wrong
\* order.
DowngradeNeedsDisturbance ==
    [][\A n \in Plans : RunStep(n) /\ Lowers(n[1]) =>
         changes > 0 \/ Disagreed \/ FluxAbove(n[1], n[2])]_vars

\* A gate that is closed while a scan is under way, or before the informer
\* tells the controller, stays open for a while: that scan goes on to create,
\* and to approve, plans its copy of the policy calls for.  Once the policy
\* rests that ends, and plans are made as the stored policy says only.
ClosedGatesClose == <>[](scan # NoScan => scan.spec = policy)

\* The plan waits for a user, or it has failed.
Stopped(n) ==
    \/ ~plan[n].approved /\ plan[n].phase = "Pending"
    \/ plan[n].phase = "RolledBack"

\* The plan succeeded, and yet its upgrade is there to be made: Helm only
\* pretended to, Flux or somebody else took the upgrade back, or another plan
\* did, made under another tolerance or knowledge base.  Its name is taken.
Undone(n) ==
    /\ plan[n].phase = "Succeeded"
    /\ \/ \E g \in gates : DryRun[g.build]
       \/ plan[n].tools[1].source = "fluxcd"
       \/ changes > 0
       \/ Disagreed

\* Scans and plans together come to an end: an upgrade that autoplan is to make
\* has its plan, and stays to be made only for one of these reasons.
UpgradesEnd ==
    <>[](policy # NoPolicy =>
           \A ts \in Wanted(policy, cluster) :
             LET n == Name(ts)
             IN plan[n] # NoPlan /\ (Stopped(n) \/ Undone(n)))
=============================================================================
