--------------------------- MODULE OperatorProofs ---------------------------
(***************************************************************************)
(* Proofs about Operator: its types, the two gates, and that plans lower   *)
(* no version on their own, for every knowledge base, policy and cluster.  *)
(***************************************************************************)
EXTENDS Operator, TLAPS

\* What ReportProofs shows of a scan, for those of the running operator.
RP == INSTANCE ReportProofs WITH KnowledgeBase <- KnowledgeBase[build]

-----------------------------------------------------------------------------
(* The scans of ReportProofs are those of Operator.                        *)

\* Its assumptions hold.
LEMMA ReportAssumptions ==
    ASSUME build \in Builds
    PROVE  /\ RP!KnowledgeAssumption /\ RP!VersionsAssumption /\ RP!NoneAssumption
           /\ RP!ClustersAssumption /\ RP!SpecsAssumption
<1>1. RP!KnowledgeAssumption
  <2>1. KnowledgeBase[build] \in Seq(R(build)!M!Document)
        /\ R(build)!M!WellFormed(KnowledgeBase[build])
    BY BasesAssumption
  <2>2. R(build)!M!Document = RP!M!Document
    BY DEF R!M!Document, RP!M!Document, R!M!Entry, RP!M!Entry, R!M!Risks, RP!M!Risks
  <2>3. R(build)!M!WellFormed(KnowledgeBase[build]) <=> RP!M!WellFormed(KnowledgeBase[build])
    BY DEF R!M!WellFormed, RP!M!WellFormed, R!M!validateTool, RP!M!validateTool,
           R!M!Declared, RP!M!Declared, R!M!Ascending, RP!M!Ascending, R!M!Precedes, RP!M!Precedes,
           R!M!Greater, RP!M!Greater, R!M!Apps, RP!M!Apps, R!M!Charts, RP!M!Charts,
           R!M!Risks, RP!M!Risks, R!M!Range, RP!M!Range, R!M!IsInjective, RP!M!IsInjective
  <2> QED
    BY <2>1, <2>2, <2>3 DEF RP!KnowledgeAssumption
<1>2. RP!VersionsAssumption /\ RP!NoneAssumption
  BY VersionsAssumption, NoneAssumption DEF RP!VersionsAssumption, RP!NoneAssumption
<1>3. RP!ClustersAssumption
  BY ClustersAssumption DEF RP!ClustersAssumption, R!Installed, RP!Installed
<1>4. RP!SpecsAssumption
  BY SpecsAssumption
     DEF RP!SpecsAssumption, R!PolicySpec, RP!PolicySpec, R!M!Risks, RP!M!Risks
<1> QED
  BY <1>1, <1>2, <1>3, <1>4

\* The risks compare in the same way, and so do versions.
LEMMA SameOrders ==
    /\ \A base, a, b : R(base)!M!Greater(a, b) <=> RP!M!Greater(a, b)
    /\ \A base, a, b : R(base)!M!RiskAtOrBelow(a, b) <=> RP!M!RiskAtOrBelow(a, b)
    /\ \A base, spec : R(base)!Tolerance(spec) = RP!Tolerance(spec)
    /\ \A base, spec : R(base)!MaxRisk(spec) = RP!MaxRisk(spec)
BY DEF R!M!Greater, RP!M!Greater, R!M!RiskAtOrBelow, RP!M!RiskAtOrBelow, R!M!Rank, RP!M!Rank,
       R!M!riskOrder, RP!M!riskOrder, R!Tolerance, RP!Tolerance, R!MaxRisk, RP!MaxRisk

\* The documents and the names are the same.
LEMMA SameKnown ==
    /\ R(build)!KnownTools = RP!KnownTools /\ R(build)!Tools = RP!Tools
    /\ R(build)!KnownNames = RP!KnownNames
    /\ \A name : R(build)!M!Known(name) <=> RP!M!Known(name)
    /\ \A name : R(build)!M!CanonicalName(name) = RP!M!CanonicalName(name)
    /\ \A name : R(build)!M!Tool(name) = RP!M!Tool(name)
<1>1. R(build)!KnownTools = RP!KnownTools /\ R(build)!Tools = RP!Tools
  BY DEF R!KnownTools, RP!KnownTools, R!Tools, RP!Tools, R!Range, RP!Range
<1>2. R(build)!KnownNames = RP!KnownNames
  BY <1>1 DEF R!KnownNames, RP!KnownNames, R!Range, RP!Range
<1> QED
  BY <1>1, <1>2 DEF R!M!Known, RP!M!Known, R!M!CanonicalName, RP!M!CanonicalName,
                    R!M!Tool, RP!M!Tool

\* So are the loops.
LEMMA SameLoops ==
    /\ \A values, wanted : R(build)!Once(values, wanted) = RP!Once(values, wanted)
    /\ \A entries, candidates :
         R(build)!M!Best(entries, candidates) = RP!M!Best(entries, candidates)
    /\ R(build)!ListTools = RP!ListTools
<1>1. \A values, wanted : R(build)!Once(values, wanted) = RP!Once(values, wanted)
  BY DEF R!Once, RP!Once, R!Range, RP!Range
<1>2. \A entries, candidates :
        R(build)!M!Best(entries, candidates) = RP!M!Best(entries, candidates)
  BY DEF R!M!Best, RP!M!Best, R!M!None, RP!M!None, R!M!Greater, RP!M!Greater
<1>3. R(build)!Cardinality(RP!Tools) = RP!Cardinality(RP!Tools)
  BY DEF R!Cardinality, RP!Cardinality, R!IsFiniteSet, RP!IsFiniteSet
<1>4. R(build)!ListTools = RP!ListTools
  BY <1>3, SameKnown DEF R!ListTools, RP!ListTools, R!IsInjective, RP!IsInjective
<1> QED
  BY <1>1, <1>2, <1>4

\* LatestSafeVersion returns the same entry.
LEMMA SameLatestSafe ==
    ASSUME NEW t, NEW current, NEW tolerance
    PROVE  R(build)!M!LatestSafeVersion(t, current, tolerance)
           = RP!M!LatestSafeVersion(t, current, tolerance)
<1>1. \A v : R(build)!M!Safe(v, current, tolerance) <=> RP!M!Safe(v, current, tolerance)
  BY SameOrders DEF R!M!Safe, RP!M!Safe
<1>2. (R(build)!M!Known(t) <=> RP!M!Known(t)) /\ R(build)!M!Tool(t) = RP!M!Tool(t)
  BY SameKnown
<1> QED
  BY <1>1, <1>2, SameLoops
     DEF R!M!LatestSafeVersion, RP!M!LatestSafeVersion, R!M!None, RP!M!None

\* The reports are the same.
LEMMA SameReport ==
    ASSUME NEW spec, NEW seen
    PROVE  R(build)!Report(spec, seen) = RP!Report(spec, seen)
<1>1. ASSUME NEW t, NEW tolerance, NEW installed
      PROVE  R(build)!ToolStatus(t, installed, tolerance) = RP!ToolStatus(t, installed, tolerance)
  <2> DEFINE tool == IF t \in DOMAIN installed THEN installed[t] ELSE RP!NotInstalled
  <2>1. R(build)!M!LatestSafeVersion(t, tool.version, tolerance)
        = RP!M!LatestSafeVersion(t, tool.version, tolerance)
    BY SameLatestSafe
  <2>2. R(build)!NotInstalled = RP!NotInstalled /\ R(build)!M!None = RP!M!None
    BY DEF R!NotInstalled, RP!NotInstalled, R!M!None, RP!M!None
  <2> QED
    BY <2>1, <2>2 DEF R!ToolStatus, RP!ToolStatus
<1>2. \A tracked : /\ R(build)!CanonicalNames(tracked) = RP!CanonicalNames(tracked)
                   /\ R(build)!Untrackable(tracked) = RP!Untrackable(tracked)
  BY SameKnown, SameLoops DEF R!CanonicalNames, RP!CanonicalNames, R!Untrackable,
     RP!Untrackable, R!Trackable, RP!Trackable
<1>3. R(build)!Reports = RP!Reports
  BY <1>1, <1>2, SameLoops, SameOrders DEF R!Reports, RP!Reports
<1> QED
  BY <1>3 DEF R!Report, RP!Report

\* Autoplan wants the same plans.
LEMMA SameWants ==
    ASSUME NEW spec, NEW ts
    PROVE  R(build)!WantsPlan(spec, ts) <=> RP!WantsPlan(spec, ts)
BY SameOrders DEF R!WantsPlan, RP!WantsPlan

-----------------------------------------------------------------------------
(* The inductive invariant.                                                *)

\* The entries of a tool that the tolerance of a gate allows.
Allowed(g, t) ==
    {v \in UNION {Range(doc.versions) : doc \in {d \in Range(KnowledgeBase[g.build]) : d.tool = t}} :
       R(g.build)!M!RiskAtOrBelow(v.risk, R(g.build)!Tolerance(g.spec))}

\* An upgrade to the highest version they have.
Target(g, n) ==
    /\ n[2] \in {v.app : v \in Allowed(g, n[1])}
    /\ \A v \in Allowed(g, n[1]) : ~R(g.build)!M!Greater(v.app, n[2])

\* A gate that asks for the upgrade n, and opens both gates if it approves plans.
Calls(g, n) == Target(g, n) /\ (g.spec.autoApprove => Opened(g, n))

\* An upgrade a scan may be about to plan, under that gate.
Due(g, ts) ==
    /\ Name(ts) \in Plans
    /\ ts.installed.version \in Versions
    /\ ts.installed.source \in {"helm", "fluxcd", "argocd", "raw"}
    /\ Calls(g, Name(ts))

\* The stored policy and the informer's copy are among those that were in force.
PolicyInv ==
    /\ policy # NoPolicy => policy \in Specs /\ Gate(policy, build) \in gates
    /\ cached # NoPolicy => cached \in Specs /\ Gate(cached, build) \in gates

\* A scan goes on with upgrades that one of them calls for.
ScanInv ==
    scan # NoScan =>
      /\ scan.spec \in Specs /\ scan.todo # {}
      /\ Gate(scan.spec, build) \in gates
      /\ \A ts \in scan.todo : Due(Gate(scan.spec, build), ts)

\* The plan n has the step of its name.
HasStep(n) ==
    /\ plan[n] \in PlanType
    /\ plan[n].tools[1].tool = n[1] /\ plan[n].tools[1].target = n[2]

\* Every plan was called for, and an approved one by a user or with both gates open.
PlanInv ==
    \A n \in Plans :
      /\ plan[n] # NoPlan => HasStep(n) /\ \E g \in gates : Target(g, n)
      /\ (plan[n] # NoPlan /\ plan[n].approved) \/ done[n] # {} =>
           n \in asked \/ \E g \in gates : Opened(g, n)

\* There is a plan n, or a scan is about to make one.
Planned(n) ==
    \/ plan[n] # NoPlan
    \/ scan # NoScan /\ \E ts \in scan.todo : n = Name(ts)

\* The tool of n is installed, and not above n unless Flux has put it there.
InOrder(n) ==
    /\ n[1] \in DOMAIN cluster /\ cluster[n[1]].version \in Versions
    /\ R(build)!M!Greater(cluster[n[1]].version, n[2]) =>
         cluster[n[1]].source = "fluxcd" /\ cluster[n[1]].version = FluxDeclares[n[1]]

\* What is planned is in order, as long as nobody interferes.
OrderInv == changes = 0 /\ ~Disagreed => \A n \in Plans : Planned(n) => InOrder(n)

Types ==
    /\ plan \in [Plans -> PlanType \union {NoPlan}] /\ done \in [Plans -> SUBSET {1}]
    /\ cluster \in Clusters /\ build \in Builds /\ asked \subseteq Plans
    /\ gates \subseteq {Gate(s, b) : s \in Specs, b \in Builds}
    /\ faults \in 0..MaxFaults /\ edits \in 0..MaxEdits /\ changes \in 0..edits

OInv == Types /\ PolicyInv /\ ScanInv /\ PlanInv /\ OrderInv

-----------------------------------------------------------------------------
(* What a scan makes plans for.                                            *)

\* Versions are totally ordered.
LEMMA VersionOrder ==
    ASSUME build \in Builds, NEW base
    PROVE  \A a, b \in Versions :
             /\ ~(R(base)!M!Greater(a, b) /\ R(base)!M!Greater(b, a)) /\ ~R(base)!M!Greater(a, a)
             /\ a = b \/ R(base)!M!Greater(a, b) \/ R(base)!M!Greater(b, a)
BY ReportAssumptions, RP!VersionOrder, SameOrders

\* What a gate allows is what its policy allows in the running operator.
LEMMA SameAllowed ==
    ASSUME NEW spec, NEW t
    PROVE  RP!Allowed(spec, t) = Allowed(Gate(spec, build), t)
BY SameOrders DEF RP!Allowed, Allowed, Gate, RP!Range, Range

\* A scan makes plans for upgrades of what it saw installed, those its policy calls for.
LEMMA WantedIsDue ==
    ASSUME build \in Builds, NEW spec \in Specs, NEW seen \in Clusters,
           NEW ts \in Wanted(spec, seen)
    PROVE  /\ Due(Gate(spec, build), ts)
           /\ ts.name \in DOMAIN seen /\ ts.installed = seen[ts.name]
           /\ R(build)!M!Greater(ts.recommended, ts.installed.version)
<1>1. ts \in UpgradesOf(build, spec, seen)
  <2>1. PICK x \in Upgrades : x[1] = <<build, spec, seen>> /\ x[2] = ts
    BY DEF Wanted
  <2>2. PICK base \in Builds, s \in Specs, found \in Clusters :
          x \in {<<base, s, found>>} \X UpgradesOf(base, s, found)
    BY <2>1 DEF Upgrades
  <2>3. x[1] = <<base, s, found>> /\ x[2] \in UpgradesOf(base, s, found)
    BY <2>2
  <2>4. base = build /\ s = spec /\ found = seen
    BY <2>1, <2>3
  <2> QED
    BY <2>1, <2>3, <2>4
<1>2. ts \in RP!Range(RP!Report(spec, seen).tools) /\ RP!WantsPlan(spec, ts)
  BY <1>1, SameReport, SameWants DEF UpgradesOf, Range, RP!Range
<1>3. /\ ts.name \in RP!Tools /\ ts.name \in DOMAIN seen /\ ts.installed = seen[ts.name]
      /\ ts.installed.version \in Versions /\ ts.recommended \in Versions
      /\ RP!M!Greater(ts.recommended, ts.installed.version)
      /\ RP!Tracks(spec, ts.name)
      /\ RP!HighestAllowed(spec, ts.name, ts.recommended)
      /\ spec.autoplan
      /\ \E v \in RP!Allowed(spec, ts.name) :
           v.app = ts.recommended /\ RP!M!RiskAtOrBelow(v.risk, RP!MaxRisk(spec))
  BY <1>2, ReportAssumptions, RP!WantedUpgrade
<1>4. Name(ts) \in Plans /\ Name(ts)[1] = ts.name /\ Name(ts)[2] = ts.recommended
  <2>1. RP!Tools \subseteq ToolNames
    BY BasesAssumption, SameKnown
  <2> QED
    BY <1>3, <2>1 DEF Name, Plans
<1>5. ts.installed.source \in {"helm", "fluxcd", "argocd", "raw"}
  <2>1. ts.installed \in R(build)!Installed
    BY <1>3, ClustersAssumption
  <2> QED
    BY <2>1 DEF R!Installed
<1> DEFINE g == Gate(spec, build)
<1>6. g.spec = spec /\ g.build = build
  BY DEF Gate
<1>7. Target(g, Name(ts))
  <2>1. \A a, b : R(g.build)!M!Greater(a, b) <=> RP!M!Greater(a, b)
    BY <1>6, SameOrders
  <2> HIDE DEF g
  <2> QED
    BY <1>3, <1>4, <2>1, SameAllowed DEF Target, RP!HighestAllowed, g
<1>8. ASSUME spec.autoApprove
      PROVE  Opened(g, Name(ts))
  <2>1. PICK doc \in Range(KnowledgeBase[build]) :
          /\ doc.tool = ts.name
          /\ spec.tracked = <<>>
             \/ Range(spec.tracked) \cap ({doc.tool} \union Range(doc.aliases)) # {}
    BY <1>3 DEF RP!Tracks, RP!Range, Range
  <2>2. PICK v \in Allowed(g, ts.name) :
          v.app = ts.recommended /\ R(build)!M!RiskAtOrBelow(v.risk, R(build)!MaxRisk(spec))
    BY <1>3, SameAllowed, SameOrders
  <2>3. PICK d \in Range(KnowledgeBase[build]) :
          /\ d.tool = ts.name /\ v \in Range(d.versions)
          /\ R(build)!M!RiskAtOrBelow(v.risk, R(build)!Tolerance(spec))
    BY <1>6, <2>2 DEF Allowed
  <2>4. d = doc
    BY <2>1, <2>3, ReportAssumptions, RP!KnownDocuments DEF RP!Range, Range
  <2> HIDE DEF g
  <2> QED
    BY <1>3, <1>4, <1>6, <1>8, <2>1, <2>2, <2>3, <2>4 DEF Opened
<1> QED
  BY <1>3, <1>4, <1>5, <1>6, <1>7, <1>8, SameOrders DEF Due, Calls

\* Under gates that do not disagree all plans of a tool are for one version.
LEMMA OneTarget ==
    ASSUME build \in Builds, ~Disagreed, NEW g \in gates, NEW h \in gates,
           NEW n \in Plans, NEW m \in Plans, n[1] = m[1], Target(g, n), Target(h, m)
    PROVE  n[2] = m[2]
<1>1. /\ \A base, spec : R(base)!Tolerance(spec) = R(build)!Tolerance(spec)
      /\ \A base, a, b : R(base)!M!RiskAtOrBelow(a, b) <=> R(build)!M!RiskAtOrBelow(a, b)
      /\ \A base, a, b : R(base)!M!Greater(a, b) <=> R(build)!M!Greater(a, b)
  BY SameOrders
<1>2. /\ R(build)!Tolerance(g.spec) = R(build)!Tolerance(h.spec)
      /\ KnowledgeBase[g.build] = KnowledgeBase[h.build]
  BY DEF Disagreed
<1>3. Allowed(g, n[1]) = Allowed(h, m[1])
  BY <1>1, <1>2 DEF Allowed
<1>4. ~R(build)!M!Greater(n[2], m[2]) /\ ~R(build)!M!Greater(m[2], n[2])
  BY <1>1, <1>3 DEF Target
<1>5. n[2] \in Versions /\ m[2] \in Versions
  BY DEF Plans
<1> QED
  BY <1>4, <1>5, VersionOrder

-----------------------------------------------------------------------------
(* What a step does not touch stays right.                                 *)

\* Gates that were opened stay known.
LEMMA PolicyKept ==
    ASSUME PolicyInv, UNCHANGED <<policy, cached, build>>, gates \subseteq gates'
    PROVE  PolicyInv'
BY DEF PolicyInv, Gate

\* The scan goes on.
LEMMA ScanKept ==
    ASSUME ScanInv, UNCHANGED <<scan, build>>, gates \subseteq gates'
    PROVE  ScanInv'
BY DEF ScanInv, Due, Calls, Target, Opened, Gate, Name, Allowed

\* The plans stay as they are.
LEMMA PlansKept ==
    ASSUME PlanInv, UNCHANGED <<plan, done>>, gates \subseteq gates', asked \subseteq asked'
    PROVE  PlanInv'
BY DEF PlanInv, HasStep, Target, Opened, Allowed

\* Nothing more is planned, and what is installed stays.
LEMMA OrderKept ==
    ASSUME OrderInv, UNCHANGED <<cluster, changes>>, gates \subseteq gates',
           \A n \in Plans : Planned(n)' => Planned(n)
    PROVE  OrderInv'
<1>1. ~Disagreed' => ~Disagreed
  BY DEF Disagreed, R!Tolerance
<1>2. \A n : InOrder(n) => InOrder(n)'
  BY DEF InOrder, R!M!Greater
<1> QED
  BY <1>1, <1>2 DEF OrderInv

\* The scan is done with an upgrade.
LEMMA ScanShrinks ==
    ASSUME ScanInv, scan # NoScan, NEW ts, scan' = Scanning(scan.spec, scan.todo \ {ts}),
           build' = build, gates \subseteq gates'
    PROVE  /\ ScanInv'
           /\ scan' # NoScan => scan'.spec = scan.spec /\ scan'.todo \subseteq scan.todo
<1>1. scan' # NoScan => /\ scan'.spec = scan.spec /\ scan'.todo = scan.todo \ {ts}
                        /\ scan'.todo # {}
  BY DEF Scanning
<1>2. \A g, u : Due(g, u)' <=> Due(g, u)
  BY DEF Due, Calls, Target, Opened, Allowed, Name
<1> QED
  BY <1>1, <1>2 DEF ScanInv, Gate

\* A plan's phase and progress change, and nothing else of it.
LEMMA PlanMoves ==
    ASSUME OInv, NEW n \in Plans, plan[n] # NoPlan,
           NEW q \in PlanType, q.tools = plan[n].tools, q.approved = plan[n].approved,
           plan' = [plan EXCEPT ![n] = q], UNCHANGED <<done, asked, gates>>
    PROVE  /\ plan' \in [Plans -> PlanType \union {NoPlan}] /\ PlanInv'
           /\ \A m \in Plans : plan'[m] # NoPlan => plan[m] # NoPlan
<1>1. plan' \in [Plans -> PlanType \union {NoPlan}]
      /\ \A m \in Plans : plan'[m] = IF m = n THEN q ELSE plan[m]
  BY DEF OInv, Types
<1>2. \A g, m : (Target(g, m)' <=> Target(g, m)) /\ (Opened(g, m)' <=> Opened(g, m))
  BY DEF Target, Opened, Allowed
<1>3. ASSUME NEW m \in Plans
      PROVE  /\ plan'[m] # NoPlan => /\ plan[m] # NoPlan /\ plan'[m] \in PlanType
                                     /\ plan'[m].tools = plan[m].tools
                                     /\ plan'[m].approved = plan[m].approved
  BY <1>1 DEF OInv, Types
<1> QED
  BY <1>1, <1>2, <1>3 DEF OInv, PlanInv, HasStep

-----------------------------------------------------------------------------
(* Every step keeps the invariant.                                         *)

\* There is neither a policy nor a plan at first.
LEMMA InitOInv == Init => OInv
<1> SUFFICES ASSUME Init PROVE OInv
  OBVIOUS
<1>1. Types
  BY InitiallyAssumption, BoundsAssumption DEF Init, L!Init, Types
<1>2. \A n \in Plans : plan[n] = NoPlan /\ done[n] = {}
  BY DEF Init, L!Init
<1> QED
  BY <1>1, <1>2 DEF Init, OInv, PolicyInv, ScanInv, PlanInv, OrderInv, Planned

\* A user writes a policy: it is in force at once.
LEMMA WritePolicyOInv == OInv /\ WritePolicy => OInv'
<1> SUFFICES ASSUME OInv, WritePolicy PROVE OInv'
  OBVIOUS
<1>1. /\ policy' \in Specs /\ gates' = gates \union {Gate(policy', build)}
      /\ edits < MaxEdits /\ edits' = edits + 1
      /\ UNCHANGED <<cached, scan, plan, done, cluster, build, asked, faults, changes>>
  BY DEF WritePolicy
<1>2. Types'
  BY <1>1, BoundsAssumption DEF OInv, Types, Gate
<1>3. PolicyInv'
  BY <1>1 DEF OInv, PolicyInv, Gate
<1>4. ScanInv' /\ PlanInv'
  BY <1>1, ScanKept, PlansKept DEF OInv
<1>5. OrderInv'
  BY <1>1, OrderKept DEF OInv, Planned, Name
<1> QED
  BY <1>2, <1>3, <1>4, <1>5 DEF OInv

\* The informer delivers it.
LEMMA DeliverOInv == OInv /\ Deliver => OInv'
<1> SUFFICES ASSUME OInv, Deliver PROVE OInv'
  OBVIOUS
<1>1. /\ cached' = policy
      /\ UNCHANGED <<policy, scan, plan, done, cluster, build, asked, gates, faults, edits, changes>>
  BY DEF Deliver, bounds
<1>2. Types'
  BY <1>1 DEF OInv, Types, Gate
<1>3. PolicyInv'
  BY <1>1 DEF OInv, PolicyInv, Gate
<1>4. ScanInv' /\ PlanInv'
  BY <1>1, ScanKept, PlansKept DEF OInv
<1>5. OrderInv'
  BY <1>1, OrderKept DEF OInv, Planned, Name
<1> QED
  BY <1>2, <1>3, <1>4, <1>5 DEF OInv

\* A scan begins: what it will plan for is above what is installed.
LEMMA BeginScanOInv == OInv /\ BeginScan => OInv'
<1> SUFFICES ASSUME OInv, BeginScan PROVE OInv'
  OBVIOUS
<1>1. /\ cached # NoPolicy /\ scan' = Scanning(cached, Wanted(cached, cluster))
      /\ UNCHANGED <<policy, cached, plan, done, cluster, build, asked, gates, faults, edits, changes>>
  BY DEF BeginScan, bounds
<1>2. build \in Builds /\ cluster \in Clusters /\ cached \in Specs /\ Gate(cached, build) \in gates
  BY <1>1 DEF OInv, Types, PolicyInv
<1>3. scan' # NoScan => /\ scan'.spec = cached /\ scan'.todo = Wanted(cached, cluster)
                        /\ scan'.todo # {}
  BY <1>1 DEF Scanning
<1>4. Types' /\ PolicyInv' /\ PlanInv'
  BY <1>1, PolicyKept, PlansKept DEF OInv, Types, Gate
<1>5. ScanInv'
  <2>1. \A g, u : Due(g, u)' <=> Due(g, u)
    BY DEF Due, Calls, Target, Opened, Allowed, Name
  <2>2. \A ts \in Wanted(cached, cluster) : Due(Gate(cached, build), ts)
    BY <1>2, WantedIsDue
  <2> QED
    BY <1>1, <1>2, <1>3, <2>1, <2>2 DEF ScanInv, Gate
<1>6. OrderInv'
  <2> SUFFICES ASSUME changes' = 0, ~Disagreed', NEW n \in Plans, Planned(n)'
               PROVE  InOrder(n)'
    BY DEF OrderInv
  <2>1. ~Disagreed
    BY <1>1 DEF Disagreed, R!Tolerance
  <2>2. InOrder(n) => InOrder(n)'
    BY <1>1 DEF InOrder, R!M!Greater
  <2>3. CASE plan[n] # NoPlan
    BY <1>1, <2>1, <2>2, <2>3 DEF OInv, OrderInv, Planned
  <2>4. CASE plan[n] = NoPlan
    <3>1. PICK ts \in Wanted(cached, cluster) : n = Name(ts)
      BY <1>1, <1>3, <2>4 DEF Planned, Name
    <3>2. /\ n[1] \in DOMAIN cluster /\ cluster[n[1]].version \in Versions
          /\ R(build)!M!Greater(n[2], cluster[n[1]].version)
      BY <1>2, <3>1, WantedIsDue DEF Name, Due
    <3>3. n[2] \in Versions
      BY DEF Plans
    <3>4. ~R(build)!M!Greater(cluster[n[1]].version, n[2])
      BY <1>2, <3>2, <3>3, VersionOrder
    <3> QED
      BY <2>2, <3>2, <3>4 DEF InOrder
  <2> QED
    BY <2>3, <2>4
<1> QED
  BY <1>4, <1>5, <1>6 DEF OInv

\* There is a plan of that name: the scan goes on.
LEMMA SkipUpgradeOInv ==
    ASSUME OInv, scan # NoScan, NEW ts \in scan.todo, SkipUpgrade(ts)
    PROVE  OInv'
<1>1. /\ scan' = Scanning(scan.spec, scan.todo \ {ts})
      /\ UNCHANGED <<policy, cached, plan, done, cluster, build, asked, gates, faults, edits, changes>>
  BY DEF SkipUpgrade, bounds
<1>2. ScanInv' /\ (scan' # NoScan => scan'.spec = scan.spec /\ scan'.todo \subseteq scan.todo)
  BY <1>1, ScanShrinks DEF OInv
<1>3. Types' /\ PolicyInv' /\ PlanInv'
  BY <1>1, PolicyKept, PlansKept DEF OInv, Types, Gate
<1>4. OrderInv'
  BY <1>1, <1>2, OrderKept DEF OInv, Planned, Name
<1> QED
  BY <1>2, <1>3, <1>4 DEF OInv

\* The scan makes the plan, approved if its copy of the policy says so.
LEMMA CreateUpgradeOInv ==
    ASSUME OInv, scan # NoScan, NEW ts \in scan.todo, CreateUpgrade(ts)
    PROVE  OInv'
<1> DEFINE n == Name(ts)
           g == Gate(scan.spec, build)
           new == NewPlan(scan.spec, ts)
<1>1. /\ plan' = [plan EXCEPT ![n] = new] /\ done' = [done EXCEPT ![n] = {}]
      /\ asked' = asked \ {n} /\ scan' = Scanning(scan.spec, scan.todo \ {ts})
      /\ UNCHANGED <<policy, cached, cluster, build, gates, faults, edits, changes>>
  BY DEF CreateUpgrade, bounds
<1>2. /\ ScanInv' /\ scan.spec \in Specs /\ g \in gates /\ Due(g, ts)
      /\ scan' # NoScan => scan'.spec = scan.spec /\ scan'.todo \subseteq scan.todo
  <2>1. ScanInv
    BY DEF OInv
  <2> QED
    BY <1>1, <2>1, ScanShrinks DEF ScanInv
<1>3. /\ n \in Plans /\ n = <<ts.name, ts.recommended>> /\ Target(g, n)
      /\ scan.spec.autoApprove => Opened(g, n)
  BY <1>2 DEF Due, Calls, Name, Gate
<1>4. scan.spec.autoApprove \in BOOLEAN
  <2>1. scan.spec \in R(build)!PolicySpec
    BY <1>2, SpecsAssumption DEF OInv, Types
  <2> QED
    BY <2>1 DEF R!PolicySpec
<1>5. /\ new \in PlanType /\ new.tools[1].tool = n[1] /\ new.tools[1].target = n[2]
      /\ new.approved = scan.spec.autoApprove
  <2> DEFINE step == [tool |-> ts.name, target |-> ts.recommended,
                      current |-> ts.installed.version, source |-> ts.installed.source]
  <2>1. step \in Step /\ step.tool = n[1] /\ step.target = n[2]
    BY <1>2, <1>3 DEF Due, Step, Plans
  <2>2. new = [approved |-> scan.spec.autoApprove, phase |-> "", step |-> 0, tools |-> <<step>>]
    BY DEF NewPlan
  <2> HIDE DEF step, new
  <2> QED
    BY <1>4, <2>1, <2>2 DEF PlanType
<1> HIDE DEF new
<1>6. /\ plan' \in [Plans -> PlanType \union {NoPlan}] /\ done' \in [Plans -> SUBSET {1}]
      /\ \A m \in Plans : /\ plan'[m] = IF m = n THEN new ELSE plan[m]
                          /\ done'[m] = IF m = n THEN {} ELSE done[m]
  <2> HIDE DEF n
  <2> QED
    BY <1>1, <1>3, <1>5 DEF OInv, Types
<1>7. Types' /\ PolicyInv'
  BY <1>1, <1>6, PolicyKept DEF OInv, Types, Gate
<1>8. PlanInv'
  <2>1. \A h, m : (Target(h, m)' <=> Target(h, m)) /\ (Opened(h, m)' <=> Opened(h, m))
    BY DEF Target, Opened, Allowed
  <2> SUFFICES ASSUME NEW m \in Plans
               PROVE  /\ plan'[m] # NoPlan => HasStep(m)' /\ \E h \in gates : Target(h, m)
                      /\ (plan'[m] # NoPlan /\ plan'[m].approved) \/ done'[m] # {} =>
                           m \in asked' \/ \E h \in gates : Opened(h, m)
    BY <1>1, <2>1 DEF PlanInv
  <2>2. CASE m = n
    <3>1. plan'[m] = new /\ done'[m] = {}
      BY <1>6, <2>2
    <3>2. HasStep(m)'
      BY <1>5, <2>2, <3>1 DEF HasStep
    <3> HIDE DEF n, g
    <3> QED
      BY <1>2, <1>3, <1>5, <2>2, <3>1, <3>2
  <2>3. CASE m # n
    <3>1. plan'[m] = plan[m] /\ done'[m] = done[m]
      BY <1>6, <2>3
    <3>2. HasStep(m)' <=> HasStep(m)
      BY <3>1 DEF HasStep
    <3>3. m \in asked => m \in asked'
      BY <1>1, <2>3
    <3> HIDE DEF n
    <3> QED
      BY <3>1, <3>2, <3>3 DEF OInv, PlanInv
  <2> QED
    BY <2>2, <2>3
<1>9. OrderInv'
  <2>1. Planned(n)
    BY DEF Planned
  <2>2. ASSUME NEW m \in Plans, Planned(m)'
        PROVE  Planned(m)
    <3> HIDE DEF n
    <3> QED
      BY <1>2, <1>6, <2>1, <2>2 DEF Planned, Name
  <2> QED
    BY <1>1, <2>2, OrderKept DEF OInv
<1> QED
  BY <1>2, <1>7, <1>8, <1>9 DEF OInv

\* The scan ends early.
LEMMA ScanFailsOInv == OInv /\ ScanFails => OInv'
<1> SUFFICES ASSUME OInv, ScanFails PROVE OInv'
  OBVIOUS
<1>1. /\ faults < MaxFaults /\ faults' = faults + 1 /\ scan' = NoScan
      /\ UNCHANGED <<policy, cached, plan, done, cluster, build, asked, gates, edits, changes>>
  BY DEF ScanFails
<1>2. Types'
  BY <1>1, BoundsAssumption DEF OInv, Types, Gate
<1>3. PolicyInv' /\ ScanInv' /\ PlanInv'
  BY <1>1, PolicyKept, PlansKept DEF OInv, ScanInv
<1>4. OrderInv'
  BY <1>1, OrderKept DEF OInv, Planned
<1> QED
  BY <1>2, <1>3, <1>4 DEF OInv

\* A user approves a plan.
LEMMA ApprovePlanOInv ==
    ASSUME OInv, NEW n \in Plans, ApprovePlan(n)
    PROVE  OInv'
<1>1. /\ plan[n] # NoPlan /\ plan' = [plan EXCEPT ![n].approved = TRUE]
      /\ asked' = asked \union {n}
      /\ UNCHANGED <<policy, cached, scan, done, cluster, build, gates, faults, edits, changes>>
  BY DEF ApprovePlan, bounds
<1>2. plan[n] \in PlanType
  BY <1>1 DEF OInv, Types
<1>3. /\ plan' \in [Plans -> PlanType \union {NoPlan}]
      /\ \A m \in Plans \ {n} : plan'[m] = plan[m]
      /\ plan'[n] \in PlanType /\ plan'[n].tools = plan[n].tools
  <2> DEFINE q == [plan[n] EXCEPT !.approved = TRUE]
  <2>1. q \in PlanType /\ q.tools = plan[n].tools
    BY <1>2 DEF PlanType
  <2>2. plan' = [plan EXCEPT ![n] = q]
    BY <1>1
  <2> HIDE DEF q
  <2> QED
    BY <2>1, <2>2 DEF OInv, Types
<1>4. Types' /\ PolicyInv' /\ ScanInv'
  BY <1>1, <1>3, PolicyKept, ScanKept DEF OInv, Types, Gate
<1>5. PlanInv'
  <2>1. \A h, m : (Target(h, m)' <=> Target(h, m)) /\ (Opened(h, m)' <=> Opened(h, m))
    BY DEF Target, Opened, Allowed
  <2>2. HasStep(n)' /\ \E g \in gates : Target(g, n)
    BY <1>1, <1>3 DEF OInv, PlanInv, HasStep
  <2>3. \A m \in Plans \ {n} : HasStep(m)' <=> HasStep(m)
    BY <1>3 DEF HasStep
  <2>4. n \in asked' /\ asked \subseteq asked'
    BY <1>1
  <2> QED
    BY <1>1, <1>3, <2>1, <2>2, <2>3, <2>4 DEF OInv, PlanInv
<1>6. OrderInv'
  BY <1>1, <1>3, OrderKept DEF OInv, Planned, Name
<1> QED
  BY <1>4, <1>5, <1>6 DEF OInv

\* A user deletes a plan, whose name may have been carried out.
LEMMA DeletePlanOInv ==
    ASSUME OInv, NEW n \in Plans, DeletePlan(n)
    PROVE  OInv'
<1>1. /\ edits < MaxEdits /\ edits' = edits + 1 /\ plan' = [plan EXCEPT ![n] = NoPlan]
      /\ UNCHANGED <<policy, cached, scan, done, cluster, build, asked, gates, faults, changes>>
  BY DEF DeletePlan, L!Delete
<1>2. /\ plan' \in [Plans -> PlanType \union {NoPlan}]
      /\ \A m \in Plans : plan'[m] = IF m = n THEN NoPlan ELSE plan[m]
  BY <1>1 DEF OInv, Types
<1>3. Types' /\ PolicyInv' /\ ScanInv'
  BY <1>1, <1>2, BoundsAssumption, PolicyKept, ScanKept DEF OInv, Types, Gate
<1>4. PlanInv'
  <2>1. \A h, m : (Target(h, m)' <=> Target(h, m)) /\ (Opened(h, m)' <=> Opened(h, m))
    BY DEF Target, Opened, Allowed
  <2>2. \A m \in Plans \ {n} : HasStep(m)' <=> HasStep(m)
    BY <1>2 DEF HasStep
  <2> QED
    BY <1>1, <1>2, <2>1, <2>2 DEF OInv, PlanInv
<1>5. OrderInv'
  BY <1>1, <1>2, OrderKept DEF OInv, Planned, Name
<1> QED
  BY <1>3, <1>4, <1>5 DEF OInv

\* A plan's phase goes on, or its step is recorded.
LEMMA PhaseMoves ==
    ASSUME OInv, NEW n \in Plans,
           \/ L!Hold(n) \/ L!Accept(n) \/ L!Start(n) \/ L!Advance(n)
           \/ L!Succeed(n) \/ L!Fail(n) \/ L!RollBack(n)
    PROVE  /\ plan[n] # NoPlan /\ UNCHANGED done
           /\ \E q \in PlanType : /\ q.tools = plan[n].tools /\ q.approved = plan[n].approved
                                  /\ plan' = [plan EXCEPT ![n] = q]
<1>1. plan[n] # NoPlan /\ UNCHANGED done
  BY DEF L!Hold, L!Accept, L!Start, L!Advance, L!Succeed, L!Fail, L!RollBack, L!Exists, L!MoveTo
<1>2. plan[n] \in PlanType /\ done[n] \subseteq {1}
  BY <1>1 DEF OInv, Types
<1>3. ASSUME NEW phase, phase \in {"Pending", "Approved", "Upgrading", "Succeeded", "Failed", "RolledBack"},
             L!MoveTo(n, phase)
      PROVE  \E q \in PlanType : /\ q.tools = plan[n].tools /\ q.approved = plan[n].approved
                                 /\ plan' = [plan EXCEPT ![n] = q]
  <2> DEFINE q == [plan[n] EXCEPT !.phase = phase]
  <2>1. q \in PlanType /\ q.tools = plan[n].tools /\ q.approved = plan[n].approved
    BY <1>2, <1>3 DEF PlanType
  <2>2. plan' = [plan EXCEPT ![n] = q]
    BY <1>3 DEF L!MoveTo
  <2> QED
    BY <2>1, <2>2
<1>4. CASE L!Advance(n)
  <2> DEFINE q == [plan[n] EXCEPT !.step = plan[n].step + 1]
  <2>1. plan[n].step + 1 = 1
    BY <1>2, <1>4 DEF L!Advance, PlanType
  <2>2. q \in PlanType /\ q.tools = plan[n].tools /\ q.approved = plan[n].approved
    BY <1>2, <2>1 DEF PlanType
  <2>3. plan' = [plan EXCEPT ![n] = q]
    BY <1>4 DEF L!Advance
  <2> QED
    BY <1>1, <2>2, <2>3
<1> QED
  BY <1>1, <1>3, <1>4
     DEF L!Hold, L!Accept, L!Start, L!Succeed, L!Fail, L!RollBack

\* The StackUpgrade controller moves a plan on.
LEMMA AdvanceOInv ==
    ASSUME OInv, NEW n \in Plans, Advance(n)
    PROVE  OInv'
<1>1. /\ \/ L!Hold(n) \/ L!Accept(n) \/ L!Start(n) \/ L!Advance(n)
         \/ L!Succeed(n) \/ L!Fail(n) \/ L!RollBack(n)
      /\ UNCHANGED <<policy, cached, scan, cluster, build, asked, gates, faults, edits, changes>>
  BY DEF Advance, bounds
<1>2. UNCHANGED done
  BY <1>1, PhaseMoves
<1>3. /\ plan' \in [Plans -> PlanType \union {NoPlan}] /\ PlanInv'
      /\ \A m \in Plans : plan'[m] # NoPlan => plan[m] # NoPlan
  BY <1>1, PhaseMoves, PlanMoves
<1>4. Types' /\ PolicyInv' /\ ScanInv'
  BY <1>1, <1>2, <1>3, PolicyKept, ScanKept DEF OInv, Types, Gate
<1>5. OrderInv'
  BY <1>1, <1>3, OrderKept DEF OInv, Planned, Name
<1> QED
  BY <1>3, <1>4, <1>5 DEF OInv

\* A step is not attempted more often than the bound allows.
LEMMA AttemptTypes ==
    ASSUME OInv, NEW n \in Plans, Attempt(n)
    PROVE  faults' \in 0..MaxFaults
BY BoundsAssumption DEF OInv, Types, Attempt

\* A step fails.
LEMMA StepFailsOInv ==
    ASSUME OInv, NEW n \in Plans, StepFails(n)
    PROVE  OInv'
<1>1. /\ L!Fail(n) \/ L!RollBack(n)
      /\ Attempt(n)
      /\ UNCHANGED <<policy, cached, scan, cluster, build, asked, gates, edits, changes>>
  BY DEF StepFails
<1>2. UNCHANGED done
  BY <1>1, PhaseMoves
<1>3. /\ plan' \in [Plans -> PlanType \union {NoPlan}] /\ PlanInv'
      /\ \A m \in Plans : plan'[m] # NoPlan => plan[m] # NoPlan
  BY <1>1, PhaseMoves, PlanMoves
<1>4. Types' /\ PolicyInv' /\ ScanInv'
  BY <1>1, <1>2, <1>3, AttemptTypes, PolicyKept, ScanKept DEF OInv, Types, Gate
<1>5. OrderInv'
  BY <1>1, <1>3, OrderKept DEF OInv, Planned, Name
<1> QED
  BY <1>3, <1>4, <1>5 DEF OInv

\* Whatever happens to one tool's version, what is installed is among Clusters.
LEMMA ClusterChanges ==
    ASSUME build \in Builds, NEW found \in Clusters, NEW t \in DOMAIN found, NEW v \in Versions
    PROVE  /\ [found EXCEPT ![t].version = v] \in Clusters
           /\ DOMAIN [found EXCEPT ![t].version = v] = DOMAIN found
           /\ [found EXCEPT ![t].version = v][t].version = v
           /\ [found EXCEPT ![t].version = v][t].source = found[t].source
           /\ \A u \in DOMAIN found \ {t} : [found EXCEPT ![t].version = v][u] = found[u]
<1>1. found[t] \in R(build)!Installed /\ [found EXCEPT ![t].version = v] \in Clusters
  BY ClustersAssumption
<1>2. found[t] \in [version: Versions \union {NoVersion, BadVersion},
                   source: {"helm", "fluxcd", "argocd", "raw"}]
  BY <1>1 DEF R!Installed
<1> QED
  BY <1>1, <1>2

\* Helm installs the plan's target: what else is planned for the tool is the same.
LEMMA RunStepOInv ==
    ASSUME OInv, NEW n \in Plans, RunStep(n)
    PROVE  OInv'
<1>1. /\ L!CarryOut(n) /\ HasRelease(n) /\ Attempt(n)
      /\ cluster' = IF DryRun[build] THEN cluster ELSE [cluster EXCEPT ![n[1]].version = n[2]]
      /\ UNCHANGED <<policy, cached, scan, plan, build, asked, gates, edits, changes>>
  BY DEF RunStep, L!CarryOut
<1>2. /\ plan[n] # NoPlan /\ plan[n].approved /\ plan[n].step < Len(plan[n].tools)
      /\ done' = [done EXCEPT ![n] = @ \union {plan[n].step + 1}]
  BY <1>1 DEF L!CarryOut, L!Exists, L!MoreSteps
<1>3. plan[n].step + 1 = 1
  <2>1. plan[n] \in PlanType
    BY <1>2 DEF OInv, Types
  <2>2. PICK s \in Step : plan[n].tools = <<s>>
    BY <2>1 DEF PlanType
  <2>3. Len(plan[n].tools) = 1 /\ plan[n].step \in {0, 1}
    BY <2>1, <2>2 DEF PlanType
  <2> QED
    BY <1>2, <2>3
<1>4. done' \in [Plans -> SUBSET {1}] /\ \A m \in Plans \ {n} : done'[m] = done[m]
  BY <1>2, <1>3 DEF OInv, Types
<1>5. n[1] \in DOMAIN cluster /\ n[2] \in Versions /\ cluster \in Clusters /\ build \in Builds
  BY <1>1 DEF HasRelease, Plans, OInv, Types
<1>6. cluster' \in Clusters
  BY <1>1, <1>5, ClusterChanges
<1>7. Types' /\ PolicyInv' /\ ScanInv'
  BY <1>1, <1>4, <1>6, AttemptTypes, PolicyKept, ScanKept DEF OInv, Types, Gate
<1>8. PlanInv'
  <2>1. \A h, m : (Target(h, m)' <=> Target(h, m)) /\ (Opened(h, m)' <=> Opened(h, m))
    BY DEF Target, Opened, Allowed
  <2>2. \A m \in Plans : HasStep(m)' <=> HasStep(m)
    BY <1>1 DEF HasStep
  <2>3. n \in asked \/ \E g \in gates : Opened(g, n)
    BY <1>2 DEF OInv, PlanInv
  <2> QED
    BY <1>1, <1>4, <2>1, <2>2, <2>3 DEF OInv, PlanInv
<1>9. OrderInv'
  <2> SUFFICES ASSUME changes' = 0, ~Disagreed', NEW m \in Plans, Planned(m)'
               PROVE  InOrder(m)'
    BY DEF OrderInv
  <2>1. changes = 0 /\ ~Disagreed /\ Planned(m) /\ Planned(n)
    BY <1>1, <1>2 DEF Disagreed, R!Tolerance, Planned, Name
  <2>2. InOrder(m)
    BY <2>1 DEF OInv, OrderInv
  <2>3. CASE cluster' = cluster \/ m[1] # n[1]
    <3>1. /\ m[1] \in DOMAIN cluster /\ m[1] \in DOMAIN cluster'
          /\ cluster'[m[1]] = cluster[m[1]]
      BY <1>1, <1>5, <2>2, <2>3, ClusterChanges DEF InOrder
    <3> QED
      BY <2>2, <3>1 DEF InOrder, R!M!Greater
  <2>4. CASE cluster' # cluster /\ m[1] = n[1]
    <3>1. n[1] \in DOMAIN cluster' /\ cluster'[n[1]].version = n[2]
      BY <1>1, <1>5, <2>4, ClusterChanges
    <3>2. PICK g \in gates : Target(g, n)
      BY <1>2 DEF OInv, PlanInv
    <3>3. PICK h \in gates : Target(h, m)
      <4>1. CASE plan[m] # NoPlan
        BY <4>1 DEF OInv, PlanInv
      <4>2. CASE plan[m] = NoPlan
        <5>1. PICK ts \in scan.todo : m = Name(ts) /\ scan # NoScan
          BY <2>1, <4>2 DEF Planned
        <5>2. Gate(scan.spec, build) \in gates /\ Target(Gate(scan.spec, build), Name(ts))
          BY <5>1 DEF OInv, ScanInv, Due, Calls
        <5> QED
          BY <5>1, <5>2
      <4> QED
        BY <4>1, <4>2
    <3>4. m[2] = n[2]
      BY <1>5, <2>1, <2>4, <3>2, <3>3, OneTarget
    <3>5. ~R(build)!M!Greater(n[2], n[2])
      BY <1>5, VersionOrder
    <3>6. ~R(build')!M!Greater(n[2], n[2])
      BY <1>1, <3>5
    <3> QED
      BY <1>5, <2>4, <3>1, <3>4, <3>6 DEF InOrder
  <2> QED
    BY <2>3, <2>4
<1> QED
  BY <1>7, <1>8, <1>9 DEF OInv

\* Somebody else changes what is installed: the order of plans is no longer promised.
LEMMA ChangeClusterOInv == OInv /\ ChangeCluster => OInv'
<1> SUFFICES ASSUME OInv, ChangeCluster PROVE OInv'
  OBVIOUS
<1>1. /\ edits < MaxEdits /\ edits' = edits + 1 /\ changes' = changes + 1 /\ cluster' \in Clusters
      /\ UNCHANGED <<policy, cached, scan, plan, done, build, asked, gates, faults>>
  BY DEF ChangeCluster
<1>2. Types'
  BY <1>1, BoundsAssumption DEF OInv, Types, Gate
<1>3. PolicyInv' /\ ScanInv' /\ PlanInv'
  BY <1>1, PolicyKept, ScanKept, PlansKept DEF OInv
<1>4. changes' # 0
  BY <1>1, BoundsAssumption DEF OInv, Types
<1>5. OrderInv'
  BY <1>4 DEF OrderInv
<1> QED
  BY <1>2, <1>3, <1>5 DEF OInv

\* Flux restores what it declares.
LEMMA FluxRevertsOInv ==
    ASSUME OInv, NEW t \in ToolNames, FluxReverts(t)
    PROVE  OInv'
<1>1. /\ t \in DOMAIN cluster /\ cluster[t].source = "fluxcd"
      /\ cluster' = [cluster EXCEPT ![t].version = FluxDeclares[t]]
      /\ UNCHANGED <<policy, cached, scan, plan, done, build, asked, gates, faults, edits, changes>>
  BY DEF FluxReverts, bounds
<1>2. cluster \in Clusters /\ build \in Builds /\ FluxDeclares[t] \in Versions
  BY FluxDeclaresAssumption DEF OInv, Types
<1>3. cluster' \in Clusters /\ DOMAIN cluster' = DOMAIN cluster
      /\ cluster'[t].version = FluxDeclares[t] /\ cluster'[t].source = "fluxcd"
      /\ \A u \in DOMAIN cluster \ {t} : cluster'[u] = cluster[u]
  BY <1>1, <1>2, ClusterChanges
<1>4. Types' /\ PolicyInv' /\ ScanInv' /\ PlanInv'
  BY <1>1, <1>3, PolicyKept, ScanKept, PlansKept DEF OInv, Types, Gate
<1>5. OrderInv'
  <2> SUFFICES ASSUME changes' = 0, ~Disagreed', NEW n \in Plans, Planned(n)'
               PROVE  InOrder(n)'
    BY DEF OrderInv
  <2>1. InOrder(n)
    BY <1>1 DEF OInv, OrderInv, Disagreed, R!Tolerance, Planned, Name
  <2>2. CASE n[1] = t
    BY <1>1, <1>2, <1>3, <2>2 DEF InOrder
  <2>3. CASE n[1] # t
    BY <1>3, <2>1, <2>3 DEF InOrder, R!M!Greater
  <2> QED
    BY <2>2, <2>3
<1> QED
  BY <1>4, <1>5 DEF OInv

\* The operator restarts: its scan is lost, and the stored policy is in force.
LEMMA RestartOInv == OInv /\ Restart => OInv'
<1> SUFFICES ASSUME OInv, Restart PROVE OInv'
  OBVIOUS
<1>1. /\ faults < MaxFaults /\ faults' = faults + 1 /\ build' \in Builds
      /\ cached' = policy /\ scan' = NoScan
      /\ gates' = IF policy = NoPolicy THEN gates ELSE gates \union {Gate(policy, build')}
      /\ UNCHANGED <<policy, plan, done, cluster, asked, edits, changes>>
  BY DEF Restart
<1>2. policy # NoPolicy => policy \in Specs
  BY DEF OInv, PolicyInv
<1>3. gates \subseteq gates' /\ (policy # NoPolicy => Gate(policy, build') \in gates')
  BY <1>1
<1>4. gates' \subseteq {Gate(s, b) : s \in Specs, b \in Builds}
  BY <1>1, <1>2 DEF OInv, Types
<1>5. Types'
  BY <1>1, <1>4, BoundsAssumption DEF OInv, Types, Gate
<1>6. PolicyInv'
  BY <1>1, <1>2, <1>3 DEF PolicyInv, Gate
<1>7. ScanInv' /\ PlanInv'
  BY <1>1, <1>3, PlansKept DEF OInv, ScanInv
<1>8. OrderInv'
  BY <1>1, <1>3, OrderKept DEF OInv, Planned
<1> QED
  BY <1>5, <1>6, <1>7, <1>8 DEF OInv

\* The invariant holds throughout.
LEMMA OInvHolds == Spec => []OInv
<1>1. ASSUME OInv, UNCHANGED vars
      PROVE  OInv'
  <2>1. UNCHANGED <<policy, cached, scan, plan, done, cluster, build, asked, gates, faults, edits, changes>>
    BY <1>1 DEF vars
  <2>2. Types' /\ PolicyInv' /\ ScanInv' /\ PlanInv'
    BY <1>1, <2>1, PolicyKept, ScanKept, PlansKept DEF OInv, Types, Gate
  <2>3. OrderInv'
    BY <1>1, <2>1, OrderKept DEF OInv, Planned, Name
  <2> QED
    BY <2>2, <2>3 DEF OInv
<1>2. OInv /\ Turn => OInv'
  BY SkipUpgradeOInv, CreateUpgradeOInv DEF Turn
<1>3. ASSUME OInv, NEW n \in Plans, ApprovePlan(n) \/ DeletePlan(n) \/ Controller(n)
      PROVE  OInv'
  BY <1>3, ApprovePlanOInv, DeletePlanOInv, AdvanceOInv, RunStepOInv, StepFailsOInv DEF Controller
<1>4. OInv /\ [Next]_vars => OInv'
  BY <1>1, <1>2, <1>3, WritePolicyOInv, DeliverOInv, BeginScanOInv, ScanFailsOInv,
     ChangeClusterOInv, FluxRevertsOInv, RestartOInv DEF Next
<1> QED
  BY <1>4, InitOInv, PTL DEF Spec

-----------------------------------------------------------------------------
(* The properties of Operator.                                             *)

\* The state has its types, and the plan of a name has the step of that name.
THEOREM OperatorTypes == Spec => []TypeOK
<1>1. OInv => TypeOK
  BY DEF OInv, Types, PolicyInv, ScanInv, PlanInv, HasStep, TypeOK
<1> QED
  BY <1>1, OInvHolds, PTL

\* Helm carries out an upgrade only if a user approved it or both gates were open
\* for it (autoplan of the policy reconciler, the approval of the StackUpgrade one).
THEOREM OperatorGates == Spec => []TwoGates
<1>1. OInv => TwoGates
  BY DEF OInv, PlanInv, TwoGates
<1> QED
  BY <1>1, OInvHolds, PTL

\* A plan lowers a version only after a change of the cluster, the tolerance or
\* the knowledge base, or where Flux declares more (runStep and autoplan).
THEOREM OperatorOrder == Spec => DowngradeNeedsDisturbance
<1>1. ASSUME OInv, NEW n \in Plans, RunStep(n), Lowers(n[1])
      PROVE  changes > 0 \/ Disagreed \/ FluxAbove(n[1], n[2])
  <2> SUFFICES ASSUME changes = 0, ~Disagreed
               PROVE  FluxAbove(n[1], n[2])
    BY <1>1, BoundsAssumption DEF OInv, Types
  <2>1. /\ plan[n] # NoPlan /\ n[1] \in DOMAIN cluster
        /\ cluster' = IF DryRun[build] THEN cluster ELSE [cluster EXCEPT ![n[1]].version = n[2]]
    BY <1>1 DEF RunStep, L!CarryOut, L!Exists, HasRelease
  <2>2. InOrder(n)
    BY <1>1, <2>1 DEF OInv, OrderInv, Planned
  <2>3. cluster \in Clusters /\ build \in Builds /\ n[2] \in Versions
        /\ cluster[n[1]].version \in Versions
    BY <1>1, <2>2 DEF OInv, Types, InOrder, Plans
  <2>4. cluster'[n[1]].version = n[2]
    <3>1. ~R(build)!M!Greater(cluster[n[1]].version, cluster[n[1]].version)
      BY <2>3, VersionOrder
    <3>2. cluster' # cluster
      BY <1>1, <3>1 DEF Lowers
    <3> QED
      BY <2>1, <2>3, <3>2, ClusterChanges
  <2> QED
    BY <1>1, <2>2, <2>4 DEF Lowers, InOrder, FluxAbove
<1>2. OInv /\ [Next]_vars =>
        [\A n \in Plans : RunStep(n) /\ Lowers(n[1]) =>
           changes > 0 \/ Disagreed \/ FluxAbove(n[1], n[2])]_vars
  BY <1>1
<1> QED
  BY <1>2, OInvHolds, PTL DEF Spec, DowngradeNeedsDisturbance
=============================================================================
