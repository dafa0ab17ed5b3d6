--------------------------- MODULE PolicyReport ---------------------------
(***************************************************************************)
(* What one scan of the CompatibilityPolicy controller makes of a policy's *)
(* spec and of what the scan saw installed: the report, and the upgrades   *)
(* in it that autoplan turns into plans.                                   *)
(***************************************************************************)
EXTENDS Knowledge, FiniteSets

CONSTANTS
    Specs,     \* the specs users write
    Clusters   \* what may be installed: tools with their version and source

Installed == [version: Versions \union {NoVersion, BadVersion},
              source: {"helm", "fluxcd", "argocd", "raw"}]

PolicySpec == [tracked: Seq(Names), tolerance: M!Risks \union {""}, autoplan: BOOLEAN,
          maxRisk: M!Risks \union {""}, autoApprove: BOOLEAN]

ASSUME ClustersAssumption == \A found \in Clusters : \A t \in DOMAIN found : found[t] \in Installed
ASSUME SpecsAssumption == Specs \subseteq PolicySpec

\* The values at these positions, each once: the loop over the tracked names.
Once(values, wanted) ==
    LET once[i \in 0..Len(values)] ==
          IF i = 0 THEN <<>>
          ELSE LET sofar == once[i - 1] IN
               IF i \in wanted /\ values[i] \notin Range(sofar)
                 THEN Append(sofar, values[i]) ELSE sofar
    IN once[Len(values)]

\* The positions of names that some tool of the knowledge base has.
Trackable(tracked) == {i \in DOMAIN tracked : M!Known(tracked[i])}

\* Mutant: names are compared before their tools are looked up.
CanonicalNamesOfNames(tracked) ==
    LET known == Once(tracked, Trackable(tracked))
    IN [i \in DOMAIN known |-> M!CanonicalName(known[i])]

\* Mutant: names without a tool are evaluated as well.
CanonicalNamesUnfiltered(tracked) ==
    Once([i \in DOMAIN tracked |-> M!CanonicalName(tracked[i])], DOMAIN tracked)

\* The tools of a list of tracked names, which may be aliases, each once.
CanonicalNames(tracked) ==
    Once([i \in DOMAIN tracked |-> M!CanonicalName(tracked[i])], Trackable(tracked))

Untrackable(tracked) == Once(tracked, DOMAIN tracked \ Trackable(tracked))

Tolerance(spec) == IF spec.tolerance = "" THEN "HIGH" ELSE spec.tolerance
MaxRisk(spec) == IF spec.maxRisk = "" THEN "LOW" ELSE spec.maxRisk

NotInstalled == [version |-> NoVersion, source |-> ""]

ToolStatus(t, installed, tolerance) ==
    LET tool == IF t \in DOMAIN installed THEN installed[t] ELSE NotInstalled
        rec == M!LatestSafeVersion(t, tool.version, tolerance)
    IN [name |-> t, installed |-> tool, recommended |-> rec.app,
        risk |-> IF rec = M!None THEN "" ELSE rec.risk,
        message |-> CASE t \notin DOMAIN installed -> "not installed"
                      [] tool.version = NoVersion  -> "version unknown"
                      [] tool.version = BadVersion -> "version not recognised"
                      [] rec = M!None              -> "up to date"
                      [] OTHER                     -> "upgrade available"]

\* The tools of the knowledge base in the order of their names, whichever that is.
ListTools == CHOOSE order \in [1..Cardinality(Tools) -> Tools] : IsInjective(order)

\* The reports there may be.
Reports == [spec \in Specs |-> [installed \in Clusters |->
    LET toEval == IF spec.tracked = <<>> THEN ListTools ELSE CanonicalNames(spec.tracked)
    IN [mode |-> IF spec.tracked = <<>> THEN "discovery" ELSE "focused",
        tools |-> [i \in DOMAIN toEval |-> ToolStatus(toEval[i], installed, Tolerance(spec))],
        untrackable |-> Untrackable(spec.tracked)]]]

\* What a scan that sees "installed" reports for a policy with that spec.
Report(spec, installed) == Reports[spec][installed]

\* Autoplan makes a plan of this entry of a report.
WantsPlan(spec, ts) ==
    /\ spec.autoplan
    /\ ts.message = "upgrade available"
    /\ M!RiskAtOrBelow(ts.risk, MaxRisk(spec))

\* planStep succeeds: there is a chart to install, or none is needed.
CanPlan(ts) ==
    \/ ts.installed.source = "raw"
    \/ LET entry == M!Resolve(ts.name, ts.recommended)
       IN entry # M!None /\ entry.chart # NoVersion

-----------------------------------------------------------------------------
(* The types of an entry of a report, and of a report.                     *)

ToolReport == [name: Tools, installed: Installed \union {NotInstalled},
               recommended: Versions \union {NoVersion}, risk: M!Risks \union {""},
               message: {"not installed", "version unknown", "version not recognised",
                         "up to date", "upgrade available"}]

IsReport(r) == /\ r.mode \in {"", "discovery", "focused"}
               /\ r.tools \in Seq(ToolReport)
               /\ r.untrackable \in Seq(Names)
=============================================================================
