------------------------------ MODULE Matrix ------------------------------
(***************************************************************************)
(* The compatibility matrix of the planner: the documents of a knowledge   *)
(* base, when they are valid, and what the queries of the controllers      *)
(* return from a matrix of these tools and names.  MatrixLoad is how Load  *)
(* builds it; Knowledge is a knowledge base that was loaded.               *)
(*                                                                         *)
(* Left out: parsing of YAML, URLs and version strings, and the fields no  *)
(* query reads; "rest" says that those are in order.                       *)
(***************************************************************************)
EXTENDS Naturals, Sequences, FiniteSetsExt, Functions

CONSTANTS
    Names,      \* tool names, aliases and chart names
    Words,      \* words of alias_origins, as they occur in a chart's origins
    Versions,   \* versions that parse, see Greater
    NoName,     \* a missing tool name, and "no tool"
    NoVersion,  \* a missing version, and "no version"
    BadVersion, \* a version that does not parse
    tools,      \* canonical name -> document
    names       \* canonical name or alias -> canonical name

Risks == {"LOW", "MEDIUM", "HIGH", "BLOCKING"}
riskOrder == [LOW |-> 0, MEDIUM |-> 1, HIGH |-> 2, BLOCKING |-> 3]

\* A map read for a key it does not have yields 0.
Rank(risk) == IF risk \in DOMAIN riskOrder THEN riskOrder[risk] ELSE 0

RiskAtOrBelow(risk, ceiling) == Rank(risk) <= Rank(ceiling)

Entry == [app: Versions \union {NoVersion, BadVersion},
          chart: Versions \union {NoVersion, BadVersion},
          risk: Risks \union {"unknown"},
          incompatible: SUBSET Names,
          rest: BOOLEAN]

Document == [tool: Names \union {NoName}, aliases: Seq(Names),
             alias_origins: UNION {[aliases -> SUBSET Words] : aliases \in SUBSET Names},
             chart_repository: BOOLEAN, versions: Seq(Entry)]

-----------------------------------------------------------------------------
(* Versions: major, minor, patch, and 0 for a pre-release or 1.            *)

Greater(a, b) == \E i \in 1..4 : a[i] > b[i] /\ \A j \in 1..(i - 1) : a[j] = b[j]

SameLine(a, b) == a[1] = b[1] /\ a[2] = b[2]

-----------------------------------------------------------------------------
(* Valid documents.                                                        *)

Apps(doc) == [i \in DOMAIN doc.versions |-> doc.versions[i].app]
Charts(doc) == [i \in DOMAIN doc.versions |-> doc.versions[i].chart]

\* The i-th version is the last one before the j-th; some are missing.
Precedes(vs, i, j) ==
    /\ i < j /\ {vs[i], vs[j]} \cap {NoVersion} = {}
    /\ \A k \in (i + 1)..(j - 1) : vs[k] = NoVersion

\* Mutant: equal neighbours pass.
AscendingOrEqual(vs) ==
    \A i, j \in DOMAIN vs : Precedes(vs, i, j) => ~Greater(vs[i], vs[j])

\* Each version is above the one before it.
Ascending(vs) == \A i, j \in DOMAIN vs : Precedes(vs, i, j) => Greater(vs[j], vs[i])

validateTool(doc) ==
    /\ doc.tool # NoName
    /\ DOMAIN doc.alias_origins \subseteq Range(doc.aliases)
    /\ \A alias \in DOMAIN doc.alias_origins : doc.alias_origins[alias] # {}
    /\ doc.versions # <<>>
    /\ doc.chart_repository \/ Range(Charts(doc)) \subseteq {NoVersion}
    /\ Range(Apps(doc)) \subseteq Versions
    /\ Range(Charts(doc)) \subseteq Versions \union {NoVersion}
    /\ Ascending(Apps(doc)) /\ Ascending(Charts(doc))
    /\ \A i \in DOMAIN doc.versions : doc.versions[i].risk \in Risks /\ doc.versions[i].rest

Declared(doc) == {doc.tool} \union Range(doc.aliases)

\* A knowledge base without errors, whatever the order of its files: every
\* document is valid, no name is declared twice, references are declared.
WellFormed(base) ==
    /\ \A i \in DOMAIN base : validateTool(base[i])
    /\ \A i, j \in DOMAIN base : i # j => Declared(base[i]) \cap Declared(base[j]) = {}
    /\ \A i \in DOMAIN base :
         /\ base[i].tool \notin Range(base[i].aliases)
         /\ IsInjective(base[i].aliases)
    /\ \A i \in DOMAIN base : \A k \in DOMAIN base[i].versions :
         base[i].versions[k].incompatible \subseteq
           UNION {Declared(base[j]) : j \in DOMAIN base}

-----------------------------------------------------------------------------
(* Queries of a loaded matrix.                                             *)

Known(name) == name \in DOMAIN names
Tool(name) == tools[names[name]]

CanonicalName(name) == IF Known(name) THEN names[name] ELSE NoName

\* Mutant: an alias counts wherever the chart comes from.
IdentifyChartAnywhere(chart, origins) == CanonicalName(chart)

\* "origins" are the words that occur in an origin of the chart.
IdentifyChart(chart, origins) ==
    IF /\ Known(chart)
       /\ chart \in DOMAIN Tool(chart).alias_origins =>
            Tool(chart).alias_origins[chart] \cap origins # {}
      THEN names[chart] ELSE NoName

\* The app version of the first entry with that chart version.
AppVersionForChart(name, chart) ==
    LET entries == Tool(name).versions
        matching == {i \in DOMAIN entries : entries[i].chart # NoVersion
                                            /\ entries[i].chart = chart}
    IN IF ~Known(name) \/ chart = BadVersion \/ matching = {}
         THEN NoVersion ELSE entries[Min(matching)].app

\* The highest of the entries at these positions, as the loops of LatestSafeVersion
\* and Resolve find it: in one pass over all of them.
None == [app |-> NoVersion]
Best(entries, candidates) ==
    LET best[i \in 0..Len(entries)] ==
          IF i = 0 THEN None
          ELSE LET sofar == best[i - 1] IN
               IF i \in candidates /\ (sofar = None \/ Greater(entries[i].app, sofar.app))
                 THEN entries[i] ELSE sofar
    IN best[Len(entries)]

\* Mutant: the installed version is recommended again.
SafeFromCurrent(v, current, tolerance) ==
    ~Greater(current, v.app) /\ RiskAtOrBelow(v.risk, tolerance)

\* Entry v is above the installed version and within the risk tolerance.
Safe(v, current, tolerance) ==
    Greater(v.app, current) /\ RiskAtOrBelow(v.risk, tolerance)

LatestSafeVersion(name, current, tolerance) ==
    IF ~Known(name) \/ current \notin Versions THEN None
    ELSE LET entries == Tool(name).versions
         IN Best(entries, {i \in DOMAIN entries : Safe(entries[i], current, tolerance)})

\* Mutant: only entries strictly below the target cover it.
CoversBelow(v, to) == SameLine(v.app, to) /\ Greater(to, v.app)

\* Entry v covers version "to": it is on its minor line and not above it.
Covers(v, to) == SameLine(v.app, to) /\ ~Greater(v.app, to)

Resolve(name, to) ==
    IF ~Known(name) \/ to \notin Versions THEN None
    ELSE LET entries == Tool(name).versions
         IN Best(entries, {i \in DOMAIN entries : Covers(entries[i], to)})
=============================================================================
