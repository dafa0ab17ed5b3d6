---------------------------- MODULE ReportProofs ----------------------------
(***************************************************************************)
(* Proofs about PolicyReport: what a report lists, and what the upgrades   *)
(* in it are, for every knowledge base that Load accepts.                  *)
(***************************************************************************)
EXTENDS PolicyReport, FiniteSetTheorems, TLAPS

\* What MatrixProofs shows of a matrix, for the one of this knowledge base.
MP == INSTANCE MatrixProofs WITH tools <- KnownTools, names <- KnownNames

-----------------------------------------------------------------------------
(* The matrix of MatrixProofs is that of Knowledge.                        *)

\* Its assumption holds.
LEMMA MatrixAssumptions == MP!VersionConstants
BY VersionsAssumption, NoneAssumption DEF MP!VersionConstants

\* Its queries are the same.
LEMMA SameBest ==
    ASSUME NEW entries, NEW candidates
    PROVE  M!Best(entries, candidates) = MP!Best(entries, candidates)
BY DEF M!Best, MP!Best, M!None, MP!None, M!Greater, MP!Greater

\* LatestSafeVersion returns the same entry.
LEMMA SameLatestSafe ==
    ASSUME NEW name, NEW current, NEW tolerance
    PROVE  M!LatestSafeVersion(name, current, tolerance) = MP!LatestSafeVersion(name, current, tolerance)
BY SameBest DEF M!LatestSafeVersion, MP!LatestSafeVersion, M!None, MP!None, M!Known, MP!Known,
   M!Tool, MP!Tool, M!Safe, MP!Safe, M!Greater, MP!Greater, M!RiskAtOrBelow, MP!RiskAtOrBelow,
   M!Rank, MP!Rank, M!riskOrder, MP!riskOrder

\* The same documents are valid.
LEMMA SameValid ==
    ASSUME NEW doc
    PROVE  M!validateTool(doc) <=> MP!validateTool(doc)
BY DEF M!validateTool, MP!validateTool, M!Ascending, MP!Ascending, M!Precedes, MP!Precedes,
   M!Greater, MP!Greater, M!Apps, MP!Apps, M!Charts, MP!Charts, M!Risks, MP!Risks, 
   M!Range, MP!Range

\* Resolve returns the same entry.
LEMMA SameResolve ==
    ASSUME NEW name, NEW to
    PROVE  M!Resolve(name, to) = MP!Resolve(name, to)
BY SameBest DEF M!Resolve, MP!Resolve, M!None, MP!None, M!Known, MP!Known, M!Tool, MP!Tool,
   M!Covers, MP!Covers, M!SameLine, MP!SameLine, M!Greater, MP!Greater

\* Its documents are the same.
LEMMA SameDocument == M!Document = MP!Document
BY DEF M!Document, MP!Document, M!Entry, MP!Entry, M!Risks, MP!Risks

-----------------------------------------------------------------------------
(* The tools and the names of the knowledge base.                          *)

\* Each document is the one of its tool, and its names lead to it only.
LEMMA KnownDocuments ==
    /\ \A t \in Tools :
         /\ KnownTools[t] \in Range(KnowledgeBase) /\ KnownTools[t].tool = t
         /\ KnownTools[t] \in M!Document /\ M!validateTool(KnownTools[t])
         /\ t \in Names
    /\ \A doc \in Range(KnowledgeBase) : doc.tool \in Tools /\ KnownTools[doc.tool] = doc
<1>1. KnowledgeBase \in Seq(M!Document) /\ M!WellFormed(KnowledgeBase)
  BY KnowledgeAssumption
<1>2. /\ Tools = {doc.tool : doc \in Range(KnowledgeBase)}
      /\ \A t \in Tools : KnownTools[t] = CHOOSE doc \in Range(KnowledgeBase) : doc.tool = t
  BY DEF Tools, KnownTools
<1>3. \A t \in Tools : KnownTools[t] \in Range(KnowledgeBase) /\ KnownTools[t].tool = t
  BY <1>2
<1>4. ASSUME NEW i \in DOMAIN KnowledgeBase, NEW j \in DOMAIN KnowledgeBase,
             KnowledgeBase[i].tool = KnowledgeBase[j].tool
      PROVE  i = j
  BY <1>1, <1>4 DEF M!WellFormed, M!Declared
<1>5. ASSUME NEW doc \in Range(KnowledgeBase)
      PROVE  /\ doc.tool \in Tools /\ KnownTools[doc.tool] = doc
             /\ doc \in M!Document /\ M!validateTool(doc) /\ doc.tool \in Names
  <2>1. PICK i \in DOMAIN KnowledgeBase : doc = KnowledgeBase[i]
    BY DEF Range
  <2>2. doc.tool \in Tools
    BY <1>2
  <2>3. PICK j \in DOMAIN KnowledgeBase : KnownTools[doc.tool] = KnowledgeBase[j]
    BY <1>3, <2>2 DEF Range
  <2>4. KnownTools[doc.tool] = doc
    BY <1>3, <1>4, <2>1, <2>2, <2>3
  <2>5. doc \in M!Document
    BY <1>1, <2>1
  <2>6. M!validateTool(doc)
    BY <1>1, <2>1 DEF M!WellFormed
  <2>7. doc.tool \in Names
    BY <2>5, <2>6 DEF M!Document, M!validateTool
  <2> QED
    BY <2>2, <2>4, <2>5, <2>6, <2>7
<1> QED
  BY <1>3, <1>5

\* Every name is one of the tool it leads to, and a tool's name leads to itself.
LEMMA KnownNamesLead ==
    /\ \A n \in DOMAIN KnownNames :
         /\ KnownNames[n] \in Tools /\ n \in Names
         /\ n = KnownNames[n] \/ n \in Range(KnownTools[KnownNames[n]].aliases)
    /\ \A t \in Tools : t \in DOMAIN KnownNames /\ KnownNames[t] = t
<1> DEFINE HasName(t, n) == n = t \/ n \in Range(KnownTools[t].aliases)
<1>1. /\ DOMAIN KnownNames = UNION {{t} \union Range(KnownTools[t].aliases) : t \in Tools}
      /\ \A n \in DOMAIN KnownNames : KnownNames[n] = CHOOSE t \in Tools : HasName(t, n)
  BY DEF KnownNames, Tools
<1>2. ASSUME NEW n \in DOMAIN KnownNames
      PROVE  KnownNames[n] \in Tools /\ HasName(KnownNames[n], n)
  <2>1. PICK t \in Tools : n \in {t} \union Range(KnownTools[t].aliases)
    BY <1>1
  <2>2. HasName(t, n)
    BY <2>1
  <2> HIDE DEF HasName
  <2> QED
    BY <1>1, <2>2
<1>3. ASSUME NEW t \in Tools, NEW u \in Tools, HasName(u, t)
      PROVE  u = t
  <2>1. PICK i \in DOMAIN KnowledgeBase : KnownTools[t] = KnowledgeBase[i]
    BY KnownDocuments DEF Range
  <2>2. PICK j \in DOMAIN KnowledgeBase : KnownTools[u] = KnowledgeBase[j]
    BY KnownDocuments DEF Range
  <2>3. t \in M!Declared(KnowledgeBase[i])
    BY <2>1, KnownDocuments DEF M!Declared
  <2>4. t \in M!Declared(KnowledgeBase[j])
    BY <1>3, <2>2, KnownDocuments DEF M!Declared, Range, M!Range
  <2>5. i = j
    BY <2>3, <2>4, KnowledgeAssumption DEF M!WellFormed
  <2> QED
    BY <2>1, <2>2, <2>5, KnownDocuments
<1>4. ASSUME NEW t \in Tools
      PROVE  t \in DOMAIN KnownNames /\ KnownNames[t] = t
  <2>1. t \in DOMAIN KnownNames
    BY <1>1
  <2> QED
    BY <1>2, <1>3, <2>1
<1>5. ASSUME NEW n \in DOMAIN KnownNames
      PROVE  n \in Names
  <2>1. KnownTools[KnownNames[n]] \in M!Document /\ KnownNames[n] \in Names
    BY <1>2, KnownDocuments
  <2>2. KnownTools[KnownNames[n]].aliases \in Seq(Names)
    BY <2>1 DEF M!Document
  <2>3. Range(KnownTools[KnownNames[n]].aliases) \subseteq Names
    BY <2>2 DEF Range
  <2> QED
    BY <1>2, <2>1, <2>3
<1> QED
  BY <1>2, <1>4, <1>5

\* There are finitely many tools, and ListTools lists each once.
LEMMA ToolsListed ==
    /\ ListTools \in Seq(Tools)
    /\ IsInjective(ListTools)
<1> DEFINE n == Cardinality(Tools)
<1>1. IsFiniteSet(Tools)
  <2> DEFINE f == [i \in DOMAIN KnowledgeBase |-> KnowledgeBase[i].tool]
  <2>1. IsFiniteSet(DOMAIN KnowledgeBase)
    BY KnowledgeAssumption, FS_Interval
  <2>2. f \in Surjection(DOMAIN KnowledgeBase, Tools)
    BY DEF Surjection, Tools, KnownTools, Range
  <2> HIDE DEF f
  <2> QED
    BY <2>1, <2>2, FS_Surjection
<1>2. n \in Nat /\ ExistsBijection(1..n, Tools)
  BY <1>1, FS_CardinalityType
<1>3. \E f \in [1..n -> Tools] : IsInjective(f)
  BY <1>2 DEF ExistsBijection, Bijection, Injection
<1>4. ListTools \in [1..n -> Tools] /\ IsInjective(ListTools)
  BY <1>3 DEF ListTools
<1> QED
  BY <1>2, <1>4

-----------------------------------------------------------------------------
(* The loop over the tracked names.                                        *)

\* A value that is new goes to the end of a list.
LEMMA AppendNew ==
    ASSUME NEW V, NEW x, x \in Seq(V), IsInjective(x), NEW v \in V, v \notin Range(x)
    PROVE  /\ Append(x, v) \in Seq(V) /\ IsInjective(Append(x, v))
           /\ Range(Append(x, v)) = Range(x) \union {v}
<1> DEFINE y == Append(x, v)
<1>1. /\ Len(x) \in Nat /\ y \in Seq(V) /\ DOMAIN y = 1..(Len(x) + 1) /\ DOMAIN x = 1..Len(x)
      /\ y[Len(x) + 1] = v
      /\ \A i \in 1..Len(x) : y[i] = x[i]
  OBVIOUS
<1>2. 1..(Len(x) + 1) = 1..Len(x) \union {Len(x) + 1}
  BY <1>1
<1>3. \A i \in 1..Len(x) : x[i] # v
  BY <1>1 DEF Range
<1> HIDE DEF y
<1>4. IsInjective(y)
  BY <1>1, <1>2, <1>3 DEF IsInjective
<1>5. Range(y) = Range(x) \union {v}
  BY <1>1, <1>2 DEF Range
<1> QED
  BY <1>1, <1>4, <1>5 DEF y

\* It lists each of the wanted values, and each once.
LEMMA OnceLists ==
    ASSUME NEW V, NEW values, values \in Seq(V), NEW wanted, wanted \subseteq DOMAIN values
    PROVE  /\ Once(values, wanted) \in Seq(V)
           /\ IsInjective(Once(values, wanted))
           /\ Range(Once(values, wanted)) = {values[i] : i \in wanted}
<1> DEFINE n == Len(values)
           X == Seq(V)
           After(i, x) == IF i \in wanted /\ values[i] \notin Range(x) THEN Append(x, values[i]) ELSE x
           step == [p \in (1..n) \X X |-> After(p[1], p[2])]
           Results(f) == [i \in 0..n |-> IF i = 0 THEN <<>> ELSE After(i, f[i - 1])]
<1>1. n \in Nat /\ <<>> \in X /\ step \in [(1..n) \X X -> X]
  OBVIOUS
<1>2. PICK f : MP!IsLoop(f, n, X, <<>>, step)
  <2> HIDE DEF n, X, step
  <2> QED
    BY <1>1, MatrixAssumptions, MP!Loop
<1>3. /\ f \in [0..n -> X] /\ f[0] = <<>>
      /\ \A i \in 1..n : f[i] = After(i, f[i - 1])
  <2>1. f \in [0..n -> X] /\ f[0] = <<>> /\ \A i \in 1..n : f[i] = step[<<i, f[i - 1]>>]
    BY <1>2 DEF MP!IsLoop
  <2>2. ASSUME NEW i \in 1..n
        PROVE  f[i] = After(i, f[i - 1])
    <3> HIDE DEF After, X, n
    <3>1. i - 1 \in 0..n
      BY <1>1
    <3>2. <<i, f[i - 1]>> \in (1..n) \X X
      BY <2>1, <3>1
    <3> QED
      BY <2>1, <3>2 DEF step
  <2> QED
    BY <2>1, <2>2
<1>4. f = Results(f)
  <2> HIDE DEF After
  <2>1. \A i \in 0..n : f[i] = Results(f)[i]
    BY <1>1, <1>3
  <2> QED
    BY <1>3, <2>1
<1>5. Once(values, wanted) = (CHOOSE g : g = Results(g))[n]
  BY DEF Once
<1>6. PICK g : g = Results(g) /\ Once(values, wanted) = g[n]
  <2> HIDE DEF Results, n
  <2> QED
    BY <1>4, <1>5
<1>7. g[0] = <<>> /\ \A i \in 1..n : g[i] = After(i, g[i - 1])
  <2>1. \A i \in 0..n : g[i] = IF i = 0 THEN <<>> ELSE After(i, g[i - 1])
    <3> HIDE DEF After
    <3> QED
      BY <1>6
  <2> HIDE DEF After
  <2> QED
    BY <1>1, <2>1
<1> DEFINE Wanted(k) == {values[i] : i \in wanted \cap 1..k}
           T == {k \in 0..n : g[k] \in X /\ IsInjective(g[k]) /\ Range(g[k]) = Wanted(k)}
<1>8. 0 \in T
  <2>1. IsInjective(<<>>) /\ Range(<<>>) = {} /\ Wanted(0) = {}
    BY DEF IsInjective, Range
  <2>2. 0 \in 0..n
    BY <1>1
  <2> HIDE DEF Wanted, X, n
  <2>3. g[0] \in X /\ IsInjective(g[0]) /\ Range(g[0]) = Wanted(0)
    BY <1>1, <1>7, <2>1, Zenon
  <2> QED
    BY <2>2, <2>3
<1>9. ASSUME NEW k \in 1..n, k - 1 \in T
      PROVE  k \in T
  <2>1. PICK x \in X : /\ IsInjective(x) /\ Range(x) = Wanted(k - 1)
                       /\ g[k] = After(k, x)
    BY <1>7, <1>9
  <2>2. 1..k = 1..(k - 1) \union {k} /\ k \in 0..n
    OBVIOUS
  <2>3. Wanted(k) = Wanted(k - 1) \union (IF k \in wanted THEN {values[k]} ELSE {})
    BY <2>2
  <2> HIDE DEF Wanted
  <2>4. CASE k \in wanted /\ values[k] \notin Range(x)
    <3>1. g[k] = Append(x, values[k]) /\ values[k] \in V
      BY <2>1, <2>4
    <3>2. g[k] \in X /\ IsInjective(g[k]) /\ Range(g[k]) = Range(x) \union {values[k]}
      BY <2>1, <2>4, <3>1, AppendNew
    <3> HIDE DEF X, n
    <3> QED
      BY <2>1, <2>2, <2>3, <2>4, <3>2
  <2>5. CASE ~(k \in wanted /\ values[k] \notin Range(x))
    <3>1. g[k] = x
      BY <2>1, <2>5
    <3> HIDE DEF X, n
    <3> QED
      BY <2>1, <2>2, <2>3, <2>5, <3>1
  <2> QED
    BY <2>4, <2>5
<1>10. n \in T
  <2> HIDE DEF T, n
  <2>1. 0..n \subseteq T
    BY <1>1, <1>8, <1>9, MatrixAssumptions, MP!UpTo
  <2> QED
    BY <1>1, <2>1
<1>11. wanted \cap 1..n = wanted
  OBVIOUS
<1> QED
  BY <1>6, <1>10, <1>11

-----------------------------------------------------------------------------
(* The entry of a tool in a report.                                        *)

Entries(t) == Range(KnownTools[t].versions)

\* The matrix answers for a tool from its document, which is valid.
LEMMA KnownTool ==
    ASSUME NEW t \in Tools
    PROVE  /\ MP!Known(t) /\ MP!Tool(t) = KnownTools[t]
           /\ MP!Tool(t) \in MP!Document /\ MP!validateTool(MP!Tool(t))
BY KnownDocuments, KnownNamesLead, SameDocument, SameValid DEF MP!Known, MP!Tool

\* The entries of a tool's document have a version and a risk.
LEMMA EntryTypes ==
    ASSUME NEW t \in Tools, NEW v \in Entries(t)
    PROVE  v.app \in Versions /\ v.risk \in M!Risks
<1>1. PICK i \in DOMAIN KnownTools[t].versions : v = KnownTools[t].versions[i]
  BY DEF Entries, Range
<1> QED
  BY <1>1, KnownTool, MatrixAssumptions, MP!ValidEntries DEF MP!Risks, M!Risks

\* What LatestSafeVersion returns for a tool: nothing, or the highest safe entry.
LEMMA LatestSafe ==
    ASSUME NEW t \in Tools, NEW current, NEW tolerance
    PROVE  LET rec == M!LatestSafeVersion(t, current, tolerance)
           IN rec # M!None =>
                /\ current \in Versions /\ rec \in Entries(t) /\ M!Safe(rec, current, tolerance)
                /\ \A v \in Entries(t) : M!Safe(v, current, tolerance) => ~M!Greater(v.app, rec.app)
<1> DEFINE rec == M!LatestSafeVersion(t, current, tolerance)
           entries == KnownTools[t].versions
<1> SUFFICES ASSUME rec # M!None
             PROVE  /\ current \in Versions /\ rec \in Entries(t)
                    /\ M!Safe(rec, current, tolerance)
                    /\ \A v \in Entries(t) :
                         M!Safe(v, current, tolerance) => ~M!Greater(v.app, rec.app)
  OBVIOUS
<1>1. current \in Versions
  BY DEF M!LatestSafeVersion
<1>2. M!None = MP!None /\ rec = MP!LatestSafeVersion(t, current, tolerance)
  BY SameLatestSafe DEF M!None, MP!None
<1>3. PICK i \in DOMAIN entries :
        /\ rec = entries[i] /\ MP!Safe(entries[i], current, tolerance)
        /\ \A j \in DOMAIN entries :
             MP!Safe(entries[j], current, tolerance) => ~MP!Greater(entries[j].app, entries[i].app)
  <2> HIDE DEF rec
  <2> QED
    BY <1>1, <1>2, KnownTool, MatrixAssumptions, MP!LatestSafeIsHighest
<1>4. \A v : MP!Safe(v, current, tolerance) <=> M!Safe(v, current, tolerance)
  BY DEF MP!Safe, M!Safe, MP!Greater, M!Greater, MP!RiskAtOrBelow, M!RiskAtOrBelow,
         MP!Rank, M!Rank, MP!riskOrder, M!riskOrder
<1>5. \A v, w : MP!Greater(v, w) <=> M!Greater(v, w)
  BY DEF MP!Greater, M!Greater
<1> HIDE DEF rec
<1>6. rec \in Entries(t) /\ M!Safe(rec, current, tolerance)
  BY <1>3, <1>4 DEF Entries, Range
<1>7. ASSUME NEW v \in Entries(t), M!Safe(v, current, tolerance)
      PROVE  ~M!Greater(v.app, rec.app)
  BY <1>3, <1>4, <1>5, <1>7 DEF Entries, Range
<1> QED
  BY <1>1, <1>6, <1>7

\* The tolerance a spec leaves out is a risk as well.
LEMMA SpecRisks ==
    ASSUME NEW spec \in Specs
    PROVE  Tolerance(spec) \in M!Risks /\ MaxRisk(spec) \in M!Risks
BY SpecsAssumption DEF PolicySpec, Tolerance, MaxRisk, M!Risks

\* The upgrade "ts" is to the highest version within the tolerance, above "version".
IsHighestSafe(ts, version, tolerance) ==
    \E v \in Entries(ts.name) :
      /\ ts.recommended = v.app /\ ts.risk = v.risk /\ M!Safe(v, version, tolerance)
      /\ \A u \in Entries(ts.name) : M!Safe(u, version, tolerance) => ~M!Greater(u.app, v.app)

\* What an entry with an upgrade says of it.
IsUpgrade(ts, seen, tolerance) ==
    /\ ts.name \in DOMAIN seen /\ ts.installed = seen[ts.name]
    /\ ts.installed.version \in Versions /\ ts.recommended \in Versions
    /\ IsHighestSafe(ts, ts.installed.version, tolerance)

\* An entry has its type, and one with an upgrade names the highest safe version.
LEMMA StatusOfTool ==
    ASSUME NEW t \in Tools, NEW seen \in Clusters, NEW tolerance
    PROVE  LET ts == ToolStatus(t, seen, tolerance)
           IN /\ ts \in ToolReport /\ ts.name = t
              /\ ts.message = "upgrade available" => IsUpgrade(ts, seen, tolerance)
<1> DEFINE tool == IF t \in DOMAIN seen THEN seen[t] ELSE NotInstalled
           rec == M!LatestSafeVersion(t, tool.version, tolerance)
           ts == ToolStatus(t, seen, tolerance)
           risk == IF rec = M!None THEN "" ELSE rec.risk
           message == CASE t \notin DOMAIN seen -> "not installed"
                        [] tool.version = NoVersion  -> "version unknown"
                        [] tool.version = BadVersion -> "version not recognised"
                        [] rec = M!None              -> "up to date"
                        [] OTHER                     -> "upgrade available"
<1>1. ts = [name |-> t, installed |-> tool, recommended |-> rec.app,
            risk |-> risk, message |-> message]
  BY DEF ToolStatus
<1>2. tool \in Installed \union {NotInstalled}
  BY ClustersAssumption
<1>3. rec # M!None =>
        /\ tool.version \in Versions /\ rec \in Entries(t) /\ M!Safe(rec, tool.version, tolerance)
        /\ \A v \in Entries(t) : M!Safe(v, tool.version, tolerance) => ~M!Greater(v.app, rec.app)
  BY LatestSafe
<1>4. message \in {"not installed", "version unknown", "version not recognised", "up to date",
                   "upgrade available"}
  <2> HIDE DEF tool, rec
  <2> QED
    OBVIOUS
<1>5. message = "upgrade available" => t \in DOMAIN seen /\ rec # M!None
  <2> HIDE DEF tool, rec
  <2> QED
    OBVIOUS
<1>6. M!None.app = NoVersion
  BY DEF M!None
<1> HIDE DEF rec, message, ts
<1>7. /\ rec.app \in Versions \union {NoVersion} /\ risk \in M!Risks \union {""}
      /\ rec # M!None => rec.app \in Versions /\ risk = rec.risk
  BY <1>3, <1>6, EntryTypes
<1> HIDE DEF tool, risk
<1>8. ts \in ToolReport /\ ts.name = t
  BY <1>1, <1>2, <1>4, <1>7 DEF ToolReport
<1>9. ASSUME ts.message = "upgrade available"
      PROVE  IsUpgrade(ts, seen, tolerance)
  <2>1. t \in DOMAIN seen /\ rec # M!None /\ tool = seen[t]
    BY <1>1, <1>5, <1>9 DEF tool
  <2>2. ts.installed = tool /\ ts.recommended = rec.app /\ ts.risk = rec.risk
    BY <1>1, <1>7, <2>1
  <2> QED
    BY <1>3, <1>7, <1>8, <2>1, <2>2 DEF IsUpgrade, IsHighestSafe
<1> QED
  BY <1>8, <1>9 DEF ts

-----------------------------------------------------------------------------
(* The report.                                                             *)

\* The tools and the unknown names of a list of names.
LEMMA NamesListed ==
    ASSUME NEW tracked, tracked \in Seq(Names)
    PROVE  /\ CanonicalNames(tracked) \in Seq(Tools) /\ IsInjective(CanonicalNames(tracked))
           /\ Range(CanonicalNames(tracked)) =
                {KnownNames[n] : n \in Range(tracked) \cap DOMAIN KnownNames}
           /\ Untrackable(tracked) \in Seq(Names) /\ IsInjective(Untrackable(tracked))
           /\ Range(Untrackable(tracked)) = Range(tracked) \ DOMAIN KnownNames
<1> DEFINE tools == [i \in DOMAIN tracked |-> M!CanonicalName(tracked[i])]
           known == Trackable(tracked)
           listed == Once(tools, known)
<1>1. /\ known = {i \in DOMAIN tracked : tracked[i] \in DOMAIN KnownNames}
      /\ \A i \in DOMAIN tracked : M!CanonicalName(tracked[i]) \in Tools \union {NoName}
      /\ \A i \in known : M!CanonicalName(tracked[i]) = KnownNames[tracked[i]]
  <2>1. known = {i \in DOMAIN tracked : tracked[i] \in DOMAIN KnownNames}
    BY DEF Trackable, M!Known
  <2>2. \A n : M!CanonicalName(n) = IF n \in DOMAIN KnownNames THEN KnownNames[n] ELSE NoName
    BY DEF M!Known, M!CanonicalName
  <2>3. \A n \in DOMAIN KnownNames : KnownNames[n] \in Tools
    BY KnownNamesLead
  <2>4. \A i \in DOMAIN tracked : M!CanonicalName(tracked[i]) \in Tools \union {NoName}
    BY <2>2, <2>3
  <2>5. \A i \in known : M!CanonicalName(tracked[i]) = KnownNames[tracked[i]]
    BY <2>1, <2>2
  <2> QED
    BY <2>1, <2>4, <2>5
<1>2. tools \in Seq(Tools \union {NoName}) /\ DOMAIN tools = DOMAIN tracked
  BY <1>1
<1>3. known \subseteq DOMAIN tools
  BY <1>1, <1>2
<1>4. /\ listed \in Seq(Tools \union {NoName}) /\ IsInjective(listed)
      /\ Range(listed) = {tools[i] : i \in known}
  <2> HIDE DEF tools, known
  <2> QED
    BY <1>2, <1>3, OnceLists
<1>5. {tools[i] : i \in known} = {KnownNames[n] : n \in Range(tracked) \cap DOMAIN KnownNames}
  BY <1>1 DEF Range
<1>6. Range(listed) \subseteq Tools
  <2> HIDE DEF listed, known, tools
  <2>1. \A n \in DOMAIN KnownNames : KnownNames[n] \in Tools
    BY KnownNamesLead
  <2> QED
    BY <1>4, <1>5, <2>1
<1>7. listed \in Seq(Tools)
  <2> HIDE DEF listed
  <2> QED
    BY <1>4, <1>6 DEF Range
<1>8. listed = CanonicalNames(tracked)
  BY DEF CanonicalNames
<1>9. /\ Untrackable(tracked) \in Seq(Names) /\ IsInjective(Untrackable(tracked))
      /\ Range(Untrackable(tracked)) = {tracked[i] : i \in DOMAIN tracked \ known}
  <2> HIDE DEF known
  <2> QED
    BY OnceLists DEF Untrackable, known
<1>10. {tracked[i] : i \in DOMAIN tracked \ known} = Range(tracked) \ DOMAIN KnownNames
  BY <1>1 DEF Range
<1> HIDE DEF listed
<1> QED
  BY <1>4, <1>5, <1>7, <1>8, <1>9, <1>10

\* A report lists tools of the knowledge base, each once, with their status; a
\* focused one lists the tools and the unknown names of the names tracked.
LEMMA ReportLists ==
    ASSUME NEW spec \in Specs, NEW seen \in Clusters
    PROVE  LET r == Report(spec, seen)
               listed == [i \in DOMAIN r.tools |-> r.tools[i].name]
               tracked == Range(spec.tracked)
           IN /\ IsReport(r)
              /\ \A i \in DOMAIN r.tools :
                   /\ r.tools[i].name \in Tools
                   /\ r.tools[i] = ToolStatus(r.tools[i].name, seen, Tolerance(spec))
              /\ IsInjective(listed) /\ IsInjective(r.untrackable)
              /\ r.mode = IF spec.tracked = <<>> THEN "discovery" ELSE "focused"
              /\ spec.tracked # <<>> =>
                   /\ Range(listed) = {KnownNames[n] : n \in tracked \cap DOMAIN KnownNames}
                   /\ Range(r.untrackable) = tracked \ DOMAIN KnownNames
<1> DEFINE toEval == IF spec.tracked = <<>> THEN ListTools ELSE CanonicalNames(spec.tracked)
           status(i) == ToolStatus(toEval[i], seen, Tolerance(spec))
           tools == [i \in DOMAIN toEval |-> status(i)]
           r == Report(spec, seen)
           listed == [i \in DOMAIN r.tools |-> r.tools[i].name]
<1>1. r = [mode |-> IF spec.tracked = <<>> THEN "discovery" ELSE "focused",
           tools |-> tools, untrackable |-> Untrackable(spec.tracked)]
  BY DEF Report, Reports
<1>2. spec.tracked \in Seq(Names)
  BY SpecsAssumption DEF PolicySpec
<1>3. toEval \in Seq(Tools) /\ IsInjective(toEval)
  BY <1>2, NamesListed, ToolsListed
<1> HIDE DEF toEval
<1>4. \A i \in DOMAIN toEval : toEval[i] \in Tools
  BY <1>3
<1>5. \A i \in DOMAIN toEval : status(i) \in ToolReport /\ status(i).name = toEval[i]
  <2> SUFFICES ASSUME NEW i \in DOMAIN toEval
               PROVE  status(i) \in ToolReport /\ status(i).name = toEval[i]
    OBVIOUS
  <2>1. PICK t \in Tools : t = toEval[i]
    BY <1>4
  <2>2. ToolStatus(t, seen, Tolerance(spec)) \in ToolReport
        /\ ToolStatus(t, seen, Tolerance(spec)).name = t
    BY StatusOfTool
  <2> QED
    BY <2>1, <2>2
<1> HIDE DEF status
<1>6. tools \in Seq(ToolReport) /\ DOMAIN tools = DOMAIN toEval
  BY <1>3, <1>5
<1>7. r.mode = (IF spec.tracked = <<>> THEN "discovery" ELSE "focused")
      /\ r.tools = tools /\ r.untrackable = Untrackable(spec.tracked)
  BY <1>1
<1> HIDE DEF r
<1>8. IsReport(r)
  BY <1>2, <1>6, <1>7, NamesListed DEF IsReport
<1>9. ASSUME NEW i \in DOMAIN r.tools
      PROVE  /\ r.tools[i].name = toEval[i] /\ r.tools[i].name \in Tools
             /\ r.tools[i] = ToolStatus(r.tools[i].name, seen, Tolerance(spec))
  <2>1. i \in DOMAIN toEval /\ r.tools[i] = status(i)
    BY <1>6, <1>7
  <2> QED
    BY <1>4, <1>5, <2>1 DEF status
<1>10. listed = toEval
  <2>1. DOMAIN r.tools = DOMAIN toEval
    BY <1>6, <1>7
  <2> QED
    BY <1>3, <1>9, <2>1
<1> HIDE DEF listed
<1>11. IsInjective(listed) /\ IsInjective(r.untrackable)
  BY <1>2, <1>3, <1>7, <1>10, NamesListed
<1>12. ASSUME spec.tracked # <<>>
       PROVE  /\ Range(listed) = {KnownNames[n] : n \in Range(spec.tracked) \cap DOMAIN KnownNames}
              /\ Range(r.untrackable) = Range(spec.tracked) \ DOMAIN KnownNames
  BY <1>2, <1>7, <1>10, <1>12, NamesListed DEF toEval
<1> QED
  BY <1>7, <1>8, <1>9, <1>11, <1>12 DEF r, listed

-----------------------------------------------------------------------------
(* The upgrades autoplan makes plans for.                                  *)

\* Versions are totally ordered.
LEMMA VersionOrder ==
    /\ \A a, b \in Versions : /\ ~(M!Greater(a, b) /\ M!Greater(b, a)) /\ ~M!Greater(a, a)
                              /\ a = b \/ M!Greater(a, b) \/ M!Greater(b, a)
    /\ \A a, b, c \in Versions : M!Greater(a, b) /\ M!Greater(b, c) => M!Greater(a, c)
    /\ \A a, b, c \in Versions : ~M!Greater(a, b) /\ M!Greater(c, b) => ~M!Greater(a, c)
<1>1. \A a, b : MP!Greater(a, b) <=> M!Greater(a, b)
  BY DEF MP!Greater, M!Greater
<1>2. \A a, b \in Versions : /\ ~(MP!Greater(a, b) /\ MP!Greater(b, a)) /\ ~MP!Greater(a, a)
                             /\ a = b \/ MP!Greater(a, b) \/ MP!Greater(b, a)
  BY MatrixAssumptions, MP!GreaterTotal
<1>3. \A a, b, c \in Versions : MP!Greater(a, b) /\ MP!Greater(b, c) => MP!Greater(a, c)
  BY MatrixAssumptions, MP!GreaterTransitive
<1> QED
  BY <1>1, <1>2, <1>3

\* The entries of a tool that a spec's tolerance allows.
Allowed(spec, t) ==
    {v \in UNION {Range(doc.versions) : doc \in {d \in Range(KnowledgeBase) : d.tool = t}} :
       M!RiskAtOrBelow(v.risk, Tolerance(spec))}

\* "version" is the highest of them.
HighestAllowed(spec, t, version) ==
    /\ \E v \in Allowed(spec, t) : v.app = version
    /\ \A v \in Allowed(spec, t) : ~M!Greater(v.app, version)

\* The spec tracks the tool.
Tracks(spec, t) ==
    \E doc \in Range(KnowledgeBase) :
      /\ doc.tool = t
      /\ \/ spec.tracked = <<>>
         \/ Range(spec.tracked) \cap ({doc.tool} \union Range(doc.aliases)) # {}

\* A report lists only tools its spec tracks.
LEMMA ListedAreTracked ==
    ASSUME NEW spec \in Specs, NEW seen \in Clusters, NEW i \in DOMAIN Report(spec, seen).tools
    PROVE  Tracks(spec, Report(spec, seen).tools[i].name)
<1> DEFINE r == Report(spec, seen)
           t == r.tools[i].name
           listed == [j \in DOMAIN r.tools |-> r.tools[j].name]
<1>1. /\ t \in Tools
      /\ spec.tracked # <<>> =>
           Range(listed) = {KnownNames[n] : n \in Range(spec.tracked) \cap DOMAIN KnownNames}
  BY ReportLists
<1>2. t \in Range(listed)
  BY DEF Range
<1>3. KnownTools[t] \in Range(KnowledgeBase) /\ KnownTools[t].tool = t
  BY <1>1, KnownDocuments
<1> HIDE DEF r, t, listed
<1>4. CASE spec.tracked # <<>>
  <2>1. PICK n \in Range(spec.tracked) \cap DOMAIN KnownNames : t = KnownNames[n]
    BY <1>1, <1>2, <1>4
  <2>2. n = t \/ n \in Range(KnownTools[t].aliases)
    BY <2>1, KnownNamesLead
  <2> QED
    BY <1>3, <2>1, <2>2 DEF Tracks, t, r
<1> QED
  BY <1>3, <1>4 DEF Tracks, t, r

\* The highest safe version of a tool is the highest its tolerance allows.
LEMMA HighestSafeIsHighest ==
    ASSUME NEW spec, NEW ts, ts.name \in Tools, NEW version \in Versions,
           IsHighestSafe(ts, version, Tolerance(spec))
    PROVE  /\ HighestAllowed(spec, ts.name, ts.recommended)
           /\ M!Greater(ts.recommended, version)
<1>1. PICK v \in Entries(ts.name) :
        /\ ts.recommended = v.app /\ ts.risk = v.risk /\ M!Safe(v, version, Tolerance(spec))
        /\ \A u \in Entries(ts.name) :
             M!Safe(u, version, Tolerance(spec)) => ~M!Greater(u.app, v.app)
  BY DEF IsHighestSafe
<1>2. Allowed(spec, ts.name) =
        {u \in Entries(ts.name) : M!RiskAtOrBelow(u.risk, Tolerance(spec))}
  <2>1. \A d \in Range(KnowledgeBase) : d.tool = ts.name <=> d = KnownTools[ts.name]
    BY KnownDocuments
  <2>2. KnownTools[ts.name] \in Range(KnowledgeBase)
    BY KnownDocuments
  <2>3. {d \in Range(KnowledgeBase) : d.tool = ts.name} = {KnownTools[ts.name]}
    BY <2>1, <2>2
  <2> QED
    BY <2>3 DEF Allowed, Entries
<1>3. \A u \in Entries(ts.name) : u.app \in Versions
  BY EntryTypes
<1>4. /\ v \in Allowed(spec, ts.name) /\ M!Greater(v.app, version)
  BY <1>1, <1>2 DEF M!Safe
<1>5. ASSUME NEW u \in Allowed(spec, ts.name)
      PROVE  ~M!Greater(u.app, v.app)
  <2>1. u \in Entries(ts.name) /\ M!RiskAtOrBelow(u.risk, Tolerance(spec))
    BY <1>2
  <2>2. CASE M!Greater(u.app, version)
    BY <1>1, <2>1, <2>2 DEF M!Safe
  <2>3. CASE ~M!Greater(u.app, version)
    BY <1>3, <1>4, <2>1, <2>3, VersionOrder
  <2> QED
    BY <2>2, <2>3
<1> QED
  BY <1>1, <1>4, <1>5 DEF HighestAllowed

\* What autoplan wants a plan for: an upgrade of an installed tool the policy
\* tracks, to the highest version its tolerance allows, within maxRisk.
LEMMA WantedUpgrade ==
    ASSUME NEW spec \in Specs, NEW seen \in Clusters,
           NEW ts \in Range(Report(spec, seen).tools), WantsPlan(spec, ts)
    PROVE  /\ spec.autoplan
           /\ ts.name \in Tools /\ ts.name \in DOMAIN seen /\ ts.installed = seen[ts.name]
           /\ ts.installed.version \in Versions /\ ts.recommended \in Versions
           /\ M!Greater(ts.recommended, ts.installed.version)
           /\ Tracks(spec, ts.name)
           /\ HighestAllowed(spec, ts.name, ts.recommended)
           /\ \E v \in Allowed(spec, ts.name) :
                v.app = ts.recommended /\ M!RiskAtOrBelow(v.risk, MaxRisk(spec))
<1>1. PICK i \in DOMAIN Report(spec, seen).tools : ts = Report(spec, seen).tools[i]
  BY DEF Range
<1>2. ts.name \in Tools /\ ts = ToolStatus(ts.name, seen, Tolerance(spec))
  BY <1>1, ReportLists
<1>3. spec.autoplan /\ IsUpgrade(ts, seen, Tolerance(spec))
  <2>1. ts.message = "upgrade available" /\ spec.autoplan
    BY DEF WantsPlan
  <2>2. \A t \in Tools : ToolStatus(t, seen, Tolerance(spec)).message = "upgrade available" =>
                           IsUpgrade(ToolStatus(t, seen, Tolerance(spec)), seen, Tolerance(spec))
    BY StatusOfTool
  <2> QED
    BY <1>2, <2>1, <2>2
<1>4. /\ ts.name \in DOMAIN seen /\ ts.installed = seen[ts.name]
      /\ ts.installed.version \in Versions /\ ts.recommended \in Versions
      /\ IsHighestSafe(ts, ts.installed.version, Tolerance(spec))
  BY <1>3 DEF IsUpgrade
<1>5. /\ HighestAllowed(spec, ts.name, ts.recommended)
      /\ M!Greater(ts.recommended, ts.installed.version)
  BY <1>2, <1>4, HighestSafeIsHighest
<1>6. Tracks(spec, ts.name)
  BY <1>1, ListedAreTracked
<1>7. \E v \in Allowed(spec, ts.name) :
        v.app = ts.recommended /\ M!RiskAtOrBelow(v.risk, MaxRisk(spec))
  <2>1. PICK v \in Entries(ts.name) : /\ ts.recommended = v.app /\ ts.risk = v.risk
                                      /\ M!Safe(v, ts.installed.version, Tolerance(spec))
    BY <1>4 DEF IsHighestSafe
  <2>2. M!RiskAtOrBelow(v.risk, MaxRisk(spec))
    BY <2>1 DEF WantsPlan
  <2>3. KnownTools[ts.name] \in Range(KnowledgeBase) /\ KnownTools[ts.name].tool = ts.name
    BY <1>2, KnownDocuments
  <2>4. v \in Allowed(spec, ts.name)
    BY <2>1, <2>3 DEF Entries, Allowed, M!Safe
  <2> QED
    BY <2>1, <2>2, <2>4
<1> QED
  BY <1>2, <1>3, <1>4, <1>5, <1>6, <1>7
=============================================================================
