---------------------------- MODULE LoadProofs ----------------------------
(***************************************************************************)
(* Proofs about MatrixLoad: what Load accepts, and what the queries return *)
(* from what it accepted, for knowledge bases of any size.                 *)
(***************************************************************************)
EXTENDS MatrixLoad, TLAPS

\* What MatrixProofs shows of a matrix, for the one being loaded.
MP == INSTANCE MatrixProofs

-----------------------------------------------------------------------------
(* The queries of MatrixProofs are those of MatrixLoad.                    *)

\* Its assumption holds.
LEMMA Constants == MP!VersionConstants
BY VersionsAssumption, NoneAssumption DEF MP!VersionConstants

\* The loop of its queries is the same.
LEMMA SameBest ==
    ASSUME NEW entries, NEW candidates
    PROVE  Best(entries, candidates) = MP!Best(entries, candidates)
BY DEF Best, MP!Best, None, MP!None, Greater, MP!Greater

\* LatestSafeVersion returns the same entry.
LEMMA SameLatestSafe ==
    ASSUME NEW name, NEW current, NEW tolerance
    PROVE  LatestSafeVersion(name, current, tolerance) = MP!LatestSafeVersion(name, current, tolerance)
BY SameBest DEF LatestSafeVersion, MP!LatestSafeVersion, None, MP!None, Known, MP!Known,
   Tool, MP!Tool, Safe, MP!Safe, Greater, MP!Greater, RiskAtOrBelow, MP!RiskAtOrBelow,
   Rank, MP!Rank, riskOrder, MP!riskOrder

\* Resolve returns the same entry.
LEMMA SameResolve ==
    ASSUME NEW name, NEW to
    PROVE  Resolve(name, to) = MP!Resolve(name, to)
BY SameBest DEF Resolve, MP!Resolve, None, MP!None, Known, MP!Known, Tool, MP!Tool,
   Covers, MP!Covers, SameLine, MP!SameLine, Greater, MP!Greater

\* AppVersionForChart returns the same version.
LEMMA SameChart ==
    ASSUME NEW name, NEW chart
    PROVE  AppVersionForChart(name, chart) = MP!AppVersionForChart(name, chart)
BY DEF AppVersionForChart, MP!AppVersionForChart, Known, MP!Known, Tool, MP!Tool, Min, MP!Min

\* The same documents are valid.
LEMMA SameValid ==
    ASSUME NEW doc
    PROVE  validateTool(doc) <=> MP!validateTool(doc)
BY DEF validateTool, MP!validateTool, Ascending, MP!Ascending, Precedes, MP!Precedes,
   Greater, MP!Greater, Apps, MP!Apps, Charts, MP!Charts, Risks, MP!Risks, Range, MP!Range

\* Its documents and its orders are the same.
LEMMA SameTerms ==
    /\ Document = MP!Document /\ Entry = MP!Entry /\ Risks = MP!Risks /\ None = MP!None
    /\ \A name : (Known(name) <=> MP!Known(name)) /\ Tool(name) = MP!Tool(name)
    /\ \A a, b : Greater(a, b) <=> MP!Greater(a, b)
    /\ \A v, current, tolerance : Safe(v, current, tolerance) <=> MP!Safe(v, current, tolerance)
    /\ \A v, to : Covers(v, to) <=> MP!Covers(v, to)
BY DEF Document, MP!Document, Entry, MP!Entry, Risks, MP!Risks, None, MP!None, Known, MP!Known,
   Tool, MP!Tool, Greater, MP!Greater, Safe, MP!Safe, RiskAtOrBelow, MP!RiskAtOrBelow, Rank,
   MP!Rank, riskOrder, MP!riskOrder, Covers, MP!Covers, SameLine, MP!SameLine

\* The entries of a valid document ascend, in versions and in charts.
LEMMA ValidEntries ==
    ASSUME NEW doc \in Document, validateTool(doc)
    PROVE  /\ doc.versions \in Seq(Entry)
           /\ \A i \in DOMAIN doc.versions :
                /\ doc.versions[i].app \in Versions
                /\ doc.versions[i].chart \in Versions \union {NoVersion}
                /\ doc.versions[i].risk \in Risks
           /\ \A i, j \in DOMAIN doc.versions :
                /\ doc.versions[i].app = doc.versions[j].app => i = j
                /\ doc.versions[i].chart = doc.versions[j].chart =>
                     i = j \/ doc.versions[i].chart = NoVersion
BY Constants, SameTerms, SameValid, MP!ValidEntries

\* LatestSafeVersion: the highest of the safe entries, if there are any.
LEMMA LatestSafeIsHighest ==
    ASSUME NEW name, Known(name), Tool(name) \in Document, validateTool(Tool(name)),
           NEW current \in Versions, NEW tolerance
    PROVE  LET entries == Tool(name).versions
               rec == LatestSafeVersion(name, current, tolerance)
           IN \/ /\ rec = None
                 /\ \A i \in DOMAIN entries : ~Safe(entries[i], current, tolerance)
              \/ \E i \in DOMAIN entries :
                   /\ rec = entries[i] /\ Safe(entries[i], current, tolerance)
                   /\ \A j \in DOMAIN entries : Safe(entries[j], current, tolerance) =>
                        ~Greater(entries[j].app, entries[i].app)
BY Constants, SameTerms, SameValid, SameLatestSafe, MP!LatestSafeIsHighest

\* Resolve: the highest of the entries that cover the version, if there are any.
LEMMA ResolveIsHighest ==
    ASSUME NEW name, Known(name), Tool(name) \in Document, validateTool(Tool(name)),
           NEW to \in Versions
    PROVE  LET entries == Tool(name).versions
               entry == Resolve(name, to)
           IN \/ /\ entry = None
                 /\ \A i \in DOMAIN entries : ~Covers(entries[i], to)
              \/ \E i \in DOMAIN entries :
                   /\ entry = entries[i] /\ Covers(entries[i], to)
                   /\ \A j \in DOMAIN entries : Covers(entries[j], to) =>
                        ~Greater(entries[j].app, entries[i].app)
BY Constants, SameTerms, SameValid, SameResolve, MP!ResolveIsHighest

\* The version of an entry resolves to that entry.
LEMMA EntryResolves ==
    ASSUME NEW name, Known(name), Tool(name) \in Document, validateTool(Tool(name)),
           NEW i \in DOMAIN Tool(name).versions
    PROVE  Resolve(name, Tool(name).versions[i].app) = Tool(name).versions[i]
BY Constants, SameTerms, SameValid, SameResolve, MP!EntryResolves

\* AppVersionForChart: the version of the one entry with that chart.
LEMMA ChartLeadsBack ==
    ASSUME NEW name, Known(name), Tool(name) \in Document, validateTool(Tool(name)),
           NEW i \in DOMAIN Tool(name).versions, Tool(name).versions[i].chart # NoVersion
    PROVE  AppVersionForChart(name, Tool(name).versions[i].chart) = Tool(name).versions[i].app
BY Constants, SameTerms, SameValid, SameChart, MP!ChartLeadsBack

-----------------------------------------------------------------------------
(* The inductive invariant of Load.                                        *)

\* The first k documents are valid, and no name is declared twice in them.
Consistent(k) ==
    /\ \A i \in 1..k :
         /\ validateTool(files[i])
         /\ files[i].tool \notin Range(files[i].aliases)
         /\ IsInjective(files[i].aliases)
    /\ \A i, j \in 1..k : i # j => Declared(files[i]) \cap Declared(files[j]) = {}

\* The matrix has all the documents that were read, and nothing else.
Registered ==
    /\ DOMAIN tools = {files[i].tool : i \in 1..read}
    /\ DOMAIN names = UNION {Declared(files[i]) : i \in 1..read}
    /\ \A i \in 1..read : tools[files[i].tool] = files[i]

LoadInv ==
    /\ files \in Files /\ read \in 0..Len(files)
    /\ failed \in BOOLEAN /\ status \in {"loading", "loaded", "rejected"}
    /\ \A t \in DOMAIN tools : tools[t].tool = t
    /\ NamesAreUnambiguous
    /\ failed <=> ~Consistent(read)
    /\ ~failed => Registered
    /\ status # "loading" => read = Len(files) /\ (Loaded <=> ~failed /\ checkReferences)

\* Nothing is registered before the first file.
LEMMA InitLoadInv == Init => LoadInv
<1> SUFFICES ASSUME Init PROVE LoadInv
  OBVIOUS
<1>1. files \in Files /\ read = 0 /\ tools = <<>> /\ names = <<>> /\ ~failed /\ failed \in BOOLEAN
      /\ status = "loading"
  BY DEF Init
<1>2. Len(files) \in Nat /\ 1..0 = {} /\ DOMAIN <<>> = {}
  BY <1>1, FilesAssumption
<1>3. Consistent(0)
  BY <1>2 DEF Consistent
<1>4. Registered
  BY <1>1, <1>2 DEF Registered
<1>5. NamesAreUnambiguous
  BY <1>1, <1>2 DEF NamesAreUnambiguous
<1> QED
  BY <1>1, <1>2, <1>3, <1>4, <1>5 DEF LoadInv

\* What Add does to the maps when it registers the document.
LEMMA AddRegisters ==
    ASSUME NEW doc, Addable(doc), Add(doc), NamesAreUnambiguous,
           \A t \in DOMAIN tools : tools[t].tool = t
    PROVE  /\ NamesAreUnambiguous'
           /\ \A t \in DOMAIN tools' : tools'[t].tool = t
           /\ DOMAIN tools' = DOMAIN tools \union {doc.tool}
           /\ DOMAIN names' = DOMAIN names \union Declared(doc)
           /\ tools'[doc.tool] = doc
           /\ \A t \in DOMAIN tools : t # doc.tool /\ tools'[t] = tools[t]
<1>1. /\ names' = [n \in DOMAIN names \union Declared(doc) |->
                     IF n \in Declared(doc) THEN doc.tool ELSE names[n]]
      /\ tools' = [t \in DOMAIN tools \union {doc.tool} |-> IF t = doc.tool THEN doc ELSE tools[t]]
  BY DEF Add
<1>2. Declared(doc) \cap DOMAIN names = {} /\ doc.tool \in Declared(doc)
  BY DEF Addable, Declared
<1>3. \A t \in DOMAIN tools : t \in Declared(tools[t]) /\ t \in DOMAIN names
  BY DEF NamesAreUnambiguous, Declared, Known
<1>4. \A t \in DOMAIN tools : t # doc.tool /\ tools'[t] = tools[t]
  BY <1>1, <1>2, <1>3
<1>5. tools'[doc.tool] = doc /\ DOMAIN tools' = DOMAIN tools \union {doc.tool}
  BY <1>1
<1>6. \A t \in DOMAIN tools' : tools'[t].tool = t
  BY <1>4, <1>5
<1>7. ASSUME NEW n \in DOMAIN names'
      PROVE  names'[n] \in DOMAIN tools' /\ n \in Declared(tools'[names'[n]])
  <2>1. CASE n \in Declared(doc)
    BY <1>1, <1>5, <2>1
  <2>2. CASE n \notin Declared(doc)
    <3>1. n \in DOMAIN names /\ names'[n] = names[n]
      BY <1>1, <2>2
    <3>2. names[n] \in DOMAIN tools /\ n \in Declared(tools[names[n]])
      BY <3>1 DEF NamesAreUnambiguous, Tool
    <3> QED
      BY <1>4, <1>5, <3>1, <3>2
  <2> QED
    BY <2>1, <2>2
<1>8. ASSUME NEW t \in DOMAIN tools', NEW n \in Declared(tools'[t])
      PROVE  n \in DOMAIN names' /\ names'[n] = t
  <2>1. CASE t = doc.tool
    BY <1>1, <1>5, <2>1
  <2>2. CASE t # doc.tool
    <3>1. t \in DOMAIN tools /\ n \in Declared(tools[t])
      BY <1>4, <1>5, <2>2
    <3>2. n \in DOMAIN names /\ names[n] = t
      BY <3>1 DEF NamesAreUnambiguous, Known
    <3> QED
      BY <1>1, <1>2, <3>2
  <2> QED
    BY <2>1, <2>2
<1>9. NamesAreUnambiguous'
  BY <1>7, <1>8 DEF NamesAreUnambiguous, Known, Tool
<1> QED
  BY <1>1, <1>4, <1>5, <1>6, <1>9

\* One more file keeps the invariant.
LEMMA ReadFileLoadInv == LoadInv /\ ReadFile => LoadInv'
<1> SUFFICES ASSUME LoadInv, ReadFile PROVE LoadInv'
  OBVIOUS
<1> DEFINE doc == files[read + 1]
<1>1. /\ files' = files /\ status' = "loading" /\ status = "loading" /\ read' = read + 1
      /\ read < Len(files)
  BY DEF ReadFile
<1>2. /\ IF doc.tool = NoName THEN UNCHANGED <<names, tools>> ELSE Add(doc)
      /\ failed' = (failed \/ ~validateTool(doc) \/ ~Addable(doc))
  BY DEF ReadFile
<1>3. files \in Seq(Document) /\ read \in Nat /\ Len(files) \in Nat /\ read' \in 1..Len(files)
      /\ 1..(read + 1) = 1..read \union {read + 1} /\ read + 1 \notin 1..read
  BY <1>1, FilesAssumption DEF LoadInv
<1>4. failed \in BOOLEAN /\ failed' \in BOOLEAN
  BY <1>2 DEF LoadInv
<1> HIDE DEF doc
<1>5. CASE Addable(doc) /\ doc.tool # NoName
  <2>1. Add(doc)
    BY <1>2, <1>5
  <2>2. \A t \in DOMAIN tools : tools[t].tool = t
    BY DEF LoadInv
  <2>3. /\ NamesAreUnambiguous'
        /\ \A t \in DOMAIN tools' : tools'[t].tool = t
        /\ DOMAIN tools' = DOMAIN tools \union {doc.tool}
        /\ DOMAIN names' = DOMAIN names \union Declared(doc)
        /\ tools'[doc.tool] = doc
        /\ \A t \in DOMAIN tools : t # doc.tool /\ tools'[t] = tools[t]
    <3>1. NamesAreUnambiguous
      BY DEF LoadInv
    <3> QED
      BY <1>5, <2>1, <2>2, <3>1, AddRegisters
  <2>4. ASSUME ~failed
        PROVE  Registered'
    <3>1. Registered
      BY <2>4 DEF LoadInv
    <3>2. DOMAIN tools' = {files[i].tool : i \in 1..(read + 1)}
      <4> DEFINE prefix == 1..read
                 next == read + 1
      <4>1. 1..(read + 1) = prefix \union {next}
        BY <1>3
      <4>2. DOMAIN tools' = {files[i].tool : i \in prefix} \union {files[next].tool}
        BY <2>3, <3>1 DEF Registered, doc
      <4> HIDE DEF prefix, next
      <4> QED
        BY <4>1, <4>2
    <3>3. DOMAIN names' = UNION {Declared(files[i]) : i \in 1..(read + 1)}
      BY <1>3, <2>3, <3>1 DEF Registered, doc
    <3>4. ASSUME NEW i \in 1..(read + 1)
          PROVE  tools'[files[i].tool] = files[i]
      <4>1. CASE i = read + 1
        BY <2>3, <4>1 DEF doc
      <4>2. CASE i \in 1..read
        <5>1. files[i].tool \in DOMAIN tools /\ tools[files[i].tool] = files[i]
          BY <3>1, <4>2 DEF Registered
        <5> QED
          BY <2>3, <5>1
      <4> QED
        BY <1>3, <4>1, <4>2
    <3> QED
      BY <1>1, <3>2, <3>3, <3>4 DEF Registered
  <2>5. ASSUME ~failed
        PROVE  Consistent(read) /\ (Consistent(read + 1) <=> validateTool(doc))
    <3>1. Consistent(read) /\ Registered
      BY <2>5 DEF LoadInv
    <3>2. \A i \in 1..read : Declared(files[i]) \cap Declared(doc) = {}
      BY <1>5, <3>1 DEF Registered, Addable
    <3>3. doc.tool \notin Range(doc.aliases) /\ IsInjective(doc.aliases)
      BY <1>5 DEF Addable
    <3> QED
      BY <1>3, <3>1, <3>2, <3>3 DEF Consistent, doc
  <2>6. ASSUME failed
        PROVE  ~Consistent(read + 1)
    BY <1>3, <2>6 DEF LoadInv, Consistent
  <2>7. failed' <=> ~Consistent(read + 1)
    BY <1>2, <1>4, <1>5, <2>5, <2>6
  <2>8. Consistent(read)' <=> Consistent(read + 1)
    BY <1>1 DEF Consistent
  <2>9. ~failed' => Registered'
    BY <1>2, <1>4, <2>4
  <2> QED
    BY <1>1, <1>3, <1>4, <2>3, <2>7, <2>8, <2>9 DEF LoadInv
<1>6. CASE ~Addable(doc) \/ doc.tool = NoName
  <2>1. UNCHANGED <<names, tools>>
    BY <1>2, <1>6 DEF Add
  <2>2. failed'
    BY <1>2, <1>6 DEF validateTool
  <2>3. ~Consistent(read + 1)
    <3>1. CASE failed
      BY <1>3, <3>1 DEF LoadInv, Consistent
    <3>2. CASE ~failed
      <4>1. Registered
        BY <3>2 DEF LoadInv
      <4>2. CASE doc.tool = NoName
        BY <1>3, <4>2 DEF Consistent, validateTool, doc
      <4>3. CASE ~Addable(doc)
        <5>1. ASSUME Declared(doc) \cap DOMAIN names # {}
              PROVE  ~Consistent(read + 1)
          <6>1. PICK i \in 1..read : Declared(doc) \cap Declared(files[i]) # {}
            BY <4>1, <5>1 DEF Registered
          <6> QED
            BY <1>3, <6>1 DEF Consistent, doc
        <5>2. ASSUME ~(doc.tool \notin Range(doc.aliases) /\ IsInjective(doc.aliases))
              PROVE  ~Consistent(read + 1)
          BY <1>3, <5>2 DEF Consistent, doc
        <5> QED
          BY <4>3, <5>1, <5>2 DEF Addable
      <4> QED
        BY <1>6, <4>2, <4>3
    <3> QED
      BY <3>1, <3>2
  <2>4. Consistent(read)' <=> Consistent(read + 1)
    BY <1>1 DEF Consistent
  <2>5. NamesAreUnambiguous' /\ \A t \in DOMAIN tools' : tools'[t].tool = t
    BY <2>1 DEF LoadInv, NamesAreUnambiguous, Known, Tool
  <2> QED
    BY <1>1, <1>3, <1>4, <2>2, <2>3, <2>4, <2>5 DEF LoadInv
<1> QED
  BY <1>5, <1>6

\* The last step keeps the invariant.
LEMMA FinishLoadInv == LoadInv /\ Finish => LoadInv'
<1> SUFFICES ASSUME LoadInv, Finish PROVE LoadInv'
  OBVIOUS
<1>1. /\ UNCHANGED <<files, read, tools, names, failed>> /\ read = Len(files)
      /\ status' = IF failed \/ ~checkReferences THEN "rejected" ELSE "loaded"
  BY DEF Finish
<1>2. NamesAreUnambiguous'
  BY <1>1 DEF LoadInv, NamesAreUnambiguous, Known, Tool
<1>3. (Consistent(read)' <=> Consistent(read)) /\ (Registered' <=> Registered)
      /\ (checkReferences' <=> checkReferences)
  BY <1>1 DEF Consistent, Registered, checkReferences
<1> QED
  BY <1>1, <1>2, <1>3 DEF LoadInv, Loaded

\* The invariant holds throughout a load.
LEMMA LoadInvHolds == Spec => []LoadInv
<1>1. ASSUME LoadInv, UNCHANGED vars
      PROVE  LoadInv'
  <2>1. UNCHANGED <<files, read, tools, names, failed, status>>
    BY <1>1 DEF vars
  <2>2. NamesAreUnambiguous'
    BY <1>1, <2>1 DEF LoadInv, NamesAreUnambiguous, Known, Tool
  <2>3. (Consistent(read)' <=> Consistent(read)) /\ (Registered' <=> Registered)
        /\ (checkReferences' <=> checkReferences) /\ (Loaded' <=> Loaded)
    BY <2>1 DEF Consistent, Registered, checkReferences, Loaded
  <2> QED
    BY <1>1, <2>1, <2>2, <2>3 DEF LoadInv
<1>2. LoadInv /\ [Next]_vars => LoadInv'
  BY <1>1, ReadFileLoadInv, FinishLoadInv DEF Next
<1> QED
  BY <1>2, InitLoadInv, PTL DEF Spec

-----------------------------------------------------------------------------
(* The properties of MatrixLoad.                                           *)

\* Every name leads to the one tool that declares it (Load and add).
THEOREM LoadNames == Spec => []NamesAreUnambiguous
<1>1. LoadInv => NamesAreUnambiguous
  BY DEF LoadInv
<1> QED
  BY <1>1, LoadInvHolds, PTL

\* Load accepts exactly the well-formed knowledge bases.
THEOREM LoadAccepts == Spec => []LoadAcceptsWellFormed
<1>1. LoadInv => LoadAcceptsWellFormed
  <2> SUFFICES ASSUME LoadInv, status # "loading" PROVE Loaded <=> WellFormed(files)
    BY DEF LoadAcceptsWellFormed
  <2>1. read = Len(files) /\ (Loaded <=> ~failed /\ checkReferences)
    BY DEF LoadInv
  <2>2. files \in Seq(Document) /\ DOMAIN files = 1..read
    BY <2>1, FilesAssumption DEF LoadInv
  <2>3. WellFormed(files) => ~failed
    BY <2>2 DEF LoadInv, WellFormed, Consistent
  <2>4. ASSUME ~failed
        PROVE  checkReferences <=> WellFormed(files)
    <3>1. Consistent(read) /\ Registered
      BY <2>4 DEF LoadInv
    <3>2. DOMAIN names = UNION {Declared(files[j]) : j \in DOMAIN files}
      BY <2>2, <3>1 DEF Registered
    <3>3. checkReferences <=>
            \A i \in DOMAIN files : \A k \in DOMAIN files[i].versions :
              files[i].versions[k].incompatible \subseteq DOMAIN names
      BY <2>2, <3>1 DEF checkReferences, Registered
    <3> QED
      BY <2>2, <3>1, <3>2, <3>3 DEF WellFormed, Consistent
  <2> QED
    BY <2>1, <2>3, <2>4
<1> QED
  BY <1>1, LoadInvHolds, PTL

\* In a matrix that was loaded every name has a tool with a valid document.
LEMMA LoadedDocuments ==
    ASSUME LoadInv, Loaded, NEW name \in DOMAIN names
    PROVE  /\ Known(name) /\ Tool(name) \in Document /\ validateTool(Tool(name))
           /\ \E i \in DOMAIN files : files[i] = Tool(name) /\ files[i].tool = names[name]
           /\ name \in Declared(Tool(name))
           /\ names[name] \in DOMAIN names /\ names[names[name]] = names[name]
<1>1. ~failed /\ read = Len(files)
  BY DEF LoadInv, Loaded
<1>2. Registered /\ Consistent(read) /\ NamesAreUnambiguous
  BY <1>1 DEF LoadInv
<1>3. files \in Seq(Document) /\ DOMAIN files = 1..read
  BY <1>1, FilesAssumption DEF LoadInv
<1>4. names[name] \in DOMAIN tools /\ name \in Declared(Tool(name))
  BY <1>2 DEF NamesAreUnambiguous
<1>5. PICK i \in 1..read : files[i].tool = names[name]
  BY <1>2, <1>4 DEF Registered
<1>6. Tool(name) = files[i]
  BY <1>2, <1>5 DEF Registered, Tool
<1>7. files[i] \in Document /\ validateTool(files[i])
  <2>1. files \in Seq(Document) /\ i \in 1..Len(files)
    BY <1>1, <1>3
  <2>2. files[i] \in Document
    BY <2>1
  <2>3. validateTool(files[i])
    BY <1>2 DEF Consistent
  <2> QED
    BY <2>2, <2>3
<1>8. names[name] \in Declared(tools[names[name]])
  BY <1>5, <1>6 DEF Declared, Tool
<1>9. names[name] \in DOMAIN names /\ names[names[name]] = names[name]
  BY <1>2, <1>4, <1>8 DEF NamesAreUnambiguous, Known
<1> QED
  BY <1>3, <1>4, <1>5, <1>6, <1>7, <1>9 DEF Known

\* What LatestSafeVersion recommends is the highest upgrade within the tolerance.
THEOREM LoadRecommends == Spec => []RecommendationIsSafe
<1>1. ASSUME LoadInv
      PROVE  RecommendationIsSafe
  <2> SUFFICES ASSUME Loaded, NEW name \in DOMAIN names, NEW current \in Versions,
                      NEW tolerance \in Risks
               PROVE  LET rec == LatestSafeVersion(name, current, tolerance)
                          safe == {v \in Range(Tool(name).versions) :
                                     Greater(v.app, current)
                                     /\ riskOrder[v.risk] <= riskOrder[tolerance]}
                      IN IF safe = {} THEN rec = None
                         ELSE rec \in safe /\ \A v \in safe : ~Greater(v.app, rec.app)
    BY DEF RecommendationIsSafe
  <2> DEFINE entries == Tool(name).versions
             rec == LatestSafeVersion(name, current, tolerance)
             safe == {v \in Range(entries) : Greater(v.app, current)
                                             /\ riskOrder[v.risk] <= riskOrder[tolerance]}
  <2>1. Known(name) /\ Tool(name) \in Document /\ validateTool(Tool(name))
    BY <1>1, LoadedDocuments
  <2>2. \/ /\ rec = None
           /\ \A i \in DOMAIN entries : ~Safe(entries[i], current, tolerance)
        \/ \E i \in DOMAIN entries :
             /\ rec = entries[i] /\ Safe(entries[i], current, tolerance)
             /\ \A j \in DOMAIN entries : Safe(entries[j], current, tolerance) =>
                  ~Greater(entries[j].app, entries[i].app)
    BY <2>1, LatestSafeIsHighest
  <2>3. \A i \in DOMAIN entries : Safe(entries[i], current, tolerance) <=> entries[i] \in safe
    <3> SUFFICES ASSUME NEW i \in DOMAIN entries
                 PROVE  Safe(entries[i], current, tolerance) <=> entries[i] \in safe
      OBVIOUS
    <3>1. entries[i].risk \in Risks
      BY <2>1, ValidEntries
    <3>2. DOMAIN riskOrder = Risks
      BY DEF riskOrder, Risks
    <3>3. entries[i] \in Range(entries)
      BY DEF Range
    <3> QED
      BY <3>1, <3>2, <3>3 DEF Safe, RiskAtOrBelow, Rank
  <2>4. \A v \in safe : \E i \in DOMAIN entries : v = entries[i]
    BY DEF Range
  <2> HIDE DEF safe, rec, entries
  <2>5. IF safe = {} THEN rec = None ELSE rec \in safe /\ \A v \in safe : ~Greater(v.app, rec.app)
    BY <2>2, <2>3, <2>4
  <2> QED
    BY <2>5 DEF safe, rec, entries
<1> QED
  BY <1>1, LoadInvHolds, PTL

\* A recommended version resolves to the entry it was recommended from.
THEOREM LoadResolves == Spec => []RecommendedResolves
<1>1. ASSUME LoadInv
      PROVE  RecommendedResolves
  <2> SUFFICES ASSUME Loaded, NEW name \in DOMAIN names, NEW current \in Versions,
                      NEW tolerance \in Risks, LatestSafeVersion(name, current, tolerance) # None
               PROVE  LET rec == LatestSafeVersion(name, current, tolerance)
                      IN Resolve(CanonicalName(name), rec.app) = rec
    BY DEF RecommendedResolves
  <2>1. Known(name) /\ Tool(name) \in Document /\ validateTool(Tool(name))
        /\ names[name] \in DOMAIN names /\ names[names[name]] = names[name]
    BY <1>1, LoadedDocuments
  <2>2. PICK i \in DOMAIN Tool(name).versions :
          LatestSafeVersion(name, current, tolerance) = Tool(name).versions[i]
    BY <2>1, LatestSafeIsHighest
  <2>3. /\ CanonicalName(name) = names[name] /\ Known(names[name])
        /\ Tool(names[name]) = Tool(name)
    BY <2>1 DEF CanonicalName, Known, Tool
  <2>4. Resolve(names[name], Tool(names[name]).versions[i].app) = Tool(names[name]).versions[i]
    BY <2>1, <2>3, EntryResolves
  <2> QED
    BY <2>2, <2>3, <2>4
<1> QED
  BY <1>1, LoadInvHolds, PTL

\* Resolve returns the latest entry of the target's line not above the target.
THEOREM LoadResolvesLatest == Spec => []ResolveIsLatestOnLine
<1>1. ASSUME LoadInv
      PROVE  ResolveIsLatestOnLine
  <2> SUFFICES ASSUME Loaded, NEW name \in DOMAIN names, NEW to \in Versions
               PROVE  LET entry == Resolve(name, to)
                          line == {v \in Range(Tool(name).versions) : SameLine(v.app, to)}
                      IN /\ entry # None => entry \in line /\ ~Greater(entry.app, to)
                         /\ \A v \in line : ~Greater(v.app, to) =>
                              entry # None /\ ~Greater(v.app, entry.app)
                         /\ \A v \in line : v.app = to => entry = v
    BY DEF ResolveIsLatestOnLine
  <2> DEFINE entries == Tool(name).versions
             entry == Resolve(name, to)
             line == {v \in Range(entries) : SameLine(v.app, to)}
  <2>1. Known(name) /\ Tool(name) \in Document /\ validateTool(Tool(name))
    BY <1>1, LoadedDocuments
  <2>2. \/ /\ entry = None
           /\ \A i \in DOMAIN entries : ~Covers(entries[i], to)
        \/ \E i \in DOMAIN entries :
             /\ entry = entries[i] /\ Covers(entries[i], to)
             /\ \A j \in DOMAIN entries : Covers(entries[j], to) =>
                  ~Greater(entries[j].app, entries[i].app)
    BY <2>1, ResolveIsHighest
  <2>3. \A v \in line : (\E i \in DOMAIN entries : v = entries[i]) /\ SameLine(v.app, to)
    BY DEF Range
  <2>4. \A i \in DOMAIN entries : SameLine(entries[i].app, to) => entries[i] \in line
    BY DEF Range
  <2>5. \A i \in DOMAIN entries : entries[i].app \in Versions
    BY <2>1, ValidEntries
  <2>6. \A i \in DOMAIN entries : entries[i] # None
    BY <2>5, NoneAssumption DEF None
  <2>7. \A i \in DOMAIN entries : entries[i].app = to => entry = entries[i]
    BY <2>1, EntryResolves
  <2> HIDE DEF entries, entry, line
  <2>8. entry # None => entry \in line /\ ~Greater(entry.app, to)
    BY <2>2, <2>4 DEF Covers
  <2>9. \A v \in line : ~Greater(v.app, to) => entry # None /\ ~Greater(v.app, entry.app)
    BY <2>2, <2>3, <2>6 DEF Covers
  <2>10. \A v \in line : v.app = to => entry = v
    BY <2>3, <2>7
  <2> QED
    BY <2>8, <2>9, <2>10 DEF entries, entry, line
<1> QED
  BY <1>1, LoadInvHolds, PTL

\* A chart version leads back to the version whose entry names it.
THEOREM LoadCharts == Spec => []ChartsIdentifyVersions
<1>1. ASSUME LoadInv
      PROVE  ChartsIdentifyVersions
  <2> SUFFICES ASSUME Loaded, NEW name \in DOMAIN names,
                      NEW v \in Range(Tool(name).versions), v.chart # NoVersion
               PROVE  AppVersionForChart(name, v.chart) = v.app
    BY DEF ChartsIdentifyVersions
  <2>1. PICK i \in DOMAIN Tool(name).versions : v = Tool(name).versions[i]
    BY DEF Range
  <2> QED
    BY <1>1, <2>1, LoadedDocuments, ChartLeadsBack
<1> QED
  BY <1>1, LoadInvHolds, PTL

\* A chart is taken for a tool only on the evidence the tool asks for.
THEOREM LoadEvidence == Spec => []ChartsHaveEvidence
<1>1. ASSUME LoadInv
      PROVE  ChartsHaveEvidence
  <2> SUFFICES ASSUME Loaded, NEW chart \in Names, NEW origins \in SUBSET Words,
                      IdentifyChart(chart, origins) # NoName
               PROVE  \E i \in DOMAIN files :
                        /\ files[i].tool = IdentifyChart(chart, origins)
                        /\ chart \in Declared(files[i])
                        /\ chart \in DOMAIN files[i].alias_origins =>
                             \E w \in origins : w \in files[i].alias_origins[chart]
    BY DEF ChartsHaveEvidence
  <2>1. /\ chart \in DOMAIN names /\ IdentifyChart(chart, origins) = names[chart]
        /\ chart \in DOMAIN Tool(chart).alias_origins =>
             Tool(chart).alias_origins[chart] \cap origins # {}
    BY DEF IdentifyChart, Known
  <2>2. PICK i \in DOMAIN files : files[i] = Tool(chart) /\ files[i].tool = names[chart]
    BY <1>1, <2>1, LoadedDocuments
  <2>3. chart \in Declared(files[i])
    BY <1>1, <2>1, <2>2, LoadedDocuments
  <2> QED
    BY <2>1, <2>2, <2>3
<1> QED
  BY <1>1, LoadInvHolds, PTL
=============================================================================
