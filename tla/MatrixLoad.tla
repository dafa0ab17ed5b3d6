---------------------------- MODULE MatrixLoad ----------------------------
(***************************************************************************)
(* How Load builds the compatibility matrix from the files of a knowledge  *)
(* base, one after the other, and what the queries of Matrix return from a *)
(* matrix that was loaded.                                                 *)
(***************************************************************************)
EXTENDS Naturals, Sequences, FiniteSetsExt, Functions

CONSTANTS
    Names,      \* tool names, aliases and chart names
    Words,      \* words of alias_origins, as they occur in a chart's origins
    Versions,   \* versions that parse, see Greater
    Files,      \* the knowledge bases to load: sequences of documents
    NoName,     \* a missing tool name, and "no tool"
    NoVersion,  \* a missing version, and "no version"
    BadVersion  \* a version that does not parse

VARIABLES
    files,   \* the knowledge base
    read,    \* how many of its files have been read
    tools,   \* canonical name -> document
    names,   \* canonical name or alias -> canonical name
    failed,  \* an error was found
    status   \* "loading", "loaded" or "rejected"

vars == <<files, read, tools, names, failed, status>>

\* The queries answer from the tools and names registered so far.
INSTANCE Matrix

ASSUME FilesAssumption == Files \subseteq Seq(Document) \ {<<>>}
ASSUME VersionsAssumption == Versions \subseteq Nat \X Nat \X Nat \X {0, 1}
ASSUME NoneAssumption == /\ NoName \notin Names
                         /\ NoVersion \notin Versions /\ BadVersion \notin Versions

-----------------------------------------------------------------------------
(* Load.                                                                   *)

\* Mutant: an alias that is taken is registered again.
AddableUnchecked(doc) == doc.tool \notin DOMAIN names

\* No name of the document is taken, by another tool or by the document itself.
Addable(doc) ==
    /\ Declared(doc) \cap DOMAIN names = {}
    /\ doc.tool \notin Range(doc.aliases)
    /\ IsInjective(doc.aliases)

\* All the names of the document or, after any error, none.
Add(doc) ==
    IF Addable(doc)
      THEN /\ names' = [n \in DOMAIN names \union Declared(doc) |->
                          IF n \in Declared(doc) THEN doc.tool ELSE names[n]]
           /\ tools' = [t \in DOMAIN tools \union {doc.tool} |->
                          IF t = doc.tool THEN doc ELSE tools[t]]
      ELSE UNCHANGED <<names, tools>>

\* One file: validated, and registered even when it is not valid, unless it
\* names no tool.
ReadFile ==
    /\ status = "loading"
    /\ read < Len(files)
    /\ read' = read + 1
    /\ LET doc == files[read'] IN
         /\ IF doc.tool = NoName THEN UNCHANGED <<names, tools>> ELSE Add(doc)
         /\ failed' = (failed \/ ~validateTool(doc) \/ ~Addable(doc))
    /\ UNCHANGED <<files, status>>

\* Every name an entry is incompatible with is known.
checkReferences ==
    \A t \in DOMAIN tools : \A i \in DOMAIN tools[t].versions :
        tools[t].versions[i].incompatible \subseteq DOMAIN names

Finish ==
    /\ status = "loading"
    /\ read = Len(files)
    /\ status' = IF failed \/ ~checkReferences THEN "rejected" ELSE "loaded"
    /\ UNCHANGED <<files, read, tools, names, failed>>

Init ==
    /\ files \in Files
    /\ read = 0
    /\ tools = <<>> /\ names = <<>>
    /\ failed = FALSE
    /\ status = "loading"

Next == ReadFile \/ Finish

Spec == Init /\ [][Next]_vars

-----------------------------------------------------------------------------
(* Properties.                                                             *)

Loaded == status = "loaded"

\* Load accepts exactly the well-formed knowledge bases: reading the files one
\* by one, and registering broken ones, neither hides nor invents an error.
LoadAcceptsWellFormed == status # "loading" => (Loaded <=> WellFormed(files))

\* Every name leads to the one tool that declares it, also while loading and
\* after errors.
NamesAreUnambiguous ==
    /\ \A n \in DOMAIN names : names[n] \in DOMAIN tools /\ n \in Declared(Tool(n))
    /\ \A t \in DOMAIN tools : \A n \in Declared(tools[t]) : Known(n) /\ names[n] = t

\* What LatestSafeVersion recommends is an upgrade, within the tolerance, and
\* the highest such entry; it recommends nothing only when there is none.
RecommendationIsSafe ==
    Loaded => \A name \in DOMAIN names, current \in Versions, tolerance \in Risks :
      LET rec == LatestSafeVersion(name, current, tolerance)
          safe == {v \in Range(Tool(name).versions) :
                     Greater(v.app, current) /\ riskOrder[v.risk] <= riskOrder[tolerance]}
      IN IF safe = {} THEN rec = None
         ELSE rec \in safe /\ \A v \in safe : ~Greater(v.app, rec.app)

\* A recommended version resolves to the very entry it was recommended from,
\* so the chart and the risk a plan gets are those of its target, and a plan
\* made by autoplan is never an unknown tool to the same operator.
RecommendedResolves ==
    Loaded => \A name \in DOMAIN names, current \in Versions, tolerance \in Risks :
      LET rec == LatestSafeVersion(name, current, tolerance)
      IN rec # None => Resolve(CanonicalName(name), rec.app) = rec

\* Resolve returns the latest entry of the target's minor line that is not
\* above the target, the entry of the target itself if there is one.
ResolveIsLatestOnLine ==
    Loaded => \A name \in DOMAIN names, to \in Versions :
      LET entry == Resolve(name, to)
          line == {v \in Range(Tool(name).versions) : SameLine(v.app, to)}
      IN /\ entry # None => entry \in line /\ ~Greater(entry.app, to)
         /\ \A v \in line : ~Greater(v.app, to) => entry # None /\ ~Greater(v.app, entry.app)
         /\ \A v \in line : v.app = to => entry = v

\* A chart version leads back to the app version whose entry names it, so a
\* release that reports only its chart is not taken for another version.
ChartsIdentifyVersions ==
    Loaded => \A name \in DOMAIN names :
      \A v \in Range(Tool(name).versions) :
        v.chart # NoVersion => AppVersionForChart(name, v.chart) = v.app

\* A chart is taken for a tool only by a name that tool declares and, for an
\* alias with origins, with one of its words as evidence.
ChartsHaveEvidence ==
    Loaded => \A chart \in Names, origins \in SUBSET Words :
      LET tool == IdentifyChart(chart, origins)
      IN tool # NoName =>
           \E i \in DOMAIN files :
             /\ files[i].tool = tool
             /\ chart \in Declared(files[i])
             /\ chart \in DOMAIN files[i].alias_origins =>
                  \E w \in origins : w \in files[i].alias_origins[chart]
=============================================================================
