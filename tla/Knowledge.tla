----------------------------- MODULE Knowledge -----------------------------
(* A knowledge base that the operator has loaded: the queries of Matrix,     *)
(* as M, over the tools and the names Load leaves for it.                    *)
EXTENDS Naturals, Sequences, Functions

CONSTANTS
    Names, Words, Versions, NoName, NoVersion, BadVersion,  \* as in Matrix
    KnowledgeBase  \* the documents

KnownTools ==
    [t \in {doc.tool : doc \in Range(KnowledgeBase)} |->
       CHOOSE doc \in Range(KnowledgeBase) : doc.tool = t]
KnownNames ==
    [n \in UNION {{t} \union Range(KnownTools[t].aliases) : t \in DOMAIN KnownTools} |->
       CHOOSE t \in DOMAIN KnownTools : n = t \/ n \in Range(KnownTools[t].aliases)]

Tools == DOMAIN KnownTools

M == INSTANCE Matrix WITH tools <- KnownTools, names <- KnownNames

ASSUME KnowledgeAssumption == KnowledgeBase \in Seq(M!Document) /\ M!WellFormed(KnowledgeBase)
ASSUME VersionsAssumption == Versions \subseteq Nat \X Nat \X Nat \X {0, 1}
ASSUME NoneAssumption == {NoName, NoVersion, BadVersion} \cap (Names \union Versions) = {}
=============================================================================
