----------------------------- MODULE MCMatrix -----------------------------
(* Instances of MatrixLoad for TLC: knowledge bases that differ in names,  *)
(* and one document with every short list of versions.                      *)
EXTENDS MatrixLoad, TLC

CONSTANTS a, b, c, w1, w2

MCVersions == {<<1, 0, 0, 1>>, <<1, 0, 1, 1>>, <<1, 1, 0, 0>>, <<1, 1, 0, 1>>}

entry(app, chart, risk, incompatible, rest) ==
    [app |-> app, chart |-> chart, risk |-> risk, incompatible |-> incompatible, rest |-> rest]

NoOrigins == [x \in {} |-> {}]

document(tool, aliases, origins, versions) ==
    [tool |-> tool, aliases |-> aliases, alias_origins |-> origins,
     chart_repository |-> TRUE, versions |-> versions]

----------------------------------------------------------------------------
\* Documents that differ in their names, their origins and their references.
OneVersion(incompatible) == <<entry(<<1, 0, 0, 1>>, NoVersion, "LOW", incompatible, TRUE)>>

NameDocuments ==
    {document(tool, aliases, NoOrigins, OneVersion(incompatible)) :
       tool \in {a, b, NoName}, aliases \in {<<>>, <<a>>, <<c>>, <<c, c>>},
       incompatible \in {{}, {c}}}
    \union
    {document(a, <<c>>, origins, OneVersion({})) :
       origins \in {c :> {w1}, c :> {w1, w2}, c :> {}, b :> {w1}}}
    \union {document(b, <<>>, NoOrigins, <<>>)}

MCNameFiles == UNION {[1..n -> NameDocuments] : n \in 1..2}

----------------------------------------------------------------------------
\* One tool with an alias, and every list of at most three entries.
Entries == {entry(app, chart, risk, {}, TRUE) :
              app \in MCVersions \union {BadVersion},
              chart \in {NoVersion, <<1, 0, 0, 1>>, <<1, 0, 1, 1>>},
              risk \in {"LOW", "HIGH"}}

MCVersionFiles ==
    {<<document(a, <<c>>, NoOrigins, versions)>> :
       versions \in UNION {[1..n -> Entries] : n \in 0..3}}
    \union
    {<<document(a, <<>>, NoOrigins, <<entry(<<1, 0, 0, 1>>, NoVersion, risk, {}, rest)>>)>> :
       risk \in {"MEDIUM", "BLOCKING", "unknown"}, rest \in BOOLEAN}
    \union
    {<<[document(a, <<>>, NoOrigins, <<entry(<<1, 0, 0, 1>>, chart, "LOW", {}, TRUE)>>)
          EXCEPT !.chart_repository = FALSE]>> :
       chart \in {NoVersion, BadVersion, <<1, 0, 0, 1>>}}

MCFiles == MCNameFiles \union MCVersionFiles
============================================================================
