------------------------------ MODULE MCScan ------------------------------
(* Instances of Scan for TLC: two tools, one of them with an alias that      *)
(* needs evidence, in two namespaces and Flux's own.                         *)
EXTENDS Scan

CONSTANTS a, base, b, u, w, n1, n2, fx, r, s

v1 == <<1, 0, 0, 1>>
v2 == <<1, 1, 0, 1>>
MCVersions == {v1, v2}

entry(app, chart) ==
    [app |-> app, chart |-> chart, risk |-> "LOW", incompatible |-> {}, rest |-> TRUE]

MCKnowledgeBase ==
    <<[tool |-> a, aliases |-> <<base>>, alias_origins |-> (base :> {w}),
       chart_repository |-> TRUE, versions |-> <<entry(v1, v1), entry(v2, v2)>>],
      [tool |-> b, aliases |-> <<>>, alias_origins |-> [n \in {} |-> {}],
       chart_repository |-> TRUE, versions |-> <<entry(v1, v1)>>]>>

attempt(n, deployed, version) ==
    [version |-> n, deployed |-> deployed, app |-> version, chart |-> a,
     chartVersion |-> version, namespace |-> n1, release |-> r]

object(chart, repository, history) ==
    [own |-> fx, namespace |-> n1, release |-> r, chart |-> chart, chartVersion |-> VersionRange,
     applied |-> NoVersion, words |-> {}, repository |-> repository, history |-> history]

MCFluxLists ==
    {<<>>,
     <<object(a, {}, <<attempt(1, TRUE, v1), attempt(2, FALSE, v2)>>)>>,
     <<object(NoName, {}, <<>>)>>,
     <<[object(base, {w}, <<>>) EXCEPT !.applied = v2]>>}

release(namespace, name, chart, version, words) ==
    [namespace |-> namespace, release |-> name, chart |-> chart, chartVersion |-> v1,
     app |-> version, words |-> words]

MCHelmLists ==
    {<<>>,
     <<release(n1, r, a, v1, {}), release(n2, r, b, v1, {})>>,
     <<release(n1, r, base, v2, {w}), release(n1, s, u, v1, {})>>,
     <<release(n1, s, base, NoVersion, {}), release(n2, r, a, BadVersion, {})>>}

source(chart, revision) ==
    [chart |-> chart, target |-> VersionRange, revision |-> revision, words |-> {}]

application(sources, images) ==
    [own |-> n2, namespace |-> n1, release |-> s, sources |-> sources, images |-> images]

imageB == <<"quay", ".", "io", "/", "b", "/", "server">>
tagged(version) == <<imageB \o <<":", "v">> \o version \o <<"-", "alpine">>>>

MCArgoLists ==
    {<<>>,
     <<application(<<source(NoName, NoVersion), source(b, v1)>>, <<>>)>>,
     <<application(<<source(a, v2), source(a, NoVersion)>>, tagged(<<"1", ".", "1">>)),
       application(<<source(b, NoVersion)>>, tagged(<<"1", ".", "0">>))>>}

MCNumber == ("0" :> 0) @@ ("1" :> 1) @@ ("5000" :> 5000)

MCDetections ==
    (a :> <<[name |-> "agent", container |-> "main", image |-> <<"a">>, from |-> "image_tag"],
            [name |-> "", container |-> "", image |-> <<"b", "/", "a">>, from |-> "label"]>>)
    @@ (b :> <<[name |-> "", container |-> "", image |-> <<"b", "/", "server">>,
                from |-> "image_tag"]>>)

container(name, image) == [name |-> name, image |-> image]

workload(namespace, name, containers, label) ==
    [namespace |-> namespace, name |-> name, containers |-> containers, label |-> label]

\* By its name, by its image, with a version and without one.
MCRawSets ==
    {{},
     {workload(n1, "agent", <<container("side", imageB),
                              container("main", <<"my", "/", "x", ":", "1", ".", "0">>)>>, <<>>),
      workload(n1, "node", <<container("main", <<"x", "/", "a", ":", "latest">>)>>, <<>>)},
     {workload(n1, "server", <<container("main", imageB \o <<"@", "sha256", ":", "abc">>)>>, <<>>),
      workload(n2, "server", <<container("main", imageB \o <<":", "1", ".", "1", ".", "0">>),
                               container("side", <<"b", "/", "a", ":", "1">>)>>, <<"v", "1">>)}}

MCReferences ==
    [parts: {<<<<"a">>>>, <<<<"b">>, <<"a">>>>, <<<<"b", "-", "a">>>>,
             <<<<"localhost", ":", "5000">>, <<"a">>>>, <<<<"quay", ".", "io">>, <<"b">>, <<"a">>>>},
     release: {<<"1">>, <<"v", "1", ".", "1">>, <<"1", ".", "0", ".", "1">>,
               <<"1", ".", "0", ".", "0", "-", "rc", ".", "1">>},
     suffix: {<<>>, <<"-", "debian", "-", "1">>, <<"-", "alpine", ".", "1">>},
     digest: BOOLEAN]
    \union {[parts |-> <<<<"b">>, <<"a">>>>, release |-> <<>>, suffix |-> <<>>, digest |-> TRUE],
            [parts |-> <<<<"a">>>>, release |-> <<"latest">>, suffix |-> <<>>, digest |-> FALSE]}

MCWatchLists == {<<n1>>, <<n1, n1>>, <<n2, n1>>, <<>>}
===========================================================================
