------------------------------- MODULE Scan -------------------------------
(***************************************************************************)
(* One scan of the cluster for a policy: Flux's HelmReleases, plain Helm   *)
(* releases, Argo CD's Applications and raw workloads are listed one after *)
(* the other, each of which may fail, while the cluster changes; then every *)
(* find is mapped to a tool of the knowledge base, with one record a tool. *)
(*                                                                         *)
(* Left out: reading fields of unstructured objects, CleanVersion on what  *)
(* charts and histories say, the API versions Flux and its sources may be  *)
(* served in, and the fields of a find that only a plan copies.            *)
(***************************************************************************)
EXTENDS Workloads

CONSTANTS
    Namespaces,
    Releases,   \* names of Helm releases
    VersionRange, \* a range of versions, in a spec that may hold one
    WatchLists, \* spec.watchNamespaces of policies
    FluxLists,  \* what the API server may list of each source:
    HelmLists,
    ArgoLists,
    RawSets,
    MaxChanges  \* bound: changes of the cluster during the scan

VersionOrNone == Versions \union {NoVersion, BadVersion}

\* An attempt in a HelmRelease's history.  Flux requires all but appVersion.
Snapshot == [version: Nat, deployed: BOOLEAN, app: VersionOrNone, chart: Names,
             chartVersion: VersionOrNone, namespace: Namespaces, release: Releases]

\* A Flux HelmRelease: "namespace" is where it installs into (its own one by
\* default), "chart" is missing with a chartRef, "words" and "repository" are
\* the evidence in its source's name and in its HelmRepository's URL.
HelmRelease == [own: Namespaces, namespace: Namespaces, release: Releases,
                chart: Names \union {NoName},
                chartVersion: VersionOrNone \union {VersionRange},
                applied: VersionOrNone, words: SUBSET Words, repository: SUBSET Words,
                history: Seq(Snapshot)]

\* A release in Helm's storage.
Release == [namespace: Namespaces, release: Releases, chart: Names,
            chartVersion: VersionOrNone, app: VersionOrNone, words: SUBSET Words]

\* An Argo CD Application; "images" are those it runs.
Source == [chart: Names \union {NoName}, target: VersionOrNone \union {VersionRange},
           revision: VersionOrNone, words: SUBSET Words]
Application == [own: Namespaces, namespace: Namespaces, release: Releases, sources: Seq(Source),
                images: Seq(Seq(STRING))]

\* A Deployment, StatefulSet or DaemonSet.
Workload == [namespace: Namespaces, name: STRING, containers: Seq(Container), label: Seq(STRING)]

ASSUME SourcesAssumption ==
    /\ WatchLists \subseteq Seq(Namespaces)
    /\ FluxLists \subseteq Seq(HelmRelease) /\ HelmLists \subseteq Seq(Release)
    /\ ArgoLists \subseteq Seq(Application) /\ RawSets \subseteq SUBSET Workload
    /\ \A set \in RawSets : IsFiniteSet(set)
    /\ MaxChanges \in Nat

\* Helm lists the last revision of each release only.
ASSUME HelmAssumption ==
    \A list \in HelmLists : \A i, j \in DOMAIN list :
       list[i].namespace = list[j].namespace /\ list[i].release = list[j].release => i = j

VARIABLES
    cluster,   \* what is installed, by source
    watched,   \* spec.watchNamespaces
    pc,        \* what is listed: "flux", "helm" (and then Argo CD), "raw"; or "done"
    at,        \* the next namespace, for the sources listed namespace by namespace
    flux, helm, argo, \* the finds so far
    raw,       \* ... of the workload scanner: tool -> find
    answered,  \* history: the sources that answered, "repositories" for those of Flux
    listed,    \* history: the namespaces whose Helm releases were listed
    installed, \* the result: tool -> record
    unknown,   \* the result: names of finds without a tool
    before,    \* history: the clusters there were during the scan
    changes

finds == <<flux, helm, argo, raw>>
vars == <<cluster, watched, pc, at, flux, helm, argo, raw, answered, listed,
          installed, unknown, before, changes>>

Init ==
    /\ cluster \in [flux: FluxLists, helm: HelmLists, argo: ArgoLists, raw: RawSets]
    /\ watched \in WatchLists
    /\ pc = "flux" /\ at = 1
    /\ flux = <<>> /\ helm = <<>> /\ argo = <<>> /\ raw = <<>>
    /\ answered = {} /\ listed = {}
    /\ installed = <<>> /\ unknown = {}
    /\ before = {cluster}
    /\ changes = 0

-----------------------------------------------------------------------------
(* What one object is read as.                                             *)

\* The position a loop ends with that replaces what it holds by what is better.
FirstBest(S, better(_, _)) ==
    CHOOSE i \in S : \A j \in S : ~better(j, i) /\ (j < i => better(i, j))

\* Mutant: the newest attempt counts, deployed or not.
latestSnapshot(history) ==
    history[FirstBest(DOMAIN history, LAMBDA i, j : history[i].version > history[j].version)]

Supersedes(s, t) == \/ s.deployed /\ ~t.deployed
                    \/ s.deployed = t.deployed /\ s.version > t.version

latestDeployedSnapshot(history) ==
    history[FirstBest(DOMAIN history, LAMBDA i, j : Supersedes(history[i], history[j]))]

\* A range or a wildcard is no version.
exactVersion(v) == IF v = VersionRange THEN NoVersion ELSE v

\* The history says what was deployed, and the spec what should be.
fluxTool(o) ==
    LET deployed == o.history # <<>>
        snap == latestDeployedSnapshot(o.history)
    IN [source |-> "fluxcd", name |-> IF deployed THEN snap.chart ELSE o.chart,
        version |-> IF deployed THEN snap.app ELSE NoVersion,
        chartVersion |-> CASE deployed                           -> snap.chartVersion
                           [] ~deployed /\ o.applied # NoVersion -> o.applied
                           [] OTHER                              -> exactVersion(o.chartVersion),
        namespace |-> IF deployed THEN snap.namespace ELSE o.namespace,
        release |-> IF deployed THEN snap.release ELSE o.release,
        words |-> o.words, images |-> <<>>]

helmTool(r) ==
    [source |-> "helm", name |-> r.chart, version |-> r.app, chartVersion |-> r.chartVersion,
     namespace |-> r.namespace, release |-> r.release, words |-> r.words, images |-> <<>>]

\* A source of an Application as a tool; the resolved revision comes first.
argoTool(app, s) ==
    [source |-> "argocd", name |-> s.chart, version |-> NoVersion,
     chartVersion |-> IF s.revision # NoVersion THEN s.revision ELSE exactVersion(s.target),
     namespace |-> app.namespace, release |-> app.release, words |-> s.words,
     images |-> app.images]

\* The elements of a list at these positions, in its order.
Kept(list, positions) ==
    FlattenSeq([i \in DOMAIN list |-> IF i \in positions THEN <<list[i]>> ELSE <<>>])

\* Each source with a chart is a tool.
argoTools(app) ==
    Kept([i \in DOMAIN app.sources |-> argoTool(app, app.sources[i])],
         {i \in DOMAIN app.sources : app.sources[i].chart # NoName})

\* What the workloads and the images there may be are recognised as.
Recognised == [w \in UNION RawSets |-> ToolsOf(w)]
ImageVersions ==
    [images \in {<<>>} \union UNION {{app.images : app \in Range(list)} : list \in ArgoLists} |->
       [t \in Tools |-> VersionFromImages(images, t)]]

\* Versions has every version that is read there.
ASSUME VersionsReadAssumption ==
    /\ \A w \in DOMAIN Recognised : \A t \in DOMAIN Recognised[w] : Recognised[w][t] \in VersionOrNone
    /\ \A images \in DOMAIN ImageVersions : \A t \in Tools : ImageVersions[images][t] \in VersionOrNone

\* Workload w as tool t, which one of its rules says it is.
rawTool(w, t) ==
    [source |-> "raw", name |-> t, version |-> Recognised[w][t], chartVersion |-> NoVersion,
     namespace |-> w.namespace, release |-> "", words |-> {}, images |-> <<>>]

\* It installs into, or lives in, a namespace of the policy.
Watches(o, t) == {o.own, t.namespace} \cap Range(watched) # {}

-----------------------------------------------------------------------------
(* Listing the sources.                                                    *)

\* A failed listing of the HelmRepositories costs the evidence in their URLs.
WithRepositories(o, repositories) ==
    [fluxTool(o) EXCEPT !.words = IF repositories THEN @ \union o.repository ELSE @]

ListFlux ==
    /\ pc = "flux"
    /\ pc' = "helm"
    /\ \/ \E repositories \in BOOLEAN :
            /\ flux' = Kept([i \in DOMAIN cluster.flux |->
                              WithRepositories(cluster.flux[i], repositories)],
                            {i \in DOMAIN cluster.flux :
                              Watches(cluster.flux[i], fluxTool(cluster.flux[i]))})
            /\ answered' = answered \union {"fluxcd"} \union
                             (IF repositories THEN {"repositories"} ELSE {})
       \/ UNCHANGED <<flux, answered>>
    /\ UNCHANGED <<cluster, watched, at, helm, argo, raw, listed,
                   installed, unknown, before, changes>>

\* The releases stored in the next namespace; one that cannot be read is skipped.
ListHelm ==
    /\ pc = "helm"
    /\ at <= Len(watched)
    /\ at' = at + 1
    /\ \/ /\ helm' = helm \o Kept([i \in DOMAIN cluster.helm |-> helmTool(cluster.helm[i])],
                                   {i \in DOMAIN cluster.helm :
                                      cluster.helm[i].namespace = watched[at]})
          /\ listed' = listed \union {watched[at]}
       \/ UNCHANGED <<helm, listed>>
    /\ UNCHANGED <<cluster, watched, pc, flux, argo, raw, answered,
                   installed, unknown, before, changes>>

ListArgo ==
    /\ pc = "helm"
    /\ at > Len(watched)
    /\ pc' = "raw" /\ at' = 1
    /\ \/ /\ argo' = FlattenSeq([i \in DOMAIN cluster.argo |->
                                    IF Watches(cluster.argo[i], cluster.argo[i])
                                      THEN argoTools(cluster.argo[i]) ELSE <<>>])
          /\ answered' = answered \union {"argocd"}
       \/ UNCHANGED <<argo, answered>>
    /\ UNCHANGED <<cluster, watched, flux, helm, raw, listed,
                   installed, unknown, before, changes>>

\* The workloads of a list that are taken for tool t, and those that show its version.
Matches(order, t) == {i \in DOMAIN order : t \in DOMAIN Recognised[order[i]]}
Shown(order, t) == {i \in Matches(order, t) : Recognised[order[i]][t] \in Versions}

\* Mutant: a tool keeps its first match.
applyDetectionsOnce(seen, order) ==
    [t \in DOMAIN seen \union {u \in Tools : Matches(order, u) # {}} |->
       IF t \in DOMAIN seen THEN seen[t] ELSE rawTool(order[Min(Matches(order, t))], t)]

\* A tool keeps its first match with a version, or else its first match: what was
\* seen of it before and in the workloads of a list.
applyDetections(seen, order) ==
    [t \in DOMAIN seen \union {u \in Tools : Matches(order, u) # {}} |->
       IF t \in DOMAIN seen /\ (seen[t].version \in Versions \/ Shown(order, t) = {}) THEN seen[t]
       ELSE LET best == IF Shown(order, t) # {} THEN Shown(order, t) ELSE Matches(order, t)
            IN rawTool(order[Min(best)], t)]

\* The workloads of the next namespace, which the cache lists in any order.
ListRaw ==
    /\ pc = "raw"
    /\ at <= Len(watched)
    /\ at' = at + 1
    /\ \E order \in SetToSeqs({w \in cluster.raw : w.namespace = watched[at]}) :
         raw' = applyDetections(raw, order)
    /\ UNCHANGED <<cluster, watched, pc, flux, helm, argo, answered, listed,
                   installed, unknown, before, changes>>

-----------------------------------------------------------------------------
(* Merging Flux's releases with Helm's.                                    *)

\* Mutant: releases of one name are one, whatever their namespace.
KeyWithoutNamespace(t) == <<t.release>>

Key(t) == <<t.namespace, t.release>>

\* Of releases with one key, the last.
byRelease ==
    [k \in {Key(helm[i]) : i \in DOMAIN helm} |->
       CHOOSE i \in DOMAIN helm :
         Key(helm[i]) = k /\ \A j \in DOMAIN helm : Key(helm[j]) = k => j <= i]

\* What Flux does not report comes from the Helm release.
completed(f) ==
    IF Key(f) \notin DOMAIN byRelease THEN f
    ELSE LET h == helm[byRelease[Key(f)]]
         IN [f EXCEPT !.name = IF @ = NoName THEN h.name ELSE @,
                      !.chartVersion = IF @ = NoVersion THEN h.chartVersion ELSE @,
                      !.version = IF @ = NoVersion THEN h.version ELSE @,
                      !.words = @ \union h.words]

managed == {byRelease[k] : k \in {Key(f) : f \in Range(flux)} \cap DOMAIN byRelease}

\* Mutant: Helm's releases are all kept.
mergeKeepingAll == helm

mergeFluxManagedReleases == Kept(helm, DOMAIN helm \ managed)

\* The result of ScanAll.
ScanAll == [i \in DOMAIN flux |-> completed(flux[i])] \o mergeFluxManagedReleases \o argo

-----------------------------------------------------------------------------
(* resolveInstalled.                                                       *)

sourceRank == [fluxcd |-> 3, argocd |-> 3, helm |-> 2, raw |-> 1]

identify(t) == IF t.source = "raw" THEN M!CanonicalName(t.name)
               ELSE M!IdentifyChart(t.name, t.words)

\* The version reported, else that of a known image, else of the chart version.
appVersion(tool, t) ==
    IF t.version # NoVersion THEN t.version
    ELSE IF ImageVersions[t.images][tool] # NoVersion THEN ImageVersions[t.images][tool]
    ELSE M!AppVersionForChart(tool, t.chartVersion)

\* Mutant: a find keeps the name of its chart.
IdentifiedByChart(t) == [t EXCEPT !.version = appVersion(identify(t), t)]

\* A find under its tool's name.
Identified(t) == [t EXCEPT !.name = identify(t), !.version = appVersion(identify(t), t)]

\* Mutant: the rank of the source decides alone.
preferredByRank(a, b) == sourceRank[a.source] > sourceRank[b.source]

preferred(a, b) ==
    IF sourceRank[a.source] # sourceRank[b.source]
      THEN sourceRank[a.source] > sourceRank[b.source]
      ELSE a.version \in Versions /\ b.version \notin Versions

\* The record of each tool when the finds are taken in order: no find of the tool
\* is preferred to it, and it is the first such find.
Records(found) ==
    LET of(t) == {i \in DOMAIN found : identify(found[i]) = t}
    IN [t \in {identify(f) : f \in Range(found)} \ {NoName} |->
          Identified(found[FirstBest(of(t), LAMBDA i, j :
                                       preferred(Identified(found[i]), Identified(found[j])))])]

Raws == LET tools == SetToSeq(DOMAIN raw) IN [i \in DOMAIN tools |-> raw[tools[i]]]

\* All finds; a failed scan of the workloads costs all raw ones.
Found(sources) == IF "raw" \in sources THEN ScanAll \o Raws ELSE ScanAll

resolveInstalled ==
    /\ pc = "raw"
    /\ at > Len(watched)
    /\ pc' = "done"
    /\ \E sources \in {answered, answered \union {"raw"}} :
         /\ answered' = sources
         /\ installed' = Records(Found(sources))
         /\ unknown' = {t.name : t \in {u \in Range(Found(sources)) : identify(u) = NoName}}
    /\ UNCHANGED <<cluster, watched, at, finds, listed, before, changes>>

-----------------------------------------------------------------------------
\* Somebody installs, upgrades or removes something of one source.
ChangeCluster ==
    /\ pc # "done"
    /\ changes < MaxChanges
    /\ changes' = changes + 1
    /\ \/ \E list \in FluxLists \ {cluster.flux} : cluster' = [cluster EXCEPT !.flux = list]
       \/ \E list \in HelmLists \ {cluster.helm} : cluster' = [cluster EXCEPT !.helm = list]
       \/ \E list \in ArgoLists \ {cluster.argo} : cluster' = [cluster EXCEPT !.argo = list]
       \/ \E set \in RawSets \ {cluster.raw} : cluster' = [cluster EXCEPT !.raw = set]
    /\ before' = before \union {cluster'}
    /\ UNCHANGED <<watched, pc, at, finds, answered, listed, installed, unknown>>

Next == ListFlux \/ ListHelm \/ ListArgo \/ ListRaw \/ resolveInstalled \/ ChangeCluster

Spec == Init /\ [][Next]_vars

-----------------------------------------------------------------------------
(* Properties.                                                             *)

Find == [source: DOMAIN sourceRank, name: Names \union {NoName}, version: VersionOrNone,
         chartVersion: VersionOrNone, namespace: Namespaces, release: Releases \union {""},
         words: SUBSET Words, images: Seq(Seq(STRING))]

\* The state has its types, and each record is under its own name.
TypeOK ==
    /\ cluster \in [flux: FluxLists, helm: HelmLists, argo: ArgoLists, raw: RawSets]
    /\ watched \in WatchLists
    /\ pc \in {"flux", "helm", "raw", "done"} /\ at \in 1..(Len(watched) + 1)
    /\ {flux, helm, argo} \subseteq Seq(Find)
    /\ raw \in [DOMAIN raw -> Find] /\ DOMAIN raw \subseteq Tools
    /\ answered \subseteq {"fluxcd", "repositories", "argocd", "raw"} /\ listed \subseteq Namespaces
    /\ installed \in [DOMAIN installed -> Find] /\ DOMAIN installed \subseteq Tools
    /\ \A t \in DOMAIN installed : installed[t].name = t
    /\ unknown \subseteq Names \union {NoName}
    /\ cluster \in before
    /\ changes \in 0..MaxChanges

Done == pc = "done"

\* What each source that answered holds of a cluster in the watched namespaces.
FluxObjects(c) == IF "fluxcd" \in answered
                    THEN {o \in Range(c.flux) : Watches(o, fluxTool(o))} ELSE {}
HelmObjects(c) == {r \in Range(c.helm) : r.namespace \in listed}
ArgoObjects(c) == IF "argocd" \in answered
                    THEN {app \in Range(c.argo) : Watches(app, app)} ELSE {}
RawObjects(c) == IF "raw" \in answered
                   THEN {w \in c.raw : w.namespace \in Range(watched)} ELSE {}

RawRead(w) == {rawTool(w, t) : t \in DOMAIN Recognised[w]}

\* The finds these objects are, each by itself.
FindsOf(c) ==
    {WithRepositories(o, "repositories" \in answered) : o \in FluxObjects(c)}
    \union {helmTool(r) : r \in HelmObjects(c)}
    \union (UNION {Range(argoTools(app)) : app \in ArgoObjects(c)})
    \union (UNION {RawRead(w) : w \in RawObjects(c)})

Place(f) == <<f.namespace, f.release>>

\* A Flux object and the Helm release it manages are of one chart, as they are
\* once Flux has carried its object out, whenever during the scan each is listed.
Reconciled(c, d) ==
    \A o \in Range(c.flux), r \in Range(d.helm) :
       Place(fluxTool(o)) = Place(r) => fluxTool(o).name \in {r.chart, NoName}

\* A tool that is installed all through the scan, at one place and in a source
\* that answers, is reported, by that source or one that ranks higher: neither a
\* source that fails nor any change meanwhile, nor the merge of two sources,
\* hides it.
NothingMissed ==
    Done /\ (\A c, d \in before : Reconciled(c, d)) =>
      \A t \in Tools, f \in FindsOf(cluster) :
        (\A c \in before : \E g \in FindsOf(c) :
           Place(g) = Place(f) /\ g.source = f.source /\ identify(g) = t)
        => /\ t \in DOMAIN installed
           /\ sourceRank[installed[t].source] >= sourceRank[f.source]

\* The source a tool is reported with is one it was installed from, and the
\* version is that of the very installation: the release of that name in that
\* namespace, at some time during the scan.
NothingInvented ==
    Done => \A t \in DOMAIN installed :
      LET record == installed[t]
          same == {f \in UNION {FindsOf(c) : c \in before} : Place(f) = Place(record)}
      IN /\ \E f \in same : f.source = record.source
         /\ record.version \in {NoVersion} \union {appVersion(t, f) : f \in same}

\* Between finds of the best source, one with a version that can be compared
\* is kept: a second record without one does not hide an available upgrade.
ComparableVersionKept ==
    Done => \A t \in DOMAIN installed :
      (\E f \in Range(Found(answered)) :
         /\ identify(f) = t
         /\ sourceRank[f.source] = sourceRank[installed[t].source]
         /\ appVersion(t, f) \in Versions)
      => installed[t].version \in Versions

\* So it is among raw workloads: in whatever order they are listed, one that shows
\* a version is not hidden by another that shows none, or "latest".
DetectedVersionKept ==
    Done /\ "raw" \in answered =>
      \A w \in UNION {c.raw : c \in before}, t \in Tools :
        /\ w.namespace \in Range(watched) /\ \A c \in before : w \in c.raw
        /\ t \in DOMAIN Recognised[w] /\ Recognised[w][t] \in Versions
        => raw[t].version \in Versions

\* A scan takes every image reference apart as it was put together: whatever
\* registry, port, tag, suffix or digest it has, it is recognised by its
\* repository and its version is its release.
ImagesReadBack == Done => ReadBack

\* The version read from a HelmRelease is that of the newest deployed attempt,
\* where there is one: a failed upgrade is not reported as installed.
DeployedVersionRead ==
    \A o \in Range(cluster.flux) :
      LET deployed == {s \in Range(o.history) : s.deployed} IN
      deployed # {} =>
        \E s \in deployed : /\ \A r \in deployed : r.version <= s.version
                            /\ <<fluxTool(o).name, fluxTool(o).version>> = <<s.chart, s.app>>

\* cluster.go, ScanAll: a release a Flux HelmRelease manages is reported once,
\* as fluxcd.  This needs watched namespaces without repetitions.
FluxReleasesOnce ==
    Done /\ IsInjective(watched) => \A f, h \in Range(ScanAll) :
      f.source = "fluxcd" /\ h.source = "helm" => Key(f) # Key(h)
=============================================================================
