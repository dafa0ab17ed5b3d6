SPECIFICATION Spec
CONSTANTS
    a = a  base = base  b = b  u = u  w = w  n1 = n1  n2 = n2  fx = fx  r = r  s = s
    Names = {a, base, b, u}
    Words = {w}
    NoName = NoName
    NoVersion = NoVersion
    BadVersion = BadVersion
    VersionRange = VersionRange
    Number <- MCNumber
    Detections <- MCDetections
    References <- MCReferences
    Namespaces = {n1, n2, fx}
    Releases = {r, s}
    Versions <- MCVersions
    KnowledgeBase <- MCKnowledgeBase
    WatchLists <- MCWatchLists
    FluxLists <- MCFluxLists
    HelmLists <- MCHelmLists
    ArgoLists <- MCArgoLists
    RawSets <- MCRawSets
    MaxChanges = 1
INVARIANTS TypeOK  NothingInvented ComparableVersionKept DeployedVersionRead  ImagesReadBack DetectedVersionKept
CHECK_DEADLOCK FALSE
