SPECIFICATION Spec
CONSTANTS
    a = a  b = b  c = c  w1 = w1  w2 = w2
    Names = {a, b, c}
    Words = {w1, w2}
    NoName = NoName
    NoVersion = NoVersion
    BadVersion = BadVersion
    Versions <- MCVersions
    Files <- MCFiles
INVARIANTS LoadAcceptsWellFormed NamesAreUnambiguous ChartsHaveEvidence RecommendationIsSafe RecommendedResolves ResolveIsLatestOnLine ChartsIdentifyVersions
CHECK_DEADLOCK FALSE
