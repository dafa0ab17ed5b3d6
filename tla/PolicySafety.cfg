SPECIFICATION Spec
CONSTANTS
    p = p  q = q  ns = ns  a = a  a2 = a2  b = b  x = x
    Policies = {p}
    Names = {a, a2, b, x}
    Words = {}
    NoName = NoName
    NoVersion = NoVersion
    BadVersion = BadVersion
    NoPolicy = NoPolicy
    Home <- MCHome
    Versions <- MCVersions
    KnowledgeBase <- MCKnowledgeBase
    PlanName <- MCPlanName
    Specs <- MCSpecs
    Clusters <- MCClusters
    Rejected = {}
    MaxFaults = 1
    MaxEdits = 3
    MaxChanges = 1
    MaxClock = 0
INVARIANTS TypeOK EachToolOnce
PROPERTIES ReportedUpgradesPlanned ImplementsPromise
CHECK_DEADLOCK FALSE
