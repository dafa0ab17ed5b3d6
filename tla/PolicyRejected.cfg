SPECIFICATION FairSpec
CONSTANTS
    p = p  q = q  ns = ns  a = a  a2 = a2  b = b  x = x
    Policies = {p}
    Names = {a, a2, b, x}
    Words = {}
    NoName = NoName
    NoVersion = NoVersion
    BadVersion = BadVersion
    NoPolicy = NoPolicy
    Home <- MCHome
    Versions <- MCVersions
    KnowledgeBase <- MCKnowledgeBase
    PlanName <- MCPlanName
    Specs <- AutoplanSpecs
    Clusters <- TwoClusters
    Rejected <- Reject
    MaxFaults = 0
    MaxEdits = 1
    MaxChanges = 0
    MaxClock = 1
PROPERTIES ReportsAlwaysOn
CHECK_DEADLOCK FALSE
