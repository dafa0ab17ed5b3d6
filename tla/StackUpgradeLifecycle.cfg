SPECIFICATION FairSpec
CONSTANTS
    Plans = {p1}
    Tools = {t1, t2}
    Versions = {v1, v2}
    Releases = {r1, r2}
    t1 = t1  t2 = t2  v1 = v1  v2 = v2  r1 = r1  r2 = r2
    NoPlan = NoPlan
    ToolLists <- MCToolLists
    KnowledgeBases <- MCKnownOrNot
    InitialReleases <- MCInstalledOrNot
    DryRuns = {TRUE, FALSE}
    RollbackMayFail = TRUE
    MaxFaults = 2
    MaxEdits = 1
    MaxCreations = 1
PROPERTIES ImplementsLifecycle PlansSettle ComesToRest
CHECK_DEADLOCK FALSE
