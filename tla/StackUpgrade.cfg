SPECIFICATION Spec
CONSTANTS
    Plans = {p1}
    Tools = {t1, t2}
    Versions = {v1, v2}
    Releases = {r1, r2}
    t1 = t1  t2 = t2  v1 = v1  v2 = v2  r1 = r1  r2 = r2
    NoPlan = NoPlan
    ToolLists <- MCToolLists
    KnowledgeBases <- MCKnownOrNot
    InitialReleases <- MCInstalled
    DryRuns = {FALSE}
    RollbackMayFail = TRUE
    MaxFaults = 1
    MaxEdits = 1
    MaxCreations = 2
INVARIANTS TypeOK IInv RunsApprovedPlan StepsCarriedOut RepeatsBounded
PROPERTIES StepsInstalled
CHECK_DEADLOCK FALSE
