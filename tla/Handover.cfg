SPECIFICATION FairSpec
CONSTANTS
    Plans = {p1}
    Tools = {t1}
    Versions = {v1, v2}
    Releases = {r1, r2}
    t1 = t1  v1 = v1  v2 = v2  r1 = r1  r2 = r2
    NoPlan = NoPlan
    Nobody = Nobody
    ToolLists <- TwoSteps
    KnowledgeBases <- MCKnown
    InitialReleases <- MCInstalled
    DryRuns = {FALSE}
    RollbackMayFail = FALSE
    MaxFaults = 0
    MaxEdits = 1
    MaxCreations = 1
    MaxSteps = 2
    MaxLosses = 1
INVARIANTS RunsApprovedSteps StepsCarriedOut RepeatsBounded
PROPERTIES NeverBack PlansSettle
CHECK_DEADLOCK FALSE
