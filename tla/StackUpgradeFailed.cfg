SPECIFICATION Spec
CONSTANTS
    Plans = {p1}
    Tools = {t1, t2}
    Versions = {v1, v2}
    Releases = {r1, r2}
    t1 = t1  t2 = t2  v1 = v1  v2 = v2  r1 = r1  r2 = r2
    NoPlan = NoPlan
    ToolLists <- OneStep
    KnowledgeBases <- MCKnown
    InitialReleases <- MCInstalled
    DryRuns = {FALSE}
    RollbackMayFail = FALSE
    MaxFaults = 0
    MaxEdits = 0
    MaxCreations = 1
PROPERTIES FailedIsFinal
CHECK_DEADLOCK FALSE
