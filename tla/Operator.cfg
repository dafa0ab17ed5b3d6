SPECIFICATION FairSpec
CONSTANTS
    a = a  older = older  newer = newer  trial = trial
    Names = {a}
    Words = {}
    NoName = NoName
    NoVersion = NoVersion
    BadVersion = BadVersion
    NoPolicy = NoPolicy
    NoPlan = NoPlan
    NoScan = NoScan
    ToolNames = {a}
    Versions <- MCVersions
    Builds = {older, newer, trial}
    KnowledgeBase <- MCBase
    Specs <- MCSpecs
    Clusters <- MCClusters
    FluxDeclares <- MCDeclared
    DryRun <- MCDryRun
    Initially <- MCInitially
    MaxFaults = 1
    MaxEdits = 2
INVARIANTS TypeOK TwoGates
PROPERTIES DowngradeNeedsDisturbance ClosedGatesClose UpgradesEnd
CHECK_DEADLOCK FALSE
