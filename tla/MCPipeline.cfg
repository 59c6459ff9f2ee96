\* One analysis: several on one host are in the runs of Sinkhole and SharedHost.
CONSTANTS
    Analyses = {a1}
    Subnets = {s1}
    NoSubnet = NoSubnet
    Containers = {"build", "install", "import", "probe1", "probe2", "probe3", "execute"}
    MaxProbes = 0
    Asked <- MCAsked
SPECIFICATION FairSpec
INVARIANTS
    PipelineTypeOK
    BridgeOnlyIfFull
    StageContained
    NothingHeldAtReport
    CompletedReportIsHonest
    NoUnreportedContainer
PROPERTIES
    SinkholeSpec
    RunEnds
CHECK_DEADLOCK FALSE
