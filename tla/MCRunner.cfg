SPECIFICATION FairSpec
CONSTANTS
    connect = connect
    verify = verify
    resync = resync
    quorum = quorum
    FileSets <- MCFileSets
    Requested <- MCRequested
    Exclude <- MCExclude
    NumVms = 2
    MaxSkip = 1
    Iterations = 2
    Earlier = 1
    EarlierUse = {"held"}
CHECK_DEADLOCK FALSE
INVARIANTS
    AllRun
    OneTestAtATime
    FailFast
    ZeroMeansSuccess
    HistoryKept
PROPERTIES
    TestEnds
    TestStartsClean
