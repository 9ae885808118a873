CONSTANTS
    MaxLines = 3
    SessionMayExit = TRUE
SPECIFICATION FairSpec
CHECK_DEADLOCK FALSE
INVARIANTS
    NothingUnsearched
    ThreadSurvives
    StopWorks
PROPERTY WaiterWoken
