CONSTANTS
    MaxLines = 2
    SessionMayExit = FALSE
SPECIFICATION FairSpec
CHECK_DEADLOCK FALSE
PROPERTY StartCompletes
