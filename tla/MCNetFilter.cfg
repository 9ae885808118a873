CONSTANTS
    Paths = {"drop", "reject"}
    Packets = {"packet"}
    PathRules = 2
    MaxBlocks = 1
    MaxShells = 2
    MaxTests = 2
SPECIFICATION FairSpec
CHECK_DEADLOCK FALSE
INVARIANTS
    RulesAccounted
    UnblockWorks
PROPERTY PathsOpenAgain
