CONSTANTS
    Key = {k1, k2, k3, k4}
    Versions <- MCVersions
    Configs <- MCConfigs
    NumTests = 2
    Inf = 90
SPECIFICATION Spec
INVARIANTS
    NoDuplicates
    MapMatchesItems
    LowerIsNumeric
    DevelopmentNewest
    FitsAllVersions
PROPERTY OrderSpec
CHECK_DEADLOCK FALSE
