CONSTANTS
    Node = {"a", "b"}
    Volume = {0}
    Old = {"a"}
    Calls <- MCCalls
    MaxOps = 2
    MaxFaults = 1
SPECIFICATION Spec
INVARIANT StillToCome
PROPERTIES OwnEvent ForbiddenRaises
CHECK_DEADLOCK FALSE
