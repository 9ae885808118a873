CONSTANTS
    Backends = {"lvm", "zfs", "raw", "storage-spaces"}
    MaxVolumes = 2
SPECIFICATION Spec
CHECK_DEADLOCK FALSE
INVARIANTS
    RecordedExact
    NothingLeft
    OnlyTargetsPin
