SPECIFICATION Spec
CONSTANT NumHosts = 2
CHECK_DEADLOCK FALSE
INVARIANTS
    FrameworkGone
    ArtifactsGone
    ConnectionOutlivesResource
    PoolsReturned
    ExitZeroMeansClean
PROPERTY EvidenceKept
