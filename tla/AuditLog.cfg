SPECIFICATION AuditSpec
CONSTANTS
    FlushSize = 2
    SegmentCap = 1
    MaxSegments = 2
    MaxRotated = 1
    MaxEvents = 4
    MaxFaults = 2
    MaxFlights = 2
INVARIANTS
    AuditTypeOK
    ChainBreaksExcused
    LossExcused
    VerifiedMeansNoHole
PROPERTIES
    RefinesTamperEvidentLog
CHECK_DEADLOCK FALSE
