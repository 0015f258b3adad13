SPECIFICATION FairSpec
CONSTANTS
    Procs = {p1, p2}
    FirstFiles <- MCFirstFiles
    MaxWrites = 2
    MaxEnds = 1
INVARIANTS
    TypeOK
    LockHeld
    DurableWhenAlone
PROPERTIES
    CorruptStays
    OperationsEnd
CHECK_DEADLOCK FALSE
