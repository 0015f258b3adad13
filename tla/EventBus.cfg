SPECIFICATION FairSpec
CONSTANTS
    twice = twice
    once = once
    unhandled = unhandled
    Ids <- MCIds
    HandlersOf <- MCHandlersOf
    OverflowHandlers = 1
    Capacity = 2
    Keep = 1
    CacheSize = 1
    Stoppers = {s1, s2}
    NoStopper = NoStopper
    MaxEmits = 3
INVARIANTS
    TypeOK
    IdempotentWhileCached
    ShutdownDrains
PROPERTIES
    EventsSettle
CHECK_DEADLOCK FALSE
