SPECIFICATION Spec
CONSTANTS
    c1 = c1
    c2 = c2
    c3 = c3
    Callers = {c1, c2}
    NoCaller = NoCaller
    MaxCorrections = 1
    MaxCost = 0
    TurnCosts = {0}
    MaxEdits = 1
    Policies <- MCPolicies
    Packets <- SharedPackets
    LoopModes <- SharedModes
    Configs <- SharedConfigs
INVARIANTS
    WorkStaysInTurn
    FrozenBaseline
    HomeNeverRemoved
    QuietIsClean
    ExclusiveUntilCrash
CHECK_DEADLOCK FALSE
