SPECIFICATION FairSpec
CONSTANTS
    c1 = c1
    c2 = c2
    c3 = c3
    Callers = {c1}
    NoCaller = NoCaller
    MaxCorrections = 2
    MaxCost = 2
    TurnCosts = {0, 2}
    MaxEdits = 0
    Policies <- MCPolicies
    Packets <- RulesPackets
    LoopModes <- RulesModes
    Configs <- RulesConfigs
INVARIANTS
    TypeOK
    PassVerdictEarned
    AcceptanceEarned
    MemoryRecordsHostOutcome
PROPERTIES
    NewTurnJustified
    LoopReturns
CHECK_DEADLOCK FALSE
