SPECIFICATION FairSpec
CONSTANT Worlds <- MCWorlds
INVARIANTS
    TypeOK
    PassMeansVerified
CHECK_DEADLOCK FALSE
