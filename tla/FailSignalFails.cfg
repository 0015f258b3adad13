SPECIFICATION Spec
CONSTANT Worlds <- MCWorlds
INVARIANT FailSignalFails
CHECK_DEADLOCK FALSE
