SPECIFICATION Spec
CONSTANT Worlds <- MCWorlds
INVARIANT CheckerDeathFails
CHECK_DEADLOCK FALSE
