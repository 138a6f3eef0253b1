SPECIFICATION Spec
CONSTANT MaxCalls = 1
INVARIANT SeedIsZeroedOnEveryPath
CHECK_DEADLOCK FALSE
