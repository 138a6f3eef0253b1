SPECIFICATION Spec
CONSTANT MaxCalls = 3
INVARIANTS
  SaneSeedIsZeroed
  OutputsAreThisCalls
CHECK_DEADLOCK FALSE
