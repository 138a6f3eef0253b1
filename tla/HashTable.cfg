SPECIFICATION Spec
CONSTANTS
  POSITIONS = 10
  Regions <- MCRegions
  SignedLens = {1, 55, 56, 64, 70, 119, 120, 150, 184, 300}
  AttributeLens = {1, 55, 56, 60, 64, 119, 120}
  SscLens = {50, 55, 56}
  MaxChanges = 2
CONSTRAINT FewForged
CHECK_DEADLOCK FALSE
INVARIANTS
  AcceptedIsHashed
  DigestsAreRead
