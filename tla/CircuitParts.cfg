SPECIFICATION Spec
CONSTANTS
  \* A whole era from the first year, and one to the last.
  Starts = {1, 9599}
  Span = 401
  Regions <- MCRegions
  Lens = {22, 27, 34, 40, 47, 48, 85}
  POSITIONS = 32
  OFFSET_BITS = 11
  \* One letter looks like a short head, one like the long one.
  Key = 7
  LongHead = 9
  ShortLimit = 3
  WindowLen = 6
  Letters = {1, 3, 9}
  MaxText = 4
  Before = {0, 3, 8}
  Circuits <- MCCircuits
  Width = 2
  Budget = 12
  MaxSize = 9
  MaxFaults = 2
  \* Bytes on both sides of every marker.
  IssuedBytes = {0, 24, 25, 26, 128}
  WitnessBytes = {0, 23, 24, 128}
  DigestIds <- MCDigestIds
  \* The sizes of sha256_var.rs.
  MAX_VAR_MESSAGE_BYTES = 176
  NUM_BLOCKS = 3
  \* Empty, the last length of one block, the first of two, full, over budget.
  MessageBlocks <- MCMessageBlocks
  MaxBytes <- MCMaxBytes
  Lengths = {0, 55, 56, 119, 120}
  StrayDigest <- MCStrayDigest
CONSTRAINT FewChanges
CHECK_DEADLOCK FALSE
INVARIANTS
  DaysCountsPages
  OnlyRealDatesParse
  RangeIsWideEnough
  DigitsKeepOrder
  WindowsReadSignedBytes
  MatchIsTheWholeValue
  ShapesAreReadAsWritten
  ExposedIsEmbedded
  DigestIsRfc6234
  SelectedDigestIsReal
  HonestWitnessesAreAccepted
  AssembledIsNative
