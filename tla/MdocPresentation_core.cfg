SPECIFICATION Spec
CONSTANTS
  MAX_CLAIMS_V1 = 2
  MAX_CLAIM_BYTES_V1 = 176
  MAX_DIGEST_ID = 40
  Credentials <- MCCredentials
  Strangers <- MCStrangers
  FoldedItems <- MCFoldedItems
  FoldedNonces = 2
  MaxPreps = 2
  MaxProofs = 2
INVARIANT
  ExposedIsSigned
CHECK_DEADLOCK FALSE
