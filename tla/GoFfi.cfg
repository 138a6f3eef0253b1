SPECIFICATION Spec
CONSTANTS
  t1 = t1
  t2 = t2
  Threads <- MCThreads
  MAX_CLAIMS_V1 = 2
  MAX_CLAIM_BYTES_V1 = 2
  Artifacts = {"k1", "k2"}
  Proofs <- MCProofs
  Inputs <- MCInputs
  MaxCalls = 3
CONSTRAINT AloneOrFew
CHECK_DEADLOCK FALSE
INVARIANTS
  ResultIsThisCalls
  ErrorsAreOwnedOnce
  SurfacesAgree
