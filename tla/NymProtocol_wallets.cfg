SPECIFICATION Spec
CONSTANTS
  h1 = h1
  h2 = h2
  v1 = v1
  rogue = rogue
  n1 = n1
  n2 = n2
  short = short
  Points = {"K", "L"}
  ShortNonces = {short}
  Holders <- DefectHolders
  Wallet <- DefectWallet
  Issued <- DefectIssued
  HonestVerifiers = {v1}
  RogueVerifiers = {rogue}
  Nonces = {n1, n2, short}
  Thumbprints <- MCThumbprints
  Ranges <- MCRanges
  TrustedKey = "K"
  Moments <- MCMoments
  KnownSeeds = {}
  OwnDevices = {}
  MaxSessions = 2
INVARIANTS
  HonestProofsAreAccepted
  RefusalTellsCause
CHECK_DEADLOCK FALSE
