SPECIFICATION Spec
CONSTANTS
  h1 = h1
  h2 = h2
  v1 = v1
  rogue = rogue
  n1 = n1
  n2 = n2
  short = short
  Points = {"K", "L"}
  ShortNonces = {short}
  Holders = {h1, h2}
  Wallet <- MCWallet
  Issued <- MCIssued
  HonestVerifiers = {v1}
  RogueVerifiers = {rogue}
  Nonces = {n1, n2, short}
  Thumbprints <- MCThumbprints
  Ranges <- MCRanges
  TrustedKey = "K"
  Moments <- MCMoments
  KnownSeeds = {"s2", "s3", "s4", "s5"}
  OwnDevices = {"d3", "d4"}
  MaxSessions = 2
INVARIANTS
  AcceptedIsAuthentic
  HonestNymsAreProvedFor
  ConsentIsForTheSession
  NymsAreBoundByCredentials
CHECK_DEADLOCK FALSE
