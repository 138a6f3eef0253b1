SPECIFICATION FairSpec
CONSTANTS
  Threads = {t1, t2}
  Finalizer = Finalizer
  Holders = {h1}
  NoProc = NoProc
CHECK_DEADLOCK FALSE
INVARIANTS
  NoUseAfterFree
  NoDoubleFree
  SeedsErased
  NothingLeftBehind
PROPERTIES
  LifetimeSpec
  CallsReturn
  CloseReleases
