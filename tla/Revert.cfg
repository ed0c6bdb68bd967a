SPECIFICATION FairSpec
CONSTANTS
  t1 = t1
  t2 = t2
  workspace = workspace
  None = None
  Fresh = Fresh
  Torn = Torn
  Abandoned = Abandoned
  Other = Other
  Threads = {t1, t2}
  Cwd <- McCwd
  MissingRefs <- McMissing
  MayCorrupt = TRUE
  MaxTurns = 2
  MaxReverts = 2
  MaxCrashes = 2
INVARIANTS FenceHolds TornFencedUnlessGivenUp
PROPERTIES KeepsContract DatabaseLast RevertsEnd
CHECK_DEADLOCK FALSE
