SPECIFICATION Spec
CONSTANTS
  t1 = t1
  t2 = t2
  workspace = workspace
  None = None
  Fresh = Fresh
  Torn = Torn
  Abandoned = Abandoned
  Other = Other
  Threads = {t1, t2}
  Cwd <- McCwd
  MissingRefs <- McNothing
  MayCorrupt = FALSE
  MaxTurns = 1
  MaxReverts = 1
  MaxCrashes = 1
INVARIANTS TornStaysFenced
CHECK_DEADLOCK FALSE
