SPECIFICATION FairSpec
CONSTANTS
  t1 = t1
  t2 = t2
  None = None
  Threads = {t1, t2}
  Last = 4
  threadOf <- McThreadOf
  Journaled <- McJournaled
  Terminal <- McTerminal
  QueueMax = 2
  BatchSize = 2
  MaxAttempts = 2
  MaxBoots = 4
INVARIANTS NothingLost OneRow ReplayBudget
PROPERTIES InOrder ReplayInOrder PassIsComplete StartupEnds QueueDrains
CHECK_DEADLOCK FALSE
