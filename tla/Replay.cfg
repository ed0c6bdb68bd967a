\* Two backends in a row, two lost connections, one handler that throws; fair.
SPECIFICATION FairSpec
CONSTANTS
  Capacity = 2
  MaxEvents = 3
  MaxRestarts = 1
  MaxDrops = 2
  MaxThrows = 1
INVARIANTS NothingSilentlyMissed CaughtUp AppliedOnceInOrder
PROPERTIES EventuallyInformed
CHECK_DEADLOCK FALSE
