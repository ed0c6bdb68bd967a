\* Two turns of a thread one after the other; fair, without symmetry.
SPECIFICATION FairSpec
CONSTANTS
  t1 = t1
  t2 = t2
  None = None
  Turns = {t1, t2}
  MaxAsks = 1
INVARIANTS FencesHeld Watched
PROPERTIES KeepsContract TurnEnds
CHECK_DEADLOCK FALSE
