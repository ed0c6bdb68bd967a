\* Two turns; the first one's interrupt may overrun its budget.
SPECIFICATION Spec
CONSTANTS
  t1 = t1
  t2 = t2
  None = None
  Turns = {t1, t2}
  MaxAsks = 2
INVARIANT ReleaseIsSafe
CHECK_DEADLOCK FALSE
