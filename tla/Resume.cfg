SPECIFICATION FairSpec
CONSTANTS
  a1 = a1  a2 = a2  None = None
  Attempts = {a1, a2}
  MaxFailures = 2  MaxContinuations = 1
  MaxTurns = 4  MaxCrashes = 2  MaxChoices = 2
INVARIANTS StopHolds CountedCrashesEnd GivesUp
PROPERTIES ResumeEnds
CHECK_DEADLOCK FALSE
