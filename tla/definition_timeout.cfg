SPECIFICATION FairSpec
CONSTANTS
  Definitions = {d1}
  Workers = {w1}
  None = None
  Specs <- MCPolledTimedSpecs
  MaxClock = 2
PROPERTY TimeoutReported
CHECK_DEADLOCK FALSE
