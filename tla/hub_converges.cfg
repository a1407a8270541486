SPECIFICATION FairSpec
CONSTANTS
  Hubs = {h1}
  Workers = {w1}
  Specs <- MCLiveSpecs
  MaxClock = 3
  None = None
PROPERTIES Converges Collected FailureReported
CHECK_DEADLOCK FALSE
