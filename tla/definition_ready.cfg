SPECIFICATION Spec
CONSTANTS
  Definitions = {d1}
  Workers = {w1}
  None = None
  Specs <- MCPlainSpecs
  MaxClock = 4
INVARIANT SettledIsReady
CHECK_DEADLOCK FALSE
