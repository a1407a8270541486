SPECIFICATION Spec
CONSTANTS
  Hubs = {h1}
  Workers = {w1}
  Specs <- MCPlainSpecs
  MaxClock = 4
  None = None
PROPERTY TakesNothingOver
CHECK_DEADLOCK FALSE
