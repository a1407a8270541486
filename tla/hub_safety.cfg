SPECIFICATION Spec
CONSTANTS
  Hubs = {h1}
  Workers = {w1, w2}
  Specs <- MCSafetySpecs
  MaxClock = 3
  None = None
SYMMETRY Symmetry
INVARIANTS TypeOK IInv SettledIsRolledOut SettledIsObserved ConditionsAgree
PROPERTY RollsForward
CHECK_DEADLOCK FALSE
