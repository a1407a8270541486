SPECIFICATION Spec
CONSTANTS
  Definitions <- MCOneDefinition
  Contents <- MCPlainContents
  Specs <- MCPlainSpecs
  MaxClock = 1
  None = None
INVARIANT SettledIsCurrent
CHECK_DEADLOCK FALSE
