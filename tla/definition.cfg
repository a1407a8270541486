SPECIFICATION MCSpec
CONSTANTS
  Definitions = {d1, d2, d3}
  Workers = {w1, w2}
  None = None
  Specs <- MCSpecs
  MaxClock = 3
INVARIANTS TypeOK IInv SettledIsObserved SettledIsPublished
PROPERTIES PublishesRecentDocuments Converges Collected FailureReported Served
CHECK_DEADLOCK FALSE
