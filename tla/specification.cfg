SPECIFICATION FairSpec
CONSTANTS
  Definitions <- MCTwoDefinitions
  Contents <- MCContents
  Specs <- MCSpecs
  MaxClock = 2
  None = None
INVARIANTS TypeOK IInv SettledIsObserved SettledIsPublished SettledHasNoGhosts SettledMergesEverything MergedResolves
PROPERTIES RepublishesRecentDocuments Converges Collected FailureReported
CHECK_DEADLOCK FALSE
