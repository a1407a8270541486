SPECIFICATION FairSpec
CONSTANTS
  Sources = {1, 2}
  Foreign = {2}
  Containers = {"swagger-ui", "proxy"}
  Settings = {"memory", "image", "API_URLS"}
  Templates <- MCTemplates
  MaxClock = 2
  None = None
INVARIANTS TypeOK OffersWhatIsMounted SettledIsRendered SettledHasNoGhosts SettledOffersEverything IInv
PROPERTY Rests
CHECK_DEADLOCK FALSE
