SPECIFICATION Spec
CONSTANTS
  Sources = {1, 2}
  Foreign = {2}
  Containers = {"swagger-ui", "proxy"}
  Settings = {"memory", "image", "API_URLS"}
  Templates <- MCPlainTemplates
  MaxClock = 1
  None = None
INVARIANT SettledIsMounted
CHECK_DEADLOCK FALSE
