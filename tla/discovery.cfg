SPECIFICATION FairSpec
CONSTANTS
  n1 = n1  n2 = n2  h1 = h1  h2 = h2  s1 = s1  a = a  b = b
  Namespaces = {n1, n2}
  Names = {x}
  Labels = {a, b}
  Hubs = {h1}
  Specifications = {s1}
  Home <- MCHomeOfOne
  HubSpecs <- MCHubSpecs
  SpecificationSpecs <- MCHomeSpecs
  MaxClock = 4
  None = None  Own = Own  Invalid = Invalid
INVARIANTS TypeOK HubsMissNothing SpecificationsMissNothing
PROPERTY Follows
CHECK_DEADLOCK FALSE
