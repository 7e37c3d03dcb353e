SPECIFICATION RegistrySpec
CONSTANTS
  p1 = p1
  acme = acme
  beta = beta
  city = city
  NoPath = NoPath
  Apps <- MCApps
  Paths <- MCPaths
  MaxClock = 5
INVARIANT ListIsCurrent
