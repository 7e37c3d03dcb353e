SPECIFICATION Spec
CONSTANTS
  app = app
  mcp = mcp
  checking = checking
  receivable = receivable
  Old = Old
  NoId = NoId
  App = {app}
  Server = {mcp}
  Latest = 3
  OldVersions = {1, 2}
  Full <- MCFull
  SystemOnly <- MCSystemOnly
  Control <- MCControl
  MaxRows = 3
  Faults = TRUE
INVARIANT StampsUnique
INVARIANT ClockForward
INVARIANT SeededOnce
INVARIANT BookConsistent
PROPERTY IdentityStable
PROPERTY SomeoneServes
