SPECIFICATION Spec
CONSTANTS
  app = app
  mcp = mcp
  invoice1 = invoice1
  invoice2 = invoice2
  bill1 = bill1
  acme = acme
  NoDoc = NoDoc
  Proc = {app, mcp}
  Invoice = {invoice1, invoice2}
  Bill = {}
  Party <- MCParty
  LineAmount = {2}
  PayAmount = {1, 3}
  ManualAmount = {}
  MaxLines = 2
  MaxManual = 0
  MaxCut = 0
INVARIANT CreditNeverNegative
CHECK_DEADLOCK FALSE
