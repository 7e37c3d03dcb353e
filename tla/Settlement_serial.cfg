SPECIFICATION Spec
CONSTANTS
  app = app
  mcp = mcp
  invoice1 = invoice1
  invoice2 = invoice2
  bill1 = bill1
  acme = acme
  NoDoc = NoDoc
  Proc = {app}
  Invoice = {invoice1, invoice2}
  Bill = {bill1}
  Party <- MCParty
  LineAmount <- MCLineAmount
  PayAmount = {1, 3}
  ManualAmount = {1}
  MaxLines = 3
  MaxManual = 1
  MaxCut = 1
SYMMETRY MCSymmetry
INVARIANT BalanceReconciles
INVARIANT CreditNeverNegative
INVARIANT DocumentsConsistent
INVARIANT IssuedIsLocked
PROPERTY Lifecycle
PROPERTY ImplementsReceivables
CHECK_DEADLOCK FALSE
