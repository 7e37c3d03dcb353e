SPECIFICATION Spec
CONSTANTS
  Null = Null
  Accounts <- MCAccounts
  Chart <- MCChart
  Type <- MCType
  Role <- MCRole
  Kinds <- MCKinds
  Documents <- MCDocuments
  LastDate = 2
  MaxEntries = 3
  Archivable <- MCArchivable
  Windows <- MCWindows
  MaxLate = 1
INVARIANT BooksConsistent
INVARIANT CashFlowIsMovement
INVARIANT EffectiveMatchesPnl
INVARIANT LedgerOfOneMoment
INVARIANT ExportsFootUp
