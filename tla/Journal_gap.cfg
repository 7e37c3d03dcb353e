SPECIFICATION Spec
CONSTANTS
  d1 = d1
  d2 = d2
  d3 = d3
  Cash = Cash
  Income = Income
  Device = {d1, d2, d3}
  Account <- MCAccount
  Archivable = {Income}
  Submitted <- MCSubmitted
  OtherTables = TRUE
  MaxSeq <- WithRelay
INVARIANT InOrderIsAccepted
CHECK_DEADLOCK FALSE
