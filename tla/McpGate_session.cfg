SPECIFICATION Spec
CONSTANTS
  post = post
  pnl = pnl
  None = None
  Tools <- MCTools
  Writes <- MCWrites
  MaxMessages = 2
  MaxChanges = 2
  ReadFaults = FALSE
INVARIANT RepliesConsistent
INVARIANT BlockedStaysOut
PROPERTY EveryRequestAnswered
CHECK_DEADLOCK FALSE
