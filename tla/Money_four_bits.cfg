SPECIFICATION MoneySpec
CONSTANTS
  Half <- MCHalf
  Base <- MCBase
  MaxDraft = 5
  MaxHand = 3
  MaxDigits = 4
  Refused = Refused
  None = None
PROPERTY LineTotalIsNearest
INVARIANT TextIsExact
INVARIANT PostingsAreExact
