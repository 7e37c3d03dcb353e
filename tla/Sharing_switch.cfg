SPECIFICATION Spec
CONSTANTS
  acme = acme
  beta = beta
  g1 = g1
  g2 = g2
  NoBook = NoBook
  NoGuest = NoGuest
  Books <- MCBooks
  Guests <- MCGuests
  MaxWrites = 0
  MaxDials = 1
  ThreadFails = FALSE
  Unreachable = FALSE
INVARIANT SharedIsOnScreen
