SPECIFICATION Spec
CONSTANTS
  acme = acme
  beta = beta
  g1 = g1
  g2 = g2
  NoBook = NoBook
  NoGuest = NoGuest
  Books <- MCBooks
  Guests <- MCGuests
  MaxWrites = 1
  MaxDials = 1
  ThreadFails = TRUE
  Unreachable = TRUE
INVARIANT StopRevokes
INVARIANT AnswersAreLive
INVARIANT SessionConsistent
PROPERTY StopIsNoticed
PROPERTY CallsReturn
