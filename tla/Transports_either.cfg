SPECIFICATION TransportSpec
CONSTANTS
  h = h
  g1 = g1
  g2 = g2
  a = a
  b = b
  Host <- MCHost
  Guest <- MCGuest
  Frames <- MCFrames
  MaxFrames = 2
  HeaderBytes <- MCHeaderBytes
  MaxFrame <- MCMaxFrame
  MaxBody = 2
  MaxSent = 3
INVARIANT WaitersConsistent
PROPERTY EitherImplementsFrameChannel
PROPERTY CloseReleases
PROPERTY EveryFrameArrives
CHECK_DEADLOCK FALSE
