----------------------------- MODULE Transports -----------------------------
(* mb_share_transport: the table of send, recv and close that share.c is      *)
(* written against.  Whoever makes the channel fills the table in once, with  *)
(* the in-memory pair (tests, demos in one process) or with an iroh stream.   *)
EXTENDS Loopback, Framing

VARIABLE kind   \* which functions the table holds: "loopback" or "iroh"

transportVars == <<kind, vars, streamVars>>

TransportInit == kind \in {"loopback", "iroh"} /\ Init /\ StreamInit

TransportNext ==
  /\ UNCHANGED kind
  /\ \/ kind = "loopback" /\ Next /\ UNCHANGED streamVars
     \/ kind = "iroh" /\ StreamNext /\ UNCHANGED vars

\* The fairness of either implementation: what the other one would owe is never
\* enabled.
TransportSpec == TransportInit /\ [][TransportNext]_transportVars
                   /\ Fairness /\ StreamFairness
-----------------------------------------------------------------------------
\* transport.h: "Every call sends or receives one complete frame", over either
\* implementation.  Each direction of the pair, and the stream, hand on exactly
\* the frames taken, once and in order, and report the end only of a closed
\* channel; the pair also hands out all it took before the close.
EitherImplementsFrameChannel ==
  ImplementsFrameChannel /\ StreamImplementsFrameChannel
=============================================================================
