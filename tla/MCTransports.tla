---------------------------- MODULE MCTransports ----------------------------
(* A pair with one host thread (the share loop) and two guest threads, so     *)
(* that a signal can go to the wrong one, and two payloads told apart; a      *)
(* stream with the header of the code and a limit that leaves room for an     *)
(* empty body, one of a byte and one that spans two reads.                    *)
EXTENDS Transports

CONSTANTS h, g1, g2, a, b

MCHost == {h}
MCGuest == {g1, g2}
MCFrames == {a, b}
MCHeaderBytes == 4
MCMaxFrame == 2
=============================================================================
