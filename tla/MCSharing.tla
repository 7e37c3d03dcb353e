----------------------------- MODULE MCSharing ------------------------------
(* An owner with two companies, so that a switch can be shared, and two guests *)
(* for the one share loop.                                                    *)
EXTENDS Sharing

CONSTANTS acme, beta, g1, g2

MCBooks == {acme, beta}
MCGuests == {g1, g2}
=============================================================================
