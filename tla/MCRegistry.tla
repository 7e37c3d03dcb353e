----------------------------- MODULE MCRegistry -----------------------------
(* Three books, so that there is a most recent one among those that remain    *)
(* when one is forgotten.                                                     *)
EXTENDS Registry

CONSTANTS p1, acme, beta, city

MCApps == {p1}
MCPaths == {acme, beta, city}
=============================================================================
