------------------------------- MODULE MCMoney -------------------------------
(* Amounts of four bits, -8 .. 7, in quarters written in base two: line totals *)
(* lie in -2 .. 2, so four lines reach either end and a fifth goes beyond it.  *)
EXTENDS Money

MCHalf == 8
MCBase == 2
=============================================================================
