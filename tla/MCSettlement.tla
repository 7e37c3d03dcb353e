---------------------------- MODULE MCSettlement ---------------------------
(***************************************************************************)
(* Small instances of Settlement for TLC.                                  *)
(***************************************************************************)
EXTENDS Settlement, TLC

CONSTANTS app, mcp, invoice1, invoice2, bill1, acme

\* Two invoices, so that credit can move between them, and a bill of the same
\* counterparty, whose pool has the opposite sign and a credit of its own.
MCParty == [d \in Doc |-> acme]

\* A line, and a discount: the total of a document can be negative.
MCLineAmount == {2, -1}

\* The two invoices are alike.
MCSymmetry == Permutations(Invoice)
=============================================================================
