----------------------------- MODULE MCOpening -----------------------------
(***************************************************************************)
(* Small instances of Opening for TLC.                                     *)
(***************************************************************************)
EXTENDS Opening

CONSTANTS app, mcp, checking, receivable

\* An ordinary account, then a control account.
MCFull == <<checking, receivable>>
MCSystemOnly == <<receivable>>
MCControl == {receivable}
=============================================================================
