----------------------------- MODULE MCMcpGate ------------------------------
(* A tool that writes and one that reads.                                     *)
EXTENDS McpGate

CONSTANTS post, pnl

MCTools == {post, pnl}
MCWrites == {post}
=============================================================================
