---------------------------- MODULE MCMcpServers ----------------------------
(***************************************************************************)
(* Instance of McpServers for TLC.                                         *)
(***************************************************************************)
EXTENDS McpServers

CONSTANT n1
=============================================================================
