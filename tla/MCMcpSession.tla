---------------------------- MODULE MCMcpSession ----------------------------
(***************************************************************************)
(* TLC instance of McpSession.                                             *)
(***************************************************************************)
EXTENDS McpSession
=============================================================================
