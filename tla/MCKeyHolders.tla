----------------------------- MODULE MCKeyHolders -----------------------------
(***************************************************************************)
(* KeyHolders for TLC: the instances of its parts.                         *)
(***************************************************************************)
EXTENDS KeyHolders, MCPeerNetwork, MCMcpProtocol, MCPedersenDkg, MCProactiveRefresh
=============================================================================
