---------------------------- MODULE MCMcpProtocol ----------------------------
(***************************************************************************)
(* Instances of McpProtocol for TLC.                                       *)
(***************************************************************************)
EXTENDS McpProtocol

Size(n, t) == [n |-> n, t |-> t]

FiveSizes == {Size(1, 0), Size(1, 1), Size(2, 1), Size(3, 1), Size(3, 2)}

ThreeOfTwo == {Size(3, 1)}
=============================================================================
