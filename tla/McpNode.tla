------------------------------- MODULE McpNode -------------------------------
(***************************************************************************)
(* A node of sigimora-mcp: node.rs starts the network and dials, and       *)
(* protocol.rs keeps the phases of one node.  The two share no state, and  *)
(* nothing in the code passes a message from one to the other: a behaviour *)
(* here is one of the peers with the protocol at rest, or one of the       *)
(* protocol with the network at rest.                                      *)
(***************************************************************************)
EXTENDS PeerNetwork, McpProtocol

NodeInit == NetInit /\ ProtocolInit

NodeNext ==
  \/ ~Created /\ NetNext /\ UNCHANGED protVars
  \/ started = {} /\ ProtocolNext /\ UNCHANGED netVars

\* No call of the protocol is owed; the tasks of the network are.
NodeSpec == NodeInit /\ [][NodeNext]_<<netVars, protVars>> /\ NetFairness
=============================================================================
