---------------------------- MODULE MCPeerNetwork ----------------------------
(***************************************************************************)
(* Instances of PeerNetwork for TLC.  Connections: two that cross, one of  *)
(* a third node, and a second one of the first pair.                       *)
(***************************************************************************)
EXTENDS PeerNetwork

FourConns == {"c1", "c2", "c3", "c4"}
FourDialers == [c1 |-> 1, c2 |-> 2, c3 |-> 1, c4 |-> 1]
FourAcceptors == [c1 |-> 2, c2 |-> 1, c3 |-> 3, c4 |-> 2]

Bounds(conns, counts, breaks) == [conns |-> conns, messages |-> counts, breaks |-> breaks]

\* Crossing connections; full queues on one that may break; a reconnection;
\* and a third node that is dialled while two cross.
FourScenarios ==
  {Bounds({"c1", "c2"}, <<1, 1, 0>>, 0),
   Bounds({"c1"}, <<3, 1, 0>>, 1),
   Bounds({"c1", "c4"}, <<0, 0, 0>>, 1),
   Bounds({"c1", "c2", "c3"}, <<0, 0, 0>>, 0)}

\* Two nodes that dial each other and fill the queues of both connections.
TwoConns == {"c1", "c2"}
TwoDialers == [c1 |-> 1, c2 |-> 2]
TwoAcceptors == [c1 |-> 2, c2 |-> 1]
CrossingFull == {Bounds({"c1", "c2"}, <<3, 3>>, 0)}
=============================================================================
