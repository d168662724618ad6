------------------------------ MODULE KeyHolders ------------------------------
(***************************************************************************)
(* What the holders of a shared key run: the key generation of             *)
(* sigimora-crypto, the refreshes of sigimora-refresh and of the signature *)
(* crates, and the node of sigimora-mcp.  Each is a library with a state   *)
(* of its own, and no code passes anything from one to another: a          *)
(* behaviour here is a behaviour of one of them with the others at rest.   *)
(***************************************************************************)
EXTENDS McpNode, PedersenDkg, ProactiveRefresh

VARIABLE part     \* the library that runs

nodeVars == <<netVars, protVars>>

\* A library at rest has one initial state, whichever it is.
HoldersInit ==
  /\ part \in {"node", "dkg", "refresh"}
  /\ NodeInit /\ DkgInit /\ Init
  /\ part # "node" => bounds = CHOOSE b \in Scenarios : TRUE
  /\ part # "dkg" => dealt = CHOOSE d \in Dealings : TRUE

HoldersNext ==
  /\ \/ part = "node" /\ NodeNext /\ UNCHANGED <<dkgVars, vars>>
     \/ part = "dkg" /\ DkgNext /\ UNCHANGED <<nodeVars, vars>>
     \/ part = "refresh" /\ Next /\ UNCHANGED <<nodeVars, dkgVars>>
  /\ UNCHANGED part

\* The fairness of the libraries; nothing makes anybody refresh.
HoldersSpec ==
  /\ HoldersInit /\ [][HoldersNext]_<<part, nodeVars, dkgVars, vars>>
  /\ NetFairness
  /\ \A i \in Followed : /\ WF_dkgVars(part = "dkg" /\ Deliver(i))
                         /\ WF_dkgVars(part = "dkg" /\ Finalize(i))

-----------------------------------------------------------------------------
(* Properties. *)

\* Where the key generation runs, it completes for whoever is not stuck with a
\* share that it rejected (dkg.rs:519-547).
GenerationCompletes == part = "dkg" => Completes
=============================================================================
