-------------------------- MODULE LifecycleService --------------------------
(***************************************************************************)
(* The refinement of SigningService by NetworkLifecycle: the published key *)
(* is the network row's, and a ledger row counts as signed under the key   *)
(* its shares combine to.                                                  *)
(***************************************************************************)
EXTENDS NetworkLifecycle

\* The key under which a stored signature verifies; None when its shares do
\* not belong together and it verifies under no key.
KeyOf(e) ==
  IF \E g \in Requests : Consistent(e.combined, g)
    THEN CHOOSE g \in Requests : Consistent(e.combined, g)
    ELSE None

\* The ledger, as clients see it.
Signed == {[tx |-> e.tx, by |-> Members(e.signers), key |-> KeyOf(e)] : e \in ledger}

Service == INSTANCE SigningService WITH
  Keys    <- Requests,
  NoKey   <- None,
  TxIds   <- Requests \X (1..MaxBatch),
  Parties <- Nodes,
  Quorum  <- T + 1,
  key     <- net.pk,
  signed  <- Signed

\* Run with a maintenance window around DKG and refresh and with no request
\* cut off, the statement-by-statement server behaves like the atomic service:
\* signatures are under the current key, and refresh is invisible
\* (dkg.rs:15-135, refresh.rs:13-117, signing.rs:19-200, batch.rs:19-233).
ImplementsService == Service!Spec
=============================================================================
