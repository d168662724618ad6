--------------------------- MODULE SigningService ---------------------------
(***************************************************************************)
(* What a signing network promises its clients, with every operation       *)
(* atomic: one collective key at a time, and an append-only ledger on      *)
(* which each transaction appears once, signed under the key current when  *)
(* it was recorded by at least Quorum members.  Refreshing shares is       *)
(* invisible here: it must leave the key and the ledger alone.             *)
(***************************************************************************)
EXTENDS Naturals, FiniteSets

CONSTANTS Keys, NoKey, TxIds, Parties, Quorum

VARIABLES
  key,      \* the collective key, or NoKey before the first DKG
  signed    \* the ledger: who signed what, under which key

Entry == [tx : TxIds, by : SUBSET Parties, key : Keys]

Init == key = NoKey /\ signed = {}

GenerateKey(k) == key' = k /\ UNCHANGED signed

Sign(tx, by) ==
  /\ key # NoKey
  /\ Cardinality(by) >= Quorum
  /\ \A e \in signed : e.tx # tx
  /\ signed' = signed \cup {[tx |-> tx, by |-> by, key |-> key]}
  /\ UNCHANGED key

Next ==
  \/ \E k \in Keys : GenerateKey(k)
  \/ \E tx \in TxIds, by \in SUBSET Parties : Sign(tx, by)

Spec == Init /\ [][Next]_<<key, signed>>
=============================================================================
