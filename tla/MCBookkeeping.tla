---------------------------- MODULE MCBookkeeping ----------------------------
(***************************************************************************)
(* Instances of Bookkeeping for TLC: one migration has a first, a middle   *)
(* and a last statement, the other a single one; the setting is the        *)
(* default, empty key, an operator's key, or none.                         *)
(***************************************************************************)
EXTENDS Bookkeeping, TLC

TwoMigrations == <<3, 1>>

Settings == {<<"">>, <<"operator key">>, <<>>}

\* Clients and parties are interchangeable too; their symmetry costs more time
\* than it saves.
Interchangeable == Permutations(Requests) \cup Permutations(Txs)
=============================================================================
