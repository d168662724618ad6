------------------------- MODULE MCNetworkLifecycle -------------------------
(***************************************************************************)
(* Instances of NetworkLifecycle for TLC.                                  *)
(***************************************************************************)
EXTENDS LifecycleService, TLC

\* Three nodes, all of which must sign: the full quorum, one that repeats an
\* id, one with an id of no node beside a full one, and one that is too small.
ThreeNodeQuorums == {<<1, 2, 3>>, <<1, 2, 2>>, <<3, 9, 1, 2>>, <<1, 3>>}

\* Four nodes, three of which must sign (the README's example network).
FourNodeQuorums == {<<1, 2, 3>>, <<4, 2, 3>>, <<1, 2, 9>>}

\* A batch of two, and batches whose first or last message does not decode.
ShortBatches == {<<TRUE, TRUE>>, <<TRUE, FALSE>>, <<>>}

AnyRequest == Permutations(Requests)
=============================================================================
