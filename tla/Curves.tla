------------------------------- MODULE Curves -------------------------------
(***************************************************************************)
(* The groups G1, G2 and GT of sigimora-math and the pairing between them. *)
(*                                                                         *)
(* Nobody knows a relation between two hashes, or between a hash and the   *)
(* generator, so a point of G1 is a combination of independent bases: the  *)
(* bases that occur in it, each with its coefficient.  Every point of G2   *)
(* the code makes is a multiple of the generator: the multiple stands for  *)
(* the point.  The pairing of a point with such a multiple is the point's  *)
(* combination, multiplied.                                                *)
(***************************************************************************)
EXTENDS Field

-----------------------------------------------------------------------------
(* G1 *)

Identity == [b \in {} |-> 0]

Coefficient(p, b) == IF b \in DOMAIN p THEN p[b] ELSE 0

Combination(bases, coeff(_)) == [b \in {x \in bases : coeff(x) # 0} |-> coeff(b)]

G1Generator == [b \in {<<"generator">>} |-> 1]

\* A message and its domain separation tag.
HashToG1(msg, dst) == [b \in {<<dst, msg>>} |-> 1]

G1Mul(p, s) == Combination(DOMAIN p, LAMBDA b : Mul(p[b], s))

G1Add(p, q) ==
  Combination(DOMAIN p \cup DOMAIN q, LAMBDA b : Add(Coefficient(p, b), Coefficient(q, b)))

G1Negate(p) == G1Mul(p, Negate(1))

G1Sum(points) == FoldSeq(G1Add, Identity, points)

-----------------------------------------------------------------------------
(* G2, as multiples of its generator *)

G2Identity == 0

G2Generator == 1

G2Mul(p, s) == Mul(p, s)

G2Add(p, q) == Add(p, q)

G2Sum(points) == SumOf(points)

-----------------------------------------------------------------------------
(* GT: compared by a digest of its bytes, that is by value. *)

GtIdentity == Identity

GtMul(a, b) == G1Add(a, b)

CtEq(a, b) == a = b

Pairing(p, q) == G1Mul(p, q)

\* pairs: a sequence of <<point of G1, point of G2>>; empty for the identity.
MultiPairing(pairs) ==
  FoldSeq(GtMul, GtIdentity, [i \in DOMAIN pairs |-> Pairing(pairs[i][1], pairs[i][2])])

CtPairingCheck(a1, b1, a2, b2) == CtEq(MultiPairing(<< <<a1, b1>>, <<a2, b2>> >>), GtIdentity)

\* e(sig, g2) = e(hash, pk)
VerifyBls(sig, hash, pk) == CtPairingCheck(sig, G2Generator, G1Negate(hash), pk)

-----------------------------------------------------------------------------
(* Encoded points: a length, whether the bytes are those of a point of the *)
(* group, and the point.                                                   *)

Encode(len, p) == [len |-> len, valid |-> TRUE, point |-> p]

BadPoint == [ok |-> FALSE]

Decode(len, b) == IF b.len = len /\ b.valid THEN [ok |-> TRUE, point |-> b.point] ELSE BadPoint

G1ToBytes(p) == Encode(48, p)
G1FromBytes(b) == Decode(48, b)
G2ToBytes(p) == Encode(96, p)
G2FromBytes(b) == Decode(96, b)
=============================================================================
