--------------------------- MODULE SecretSharing ----------------------------
(***************************************************************************)
(* shamir.rs, feldman.rs and pedersen.rs of sigimora-crypto.  The random   *)
(* coefficients a call draws are an argument of the operator.              *)
(***************************************************************************)
EXTENDS Curves

-----------------------------------------------------------------------------
(* Lagrange coefficients at zero, for a sequence of indices                *)

LagrangeNumerator(ids, i) ==
  ProductOf([j \in DOMAIN ids \ {i} |-> Negate(FromU64(ids[j]))])

LagrangeDenominator(ids, i) ==
  ProductOf([j \in DOMAIN ids \ {i} |-> Sub(FromU64(ids[i]), FromU64(ids[j]))])

\* Panics when an index occurs twice.
LagrangeAtZero(ids) ==
  [i \in DOMAIN ids |->
     Mul(LagrangeNumerator(ids, i), Unwrap(Invert(LagrangeDenominator(ids, i))))]

WeightedSum(values, weights) ==
  SumOf([i \in DOMAIN values |-> Mul(values[i], weights[i])])

Fields(records, field) == [i \in DOMAIN records |-> records[i][field]]

-----------------------------------------------------------------------------
(* Shamir.  A share is an index and a value.                               *)

Share(index, value) == [index |-> index, value |-> value]

\* random: the t - 1 coefficients above the secret.
Split(secret, random, n) ==
  [i \in 1..n |-> Share(i, Eval(<<secret>> \o random, i))]

\* A result without a value is an error; the shares are in the caller's order.
Reconstruct(shares) ==
  IF shares = <<>> THEN {}
  ELSE {WeightedSum(Fields(shares, "value"), LagrangeAtZero(Fields(shares, "index")))}

-----------------------------------------------------------------------------
(* Feldman.  A private polynomial is the sequence of its coefficients, the *)
(* public one commits to each of them in G2.                               *)

RandomPoly(coeffs) == coeffs
PolyWithSecret(secret, random) == <<secret>> \o random
PolyWithZeroConstant(random) == <<0>> \o random

EvalPoly(poly, x) == Share(x, Eval(poly, x))

CommitPoly(poly) == [k \in DOMAIN poly |-> G2Mul(G2Generator, poly[k])]

GroupPublicKey(public) == public[1]

Power(x, k) == ProductOf([j \in 1..k |-> FromU64(x)])

EvalPublic(public, x) ==
  G2Sum([k \in DOMAIN public |-> G2Mul(public[k], Power(x, k - 1))])

VerifyFeldmanShare(public, share) ==
  G2Mul(G2Generator, share.value) = EvalPublic(public, share.index)

-----------------------------------------------------------------------------
(* Pedersen, on G1 with a second generator.  Shares and polynomials carry  *)
(* a blinding part.                                                        *)

\* PedersenSetup::deterministic, which is also the default.
Pedersen == [g |-> G1Generator, h |-> HashToG1("BLS_PEDERSEN_H_NUMS_2024", "SIGIMORA")]

PedersenCommit(setup, v, r) == G1Add(G1Mul(setup.g, v), G1Mul(setup.h, r))

VssShare(index, value, blinding) == [index |-> index, value |-> value, blinding |-> blinding]

BlindedPoly(f, r, setup) == [f |-> f, r |-> r, setup |-> setup]

BlindedWithSecret(secret, f, r, setup) ==
  BlindedPoly(<<secret>> \o f, r, setup)

\* Both constants are zero, so that the first commitment is the identity.
BlindedWithZeroConstant(f, r, setup) ==
  BlindedPoly(<<0>> \o f, <<0>> \o r, setup)

EvalBlinded(poly, x) == VssShare(x, Eval(poly.f, x), Eval(poly.r, x))

CommitBlinded(poly) ==
  [k \in DOMAIN poly.f |-> PedersenCommit(poly.setup, poly.f[k], poly.r[k])]

\* Horner's rule in G1: commitments[1] + x (commitments[2] + ...).
VerifyVssShare(commitments, index, value, blinding, setup) ==
  PedersenCommit(setup, value, blinding)
    = FoldRight(LAMBDA c, acc : G1Add(c, G1Mul(acc, FromU64(index))), commitments, Identity)

\* r has one coefficient more than the t - 1 random ones of f.
VssDeal(setup, secret, f, r, n) ==
  LET poly == BlindedWithSecret(secret, f, r, setup)
  IN  [public |-> CommitBlinded(poly), shares |-> [i \in 1..n |-> EvalBlinded(poly, i)]]

VssReconstruct(shares) ==
  WeightedSum(Fields(shares, "value"), LagrangeAtZero(Fields(shares, "index")))
=============================================================================
