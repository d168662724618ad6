------------------------- MODULE ThresholdSignatures -------------------------
(***************************************************************************)
(* bls.rs, bls_threshold.rs, frost.rs and the proofs of possession of      *)
(* dkg.rs.  A secret key is a scalar, a signing key a share; the nonces    *)
(* and coefficients a call draws are arguments.  A result is a set with    *)
(* the value, or the empty set for an error.                               *)
(***************************************************************************)
EXTENDS SecretSharing

PublicKey(sk) == G2Mul(G2Generator, sk)

-----------------------------------------------------------------------------
(* BLS *)

BlsSign(sk, msg) == G1Mul(HashToG1(msg, "SIGIMORA-BLS"), sk)

BlsVerify(pk, msg, sig) == VerifyBls(sig, HashToG1(msg, "SIGIMORA-BLS"), pk)

BlsPop(sk) == G1Mul(HashToG1(PublicKey(sk), "SIGIMORA-POP"), sk)

BlsVerifyPop(pk, pop) == VerifyBls(pop, HashToG1(pk, "SIGIMORA-POP"), pk)

\* Aggregates are plain sums: of keys, and of signatures on one message.
AggregateKeys(pks) == G2Sum(pks)

AggregateSignatures(sigs) == G1Sum(sigs)

BlsVerifyAggregate(pk, msg, sig) == BlsVerify(pk, msg, sig)

\* The proof of possession of the DKG, under a tag of its own.
GeneratePop(sk, pk) == G1Mul(HashToG1(pk, "SIGIMORA_POP"), sk)

VerifyPop(pk, pop) == Pairing(pop, G2Generator) = Pairing(HashToG1(pk, "SIGIMORA_POP"), pk)

-----------------------------------------------------------------------------
(* Partial signatures of shares, and their combination *)

PartialSignature(id, sigma) == [signer_id |-> id, sigma |-> sigma]

Combine(partials, lambdas) ==
  G1Sum([i \in DOMAIN partials |-> G1Mul(partials[i].sigma, lambdas[i])])

(* AtsBls *)

AtsBlsSign(share, msg) ==
  PartialSignature(share.index, G1Mul(HashToG1(msg, "BLS_ATS"), share.value))

AtsBlsVerifyPartial(partial, ipk, msg) ==
  VerifyBls(partial.sigma, HashToG1(msg, "BLS_ATS"), ipk)

AtsBlsAggregate(partials, threshold) ==
  IF Len(partials) < threshold THEN {}
  ELSE LET signers == Fields(partials, "signer_id")
       IN  {[sigma |-> Combine(partials, LagrangeAtZero(signers)),
             signers |-> signers, threshold |-> threshold]}

AtsBlsVerify(sig, msg, pk) == VerifyBls(sig.sigma, HashToG1(msg, "BLS_ATS"), pk)

\* Adds a polynomial through zero that only this holder has.
AtsBlsRefresh(share, slope, blinding) ==
  LET poly == BlindedWithZeroConstant(<<slope>>, <<blinding>>, Pedersen)
  IN  [share |-> Share(share.index, Add(share.value, EvalBlinded(poly, share.index).value)),
       public |-> CommitBlinded(poly)]

-----------------------------------------------------------------------------
(* FROST *)

\* The coefficients do not depend on the party that asks: a group needs the
\* same ones in every call.
FrostKeygen(secret, random, n, id) ==
  IF Len(random) + 1 > n \/ id \notin 1..n THEN {}
  ELSE LET share == EvalPoly(PolyWithSecret(secret, random), id)
       IN  {[share |-> share, ipk |-> PublicKey(share.value), group_pk |-> PublicKey(secret)]}

FrostKeygenDistributed(coeffs, n, id) ==
  IF Len(coeffs) > n THEN {}
  ELSE LET share == EvalPoly(RandomPoly(coeffs), id)
       IN  {[share |-> share, ipk |-> PublicKey(share.value), public |-> CommitPoly(coeffs)]}

\* The sum of the first commitments.
DeriveGroupPk(publics) == G2Sum([i \in DOMAIN publics |-> GroupPublicKey(publics[i])])

SessionTranscript(msg, epoch, signers) == <<msg, epoch, signers>>

SigningHash(msg, epoch, signers) ==
  HashToG1(<<msg, SessionTranscript(msg, epoch, signers)>>, "FROST-BLS-SIG")

FrostSign(share, msg, epoch, signers) ==
  PartialSignature(share.index, G1Mul(SigningHash(msg, epoch, signers), share.value))

FrostSignSimple(share, msg) ==
  PartialSignature(share.index, G1Mul(HashToG1(msg, "FROST-BLS"), share.value))

FrostVerifyPartial(partial, ipk, msg, epoch, signers) ==
  VerifyBls(partial.sigma, SigningHash(msg, epoch, signers), ipk)

FrostLagrangeSwapped(ids) ==              \* the difference taken the other way
  [i \in DOMAIN ids |->
     LET others == DOMAIN ids \ {i}
         num == ProductOf([j \in others |-> FromU64(ids[j])])
         den == ProductOf([j \in others |-> Sub(FromU64(ids[i]), FromU64(ids[j]))])
     IN  Mul(num, IF Invert(den) = {} THEN 1 ELSE Unwrap(Invert(den)))]

\* FROST's own coefficients: a repeated index does not panic, the inverse of
\* its zero denominator counts as one.
FrostLagrange(ids) ==
  [i \in DOMAIN ids |->
     LET others == DOMAIN ids \ {i}
         num == ProductOf([j \in others |-> FromU64(ids[j])])
         den == ProductOf([j \in others |-> Sub(FromU64(ids[j]), FromU64(ids[i]))])
     IN  Mul(num, IF Invert(den) = {} THEN 1 ELSE Unwrap(Invert(den)))]

FrostSignature(sigma, signers, epoch, transcript) ==
  [sigma |-> sigma, signers |-> signers, epoch |-> epoch, transcript |-> transcript]

\* The signers recorded are those of the keys, whoever signed; epoch 1 always.
FrostAggregate(partials, keys, threshold) ==
  IF Len(partials) < threshold THEN {}
  ELSE {FrostSignature(Combine(partials, FrostLagrange(Fields(partials, "signer_id"))),
                       Fields(keys, "index"), 1, <<>>)}

FrostAggregateSimple(partials) ==
  LET signers == Fields(partials, "signer_id")
  IN  IF partials = <<>> THEN {}
      ELSE {FrostSignature(Combine(partials, FrostLagrange(signers)), signers, 1,
                           SessionTranscript("default", 1, signers))}

FrostVerify(sig, pk, msg) == VerifyBls(sig.sigma, HashToG1(msg, "FROST-BLS"), pk)

FrostVerifyWithSession(sig, pk, msg, epoch, signers) ==
  VerifyBls(sig.sigma, SigningHash(msg, epoch, signers), pk)

\* refresh_share moves the constant as well; mcp_refresh_share does not, and
\* distributed_refresh is mcp_refresh_share for every holder, each with a
\* polynomial of its own.
FrostMove(share, poly) ==
  [share |-> Share(share.index, Add(share.value, EvalPoly(poly, share.index).value)),
   public |-> CommitPoly(poly)]

FrostRefreshShare(share, constant, slope) == FrostMove(share, RandomPoly(<<constant, slope>>))

FrostMcpRefreshShare(share, slope) == FrostMove(share, PolyWithZeroConstant(<<slope>>))

FrostDistributedRefresh(shares, slopes) ==
  IF DOMAIN shares = {} THEN {}
  ELSE {[p \in DOMAIN shares |-> FrostMcpRefreshShare(shares[p], slopes[p]).share]}

FrostVerifyRefreshShare(old, new, public) ==
  G2Mul(G2Generator, Sub(new.value, old.value)) = EvalPublic(public, old.index)

FrostVerifyZeroConstant(public) == public # <<>> /\ public[1] = G2Identity
=============================================================================
