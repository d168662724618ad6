---------------------------- MODULE ZeroKnowledge ----------------------------
(***************************************************************************)
(* The proofs of sigimora-mcp's zkp.rs.  A challenge is a hash, that is an *)
(* arbitrary scalar for each input: the oracle is a function from inputs   *)
(* to scalars.  A hash that is no scalar counts as zero.                   *)
(***************************************************************************)
EXTENDS ThresholdSignatures

FsChallenge(oracle, commitment, public, context) == oracle[<<context, commitment, public>>]

\* Knowledge of the witness of a point of G2, with r drawn by the prover.
SchnorrProof(oracle, context, public, witness, r) ==
  [commitment |-> PublicKey(r),
   response |-> Add(r, Mul(FsChallenge(oracle, PublicKey(r), public, context), witness))]

SchnorrHolds(oracle, context, public, proof) ==
  G2Mul(G2Generator, proof.response)
    = G2Add(proof.commitment,
            G2Mul(public, FsChallenge(oracle, proof.commitment, public, context)))

\* secret: the witness, or a random one when the caller gives none.
GenerateStakeProof(oracle, public, secret, r) ==
  SchnorrProof(oracle, "STAKE-PROOF", public, secret, r)

VerifyStakeProofOfAny(oracle, public, proof) ==   \* accepts the identity
  SchnorrHolds(oracle, "STAKE-PROOF", public, proof)

VerifyStakeProof(oracle, public, proof) ==
  proof.commitment # G2Identity /\ SchnorrHolds(oracle, "STAKE-PROOF", public, proof)

\* The share and the commitments are not used, and only the identity is refused.
GenerateComplianceProof(r) == [eval_proof |-> G1Mul(G1Generator, r), response |-> r]

VerifyComplianceProof(proof) == proof.eval_proof # Identity

GenerateNoCheatingProof(oracle, share, r) ==
  LET commitment == G1Mul(G1Generator, share)
      scalar == G1Mul(G1Generator, r)
  IN  [original_commitment |-> commitment,
       consistency_proof |->
         Add(r, Mul(FsChallenge(oracle, scalar, commitment, "NO-CHEATING"), share)),
       verification_scalar |-> scalar]

VerifyNoCheatingProof(oracle, proof, expected) ==
  /\ proof.original_commitment = expected
  /\ G1Mul(G1Generator, proof.consistency_proof)
       = G1Add(proof.verification_scalar,
               G1Mul(proof.original_commitment,
                     FsChallenge(oracle, proof.verification_scalar,
                                 proof.original_commitment, "NO-CHEATING")))

\* A count, and nothing that binds it to the partial signatures.
GenerateThresholdProof(partials) == [participant_count |-> Len(partials) % 65536]

VerifyThresholdProof(proof, required) == proof.participant_count >= required

\* The prover uses its long-term key, the verifier the share key it has of
\* the member.
GenerateMembershipProof(oracle, signer, r) ==
  SchnorrProof(oracle, "MEMBERSHIP-PROOF", PublicKey(signer.lt_sk), signer.lt_sk, r)

VerifyMembershipProof(oracle, from, proof, params) ==
  /\ proof.commitment # G2Identity
  /\ from \in DOMAIN params.member_pks
  /\ SchnorrHolds(oracle, "MEMBERSHIP-PROOF", params.member_pks[from], proof)
=============================================================================
