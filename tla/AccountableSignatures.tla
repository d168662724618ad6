------------------------ MODULE AccountableSignatures ------------------------
(***************************************************************************)
(* sigimora-ats: partial signatures with a tag that is encrypted to the    *)
(* tracking key, their aggregation, verification with public keys alone    *)
(* and tracing; and the encryption of DKG shares, which works the same     *)
(* way.  A list of members with their keys is a function on the members.   *)
(***************************************************************************)
EXTENDS ThresholdSignatures

-----------------------------------------------------------------------------
(* Encryption to a point of G2: an ephemeral key, and the plaintext under  *)
(* a key derived from the shared point.  Decryption with another key fails *)
(* the authentication of the cipher.                                       *)

Seal(plain, pk, context, r) ==
  [ephemeral_pk |-> PublicKey(r), key |-> <<context, G2Mul(pk, r)>>, plain |-> plain]

Open(sealed, sk, context) ==
  IF sealed.key = <<context, G2Mul(sealed.ephemeral_pk, sk)>> THEN {sealed.plain} ELSE {}

EncryptTag(node_id, sigma, tag, lt_pk, tracking_pk, r) ==
  Seal([node_id |-> node_id, sigma |-> G1ToBytes(sigma), tag |-> G1ToBytes(tag),
        lt_pk |-> G2ToBytes(lt_pk)], tracking_pk, "sigimora-ats-tag", r)

DecryptTag(tracking_sk, sealed) ==
  {[node_id |-> t.node_id, sigma |-> t.sigma.point, tag |-> t.tag.point, lt_pk |-> t.lt_pk.point] :
     t \in {u \in Open(sealed, tracking_sk, "sigimora-ats-tag") :
              G1FromBytes(u.sigma).ok /\ G1FromBytes(u.tag).ok /\ G2FromBytes(u.lt_pk).ok}}

EncryptShare(share, recipient_pk, r) ==
  Seal([index |-> share.index, value |-> ScalarToBytes(share.value),
        blinding |-> ScalarToBytes(share.blinding)], recipient_pk, "sigimora-ecies", r)

DecryptShare(sealed, sk) ==
  {VssShare(s.index, s.value.value, s.blinding.value) :
     s \in {u \in Open(sealed, sk, "sigimora-ecies") :
              ScalarFromBytes(u.value).ok /\ ScalarFromBytes(u.blinding).ok}}

-----------------------------------------------------------------------------
(* Keys and parameters *)

TrackingKeyPair(secret) == [secret |-> secret, public |-> PublicKey(secret)]

SignerConfig(id, dkg_share, lt_sk) ==
  [node_id |-> id, dkg_share |-> dkg_share, dkg_share_pk |-> PublicKey(dkg_share),
   lt_sk |-> lt_sk, lt_pk |-> PublicKey(lt_sk)]

NetworkPublicParams(threshold, collective_pk, tracking_pk, member_pks, member_lt_pks) ==
  [threshold |-> threshold, collective_pk |-> collective_pk, tracking_pk |-> tracking_pk,
   member_pks |-> member_pks, member_lt_pks |-> member_lt_pks]

-----------------------------------------------------------------------------
(* Signing and verification *)

AtsHash(msg) == HashToG1(msg, "SIGIMORA_ATS")

SignPartial(signer, msg, tracking_pk, r) ==
  LET sigma == G1Mul(AtsHash(msg), signer.dkg_share)
  IN  [node_id |-> signer.node_id, sigma |-> sigma,
       encrypted_tag |-> EncryptTag(signer.node_id, sigma, G1Mul(sigma, signer.lt_sk),
                                    signer.lt_pk, tracking_pk, r)]

\* The quorum in ascending order, then the aggregator.
BitmapCommitment(quorum, aggregator) ==
  HashToG1(<<SortSeq(quorum, LAMBDA a, b : a < b), aggregator>>, "SIGIMORA_BITMAP_COMMIT")

\* Members the parameters do not list are left out before the weights are
\* paired with the keys.
Listed(quorum, members) ==
  FoldRight(LAMBDA id, rest : IF id \in members THEN <<id>> \o rest ELSE rest, quorum, <<>>)

MembershipProof(quorum, lambdas, params) ==
  LET listed == Listed(quorum, DOMAIN params.member_pks)
  IN  [quorum_pk |-> G2Sum([i \in DOMAIN listed |->
                              G2Mul(params.member_pks[listed[i]], lambdas[i])]),
       individual_pks |-> [i \in DOMAIN listed |-> <<listed[i], params.member_pks[listed[i]]>>]]

Aggregate(partials, params, epoch, aggregator) ==
  LET quorum == Fields(partials, "node_id")
      lambdas == LagrangeAtZero(quorum)
  IN  IF Len(partials) < params.threshold THEN {}
      ELSE {[combined_sig |-> Combine(partials, lambdas),
             quorum |-> quorum,
             bitmap_commitment |-> BitmapCommitment(quorum, aggregator),
             encrypted_tags |-> Fields(partials, "encrypted_tag"),
             membership_proof |-> MembershipProof(quorum, lambdas, params),
             epoch |-> epoch]}

\* The quorum is only counted, and the keys in the proof are only compared
\* with the parameters: what decides is the collective key.
Verify(params, msg, sig) ==
  /\ Len(sig.quorum) >= params.threshold
  /\ \A i \in DOMAIN sig.membership_proof.individual_pks :
       LET member == sig.membership_proof.individual_pks[i]
       IN  member[1] \in DOMAIN params.member_pks /\ params.member_pks[member[1]] = member[2]
  /\ VerifyBls(sig.combined_sig, AtsHash(msg), params.collective_pk)

-----------------------------------------------------------------------------
(* Tracing *)

PartialUnchecked(params, msg, tag) == TRUE

\* A signer the parameters do not list is traced without this check.
PartialMatches(params, msg, tag) ==
  tag.node_id \in DOMAIN params.member_pks
    => VerifyBls(tag.sigma, AtsHash(msg), params.member_pks[tag.node_id])

TagMatches(tag) == CtPairingCheck(tag.tag, G2Generator, G1Negate(tag.sigma), tag.lt_pk)

\* Who signed, by the long-term key in the tag.
TraceTag(tracking_sk, params, msg, sealed) ==
  {id \in DOMAIN params.member_lt_pks :
     \E tag \in DecryptTag(tracking_sk, sealed) :
        /\ PartialMatches(params, msg, tag)
        /\ TagMatches(tag)
        /\ params.member_lt_pks[id] = tag.lt_pk
        /\ \A m \in DOMAIN params.member_lt_pks : m < id => params.member_lt_pks[m] # tag.lt_pk}

Trace(tracking_sk, params, msg, sig) ==
  [i \in DOMAIN sig.encrypted_tags |->
     TraceTag(tracking_sk, params, msg, sig.encrypted_tags[i])]
=============================================================================
