-------------------------- MODULE ProactiveRefresh --------------------------
(***************************************************************************)
(* The life of a shared key: it is dealt, refreshed by the RefreshState    *)
(* machines of its holders, by the RefreshManager of the server or by the  *)
(* single-holder refreshes of the signature crates, and signs in between.  *)
(*                                                                         *)
(* RefreshState has no identity of a round: a contribution is kept for     *)
(* ever, counts whoever it is from, and may arrive twice, late, or after   *)
(* the key has moved.  Sharings have threshold two, so that a zero         *)
(* polynomial is its slope.  Random draws are constants, picked so that    *)
(* some are equal and some are not.                                        *)
(***************************************************************************)
EXTENDS AccountableSignatures, ZeroKnowledge, WireFormats

CONSTANTS
  N,           \* holders
  Refreshing,  \* the holders whose RefreshState is followed to the end
  Secrets,     \* z_i: the secret each holder deals in the key generation
  Dealt,       \* the slopes of what each deals: a set of sequences
  Slopes,      \* Slopes[p][k]: the slope p draws at its k-th start
  ManagerSlopes, \* the slopes the manager draws, one for each party
  OwnSlope,    \* the slope a holder draws that refreshes its share alone
  LtKey,       \* the long-term secret key of each holder
  TrackingKey, \* the secret of the tracking key, and a wrong one
  WrongKey,
  MaxExtras    \* duplicates, restarts, altered contributions and other refreshes

T == 2

Parties == 1..N

ASSUME RefreshAssumption ==
  /\ N \in Nat \ {0, 1} /\ N < Q /\ Refreshing \subseteq Parties
  /\ Secrets \in [Parties -> Scalars] /\ Dealt \subseteq [Parties -> Scalars]
  /\ ManagerSlopes \in [Parties -> Scalars] /\ OwnSlope \in Scalars
  /\ \A p \in Parties : Slopes[p] \in Seq(Scalars)
  /\ LtKey \in Injection(Parties, Scalars)
  /\ TrackingKey \in Scalars /\ WrongKey \in Scalars \ {TrackingKey}
  /\ MaxExtras \in Nat

VARIABLES
  key,         \* my_key of each holder; empty before the key generation
  member,      \* the share keys published after the key generation
  poly,        \* my_poly: a set with the polynomial, or empty
  starts,      \* how often each holder has started a refresh
  contributions, \* contributions: a bag, since their order does not matter
  round,       \* round
  sent,        \* the contributions that are under way or delivered
  moved,       \* by what slope the key of each holder has been moved so far
  extras

vars == <<key, member, poly, starts, contributions, round, sent, moved, extras>>

-----------------------------------------------------------------------------
(* Key generation: every holder deals its z_i and adds up what it gets.    *)

Blinding == 1

DealtPoly(i, slopes) ==
  BlindedWithSecret(Secrets[i], <<slopes[i]>>, <<Blinding, Blinding>>, Pedersen)

\* A share travels encrypted to its recipient and is verified on arrival.
ReceivedShare(i, p, slopes) ==
  LET dealt == DealtPoly(i, slopes)
      sealed == EncryptShare(EvalBlinded(dealt, p), PublicKey(LtKey[p]), Blinding)
  IN  {s \in DecryptShare(sealed, LtKey[p]) :
         VerifyVssShare(CommitBlinded(dealt), s.index, s.value, s.blinding, Pedersen)}

ComputeSecretShare(p, slopes) ==
  Add(SumOf([i \in Parties \ {p} |-> Unwrap(ReceivedShare(i, p, slopes)).value]),
      EvalBlinded(DealtPoly(p, slopes), p).value)

\* Only keys whose owner proves possession are part of the sum.
CollectivePublicKey ==
  G2Sum([i \in {j \in Parties : VerifyPop(PublicKey(Secrets[j]),
                                          GeneratePop(Secrets[j], PublicKey(Secrets[j])))} |->
           PublicKey(Secrets[i])])

MasterSecret == SumOf(Secrets)

\* Every holder's Feldman polynomial, with the share checked on arrival.
FeldmanShare(i, p, slopes) ==
  LET coeffs == PolyWithSecret(Secrets[i], <<slopes[i]>>)
      dealt == Unwrap(FrostKeygenDistributed(coeffs, N, p))
  IN  (CHOOSE s \in {dealt.share} : VerifyFeldmanShare(dealt.public, s)).value

\* The same sharing from a single dealer, by each of the dealer's procedures.
Dealers(slopes) ==
  LET slope == SumOf(slopes)
      deal == VssDeal(Pedersen, MasterSecret, <<slope>>, <<Blinding, Blinding>>, N)
  IN  {[p \in Parties |-> ComputeSecretShare(p, slopes)],
       [p \in Parties |-> SumOf([i \in Parties |-> FeldmanShare(i, p, slopes)])],
       [p \in Parties |-> Split(MasterSecret, <<slope>>, N)[p].value],
       [p \in Parties |-> deal.shares[p].value],
       [p \in Parties |-> Unwrap(FrostKeygen(MasterSecret, <<slope>>, N, p)).share.value]}

Generated == key # <<>>

\* The key generation, of whatever kind; what follows it needs the key.
Deal ==
  /\ ~Generated
  /\ \E slopes \in Dealt : key' \in Dealers(slopes)
  /\ member' = [p \in Parties |-> PublicKey(key'[p])]
  /\ UNCHANGED <<poly, starts, contributions, round, sent, moved, extras>>

-----------------------------------------------------------------------------
(* RefreshState *)

ZeroPoly(slope) == BlindedWithZeroConstant(<<slope>>, <<Blinding>>, Pedersen)

Contribution(from, p) ==
  [from |-> from, public |-> CommitBlinded(p), shares |-> [i \in Parties |-> EvalBlinded(p, i)]]

\* Not of a zero polynomial: a secret or a blinding constant; and of one, but
\* with a wrong share for the first party.
Altered ==
  {Contribution(N, BlindedPoly(<<1, 1>>, <<0, Blinding>>, Pedersen)),
   Contribution(N, BlindedPoly(<<0, 1>>, <<1, Blinding>>, Pedersen)),
   [Contribution(N, ZeroPoly(1)) EXCEPT !.shares[1].value = Add(@, 1)]}

\* A step beyond the ordinary round counts as an extra.
CountedIf(extra) ==
  /\ extra => extras < MaxExtras
  /\ extras' = IF extra THEN extras + 1 ELSE extras

\* start, and my_contribution, which goes to everyone.
Start(p) ==
  /\ starts[p] < Len(Slopes[p])
  /\ CountedIf(starts[p] > 0)
  /\ starts' = [starts EXCEPT ![p] = @ + 1]
  /\ poly' = [poly EXCEPT ![p] = {ZeroPoly(Slopes[p][starts'[p]])}]
  /\ round' = [round EXCEPT ![p] = "Idle"]
  /\ sent' = sent \cup {Contribution(p, ZeroPoly(Slopes[p][starts'[p]]))}
  /\ UNCHANGED <<key, member, contributions, moved>>

VerifyContributionShareOnly(p, c) ==      \* without the first commitment
  VerifyVssShare(c.public, p, c.shares[p].value, c.shares[p].blinding, Pedersen)

VerifyContribution(p, c) ==
  /\ p \in DOMAIN c.shares
  /\ VerifyVssShare(c.public, p, c.shares[p].value, c.shares[p].blinding, Pedersen)
  /\ c.public[1] = Identity

AddContribution(p, c) ==
  /\ c \in sent \cup Altered
  /\ CountedIf(c \in Altered \cup DOMAIN contributions[p])
  /\ VerifyContribution(p, c)
  /\ contributions' = [contributions EXCEPT ![p] = @ (+) SetToBag({c})]
  /\ round' = [round EXCEPT ![p] = "Committed"]
  /\ UNCHANGED <<key, member, poly, starts, sent, moved>>

DeltaSum(p) ==
  SumOf([c \in DOMAIN contributions[p] |->
           Mul(FromU64(contributions[p][c]), c.shares[p].value)])

ComputeNewKey(p) ==
  IF BagCardinality(contributions[p]) < N - 1 THEN {} ELSE {Add(key[p], DeltaSum(p))}

\* The slope that a contribution's second commitment opens to.
SlopeOf(c) ==
  CHOOSE s \in Scalars : \E b \in Scalars : PedersenCommit(Pedersen, s, b) = c.public[2]

\* compute_new_key and apply_refresh.  The contributions stay: the guard on
\* round is the transport's, which goes on only when something arrived.
ApplyRefresh(p) ==
  /\ round[p] = "Committed"
  /\ \E k \in ComputeNewKey(p) : key' = [key EXCEPT ![p] = k]
  /\ moved' = [moved EXCEPT ![p] =
       Add(@, SumOf([c \in DOMAIN contributions[p] |->
                      Mul(FromU64(contributions[p][c]), SlopeOf(c))]))]
  /\ poly' = [poly EXCEPT ![p] = {}]
  /\ round' = [round EXCEPT ![p] = "Complete"]
  /\ UNCHANGED <<member, starts, contributions, sent, extras>>

-----------------------------------------------------------------------------
(* RefreshManager, and the refreshes of a single share *)

GenerateContribution(p) == Contribution(p, ZeroPoly(ManagerSlopes[p]))

ApplyContributionsButOwn(k, p) ==         \* as the state machine is used
  Add(k, SumOf([i \in Parties \ {p} |-> GenerateContribution(i).shares[p].value]))

ApplyContributions(k, p) ==
  Add(k, SumOf([i \in Parties |-> GenerateContribution(i).shares[p].value]))

VerifyCollectiveKeyInvariant(old, new, quorum) ==
  LET lambdas == LagrangeAtZero(quorum)
      Weighted(pks) == G2Sum([i \in DOMAIN quorum |-> G2Mul(pks[quorum[i]], lambdas[i])])
  IN  Weighted(old) = Weighted(new)

ManagerRefresh ==
  /\ CountedIf(TRUE)
  /\ key' = [p \in Parties |-> ApplyContributions(key[p], p)]
  /\ moved' = [p \in Parties |-> Add(moved[p], SumOf(ManagerSlopes))]
  /\ UNCHANGED <<member, poly, starts, contributions, round, sent>>

OwnShare(p) == Share(p, key[p])

\* AtsBls::proactive_refresh and Frost::mcp_refresh_share do the same.
RefreshOwnShare(p) ==
  /\ CountedIf(TRUE)
  /\ \/ key' = [key EXCEPT ![p] = AtsBlsRefresh(OwnShare(p), OwnSlope, Blinding).share.value]
     \/ key' = [key EXCEPT ![p] = FrostMcpRefreshShare(OwnShare(p), OwnSlope).share.value]
  /\ moved' = [moved EXCEPT ![p] = Add(@, OwnSlope)]
  /\ UNCHANGED <<member, poly, starts, contributions, round, sent>>

\* One call for all holders, with a polynomial for each of them.
DistributedRefresh ==
  /\ CountedIf(TRUE)
  /\ \E new \in FrostDistributedRefresh([p \in Parties |-> OwnShare(p)], ManagerSlopes) :
       key' = [p \in Parties |-> new[p].value]
  /\ moved' = [p \in Parties |-> Add(moved[p], ManagerSlopes[p])]
  /\ UNCHANGED <<member, poly, starts, contributions, round, sent>>

-----------------------------------------------------------------------------

Init ==
  /\ key = <<>> /\ member = <<>>
  /\ poly = [p \in Parties |-> {}] /\ starts = [p \in Parties |-> 0]
  /\ contributions = [p \in Parties |-> EmptyBag]
  /\ round = [p \in Parties |-> "Idle"]
  /\ sent = {} /\ moved = [p \in Parties |-> 0] /\ extras = 0

Refresh ==
  /\ Generated
  /\ \/ \E p \in Parties : Start(p) \/ RefreshOwnShare(p)
     \/ \E p \in Refreshing : \E c \in sent \cup Altered : AddContribution(p, c)
     \/ \E p \in Refreshing : ApplyRefresh(p)
     \/ ManagerRefresh \/ DistributedRefresh

Next == Deal \/ Refresh

Spec == Init /\ [][Next]_vars

-----------------------------------------------------------------------------
(* Properties. *)

Quorums == {q \in [1..T -> Parties] : q[1] # q[2]}

SharesOf(q) == [i \in 1..T |-> OwnShare(q[i])]

Combines(q) == Reconstruct(SharesOf(q)) = {MasterSecret}

\* However contributions are duplicated, kept over a restart or applied late,
\* two holders still combine to the secret exactly when their shares have been
\* moved along the same polynomial, and the library's own check says the same
\* (refresh lib.rs:237-274, 321-340, bls_threshold.rs:150-163, frost.rs:387-427).
\* This tells which refreshes keep the key; an ordinary round of RefreshState
\* is not among them, see OrdinaryRoundKeepsKey.
KeptIffMovedAlike ==
  Generated => \A q \in Quorums :
    /\ Combines(q) <=> moved[q[1]] = moved[q[2]]
    /\ Combines(q) <=> VssReconstruct(SharesOf(q)) = MasterSecret
    /\ Combines(q) <=> VerifyCollectiveKeyInvariant(member,
                          [p \in Parties |-> PublicKey(key[p])], q)

\* Every holder has refreshed once, with one contribution of each of the others.
OrdinaryRound ==
  /\ extras = 0
  /\ \A p \in Parties :
       /\ starts[p] = 1 /\ round[p] = "Complete"
       /\ contributions[p] = SetToBag({c \in sent : c.from # p})

\* An ordinary round keeps the key: every holder's share has moved by the sum
\* of everybody's zero polynomials, and any quorum still combines to the secret
\* (refresh lib.rs:15-32).
OrdinaryRoundKeepsKey == OrdinaryRound => \A q \in Quorums : Combines(q)

Partials(q, Sign(_)) == [i \in 1..T |-> Sign(OwnShare(q[i]))]

AtsBlsSigns(q) ==
  \E sig \in AtsBlsAggregate(Partials(q, LAMBDA s : AtsBlsSign(s, "m")), T) :
     AtsBlsVerify(sig, "m", CollectivePublicKey)

FrostSigns(q) ==
  \E sig \in FrostAggregateSimple(Partials(q, LAMBDA s : FrostSignSimple(s, "m"))) :
     FrostVerify(sig, CollectivePublicKey, "m")

FrostSignatures(q) ==
  FrostAggregate(Partials(q, LAMBDA s : FrostSign(s, "m", 3, q)), SharesOf(q), T)

FrostSignsSession(q) ==
  \E sig \in FrostSignatures(q) : FrostVerifyWithSession(sig, CollectivePublicKey, "m", 3, q)

Signer(p) == SignerConfig(p, key[p], LtKey[p])

Params == NetworkPublicParams(T, CollectivePublicKey, PublicKey(TrackingKey), member,
                              [p \in Parties |-> PublicKey(LtKey[p])])

AtsSignatures(q) ==
  Aggregate([i \in 1..T |-> SignPartial(Signer(q[i]), "m", Params.tracking_pk, 1)], Params, 0, q[1])

\* A partial signature verifies under its own share key and no other.
PartialBinds(share, k) ==
  LET holds == PublicKey(share.value) = k
  IN  /\ AtsBlsVerifyPartial(AtsBlsSign(share, "m"), k, "m") <=> holds
      /\ FrostVerifyPartial(FrostSign(share, "m", 3, <<share.index>>), k, "m", 3, <<share.index>>)
           <=> holds
      /\ BlsVerify(k, "m", BlsSign(share.value, "m")) <=> holds
      /\ BlsVerifyPop(k, BlsPop(share.value)) <=> holds

PartialsBind == \A p \in Parties, v, k \in Scalars : PartialBinds(Share(p, v), k)

\* Sums, not combinations: under the sum of all share keys.
BlsSumsVerify ==
  BlsVerifyAggregate(AggregateKeys([p \in Parties |-> PublicKey(key[p])]), "m",
                     AggregateSignatures([p \in Parties |-> BlsSign(key[p], "m")]))

GroupPkIsCollective ==
  DeriveGroupPk([p \in Parties |-> CommitPoly(PolyWithSecret(Secrets[p], <<OwnSlope>>))])
    = CollectivePublicKey

\* A signature of every scheme verifies under the collective key exactly when
\* the signers' shares combine; a stale or half-refreshed share is never
\* noticed before (bls_threshold.rs:125-147, frost.rs:301-371, ats lib.rs:274-366).
SignsIffCombines == Generated =>
  /\ BlsSumsVerify /\ PartialsBind /\ GroupPkIsCollective
  /\ \A q \in Quorums :
       /\ AtsBlsSigns(q) <=> Combines(q)
       /\ FrostSigns(q) <=> Combines(q)
       /\ FrostSignsSession(q) <=> Combines(q)
       /\ \A sig \in AtsSignatures(q) : Verify(Params, "m", sig) <=> Combines(q)

\* The tracking key names every signer whose published share key is still
\* current, and nobody else; after a refresh that does not publish new keys it
\* names nobody, although the signature verifies.  Another key names nobody
\* (ats lib.rs:370-417).
TraceNamesCurrent ==
  Generated => \A q \in Quorums : \A sig \in AtsSignatures(q) : \A i \in 1..T :
    /\ Trace(WrongKey, Params, "m", sig)[i] = {}
    /\ Trace(TrackingKey, Params, "m", sig)[i]
         = IF PublicKey(key[q[i]]) = member[q[i]] THEN {q[i]} ELSE {}

\* A contribution is accepted by exactly those whose share lies on the
\* committed polynomial, which is zero at zero in both parts: nothing that
\* could move the secret gets in (refresh lib.rs:206-228, pedersen.rs:73-85).
\* FROST's two checks tell its two refreshes apart (frost.rs:373-441).
AcceptsOnlyZeroPolynomials ==
  Generated => \A p \in Parties :
    /\ \A c \in DOMAIN contributions[p] :
         \E s, b \in Scalars :
           /\ CommitBlinded(BlindedWithZeroConstant(<<s>>, <<b>>, Pedersen)) = c.public
           /\ c.shares[p] = VssShare(p, Mul(s, p), Mul(b, p))
    /\ \A constant \in {0, 1}, v \in Scalars :
         LET new == FrostRefreshShare(OwnShare(p), constant, OwnSlope)
         IN  /\ FrostVerifyZeroConstant(new.public) <=> constant = 0
             /\ FrostVerifyRefreshShare(OwnShare(p), Share(p, v), new.public)
                  <=> v = new.share.value

\* The challenges of a proof made with a nonce r: c for one key, d for another.
Oracle(context, r, public, other, c, d) ==
  [x \in {<<context, PublicKey(r), public>>, <<context, PublicKey(r), other>>} |->
     IF x[3] = public THEN c ELSE d]

\* A proof about a share key holds exactly for who knows the share or meets a
\* zero challenge, a proof of no cheating exactly for the committed value, and
\* a threshold proof up to the number of the partial signatures
\* (zkp.rs:109-172, 208-281).
ProofsBind ==
  Generated => \A p \in Parties : \A r \in {0, 1}, c \in Scalars, d \in {0, 2} :
    LET stake == Oracle("STAKE-PROOF", r, member[p], member[p], c, d)
        own == [x \in {<<"NO-CHEATING", G1Mul(G1Generator, r), G1Mul(G1Generator, key[p])>>} |-> d]
    IN  /\ VerifyStakeProof(stake, member[p], GenerateStakeProof(stake, member[p], key[p], r))
             <=> r # 0 /\ Mul(c, PublicKey(key[p])) = Mul(c, member[p])
        /\ VerifyNoCheatingProof(own, GenerateNoCheatingProof(own, key[p], r),
                                 G1Mul(G1Generator, c))
             <=> c = key[p]
        /\ VerifyThresholdProof(GenerateThresholdProof(SharesOf(<<1, 2>>)), c) <=> c <= T

\* A membership proof proves that its signer is authorized: a member's own
\* passes, whatever the challenges (protocol.rs:363, zkp.rs:83-85).
MembersAreProved(p) ==
  \A c, d \in Scalars :
    LET oracle == Oracle("MEMBERSHIP-PROOF", 1, PublicKey(LtKey[p]), member[p], c, d)
    IN  VerifyMembershipProof(oracle, p, GenerateMembershipProof(oracle, Signer(p), 1), Params)

\* A compliance proof proves that a partial signature was computed from the
\* signer's share: what passes, passes the check with the signature
\* (zkp.rs:46-54).
ComplianceIsProved(p) ==
  \A r \in Scalars : \E c \in Scalars :
    LET proof == GenerateComplianceProof(r)
        sigma == SignPartial(Signer(p), "m", Params.tracking_pk, 1).sigma
    IN  VerifyComplianceProof(proof)
          => G1Mul(AtsHash("m"), proof.response) = G1Add(proof.eval_proof, G1Mul(sigma, c))

\* The proofs that go with a signature show what they are documented to show.
ProofsShowWhatTheySay ==
  Generated => \A p \in Parties : MembersAreProved(p) /\ ComplianceIsProved(p)

\* Two kinds come out as themselves when the party they are about has their number.
Survives(m) ==
  m.kind \notin Addressed \/ (m.kind = "Complaint" /\ m.about % 256 = 3)
    \/ (m.kind = "Disqualify" /\ m.about % 256 = 5)

MessagesSurvive ==
  \A m \in DkgMessages : Deserialize(Serialize(m)) = Result(m) <=> Survives(m)

SharesNeverArrive ==
  \A m \in DkgMessages :
    m.kind = "Share" =>
      Deserialize(Serialize(m)) \in {Panic, Failed, Result([m EXCEPT !.kind = "Complaint"]),
                                     Result(Message("Ack", m.from, 0)),
                                     Result([m EXCEPT !.kind = "Disqualify"])}

\* What the formats keep.  A share never arrives: it panics, or turns into a
\* message of the kind its recipient's number stands for, a complaint against
\* party 3 or the disqualification of party 5, say.  Of a FROST signature only the
\* point survives (dkg.rs:86-191, frost.rs:143-181).
WireKeepsOnly ==
  /\ MessagesSurvive /\ SharesNeverArrive
  /\ Generated => \A q \in Quorums : \A sig \in FrostSignatures(q) :
       FrostFromBytes(FrostToBytes(sig)) =
         Result([signers |-> <<0>>, epoch |-> 1, transcript |-> <<>>])
=============================================================================
