----------------------------- MODULE McpProtocol -----------------------------
(***************************************************************************)
(* protocol.rs of sigimora-mcp: the phases of one node's key generation    *)
(* and signing rounds.  The node's application calls the methods with what *)
(* it receives, in any order and as often as it likes; a call in the wrong *)
(* phase, or with a proof that does not verify, is an error that changes   *)
(* nothing and is not a step here.                                         *)
(*                                                                         *)
(* The methods never pass a share on to the DkgState they hold, nor set    *)
(* the network parameters that signing needs: both fields are public, and  *)
(* an application may do it itself.                                        *)
(***************************************************************************)
EXTENDS Naturals, Sequences, FiniteSets

CONSTANTS
  Sizes,       \* the n and t of the networks considered
  Senders,     \* ids messages may come from; the methods do not bound them
  MyId,
  MaxRounds    \* signing rounds

ASSUME ProtocolAssumption ==
  /\ Sizes \subseteq [n : Nat \ {0}, t : Nat] /\ \A s \in Sizes : s.t <= s.n
  /\ MyId \in Senders /\ MaxRounds \in Nat

VARIABLES
  size,        \* n and t, once the node's McpProtocol is created
  phase,
  fed,         \* shares the application has given to dkg_state
  params,      \* is network_params set?
  dkgCommits,  \* the keys of received_commits
  dkgShares,   \* the length of received_shares
  signRound,   \* signing rounds started
  signCommits, \* received_sign_commits: the round of each sender's commitment, or 0
  reveals      \* the senders in received_sign_reveals

protVars == <<size, phase, fed, params, dkgCommits, dkgShares, signRound, signCommits, reveals>>

\* The size of a protocol that is not there yet.
Unset == [n |-> 0, t |-> 0]

QuorumSize == size.t + 1

\* transition_to: each phase has one successor, and is not its own.
Allowed ==
  {<<"Idle", "DkgCommit">>, <<"DkgCommit", "DkgShare">>, <<"DkgShare", "DkgVerify">>,
   <<"DkgVerify", "Ready">>, <<"Ready", "SignCommit">>, <<"SignCommit", "SignReveal">>,
   <<"SignReveal", "SignCombine">>, <<"SignCombine", "VerifyZkp">>, <<"VerifyZkp", "Ready">>}

CanEnter(next) == <<phase, next>> \in Allowed

-----------------------------------------------------------------------------
(* Key generation *)

Created == size # Unset

\* McpProtocol::new
New(s) ==
  /\ ~Created
  /\ size' = s
  /\ UNCHANGED <<phase, fed, params, dkgCommits, dkgShares, signRound, signCommits, reveals>>

StartDkg ==
  /\ Created /\ CanEnter("DkgCommit")
  /\ phase' = "DkgCommit"
  /\ dkgCommits' = dkgCommits \cup {MyId}
  /\ UNCHANGED <<size, fed, params, dkgShares, signRound, signCommits, reveals>>

\* A commitment whose stake proof verifies; the own one may come again.
ProcessDkgCommit(from) ==
  /\ phase = "DkgCommit"
  /\ dkgCommits' = dkgCommits \cup {from}
  /\ phase' = IF Cardinality(dkgCommits') >= size.n THEN "DkgShare" ELSE phase
  /\ UNCHANGED <<size, fed, params, dkgShares, signRound, signCommits, reveals>>

\* received_shares is a vector: a share counts as often as it arrives, whoever
\* it is from.
ProcessDkgShare ==
  /\ phase = "DkgShare"
  /\ dkgShares' = dkgShares + 1
  /\ phase' = IF dkgShares' >= size.n - 1 THEN "DkgVerify" ELSE phase
  /\ UNCHANGED <<size, fed, params, dkgCommits, signRound, signCommits, reveals>>

\* The application gives a decrypted share to dkg_state.
FeedShare ==
  /\ phase # "Idle" /\ fed < size.n - 1
  /\ fed' = fed + 1
  /\ UNCHANGED <<size, phase, params, dkgCommits, dkgShares, signRound, signCommits, reveals>>

\* Enters DkgVerify itself, and stays there when DkgState cannot finalize.
FinalizeDkg ==
  /\ CanEnter("DkgVerify")
  /\ phase' = IF fed >= size.n - 1 THEN "Ready" ELSE "DkgVerify"
  /\ UNCHANGED <<size, fed, params, dkgCommits, dkgShares, signRound, signCommits, reveals>>

-----------------------------------------------------------------------------
(* Signing *)

SetNetworkParams ==
  /\ Created /\ ~params
  /\ params' = TRUE
  /\ UNCHANGED <<size, phase, fed, dkgCommits, dkgShares, signRound, signCommits, reveals>>

NoCommits == [s \in Senders |-> 0]

StartSigningRoundKeeping ==               \* without clearing the commitments
  /\ CanEnter("SignCommit") /\ signRound < MaxRounds
  /\ phase' = "SignCommit"
  /\ signRound' = signRound + 1
  /\ reveals' = <<>>
  /\ UNCHANGED <<size, fed, params, dkgCommits, dkgShares, signCommits>>

StartSigningRound ==
  /\ CanEnter("SignCommit") /\ signRound < MaxRounds
  /\ phase' = "SignCommit"
  /\ signRound' = signRound + 1
  /\ signCommits' = NoCommits /\ reveals' = <<>>
  /\ UNCHANGED <<size, fed, params, dkgCommits, dkgShares>>

Committed == {s \in Senders : signCommits[s] # 0}

\* Without parameters the membership proof cannot be verified.
ProcessSignCommitment(from) ==
  /\ phase = "SignCommit" /\ params
  /\ signCommits' = [signCommits EXCEPT ![from] = signRound]
  /\ phase' = IF Cardinality(Committed \cup {from}) >= QuorumSize THEN "SignReveal" ELSE phase
  /\ UNCHANGED <<size, fed, params, dkgCommits, dkgShares, signRound, reveals>>

\* From anyone, whether it committed or not; a repeated reveal counts again.
ProcessSignReveal(from) ==
  /\ phase = "SignReveal"
  /\ reveals' = Append(reveals, from)
  /\ phase' = IF Len(reveals') >= QuorumSize THEN "SignCombine" ELSE phase
  /\ UNCHANGED <<size, fed, params, dkgCommits, dkgShares, signRound, signCommits>>

Distinct(seq) == \A i, j \in DOMAIN seq : seq[i] = seq[j] => i = j

\* The threshold is that of the parameters passed in: t, or t + 1 as in the
\* tests of sigimora-ats.  Aggregation fails below it, and panics over a
\* signer that revealed twice; the phase stays.
CombineSignatures(threshold) ==
  /\ CanEnter("SignCombine")
  /\ phase' = IF Len(reveals) >= threshold /\ Distinct(reveals) THEN "VerifyZkp" ELSE "SignCombine"
  /\ UNCHANGED <<size, fed, params, dkgCommits, dkgShares, signRound, signCommits, reveals>>

\* Of a signature the application passes in, which is valid or not.
VerifyCombinedSignature(valid) ==
  /\ CanEnter("VerifyZkp")
  /\ phase' = IF valid THEN "Ready" ELSE "VerifyZkp"
  /\ UNCHANGED <<size, fed, params, dkgCommits, dkgShares, signRound, signCommits, reveals>>

-----------------------------------------------------------------------------

ProtocolInit ==
  /\ size = Unset
  /\ phase = "Idle" /\ fed = 0 /\ params = FALSE
  /\ dkgCommits = {} /\ dkgShares = 0
  /\ signRound = 0 /\ signCommits = NoCommits /\ reveals = <<>>

ProtocolNext ==
  \/ \E s \in Sizes : New(s)
  \/ StartDkg \/ ProcessDkgShare \/ FeedShare \/ FinalizeDkg
  \/ SetNetworkParams \/ StartSigningRound
  \/ \E s \in Senders :
       ProcessDkgCommit(s) \/ ProcessSignCommitment(s) \/ ProcessSignReveal(s)
  \/ \E threshold \in {size.t, size.t + 1} : CombineSignatures(threshold)
  \/ \E valid \in BOOLEAN : VerifyCombinedSignature(valid)

ProtocolSpec == ProtocolInit /\ [][ProtocolNext]_protVars

-----------------------------------------------------------------------------
(* Properties. *)

Phases == {p[1] : p \in Allowed}

ProtocolTypeOK ==
  /\ size \in Sizes \cup {Unset} /\ phase \in Phases /\ fed \in Nat /\ params \in BOOLEAN
  /\ dkgCommits \subseteq Senders /\ dkgShares \in Nat
  /\ signRound \in Nat /\ signCommits \in [Senders -> Nat] /\ reveals \in Seq(Senders)

\* The documented rounds go on: a node that has all commitments and all shares
\* can finalize, and one that has a quorum of reveals can combine them
\* (lib.rs:13-20, protocol.rs:6-7, node.rs:176-177).  Each method enters its
\* phase itself (protocol.rs:326, 454).
NextCallAccepted ==
  /\ phase \in {"DkgShare", "DkgVerify"} /\ dkgShares >= size.n - 1 => CanEnter("DkgVerify")
  /\ phase \in {"SignReveal", "SignCombine"} /\ Len(reveals) >= QuorumSize
       => CanEnter("SignCombine")

\* Shares are processed only when n different senders committed, and partial
\* signatures revealed only when t + 1 different ones committed in this very
\* round, whatever arrives twice or late (protocol.rs:266-271, 393-398).
RoundsHaveQuorum ==
  /\ phase \notin {"Idle", "DkgCommit"} => Cardinality(dkgCommits) >= size.n
  /\ phase \in {"SignReveal", "SignCombine"} =>
       Cardinality({s \in Senders : signCommits[s] = signRound}) >= QuorumSize
=============================================================================
