---------------------------- MODULE McpNodeProofs ----------------------------
(***************************************************************************)
(* Proofs about McpNode, for networks and numbers of rounds of any size,   *)
(* any connections between any nodes, and queues of any length.            *)
(*                                                                         *)
(* ProtocolInv adds to the types and the quorums that only commitments of  *)
(* the round are kept while commitments are collected.  PeerInv adds to    *)
(* the properties of the peers how far the two sides of a connection can   *)
(* be apart: who may have written, and whose writer or reader may have     *)
(* ended.                                                                  *)
(***************************************************************************)
EXTENDS McpNode, SequenceTheorems, TLAPS

-----------------------------------------------------------------------------
(* The phases of the protocol.                                             *)

\* While commitments are collected there is none of another round.
OnlyThisRound ==
  phase = "SignCommit" =>
    signRound > 0 /\ \A s \in Senders : signCommits[s] \in {0, signRound}

\* Nothing happens before the protocol is created.
StartedInv == ~Created => phase = "Idle"

ProtocolInv == ProtocolTypeOK /\ StartedInv /\ OnlyThisRound /\ RoundsHaveQuorum

-----------------------------------------------------------------------------

\* The phases from which the calls of the protocol may enter the next one.
LEMMA EnteredFrom ==
  /\ CanEnter("DkgCommit") => phase = "Idle"
  /\ CanEnter("DkgVerify") => phase = "DkgShare"
  /\ CanEnter("SignCommit") => phase = "Ready"
  /\ CanEnter("SignCombine") => phase = "SignReveal"
  /\ CanEnter("VerifyZkp") => phase = "SignCombine"
  BY DEF CanEnter, Allowed

\* The names of the phases.
LEMMA PhaseNames ==
  Phases = {"Idle", "DkgCommit", "DkgShare", "DkgVerify", "Ready", "SignCommit", "SignReveal",
            "SignCombine", "VerifyZkp"}
<1>1. ASSUME NEW x \in Phases
      PROVE x \in {"Idle", "DkgCommit", "DkgShare", "DkgVerify", "Ready", "SignCommit",
                   "SignReveal", "SignCombine", "VerifyZkp"}
  BY DEF Phases, Allowed
<1>2. ASSUME NEW p \in Allowed PROVE p[1] \in Phases
  BY DEF Phases
<1>3. /\ "Idle" \in Phases /\ "DkgCommit" \in Phases /\ "DkgShare" \in Phases
      /\ "DkgVerify" \in Phases /\ "Ready" \in Phases /\ "SignCommit" \in Phases
      /\ "SignReveal" \in Phases /\ "SignCombine" \in Phases /\ "VerifyZkp" \in Phases
  <2>1. /\ <<"Idle", "DkgCommit">> \in Allowed /\ <<"DkgCommit", "DkgShare">> \in Allowed
        /\ <<"DkgShare", "DkgVerify">> \in Allowed /\ <<"DkgVerify", "Ready">> \in Allowed
        /\ <<"Ready", "SignCommit">> \in Allowed /\ <<"SignCommit", "SignReveal">> \in Allowed
        /\ <<"SignReveal", "SignCombine">> \in Allowed
        /\ <<"SignCombine", "VerifyZkp">> \in Allowed /\ <<"VerifyZkp", "Ready">> \in Allowed
    BY DEF Allowed
  <2>2. QED
    BY <1>2, <2>1
<1>4. QED
  BY <1>1, <1>3

\* The sizes a protocol may be created with are pairs of numbers.
LEMMA SizeFields ==
  ASSUME size \in Sizes \cup {Unset}
  PROVE  size.n \in Nat /\ size.t \in Nat /\ QuorumSize \in Nat
  BY ProtocolAssumption DEF Unset, QuorumSize

LEMMA InitInv == ProtocolInit => ProtocolInv
<1> SUFFICES ASSUME ProtocolInit PROVE ProtocolInv
  OBVIOUS
<1>1. ProtocolTypeOK
  <2>1. signCommits \in [Senders -> Nat] /\ reveals \in Seq(Senders)
    BY DEF ProtocolInit, NoCommits
  <2>2. params \in BOOLEAN
    BY Zenon DEF ProtocolInit
  <2>3. QED
    BY <2>1, <2>2, PhaseNames DEF ProtocolInit, ProtocolTypeOK
<1>2. phase = "Idle"
  BY DEF ProtocolInit
<1>3. QED
  BY <1>1, <1>2 DEF ProtocolInv, StartedInv, OnlyThisRound, RoundsHaveQuorum

\* Every call keeps the types.
LEMMA NextType == ASSUME ProtocolTypeOK, ProtocolNext PROVE ProtocolTypeOK'
<1> USE ProtocolAssumption, SizeFields, PhaseNames DEF ProtocolTypeOK
<1>1. ASSUME NEW s \in Sizes, New(s) PROVE ProtocolTypeOK'
  BY <1>1 DEF New, Phases
<1>2. CASE StartDkg
  BY <1>2 DEF StartDkg
<1>3. CASE ProcessDkgShare
  BY <1>3 DEF ProcessDkgShare
<1>4. CASE FeedShare
  BY <1>4 DEF FeedShare
<1>5. CASE FinalizeDkg
  BY <1>5 DEF FinalizeDkg
<1>6. CASE SetNetworkParams
  BY <1>6 DEF SetNetworkParams
<1>7. CASE StartSigningRound
  BY <1>7 DEF StartSigningRound, NoCommits
<1>8. ASSUME NEW s \in Senders, ProcessDkgCommit(s) PROVE ProtocolTypeOK'
  BY <1>8 DEF ProcessDkgCommit
<1>9. ASSUME NEW s \in Senders, ProcessSignCommitment(s) PROVE ProtocolTypeOK'
  BY <1>9 DEF ProcessSignCommitment
<1>10. ASSUME NEW s \in Senders, ProcessSignReveal(s) PROVE ProtocolTypeOK'
  BY <1>10 DEF ProcessSignReveal
<1>11. ASSUME NEW m \in {size.t, size.t + 1}, CombineSignatures(m) PROVE ProtocolTypeOK'
  BY <1>11 DEF CombineSignatures
<1>12. ASSUME NEW v \in BOOLEAN, VerifyCombinedSignature(v) PROVE ProtocolTypeOK'
  BY <1>12 DEF VerifyCombinedSignature
<1>13. QED
  BY <1>1, <1>2, <1>3, <1>4, <1>5, <1>6, <1>7, <1>8, <1>9, <1>10, <1>11, <1>12 DEF ProtocolNext

\* Key generation keeps the invariant.
LEMMA KeyGenerationKeeps ==
  ASSUME ProtocolInv, ProtocolTypeOK',
         \/ \E s \in Sizes : New(s)
         \/ StartDkg \/ ProcessDkgShare \/ FeedShare \/ FinalizeDkg \/ SetNetworkParams
         \/ \E s \in Senders : ProcessDkgCommit(s)
  PROVE  ProtocolInv'
<1> USE DEF ProtocolInv, StartedInv, Created, OnlyThisRound, RoundsHaveQuorum
<1>1. ASSUME NEW s \in Sizes, New(s) PROVE ProtocolInv'
  <2>1. phase' = "Idle"
    BY <1>1 DEF New
  <2>2. QED
    BY <2>1
<1>2. CASE StartDkg
  <2>1. phase' = "DkgCommit" /\ Created'
    BY <1>2 DEF StartDkg
  <2>2. QED
    BY <2>1
<1>3. ASSUME NEW s \in Senders, ProcessDkgCommit(s) PROVE ProtocolInv'
  <2>1. /\ phase = "DkgCommit" /\ phase' \in {"DkgCommit", "DkgShare"} /\ size' = size
        /\ phase' = "DkgShare" => Cardinality(dkgCommits') >= size.n
    BY <1>3 DEF ProcessDkgCommit
  <2>2. QED
    BY <2>1
<1>4. CASE ProcessDkgShare
  <2>1. /\ phase = "DkgShare" /\ phase' \in {"DkgShare", "DkgVerify"}
        /\ UNCHANGED <<size, dkgCommits>>
    BY <1>4 DEF ProcessDkgShare
  <2>2. QED
    BY <2>1
<1>5. CASE FeedShare \/ SetNetworkParams
  <2>1. UNCHANGED <<size, phase, dkgCommits, signRound, signCommits>>
    BY <1>5 DEF FeedShare, SetNetworkParams
  <2>2. QED
    BY <2>1 DEF QuorumSize
<1>6. CASE FinalizeDkg
  <2>1. /\ phase = "DkgShare" /\ phase' \in {"DkgVerify", "Ready"}
        /\ UNCHANGED <<size, dkgCommits>>
    BY <1>6, EnteredFrom DEF FinalizeDkg
  <2>2. QED
    BY <2>1
<1>7. QED
  BY <1>1, <1>2, <1>3, <1>4, <1>5, <1>6

\* Signing keeps the invariant.
LEMMA SigningKeeps ==
  ASSUME ProtocolInv, ProtocolTypeOK',
         \/ StartSigningRound
         \/ \E s \in Senders : ProcessSignCommitment(s) \/ ProcessSignReveal(s)
         \/ \E threshold \in {size.t, size.t + 1} : CombineSignatures(threshold)
         \/ \E valid \in BOOLEAN : VerifyCombinedSignature(valid)
  PROVE  ProtocolInv'
<1> USE DEF ProtocolInv, StartedInv, Created, OnlyThisRound, RoundsHaveQuorum
<1>0. signRound \in Nat /\ signCommits \in [Senders -> Nat]
  BY DEF ProtocolTypeOK
<1>1. CASE StartSigningRound
  <2>1. /\ phase = "Ready" /\ phase' = "SignCommit"
        /\ signRound' = signRound + 1 /\ signCommits' = NoCommits
        /\ UNCHANGED <<size, dkgCommits>>
    BY <1>1, EnteredFrom DEF StartSigningRound
  <2>2. \A s \in Senders : signCommits'[s] = 0
    BY <2>1 DEF NoCommits
  <2>3. QED
    BY <1>0, <2>1, <2>2
<1>2. ASSUME NEW from \in Senders, ProcessSignCommitment(from) PROVE ProtocolInv'
  <2>1. /\ phase = "SignCommit" /\ phase' \in {"SignCommit", "SignReveal"}
        /\ signCommits' = [signCommits EXCEPT ![from] = signRound]
        /\ phase' = "SignReveal" => Cardinality(Committed \cup {from}) >= QuorumSize
        /\ signRound > 0 /\ UNCHANGED <<size, dkgCommits, signRound>>
    BY <1>2 DEF ProcessSignCommitment
  <2>2. \A s \in Senders : signCommits'[s] \in {0, signRound}
    BY <1>0, <2>1
  <2>3. Committed \cup {from} = {s \in Senders : signCommits'[s] = signRound'}
    BY <1>0, <2>1, <2>2 DEF Committed
  <2>4. QuorumSize' = QuorumSize
    BY <2>1 DEF QuorumSize
  <2>5. OnlyThisRound'
    BY <2>1, <2>2
  <2>6. RoundsHaveQuorum'
    BY <2>1, <2>3, <2>4
  <2>7. QED
    BY <2>1, <2>2, <2>5, <2>6 DEF ProtocolInv
<1>3. ASSUME NEW from \in Senders, ProcessSignReveal(from) PROVE ProtocolInv'
  <2>1. /\ phase = "SignReveal" /\ phase' \in {"SignReveal", "SignCombine"}
        /\ UNCHANGED <<size, dkgCommits, signRound, signCommits>>
    BY <1>3 DEF ProcessSignReveal
  <2>2. phase' # "SignCommit" /\ phase' # "Idle" /\ phase' # "DkgCommit"
    BY <2>1
  <2>3. QED
    BY <2>1, <2>2 DEF QuorumSize
<1>4. ASSUME NEW m \in {size.t, size.t + 1}, CombineSignatures(m) PROVE ProtocolInv'
  <2>1. /\ phase = "SignReveal" /\ phase' \in {"SignCombine", "VerifyZkp"}
        /\ UNCHANGED <<size, dkgCommits, signRound, signCommits>>
    BY <1>4, EnteredFrom DEF CombineSignatures
  <2>2. QED
    BY <2>1 DEF QuorumSize
<1>5. ASSUME NEW v \in BOOLEAN, VerifyCombinedSignature(v) PROVE ProtocolInv'
  <2>1. /\ phase = "SignCombine" /\ phase' \in {"VerifyZkp", "Ready"}
        /\ UNCHANGED <<size, dkgCommits>>
    BY <1>5, EnteredFrom DEF VerifyCombinedSignature
  <2>2. QED
    BY <2>1
<1>6. QED
  BY <1>1, <1>2, <1>3, <1>4, <1>5

\* Every step keeps the invariant.
LEMMA NextInv == ProtocolInv /\ [ProtocolNext]_protVars => ProtocolInv'
<1> SUFFICES ASSUME ProtocolInv, [ProtocolNext]_protVars PROVE ProtocolInv'
  OBVIOUS
<1>1. CASE ProtocolNext
  <2>1. ProtocolTypeOK'
    BY <1>1, NextType DEF ProtocolInv
  <2>2. QED
    BY <1>1, <2>1, KeyGenerationKeeps, SigningKeeps DEF ProtocolNext
<1>2. CASE UNCHANGED protVars
  BY <1>2 DEF protVars, ProtocolInv, ProtocolTypeOK, StartedInv, Created, OnlyThisRound,
     RoundsHaveQuorum, QuorumSize
<1>3. QED
  BY <1>1, <1>2

-----------------------------------------------------------------------------
(* The peers.  First, sequences of messages.                              *)

\* A sequence that is not empty is its head before its tail.
LEMMA HeadFirst ==
  ASSUME NEW S, NEW q \in Seq(S), q # <<>>
  PROVE  /\ Head(q) \in S /\ Tail(q) \in Seq(S) /\ <<Head(q)>> \in Seq(S)
         /\ q = <<Head(q)>> \o Tail(q)
<1>1. Head(q) \in S /\ Tail(q) \in Seq(S) /\ Len(Tail(q)) = Len(q) - 1
  BY HeadTailProperties
<1>2. <<Head(q)>> \in Seq(S)
  BY <1>1
<1>3. q = <<Head(q)>> \o Tail(q)
  <2>1. Len(q) \in Nat \ {0}
    BY EmptySeq, LenProperties
  <2>2. SubSeq(q, 1, Len(q)) = <<q[1]>> \o SubSeq(q, 2, Len(q))
    BY <2>1, SubSeqRecursiveFirst
  <2>3. SubSeq(q, 1, Len(q)) = q /\ Tail(q) = SubSeq(q, 2, Len(q)) /\ Head(q) = q[1]
    BY SubSeqFull, TailIsSubSeq
  <2>4. QED
    BY <2>2, <2>3
<1>4. QED
  BY <1>1, <1>2, <1>3

\* What was sent when d is delivered, o on the wire and q queued.
Flow(d, o, q) == d \o o \o q

\* A message sent joins the end of the queue,
LEMMA SendKeeps ==
  ASSUME NEW S, NEW d \in Seq(S), NEW o \in Seq(S), NEW q \in Seq(S), NEW x \in S
  PROVE  Append(Flow(d, o, q), x) = Flow(d, o, Append(q, x))
<1>1. d \o o \in Seq(S) /\ d \o o \o q \in Seq(S) /\ <<x>> \in Seq(S)
  BY ConcatProperties
<1>2. Append(d \o o \o q, x) = (d \o o \o q) \o <<x>> /\ Append(q, x) = q \o <<x>>
  BY <1>1, AppendIsConcat
<1>3. (d \o o \o q) \o <<x>> = (d \o o) \o (q \o <<x>>)
  BY <1>1, ConcatAssociative
<1>4. QED
  BY <1>2, <1>3 DEF Flow

\* one written moves from the queue to the wire,
LEMMA WriteKeeps ==
  ASSUME NEW S, NEW d \in Seq(S), NEW o \in Seq(S), NEW q \in Seq(S), q # <<>>
  PROVE  Flow(d, o, q) = Flow(d, Append(o, Head(q)), Tail(q))
<1>1. /\ Head(q) \in S /\ Tail(q) \in Seq(S) /\ <<Head(q)>> \in Seq(S)
      /\ q = <<Head(q)>> \o Tail(q) /\ d \o o \in Seq(S)
  BY HeadFirst, ConcatProperties
<1>2. d \o o \o q = ((d \o o) \o <<Head(q)>>) \o Tail(q)
  BY <1>1, ConcatAssociative
<1>3. (d \o o) \o <<Head(q)>> = d \o (o \o <<Head(q)>>)
  BY <1>1, ConcatAssociative
<1>4. o \o <<Head(q)>> = Append(o, Head(q))
  BY <1>1, AppendIsConcat
<1>5. QED
  BY <1>2, <1>3, <1>4 DEF Flow

\* and one read from the wire to what is delivered.
LEMMA ReadKeeps ==
  ASSUME NEW S, NEW d \in Seq(S), NEW o \in Seq(S), o # <<>>, NEW q \in Seq(S)
  PROVE  Flow(d, o, q) = Flow(Append(d, Head(o)), Tail(o), q)
<1>1. /\ Head(o) \in S /\ Tail(o) \in Seq(S) /\ <<Head(o)>> \in Seq(S)
      /\ o = <<Head(o)>> \o Tail(o)
  BY HeadFirst
<1>2. d \o o = (d \o <<Head(o)>>) \o Tail(o)
  BY <1>1, ConcatAssociative
<1>3. d \o <<Head(o)>> = Append(d, Head(o))
  BY <1>1, AppendIsConcat
<1>4. QED
  BY <1>2, <1>3 DEF Flow

\* a begins with d.
BeginsWith(a, d) == \E k \in 0..Len(a) : d = SubSeq(a, 1, k)

\* Whatever is lost behind it, what was delivered is a prefix of what was sent,
LEMMA DeliveredIsPrefix ==
  ASSUME NEW S, NEW d \in Seq(S), NEW o \in Seq(S), NEW q \in Seq(S)
  PROVE  BeginsWith(Flow(d, o, q), d)
<1>1. o \o q \in Seq(S) /\ Flow(d, o, q) = d \o (o \o q)
  BY ConcatProperties, ConcatAssociative DEF Flow
<1> DEFINE a == d \o (o \o q)
<1>2. a \in Seq(S) /\ Len(a) = Len(d) + Len(o \o q) /\ Len(d) \in Nat /\ Len(o \o q) \in Nat
  BY <1>1, ConcatProperties, LenProperties
<1>3. CASE d = <<>>
  <2>1. d = SubSeq(a, 1, 0)
    BY <1>3, SubSeqEmpty
  <2>2. 0 \in 0..Len(a)
    BY <1>2
  <2>3. QED
    BY <1>1, <2>1, <2>2 DEF BeginsWith
<1>4. CASE d # <<>>
  <2>1. Len(d) \in 1..Len(d)
    BY <1>2, <1>4, EmptySeq
  <2>2. SubSeq(a, 1, Len(d)) = SubSeq(d, 1, Len(d))
    BY <1>1, <2>1, SubSeqOfConcat1
  <2>3. Len(d) \in 0..Len(a)
    BY <1>2
  <2>4. QED
    BY <1>1, <2>2, <2>3, SubSeqFull DEF BeginsWith
<1>5. QED
  BY <1>3, <1>4

\* and stays one when more is sent.
LEMMA PrefixStays ==
  ASSUME NEW S, NEW a \in Seq(S), NEW x \in S, NEW d, BeginsWith(a, d)
  PROVE  BeginsWith(Append(a, x), d)
<1>1. PICK k \in 0..Len(a) : d = SubSeq(a, 1, k)
  BY DEF BeginsWith
<1>2. Len(a) \in Nat /\ Len(Append(a, x)) = Len(a) + 1 /\ <<x>> \in Seq(S)
  BY LenProperties, AppendProperties
<1>3. SubSeq(Append(a, x), 1, k) = SubSeq(a, 1, k)
  <2>1. CASE k = 0
    BY <1>2, <2>1, SubSeqEmpty
  <2>2. CASE k # 0
    <3>1. 1 \in 1..Len(a) /\ k \in 1..Len(a)
      BY <1>2, <2>2
    <3>2. QED
      BY <1>2, <3>1, SubSeqOfConcat1, AppendIsConcat
  <2>3. QED
    BY <2>1, <2>2
<1>4. k \in 0..Len(Append(a, x))
  BY <1>2
<1>5. QED
  BY <1>1, <1>3, <1>4 DEF BeginsWith

-----------------------------------------------------------------------------
(* The two sides of a connection. *)

LEMMA SideFacts ==
  ASSUME NEW s \in Sides
  PROVE  /\ Opposite(s) \in Sides /\ Opposite(s) # s /\ Opposite(Opposite(s)) = s
         /\ s[1] \in Conns /\ Opposite(s)[1] = s[1] /\ s[1] # None
         /\ s[2] \in {"dialer", "acceptor"}
         /\ Opposite(s)[2] = IF s[2] = "dialer" THEN "acceptor" ELSE "dialer"
         /\ Owner(s) \in Nodes /\ Peer(s) \in Nodes /\ Owner(s) # Peer(s)
         /\ Owner(Opposite(s)) = Peer(s) /\ Peer(Opposite(s)) = Owner(s)
         /\ \A t \in Sides : t[1] = s[1] => t = s \/ t = Opposite(s)
         /\ \A t \in Sides : t[1] = s[1] /\ t[2] = s[2] => t = s
<1>1. PICK c \in Conns, e \in {"dialer", "acceptor"} : s = <<c, e>>
  BY DEF Sides
<1>2. /\ Opposite(s) \in Sides /\ Opposite(s) # s /\ Opposite(Opposite(s)) = s
      /\ s[1] \in Conns /\ Opposite(s)[1] = s[1] /\ s[1] # None
      /\ s[2] \in {"dialer", "acceptor"}
      /\ Opposite(s)[2] = IF s[2] = "dialer" THEN "acceptor" ELSE "dialer"
  BY <1>1, PeerAssumption DEF Sides, Opposite
<1>3. /\ Owner(s) \in Nodes /\ Peer(s) \in Nodes /\ Owner(s) # Peer(s)
      /\ Owner(Opposite(s)) = Peer(s) /\ Peer(Opposite(s)) = Owner(s)
  <2>1. Owner(s) \in Nodes /\ Peer(s) \in Nodes /\ Owner(s) # Peer(s)
    BY <1>1, <1>2, PeerAssumption DEF Owner, Peer, Opposite
  <2>2. Owner(Opposite(s)) = Peer(s) /\ Peer(Opposite(s)) = Owner(s)
    BY <1>2 DEF Peer
  <2>3. QED
    BY <2>1, <2>2
<1>4. \A t \in Sides : t[1] = s[1] => t = s \/ t = Opposite(s)
  <2>1. ASSUME NEW t \in Sides, t[1] = s[1] PROVE t = s \/ t = Opposite(s)
    <3>1. PICK d \in Conns, f \in {"dialer", "acceptor"} : t = <<d, f>>
      BY DEF Sides
    <3>2. QED
      BY <1>1, <2>1, <3>1 DEF Opposite
  <2>2. QED
    BY <2>1
<1>5. \A t \in Sides : t[1] = s[1] /\ t[2] = s[2] => t = s
  <2>1. ASSUME NEW t \in Sides, t[1] = s[1], t[2] = s[2] PROVE t = s
    <3>1. PICK d \in Conns, f \in {"dialer", "acceptor"} : t = <<d, f>>
      BY DEF Sides
    <3>2. QED
      BY <1>1, <2>1, <3>1
  <2>2. QED
    BY <2>1
<1>6. QED
  BY <1>2, <1>3, <1>4, <1>5

-----------------------------------------------------------------------------
(* Types, and the invariants that link the two sides of a connection.      *)

\* A handshake or a message, which is known by its number.
Message == Nat \cup {Hello(n) : n \in Nodes}

PeerTypeOK ==
  /\ peers \in [Nodes -> [Nodes -> Conns \cup {None}]]
  /\ call \in [Sides -> {"idle", "handshake", "answered", "insert", "done"}]
  /\ reader \in [Sides -> {"off", "reading", "removing", "done"}]
  /\ writer \in [Sides -> {"off", "on", "done"}]
  /\ queue \in [Sides -> Seq(Message)] /\ wire \in [Sides -> Seq(Message)]
  /\ accepted \in [Sides -> Seq(Message)] /\ delivered \in [Sides -> Seq(Message)]
  /\ broken \subseteq Conns /\ messages \in [Nodes -> Nat]

\* A side writes only after its handshake and reads what the other side has
\* written behind the answer to the handshake.
HandshakeOK(s) ==
  LET o == Opposite(s)
  IN  /\ call[s] = "idle" => call[o] = "idle" /\ wire[s] = <<>>
      /\ s[1] \in broken => call[s] # "idle" /\ wire[s] = <<>>
      /\ call[s] \in {"idle", "handshake"} => writer[s] = "off" /\ reader[s] = "off"
      /\ call[s] \in {"answered", "insert"} => writer[s] # "off"
      /\ s[2] = "acceptor" /\ call[s] = "handshake"
           => wire[s] = <<>> /\ (s[1] \in broken \/ call[o] = "handshake")
      /\ call[o] = "handshake" /\ writer[s] # "off" /\ wire[s] = <<>> => s[1] \in broken

\* The map entry of side s's node is this connection.
Entered(s) == peers[Owner(s)][Peer(s)] = s[1]

\* While a connection holds, a writer ends only when its side has lost its
\* entry for good, and a reader only when the other side's writer is gone.
EntryOK(s) ==
  LET o == Opposite(s)
  IN  /\ Entered(s) => call[s] = "done" /\ writer[s] # "off"
      /\ writer[s] = "done" /\ s[1] \notin broken => call[s] = "done" /\ ~Entered(s)
      /\ reader[s] \in {"removing", "done"} /\ s[1] \notin broken
           => call[o] = "done" /\ writer[o] \in {"off", "done"}

\* What side s has written and the other side will pass on.
Out(s) == IF call[Opposite(s)] = "handshake" /\ wire[s] # <<>> THEN Tail(wire[s]) ELSE wire[s]

\* Everything accepted was delivered, is on the wire or is queued, in order ...
Kept(s) == accepted[s] = Flow(delivered[Opposite(s)], Out(s), queue[s])

\* ... or at least what was delivered was sent before all the rest.
Delivered(s) == BeginsWith(accepted[s], delivered[Opposite(s)])

NothingLost(s) == Kept(s) \/ (s[1] \in broken /\ Delivered(s))

PeerInv ==
  /\ PeerTypeOK
  /\ \A s \in Sides : HandshakeOK(s) /\ EntryOK(s) /\ NothingLost(s)
  /\ EntriesHaveReaders

LEMMA PeerInit == NetInit => PeerInv
<1> SUFFICES ASSUME NetInit PROVE PeerInv
  OBVIOUS
<1>1. PeerTypeOK
  BY DEF NetInit, PeerTypeOK
<1>2. ASSUME NEW s \in Sides PROVE HandshakeOK(s) /\ EntryOK(s)
  BY SideFacts, PeerAssumption DEF NetInit, HandshakeOK, EntryOK, Entered
<1>3. ASSUME NEW s \in Sides PROVE NothingLost(s)
  <2>1. Opposite(s) \in Sides
    BY SideFacts
  <2>2. accepted[s] = <<>> /\ delivered[Opposite(s)] = <<>> /\ Out(s) = <<>> /\ queue[s] = <<>>
    BY <2>1 DEF NetInit, Out
  <2>3. Flow(<<>>, <<>>, <<>>) = <<>>
    BY DEF Flow
  <2>4. Kept(s)
    BY <2>2, <2>3 DEF Kept
  <2>5. QED
    BY <2>4 DEF NothingLost
<1>4. EntriesHaveReaders
  BY PeerAssumption DEF NetInit, EntriesHaveReaders
<1>5. QED
  BY <1>1, <1>2, <1>3, <1>4 DEF PeerInv

LEMMA PeerTypes ==
  ASSUME PeerTypeOK, NetNext
  PROVE  PeerTypeOK'
<1>1. ASSUME NEW s \in Sides, SideStep(s) PROVE PeerTypeOK'
  <2>0. /\ s \in Sides /\ Opposite(s) \in Sides /\ Owner(s) \in Nodes /\ Peer(s) \in Nodes
        /\ s[1] \in Conns
    BY SideFacts
  <2>1. CASE ShakeHands(s)
    <3>1. Tail(wire[Opposite(s)]) \in Seq(Message)
      BY <2>0, <2>1, HeadTailProperties DEF PeerTypeOK, ShakeHands
    <3>2. Append(wire[s], Hello(Owner(s))) \in Seq(Message)
      <4>1. Hello(Owner(s)) \in Message
        BY <2>0 DEF Message
      <4>2. QED
        BY <4>1, AppendProperties DEF PeerTypeOK
    <3>3. wire' \in [Sides -> Seq(Message)]
      BY <2>0, <2>1, <3>1, <3>2, SideFacts DEF PeerTypeOK, ShakeHands
    <3>4. QED
      BY <2>0, <2>1, <3>3 DEF PeerTypeOK, ShakeHands
  <2>2. CASE \/ HandshakeFails(s) \/ RequestLock(s) \/ Insert(s) \/ ReadEnd(s)
             \/ RemovePeer(s) \/ WriterEnds(s)
    <3>1. <<>> \in Seq(Message)
      BY EmptySeq
    <3>2. CASE HandshakeFails(s) \/ RequestLock(s) \/ ReadEnd(s)
      BY <3>2 DEF PeerTypeOK, HandshakeFails, RequestLock, ReadEnd
    <3>3. CASE Insert(s)
      BY <2>0, <3>3 DEF PeerTypeOK, Insert
    <3>4. CASE RemovePeer(s)
      BY <2>0, <3>4 DEF PeerTypeOK, RemovePeer
    <3>5. CASE WriterEnds(s)
      BY <3>1, <3>5 DEF PeerTypeOK, WriterEnds
    <3>6. QED
      BY <2>2, <3>2, <3>3, <3>4, <3>5
  <2>3. CASE ReadMessage(s)
    <3> DEFINE w == wire[Opposite(s)]
    <3>1. w \in Seq(Message) /\ w # <<>> /\ delivered[s] \in Seq(Message)
      BY <2>0, <2>3 DEF PeerTypeOK, ReadMessage
    <3>2. Tail(w) \in Seq(Message) /\ Append(delivered[s], Head(w)) \in Seq(Message)
      BY <3>1, HeadTailProperties, AppendProperties
    <3>3. QED
      BY <2>0, <2>3, <3>2 DEF PeerTypeOK, ReadMessage
  <2>4. CASE Write(s)
    <3> DEFINE q == queue[s]
    <3>1. q \in Seq(Message) /\ q # <<>> /\ wire[s] \in Seq(Message)
      BY <2>4 DEF PeerTypeOK, Write
    <3>2. Tail(q) \in Seq(Message) /\ Append(wire[s], Head(q)) \in Seq(Message)
      BY <3>1, HeadTailProperties, AppendProperties
    <3>3. QED
      BY <2>4, <3>2 DEF PeerTypeOK, Write
  <2>5. QED
    BY <1>1, <2>1, <2>2, <2>3, <2>4 DEF SideStep
<1>2. ASSUME NEW c \in Conns, Dial(c) PROVE PeerTypeOK'
  <2>1. Hello(Dialer[c]) \in Message
    BY PeerAssumption DEF Message
  <2>2. <<Hello(Dialer[c])>> \in Seq(Message)
    BY <2>1
  <2> HIDE DEF Message
  <2>3. QED
    BY <1>2, <2>2 DEF PeerTypeOK, Dial
<1>3. ASSUME NEW c \in Conns, Break(c) PROVE PeerTypeOK'
  BY <1>3, EmptySeq DEF PeerTypeOK, Break
<1>4. ASSUME NEW n \in Nodes, NEW p \in Nodes, SendNext(n, p) PROVE PeerTypeOK'
  <2> DEFINE s == SideOf(n, peers[n][p])
  <2>1. messages[n] \in Message
    BY DEF PeerTypeOK, Message
  <2>2. s \in Sides => /\ Append(queue[s], messages[n]) \in Seq(Message)
                       /\ Append(accepted[s], messages[n]) \in Seq(Message)
    BY <2>1, AppendProperties DEF PeerTypeOK
  <2>3. \/ UNCHANGED <<queue, accepted>>
        \/ /\ queue' = [queue EXCEPT ![s] = Append(@, messages[n])]
           /\ accepted' = [accepted EXCEPT ![s] = Append(@, messages[n])]
    BY <1>4 DEF SendNext
  <2> HIDE DEF s
  <2>4. queue' \in [Sides -> Seq(Message)] /\ accepted' \in [Sides -> Seq(Message)]
    BY <2>2, <2>3 DEF PeerTypeOK
  <2>5. QED
    BY <1>4, <2>4 DEF PeerTypeOK, SendNext
<1>5. ASSUME NEW n \in Nodes, Listen(n) \/ Finish(n) PROVE PeerTypeOK'
  BY <1>5 DEF PeerTypeOK, Listen, Finish
<1>6. ASSUME NEW n \in Nodes, NEW targets, Begin(n, targets) PROVE PeerTypeOK'
  BY <1>6 DEF PeerTypeOK, Begin
<1>7. QED
  BY <1>1, <1>2, <1>3, <1>4, <1>5, <1>6 DEF NetNext, SendStep, Broadcast, SendTo

-----------------------------------------------------------------------------
(* Every step keeps HandshakeOK and EntryOK of both sides.                 *)

LEMMA HandshakesKept ==
  ASSUME PeerTypeOK, \A s \in Sides : HandshakeOK(s), NetNext, NEW t \in Sides
  PROVE  HandshakeOK(t)'
<1> DEFINE u == Opposite(t)
<1>0. /\ t \in Sides /\ u \in Sides /\ u # t /\ Opposite(u) = t /\ u[1] = t[1]
      /\ t[1] \in Conns /\ t[2] \in {"dialer", "acceptor"} /\ u[2] \in {"dialer", "acceptor"}
      /\ u[2] # t[2]
      /\ HandshakeOK(t) /\ HandshakeOK(u)
  BY SideFacts
<1>1. ASSUME UNCHANGED <<call, writer, reader, wire, broken>> PROVE HandshakeOK(t)'
  BY <1>0, <1>1 DEF HandshakeOK
<1>2. ASSUME NEW s \in Sides, SideStep(s) PROVE HandshakeOK(t)'
  <2>1. /\ Opposite(s) \in Sides /\ Opposite(s) # s /\ Opposite(Opposite(s)) = s
        /\ Opposite(s) = t <=> s = u
        /\ s[1] = Opposite(s)[1]
    BY <1>0, SideFacts
  <2>2. CASE s = t
    <3>1. CASE ShakeHands(s)
      <4>1. /\ call[t] = "handshake" /\ t[1] \notin broken /\ wire[u] # <<>>
            /\ call'[t] = "answered" /\ call'[u] = call[u] /\ writer'[t] = "on"
            /\ broken' = broken
            /\ wire'[t] = IF t[2] = "acceptor" THEN Append(wire[t], Hello(Owner(t)))
                                              ELSE wire[t]
        BY <1>0, <2>1, <2>2, <3>1 DEF ShakeHands, PeerTypeOK
      <4>2. Append(wire[t], Hello(Owner(t))) # <<>>
        <5>1. wire[t] \in Seq(Message) /\ Hello(Owner(t)) \in Message
          BY <1>0, SideFacts DEF PeerTypeOK, Message
        <5>2. QED
          BY <5>1, AppendProperties
      <4>3. QED
        BY <1>0, <4>1, <4>2 DEF HandshakeOK
    <3>2. CASE HandshakeFails(s)
      BY <1>0, <2>1, <2>2, <3>2 DEF HandshakeOK, HandshakeFails, PeerTypeOK, Ended
    <3>3. CASE RequestLock(s) \/ Insert(s)
      <4>1. CASE RequestLock(s)
        BY <1>0, <2>1, <2>2, <4>1 DEF HandshakeOK, RequestLock, PeerTypeOK
      <4>2. CASE Insert(s)
        <5>1. /\ call[t] = "insert" /\ call'[t] = "done" /\ call'[u] = call[u]
              /\ UNCHANGED <<writer, wire, broken>>
          BY <1>0, <2>1, <2>2, <4>2 DEF Insert, PeerTypeOK
        <5>2. reader'[t] = IF t[2] = "acceptor" THEN "reading" ELSE reader[t]
          BY <1>0, <2>2, <4>2 DEF Insert, PeerTypeOK
        <5>3. QED
          BY <1>0, <5>1, <5>2 DEF HandshakeOK
      <4>3. QED
        BY <3>3, <4>1, <4>2
    <3>4. CASE ReadMessage(s)
      BY <1>0, <2>1, <2>2, <3>4 DEF HandshakeOK, ReadMessage, PeerTypeOK
    <3>5. CASE ReadEnd(s) \/ RemovePeer(s)
      BY <1>0, <2>1, <2>2, <3>5 DEF HandshakeOK, ReadEnd, RemovePeer, PeerTypeOK
    <3>6. CASE Write(s)
      <4>1. /\ t[1] \notin broken /\ writer[t] = "on"
            /\ UNCHANGED <<call, reader, writer, broken>>
            /\ wire'[u] = wire[u] /\ wire'[t] = Append(wire[t], Head(queue[t]))
        BY <1>0, <2>1, <2>2, <3>6 DEF Write, PeerTypeOK
      <4>2. Append(wire[t], Head(queue[t])) # <<>>
        <5>1. wire[t] \in Seq(Message) /\ queue[t] \in Seq(Message) /\ queue[t] # <<>>
          BY <1>0, <2>2, <3>6 DEF Write, PeerTypeOK
        <5>2. Head(queue[t]) \in Message
          BY <5>1, HeadTailProperties
        <5>3. QED
          BY <5>1, <5>2, AppendProperties
      <4>3. QED
        BY <1>0, <4>1, <4>2 DEF HandshakeOK
    <3>7. CASE WriterEnds(s)
      BY <1>0, <2>1, <2>2, <3>7 DEF HandshakeOK, WriterEnds, PeerTypeOK
    <3>8. QED
      BY <1>2, <3>1, <3>2, <3>3, <3>4, <3>5, <3>6, <3>7 DEF SideStep
  <2>3. CASE s = u
    <3>1. CASE ShakeHands(s)
      BY <1>0, <2>1, <2>3, <3>1 DEF HandshakeOK, ShakeHands, PeerTypeOK
    <3>2. CASE HandshakeFails(s)
      BY <1>0, <2>1, <2>3, <3>2 DEF HandshakeOK, HandshakeFails, PeerTypeOK, Ended
    <3>3. CASE RequestLock(s) \/ Insert(s)
      <4>1. CASE RequestLock(s)
        BY <1>0, <2>1, <2>3, <4>1 DEF HandshakeOK, RequestLock, PeerTypeOK
      <4>2. CASE Insert(s)
        BY <1>0, <2>1, <2>3, <4>2 DEF HandshakeOK, Insert, PeerTypeOK
      <4>3. QED
        BY <3>3, <4>1, <4>2
    <3>4. CASE ReadMessage(s)
      BY <1>0, <2>1, <2>3, <3>4 DEF HandshakeOK, ReadMessage, PeerTypeOK
    <3>5. CASE ReadEnd(s) \/ RemovePeer(s)
      BY <1>0, <2>1, <2>3, <3>5 DEF HandshakeOK, ReadEnd, RemovePeer, PeerTypeOK
    <3>6. CASE Write(s)
      BY <1>0, <2>1, <2>3, <3>6 DEF HandshakeOK, Write, PeerTypeOK
    <3>7. CASE WriterEnds(s)
      BY <1>0, <2>1, <2>3, <3>7 DEF HandshakeOK, WriterEnds, PeerTypeOK
    <3>8. QED
      BY <1>2, <3>1, <3>2, <3>3, <3>4, <3>5, <3>6, <3>7 DEF SideStep
  <2>4. CASE s # t /\ s # u
    <3>1. /\ call'[t] = call[t] /\ call'[u] = call[u] /\ writer'[t] = writer[t]
          /\ reader'[t] = reader[t] /\ wire'[t] = wire[t] /\ broken' = broken
      BY <1>0, <1>2, <2>1, <2>4
         DEF SideStep, PeerTypeOK, ShakeHands, HandshakeFails, RequestLock, Insert, ReadMessage,
             ReadEnd, RemovePeer, Write, WriterEnds
    <3>2. QED
      BY <1>0, <3>1 DEF HandshakeOK
  <2>5. QED
    BY <2>2, <2>3, <2>4
<1>3. ASSUME NEW c \in Conns, Dial(c) PROVE HandshakeOK(t)'
  <2>1. <<c, "dialer">> \in Sides /\ <<c, "acceptor">> \in Sides
    BY DEF Sides
  <2>2. CASE t[1] = c
    <3>1. \/ t = <<c, "dialer">> /\ u = <<c, "acceptor">>
          \/ t = <<c, "acceptor">> /\ u = <<c, "dialer">>
      BY <1>0, <2>1, <2>2, SideFacts
    <3>2. call[t] = "idle" /\ call[u] = "idle" /\ t[1] \notin broken
      BY <1>0, <1>3, <2>1, <3>1 DEF Dial, HandshakeOK
    <3>3. /\ call'[t] = "handshake" /\ call'[u] = "handshake" /\ broken' = broken
          /\ writer'[t] = writer[t] /\ reader'[t] = reader[t]
      BY <1>0, <1>3, <2>1, <3>1 DEF Dial, PeerTypeOK
    <3>4. t[2] = "acceptor" => wire'[t] = wire[t]
      <4>1. t # <<c, "dialer">> => wire'[t] = wire[t]
        BY <1>0, <1>3 DEF Dial, PeerTypeOK
      <4>2. QED
        BY <4>1
    <3>5. QED
      BY <1>0, <3>2, <3>3, <3>4 DEF HandshakeOK
  <2>3. CASE t[1] # c
    <3>1. {t, u} \cap {<<c, "dialer">>, <<c, "acceptor">>} = {}
      BY <1>0, <2>3
    <3>2. /\ call'[t] = call[t] /\ call'[u] = call[u] /\ writer'[t] = writer[t]
          /\ reader'[t] = reader[t] /\ wire'[t] = wire[t] /\ broken' = broken
      BY <1>0, <1>3, <3>1 DEF Dial, PeerTypeOK
    <3>3. QED
      BY <1>0, <3>2 DEF HandshakeOK
  <2>4. QED
    BY <2>2, <2>3
<1>4. ASSUME NEW c \in Conns, Break(c) PROVE HandshakeOK(t)'
  <2>1. UNCHANGED <<call, writer, reader>> /\ broken' = broken \cup {c}
    BY <1>4 DEF Break
  <2>2. wire'[t] = IF t[1] = c THEN <<>> ELSE wire[t]
    BY <1>0, <1>4 DEF Break
  <2>3. t[1] = c => call[t] # "idle"
    <3>1. <<c, "dialer">> \in Sides /\ <<c, "dialer">>[1] = c
      BY DEF Sides
    <3>2. t[1] = c => <<c, "dialer">> \in {t, u}
      BY <1>0, <3>1, SideFacts
    <3>3. QED
      BY <1>0, <1>4, <3>2 DEF Break, HandshakeOK
  <2>4. QED
    BY <1>0, <2>1, <2>2, <2>3 DEF HandshakeOK
<1>5. QED
  BY <1>1, <1>2, <1>3, <1>4 DEF NetNext, SendStep, SendNext, Finish, Listen, Broadcast, SendTo,
                                Begin

LEMMA EntriesKept ==
  ASSUME PeerTypeOK, \A s \in Sides : HandshakeOK(s) /\ EntryOK(s), NetNext, NEW t \in Sides
  PROVE  EntryOK(t)'
<1> DEFINE u == Opposite(t)
<1>0. /\ t \in Sides /\ u \in Sides /\ u # t /\ Opposite(u) = t /\ u[1] = t[1]
      /\ t[1] \in Conns /\ t[1] # None /\ Owner(t) \in Nodes /\ Peer(t) \in Nodes
      /\ HandshakeOK(t) /\ HandshakeOK(u) /\ EntryOK(t)
  BY SideFacts
<1>1. ASSUME UNCHANGED <<call, writer, reader, peers>>, broken \subseteq broken' PROVE EntryOK(t)'
  BY <1>0, <1>1 DEF EntryOK, Entered
<1>2. ASSUME NEW s \in Sides, SideStep(s) PROVE EntryOK(t)'
  <2>1. /\ Opposite(s) \in Sides /\ Opposite(s) # s /\ Opposite(Opposite(s)) = s
        /\ Opposite(s) = t <=> s = u
        /\ s[1] = Opposite(s)[1] /\ s[1] \in Conns
        /\ Owner(s) \in Nodes /\ Peer(s) \in Nodes
        /\ s[1] = t[1] => s \in {t, u}
    BY <1>0, SideFacts
  <2>2. CASE ShakeHands(s)
    <3>1. UNCHANGED <<peers, broken>> /\ call[s] = "handshake"
      BY <2>2 DEF ShakeHands
    <3>2. /\ call'[t] = IF t = s THEN "answered" ELSE call[t]
          /\ call'[u] = IF u = s THEN "answered" ELSE call[u]
          /\ writer'[t] = IF t = s THEN "on" ELSE writer[t]
          /\ writer'[u] = IF u = s THEN "on" ELSE writer[u]
          /\ t # s => reader'[t] = reader[t]
          /\ t = s => reader'[t] \in {"reading", reader[t]}
      BY <1>0, <2>1, <2>2 DEF ShakeHands, PeerTypeOK
    <3>3. QED
      BY <1>0, <3>1, <3>2 DEF EntryOK, Entered, HandshakeOK
  <2>3. CASE HandshakeFails(s)
    <3>1. UNCHANGED <<peers, broken, writer, reader>> /\ call[s] = "handshake"
      BY <2>3 DEF HandshakeFails
    <3>2. /\ call'[t] = IF t = s THEN "done" ELSE call[t]
          /\ call'[u] = IF u = s THEN "done" ELSE call[u]
      BY <1>0, <2>1, <2>3 DEF HandshakeFails, PeerTypeOK
    <3>3. QED
      BY <1>0, <3>1, <3>2 DEF EntryOK, Entered, HandshakeOK
  <2>4. CASE Insert(s)
    <3>1. UNCHANGED <<broken, writer>> /\ call[s] = "insert" /\ writer[s] # "off"
      BY <2>4 DEF Insert, HandshakeOK
    <3>2. /\ call'[t] = IF t = s THEN "done" ELSE call[t]
          /\ call'[u] = IF u = s THEN "done" ELSE call[u]
          /\ t # s => reader'[t] = reader[t]
          /\ t = s => reader'[t] \in {"reading", reader[t]}
      BY <1>0, <2>1, <2>4 DEF Insert, PeerTypeOK
    <3>3. peers'[Owner(t)][Peer(t)] = t[1] => Entered(t) \/ s[1] = t[1]
      BY <1>0, <2>1, <2>4 DEF Insert, PeerTypeOK, Entered
    <3>4. s = u => (peers'[Owner(t)][Peer(t)] = t[1] => Entered(t))
      <4>1. Owner(t) # Owner(u)
        BY SideFacts
      <4>2. QED
        BY <1>0, <2>1, <2>4, <4>1 DEF Insert, PeerTypeOK, Entered
    <3>5. QED
      BY <1>0, <2>1, <3>1, <3>2, <3>3, <3>4 DEF EntryOK, Entered, HandshakeOK
  <2>5. CASE ReadMessage(s) \/ Write(s)
    BY <1>1, <2>5 DEF ReadMessage, Write
  <2>6. CASE ReadEnd(s)
    <3>1. UNCHANGED <<peers, broken, writer, call>> /\ Ended(s) /\ reader[s] = "reading"
      BY <2>6 DEF ReadEnd
    <3>2. reader'[t] = IF t = s THEN "removing" ELSE reader[t]
      BY <1>0, <2>6 DEF ReadEnd, PeerTypeOK
    <3>3. QED
      BY <1>0, <3>1, <3>2 DEF EntryOK, Entered, HandshakeOK, Ended
  <2>7. CASE RemovePeer(s)
    <3>1. UNCHANGED <<broken, writer, call>> /\ reader[s] = "removing"
      BY <2>7 DEF RemovePeer
    <3>2. reader'[t] = IF t = s THEN "done" ELSE reader[t]
      BY <1>0, <2>7 DEF RemovePeer, PeerTypeOK
    <3>3. peers'[Owner(t)][Peer(t)] = t[1] => Entered(t)
      BY <1>0, <2>1, <2>7 DEF RemovePeer, PeerTypeOK, Entered
    <3>4. QED
      BY <1>0, <3>1, <3>2, <3>3 DEF EntryOK, Entered
  <2>8. CASE WriterEnds(s)
    <3>1. UNCHANGED <<peers, broken, call, reader>> /\ writer[s] = "on"
      BY <2>8 DEF WriterEnds
    <3>2. /\ writer'[t] = IF t = s THEN "done" ELSE writer[t]
          /\ writer'[u] = IF u = s THEN "done" ELSE writer[u]
      BY <1>0, <2>8 DEF WriterEnds, PeerTypeOK
    <3>3. t = s /\ t[1] \notin broken => call[t] = "done" /\ ~Entered(t)
      BY <1>0, <2>8 DEF WriterEnds, SenderAlive, Entered, HandshakeOK, PeerTypeOK
    <3>4. QED
      BY <1>0, <3>1, <3>2, <3>3 DEF EntryOK, Entered
  <2>9. CASE RequestLock(s)
    <3>1. UNCHANGED <<peers, broken, writer, reader>> /\ call[s] = "answered"
      BY <2>9 DEF RequestLock
    <3>2. /\ call'[t] = IF t = s THEN "insert" ELSE call[t]
          /\ call'[u] = IF u = s THEN "insert" ELSE call[u]
      BY <1>0, <2>1, <2>9 DEF RequestLock, PeerTypeOK
    <3>3. QED
      BY <1>0, <3>1, <3>2 DEF EntryOK, Entered, HandshakeOK
  <2>10. QED
    BY <1>2, <2>2, <2>3, <2>4, <2>5, <2>6, <2>7, <2>8, <2>9 DEF SideStep
<1>3. ASSUME NEW c \in Conns, Dial(c) PROVE EntryOK(t)'
  <2>1. UNCHANGED <<peers, broken, writer, reader>>
    BY <1>3 DEF Dial
  <2>2. ASSUME NEW s \in {t, u}, call'[s] # call[s]
        PROVE  call[s] = "idle" /\ call'[s] = "handshake"
    <3>1. <<c, "dialer">> \in Sides /\ <<c, "acceptor">> = Opposite(<<c, "dialer">>)
      BY DEF Sides, Opposite
    <3>2. HandshakeOK(<<c, "dialer">>) /\ <<c, "acceptor">> \in Sides
      BY <3>1, SideFacts
    <3>3. call[<<c, "dialer">>] = "idle" /\ call[<<c, "acceptor">>] = "idle"
      BY <1>3, <3>1, <3>2 DEF Dial, HandshakeOK
    <3>4. QED
      BY <1>0, <1>3, <2>2, <3>1, <3>2, <3>3 DEF Dial, PeerTypeOK
  <2>3. QED
    BY <1>0, <2>1, <2>2 DEF EntryOK, Entered, HandshakeOK
<1>4. ASSUME NEW c \in Conns, Break(c) PROVE EntryOK(t)'
  BY <1>1, <1>4 DEF Break
<1>5. QED
  BY <1>1, <1>2, <1>3, <1>4 DEF NetNext, SendStep, SendNext, Finish, Listen, Broadcast, SendTo,
                                Begin

-----------------------------------------------------------------------------
(* Every step keeps what NothingLost says of both directions.              *)

\* The terms NothingLost speaks of are sequences.
LEMMA OutType ==
  ASSUME PeerTypeOK, NEW s \in Sides
  PROVE  /\ accepted[s] \in Seq(Message) /\ delivered[Opposite(s)] \in Seq(Message)
         /\ wire[s] \in Seq(Message) /\ queue[s] \in Seq(Message)
         /\ Out(s) \in Seq(Message)
<1>1. /\ accepted[s] \in Seq(Message) /\ delivered[Opposite(s)] \in Seq(Message)
      /\ wire[s] \in Seq(Message) /\ queue[s] \in Seq(Message)
  BY SideFacts DEF PeerTypeOK
<1>2. wire[s] # <<>> => Tail(wire[s]) \in Seq(Message)
  BY <1>1, HeadTailProperties
<1>3. QED
  BY <1>1, <1>2 DEF Out

\* A connection that breaks, or broke, loses only what was not delivered.
LEMMA BreakKeeps ==
  ASSUME PeerTypeOK, NEW s \in Sides, NothingLost(s), s[1] \in broken',
         accepted'[s] = accepted[s], delivered'[Opposite(s)] = delivered[Opposite(s)]
  PROVE  NothingLost(s)'
<1>1. Delivered(s)
  <2>1. CASE Kept(s)
    <3> DEFINE d == delivered[Opposite(s)]
               o == Out(s)
               q == queue[s]
    <3>1. d \in Seq(Message) /\ o \in Seq(Message) /\ q \in Seq(Message)
      BY OutType
    <3>2. accepted[s] = Flow(d, o, q)
      BY <2>1 DEF Kept
    <3> HIDE DEF d, o, q
    <3>3. BeginsWith(Flow(d, o, q), d)
      BY <3>1, DeliveredIsPrefix
    <3>4. QED
      BY <3>2, <3>3 DEF Delivered, d
  <2>2. QED
    BY <2>1 DEF NothingLost
<1>2. Delivered(s)'
  BY <1>1 DEF Delivered
<1>3. QED
  BY <1>2 DEF NothingLost

\* A step that leaves all four parts as they are.
LEMMA SameKept ==
  ASSUME PeerTypeOK, NEW s \in Sides, NothingLost(s), broken' = broken,
         accepted'[s] = accepted[s], delivered'[Opposite(s)] = delivered[Opposite(s)],
         Out(s)' = Out(s), queue'[s] = queue[s]
  PROVE  NothingLost(s)'
<1>1. Kept(s) => Kept(s)'
  BY DEF Kept
<1>2. Delivered(s) => Delivered(s)'
  BY DEF Delivered
<1>3. QED
  BY <1>1, <1>2 DEF NothingLost

\* Out changes only with the wire and the handshake that is read from it.
LEMMA SameOut ==
  ASSUME NEW s \in Sides, wire'[s] = wire[s], call'[Opposite(s)] = call[Opposite(s)]
  PROVE  Out(s)' = Out(s)
BY DEF Out

\* One more message is accepted.
LEMMA AcceptKeeps ==
  ASSUME PeerTypeOK, NEW s \in Sides, NothingLost(s), UNCHANGED <<wire, call, delivered, broken>>,
         NEW m \in Message,
         accepted'[s] = Append(accepted[s], m), queue'[s] = Append(queue[s], m)
  PROVE  NothingLost(s)'
<1>1. ASSUME Kept(s) PROVE Kept(s)'
  <2>1. Out(s)' = Out(s)
    BY SameOut
  <2>2. Append(accepted[s], m) = Flow(delivered[Opposite(s)], Out(s), Append(queue[s], m))
    <3>1. Append(Flow(delivered[Opposite(s)], Out(s), queue[s]), m)
            = Flow(delivered[Opposite(s)], Out(s), Append(queue[s], m))
      <4> DEFINE d == delivered[Opposite(s)]
                 o == Out(s)
                 q == queue[s]
      <4>1. d \in Seq(Message) /\ o \in Seq(Message) /\ q \in Seq(Message)
        BY OutType
      <4> HIDE DEF d, o, q
      <4>2. Append(Flow(d, o, q), m) = Flow(d, o, Append(q, m))
        BY <4>1, SendKeeps
      <4>3. QED
        BY <4>2 DEF d, o, q
    <3>2. QED
      BY <1>1, <3>1 DEF Kept
  <2>3. QED
    BY <2>1, <2>2 DEF Kept
<1>2. ASSUME Delivered(s) PROVE Delivered(s)'
  <2>1. accepted[s] \in Seq(Message)
    BY OutType
  <2>2. BeginsWith(Append(accepted[s], m), delivered[Opposite(s)])
    BY <1>2, <2>1, PrefixStays DEF Delivered
  <2>3. QED
    BY <2>2 DEF Delivered
<1>3. QED
  BY <1>1, <1>2 DEF NothingLost

\* One message moves from the queue to the wire.
LEMMA WrittenKeeps ==
  ASSUME PeerTypeOK, NEW s \in Sides, HandshakeOK(s), HandshakeOK(Opposite(s)), NothingLost(s),
         Write(s)
  PROVE  NothingLost(s)'
<1> DEFINE w == wire[s]
           q == queue[s]
<1>1. /\ writer[s] = "on" /\ q # <<>> /\ s[1] \notin broken
      /\ wire'[s] = Append(w, Head(q)) /\ queue'[s] = Tail(q)
      /\ UNCHANGED <<accepted, delivered, call, broken>>
  BY DEF Write, PeerTypeOK
<1>2. w \in Seq(Message) /\ q \in Seq(Message) /\ Out(s) \in Seq(Message)
  BY OutType
<1>3. Head(q) \in Message
  BY <1>1, <1>2, HeadTailProperties
<1>4. Append(w, Head(q)) # <<>>
  BY <1>2, <1>3, AppendProperties
<1>5. w # <<>> => Tail(Append(w, Head(q))) = Append(Tail(w), Head(q))
  BY <1>2, HeadTailAppend
<1>6. call[Opposite(s)] = "handshake" => w # <<>>
  BY <1>1, SideFacts DEF HandshakeOK
<1>7. Out(s)' = Append(Out(s), Head(q))
  BY <1>1, <1>4, <1>5, <1>6 DEF Out
<1>8. Flow(delivered[Opposite(s)], Out(s), q)
        = Flow(delivered[Opposite(s)], Append(Out(s), Head(q)), Tail(q))
  BY <1>1, <1>2, OutType, WriteKeeps
<1>9. Kept(s)
  BY <1>1 DEF NothingLost
<1>10. Kept(s)'
  BY <1>1, <1>7, <1>8, <1>9 DEF Kept
<1>11. QED
  BY <1>10 DEF NothingLost

\* One message moves from the wire to the subscribers of the other side.
LEMMA ReadMessageKeeps ==
  ASSUME PeerTypeOK, NEW s \in Sides, HandshakeOK(Opposite(s)), NothingLost(s),
         ReadMessage(Opposite(s))
  PROVE  NothingLost(s)'
<1> DEFINE o == Opposite(s)
           w == wire[s]
           d == delivered[o]
<1>0. o \in Sides /\ o # s /\ Opposite(o) = s /\ o[1] = s[1]
  BY SideFacts
<1>1. /\ reader[o] = "reading" /\ w # <<>> /\ s[1] \notin broken
      /\ delivered'[o] = Append(d, Head(w)) /\ wire'[s] = Tail(w)
      /\ UNCHANGED <<accepted, queue, call, broken>>
  BY <1>0 DEF ReadMessage, PeerTypeOK
<1>2. call[o] # "handshake"
  BY <1>1 DEF HandshakeOK
<1>3. Out(s) = w /\ Out(s)' = Tail(w)
  BY <1>1, <1>2 DEF Out
<1>4. w \in Seq(Message) /\ d \in Seq(Message) /\ queue[s] \in Seq(Message)
  BY OutType
<1>5. Flow(d, w, queue[s]) = Flow(Append(d, Head(w)), Tail(w), queue[s])
  BY <1>1, <1>4, ReadKeeps
<1>6. Kept(s)
  BY <1>1 DEF NothingLost
<1>7. Kept(s)'
  BY <1>1, <1>3, <1>5, <1>6 DEF Kept
<1>8. QED
  BY <1>7 DEF NothingLost

\* A handshake is read from the wire and is none of the messages.
LEMMA ShakeKeeps ==
  ASSUME PeerTypeOK, NEW s \in Sides, NEW x \in {s, Opposite(s)}, ShakeHands(x),
         HandshakeOK(s), HandshakeOK(Opposite(s)), NothingLost(s)
  PROVE  NothingLost(s)'
<1> DEFINE o == Opposite(s)
<1>0. /\ o \in Sides /\ o # s /\ Opposite(o) = s /\ o[1] = s[1]
      /\ s[2] \in {"dialer", "acceptor"} /\ o[2] # s[2]
  BY SideFacts
<1>1. UNCHANGED <<accepted, delivered, queue, broken>>
  BY DEF ShakeHands
<1>2. CASE x = o
  <2>1. /\ call[o] = "handshake" /\ call'[o] = "answered" /\ wire[s] # <<>>
        /\ wire'[s] = Tail(wire[s])
    BY <1>0, <1>2 DEF ShakeHands, PeerTypeOK
  <2>2. Out(s)' = Out(s)
    BY <2>1 DEF Out
  <2>3. QED
    BY <1>1, <2>2, SameKept
<1>3. CASE x = s /\ s[2] = "dialer"
  <2>1. wire'[s] = wire[s] /\ call'[o] = call[o]
    BY <1>0, <1>3 DEF ShakeHands, PeerTypeOK
  <2>2. QED
    BY <1>1, <2>1, SameOut, SameKept
<1>4. CASE x = s /\ s[2] = "acceptor"
  <2>1. /\ call[s] = "handshake" /\ s[1] \notin broken /\ call'[o] = call[o]
        /\ wire'[s] = Append(wire[s], Hello(Owner(s)))
    BY <1>0, <1>4 DEF ShakeHands, PeerTypeOK
  <2>2. wire[s] = <<>> /\ call[o] = "handshake"
    BY <1>4, <2>1 DEF HandshakeOK
  <2>3. wire'[s] = <<Hello(Owner(s))>>
    BY <2>1, <2>2
  <2>4. wire'[s] # <<>> /\ Tail(wire'[s]) = <<>>
    BY <2>3
  <2>5. Out(s)' = Out(s)
    BY <2>1, <2>2, <2>4 DEF Out
  <2>6. QED
    BY <1>1, <2>5, SameKept
<1>5. QED
  BY <1>0, <1>2, <1>3, <1>4

LEMMA NothingLostKept ==
  ASSUME PeerTypeOK, \A s \in Sides : HandshakeOK(s) /\ NothingLost(s), NetNext, NEW t \in Sides
  PROVE  NothingLost(t)'
<1> DEFINE u == Opposite(t)
<1>0. /\ u \in Sides /\ u # t /\ Opposite(u) = t /\ u[1] = t[1]
      /\ HandshakeOK(t) /\ HandshakeOK(u) /\ NothingLost(t)
      /\ \A s \in Sides : Opposite(s) = t => s = u
  BY SideFacts
<1>1. ASSUME UNCHANGED <<call, queue, wire, broken, accepted, delivered>> PROVE NothingLost(t)'
  BY <1>0, <1>1, SameOut, SameKept
<1>2. ASSUME NEW s \in Sides, SideStep(s) PROVE NothingLost(t)'
  <2>1. CASE ShakeHands(s)
    <3>1. CASE s \in {t, u}
      BY <1>0, <2>1, <3>1, ShakeKeeps
    <3>2. CASE s \notin {t, u}
      <4>1. /\ UNCHANGED <<accepted, delivered, queue, broken>>
            /\ wire'[t] = wire[t] /\ call'[u] = call[u]
        BY <1>0, <2>1, <3>2, SideFacts DEF ShakeHands, PeerTypeOK
      <4>2. QED
        BY <1>0, <4>1, SameOut, SameKept
    <3>3. QED
      BY <3>1, <3>2
  <2>2. CASE HandshakeFails(s)
    <3>1. UNCHANGED <<accepted, delivered, queue, broken, wire>>
      BY <2>2 DEF HandshakeFails
    <3>2. Out(t)' = Out(t)
      <4>1. CASE s = u
        <5>1. wire[t] = <<>>
          BY <1>0, <2>2, <4>1 DEF HandshakeFails, Ended, HandshakeOK
        <5>2. QED
          BY <3>1, <5>1 DEF Out
      <4>2. CASE s # u
        BY <1>0, <2>2, <3>1, <4>2, SameOut DEF HandshakeFails, PeerTypeOK
      <4>3. QED
        BY <4>1, <4>2
    <3>3. QED
      BY <1>0, <3>1, <3>2, SameKept
  <2>3. CASE Insert(s)
    <3>1. UNCHANGED <<accepted, delivered, queue, broken, wire>> /\ call[s] = "insert"
      BY <2>3 DEF Insert
    <3>2. call'[u] = "handshake" <=> call[u] = "handshake"
      BY <1>0, <2>3 DEF Insert, PeerTypeOK
    <3>3. Out(t)' = Out(t)
      BY <3>1, <3>2 DEF Out
    <3>4. QED
      BY <1>0, <3>1, <3>3, SameKept
  <2>4. CASE ReadMessage(s)
    <3>1. CASE s = u
      BY <1>0, <2>4, <3>1, ReadMessageKeeps
    <3>2. CASE s # u
      <4>1. /\ UNCHANGED <<accepted, queue, broken, call>>
            /\ wire'[t] = wire[t] /\ delivered'[u] = delivered[u]
        BY <1>0, <2>4, <3>2, SideFacts DEF ReadMessage, PeerTypeOK
      <4>2. QED
        BY <1>0, <4>1, SameOut, SameKept
    <3>3. QED
      BY <3>1, <3>2
  <2>5. CASE ReadEnd(s) \/ RemovePeer(s)
    BY <1>1, <2>5 DEF ReadEnd, RemovePeer
  <2>6. CASE Write(s)
    <3>1. CASE s = t
      BY <1>0, <2>6, <3>1, WrittenKeeps
    <3>2. CASE s # t
      <4>1. /\ UNCHANGED <<accepted, delivered, broken, call>>
            /\ wire'[t] = wire[t] /\ queue'[t] = queue[t]
        BY <1>0, <2>6, <3>2 DEF Write, PeerTypeOK
      <4>2. QED
        BY <1>0, <4>1, SameOut, SameKept
    <3>3. QED
      BY <3>1, <3>2
  <2>7. CASE WriterEnds(s)
    <3>1. UNCHANGED <<accepted, delivered, broken, call, wire>>
      BY <2>7 DEF WriterEnds
    <3>2. CASE s = t /\ s[1] \in broken
      BY <1>0, <3>1, <3>2, BreakKeeps
    <3>3. CASE ~(s = t /\ s[1] \in broken)
      <4>1. queue'[t] = queue[t]
        BY <2>7, <3>3 DEF WriterEnds, PeerTypeOK
      <4>2. QED
        BY <1>0, <3>1, <4>1, SameOut, SameKept
    <3>4. QED
      BY <3>2, <3>3
  <2>8. CASE RequestLock(s)
    <3>1. UNCHANGED <<accepted, delivered, queue, broken, wire>> /\ call[s] = "answered"
      BY <2>8 DEF RequestLock
    <3>2. call'[u] = "handshake" <=> call[u] = "handshake"
      BY <1>0, <2>8 DEF RequestLock, PeerTypeOK
    <3>3. Out(t)' = Out(t)
      BY <3>1, <3>2 DEF Out
    <3>4. QED
      BY <1>0, <3>1, <3>3, SameKept
  <2>9. QED
    BY <1>2, <2>1, <2>2, <2>3, <2>4, <2>5, <2>6, <2>7, <2>8 DEF SideStep
<1>3. ASSUME NEW c \in Conns, Dial(c) PROVE NothingLost(t)'
  <2>1. UNCHANGED <<accepted, delivered, queue, broken>>
    BY <1>3 DEF Dial
  <2>2. <<c, "dialer">> \in Sides /\ <<c, "acceptor">> = Opposite(<<c, "dialer">>)
    BY DEF Sides, Opposite
  <2>3. CASE t[1] = c
    <3>1. \/ t = <<c, "dialer">> /\ u = <<c, "acceptor">>
          \/ t = <<c, "acceptor">> /\ u = <<c, "dialer">>
      BY <1>0, <2>2, <2>3, SideFacts
    <3>2. call[t] = "idle" /\ call[u] = "idle" /\ wire[t] = <<>>
      BY <1>0, <1>3, <3>1 DEF Dial, HandshakeOK
    <3>3. call'[u] = "handshake" /\ wire'[t] \in {<<>>, <<Hello(Dialer[c])>>}
      BY <1>0, <1>3, <2>2, <3>1, <3>2 DEF Dial, PeerTypeOK
    <3>4. Tail(<<Hello(Dialer[c])>>) = <<>>
      OBVIOUS
    <3>5. Out(t)' = Out(t)
      BY <3>2, <3>3, <3>4 DEF Out
    <3>6. QED
      BY <1>0, <2>1, <3>5, SameKept
  <2>4. CASE t[1] # c
    <3>1. wire'[t] = wire[t] /\ call'[u] = call[u]
      <4>1. /\ t # <<c, "dialer">> /\ u # <<c, "dialer">>
            /\ t # <<c, "acceptor">> /\ u # <<c, "acceptor">>
        BY <1>0, <2>4
      <4>2. QED
        BY <1>0, <1>3, <4>1 DEF Dial, PeerTypeOK
    <3>2. QED
      BY <1>0, <2>1, <3>1, SameOut, SameKept
  <2>5. QED
    BY <2>3, <2>4
<1>4. ASSUME NEW c \in Conns, Break(c) PROVE NothingLost(t)'
  <2>1. UNCHANGED <<accepted, delivered, queue, call>> /\ broken' = broken \cup {c}
    BY <1>4 DEF Break
  <2>2. CASE t[1] \in broken'
    BY <1>0, <2>1, <2>2, BreakKeeps
  <2>3. CASE t[1] \notin broken'
    <3>1. wire'[t] = wire[t] /\ t[1] \notin broken
      BY <1>4, <2>1, <2>3 DEF Break
    <3>2. Out(t)' = Out(t)
      BY <2>1, <3>1, SameOut
    <3>3. Kept(t)
      BY <1>0, <3>1 DEF NothingLost
    <3>4. Kept(t)'
      BY <2>1, <3>2, <3>3 DEF Kept
    <3>5. QED
      BY <3>4 DEF NothingLost
  <2>4. QED
    BY <2>2, <2>3
<1>5. ASSUME NEW n \in Nodes, NEW p \in Nodes, SendNext(n, p) PROVE NothingLost(t)'
  <2> DEFINE s == SideOf(n, peers[n][p])
  <2>1. UNCHANGED <<wire, call, delivered, broken>> /\ messages[n] \in Message
    BY <1>5 DEF SendNext, PeerTypeOK, Message
  <2>2. \/ UNCHANGED <<queue, accepted>>
        \/ /\ queue' = [queue EXCEPT ![s] = Append(@, messages[n])]
           /\ accepted' = [accepted EXCEPT ![s] = Append(@, messages[n])]
    BY <1>5 DEF SendNext
  <2> HIDE DEF s
  <2>3. \/ queue'[t] = queue[t] /\ accepted'[t] = accepted[t]
        \/ /\ queue'[t] = Append(queue[t], messages[n])
           /\ accepted'[t] = Append(accepted[t], messages[n])
    BY <2>2 DEF PeerTypeOK
  <2>4. QED
    BY <1>0, <2>1, <2>3, AcceptKeeps, SameOut, SameKept
<1>6. QED
  BY <1>1, <1>2, <1>3, <1>4, <1>5 DEF NetNext, SendStep, Finish, Listen, Broadcast, SendTo, Begin

-----------------------------------------------------------------------------
(* Every step keeps the readers of the entries.                            *)

LEMMA ReadersKept ==
  ASSUME PeerTypeOK, EntriesHaveReaders, \A s \in Sides : HandshakeOK(s) /\ EntryOK(s),
         NetNext
  PROVE  EntriesHaveReaders'
<1> SUFFICES ASSUME NEW c \in Conns
             PROVE  /\ peers'[Acceptor[c]][Dialer[c]] = c
                         => reader'[<<c, "acceptor">>] \in {"reading", "removing"}
                    /\ peers'[Dialer[c]][Acceptor[c]] = c /\ reader'[<<c, "dialer">>] = "done"
                         => c \in broken' \/ peers'[Acceptor[c]][Dialer[c]] # c
  BY DEF EntriesHaveReaders
<1> DEFINE d == <<c, "dialer">>
           a == <<c, "acceptor">>
<1>0. /\ d \in Sides /\ a \in Sides /\ Opposite(d) = a /\ Opposite(a) = d /\ d # a
      /\ d[1] = c /\ a[1] = c /\ d[2] = "dialer" /\ a[2] = "acceptor"
      /\ Owner(d) = Dialer[c] /\ Peer(d) = Acceptor[c]
      /\ Owner(a) = Acceptor[c] /\ Peer(a) = Dialer[c]
      /\ \A s \in Sides : s[1] = c => s \in {d, a}
  <2>1. d \in Sides /\ a \in Sides /\ Opposite(d) = a /\ Opposite(a) = d
    BY DEF Sides, Opposite
  <2>2. Owner(d) = Dialer[c] /\ Owner(a) = Acceptor[c]
    BY DEF Owner
  <2>3. QED
    BY <2>1, <2>2, SideFacts DEF Peer
<1>1. /\ HandshakeOK(d) /\ HandshakeOK(a) /\ EntryOK(d) /\ EntryOK(a)
      /\ Entered(d) <=> peers[Dialer[c]][Acceptor[c]] = c
      /\ Entered(a) <=> peers[Acceptor[c]][Dialer[c]] = c
      /\ Entered(d)' <=> peers'[Dialer[c]][Acceptor[c]] = c
      /\ Entered(a)' <=> peers'[Acceptor[c]][Dialer[c]] = c
  BY <1>0 DEF Entered
<1>2. /\ Entered(a) => reader[a] \in {"reading", "removing"}
      /\ Entered(d) /\ reader[d] = "done" => c \in broken \/ ~Entered(a)
  BY <1>1 DEF EntriesHaveReaders
<1> SUFFICES /\ Entered(a)' => reader'[a] \in {"reading", "removing"}
             /\ Entered(d)' /\ reader'[d] = "done" => c \in broken' \/ ~Entered(a)'
  BY <1>1
<1> HIDE DEF d, a
<1>3. ASSUME UNCHANGED <<peers, reader>>, broken \subseteq broken'
      PROVE  /\ Entered(a)' => reader'[a] \in {"reading", "removing"}
             /\ Entered(d)' /\ reader'[d] = "done" => c \in broken' \/ ~Entered(a)'
  BY <1>2, <1>3 DEF Entered
<1>4. ASSUME NEW s \in Sides, SideStep(s)
      PROVE  /\ Entered(a)' => reader'[a] \in {"reading", "removing"}
             /\ Entered(d)' /\ reader'[d] = "done" => c \in broken' \/ ~Entered(a)'
  <2>0. /\ s[1] \in Conns /\ s[1] # None /\ Owner(s) \in Nodes /\ Peer(s) \in Nodes
        /\ s \notin {a, d} => s[1] # c
        /\ Owner(a) # Owner(d) /\ Peer(a) # Peer(d)
    BY <1>0, SideFacts
  <2>1. CASE \/ HandshakeFails(s) \/ RequestLock(s) \/ ReadMessage(s) \/ Write(s)
             \/ WriterEnds(s)
    BY <1>3, <2>1 DEF HandshakeFails, RequestLock, ReadMessage, Write, WriterEnds
  <2>2. CASE ShakeHands(s)
    <3>1. UNCHANGED <<peers, broken>> /\ call[s] = "handshake"
      BY <2>2 DEF ShakeHands
    <3>2. /\ s # a => reader'[a] = reader[a]
          /\ reader'[d] \in {reader[d], "reading"}
      BY <1>0, <2>2 DEF ShakeHands, PeerTypeOK
    <3>3. s = a => ~Entered(a)
      BY <1>1, <3>1 DEF EntryOK
    <3>4. QED
      BY <1>2, <3>1, <3>2, <3>3 DEF Entered
  <2>3. CASE Insert(s)
    <3>1. broken' = broken /\ call[s] = "insert"
      BY <2>3 DEF Insert
    <3>2. ASSUME NEW x \in {a, d}
          PROVE  /\ s = x => Entered(x)'
                 /\ s # x => (Entered(x)' => Entered(x))
                 /\ s # x => reader'[x] = reader[x]
      <4>1. /\ x \in Sides /\ Owner(x) \in Nodes /\ Peer(x) \in Nodes /\ x[1] = c
            /\ s # x => Owner(s) # Owner(x) \/ s[1] # c
        BY <1>0, <2>0, SideFacts
      <4>2. QED
        BY <2>0, <2>3, <4>1 DEF Insert, PeerTypeOK, Entered
    <3>3. /\ s = a => reader'[a] = "reading"
          /\ s = d => reader'[d] = reader[d]
      BY <1>0, <2>3 DEF Insert, PeerTypeOK
    <3>4. reader[d] = "done" /\ c \notin broken => call[a] = "done" /\ ~Entered(a)
      BY <1>0, <1>1 DEF EntryOK
    <3>5. QED
      BY <1>0, <1>2, <3>1, <3>2, <3>3, <3>4
  <2>4. CASE ReadEnd(s)
    <3>1. UNCHANGED <<peers, broken>>
      BY <2>4 DEF ReadEnd
    <3>2. ASSUME NEW x \in {a, d} PROVE reader'[x] \in {reader[x], "removing"}
      BY <1>0, <2>4 DEF ReadEnd, PeerTypeOK
    <3>3. QED
      BY <1>2, <3>1, <3>2 DEF Entered
  <2>5. CASE RemovePeer(s)
    <3>1. broken' = broken
      BY <2>5 DEF RemovePeer
    <3>2. ASSUME NEW x \in {a, d}
          PROVE  /\ s = x => ~Entered(x)'
                 /\ Entered(x)' => Entered(x)
                 /\ s # x => reader'[x] = reader[x]
      <4>1. x \in Sides /\ Owner(x) \in Nodes /\ Peer(x) \in Nodes /\ x[1] = c /\ c # None
        BY <1>0, SideFacts
      <4>2. QED
        BY <2>0, <2>5, <4>1 DEF RemovePeer, PeerTypeOK, Entered
    <3>3. QED
      BY <1>2, <3>1, <3>2
  <2>6. QED
    BY <1>4, <2>1, <2>2, <2>3, <2>4, <2>5 DEF SideStep
<1>5. QED
  BY <1>3, <1>4 DEF NetNext, SendStep, SendNext, Finish, Listen, Broadcast, SendTo, Begin, Dial,
                    Break

-----------------------------------------------------------------------------

\* The network keeps its inductive invariant.
LEMMA PeersKept == PeerInv /\ [NetNext]_netVars => PeerInv'
<1> SUFFICES ASSUME PeerInv, [NetNext]_netVars PROVE PeerInv'
  OBVIOUS
<1>1. CASE NetNext
  <2>1. PeerTypeOK'
    BY <1>1, PeerTypes DEF PeerInv
  <2>2. \A s \in Sides : HandshakeOK(s)'
    BY <1>1, HandshakesKept DEF PeerInv
  <2>3. \A s \in Sides : EntryOK(s)'
    BY <1>1, EntriesKept DEF PeerInv
  <2>4. \A s \in Sides : NothingLost(s)'
    BY <1>1, NothingLostKept DEF PeerInv
  <2>5. EntriesHaveReaders'
    BY <1>1, ReadersKept DEF PeerInv
  <2>6. QED
    BY <2>1, <2>2, <2>3, <2>4, <2>5 DEF PeerInv
<1>2. CASE UNCHANGED netVars
  BY <1>2 DEF netVars, PeerInv, PeerTypeOK, HandshakeOK, EntryOK, Entered, NothingLost, Kept,
              Out, Delivered, EntriesHaveReaders
<1>3. QED
  BY <1>1, <1>2

-----------------------------------------------------------------------------
(* The node: each of its steps is one of the protocol or of the peers.     *)

LEMMA ProtocolInvHolds == NodeSpec => []ProtocolInv
<1>1. NodeInit => ProtocolInv
  BY InitInv DEF NodeInit
<1>2. ProtocolInv /\ [NodeNext]_<<netVars, protVars>> => ProtocolInv'
  BY NextInv DEF NodeNext
<1>3. QED
  BY <1>1, <1>2, PTL DEF NodeSpec

LEMMA PeerInvHolds == NodeSpec => []PeerInv
<1>1. NodeInit => PeerInv
  BY PeerInit DEF NodeInit
<1>2. PeerInv /\ [NodeNext]_<<netVars, protVars>> => PeerInv'
  BY PeersKept DEF NodeNext
<1>3. QED
  BY <1>1, <1>2, PTL DEF NodeSpec

\* Every variable of the protocol keeps its type (protocol.rs:131-144).
THEOREM ProtocolTypes == NodeSpec => []ProtocolTypeOK
<1>1. ProtocolInv => ProtocolTypeOK
  BY DEF ProtocolInv
<1>2. QED
  BY ProtocolInvHolds, <1>1, PTL

\* Each phase that counts different senders was reached with enough of them,
\* whatever arrives twice, late or from another round (protocol.rs:266-271,
\* 393-398).
THEOREM QuorumInRounds == NodeSpec => []RoundsHaveQuorum
<1>1. ProtocolInv => RoundsHaveQuorum
  BY DEF ProtocolInv
<1>2. QED
  BY ProtocolInvHolds, <1>1, PTL

\* What a queue accepts is delivered once and in order, and nothing is lost but
\* by a connection that broke: however connections cross, replace each other's
\* entries and end (network.rs:187-211, 350-380).
THEOREM MessagesArrive == NodeSpec => []NothingLostUnbroken
<1>1. PeerInv => NothingLostUnbroken
  BY DEF PeerInv, NothingLostUnbroken, NothingLost, Kept, Delivered, BeginsWith, Flow, Out
<1>2. QED
  BY PeerInvHolds, <1>1, PTL

\* The entry of an incoming connection has a reader that will remove it, and one
\* of a dialled connection lacks it only after the connection broke or lost its
\* entry on the other side (network.rs:197-221, 360-380).
THEOREM EntriesKeepReaders == NodeSpec => []EntriesHaveReaders
<1>1. PeerInv => EntriesHaveReaders
  BY DEF PeerInv
<1>2. QED
  BY PeerInvHolds, <1>1, PTL
=============================================================================
