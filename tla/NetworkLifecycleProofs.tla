----------------------- MODULE NetworkLifecycleProofs -----------------------
(***************************************************************************)
(* What NetworkLifecycle promises for every network size, every set of     *)
(* requests and every batch.  With any number of requests cut off half     *)
(* way: types, where the shares a handler holds come from, and what the    *)
(* ledger and signed_txs tables of a network say of a signing request.     *)
(* When clients run DKG and refresh alone and no request is cut off: the   *)
(* nodes always hold shares of the published key, and the server           *)
(* implements SigningService.                                              *)
(***************************************************************************)
EXTENDS LifecycleService, FiniteSetTheorems, TLAPS

-----------------------------------------------------------------------------
(* What the helper operators return. *)

\* A handler that starts, or has returned, holds well-typed locals.
LEMMA FrameType ==
  ASSUME NEW pc \in {"idle", "done", "failed"} \cup RekeyPcs
  PROVE  Frame(pc) \in [pc : Pcs, quorum : Seq(Nat), msgs : Seq(BOOLEAN),
                        next : Nat \ {0}, shares : [Nodes -> Share], epoch : Nat]
BY DEF Frame, Unread, Placeholder, Share, Pcs

\* DKG deals, and refresh produces, one share per node.
LEMMA SharesType ==
  ASSUME NEW r \in Requests, NEW shares \in [Nodes -> Share]
  PROVE  /\ DealtShares(r) \in [Nodes -> Share]
         /\ RefreshedShares(r, shares) \in [Nodes -> Share]
BY DEF DealtShares, RefreshedShares, Share

\* A transaction is made of shares that its handler read.
LEMMA TxType ==
  ASSUME TypeOK, NEW r \in Requests
  PROVE  Tx(r) \in Transaction
BY DEF TypeOK, Tx, Transaction, Members, Found

-----------------------------------------------------------------------------
(* Type correctness.  One step per action; in each, the request that moves *)
(* is the only one whose locals change.                                    *)

ReqType == [pc : Pcs, quorum : Seq(Nat), msgs : Seq(BOOLEAN),
            next : Nat \ {0}, shares : [Nodes -> Share], epoch : Nat]

\* The part of TypeOK that concerns request r alone.
ReqOK(q) ==
  /\ q \in ReqType
  /\ q.pc \in RekeyPcs => q.next \in Nodes
  /\ q.pc \in SignPcs => q.next \in DOMAIN q.msgs

\* A handler that goes on keeps everything it read.
LEMMA GoToFields ==
  ASSUME NEW f \in ReqType, NEW pc \in Pcs, NEW k \in Nat \ {0}
  PROVE  /\ GoTo(f, pc, k) \in ReqType
         /\ GoTo(f, pc, k).pc = pc /\ GoTo(f, pc, k).next = k
         /\ GoTo(f, pc, k).quorum = f.quorum
         /\ GoTo(f, pc, k).msgs = f.msgs
         /\ GoTo(f, pc, k).shares = f.shares
BY DEF ReqType, GoTo

\* A DKG or refresh handler that goes on to one of the nodes is well typed ...
LEMMA GoToNodeOK ==
  ASSUME NEW f \in ReqType, NEW pc \in RekeyPcs, NEW k \in Nodes
  PROVE  ReqOK(GoTo(f, pc, k))
<1>1. pc \in Pcs /\ k \in Nat \ {0} /\ pc \notin SignPcs
  BY DEF Pcs, Nodes, RekeyPcs, SignPcs
<1> QED
  BY <1>1, GoToFields DEF ReqOK

\* ... and so is a signing handler that goes on to one of its messages.
LEMMA GoToMessageOK ==
  ASSUME NEW f \in ReqType, NEW pc \in SignPcs, NEW k \in DOMAIN f.msgs
  PROVE  ReqOK(GoTo(f, pc, k))
<1>1. pc \in Pcs /\ pc \notin RekeyPcs
  BY DEF Pcs, RekeyPcs, SignPcs
<1>2. f.msgs \in Seq(BOOLEAN)
  BY DEF ReqType
<1>3. k \in Nat \ {0}
  BY <1>2
<1> QED
  BY <1>1, <1>3, GoToFields DEF ReqOK

\* A signing handler that has accepted its request stands at the first message.
LEMMA AcceptedFields ==
  ASSUME NEW q \in Seq(Nat), NEW m \in Seq(BOOLEAN)
  PROVE  /\ Accepted(q, m) \in ReqType
         /\ Accepted(q, m).pc = "sign_nodes" /\ Accepted(q, m).next = 1
         /\ Accepted(q, m).quorum = q /\ Accepted(q, m).msgs = m
<1>1. Frame("sign_nodes") \in ReqType
  BY DEF Frame, Unread, Placeholder, Share, ReqType, Pcs, SignPcs
<1> QED
  BY <1>1 DEF ReqType, Frame, Accepted

\* A locals record that has just been initialised, or returned.
LEMMA FrameOK ==
  ASSUME NEW pc \in {"idle", "done", "failed", "dkg_nodes", "refresh_nodes"}
  PROVE  ReqOK(Frame(pc))
<1>1. 1 \in Nodes
  BY SizeAssumption DEF Nodes
<1>2. Frame(pc) \in ReqType
  BY FrameType DEF ReqType, RekeyPcs
<1> QED
  BY <1>1, <1>2 DEF ReqOK, Frame, RekeyPcs, SignPcs

\* Changing the locals of one request keeps those of the others well typed.
LEMMA SetOK ==
  ASSUME TypeOK, NEW r \in Requests, NEW q, ReqOK(q), Set(r, q)
  PROVE  /\ req' \in [Requests -> ReqType]
         /\ \A s \in Requests : ReqOK(req[s])'
BY DEF TypeOK, ReqOK, Set, ReqType

\* Truncating n never makes the loop run over more ids than there are nodes.
LEMMA NoMoreRowsThanNodes == RowsToInsert \in 0..N
BY SizeAssumption DEF RowsToInsert

\* The tables of every network hold what their columns say, and every handler
\* stays inside its loops (the handlers of network.rs, dkg.rs, refresh.rs,
\* signing.rs and batch.rs, over db.rs:293-510).
THEOREM TypeCorrect == Spec => []TypeOK
<1>1. Init => TypeOK
  <2> SUFFICES ASSUME Init PROVE TypeOK
    OBVIOUS
  <2>1. \A r \in Requests : ReqOK(req[r])
    BY FrameOK DEF Init
  <2>2. secret \in [Nodes -> Share]
    BY DEF Init, Unread, Placeholder, Share
  <2> QED
    BY <2>1, <2>2, SizeAssumption, InputAssumption
    DEF Init, TypeOK, ReqOK, ReqType
<1>2. TypeOK /\ [Next]_vars => TypeOK'
  <2> SUFFICES ASSUME TypeOK, [Next]_vars PROVE TypeOK'
    OBVIOUS
  <2> USE SizeAssumption, InputAssumption, NoneAssumption
  <2> DEFINE Rest == /\ secret' \in [Nodes -> Share]
                     /\ net' \in [state : {"absent", "created", "dkg_complete"},
                                  pk : Requests \cup {None}]
                     /\ net'.state = "dkg_complete" <=> net'.pk # None
                     /\ rows' \in 0..N
                     /\ epoch' \in [Nodes -> Nat]
                     /\ ledger' \subseteq Transaction /\ signedTxs' \subseteq Transaction
                     /\ creator' \in {"idle", "nodes", "done", "failed"}
                     /\ aborts' \in 0..MaxAborts
  <2>0. ASSUME NEW r \in Requests, NEW q, ReqOK(q), Set(r, q), Rest
        PROVE  TypeOK'
    BY <2>0, SetOK DEF TypeOK, ReqOK, ReqType
  <2>1. CASE Create \/ AbortCreate
    <3>1. CASE InsertNetwork
      <4>1. creator = "idle" /\ net' = [state |-> "created", pk |-> None]
        BY <3>1 DEF InsertNetwork
      <4> QED
        BY <3>1, <4>1 DEF InsertNetwork, TypeOK
    <3>2. CASE InsertNode
      <4>1. Placeholder \in Share /\ rows + 1 \in Nodes
        BY <3>2, NoMoreRowsThanNodes DEF InsertNode, TypeOK, Nodes, Placeholder, Share
      <4>2. secret' \in [Nodes -> Share] /\ epoch' \in [Nodes -> Nat] /\ rows' \in 0..N
        BY <3>2, <4>1 DEF InsertNode, TypeOK, Nodes
      <4> QED
        BY <3>2, <4>2 DEF InsertNode, TypeOK
    <3>3. CASE FinishCreate
      BY <3>3 DEF FinishCreate, db, TypeOK
    <3>4. CASE AbortCreate
      BY <3>4 DEF AbortCreate, db, TypeOK
    <3> QED
      BY <2>1, <3>1, <3>2, <3>3, <3>4 DEF Create
  <2>2. ASSUME NEW r \in Requests, Abort(r)
        PROVE  TypeOK'
    <3>1. Rest
      BY <2>2 DEF Abort, db, TypeOK
    <3> QED
      BY <2>0, <2>2, <3>1, FrameOK DEF Abort, Fail
  <2>3. ASSUME NEW r \in Requests, Dkg(r)
        PROVE  TypeOK'
    <3>1. CASE DkgReadNetwork(r)
      <4>1. Rest
        BY <3>1 DEF DkgReadNetwork, db, TypeOK
      <4> QED
        BY <2>0, <3>1, <4>1, FrameOK DEF DkgReadNetwork, Fail
    <3>2. CASE DkgReadNodes(r)
      <4>1. Rest
        BY <3>2 DEF DkgReadNodes, db, TypeOK
      <4>2. [Frame("dkg_write") EXCEPT !.shares = DealtShares(r)] \in ReqType
        <5>1. "dkg_write" \in {"idle", "done", "failed"} \cup RekeyPcs
          BY DEF RekeyPcs
        <5>2. Frame("dkg_write") \in ReqType
          BY <5>1, FrameType DEF ReqType
        <5>3. DealtShares(r) \in [Nodes -> Share]
          BY SharesType DEF TypeOK
        <5> QED
          BY <5>2, <5>3 DEF ReqType
      <4>3. ReqOK([Frame("dkg_write") EXCEPT !.shares = DealtShares(r)])
        BY <4>2 DEF ReqOK, Frame, RekeyPcs, SignPcs, Nodes
      <4> QED
        BY <2>0, <3>2, <4>1, <4>3, FrameOK DEF DkgReadNodes, Fail
    <3>3. CASE DkgWriteShare(r)
      <4>1. Rest
        BY <3>3 DEF DkgWriteShare, TypeOK, RekeyPcs
      <4>2. req[r] \in ReqType /\ req[r].next \in Nodes
        BY <3>3 DEF DkgWriteShare, TypeOK, ReqType, RekeyPcs
      <4>3. 1 \in Nodes /\ (req[r].next # N => req[r].next + 1 \in Nodes)
        BY <4>2 DEF Nodes
      <4>4. ReqOK(GoTo(req[r], "dkg_publish", 1))
        BY <4>2, <4>3, GoToNodeOK DEF RekeyPcs
      <4>5. req[r].next # N => ReqOK(GoTo(req[r], "dkg_write", req[r].next + 1))
        BY <4>2, <4>3, GoToNodeOK DEF RekeyPcs
      <4> QED
        BY <2>0, <3>3, <4>1, <4>4, <4>5 DEF DkgWriteShare
    <3>4. CASE DkgPublish(r)
      <4>1. Rest
        BY <3>4 DEF DkgPublish, TypeOK
      <4> QED
        BY <2>0, <3>4, <4>1, FrameOK DEF DkgPublish, Return
    <3> QED
      BY <2>3, <3>1, <3>2, <3>3, <3>4 DEF Dkg
  <2>4. ASSUME NEW r \in Requests, Refresh(r)
        PROVE  TypeOK'
    <3>1. CASE RefreshReadNetwork(r)
      <4>1. Rest
        BY <3>1 DEF RefreshReadNetwork, db, TypeOK
      <4> QED
        BY <2>0, <3>1, <4>1, FrameOK DEF RefreshReadNetwork, Fail
    <3>2. CASE RefreshReadNodes(r)
      <4> DEFINE q == [Frame("refresh_secret") EXCEPT
                         !.shares = RefreshedShares(r, secret), !.epoch = epoch[1] + 1]
      <4>1. Rest
        BY <3>2 DEF RefreshReadNodes, db, TypeOK
      <4>2. epoch[1] + 1 \in Nat /\ RefreshedShares(r, secret) \in [Nodes -> Share]
        BY SharesType DEF TypeOK, Nodes
      <4>3. q \in ReqType
        BY <4>2, FrameType DEF ReqType, RekeyPcs
      <4>4. ReqOK(q)
        BY <4>3 DEF ReqOK, Frame, RekeyPcs, SignPcs, Nodes
      <4> QED
        BY <2>0, <3>2, <4>1, <4>4, FrameOK DEF RefreshReadNodes, Fail
    <3>3. CASE RefreshWriteShare(r)
      <4>1. Rest
        BY <3>3 DEF RefreshWriteShare, TypeOK, RekeyPcs
      <4>2. req[r] \in ReqType /\ req[r].next \in Nodes
        BY <3>3 DEF RefreshWriteShare, TypeOK, ReqType, RekeyPcs
      <4>3. ReqOK(GoTo(req[r], "refresh_epoch", req[r].next))
        BY <4>2, GoToNodeOK DEF RekeyPcs
      <4> QED
        BY <2>0, <3>3, <4>1, <4>3 DEF RefreshWriteShare
    <3>4. CASE RefreshWriteEpoch(r)
      <4>1. Rest
        BY <3>4 DEF RefreshWriteEpoch, TypeOK, RekeyPcs
      <4>2. req[r] \in ReqType /\ req[r].next \in Nodes
        BY <3>4 DEF RefreshWriteEpoch, TypeOK, ReqType, RekeyPcs
      <4>3. req[r].next # N => req[r].next + 1 \in Nodes
        BY <4>2 DEF Nodes
      <4>4. req[r].next # N => ReqOK(GoTo(req[r], "refresh_secret", req[r].next + 1))
        BY <4>2, <4>3, GoToNodeOK DEF RekeyPcs
      <4> QED
        BY <2>0, <3>4, <4>1, <4>4, FrameOK DEF RefreshWriteEpoch, Return
    <3> QED
      BY <2>4, <3>1, <3>2, <3>3, <3>4 DEF Refresh
  <2>5. ASSUME NEW r \in Requests, Sign(r)
        PROVE  TypeOK'
    <3>1. ASSUME NEW q \in Quorums, NEW decodes \in BOOLEAN, SignReadNetwork(r, q, decodes)
          PROVE  TypeOK'
      <4>1. Rest
        BY <3>1 DEF SignReadNetwork, db, TypeOK
      <4>2. q \in Seq(Nat) /\ <<TRUE>> \in Seq(BOOLEAN) /\ 1 \in DOMAIN <<TRUE>>
        OBVIOUS
      <4>3. ReqOK(Accepted(q, <<TRUE>>))
        BY <4>2, AcceptedFields DEF ReqOK, RekeyPcs, SignPcs
      <4> QED
        BY <2>0, <3>1, <4>1, <4>3, FrameOK DEF SignReadNetwork, Fail
    <3>2. ASSUME NEW q \in Quorums, NEW msgs \in Batches, BatchReadNetwork(r, q, msgs)
          PROVE  TypeOK'
      <4>1. Rest
        BY <3>2 DEF BatchReadNetwork, db, TypeOK
      <4>2. q \in Seq(Nat) /\ msgs \in Seq(BOOLEAN)
        OBVIOUS
      <4>3. Len(msgs) \in 1..MaxBatch => 1 \in DOMAIN msgs
        BY <4>2
      <4>4. Len(msgs) \in 1..MaxBatch => ReqOK(Accepted(q, msgs))
        BY <4>2, <4>3, AcceptedFields DEF ReqOK, RekeyPcs, SignPcs
      <4> QED
        BY <2>0, <3>2, <4>1, <4>4, FrameOK DEF BatchReadNetwork, Fail
    <3>3. CASE SignReadNodes(r)
      <4>1. Rest
        BY <3>3 DEF SignReadNodes, db, TypeOK
      <4>2. ReqOK([req[r] EXCEPT !.pc = "sign_ledger", !.shares = secret])
        BY <3>3 DEF SignReadNodes, TypeOK, ReqOK, ReqType, RekeyPcs, SignPcs, Pcs
      <4> QED
        BY <2>0, <3>3, <4>1, <4>2, FrameOK DEF SignReadNodes, Fail
    <3>4. CASE StoreLedgerEntry(r)
      <4>1. Rest
        BY <3>4, TxType DEF StoreLedgerEntry, TypeOK
      <4>2. req[r] \in ReqType /\ req[r].next \in DOMAIN req[r].msgs
        BY <3>4 DEF StoreLedgerEntry, TypeOK, ReqType, SignPcs
      <4>3. ReqOK(GoTo(req[r], "sign_tx", req[r].next))
        BY <4>2, GoToMessageOK DEF SignPcs
      <4> QED
        BY <2>0, <3>4, <4>1, <4>3 DEF StoreLedgerEntry
    <3>5. CASE RejectMessage(r)
      <4>1. Rest
        BY <3>5 DEF RejectMessage, db, TypeOK
      <4> QED
        BY <2>0, <3>5, <4>1, FrameOK DEF RejectMessage, Fail
    <3>6. CASE StoreSignedTx(r)
      <4>1. Rest
        BY <3>6, TxType DEF StoreSignedTx, TypeOK
      <4>2. req[r] \in ReqType /\ req[r].next \in DOMAIN req[r].msgs
        BY <3>6 DEF StoreSignedTx, TypeOK, ReqType, SignPcs
      <4>3. req[r].msgs \in Seq(BOOLEAN) /\ req[r].next \in Nat \ {0}
        BY <4>2 DEF ReqType
      <4>4. req[r].next # Len(req[r].msgs) => req[r].next + 1 \in DOMAIN req[r].msgs
        BY <4>2, <4>3
      <4>5. req[r].next # Len(req[r].msgs)
              => ReqOK(GoTo(req[r], "sign_ledger", req[r].next + 1))
        BY <4>2, <4>4, GoToMessageOK DEF SignPcs
      <4> QED
        BY <2>0, <3>6, <4>1, <4>5, FrameOK DEF StoreSignedTx, Return
    <3> QED
      BY <2>5, <3>1, <3>2, <3>3, <3>4, <3>5, <3>6 DEF Sign
  <2>6. CASE UNCHANGED vars
    BY <2>6 DEF vars, TypeOK
  <2> QED
    BY <2>1, <2>2, <2>3, <2>4, <2>5, <2>6 DEF Next, Quiet
<1> QED
  BY <1>1, <1>2, PTL DEF Spec

-----------------------------------------------------------------------------
(* What may be on the ledger.  First, facts about one step. *)

\* Only the request that moves has new locals.
LEMMA SetOthers ==
  ASSUME TypeOK, NEW r \in Requests, NEW f, Set(r, f)
  PROVE  req'[r] = f /\ \A s \in Requests \ {r} : req'[s] = req[s]
BY DEF TypeOK, Set

\* The locals of a handler that starts or returns.
LEMMA FrameFields ==
  ASSUME NEW pc
  PROVE  Frame(pc).pc = pc /\ Frame(pc).next = 1 /\ Frame(pc).msgs = <<>>
BY DEF Frame

\* A handler that goes on is still one of a network's, and reads nothing new.
LEMMA GoToReq ==
  ASSUME TypeOK, NEW r \in Requests, NEW pc \in Pcs, NEW k \in Nat \ {0}
  PROVE  /\ GoTo(req[r], pc, k).pc = pc /\ GoTo(req[r], pc, k).next = k
         /\ GoTo(req[r], pc, k).quorum = req[r].quorum
         /\ GoTo(req[r], pc, k).msgs = req[r].msgs
         /\ GoTo(req[r], pc, k).shares = req[r].shares
<1>1. req[r] \in ReqType
  BY DEF TypeOK, ReqType
<1> QED
  BY <1>1, GoToFields

\* Writing a dealt share over any node leaves the dealt shares dealt.
LEMMA WriteDealt ==
  ASSUME TypeOK, NEW k \in Nodes, NEW s \in Share, s.gen # None,
         secret' = [secret EXCEPT ![k] = s]
  PROVE  /\ secret'[k].gen # None
         /\ \A i \in Nodes : secret[i].gen # None => secret'[i].gen # None
BY DEF TypeOK

\* DKG deals dealt shares, and refresh keeps them so.
LEMMA DealtKept ==
  ASSUME NEW r \in Requests, NEW shares \in [Nodes -> Share]
  PROVE  /\ Dealt(DealtShares(r))
         /\ Dealt(shares) => Dealt(RefreshedShares(r, shares))
<1>1. Dealt(DealtShares(r))
  BY NoneAssumption DEF Dealt, DealtShares
<1>2. ASSUME Dealt(shares), NEW i \in Nodes
      PROVE  RefreshedShares(r, shares)[i].gen # None
  BY <1>2 DEF Dealt, RefreshedShares, Share
<1> QED
  BY <1>1, <1>2 DEF Dealt

-----------------------------------------------------------------------------
(* Placeholders never sign.  SharesDealt is inductive given TypeOK.        *)

\* The part of SharesDealt that concerns the locals f of one request.
FrameDealt(f) ==
  /\ f.pc = "dkg_write" =>
       /\ rows = N /\ Dealt(f.shares)
       /\ \A i \in 1..(f.next - 1) : secret[i].gen # None
  /\ f.pc = "dkg_publish" => rows = N /\ Dealt(secret)
  /\ f.pc \in {"refresh_nodes", "refresh_secret", "refresh_epoch"} \cup SignPcs
       => net.state = "dkg_complete"
  /\ f.pc \in {"refresh_secret", "refresh_epoch", "sign_ledger", "sign_tx"}
       => Dealt(f.shares)

\* Nothing the other requests rely on is undone: rows stay, the network stays
\* complete, a dealt share stays dealt.
Kept ==
  /\ rows = N => rows' = N
  /\ net.state = "dkg_complete" => net'.state = "dkg_complete"
  /\ \A i \in Nodes : secret[i].gen # None => secret'[i].gen # None

\* The other requests and the tables, when a step keeps what was dealt.
LEMMA KeptDealt ==
  ASSUME TypeOK, SharesDealt, Kept, NEW r \in Requests, NEW f, Set(r, f),
         FrameDealt(req[r])'
  PROVE  \A s \in Requests : FrameDealt(req[s])'
<1> SUFFICES ASSUME NEW s \in Requests, s # r PROVE FrameDealt(req[s])'
  OBVIOUS
<1>1. req'[s] = req[s]
  BY SetOthers
<1>2. FrameDealt(req[s])
  BY DEF SharesDealt, FrameDealt
<1>3. Dealt(secret) => Dealt(secret')
  BY DEF Kept, Dealt
<1>4. ASSUME req[s].pc = "dkg_write", NEW i \in 1..(req[s].next - 1)
      PROVE  secret'[i].gen # None
  <2>1. req[s].next \in 1..N
    BY <1>4 DEF TypeOK, RekeyPcs, Nodes
  <2>2. i \in Nodes
    BY <2>1, SizeAssumption DEF Nodes
  <2> QED
    BY <1>2, <1>4, <2>2 DEF FrameDealt, Kept
<1> QED
  BY <1>1, <1>2, <1>3, <1>4 DEF FrameDealt, Kept, Dealt

\* One step of any request, or of create_network, keeps SharesDealt.
LEMMA DealtStep ==
  ASSUME TypeOK, SharesDealt, [Next]_vars
  PROVE  SharesDealt'
<1> USE SizeAssumption, NoneAssumption
<1> DEFINE Tables == /\ creator' = "idle" => net'.state = "absent" /\ rows' = 0
                     /\ net'.state = "dkg_complete" => rows' = N /\ Dealt(secret')
                     /\ PlaceholderNeverSigns'
<1>0. ASSUME NEW r \in Requests, NEW f, Set(r, f), Kept, Tables, FrameDealt(req[r])'
      PROVE  SharesDealt'
  <2>1. \A s \in Requests : FrameDealt(req[s])'
    BY <1>0, KeptDealt
  <2> QED
    BY <1>0, <2>1 DEF SharesDealt, FrameDealt
<1>1. ASSUME UNCHANGED <<net, rows, secret, ledger, creator>>
      PROVE  Kept /\ Tables
  BY <1>1 DEF Kept, SharesDealt, PlaceholderNeverSigns, Dealt
<1>2. ASSUME NEW r \in Requests, NEW pc \in {"idle", "done", "failed", "dkg_nodes"},
             Set(r, Frame(pc))
      PROVE  FrameDealt(req[r])'
  <2>1. req'[r].pc = pc
    BY <1>2, SetOthers, FrameFields
  <2> QED
    BY <1>2, <2>1 DEF FrameDealt, SignPcs
<1>3. CASE Create \/ AbortCreate
  <2>1. CASE InsertNetwork
    BY <2>1 DEF InsertNetwork, SharesDealt, PlaceholderNeverSigns, SignPcs, Dealt
  <2>2. CASE InsertNode
    <3>1. rows < N
      BY <2>2, NoMoreRowsThanNodes DEF InsertNode, TypeOK
    <3> QED
      BY <2>2, <3>1 DEF InsertNode, SharesDealt, PlaceholderNeverSigns, SignPcs, Dealt
  <2>3. CASE FinishCreate
    BY <2>3 DEF FinishCreate, db, SharesDealt, PlaceholderNeverSigns, Dealt
  <2>4. CASE AbortCreate
    BY <2>4 DEF AbortCreate, db, SharesDealt, PlaceholderNeverSigns, Dealt
  <2> QED
    BY <1>3, <2>1, <2>2, <2>3, <2>4 DEF Create
<1>4. ASSUME NEW r \in Requests, Abort(r)
      PROVE  SharesDealt'
  <2>1. Set(r, Frame("failed"))
    BY <1>4 DEF Abort, Fail
  <2> QED
    BY <1>0, <1>1, <1>2, <1>4, <2>1 DEF Abort, db
<1>5. ASSUME NEW r \in Requests, Dkg(r)
      PROVE  SharesDealt'
  <2>1. CASE DkgReadNetwork(r)
    <3>1. \E pc \in {"dkg_nodes", "failed"} : Set(r, Frame(pc))
      BY <2>1 DEF DkgReadNetwork, Fail
    <3> QED
      BY <1>0, <1>1, <1>2, <2>1, <3>1 DEF DkgReadNetwork, db
  <2>2. CASE DkgReadNodes(r)
    <3>1. CASE rows # N
      BY <1>0, <1>1, <1>2, <2>2, <3>1 DEF DkgReadNodes, db, Fail
    <3>2. CASE rows = N
      <4> DEFINE f == [Frame("dkg_write") EXCEPT !.shares = DealtShares(r)]
      <4>1. Set(r, f) /\ UNCHANGED <<net, rows, secret, ledger, creator>>
        BY <2>2, <3>2 DEF DkgReadNodes, db
      <4>2. f.pc = "dkg_write" /\ f.next = 1 /\ f.shares = DealtShares(r)
        BY DEF Frame
      <4>3. Dealt(DealtShares(r))
        BY DealtKept DEF TypeOK
      <4>4. req'[r] = f
        BY <4>1, SetOthers
      <4>5. FrameDealt(req[r])'
        BY <3>2, <4>1, <4>2, <4>3, <4>4 DEF FrameDealt, SignPcs, Dealt
      <4> HIDE DEF f
      <4> QED
        BY <1>0, <1>1, <4>1, <4>5
    <3> QED
      BY <3>1, <3>2
  <2>3. CASE DkgWriteShare(r)
    <3>1. /\ req[r] \in ReqType /\ req[r].pc = "dkg_write" /\ req[r].next \in Nodes
          /\ rows = N /\ Dealt(req[r].shares)
          /\ \A i \in 1..(req[r].next - 1) : secret[i].gen # None
      BY <2>3 DEF DkgWriteShare, TypeOK, SharesDealt, ReqType, RekeyPcs
    <3>2. req[r].shares[req[r].next] \in Share /\ req[r].shares[req[r].next].gen # None
      BY <3>1 DEF ReqType, Dealt
    <3>3. /\ secret'[req[r].next].gen # None
          /\ \A i \in Nodes : secret[i].gen # None => secret'[i].gen # None
      BY <2>3, <3>1, <3>2, WriteDealt DEF DkgWriteShare
    <3>4. Kept /\ Tables
      BY <2>3, <3>3 DEF DkgWriteShare, Kept, SharesDealt, PlaceholderNeverSigns, Dealt
    <3>5. \A i \in 1..req[r].next : secret'[i].gen # None
      <4>1. \A i \in 1..(req[r].next - 1) : i \in Nodes
        BY <3>1 DEF Nodes
      <4>2. \A i \in 1..req[r].next : i = req[r].next \/ i \in 1..(req[r].next - 1)
        BY <3>1 DEF Nodes
      <4> QED
        BY <3>1, <3>3, <4>1, <4>2
    <3>6. CASE req[r].next = N
      <4> DEFINE f == GoTo(req[r], "dkg_publish", 1)
      <4>1. Set(r, f) /\ rows' = rows
        BY <2>3, <3>6 DEF DkgWriteShare
      <4>2. f.pc = "dkg_publish"
        BY GoToReq DEF Pcs, RekeyPcs
      <4>3. Dealt(secret')
        BY <3>5, <3>6 DEF Dealt, Nodes
      <4>4. req'[r] = f
        BY <4>1, SetOthers
      <4>5. FrameDealt(req[r])'
        BY <3>1, <4>1, <4>2, <4>3, <4>4 DEF FrameDealt, SignPcs, Dealt
      <4> HIDE DEF f
      <4> QED
        BY <1>0, <3>4, <4>1, <4>5
    <3>7. CASE req[r].next # N
      <4> DEFINE f == GoTo(req[r], "dkg_write", req[r].next + 1)
      <4>1. Set(r, f) /\ rows' = rows
        BY <2>3, <3>7 DEF DkgWriteShare
      <4>2. "dkg_write" \in Pcs /\ req[r].next + 1 \in Nat \ {0}
        BY <3>1 DEF Pcs, RekeyPcs, Nodes
      <4>3. f.pc = "dkg_write" /\ f.next = req[r].next + 1 /\ f.shares = req[r].shares
        BY <4>2, GoToReq
      <4>4. req'[r] = f
        BY <4>1, SetOthers
      <4>5. (req[r].next + 1) - 1 = req[r].next
        BY <3>1 DEF Nodes
      <4>6. FrameDealt(req[r])'
        BY <3>1, <3>5, <4>1, <4>3, <4>4, <4>5 DEF FrameDealt, SignPcs, Dealt
      <4> HIDE DEF f
      <4> QED
        BY <1>0, <3>4, <4>1, <4>6
    <3> QED
      BY <3>6, <3>7
  <2>4. CASE DkgPublish(r)
    <3>1. Set(r, Frame("done")) /\ rows = N /\ Dealt(secret)
      BY <2>4 DEF DkgPublish, Return, SharesDealt
    <3>2. Kept /\ Tables
      BY <2>4, <3>1 DEF DkgPublish, Kept, SharesDealt, PlaceholderNeverSigns, Dealt
    <3> QED
      BY <1>0, <1>2, <3>1, <3>2
  <2> QED
    BY <1>5, <2>1, <2>2, <2>3, <2>4 DEF Dkg
<1>6. ASSUME NEW r \in Requests, Refresh(r)
      PROVE  SharesDealt'
  <2>1. CASE RefreshReadNetwork(r)
    <3>1. CASE net.state = "dkg_complete"
      <4>1. Set(r, Frame("refresh_nodes")) /\ UNCHANGED <<net, rows, secret, ledger, creator>>
        BY <2>1, <3>1 DEF RefreshReadNetwork, db
      <4>2. req'[r].pc = "refresh_nodes"
        BY <4>1, SetOthers, FrameFields
      <4>3. FrameDealt(req[r])'
        BY <3>1, <4>1, <4>2 DEF FrameDealt
      <4> QED
        BY <1>0, <1>1, <4>1, <4>3
    <3>2. CASE net.state # "dkg_complete"
      BY <1>0, <1>1, <1>2, <2>1, <3>2 DEF RefreshReadNetwork, db, Fail
    <3> QED
      BY <3>1, <3>2
  <2>2. CASE RefreshReadNodes(r)
    <3>1. CASE rows # N
      BY <1>0, <1>1, <1>2, <2>2, <3>1 DEF RefreshReadNodes, db, Fail
    <3>2. CASE rows = N
      <4> DEFINE f == [Frame("refresh_secret") EXCEPT
                         !.shares = RefreshedShares(r, secret), !.epoch = epoch[1] + 1]
      <4>1. Set(r, f) /\ UNCHANGED <<net, rows, secret, ledger, creator>>
        BY <2>2, <3>2 DEF RefreshReadNodes, db
      <4>2. f.pc = "refresh_secret" /\ f.shares = RefreshedShares(r, secret)
        BY DEF Frame
      <4>3. net.state = "dkg_complete" /\ Dealt(secret)
        BY <2>2 DEF RefreshReadNodes, SharesDealt
      <4>4. Dealt(RefreshedShares(r, secret))
        BY <4>3, DealtKept DEF TypeOK
      <4>5. req'[r] = f
        BY <4>1, SetOthers
      <4>6. FrameDealt(req[r])'
        BY <4>1, <4>2, <4>3, <4>4, <4>5 DEF FrameDealt, SignPcs, Dealt
      <4> HIDE DEF f
      <4> QED
        BY <1>0, <1>1, <4>1, <4>6
    <3> QED
      BY <3>1, <3>2
  <2>3. CASE RefreshWriteShare(r)
    <3>1. /\ req[r] \in ReqType /\ req[r].next \in Nodes
          /\ net.state = "dkg_complete" /\ Dealt(req[r].shares)
      BY <2>3 DEF RefreshWriteShare, TypeOK, SharesDealt, ReqType, RekeyPcs
    <3>2. req[r].shares[req[r].next] \in Share /\ req[r].shares[req[r].next].gen # None
      BY <3>1 DEF ReqType, Dealt
    <3>3. \A i \in Nodes : secret[i].gen # None => secret'[i].gen # None
      BY <2>3, <3>1, <3>2, WriteDealt DEF RefreshWriteShare
    <3>4. Kept /\ Tables
      BY <2>3, <3>3 DEF RefreshWriteShare, Kept, SharesDealt, PlaceholderNeverSigns, Dealt
    <3> DEFINE f == GoTo(req[r], "refresh_epoch", req[r].next)
    <3>5. Set(r, f) /\ net' = net
      BY <2>3 DEF RefreshWriteShare
    <3>6. f.pc = "refresh_epoch" /\ f.shares = req[r].shares
      BY <3>1, GoToReq DEF Pcs, RekeyPcs, Nodes
    <3>7. req'[r] = f
      BY <3>5, SetOthers
    <3>8. FrameDealt(req[r])'
      BY <3>1, <3>5, <3>6, <3>7 DEF FrameDealt, SignPcs, Dealt
    <3> HIDE DEF f
    <3> QED
      BY <1>0, <3>4, <3>5, <3>8
  <2>4. CASE RefreshWriteEpoch(r)
    <3>1. /\ req[r].next \in Nodes
          /\ net.state = "dkg_complete" /\ Dealt(req[r].shares)
      BY <2>4 DEF RefreshWriteEpoch, TypeOK, SharesDealt, RekeyPcs
    <3>2. Kept /\ Tables
      BY <1>1, <2>4 DEF RefreshWriteEpoch
    <3>3. CASE req[r].next = N
      BY <1>0, <1>2, <2>4, <3>2, <3>3 DEF RefreshWriteEpoch, Return
    <3>4. CASE req[r].next # N
      <4> DEFINE f == GoTo(req[r], "refresh_secret", req[r].next + 1)
      <4>1. Set(r, f) /\ net' = net
        BY <2>4, <3>4 DEF RefreshWriteEpoch
      <4>2. "refresh_secret" \in Pcs /\ req[r].next + 1 \in Nat \ {0}
        BY <3>1 DEF Pcs, RekeyPcs, Nodes
      <4>3. f.pc = "refresh_secret" /\ f.shares = req[r].shares
        BY <4>2, GoToReq
      <4>4. req'[r] = f
        BY <4>1, SetOthers
      <4>5. FrameDealt(req[r])'
        BY <3>1, <4>1, <4>3, <4>4 DEF FrameDealt, SignPcs, Dealt
      <4> HIDE DEF f
      <4> QED
        BY <1>0, <3>2, <4>1, <4>5
    <3> QED
      BY <3>3, <3>4
  <2> QED
    BY <1>6, <2>1, <2>2, <2>3, <2>4 DEF Refresh
<1>7. ASSUME NEW r \in Requests, Sign(r)
      PROVE  SharesDealt'
  <2>0. ASSUME NEW q \in Seq(Nat), NEW m \in Seq(BOOLEAN), net.state = "dkg_complete",
               Set(r, Accepted(q, m)), UNCHANGED <<net, rows, secret, ledger, creator>>
        PROVE  SharesDealt'
    <3>1. Accepted(q, m).pc = "sign_nodes"
      BY AcceptedFields
    <3>2. req'[r] = Accepted(q, m)
      BY <2>0, SetOthers
    <3>3. FrameDealt(req[r])'
      BY <2>0, <3>1, <3>2 DEF FrameDealt
    <3> QED
      BY <1>0, <1>1, <2>0, <3>3
  <2>1. ASSUME NEW q \in Quorums, NEW decodes \in BOOLEAN, SignReadNetwork(r, q, decodes)
        PROVE  SharesDealt'
    <3>1. q \in Seq(Nat) /\ <<TRUE>> \in Seq(BOOLEAN)
      BY InputAssumption
    <3> QED
      BY <1>0, <1>1, <1>2, <2>0, <2>1, <3>1 DEF SignReadNetwork, db, Fail
  <2>2. ASSUME NEW q \in Quorums, NEW msgs \in Batches, BatchReadNetwork(r, q, msgs)
        PROVE  SharesDealt'
    <3>1. q \in Seq(Nat) /\ msgs \in Seq(BOOLEAN)
      BY InputAssumption
    <3> QED
      BY <1>0, <1>1, <1>2, <2>0, <2>2, <3>1 DEF BatchReadNetwork, db, Fail
  <2>3. CASE SignReadNodes(r)
    <3>1. CASE ~(rows = N /\ Cardinality(Found(req[r].quorum)) >= T + 1)
      BY <1>0, <1>1, <1>2, <2>3, <3>1 DEF SignReadNodes, db, Fail
    <3>2. CASE rows = N /\ Cardinality(Found(req[r].quorum)) >= T + 1
      <4> DEFINE f == [req[r] EXCEPT !.pc = "sign_ledger", !.shares = secret]
      <4>1. Set(r, f) /\ UNCHANGED <<net, rows, secret, ledger, creator>>
        BY <2>3, <3>2 DEF SignReadNodes, db
      <4>2. f.pc = "sign_ledger" /\ f.shares = secret
        BY DEF TypeOK
      <4>3. net.state = "dkg_complete" /\ Dealt(secret)
        BY <2>3 DEF SignReadNodes, SharesDealt, SignPcs
      <4>4. req'[r] = f
        BY <4>1, SetOthers
      <4>5. FrameDealt(req[r])'
        BY <4>1, <4>2, <4>3, <4>4 DEF FrameDealt, SignPcs, Dealt
      <4> HIDE DEF f
      <4> QED
        BY <1>0, <1>1, <4>1, <4>5
    <3> QED
      BY <3>1, <3>2
  <2>4. CASE StoreLedgerEntry(r)
    <3>1. /\ req[r] \in ReqType /\ req[r].next \in Nat \ {0}
          /\ net.state = "dkg_complete" /\ Dealt(req[r].shares)
      BY <2>4 DEF StoreLedgerEntry, TypeOK, SharesDealt, ReqType, SignPcs
    <3>2. \A s \in Tx(r).combined : s.gen # None
      BY <3>1 DEF Tx, Members, Found, Dealt
    <3>3. Kept /\ Tables
      BY <2>4, <3>2 DEF StoreLedgerEntry, Kept, SharesDealt, PlaceholderNeverSigns, Dealt
    <3> DEFINE f == GoTo(req[r], "sign_tx", req[r].next)
    <3>4. Set(r, f) /\ net' = net
      BY <2>4 DEF StoreLedgerEntry
    <3>5. f.pc = "sign_tx" /\ f.shares = req[r].shares
      <4>1. "sign_tx" \in Pcs
        BY DEF Pcs, SignPcs
      <4> QED
        BY <3>1, <4>1, GoToReq
    <3>6. req'[r] = f
      BY <3>4, SetOthers
    <3>7. FrameDealt(req[r])'
      BY <3>1, <3>4, <3>5, <3>6 DEF FrameDealt, SignPcs, Dealt
    <3> HIDE DEF f
    <3> QED
      BY <1>0, <3>3, <3>4, <3>7
  <2>5. CASE RejectMessage(r)
    BY <1>0, <1>1, <1>2, <2>5 DEF RejectMessage, db, Fail
  <2>6. CASE StoreSignedTx(r)
    <3>1. /\ req[r].next \in Nat \ {0}
          /\ net.state = "dkg_complete" /\ Dealt(req[r].shares)
      BY <2>6 DEF StoreSignedTx, TypeOK, SharesDealt, SignPcs
    <3>2. Kept /\ Tables
      BY <1>1, <2>6 DEF StoreSignedTx
    <3>3. CASE req[r].next = Len(req[r].msgs)
      BY <1>0, <1>2, <2>6, <3>2, <3>3 DEF StoreSignedTx, Return
    <3>4. CASE req[r].next # Len(req[r].msgs)
      <4> DEFINE f == GoTo(req[r], "sign_ledger", req[r].next + 1)
      <4>1. Set(r, f) /\ net' = net
        BY <2>6, <3>4 DEF StoreSignedTx
      <4>2. "sign_ledger" \in Pcs /\ req[r].next + 1 \in Nat \ {0}
        BY <3>1 DEF Pcs, SignPcs
      <4>3. f.pc = "sign_ledger" /\ f.shares = req[r].shares
        BY <4>2, GoToReq
      <4>4. req'[r] = f
        BY <4>1, SetOthers
      <4>5. FrameDealt(req[r])'
        BY <3>1, <4>1, <4>3, <4>4 DEF FrameDealt, SignPcs, Dealt
      <4> HIDE DEF f
      <4> QED
        BY <1>0, <3>2, <4>1, <4>5
    <3> QED
      BY <3>3, <3>4
  <2> QED
    BY <1>7, <2>1, <2>2, <2>3, <2>4, <2>5, <2>6 DEF Sign
<1>8. CASE UNCHANGED vars
  BY <1>8 DEF vars, SharesDealt, PlaceholderNeverSigns, Dealt
<1> QED
  BY <1>3, <1>4, <1>5, <1>6, <1>7, <1>8 DEF Next, Quiet

\* A network is complete only with a dealt share in every row, and no handler
\* holds anything else to write back (dkg.rs:37-126, refresh.rs:18-42).
THEOREM SharesAlwaysDealt == Spec => []SharesDealt
<1>1. Init => SharesDealt
  BY NoneAssumption DEF Init, SharesDealt, PlaceholderNeverSigns, Frame, SignPcs
<1>2. TypeOK /\ SharesDealt /\ [Next]_vars => SharesDealt'
  BY DealtStep
<1> QED
  BY <1>1, <1>2, TypeCorrect, PTL DEF Spec

\* Whatever overlaps or is cut off, no stored signature was made with the
\* random secret a node row has before a DKG (signing.rs:31, dkg.rs:113-126).
THEOREM PlaceholdersNeverSign == Spec => []PlaceholderNeverSigns
<1>1. SharesDealt => PlaceholderNeverSigns
  BY DEF SharesDealt
<1> QED
  BY <1>1, SharesAlwaysDealt, PTL

-----------------------------------------------------------------------------
(* Transactions are on the ledger first.  StoredInOrder is inductive given *)
(* TypeOK: both tables only grow, and each request inserts in order.       *)

\* The part of StoredInOrder that concerns request r alone.
ReqStored(r) ==
  /\ req[r].pc = "sign_nodes" => req[r].next = 1
  /\ req[r].pc \in SignPcs => \A m \in 1..(req[r].next - 1) : InBoth(r, m)
  /\ req[r].pc = "sign_tx" => Tx(r) \in ledger

\* Neither table loses a row.
Grow == ledger \subseteq ledger' /\ signedTxs \subseteq signedTxs'

\* A step of one request leaves what the tables say of the others.
LEMMA GrowStored ==
  ASSUME TypeOK, StoredInOrder, Grow, NEW r \in Requests, NEW f, Set(r, f),
         ReqStored(r)', TxOnLedger'
  PROVE  StoredInOrder'
<1> SUFFICES ASSUME NEW s \in Requests, s # r PROVE ReqStored(s)'
  BY DEF StoredInOrder, ReqStored
<1>1. req'[s] = req[s]
  BY SetOthers
<1>2. ReqStored(s)
  BY DEF StoredInOrder, ReqStored
<1>3. \A m : InBoth(s, m) => InBoth(s, m)'
  BY DEF Grow, InBoth
<1>4. Tx(s)' = Tx(s)
  BY <1>1 DEF Tx
<1> QED
  BY <1>1, <1>2, <1>3, <1>4 DEF ReqStored, Grow

\* A step that touches neither table, of a request that is not then signing.
LEMMA QuietStored ==
  ASSUME TypeOK, StoredInOrder, UNCHANGED <<ledger, signedTxs>>,
         NEW r \in Requests, NEW f, Set(r, f), f.pc \notin SignPcs
  PROVE  StoredInOrder'
<1>1. ReqStored(r)'
  BY SetOthers DEF ReqStored, SignPcs
<1> QED
  BY <1>1, GrowStored DEF Grow, StoredInOrder, TxOnLedger

\* The same for a handler that returns, or starts a DKG or a refresh.
LEMMA FrameStored ==
  ASSUME TypeOK, StoredInOrder, UNCHANGED <<ledger, signedTxs>>,
         NEW r \in Requests, NEW pc \in {"done", "failed"} \cup RekeyPcs,
         Set(r, Frame(pc))
  PROVE  StoredInOrder'
<1>1. Frame(pc).pc \notin SignPcs
  BY FrameFields DEF RekeyPcs, SignPcs
<1> QED
  BY <1>1, QuietStored

\* Rekeying touches neither table, so it is invisible to StoredInOrder.
LEMMA RekeyStored ==
  ASSUME TypeOK, StoredInOrder, NEW r \in Requests, Dkg(r) \/ Refresh(r)
  PROVE  StoredInOrder'
<1>1. \A pc \in {"dkg_write", "dkg_publish", "refresh_secret", "refresh_epoch"} :
        pc \in Pcs /\ pc \notin SignPcs
  BY DEF Pcs, RekeyPcs, SignPcs
<1>2. \A pc \in {"dkg_write", "dkg_publish", "refresh_secret", "refresh_epoch"} :
        \A k \in Nat \ {0} : GoTo(req[r], pc, k).pc \notin SignPcs
  BY <1>1, GoToReq
<1>3. CASE DkgReadNetwork(r) \/ RefreshReadNetwork(r)
  BY <1>3, FrameStored DEF DkgReadNetwork, RefreshReadNetwork, db, Fail, RekeyPcs
<1>4. CASE DkgReadNodes(r)
  <2>1. [Frame("dkg_write") EXCEPT !.shares = DealtShares(r)].pc \notin SignPcs
    BY DEF Frame, SignPcs
  <2> QED
    BY <1>4, <2>1, FrameStored, QuietStored DEF DkgReadNodes, db, Fail
<1>5. CASE RefreshReadNodes(r)
  <2>1. [Frame("refresh_secret") EXCEPT !.shares = RefreshedShares(r, secret),
                                        !.epoch = epoch[1] + 1].pc \notin SignPcs
    BY DEF Frame, SignPcs
  <2> QED
    BY <1>5, <2>1, FrameStored, QuietStored DEF RefreshReadNodes, db, Fail
<1>6. CASE DkgWriteShare(r) \/ RefreshWriteShare(r) \/ RefreshWriteEpoch(r)
  <2>1. req[r].next \in Nat \ {0} /\ req[r].next + 1 \in Nat \ {0} /\ 1 \in Nat \ {0}
    BY DEF TypeOK
  <2> QED
    BY <1>2, <1>6, <2>1, FrameStored, QuietStored
    DEF DkgWriteShare, RefreshWriteShare, RefreshWriteEpoch, Return
<1>7. CASE DkgPublish(r)
  BY <1>7, FrameStored DEF DkgPublish, Return
<1> QED
  BY <1>3, <1>4, <1>5, <1>6, <1>7 DEF Dkg, Refresh

\* The entry a signing handler is about to store, or has stored, does not
\* change while it goes on with the same message.
LEMMA TxKept ==
  ASSUME TypeOK, NEW r \in Requests, NEW pc \in Pcs, Set(r, GoTo(req[r], pc, req[r].next))
  PROVE  Tx(r)' = Tx(r)
<1>1. req[r].next \in Nat \ {0}
  BY DEF TypeOK
<1>2. req'[r] = GoTo(req[r], pc, req[r].next)
  BY SetOthers
<1>3. /\ req'[r].next = req[r].next /\ req'[r].quorum = req[r].quorum
      /\ req'[r].shares = req[r].shares
  BY <1>1, <1>2, GoToReq
<1> QED
  BY <1>3 DEF Tx

\* Signing stores messages in order, each on the ledger first.
LEMMA SignStored ==
  ASSUME TypeOK, StoredInOrder, NEW r \in Requests, Sign(r)
  PROVE  StoredInOrder'
<1>0. ASSUME UNCHANGED <<ledger, signedTxs>>, NEW q \in Seq(Nat), NEW m \in Seq(BOOLEAN),
             Set(r, Accepted(q, m))
      PROVE  StoredInOrder'
  <2>1. req'[r].pc = "sign_nodes" /\ req'[r].next = 1
    BY <1>0, SetOthers, AcceptedFields
  <2>2. ReqStored(r)'
    BY <2>1 DEF ReqStored
  <2> QED
    BY <1>0, <2>2, GrowStored DEF Grow, StoredInOrder, TxOnLedger
<1>1. ASSUME NEW q \in Quorums, NEW decodes \in BOOLEAN, SignReadNetwork(r, q, decodes)
      PROVE  StoredInOrder'
  <2>1. q \in Seq(Nat) /\ <<TRUE>> \in Seq(BOOLEAN)
    BY InputAssumption
  <2> QED
    BY <1>0, <1>1, <2>1, FrameStored DEF SignReadNetwork, db, Fail
<1>2. ASSUME NEW q \in Quorums, NEW msgs \in Batches, BatchReadNetwork(r, q, msgs)
      PROVE  StoredInOrder'
  <2>1. q \in Seq(Nat) /\ msgs \in Seq(BOOLEAN)
    BY InputAssumption
  <2> QED
    BY <1>0, <1>2, <2>1, FrameStored DEF BatchReadNetwork, db, Fail
<1>3. CASE SignReadNodes(r)
  <2> DEFINE f == [req[r] EXCEPT !.pc = "sign_ledger", !.shares = secret]
  <2>1. req[r].next = 1
    BY <1>3 DEF SignReadNodes, StoredInOrder
  <2>2. f.pc = "sign_ledger" /\ f.next = 1
    BY <2>1 DEF TypeOK
  <2>3. ASSUME Set(r, f)
        PROVE  ReqStored(r)'
    <3>1. req'[r] = f
      BY <2>3, SetOthers
    <3> QED
      BY <2>2, <3>1 DEF ReqStored
  <2> HIDE DEF f
  <2>4. UNCHANGED <<ledger, signedTxs>> /\ (Set(r, f) \/ Set(r, Frame("failed")))
    BY <1>3 DEF SignReadNodes, db, Fail, f
  <2> QED
    BY <2>3, <2>4, FrameStored, GrowStored DEF Grow, StoredInOrder, TxOnLedger
<1>4. CASE StoreLedgerEntry(r)
  <2> DEFINE f == GoTo(req[r], "sign_tx", req[r].next)
  <2>1. "sign_tx" \in Pcs /\ req[r].next \in Nat \ {0}
    BY DEF Pcs, SignPcs, TypeOK
  <2>2. /\ Set(r, f) /\ ledger' = ledger \cup {Tx(r)} /\ signedTxs' = signedTxs
        /\ \A m \in 1..(req[r].next - 1) : InBoth(r, m)
    BY <1>4 DEF StoreLedgerEntry, StoredInOrder, SignPcs
  <2>3. req'[r].pc = "sign_tx" /\ req'[r].next = req[r].next
    BY <2>1, <2>2, SetOthers, GoToReq
  <2>4. Tx(r)' = Tx(r)
    BY <2>1, <2>2, TxKept
  <2>5. \A m : InBoth(r, m) => InBoth(r, m)'
    BY <2>2 DEF InBoth
  <2>6. ReqStored(r)'
    BY <2>2, <2>3, <2>4, <2>5 DEF ReqStored
  <2> HIDE DEF f
  <2> QED
    BY <2>2, <2>6, GrowStored DEF Grow, StoredInOrder, TxOnLedger
<1>5. CASE RejectMessage(r)
  BY <1>5, FrameStored DEF RejectMessage, db, Fail
<1>6. CASE StoreSignedTx(r)
  <2>1. /\ Tx(r) \in ledger /\ signedTxs' = signedTxs \cup {Tx(r)} /\ ledger' = ledger
        /\ \A m \in 1..(req[r].next - 1) : InBoth(r, m)
    BY <1>6 DEF StoreSignedTx, StoredInOrder, SignPcs
  <2>2. Grow /\ TxOnLedger'
    BY <2>1 DEF Grow, StoredInOrder, TxOnLedger
  <2>3. \A m \in 1..req[r].next : InBoth(r, m)'
    <3>1. ASSUME NEW m, m = req[r].next
          PROVE  InBoth(r, m)'
      <4>1. Tx(r).tx = <<r, req[r].next>>
        BY DEF Tx
      <4> QED
        BY <2>1, <3>1, <4>1 DEF InBoth
    <3>2. \A m : InBoth(r, m) => InBoth(r, m)'
      BY <2>1 DEF InBoth
    <3>3. \A m \in 1..req[r].next : m = req[r].next \/ m \in 1..(req[r].next - 1)
      BY DEF TypeOK
    <3> QED
      <4>1. SUFFICES ASSUME NEW m \in 1..req[r].next PROVE InBoth(r, m)'
        OBVIOUS
      <4>2. CASE m = req[r].next
        BY <3>1, <4>2
      <4>3. CASE m # req[r].next
        BY <2>1, <3>2, <3>3, <4>3
      <4> QED
        BY <4>2, <4>3
  <2>4. CASE req[r].next = Len(req[r].msgs)
    <3>1. Set(r, Frame("done"))
      BY <1>6, <2>4 DEF StoreSignedTx, Return
    <3>2. req'[r].pc = "done"
      BY <3>1, SetOthers, FrameFields
    <3>3. ReqStored(r)'
      BY <3>2 DEF ReqStored, SignPcs
    <3> QED
      BY <2>2, <3>1, <3>3, GrowStored
  <2>5. CASE req[r].next # Len(req[r].msgs)
    <3> DEFINE f == GoTo(req[r], "sign_ledger", req[r].next + 1)
    <3>1. Set(r, f)
      BY <1>6, <2>5 DEF StoreSignedTx
    <3>2. "sign_ledger" \in Pcs /\ req[r].next + 1 \in Nat \ {0} /\ req[r].next \in Nat
      BY DEF Pcs, SignPcs, TypeOK
    <3>3. req'[r].pc = "sign_ledger" /\ req'[r].next = req[r].next + 1
      BY <3>1, <3>2, SetOthers, GoToReq
    <3>4. req'[r].next - 1 = req[r].next
      BY <3>2, <3>3
    <3>5. ReqStored(r)'
      BY <2>3, <3>3, <3>4 DEF ReqStored
    <3> HIDE DEF f
    <3> QED
      BY <2>2, <3>1, <3>5, GrowStored
  <2> QED
    BY <2>4, <2>5
<1> QED
  BY <1>1, <1>2, <1>3, <1>4, <1>5, <1>6 DEF Sign

\* Every step keeps StoredInOrder.
LEMMA StoredStep ==
  ASSUME TypeOK, StoredInOrder, [Next]_vars
  PROVE  StoredInOrder'
<1>1. CASE UNCHANGED <<ledger, signedTxs, req>>
  BY <1>1 DEF StoredInOrder, TxOnLedger, InBoth, Tx
<1>2. CASE Create \/ AbortCreate \/ Quiet \/ UNCHANGED vars
  BY <1>1, <1>2 DEF Create, AbortCreate, InsertNetwork, InsertNode, FinishCreate,
                    Quiet, db, vars
<1>3. ASSUME NEW r \in Requests, Abort(r)
      PROVE  StoredInOrder'
  BY <1>3, FrameStored DEF Abort, db, Fail
<1> QED
  BY <1>2, <1>3, RekeyStored, SignStored DEF Next

\* Nothing is stored before a request is made.
LEMMA StoredInit ==
  ASSUME Init
  PROVE  StoredInOrder
BY DEF Init, StoredInOrder, TxOnLedger, Frame, SignPcs

\* A signing request has stored every message before the one it is at, and
\* that one's ledger row before its transaction (signing.rs:181-192,
\* batch.rs:172-209).
THEOREM RecordsStoredInOrder == Spec => []StoredInOrder
<1>1. TypeOK /\ StoredInOrder /\ [Next]_vars => StoredInOrder'
  BY StoredStep
<1>2. Init => StoredInOrder
  BY StoredInit
<1> QED
  BY <1>1, <1>2, TypeCorrect, PTL DEF Spec

\* Every transaction that trace and verify find is on the ledger
\* (signing.rs:181-192, batch.rs:198-209).
THEOREM TransactionsOnLedger == Spec => []TxOnLedger
<1>1. StoredInOrder => TxOnLedger
  BY DEF StoredInOrder
<1> QED
  BY <1>1, RecordsStoredInOrder, PTL

-----------------------------------------------------------------------------
(* Answers.  Only the insert of its last signed transaction lets a signing *)
(* request answer with success, and by then every message is stored.       *)

\* What a step must satisfy for AnswerImpliesRecorded.
AnswerStep ==
  \A r \in Requests :
    req[r].pc \in SignPcs /\ req'[r].pc = "done"
      => Stored(r, ledger') \cap Stored(r, signedTxs') = 1..Len(req[r].msgs)

\* A step of request s answers no other request.
LEMMA OwnAnswer ==
  ASSUME TypeOK, NEW s \in Requests, NEW f, Set(s, f),
         \/ f.pc # "done"
         \/ req[s].pc \notin SignPcs
         \/ Stored(s, ledger') \cap Stored(s, signedTxs') = 1..Len(req[s].msgs)
  PROVE  AnswerStep
<1> SUFFICES ASSUME NEW r \in Requests, req[r].pc \in SignPcs, req'[r].pc = "done"
             PROVE  Stored(r, ledger') \cap Stored(r, signedTxs') = 1..Len(req[r].msgs)
  BY DEF AnswerStep
<1>1. CASE r = s
  BY <1>1, SetOthers
<1>2. CASE r # s
  <2>1. req'[r] = req[r]
    BY <1>2, SetOthers
  <2> QED
    BY <2>1 DEF SignPcs
<1> QED
  BY <1>1, <1>2

\* Starting, rekeying and failing answer no signing request.
LEMMA RekeyAnswers ==
  ASSUME TypeOK, NEW r \in Requests, Dkg(r) \/ Refresh(r)
  PROVE  AnswerStep
<1>1. req[r].pc \notin SignPcs
  BY DEF Dkg, Refresh, DkgReadNetwork, DkgReadNodes, DkgWriteShare, DkgPublish, Starts,
         RefreshReadNetwork, RefreshReadNodes, RefreshWriteShare, RefreshWriteEpoch, SignPcs
<1>2. \E f : Set(r, f)
  BY DEF Dkg, Refresh, DkgReadNetwork, DkgReadNodes, DkgWriteShare, DkgPublish,
         RefreshReadNetwork, RefreshReadNodes, RefreshWriteShare, RefreshWriteEpoch,
         Return, Fail
<1> QED
  BY <1>1, <1>2, OwnAnswer

\* A signing request that answers has just stored its last message.
LEMMA SignAnswers ==
  ASSUME TypeOK, StoredInOrder, NEW r \in Requests, Sign(r)
  PROVE  AnswerStep
<1>0. \A q, msgs : Starts(r) => req[r].pc \notin SignPcs
  BY DEF Starts, SignPcs
<1>1. ASSUME NEW q, NEW d, SignReadNetwork(r, q, d) \/ BatchReadNetwork(r, q, d)
      PROVE  AnswerStep
  BY <1>0, <1>1, OwnAnswer DEF SignReadNetwork, BatchReadNetwork, Fail
<1>2. CASE SignReadNodes(r)
  <2>1. [req[r] EXCEPT !.pc = "sign_ledger", !.shares = secret].pc = "sign_ledger"
    BY DEF TypeOK
  <2>2. Frame("failed").pc = "failed"
    BY FrameFields
  <2> QED
    BY <1>2, <2>1, <2>2, OwnAnswer DEF SignReadNodes, Fail
<1>3. CASE StoreLedgerEntry(r)
  <2>1. "sign_tx" \in Pcs /\ req[r].next \in Nat \ {0}
    BY DEF Pcs, SignPcs, TypeOK
  <2>2. GoTo(req[r], "sign_tx", req[r].next).pc = "sign_tx"
    BY <2>1, GoToReq
  <2> QED
    BY <1>3, <2>2, OwnAnswer DEF StoreLedgerEntry
<1>4. CASE RejectMessage(r)
  BY <1>4, FrameFields, OwnAnswer DEF RejectMessage, Fail
<1>5. CASE StoreSignedTx(r)
  <2>1. CASE req[r].next # Len(req[r].msgs)
    <3>1. "sign_ledger" \in Pcs /\ req[r].next + 1 \in Nat \ {0}
      BY DEF Pcs, SignPcs, TypeOK
    <3>2. GoTo(req[r], "sign_ledger", req[r].next + 1).pc = "sign_ledger"
      BY <3>1, GoToReq
    <3> QED
      BY <1>5, <2>1, <3>2, OwnAnswer DEF StoreSignedTx
  <2>2. CASE req[r].next = Len(req[r].msgs)
    <3>1. /\ Tx(r) \in ledger /\ signedTxs' = signedTxs \cup {Tx(r)} /\ ledger' = ledger
          /\ \A m \in 1..(req[r].next - 1) : InBoth(r, m)
      BY <1>5 DEF StoreSignedTx, StoredInOrder, SignPcs
    <3>2. Tx(r).tx = <<r, req[r].next>>
      BY DEF Tx
    <3>3. ASSUME NEW m \in 1..Len(req[r].msgs)
          PROVE  /\ \E e \in ledger' : e.tx = <<r, m>>
                 /\ \E e \in signedTxs' : e.tx = <<r, m>>
      <4>1. CASE m = req[r].next
        BY <3>1, <3>2, <4>1
      <4>2. CASE m # req[r].next
        <5>1. m \in 1..(req[r].next - 1)
          BY <2>2, <4>2 DEF TypeOK
        <5> QED
          BY <3>1, <5>1 DEF InBoth
      <4> QED
        BY <4>1, <4>2
    <3>4. Stored(r, ledger') \cap Stored(r, signedTxs') = 1..Len(req[r].msgs)
      BY <3>3 DEF Stored
    <3>5. Set(r, Frame("done"))
      BY <1>5, <2>2 DEF StoreSignedTx, Return
    <3> QED
      BY <3>4, <3>5, OwnAnswer
  <2> QED
    BY <2>1, <2>2
<1> QED
  BY <1>1, <1>2, <1>3, <1>4, <1>5 DEF Sign

\* A signing request that answers with success has stored every one of its
\* messages in both tables (signing.rs:171-200, batch.rs:172-233).
THEOREM AnswersAreRecorded == Spec => AnswerImpliesRecorded
<1>1. TypeOK /\ StoredInOrder /\ [Next]_vars => [AnswerStep]_vars
  <2> SUFFICES ASSUME TypeOK, StoredInOrder, Next, vars' # vars
               PROVE  AnswerStep
    OBVIOUS
  <2>1. CASE UNCHANGED req
    BY <2>1 DEF AnswerStep, SignPcs
  <2>2. CASE Create \/ AbortCreate \/ Quiet
    BY <2>1, <2>2 DEF Create, AbortCreate, InsertNetwork, InsertNode, FinishCreate,
                      Quiet, vars
  <2>3. ASSUME NEW r \in Requests, Abort(r)
        PROVE  AnswerStep
    BY <2>3, FrameFields, OwnAnswer DEF Abort, Fail
  <2> QED
    BY <2>2, <2>3, RekeyAnswers, SignAnswers DEF Next
<1>2. TypeOK /\ StoredInOrder /\ [Next]_vars => StoredInOrder'
  BY StoredStep
<1>3. Init => StoredInOrder
  BY StoredInit
<1>4. Spec => [][AnswerStep]_vars
  BY <1>1, <1>2, <1>3, TypeCorrect, PTL DEF Spec
<1> QED
  BY <1>4 DEF AnswerImpliesRecorded, AnswerStep

-----------------------------------------------------------------------------
(* Enough signers.                                                         *)

\* Signers at different indices are as many different members.
LEMMA DistinctMembers ==
  ASSUME NEW q \in Seq(Nat), Combinable(q)
  PROVE  Cardinality(Members(q)) >= T + 1
<1> DEFINE f == [j \in Found(q) |-> q[j]]
<1>1. IsFiniteSet(Found(q))
  <2>1. IsFiniteSet(1..Len(q))
    BY FS_Interval
  <2>2. Found(q) \subseteq 1..Len(q)
    BY DEF Found
  <2> QED
    BY <2>1, <2>2, FS_Subset
<1>2. f \in Bijection(Found(q), Members(q))
  BY DEF Combinable, Members, Bijection, Injection, Surjection, IsInjective
<1>3. Cardinality(Members(q)) = Cardinality(Found(q))
  BY <1>1, <1>2, FS_Bijection DEF ExistsBijection
<1> QED
  BY <1>3 DEF Combinable

\* Every ledger entry lists at least T + 1 different members of the network
\* among its signers (signing.rs:42, 140-164; batch.rs:53, 151-198).
THEOREM SignersAreEnough == Spec => []EnoughSigners
<1>1. Init => EnoughSigners
  BY DEF Init, EnoughSigners
<1>2. TypeOK /\ EnoughSigners /\ [Next]_vars => EnoughSigners'
  <2> SUFFICES ASSUME TypeOK, EnoughSigners, [Next]_vars
               PROVE  EnoughSigners'
    OBVIOUS
  <2>1. CASE UNCHANGED ledger
    BY <2>1 DEF EnoughSigners
  <2>2. ASSUME NEW r \in Requests, StoreLedgerEntry(r)
        PROVE  EnoughSigners'
    <3>1. req[r].quorum \in Seq(Nat) /\ Combinable(req[r].quorum)
      BY <2>2 DEF StoreLedgerEntry, TypeOK
    <3>2. Cardinality(Members(Tx(r).signers)) >= T + 1
      BY <3>1, DistinctMembers DEF Tx
    <3> QED
      BY <2>2, <3>2 DEF StoreLedgerEntry, EnoughSigners
  <2>3. ASSUME NEW r \in Requests, Sign(r)
        PROVE  EnoughSigners'
    BY <2>1, <2>2, <2>3 DEF Sign, SignReadNetwork, BatchReadNetwork, SignReadNodes,
                            RejectMessage, StoreSignedTx, db
  <2>4. ASSUME NEW r \in Requests, Dkg(r) \/ Refresh(r) \/ Abort(r)
        PROVE  EnoughSigners'
    BY <2>1, <2>4 DEF Dkg, Refresh, DkgReadNetwork, DkgReadNodes, DkgWriteShare, DkgPublish,
                      RefreshReadNetwork, RefreshReadNodes, RefreshWriteShare,
                      RefreshWriteEpoch, Abort, db
  <2>5. CASE Create \/ AbortCreate \/ Quiet \/ UNCHANGED vars
    BY <2>1, <2>5 DEF Create, AbortCreate, InsertNetwork, InsertNode, FinishCreate,
                      Quiet, db, vars
  <2> QED
    BY <2>3, <2>4, <2>5 DEF Next
<1> QED
  BY <1>1, <1>2, TypeCorrect, PTL DEF Spec

-----------------------------------------------------------------------------
(* Sharings. *)

\* All nodes hold shares of one sharing of the key of DKG run g.
SharingOf(shares, g) ==
  \E d \in SUBSET Requests : \A i \in Nodes : shares[i] = [gen |-> g, deltas |-> d]

\* DKG deals a sharing of its own key, and refresh keeps what is shared.
LEMMA SharingsKept ==
  ASSUME NEW r \in Requests, NEW shares \in [Nodes -> Share], NEW g
  PROVE  /\ SharingOf(DealtShares(r), r)
         /\ SharingOf(shares, g) => SharingOf(RefreshedShares(r, shares), g)
<1>1. SharingOf(DealtShares(r), r)
  <2>1. \A i \in Nodes : DealtShares(r)[i] = [gen |-> r, deltas |-> {}]
    BY DEF DealtShares
  <2>2. QED
    BY <2>1 DEF SharingOf
<1>2. ASSUME SharingOf(shares, g) PROVE SharingOf(RefreshedShares(r, shares), g)
  <2>1. PICK d \in SUBSET Requests : \A i \in Nodes : shares[i] = [gen |-> g, deltas |-> d]
    BY <1>2 DEF SharingOf
  <2>2. CASE T = 1
    <3>1. \A i \in Nodes : RefreshedShares(r, shares)[i] = shares[i]
      BY <2>2 DEF RefreshedShares
    <3>2. QED
      BY <2>1, <3>1 DEF SharingOf
  <2>3. CASE T # 1
    <3>1. \A i \in Nodes : RefreshedShares(r, shares)[i] = [gen |-> g, deltas |-> d \cup {r}]
      BY <2>1, <2>3 DEF RefreshedShares
    <3>2. d \cup {r} \in SUBSET Requests
      OBVIOUS
    <3>3. QED
      BY <3>1, <3>2 DEF SharingOf
  <2>4. QED
    BY <2>2, <2>3
<1>3. QED
  BY <1>1, <1>2

\* Some of the shares of one sharing combine to its key and to no other.
LEMMA SharingCombines ==
  ASSUME NEW shares, NEW g \in Requests, SharingOf(shares, g),
         NEW M \in SUBSET Nodes, M # {}
  PROVE  \A h : Consistent({shares[i] : i \in M}, h) <=> h = g
<1>1. PICK d \in SUBSET Requests : \A i \in Nodes : shares[i] = [gen |-> g, deltas |-> d]
  BY DEF SharingOf
<1> DEFINE s == [gen |-> g, deltas |-> d]
<1>2. {shares[i] : i \in M} = {s}
  BY <1>1
<1>3. s \in Share /\ s.gen = g
  BY DEF Share
<1> HIDE DEF s
<1>4. QED
  BY <1>2, <1>3 DEF Consistent

\* Nodes exist.
LEMMA SomeNode == 1 \in Nodes /\ N \in Nodes /\ Nodes # {}
  BY SizeAssumption DEF Nodes
-----------------------------------------------------------------------------
(* The inductive invariant.  A DKG or refresh that is on its way is the    *)
(* only request in flight, has written the shares it holds up to the node  *)
(* it is at, and holds shares of one sharing.                              *)

WritingPcs == {"dkg_write", "dkg_publish", "refresh_secret", "refresh_epoch"}

\* The first k rows hold these shares.
Written(shares, k) == \A i \in 1..k : secret[i] = shares[i]

\* The part of the invariant that concerns request r alone.
ReqSharing(r) ==
  LET f == req[r]
  IN  /\ f.pc = "dkg_write" => f.shares = DealtShares(r) /\ Written(f.shares, f.next - 1)
      /\ f.pc = "dkg_publish" => SharingOf(secret, r)
      /\ f.pc = "refresh_secret" => Written(f.shares, f.next - 1)
      /\ f.pc = "refresh_epoch" => Written(f.shares, f.next)
      /\ f.pc \in {"refresh_secret", "refresh_epoch", "sign_ledger", "sign_tx"}
           => SharingOf(f.shares, net.pk)

KeySharing == net.state = "dkg_complete" => SharingOf(secret, net.pk)

SharingInv ==
  /\ \A r, s \in Requests : r \in Rekeying /\ s \in InFlight => r = s
  /\ (\A r \in Requests : req[r].pc \notin WritingPcs) => KeySharing
  /\ \A r \in Requests : ReqSharing(r)

\* What clients and the server do in this module.
Undisturbed == Exclusive /\ MaxAborts = 0

\* A step of a DKG or refresh that is alone.
LEMMA AloneStep ==
  ASSUME TypeOK, SharingInv, NEW r \in Requests, NEW f, Set(r, f),
         \A s \in Requests : s \in InFlight => s = r,
         ReqSharing(r)', f.pc \notin WritingPcs => KeySharing'
  PROVE  SharingInv'
<1>1. req'[r] = f /\ \A s \in Requests \ {r} : req'[s] = req[s]
  BY SetOthers
<1>2. \A s \in Requests \ {r} : req[s].pc \notin RekeyPcs \cup SignPcs
  BY DEF InFlight
<1>3. \A s \in Requests \ {r} : ReqSharing(s)'
  BY <1>1, <1>2 DEF ReqSharing, RekeyPcs, SignPcs
<1>4. \A s \in Requests : s \in InFlight' => s = r
  BY <1>1, <1>2 DEF InFlight
<1>5. \A s \in Requests : s \in Rekeying' => s \in InFlight'
  BY DEF Rekeying, InFlight
<1>6. (\A s \in Requests : req'[s].pc \notin WritingPcs) => KeySharing'
  BY <1>1
<1>7. QED
  BY <1>3, <1>4, <1>5, <1>6 DEF SharingInv

\* A step of a request that signs, or has returned, while nobody rekeys.
LEMMA SigningStep ==
  ASSUME TypeOK, SharingInv, NEW r \in Requests, NEW f, Set(r, f),
         f.pc \notin RekeyPcs, Rekeying = {}, UNCHANGED <<net, secret>>,
         f.pc \in {"sign_ledger", "sign_tx"} => SharingOf(f.shares, net.pk)
  PROVE  SharingInv'
<1>1. req'[r] = f /\ \A s \in Requests \ {r} : req'[s] = req[s]
  BY SetOthers
<1>2. \A s \in Requests : req[s].pc \notin RekeyPcs
  BY DEF Rekeying
<1>3. Rekeying' = {}
  BY <1>1, <1>2 DEF Rekeying
<1>4. ReqSharing(r)'
  BY <1>1 DEF ReqSharing, RekeyPcs
<1>5. \A s \in Requests \ {r} : ReqSharing(s)'
  BY <1>1, <1>2 DEF SharingInv, ReqSharing, RekeyPcs
<1>6. KeySharing'
  BY <1>2 DEF SharingInv, KeySharing, RekeyPcs, WritingPcs
<1>7. QED
  BY <1>3, <1>4, <1>5, <1>6 DEF SharingInv

\* A request that signs finds nobody rekeying.
LEMMA SignersMeetNoRekey ==
  ASSUME TypeOK, SharingInv, NEW r \in Requests, req[r].pc \in SignPcs
  PROVE  Rekeying = {}
<1>1. r \in InFlight /\ r \notin Rekeying
  BY DEF InFlight, Rekeying, SignPcs, RekeyPcs
<1>2. \A s \in Rekeying : s \in Requests
  BY DEF Rekeying
<1>3. QED
  BY <1>1, <1>2 DEF SharingInv

\* A request that rekeys is alone, and nobody else is writing.
LEMMA RekeyIsAlone ==
  ASSUME TypeOK, SharingInv, NEW r \in Requests, req[r].pc \in RekeyPcs
  PROVE  /\ \A s \in Requests : s \in InFlight => s = r
         /\ req[r].pc \notin WritingPcs => KeySharing
<1>1. \A s \in Requests : s \in InFlight => s = r
  BY DEF SharingInv, Rekeying
<1>2. \A s \in Requests : s # r => req[s].pc \notin WritingPcs
  BY <1>1 DEF InFlight, RekeyPcs, WritingPcs
<1>3. QED
  BY <1>1, <1>2 DEF SharingInv

\* A write adds one row to those that hold the handler's shares.
LEMMA WriteRow ==
  ASSUME TypeOK, NEW shares \in [Nodes -> Share], NEW k \in Nodes, Written(shares, k - 1),
         secret' = [secret EXCEPT ![k] = shares[k]]
  PROVE  \A i \in 1..k : secret'[i] = shares[i]
<1>1. ASSUME NEW i \in 1..k PROVE secret'[i] = shares[i]
  <2>1. i \in Nodes /\ k \in Nodes /\ (i = k \/ i \in 1..(k - 1))
    BY SizeAssumption DEF Nodes
  <2>2. QED
    BY <2>1 DEF TypeOK, Written
<1>2. QED
  BY <1>1

\* Once all rows are written the nodes hold the sharing.
LEMMA AllWritten ==
  ASSUME NEW shares, NEW g, SharingOf(shares, g), Written(shares, N)
  PROVE  SharingOf(secret, g)
BY DEF SharingOf, Written, Nodes

-----------------------------------------------------------------------------
(* Every step keeps SharingInv.                                            *)

\* No handler is past its reads while create_network still inserts rows.
LEMMA CreateSharing ==
  ASSUME TypeOK, SharesDealt, SharingInv, Create
  PROVE  SharingInv'
<1>1. req' = req /\ InFlight' = InFlight /\ Rekeying' = Rekeying
  BY DEF Create, InsertNetwork, InsertNode, FinishCreate, InFlight, Rekeying
<1>2. CASE InsertNetwork
  <2>1. net'.state = "created" /\ net.state = "absent"
    BY <1>2 DEF InsertNetwork, SharesDealt
  <2>2. ASSUME NEW r \in Requests PROVE ReqSharing(r)'
    <3>1. req[r].pc \notin WritingPcs \cup SignPcs
      BY <1>2, <2>1, SizeAssumption DEF InsertNetwork, SharesDealt, SignPcs, WritingPcs
    <3>2. QED
      BY <1>1, <3>1 DEF ReqSharing, SignPcs, WritingPcs
  <2>3. QED
    BY <1>1, <2>1, <2>2 DEF SharingInv, KeySharing
<1>3. CASE InsertNode
  <2>1. rows # N
    BY <1>3, NoMoreRowsThanNodes, SizeAssumption DEF InsertNode, TypeOK
  <2>2. net' = net /\ net.state # "dkg_complete"
    BY <1>3, <2>1 DEF InsertNode, SharesDealt
  <2>3. ASSUME NEW r \in Requests PROVE ReqSharing(r)'
    BY <1>1, <2>1, <2>2 DEF ReqSharing, SharesDealt, SignPcs
  <2>4. QED
    BY <1>1, <2>2, <2>3 DEF SharingInv, KeySharing
<1>4. CASE FinishCreate
  BY <1>1, <1>4 DEF FinishCreate, db, SharingInv, ReqSharing, KeySharing, Written
<1>5. QED
  BY <1>2, <1>3, <1>4 DEF Create

\* A handler that returns, or fails, with nothing half written.
LEMMA ReturnAlone ==
  ASSUME TypeOK, SharingInv, NEW r \in Requests, NEW pc \in {"done", "failed"},
         Set(r, Frame(pc)), \A s \in Requests : s \in InFlight => s = r, KeySharing'
  PROVE  SharingInv'
<1>1. req'[r].pc = pc /\ Frame(pc).pc = pc
  BY SetOthers, FrameFields
<1>2. ReqSharing(r)'
  BY <1>1 DEF ReqSharing
<1>3. QED
  BY <1>1, <1>2, AloneStep

\* A DKG or refresh is admitted when nothing is in flight.
LEMMA AdmitAlone ==
  ASSUME Exclusive, TypeOK, SharingInv, NEW r \in Requests, Starts(r), AdmitRekey,
         NEW pc \in {"dkg_nodes", "refresh_nodes", "failed"}, Set(r, Frame(pc)),
         UNCHANGED <<net, secret>>
  PROVE  SharingInv'
<1>1. InFlight = {} /\ \A s \in Requests : s \in InFlight => s = r
  BY DEF AdmitRekey
<1>2. KeySharing
  BY <1>1 DEF InFlight, RekeyPcs, WritingPcs, SharingInv
<1>3. req'[r].pc = pc
  BY SetOthers, FrameFields
<1>4. ReqSharing(r)' /\ KeySharing'
  BY <1>2, <1>3 DEF ReqSharing, KeySharing
<1>5. QED
  BY <1>1, <1>4, AloneStep

LEMMA DkgSharing ==
  ASSUME Exclusive, TypeOK, SharingInv, NEW r \in Requests, Dkg(r)
  PROVE  SharingInv'
<1>1. CASE DkgReadNetwork(r)
  <2>1. \E pc \in {"dkg_nodes", "failed"} : Set(r, Frame(pc))
    BY <1>1 DEF DkgReadNetwork, Fail
  <2>2. QED
    BY <1>1, <2>1, AdmitAlone DEF DkgReadNetwork, db
<1>2. CASE DkgReadNodes(r)
  <2>1. UNCHANGED <<net, secret>> /\ KeySharing
    BY <1>2, RekeyIsAlone DEF DkgReadNodes, db, RekeyPcs, WritingPcs
  <2>2. \A s \in Requests : s \in InFlight => s = r
    BY <1>2, RekeyIsAlone DEF DkgReadNodes, RekeyPcs
  <2>3. CASE rows # N
    <3>1. KeySharing'
      BY <2>1 DEF KeySharing
    <3>2. QED
      BY <1>2, <2>2, <2>3, <3>1, ReturnAlone DEF DkgReadNodes, Fail
  <2>4. CASE rows = N
    <3> DEFINE f == [Frame("dkg_write") EXCEPT !.shares = DealtShares(r)]
    <3>1. Set(r, f)
      BY <1>2, <2>4 DEF DkgReadNodes
    <3>2. f.pc = "dkg_write" /\ f.next = 1 /\ f.shares = DealtShares(r)
      BY DEF Frame
    <3> HIDE DEF f
    <3>3. req'[r] = f
      BY <3>1, SetOthers
    <3>4. ReqSharing(r)'
      BY <3>2, <3>3 DEF ReqSharing, Written
    <3>5. QED
      BY <2>2, <3>1, <3>2, <3>4, AloneStep DEF WritingPcs
  <2>5. QED
    BY <2>3, <2>4
<1>3. CASE DkgWriteShare(r)
  <2> DEFINE k == req[r].next
  <2>1. /\ req[r].pc = "dkg_write" /\ req[r].shares \in [Nodes -> Share] /\ k \in Nodes
        /\ req[r].shares = DealtShares(r) /\ Written(req[r].shares, k - 1)
    BY <1>3 DEF DkgWriteShare, TypeOK, RekeyPcs, SharingInv, ReqSharing
  <2>2. \A s \in Requests : s \in InFlight => s = r
    BY <2>1, RekeyIsAlone DEF RekeyPcs
  <2>3. \A i \in 1..k : secret'[i] = req[r].shares[i]
    BY <1>3, <2>1, WriteRow DEF DkgWriteShare
  <2>4. CASE k = N
    <3> DEFINE f == GoTo(req[r], "dkg_publish", 1)
    <3>1. Set(r, f)
      BY <1>3, <2>4 DEF DkgWriteShare
    <3>2. f.pc = "dkg_publish"
      BY GoToReq DEF Pcs, RekeyPcs
    <3> HIDE DEF f
    <3>3. SharingOf(secret, r)'
      <4>1. \A i \in Nodes : secret'[i] = [gen |-> r, deltas |-> {}]
        BY <2>1, <2>3, <2>4 DEF DealtShares, Nodes
      <4>2. QED
        BY <4>1 DEF SharingOf
    <3>4. ReqSharing(r)'
      BY <3>1, <3>2, <3>3, SetOthers DEF ReqSharing
    <3>5. QED
      BY <2>2, <3>1, <3>2, <3>4, AloneStep DEF WritingPcs
  <2>5. CASE k # N
    <3> DEFINE f == GoTo(req[r], "dkg_write", k + 1)
    <3>1. Set(r, f)
      BY <1>3, <2>5 DEF DkgWriteShare
    <3>2. f.pc = "dkg_write" /\ f.next = k + 1 /\ f.shares = req[r].shares
      <4>1. "dkg_write" \in Pcs /\ k + 1 \in Nat \ {0}
        BY <2>1 DEF Pcs, RekeyPcs, Nodes
      <4>2. QED
        BY <4>1, GoToReq
    <3> HIDE DEF f
    <3>3. req'[r] = f /\ f.next - 1 = k
      BY <2>1, <3>1, <3>2, SetOthers DEF Nodes
    <3>4. ReqSharing(r)'
      BY <2>1, <2>3, <3>2, <3>3 DEF ReqSharing, Written
    <3>5. QED
      BY <2>2, <3>1, <3>2, <3>4, AloneStep DEF WritingPcs
  <2>6. QED
    BY <2>4, <2>5
<1>4. CASE DkgPublish(r)
  <2>1. req[r].pc = "dkg_publish" /\ SharingOf(secret, r)
    BY <1>4 DEF DkgPublish, SharingInv, ReqSharing
  <2>2. \A s \in Requests : s \in InFlight => s = r
    BY <2>1, RekeyIsAlone DEF RekeyPcs
  <2>3. KeySharing'
    BY <1>4, <2>1 DEF DkgPublish, KeySharing, SharingOf
  <2>4. QED
    BY <1>4, <2>2, <2>3, ReturnAlone DEF DkgPublish, Return
<1>5. QED
  BY <1>1, <1>2, <1>3, <1>4 DEF Dkg

LEMMA RefreshSharing ==
  ASSUME Exclusive, TypeOK, SharesDealt, SharingInv, NEW r \in Requests, Refresh(r)
  PROVE  SharingInv'
<1>1. CASE RefreshReadNetwork(r)
  <2>1. \E pc \in {"refresh_nodes", "failed"} : Set(r, Frame(pc))
    BY <1>1 DEF RefreshReadNetwork, Fail
  <2>2. QED
    BY <1>1, <2>1, AdmitAlone DEF RefreshReadNetwork, db
<1>2. CASE RefreshReadNodes(r)
  <2>1. UNCHANGED <<net, secret>> /\ KeySharing
    BY <1>2, RekeyIsAlone DEF RefreshReadNodes, db, RekeyPcs, WritingPcs
  <2>2. \A s \in Requests : s \in InFlight => s = r
    BY <1>2, RekeyIsAlone DEF RefreshReadNodes, RekeyPcs
  <2>3. CASE rows # N
    <3>1. KeySharing'
      BY <2>1 DEF KeySharing
    <3>2. QED
      BY <1>2, <2>2, <2>3, <3>1, ReturnAlone DEF RefreshReadNodes, Fail
  <2>4. CASE rows = N
    <3> DEFINE f == [Frame("refresh_secret") EXCEPT
                       !.shares = RefreshedShares(r, secret), !.epoch = epoch[1] + 1]
    <3>1. Set(r, f)
      BY <1>2, <2>4 DEF RefreshReadNodes
    <3>2. f.pc = "refresh_secret" /\ f.next = 1 /\ f.shares = RefreshedShares(r, secret)
      BY DEF Frame
    <3> HIDE DEF f
    <3>3. req'[r] = f
      BY <3>1, SetOthers
    <3>4. SharingOf(f.shares, net.pk)
      <4>1. net.state = "dkg_complete" /\ secret \in [Nodes -> Share]
        BY <1>2 DEF RefreshReadNodes, SharesDealt, TypeOK
      <4>2. QED
        BY <2>1, <3>2, <4>1, SharingsKept DEF KeySharing
    <3>5. ReqSharing(r)'
      BY <2>1, <3>2, <3>3, <3>4 DEF ReqSharing, Written
    <3>6. QED
      BY <2>2, <3>1, <3>2, <3>5, AloneStep DEF WritingPcs
  <2>5. QED
    BY <2>3, <2>4
<1>3. CASE RefreshWriteShare(r)
  <2> DEFINE k == req[r].next
  <2>1. /\ req[r].pc = "refresh_secret" /\ req[r].shares \in [Nodes -> Share] /\ k \in Nodes
        /\ Written(req[r].shares, k - 1) /\ SharingOf(req[r].shares, net.pk)
    BY <1>3 DEF RefreshWriteShare, TypeOK, RekeyPcs, SharingInv, ReqSharing
  <2>2. \A s \in Requests : s \in InFlight => s = r
    BY <2>1, RekeyIsAlone DEF RekeyPcs
  <2>3. \A i \in 1..k : secret'[i] = req[r].shares[i]
    BY <1>3, <2>1, WriteRow DEF RefreshWriteShare
  <2> DEFINE f == GoTo(req[r], "refresh_epoch", k)
  <2>4. Set(r, f) /\ net' = net
    BY <1>3 DEF RefreshWriteShare
  <2>5. f.pc = "refresh_epoch" /\ f.next = k /\ f.shares = req[r].shares
    <3>1. "refresh_epoch" \in Pcs /\ k \in Nat \ {0}
      BY <2>1 DEF Pcs, RekeyPcs, Nodes
    <3>2. QED
      BY <3>1, GoToReq
  <2> HIDE DEF f
  <2>6. req'[r] = f
    BY <2>4, SetOthers
  <2>7. ReqSharing(r)'
    BY <2>1, <2>3, <2>4, <2>5, <2>6 DEF ReqSharing, Written, SharingOf
  <2>8. QED
    BY <2>2, <2>4, <2>5, <2>7, AloneStep DEF WritingPcs
<1>4. CASE RefreshWriteEpoch(r)
  <2> DEFINE k == req[r].next
  <2>1. /\ req[r].pc = "refresh_epoch" /\ req[r].shares \in [Nodes -> Share] /\ k \in Nodes
        /\ Written(req[r].shares, k) /\ SharingOf(req[r].shares, net.pk)
    BY <1>4 DEF RefreshWriteEpoch, TypeOK, RekeyPcs, SharingInv, ReqSharing
  <2>2. \A s \in Requests : s \in InFlight => s = r
    BY <2>1, RekeyIsAlone DEF RekeyPcs
  <2>3. UNCHANGED <<net, secret>>
    BY <1>4 DEF RefreshWriteEpoch
  <2>4. CASE k = N
    <3>1. SharingOf(secret, net.pk)
      BY <2>1, <2>4, AllWritten
    <3>2. KeySharing'
      BY <2>3, <3>1 DEF KeySharing
    <3>3. QED
      BY <1>4, <2>2, <2>4, <3>2, ReturnAlone DEF RefreshWriteEpoch, Return
  <2>5. CASE k # N
    <3> DEFINE f == GoTo(req[r], "refresh_secret", k + 1)
    <3>1. Set(r, f)
      BY <1>4, <2>5 DEF RefreshWriteEpoch
    <3>2. f.pc = "refresh_secret" /\ f.next = k + 1 /\ f.shares = req[r].shares
      <4>1. "refresh_secret" \in Pcs /\ k + 1 \in Nat \ {0}
        BY <2>1 DEF Pcs, RekeyPcs, Nodes
      <4>2. QED
        BY <4>1, GoToReq
    <3> HIDE DEF f
    <3>3. req'[r] = f /\ f.next - 1 = k
      BY <2>1, <3>1, <3>2, SetOthers DEF Nodes
    <3>4. ReqSharing(r)'
      BY <2>1, <2>3, <3>2, <3>3 DEF ReqSharing, Written, SharingOf
    <3>5. QED
      BY <2>2, <3>1, <3>2, <3>4, AloneStep DEF WritingPcs
  <2>6. QED
    BY <2>4, <2>5
<1>5. QED
  BY <1>1, <1>2, <1>3, <1>4 DEF Refresh

LEMMA SignSharing ==
  ASSUME Exclusive, TypeOK, SharesDealt, SharingInv, NEW r \in Requests, Sign(r)
  PROVE  SharingInv'
<1>1. ASSUME Rekeying = {}, NEW f, Set(r, f), UNCHANGED <<net, secret>>,
             f.pc \in {"sign_nodes", "done", "failed"}
      PROVE  SharingInv'
  <2>1. f.pc \notin RekeyPcs /\ f.pc \notin {"sign_ledger", "sign_tx"}
    BY <1>1 DEF RekeyPcs
  <2>2. QED
    BY <1>1, <2>1, SigningStep
<1>2. Frame("done").pc = "done" /\ Frame("failed").pc = "failed"
  BY FrameFields
<1>3. ASSUME NEW q \in Quorums, NEW decodes \in BOOLEAN, SignReadNetwork(r, q, decodes)
      PROVE  SharingInv'
  <2>1. Rekeying = {} /\ UNCHANGED <<net, secret>>
    BY <1>3 DEF SignReadNetwork, AdmitSign, db
  <2>2. Accepted(q, <<TRUE>>).pc = "sign_nodes"
    <3>1. q \in Seq(Nat) /\ <<TRUE>> \in Seq(BOOLEAN)
      BY InputAssumption
    <3>2. QED
      BY <3>1, AcceptedFields
  <2>3. QED
    BY <1>1, <1>2, <1>3, <2>1, <2>2 DEF SignReadNetwork, Fail
<1>4. ASSUME NEW q \in Quorums, NEW msgs \in Batches, BatchReadNetwork(r, q, msgs)
      PROVE  SharingInv'
  <2>1. Rekeying = {} /\ UNCHANGED <<net, secret>>
    BY <1>4 DEF BatchReadNetwork, AdmitSign, db
  <2>2. Accepted(q, msgs).pc = "sign_nodes"
    BY InputAssumption, AcceptedFields
  <2>3. QED
    BY <1>1, <1>2, <1>4, <2>1, <2>2 DEF BatchReadNetwork, Fail
<1>5. CASE SignReadNodes(r)
  <2>1. Rekeying = {} /\ UNCHANGED <<net, secret>> /\ net.state = "dkg_complete"
    BY <1>5, SignersMeetNoRekey DEF SignReadNodes, SignPcs, db, SharesDealt
  <2>2. SharingOf(secret, net.pk)
    <3>1. \A s \in Requests : req[s].pc \notin WritingPcs
      BY <2>1 DEF Rekeying, RekeyPcs, WritingPcs
    <3>2. QED
      BY <2>1, <3>1 DEF SharingInv, KeySharing
  <2> DEFINE f == [req[r] EXCEPT !.pc = "sign_ledger", !.shares = secret]
  <2>3. f.pc = "sign_ledger" /\ f.shares = secret
    BY DEF TypeOK
  <2>4. f.pc \notin RekeyPcs
    BY <2>3 DEF RekeyPcs
  <2>5. Set(r, f) \/ Fail(r)
    BY <1>5 DEF SignReadNodes
  <2> HIDE DEF f
  <2>6. QED
    BY <1>1, <1>2, <2>1, <2>2, <2>3, <2>4, <2>5, SigningStep DEF Fail
<1>6. CASE StoreLedgerEntry(r)
  <2>1. Rekeying = {} /\ UNCHANGED <<net, secret>> /\ SharingOf(req[r].shares, net.pk)
    BY <1>6, SignersMeetNoRekey DEF StoreLedgerEntry, SignPcs, SharingInv, ReqSharing
  <2> DEFINE f == GoTo(req[r], "sign_tx", req[r].next)
  <2>2. f.pc = "sign_tx" /\ f.shares = req[r].shares
    <3>1. "sign_tx" \in Pcs /\ req[r].next \in Nat \ {0}
      BY DEF Pcs, SignPcs, TypeOK
    <3>2. QED
      BY <3>1, GoToReq
  <2>3. Set(r, f)
    BY <1>6 DEF StoreLedgerEntry
  <2> HIDE DEF f
  <2>4. QED
    BY <2>1, <2>2, <2>3, SigningStep DEF RekeyPcs
<1>7. CASE RejectMessage(r)
  <2>1. Rekeying = {} /\ UNCHANGED <<net, secret>>
    BY <1>7, SignersMeetNoRekey DEF RejectMessage, SignPcs, db
  <2>2. QED
    BY <1>1, <1>2, <1>7, <2>1 DEF RejectMessage, Fail
<1>8. CASE StoreSignedTx(r)
  <2>1. Rekeying = {} /\ UNCHANGED <<net, secret>> /\ SharingOf(req[r].shares, net.pk)
    BY <1>8, SignersMeetNoRekey DEF StoreSignedTx, SignPcs, SharingInv, ReqSharing
  <2> DEFINE f == GoTo(req[r], "sign_ledger", req[r].next + 1)
  <2>2. f.pc = "sign_ledger" /\ f.shares = req[r].shares
    <3>1. "sign_ledger" \in Pcs /\ req[r].next + 1 \in Nat \ {0}
      BY DEF Pcs, SignPcs, TypeOK
    <3>2. QED
      BY <3>1, GoToReq
  <2>3. Set(r, f) \/ Return(r)
    BY <1>8 DEF StoreSignedTx
  <2> HIDE DEF f
  <2>4. QED
    BY <1>1, <1>2, <2>1, <2>2, <2>3, SigningStep DEF RekeyPcs, Return
<1>9. QED
  BY <1>3, <1>4, <1>5, <1>6, <1>7, <1>8 DEF Sign

LEMMA SharingStep ==
  ASSUME Undisturbed, TypeOK, SharesDealt, SharingInv, [Next]_vars
  PROVE  SharingInv'
<1>1. \A r \in Requests : ~Abort(r)
  BY DEF Undisturbed, Abort, TypeOK
<1>2. CASE AbortCreate \/ Quiet \/ UNCHANGED vars
  BY <1>2 DEF AbortCreate, Quiet, vars, db, SharingInv, InFlight, Rekeying, ReqSharing,
              KeySharing, Written, SharingOf
<1>3. QED
  BY <1>1, <1>2, CreateSharing, DkgSharing, RefreshSharing, SignSharing DEF Next, Undisturbed

\* A maintenance window around DKG and refresh keeps every node's share one of
\* the published key (dkg.rs:62-135, refresh.rs:45-117): SharingInv.
THEOREM SharesBelongTogether ==
  ASSUME Undisturbed
  PROVE  Spec => []SharingInv
<1>1. Init => SharingInv
  BY DEF Init, SharingInv, InFlight, Rekeying, ReqSharing, KeySharing, Frame, RekeyPcs,
         SignPcs
<1>2. TypeOK /\ SharesDealt /\ SharingInv /\ [Next]_vars => SharingInv'
  BY SharingStep
<1>3. QED
  BY <1>1, <1>2, TypeCorrect, SharesAlwaysDealt, PTL DEF Spec

\* Whenever no request is in flight, the shares in the node rows are shares of
\* the published key, however many DKGs and refreshes ran, when none of them
\* overlapped another request or was cut off (dkg.rs:113-126, refresh.rs:100-117).
THEOREM KeyStaysUsable ==
  ASSUME Undisturbed
  PROVE  Spec => []KeyUsable
<1>1. TypeOK /\ SharingInv => KeyUsable
  <2> SUFFICES ASSUME TypeOK, SharingInv, net.state = "dkg_complete", InFlight = {}
               PROVE  Consistent({secret[i] : i \in Nodes}, net.pk)
    BY DEF KeyUsable
  <2>1. \A r \in Requests : req[r].pc \notin WritingPcs
    BY DEF InFlight, RekeyPcs, WritingPcs
  <2>2. SharingOf(secret, net.pk) /\ net.pk \in Requests
    BY <2>1, NoneAssumption DEF SharingInv, KeySharing, TypeOK
  <2>3. QED
    BY <2>2, SomeNode, SharingCombines
<1>2. QED
  BY <1>1, SharesBelongTogether, TypeCorrect, PTL

-----------------------------------------------------------------------------
(* No transaction is recorded twice.  FreshInv is inductive: a request     *)
(* signs its messages in order, each once, and never starts again.         *)

Fresh(r) ==
  LET f == req[r]
  IN  /\ f.pc \in SignPcs => Len(f.msgs) <= MaxBatch
      /\ \A e \in ledger : e.tx[1] = r =>
           /\ f.pc \notin {"idle", "sign_nodes"}
           /\ f.pc = "sign_ledger" => e.tx[2] < f.next
           /\ f.pc = "sign_tx" => e.tx[2] <= f.next

FreshInv == \A r \in Requests : Fresh(r)

\* A step of one request that records nothing.
LEMMA FreshOthers ==
  ASSUME TypeOK, FreshInv, NEW r \in Requests, NEW f, Set(r, f), ledger' = ledger, Fresh(r)'
  PROVE  FreshInv'
<1>1. \A s \in Requests \ {r} : req'[s] = req[s]
  BY SetOthers
<1>2. QED
  BY <1>1 DEF FreshInv, Fresh

\* A request that starts to rekey, goes on doing so or returns has nothing to sign.
LEMMA FreshPast ==
  ASSUME TypeOK, FreshInv, NEW r \in Requests, NEW f, Set(r, f), ledger' = ledger,
         f.pc \in RekeyPcs \cup {"done", "failed"}
  PROVE  FreshInv'
<1>1. req'[r] = f
  BY SetOthers
<1>2. f.pc \notin SignPcs \cup {"idle"}
  BY DEF RekeyPcs, SignPcs
<1>3. Fresh(r)'
  BY <1>1, <1>2 DEF Fresh, SignPcs
<1>4. QED
  BY <1>3, FreshOthers

LEMMA FreshRekey ==
  ASSUME TypeOK, FreshInv, NEW r \in Requests, Dkg(r) \/ Refresh(r) \/ Abort(r)
  PROVE  FreshInv'
<1>1. \A pc \in {"dkg_nodes", "refresh_nodes", "done", "failed"} :
        Frame(pc).pc \in RekeyPcs \cup {"done", "failed"}
  BY FrameFields DEF RekeyPcs
<1>2. /\ [Frame("dkg_write") EXCEPT !.shares = DealtShares(r)].pc \in RekeyPcs
      /\ [Frame("refresh_secret") EXCEPT !.shares = RefreshedShares(r, secret),
                                         !.epoch = epoch[1] + 1].pc \in RekeyPcs
  BY DEF Frame, RekeyPcs
<1>3. ASSUME NEW pc \in RekeyPcs, NEW k PROVE GoTo(req[r], pc, k).pc \in RekeyPcs
  BY <1>3 DEF GoTo, TypeOK
<1>4. \E f : Set(r, f) /\ f.pc \in RekeyPcs \cup {"done", "failed"}
  <2>1. CASE Dkg(r)
    BY <2>1, <1>1, <1>2, <1>3 DEF Dkg, DkgReadNetwork, DkgReadNodes, DkgWriteShare,
                                  DkgPublish, Return, Fail, RekeyPcs
  <2>2. CASE Refresh(r)
    BY <2>2, <1>1, <1>2, <1>3 DEF Refresh, RefreshReadNetwork, RefreshReadNodes,
                                  RefreshWriteShare, RefreshWriteEpoch, Return, Fail, RekeyPcs
  <2>3. CASE Abort(r)
    BY <2>3, <1>1 DEF Abort, Fail
  <2>4. QED
    BY <2>1, <2>2, <2>3
<1>5. ledger' = ledger
  BY DEF Dkg, DkgReadNetwork, DkgReadNodes, DkgWriteShare, DkgPublish, Refresh,
         RefreshReadNetwork, RefreshReadNodes, RefreshWriteShare, RefreshWriteEpoch,
         Abort, db
<1>6. QED
  BY <1>4, <1>5, FreshPast

LEMMA FreshSign ==
  ASSUME TypeOK, FreshInv, NEW r \in Requests, Sign(r)
  PROVE  FreshInv'
<1>1. ASSUME NEW pc \in {"done", "failed"}, Set(r, Frame(pc)), ledger' = ledger
      PROVE  FreshInv'
  <2>1. Frame(pc).pc = pc
    BY FrameFields
  <2>2. QED
    BY <1>1, <2>1, FreshPast
<1>2. ASSUME NEW q \in Seq(Nat), NEW m \in Seq(BOOLEAN), Len(m) <= MaxBatch, Starts(r),
             Set(r, Accepted(q, m)), ledger' = ledger
      PROVE  FreshInv'
  <2>1. req'[r] = Accepted(q, m)
    BY <1>2, SetOthers
  <2>2. Accepted(q, m).pc = "sign_nodes" /\ Accepted(q, m).msgs = m
    BY AcceptedFields
  <2>3. \A e \in ledger : e.tx[1] # r
    BY <1>2 DEF Starts, FreshInv, Fresh
  <2>4. Fresh(r)'
    BY <1>2, <2>1, <2>2, <2>3 DEF Fresh
  <2>5. QED
    BY <1>2, <2>4, FreshOthers
<1>3. ASSUME NEW q \in Quorums, NEW decodes \in BOOLEAN, SignReadNetwork(r, q, decodes)
      PROVE  FreshInv'
  <2>1. q \in Seq(Nat) /\ <<TRUE>> \in Seq(BOOLEAN) /\ Len(<<TRUE>>) <= MaxBatch
    BY InputAssumption
  <2>2. QED
    BY <1>1, <1>2, <1>3, <2>1 DEF SignReadNetwork, Fail, db
<1>4. ASSUME NEW q \in Quorums, NEW msgs \in Batches, BatchReadNetwork(r, q, msgs)
      PROVE  FreshInv'
  <2>1. q \in Seq(Nat) /\ msgs \in Seq(BOOLEAN)
    BY InputAssumption
  <2>2. Len(msgs) \in 1..MaxBatch => Len(msgs) <= MaxBatch
    BY InputAssumption
  <2>3. QED
    BY <1>1, <1>2, <1>4, <2>1, <2>2 DEF BatchReadNetwork, Fail, db
<1>5. CASE SignReadNodes(r)
  <2> DEFINE f == [req[r] EXCEPT !.pc = "sign_ledger", !.shares = secret]
  <2>1. f.pc = "sign_ledger" /\ f.msgs = req[r].msgs /\ f.next = req[r].next
    BY DEF TypeOK
  <2>2. Fail(r) \/ Set(r, f)
    BY <1>5 DEF SignReadNodes
  <2> HIDE DEF f
  <2>3. CASE Fail(r)
    BY <1>1, <1>5, <2>3 DEF SignReadNodes, Fail, db
  <2>4. CASE Set(r, f)
    <3>1. req'[r] = f /\ ledger' = ledger /\ req[r].pc = "sign_nodes"
      BY <1>5, <2>4, SetOthers DEF SignReadNodes, db
    <3>2. Fresh(r)'
      BY <2>1, <3>1 DEF FreshInv, Fresh, SignPcs
    <3>3. QED
      BY <2>4, <3>1, <3>2, FreshOthers
  <2>5. QED
    BY <2>2, <2>3, <2>4
<1>6. CASE StoreLedgerEntry(r)
  <2> DEFINE f == GoTo(req[r], "sign_tx", req[r].next)
  <2>1. Set(r, f) /\ ledger' = ledger \cup {Tx(r)} /\ req[r].pc = "sign_ledger"
    BY <1>6 DEF StoreLedgerEntry
  <2>2. f.pc = "sign_tx" /\ f.next = req[r].next /\ f.msgs = req[r].msgs
    <3>1. "sign_tx" \in Pcs /\ req[r].next \in Nat \ {0}
      BY DEF Pcs, SignPcs, TypeOK
    <3>2. QED
      BY <3>1, GoToReq
  <2> HIDE DEF f
  <2>3. req'[r] = f /\ \A s \in Requests \ {r} : req'[s] = req[s]
    BY <2>1, SetOthers
  <2>4. Tx(r).tx[1] = r /\ Tx(r).tx[2] = req[r].next
    BY DEF Tx
  <2>5. req[r].next \in Nat /\ \A e \in ledger : e.tx[2] \in Nat
    BY DEF TypeOK, Transaction
  <2>6. Fresh(r)'
    BY <2>1, <2>2, <2>3, <2>4, <2>5 DEF FreshInv, Fresh, SignPcs
  <2>7. \A s \in Requests \ {r} : Fresh(s)'
    BY <2>1, <2>3, <2>4 DEF FreshInv, Fresh
  <2>8. QED
    BY <2>6, <2>7 DEF FreshInv
<1>7. CASE RejectMessage(r)
  BY <1>1, <1>7 DEF RejectMessage, Fail, db
<1>8. CASE StoreSignedTx(r)
  <2> DEFINE f == GoTo(req[r], "sign_ledger", req[r].next + 1)
  <2>1. req[r].next \in Nat \ {0} /\ \A e \in ledger : e.tx[2] \in Nat
    BY DEF TypeOK, Transaction
  <2>2. f.pc = "sign_ledger" /\ f.next = req[r].next + 1 /\ f.msgs = req[r].msgs
    <3>1. "sign_ledger" \in Pcs /\ req[r].next + 1 \in Nat \ {0}
      BY <2>1 DEF Pcs, SignPcs
    <3>2. QED
      BY <3>1, GoToReq
  <2>3. (Set(r, Frame("done")) \/ Set(r, f)) /\ ledger' = ledger /\ req[r].pc = "sign_tx"
    BY <1>8 DEF StoreSignedTx, Return
  <2> HIDE DEF f
  <2>4. CASE Set(r, Frame("done"))
    BY <1>1, <2>3, <2>4
  <2>5. CASE Set(r, f)
    <3>1. req'[r] = f
      BY <2>5, SetOthers
    <3>2. Fresh(r)'
      BY <2>1, <2>2, <2>3, <3>1 DEF FreshInv, Fresh, SignPcs
    <3>3. QED
      BY <2>3, <2>5, <3>2, FreshOthers
  <2>6. QED
    BY <2>3, <2>4, <2>5
<1>9. QED
  BY <1>3, <1>4, <1>5, <1>6, <1>7, <1>8 DEF Sign

\* Each transaction is recorded at most once, by the request that named it.
LEMMA TransactionsAreFresh == Spec => []FreshInv
<1>1. Init => FreshInv
  BY DEF Init, FreshInv, Fresh, Frame, SignPcs
<1>2. TypeOK /\ FreshInv /\ [Next]_vars => FreshInv'
  <2> SUFFICES ASSUME TypeOK, FreshInv, [Next]_vars
               PROVE  FreshInv'
    OBVIOUS
  <2>1. CASE Create \/ AbortCreate \/ Quiet \/ UNCHANGED vars
    BY <2>1 DEF Create, AbortCreate, InsertNetwork, InsertNode, FinishCreate, Quiet, db,
                vars, FreshInv, Fresh
  <2>2. QED
    BY <2>1, FreshRekey, FreshSign DEF Next
<1>3. QED
  BY <1>1, <1>2, TypeCorrect, PTL DEF Spec

-----------------------------------------------------------------------------
(* The refinement, step by step: an insert into the ledger is the abstract *)
(* Sign, publishing a DKG's key is GenerateKey, and every other statement  *)
(* of every handler is invisible to clients.                               *)

\* The service counts members as the network does.
LEMMA SameCardinality == \A S : Service!Cardinality(S) = Cardinality(S)
BY DEF Cardinality, Service!Cardinality

\* A signature about to be stored is one of enough members, under the
\* published key and no other.
LEMMA TxCombines ==
  ASSUME TypeOK, SharesDealt, SharingInv, NEW r \in Requests, StoreLedgerEntry(r)
  PROVE  /\ net.pk \in Requests
         /\ Members(req[r].quorum) \subseteq Nodes
         /\ Cardinality(Members(req[r].quorum)) >= T + 1
         /\ \A h : Consistent(Tx(r).combined, h) <=> h = net.pk
<1> DEFINE by == Members(req[r].quorum)
<1>1. /\ req[r].pc = "sign_ledger" /\ req[r].pc \in SignPcs
      /\ Combinable(req[r].quorum) /\ req[r].quorum \in Seq(Nat)
  BY DEF StoreLedgerEntry, TypeOK, SignPcs
<1>2. net.pk \in Requests /\ SharingOf(req[r].shares, net.pk)
  BY <1>1, NoneAssumption DEF SharesDealt, SharingInv, ReqSharing, TypeOK
<1>3. Cardinality(by) >= T + 1 /\ by \in SUBSET Nodes
  BY <1>1, DistinctMembers DEF Members, Found
<1>4. by # {}
  BY <1>3, FS_EmptySet, SizeAssumption
<1>5. Tx(r).combined = {req[r].shares[i] : i \in by}
  BY DEF Tx
<1>6. \A h : Consistent(Tx(r).combined, h) <=> h = net.pk
  BY <1>2, <1>3, <1>4, <1>5, SharingCombines
<1>7. QED
  BY <1>2, <1>3, <1>6

\* A new ledger row is a fresh transaction, signed under the published key by
\* enough members.
LEMMA StoreIsSign ==
  ASSUME TypeOK, SharesDealt, SharingInv, FreshInv, NEW r \in Requests, StoreLedgerEntry(r)
  PROVE  Service!Next
<1> DEFINE tx == <<r, req[r].next>>
           by == Members(req[r].quorum)
<1>1. /\ req[r].pc = "sign_ledger" /\ req[r].pc \in SignPcs
      /\ req[r].next \in DOMAIN req[r].msgs /\ req[r].msgs \in Seq(BOOLEAN)
  BY DEF StoreLedgerEntry, TypeOK, SignPcs
<1>2. net.pk \in Requests
  BY TxCombines
<1>3. Cardinality(by) >= T + 1 /\ by \in SUBSET Nodes
  BY TxCombines
<1>4. KeyOf(Tx(r)) = net.pk
  BY <1>2, TxCombines DEF KeyOf
<1>5. tx \in Requests \X (1..MaxBatch)
  <2>1. Len(req[r].msgs) <= MaxBatch
    BY <1>1 DEF FreshInv, Fresh
  <2>2. req[r].next \in 1..MaxBatch
    BY <1>1, <2>1, InputAssumption
  <2>3. QED
    BY <2>2
<1>6. \A e \in Signed : e.tx # tx
  <2>1. ASSUME NEW e \in ledger, e.tx = tx PROVE FALSE
    <3>1. e.tx[1] = r /\ e.tx[2] = req[r].next /\ req[r].next \in Nat
      BY <2>1 DEF TypeOK
    <3>2. e.tx[2] < req[r].next
      BY <1>1, <3>1 DEF FreshInv, Fresh
    <3>3. QED
      BY <3>1, <3>2
  <2>2. QED
    BY <2>1 DEF Signed
<1>7. Signed' = Signed \cup {[tx |-> tx, by |-> by, key |-> net.pk]}
  <2>1. ledger' = ledger \cup {Tx(r)}
    BY DEF StoreLedgerEntry
  <2>2. Signed' = Signed \cup {[tx |-> Tx(r).tx, by |-> Members(Tx(r).signers),
                               key |-> KeyOf(Tx(r))]}
    BY <2>1 DEF Signed
  <2>3. Tx(r).tx = tx /\ Members(Tx(r).signers) = by
    BY DEF Tx
  <2>4. QED
    BY <1>4, <2>2, <2>3
<1>8. net.pk # None /\ net'.pk = net.pk
  BY <1>2, NoneAssumption DEF StoreLedgerEntry
<1>9. Service!Sign(tx, by)
  BY <1>3, <1>6, <1>7, <1>8, SameCardinality DEF Service!Sign
<1> HIDE DEF tx, by
<1>10. QED
  BY <1>3, <1>5, <1>9 DEF Service!Next

\* A step that records nothing and leaves the network row alone is invisible.
LEMMA Invisible ==
  ASSUME net' = net, ledger' = ledger
  PROVE  UNCHANGED <<net.pk, Signed>>
BY DEF Signed

\* Every step of the server is a step of the service or a stutter.
LEMMA ServiceStep ==
  ASSUME TypeOK, SharesDealt, SharingInv, FreshInv, [Next]_vars
  PROVE  [Service!Next]_<<net.pk, Signed>>
<1>1. CASE Create \/ AbortCreate \/ Quiet \/ UNCHANGED vars
  <2>1. CASE InsertNetwork
    <3>1. net.pk = None /\ net'.pk = None /\ ledger' = ledger
      BY <2>1 DEF InsertNetwork, SharesDealt, TypeOK
    <3>2. QED
      BY <3>1 DEF Signed
  <2>2. QED
    BY <1>1, <2>1, Invisible DEF Create, AbortCreate, InsertNode, FinishCreate, Quiet, db,
                                 vars
<1>2. ASSUME NEW r \in Requests, Dkg(r) PROVE [Service!Next]_<<net.pk, Signed>>
  <2>1. CASE DkgPublish(r)
    <3>1. net'.pk = r /\ Signed' = Signed
      BY <2>1 DEF DkgPublish, Signed
    <3>2. Service!GenerateKey(r)
      BY <3>1 DEF Service!GenerateKey
    <3>3. QED
      BY <3>2 DEF Service!Next
  <2>2. QED
    BY <1>2, <2>1, Invisible DEF Dkg, DkgReadNetwork, DkgReadNodes, DkgWriteShare, db
<1>3. ASSUME NEW r \in Requests, Sign(r) PROVE [Service!Next]_<<net.pk, Signed>>
  <2>1. CASE StoreLedgerEntry(r)
    BY <2>1, StoreIsSign
  <2>2. QED
    BY <1>3, <2>1, Invisible DEF Sign, SignReadNetwork, BatchReadNetwork, SignReadNodes,
                                 RejectMessage, StoreSignedTx, db
<1>4. ASSUME NEW r \in Requests, Refresh(r) \/ Abort(r)
      PROVE  [Service!Next]_<<net.pk, Signed>>
  BY <1>4, Invisible DEF Refresh, RefreshReadNetwork, RefreshReadNodes, RefreshWriteShare,
                         RefreshWriteEpoch, Abort, db
<1>5. QED
  BY <1>1, <1>2, <1>3, <1>4 DEF Next

\* Run with a maintenance window around DKG and refresh and with no request cut
\* off, the statement-by-statement server implements the atomic service: every
\* signature it records is one of enough members under the key current then,
\* each transaction once, and refresh is invisible (dkg.rs:15-135,
\* refresh.rs:13-117, signing.rs:19-200, batch.rs:19-233).
THEOREM ServiceImplemented ==
  ASSUME Undisturbed
  PROVE  Spec => ImplementsService
<1>1. Init => Service!Init
  BY DEF Init, Service!Init, Signed
<1>2. TypeOK /\ SharesDealt /\ SharingInv /\ FreshInv /\ [Next]_vars
        => [Service!Next]_<<net.pk, Signed>>
  BY ServiceStep
<1>3. QED
  BY <1>1, <1>2, TypeCorrect, SharesAlwaysDealt, SharesBelongTogether, TransactionsAreFresh,
     PTL DEF Spec, ImplementsService, Service!Spec

\* Under the same conditions every stored signature verifies: it combines
\* shares of one sharing (signing.rs:62-164, batch.rs:150-198).
THEOREM SignaturesVerify ==
  ASSUME Undisturbed
  PROVE  Spec => []SignaturesCombine
<1>1. Init => SignaturesCombine
  BY DEF Init, SignaturesCombine
<1>2. TypeOK /\ SharesDealt /\ SharingInv /\ SignaturesCombine /\ [Next]_vars
        => SignaturesCombine'
  <2> SUFFICES ASSUME TypeOK, SharesDealt, SharingInv, SignaturesCombine, [Next]_vars
               PROVE  SignaturesCombine'
    OBVIOUS
  <2>1. CASE ledger' = ledger
    BY <2>1 DEF SignaturesCombine
  <2>2. ASSUME NEW r \in Requests, StoreLedgerEntry(r) PROVE SignaturesCombine'
    <3>1. ledger' = ledger \cup {Tx(r)}
      BY <2>2 DEF StoreLedgerEntry
    <3>2. \E g \in Requests : Consistent(Tx(r).combined, g)
      BY <2>2, TxCombines
    <3>3. QED
      BY <3>1, <3>2 DEF SignaturesCombine
  <2>3. ASSUME NEW r \in Requests, Dkg(r) \/ Refresh(r) \/ Abort(r) \/ Sign(r)
        PROVE  ledger' = ledger \/ StoreLedgerEntry(r)
    BY <2>3 DEF Dkg, Refresh, Sign, DkgReadNetwork, DkgReadNodes, DkgWriteShare, DkgPublish,
                RefreshReadNetwork, RefreshReadNodes, RefreshWriteShare, RefreshWriteEpoch,
                Abort, SignReadNetwork, BatchReadNetwork, SignReadNodes, RejectMessage,
                StoreSignedTx, db
  <2>4. CASE Create \/ AbortCreate \/ Quiet \/ UNCHANGED vars
    BY <2>1, <2>4 DEF Create, AbortCreate, InsertNetwork, InsertNode, FinishCreate, Quiet,
                      db, vars
  <2>5. QED
    BY <2>1, <2>2, <2>3, <2>4 DEF Next
<1>3. QED
  BY <1>1, <1>2, TypeCorrect, SharesAlwaysDealt, SharesBelongTogether, PTL DEF Spec
=============================================================================
