-------------------------- MODULE NetworkLifecycle --------------------------
(***************************************************************************)
(* One signing network of sigimora-server, from its creation through DKG,  *)
(* signing, batch signing and proactive refresh.                           *)
(*                                                                         *)
(* Everything the handlers share is in SQLite.  Each database call is a    *)
(* statement that commits on its own, the handler awaits it, and no lock   *)
(* or transaction spans two of them: so a step of this module is one       *)
(* statement together with the computation up to the next await, and the   *)
(* statements of different requests interleave freely.  A handler may also *)
(* stop at any await (the statement returns SQLITE_BUSY, the connection is *)
(* closed and hyper drops the future, the process dies): what it already   *)
(* wrote stays.                                                            *)
(*                                                                         *)
(* Cryptography is abstracted to what decides whether a signature can      *)
(* verify.  A share is the DKG run that dealt it and the set of refreshes  *)
(* added to it; shares combine to a signature under a key exactly when all *)
(* of them carry the same refreshes and come from the run that made the    *)
(* key (a delta on some signers only leaves a random error term, so the    *)
(* negligible chance that it cancels is ignored).                          *)
(***************************************************************************)
EXTENDS Naturals, Sequences, FiniteSets

CONSTANTS
  N,            \* nodes in the network (CreateNetworkRequest.n)
  T,            \* threshold parameter (CreateNetworkRequest.t); T + 1 must sign
  Requests,     \* client requests; a request also names the DKG run, refresh
                \* or transactions (UUIDs) it creates
  None,         \* SQL NULL, and "dealt by no DKG run"
  Quorums,      \* quorums clients ask for: sequences of node ids
  Batches,      \* message lists clients send: TRUE is valid hex, FALSE is not
  MaxBatch,     \* 100 in batch.rs
  Exclusive,    \* do clients run DKG and refresh while nothing else runs?
  MaxAborts     \* bound on requests cut off half way

ASSUME SizeAssumption  == N \in Nat /\ T \in Nat /\ N >= 2 /\ 1 <= T /\ T < N
ASSUME InputAssumption ==
  /\ Quorums \subseteq Seq(Nat)
  /\ Batches \subseteq Seq(BOOLEAN)
  /\ MaxBatch \in Nat \ {0}
  /\ MaxAborts \in Nat
  /\ Exclusive \in BOOLEAN
ASSUME NoneAssumption  == None \notin Requests

VARIABLES
  net,          \* the row of networks: its state and collective_pk
  rows,         \* rows of nodes inserted so far, for node ids 1..rows
  secret,       \* nodes.secret_key
  epoch,        \* nodes.epoch
  ledger,       \* rows of ledger
  signedTxs,    \* rows of signed_txs
  creator,      \* where the create_network handler stands
  req,          \* where each request stands, and the locals of its handler
  aborts        \* requests cut off so far

vars == <<net, rows, secret, epoch, ledger, signedTxs, creator, req, aborts>>
db   == <<net, rows, secret, epoch, ledger, signedTxs>>

Nodes == 1..N

-----------------------------------------------------------------------------
(* Shares and signatures. *)

Share == [gen : Requests \cup {None}, deltas : SUBSET Requests]

\* The secret create_network gives a node: random, of no sharing at all.
Placeholder == [gen |-> None, deltas |-> {}]

\* Shares of one sharing of the key of DKG run g.
Consistent(shares, g) == \E s \in Share : s.gen = g /\ shares = {s}

\* DKG run r: a fresh sharing of a fresh key.
DealtShares(r) == [i \in Nodes |-> [gen |-> r, deltas |-> {}]]

RefreshedSharesSkipLast(r, shares) ==     \* a contribution to node N is lost
  [i \in Nodes |-> IF i = N THEN shares[i]
                            ELSE [shares[i] EXCEPT !.deltas = @ \cup {r}]]

\* Every node adds its share of all N zero-constant polynomials.  They have T
\* coefficients, so with T = 1 they are the zero polynomial.
RefreshedShares(r, shares) ==
  [i \in Nodes |-> IF T = 1 THEN shares[i]
                            ELSE [shares[i] EXCEPT !.deltas = @ \cup {r}]]

-----------------------------------------------------------------------------
(* Quorums.  Unknown ids are dropped by the lookup among the node rows,    *)
(* repeated ones are kept, and make a Lagrange denominator zero.           *)

Found(q) == {j \in DOMAIN q : q[j] \in Nodes}

CombinableUnchecked(q) == Cardinality(Found(q)) >= T + 1

\* What aggregate needs to return: enough partials, at distinct indices.
Combinable(q) ==
  /\ Cardinality(Found(q)) >= T + 1
  /\ \A j, k \in Found(q) : q[j] = q[k] => j = k

Members(q) == {q[j] : j \in Found(q)}

-----------------------------------------------------------------------------
(* Requests. *)

RekeyPcs == {"dkg_nodes", "dkg_write", "dkg_publish",
             "refresh_nodes", "refresh_secret", "refresh_epoch"}
SignPcs  == {"sign_nodes", "sign_ledger", "sign_tx"}
Pcs      == RekeyPcs \cup SignPcs \cup {"idle", "done", "failed"}

Unread == [i \in Nodes |-> Placeholder]

\* The locals of a handler that has not read anything, or has returned.
Frame(pc) == [pc |-> pc, quorum |-> <<>>, msgs |-> <<>>, next |-> 1,
              shares |-> Unread, epoch |-> 0]

\* Locals f of a handler that goes on to statement pc for its k-th node or message.
GoTo(f, pc, k) == [f EXCEPT !.pc = pc, !.next = k]

\* The locals of a signing handler that accepted quorum q and messages msgs.
Accepted(q, msgs) == [Frame("sign_nodes") EXCEPT !.quorum = q, !.msgs = msgs]

InFlight == {r \in Requests : req[r].pc \in RekeyPcs \cup SignPcs}
Rekeying == {r \in Requests : req[r].pc \in RekeyPcs}

AdmitRekey == Exclusive => InFlight = {}
AdmitSign  == Exclusive => Rekeying = {}

Starts(r)     == req[r].pc = "idle"
Set(r, frame) == req' = [req EXCEPT ![r] = frame]
Return(r)     == Set(r, Frame("done"))
Fail(r)       == Set(r, Frame("failed"))

-----------------------------------------------------------------------------
(* POST /networks *)

\* The loop runs over 1..=n as u16, which truncates n: a network of more nodes
\* than there are ids gets too few rows, and no handler ever accepts it.
RowsToInsert == N % 65536

InsertNetwork ==
  /\ creator = "idle"
  /\ net' = [state |-> "created", pk |-> None]
  /\ creator' = "nodes"
  /\ UNCHANGED <<rows, secret, epoch, ledger, signedTxs, req, aborts>>

InsertNode ==
  /\ creator = "nodes" /\ rows < RowsToInsert
  /\ rows' = rows + 1
  /\ secret' = [secret EXCEPT ![rows + 1] = Placeholder]
  /\ epoch' = [epoch EXCEPT ![rows + 1] = 0]
  /\ UNCHANGED <<net, ledger, signedTxs, creator, req, aborts>>

\* The network's API key is inserted and the handler answers.
FinishCreate ==
  /\ creator = "nodes" /\ rows = RowsToInsert
  /\ creator' = "done"
  /\ UNCHANGED <<db, req, aborts>>

-----------------------------------------------------------------------------
(* POST /networks/:id/dkg *)

DkgReadNetwork(r) ==
  /\ Starts(r) /\ AdmitRekey
  /\ IF net.state \in {"created", "dkg_complete"}
       THEN Set(r, Frame("dkg_nodes"))
       ELSE Fail(r)
  /\ UNCHANGED <<db, creator, aborts>>

DkgReadNodes(r) ==
  /\ req[r].pc = "dkg_nodes"
  /\ IF rows = N
       THEN Set(r, [Frame("dkg_write") EXCEPT !.shares = DealtShares(r)])
       ELSE Fail(r)
  /\ UNCHANGED <<db, creator, aborts>>

DkgWriteShareSkipLast(r) ==               \* the loop ends one node early
  /\ req[r].pc = "dkg_write"
  /\ secret' = [secret EXCEPT ![req[r].next] = req[r].shares[req[r].next]]
  /\ Set(r, IF req[r].next >= N - 1 THEN GoTo(req[r], "dkg_publish", 1)
                                    ELSE GoTo(req[r], "dkg_write", req[r].next + 1))
  /\ UNCHANGED <<net, rows, epoch, ledger, signedTxs, creator, aborts>>

DkgWriteShare(r) ==
  /\ req[r].pc = "dkg_write"
  /\ secret' = [secret EXCEPT ![req[r].next] = req[r].shares[req[r].next]]
  /\ Set(r, IF req[r].next = N THEN GoTo(req[r], "dkg_publish", 1)
                               ELSE GoTo(req[r], "dkg_write", req[r].next + 1))
  /\ UNCHANGED <<net, rows, epoch, ledger, signedTxs, creator, aborts>>

DkgPublishNoKey(r) ==                     \* state updated, key left NULL
  /\ req[r].pc = "dkg_publish"
  /\ net' = [net EXCEPT !.state = "dkg_complete"]
  /\ Return(r)
  /\ UNCHANGED <<rows, secret, epoch, ledger, signedTxs, creator, aborts>>

DkgPublish(r) ==
  /\ req[r].pc = "dkg_publish"
  /\ net' = [state |-> "dkg_complete", pk |-> r]
  /\ Return(r)
  /\ UNCHANGED <<rows, secret, epoch, ledger, signedTxs, creator, aborts>>

-----------------------------------------------------------------------------
(* POST /networks/:id/refresh *)

RefreshReadNetwork(r) ==
  /\ Starts(r) /\ AdmitRekey
  /\ IF net.state = "dkg_complete"
       THEN Set(r, Frame("refresh_nodes"))
       ELSE Fail(r)
  /\ UNCHANGED <<db, creator, aborts>>

RefreshReadNodes(r) ==
  /\ req[r].pc = "refresh_nodes"
  /\ IF rows = N
       THEN Set(r, [Frame("refresh_secret") EXCEPT
                      !.shares = RefreshedShares(r, secret),
                      !.epoch = epoch[1] + 1])
       ELSE Fail(r)
  /\ UNCHANGED <<db, creator, aborts>>

RefreshWriteShare(r) ==
  /\ req[r].pc = "refresh_secret"
  /\ secret' = [secret EXCEPT ![req[r].next] = req[r].shares[req[r].next]]
  /\ Set(r, GoTo(req[r], "refresh_epoch", req[r].next))
  /\ UNCHANGED <<net, rows, epoch, ledger, signedTxs, creator, aborts>>

RefreshWriteEpoch(r) ==
  /\ req[r].pc = "refresh_epoch"
  /\ epoch' = [epoch EXCEPT ![req[r].next] = req[r].epoch]
  /\ IF req[r].next = N
       THEN Return(r)
       ELSE Set(r, GoTo(req[r], "refresh_secret", req[r].next + 1))
  /\ UNCHANGED <<net, rows, secret, ledger, signedTxs, creator, aborts>>

-----------------------------------------------------------------------------
(* POST /networks/:id/sign and /batch-sign *)

\* sign decodes its one message before it reads the nodes ...
SignReadNetwork(r, q, decodes) ==
  /\ Starts(r) /\ AdmitSign
  /\ IF net.state = "dkg_complete" /\ Len(q) >= T + 1 /\ decodes
       THEN Set(r, Accepted(q, <<TRUE>>))
       ELSE Fail(r)
  /\ UNCHANGED <<db, creator, aborts>>

\* ... batch-sign decodes each message when its turn comes.
BatchReadNetwork(r, q, msgs) ==
  /\ Starts(r) /\ AdmitSign
  /\ IF /\ Len(msgs) \in 1..MaxBatch
        /\ net.state = "dkg_complete" /\ Len(q) >= T + 1
       THEN Set(r, Accepted(q, msgs))
       ELSE Fail(r)
  /\ UNCHANGED <<db, creator, aborts>>

SignReadNodes(r) ==
  /\ req[r].pc = "sign_nodes"
  /\ IF rows = N /\ Cardinality(Found(req[r].quorum)) >= T + 1
       THEN Set(r, [req[r] EXCEPT !.pc = "sign_ledger", !.shares = secret])
       ELSE Fail(r)
  /\ UNCHANGED <<db, creator, aborts>>

\* The transaction of message number req[r].next: the requested signers and
\* the shares that went into the signature, which nothing verifies.
Tx(r) == [tx |-> <<r, req[r].next>>,
          signers |-> req[r].quorum,
          combined |-> {req[r].shares[i] : i \in Members(req[r].quorum)}]

StoreLedgerEntryBestEffort(r) ==          \* a failed insert is logged, not returned
  /\ req[r].pc = "sign_ledger"
  /\ req[r].msgs[req[r].next] /\ Combinable(req[r].quorum)
  /\ ledger' \in {ledger, ledger \cup {Tx(r)}}
  /\ Set(r, GoTo(req[r], "sign_tx", req[r].next))
  /\ UNCHANGED <<net, rows, secret, epoch, signedTxs, creator, aborts>>

StoreLedgerEntry(r) ==
  /\ req[r].pc = "sign_ledger"
  /\ req[r].msgs[req[r].next] /\ Combinable(req[r].quorum)
  /\ ledger' = ledger \cup {Tx(r)}
  /\ Set(r, GoTo(req[r], "sign_tx", req[r].next))
  /\ UNCHANGED <<net, rows, secret, epoch, signedTxs, creator, aborts>>

\* The message does not decode (BadRequest), or two signers share an index
\* and lagrange_at_zero panics: the request ends, earlier messages stay stored.
RejectMessage(r) ==
  /\ req[r].pc = "sign_ledger"
  /\ ~(req[r].msgs[req[r].next] /\ Combinable(req[r].quorum))
  /\ Fail(r)
  /\ UNCHANGED <<db, creator, aborts>>

StoreSignedTxEndsEarly(r) ==              \* answers before the last message
  /\ req[r].pc = "sign_tx"
  /\ signedTxs' = signedTxs \cup {Tx(r)}
  /\ IF req[r].next + 1 >= Len(req[r].msgs)
       THEN Return(r)
       ELSE Set(r, GoTo(req[r], "sign_ledger", req[r].next + 1))
  /\ UNCHANGED <<net, rows, secret, epoch, ledger, creator, aborts>>

StoreSignedTx(r) ==
  /\ req[r].pc = "sign_tx"
  /\ signedTxs' = signedTxs \cup {Tx(r)}
  /\ IF req[r].next = Len(req[r].msgs)
       THEN Return(r)
       ELSE Set(r, GoTo(req[r], "sign_ledger", req[r].next + 1))
  /\ UNCHANGED <<net, rows, secret, epoch, ledger, creator, aborts>>

-----------------------------------------------------------------------------
(* A handler stops at an await; nothing is rolled back. *)

Abort(r) ==
  /\ r \in InFlight /\ aborts < MaxAborts
  /\ Fail(r)
  /\ aborts' = aborts + 1
  /\ UNCHANGED <<db, creator>>

AbortCreate ==
  /\ creator = "nodes" /\ aborts < MaxAborts
  /\ creator' = "failed"
  /\ aborts' = aborts + 1
  /\ UNCHANGED <<db, req>>

-----------------------------------------------------------------------------

Init ==
  /\ net = [state |-> "absent", pk |-> None]
  /\ rows = 0
  /\ secret = Unread
  /\ epoch = [i \in Nodes |-> 0]
  /\ ledger = {} /\ signedTxs = {}
  /\ creator = "idle"
  /\ req = [r \in Requests |-> Frame("idle")]
  /\ aborts = 0

Create == InsertNetwork \/ InsertNode \/ FinishCreate

Dkg(r) == DkgReadNetwork(r) \/ DkgReadNodes(r) \/ DkgWriteShare(r) \/ DkgPublish(r)

Refresh(r) ==
  \/ RefreshReadNetwork(r) \/ RefreshReadNodes(r)
  \/ RefreshWriteShare(r) \/ RefreshWriteEpoch(r)

Sign(r) ==
  \/ \E q \in Quorums, decodes \in BOOLEAN : SignReadNetwork(r, q, decodes)
  \/ \E q \in Quorums, msgs \in Batches : BatchReadNetwork(r, q, msgs)
  \/ SignReadNodes(r)
  \/ StoreLedgerEntry(r) \/ RejectMessage(r) \/ StoreSignedTx(r)

\* Every request has been answered: the server idles.
Quiet ==
  /\ creator \in {"done", "failed"}
  /\ \A r \in Requests : req[r].pc \in {"done", "failed"}
  /\ UNCHANGED vars

Next ==
  \/ Create \/ AbortCreate
  \/ \E r \in Requests : Dkg(r) \/ Refresh(r) \/ Sign(r) \/ Abort(r)
  \/ Quiet

Spec == Init /\ [][Next]_vars

-----------------------------------------------------------------------------
(* Properties. *)

Transaction == [tx : Requests \X (Nat \ {0}), signers : Seq(Nat), combined : SUBSET Share]

\* The tables hold what their columns say, a handler is inside its loops, and
\* the key column is set exactly when the state column says a DKG completed.
TypeOK ==
  /\ net \in [state : {"absent", "created", "dkg_complete"}, pk : Requests \cup {None}]
  /\ net.state = "dkg_complete" <=> net.pk # None
  /\ rows \in 0..N
  /\ secret \in [Nodes -> Share]
  /\ epoch \in [Nodes -> Nat]
  /\ ledger \subseteq Transaction /\ signedTxs \subseteq Transaction
  /\ creator \in {"idle", "nodes", "done", "failed"}
  /\ req \in [Requests -> [pc : Pcs, quorum : Seq(Nat), msgs : Seq(BOOLEAN),
                           next : Nat \ {0}, shares : [Nodes -> Share], epoch : Nat]]
  /\ \A r \in Requests :
       /\ req[r].pc \in RekeyPcs => req[r].next \in Nodes
       /\ req[r].pc \in SignPcs => req[r].next \in DOMAIN req[r].msgs
  /\ aborts \in 0..MaxAborts

\* No signature on the ledger was made with the random secret create_network
\* puts in a node row: whatever overlaps or is cut off, signing waits for a
\* DKG that wrote every node's share (signing.rs:31, dkg.rs:113-126).
PlaceholderNeverSigns == \A e \in ledger : \A s \in e.combined : s.gen # None

\* Every ledger entry lists at least T + 1 different members among its
\* signers, although quorum sizes are compared before ids are looked up and
\* repeated ids are counted (signing.rs:42, 151; shamir.rs:49).
EnoughSigners == \A e \in ledger : Cardinality(Members(e.signers)) >= T + 1

\* Every transaction trace and verify can find is on the ledger, with the same
\* signers and signature, even when the request died between the two inserts
\* (signing.rs:181-192, batch.rs:198-209).
TxOnLedger == signedTxs \subseteq ledger

Dealt(shares) == \A i \in Nodes : shares[i].gen # None

\* Why PlaceholderNeverSigns holds.  A network is complete only after a DKG
\* handler, which saw all N rows, wrote a share over each; from then on no
\* handler holds or writes a placeholder, whatever overlaps or is cut off
\* (network.rs:57-71, dkg.rs:37-126, refresh.rs:18-42, signing.rs:25-62).
SharesDealt ==
  /\ creator = "idle" => net.state = "absent" /\ rows = 0
  /\ net.state = "dkg_complete" => rows = N /\ Dealt(secret)
  /\ \A r \in Requests :
       /\ req[r].pc = "dkg_write" =>
            /\ rows = N /\ Dealt(req[r].shares)
            /\ \A i \in 1..(req[r].next - 1) : secret[i].gen # None
       /\ req[r].pc = "dkg_publish" => rows = N /\ Dealt(secret)
       /\ req[r].pc \in {"refresh_nodes", "refresh_secret", "refresh_epoch"} \cup SignPcs
            => net.state = "dkg_complete"
       /\ req[r].pc \in {"refresh_secret", "refresh_epoch", "sign_ledger", "sign_tx"}
            => Dealt(req[r].shares)
  /\ PlaceholderNeverSigns

\* Transaction m of request r is in both tables.
InBoth(r, m) ==
  /\ \E e \in ledger : e.tx = <<r, m>>
  /\ \E e \in signedTxs : e.tx = <<r, m>>

\* Why TxOnLedger and AnswerImpliesRecorded hold.  A signing request has
\* stored every message before the one it is at, and the ledger row of that
\* one before it inserts its signed transaction (batch.rs:172-217).
StoredInOrder ==
  /\ \A r \in Requests :
       /\ req[r].pc = "sign_nodes" => req[r].next = 1
       /\ req[r].pc \in SignPcs => \A m \in 1..(req[r].next - 1) : InBoth(r, m)
       /\ req[r].pc = "sign_tx" => Tx(r) \in ledger
  /\ TxOnLedger

Stored(r, txs) == {m \in 1..Len(req[r].msgs) : \E e \in txs : e.tx = <<r, m>>}

\* When sign or batch-sign answers with success, every message of the request
\* is stored in both tables (batch.rs:170-232).
AnswerImpliesRecorded ==
  [][\A r \in Requests :
       req[r].pc \in SignPcs /\ req'[r].pc = "done"
         => Stored(r, ledger') \cap Stored(r, signedTxs') = 1..Len(req[r].msgs)]_vars

\* Each stored signature combines shares of one sharing, so that it verifies
\* under the key of that sharing.
SignaturesCombine ==
  \A e \in ledger : \E g \in Requests : Consistent(e.combined, g)

\* Whenever no request is in flight, the shares in the node rows are shares of
\* the published key: any T + 1 nodes can sign, and refresh kept the key.
KeyUsable ==
  net.state = "dkg_complete" /\ InFlight = {}
    => Consistent({secret[i] : i \in Nodes}, net.pk)

\* Whenever no request is in flight and every node holds a share of the
\* published key's DKG run, those shares combine to that key, however many
\* refreshes ran: refreshing gives new shares of the same collective key.
RefreshKeepsKey ==
  /\ net.state = "dkg_complete" /\ InFlight = {}
  /\ \A i \in Nodes : secret[i].gen = net.pk
  => Consistent({secret[i] : i \in Nodes}, net.pk)
=============================================================================
