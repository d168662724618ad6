------------------------- MODULE TransactionLedger --------------------------
(***************************************************************************)
(* sigimora-mcp's in-memory TransactionLedger: three maps keyed by the     *)
(* hash of the payload, and a height counter.                              *)
(*                                                                         *)
(* The ledger decides nothing on its own: a caller submits, feeds partial  *)
(* signatures, aggregates when add_partial_signature reports the threshold *)
(* met, and later hands the aggregate to approve; a timer calls            *)
(* sweep_expired.  The caller is external; what it holds between those two *)
(* calls is the variable ready, so a sweep, a resubmission or a second     *)
(* approval can come in between.                                           *)
(***************************************************************************)
EXTENDS Naturals, FiniteSets

CONSTANTS
  Txs,          \* transaction ids
  Parties,      \* participant ids
  Thresholds,   \* the thresholds callers may pass to submit
  Expiry,       \* EXPIRY_SECONDS
  MaxTime       \* bound on the wall clock

ASSUME LedgerAssumption ==
  /\ IsFiniteSet(Parties)
  /\ Thresholds \subseteq Nat /\ Expiry \in Nat /\ MaxTime \in Nat

VARIABLES
  approved,     \* id -> who signed, and the height it was approved at
  pending,      \* id -> when it was submitted, for which threshold, and who signed
  rejected,     \* id -> how many had signed when it expired, and the threshold
  height,
  now,          \* SystemTime, which may be set back
  ready,        \* aggregates the caller holds and has not yet handed in
  asked         \* the thresholds of the submissions that were accepted, by id

ledgerVars == <<approved, pending, rejected, height, now, ready, asked>>

ApprovedTx  == [signers : SUBSET Parties, height : Nat]
PendingTx   == [submittedAt : 0..MaxTime, threshold : Thresholds, partials : SUBSET Parties]
RejectedTx  == [partialCount : Nat, threshold : Thresholds]
Aggregate   == [tx : Txs, quorum : SUBSET Parties]

-----------------------------------------------------------------------------
(* HashMap insert and remove. *)

Insert(map, id, row) ==
  [x \in DOMAIN map \cup {id} |-> IF x = id THEN row ELSE map[x]]

Remove(map, ids) == [x \in DOMAIN map \ ids |-> map[x]]

Since(t) == IF now >= t THEN now - t ELSE 0      \* saturating_sub

IsExpired(id) == Since(pending[id].submittedAt) > Expiry

IsThresholdMetOffByOne(tx) == Cardinality(tx.partials) + 1 >= tx.threshold

IsThresholdMet(tx) == Cardinality(tx.partials) >= tx.threshold

NewTx(threshold) == [submittedAt |-> now, threshold |-> threshold, partials |-> {}]

Asked(id, threshold) == asked' = [asked EXCEPT ![id] = @ \cup {threshold}]

-----------------------------------------------------------------------------

SubmitInMillis(id, threshold) ==          \* time stamped in another unit
  /\ id \notin DOMAIN approved \cup DOMAIN pending
  /\ pending' = Insert(pending, id, [NewTx(threshold) EXCEPT !.submittedAt = 1000 * @])
  /\ Asked(id, threshold)
  /\ UNCHANGED <<approved, rejected, height, now, ready>>

SubmitForgetsApproved(id, threshold) ==   \* only pending is looked up
  /\ id \notin DOMAIN pending
  /\ pending' = Insert(pending, id, NewTx(threshold))
  /\ Asked(id, threshold)
  /\ UNCHANGED <<approved, rejected, height, now, ready>>

\* An id already approved or pending is only returned; a rejected one is
\* submitted again, with a threshold of its own, and its rejection stays.
Submit(id, threshold) ==
  /\ id \notin DOMAIN approved \cup DOMAIN pending
  /\ pending' = Insert(pending, id, NewTx(threshold))
  /\ Asked(id, threshold)
  /\ UNCHANGED <<approved, rejected, height, now, ready>>

\* A second partial of the same party is dropped, but still reports whether
\* the threshold is met; the caller then aggregates what is there.
AddPartialSignature(id, p) ==
  /\ id \in DOMAIN pending
  /\ LET tx == [pending[id] EXCEPT !.partials = @ \cup {p}]
     IN  /\ pending' = Insert(pending, id, tx)
         /\ ready' = IF IsThresholdMet(tx)
                       THEN ready \cup {[tx |-> id, quorum |-> tx.partials]}
                       ELSE ready
  /\ UNCHANGED <<approved, rejected, height, now, asked>>

ApproveKeepsHeight(agg) ==                \* height read before the increment
  /\ agg \in ready
  /\ ready' = ready \ {agg}
  /\ IF agg.tx \in DOMAIN pending
       THEN /\ pending' = Remove(pending, {agg.tx})
            /\ height' = height + 1
            /\ approved' = Insert(approved, agg.tx,
                                  [signers |-> agg.quorum, height |-> height])
       ELSE UNCHANGED <<approved, pending, height>>
  /\ UNCHANGED <<rejected, now, asked>>

ApproveOverwrites(agg) ==                 \* approves whether or not it is pending
  /\ agg \in ready
  /\ ready' = ready \ {agg}
  /\ pending' = Remove(pending, {agg.tx})
  /\ height' = height + 1
  /\ approved' = Insert(approved, agg.tx, [signers |-> agg.quorum, height |-> height + 1])
  /\ UNCHANGED <<rejected, now, asked>>

\* Approves what is pending under the id, whichever submission that is, and
\* checks neither expiry nor threshold; anything else is answered with None.
Approve(agg) ==
  /\ agg \in ready
  /\ ready' = ready \ {agg}
  /\ IF agg.tx \in DOMAIN pending
       THEN /\ pending' = Remove(pending, {agg.tx})
            /\ height' = height + 1
            /\ approved' = Insert(approved, agg.tx,
                                  [signers |-> agg.quorum, height |-> height + 1])
       ELSE UNCHANGED <<approved, pending, height>>
  /\ UNCHANGED <<rejected, now, asked>>

Rejection(tx) == [partialCount |-> Cardinality(tx.partials), threshold |-> tx.threshold]

SweepDropsUnsigned ==                     \* records only transactions someone signed
  LET expired == {id \in DOMAIN pending : IsExpired(id)}
      signed  == {id \in expired : pending[id].partials # {}}
  IN  /\ expired # {}
      /\ pending' = Remove(pending, expired)
      /\ rejected' = [id \in DOMAIN rejected \cup signed |->
                        IF id \in signed
                          THEN Rejection(pending[id])
                          ELSE rejected[id]]
      /\ UNCHANGED <<approved, height, now, ready, asked>>

SweepExpired ==
  LET expired == {id \in DOMAIN pending : IsExpired(id)}
  IN  /\ expired # {}
      /\ pending' = Remove(pending, expired)
      /\ rejected' = [id \in DOMAIN rejected \cup expired |->
                        IF id \in expired
                          THEN Rejection(pending[id])
                          ELSE rejected[id]]
      /\ UNCHANGED <<approved, height, now, ready, asked>>

\* Time passes, or the wall clock is set back.
SetClock(t) ==
  /\ now' = t
  /\ UNCHANGED <<approved, pending, rejected, height, ready, asked>>

-----------------------------------------------------------------------------

Empty == [id \in {} |-> 0]

LedgerInit ==
  /\ approved = Empty /\ pending = Empty /\ rejected = Empty
  /\ height = 0 /\ now = 0 /\ ready = {}
  /\ asked = [id \in Txs |-> {}]

LedgerNext ==
  \/ \E id \in Txs :
       \/ \E threshold \in Thresholds : Submit(id, threshold)
       \/ \E p \in Parties : AddPartialSignature(id, p)
  \/ \E agg \in ready : Approve(agg)
  \/ SweepExpired
  \/ \E t \in 0..MaxTime : SetClock(t)

LedgerSpec == LedgerInit /\ [][LedgerNext]_ledgerVars

-----------------------------------------------------------------------------
(* Properties. *)

\* The maps are keyed by ids and hold rows of their kind, and submission times
\* are readings of the clock that is_expired compares them with.
LedgerTypeOK ==
  /\ DOMAIN approved \subseteq Txs /\ \A id \in DOMAIN approved : approved[id] \in ApprovedTx
  /\ DOMAIN pending  \subseteq Txs /\ \A id \in DOMAIN pending  : pending[id]  \in PendingTx
  /\ DOMAIN rejected \subseteq Txs /\ \A id \in DOMAIN rejected : rejected[id] \in RejectedTx
  /\ height \in Nat /\ now \in 0..MaxTime
  /\ ready \subseteq Aggregate
  /\ asked \in [Txs -> SUBSET Thresholds]

\* A transaction is never pending and approved at once, so that resubmitting
\* an approved payload cannot approve it a second time (ledger.rs:98, 134).
OneTier == DOMAIN approved \cap DOMAIN pending = {}

\* Approved transactions occupy exactly the heights 1..height, one each: no
\* gap and no fork of the chain of approvals (ledger.rs:135, 144).
HeightsDense ==
  /\ \A h \in 1..height : \E id \in DOMAIN approved : approved[id].height = h
  /\ \A id \in DOMAIN approved : approved[id].height \in 1..height
  /\ \A a, b \in DOMAIN approved : approved[a].height = approved[b].height => a = b

\* Some submission of the transaction asked for no more signers than these; if
\* none of its submissions expired, none asked for more.
HasQuorum(id, signers) ==
  LET Reaches(threshold) == Cardinality(signers) >= threshold
  IN  /\ \E threshold \in asked[id] : Reaches(threshold)
      /\ id \notin DOMAIN rejected => \A threshold \in asked[id] : Reaches(threshold)

\* approve checks no threshold, yet what is approved has the quorum of a
\* submission of its own; and of its only submission, if that did not expire
\* (ledger.rs:94-108, 116-134).  More does not hold: an aggregate made before a
\* sweep approves a resubmission that asked for more.
ApprovedByQuorum == \A id \in DOMAIN approved : HasQuorum(id, approved[id].signers)

\* What is approved stays approved, with its signers and its height.
ApprovalIsFinal ==
  [][\A id \in DOMAIN approved :
       id \in DOMAIN approved' /\ approved'[id] = approved[id]]_ledgerVars

Known == DOMAIN approved \cup DOMAIN pending \cup DOMAIN rejected

\* find_transaction finds, for ever, whatever was once submitted: moving a
\* row between maps never loses it (ledger.rs:134-147, 162-181, 186-197).
NothingVanishes == [][Known \subseteq Known']_ledgerVars
=============================================================================
