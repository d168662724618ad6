---------------------- MODULE TransactionLedgerProofs ----------------------
(***************************************************************************)
(* The safety of TransactionLedger for every set of transactions and       *)
(* parties, any thresholds and every setting of the clock.                 *)
(***************************************************************************)
EXTENDS TransactionLedger, FiniteSetTheorems, TLAPS

-----------------------------------------------------------------------------
(* A fact about one row.                                                   *)

\* Counting partial signatures gives a number.
LEMMA PartialCount ==
  ASSUME NEW S \in SUBSET Parties
  PROVE  Cardinality(S) \in Nat
BY LedgerAssumption, FS_Subset, FS_CardinalityType

-----------------------------------------------------------------------------
(* The inductive invariant.  approve looks only at pending, so it needs     *)
(* OneTier to approve nothing twice, and ReadyMet, about aggregates already *)
(* in the caller's hands, to keep the threshold it does not check; AskedInv *)
(* says which thresholds those aggregates may have been measured by.        *)

ReadyMet == \A agg \in ready : HasQuorum(agg.tx, agg.quorum)

AskedInv ==
  /\ \A id \in DOMAIN pending :
       /\ pending[id].threshold \in asked[id]
       /\ id \notin DOMAIN rejected => asked[id] \subseteq {pending[id].threshold}
  /\ \A id \in Txs : id \notin Known => asked[id] = {}

LedgerInv == LedgerTypeOK /\ OneTier /\ HeightsDense /\ AskedInv /\ ReadyMet /\ ApprovedByQuorum

\* The empty ledger satisfies the invariant.
LEMMA InitInv ==
  ASSUME LedgerInit
  PROVE  LedgerInv
BY LedgerAssumption DEF LedgerInit, Empty, LedgerInv, LedgerTypeOK, OneTier, HeightsDense,
                        AskedInv, ReadyMet, ApprovedByQuorum, Known

\* submit adds no transaction that is approved already, and a second threshold
\* only to one that was rejected (ledger.rs:90-113).
LEMMA SubmitInv ==
  ASSUME LedgerInv, NEW id \in Txs, NEW threshold \in Thresholds, Submit(id, threshold)
  PROVE  LedgerInv'
<1> DEFINE row == NewTx(threshold)
<1>1. /\ DOMAIN pending' = DOMAIN pending \cup {id} /\ pending'[id] = row
      /\ \A x \in DOMAIN pending : pending'[x] = pending[x]
      /\ id \notin DOMAIN pending \cup DOMAIN approved
      /\ UNCHANGED <<approved, rejected, height, now, ready>>
  BY DEF Submit, Insert
<1>2. row \in PendingTx /\ row.threshold = threshold
  BY DEF LedgerInv, LedgerTypeOK, PendingTx, NewTx
<1>3. /\ asked' \in [Txs -> SUBSET Thresholds]
      /\ asked'[id] = asked[id] \cup {threshold}
      /\ \A x \in Txs : x # id => asked'[x] = asked[x]
  BY DEF Submit, Asked, LedgerInv, LedgerTypeOK
<1> HIDE DEF row
<1>4. LedgerTypeOK'
  BY <1>1, <1>2, <1>3 DEF LedgerInv, LedgerTypeOK
<1>5. OneTier'
  BY <1>1 DEF LedgerInv, OneTier
<1>6. id \notin DOMAIN rejected => asked[id] = {}
  BY <1>1 DEF LedgerInv, AskedInv, Known
<1>7. DOMAIN pending \subseteq Txs /\ DOMAIN approved \subseteq Txs
  BY DEF LedgerInv, LedgerTypeOK
<1>8. AskedInv'
  BY <1>1, <1>2, <1>3, <1>6, <1>7 DEF LedgerInv, AskedInv, Known
<1>9. \A x \in Txs : \A signers : HasQuorum(x, signers) => HasQuorum(x, signers)'
  BY <1>1, <1>3, <1>6 DEF HasQuorum
<1>10. ReadyMet' /\ ApprovedByQuorum'
  BY <1>1, <1>7, <1>9 DEF LedgerInv, LedgerTypeOK, Aggregate, ReadyMet, ApprovedByQuorum
<1> QED
  BY <1>1, <1>4, <1>5, <1>8, <1>10 DEF LedgerInv, HeightsDense

\* A party that reports the threshold met hands out a quorum of the pending
\* submission (ledger.rs:116-127).
LEMMA AddPartialSignatureInv ==
  ASSUME LedgerInv, NEW id \in Txs, NEW p \in Parties, AddPartialSignature(id, p)
  PROVE  LedgerInv'
<1> DEFINE partials == pending[id].partials \cup {p}
           row == [pending[id] EXCEPT !.partials = partials]
           agg == [tx |-> id, quorum |-> partials]
<1>1. id \in DOMAIN pending /\ pending[id] \in PendingTx
  BY DEF AddPartialSignature, LedgerInv, LedgerTypeOK
<1>2. /\ row \in PendingTx /\ agg \in Aggregate /\ agg.tx = id /\ agg.quorum = row.partials
      /\ row.threshold = pending[id].threshold
  BY <1>1 DEF PendingTx, Aggregate
<1>3. /\ pending' = Insert(pending, id, row)
      /\ ready' = ready \/ (ready' = ready \cup {agg}
                              /\ Cardinality(row.partials) >= row.threshold)
      /\ UNCHANGED <<approved, rejected, height, now, asked>>
  BY <1>2 DEF AddPartialSignature, IsThresholdMet
<1> HIDE DEF row, agg, partials
<1>4. /\ DOMAIN pending' = DOMAIN pending /\ pending'[id] = row
      /\ \A x \in DOMAIN pending : x # id => pending'[x] = pending[x]
  BY <1>1, <1>3 DEF Insert
<1>5. LedgerTypeOK'
  BY <1>2, <1>3, <1>4 DEF LedgerInv, LedgerTypeOK
<1>6. AskedInv'
  BY <1>2, <1>3, <1>4 DEF LedgerInv, AskedInv, Known
<1>7. \A x, signers : HasQuorum(x, signers) => HasQuorum(x, signers)'
  BY <1>3 DEF HasQuorum
<1>8. Cardinality(row.partials) >= row.threshold => HasQuorum(id, row.partials)
  BY <1>1, <1>2 DEF LedgerInv, AskedInv, HasQuorum
<1>9. ReadyMet'
  BY <1>2, <1>3, <1>7, <1>8 DEF LedgerInv, ReadyMet
<1>10. ApprovedByQuorum'
  BY <1>3, <1>7 DEF LedgerInv, ApprovedByQuorum
<1> QED
  BY <1>3, <1>4, <1>5, <1>6, <1>9, <1>10 DEF LedgerInv, OneTier, HeightsDense

\* approve moves one transaction to the next height (ledger.rs:129-152).
LEMMA ApproveInv ==
  ASSUME LedgerInv, NEW agg \in ready, Approve(agg)
  PROVE  LedgerInv'
<1>1. CASE agg.tx \notin DOMAIN pending
  BY <1>1 DEF Approve, LedgerInv, LedgerTypeOK, OneTier, HeightsDense, AskedInv, ReadyMet,
              ApprovedByQuorum, HasQuorum, Known
<1>2. CASE agg.tx \in DOMAIN pending
  <2> DEFINE id == agg.tx
             row == [signers |-> agg.quorum, height |-> height + 1]
  <2>1. /\ agg \in Aggregate /\ height \in Nat /\ id \in Txs /\ id \notin DOMAIN approved
        /\ HasQuorum(id, agg.quorum)
    BY <1>2 DEF LedgerInv, LedgerTypeOK, OneTier, ReadyMet, Aggregate
  <2>2. row \in ApprovedTx /\ row.height = height + 1 /\ row.signers = agg.quorum
    BY <2>1 DEF ApprovedTx, Aggregate
  <2>3. /\ pending' = Remove(pending, {id}) /\ approved' = Insert(approved, id, row)
        /\ height' = height + 1 /\ ready' = ready \ {agg}
        /\ UNCHANGED <<rejected, now, asked>>
    BY <1>2 DEF Approve
  <2> HIDE DEF id, row
  <2>4. /\ DOMAIN approved' = DOMAIN approved \cup {id} /\ approved'[id] = row
        /\ \A x \in DOMAIN approved : approved'[x] = approved[x]
    BY <2>1, <2>3 DEF Insert
  <2>5. /\ DOMAIN pending' = DOMAIN pending \ {id}
        /\ \A x \in DOMAIN pending' : pending'[x] = pending[x]
    BY <2>3 DEF Remove
  <2>6. LedgerTypeOK'
    <3>1. /\ DOMAIN approved' \subseteq Txs
          /\ \A x \in DOMAIN approved' : approved'[x] \in ApprovedTx
      BY <2>1, <2>2, <2>4 DEF LedgerInv, LedgerTypeOK
    <3>2. /\ DOMAIN pending' \subseteq Txs
          /\ \A x \in DOMAIN pending' : pending'[x] \in PendingTx
      BY <2>5 DEF LedgerInv, LedgerTypeOK
    <3>3. height' \in Nat /\ ready' \subseteq Aggregate
      BY <2>1, <2>3 DEF LedgerInv, LedgerTypeOK
    <3> QED
      BY <2>3, <3>1, <3>2, <3>3 DEF LedgerInv, LedgerTypeOK
  <2>7. OneTier'
    BY <2>4, <2>5 DEF LedgerInv, OneTier
  <2>8. HeightsDense'
    <3>1. \A x \in DOMAIN approved : approved[x].height \in 1..height
      BY DEF LedgerInv, HeightsDense
    <3>2. \A h \in 1..(height + 1) : \E x \in DOMAIN approved' : approved'[x].height = h
      <4> SUFFICES ASSUME NEW h \in 1..(height + 1)
                   PROVE  \E x \in DOMAIN approved' : approved'[x].height = h
        OBVIOUS
      <4>1. CASE h = height + 1
        BY <2>2, <2>4, <4>1
      <4>2. CASE h # height + 1
        <5>1. h \in 1..height
          BY <2>1, <4>2
        <5>2. PICK x \in DOMAIN approved : approved[x].height = h
          BY <5>1 DEF LedgerInv, HeightsDense
        <5> QED
          BY <2>4, <5>2
      <4> QED
        BY <4>1, <4>2
    <3>3. \A x \in DOMAIN approved' : approved'[x].height \in 1..(height + 1)
      BY <2>1, <2>2, <2>4, <3>1
    <3>4. \A a, b \in DOMAIN approved' : approved'[a].height = approved'[b].height => a = b
      BY <2>1, <2>2, <2>4, <3>1 DEF LedgerInv, HeightsDense
    <3> QED
      BY <2>3, <3>2, <3>3, <3>4 DEF HeightsDense
  <2>9. AskedInv'
    BY <2>3, <2>4, <2>5 DEF LedgerInv, AskedInv, Known
  <2>10. \A x, signers : HasQuorum(x, signers) => HasQuorum(x, signers)'
    BY <2>3 DEF HasQuorum
  <2>11. ReadyMet'
    BY <2>3, <2>10 DEF LedgerInv, ReadyMet
  <2>12. ApprovedByQuorum'
    BY <2>1, <2>2, <2>4, <2>10 DEF LedgerInv, ApprovedByQuorum
  <2> QED
    BY <2>6, <2>7, <2>8, <2>9, <2>11, <2>12 DEF LedgerInv
<1> QED
  BY <1>1, <1>2

\* sweep_expired moves what is expired from pending to rejected (ledger.rs:154-184).
LEMMA SweepExpiredInv ==
  ASSUME LedgerInv, SweepExpired
  PROVE  LedgerInv'
<1> DEFINE expired == {id \in DOMAIN pending : IsExpired(id)}
<1>1. pending' = Remove(pending, expired) /\ UNCHANGED <<approved, height, now, ready, asked>>
  BY DEF SweepExpired
<1>2. /\ DOMAIN pending' = DOMAIN pending \ expired
      /\ \A x \in DOMAIN pending' : pending'[x] = pending[x]
  BY <1>1 DEF Remove
<1>3. \A id \in expired : Rejection(pending[id]) \in RejectedTx
  BY PartialCount DEF LedgerInv, LedgerTypeOK, PendingTx, RejectedTx, Rejection
<1>4. /\ DOMAIN rejected' = DOMAIN rejected \cup expired
      /\ \A id \in DOMAIN rejected' : rejected'[id] \in RejectedTx
  BY <1>3 DEF SweepExpired, LedgerInv, LedgerTypeOK
<1>5. LedgerTypeOK'
  BY <1>1, <1>2, <1>4 DEF LedgerInv, LedgerTypeOK
<1>6. AskedInv'
  BY <1>1, <1>2, <1>4 DEF LedgerInv, AskedInv, Known
<1>7. \A x, signers : HasQuorum(x, signers) => HasQuorum(x, signers)'
  BY <1>1, <1>4 DEF HasQuorum
<1>8. ReadyMet' /\ ApprovedByQuorum'
  BY <1>1, <1>7 DEF LedgerInv, ReadyMet, ApprovedByQuorum
<1> QED
  BY <1>1, <1>2, <1>5, <1>6, <1>8 DEF LedgerInv, OneTier, HeightsDense

\* Time passing changes no map.
LEMMA SetClockInv ==
  ASSUME LedgerInv, NEW t \in 0..MaxTime, SetClock(t)
  PROVE  LedgerInv'
BY DEF SetClock, LedgerInv, LedgerTypeOK, OneTier, HeightsDense, AskedInv, ReadyMet,
       ApprovedByQuorum, HasQuorum, Known

\* Every step keeps the invariant.
LEMMA StepInv ==
  ASSUME LedgerInv, [LedgerNext]_ledgerVars
  PROVE  LedgerInv'
<1>1. CASE UNCHANGED ledgerVars
  BY <1>1 DEF ledgerVars, LedgerInv, LedgerTypeOK, OneTier, HeightsDense, AskedInv, ReadyMet,
              ApprovedByQuorum, HasQuorum, Known
<1> QED
  BY <1>1, SubmitInv, AddPartialSignatureInv, ApproveInv, SweepExpiredInv, SetClockInv
  DEF LedgerNext

\* The invariant from which the ledger's properties follow: types, disjoint
\* tiers, dense heights, and no aggregate or approval below what was asked for.
THEOREM LedgerInvariant == LedgerSpec => []LedgerInv
<1>1. LedgerInv /\ [LedgerNext]_ledgerVars => LedgerInv'
  BY StepInv
<1> QED
  BY <1>1, InitInv, PTL DEF LedgerSpec

-----------------------------------------------------------------------------
(* The theorems.                                                           *)

\* The three maps, the height and the caller's aggregates are well typed.
THEOREM LedgerTypeCorrect == LedgerSpec => []LedgerTypeOK
<1>1. LedgerInv => LedgerTypeOK
  BY DEF LedgerInv
<1> QED
  BY <1>1, LedgerInvariant, PTL

\* No transaction is pending and approved at once (ledger.rs:98, 134).
THEOREM TiersAreDisjoint == LedgerSpec => []OneTier
<1>1. LedgerInv => OneTier
  BY DEF LedgerInv
<1> QED
  BY <1>1, LedgerInvariant, PTL

\* Approved transactions take the heights 1, 2, ... without gap or fork
\* (ledger.rs:135, 144).
THEOREM ApprovalsAreChained == LedgerSpec => []HeightsDense
<1>1. LedgerInv => HeightsDense
  BY DEF LedgerInv
<1> QED
  BY <1>1, LedgerInvariant, PTL

\* Whatever is swept or resubmitted between aggregation and approval, what is
\* approved has the quorum that one of its submissions asked for; unless one
\* of them expired, there was only one (ledger.rs:90-134).
THEOREM ApprovalsHaveQuorum == LedgerSpec => []ApprovedByQuorum
<1>1. LedgerInv => ApprovedByQuorum
  BY DEF LedgerInv
<1> QED
  BY <1>1, LedgerInvariant, PTL

\* What is approved stays approved, with its signers and height
\* (ledger.rs:98, 134-147).
THEOREM ApprovalsAreFinal == LedgerSpec => ApprovalIsFinal
<1> DEFINE Final == \A id \in DOMAIN approved :
                      id \in DOMAIN approved' /\ approved'[id] = approved[id]
<1>1. LedgerInv /\ [LedgerNext]_ledgerVars => [Final]_ledgerVars
  <2> SUFFICES ASSUME LedgerInv, LedgerNext PROVE Final
    OBVIOUS
  <2>1. CASE UNCHANGED approved
    BY <2>1
  <2>2. ASSUME NEW agg \in ready, Approve(agg)
        PROVE  Final
    <3>1. agg.tx \in DOMAIN pending => agg.tx \notin DOMAIN approved
      BY DEF LedgerInv, OneTier
    <3> QED
      BY <2>1, <2>2, <3>1 DEF Approve, Insert
  <2> QED
    BY <2>1, <2>2 DEF LedgerNext, Submit, AddPartialSignature, SweepExpired, SetClock
<1>2. LedgerSpec => [][Final]_ledgerVars
  BY <1>1, LedgerInvariant, PTL DEF LedgerSpec
<1> QED
  BY <1>2 DEF ApprovalIsFinal

\* What was once submitted is found for ever (ledger.rs:134-147, 162-181).
THEOREM NothingIsLost == LedgerSpec => NothingVanishes
<1>1. [LedgerNext]_ledgerVars => [Known \subseteq Known']_ledgerVars
  <2> SUFFICES ASSUME LedgerNext PROVE Known \subseteq Known'
    OBVIOUS
  <2>1. ASSUME NEW id, NEW threshold, Submit(id, threshold)
        PROVE  Known \subseteq Known'
    BY <2>1 DEF Submit, Known, Insert
  <2>2. ASSUME NEW id, NEW p, AddPartialSignature(id, p)
        PROVE  Known \subseteq Known'
    BY <2>2 DEF AddPartialSignature, Known, Insert
  <2>3. ASSUME NEW agg, Approve(agg)
        PROVE  Known \subseteq Known'
    BY <2>3 DEF Approve, Known, Insert, Remove
  <2>4. CASE SweepExpired
    BY <2>4 DEF SweepExpired, Known, Remove
  <2>5. ASSUME NEW t, SetClock(t)
        PROVE  Known \subseteq Known'
    BY <2>5 DEF SetClock, Known
  <2> QED
    BY <2>1, <2>2, <2>3, <2>4, <2>5 DEF LedgerNext
<1> QED
  BY <1>1, PTL DEF LedgerSpec, NothingVanishes
=============================================================================
