-------------------------- MODULE PedersenDkgProofs --------------------------
(***************************************************************************)
(* Proofs about PedersenDkg, for any number of parties, any set of them    *)
(* that is followed and any dealings.                                      *)
(***************************************************************************)
EXTENDS PedersenDkg, FiniteSetTheorems, TLAPS

\* A share that is not the one its recipient should get.
Wrong(p, i) == <<p, i>> \in dealt.invalid \cup dealt.astray

\* A node stores one commitment and one share of each other party and none of
\* its own, and in order no share of a party whose commitment is missing.
StoredInv ==
  \A i \in Followed, p \in Participants :
    /\ commits[i][p] <= 1 /\ commits[i][i] = 0 /\ shares[i][i] = 0
    /\ InOrder => /\ shares[i][p] > 0 => commits[i][p] > 0
                  /\ wrong[i][p] > 0 => <<p, i>> \in dealt.astray

-----------------------------------------------------------------------------
(* Bags *)

LEMMA PartiesFinite == IsFiniteSet(Participants)
  BY DkgAssumption, FS_Interval DEF Participants

LEMMA AddBag ==
  ASSUME NEW bag \in Bag, NEW p \in Participants
  PROVE  /\ Plus(bag, p) \in Bag /\ Plus(bag, p)[p] = bag[p] + 1
         /\ \A x \in Participants \ {p} : Plus(bag, p)[x] = bag[x]
  BY DEF Bag, Plus

LEMMA WithinBag ==
  ASSUME NEW bag \in Bag, NEW S, NEW own
  PROVE  Within(bag, S, own) \in Bag
<1>1. \A p \in Participants : (IF p \in S THEN bag[p] ELSE 0) \in Nat
  BY DEF Bag
<1>2. \A p \in Participants : Once(S \cap own)[p] \in {0, 1}
  BY DEF Once
<1>3. \A p \in Participants : (IF p \in S THEN bag[p] ELSE 0) + Once(S \cap own)[p] \in Nat
  BY <1>1, <1>2
<1>4. QED
  BY <1>3 DEF Within, Bag

-----------------------------------------------------------------------------
(* Types *)

LEMMA InitType == DkgInit => DkgTypeOK /\ StoredInv
  BY DkgAssumption DEF DkgInit, DkgTypeOK, StoredInv, Nothing, Bag, NoOutput, Output

\* What a step does to the lists of one node.
LEMMA CommitStep ==
  ASSUME DkgTypeOK, NEW i \in Followed, NEW p \in Participants, ProcessCommit(i, p)
  PROVE  /\ commits' \in [Followed -> Bag] /\ p # i /\ commits[i][p] = 0 /\ commits'[i][p] = 1
         /\ \A x \in Participants \ {p} : commits'[i][x] = commits[i][x]
         /\ \A j \in Followed \ {i} : commits'[j] = commits[j]
<1>1. commits \in [Followed -> Bag] /\ commits[i] \in Bag
  BY DEF DkgTypeOK
<1>2. commits' = [commits EXCEPT ![i] = Plus(commits[i], p)] /\ commits[i][p] = 0 /\ p # i
  BY DEF ProcessCommit, Others
<1>3. commits'[i] = Plus(commits[i], p) /\ \A j \in Followed \ {i} : commits'[j] = commits[j]
  BY <1>1, <1>2
<1>4. commits' \in [Followed -> Bag]
  BY <1>1, <1>2, AddBag
<1>5. QED
  BY <1>1, <1>2, <1>3, <1>4, AddBag

LEMMA ShareStep ==
  ASSUME DkgTypeOK, NEW i \in Followed, NEW p \in Participants, ProcessShare(i, p)
  PROVE  /\ shares' \in [Followed -> Bag] /\ wrong' \in [Followed -> Bag]
         /\ rejected' \in [Followed -> SUBSET Participants]
         /\ p # i /\ shares[i][p] = 0 /\ p \notin rejected[i]
         /\ InOrder => commits[i][p] > 0
         /\ \A j \in Followed \ {i} : /\ shares'[j] = shares[j] /\ wrong'[j] = wrong[j]
                                   /\ rejected'[j] = rejected[j]
         /\ \/ /\ commits[i][p] > 0 /\ <<p, i>> \in dealt.invalid
               /\ rejected'[i] = rejected[i] \cup {p}
               /\ shares'[i] = shares[i] /\ wrong'[i] = wrong[i]
            \/ /\ ~(commits[i][p] > 0 /\ <<p, i>> \in dealt.invalid)
               /\ rejected'[i] = rejected[i]
               /\ shares'[i] = Plus(shares[i], p)
               /\ wrong'[i] = IF Wrong(p, i) THEN Plus(wrong[i], p) ELSE wrong[i]
<1>1. /\ shares \in [Followed -> Bag] /\ shares[i] \in Bag
      /\ wrong \in [Followed -> Bag] /\ wrong[i] \in Bag
      /\ rejected \in [Followed -> SUBSET Participants]
  BY DEF DkgTypeOK
<1>2. Plus(shares[i], p) \in Bag /\ Plus(wrong[i], p) \in Bag
  BY <1>1, AddBag
<1>3. /\ p # i /\ shares[i][p] = 0 /\ p \notin rejected[i] /\ (InOrder => commits[i][p] > 0)
  BY DEF ProcessShare, Arrives, Others
<1>4. CASE commits[i][p] > 0 /\ <<p, i>> \in dealt.invalid
  <2>1. rejected' = [rejected EXCEPT ![i] = @ \cup {p}] /\ shares' = shares /\ wrong' = wrong
    BY <1>4 DEF ProcessShare
  <2>2. QED
    BY <1>1, <1>3, <1>4, <2>1
<1>5. CASE ~(commits[i][p] > 0 /\ <<p, i>> \in dealt.invalid)
  <2>1. /\ shares' = [shares EXCEPT ![i] = Plus(shares[i], p)]
        /\ wrong' = [wrong EXCEPT ![i] =
                         IF Wrong(p, i) THEN Plus(wrong[i], p) ELSE wrong[i]]
        /\ rejected' = rejected
    BY <1>5 DEF ProcessShare, Push, Wrong
  <2>2. QED
    BY <1>1, <1>2, <1>3, <1>5, <2>1
<1>6. QED
  BY <1>4, <1>5

LEMMA ComplaintStep ==
  ASSUME DkgTypeOK, NEW i \in Followed, NEW p \in Participants, AddComplaint(i, p)
  PROVE  complaints' \in [Followed -> Bag] /\ disqualified' \in [Followed -> SUBSET Participants]
<1>1. /\ complaints \in [Followed -> Bag] /\ disqualified \in [Followed -> SUBSET Participants]
      /\ complaints[i] \in Bag
  BY DEF DkgTypeOK
<1>2. Plus(complaints[i], p) \in Bag
  BY <1>1, AddBag
<1>3. /\ complaints' = [complaints EXCEPT ![i] = Plus(complaints[i], p)]
      /\ disqualified' = [disqualified EXCEPT ![i] =
                            @ \cup {x \in Participants : complaints'[i][x] > F}]
  BY DEF AddComplaint
<1>4. QED
  BY <1>1, <1>2, <1>3

Completed(i) ==
  [done |-> TRUE,
   qual |-> Qual(i),
   pk |-> Within(commits[i], Qual(i), {i}),
   secret |-> Within(shares[i], Qual(i), {i}),
   wrong |-> Within(wrong[i], Qual(i), {})]

LEMMA FinalizeStep ==
  ASSUME DkgTypeOK, NEW i \in Followed, Finalize(i)
  PROVE  /\ output' \in [Followed -> Output] /\ output'[i] = Completed(i) /\ EnoughShares(i)
         /\ \A j \in Followed \ {i} : output'[j] = output[j]
         /\ UNCHANGED <<dealt, commits, shares, wrong, rejected, complaints, disqualified>>
<1>1. output \in [Followed -> Output] /\ commits[i] \in Bag /\ shares[i] \in Bag /\ wrong[i] \in Bag
  BY DEF DkgTypeOK
<1>2. output' = [output EXCEPT ![i] = Completed(i)] /\ EnoughShares(i)
      /\ UNCHANGED <<dealt, commits, shares, wrong, rejected, complaints, disqualified>>
  BY DEF Finalize, Completed
<1>3. Completed(i) \in Output
  <2>1. Qual(i) \in SUBSET Participants
    BY DEF Qual
  <2>2. /\ Within(commits[i], Qual(i), {i}) \in Bag /\ Within(shares[i], Qual(i), {i}) \in Bag
        /\ Within(wrong[i], Qual(i), {}) \in Bag
    BY <1>1, WithinBag
  <2>3. QED
    BY <2>1, <2>2 DEF Completed, Output
<1>4. QED
  BY <1>1, <1>2, <1>3

LEMMA NextType == ASSUME DkgTypeOK, StoredInv, DkgNext PROVE DkgTypeOK' /\ StoredInv'
<1>0. /\ commits \in [Followed -> Bag] /\ shares \in [Followed -> Bag]
      /\ wrong \in [Followed -> Bag]
      /\ \A i \in Followed, p \in Participants :
           commits[i][p] \in Nat /\ shares[i][p] \in Nat /\ wrong[i][p] \in Nat
      /\ Followed \subseteq Participants
  BY DkgAssumption DEF DkgTypeOK, Bag
<1>1. ASSUME NEW i \in Followed, NEW p \in Participants, ProcessCommit(i, p)
      PROVE  DkgTypeOK' /\ StoredInv'
  <2>1. UNCHANGED <<dealt, shares, wrong, rejected, complaints, disqualified, output>>
    BY <1>1 DEF ProcessCommit
  <2>2. /\ commits' \in [Followed -> Bag] /\ p # i /\ commits[i][p] = 0 /\ commits'[i][p] = 1
        /\ \A x \in Participants \ {p} : commits'[i][x] = commits[i][x]
        /\ \A j \in Followed \ {i} : commits'[j] = commits[j]
    BY <1>1, CommitStep
  <2>3. DkgTypeOK'
    BY <2>1, <2>2 DEF DkgTypeOK
  <2>4. ASSUME NEW j \in Followed, NEW x \in Participants
        PROVE  /\ commits'[j][x] <= 1 /\ commits'[j][j] = 0
               /\ commits[j][x] > 0 => commits'[j][x] > 0
    <3>1. commits[j][x] <= 1 /\ commits[j][j] = 0
      BY DEF StoredInv
    <3>2. CASE j = i
      BY <1>0, <2>2, <3>1, <3>2
    <3>3. CASE j # i
      BY <2>2, <3>1, <3>3
    <3>4. QED
      BY <3>2, <3>3
  <2>5. QED
    BY <2>1, <2>3, <2>4 DEF StoredInv
<1>2. ASSUME NEW i \in Followed, NEW p \in Participants, ProcessShare(i, p)
      PROVE  DkgTypeOK' /\ StoredInv'
  <2>1. UNCHANGED <<dealt, commits, complaints, disqualified, output>>
    BY <1>2 DEF ProcessShare
  <2>2. /\ shares' \in [Followed -> Bag] /\ wrong' \in [Followed -> Bag]
        /\ rejected' \in [Followed -> SUBSET Participants]
        /\ p # i /\ shares[i][p] = 0 /\ p \notin rejected[i] /\ (InOrder => commits[i][p] > 0)
        /\ \A j \in Followed \ {i} : /\ shares'[j] = shares[j] /\ wrong'[j] = wrong[j]
                                  /\ rejected'[j] = rejected[j]
    BY <1>2, ShareStep
  <2>3. ASSUME NEW x \in Participants
        PROVE  /\ wrong'[i][x] <= shares'[i][x] /\ shares'[i][x] <= 1
               /\ x \in rejected'[i] => shares'[i][x] = 0
               /\ shares'[i][i] = 0
               /\ InOrder => /\ shares'[i][x] > 0 => commits[i][x] > 0
                             /\ wrong'[i][x] > 0 => <<x, i>> \in dealt.astray
    <3>1. /\ wrong[i][x] <= shares[i][x] /\ shares[i][x] <= 1
          /\ (x \in rejected[i] => shares[i][x] = 0) /\ shares[i][i] = 0
          /\ (InOrder => /\ shares[i][x] > 0 => commits[i][x] > 0
                         /\ wrong[i][x] > 0 => <<x, i>> \in dealt.astray)
          /\ wrong[i][p] <= shares[i][p]
      BY <1>0 DEF DkgTypeOK, StoredInv
    <3>2. CASE /\ rejected'[i] = rejected[i] \cup {p}
               /\ shares'[i] = shares[i] /\ wrong'[i] = wrong[i]
      BY <2>2, <3>1, <3>2
    <3>3. CASE /\ ~(commits[i][p] > 0 /\ <<p, i>> \in dealt.invalid)
               /\ rejected'[i] = rejected[i] /\ shares'[i] = Plus(shares[i], p)
               /\ wrong'[i] = IF Wrong(p, i) THEN Plus(wrong[i], p) ELSE wrong[i]
      <4>1. shares[i] \in Bag /\ wrong[i] \in Bag /\ i \in Participants
        BY <1>0
      <4>2. shares'[i][p] = 1 /\ \A y \in Participants \ {p} : shares'[i][y] = shares[i][y]
        <5>1. /\ Plus(shares[i], p)[p] = shares[i][p] + 1
              /\ \A y \in Participants \ {p} : Plus(shares[i], p)[y] = shares[i][y]
          BY <4>1, AddBag
        <5>2. shares[i][p] + 1 = 1
          BY <2>2
        <5>3. QED
          BY <3>3, <5>1, <5>2
      <4>3. wrong[i][p] = 0
        BY <1>0, <2>2, <3>1
      <4>4. /\ wrong'[i][p] = IF Wrong(p, i) THEN 1 ELSE 0
            /\ \A y \in Participants \ {p} : wrong'[i][y] = wrong[i][y]
        <5>1. /\ Plus(wrong[i], p)[p] = wrong[i][p] + 1
              /\ \A y \in Participants \ {p} : Plus(wrong[i], p)[y] = wrong[i][y]
          BY <4>1, AddBag
        <5>2. wrong[i][p] + 1 = 1
          BY <4>3
        <5>3. CASE Wrong(p, i)
          BY <3>3, <5>1, <5>2, <5>3
        <5>4. CASE ~Wrong(p, i)
          BY <3>3, <4>3, <5>4
        <5>5. QED
          BY <5>3, <5>4
      <4>5. p \notin rejected'[i] /\ (InOrder => <<p, i>> \notin dealt.invalid /\ commits[i][p] > 0)
        BY <2>2, <3>3
      <4>6. CASE x = p
        BY <2>2, <3>1, <4>1, <4>2, <4>4, <4>5, <4>6 DEF Wrong
      <4>7. CASE x # p
        BY <2>2, <3>1, <3>3, <4>1, <4>2, <4>4, <4>7
      <4>8. QED
        BY <4>6, <4>7
    <3>4. QED
      BY <1>2, <3>2, <3>3, ShareStep
  <2>4. \A j \in Followed, x \in Participants :
          /\ wrong'[j][x] <= shares'[j][x] /\ shares'[j][x] <= 1
          /\ x \in rejected'[j] => shares'[j][x] = 0
    <3>1. ASSUME NEW j \in Followed, NEW x \in Participants
          PROVE  /\ wrong'[j][x] <= shares'[j][x] /\ shares'[j][x] <= 1
                 /\ x \in rejected'[j] => shares'[j][x] = 0
      <4>1. CASE j = i
        BY <2>3, <4>1
      <4>2. CASE j # i
        BY <2>2, <4>2 DEF DkgTypeOK
      <4>3. QED
        BY <4>1, <4>2
    <3>2. QED
      BY <3>1
  <2>5. DkgTypeOK'
    BY <2>1, <2>2, <2>4 DEF DkgTypeOK
  <2>6. ASSUME NEW j \in Followed, NEW x \in Participants
        PROVE  /\ commits'[j][x] <= 1 /\ commits'[j][j] = 0 /\ shares'[j][j] = 0
               /\ InOrder => /\ shares'[j][x] > 0 => commits'[j][x] > 0
                             /\ wrong'[j][x] > 0 => <<x, j>> \in dealt'.astray
    <3>1. CASE j = i
      BY <2>1, <2>3, <3>1 DEF StoredInv
    <3>2. CASE j # i
      BY <2>1, <2>2, <3>2 DEF StoredInv
    <3>3. QED
      BY <3>1, <3>2
  <2>7. QED
    BY <2>5, <2>6 DEF StoredInv
<1>3. ASSUME NEW i \in Followed, NEW p \in Participants, AddComplaint(i, p)
      PROVE  DkgTypeOK' /\ StoredInv'
  <2>1. UNCHANGED <<dealt, commits, shares, wrong, rejected, output>>
    BY <1>3 DEF AddComplaint
  <2>2. complaints' \in [Followed -> Bag] /\ disqualified' \in [Followed -> SUBSET Participants]
    BY <1>3, ComplaintStep
  <2>3. QED
    BY <2>1, <2>2 DEF DkgTypeOK, StoredInv
<1>4. ASSUME NEW i \in Followed, Finalize(i)
      PROVE  DkgTypeOK' /\ StoredInv'
  BY <1>4, FinalizeStep DEF DkgTypeOK, StoredInv
<1>5. QED
  BY <1>1, <1>2, <1>3, <1>4 DEF DkgNext, Deliver, Complain

-----------------------------------------------------------------------------
(* finalize *)

\* As many shares as other members of QUAL means one of each of them.
LEMMA OneOfEach ==
  ASSUME DkgTypeOK, StoredInv, InOrder, NEW i \in Followed, i \in Qual(i), EnoughShares(i)
  PROVE  \A p \in Qual(i) \ {i} : shares[i][p] = 1 /\ commits[i][p] = 1
<1> DEFINE S == {p \in Qual(i) : shares[i][p] > 0}
<1>1. Qual(i) \subseteq Participants /\ IsFiniteSet(Qual(i))
  <2>1. Qual(i) \subseteq Participants
    BY DEF Qual
  <2>2. QED
    BY <2>1, PartiesFinite, FS_Subset
<1>2. S \subseteq Qual(i) \ {i}
  <2>1. shares[i][i] = 0
    BY <1>1 DEF StoredInv
  <2>2. QED
    BY <2>1
<1>3. /\ IsFiniteSet(Qual(i) \ {i}) /\ Cardinality(Qual(i) \ {i}) = Cardinality(Qual(i)) - 1
      /\ Cardinality(Qual(i)) \in Nat
  BY <1>1, FS_RemoveElement, FS_CardinalityType
<1>4. IsFiniteSet(S) /\ Cardinality(S) <= Cardinality(Qual(i) \ {i}) /\ Cardinality(S) \in Nat
  BY <1>2, <1>3, FS_Subset, FS_CardinalityType
<1>5. Cardinality(Qual(i)) <= Cardinality(S) + 1
  BY DEF EnoughShares, SharesFrom
<1>6. Cardinality(S) = Cardinality(Qual(i) \ {i})
  BY <1>3, <1>4, <1>5
<1>7. S = Qual(i) \ {i}
  BY <1>2, <1>3, <1>6, FS_Subset
<1>8. \A p \in Qual(i) \ {i} : shares[i][p] > 0
  BY <1>7
<1> HIDE DEF S
<1>9. ASSUME NEW p \in Qual(i) \ {i} PROVE shares[i][p] = 1 /\ commits[i][p] = 1
  <2>1. p \in Participants /\ shares[i][p] \in Nat /\ commits[i][p] \in Nat
    BY <1>1 DEF DkgTypeOK, Bag
  <2>2. shares[i][p] > 0 /\ shares[i][p] <= 1 /\ commits[i][p] > 0 /\ commits[i][p] <= 1
    BY <1>8, <2>1 DEF DkgTypeOK, StoredInv
  <2>3. QED
    BY <2>1, <2>2
<1>10. QED
  BY <1>9

\* A sum of one of each other member and the own one is QUAL's.
LEMMA WithinOnce ==
  ASSUME NEW bag \in Bag, NEW S \in SUBSET Participants, NEW i \in S, bag[i] = 0,
         \A p \in S \ {i} : bag[p] = 1
  PROVE  Within(bag, S, {i}) = Once(S)
<1>1. ASSUME NEW p \in Participants PROVE Within(bag, S, {i})[p] = Once(S)[p]
  <2>1. Within(bag, S, {i})[p] = (IF p \in S THEN bag[p] ELSE 0) + (IF p = i THEN 1 ELSE 0)
    BY DEF Within, Once
  <2>2. Once(S)[p] = IF p \in S THEN 1 ELSE 0
    BY DEF Once
  <2>3. QED
    BY <2>1, <2>2
<1>2. QED
  BY <1>1 DEF Within, Once

LEMMA NextComplete ==
  ASSUME DkgTypeOK, StoredInv, CompleteContributions, InvalidNeverUsed, InOrder, DkgNext
  PROVE  CompleteContributions' /\ InvalidNeverUsed'
<1>1. CASE UNCHANGED <<dealt, output>>
  BY <1>1 DEF CompleteContributions, InvalidNeverUsed
<1>2. ASSUME NEW i \in Followed, Finalize(i)
      PROVE  CompleteContributions' /\ InvalidNeverUsed'
  <2>1. /\ output'[i] = Completed(i) /\ EnoughShares(i)
        /\ \A j \in Followed \ {i} : output'[j] = output[j]
    BY <1>2, FinalizeStep
  <2>2. /\ commits[i] \in Bag /\ shares[i] \in Bag /\ wrong[i] \in Bag /\ i \in Participants
        /\ Qual(i) \in SUBSET Participants
    BY DkgAssumption DEF DkgTypeOK, Qual
  <2>3. ASSUME i \in Qual(i) PROVE CompleteContributions'
    <3>1. \A p \in Qual(i) \ {i} : shares[i][p] = 1 /\ commits[i][p] = 1
      BY <2>1, <2>3, OneOfEach
    <3>2. shares[i][i] = 0 /\ commits[i][i] = 0
      BY <2>2 DEF StoredInv
    <3>3. /\ Within(commits[i], Qual(i), {i}) = Once(Qual(i))
          /\ Within(shares[i], Qual(i), {i}) = Once(Qual(i))
      BY <2>2, <2>3, <3>1, <3>2, WithinOnce
    <3>4. output'[i].pk = Once(output'[i].qual) /\ output'[i].secret = Once(output'[i].qual)
      BY <2>1, <3>3 DEF Completed
    <3>5. QED
      BY <2>1, <3>4 DEF CompleteContributions
  <2>4. ASSUME i \notin Qual(i) PROVE CompleteContributions'
    <3>1. i \notin output'[i].qual
      BY <2>1, <2>4 DEF Completed
    <3>2. QED
      BY <2>1, <3>1 DEF CompleteContributions
  <2>5. /\ dealt' = dealt
        /\ \A p \in Participants : Within(wrong[i], Qual(i), {})[p] > 0 => <<p, i>> \in dealt.astray
    <3>1. ASSUME NEW p \in Participants, Within(wrong[i], Qual(i), {})[p] > 0
          PROVE  <<p, i>> \in dealt.astray
      <4>1. Within(wrong[i], Qual(i), {})[p] = (IF p \in Qual(i) THEN wrong[i][p] ELSE 0) + 0
        BY DEF Within, Once
      <4>2. wrong[i][p] \in Nat
        BY <2>2 DEF Bag
      <4>3. wrong[i][p] > 0
        BY <3>1, <4>1, <4>2
      <4>4. QED
        BY <4>3 DEF StoredInv
    <3>2. QED
      BY <1>2, <3>1, FinalizeStep
  <2>6. CompleteContributions'
    BY <2>3, <2>4
  <2>7. InvalidNeverUsed'
    BY <2>1, <2>5 DEF InvalidNeverUsed, Completed
  <2>8. QED
    BY <2>6, <2>7
<1>3. QED
  BY <1>1, <1>2 DEF DkgNext, Deliver, Complain, ProcessCommit, ProcessShare, AddComplaint

-----------------------------------------------------------------------------

DkgInv == DkgTypeOK /\ StoredInv

THEOREM DkgInvHolds == DkgSpec => []DkgInv
<1>1. DkgInit => DkgInv
  BY InitType DEF DkgInv
<1>2. DkgInv /\ [DkgNext]_dkgVars => DkgInv'
  <2>1. CASE DkgNext
    BY <2>1, NextType DEF DkgInv
  <2>2. CASE UNCHANGED dkgVars
    BY <2>2 DEF dkgVars, DkgInv, DkgTypeOK, StoredInv
  <2>3. QED
    BY <2>1, <2>2
<1>3. QED
  BY <1>1, <1>2, PTL DEF DkgSpec

\* The lists of a DkgState have one message of each party at most, and keep
\* nothing of a party whose share was rejected (dkg.rs:464-516).
THEOREM DkgTypes == DkgSpec => []DkgTypeOK
<1>1. DkgInv => DkgTypeOK
  BY DEF DkgInv
<1>2. QED
  BY <1>1, DkgInvHolds, PTL

\* If each commitment arrives before its dealer's share, what completes is
\* complete and valid.
THEOREM OrderedCompletes ==
  ASSUME InOrder
  PROVE  DkgSpec => [](CompleteContributions /\ InvalidNeverUsed)
<1>1. DkgInit => CompleteContributions /\ InvalidNeverUsed
  BY DEF DkgInit, CompleteContributions, InvalidNeverUsed, NoOutput, Nothing
<1>2. DkgInv /\ CompleteContributions /\ InvalidNeverUsed /\ [DkgNext]_dkgVars
        => (CompleteContributions /\ InvalidNeverUsed)'
  <2>1. CASE DkgNext
    BY <2>1, NextComplete DEF DkgInv
  <2>2. CASE UNCHANGED dkgVars
    BY <2>2 DEF dkgVars, CompleteContributions, InvalidNeverUsed
  <2>3. QED
    BY <2>1, <2>2
<1>3. QED
  BY <1>1, <1>2, DkgInvHolds, PTL DEF DkgSpec

\* A member of QUAL that completes has one contribution of each member in its
\* share and in the collective key (dkg.rs:401-447, 527-547).
THEOREM ContributionsComplete == ASSUME InOrder PROVE DkgSpec => []CompleteContributions
  BY OrderedCompletes, PTL

\* And no share that would fail verification is part of any completed secret
\* (dkg.rs:502-507).
THEOREM InvalidSharesUnused == ASSUME InOrder PROVE DkgSpec => []InvalidNeverUsed
  BY OrderedCompletes, PTL
=============================================================================
