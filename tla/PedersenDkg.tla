---------------------------- MODULE PedersenDkg -----------------------------
(***************************************************************************)
(* The distributed key generation of sigimora-crypto: one DkgState per     *)
(* party, fed by a transport that is not part of the crate.                *)
(*                                                                         *)
(* A DkgState has no phases: any message may be processed at any time, and *)
(* finalize may be tried after any of them.  The transport here delivers   *)
(* every message once, and each party's commitment before its share when   *)
(* InOrder holds (as one connection per peer does).  A party whose share   *)
(* does not verify complains to everyone.                                  *)
(*                                                                         *)
(* Field arithmetic is abstracted to which contributions a sum is made of, *)
(* and how often each occurs in it.  A dealer may hand out shares that     *)
(* fail verification, and shares made for another party: those verify,     *)
(* because a share is checked at the index it carries.  Participants       *)
(* outside Followed deal and complain, but their own state is not followed.*)
(***************************************************************************)
EXTENDS Naturals, FiniteSets

CONSTANTS
  DkgSize,        \* parties
  Followed,       \* the parties whose DkgState is followed
  Dealings,       \* what the dealers may do: shares that fail, shares gone astray
  MaxComplaints,  \* bound on the complaints about one party at one node
  InOrder         \* does a commitment always arrive before its dealer's share?

Participants == 1..DkgSize

ASSUME DkgAssumption ==
  /\ DkgSize \in Nat \ {0} /\ Followed \subseteq Participants
  /\ Dealings \subseteq [invalid : SUBSET (Participants \X Participants),
                        astray : SUBSET (Participants \X Participants)]
  /\ MaxComplaints \in Nat /\ InOrder \in BOOLEAN

VARIABLES
  dealt,        \* the pairs <<dealer, recipient>> of shares that fail or went astray
  commits,      \* received_public_keys and received_vss_publics, by sender
  shares,       \* received_shares, by sender
  wrong,        \* those among them that are not the recipient's share
  rejected,     \* senders whose share failed verification
  complaints,   \* complaints_received, counted by accused
  disqualified, \* disqualifications
  output        \* the DkgOutput, once finalize succeeds

dkgVars == <<dealt, commits, shares, wrong, rejected, complaints, disqualified, output>>

F == (DkgSize - 1) \div 3

Others(i) == Participants \ {i}

\* How often each contribution is in a sum.
Bag == [Participants -> Nat]

Nothing == [p \in Participants |-> 0]

Once(S) == [p \in Participants |-> IF p \in S THEN 1 ELSE 0]

Plus(bag, p) == [bag EXCEPT ![p] = @ + 1]

-----------------------------------------------------------------------------
(* The messages of DkgState.  Each node has been created and started.      *)

\* Proofs of possession of real keys verify; the others change nothing.
ProcessCommit(i, p) ==
  /\ p \in Others(i) /\ commits[i][p] = 0
  /\ commits' = [commits EXCEPT ![i] = Plus(@, p)]
  /\ UNCHANGED <<dealt, shares, wrong, rejected, complaints, disqualified, output>>

Arrives(i, p) ==
  /\ p \in Others(i) /\ shares[i][p] = 0 /\ p \notin rejected[i]
  /\ InOrder => commits[i][p] > 0

\* A share is pushed with its sender's name, whatever index it carries.
Push(i, p) ==
  /\ shares' = [shares EXCEPT ![i] = Plus(@, p)]
  /\ wrong' = [wrong EXCEPT ![i] =
                IF <<p, i>> \in dealt.invalid \cup dealt.astray THEN Plus(@, p) ELSE @]

ProcessShareUnchecked(i, p) ==            \* pushed before it is verified
  /\ Arrives(i, p) /\ Push(i, p)
  /\ UNCHANGED <<dealt, commits, rejected, complaints, disqualified, output>>

ProcessShareStoresRejected(i, p) ==       \* reports the error after the push
  /\ Arrives(i, p) /\ Push(i, p)
  /\ rejected' = [rejected EXCEPT ![i] = IF <<p, i>> \in dealt.invalid THEN @ \cup {p} ELSE @]
  /\ UNCHANGED <<dealt, commits, complaints, disqualified, output>>

\* A share is verified only against a commitment that is already there.
ProcessShare(i, p) ==
  /\ Arrives(i, p)
  /\ IF commits[i][p] > 0 /\ <<p, i>> \in dealt.invalid
       THEN /\ rejected' = [rejected EXCEPT ![i] = @ \cup {p}]
            /\ UNCHANGED <<shares, wrong>>
       ELSE Push(i, p) /\ UNCHANGED rejected
  /\ UNCHANGED <<dealt, commits, complaints, disqualified, output>>

\* A complaint about p reaches node i.  Complaints are counted by the party
\* they accuse: from whom, how often and whether they are true does not matter.
AddComplaint(i, p) ==
  /\ complaints[i][p] < MaxComplaints
  /\ complaints' = [complaints EXCEPT ![i] = Plus(@, p)]
  /\ disqualified' = [disqualified EXCEPT ![i] =
                        @ \cup {x \in Participants : complaints'[i][x] > F}]
  /\ UNCHANGED <<dealt, commits, shares, wrong, rejected, output>>

-----------------------------------------------------------------------------
(* finalize *)

Qual(i) == Participants \ disqualified[i]

\* The contributions of bag that come from S, and a node's own one.
Within(bag, S, own) ==
  [p \in Participants |-> (IF p \in S THEN bag[p] ELSE 0) + Once(S \cap own)[p]]

SharesFrom(i, S) == Cardinality({p \in S : shares[i][p] > 0})

EnoughSharesCountsAll(i) ==               \* not only those of QUAL members
  SharesFrom(i, Participants) >= Cardinality(Qual(i)) - 1

EnoughSharesNeedsOwn(i) ==                \* waits for a share of its own
  SharesFrom(i, Qual(i)) >= Cardinality(Qual(i))

\* Shares of everyone else in QUAL, of which each sends one; commitments are
\* not counted.
EnoughShares(i) == Cardinality(Qual(i)) <= SharesFrom(i, Qual(i)) + 1

\* The collective key is a sum of one key at least.
SomeKey(i) == i \in Qual(i) \/ \E p \in Qual(i) : commits[i][p] > 0

\* A call that fails leaves only qual_set behind, which is rebuilt each time.
Finalize(i) ==
  /\ ~output[i].done
  /\ Qual(i) # {} /\ EnoughShares(i) /\ SomeKey(i)
  /\ output' = [output EXCEPT ![i] =
       [done |-> TRUE,
        qual |-> Qual(i),
        pk |-> Within(commits[i], Qual(i), {i}),
        secret |-> Within(shares[i], Qual(i), {i}),
        wrong |-> Within(wrong[i], Qual(i), {})]]
  /\ UNCHANGED <<dealt, commits, shares, wrong, rejected, complaints, disqualified>>

-----------------------------------------------------------------------------

NoOutput == [done |-> FALSE, qual |-> {}, pk |-> Nothing, secret |-> Nothing,
             wrong |-> Nothing]

DkgInit ==
  /\ dealt \in Dealings
  /\ commits = [i \in Followed |-> Nothing]
  /\ shares = [i \in Followed |-> Nothing] /\ wrong = [i \in Followed |-> Nothing]
  /\ rejected = [i \in Followed |-> {}]
  /\ complaints = [i \in Followed |-> Nothing]
  /\ disqualified = [i \in Followed |-> {}]
  /\ output = [i \in Followed |-> NoOutput]

Deliver(i) == \E p \in Participants : ProcessCommit(i, p) \/ ProcessShare(i, p)

Complain(i) == \E p \in Participants : AddComplaint(i, p)

DkgNext == \E i \in Followed : Deliver(i) \/ Complain(i) \/ Finalize(i)

DkgSpec == DkgInit /\ [][DkgNext]_dkgVars

\* The transport delivers every commitment and share, and each party tries
\* finalize again while it has not succeeded.  Nobody has to complain.
FairDkgSpec == DkgSpec /\ \A i \in Followed : WF_dkgVars(Deliver(i)) /\ WF_dkgVars(Finalize(i))

-----------------------------------------------------------------------------
(* Properties. *)

Output == [done : BOOLEAN, qual : SUBSET Participants, pk : Bag, secret : Bag, wrong : Bag]

\* The lists count messages, the wrong shares are among those stored, and
\* nothing is stored of a sender whose share was rejected.
DkgTypeOK ==
  /\ dealt \in Dealings
  /\ commits \in [Followed -> Bag] /\ complaints \in [Followed -> Bag]
  /\ shares \in [Followed -> Bag] /\ wrong \in [Followed -> Bag]
  /\ \A i \in Followed, p \in Participants :
       /\ wrong[i][p] <= shares[i][p] /\ shares[i][p] <= 1
       /\ p \in rejected[i] => shares[i][p] = 0
  /\ rejected \in [Followed -> SUBSET Participants]
  /\ disqualified \in [Followed -> SUBSET Participants]
  /\ output \in [Followed -> Output]

\* finalize counts shares and looks at neither commitments nor senders, yet a
\* QUAL member that completes has exactly one contribution of every member of
\* QUAL in its share and in the collective key (dkg.rs:401-447, 527-547).
CompleteContributions ==
  \A i \in Followed :
    output[i].done /\ i \in output[i].qual
      => output[i].pk = Once(output[i].qual) /\ output[i].secret = Once(output[i].qual)

\* No share that would fail verification is part of a completed node's secret:
\* the only wrong ones are those made for another party, which pass
\* (dkg.rs:502-507).
InvalidNeverUsed ==
  \A i \in Followed, p \in Participants : output[i].wrong[p] > 0 => <<p, i>> \in dealt.astray

\* Node i waits for the share of a dealer it rejected and has not disqualified,
\* or has disqualified everybody.
Stuck(i) == Qual(i) = {} \/ Qual(i) \cap rejected[i] # {}

\* Every node completes, however many others it disqualifies and whatever
\* complaints it gets, except one that is stuck for ever (dkg.rs:519-547).
Completes == \A i \in Followed : ([]<>~Stuck(i)) => <>output[i].done

\* All parties that complete have the same collective public key.
AgreeOnKey == \A i, j \in Followed : output[i].done /\ output[j].done
                                    => output[i].pk = output[j].pk
=============================================================================
