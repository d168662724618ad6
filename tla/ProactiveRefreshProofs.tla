----------------------- MODULE ProactiveRefreshProofs -----------------------
(***************************************************************************)
(* The invariants of ProactiveRefresh, for every number of holders, every  *)
(* prime order of the scalars, every draw of secrets and slopes, and any   *)
(* number of duplicates, restarts and refreshes.                           *)
(*                                                                         *)
(* They follow from one inductive invariant, SharingInv: every key lies on *)
(* the line that the key generation dealt, moved by the slope recorded for *)
(* its holder.                                                             *)
(***************************************************************************)
EXTENDS ProactiveRefresh, SecretSharingProofs, SequenceTheorems

LEMMA Constants ==
  /\ N \in Nat /\ N > 1 /\ N < Q
  /\ \A p \in Parties : p \in Scalars /\ p # 0 /\ p \in Nat /\ FromU64(p) = p
  /\ IsFiniteSet(Parties) /\ 1 \in Parties /\ 2 \in Parties
  /\ Blinding \in Scalars
<1>1. N \in Nat /\ N > 1 /\ N < Q
  BY RefreshAssumption, QPositive
<1>2. \A p \in Parties : p \in Scalars /\ p # 0 /\ p \in Nat
  BY <1>1, QPositive DEF Parties, Scalars
<1>3. \A p \in Parties : FromU64(p) = p
  BY <1>2, ScalarTypes
<1>4. IsFiniteSet(Parties) /\ 1 \in Parties /\ 2 \in Parties
  BY <1>1, FS_Interval DEF Parties
<1> QED  BY <1>1, <1>2, <1>3, <1>4, ScalarTypes DEF Blinding

(* A polynomial of threshold two is its constant and its slope.            *)

LEMMA JoinTwo ==
  ASSUME NEW x \in Int, NEW y \in Int
  PROVE  LET s == <<x>> \o <<y>>
         IN  DOMAIN s = 1..2 /\ s[1] = x /\ s[2] = y
BY ConcatProperties

LEMMA EvalJoined ==
  ASSUME NEW a \in Scalars, NEW s \in Scalars, NEW x \in Scalars
  PROVE  Eval(<<a>> \o <<s>>, x) = Add(a, Mul(s, x))
<1> DEFINE c == <<a>> \o <<s>>
<1>1. a \in Int /\ s \in Int
  BY ScalarsAreIntegers
<1>2. DOMAIN c = 1..2 /\ c[1] = a /\ c[2] = s
  BY <1>1, JoinTwo
<1> HIDE DEF c
<1>3. Eval(c, x) = Add(c[1], Mul(c[2], x))
  BY <1>2, EvalOfTwo
<1> QED  BY <1>2, <1>3 DEF c

LEMMA EvalPair ==
  ASSUME NEW a \in Scalars, NEW s \in Scalars, NEW x \in Scalars
  PROVE  Eval(<<a, s>>, x) = Add(a, Mul(s, x))
<1>1. DOMAIN <<a, s>> = 1..2 /\ <<a, s>>[1] = a /\ <<a, s>>[2] = s
  OBVIOUS
<1> QED  BY <1>1, EvalOfTwo

-----------------------------------------------------------------------------
(* Pedersen commitments bind, as the two bases are independent.            *)

LEMMA CommitmentPoint ==
  ASSUME NEW v \in Scalars, NEW r \in Scalars
  PROVE  /\ IsPoint(PedersenCommit(Pedersen, v, r))
         /\ \A b : Coefficient(PedersenCommit(Pedersen, v, r), b)
                     = Add(Mul(Coefficient(Pedersen.g, b), v), Mul(Coefficient(Pedersen.h, b), r))
<1>1. IsPoint(Pedersen.g) /\ IsPoint(Pedersen.h)
  BY GeneratorPoint, HashPoint DEF Pedersen
<1>2. /\ IsPoint(G1Mul(Pedersen.g, v)) /\ IsPoint(G1Mul(Pedersen.h, r))
      /\ \A b : /\ Coefficient(G1Mul(Pedersen.g, v), b) = Mul(Coefficient(Pedersen.g, b), v)
                /\ Coefficient(G1Mul(Pedersen.h, r), b) = Mul(Coefficient(Pedersen.h, b), r)
  BY <1>1, MulPoint
<1> QED  BY <1>2, AddPoint DEF PedersenCommit

GBase == <<"generator">>
HBase == <<"SIGIMORA", "BLS_PEDERSEN_H_NUMS_2024">>

LEMMA BasesDiffer == GBase # HBase
BY DEF GBase, HBase

LEMMA CommitmentCoefficients ==
  ASSUME NEW v \in Scalars, NEW r \in Scalars
  PROVE  /\ Coefficient(PedersenCommit(Pedersen, v, r), GBase) = v
         /\ Coefficient(PedersenCommit(Pedersen, v, r), HBase) = r
<1>1. /\ Coefficient(Pedersen.g, GBase) = 1 /\ Coefficient(Pedersen.h, GBase) = 0
      /\ Coefficient(Pedersen.g, HBase) = 0 /\ Coefficient(Pedersen.h, HBase) = 1
  BY GeneratorPoint, HashPoint, BasesDiffer DEF Pedersen, GBase, HBase
<1> QED  BY <1>1, CommitmentPoint, MulLaws, AddLaws, ScalarTypes

LEMMA CommitmentBinds ==
  ASSUME NEW v \in Scalars, NEW r \in Scalars, NEW w \in Scalars, NEW s \in Scalars
  PROVE  PedersenCommit(Pedersen, v, r) = PedersenCommit(Pedersen, w, s) <=> v = w /\ r = s
BY CommitmentCoefficients

LEMMA CommitmentOfNothing ==
  ASSUME NEW v \in Scalars, NEW r \in Scalars
  PROVE  PedersenCommit(Pedersen, v, r) = Identity <=> v = 0 /\ r = 0
<1>1. PedersenCommit(Pedersen, 0, 0) = Identity
  <2>1. \A b : Coefficient(PedersenCommit(Pedersen, 0, 0), b) = Coefficient(Identity, b)
    BY CommitmentPoint, IdentityPoint, GeneratorPoint, HashPoint, CoefficientType, MulLaws,
       AddLaws, ScalarTypes DEF Pedersen
  <2> QED  BY <2>1, CommitmentPoint, IdentityPoint, PointsEqual, ScalarTypes
<1> QED  BY <1>1, CommitmentBinds, ScalarTypes

\* Scaling and adding commitments scales and adds what they commit to.
LEMMA CommitmentsAdd ==
  ASSUME NEW v \in Scalars, NEW r \in Scalars, NEW w \in Scalars, NEW s \in Scalars,
         NEW x \in Scalars
  PROVE  G1Add(PedersenCommit(Pedersen, v, r), G1Mul(PedersenCommit(Pedersen, w, s), x))
           = PedersenCommit(Pedersen, Add(v, Mul(w, x)), Add(r, Mul(s, x)))
<1> DEFINE P == PedersenCommit(Pedersen, v, r)
           R == PedersenCommit(Pedersen, w, s)
           V == Add(v, Mul(w, x))
           W == Add(r, Mul(s, x))
           C == PedersenCommit(Pedersen, V, W)
<1>1. IsPoint(P) /\ IsPoint(R) /\ V \in Scalars /\ W \in Scalars
  BY CommitmentPoint, ScalarTypes
<1>2. IsPoint(G1Mul(R, x)) /\ IsPoint(C)
  BY <1>1, MulPoint, CommitmentPoint
<1>3. IsPoint(G1Add(P, G1Mul(R, x)))
  BY <1>1, <1>2, AddPoint
<1>4. ASSUME NEW b
      PROVE  Coefficient(G1Add(P, G1Mul(R, x)), b) = Coefficient(C, b)
  <2> DEFINE g == Coefficient(Pedersen.g, b)
             h == Coefficient(Pedersen.h, b)
  <2>1. g \in Scalars /\ h \in Scalars
    BY GeneratorPoint, HashPoint, ScalarTypes DEF Pedersen
  <2>2. Coefficient(G1Add(P, G1Mul(R, x)), b)
          = Add(Coefficient(P, b), Mul(Coefficient(R, b), x))
    BY <1>1, <1>2, AddPoint, MulPoint
  <2>3. /\ Coefficient(P, b) = Add(Mul(g, v), Mul(h, r))
        /\ Coefficient(R, b) = Add(Mul(g, w), Mul(h, s))
        /\ Coefficient(C, b) = Add(Mul(g, V), Mul(h, W))
    BY <1>1, CommitmentPoint
  <2> HIDE DEF g, h
  <2>7. /\ Mul(w, x) \in Scalars /\ Mul(s, x) \in Scalars
        /\ Mul(g, w) \in Scalars /\ Mul(h, s) \in Scalars
        /\ Mul(g, v) \in Scalars /\ Mul(h, r) \in Scalars
        /\ Mul(g, Mul(w, x)) \in Scalars /\ Mul(h, Mul(s, x)) \in Scalars
        /\ \A a \in Scalars : a \in Int
    BY <2>1, ScalarTypes, ScalarsAreIntegers
  <2>4. Mul(Add(Mul(g, w), Mul(h, s)), x) = Add(Mul(g, Mul(w, x)), Mul(h, Mul(s, x)))
    BY <2>1, <2>7, MulLaws
  <2>5. /\ Mul(g, V) = Add(Mul(g, v), Mul(g, Mul(w, x)))
        /\ Mul(h, W) = Add(Mul(h, r), Mul(h, Mul(s, x)))
    BY <2>1, <2>7, MulLaws
  <2>6. Add(Add(Mul(g, v), Mul(h, r)), Add(Mul(g, Mul(w, x)), Mul(h, Mul(s, x))))
          = Add(Add(Mul(g, v), Mul(g, Mul(w, x))), Add(Mul(h, r), Mul(h, Mul(s, x))))
    BY <2>7, Regroup
  <2> QED  BY <2>2, <2>3, <2>4, <2>5, <2>6
<1> QED  BY <1>2, <1>3, <1>4, PointsEqual

-----------------------------------------------------------------------------
(* Blinded polynomials of threshold two and the shares of them.            *)

IsLine(f) == DOMAIN f = 1..2 /\ f[1] \in Scalars /\ f[2] \in Scalars

LEMMA Lines ==
  ASSUME NEW a \in Scalars, NEW s \in Scalars
  PROVE  /\ IsLine(<<a>> \o <<s>>) /\ (<<a>> \o <<s>>)[1] = a /\ (<<a>> \o <<s>>)[2] = s
         /\ IsLine(<<a, s>>)
<1>1. a \in Int /\ s \in Int
  BY ScalarsAreIntegers
<1> QED  BY <1>1, JoinTwo DEF IsLine

LEMMA ValueOnLine ==
  ASSUME NEW f, IsLine(f), NEW x \in Scalars
  PROVE  Eval(f, x) = Add(f[1], Mul(f[2], x)) /\ Eval(f, x) \in Scalars
<1>1. DOMAIN f = 1..2 /\ f[1] \in Scalars /\ f[2] \in Scalars
  BY DEF IsLine
<1>2. Eval(f, x) = Add(f[1], Mul(f[2], x))
  BY <1>1, EvalOfTwo
<1>3. Mul(f[2], x) \in Scalars
  BY <1>1, ScalarTypes
<1>4. Add(f[1], Mul(f[2], x)) \in Scalars
  BY <1>1, <1>3, ScalarTypes
<1> QED  BY <1>2, <1>4

LEMMA VerifyIffOnLine ==
  ASSUME NEW f, NEW r, IsLine(f), IsLine(r), NEW x \in Scalars, NEW v \in Scalars, NEW b \in Scalars
  PROVE  VerifyVssShare(CommitBlinded(BlindedPoly(f, r, Pedersen)), x, v, b, Pedersen)
           <=> v = Eval(f, x) /\ b = Eval(r, x)
<1> DEFINE c == CommitBlinded(BlindedPoly(f, r, Pedersen))
<1>1. /\ DOMAIN c = 1..2
      /\ c[1] = PedersenCommit(Pedersen, f[1], r[1]) /\ c[2] = PedersenCommit(Pedersen, f[2], r[2])
  BY DEF CommitBlinded, BlindedPoly, IsLine
<1>2. IsPoint(c[1]) /\ IsPoint(c[2])
  BY <1>1, CommitmentPoint DEF IsLine
<1>3. G1Add(c[1], G1Mul(c[2], x)) = PedersenCommit(Pedersen, Eval(f, x), Eval(r, x))
  BY <1>1, CommitmentsAdd, ValueOnLine DEF IsLine
<1> HIDE DEF c
<1>4. FoldRight(LAMBDA p, acc : G1Add(p, G1Mul(acc, FromU64(x))), c, Identity)
        = G1Add(c[1], G1Mul(c[2], x))
  BY <1>1, <1>2, CommitmentOfTwo
<1>5. VerifyVssShare(c, x, v, b, Pedersen)
        <=> PedersenCommit(Pedersen, v, b) = PedersenCommit(Pedersen, Eval(f, x), Eval(r, x))
  BY <1>3, <1>4 DEF VerifyVssShare
<1>6. Eval(f, x) \in Scalars /\ Eval(r, x) \in Scalars
  BY ValueOnLine
<1> QED  BY <1>5, <1>6, CommitmentBinds DEF c

(* A contribution, as far as a recipient can tell: two commitments to two  *)
(* lines, and a share for every party.                                     *)

Candidate(c) ==
  /\ \E f, r : IsLine(f) /\ IsLine(r) /\ c.public = CommitBlinded(BlindedPoly(f, r, Pedersen))
  /\ DOMAIN c.shares = Parties
  /\ \A i \in Parties : \E v, b \in Scalars : c.shares[i] = VssShare(i, v, b)

\* What p keeps of it: a share of a line through zero that c commits to.
ZeroLine(p, c) ==
  \E s, b \in Scalars :
    /\ CommitBlinded(BlindedWithZeroConstant(<<s>>, <<b>>, Pedersen)) = c.public
    /\ c.shares[p] = VssShare(p, Mul(s, p), Mul(b, p))

LEMMA CommitmentsOfLines ==
  ASSUME NEW f, NEW r, IsLine(f), IsLine(r)
  PROVE  LET c == CommitBlinded(BlindedPoly(f, r, Pedersen))
         IN  /\ DOMAIN c = 1..2
             /\ c[1] = PedersenCommit(Pedersen, f[1], r[1])
             /\ c[2] = PedersenCommit(Pedersen, f[2], r[2])
             /\ c = [k \in 1..2 |-> PedersenCommit(Pedersen, f[k], r[k])]
BY DEF CommitBlinded, BlindedPoly, IsLine

LEMMA ZeroCommitments ==
  ASSUME NEW s \in Scalars, NEW b \in Scalars
  PROVE  LET c == CommitBlinded(BlindedWithZeroConstant(<<s>>, <<b>>, Pedersen))
         IN  /\ DOMAIN c = 1..2
             /\ c[1] = Identity
             /\ c[2] = PedersenCommit(Pedersen, s, b)
             /\ c = [k \in 1..2 |-> IF k = 1 THEN Identity ELSE PedersenCommit(Pedersen, s, b)]
<1> DEFINE f == <<0>> \o <<s>>
           r == <<0>> \o <<b>>
<1>1. IsLine(f) /\ IsLine(r) /\ f[1] = 0 /\ f[2] = s /\ r[1] = 0 /\ r[2] = b
  BY Lines, ScalarTypes
<1>2. BlindedWithZeroConstant(<<s>>, <<b>>, Pedersen) = BlindedPoly(f, r, Pedersen)
  BY DEF BlindedWithZeroConstant
<1> HIDE DEF f, r
<1>3. PedersenCommit(Pedersen, 0, 0) = Identity
  BY CommitmentOfNothing, ScalarTypes
<1>4. \A k \in 1..2 : PedersenCommit(Pedersen, f[k], r[k])
                        = IF k = 1 THEN Identity ELSE PedersenCommit(Pedersen, s, b)
  BY <1>1, <1>3
<1> QED  BY <1>1, <1>2, <1>3, <1>4, CommitmentsOfLines

LEMMA AcceptedIsZeroLine ==
  ASSUME NEW p \in Parties, NEW c, Candidate(c), VerifyContribution(p, c)
  PROVE  ZeroLine(p, c)
<1>1. PICK f, r : IsLine(f) /\ IsLine(r) /\ c.public = CommitBlinded(BlindedPoly(f, r, Pedersen))
  BY DEF Candidate
<1>2. PICK v \in Scalars, b \in Scalars : c.shares[p] = VssShare(p, v, b)
  BY DEF Candidate
<1>3. c.shares[p].value = v /\ c.shares[p].blinding = b
  BY <1>2 DEF VssShare
<1>4. VerifyVssShare(c.public, p, v, b, Pedersen) /\ c.public[1] = Identity
  BY <1>3 DEF VerifyContribution
<1>5. v = Add(f[1], Mul(f[2], p)) /\ b = Add(r[1], Mul(r[2], p))
  BY <1>1, <1>4, VerifyIffOnLine, ValueOnLine, Constants
<1>6. f[1] = 0 /\ r[1] = 0
  BY <1>1, <1>4, CommitmentsOfLines, CommitmentOfNothing DEF IsLine
<1>7. v = Mul(f[2], p) /\ b = Mul(r[2], p)
  BY <1>1, <1>5, <1>6, AddLaws, ScalarTypes, Constants DEF IsLine
<1>8. c.public = CommitBlinded(BlindedWithZeroConstant(<<f[2]>>, <<r[2]>>, Pedersen))
  <2>1. PedersenCommit(Pedersen, 0, 0) = Identity
    BY CommitmentOfNothing, ScalarTypes
  <2>2. \A k \in 1..2 : PedersenCommit(Pedersen, f[k], r[k])
                         = IF k = 1 THEN Identity ELSE PedersenCommit(Pedersen, f[2], r[2])
    BY <1>6, <2>1
  <2> QED  BY <1>1, <2>2, CommitmentsOfLines, ZeroCommitments DEF IsLine
<1> QED  BY <1>1, <1>2, <1>7, <1>8 DEF ZeroLine, IsLine

-----------------------------------------------------------------------------
(* The inductive invariant: every key lies on the line through the secret  *)
(* that the key generation dealt, moved by the slope recorded for its      *)
(* holder; the published keys lie on the line itself; and whatever a       *)
(* holder keeps is a share of a line through zero.                         *)

SharingTypes ==
  /\ key \in [Parties -> Scalars] /\ member \in [Parties -> Scalars]
  /\ moved \in [Parties -> Scalars] /\ starts \in [Parties -> Nat]
  /\ DOMAIN contributions = Parties

KeysOnTheLine ==
  \E d \in Scalars : \A p \in Parties :
    /\ member[p] = Add(MasterSecret, Mul(d, p))
    /\ key[p] = Add(MasterSecret, Mul(Add(d, moved[p]), p))

SentAreZero == \A c \in sent : \E p \in Parties, s \in Scalars : c = Contribution(p, ZeroPoly(s))

KeptAreZero ==
  \A p \in Parties :
    /\ IsFiniteSet(DOMAIN contributions[p])
    /\ \A c \in DOMAIN contributions[p] : contributions[p][c] \in Nat /\ ZeroLine(p, c)

SharingInv == SharingTypes /\ KeysOnTheLine /\ SentAreZero /\ KeptAreZero

-----------------------------------------------------------------------------
(* Sums over finite domains.                                               *)

LEMMA SumOfScalars ==
  ASSUME NEW f, IsFiniteSet(DOMAIN f), \A x \in DOMAIN f : f[x] \in Scalars
  PROVE  SumOf(f) \in Scalars
BY SumType, SumOfIsSumOn DEF ScalarsOn

LEMMA SumOfLines ==
  ASSUME NEW S, IsFiniteSet(S), NEW f \in [S -> Scalars], NEW g \in [S -> Scalars],
         NEW c \in Scalars, NEW h, DOMAIN h = S, \A x \in S : h[x] = Add(f[x], Mul(g[x], c))
  PROVE  SumOf(h) = Add(SumOf(f), Mul(SumOf(g), c))
<1>1. ScalarsOn(f, S) /\ ScalarsOn(g, S)
  BY DEF ScalarsOn
<1>2. SumOn(h, S) = Add(SumOn(f, S), Mul(SumOn(g, S), c))
  BY <1>1, SumLinear
<1> QED  BY <1>2, SumOfIsSumOn

LEMMA SumOfNothing ==
  ASSUME NEW S, IsFiniteSet(S)
  PROVE  SumOf([x \in S |-> 0]) = 0
<1> DEFINE z == [x \in S |-> 0]
<1>1. z \in [S -> Scalars] /\ DOMAIN z = S /\ \A x \in S : z[x] = Add(z[x], Mul(z[x], 1))
  BY ScalarTypes, AddLaws, MulLaws
<1>2. SumOf(z) \in Scalars
  BY <1>1, SumOfScalars
<1> HIDE DEF z
<1>3. SumOf(z) = Add(SumOf(z), Mul(SumOf(z), 1))
  BY <1>1, SumOfLines, ScalarTypes
<1>4. Mul(SumOf(z), 1) = SumOf(z)
  BY <1>2, MulLaws
<1>5. SumOf(z) = 0
  BY <1>2, <1>3, <1>4, AddFixes
<1> QED  BY <1>5 DEF z

LEMMA SumOfMultiples ==
  ASSUME NEW S, IsFiniteSet(S), NEW g \in [S -> Scalars], NEW c \in Scalars,
         NEW h, DOMAIN h = S, \A x \in S : h[x] = Mul(g[x], c)
  PROVE  SumOf(h) = Mul(SumOf(g), c)
<1> DEFINE z == [x \in S |-> 0]
<1>1. z \in [S -> Scalars] /\ \A x \in S : z[x] = 0
  BY ScalarTypes
<1>2. \A x \in S : Mul(g[x], c) \in Scalars
  BY ScalarTypes
<1>3. \A x \in S : h[x] = Add(z[x], Mul(g[x], c))
  BY <1>1, <1>2, AddLaws
<1>4. SumOf(z) = 0 /\ SumOf(g) \in Scalars
  BY SumOfNothing, SumOfScalars
<1> HIDE DEF z
<1>5. SumOf(h) = Add(SumOf(z), Mul(SumOf(g), c))
  BY <1>1, <1>3, SumOfLines
<1>6. Mul(SumOf(g), c) \in Scalars
  BY <1>4, ScalarTypes
<1> QED  BY <1>4, <1>5, <1>6, AddLaws

-----------------------------------------------------------------------------
(* Contributions.                                                          *)

LEMMA ZeroPolyIsLine ==
  ASSUME NEW s \in Scalars
  PROVE  /\ ZeroPoly(s).f = <<0>> \o <<s>> /\ ZeroPoly(s).r = <<0>> \o <<Blinding>>
         /\ ZeroPoly(s) = BlindedPoly(ZeroPoly(s).f, ZeroPoly(s).r, Pedersen)
         /\ IsLine(ZeroPoly(s).f) /\ IsLine(ZeroPoly(s).r)
         /\ \A x \in Scalars :
              EvalBlinded(ZeroPoly(s), x) = VssShare(x, Mul(s, x), Mul(Blinding, x))
<1>1. /\ ZeroPoly(s).f = <<0>> \o <<s>> /\ ZeroPoly(s).r = <<0>> \o <<Blinding>>
      /\ ZeroPoly(s) = BlindedPoly(ZeroPoly(s).f, ZeroPoly(s).r, Pedersen)
  BY DEF ZeroPoly, BlindedWithZeroConstant, BlindedPoly
<1>2. IsLine(ZeroPoly(s).f) /\ IsLine(ZeroPoly(s).r)
  <2>1. IsLine(<<0>> \o <<s>>) /\ IsLine(<<0>> \o <<Blinding>>)
    BY Lines, ScalarTypes, Constants
  <2> QED  BY <1>1, <2>1
<1>3. ASSUME NEW x \in Scalars, NEW a \in Scalars
      PROVE  Eval(<<0>> \o <<a>>, x) = Mul(a, x)
  BY EvalJoined, AddLaws, ScalarTypes
<1>4. ASSUME NEW x \in Scalars
      PROVE  EvalBlinded(ZeroPoly(s), x) = VssShare(x, Mul(s, x), Mul(Blinding, x))
  BY <1>1, <1>3, Constants DEF EvalBlinded
<1> QED  BY <1>1, <1>2, <1>4

LEMMA ContributionParts ==
  ASSUME NEW from, NEW s \in Scalars
  PROVE  LET c == Contribution(from, ZeroPoly(s))
         IN  /\ c.public = CommitBlinded(ZeroPoly(s))
             /\ DOMAIN c.shares = Parties
             /\ \A i \in Parties : c.shares[i] = VssShare(i, Mul(s, i), Mul(Blinding, i))
             /\ Candidate(c)
<1> DEFINE c == Contribution(from, ZeroPoly(s))
<1>1. c.public = CommitBlinded(ZeroPoly(s)) /\ DOMAIN c.shares = Parties
  BY DEF Contribution
<1>2. \A i \in Parties : c.shares[i] = VssShare(i, Mul(s, i), Mul(Blinding, i))
  BY ZeroPolyIsLine, Constants DEF Contribution
<1>3. \A i \in Parties : Mul(s, i) \in Scalars /\ Mul(Blinding, i) \in Scalars
  BY ScalarTypes, Constants
<1>4. IsLine(ZeroPoly(s).f) /\ IsLine(ZeroPoly(s).r)
      /\ c.public = CommitBlinded(BlindedPoly(ZeroPoly(s).f, ZeroPoly(s).r, Pedersen))
  BY <1>1, ZeroPolyIsLine
<1> HIDE DEF c
<1>5. Candidate(c)
  BY <1>1, <1>2, <1>3, <1>4 DEF Candidate
<1> QED  BY <1>1, <1>2, <1>5 DEF c

LEMMA AlteredAreCandidates == \A c \in Altered : Candidate(c)
<1>1. ASSUME NEW f, NEW r, IsLine(f), IsLine(r)
      PROVE  Candidate(Contribution(N, BlindedPoly(f, r, Pedersen)))
  <2> DEFINE b == BlindedPoly(f, r, Pedersen)
             c == Contribution(N, b)
  <2>1. c.public = CommitBlinded(b) /\ DOMAIN c.shares = Parties
    BY DEF Contribution
  <2>2. \A i \in Parties : c.shares[i] = VssShare(i, Eval(f, i), Eval(r, i))
    BY DEF Contribution, EvalBlinded, BlindedPoly
  <2>3. \A i \in Parties : Eval(f, i) \in Scalars /\ Eval(r, i) \in Scalars
    BY <1>1, ValueOnLine, Constants
  <2> HIDE DEF c
  <2>4. Candidate(c)
    BY <1>1, <2>1, <2>2, <2>3 DEF Candidate
  <2> QED  BY <2>4 DEF c
<1>2. /\ IsLine(<<1, 1>>) /\ IsLine(<<0, Blinding>>) /\ IsLine(<<0, 1>>) /\ IsLine(<<1, Blinding>>)
  BY Lines, ScalarTypes, Constants
<1> DEFINE a == Contribution(N, ZeroPoly(1))
           w == [a EXCEPT !.shares[1].value = Add(@, 1)]
<1>3. Candidate(w)
  <2>1. /\ a.public = CommitBlinded(ZeroPoly(1)) /\ DOMAIN a.shares = Parties
        /\ \A i \in Parties : a.shares[i] = VssShare(i, Mul(1, i), Mul(Blinding, i))
        /\ Candidate(a)
    BY ContributionParts, ScalarTypes
  <2>2. w.public = a.public /\ w.shares = [a.shares EXCEPT ![1].value = Add(@, 1)]
    BY DEF Contribution
  <2> DEFINE shares == a.shares
  <2>3. /\ DOMAIN w.shares = Parties
        /\ \A i \in Parties \ {1} : w.shares[i] = a.shares[i]
        /\ w.shares[1] = [a.shares[1] EXCEPT !.value = Add(@, 1)]
    BY <2>1, <2>2, Constants
  <2>4. w.shares[1] = VssShare(1, Add(Mul(1, 1), 1), Mul(Blinding, 1))
    <3>1. a.shares[1] = VssShare(1, Mul(1, 1), Mul(Blinding, 1))
      BY <2>1, Constants
    <3> DEFINE v == Mul(1, 1)
               b == Mul(Blinding, 1)
    <3> HIDE DEF v, b
    <3>2. [VssShare(1, v, b) EXCEPT !.value = Add(@, 1)] = VssShare(1, Add(v, 1), b)
      BY DEF VssShare
    <3> QED  BY <2>3, <3>1, <3>2 DEF v, b
  <2>5. /\ Add(Mul(1, 1), 1) \in Scalars
        /\ \A i \in Parties : Mul(Blinding, i) \in Scalars /\ Mul(1, i) \in Scalars
    BY ScalarTypes, Constants
  <2>6. \A i \in Parties : \E v, b \in Scalars : w.shares[i] = VssShare(i, v, b)
    <3> SUFFICES ASSUME NEW i \in Parties
                 PROVE  \E v, b \in Scalars : w.shares[i] = VssShare(i, v, b)
      OBVIOUS
    <3>1. CASE i = 1
      BY <3>1, <2>4, <2>5, Constants
    <3>2. CASE i # 1
      BY <3>2, <2>1, <2>3, <2>5
    <3> QED  BY <3>1, <3>2
  <2>7. \E f, r : IsLine(f) /\ IsLine(r) /\ w.public = CommitBlinded(BlindedPoly(f, r, Pedersen))
    BY <2>1, <2>2 DEF Candidate
  <2> HIDE DEF w
  <2> QED  BY <2>3, <2>6, <2>7 DEF Candidate
<1> HIDE DEF w
<1> QED  BY <1>1, <1>2, <1>3 DEF Altered, w

LEMMA SlopeOfZeroLine ==
  ASSUME NEW p \in Parties, NEW c, ZeroLine(p, c)
  PROVE  /\ SlopeOf(c) \in Scalars /\ c.shares[p].value = Mul(SlopeOf(c), p)
         /\ \A s, b \in Scalars :
              c.public = CommitBlinded(BlindedWithZeroConstant(<<s>>, <<b>>, Pedersen))
                                    => SlopeOf(c) = s
<1>1. PICK s \in Scalars, b \in Scalars :
        /\ CommitBlinded(BlindedWithZeroConstant(<<s>>, <<b>>, Pedersen)) = c.public
        /\ c.shares[p] = VssShare(p, Mul(s, p), Mul(b, p))
  BY DEF ZeroLine
<1>2. c.public[2] = PedersenCommit(Pedersen, s, b)
  BY <1>1, ZeroCommitments
<1>3. \A v \in Scalars :
        (\E r \in Scalars : PedersenCommit(Pedersen, v, r) = c.public[2]) <=> v = s
  BY <1>2, CommitmentBinds
<1>4. SlopeOf(c) = s
  BY <1>3 DEF SlopeOf
<1>5. c.shares[p].value = Mul(s, p)
  BY <1>1 DEF VssShare
<1>6. ASSUME NEW v \in Scalars, NEW r \in Scalars,
             c.public = CommitBlinded(BlindedWithZeroConstant(<<v>>, <<r>>, Pedersen))
      PROVE  v = s
  <2>1. c.public[2] = PedersenCommit(Pedersen, v, r)
    BY <1>6, ZeroCommitments
  <2>2. PedersenCommit(Pedersen, v, r) = PedersenCommit(Pedersen, s, b)
    BY <1>2, <2>1
  <2> QED  BY <2>2, CommitmentBinds
<1> QED  BY <1>4, <1>5, <1>6

\* The slope that what a holder keeps adds up to.
KeptSlope(p) ==
  SumOf([c \in DOMAIN contributions[p] |-> Mul(FromU64(contributions[p][c]), SlopeOf(c))])

LEMMA KeptMovesAlong ==
  ASSUME KeptAreZero, NEW p \in Parties
  PROVE  KeptSlope(p) \in Scalars /\ DeltaSum(p) = Mul(KeptSlope(p), p)
<1> DEFINE S == DOMAIN contributions[p]
           g == [c \in S |-> Mul(FromU64(contributions[p][c]), SlopeOf(c))]
           h == [c \in S |-> Mul(FromU64(contributions[p][c]), c.shares[p].value)]
<1>1. IsFiniteSet(S)
  BY DEF KeptAreZero
<1>2. ASSUME NEW c \in S
      PROVE  FromU64(contributions[p][c]) \in Scalars /\ SlopeOf(c) \in Scalars
             /\ c.shares[p].value = Mul(SlopeOf(c), p)
  <2>1. contributions[p][c] \in Nat /\ ZeroLine(p, c)
    BY DEF KeptAreZero
  <2>2. FromU64(contributions[p][c]) \in Scalars
    BY <2>1, ScalarTypes
  <2> QED  BY <2>1, <2>2, SlopeOfZeroLine
<1>3. g \in [S -> Scalars]
  BY <1>2, ScalarTypes
<1>4. \A c \in S : h[c] = Mul(g[c], p)
  <2> TAKE c \in S
  <2>1. g[c] = Mul(FromU64(contributions[p][c]), SlopeOf(c))
        /\ h[c] = Mul(FromU64(contributions[p][c]), Mul(SlopeOf(c), p))
    BY <1>2
  <2> DEFINE a == FromU64(contributions[p][c])
             b == SlopeOf(c)
  <2>2. a \in Int /\ b \in Int /\ p \in Int
    BY <1>2, Constants, ScalarsAreIntegers
  <2> HIDE DEF a, b
  <2>3. Mul(a, Mul(b, p)) = Mul(Mul(a, b), p)
    BY <2>2, MulLaws
  <2> QED  BY <2>1, <2>3 DEF a, b
<1>5. DOMAIN h = S /\ p \in Scalars
  BY Constants
<1>6. KeptSlope(p) = SumOf(g) /\ DeltaSum(p) = SumOf(h)
  BY DEF KeptSlope, DeltaSum
<1> HIDE DEF S, g, h
<1>7. SumOf(g) \in Scalars
  BY <1>1, <1>3, SumOfScalars
<1>8. SumOf(h) = Mul(SumOf(g), p)
  BY <1>1, <1>3, <1>4, <1>5, SumOfMultiples
<1> QED  BY <1>6, <1>7, <1>8

LEMMA Master == MasterSecret \in Scalars /\ DOMAIN Secrets = Parties
<1>1. DOMAIN Secrets = Parties /\ \A x \in Parties : Secrets[x] \in Scalars
  BY RefreshAssumption
<1> QED  BY <1>1, Constants, SumOfScalars DEF MasterSecret

-----------------------------------------------------------------------------
(* A step that moves some keys, each along the slope that it records.      *)

MovesAlong ==
  \E slope \in [Parties -> Scalars] :
    /\ key' = [p \in Parties |-> Add(key[p], Mul(slope[p], p))]
    /\ moved' = [p \in Parties |-> Add(moved[p], slope[p])]
    /\ member' = member

LEMMA StaysOnTheLine ==
  ASSUME KeysOnTheLine, SharingTypes, MovesAlong
  PROVE  KeysOnTheLine' /\ key' \in [Parties -> Scalars] /\ moved' \in [Parties -> Scalars]
         /\ member' \in [Parties -> Scalars]
<1>1. PICK slope \in [Parties -> Scalars] :
        /\ key' = [p \in Parties |-> Add(key[p], Mul(slope[p], p))]
        /\ moved' = [p \in Parties |-> Add(moved[p], slope[p])]
        /\ member' = member
  BY DEF MovesAlong
<1>2. PICK d \in Scalars : \A p \in Parties :
        /\ member[p] = Add(MasterSecret, Mul(d, p))
        /\ key[p] = Add(MasterSecret, Mul(Add(d, moved[p]), p))
  BY DEF KeysOnTheLine
<1>3. ASSUME NEW p \in Parties
      PROVE  key'[p] = Add(MasterSecret, Mul(Add(d, moved'[p]), p))
  <2> DEFINE m == moved[p]
             s == slope[p]
  <2>1. m \in Scalars /\ s \in Scalars /\ p \in Scalars /\ MasterSecret \in Scalars
    BY Constants, Master DEF SharingTypes
  <2>2. key'[p] = Add(Add(MasterSecret, Mul(Add(d, m), p)), Mul(s, p)) /\ moved'[p] = Add(m, s)
    BY <1>1, <1>2
  <2> HIDE DEF m, s
  <2>3. /\ \A a \in Scalars : a \in Int
        /\ Add(d, m) \in Scalars /\ Mul(Add(d, m), p) \in Scalars /\ Mul(s, p) \in Scalars
    BY <2>1, ScalarTypes, ScalarsAreIntegers
  <2>4. Add(Add(MasterSecret, Mul(Add(d, m), p)), Mul(s, p))
          = Add(MasterSecret, Add(Mul(Add(d, m), p), Mul(s, p)))
    BY <2>1, <2>3, AddLaws
  <2>5. Add(Mul(Add(d, m), p), Mul(s, p)) = Mul(Add(Add(d, m), s), p)
    BY <2>1, <2>3, MulLaws
  <2>6. Add(Add(d, m), s) = Add(d, Add(m, s))
    BY <2>1, <2>3, AddLaws
  <2> QED  BY <2>2, <2>4, <2>5, <2>6
<1>4. KeysOnTheLine'
  BY <1>1, <1>2, <1>3 DEF KeysOnTheLine
<1>5. \A p \in Parties : key[p] \in Scalars /\ moved[p] \in Scalars /\ slope[p] \in Scalars
                         /\ p \in Scalars
  BY Constants DEF SharingTypes
<1>6. \A p \in Parties : Add(key[p], Mul(slope[p], p)) \in Scalars
                         /\ Add(moved[p], slope[p]) \in Scalars
  BY <1>5, ScalarTypes
<1> QED  BY <1>1, <1>4, <1>6 DEF SharingTypes

\* Only p moves.
LEMMA OneMoves ==
  ASSUME SharingTypes, NEW p \in Parties, NEW s \in Scalars, member' = member,
         key' = [key EXCEPT ![p] = Add(key[p], Mul(s, p))],
         moved' = [moved EXCEPT ![p] = Add(@, s)]
  PROVE  MovesAlong
<1> DEFINE slope == [q \in Parties |-> IF q = p THEN s ELSE 0]
<1>1. slope \in [Parties -> Scalars]
  BY ScalarTypes
<1>2. ASSUME NEW q \in Parties, q # p
      PROVE  Add(key[q], Mul(slope[q], q)) = key[q] /\ Add(moved[q], slope[q]) = moved[q]
  <2>1. slope[q] = 0 /\ q \in Scalars /\ key[q] \in Scalars /\ moved[q] \in Scalars
    BY <1>2, Constants DEF SharingTypes
  <2> QED  BY <2>1, AddLaws, MulLaws
<1>3. key' = [q \in Parties |-> Add(key[q], Mul(slope[q], q))]
      /\ moved' = [q \in Parties |-> Add(moved[q], slope[q])]
  BY <1>2 DEF SharingTypes
<1> QED  BY <1>1, <1>3 DEF MovesAlong

(* The library's single-share moves add the value of a line through zero.  *)

LEMMA OwnMoves ==
  ASSUME NEW p \in Parties, NEW k \in Scalars, NEW s \in Scalars
  PROVE  /\ AtsBlsRefresh(Share(p, k), s, Blinding).share.value = Add(k, Mul(s, p))
         /\ FrostMcpRefreshShare(Share(p, k), s).share.value = Add(k, Mul(s, p))
<1>1. EvalBlinded(ZeroPoly(s), p).value = Mul(s, p)
  <2>1. EvalBlinded(ZeroPoly(s), p) = VssShare(p, Mul(s, p), Mul(Blinding, p))
    BY ZeroPolyIsLine, Constants
  <2> QED  BY <2>1 DEF VssShare
<1>2. AtsBlsRefresh(Share(p, k), s, Blinding).share.value = Add(k, Mul(s, p))
  BY <1>1 DEF AtsBlsRefresh, Share, ZeroPoly
<1>3. Eval(<<0>> \o <<s>>, p) = Mul(s, p)
  BY EvalJoined, AddLaws, ScalarTypes, Constants
<1>4. FrostMcpRefreshShare(Share(p, k), s).share.value = Add(k, Mul(s, p))
  BY <1>3 DEF FrostMcpRefreshShare, FrostMove, Share, PolyWithZeroConstant, EvalPoly
<1> QED  BY <1>2, <1>4

LEMMA ManagerMoves ==
  ASSUME NEW p \in Parties, NEW k \in Scalars
  PROVE  /\ SumOf(ManagerSlopes) \in Scalars
         /\ ApplyContributions(k, p) = Add(k, Mul(SumOf(ManagerSlopes), p))
<1> DEFINE h == [i \in Parties |-> GenerateContribution(i).shares[p].value]
<1>1. ManagerSlopes \in [Parties -> Scalars] /\ IsFiniteSet(Parties) /\ p \in Scalars
  BY RefreshAssumption, Constants
<1>2. ASSUME NEW i \in Parties
      PROVE  h[i] = Mul(ManagerSlopes[i], p)
  <2>1. ManagerSlopes[i] \in Scalars
    BY <1>1
  <2>2. GenerateContribution(i).shares[p]
          = VssShare(p, Mul(ManagerSlopes[i], p), Mul(Blinding, p))
    BY <2>1, ContributionParts DEF GenerateContribution
  <2> QED  BY <2>2 DEF VssShare
<1>3. DOMAIN h = Parties /\ ApplyContributions(k, p) = Add(k, SumOf(h))
  BY DEF ApplyContributions
<1> HIDE DEF h
<1>4. SumOf(h) = Mul(SumOf(ManagerSlopes), p)
  BY <1>1, <1>2, <1>3, SumOfMultiples
<1>5. SumOf(ManagerSlopes) \in Scalars
  BY <1>1, SumOfScalars
<1> QED  BY <1>3, <1>4, <1>5

-----------------------------------------------------------------------------
(* Every action keeps the invariant.                                       *)

LEMMA StartKeeps ==
  ASSUME SharingInv, NEW p \in Parties, Start(p)
  PROVE  SharingInv'
<1> DEFINE s == Slopes[p][starts[p] + 1]
<1>1. s \in Scalars
  <2>1. starts[p] \in Nat /\ starts[p] < Len(Slopes[p]) /\ Slopes[p] \in Seq(Scalars)
    BY RefreshAssumption DEF Start, SharingInv, SharingTypes
  <2> QED  BY <2>1
<1>2. starts' = [starts EXCEPT ![p] = @ + 1] /\ starts'[p] = starts[p] + 1
  BY DEF Start, SharingInv, SharingTypes
<1>3. sent' = sent \cup {Contribution(p, ZeroPoly(s))}
  BY <1>2 DEF Start
<1>4. SentAreZero'
  BY <1>1, <1>3 DEF SharingInv, SentAreZero
<1>5. UNCHANGED <<key, member, contributions, moved>>
  BY DEF Start
<1>6. SharingTypes'
  BY <1>2, <1>5 DEF SharingInv, SharingTypes
<1>7. KeysOnTheLine' /\ KeptAreZero'
  BY <1>5 DEF SharingInv, KeysOnTheLine, KeptAreZero
<1> QED  BY <1>4, <1>6, <1>7 DEF SharingInv

LEMMA AddContributionKeeps ==
  ASSUME SharingInv, NEW p \in Parties, NEW c, AddContribution(p, c)
  PROVE  SharingInv'
<1>1. Candidate(c)
  BY AlteredAreCandidates, ContributionParts DEF AddContribution, SharingInv, SentAreZero
<1>2. ZeroLine(p, c)
  BY <1>1, AcceptedIsZeroLine DEF AddContribution
<1> DEFINE old == contributions[p]
           new == old (+) SetToBag({c})
<1>3. contributions' = [contributions EXCEPT ![p] = new] /\ DOMAIN contributions = Parties
  BY DEF AddContribution, SharingInv, SharingTypes
<1>4. IsFiniteSet(DOMAIN old) /\ \A d \in DOMAIN old : old[d] \in Nat /\ ZeroLine(p, d)
  BY DEF SharingInv, KeptAreZero
<1>5. DOMAIN new = DOMAIN old \cup {c} /\ \A d \in DOMAIN new : new[d] \in Nat
  BY <1>4 DEF (+), SetToBag, BagToSet
<1>6. IsFiniteSet(DOMAIN new)
  BY <1>4, <1>5, FS_AddElement
<1>7. \A d \in DOMAIN new : ZeroLine(p, d)
  BY <1>2, <1>4, <1>5
<1> HIDE DEF old, new
<1>8. KeptAreZero'
  <2>1. contributions'[p] = new /\ \A q \in Parties \ {p} : contributions'[q] = contributions[q]
    BY <1>3
  <2> QED  BY <1>5, <1>6, <1>7, <2>1 DEF SharingInv, KeptAreZero
<1>9. UNCHANGED <<key, member, starts, sent, moved>>
  BY DEF AddContribution
<1>10. SharingTypes' /\ KeysOnTheLine' /\ SentAreZero'
  BY <1>3, <1>9 DEF SharingInv, SharingTypes, KeysOnTheLine, SentAreZero
<1> QED  BY <1>8, <1>10 DEF SharingInv

\* Of the moving steps only the move is left to show.
LEMMA MoveKeeps ==
  ASSUME SharingInv, MovesAlong, UNCHANGED <<starts, contributions, sent>>
  PROVE  SharingInv'
<1>1. KeysOnTheLine' /\ key' \in [Parties -> Scalars] /\ moved' \in [Parties -> Scalars]
      /\ member' \in [Parties -> Scalars]
  BY StaysOnTheLine DEF SharingInv
<1>2. SharingTypes' /\ SentAreZero' /\ KeptAreZero'
  BY <1>1 DEF SharingInv, SharingTypes, SentAreZero, KeptAreZero
<1> QED  BY <1>1, <1>2 DEF SharingInv

LEMMA ApplyRefreshKeeps ==
  ASSUME SharingInv, NEW p \in Parties, ApplyRefresh(p)
  PROVE  SharingInv'
<1>1. KeptSlope(p) \in Scalars /\ DeltaSum(p) = Mul(KeptSlope(p), p)
  BY KeptMovesAlong DEF SharingInv
<1>2. key' = [key EXCEPT ![p] = Add(key[p], Mul(KeptSlope(p), p))]
  BY <1>1 DEF ApplyRefresh, ComputeNewKey
<1>3. moved' = [moved EXCEPT ![p] = Add(@, KeptSlope(p))] /\ member' = member
      /\ UNCHANGED <<starts, contributions, sent>>
  BY DEF ApplyRefresh, KeptSlope
<1>4. MovesAlong
  BY <1>1, <1>2, <1>3, OneMoves DEF SharingInv
<1> QED  BY <1>3, <1>4, MoveKeeps

LEMMA RefreshOwnShareKeeps ==
  ASSUME SharingInv, NEW p \in Parties, RefreshOwnShare(p)
  PROVE  SharingInv'
<1>1. key[p] \in Scalars /\ OwnSlope \in Scalars
  BY RefreshAssumption DEF SharingInv, SharingTypes
<1>2. key' = [key EXCEPT ![p] = Add(key[p], Mul(OwnSlope, p))]
  BY <1>1, OwnMoves DEF RefreshOwnShare, OwnShare
<1>3. moved' = [moved EXCEPT ![p] = Add(@, OwnSlope)] /\ member' = member
      /\ UNCHANGED <<starts, contributions, sent>>
  BY DEF RefreshOwnShare
<1>4. MovesAlong
  BY <1>1, <1>2, <1>3, OneMoves DEF SharingInv
<1> QED  BY <1>3, <1>4, MoveKeeps

LEMMA ManagerRefreshKeeps ==
  ASSUME SharingInv, ManagerRefresh
  PROVE  SharingInv'
<1> DEFINE slope == [p \in Parties |-> SumOf(ManagerSlopes)]
<1>1. \A p \in Parties : key[p] \in Scalars
  BY DEF SharingInv, SharingTypes
<1>2. SumOf(ManagerSlopes) \in Scalars
  BY <1>1, ManagerMoves, Constants
<1>3. key' = [p \in Parties |-> Add(key[p], Mul(slope[p], p))]
  BY <1>1, ManagerMoves DEF ManagerRefresh
<1>4. moved' = [p \in Parties |-> Add(moved[p], slope[p])] /\ member' = member
      /\ UNCHANGED <<starts, contributions, sent>>
  BY DEF ManagerRefresh
<1>5. slope \in [Parties -> Scalars]
  BY <1>2
<1>6. MovesAlong
  BY <1>3, <1>4, <1>5 DEF MovesAlong
<1> QED  BY <1>4, <1>6, MoveKeeps

LEMMA DistributedRefreshKeeps ==
  ASSUME SharingInv, DistributedRefresh
  PROVE  SharingInv'
<1>1. ManagerSlopes \in [Parties -> Scalars] /\ \A p \in Parties : key[p] \in Scalars
  BY RefreshAssumption DEF SharingInv, SharingTypes
<1>2. \A p \in Parties :
        FrostMcpRefreshShare(OwnShare(p), ManagerSlopes[p]).share.value
          = Add(key[p], Mul(ManagerSlopes[p], p))
  BY <1>1, OwnMoves DEF OwnShare
<1>3. key' = [p \in Parties |-> Add(key[p], Mul(ManagerSlopes[p], p))]
  BY <1>2 DEF DistributedRefresh, FrostDistributedRefresh
<1>4. moved' = [p \in Parties |-> Add(moved[p], ManagerSlopes[p])] /\ member' = member
      /\ UNCHANGED <<starts, contributions, sent>>
  BY DEF DistributedRefresh
<1>5. MovesAlong
  BY <1>1, <1>3, <1>4 DEF MovesAlong
<1> QED  BY <1>4, <1>5, MoveKeeps

LEMMA RefreshKeeps == SharingInv /\ Refresh => SharingInv'
<1> SUFFICES ASSUME SharingInv, Refresh  PROVE SharingInv'
  OBVIOUS
<1>1. Refreshing \subseteq Parties
  BY RefreshAssumption
<1>2. ASSUME NEW p \in Parties, Start(p)  PROVE SharingInv'
  BY <1>2, StartKeeps
<1>3. ASSUME NEW p \in Parties, RefreshOwnShare(p)  PROVE SharingInv'
  BY <1>3, RefreshOwnShareKeeps
<1>4. ASSUME NEW p \in Refreshing, NEW c \in sent \cup Altered, AddContribution(p, c)
      PROVE  SharingInv'
  BY <1>1, <1>4, AddContributionKeeps
<1>5. ASSUME NEW p \in Refreshing, ApplyRefresh(p)  PROVE SharingInv'
  BY <1>1, <1>5, ApplyRefreshKeeps
<1>6. CASE ManagerRefresh
  BY <1>6, ManagerRefreshKeeps
<1>7. CASE DistributedRefresh
  BY <1>7, DistributedRefreshKeeps
<1> QED  BY <1>2, <1>3, <1>4, <1>5, <1>6, <1>7 DEF Refresh

-----------------------------------------------------------------------------
(* Every key generation deals the line from the sum of the secrets along   *)
(* the sum of the slopes.                                                  *)

\* A party gets what was sealed for it, and accepts it.
LEMMA ShareArrives ==
  ASSUME NEW slopes \in [Parties -> Scalars], NEW i \in Parties, NEW p \in Parties
  PROVE  /\ EvalBlinded(DealtPoly(i, slopes), p).value = Add(Secrets[i], Mul(slopes[i], p))
         /\ Unwrap(ReceivedShare(i, p, slopes)).value = Add(Secrets[i], Mul(slopes[i], p))
<1> DEFINE f == <<Secrets[i]>> \o <<slopes[i]>>
           r == <<Blinding, Blinding>>
           dealt == DealtPoly(i, slopes)
           share == EvalBlinded(dealt, p)
           lt == LtKey[p]
           sealed == EncryptShare(share, PublicKey(lt), Blinding)
<1>1. /\ Secrets[i] \in Scalars /\ slopes[i] \in Scalars /\ p \in Scalars /\ Blinding \in Scalars
      /\ lt \in Scalars
  BY RefreshAssumption, Constants DEF Injection
<1>2. IsLine(f) /\ IsLine(r) /\ dealt = BlindedPoly(f, r, Pedersen)
  BY <1>1, Lines DEF DealtPoly, BlindedWithSecret
<1>3. /\ Eval(f, p) = Add(Secrets[i], Mul(slopes[i], p))
      /\ Eval(f, p) \in Scalars /\ Eval(r, p) \in Scalars
  BY <1>1, <1>2, EvalJoined, ValueOnLine
<1>4. share = VssShare(p, Eval(f, p), Eval(r, p))
  BY <1>2 DEF EvalBlinded, BlindedPoly
<1> HIDE DEF f, r, dealt, share, lt
<1>5. Mul(1, lt) = lt /\ Mul(1, Blinding) = Blinding /\ Mul(lt, Blinding) = Mul(Blinding, lt)
  BY <1>1, MulLaws, ScalarsAreIntegers
<1>6. DecryptShare(sealed, lt) = {share}
  <2> DEFINE v == Eval(f, p)
             b == Eval(r, p)
             plain == [index |-> p, value |-> ScalarToBytes(v), blinding |-> ScalarToBytes(b)]
  <2>1. sealed = [ephemeral_pk |-> Blinding, key |-> <<"sigimora-ecies", Mul(lt, Blinding)>>,
                  plain |-> plain]
    BY <1>4, <1>5 DEF EncryptShare, Seal, PublicKey, G2Mul, G2Generator, VssShare
  <2>2. Open(sealed, lt, "sigimora-ecies") = {plain}
    BY <1>5, <2>1 DEF Open, G2Mul
  <2>3. v < Q /\ b < Q
    BY <1>3, ScalarsAreIntegers
  <2>4. ScalarFromBytes(ScalarToBytes(v)).ok /\ ScalarFromBytes(ScalarToBytes(b)).ok
        /\ ScalarToBytes(v).value = v /\ ScalarToBytes(b).value = b
    BY <2>3 DEF ScalarFromBytes, ScalarToBytes
  <2> HIDE DEF v, b, sealed
  <2>5. plain.value = ScalarToBytes(v) /\ plain.blinding = ScalarToBytes(b) /\ plain.index = p
    OBVIOUS
  <2> HIDE DEF plain
  <2>6. DecryptShare(sealed, lt) = {VssShare(p, v, b)}
    BY <2>2, <2>4, <2>5 DEF DecryptShare
  <2> QED  BY <1>4, <2>6 DEF v, b
<1>7. VerifyVssShare(CommitBlinded(dealt), share.index, share.value, share.blinding, Pedersen)
  <2>1. share.index = p /\ share.value = Eval(f, p) /\ share.blinding = Eval(r, p)
    BY <1>4 DEF VssShare
  <2> QED  BY <1>1, <1>2, <1>3, <2>1, VerifyIffOnLine
<1>8. ReceivedShare(i, p, slopes) = {share}
  BY <1>6, <1>7 DEF ReceivedShare, sealed, share, dealt, lt
<1>9. Unwrap(ReceivedShare(i, p, slopes)) = share
  BY <1>8 DEF Unwrap
<1> QED  BY <1>3, <1>4, <1>9 DEF VssShare, share, dealt

LEMMA Powers ==
  ASSUME NEW x \in Scalars
  PROVE  Power(x, 0) = 1 /\ Power(x, 1) = x
<1>1. ProductOf([j \in 1..0 |-> FromU64(x)]) = 1
  BY ProductOfNone
<1>2. FromU64(x) = x
  BY ScalarTypes
<1>3. ProductOf([j \in 1..1 |-> FromU64(x)]) = x
  <2> DEFINE f == [j \in 1..1 |-> FromU64(x)]
  <2>1. DOMAIN f = {1} /\ f[1] = x
    BY <1>2
  <2> HIDE DEF f
  <2> QED  BY <2>1, ProductOfOne DEF f
<1> QED  BY <1>1, <1>3 DEF Power

LEMMA PublicOnLine ==
  ASSUME NEW c, IsLine(c), NEW x \in Scalars
  PROVE  EvalPublic(CommitPoly(c), x) = Eval(c, x)
<1> DEFINE f == [k \in DOMAIN CommitPoly(c) |-> G2Mul(CommitPoly(c)[k], Power(x, k - 1))]
<1>1. DOMAIN c = 1..2 /\ c[1] \in Scalars /\ c[2] \in Scalars
  BY DEF IsLine
<1>2. DOMAIN CommitPoly(c) = 1..2 /\ CommitPoly(c)[1] = c[1] /\ CommitPoly(c)[2] = c[2]
  BY <1>1, MulLaws DEF CommitPoly, G2Mul, G2Generator
<1>3. DOMAIN f = 1..2 /\ f[1] = c[1] /\ f[2] = Mul(c[2], x)
  <2>1. f[1] = Mul(c[1], Power(x, 0)) /\ f[2] = Mul(c[2], Power(x, 1))
    BY <1>2 DEF G2Mul
  <2> QED  BY <1>1, <1>2, <2>1, Powers, MulLaws
<1>4. Mul(c[2], x) \in Scalars
  BY <1>1, ScalarTypes
<1> HIDE DEF f
<1>5. SumOf(f) = Add(c[1], Mul(c[2], x))
  BY <1>1, <1>3, <1>4, SumOfPair
<1>6. EvalPublic(CommitPoly(c), x) = SumOf(f)
  BY DEF EvalPublic, G2Sum, f
<1> QED  BY <1>5, <1>6, ValueOnLine

LEMMA FeldmanArrives ==
  ASSUME NEW slopes \in [Parties -> Scalars], NEW i \in Parties, NEW p \in Parties
  PROVE  FeldmanShare(i, p, slopes) = Add(Secrets[i], Mul(slopes[i], p))
<1> DEFINE c == <<Secrets[i]>> \o <<slopes[i]>>
           dealt == [share |-> Share(p, Eval(c, p)), ipk |-> PublicKey(Eval(c, p)),
                     public |-> CommitPoly(c)]
<1>1. Secrets[i] \in Scalars /\ slopes[i] \in Scalars /\ p \in Scalars
  BY RefreshAssumption, Constants
<1>2. IsLine(c) /\ Eval(c, p) = Add(Secrets[i], Mul(slopes[i], p)) /\ Eval(c, p) \in Scalars
  BY <1>1, Lines, EvalJoined, ValueOnLine
<1>3. Len(c) = 2
  BY <1>1, ConcatProperties
<1>4. PolyWithSecret(Secrets[i], <<slopes[i]>>) = c
  BY DEF PolyWithSecret
<1> HIDE DEF c
<1>5. FrostKeygenDistributed(c, N, p) = {dealt}
  BY <1>3, Constants DEF FrostKeygenDistributed, RandomPoly, EvalPoly, Share
<1>6. Unwrap({dealt}) = dealt
  BY DEF Unwrap
<1>7. VerifyFeldmanShare(dealt.public, dealt.share)
  <2>1. dealt.public = CommitPoly(c) /\ dealt.share.value = Eval(c, p) /\ dealt.share.index = p
    BY DEF Share
  <2>2. Mul(1, Eval(c, p)) = Eval(c, p)
    BY <1>2, MulLaws
  <2> QED  BY <1>1, <1>2, <2>1, <2>2, PublicOnLine DEF VerifyFeldmanShare, G2Mul, G2Generator
<1>8. dealt.share.value = Eval(c, p)
  BY DEF Share
<1> HIDE DEF dealt
<1>9. (CHOOSE s \in {dealt.share} : VerifyFeldmanShare(dealt.public, s)) = dealt.share
  BY <1>7
<1> QED  BY <1>2, <1>4, <1>5, <1>6, <1>8, <1>9 DEF FeldmanShare

LEMMA SumOfDealtLines ==
  ASSUME NEW slopes \in [Parties -> Scalars], NEW p \in Parties,
         NEW h, DOMAIN h = Parties, \A i \in Parties : h[i] = Add(Secrets[i], Mul(slopes[i], p))
  PROVE  SumOf(h) = Add(MasterSecret, Mul(SumOf(slopes), p))
<1>1. Secrets \in [Parties -> Scalars] /\ p \in Scalars /\ IsFiniteSet(Parties)
  BY RefreshAssumption, Constants
<1> QED  BY <1>1, SumOfLines DEF MasterSecret

LEMMA ComputedShare ==
  ASSUME NEW slopes \in [Parties -> Scalars], NEW p \in Parties
  PROVE  ComputeSecretShare(p, slopes) = Add(MasterSecret, Mul(SumOf(slopes), p))
<1> DEFINE h == [i \in Parties |-> Add(Secrets[i], Mul(slopes[i], p))]
           others == [i \in Parties \ {p} |-> Unwrap(ReceivedShare(i, p, slopes)).value]
<1>1. \A i \in Parties : h[i] \in Scalars
  <2> TAKE i \in Parties
  <2>1. Secrets[i] \in Scalars /\ slopes[i] \in Scalars /\ p \in Scalars
    BY RefreshAssumption, Constants
  <2> QED  BY <2>1, ScalarTypes
<1>2. \A i \in Parties \ {p} : others[i] = h[i]
  BY ShareArrives
<1>3. EvalBlinded(DealtPoly(p, slopes), p).value = h[p]
  BY ShareArrives
<1>4. DOMAIN h = Parties /\ DOMAIN others = Parties \ {p}
      /\ \A i \in Parties : h[i] = Add(Secrets[i], Mul(slopes[i], p))
  OBVIOUS
<1>5. ComputeSecretShare(p, slopes) = Add(SumOf(others), EvalBlinded(DealtPoly(p, slopes), p).value)
  BY DEF ComputeSecretShare
<1> HIDE DEF h, others
<1>6. IsFiniteSet(Parties) /\ IsFiniteSet(Parties \ {p})
  BY Constants, FS_RemoveElement
<1>7. SumOn(others, Parties \ {p}) = SumOn(h, Parties \ {p}) /\ SumOn(h, Parties \ {p}) \in Scalars
  BY <1>1, <1>2, <1>6, SumEqual, SumType DEF ScalarsOn
<1>8. SumOn(h, Parties) = Add(h[p], SumOn(h, Parties \ {p}))
  BY <1>1, <1>6, SumSplit DEF ScalarsOn
<1>9. Add(h[p], SumOn(h, Parties \ {p})) = Add(SumOn(h, Parties \ {p}), h[p])
  BY <1>1, <1>7, AddLaws, ScalarsAreIntegers
<1>10. SumOf(h) = SumOn(h, Parties) /\ SumOf(others) = SumOn(others, Parties \ {p})
  BY <1>4, SumOfIsSumOn
<1>11. SumOf(h) = Add(MasterSecret, Mul(SumOf(slopes), p))
  BY <1>4, SumOfDealtLines
<1> QED  BY <1>3, <1>5, <1>7, <1>8, <1>9, <1>10, <1>11

LEMMA DealersDealALine ==
  ASSUME NEW slopes \in [Parties -> Scalars], NEW k \in Dealers(slopes)
  PROVE  k = [p \in Parties |-> Add(MasterSecret, Mul(SumOf(slopes), p))]
<1> DEFINE slope == SumOf(slopes)
           line == [p \in Parties |-> Add(MasterSecret, Mul(slope, p))]
           c == <<MasterSecret>> \o <<slope>>
           deal == VssDeal(Pedersen, MasterSecret, <<slope>>, <<Blinding, Blinding>>, N)
<1>1. slope \in Scalars /\ MasterSecret \in Scalars
  BY Constants, SumOfScalars, Master
<1>2. \A p \in Parties : p \in Scalars
  BY Constants
<1>3. \A p \in Parties : Eval(c, p) = Add(MasterSecret, Mul(slope, p))
  BY <1>1, <1>2, EvalJoined
<1>4. [p \in Parties |-> ComputeSecretShare(p, slopes)] = line
  BY ComputedShare
<1>5. [p \in Parties |-> SumOf([i \in Parties |-> FeldmanShare(i, p, slopes)])] = line
  <2>1. ASSUME NEW p \in Parties
        PROVE  SumOf([i \in Parties |-> FeldmanShare(i, p, slopes)])
                 = Add(MasterSecret, Mul(slope, p))
    <3> DEFINE h == [i \in Parties |-> FeldmanShare(i, p, slopes)]
    <3>1. DOMAIN h = Parties /\ \A i \in Parties : h[i] = Add(Secrets[i], Mul(slopes[i], p))
      BY FeldmanArrives
    <3> HIDE DEF h
    <3> QED  BY <3>1, SumOfDealtLines DEF h
  <2> QED  BY <2>1
<1>6. [p \in Parties |-> Split(MasterSecret, <<slope>>, N)[p].value] = line
  BY <1>3 DEF Split, Share, Parties
<1>7. [p \in Parties |-> deal.shares[p].value] = line
  <2>1. \A p \in Parties : deal.shares[p].value = Eval(c, p)
    BY DEF VssDeal, EvalBlinded, VssShare, BlindedWithSecret, BlindedPoly, Parties
  <2> QED  BY <1>3, <2>1
<1>8. [p \in Parties |-> Unwrap(FrostKeygen(MasterSecret, <<slope>>, N, p)).share.value] = line
  <2>1. ASSUME NEW p \in Parties
        PROVE  Unwrap(FrostKeygen(MasterSecret, <<slope>>, N, p)).share.value = Eval(c, p)
    <3> DEFINE r == [share |-> Share(p, Eval(c, p)), ipk |-> PublicKey(Eval(c, p)),
                     group_pk |-> PublicKey(MasterSecret)]
    <3>1. Len(<<slope>>) + 1 = 2 /\ ~(2 > N) /\ p \in 1..N
      BY Constants DEF Parties
    <3>2. FrostKeygen(MasterSecret, <<slope>>, N, p) = {r}
      BY <3>1 DEF FrostKeygen, EvalPoly, PolyWithSecret, Share
    <3>3. r.share.value = Eval(c, p)
      BY DEF Share
    <3> HIDE DEF r
    <3>4. Unwrap({r}) = r
      BY DEF Unwrap
    <3> QED  BY <3>2, <3>3, <3>4
  <2> QED  BY <1>3, <2>1
<1> QED  BY <1>4, <1>5, <1>6, <1>7, <1>8 DEF Dealers

\* Before the key generation nothing is shared.
Undealt ==
  /\ starts = [p \in Parties |-> 0] /\ moved = [p \in Parties |-> 0]
  /\ contributions = [p \in Parties |-> EmptyBag] /\ sent = {}

LEMMA DealHolds == Undealt /\ Deal => SharingInv'
<1> SUFFICES ASSUME Undealt, Deal  PROVE SharingInv'
  OBVIOUS
<1>1. PICK slopes \in Dealt : key' \in Dealers(slopes)
  BY DEF Deal
<1> DEFINE slope == SumOf(slopes)
<1>2. slopes \in [Parties -> Scalars]
  BY RefreshAssumption
<1>3. key' = [p \in Parties |-> Add(MasterSecret, Mul(slope, p))]
  BY <1>1, <1>2, DealersDealALine
<1>4. slope \in Scalars /\ MasterSecret \in Scalars
  BY <1>2, Constants, SumOfScalars, Master
<1>5. \A p \in Parties : Add(MasterSecret, Mul(slope, p)) \in Scalars
  <2> TAKE p \in Parties
  <2>1. p \in Scalars
    BY Constants
  <2>2. Mul(slope, p) \in Scalars
    BY <1>4, <2>1, ScalarTypes
  <2> QED  BY <1>4, <2>2, ScalarTypes
<1>6. key' \in [Parties -> Scalars]
  BY <1>3, <1>5
<1>7. member' = key'
  <2>1. \A p \in Parties : PublicKey(key'[p]) = key'[p]
    BY <1>6, MulLaws DEF PublicKey, G2Mul, G2Generator
  <2> QED  BY <1>6, <2>1 DEF Deal
<1>8. UNCHANGED <<starts, contributions, sent, moved>>
  BY DEF Deal
<1>9. KeysOnTheLine'
  <2>1. Add(slope, 0) = slope /\ \A p \in Parties : moved'[p] = 0
    BY <1>4, <1>8, AddLaws DEF Undealt
  <2> QED  BY <1>3, <1>4, <1>7, <2>1 DEF KeysOnTheLine
<1>10. SharingTypes'
  BY <1>6, <1>7, <1>8, ScalarTypes DEF SharingTypes, Undealt
<1>11. \A p \in Parties : DOMAIN contributions'[p] = {}
  BY <1>8 DEF Undealt, EmptyBag, SetToBag
<1>12. SentAreZero' /\ KeptAreZero'
  BY <1>8, <1>11, FS_EmptySet DEF Undealt, SentAreZero, KeptAreZero
<1> QED  BY <1>9, <1>10, <1>12 DEF SharingInv

DealtInv == IF Generated THEN SharingInv ELSE Undealt

LEMMA StepKeeps == DealtInv /\ [Next]_vars => DealtInv'
<1> SUFFICES ASSUME DealtInv, [Next]_vars  PROVE DealtInv'
  OBVIOUS
<1>1. ASSUME SharingInv'  PROVE DealtInv'
  <2>1. DOMAIN key' = Parties /\ 1 \in Parties
    BY <1>1, RefreshAssumption DEF SharingInv, SharingTypes, Parties
  <2>2. key' # <<>>
    BY <2>1
  <2> QED  BY <1>1, <2>2 DEF DealtInv, Generated
<1>2. CASE Deal
  BY <1>1, <1>2, DealHolds DEF DealtInv, Deal
<1>3. CASE Refresh
  BY <1>1, <1>3, RefreshKeeps DEF DealtInv, Refresh
<1>4. CASE UNCHANGED vars
  BY <1>4 DEF vars, DealtInv, Generated, Undealt, SharingInv, SharingTypes, KeysOnTheLine,
              SentAreZero, KeptAreZero
<1> QED  BY <1>2, <1>3, <1>4 DEF Next

\* What a step may rely on once there is a key.
THEOREM SharingAlways == Spec => [](Generated => SharingInv)
<1>1. Init => DealtInv
  BY DEF Init, DealtInv, Generated, Undealt
<1>2. DealtInv => (Generated => SharingInv)
  BY DEF DealtInv
<1> QED  BY <1>1, <1>2, StepKeeps, PTL DEF Spec

-----------------------------------------------------------------------------
(* FROST's weights are Shamir's.                                           *)

LEMMA FrostLagrangeOfTwo ==
  ASSUME NEW ids, TwoIds(ids)
  PROVE  LET x == ids[1]
             y == ids[2]
         IN  /\ DOMAIN FrostLagrange(ids) = 1..2
             /\ FrostLagrange(ids)[1] = Mul(y, Unwrap(Invert(Sub(y, x))))
             /\ FrostLagrange(ids)[2] = Mul(x, Unwrap(Invert(Sub(x, y))))
<1> DEFINE x == ids[1]
           y == ids[2]
<1>1. x \in Scalars /\ y \in Scalars /\ x # y /\ DOMAIN ids = 1..2
  BY DEF TwoIds
<1>2. FromU64(x) = x /\ FromU64(y) = y
  BY <1>1, ScalarTypes
<1>3. Sub(x, y) \in Scalars /\ Sub(y, x) \in Scalars /\ Sub(x, y) # 0 /\ Sub(y, x) # 0
  BY <1>1, ScalarTypes, NegateLaws
<1>4. Invert(Sub(x, y)) # {} /\ Invert(Sub(y, x)) # {}
  BY <1>3, Inverses
<1>5. (1..2) \ {1} = {2} /\ (1..2) \ {2} = {1}
  OBVIOUS
<1> HIDE DEF x, y
<1>6. ProductOf([j \in {2} |-> FromU64(ids[j])]) = y
  <2> DEFINE f == [j \in {2} |-> FromU64(ids[j])]
  <2>1. DOMAIN f = {2} /\ f[2] = y
    BY <1>2 DEF y
  <2> HIDE DEF f
  <2> QED  BY <1>1, <2>1, ProductOfOne DEF f
<1>7. ProductOf([j \in {1} |-> FromU64(ids[j])]) = x
  <2> DEFINE f == [j \in {1} |-> FromU64(ids[j])]
  <2>1. DOMAIN f = {1} /\ f[1] = x
    BY <1>2 DEF x
  <2> HIDE DEF f
  <2> QED  BY <1>1, <2>1, ProductOfOne DEF f
<1>8. ProductOf([j \in {2} |-> Sub(FromU64(ids[j]), FromU64(ids[1]))]) = Sub(y, x)
  <2> DEFINE f == [j \in {2} |-> Sub(FromU64(ids[j]), FromU64(ids[1]))]
  <2>1. DOMAIN f = {2} /\ f[2] = Sub(y, x)
    BY <1>2 DEF x, y
  <2> HIDE DEF f
  <2> QED  BY <1>3, <2>1, ProductOfOne DEF f
<1>9. ProductOf([j \in {1} |-> Sub(FromU64(ids[j]), FromU64(ids[2]))]) = Sub(x, y)
  <2> DEFINE f == [j \in {1} |-> Sub(FromU64(ids[j]), FromU64(ids[2]))]
  <2>1. DOMAIN f = {1} /\ f[1] = Sub(x, y)
    BY <1>2 DEF x, y
  <2> HIDE DEF f
  <2> QED  BY <1>3, <2>1, ProductOfOne DEF f
<1>10. FrostLagrange(ids)[1] = Mul(y, Unwrap(Invert(Sub(y, x))))
  BY <1>1, <1>4, <1>5, <1>6, <1>8 DEF FrostLagrange
<1>11. FrostLagrange(ids)[2] = Mul(x, Unwrap(Invert(Sub(x, y))))
  BY <1>1, <1>4, <1>5, <1>7, <1>9 DEF FrostLagrange
<1>12. DOMAIN FrostLagrange(ids) = 1..2
  BY <1>1 DEF FrostLagrange
<1> QED  BY <1>10, <1>11, <1>12 DEF x, y

LEMMA InverseOfDifference ==
  ASSUME NEW x \in Scalars, NEW y \in Scalars, x # y
  PROVE  /\ Unwrap(Invert(Sub(y, x))) = Negate(Unwrap(Invert(Sub(x, y))))
         /\ Unwrap(Invert(Sub(x, y))) \in Scalars
<1> DEFINE d == Sub(x, y)
           i == Unwrap(Invert(d))
           e == Sub(y, x)
           j == Unwrap(Invert(e))
<1>1. d \in Scalars /\ d # 0 /\ e \in Scalars /\ e # 0 /\ e = Negate(d)
  BY ScalarTypes, NegateLaws
<1>2. i \in Scalars /\ Mul(d, i) = 1 /\ j \in Scalars /\ Mul(e, j) = 1
  BY <1>1, Inverses
<1> HIDE DEF d, e, i, j
<1>3. Negate(i) \in Scalars /\ Mul(e, Negate(i)) = Negate(Mul(e, i))
  BY <1>1, <1>2, ScalarTypes, NegateLaws
<1>4. Mul(e, i) = Negate(Mul(d, i))
  BY <1>1, <1>2, NegateLaws
<1>5. Mul(e, Negate(i)) = 1
  BY <1>2, <1>3, <1>4, NegateLaws, ScalarTypes
<1>6. j = Negate(i)
  BY <1>1, <1>2, <1>3, <1>5, Cancel
<1> QED  BY <1>2, <1>6 DEF d, e, i, j

LEMMA FrostWeights ==
  ASSUME NEW ids, TwoIds(ids)
  PROVE  /\ DOMAIN FrostLagrange(ids) = 1..2
         /\ FrostLagrange(ids)[1] = LagrangeAtZero(ids)[1]
         /\ FrostLagrange(ids)[2] = LagrangeAtZero(ids)[2]
<1> DEFINE x == ids[1]
           y == ids[2]
           i == Unwrap(Invert(Sub(x, y)))
           j == Unwrap(Invert(Sub(y, x)))
<1>1. x \in Scalars /\ y \in Scalars /\ x # y
  BY DEF TwoIds
<1>2. /\ DOMAIN FrostLagrange(ids) = 1..2
      /\ FrostLagrange(ids)[1] = Mul(y, j) /\ FrostLagrange(ids)[2] = Mul(x, i)
  BY FrostLagrangeOfTwo
<1>3. LagrangeAtZero(ids)[1] = Mul(Negate(y), i) /\ LagrangeAtZero(ids)[2] = Mul(Negate(x), j)
  BY LagrangeOfTwo
<1>4. j = Negate(i) /\ i \in Scalars
  BY <1>1, InverseOfDifference
<1> HIDE DEF x, y, i, j
<1>5. Mul(y, Negate(i)) = Negate(Mul(y, i)) /\ Mul(Negate(y), i) = Negate(Mul(y, i))
  BY <1>1, <1>4, NegateLaws
<1>6. Negate(x) \in Scalars /\ Mul(x, i) \in Scalars
  BY <1>1, <1>4, ScalarTypes
<1>7. Mul(Negate(x), Negate(i)) = Negate(Mul(Negate(x), i)) /\ Mul(Negate(x), i) = Negate(Mul(x, i))
  BY <1>1, <1>4, <1>6, NegateLaws
<1>8. Negate(Negate(Mul(x, i))) = Mul(x, i)
  BY <1>6, NegateLaws
<1> QED  BY <1>2, <1>3, <1>4, <1>5, <1>7, <1>8

-----------------------------------------------------------------------------
(* Two holders: their values, weighted.                                    *)

Weighed(k, q, w) == Add(Mul(k[q[1]], w[1]), Mul(k[q[2]], w[2]))

LEMMA QuorumIds ==
  ASSUME NEW q \in Quorums
  PROVE  /\ TwoIds(q) /\ q \in [1..2 -> Parties] /\ 1..2 = {1, 2}
         /\ q[1] \in Parties /\ q[2] \in Parties /\ q[1] # q[2]
<1>1. q \in [1..2 -> Parties] /\ q[1] # q[2]
  BY DEF Quorums, T
<1>2. q[1] \in Parties /\ q[2] \in Parties
  BY <1>1
<1>3. 1..2 = {1, 2}
  OBVIOUS
<1> QED  BY <1>1, <1>2, <1>3, Constants DEF TwoIds

LEMMA KeysCombine ==
  ASSUME SharingInv, NEW q \in Quorums, NEW w, Interpolates(w, q)
  PROVE  /\ Weighed(key, q, w) = MasterSecret <=> moved[q[1]] = moved[q[2]]
         /\ Weighed(member, q, w) = MasterSecret
<1>1. PICK d \in Scalars : \A p \in Parties :
        /\ member[p] = Add(MasterSecret, Mul(d, p))
        /\ key[p] = Add(MasterSecret, Mul(Add(d, moved[p]), p))
  BY DEF SharingInv, KeysOnTheLine
<1>2. q[1] \in Parties /\ q[2] \in Parties /\ TwoIds(q)
  BY QuorumIds
<1> DEFINE s == moved[q[1]]
           t == moved[q[2]]
<1>3. s \in Scalars /\ t \in Scalars /\ MasterSecret \in Scalars
  BY <1>2, Master DEF SharingInv, SharingTypes
<1>4. Weighed(member, q, w) = MasterSecret
  BY <1>1, <1>2, <1>3, Interpolation DEF Weighed
<1>6. key[q[1]] = Add(MasterSecret, Mul(Add(d, s), q[1]))
      /\ key[q[2]] = Add(MasterSecret, Mul(Add(d, t), q[2]))
  BY <1>1, <1>2
<1> HIDE DEF s, t
<1>8. Add(d, s) \in Scalars /\ Add(d, t) \in Scalars
  BY <1>3, ScalarTypes
<1>5. Add(d, s) = Add(d, t) <=> s = t
  BY <1>3, AddFixes
<1>7. Weighed(key, q, w) = MasterSecret <=> Add(d, s) = Add(d, t)
  BY <1>2, <1>3, <1>6, <1>8, Interpolation DEF Weighed
<1> QED  BY <1>4, <1>5, <1>7 DEF s, t

LEMMA PairNotEmpty == \A s : DOMAIN s = 1..2 => s # <<>>
<1>1. DOMAIN <<>> = 1..0
  BY EmptySeq, LenProperties
<1>2. 1 \in 1..2 /\ 1 \notin 1..0
  OBVIOUS
<1> QED  BY <1>1, <1>2

\* Both reconstructions weigh the values of two shares.
LEMMA SharesReconstruct ==
  ASSUME SharingInv, NEW q \in Quorums
  PROVE  /\ Reconstruct(SharesOf(q)) = {Weighed(key, q, LagrangeAtZero(q))}
         /\ VssReconstruct(SharesOf(q)) = Weighed(key, q, LagrangeAtZero(q))
         /\ DOMAIN SharesOf(q) = 1..2 /\ Fields(SharesOf(q), "index") = q
<1> DEFINE shares == SharesOf(q)
           values == Fields(shares, "value")
           w == LagrangeAtZero(q)
           f == [i \in DOMAIN values |-> Mul(values[i], w[i])]
<1>1. /\ q \in [1..2 -> Parties] /\ TwoIds(q) /\ 1..2 = {1, 2}
      /\ q[1] \in Parties /\ q[2] \in Parties
  BY QuorumIds
<1>2. DOMAIN shares = 1..2 /\ \A i \in 1..2 : shares[i] = [index |-> q[i], value |-> key[q[i]]]
  BY DEF SharesOf, OwnShare, Share, T
<1>3. Fields(shares, "index") = q
  BY <1>1, <1>2 DEF Fields
<1>4. DOMAIN values = 1..2 /\ values[1] = key[q[1]] /\ values[2] = key[q[2]]
  BY <1>2 DEF Fields
<1>5. key[q[1]] \in Scalars /\ key[q[2]] \in Scalars /\ w[1] \in Scalars /\ w[2] \in Scalars
  BY <1>1, LagrangeInterpolates DEF SharingInv, SharingTypes, Interpolates
<1> HIDE DEF shares, values, w
<1>6. DOMAIN f = 1..2 /\ f[1] = Mul(key[q[1]], w[1]) /\ f[2] = Mul(key[q[2]], w[2])
  BY <1>1, <1>4
<1> HIDE DEF f
<1>10. f[1] \in Scalars /\ f[2] \in Scalars
  BY <1>5, <1>6, ScalarTypes
<1>7. SumOf(f) = Weighed(key, q, w)
  BY <1>6, <1>10, SumOfPair DEF Weighed
<1>8. WeightedSum(values, w) = Weighed(key, q, w)
  BY <1>7 DEF WeightedSum, f
<1>9. shares # <<>>
  BY <1>2, PairNotEmpty
<1> QED  BY <1>2, <1>3, <1>8, <1>9 DEF Reconstruct, VssReconstruct, shares, values, w

LEMMA LibraryCheck ==
  ASSUME NEW q \in Quorums, NEW old \in [Parties -> Scalars], NEW new \in [Parties -> Scalars]
  PROVE  VerifyCollectiveKeyInvariant(old, new, q)
           <=> Weighed(old, q, LagrangeAtZero(q)) = Weighed(new, q, LagrangeAtZero(q))
<1> DEFINE w == LagrangeAtZero(q)
<1>1. /\ q \in [1..2 -> Parties] /\ DOMAIN q = 1..2 /\ TwoIds(q)
      /\ q[1] \in Parties /\ q[2] \in Parties
  BY QuorumIds
<1>2. w[1] \in Scalars /\ w[2] \in Scalars
  BY <1>1, LagrangeInterpolates DEF Interpolates
<1> HIDE DEF w
<1>3. ASSUME NEW k \in [Parties -> Scalars]
      PROVE  G2Sum([i \in DOMAIN q |-> G2Mul(k[q[i]], w[i])]) = Weighed(k, q, w)
  <2> DEFINE f == [i \in DOMAIN q |-> G2Mul(k[q[i]], w[i])]
  <2>1. k[q[1]] \in Scalars /\ k[q[2]] \in Scalars
    BY <1>1
  <2>2. DOMAIN f = 1..2 /\ f[1] = Mul(k[q[1]], w[1]) /\ f[2] = Mul(k[q[2]], w[2])
    BY <1>1 DEF G2Mul
  <2> HIDE DEF f
  <2>4. f[1] \in Scalars /\ f[2] \in Scalars
    <3>1. Mul(k[q[1]], w[1]) \in Scalars /\ Mul(k[q[2]], w[2]) \in Scalars
      BY <1>2, <2>1, ScalarTypes, ScalarsAreIntegers
    <3> QED  BY ONLY <2>2, <3>1
  <2>3. SumOf(f) = Weighed(k, q, w)
    BY <2>2, <2>4, SumOfPair DEF Weighed
  <2> QED  BY <2>3 DEF G2Sum, f
<1> QED  BY <1>3 DEF VerifyCollectiveKeyInvariant, w

LEMMA PublicIsSecret ==
  /\ \A k \in Scalars : PublicKey(k) = k
  /\ \A f \in [Parties -> Scalars] : [p \in Parties |-> PublicKey(f[p])] = f
<1>1. \A k \in Scalars : PublicKey(k) = k
  BY MulLaws DEF PublicKey, G2Mul, G2Generator
<1> QED  BY <1>1

\* KeptIffMovedAlike: however contributions are duplicated, kept or applied
\* late, two holders combine to the secret exactly when they have been moved
\* along the same slope, and the library's own check says the same.
THEOREM RefreshKeepsIffMovedAlike == Spec => []KeptIffMovedAlike
<1>1. ASSUME SharingInv  PROVE KeptIffMovedAlike
  <2> SUFFICES ASSUME NEW q \in Quorums
               PROVE  /\ Combines(q) <=> moved[q[1]] = moved[q[2]]
                      /\ Combines(q) <=> VssReconstruct(SharesOf(q)) = MasterSecret
                      /\ Combines(q) <=> VerifyCollectiveKeyInvariant(member,
                                            [p \in Parties |-> PublicKey(key[p])], q)
    BY DEF KeptIffMovedAlike
  <2> DEFINE w == LagrangeAtZero(q)
  <2>1. Interpolates(w, q)
    BY QuorumIds, LagrangeInterpolates
  <2>2. Combines(q) <=> Weighed(key, q, w) = MasterSecret
    BY <1>1, SharesReconstruct DEF Combines
  <2>3. VssReconstruct(SharesOf(q)) = Weighed(key, q, w)
    BY <1>1, SharesReconstruct
  <2>4. /\ Weighed(key, q, w) = MasterSecret <=> moved[q[1]] = moved[q[2]]
        /\ Weighed(member, q, w) = MasterSecret
    BY <1>1, <2>1, KeysCombine
  <2>5. key \in [Parties -> Scalars] /\ member \in [Parties -> Scalars]
    BY <1>1 DEF SharingInv, SharingTypes
  <2>6. VerifyCollectiveKeyInvariant(member, [p \in Parties |-> PublicKey(key[p])], q)
          <=> Weighed(member, q, w) = Weighed(key, q, w)
    BY <2>5, LibraryCheck, PublicIsSecret
  <2> QED  BY <2>2, <2>3, <2>4, <2>6
<1>2. ASSUME ~Generated  PROVE KeptIffMovedAlike
  BY <1>2 DEF KeptIffMovedAlike
<1> QED  BY <1>1, <1>2, SharingAlways, PTL

-----------------------------------------------------------------------------
(* FROST's checks of a refreshed share.                                    *)

LEMMA FrostChecks ==
  ASSUME NEW p \in Parties, NEW k \in Scalars, NEW a \in Scalars, NEW s \in Scalars,
         NEW v \in Scalars, NEW new, new = FrostRefreshShare(Share(p, k), a, s)
  PROVE  /\ FrostVerifyZeroConstant(new.public) <=> a = 0
         /\ FrostVerifyRefreshShare(Share(p, k), Share(p, v), new.public)
              <=> v = new.share.value
<1> DEFINE c == <<a, s>>
           e == Eval(c, p)
<1>1. IsLine(c) /\ c[1] = a /\ p \in Scalars
  BY Lines, Constants
<1> HIDE DEF c
<1>2. e \in Scalars
  BY <1>1, ValueOnLine
<1>3. new.public = CommitPoly(c) /\ new.share.value = Add(k, e)
  BY DEF FrostRefreshShare, FrostMove, RandomPoly, EvalPoly, Share, c
<1> HIDE DEF e
<1>4. DOMAIN new.public = 1..2 /\ new.public[1] = a
  BY <1>1, <1>3, MulLaws DEF CommitPoly, G2Mul, G2Generator, IsLine
<1>5. FrostVerifyZeroConstant(new.public) <=> a = 0
  BY <1>4, PairNotEmpty DEF FrostVerifyZeroConstant, G2Identity
<1>6. EvalPublic(new.public, p) = e
  BY <1>1, <1>3, PublicOnLine DEF e
<1>7. Sub(v, k) \in Scalars /\ Mul(1, Sub(v, k)) = Sub(v, k)
  BY ScalarTypes, MulLaws
<1>8. FrostVerifyRefreshShare(Share(p, k), Share(p, v), new.public) <=> Sub(v, k) = e
  BY <1>6, <1>7 DEF FrostVerifyRefreshShare, Share, G2Mul, G2Generator
<1>9. Sub(v, k) = e <=> v = Add(k, e)
  <2>1. Add(Sub(v, k), k) = v /\ Sub(Add(e, k), k) = e
    BY <1>2, NegateLaws
  <2>2. Add(e, k) = Add(k, e)
    BY <1>2, AddLaws, ScalarsAreIntegers
  <2> QED  BY <2>1, <2>2
<1> QED  BY <1>3, <1>5, <1>8, <1>9

FrostChecked(p, k, a, s, v) ==
  LET new == FrostRefreshShare(Share(p, k), a, s)
  IN  /\ FrostVerifyZeroConstant(new.public) <=> a = 0
      /\ FrostVerifyRefreshShare(Share(p, k), Share(p, v), new.public) <=> v = new.share.value

LEMMA FrostAlwaysChecked == \A p \in Parties, k, a, s, v \in Scalars : FrostChecked(p, k, a, s, v)
<1> SUFFICES ASSUME NEW p \in Parties, NEW k \in Scalars, NEW a \in Scalars, NEW s \in Scalars,
                    NEW v \in Scalars
             PROVE  FrostChecked(p, k, a, s, v)
  OBVIOUS
<1> DEFINE new == FrostRefreshShare(Share(p, k), a, s)
<1>1. new = FrostRefreshShare(Share(p, k), a, s)
  OBVIOUS
<1> HIDE DEF new
<1>2. /\ FrostVerifyZeroConstant(new.public) <=> a = 0
      /\ FrostVerifyRefreshShare(Share(p, k), Share(p, v), new.public) <=> v = new.share.value
  BY <1>1, FrostChecks
<1> QED  BY <1>2 DEF FrostChecked, new

\* AcceptsOnlyZeroPolynomials: whatever a holder keeps is a share of a line
\* through zero that its sender committed to, and FROST's two checks accept
\* exactly a zero constant, and exactly the refreshed value.
THEOREM RefreshAcceptsOnlyZero == Spec => []AcceptsOnlyZeroPolynomials
<1>1. ASSUME SharingInv  PROVE AcceptsOnlyZeroPolynomials
  <2>1. ASSUME NEW p \in Parties, NEW c \in DOMAIN contributions[p]
        PROVE  \E s, b \in Scalars :
                 /\ CommitBlinded(BlindedWithZeroConstant(<<s>>, <<b>>, Pedersen)) = c.public
                 /\ c.shares[p] = VssShare(p, Mul(s, p), Mul(b, p))
    BY <1>1 DEF SharingInv, KeptAreZero, ZeroLine
  <2>2. ASSUME NEW p \in Parties, NEW constant \in {0, 1}, NEW v \in Scalars
        PROVE  LET new == FrostRefreshShare(OwnShare(p), constant, OwnSlope)
               IN  /\ FrostVerifyZeroConstant(new.public) <=> constant = 0
                   /\ FrostVerifyRefreshShare(OwnShare(p), Share(p, v), new.public)
                        <=> v = new.share.value
    <3>1. key[p] \in Scalars /\ OwnSlope \in Scalars /\ constant \in Scalars
      BY <1>1, RefreshAssumption, ScalarTypes DEF SharingInv, SharingTypes
    <3>2. FrostChecked(p, key[p], constant, OwnSlope, v)
      BY <3>1, FrostAlwaysChecked
    <3> QED  BY <3>2 DEF FrostChecked, OwnShare
  <2> QED  BY <2>1, <2>2 DEF AcceptsOnlyZeroPolynomials
<1>2. ASSUME ~Generated  PROVE AcceptsOnlyZeroPolynomials
  BY <1>2 DEF AcceptsOnlyZeroPolynomials
<1> QED  BY <1>1, <1>2, SharingAlways, PTL

-----------------------------------------------------------------------------
(* Zero-knowledge proofs.                                                  *)

\* A Schnorr proof made with one challenge and checked with another.
LEMMA SchnorrIff ==
  ASSUME NEW r \in Scalars, NEW w \in Scalars, NEW pk \in Scalars, NEW c \in Scalars,
         NEW d \in Scalars
  PROVE  G2Mul(G2Generator, Add(r, Mul(c, w))) = G2Add(PublicKey(r), G2Mul(pk, d))
           <=> Mul(c, w) = Mul(d, pk)
<1>1. Mul(c, w) \in Scalars /\ Mul(d, pk) \in Scalars /\ Mul(pk, d) = Mul(d, pk)
  BY ScalarTypes, MulLaws, ScalarsAreIntegers
<1>2. Add(r, Mul(c, w)) \in Scalars
  BY <1>1, ScalarTypes
<1>3. G2Mul(G2Generator, Add(r, Mul(c, w))) = Add(r, Mul(c, w)) /\ PublicKey(r) = r
  BY <1>2, MulLaws DEF G2Mul, G2Generator, PublicKey
<1>4. Add(r, Mul(c, w)) = Add(r, Mul(d, pk)) <=> Mul(c, w) = Mul(d, pk)
  BY <1>1, AddFixes
<1> QED  BY <1>1, <1>3, <1>4 DEF G2Add, G2Mul

LEMMA OracleAnswers ==
  ASSUME NEW r, NEW c, NEW d, NEW context, NEW public, NEW other
  PROVE  LET o == Oracle(context, r, public, other, c, d)
         IN  /\ FsChallenge(o, PublicKey(r), public, context) = c
             /\ FsChallenge(o, PublicKey(r), other, context) = IF other = public THEN c ELSE d
BY DEF Oracle, FsChallenge

LEMMA SmallScalars == {0, 1, 2} \subseteq Scalars
BY Constants, QPositive DEF Scalars

LEMMA StakeProof ==
  ASSUME NEW m \in Scalars, NEW k \in Scalars, NEW r \in Scalars, NEW c \in Scalars, NEW d,
         NEW o, o = Oracle("STAKE-PROOF", r, m, m, c, d)
  PROVE  VerifyStakeProof(o, m, GenerateStakeProof(o, m, k, r))
           <=> r # 0 /\ Mul(c, PublicKey(k)) = Mul(c, m)
<1> DEFINE proof == GenerateStakeProof(o, m, k, r)
<1>1. FsChallenge(o, PublicKey(r), m, "STAKE-PROOF") = c
  BY OracleAnswers
<1>2. proof.commitment = PublicKey(r) /\ proof.response = Add(r, Mul(c, k))
  BY <1>1 DEF GenerateStakeProof, SchnorrProof
<1> HIDE DEF proof
<1>3. PublicKey(r) = r /\ PublicKey(k) = k
  BY PublicIsSecret
<1>4. VerifyStakeProof(o, m, proof) <=> r # 0 /\ Mul(c, k) = Mul(c, m)
  BY <1>1, <1>2, <1>3, SchnorrIff DEF VerifyStakeProof, SchnorrHolds, G2Identity
<1> QED  BY <1>3, <1>4 DEF proof

LEMMA NoCheatingProof ==
  ASSUME NEW k \in Scalars, NEW r \in Scalars, NEW c \in Scalars, NEW d \in Scalars,
         NEW o, o = [x \in {<<"NO-CHEATING", G1Mul(G1Generator, r), G1Mul(G1Generator, k)>>} |-> d]
  PROVE  VerifyNoCheatingProof(o, GenerateNoCheatingProof(o, k, r), G1Mul(G1Generator, c)) <=> c = k
<1> DEFINE proof == GenerateNoCheatingProof(o, k, r)
           K == G1Mul(G1Generator, k)
           R == G1Mul(G1Generator, r)
<1>1. FsChallenge(o, R, K, "NO-CHEATING") = d
  BY DEF FsChallenge
<1>2. /\ proof.original_commitment = K /\ proof.verification_scalar = R
      /\ proof.consistency_proof = Add(r, Mul(d, k))
  BY <1>1 DEF GenerateNoCheatingProof
<1> HIDE DEF proof, K, R
<1>3. Mul(k, d) \in Scalars /\ Mul(k, d) = Mul(d, k)
  BY ScalarTypes, MulLaws, ScalarsAreIntegers
<1>4. G1Add(R, G1Mul(K, d)) = G1Mul(G1Generator, Add(r, Mul(d, k)))
  BY <1>3, GeneratorMultiple DEF K, R
<1>5. K = G1Mul(G1Generator, c) <=> c = k
  BY GeneratorMultiple DEF K
<1> QED  BY <1>1, <1>2, <1>4, <1>5 DEF VerifyNoCheatingProof, proof

LEMMA SharesLength ==
  ASSUME NEW s, s = [i \in 1..2 |-> s[i]]
  PROVE  Len(s) = 2
<1>1. s \in Seq({s[i] : i \in 1..2})
  BY SeqDef
<1>2. DOMAIN s = 1..Len(s) /\ Len(s) \in Nat
  BY <1>1, LenProperties
<1> QED  BY <1>2

LEMMA CountOfTwo == GenerateThresholdProof(SharesOf(<<1, 2>>)) = [participant_count |-> 2]
<1> DEFINE s == SharesOf(<<1, 2>>)
<1>1. s = [i \in 1..2 |-> s[i]]
  BY DEF SharesOf, T
<1>2. Len(s) = 2
  BY <1>1, SharesLength
<1>3. GenerateThresholdProof(s) = [participant_count |-> Len(s) % 65536]
  BY DEF GenerateThresholdProof
<1> HIDE DEF s
<1>4. Len(s) % 65536 = 2
  BY <1>2
<1> QED  BY <1>3, <1>4 DEF s

\* ProofsBind: a stake proof holds exactly for who knows the secret of the key
\* it is about, or meets a challenge that cancels; a proof of no cheating for
\* the value committed to alone; and a threshold proof counts.
THEOREM RefreshProofsBind == Spec => []ProofsBind
<1>1. ASSUME SharingInv  PROVE ProofsBind
  <2> SUFFICES ASSUME NEW p \in Parties, NEW r \in {0, 1}, NEW c \in Scalars, NEW d \in {0, 2}
               PROVE
       LET stake == Oracle("STAKE-PROOF", r, member[p], member[p], c, d)
           own == [x \in {<<"NO-CHEATING", G1Mul(G1Generator, r), G1Mul(G1Generator, key[p])>>} |->
                     d]
       IN  /\ VerifyStakeProof(stake, member[p], GenerateStakeProof(stake, member[p], key[p], r))
                <=> r # 0 /\ Mul(c, PublicKey(key[p])) = Mul(c, member[p])
           /\ VerifyNoCheatingProof(own, GenerateNoCheatingProof(own, key[p], r),
                                    G1Mul(G1Generator, c))
                <=> c = key[p]
           /\ VerifyThresholdProof(GenerateThresholdProof(SharesOf(<<1, 2>>)), c) <=> c <= T
    BY DEF ProofsBind, Oracle
  <2>1. r \in Scalars /\ d \in Scalars /\ key[p] \in Scalars /\ member[p] \in Scalars
    BY <1>1, SmallScalars DEF SharingInv, SharingTypes
  <2> DEFINE stake == Oracle("STAKE-PROOF", r, member[p], member[p], c, d)
             own == [x \in {<<"NO-CHEATING", G1Mul(G1Generator, r), G1Mul(G1Generator, key[p])>>}
                       |-> d]
  <2>7. /\ stake = Oracle("STAKE-PROOF", r, member[p], member[p], c, d)
        /\ own = [x \in {<<"NO-CHEATING", G1Mul(G1Generator, r), G1Mul(G1Generator, key[p])>>}
                    |-> d]
    OBVIOUS
  <2> HIDE DEF stake, own
  <2> DEFINE k == key[p]
             m == member[p]
  <2>8. k \in Scalars /\ m \in Scalars /\ stake = Oracle("STAKE-PROOF", r, m, m, c, d)
        /\ own = [x \in {<<"NO-CHEATING", G1Mul(G1Generator, r), G1Mul(G1Generator, k)>>} |-> d]
    BY <2>1, <2>7
  <2> HIDE DEF k, m
  <2>9. VerifyStakeProof(stake, m, GenerateStakeProof(stake, m, k, r))
          <=> r # 0 /\ Mul(c, PublicKey(k)) = Mul(c, m)
    BY <2>1, <2>8, StakeProof
  <2>10. VerifyNoCheatingProof(own, GenerateNoCheatingProof(own, k, r), G1Mul(G1Generator, c))
          <=> c = k
    BY <2>1, <2>8, NoCheatingProof
  <2>2. VerifyStakeProof(stake, member[p], GenerateStakeProof(stake, member[p], key[p], r))
          <=> r # 0 /\ Mul(c, PublicKey(key[p])) = Mul(c, member[p])
    BY <2>9 DEF k, m
  <2>4. VerifyNoCheatingProof(own, GenerateNoCheatingProof(own, key[p], r), G1Mul(G1Generator, c))
          <=> c = key[p]
    BY <2>10 DEF k
  <2>6. VerifyThresholdProof(GenerateThresholdProof(SharesOf(<<1, 2>>)), c) <=> c <= T
    <3>1. VerifyThresholdProof([participant_count |-> 2], c) <=> 2 >= c
      BY DEF VerifyThresholdProof
    <3> QED  BY <3>1, CountOfTwo, ScalarsAreIntegers DEF T
  <2> QED  BY <2>2, <2>4, <2>6 DEF stake, own
<1>2. ASSUME ~Generated  PROVE ProofsBind
  BY <1>2 DEF ProofsBind
<1> QED  BY <1>1, <1>2, SharingAlways, PTL

-----------------------------------------------------------------------------
(* Signatures.                                                             *)

\* Two partial signatures on one hash combine to the signature with the
\* weighted keys.
LEMMA CombinePair ==
  ASSUME NEW msg, NEW dst, NEW k1 \in Scalars, NEW k2 \in Scalars, NEW partials,
         DOMAIN partials = 1..2, partials[1].sigma = G1Mul(HashToG1(msg, dst), k1),
         partials[2].sigma = G1Mul(HashToG1(msg, dst), k2),
         NEW w, w[1] \in Scalars, w[2] \in Scalars
  PROVE  Combine(partials, w) = G1Mul(HashToG1(msg, dst), Add(Mul(k1, w[1]), Mul(k2, w[2])))
<1> DEFINE H == HashToG1(msg, dst)
           f == [i \in DOMAIN partials |-> G1Mul(partials[i].sigma, w[i])]
<1>1. Mul(k1, w[1]) \in Scalars /\ Mul(k2, w[2]) \in Scalars
  BY ScalarTypes
<1>2. /\ \A s \in Scalars : IsPoint(G1Mul(H, s))
      /\ \A s, t \in Scalars : G1Add(G1Mul(H, s), G1Mul(H, t)) = G1Mul(H, Add(s, t))
      /\ \A s, t \in Scalars : G1Mul(G1Mul(H, s), t) = G1Mul(H, Mul(s, t))
  BY HashMultiple
<1>3. DOMAIN f = 1..2 /\ f[1] = G1Mul(G1Mul(H, k1), w[1]) /\ f[2] = G1Mul(G1Mul(H, k2), w[2])
  OBVIOUS
<1> HIDE DEF H, f
<1>4. f[1] = G1Mul(H, Mul(k1, w[1])) /\ f[2] = G1Mul(H, Mul(k2, w[2]))
  BY <1>2, <1>3
<1>5. G1Sum(f) = G1Add(f[1], f[2])
  BY <1>1, <1>2, <1>3, <1>4, SumOfTwoPoints
<1>6. G1Sum(f) = G1Mul(H, Add(Mul(k1, w[1]), Mul(k2, w[2])))
  BY <1>1, <1>2, <1>4, <1>5
<1> QED  BY <1>6 DEF Combine, f, H

LEMMA PossessionProven ==
  ASSUME NEW sk \in Scalars
  PROVE  VerifyPop(PublicKey(sk), GeneratePop(sk, PublicKey(sk)))
<1> DEFINE H == HashToG1(PublicKey(sk), "SIGIMORA_POP")
<1>1. PublicKey(sk) = sk
  BY PublicIsSecret
<1>2. G1Mul(G1Mul(H, sk), 1) = G1Mul(H, Mul(sk, 1)) /\ Mul(sk, 1) = sk
  BY HashMultiple, ScalarTypes, MulLaws
<1> HIDE DEF H
<1>3. GeneratePop(sk, PublicKey(sk)) = G1Mul(H, sk)
  BY DEF GeneratePop, H
<1>4. VerifyPop(PublicKey(sk), GeneratePop(sk, PublicKey(sk)))
        <=> G1Mul(G1Mul(H, sk), 1) = G1Mul(H, PublicKey(sk))
  BY <1>3 DEF VerifyPop, Pairing, G2Generator, H
<1> QED  BY <1>1, <1>2, <1>4

LEMMA CollectiveIsMaster == CollectivePublicKey = MasterSecret
<1>1. Secrets \in [Parties -> Scalars]
  BY RefreshAssumption
<1>2. {j \in Parties : VerifyPop(PublicKey(Secrets[j]),
                                 GeneratePop(Secrets[j], PublicKey(Secrets[j])))} = Parties
  BY <1>1, PossessionProven
<1>3. [i \in Parties |-> PublicKey(Secrets[i])] = Secrets
  BY <1>1, PublicIsSecret
<1> QED  BY <1>2, <1>3 DEF CollectivePublicKey, G2Sum, MasterSecret

LEMMA SumsVerify ==
  ASSUME SharingInv
  PROVE  BlsSumsVerify
<1> DEFINE H == HashToG1("m", "SIGIMORA-BLS")
           sigs == [p \in Parties |-> BlsSign(key[p], "m")]
<1>1. key \in [Parties -> Scalars] /\ DOMAIN key = Parties /\ IsFiniteSet(Parties)
      /\ ScalarsOn(key, Parties)
  BY Constants DEF SharingInv, SharingTypes, ScalarsOn
<1>2. DOMAIN sigs = Parties /\ \A p \in Parties : sigs[p] = G1Mul(H, key[p])
  BY DEF BlsSign
<1> HIDE DEF sigs
<1>3. G1Sum(sigs) = G1Mul(H, SumOn(key, Parties))
  BY <1>1, <1>2, G1SumOfMultiples
<1>4. G2Sum([p \in Parties |-> PublicKey(key[p])]) = SumOn(key, Parties)
  BY <1>1, PublicIsSecret, SumOfIsSumOn DEF G2Sum
<1>5. SumOn(key, Parties) \in Scalars
  BY <1>1, SumType
<1>6. IsPoint(G1Sum(sigs))
  BY <1>3, <1>5, HashMultiple
<1>7. VerifyBls(G1Sum(sigs), H, SumOn(key, Parties))
  BY <1>3, <1>5, <1>6, VerifyBlsIff
<1> QED  BY <1>4, <1>7 DEF BlsSumsVerify, BlsVerifyAggregate, BlsVerify, AggregateKeys,
                            AggregateSignatures, sigs

\* The signature of a hash with one key verifies under that key alone.
LEMMA OwnKeyVerifies ==
  ASSUME NEW msg, NEW dst, NEW a \in Scalars, NEW k \in Scalars
  PROVE  VerifyBls(G1Mul(HashToG1(msg, dst), a), HashToG1(msg, dst), k) <=> a = k
<1>1. IsPoint(G1Mul(HashToG1(msg, dst), a))
      /\ (G1Mul(HashToG1(msg, dst), a) = G1Mul(HashToG1(msg, dst), k) <=> a = k)
  BY HashMultiple
<1> QED  BY <1>1, VerifyBlsIff

\* A proof of possession is about a hash of the key itself.
LEMMA PossessionBinds ==
  ASSUME NEW a \in Scalars, NEW k \in Scalars
  PROVE  BlsVerifyPop(k, BlsPop(a)) <=> a = k
<1> DEFINE A == HashToG1(a, "SIGIMORA-POP")
           K == HashToG1(k, "SIGIMORA-POP")
<1>1. BlsPop(a) = G1Mul(A, a)
  BY PublicIsSecret DEF BlsPop
<1>2. IsPoint(G1Mul(A, a))
  BY HashMultiple
<1>3. BlsVerifyPop(k, BlsPop(a)) <=> G1Mul(A, a) = G1Mul(K, k)
  BY <1>1, <1>2, VerifyBlsIff DEF BlsVerifyPop
<1>4. ASSUME a # k, G1Mul(A, a) = G1Mul(K, k)
      PROVE  FALSE
  <2> DEFINE x == <<"SIGIMORA-POP", a>>
             y == <<"SIGIMORA-POP", k>>
  <2>1. x # y
    BY <1>4
  <2>2. /\ IsPoint(A) /\ \A b : Coefficient(A, b) = IF b = x THEN 1 ELSE 0
        /\ IsPoint(K) /\ \A b : Coefficient(K, b) = IF b = y THEN 1 ELSE 0
    BY HashPoint
  <2> HIDE DEF x, y, A, K
  <2>3. /\ Coefficient(G1Mul(A, a), x) = Mul(1, a) /\ Coefficient(G1Mul(K, k), x) = Mul(0, k)
        /\ Coefficient(G1Mul(A, a), y) = Mul(0, a) /\ Coefficient(G1Mul(K, k), y) = Mul(1, k)
    BY <2>1, <2>2, MulPoint
  <2>4. a = 0 /\ k = 0
    BY <1>4, <2>3, MulLaws
  <2> QED  BY <1>4, <2>4
<1> QED  BY <1>3, <1>4

LEMMA PartialIsBound ==
  ASSUME NEW p \in Parties, NEW a \in Scalars, NEW k \in Scalars
  PROVE  PartialBinds(Share(p, a), k)
<1>1. Share(p, a).value = a /\ Share(p, a).index = p
  BY DEF Share
<1>2. PublicKey(a) = k <=> a = k
  BY PublicIsSecret
<1>3. AtsBlsVerifyPartial(AtsBlsSign(Share(p, a), "m"), k, "m") <=> a = k
  BY OwnKeyVerifies DEF AtsBlsVerifyPartial, AtsBlsSign, PartialSignature, Share
<1>4. FrostVerifyPartial(FrostSign(Share(p, a), "m", 3, <<p>>), k, "m", 3, <<p>>) <=> a = k
  BY OwnKeyVerifies DEF FrostVerifyPartial, FrostSign, PartialSignature, Share, SigningHash
<1>5. BlsVerify(k, "m", BlsSign(a, "m")) <=> a = k
  BY OwnKeyVerifies DEF BlsVerify, BlsSign
<1>6. BlsVerifyPop(k, BlsPop(a)) <=> a = k
  BY PossessionBinds
<1> QED  BY <1>1, <1>2, <1>3, <1>4, <1>5, <1>6 DEF PartialBinds

LEMMA PartialsAreBound == PartialsBind
BY PartialIsBound DEF PartialsBind

LEMMA GroupKeyDerived == GroupPkIsCollective
<1> DEFINE publics == [p \in Parties |-> CommitPoly(PolyWithSecret(Secrets[p], <<OwnSlope>>))]
<1>1. Secrets \in [Parties -> Scalars] /\ OwnSlope \in Scalars
  BY RefreshAssumption
<1>2. ASSUME NEW p \in Parties
      PROVE  GroupPublicKey(publics[p]) = Secrets[p]
  <2> DEFINE c == <<Secrets[p]>> \o <<OwnSlope>>
  <2>1. IsLine(c) /\ c[1] = Secrets[p]
    BY <1>1, Lines
  <2> HIDE DEF c
  <2>2. publics[p] = CommitPoly(c)
    BY DEF PolyWithSecret, c
  <2>3. CommitPoly(c)[1] = Mul(1, c[1])
    BY <2>1 DEF CommitPoly, IsLine, G2Mul, G2Generator
  <2> QED  BY <1>1, <2>1, <2>2, <2>3, MulLaws DEF GroupPublicKey
<1>3. DOMAIN publics = Parties
  OBVIOUS
<1> HIDE DEF publics
<1>4. [i \in DOMAIN publics |-> GroupPublicKey(publics[i])] = Secrets
  BY <1>1, <1>2, <1>3
<1>5. DeriveGroupPk(publics) = SumOf(Secrets)
  BY <1>4 DEF DeriveGroupPk, G2Sum
<1> QED  BY <1>5, CollectiveIsMaster DEF GroupPkIsCollective, MasterSecret, publics
-----------------------------------------------------------------------------
(* The signatures of two holders.                                          *)

CombinesLike(w, q) == w[1] = LagrangeAtZero(q)[1] /\ w[2] = LagrangeAtZero(q)[2]

LEMMA Weights ==
  ASSUME NEW q \in Quorums
  PROVE  CombinesLike(LagrangeAtZero(q), q) /\ CombinesLike(FrostLagrange(q), q)
BY QuorumIds, FrostWeights DEF CombinesLike

LEMMA PairVerifies ==
  ASSUME SharingInv, NEW q \in Quorums, NEW msg, NEW dst, NEW partials, DOMAIN partials = 1..2,
         partials[1].sigma = G1Mul(HashToG1(msg, dst), key[q[1]]),
         partials[2].sigma = G1Mul(HashToG1(msg, dst), key[q[2]]),
         NEW w, CombinesLike(w, q)
  PROVE  VerifyBls(Combine(partials, w), HashToG1(msg, dst), CollectivePublicKey) <=> Combines(q)
<1> DEFINE H == HashToG1(msg, dst)
           l == LagrangeAtZero(q)
           k1 == key[q[1]]
           k2 == key[q[2]]
           sum == Add(Mul(k1, w[1]), Mul(k2, w[2]))
<1>1. /\ k1 \in Scalars /\ k2 \in Scalars
  BY QuorumIds DEF SharingInv, SharingTypes
<1>2. l[1] \in Scalars /\ l[2] \in Scalars
  BY QuorumIds, LagrangeInterpolates DEF Interpolates
<1>3. w[1] = l[1] /\ w[2] = l[2]
  BY DEF CombinesLike
<1>4. sum = Weighed(key, q, l)
  BY <1>3 DEF Weighed
<1>5. Combines(q) <=> Weighed(key, q, l) = MasterSecret
  BY SharesReconstruct DEF Combines
<1> HIDE DEF l
<1>6. Combine(partials, w) = G1Mul(H, sum)
  <2> HIDE DEF k1, k2
  <2>1. partials[1].sigma = G1Mul(HashToG1(msg, dst), k1)
        /\ partials[2].sigma = G1Mul(HashToG1(msg, dst), k2)
    BY DEF k1, k2
  <2> QED  BY <1>1, <1>2, <1>3, <2>1, CombinePair
<1>7. sum \in Scalars
  <2>1. Mul(k1, w[1]) \in Scalars /\ Mul(k2, w[2]) \in Scalars
    BY <1>1, <1>2, <1>3, ScalarTypes
  <2> QED  BY <2>1, ScalarTypes
<1> HIDE DEF sum
<1>8. VerifyBls(G1Mul(H, sum), H, MasterSecret) <=> sum = MasterSecret
  BY <1>7, Master, OwnKeyVerifies
<1> QED  BY <1>4, <1>5, <1>6, <1>8, CollectiveIsMaster

LEMMA AtsBlsIff ==
  ASSUME SharingInv, NEW q \in Quorums
  PROVE  AtsBlsSigns(q) <=> Combines(q)
<1> DEFINE H == HashToG1("m", "BLS_ATS")
           partials == Partials(q, LAMBDA s : AtsBlsSign(s, "m"))
           sigma == Combine(partials, LagrangeAtZero(q))
           sig == [sigma |-> sigma, signers |-> q, threshold |-> T]
<1>1. /\ partials = [i \in 1..2 |-> [signer_id |-> q[i], sigma |-> G1Mul(H, key[q[i]])]]
  BY DEF Partials, AtsBlsSign, PartialSignature, OwnShare, Share, T
<1> HIDE DEF partials
<1>2. q = [i \in 1..2 |-> q[i]]
  BY QuorumIds
<1>3. Fields(partials, "signer_id") = q
  BY <1>1, <1>2 DEF Fields
<1>4. Len(partials) = 2
  BY <1>1, SharesLength
<1>5. AtsBlsAggregate(partials, T) = {sig}
  BY <1>3, <1>4 DEF AtsBlsAggregate, T
<1>6. DOMAIN partials = 1..2 /\ partials[1].sigma = G1Mul(H, key[q[1]])
      /\ partials[2].sigma = G1Mul(H, key[q[2]])
  BY <1>1
<1>7. VerifyBls(sigma, H, CollectivePublicKey) <=> Combines(q)
  BY <1>6, Weights, PairVerifies
<1>8. AtsBlsVerify(sig, "m", CollectivePublicKey) <=> VerifyBls(sigma, H, CollectivePublicKey)
  BY DEF AtsBlsVerify
<1> HIDE DEF sig
<1>9. AtsBlsSigns(q)
        <=> \E s \in AtsBlsAggregate(partials, T) : AtsBlsVerify(s, "m", CollectivePublicKey)
  BY DEF AtsBlsSigns, partials
<1> QED  BY <1>5, <1>7, <1>8, <1>9

LEMMA FrostSimpleIff ==
  ASSUME SharingInv, NEW q \in Quorums
  PROVE  FrostSigns(q) <=> Combines(q)
<1> DEFINE H == HashToG1("m", "FROST-BLS")
           partials == Partials(q, LAMBDA s : FrostSignSimple(s, "m"))
           sigma == Combine(partials, FrostLagrange(q))
           sig == FrostSignature(sigma, q, 1, SessionTranscript("default", 1, q))
<1>1. /\ partials = [i \in 1..2 |-> [signer_id |-> q[i], sigma |-> G1Mul(H, key[q[i]])]]
  BY DEF Partials, FrostSignSimple, PartialSignature, OwnShare, Share, T
<1> HIDE DEF partials
<1>2. q = [i \in 1..2 |-> q[i]]
  BY QuorumIds
<1>3. Fields(partials, "signer_id") = q
  BY <1>1, <1>2 DEF Fields
<1>4. partials # <<>>
  BY <1>1, PairNotEmpty
<1>5. FrostAggregateSimple(partials) = {sig}
  BY <1>3, <1>4 DEF FrostAggregateSimple
<1>6. DOMAIN partials = 1..2 /\ partials[1].sigma = G1Mul(H, key[q[1]])
      /\ partials[2].sigma = G1Mul(H, key[q[2]])
  BY <1>1
<1>7. VerifyBls(sigma, H, CollectivePublicKey) <=> Combines(q)
  BY <1>6, Weights, PairVerifies
<1>8. FrostVerify(sig, CollectivePublicKey, "m") <=> VerifyBls(sigma, H, CollectivePublicKey)
  BY DEF FrostVerify, FrostSignature
<1> HIDE DEF sig
<1>9. FrostSigns(q)
        <=> \E s \in FrostAggregateSimple(partials) : FrostVerify(s, CollectivePublicKey, "m")
  BY DEF FrostSigns, partials
<1> QED  BY <1>5, <1>7, <1>8, <1>9

\* What a session's aggregation returns.
LEMMA FrostSessionSignature ==
  ASSUME SharingInv, NEW q \in Quorums
  PROVE  \E sigma :
           /\ FrostSignatures(q) = {FrostSignature(sigma, q, 1, <<>>)}
           /\ VerifyBls(sigma, SigningHash("m", 3, q), CollectivePublicKey) <=> Combines(q)
<1> DEFINE H == SigningHash("m", 3, q)
           partials == Partials(q, LAMBDA s : FrostSign(s, "m", 3, q))
           sigma == Combine(partials, FrostLagrange(q))
<1>1. /\ partials = [i \in 1..2 |-> [signer_id |-> q[i], sigma |-> G1Mul(H, key[q[i]])]]
  BY DEF Partials, FrostSign, PartialSignature, OwnShare, Share, T
<1> HIDE DEF partials
<1>2. q = [i \in 1..2 |-> q[i]]
  BY QuorumIds
<1>3. Fields(partials, "signer_id") = q /\ Fields(SharesOf(q), "index") = q
  BY <1>1, <1>2, SharesReconstruct DEF Fields
<1>4. Len(partials) = 2
  BY <1>1, SharesLength
<1>5. FrostSignatures(q) = {FrostSignature(sigma, q, 1, <<>>)}
  <2>1. FrostSignatures(q) = FrostAggregate(partials, SharesOf(q), T)
    BY DEF FrostSignatures, partials
  <2> QED  BY <1>3, <1>4, <2>1 DEF FrostAggregate, T
<1>6. DOMAIN partials = 1..2 /\ partials[1].sigma = G1Mul(H, key[q[1]])
      /\ partials[2].sigma = G1Mul(H, key[q[2]])
  BY <1>1
<1>7. VerifyBls(sigma, H, CollectivePublicKey) <=> Combines(q)
  BY <1>6, Weights, PairVerifies DEF SigningHash
<1> QED  BY <1>5, <1>7

LEMMA FrostSessionIff ==
  ASSUME SharingInv, NEW q \in Quorums
  PROVE  FrostSignsSession(q) <=> Combines(q)
<1>1. PICK sigma :
        /\ FrostSignatures(q) = {FrostSignature(sigma, q, 1, <<>>)}
        /\ VerifyBls(sigma, SigningHash("m", 3, q), CollectivePublicKey) <=> Combines(q)
  BY FrostSessionSignature
<1>2. FrostVerifyWithSession(FrostSignature(sigma, q, 1, <<>>), CollectivePublicKey, "m", 3, q)
        <=> VerifyBls(sigma, SigningHash("m", 3, q), CollectivePublicKey)
  BY DEF FrostVerifyWithSession, FrostSignature
<1> QED  BY <1>1, <1>2 DEF FrostSignsSession

-----------------------------------------------------------------------------
(* The accountable scheme: every member is listed, so that the membership  *)
(* proof names the quorum, and what decides is the combined signature.     *)

ListedBody(f, members, it) ==
  [s \in SUBSET {1, 2} |->
     IF s = {} THEN <<>>
     ELSE IF f[Min(s)] \in members THEN <<f[Min(s)]>> \o it[s \ {Min(s)}] ELSE it[s \ {Min(s)}]]

LEMMA ListedOfTwo ==
  ASSUME NEW f, DOMAIN f = 1..2, NEW members, f[1] \in members, f[2] \in members
  PROVE  Listed(f, members) = <<f[1]>> \o (<<f[2]>> \o <<>>)
<1> DEFINE a == f[1]
           b == f[2]
           it == [s \in SUBSET {1, 2} |->
                    IF s = {} THEN <<>>
                    ELSE IF s = {1, 2} THEN <<a>> \o (<<b>> \o <<>>)
                    ELSE IF s = {1} THEN <<a>> \o <<>> ELSE <<b>> \o <<>>]
<1>1. ASSUME NEW s \in SUBSET {1, 2}
      PROVE  it[s] = IF s = {} THEN <<>>
                     ELSE IF f[Min(s)] \in members THEN <<f[Min(s)]>> \o it[s \ {Min(s)}]
                     ELSE it[s \ {Min(s)}]
  <2>1. it[{}] = <<>> /\ it[{2}] = <<b>> \o <<>> /\ it[{1}] = <<a>> \o <<>>
        /\ it[{1, 2}] = <<a>> \o (<<b>> \o <<>>)
    BY SubsetsOfPair
  <2> HIDE DEF it
  <2>2. CASE s = {1}
    <3>1. Min(s) = 1 /\ s \ {Min(s)} = {} /\ s # {}
      BY <2>2, MinOfPair, SubsetsOfPair
    <3> QED  BY <2>1, <2>2, <3>1
  <2>3. CASE s = {2}
    <3>1. Min(s) = 2 /\ s \ {Min(s)} = {} /\ s # {}
      BY <2>3, MinOfPair, SubsetsOfPair
    <3> QED  BY <2>1, <2>3, <3>1
  <2>4. CASE s = {1, 2}
    BY <2>1, <2>4, MinOfPair, SubsetsOfPair
  <2> QED
    BY <2>1, <2>2, <2>3, <2>4, SubsetsOfPair
<1>2. it = ListedBody(f, members, it)
  <2> HIDE DEF a, b
  <2> QED
    BY <1>1 DEF ListedBody
<1> DEFINE chosen == CHOOSE g : g = ListedBody(f, members, g)
<1>3. chosen = ListedBody(f, members, chosen)
  <2> HIDE DEF it
  <2> QED
    BY <1>2
<1> HIDE DEF it, chosen
<1>4. \A s \in SUBSET {1, 2} :
        chosen[s] = IF s = {} THEN <<>>
                    ELSE IF f[Min(s)] \in members THEN <<f[Min(s)]>> \o chosen[s \ {Min(s)}]
                    ELSE chosen[s \ {Min(s)}]
  BY <1>3 DEF ListedBody
<1>5. chosen[{}] = <<>>
  BY <1>4
<1>6. chosen[{2}] = <<b>> \o <<>>
  <2>1. chosen[{2}] = IF f[Min({2})] \in members THEN <<f[Min({2})]>> \o chosen[{2} \ {Min({2})}]
                      ELSE chosen[{2} \ {Min({2})}]
    BY <1>4
  <2> QED
    BY <1>5, <2>1, MinOfPair, SubsetsOfPair
<1>7. chosen[{1, 2}] = <<a>> \o chosen[{2}]
  <2>1. chosen[{1, 2}]
          = IF f[Min({1, 2})] \in members
            THEN <<f[Min({1, 2})]>> \o chosen[{1, 2} \ {Min({1, 2})}]
            ELSE chosen[{1, 2} \ {Min({1, 2})}]
    BY <1>4
  <2> QED
    BY <2>1, MinOfPair, SubsetsOfPair
<1>8. Listed(f, members) = chosen[{1, 2}]
  BY SubsetsOfPair DEF Listed, FoldRight, MapThenFoldSet, ListedBody, chosen
<1> QED
  BY <1>6, <1>7, <1>8

LEMMA ParamsParts ==
  /\ Params.threshold = 2 /\ Params.collective_pk = CollectivePublicKey
  /\ Params.tracking_pk = PublicKey(TrackingKey) /\ Params.member_pks = member
  /\ Params.member_lt_pks = [p \in Parties |-> PublicKey(LtKey[p])]
BY DEF Params, NetworkPublicParams, T

\* What the aggregation returns.
LEMMA AtsSignature ==
  ASSUME SharingInv, NEW q \in Quorums, NEW sig \in AtsSignatures(q)
  PROVE  /\ sig.quorum = q
         /\ VerifyBls(sig.combined_sig, AtsHash("m"), CollectivePublicKey) <=> Combines(q)
         /\ sig.membership_proof = MembershipProof(q, LagrangeAtZero(q), Params)
         /\ sig.encrypted_tags
              = [i \in 1..2 |->
                   SignPartial(Signer(q[i]), "m", PublicKey(TrackingKey), 1).encrypted_tag]
<1> DEFINE H == AtsHash("m")
           partials == [i \in 1..T |-> SignPartial(Signer(q[i]), "m", Params.tracking_pk, 1)]
           l == LagrangeAtZero(q)
           result == [combined_sig |-> Combine(partials, l), quorum |-> q,
                      bitmap_commitment |-> BitmapCommitment(q, q[1]),
                      encrypted_tags |-> Fields(partials, "encrypted_tag"),
                      membership_proof |-> MembershipProof(q, l, Params), epoch |-> 0]
<1>1. partials = [i \in 1..2 |-> SignPartial(Signer(q[i]), "m", PublicKey(TrackingKey), 1)]
  BY ParamsParts DEF T
<1>2. \A i \in 1..2 : /\ partials[i].node_id = q[i] /\ partials[i].sigma = G1Mul(H, key[q[i]])
  BY <1>1 DEF SignPartial, Signer, SignerConfig
<1>3. DOMAIN partials = 1..2 /\ partials = [i \in 1..2 |-> partials[i]]
  BY <1>1
<1>4. Fields(partials, "encrypted_tag")
        = [i \in 1..2 |-> SignPartial(Signer(q[i]), "m", PublicKey(TrackingKey), 1).encrypted_tag]
  BY <1>1 DEF Fields
<1> HIDE DEF partials
<1>5. q = [i \in 1..2 |-> q[i]]
  BY QuorumIds
<1>6. Fields(partials, "node_id") = q
  BY <1>2, <1>3, <1>5 DEF Fields
<1>7. Len(partials) = 2
  BY <1>3, SharesLength
<1>8. AtsSignatures(q) = Aggregate(partials, Params, 0, q[1])
  BY DEF AtsSignatures, partials
<1> HIDE DEF l
<1>9. AtsSignatures(q) = {result}
  BY <1>6, <1>7, <1>8, ParamsParts DEF Aggregate, l
<1>10. VerifyBls(Combine(partials, l), H, CollectivePublicKey) <=> Combines(q)
  BY <1>2, <1>3, Weights, PairVerifies DEF AtsHash, l
<1>11. /\ result.quorum = q /\ result.combined_sig = Combine(partials, l)
       /\ result.membership_proof = MembershipProof(q, l, Params)
       /\ result.encrypted_tags = Fields(partials, "encrypted_tag")
  OBVIOUS
<1> HIDE DEF result
<1> QED  BY <1>4, <1>9, <1>10, <1>11 DEF l

LEMMA MembersNamed ==
  ASSUME SharingInv, NEW q \in Quorums
  PROVE  LET pks == MembershipProof(q, LagrangeAtZero(q), Params).individual_pks
         IN  \A i \in DOMAIN pks : pks[i][1] \in DOMAIN member /\ member[pks[i][1]] = pks[i][2]
<1> DEFINE listed == Listed(q, DOMAIN Params.member_pks)
           pks == MembershipProof(q, LagrangeAtZero(q), Params).individual_pks
<1>1. DOMAIN q = 1..2 /\ q[1] \in Parties /\ q[2] \in Parties /\ DOMAIN member = Parties
  BY QuorumIds DEF SharingInv, SharingTypes
<1>2. listed = <<q[1]>> \o (<<q[2]>> \o <<>>)
  BY <1>1, ListedOfTwo, ParamsParts
<1>3. pks = [i \in DOMAIN listed |-> <<listed[i], member[listed[i]]>>]
  BY ParamsParts DEF MembershipProof
<1>4. listed \in Seq(Parties)
  <2>1. <<q[1]>> \in Seq(Parties) /\ <<q[2]>> \in Seq(Parties) /\ <<>> \in Seq(Parties)
    BY <1>1
  <2>2. <<q[2]>> \o <<>> \in Seq(Parties)
    BY <2>1, ConcatProperties
  <2> QED  BY <1>2, <2>1, <2>2, ConcatProperties
<1> HIDE DEF listed, pks
<1>5. \A i \in DOMAIN listed : listed[i] \in Parties
  BY <1>4
<1> QED  BY <1>1, <1>3, <1>5 DEF pks

LEMMA AtsIff ==
  ASSUME SharingInv, NEW q \in Quorums, NEW sig \in AtsSignatures(q)
  PROVE  Verify(Params, "m", sig) <=> Combines(q)
<1>1. /\ sig.quorum = q /\ sig.membership_proof = MembershipProof(q, LagrangeAtZero(q), Params)
      /\ VerifyBls(sig.combined_sig, AtsHash("m"), CollectivePublicKey) <=> Combines(q)
  BY AtsSignature
<1>2. Len(q) = 2
  BY QuorumIds, SharesLength
<1> QED  BY <1>1, <1>2, MembersNamed, ParamsParts DEF Verify

\* SignsIffCombines: a signature of every scheme verifies under the collective
\* key exactly when the shares it was made with combine to the secret, a
\* partial signature under its own key alone, and sums under sums.
THEOREM RefreshSignsIffCombines == Spec => []SignsIffCombines
<1>1. ASSUME SharingInv  PROVE SignsIffCombines
  <2>1. BlsSumsVerify /\ PartialsBind
    BY <1>1, SumsVerify, PartialsAreBound
  <2>2. ASSUME NEW q \in Quorums
        PROVE  /\ AtsBlsSigns(q) <=> Combines(q)
               /\ FrostSigns(q) <=> Combines(q)
               /\ FrostSignsSession(q) <=> Combines(q)
               /\ \A sig \in AtsSignatures(q) : Verify(Params, "m", sig) <=> Combines(q)
    BY <1>1, AtsBlsIff, FrostSimpleIff, FrostSessionIff, AtsIff
  <2> QED  BY <2>1, <2>2, GroupKeyDerived DEF SignsIffCombines
<1>2. ASSUME ~Generated  PROVE SignsIffCombines
  BY <1>2 DEF SignsIffCombines
<1> QED  BY <1>1, <1>2, SharingAlways, PTL
-----------------------------------------------------------------------------
(* Tracing.                                                                *)

\* The tag of a partial signature opens with the secret of the tracking key
\* alone, and says whose it is.
LEMMA TagOpens ==
  ASSUME SharingInv, NEW p \in Parties, NEW sk \in Scalars,
         NEW sealed, sealed = SignPartial(Signer(p), "m", PublicKey(TrackingKey), 1).encrypted_tag
  PROVE  DecryptTag(sk, sealed)
           = IF sk = TrackingKey
             THEN {[node_id |-> p, sigma |-> G1Mul(AtsHash("m"), key[p]),
                    tag |-> G1Mul(G1Mul(AtsHash("m"), key[p]), LtKey[p]), lt_pk |-> LtKey[p]]}
             ELSE {}
<1> DEFINE lt == LtKey[p]
           sigma == G1Mul(AtsHash("m"), key[p])
           tag == G1Mul(sigma, lt)
           plain == [node_id |-> p, sigma |-> G1ToBytes(sigma), tag |-> G1ToBytes(tag),
                     lt_pk |-> G2ToBytes(lt)]
<1>1. TrackingKey \in Scalars /\ lt \in Scalars
  BY RefreshAssumption DEF Injection
<1>2. PublicKey(TrackingKey) = TrackingKey /\ PublicKey(lt) = lt /\ PublicKey(1) = 1
  BY <1>1, PublicIsSecret, ScalarTypes
<1>3. Mul(TrackingKey, 1) = TrackingKey /\ Mul(1, sk) = sk
  BY <1>1, MulLaws
<1>4. sealed = [ephemeral_pk |-> 1, key |-> <<"sigimora-ats-tag", TrackingKey>>, plain |-> plain]
  BY <1>2, <1>3 DEF SignPartial, Signer, SignerConfig, EncryptTag, Seal, G2Mul
<1> HIDE DEF plain
<1>5. sealed.key = <<"sigimora-ats-tag", TrackingKey>> /\ sealed.ephemeral_pk = 1
      /\ sealed.plain = plain
  BY <1>4
<1>6. <<"sigimora-ats-tag", TrackingKey>> = <<"sigimora-ats-tag", sk>> <=> sk = TrackingKey
  OBVIOUS
<1>7. Open(sealed, sk, "sigimora-ats-tag") = IF sk = TrackingKey THEN {plain} ELSE {}
  BY <1>3, <1>5, <1>6 DEF Open, G2Mul
<1>8. /\ G1FromBytes(G1ToBytes(sigma)).ok /\ G1FromBytes(G1ToBytes(tag)).ok
      /\ G2FromBytes(G2ToBytes(lt)).ok
      /\ G1ToBytes(sigma).point = sigma /\ G1ToBytes(tag).point = tag /\ G2ToBytes(lt).point = lt
  <2> HIDE DEF sigma, tag, lt
  <2> QED  BY DEF G1FromBytes, G1ToBytes, G2FromBytes, G2ToBytes, Encode, Decode
<1>9. plain.node_id = p /\ plain.sigma = G1ToBytes(sigma) /\ plain.tag = G1ToBytes(tag)
      /\ plain.lt_pk = G2ToBytes(lt)
  BY DEF plain
<1> HIDE DEF sigma, tag, lt
<1>10. CASE sk = TrackingKey
  <2>1. {u \in {plain} :
           G1FromBytes(u.sigma).ok /\ G1FromBytes(u.tag).ok /\ G2FromBytes(u.lt_pk).ok}
          = {plain}
    BY <1>8, <1>9
  <2>2. DecryptTag(sk, sealed) = {[node_id |-> plain.node_id, sigma |-> plain.sigma.point,
                                   tag |-> plain.tag.point, lt_pk |-> plain.lt_pk.point]}
    BY <1>7, <1>10, <2>1 DEF DecryptTag
  <2> QED  BY <1>8, <1>9, <1>10, <2>2 DEF tag, sigma, lt
<1>11. CASE sk # TrackingKey
  BY <1>7, <1>11 DEF DecryptTag
<1> QED  BY <1>10, <1>11

LEMMA TagNames ==
  ASSUME SharingInv, NEW p \in Parties,
         NEW sealed, sealed = SignPartial(Signer(p), "m", PublicKey(TrackingKey), 1).encrypted_tag
  PROVE  /\ TraceTag(WrongKey, Params, "m", sealed) = {}
         /\ TraceTag(TrackingKey, Params, "m", sealed) = IF key[p] = member[p] THEN {p} ELSE {}
<1> DEFINE k == key[p]
           lt == LtKey[p]
           H == AtsHash("m")
           sigma == G1Mul(H, k)
           tag == [node_id |-> p, sigma |-> sigma, tag |-> G1Mul(sigma, lt), lt_pk |-> lt]
<1>1. /\ TrackingKey \in Scalars /\ WrongKey \in Scalars /\ WrongKey # TrackingKey
      /\ LtKey \in [Parties -> Scalars] /\ \A a, b \in Parties : LtKey[a] = LtKey[b] => a = b
      /\ lt \in Scalars
  BY RefreshAssumption DEF Injection, IsInjective
<1>2. k \in Scalars /\ member[p] \in Scalars /\ DOMAIN member = Parties
  BY DEF SharingInv, SharingTypes
<1>3. DecryptTag(WrongKey, sealed) = {} /\ DecryptTag(TrackingKey, sealed) = {tag}
  BY <1>1, TagOpens
<1>4. TraceTag(WrongKey, Params, "m", sealed) = {}
  BY <1>3 DEF TraceTag
<1>5. Params.member_pks = member /\ Params.member_lt_pks = LtKey
  BY <1>1, ParamsParts, PublicIsSecret
<1>6. tag.node_id = p /\ tag.sigma = sigma /\ tag.tag = G1Mul(sigma, lt) /\ tag.lt_pk = lt
  OBVIOUS
<1>7. IsPoint(sigma)
  BY <1>2, HashMultiple DEF AtsHash
<1> HIDE DEF sigma, lt, tag
<1>8. TagMatches(tag)
  <2>1. IsPoint(G1Mul(sigma, lt))
    BY <1>1, <1>7, MulPoint
  <2> QED  BY <1>1, <1>6, <1>7, <2>1, PairingCheckIff DEF TagMatches
<1>9. PartialMatches(Params, "m", tag) <=> k = member[p]
  <2>1. PartialMatches(Params, "m", tag) <=> VerifyBls(sigma, H, member[p])
    BY <1>2, <1>5, <1>6 DEF PartialMatches
  <2> HIDE DEF k
  <2>2. VerifyBls(sigma, H, member[p]) <=> k = member[p]
    BY <1>2, OwnKeyVerifies DEF sigma, AtsHash
  <2> QED  BY <2>1, <2>2
<1>10. \A id \in Parties : LtKey[id] = tag.lt_pk <=> id = p
  BY <1>1, <1>6 DEF lt
<1>11. p \in Parties /\ \A m \in Parties : m < p => LtKey[m] # tag.lt_pk
  BY <1>10, Constants
<1>12. DOMAIN Params.member_lt_pks = Parties
  BY <1>1, <1>5
<1>13. TraceTag(TrackingKey, Params, "m", sealed)
         = {id \in Parties : /\ PartialMatches(Params, "m", tag) /\ TagMatches(tag)
                             /\ LtKey[id] = tag.lt_pk
                             /\ \A m \in Parties : m < id => LtKey[m] # tag.lt_pk}
  BY <1>3, <1>5, <1>12 DEF TraceTag
<1> QED  BY <1>4, <1>8, <1>9, <1>10, <1>11, <1>13

\* TraceNamesCurrent: the tracking key names every signer whose published key
\* is current, and nobody else; another key names nobody.
THEOREM RefreshTraceNamesCurrent == Spec => []TraceNamesCurrent
<1>1. ASSUME SharingInv  PROVE TraceNamesCurrent
  <2> SUFFICES ASSUME NEW q \in Quorums, NEW sig \in AtsSignatures(q), NEW i \in 1..T
               PROVE  /\ Trace(WrongKey, Params, "m", sig)[i] = {}
                      /\ Trace(TrackingKey, Params, "m", sig)[i]
                           = IF PublicKey(key[q[i]]) = member[q[i]] THEN {q[i]} ELSE {}
    BY DEF TraceNamesCurrent
  <2>1. i \in 1..2 /\ q[i] \in Parties
    BY QuorumIds DEF T
  <2> DEFINE sealed == SignPartial(Signer(q[i]), "m", PublicKey(TrackingKey), 1).encrypted_tag
  <2>2. DOMAIN sig.encrypted_tags = 1..2 /\ sig.encrypted_tags[i] = sealed
    <3>1. sig.encrypted_tags
            = [j \in 1..2 |->
                 SignPartial(Signer(q[j]), "m", PublicKey(TrackingKey), 1).encrypted_tag]
      BY <1>1, AtsSignature
    <3> QED  BY <2>1, <3>1
  <2> HIDE DEF sealed
  <2>3. /\ Trace(WrongKey, Params, "m", sig)[i] = TraceTag(WrongKey, Params, "m", sealed)
        /\ Trace(TrackingKey, Params, "m", sig)[i] = TraceTag(TrackingKey, Params, "m", sealed)
    BY <2>1, <2>2 DEF Trace
  <2>4. PublicKey(key[q[i]]) = key[q[i]]
    BY <1>1, <2>1, PublicIsSecret DEF SharingInv, SharingTypes
  <2> QED  BY <1>1, <2>1, <2>3, <2>4, TagNames DEF sealed
<1>2. ASSUME ~Generated  PROVE TraceNamesCurrent
  BY <1>2 DEF TraceNamesCurrent
<1> QED  BY <1>1, <1>2, SharingAlways, PTL

-----------------------------------------------------------------------------
(* Wire formats: a number is folded from its bytes, from the last to the   *)
(* first; only numbers of two and of four bytes occur.                     *)

LEMMA MinOfFour == Min({1, 2, 3, 4}) = 1 /\ Min({2, 3, 4}) = 2 /\ Min({3, 4}) = 3 /\ Min({4}) = 4
<1>1. ASSUME NEW S, NEW a \in S, S \subseteq Int, \A y \in S : a <= y
      PROVE  Min(S) = a
  <2>1. \A x \in S : (\A y \in S : x <= y) => x = a
    BY <1>1
  <2> QED  BY <1>1, <2>1 DEF Min
<1>2. Min({1, 2, 3, 4}) = 1
  <2>1. 1 \in {1, 2, 3, 4} /\ {1, 2, 3, 4} \subseteq Int /\ \A y \in {1, 2, 3, 4} : 1 <= y
    OBVIOUS
  <2> QED  BY <1>1, <2>1
<1>3. Min({2, 3, 4}) = 2
  <2>1. 2 \in {2, 3, 4} /\ {2, 3, 4} \subseteq Int /\ \A y \in {2, 3, 4} : 2 <= y
    OBVIOUS
  <2> QED  BY <1>1, <2>1
<1>4. Min({3, 4}) = 3
  <2>1. 3 \in {3, 4} /\ {3, 4} \subseteq Int /\ \A y \in {3, 4} : 3 <= y
    OBVIOUS
  <2> QED  BY <1>1, <2>1
<1>5. Min({4}) = 4
  <2>1. 4 \in {4} /\ {4} \subseteq Int /\ \A y \in {4} : 4 <= y
    OBVIOUS
  <2> QED  BY <1>1, <2>1
<1> QED  BY <1>2, <1>3, <1>4, <1>5

LEMMA MinIsIn ==
  ASSUME NEW n \in Nat, NEW S \in SUBSET (1..n), S # {}
  PROVE  Min(S) \in S
<1>1. S \subseteq Nat
  OBVIOUS
<1>2. \E x \in S : \A y \in S : x <= y
  BY <1>1, LeastNumber
<1> QED  BY <1>2 DEF Min

\* The recursion of a little-endian number.
BytesBody(f, S, it) ==
  [s \in SUBSET S |-> IF s = {} THEN 0 ELSE f[Min(s)] + 256 * it[s \ {Min(s)}]]

LEMMA NumberUnfolds ==
  ASSUME NEW n \in Nat, NEW f, DOMAIN f = 1..n, \A i \in 1..n : f[i] \in Int
  PROVE  \E it :
           /\ \A s \in SUBSET (1..n) :
                it[s] = IF s = {} THEN 0 ELSE f[Min(s)] + 256 * it[s \ {Min(s)}]
           /\ FoldRight(LAMBDA byte, rest : byte + 256 * rest, f, 0) = it[1..n]
<1> DEFINE S == 1..n
           pick == [s \in SUBSET S |-> Min(s)]
           step == [x \in S \X Int |-> f[x[1]] + 256 * x[2]]
<1>1. IsFiniteSet(S) /\ 0 \in Int
  BY FS_Interval
<1>2. Picks(pick, S)
  BY MinIsIn DEF Picks
<1>3. StaysIn(step, S, Int)
  BY DEF StaysIn
<1>4. PICK it \in [SUBSET S -> Int] : Recursion(it, S, 0, pick, step)
  <2> HIDE DEF S, pick, step
  <2> QED  BY <1>1, <1>2, <1>3, FoldExists
<1>5. ASSUME NEW s \in SUBSET S
      PROVE  it[s] = IF s = {} THEN 0 ELSE f[Min(s)] + 256 * it[s \ {Min(s)}]
  <2>1. it[s] = IF s = {} THEN 0 ELSE step[<<pick[s], it[s \ {pick[s]}]>>]
    BY <1>4 DEF Recursion
  <2>2. CASE s = {}
    BY <2>1, <2>2
  <2>3. CASE s # {}
    <3>1. pick[s] = Min(s) /\ Min(s) \in S /\ s \ {Min(s)} \in SUBSET S
      BY <2>3, MinIsIn
    <3>2. it[s \ {Min(s)}] \in Int
      BY <1>4, <3>1
    <3>3. step[<<Min(s), it[s \ {Min(s)}]>>] = f[Min(s)] + 256 * it[s \ {Min(s)}]
      BY <3>1, <3>2
    <3> HIDE DEF pick, step
    <3> QED  BY <2>1, <2>3, <3>1, <3>3
  <2> QED  BY <2>2, <2>3
<1>6. it = BytesBody(f, S, it)
  BY <1>4, <1>5 DEF BytesBody
<1> DEFINE chosen == CHOOSE g : g = BytesBody(f, S, g)
<1>7. chosen = BytesBody(f, S, chosen)
  BY <1>6
<1>8. FoldRight(LAMBDA byte, rest : byte + 256 * rest, f, 0) = chosen[S]
  BY DEF FoldRight, MapThenFoldSet, BytesBody
<1> HIDE DEF chosen
<1>9. \A s \in SUBSET S :
        chosen[s] = IF s = {} THEN 0 ELSE f[Min(s)] + 256 * chosen[s \ {Min(s)}]
  BY <1>7 DEF BytesBody
<1> QED  BY <1>8, <1>9

LEMMA NumberOfTwo ==
  ASSUME NEW bytes, NEW i \in Int, bytes[i] \in Int, bytes[i + 1] \in Int
  PROVE  Number(bytes, i, i + 1) = bytes[i] + 256 * bytes[i + 1]
<1> DEFINE f == SubSeq(bytes, i, i + 1)
<1>1. \A k \in i..i + 1 : bytes[k] \in Int
  OBVIOUS
<1>2. f \in Seq(Int) /\ Len(f) = 2 /\ f[1] = bytes[i] /\ f[2] = bytes[i + 1]
  <2>1. /\ SubSeq(bytes, i, i + 1) \in Seq(Int)
        /\ Len(SubSeq(bytes, i, i + 1)) = IF i <= i + 1 THEN (i + 1) - i + 1 ELSE 0
        /\ \A k \in 1 .. (i + 1) - i + 1 : SubSeq(bytes, i, i + 1)[k] = bytes[i + k - 1]
    BY <1>1, SubSeqProperties
  <2> HIDE DEF f
  <2>2. (i + 1) - i + 1 = 2 /\ i + 1 - 1 = i /\ i + 2 - 1 = i + 1 /\ i <= i + 1
    OBVIOUS
  <2> QED  BY <2>1, <2>2 DEF f
<1> HIDE DEF f
<1>3. DOMAIN f = 1..2 /\ \A k \in 1..2 : f[k] \in Int
  BY <1>2, LenProperties
<1>4. PICK it :
        /\ \A s \in SUBSET (1..2) : it[s] = IF s = {} THEN 0 ELSE f[Min(s)] + 256 * it[s \ {Min(s)}]
        /\ FoldRight(LAMBDA byte, rest : byte + 256 * rest, f, 0) = it[1..2]
  BY <1>3, NumberUnfolds
<1>5. it[{}] = 0
  BY <1>4
<1>6. it[{2}] = f[2] + 256 * 0
  <2>0. {2} \in SUBSET (1..2) /\ {2} # {}
    OBVIOUS
  <2>1. it[{2}] = f[Min({2})] + 256 * it[{2} \ {Min({2})}]
    BY ONLY <1>4, <2>0
  <2>2. Min({2}) = 2 /\ {2} \ {2} = {}
    BY MinOfPair
  <2> QED  BY ONLY <1>5, <2>1, <2>2
<1>7. it[{1, 2}] = f[1] + 256 * it[{2}]
  <2>1. it[{1, 2}] = f[Min({1, 2})] + 256 * it[{1, 2} \ {Min({1, 2})}]
    BY <1>4, SubsetsOfPair
  <2> QED  BY <2>1, MinOfPair, SubsetsOfPair
<1>8. Number(bytes, i, i + 1) = it[{1, 2}]
  BY <1>4, SubsetsOfPair DEF Number, f
<1> QED  BY <1>2, <1>6, <1>7, <1>8

LEMMA NumberOfFour ==
  ASSUME NEW bytes, NEW a \in Int, NEW b \in Int, NEW c \in Int, NEW d \in Int,
         bytes[5] = a, bytes[6] = b, bytes[7] = c, bytes[8] = d
  PROVE  Number(bytes, 5, 8) = a + 256 * (b + 256 * (c + 256 * d))
<1> DEFINE f == SubSeq(bytes, 5, 8)
<1>1. \A k \in 5..8 : bytes[k] \in Int
  <2>1. \A k \in 5..8 : k = 5 \/ k = 6 \/ k = 7 \/ k = 8
    OBVIOUS
  <2> QED  BY <2>1
<1>2. f \in Seq(Int) /\ Len(f) = 4 /\ f[1] = a /\ f[2] = b /\ f[3] = c /\ f[4] = d
  <2>1. /\ SubSeq(bytes, 5, 8) \in Seq(Int)
        /\ Len(SubSeq(bytes, 5, 8)) = IF 5 <= 8 THEN 8 - 5 + 1 ELSE 0
        /\ \A k \in 1 .. 8 - 5 + 1 : SubSeq(bytes, 5, 8)[k] = bytes[5 + k - 1]
    BY <1>1, SubSeqProperties
  <2> QED  BY <2>1
<1> HIDE DEF f
<1>3. DOMAIN f = 1..4 /\ \A k \in 1..4 : f[k] \in Int
  BY <1>2, LenProperties
<1>4. PICK it :
        /\ \A s \in SUBSET (1..4) : it[s] = IF s = {} THEN 0 ELSE f[Min(s)] + 256 * it[s \ {Min(s)}]
        /\ FoldRight(LAMBDA byte, rest : byte + 256 * rest, f, 0) = it[1..4]
  BY <1>3, NumberUnfolds
<1>5. it[{}] = 0
  BY <1>4
<1>6. 1..4 = {1, 2, 3, 4} /\ {1, 2, 3, 4} \ {1} = {2, 3, 4} /\ {2, 3, 4} \ {2} = {3, 4}
      /\ {3, 4} \ {3} = {4} /\ {4} \ {4} = {}
  OBVIOUS
<1>7. it[{4}] = d + 256 * 0
  <2>0. {4} \in SUBSET (1..4) /\ {4} # {}
    OBVIOUS
  <2>1. it[{4}] = f[Min({4})] + 256 * it[{4} \ {Min({4})}]
    BY ONLY <1>4, <2>0
  <2>2. Min({4}) = 4 /\ {4} \ {4} = {}
    BY MinOfFour
  <2> QED  BY ONLY <1>2, <1>5, <2>1, <2>2
<1>8. it[{3, 4}] = c + 256 * it[{4}]
  <2>0. {3, 4} \in SUBSET (1..4) /\ {3, 4} # {}
    OBVIOUS
  <2>1. it[{3, 4}] = f[Min({3, 4})] + 256 * it[{3, 4} \ {Min({3, 4})}]
    BY ONLY <1>4, <2>0
  <2> QED  BY <1>2, <1>6, <2>1, MinOfFour
<1>9. it[{2, 3, 4}] = b + 256 * it[{3, 4}]
  <2>0. {2, 3, 4} \in SUBSET (1..4) /\ {2, 3, 4} # {}
    OBVIOUS
  <2>1. it[{2, 3, 4}] = f[Min({2, 3, 4})] + 256 * it[{2, 3, 4} \ {Min({2, 3, 4})}]
    BY ONLY <1>4, <2>0
  <2> QED  BY <1>2, <1>6, <2>1, MinOfFour
<1>10. it[{1, 2, 3, 4}] = a + 256 * it[{2, 3, 4}]
  <2>0. {1, 2, 3, 4} \in SUBSET (1..4) /\ {1, 2, 3, 4} # {}
    OBVIOUS
  <2>1. it[{1, 2, 3, 4}] = f[Min({1, 2, 3, 4})] + 256 * it[{1, 2, 3, 4} \ {Min({1, 2, 3, 4})}]
    BY ONLY <1>4, <2>0
  <2> QED  BY <1>2, <1>6, <2>1, MinOfFour
<1>11. Number(bytes, 5, 8) = it[{1, 2, 3, 4}]
  BY <1>4, <1>6 DEF Number, f
<1> QED  BY <1>7, <1>8, <1>9, <1>10, <1>11

LEMMA IdsAreNumbers == ShareLength \in Nat /\ \A id \in Ids : id \in Nat
BY WireAssumption

LEMMA ConcatAt ==
  ASSUME NEW s, NEW t, s \in Seq(Nat), t \in Seq(Nat)
  PROVE  /\ s \o t \in Seq(Nat) /\ Len(s \o t) = Len(s) + Len(t)
         /\ \A i \in 1..Len(s) : (s \o t)[i] = s[i]
         /\ \A i \in 1..Len(t) : (s \o t)[Len(s) + i] = t[i]
<1>1. ASSUME NEW a \in Seq(Nat), NEW b \in Seq(Nat)
      PROVE  /\ a \o b \in Seq(Nat) /\ Len(a \o b) = Len(a) + Len(b)
             /\ \A i \in 1 .. Len(a) + Len(b) :
                  (a \o b)[i] = IF i <= Len(a) THEN a[i] ELSE b[i - Len(a)]
  BY ConcatProperties
<1>2. Len(s) \in Nat /\ Len(t) \in Nat
  BY LenProperties
<1>3. /\ s \o t \in Seq(Nat) /\ Len(s \o t) = Len(s) + Len(t)
      /\ \A i \in 1 .. Len(s) + Len(t) :
            (s \o t)[i] = IF i <= Len(s) THEN s[i] ELSE t[i - Len(s)]
  BY <1>1
<1>4. \A i \in 1..Len(t) :
        Len(s) + i \in 1 .. Len(s) + Len(t) /\ ~(Len(s) + i <= Len(s)) /\ Len(s) + i - Len(s) = i
  BY <1>2
<1>5. \A i \in 1..Len(s) : i \in 1 .. Len(s) + Len(t) /\ i <= Len(s)
  BY <1>2
<1> QED  BY <1>3, <1>4, <1>5

\* The bytes of the head of a message.
LEMMA PairOfBytes ==
  ASSUME NEW n \in Nat
  PROVE  /\ LE2(n) \in Seq(Nat) /\ Len(LE2(n)) = 2
         /\ LE2(n)[1] = n % 256 /\ LE2(n)[2] = n \div 256
         /\ LE4(n) \in Seq(Nat) /\ Len(LE4(n)) = 4
         /\ LE4(n)[1] = n % 256 /\ LE4(n)[2] = n \div 256 /\ LE4(n)[3] = 0 /\ LE4(n)[4] = 0
<1>1. n % 256 \in Nat /\ n \div 256 \in Nat
  OBVIOUS
<1> DEFINE low == n % 256
           high == n \div 256
<1>2. LE2(n) = <<low, high>>
  BY DEF LE2
<1>3. low \in Nat /\ high \in Nat
  BY <1>1
<1> HIDE DEF low, high
<1>4. LE2(n) \in Seq(Nat) /\ Len(LE2(n)) = 2 /\ LE2(n)[1] = low /\ LE2(n)[2] = high
  BY <1>2, <1>3
<1> DEFINE zeros == <<0, 0>>
<1>0. zeros \in Seq(Nat)
  OBVIOUS
<1>5. Len(zeros) = 2 /\ zeros[1] = 0 /\ zeros[2] = 0
  OBVIOUS
<1>6. LE4(n) = LE2(n) \o zeros
  BY DEF LE4
<1> HIDE DEF zeros
<1> DEFINE pair == LE2(n)
<1> HIDE DEF pair
<1>7. /\ pair \o zeros \in Seq(Nat) /\ Len(pair \o zeros) = Len(pair) + Len(zeros)
      /\ \A i \in 1..Len(pair) : (pair \o zeros)[i] = pair[i]
      /\ \A i \in 1..Len(zeros) : (pair \o zeros)[Len(pair) + i] = zeros[i]
  <2>1. pair \in Seq(Nat)
    BY <1>4 DEF pair
  <2> QED  BY <1>0, <2>1, ConcatAt
<1>8. /\ LE4(n)[1] = low /\ LE4(n)[2] = high /\ LE4(n)[3] = 0 /\ LE4(n)[4] = 0
      /\ LE4(n) \in Seq(Nat) /\ Len(LE4(n)) = 4
  <2>1. 1 \in 1..2 /\ 2 \in 1..2 /\ 2 + 1 = 3 /\ 2 + 2 = 4
    OBVIOUS
  <2>2. Len(pair) = 2 /\ pair[1] = low /\ pair[2] = high /\ LE4(n) = pair \o zeros
    BY <1>4, <1>6 DEF pair
  <2> QED  BY ONLY <1>5, <1>7, <2>1, <2>2
<1> QED  BY <1>4, <1>8 DEF low, high

LEMMA ConcatNothing ==
  ASSUME NEW s \in Seq(Nat)
  PROVE  s \o <<>> = s
BY ConcatEmptySeq

\* from, and the address or the type.
LEMMA AddressedHead ==
  ASSUME NEW m \in DkgMessages, m.kind \in Addressed,
         NEW head, head = Serialize(m).head
  PROVE  /\ head[1] = m.from % 256 /\ head[2] = m.from \div 256
         /\ head[3] = m.about % 256 /\ head[4] = m.about \div 256
         /\ head \in Seq(Nat)
         /\ m.kind # "Share" => Len(head) = 5
         /\ m.kind = "Share" =>
              /\ Len(head) = 9 /\ head[5] = 2
              /\ head[6] = ShareLength % 256 /\ head[7] = ShareLength \div 256 /\ head[8] = 0
<1>1. m.from \in Nat /\ m.about \in Nat /\ ShareLength \in Nat
  <2>1. m.from \in Ids /\ m.about \in Ids
    BY DEF DkgMessages, Addressed
  <2> QED  BY <2>1, IdsAreNumbers
<1> DEFINE address == LE2(m.from) \o LE2(m.about)
           typed == address \o <<TypeByte[m.kind]>>
<1>2. /\ Len(address) = 4
      /\ address[1] = m.from % 256 /\ address[2] = m.from \div 256
      /\ address[3] = m.about % 256 /\ address[4] = m.about \div 256
  <2> DEFINE s == LE2(m.from)
             t == LE2(m.about)
  <2>0. s \in Seq(Nat) /\ t \in Seq(Nat)
    BY <1>1, PairOfBytes
  <2>1. Len(s) = 2 /\ Len(t) = 2
    BY <1>1, PairOfBytes
  <2>2. /\ s[1] = m.from % 256 /\ s[2] = m.from \div 256
        /\ t[1] = m.about % 256 /\ t[2] = m.about \div 256
    BY <1>1, PairOfBytes
  <2> HIDE DEF s, t
  <2>3. /\ s \o t \in Seq(Nat) /\ Len(s \o t) = Len(s) + Len(t)
        /\ \A i \in 1..Len(s) : (s \o t)[i] = s[i]
        /\ \A i \in 1..Len(t) : (s \o t)[Len(s) + i] = t[i]
    BY <2>0, ConcatAt
  <2>4. 1 \in 1..2 /\ 2 \in 1..2 /\ 2 + 1 = 3 /\ 2 + 2 = 4
    OBVIOUS
  <2>5. (s \o t)[1] = s[1] /\ (s \o t)[2] = s[2] /\ (s \o t)[3] = t[1] /\ (s \o t)[4] = t[2]
    BY ONLY <2>1, <2>3, <2>4
  <2>6. address = s \o t
    BY DEF s, t
  <2> QED  BY ONLY <2>1, <2>2, <2>3, <2>4, <2>5, <2>6
<1>8. address \in Seq(Nat)
  <2>1. LE2(m.from) \in Seq(Nat) /\ LE2(m.about) \in Seq(Nat)
    BY <1>1, PairOfBytes
  <2> QED  BY <2>1, ConcatAt
<1> HIDE DEF address
<1>3. TypeByte[m.kind] \in Nat /\ (m.kind = "Share" => TypeByte[m.kind] = 2)
  BY DEF TypeByte, Addressed
<1>4. /\ Len(typed) = 5
      /\ \A i \in 1..4 : typed[i] = address[i]
      /\ typed[5] = TypeByte[m.kind]
  <2> DEFINE b == <<TypeByte[m.kind]>>
  <2>0. b \in Seq(Nat)
    BY <1>3
  <2>1. Len(b) = 1 /\ b[1] = TypeByte[m.kind]
    BY <1>3
  <2> HIDE DEF b
  <2>2. /\ address \o b \in Seq(Nat) /\ Len(address \o b) = Len(address) + Len(b)
        /\ \A i \in 1..Len(address) : (address \o b)[i] = address[i]
        /\ \A i \in 1..Len(b) : (address \o b)[Len(address) + i] = b[i]
    BY <1>8, <2>0, ConcatAt
  <2>3. typed = address \o b
    BY DEF b
  <2> HIDE DEF typed
  <2>4. 1 \in 1..1 /\ 4 + 1 = 5
    OBVIOUS
  <2>5. Len(typed) = 5
    BY ONLY <1>2, <2>1, <2>2, <2>3, <2>4
  <2>6. \A i \in 1..4 : typed[i] = address[i]
    BY ONLY <1>2, <2>2, <2>3
  <2>7. \A i \in 1..1 : typed[4 + i] = b[i]
    BY ONLY <1>2, <2>1, <2>2, <2>3
  <2> QED  BY ONLY <2>1, <2>4, <2>5, <2>6, <2>7
<1>9. typed \in Seq(Nat)
  <2>1. <<TypeByte[m.kind]>> \in Seq(Nat)
    BY <1>3
  <2> QED  BY <1>8, <2>1, ConcatAt
<1>5. head = (typed \o (IF m.kind = "Share" THEN LE4(ShareLength) ELSE <<>>))
  BY DEF Serialize, address
<1> HIDE DEF typed
<1>6. CASE m.kind # "Share"
  <2>1. head = typed
    BY <1>9, <1>5, <1>6, ConcatNothing
  <2>2. \A i \in 1..4 : head[i] = address[i]
    BY <1>4, <2>1
  <2> QED  BY <1>2, <1>4, <1>6, <1>9, <2>1, <2>2
<1>7. CASE m.kind = "Share"
  <2> DEFINE l == LE4(ShareLength)
  <2>0. l \in Seq(Nat)
    BY <1>1, PairOfBytes
  <2>1. /\ Len(l) = 4 /\ l[1] = ShareLength % 256 /\ l[2] = ShareLength \div 256
        /\ l[3] = 0
    BY <1>1, PairOfBytes
  <2>2. head = typed \o l
    BY <1>5, <1>7
  <2> HIDE DEF l
  <2>3. /\ typed \o l \in Seq(Nat) /\ Len(typed \o l) = Len(typed) + Len(l)
        /\ \A i \in 1..Len(typed) : (typed \o l)[i] = typed[i]
        /\ \A i \in 1..Len(l) : (typed \o l)[Len(typed) + i] = l[i]
    BY <1>9, <2>0, ConcatAt
  <2>4. 5 + 4 = 9 /\ 5 + 1 = 6 /\ 5 + 2 = 7 /\ 5 + 3 = 8 /\ 1 \in 1..4 /\ 2 \in 1..4 /\ 3 \in 1..4
        /\ 4 \in 1..4 /\ 5 \in 1..5 /\ \A i \in 1..4 : i \in 1..5
    OBVIOUS
  <2>5. \A i \in 1..4 : head[i] = address[i]
    BY ONLY <1>4, <2>1, <2>2, <2>3, <2>4
  <2>8. \A i \in 1..4 : head[5 + i] = l[i]
    BY ONLY <1>4, <2>1, <2>2, <2>3
  <2>9. head[5] = typed[5] /\ Len(head) = 5 + 4 /\ head \in Seq(Nat)
    BY ONLY <1>4, <2>1, <2>2, <2>3, <2>4
  <2>6. head[5] = 2 /\ head[6] = l[1] /\ head[7] = l[2] /\ head[8] = l[3] /\ Len(head) = 9
        /\ head \in Seq(Nat)
    BY ONLY <1>3, <1>4, <1>7, <2>4, <2>8, <2>9
  <2>7. head[1] = address[1] /\ head[2] = address[2] /\ head[3] = address[3] /\ head[4] = address[4]
    BY ONLY <2>4, <2>5
  <2> QED  BY ONLY <1>2, <1>7, <2>1, <2>6, <2>7
<1> QED  BY <1>6, <1>7

LEMMA OwnHead ==
  ASSUME NEW m \in DkgMessages, m.kind \notin Addressed,
         NEW head, head = Serialize(m).head
  PROVE  /\ head[1] = m.from % 256 /\ head[2] = m.from \div 256 /\ head[3] = TypeByte[m.kind]
         /\ head \in Seq(Nat) /\ Len(head) = 3
<1>1. m.from \in Nat
  <2>1. m.from \in Ids
    BY DEF DkgMessages
  <2> QED  BY <2>1, IdsAreNumbers
<1>2. TypeByte[m.kind] \in Nat
  BY DEF TypeByte, Addressed, DkgMessages
<1> DEFINE s == LE2(m.from)
           b == <<TypeByte[m.kind]>>
<1>9. s \in Seq(Nat)
  BY <1>1, PairOfBytes
<1>10. b \in Seq(Nat)
  BY <1>2
<1>3. Len(s) = 2 /\ s[1] = m.from % 256 /\ s[2] = m.from \div 256
  BY <1>1, PairOfBytes
<1>4. Len(b) = 1 /\ b[1] = TypeByte[m.kind]
  BY <1>2
<1>5. head = ((s \o <<>>) \o b) \o <<>>
  BY DEF Serialize, Addressed
<1> HIDE DEF s, b
<1>6. /\ s \o b \in Seq(Nat) /\ Len(s \o b) = Len(s) + Len(b)
      /\ \A i \in 1..Len(s) : (s \o b)[i] = s[i]
      /\ \A i \in 1..Len(b) : (s \o b)[Len(s) + i] = b[i]
  BY <1>9, <1>10, ConcatAt
<1>7. head = s \o b
  BY <1>9, <1>5, <1>6, ConcatNothing
<1>8. 1 \in 1..1 /\ 1 \in 1..2 /\ 2 \in 1..2 /\ 2 + 1 = 3
  OBVIOUS
<1> QED  BY ONLY <1>3, <1>4, <1>6, <1>7, <1>8

LEMMA BytesRejoin ==
  ASSUME NEW n \in Nat
  PROVE  (n % 256) + 256 * (n \div 256) = n
OBVIOUS

LEMMA HeadNumbers ==
  ASSUME NEW m \in DkgMessages, NEW head, head = Serialize(m).head
  PROVE  /\ Number(head, 1, 2) = m.from
         /\ m.kind \in Addressed => Number(head, 3, 4) = m.about
         /\ m.kind = "Share" => Number(head, 5, 8) = 2 + 256 * ShareLength
<1>1. m.from \in Nat /\ ShareLength \in Nat /\ (m.kind \in Addressed => m.about \in Nat)
  <2>1. m.from \in Ids /\ (m.kind \in Addressed => m.about \in Ids)
    BY DEF DkgMessages, Addressed
  <2> QED  BY <2>1, IdsAreNumbers
<1>2. ASSUME NEW n \in Nat, NEW i \in Nat, head[i] = n % 256, head[i + 1] = n \div 256
      PROVE  Number(head, i, i + 1) = n
  <2>1. n % 256 \in Int /\ n \div 256 \in Int
    OBVIOUS
  <2>2. Number(head, i, i + 1) = head[i] + 256 * head[i + 1]
    BY <1>2, <2>1, NumberOfTwo
  <2>3. (n % 256) + 256 * (n \div 256) = n
    BY BytesRejoin
  <2> QED  BY <1>2, <2>2, <2>3
<1>3. head[1] = m.from % 256 /\ head[2] = m.from \div 256
  BY AddressedHead, OwnHead
<1>4. Number(head, 1, 2) = m.from
  BY <1>1, <1>2, <1>3
<1>5. ASSUME m.kind \in Addressed  PROVE Number(head, 3, 4) = m.about
  <2>1. head[3] = m.about % 256 /\ head[4] = m.about \div 256
    BY <1>5, AddressedHead
  <2> QED  BY <1>1, <1>2, <1>5, <2>1
<1>6. ASSUME m.kind = "Share"  PROVE Number(head, 5, 8) = 2 + 256 * ShareLength
  <2> DEFINE low == ShareLength % 256
             high == ShareLength \div 256
  <2>1. head[5] = 2 /\ head[6] = low /\ head[7] = high /\ head[8] = 0
    BY <1>6, AddressedHead DEF Addressed
  <2>2. low \in Int /\ high \in Int /\ low + 256 * high = ShareLength
    BY <1>1, BytesRejoin
  <2> HIDE DEF low, high
  <2>3. Number(head, 5, 8) = 2 + 256 * (low + 256 * (high + 256 * 0))
    <3>1. ASSUME NEW a \in Int, NEW b \in Int, NEW c \in Int, NEW d \in Int,
                 head[5] = a, head[6] = b, head[7] = c, head[8] = d
          PROVE  Number(head, 5, 8) = a + 256 * (b + 256 * (c + 256 * d))
      BY <3>1, NumberOfFour
    <3>2. 0 \in Int /\ 2 \in Int
      OBVIOUS
    <3> QED  BY <2>1, <2>2, <3>1, <3>2
  <2> QED  BY <2>2, <2>3
<1> QED  BY <1>4, <1>5, <1>6

LEMMA ResultsDiffer ==
  /\ \A x, y : Result(x) = Result(y) => x = y
  /\ \A x : Result(x) # Failed /\ Result(x) # Panic
<1>1. ASSUME NEW x, NEW y, Result(x) = Result(y)  PROVE x = y
  <2>1. Result(x).message = x /\ Result(y).message = y
    BY DEF Result
  <2> QED  BY <1>1, <2>1
<1>2. ASSUME NEW x  PROVE Result(x) # Failed /\ Result(x) # Panic
  <2>1. Result(x).result = "ok" /\ Failed.result = "error" /\ Panic.result = "panic"
    BY DEF Result, Failed, Panic
  <2> QED  BY <2>1
<1> QED  BY <1>1, <1>2

LEMMA MessageParts ==
  /\ \A m \in DkgMessages :
       /\ m = Message(m.kind, m.from, m.about)
       /\ m.kind \notin Addressed => m.about = 0
       /\ m.kind \in {"Commit", "Share", "Complaint", "Ack", "Disqualify", "QualReveal"}
  /\ \A kind, from, about : Message(kind, from, about).kind = kind
<1>1. ASSUME NEW m \in DkgMessages
      PROVE  /\ m = Message(m.kind, m.from, m.about)
             /\ m.kind \notin Addressed => m.about = 0
             /\ m.kind \in {"Commit", "Share", "Complaint", "Ack", "Disqualify", "QualReveal"}
  <2>1. CASE m \in [kind : Addressed, from : Ids, about : Ids]
    BY <2>1 DEF Message, Addressed
  <2>2. CASE m \in [kind : {"Commit", "Ack", "QualReveal"}, from : Ids, about : {0}]
    BY <2>2 DEF Message, Addressed
  <2> QED  BY <2>1, <2>2 DEF DkgMessages
<1>2. \A kind, from, about : Message(kind, from, about).kind = kind
  BY DEF Message
<1> QED  BY <1>1, <1>2

\* What an addressed message is read as depends on the lower byte of the
\* number it is about.
LEMMA AddressedReadsAs ==
  ASSUME NEW m \in DkgMessages, m.kind \in Addressed,
         NEW type, type = m.about % 256,
         NEW read, read = Deserialize(Serialize(m))
  PROVE  /\ type = 3 => read = Result(Message("Complaint", m.from, m.about))
         /\ type = 5 => read = Result(Message("Disqualify", m.from, m.about))
         /\ type = 4 => read = Result(Message("Ack", m.from, 0))
         /\ type \notin {3, 4, 5} => read \in {Panic, Failed}
<1> DEFINE data == Serialize(m)
           head == data.head
<1>1. Number(head, 1, 2) = m.from /\ Number(head, 3, 4) = m.about /\ head[3] = type
  BY HeadNumbers, AddressedHead
<1>2. /\ m.kind # "Share" => Len(head) = 5
      /\ m.kind = "Share" => Len(head) = 9 /\ Number(head, 5, 8) = 2 + 256 * ShareLength
  BY HeadNumbers, AddressedHead
<1>3. /\ data.body = BodyLength[m.kind]
      /\ BodyLength[m.kind] = IF m.kind = "Share" THEN ShareLength ELSE 0
  BY DEF Serialize, BodyLength, Addressed
<1>4. ShareLength \in Nat
  BY IdsAreNumbers
<1> HIDE DEF head, data
<1>10. Bytes(data) = Len(head) + BodyLength[m.kind]
  BY <1>3 DEF Bytes, head
<1>5. Len(head) # 3 /\ Bytes(data) \in Nat /\ Bytes(data) >= 5
  <2>1. CASE m.kind # "Share"
    <3>1. Len(head) = 5 /\ BodyLength[m.kind] = 0
      BY <1>2, <1>3, <2>1
    <3> QED  BY ONLY <1>10, <3>1
  <2>2. CASE m.kind = "Share"
    <3>1. Len(head) = 9 /\ BodyLength[m.kind] = ShareLength
      BY <1>2, <1>3, <2>2
    <3> QED  BY ONLY <1>4, <1>10, <3>1
  <2> QED  BY <2>1, <2>2
<1>6. ASSUME NEW x  PROVE PointAtThree(data, x) \in {Panic, Failed}
  BY <1>5 DEF PointAtThree, head
<1>7. ShareAtEight(data, m.from) = Panic
  <2>1. CASE m.kind # "Share"
    <3>1. Len(head) = 5
      BY <1>2, <2>1
    <3>2. Len(data.head) = 5
      BY <3>1 DEF head
    <3>3. Len(data.head) < 8
      BY ONLY <3>2
    <3> QED  BY <3>3 DEF ShareAtEight
  <2>2. CASE m.kind = "Share"
    <3>1. Bytes(data) = 9 + ShareLength /\ Number(head, 5, 8) = 2 + 256 * ShareLength
      BY <1>2, <1>3, <2>2 DEF Bytes, head
    <3>2. Bytes(data) < 8 + Number(head, 5, 8)
      BY <1>4, <3>1
    <3> QED  BY <3>2 DEF ShareAtEight, head
  <2> QED  BY <2>1, <2>2
<1>8. ~(Bytes(data) < 3) /\ ~(Bytes(data) < 4)
  BY <1>5
<1> DEFINE Addressee(kind) == Result(Message(kind, m.from, m.about))
<1>9. read = CASE type = 1 -> PointAtThree(data, Message("Commit", m.from, 0))
               [] type = 2 -> ShareAtEight(data, m.from)
               [] type = 3 -> Addressee("Complaint")
               [] type = 4 -> Result(Message("Ack", m.from, 0))
               [] type = 5 -> Addressee("Disqualify")
               [] type = 6 -> PointAtThree(data, Message("QualReveal", m.from, 0))
               [] OTHER -> Failed
  BY <1>1, <1>8 DEF Deserialize, head, data
<1> QED  BY <1>6, <1>7, <1>9

\* A message about its sender is read as it was written.
LEMMA OwnReadsAs ==
  ASSUME NEW m \in DkgMessages, m.kind \notin Addressed
  PROVE  Deserialize(Serialize(m)) = Result(m)
<1> DEFINE data == Serialize(m)
           head == data.head
<1>1. Number(head, 1, 2) = m.from /\ head[3] = TypeByte[m.kind] /\ Len(head) = 3
  BY HeadNumbers, OwnHead
<1>2. data.body = BodyLength[m.kind]
  BY DEF Serialize
<1>3. m = Message(m.kind, m.from, 0) /\ m.kind \in {"Commit", "Ack", "QualReveal"}
  BY MessageParts DEF Addressed
<1> HIDE DEF head, data
<1>4. Deserialize(data) = Result(m)
  <2>1. CASE m.kind = "Commit"
    <3>1. data.body = 148 /\ head[3] = 1
      BY <1>1, <1>2, <2>1 DEF BodyLength, TypeByte
    <3>2. Bytes(data) = 151
      BY <1>1, <3>1 DEF Bytes, head
    <3>3. PointAtThree(data, m) = Result(m)
      BY <1>1, <3>2 DEF PointAtThree, head
    <3>4. ~(Bytes(data) < 3)
      BY <3>2
    <3> QED  BY <1>1, <1>3, <2>1, <3>1, <3>3, <3>4 DEF Deserialize, head
  <2>2. CASE m.kind = "QualReveal"
    <3>1. data.body = 96 /\ head[3] = 6
      BY <1>1, <1>2, <2>2 DEF BodyLength, TypeByte
    <3>2. Bytes(data) = 99
      BY <1>1, <3>1 DEF Bytes, head
    <3>3. PointAtThree(data, m) = Result(m)
      BY <1>1, <3>2 DEF PointAtThree, head
    <3>4. ~(Bytes(data) < 3)
      BY <3>2
    <3> QED  BY <1>1, <1>3, <2>2, <3>1, <3>3, <3>4 DEF Deserialize, head
  <2>3. CASE m.kind = "Ack"
    <3>1. data.body = 0 /\ head[3] = 4
      BY <1>1, <1>2, <2>3 DEF BodyLength, TypeByte
    <3>2. Bytes(data) = 3
      BY <1>1, <3>1 DEF Bytes, head
    <3>4. ~(Bytes(data) < 3)
      BY <3>2
    <3> QED  BY <1>1, <1>3, <2>3, <3>1, <3>4 DEF Deserialize, head
  <2> QED  BY <1>3, <2>1, <2>2, <2>3
<1> QED  BY <1>4 DEF data

\* Of what follows the point, only the epoch is looked at.
LEMMA FrostReadsAs ==
  ASSUME NEW q \in [1..2 -> Nat], NEW sigma
  PROVE  FrostFromBytes(FrostToBytes(FrostSignature(sigma, q, 1, <<>>)))
           = Result([signers |-> <<0>>, epoch |-> 1, transcript |-> <<>>])
<1> DEFINE zeros == <<0, 0, 0, 0>>
           ids == FlattenIds(q)
           tail == FrostToBytes(FrostSignature(sigma, q, 1, <<>>))
           Starts(x) == x \in Seq(Nat) /\ 4 <= Len(x) /\ x[1] = 1 /\ x[2] = 0 /\ x[3] = 0
<1>1. Starts(LE4(1))
  <2>1. 1 % 256 = 1 /\ 1 \div 256 = 0
    OBVIOUS
  <2>2. /\ LE4(1) \in Seq(Nat) /\ Len(LE4(1)) = 4
        /\ LE4(1)[1] = 1 % 256 /\ LE4(1)[2] = 1 \div 256 /\ LE4(1)[3] = 0
    BY PairOfBytes
  <2>3. 4 <= Len(LE4(1))
    <3>1. Len(LE4(1)) = 4
      BY <2>2
    <3>2. 4 <= 4
      OBVIOUS
    <3> QED  BY ONLY <3>1, <3>2, Zenon
  <2> QED  BY ONLY <2>1, <2>2, <2>3
<1>2. zeros \in Seq(Nat) /\ <<0>> \in Seq(Nat) /\ <<2>> \in Seq(Nat) /\ <<>> \in Seq(Nat)
  OBVIOUS
<1>3. Len(q) = 2
  <2>1. q \in Seq(Nat)
    <3>1. 2 \in Nat
      OBVIOUS
    <3> QED  BY <3>1, SeqDef
  <2>2. DOMAIN q = 1..2 /\ DOMAIN q = 1..Len(q) /\ Len(q) \in Nat
    BY <2>1, LenProperties
  <2>3. 2 \in 1..Len(q) /\ Len(q) \in Nat
    BY <2>2
  <2>4. Len(q) = 2
    <3>1. Len(q) <= 2
      BY <2>2
    <3> QED  BY <2>3, <3>1
  <2> QED  BY <2>4
<1>4. ids \in Seq(Nat)
  <2>1. ASSUME NEW i \in 1..4
        PROVE  LE2(q[(i + 1) \div 2])[2 - (i % 2)] \in Nat
    <3>1. (i + 1) \div 2 \in 1..2 /\ (2 - (i % 2) = 1 \/ 2 - (i % 2) = 2)
      OBVIOUS
    <3>2. q[(i + 1) \div 2] \in Nat
      BY <3>1
    <3>3. LE2(q[(i + 1) \div 2])[1] \in Nat /\ LE2(q[(i + 1) \div 2])[2] \in Nat
      BY <3>2 DEF LE2
    <3> QED  BY <3>1, <3>3
  <2>2. ids = [i \in 1..4 |-> LE2(q[(i + 1) \div 2])[2 - (i % 2)]]
    BY <1>3 DEF FlattenIds
  <2> HIDE DEF ids
  <2> QED  BY <2>1, <2>2, SeqDef
<1>5. ASSUME NEW x, Starts(x), NEW y, y \in Seq(Nat)
      PROVE  Starts(x \o y)
  <2>1. x \in Seq(Nat) /\ Len(x) \in Nat /\ Len(y) \in Nat
    BY <1>5, LenProperties
  <2>2. /\ x \o y \in Seq(Nat) /\ Len(x \o y) = Len(x) + Len(y)
        /\ \A i \in 1..Len(x) : (x \o y)[i] = x[i]
    BY <1>5, <2>1, ConcatAt
  <2>3. 1 \in 1..Len(x) /\ 2 \in 1..Len(x) /\ 3 \in 1..Len(x)
    BY <1>5, <2>1
  <2>4. (x \o y)[1] = 1 /\ (x \o y)[2] = 0 /\ (x \o y)[3] = 0
    BY <1>5, <2>2, <2>3
  <2>5. 4 <= Len(x \o y)
    BY <1>5, <2>1, <2>2
  <2> QED  BY <2>2, <2>4, <2>5
<1>6. tail = ((((LE4(1) \o zeros) \o <<0>>) \o <<>>) \o <<2>>) \o ids
  <2>1. Len(<<>>) = 0
    OBVIOUS
  <2> QED  BY <1>3, <2>1 DEF FrostToBytes, FrostSignature
<1> HIDE DEF zeros, ids, Starts
<1>7. Starts(tail)
  <2>1. Starts(LE4(1) \o zeros)
    BY <1>1, <1>2, <1>5
  <2>2. Starts((LE4(1) \o zeros) \o <<0>>)
    BY <1>2, <1>5, <2>1
  <2>3. Starts(((LE4(1) \o zeros) \o <<0>>) \o <<>>)
    BY <1>2, <1>5, <2>2
  <2>4. Starts((((LE4(1) \o zeros) \o <<0>>) \o <<>>) \o <<2>>)
    BY <1>2, <1>5, <2>3
  <2> QED  BY <1>4, <1>5, <1>6, <2>4
<1> HIDE DEF tail
<1>8. tail \in Seq(Nat) /\ 4 <= Len(tail) /\ tail[1] = 1 /\ tail[2] = 0 /\ tail[3] = 0
  BY <1>7 DEF Starts
<1>9. Number(tail, 2, 3) = 0
  <2>1. 2 \in Int /\ 2 + 1 = 3 /\ tail[2] \in Int /\ tail[2 + 1] \in Int
    BY <1>8
  <2>2. Number(tail, 2, 2 + 1) = tail[2] + 256 * tail[2 + 1]
    BY ONLY <2>1, NumberOfTwo
  <2> QED  BY <1>8, <2>1, <2>2
<1>10. [i \in 1..tail[1] |-> Number(tail, 2 * i, 2 * i + 1)] = <<0>>
  <2>1. [i \in 1..1 |-> Number(tail, 2 * i, 2 * i + 1)] = [i \in 1..1 |-> 0]
    BY <1>9
  <2>2. [i \in 1..1 |-> 0] = <<0>>
    OBVIOUS
  <2> QED  BY <1>8, <2>1, <2>2
<1>11. ~(tail = <<>> \/ Len(tail) < 1 + 2 * tail[1])
  <2>1. tail # <<>>
    BY <1>8
  <2>2. Len(tail) \in Nat
    BY <1>8, LenProperties
  <2> QED  BY <1>8, <2>1, <2>2
<1>12. FrostFromBytes(tail) = Result([signers |-> <<0>>, epoch |-> 1, transcript |-> <<>>])
  BY <1>10, <1>11 DEF FrostFromBytes
<1> QED  BY <1>12 DEF tail

\* WireKeepsOnly: of the messages of the key generation, those about their
\* sender survive their format, and an addressed one only by the accident of
\* the number it is about; of a FROST signature, only the point does.
THEOREM RefreshWireKeepsOnly == Spec => []WireKeepsOnly
<1>1. ASSUME NEW m \in DkgMessages
      PROVE  Deserialize(Serialize(m)) = Result(m) <=> Survives(m)
  <2>1. CASE m.kind \notin Addressed
    BY <2>1, OwnReadsAs DEF Survives
  <2>2. CASE m.kind \in Addressed
    <3> DEFINE type == m.about % 256
               read == Deserialize(Serialize(m))
    <3>1. /\ type = 3 => read = Result(Message("Complaint", m.from, m.about))
          /\ type = 5 => read = Result(Message("Disqualify", m.from, m.about))
          /\ type = 4 => read = Result(Message("Ack", m.from, 0))
          /\ type \notin {3, 4, 5} => read \in {Panic, Failed}
      BY <2>2, AddressedReadsAs
    <3>2. m = Message(m.kind, m.from, m.about)
      BY MessageParts
    <3>3. \A kind, from, about : Message(kind, from, about) = m => kind = m.kind
      BY MessageParts
    <3>4. Survives(m) <=> (m.kind = "Complaint" /\ type = 3) \/ (m.kind = "Disqualify" /\ type = 5)
      BY <2>2 DEF Survives
    <3> HIDE DEF type, read
    <3>5. CASE type = 3
      <4>1. read = Result(m) <=> m.kind = "Complaint"
        BY <3>1, <3>2, <3>3, <3>5, ResultsDiffer
      <4> QED  BY <3>4, <3>5, <4>1 DEF read
    <3>6. CASE type = 5
      <4>1. read = Result(m) <=> m.kind = "Disqualify"
        BY <3>1, <3>2, <3>3, <3>6, ResultsDiffer
      <4> QED  BY <3>4, <3>6, <4>1 DEF read
    <3>7. CASE type = 4
      <4>1. m.kind # "Ack"
        BY <2>2 DEF Addressed
      <4>2. read # Result(m)
        BY <3>1, <3>3, <3>7, <4>1, ResultsDiffer
      <4> QED  BY <3>4, <3>7, <4>2 DEF read
    <3>8. CASE type \notin {3, 4, 5}
      <4>1. read # Result(m)
        BY <3>1, <3>8, ResultsDiffer
      <4> QED  BY <3>4, <3>8, <4>1 DEF read
    <3> QED  BY <3>5, <3>6, <3>7, <3>8
  <2> QED  BY <2>1, <2>2
<1>2. ASSUME NEW m \in DkgMessages, m.kind = "Share"
      PROVE  Deserialize(Serialize(m))
               \in {Panic, Failed, Result([m EXCEPT !.kind = "Complaint"]),
                    Result(Message("Ack", m.from, 0)), Result([m EXCEPT !.kind = "Disqualify"])}
  <2> DEFINE type == m.about % 256
             read == Deserialize(Serialize(m))
  <2>1. /\ type = 3 => read = Result(Message("Complaint", m.from, m.about))
        /\ type = 5 => read = Result(Message("Disqualify", m.from, m.about))
        /\ type = 4 => read = Result(Message("Ack", m.from, 0))
        /\ type \notin {3, 4, 5} => read \in {Panic, Failed}
    BY <1>2, AddressedReadsAs DEF Addressed
  <2>2. /\ [m EXCEPT !.kind = "Complaint"] = Message("Complaint", m.from, m.about)
        /\ [m EXCEPT !.kind = "Disqualify"] = Message("Disqualify", m.from, m.about)
    <3>1. m = [kind |-> m.kind, from |-> m.from, about |-> m.about]
      BY MessageParts DEF Message
    <3> QED  BY <3>1 DEF Message
  <2> HIDE DEF type, read
  <2>3. read \in {Panic, Failed, Result([m EXCEPT !.kind = "Complaint"]),
                  Result(Message("Ack", m.from, 0)), Result([m EXCEPT !.kind = "Disqualify"])}
    BY <2>1, <2>2
  <2> QED  BY <2>3 DEF read
<1>3. ASSUME SharingInv, NEW q \in Quorums, NEW sig \in FrostSignatures(q)
      PROVE  FrostFromBytes(FrostToBytes(sig))
               = Result([signers |-> <<0>>, epoch |-> 1, transcript |-> <<>>])
  <2>1. PICK sigma : FrostSignatures(q) = {FrostSignature(sigma, q, 1, <<>>)}
    BY <1>3, FrostSessionSignature
  <2>2. sig = FrostSignature(sigma, q, 1, <<>>)
    BY <1>3, <2>1
  <2>3. q \in [1..2 -> Nat]
    BY QuorumIds, Constants
  <2> QED  BY <2>2, <2>3, FrostReadsAs
<1>4. MessagesSurvive /\ SharesNeverArrive
  BY <1>1, <1>2 DEF MessagesSurvive, SharesNeverArrive
<1>5. (Generated => SharingInv) => WireKeepsOnly
  BY <1>3, <1>4 DEF WireKeepsOnly
<1> QED  BY <1>5, SharingAlways, PTL
=============================================================================
