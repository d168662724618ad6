------------------------ MODULE SecretSharingProofs -------------------------
(***************************************************************************)
(* The algebra of SecretSharing, for every prime order Q: scalars are a    *)
(* field, sums over finite sets are linear, two shares interpolate at      *)
(* zero, points are determined by their coefficients, and a pairing check  *)
(* compares exponents.                                                     *)
(*                                                                         *)
(* The library's induction theorems take a predicate, which the provers    *)
(* cannot be given; SetInduction and NumberInduction state the same of a   *)
(* set of numbers or of subsets, and follow from well-foundedness.         *)
(***************************************************************************)
EXTENDS SecretSharing, FiniteSetTheorems, WellFoundedInduction, TLAPS

-----------------------------------------------------------------------------
(* Residues.  A value of Add, Mul, Sub or Negate is the residue of an      *)
(* integer, and residues may be taken at any time.                         *)

LEMMA QPositive == Q \in Nat /\ Q > 1 /\ Q \in Int /\ Q # 0
BY FieldAssumption

LEMMA Residue ==
  ASSUME NEW a \in Int
  PROVE  a % Q \in Scalars /\ a \div Q \in Int /\ a = (a \div Q) * Q + (a % Q)
BY QPositive DEF Scalars

LEMMA ResidueUnique ==
  ASSUME NEW k \in Int, NEW r \in Scalars
  PROVE  (k * Q + r) % Q = r
BY QPositive DEF Scalars

LEMMA ScalarsAreIntegers ==
  ASSUME NEW a \in Scalars
  PROVE  a \in Int /\ a \in Nat /\ a >= 0 /\ a < Q /\ a % Q = a
BY QPositive DEF Scalars

LEMMA Shift ==
  ASSUME NEW a \in Int, NEW k \in Int
  PROVE  (a + k * Q) % Q = a % Q
<1>1. a + k * Q = (a \div Q + k) * Q + (a % Q)
  BY Residue, QPositive
<1>2. a \div Q + k \in Int /\ a % Q \in Scalars
  BY Residue
<1> QED
  BY <1>1, <1>2, ResidueUnique

LEMMA ResidueInSum ==
  ASSUME NEW a \in Int, NEW b \in Int
  PROVE  /\ ((a % Q) + b) % Q = (a + b) % Q
         /\ (b + (a % Q)) % Q = (a + b) % Q
         /\ (b - (a % Q)) % Q = (b - a) % Q
         /\ ((a % Q) - b) % Q = (a - b) % Q
<1> DEFINE k == a \div Q
<1>1. k \in Int /\ a % Q \in Int /\ a = k * Q + (a % Q)
  BY Residue, ScalarsAreIntegers
<1> HIDE DEF k
<1>2. (a % Q) + b = (a + b) + (-k) * Q /\ b - (a % Q) = (b - a) + k * Q
      /\ (a % Q) - b = (a - b) + (-k) * Q /\ b + (a % Q) = (a + b) + (-k) * Q
  BY <1>1, QPositive
<1> QED
  BY <1>1, <1>2, Shift

LEMMA ResidueInProduct ==
  ASSUME NEW a \in Int, NEW b \in Int
  PROVE  /\ ((a % Q) * b) % Q = (a * b) % Q
         /\ (b * (a % Q)) % Q = (a * b) % Q
<1> DEFINE k == a \div Q
           r == a % Q
<1>1. k \in Int /\ r \in Int /\ a = k * Q + r
  BY Residue, ScalarsAreIntegers
<1> HIDE DEF k, r
<1>2. r = a - k * Q
  BY <1>1, QPositive
<1>3. r * b = (a - k * Q) * b
  BY <1>2
<1>4. (a - k * Q) * b = a * b + (-(k * b)) * Q
  BY <1>1, QPositive
<1>5. (r * b) % Q = (a * b) % Q
  BY <1>1, <1>3, <1>4, Shift
<1>6. r * b = b * r
  BY <1>1
<1> QED
  BY <1>5, <1>6 DEF r
-----------------------------------------------------------------------------
(* The scalars are a commutative ring. *)

LEMMA ScalarTypes ==
  /\ 0 \in Scalars /\ 1 \in Scalars
  /\ \A a, b \in Int :
       Add(a, b) \in Scalars /\ Mul(a, b) \in Scalars /\ Sub(a, b) \in Scalars
       /\ Negate(a) \in Scalars /\ FromU64(a) \in Scalars
  /\ \A a, b \in Scalars :
       Add(a, b) \in Scalars /\ Mul(a, b) \in Scalars /\ Sub(a, b) \in Scalars
       /\ Negate(a) \in Scalars /\ FromU64(a) = a
<1>1. 0 \in Scalars /\ 1 \in Scalars
  BY QPositive DEF Scalars
<1>2. \A a, b \in Int : a + b \in Int /\ a * b \in Int /\ a - b \in Int /\ -a \in Int
  OBVIOUS
<1> QED
  BY <1>1, <1>2, Residue, ScalarsAreIntegers DEF Add, Mul, Sub, Negate, FromU64

LEMMA AddLaws ==
  /\ \A a, b \in Int : Add(a, b) = Add(b, a)
  /\ \A a, b, c \in Int : Add(Add(a, b), c) = Add(a, Add(b, c))
  /\ \A a \in Scalars : Add(a, 0) = a /\ Add(0, a) = a /\ Add(a, Negate(a)) = 0
  /\ \A a, b \in Int : Sub(a, b) = Add(a, Negate(b))
<1>1. ASSUME NEW a \in Int, NEW b \in Int PROVE Add(a, b) = Add(b, a)
  BY DEF Add
<1>2. ASSUME NEW a \in Int, NEW b \in Int, NEW c \in Int
      PROVE  Add(Add(a, b), c) = Add(a, Add(b, c))
  <2>1. Add(Add(a, b), c) = ((a + b) + c) % Q
    BY ResidueInSum, a + b \in Int DEF Add
  <2>2. Add(a, Add(b, c)) = ((b + c) + a) % Q
    BY ResidueInSum, b + c \in Int DEF Add
  <2>3. (a + b) + c = (b + c) + a
    OBVIOUS
  <2> QED
    BY <2>1, <2>2, <2>3
<1>3. ASSUME NEW a \in Scalars PROVE Add(a, 0) = a /\ Add(0, a) = a /\ Add(a, Negate(a)) = 0
  <2>1. a \in Int /\ a % Q = a /\ a + 0 = a /\ 0 + a = a
    BY ScalarsAreIntegers
  <2>2. Add(a, Negate(a)) = (-a + a) % Q
    BY <2>1, ResidueInSum, -a \in Int DEF Add, Negate
  <2>3. -a + a = 0 /\ 0 % Q = 0
    BY <2>1, QPositive
  <2> QED
    BY <2>1, <2>2, <2>3 DEF Add
<1>4. ASSUME NEW a \in Int, NEW b \in Int PROVE Sub(a, b) = Add(a, Negate(b))
  <2>1. Add(a, Negate(b)) = (-b + a) % Q
    BY ResidueInSum, -b \in Int DEF Add, Negate
  <2> QED
    BY <2>1 DEF Sub
<1> QED
  BY <1>1, <1>2, <1>3, <1>4

LEMMA MulLaws ==
  /\ \A a, b \in Int : Mul(a, b) = Mul(b, a)
  /\ \A a, b, c \in Int : Mul(Mul(a, b), c) = Mul(a, Mul(b, c))
  /\ \A a \in Scalars : Mul(a, 1) = a /\ Mul(1, a) = a /\ Mul(a, 0) = 0 /\ Mul(0, a) = 0
  /\ \A a, b, c \in Int : Mul(a, Add(b, c)) = Add(Mul(a, b), Mul(a, c))
                          /\ Mul(Add(b, c), a) = Add(Mul(b, a), Mul(c, a))
<1>1. ASSUME NEW a \in Int, NEW b \in Int PROVE Mul(a, b) = Mul(b, a)
  BY DEF Mul
<1>2. ASSUME NEW a \in Int, NEW b \in Int, NEW c \in Int
      PROVE  Mul(Mul(a, b), c) = Mul(a, Mul(b, c))
  <2>1. Mul(Mul(a, b), c) = ((a * b) * c) % Q
    BY ResidueInProduct, a * b \in Int DEF Mul
  <2>2. Mul(a, Mul(b, c)) = ((b * c) * a) % Q
    BY ResidueInProduct, b * c \in Int DEF Mul
  <2>3. (a * b) * c = (b * c) * a
    OBVIOUS
  <2> QED
    BY <2>1, <2>2, <2>3
<1>3. ASSUME NEW a \in Scalars
      PROVE  Mul(a, 1) = a /\ Mul(1, a) = a /\ Mul(a, 0) = 0 /\ Mul(0, a) = 0
  <2>1. a \in Int /\ a % Q = a /\ a * 1 = a /\ 1 * a = a /\ a * 0 = 0 /\ 0 * a = 0
    BY ScalarsAreIntegers
  <2>2. 0 % Q = 0
    BY QPositive
  <2> QED
    BY <2>1, <2>2 DEF Mul
<1>4. ASSUME NEW a \in Int, NEW b \in Int, NEW c \in Int
      PROVE  Mul(a, Add(b, c)) = Add(Mul(a, b), Mul(a, c))
  <2>1. Mul(a, Add(b, c)) = ((b + c) * a) % Q
    BY ResidueInProduct, b + c \in Int DEF Mul, Add
  <2>2. Add(Mul(a, b), Mul(a, c)) = (a * b + Mul(a, c)) % Q
    BY ResidueInSum, Residue, ScalarsAreIntegers, a * b \in Int, a * c \in Int DEF Mul, Add
  <2>3. (a * b + Mul(a, c)) % Q = (a * c + a * b) % Q
    BY ResidueInSum, a * b \in Int, a * c \in Int DEF Mul
  <2>4. (b + c) * a = a * c + a * b
    OBVIOUS
  <2> QED
    BY <2>1, <2>2, <2>3, <2>4
<1>5. ASSUME NEW a \in Int, NEW b \in Int, NEW c \in Int
      PROVE  Mul(Add(b, c), a) = Add(Mul(b, a), Mul(c, a))
  <2>1. Add(b, c) \in Int
    BY ScalarTypes, ScalarsAreIntegers
  <2> QED
    BY <1>1, <1>4, <2>1
<1> QED
  BY <1>1, <1>2, <1>3, <1>4, <1>5

-----------------------------------------------------------------------------
(* Induction over numbers and finite sets, stated for a set.               *)

LEMMA LeastNumber ==
  ASSUME NEW W, W \subseteq Nat, W # {}
  PROVE  \E n \in W : \A m \in W : n <= m
<1>1. PICK n \in W : \A m \in W : ~(<<m, n>> \in OpToRel(<, Nat))
  BY NatLessThanWellFounded, WFMin
<1>2. \A m \in W : ~(m < n)
  BY <1>1 DEF OpToRel
<1> QED
  BY <1>2

LEMMA SetInduction ==
  ASSUME NEW S, IsFiniteSet(S), NEW W, {} \in W,
         \A T1 \in SUBSET S : T1 # {} /\ (\A x \in T1 : T1 \ {x} \in W) => T1 \in W
  PROVE  S \in W
<1> SUFFICES ASSUME S \notin W PROVE FALSE
  OBVIOUS
<1> DEFINE B == (SUBSET S) \ W
<1>1. B \subseteq FiniteSubsetsOf(S) /\ B # {}
  BY FS_FiniteSubsetsOfFinite
<1>2. IsWellFoundedOn(StrictSubsetOrdering(S), FiniteSubsetsOf(S))
  BY FS_StrictSubsetOrderingWellFounded
<1>3. PICK U \in B : \A V \in B : ~(<<V, U>> \in StrictSubsetOrdering(S))
  <2> HIDE DEF B
  <2> QED
    BY <1>1, <1>2, WFMin
<1>4. U \in SUBSET S /\ U # {} /\ U \notin W
  OBVIOUS
<1>5. PICK x \in U : U \ {x} \in B
  BY <1>4
<1>6. ~(<<U \ {x}, U>> \in StrictSubsetOrdering(S))
  BY <1>3, <1>5
<1>7. U \ {x} \subseteq S /\ U \subseteq S /\ U \ {x} \subseteq U /\ U \ {x} # U
  BY <1>4
<1> QED
  BY <1>6, <1>7 DEF StrictSubsetOrdering

LEMMA NumberInduction ==
  ASSUME NEW W, 0 \in W, \A n \in Nat : n \in W => n + 1 \in W
  PROVE  Nat \subseteq W
<1> SUFFICES ASSUME Nat \ W # {} PROVE FALSE
  OBVIOUS
<1>1. PICK n \in Nat \ W : \A m \in Nat \ W : n <= m
  BY LeastNumber
<1>2. n - 1 \in Nat /\ n - 1 \in W
  BY <1>1
<1> QED
  BY <1>2

-----------------------------------------------------------------------------
(* The scalars are a field. *)

\* The order is prime: no product of two scalars other than zero is zero.
LEMMA NoZeroDivisors ==
  ASSUME NEW a \in Scalars, NEW b \in Scalars, Mul(a, b) = 0
  PROVE  a = 0 \/ b = 0
<1> SUFFICES ASSUME a # 0, b # 0 PROVE FALSE
  OBVIOUS
<1> DEFINE D == {d \in Nat \ {0} : (a * d) % Q = 0}
<1>1. a \in Nat /\ b \in Nat /\ a < Q /\ b < Q /\ a % Q = a
  BY ScalarsAreIntegers
<1>2. b \in D
  BY <1>1 DEF Mul
<1>3. PICK d \in D : \A m \in D : d <= m
  BY <1>2, LeastNumber
<1>4. d \in Nat /\ d # 0 /\ d < Q /\ (a * d) % Q = 0
  <2>1. d <= b
    BY <1>2, <1>3
  <2>2. d \in Nat /\ d # 0 /\ (a * d) % Q = 0
    BY <1>3
  <2> QED
    BY <1>1, <2>1, <2>2, QPositive
<1>5. d # 1
  BY <1>1, <1>4
<1> DEFINE m == (a * d) \div Q
           k == Q \div d
           r == Q % d
<1>6. m \in Int /\ a * d = m * Q
  <2>1. a * d \in Int
    BY <1>1, <1>4
  <2>2. \A e \in Int : e % Q = 0 => e \div Q \in Int /\ e = (e \div Q) * Q
    BY Residue, QPositive
  <2> QED
    BY <1>4, <2>1, <2>2
<1>7. k \in Nat /\ r \in Nat /\ r < d /\ Q = k * d + r
  BY <1>4, QPositive
<1> HIDE DEF m, k, r
<1>8. r = 0
  <2>1. a * r = a * Q - k * (a * d)
    BY <1>1, <1>4, <1>7, QPositive
  <2>2. k * (a * d) = (k * m) * Q
    BY <1>6, <1>7, QPositive
  <2>3. a * r = 0 + (a - k * m) * Q
    BY <1>1, <1>6, <1>7, <2>1, <2>2, QPositive
  <2>4. (a * r) % Q = 0 % Q
    <3>1. a - k * m \in Int
      BY <1>1, <1>6, <1>7
    <3> QED
      BY <2>3, <3>1, Shift
  <2>5. (a * r) % Q = 0
    BY <2>4, QPositive
  <2> QED
    BY <1>3, <1>7, <2>5
<1>9. k * d = Q
  BY <1>4, <1>7, <1>8
<1>10. k > 1
  <2>1. k # 0 /\ k # 1
    BY <1>4, <1>9, QPositive
  <2> QED
    BY <2>1, <1>7
<1>11. k < Q
  <2>1. d >= 2
    BY <1>4, <1>5
  <2>2. k * d >= k * 2
    BY <1>7, <1>4, <2>1
  <2> QED
    BY <1>7, <1>9, <1>10, <2>2, QPositive
<1>12. k \in 2..Q-1 /\ d \in 2..Q-1
  BY <1>4, <1>5, <1>7, <1>10, <1>11, QPositive
<1> QED
  BY <1>9, <1>12, FieldAssumption

LEMMA Cancel ==
  ASSUME NEW a \in Scalars, NEW b \in Scalars, NEW c \in Scalars, a # 0, Mul(a, b) = Mul(a, c)
  PROVE  b = c
<1>1. a \in Int /\ b \in Int /\ c \in Int /\ Negate(c) \in Scalars /\ Negate(c) \in Int
  BY ScalarsAreIntegers, ScalarTypes
<1>2. Mul(a, Add(b, Negate(c))) = Add(Mul(a, b), Mul(a, Negate(c)))
  BY <1>1, MulLaws
<1>3. Add(Mul(a, c), Mul(a, Negate(c))) = Mul(a, Add(c, Negate(c)))
  BY <1>1, MulLaws
<1>4. Mul(a, Add(b, Negate(c))) = 0
  BY <1>2, <1>3, AddLaws, MulLaws
<1>5. Add(b, Negate(c)) = 0
  BY <1>1, <1>4, NoZeroDivisors, ScalarTypes
<1>6. Add(Add(b, Negate(c)), c) = Add(b, Add(c, Negate(c)))
  BY <1>1, AddLaws
<1> QED
  BY <1>5, <1>6, AddLaws, <1>1

\* Every scalar but zero has an inverse: multiplication by it is injective, so
\* that it reaches one.  Invert fails on zero alone (curves.rs).
THEOREM Inverses ==
  ASSUME NEW a \in Scalars, a # 0
  PROVE  /\ Invert(a) # {}
         /\ Unwrap(Invert(a)) \in Scalars
         /\ Mul(a, Unwrap(Invert(a))) = 1
<1> DEFINE f == [b \in Scalars |-> Mul(a, b)]
<1>1. f \in Injection(Scalars, Scalars)
  BY Cancel, ScalarTypes DEF Injection, IsInjective
<1>2. IsFiniteSet(Scalars)
  BY FS_Interval, QPositive DEF Scalars
<1>3. f \in Surjection(Scalars, Scalars)
  <2> HIDE DEF f
  <2> QED
    BY <1>1, <1>2, FS_Injection
<1>4. \E b \in Scalars : f[b] = 1
  BY <1>3, ScalarTypes DEF Surjection
<1>5. Invert(a) # {}
  BY <1>4 DEF Invert
<1> QED
  BY <1>5 DEF Unwrap, Invert

-----------------------------------------------------------------------------
(* Folds.  A fold over a finite set is defined by recursion on the set;    *)
(* the recursion has a solution.                                           *)

\* pick chooses from every set that is not empty.
Picks(pick, S) == \A s \in SUBSET S : s # {} => pick[s] \in s

StaysIn(step, S, V) == \A x \in S, v \in V : step[<<x, v>>] \in V

Recursion(it, S, base, pick, step) ==
  \A s \in SUBSET S :
    it[s] = IF s = {} THEN base ELSE step[<<pick[s], it[s \ {pick[s]}]>>]

LEMMA FoldExists ==
  ASSUME NEW S, IsFiniteSet(S), NEW V, NEW base \in V,
         NEW pick, Picks(pick, S), NEW step, StaysIn(step, S, V)
  PROVE  \E it \in [SUBSET S -> V] : Recursion(it, S, base, pick, step)
<1> USE DEF Picks, StaysIn, Recursion
<1> DEFINE Body(it, s) == IF s = {} THEN base ELSE step[<<pick[s], it[s \ {pick[s]}]>>]
           W == {n \in Nat : \E it \in [SUBSET S -> V] :
                    \A s \in SUBSET S : Cardinality(s) <= n => it[s] = Body(it, s)}
<1>1. \A s \in SUBSET S : IsFiniteSet(s) /\ Cardinality(s) \in Nat
                           /\ Cardinality(s) <= Cardinality(S)
  BY FS_Subset, FS_CardinalityType
<1>2. 0 \in W
  <2> DEFINE it == [s \in SUBSET S |-> base]
  <2>1. \A s \in SUBSET S : Cardinality(s) <= 0 => s = {}
    BY <1>1, FS_EmptySet
  <2>2. it \in [SUBSET S -> V] /\ \A s \in SUBSET S : Cardinality(s) <= 0 => it[s] = Body(it, s)
    BY <2>1
  <2> HIDE DEF it, Body
  <2> QED
    BY <2>2
<1>3. ASSUME NEW n \in Nat, n \in W PROVE n + 1 \in W
  <2>1. PICK it \in [SUBSET S -> V] :
          \A s \in SUBSET S : Cardinality(s) <= n => it[s] = Body(it, s)
    BY <1>3
  <2> DEFINE new == [s \in SUBSET S |-> Body(it, s)]
  <2>2. \A s \in SUBSET S : Body(it, s) \in V
    <3> TAKE s \in SUBSET S
    <3>1. CASE s = {}
      BY <3>1
    <3>2. CASE s # {}
      <4>1. pick[s] \in S /\ s \ {pick[s]} \in SUBSET S
        BY <3>2
      <4>2. it[s \ {pick[s]}] \in V
        BY <4>1
      <4> QED
        BY <3>2, <4>1, <4>2
    <3> QED
      BY <3>1, <3>2
  <2>3. new \in [SUBSET S -> V]
    BY <2>2
  <2>4. ASSUME NEW s \in SUBSET S, Cardinality(s) <= n + 1 PROVE new[s] = Body(new, s)
    <3>1. CASE s = {}
      BY <3>1
    <3>2. CASE s # {}
      <4>1. pick[s] \in s /\ s \ {pick[s]} \in SUBSET S
        BY <3>2
      <4>2. Cardinality(s \ {pick[s]}) <= n
        BY <1>1, <2>4, <4>1, FS_RemoveElement
      <4>3. it[s \ {pick[s]}] = new[s \ {pick[s]}]
        BY <2>1, <4>1, <4>2
      <4> QED
        BY <3>2, <4>3
    <3> QED
      BY <3>1, <3>2
  <2> HIDE DEF new, Body
  <2> QED
    BY <2>3, <2>4
<1>4. Cardinality(S) \in W
  <2> HIDE DEF W
  <2> QED
    BY <1>1, <1>2, <1>3, NumberInduction
<1>5. PICK it \in [SUBSET S -> V] :
        \A s \in SUBSET S : Cardinality(s) <= Cardinality(S) => it[s] = Body(it, s)
  BY <1>4
<1> QED
  BY <1>1, <1>5

\* A fold is determined by its recursion.
LEMMA FoldUnique ==
  ASSUME NEW S, IsFiniteSet(S), NEW base, NEW pick, Picks(pick, S), NEW step, NEW f, NEW g,
         Recursion(f, S, base, pick, step), Recursion(g, S, base, pick, step)
  PROVE  f[S] = g[S]
<1> USE DEF Picks, Recursion
<1> DEFINE W == {s \in SUBSET S : f[s] = g[s]}
<1>1. {} \in W
  OBVIOUS
<1>2. \A s \in SUBSET S : s # {} /\ (\A x \in s : s \ {x} \in W) => s \in W
  OBVIOUS
<1>3. S \in W
  <2> HIDE DEF W
  <2> QED
    BY <1>1, <1>2, SetInduction
<1> QED
  BY <1>3

-----------------------------------------------------------------------------
(* Sums of scalars. *)

SumOn(f, S) == FoldFunctionOnSet(Add, 0, f, S)

SumBody(f, S, it) ==
  [s \in SUBSET S |->
     IF s = {} THEN 0
     ELSE Add(f[CHOOSE x \in s : TRUE], it[s \ {CHOOSE x \in s : TRUE}])]

SumIter(f, S) == CHOOSE it : it = SumBody(f, S, it)

LEMMA SumIsIter == \A f, S : SumOn(f, S) = SumIter(f, S)[S]
BY DEF SumOn, SumIter, SumBody, FoldFunctionOnSet, MapThenFoldSet

LEMMA SumIterUnfold ==
  ASSUME NEW S, IsFiniteSet(S), NEW f, \A x \in S : f[x] \in Scalars
  PROVE  SumIter(f, S) = SumBody(f, S, SumIter(f, S)) /\ SumIter(f, S) \in [SUBSET S -> Scalars]
<1> DEFINE pick == [s \in SUBSET S |-> CHOOSE x \in s : TRUE]
           step == [p \in S \X Scalars |-> Add(f[p[1]], p[2])]
<1>1. Picks(pick, S)
  BY DEF Picks
<1>2. StaysIn(step, S, Scalars)
  BY ScalarTypes DEF StaysIn
<1>3. PICK it \in [SUBSET S -> Scalars] : Recursion(it, S, 0, pick, step)
  <2>1. 0 \in Scalars
    BY ScalarTypes
  <2> HIDE DEF pick, step
  <2> QED
    BY <1>1, <1>2, <2>1, FoldExists
<1>4. ASSUME NEW s \in SUBSET S, s # {}
      PROVE  step[<<pick[s], it[s \ {pick[s]}]>>]
               = Add(f[CHOOSE x \in s : TRUE], it[s \ {CHOOSE x \in s : TRUE}])
  <2>1. pick[s] \in S /\ pick[s] = CHOOSE x \in s : TRUE
    BY <1>1, <1>4 DEF Picks
  <2>2. s \ {pick[s]} \in SUBSET S
    OBVIOUS
  <2>3. it[s \ {pick[s]}] \in Scalars
    BY <1>3, <2>2
  <2> HIDE DEF pick
  <2> QED
    BY <2>1, <2>3
<1>5. it = SumBody(f, S, it)
  BY <1>3, <1>4 DEF SumBody, Recursion
<1>6. SumIter(f, S) = SumBody(f, S, SumIter(f, S))
  BY <1>5 DEF SumIter
<1> DEFINE W == {s \in SUBSET S : SumIter(f, S)[s] \in Scalars}
<1>7. {} \in W
  BY <1>6, ScalarTypes DEF SumBody
<1>8. ASSUME NEW s \in SUBSET S, s # {}, \A x \in s : s \ {x} \in W
      PROVE  s \in W
  <2> DEFINE x == CHOOSE x \in s : TRUE
  <2>1. x \in s /\ s \ {x} \in W
    BY <1>8
  <2>2. SumIter(f, S)[s] = Add(f[x], SumIter(f, S)[s \ {x}])
    BY <1>6, <1>8 DEF SumBody
  <2> HIDE DEF x
  <2> QED
    BY <2>1, <2>2, ScalarTypes
<1>9. \A T1 \in SUBSET S : T1 \in W
  <2> TAKE T1 \in SUBSET S
  <2>1. IsFiniteSet(T1)
    BY FS_Subset
  <2> HIDE DEF W
  <2> QED
    BY <1>7, <1>8, <2>1, SetInduction
<1> QED
  BY <1>6, <1>9 DEF SumBody

\* f gives a scalar at every element of S.
ScalarsOn(f, S) == \A x \in S : f[x] \in Scalars

LEMMA SumIterFacts ==
  ASSUME NEW S, IsFiniteSet(S), NEW f, ScalarsOn(f, S)
  PROVE  /\ SumIter(f, S)[{}] = 0
         /\ \A s \in SUBSET S : SumIter(f, S)[s] \in Scalars
         /\ \A s \in SUBSET S : s # {} =>
              SumIter(f, S)[s]
                = Add(f[CHOOSE x \in s : TRUE], SumIter(f, S)[s \ {CHOOSE x \in s : TRUE}])
<1> DEFINE it == SumIter(f, S)
<1>1. it = SumBody(f, S, it) /\ it \in [SUBSET S -> Scalars]
  BY SumIterUnfold DEF ScalarsOn
<1> HIDE DEF it
<1>2. \A s \in SUBSET S :
        it[s] = IF s = {} THEN 0
                ELSE Add(f[CHOOSE x \in s : TRUE], it[s \ {CHOOSE x \in s : TRUE}])
  BY <1>1 DEF SumBody
<1>3. {} \in SUBSET S
  OBVIOUS
<1> QED
  BY <1>1, <1>2, <1>3 DEF it

\* The recursion over the subsets of S passes through the sums over them.
LEMMA SumIterIsSum ==
  ASSUME NEW S, IsFiniteSet(S), NEW f, ScalarsOn(f, S), NEW U \in SUBSET S
  PROVE  SumIter(f, S)[U] = SumOn(f, U)
<1> DEFINE W == {s \in SUBSET U : SumIter(f, S)[s] = SumIter(f, U)[s]}
<1>1. IsFiniteSet(U) /\ ScalarsOn(f, U)
  BY FS_Subset DEF ScalarsOn
<1>2. {} \in W
  BY <1>1, SumIterFacts
<1>3. ASSUME NEW s \in SUBSET U, s # {}, \A x \in s : s \ {x} \in W
      PROVE  s \in W
  <2> DEFINE x == CHOOSE x \in s : TRUE
  <2>1. x \in s /\ s \ {x} \in W
    BY <1>3
  <2>2. SumIter(f, S)[s] = Add(f[x], SumIter(f, S)[s \ {x}])
    BY <1>3, SumIterFacts
  <2>3. SumIter(f, U)[s] = Add(f[x], SumIter(f, U)[s \ {x}])
    BY <1>1, <1>3, SumIterFacts
  <2> HIDE DEF x
  <2> QED
    BY <2>1, <2>2, <2>3
<1>4. U \in W
  <2> HIDE DEF W
  <2> QED
    BY <1>1, <1>2, <1>3, SetInduction
<1> QED
  BY <1>4, SumIsIter

LEMMA SumOverEmpty == \A f : SumOn(f, {}) = 0
<1> TAKE f
<1>1. IsFiniteSet({}) /\ ScalarsOn(f, {})
  BY FS_EmptySet DEF ScalarsOn
<1> QED
  BY <1>1, SumIterFacts, SumIsIter

LEMMA SumType ==
  ASSUME NEW S, IsFiniteSet(S), NEW f, ScalarsOn(f, S)
  PROVE  SumOn(f, S) \in Scalars
BY SumIterFacts, SumIsIter

\* The sum does not depend on the order: any element can be taken out.
LEMMA SumSplit ==
  ASSUME NEW S, IsFiniteSet(S), NEW f, ScalarsOn(f, S), NEW y \in S
  PROVE  SumOn(f, S) = Add(f[y], SumOn(f, S \ {y}))
<1> DEFINE W == {s \in SUBSET S : \A z \in s : SumOn(f, s) = Add(f[z], SumOn(f, s \ {z}))}
<1>1. ASSUME NEW s \in SUBSET S PROVE IsFiniteSet(s) /\ ScalarsOn(f, s) /\ SumOn(f, s) \in Scalars
  BY FS_Subset, SumType DEF ScalarsOn
<1>2. {} \in W
  OBVIOUS
<1>3. ASSUME NEW s \in SUBSET S, s # {}, \A x \in s : s \ {x} \in W
      PROVE  s \in W
  <2> DEFINE x == CHOOSE x \in s : TRUE
  <2>1. x \in s /\ s \ {x} \in W
    BY <1>3
  <2>2. SumOn(f, s) = Add(f[x], SumOn(f, s \ {x}))
    <3>1. SumIter(f, S)[s] = Add(f[x], SumIter(f, S)[s \ {x}])
      BY <1>3, SumIterFacts
    <3>2. s \ {x} \in SUBSET S
      OBVIOUS
    <3> HIDE DEF x
    <3> QED
      BY <3>1, <3>2, SumIterIsSum
  <2> HIDE DEF x
  <2> SUFFICES ASSUME NEW z \in s, z # x PROVE SumOn(f, s) = Add(f[z], SumOn(f, s \ {z}))
    BY <2>2
  <2> DEFINE rest == SumOn(f, (s \ {x}) \ {z})
  <2>3. SumOn(f, s \ {x}) = Add(f[z], rest)
    BY <2>1
  <2>4. SumOn(f, s \ {z}) = Add(f[x], rest)
    <3>1. s \ {z} \in W /\ x \in s \ {z} /\ (s \ {z}) \ {x} = (s \ {x}) \ {z}
      BY <1>3, <2>1
    <3> QED
      BY <3>1
  <2>5. f[x] \in Int /\ f[z] \in Int /\ rest \in Int
    <3>1. (s \ {x}) \ {z} \in SUBSET S /\ x \in S /\ z \in S
      BY <2>1
    <3> HIDE DEF rest
    <3>2. rest \in Scalars
      BY <1>1, <3>1 DEF rest
    <3> QED
      BY <3>1, <3>2, ScalarsAreIntegers DEF ScalarsOn
  <2> HIDE DEF rest
  <2>6. Add(f[x], Add(f[z], rest)) = Add(f[z], Add(f[x], rest))
    BY <2>5, AddLaws
  <2> QED
    BY <2>2, <2>3, <2>4, <2>6
<1>4. S \in W
  <2> HIDE DEF W
  <2> QED
    BY <1>2, <1>3, SetInduction
<1> QED
  BY <1>4

\* Sums commute with linear combinations.
LEMMA SumLinear ==
  ASSUME NEW S, IsFiniteSet(S), NEW f, ScalarsOn(f, S), NEW g, ScalarsOn(g, S),
         NEW c \in Scalars, NEW h, \A x \in S : h[x] = Add(f[x], Mul(g[x], c))
  PROVE  SumOn(h, S) = Add(SumOn(f, S), Mul(SumOn(g, S), c))
<1> DEFINE W == {s \in SUBSET S : SumOn(h, s) = Add(SumOn(f, s), Mul(SumOn(g, s), c))}
<1>1. ScalarsOn(h, S)
  <2> SUFFICES ASSUME NEW x \in S PROVE h[x] \in Scalars
    BY DEF ScalarsOn
  <2>1. f[x] \in Scalars /\ Mul(g[x], c) \in Scalars
    BY ScalarTypes DEF ScalarsOn
  <2> QED
    BY <2>1, ScalarTypes
<1>2. {} \in W
  BY SumOverEmpty, AddLaws, MulLaws, ScalarTypes
<1>3. ASSUME NEW s \in SUBSET S, s # {}, \A x \in s : s \ {x} \in W
      PROVE  s \in W
  <2>1. PICK x \in s : s \ {x} \in W
    BY <1>3
  <2>2. IsFiniteSet(s) /\ ScalarsOn(f, s) /\ ScalarsOn(g, s) /\ ScalarsOn(h, s)
    BY <1>1, FS_Subset DEF ScalarsOn
  <2>3. IsFiniteSet(s \ {x}) /\ ScalarsOn(f, s \ {x}) /\ ScalarsOn(g, s \ {x})
    BY <2>2, FS_Subset DEF ScalarsOn
  <2> DEFINE F == SumOn(f, s \ {x})
             G == SumOn(g, s \ {x})
  <2>4. F \in Scalars /\ G \in Scalars /\ f[x] \in Scalars /\ g[x] \in Scalars
    BY <2>1, <2>2, <2>3, SumType DEF ScalarsOn
  <2>5. SumOn(f, s) = Add(f[x], F) /\ SumOn(g, s) = Add(g[x], G)
    BY <2>2, SumSplit
  <2>6. SumOn(h, s) = Add(h[x], Add(F, Mul(G, c)))
    BY <2>1, <2>2, SumSplit
  <2> HIDE DEF F, G
  <2> DEFINE a == Mul(g[x], c)
             b == Mul(G, c)
  <2>7. /\ a \in Int /\ b \in Int /\ c \in Int
        /\ F \in Int /\ G \in Int /\ f[x] \in Int /\ g[x] \in Int
        /\ Add(F, b) \in Int /\ Add(a, b) \in Int
    BY <2>4, ScalarTypes, ScalarsAreIntegers
  <2>8. Mul(Add(g[x], G), c) = Add(a, b)
    BY <2>7, MulLaws
  <2> HIDE DEF a, b
  <2>9. Add(Add(f[x], a), Add(F, b)) = Add(Add(f[x], F), Add(a, b))
    <3>1. Add(a, Add(F, b)) = Add(F, Add(a, b))
      BY <2>7, AddLaws
    <3>2. Add(Add(f[x], a), Add(F, b)) = Add(f[x], Add(a, Add(F, b)))
      BY <2>7, AddLaws
    <3>3. Add(Add(f[x], F), Add(a, b)) = Add(f[x], Add(F, Add(a, b)))
      BY <2>7, AddLaws
    <3> QED
      BY <3>1, <3>2, <3>3
  <2> QED
    BY <2>5, <2>6, <2>8, <2>9 DEF a, b
<1>4. S \in W
  <2> HIDE DEF W
  <2> QED
    BY <1>2, <1>3, SetInduction
<1> QED
  BY <1>4

LEMMA SumEqual ==
  ASSUME NEW S, IsFiniteSet(S), NEW f, ScalarsOn(f, S), NEW h, \A x \in S : h[x] = f[x]
  PROVE  SumOn(h, S) = SumOn(f, S)
<1>1. \A x \in S : h[x] = Add(f[x], Mul(f[x], 0))
  BY AddLaws, MulLaws DEF ScalarsOn
<1>2. SumOn(f, S) \in Scalars
  BY SumType
<1> QED
  BY <1>1, <1>2, SumLinear, ScalarTypes, AddLaws, MulLaws

LEMMA SumOfIsSumOn == \A f : SumOf(f) = SumOn(f, DOMAIN f)
BY DEF SumOf, SumOn, FoldFunction

LEMMA SumOfPair ==
  ASSUME NEW f, DOMAIN f = 1..2, f[1] \in Scalars, f[2] \in Scalars
  PROVE  SumOf(f) = Add(f[1], f[2])
<1>1. IsFiniteSet(1..2) /\ ScalarsOn(f, 1..2) /\ (1..2) \ {1} = {2} /\ 1 \in 1..2
  <2>1. IsFiniteSet(1..2)
    BY FS_Interval, 1 \in Int, 2 \in Int
  <2>2. ScalarsOn(f, 1..2)
    BY DEF ScalarsOn
  <2> QED
    BY <2>1, <2>2
<1>2. IsFiniteSet({2}) /\ ScalarsOn(f, {2}) /\ {2} \ {2} = {}
  BY FS_Singleton DEF ScalarsOn
<1>3. SumOn(f, 1..2) = Add(f[1], SumOn(f, {2}))
  BY <1>1, SumSplit
<1>4. SumOn(f, {2}) = Add(f[2], 0)
  BY <1>2, SumSplit, SumOverEmpty
<1> QED
  BY <1>3, <1>4, SumOfIsSumOn, AddLaws

-----------------------------------------------------------------------------
(* Products of one factor or none. *)

ProductBody(f, S, it) ==
  [s \in SUBSET S |->
     IF s = {} THEN 1
     ELSE Mul(f[CHOOSE x \in s : TRUE], it[s \ {CHOOSE x \in s : TRUE}])]

LEMMA ProductIsIter ==
  \A f : ProductOf(f) = (CHOOSE it : it = ProductBody(f, DOMAIN f, it))[DOMAIN f]
BY DEF ProductOf, ProductBody, FoldFunction, FoldFunctionOnSet, MapThenFoldSet

LEMMA ProductOfNone ==
  ASSUME NEW f, DOMAIN f = {}
  PROVE  ProductOf(f) = 1
<1> DEFINE it == [s \in SUBSET {} |-> 1]
<1>1. it = ProductBody(f, {}, it)
  BY DEF ProductBody
<1> DEFINE chosen == CHOOSE g : g = ProductBody(f, {}, g)
<1>2. chosen = ProductBody(f, {}, chosen)
  BY <1>1
<1> HIDE DEF chosen
<1>3. chosen[{}] = 1
  BY <1>2 DEF ProductBody
<1> QED
  BY <1>3, ProductIsIter DEF chosen

LEMMA ProductOfOne ==
  ASSUME NEW f, NEW j, DOMAIN f = {j}, f[j] \in Scalars
  PROVE  ProductOf(f) = f[j]
<1> DEFINE it == [s \in SUBSET {j} |-> IF s = {} THEN 1 ELSE Mul(f[j], 1)]
<1>1. \A s \in SUBSET {j} : s # {} => s = {j} /\ (CHOOSE x \in s : TRUE) = j /\ s \ {j} = {}
  OBVIOUS
<1>2. it[{}] = 1
  OBVIOUS
<1>3. it = ProductBody(f, {j}, it)
  BY <1>1, <1>2 DEF ProductBody
<1> DEFINE chosen == CHOOSE g : g = ProductBody(f, {j}, g)
<1>4. chosen = ProductBody(f, {j}, chosen)
  BY <1>3
<1> HIDE DEF chosen, it
<1>5. chosen[{}] = 1 /\ chosen[{j}] = Mul(f[j], chosen[{}])
  BY <1>1, <1>4 DEF ProductBody
<1>6. ProductOf(f) = chosen[{j}]
  BY ProductIsIter DEF chosen
<1> QED
  BY <1>5, <1>6, MulLaws

-----------------------------------------------------------------------------
(* Negation and subtraction *)

LEMMA NegateIsMinus == \A a \in Int : Negate(a) = (0 - a) % Q
<1>1. \A a \in Int : -a = 0 - a
  OBVIOUS
<1> QED
  BY <1>1 DEF Negate

LEMMA NegateLaws ==
  /\ \A a \in Scalars : Negate(Negate(a)) = a /\ (Negate(a) = 0 <=> a = 0)
  /\ \A a, b \in Scalars :
       /\ Mul(a, Negate(b)) = Negate(Mul(a, b)) /\ Mul(Negate(a), b) = Negate(Mul(a, b))
       /\ Sub(b, a) = Negate(Sub(a, b)) /\ (Sub(a, b) = 0 <=> a = b)
       /\ Add(Sub(a, b), b) = a /\ Sub(Add(a, b), b) = a
<1>1. ASSUME NEW a \in Scalars PROVE Negate(Negate(a)) = a
  <2>1. Negate(Negate(a)) = (0 - ((-a) % Q)) % Q
    BY ScalarTypes, ScalarsAreIntegers DEF Negate
  <2>2. (0 - ((-a) % Q)) % Q = (0 - (-a)) % Q
    BY ScalarsAreIntegers, ResidueInSum, -a \in Int
  <2>3. 0 - (-a) = a
    BY ScalarsAreIntegers
  <2> QED
    BY <2>1, <2>2, <2>3, ScalarsAreIntegers
<1>2. Negate(0) = 0
  BY QPositive DEF Negate
<1>3. ASSUME NEW a \in Scalars PROVE Negate(a) = 0 <=> a = 0
  BY <1>1, <1>2
<1>4. ASSUME NEW a \in Scalars, NEW b \in Scalars
      PROVE  Mul(a, Negate(b)) = Negate(Mul(a, b))
  <2>1. a \in Int /\ b \in Int /\ -b \in Int /\ a * b \in Int
    BY ScalarsAreIntegers
  <2>2. Mul(a, Negate(b)) = ((-b) * a) % Q
    BY <2>1, ResidueInProduct DEF Mul, Negate
  <2>3. Negate(Mul(a, b)) = (0 - ((a * b) % Q)) % Q
    BY <2>1, NegateIsMinus, Residue, ScalarsAreIntegers DEF Mul
  <2>4. (0 - ((a * b) % Q)) % Q = (0 - a * b) % Q
    BY <2>1, ResidueInSum
  <2>5. (-b) * a = 0 - a * b
    BY <2>1
  <2> QED
    BY <2>2, <2>3, <2>4, <2>5
<1>5. ASSUME NEW a \in Scalars, NEW b \in Scalars
      PROVE  Mul(Negate(a), b) = Negate(Mul(a, b))
  <2>1. Mul(Negate(a), b) = Mul(b, Negate(a)) /\ Mul(b, a) = Mul(a, b)
    BY ScalarTypes, ScalarsAreIntegers, MulLaws
  <2> QED
    BY <2>1, <1>4
<1>6. ASSUME NEW a \in Scalars, NEW b \in Scalars PROVE Sub(b, a) = Negate(Sub(a, b))
  <2>1. a \in Int /\ b \in Int /\ a - b \in Int
    BY ScalarsAreIntegers
  <2>2. Negate(Sub(a, b)) = (0 - ((a - b) % Q)) % Q
    BY <2>1, NegateIsMinus, Residue, ScalarsAreIntegers DEF Sub
  <2>3. (0 - ((a - b) % Q)) % Q = (0 - (a - b)) % Q
    BY <2>1, ResidueInSum
  <2>4. 0 - (a - b) = b - a
    BY <2>1
  <2> QED
    BY <2>2, <2>3, <2>4 DEF Sub
<1>7. ASSUME NEW a \in Scalars, NEW b \in Scalars
      PROVE  Add(Sub(a, b), b) = a /\ Sub(Add(a, b), b) = a
  <2>1. a \in Int /\ b \in Int /\ a - b \in Int /\ a + b \in Int /\ a % Q = a
    BY ScalarsAreIntegers
  <2>2. Add(Sub(a, b), b) = ((a - b) + b) % Q /\ Sub(Add(a, b), b) = ((a + b) - b) % Q
    BY <2>1, ResidueInSum DEF Add, Sub
  <2>3. (a - b) + b = a /\ (a + b) - b = a
    BY <2>1
  <2> QED
    BY <2>1, <2>2, <2>3
<1>8. ASSUME NEW a \in Scalars, NEW b \in Scalars PROVE Sub(a, b) = 0 <=> a = b
  <2>1. Sub(a, a) = 0
    BY AddLaws, ScalarsAreIntegers
  <2> QED
    BY <1>7, <2>1, AddLaws
<1> QED
  BY <1>1, <1>3, <1>4, <1>5, <1>6, <1>7, <1>8

LEMMA Regroup ==
  ASSUME NEW a \in Scalars, NEW b \in Scalars, NEW c \in Scalars, NEW d \in Scalars
  PROVE  Add(Add(a, b), Add(c, d)) = Add(Add(a, c), Add(b, d))
<1>1. a \in Int /\ b \in Int /\ c \in Int /\ d \in Int /\ Add(c, d) \in Int /\ Add(b, d) \in Int
  BY ScalarTypes, ScalarsAreIntegers
<1>2. Add(Add(a, b), Add(c, d)) = Add(a, Add(b, Add(c, d)))
  BY <1>1, AddLaws
<1>3. Add(Add(a, c), Add(b, d)) = Add(a, Add(c, Add(b, d)))
  BY <1>1, AddLaws
<1>4. Add(b, Add(c, d)) = Add(Add(b, c), d) /\ Add(c, Add(b, d)) = Add(Add(c, b), d)
  BY <1>1, AddLaws
<1>5. Add(b, c) = Add(c, b)
  BY <1>1, AddLaws
<1> QED
  BY <1>2, <1>3, <1>4, <1>5

\* Addition is injective.
LEMMA AddFixes ==
  /\ \A a, b, c \in Scalars : Add(a, b) = Add(a, c) <=> b = c
  /\ \A a, b \in Scalars : Add(a, b) = a <=> b = 0
<1>1. ASSUME NEW a \in Scalars, NEW b \in Scalars, NEW c \in Scalars, Add(a, b) = Add(a, c)
      PROVE  b = c
  <2>1. a \in Int /\ b \in Int /\ c \in Int /\ Add(a, b) = Add(b, a) /\ Add(a, c) = Add(c, a)
    BY AddLaws, ScalarsAreIntegers
  <2>2. Sub(Add(b, a), a) = b /\ Sub(Add(c, a), a) = c
    BY NegateLaws
  <2> QED
    BY <1>1, <2>1, <2>2
<1>2. \A a \in Scalars : Add(a, 0) = a /\ 0 \in Scalars
  BY AddLaws, ScalarTypes
<1> QED
  BY <1>1, <1>2

-----------------------------------------------------------------------------
(* Interpolation at zero from two points *)

\* Two different party numbers.
TwoIds(ids) ==
  /\ DOMAIN ids = 1..2 /\ ids[1] \in Scalars \ {0} /\ ids[2] \in Scalars \ {0}
  /\ ids[1] # ids[2]

\* What makes a pair of weights interpolate.
Interpolates(weights, ids) ==
  /\ DOMAIN weights = 1..2 /\ weights[1] \in Scalars /\ weights[2] \in Scalars
  /\ Add(weights[1], weights[2]) = 1
  /\ Mul(ids[1], weights[1]) # 0
  /\ Mul(ids[2], weights[2]) = Negate(Mul(ids[1], weights[1]))

\* The other index is the only factor of numerator and denominator.
LEMMA LagrangeOfTwo ==
  ASSUME NEW ids, TwoIds(ids)
  PROVE  LET x == ids[1]
             y == ids[2]
         IN  /\ DOMAIN LagrangeAtZero(ids) = 1..2
             /\ LagrangeAtZero(ids)[1] = Mul(Negate(y), Unwrap(Invert(Sub(x, y))))
             /\ LagrangeAtZero(ids)[2] = Mul(Negate(x), Unwrap(Invert(Sub(y, x))))
<1> DEFINE num(i) == [j \in DOMAIN ids \ {i} |-> Negate(FromU64(ids[j]))]
           den(i) == [j \in DOMAIN ids \ {i} |-> Sub(FromU64(ids[i]), FromU64(ids[j]))]
<1>1. /\ ids[1] \in Scalars /\ ids[2] \in Scalars
      /\ FromU64(ids[1]) = ids[1] /\ FromU64(ids[2]) = ids[2]
      /\ (1..2) \ {1} = {2} /\ (1..2) \ {2} = {1}
  <2>1. (1..2) \ {1} = {2} /\ (1..2) \ {2} = {1}
    OBVIOUS
  <2>2. ids[1] \in Scalars /\ ids[2] \in Scalars
    BY DEF TwoIds
  <2> QED
    BY <2>1, <2>2, ScalarTypes
<1>2. /\ DOMAIN num(1) = {2} /\ num(1)[2] = Negate(ids[2])
      /\ DOMAIN num(2) = {1} /\ num(2)[1] = Negate(ids[1])
      /\ DOMAIN den(1) = {2} /\ den(1)[2] = Sub(ids[1], ids[2])
      /\ DOMAIN den(2) = {1} /\ den(2)[1] = Sub(ids[2], ids[1])
  BY <1>1 DEF TwoIds
<1>3. /\ LagrangeNumerator(ids, 1) = ProductOf(num(1))
      /\ LagrangeNumerator(ids, 2) = ProductOf(num(2))
      /\ LagrangeDenominator(ids, 1) = ProductOf(den(1))
      /\ LagrangeDenominator(ids, 2) = ProductOf(den(2))
  BY DEF LagrangeNumerator, LagrangeDenominator
<1>4. /\ Negate(ids[1]) \in Scalars /\ Negate(ids[2]) \in Scalars
      /\ Sub(ids[1], ids[2]) \in Scalars /\ Sub(ids[2], ids[1]) \in Scalars
  BY <1>1, ScalarTypes
<1> HIDE DEF num, den
<1>5. /\ LagrangeNumerator(ids, 1) = Negate(ids[2])
      /\ LagrangeNumerator(ids, 2) = Negate(ids[1])
      /\ LagrangeDenominator(ids, 1) = Sub(ids[1], ids[2])
      /\ LagrangeDenominator(ids, 2) = Sub(ids[2], ids[1])
  BY <1>2, <1>3, <1>4, ProductOfOne
<1> QED
  BY <1>5 DEF LagrangeAtZero, TwoIds

LEMMA LagrangeInterpolates ==
  ASSUME NEW ids, TwoIds(ids)
  PROVE  Interpolates(LagrangeAtZero(ids), ids)
<1> DEFINE x == ids[1]
           y == ids[2]
           d == Sub(x, y)
           i == Unwrap(Invert(d))
           e == Sub(y, x)
           j == Unwrap(Invert(e))
           l == LagrangeAtZero(ids)
<1>1. x \in Scalars /\ y \in Scalars /\ x # 0 /\ y # 0 /\ x # y
  BY DEF TwoIds
<1>2. d \in Scalars /\ d # 0 /\ e \in Scalars /\ e # 0 /\ e = Negate(d)
  BY <1>1, ScalarTypes, NegateLaws
<1>3. i \in Scalars /\ Mul(d, i) = 1 /\ j \in Scalars /\ Mul(e, j) = 1
  BY <1>2, Inverses
<1>4. DOMAIN l = 1..2 /\ l[1] = Mul(Negate(y), i) /\ l[2] = Mul(Negate(x), j)
  BY LagrangeOfTwo
<1> HIDE DEF x, y, d, e, i, j, l
<1>5. j = Negate(i)
  <2>1. Negate(i) \in Scalars /\ Mul(e, Negate(i)) = Negate(Mul(e, i))
    BY <1>2, <1>3, ScalarTypes, NegateLaws
  <2>2. Mul(e, i) = Negate(Mul(d, i))
    BY <1>2, <1>3, NegateLaws
  <2>3. Mul(e, Negate(i)) = 1
    BY <1>3, <2>1, <2>2, NegateLaws, ScalarTypes
  <2> QED
    BY <1>2, <1>3, <2>1, <2>3, Cancel
<1>6. Mul(x, i) \in Scalars /\ Mul(y, i) \in Scalars /\ Negate(y) \in Scalars
      /\ x \in Int /\ y \in Int /\ i \in Int /\ Negate(y) \in Int /\ Negate(x) \in Scalars
  BY <1>1, <1>3, ScalarTypes, ScalarsAreIntegers
<1>7. l[2] = Mul(x, i)
  <2>1. Mul(Negate(x), Negate(i)) = Negate(Mul(x, Negate(i)))
    BY <1>1, <1>3, ScalarTypes, NegateLaws
  <2>2. Mul(x, Negate(i)) = Negate(Mul(x, i))
    BY <1>1, <1>3, NegateLaws
  <2> QED
    BY <1>4, <1>5, <1>6, <2>1, <2>2, NegateLaws
<1>8. l[1] \in Scalars /\ l[2] \in Scalars
  BY <1>4, <1>6, <1>7, <1>3, ScalarTypes
<1>9. Add(l[1], l[2]) = 1
  <2>1. Add(Mul(x, i), Mul(Negate(y), i)) = Mul(Add(x, Negate(y)), i)
    BY <1>6, MulLaws
  <2>2. Add(x, Negate(y)) = d
    BY <1>6, AddLaws DEF d
  <2>3. Mul(d, i) = Add(l[2], l[1])
    BY <1>4, <1>7, <2>1, <2>2
  <2>4. Add(l[2], l[1]) = Add(l[1], l[2])
    BY <1>8, AddLaws, ScalarsAreIntegers
  <2> QED
    BY <1>3, <2>3, <2>4
<1>10. i # 0
  BY <1>2, <1>3, MulLaws
<1> DEFINE p == Mul(x, Mul(y, i))
<1>11. p \in Scalars /\ p # 0
  <2>1. Mul(y, i) # 0
    BY <1>1, <1>3, <1>10, NoZeroDivisors
  <2> QED
    BY <1>1, <1>6, <2>1, NoZeroDivisors, ScalarTypes
<1>12. Mul(x, l[1]) = Negate(p)
  <2>1. l[1] = Negate(Mul(y, i))
    BY <1>1, <1>3, <1>4, NegateLaws
  <2>2. Mul(x, Negate(Mul(y, i))) = Negate(Mul(x, Mul(y, i)))
    BY <1>1, <1>6, NegateLaws
  <2> QED
    BY <2>1, <2>2
<1>13. Mul(y, l[2]) = p
  <2>1. Mul(y, Mul(x, i)) = Mul(Mul(y, x), i) /\ Mul(Mul(x, y), i) = Mul(x, Mul(y, i))
        /\ Mul(x, y) = Mul(y, x)
    BY <1>6, MulLaws
  <2> QED
    BY <1>7, <2>1
<1> HIDE DEF p
<1>14. Mul(x, l[1]) # 0 /\ Mul(y, l[2]) = Negate(Mul(x, l[1]))
  BY <1>11, <1>12, <1>13, NegateLaws
<1> QED
  BY <1>4, <1>8, <1>9, <1>14 DEF Interpolates, x, y, l

\* Values on lines with the same secret and slopes s and t combine to the
\* secret exactly when the slopes are the same.
THEOREM Interpolation ==
  ASSUME NEW ids, TwoIds(ids), NEW w, Interpolates(w, ids),
         NEW secret \in Scalars, NEW s \in Scalars, NEW t \in Scalars
  PROVE  LET a == Add(secret, Mul(s, ids[1]))
             b == Add(secret, Mul(t, ids[2]))
         IN  Add(Mul(a, w[1]), Mul(b, w[2])) = secret <=> s = t
<1> DEFINE x == ids[1]
           y == ids[2]
           u == w[1]
           v == w[2]
           c == Mul(x, u)
           sum == Add(Mul(Add(secret, Mul(s, x)), u), Mul(Add(secret, Mul(t, y)), v))
<1>1. x \in Scalars /\ y \in Scalars /\ u \in Scalars /\ v \in Scalars
      /\ Add(u, v) = 1 /\ c # 0 /\ Mul(y, v) = Negate(c)
  BY DEF TwoIds, Interpolates
<1>2. c \in Scalars /\ Mul(s, x) \in Scalars /\ Mul(t, y) \in Scalars
      /\ Mul(secret, u) \in Scalars /\ Mul(secret, v) \in Scalars
      /\ Mul(s, c) \in Scalars /\ Mul(t, c) \in Scalars /\ Negate(Mul(t, c)) \in Scalars
  BY <1>1, ScalarTypes
<1> HIDE DEF x, y, u, v
<1>3. Mul(Add(secret, Mul(s, x)), u) = Add(Mul(secret, u), Mul(s, c))
  BY <1>1, <1>2, MulLaws, ScalarsAreIntegers
<1>4. Mul(Add(secret, Mul(t, y)), v) = Add(Mul(secret, v), Negate(Mul(t, c)))
  <2>1. Mul(Add(secret, Mul(t, y)), v) = Add(Mul(secret, v), Mul(Mul(t, y), v))
    BY <1>1, <1>2, MulLaws, ScalarsAreIntegers
  <2>2. Mul(Mul(t, y), v) = Mul(t, Negate(c))
    BY <1>1, MulLaws, ScalarsAreIntegers
  <2>3. Mul(t, Negate(c)) = Negate(Mul(t, c))
    BY <1>2, NegateLaws
  <2> QED
    BY <2>1, <2>2, <2>3
<1> HIDE DEF c
<1>5. Add(Mul(secret, u), Mul(secret, v)) = secret
  <2>1. Add(Mul(secret, u), Mul(secret, v)) = Mul(secret, Add(u, v))
    BY <1>1, MulLaws, ScalarsAreIntegers
  <2> QED
    BY <1>1, <2>1, MulLaws
<1>6. sum = Add(secret, Sub(Mul(s, c), Mul(t, c)))
  BY <1>2, <1>3, <1>4, <1>5, Regroup, AddLaws, ScalarsAreIntegers
<1>7. Sub(Mul(s, c), Mul(t, c)) \in Scalars
  BY <1>2, ScalarTypes
<1>8. sum = secret <=> Sub(Mul(s, c), Mul(t, c)) = 0
  BY <1>6, <1>7, AddFixes
<1>9. Sub(Mul(s, c), Mul(t, c)) = 0 <=> Mul(c, s) = Mul(c, t)
  BY <1>2, NegateLaws, MulLaws, ScalarsAreIntegers
<1>10. Mul(c, s) = Mul(c, t) <=> s = t
  BY <1>1, <1>2, Cancel
<1> QED
  BY <1>8, <1>9, <1>10 DEF x, y, u, v

-----------------------------------------------------------------------------
(* Points of G1, by their coefficients *)

IsPoint(p) ==
  p = [b \in DOMAIN p |-> p[b]] /\ \A b \in DOMAIN p : p[b] \in Scalars \ {0}

LEMMA CoefficientType ==
  ASSUME NEW p, IsPoint(p)
  PROVE  \A b : Coefficient(p, b) \in Scalars /\ (Coefficient(p, b) = 0 <=> b \notin DOMAIN p)
BY ScalarTypes DEF IsPoint, Coefficient

\* A point is its coefficients.
LEMMA PointsEqual ==
  ASSUME NEW p, NEW q, IsPoint(p), IsPoint(q), \A b : Coefficient(p, b) = Coefficient(q, b)
  PROVE  p = q
<1>1. DOMAIN p = DOMAIN q
  BY CoefficientType
<1>2. \A b \in DOMAIN p : p[b] = q[b]
  BY <1>1 DEF Coefficient
<1> QED
  BY <1>1, <1>2 DEF IsPoint

LEMMA IdentityPoint == IsPoint(Identity) /\ \A b : Coefficient(Identity, b) = 0
BY DEF IsPoint, Identity, Coefficient

LEMMA HashPoint ==
  ASSUME NEW msg, NEW dst
  PROVE  /\ IsPoint(HashToG1(msg, dst))
         /\ \A b : Coefficient(HashToG1(msg, dst), b) = IF b = <<dst, msg>> THEN 1 ELSE 0
BY ScalarTypes, QPositive DEF IsPoint, HashToG1, Coefficient

LEMMA GeneratorPoint ==
  /\ IsPoint(G1Generator)
  /\ \A b : Coefficient(G1Generator, b) = IF b = <<"generator">> THEN 1 ELSE 0
BY ScalarTypes, QPositive DEF IsPoint, G1Generator, Coefficient

LEMMA MulPoint ==
  ASSUME NEW p, IsPoint(p), NEW s \in Scalars
  PROVE  /\ IsPoint(G1Mul(p, s))
         /\ \A b : Coefficient(G1Mul(p, s), b) = Mul(Coefficient(p, b), s)
<1> DEFINE D == {b \in DOMAIN p : Mul(p[b], s) # 0}
<1>1. G1Mul(p, s) = [b \in D |-> Mul(p[b], s)]
  BY DEF G1Mul, Combination
<1>2. \A b \in DOMAIN p : p[b] \in Scalars /\ Mul(p[b], s) \in Scalars
  BY ScalarTypes DEF IsPoint
<1>3. IsPoint(G1Mul(p, s))
  BY <1>1, <1>2 DEF IsPoint
<1>4. ASSUME NEW b PROVE Coefficient(G1Mul(p, s), b) = Mul(Coefficient(p, b), s)
  <2>1. CASE b \in DOMAIN p
    BY <1>1, <2>1 DEF Coefficient
  <2>2. CASE b \notin DOMAIN p
    BY <1>1, <2>2, MulLaws DEF Coefficient
  <2> QED
    BY <2>1, <2>2
<1> QED
  BY <1>3, <1>4

LEMMA AddPoint ==
  ASSUME NEW p, IsPoint(p), NEW q, IsPoint(q)
  PROVE  /\ IsPoint(G1Add(p, q))
         /\ \A b : Coefficient(G1Add(p, q), b) = Add(Coefficient(p, b), Coefficient(q, b))
<1> DEFINE sum(b) == Add(Coefficient(p, b), Coefficient(q, b))
           D == {b \in DOMAIN p \cup DOMAIN q : sum(b) # 0}
<1>1. G1Add(p, q) = [b \in D |-> sum(b)]
  BY DEF G1Add, Combination
<1>2. \A b : sum(b) \in Scalars
  BY CoefficientType, ScalarTypes
<1>3. \A b : b \notin DOMAIN p \cup DOMAIN q => sum(b) = 0
  BY AddLaws, ScalarTypes DEF Coefficient
<1> HIDE DEF sum
<1>4. IsPoint(G1Add(p, q))
  BY <1>1, <1>2 DEF IsPoint
<1>5. ASSUME NEW b PROVE Coefficient(G1Add(p, q), b) = sum(b)
  BY <1>1, <1>3 DEF Coefficient
<1> QED
  BY <1>4, <1>5 DEF sum

\* Multiples of one base, and sums of them.
LEMMA MultiplesOfBase ==
  ASSUME NEW H, NEW base, IsPoint(H), \A b : Coefficient(H, b) = IF b = base THEN 1 ELSE 0
  PROVE  /\ \A s \in Scalars : IsPoint(G1Mul(H, s))
         /\ \A s, t \in Scalars : G1Mul(H, s) = G1Mul(H, t) <=> s = t
         /\ \A s, t \in Scalars : G1Add(G1Mul(H, s), G1Mul(H, t)) = G1Mul(H, Add(s, t))
         /\ \A s, t \in Scalars : G1Mul(G1Mul(H, s), t) = G1Mul(H, Mul(s, t))
         /\ G1Mul(H, 0) = Identity
<1>1. IsPoint(H) /\ \A b : Coefficient(H, b) = IF b = base THEN 1 ELSE 0
  OBVIOUS
<1>2. ASSUME NEW s \in Scalars
      PROVE  /\ IsPoint(G1Mul(H, s))
             /\ \A b : Coefficient(G1Mul(H, s), b) = IF b = base THEN s ELSE 0
  BY <1>1, MulPoint, MulLaws
<1>3. ASSUME NEW s \in Scalars, NEW t \in Scalars
      PROVE  G1Add(G1Mul(H, s), G1Mul(H, t)) = G1Mul(H, Add(s, t))
  <2>1. Add(s, t) \in Scalars /\ Add(0, 0) = 0
    BY ScalarTypes, AddLaws
  <2>2. /\ IsPoint(G1Add(G1Mul(H, s), G1Mul(H, t)))
        /\ \A b : Coefficient(G1Add(G1Mul(H, s), G1Mul(H, t)), b)
                   = IF b = base THEN Add(s, t) ELSE 0
    BY <1>2, <2>1, AddPoint
  <2> QED
    BY <1>2, <2>1, <2>2, PointsEqual
<1>4. ASSUME NEW s \in Scalars, NEW t \in Scalars
      PROVE  G1Mul(G1Mul(H, s), t) = G1Mul(H, Mul(s, t))
  <2>1. Mul(s, t) \in Scalars /\ Mul(0, t) = 0
    BY ScalarTypes, MulLaws
  <2>2. /\ IsPoint(G1Mul(G1Mul(H, s), t))
        /\ \A b : Coefficient(G1Mul(G1Mul(H, s), t), b) = IF b = base THEN Mul(s, t) ELSE 0
    BY <1>2, <2>1, MulPoint
  <2> QED
    BY <1>2, <2>1, <2>2, PointsEqual
<1>5. G1Mul(H, 0) = Identity
  BY <1>2, ScalarTypes, IdentityPoint, PointsEqual
<1>6. ASSUME NEW s \in Scalars, NEW t \in Scalars, G1Mul(H, s) = G1Mul(H, t)
      PROVE  s = t
  BY <1>2, <1>6
<1> QED
  BY <1>2, <1>3, <1>4, <1>5, <1>6

LEMMA HashMultiple ==
  ASSUME NEW msg, NEW dst
  PROVE  LET H == HashToG1(msg, dst)
         IN  /\ \A s \in Scalars : IsPoint(G1Mul(H, s))
             /\ \A s, t \in Scalars : G1Mul(H, s) = G1Mul(H, t) <=> s = t
             /\ \A s, t \in Scalars : G1Add(G1Mul(H, s), G1Mul(H, t)) = G1Mul(H, Add(s, t))
             /\ \A s, t \in Scalars : G1Mul(G1Mul(H, s), t) = G1Mul(H, Mul(s, t))
             /\ G1Mul(H, 0) = Identity
<1> DEFINE H == HashToG1(msg, dst)
           base == <<dst, msg>>
<1>1. IsPoint(H) /\ \A b : Coefficient(H, b) = IF b = base THEN 1 ELSE 0
  BY HashPoint
<1> HIDE DEF H, base
<1> QED  BY <1>1, MultiplesOfBase DEF H

LEMMA GeneratorMultiple ==
  LET H == G1Generator
  IN  /\ \A s \in Scalars : IsPoint(G1Mul(H, s))
      /\ \A s, t \in Scalars : G1Mul(H, s) = G1Mul(H, t) <=> s = t
      /\ \A s, t \in Scalars : G1Add(G1Mul(H, s), G1Mul(H, t)) = G1Mul(H, Add(s, t))
      /\ \A s, t \in Scalars : G1Mul(G1Mul(H, s), t) = G1Mul(H, Mul(s, t))
      /\ G1Mul(H, 0) = Identity
BY GeneratorPoint, MultiplesOfBase

-----------------------------------------------------------------------------
(* Sums of points *)

PointBody(f, S, it) ==
  [s \in SUBSET S |->
     IF s = {} THEN Identity
     ELSE G1Add(f[CHOOSE x \in s : TRUE], it[s \ {CHOOSE x \in s : TRUE}])]

LEMMA G1SumIsIter ==
  \A f : G1Sum(f) = (CHOOSE it : it = PointBody(f, DOMAIN f, it))[DOMAIN f]
BY DEF G1Sum, PointBody, FoldSeq, FoldFunction, FoldFunctionOnSet, MapThenFoldSet

\* A sum of multiples of a hash point is the multiple by the sum.
LEMMA G1SumOfMultiples ==
  ASSUME NEW S, IsFiniteSet(S), NEW f, ScalarsOn(f, S), NEW msg, NEW dst,
         NEW points, DOMAIN points = S,
         \A x \in S : points[x] = G1Mul(HashToG1(msg, dst), f[x])
  PROVE  G1Sum(points) = G1Mul(HashToG1(msg, dst), SumOn(f, S))
<1> DEFINE H == HashToG1(msg, dst)
           it == [s \in SUBSET S |-> G1Mul(H, SumOn(f, s))]
<1>1. ASSUME NEW s \in SUBSET S, NEW x \in s
      PROVE  G1Mul(H, SumOn(f, s)) = G1Add(points[x], G1Mul(H, SumOn(f, s \ {x})))
  <2>1. IsFiniteSet(s) /\ ScalarsOn(f, s) /\ IsFiniteSet(s \ {x}) /\ ScalarsOn(f, s \ {x})
    BY FS_Subset DEF ScalarsOn
  <2>2. SumOn(f, s) = Add(f[x], SumOn(f, s \ {x})) /\ SumOn(f, s \ {x}) \in Scalars
        /\ f[x] \in Scalars
    BY <2>1, SumSplit, SumType DEF ScalarsOn
  <2> QED
    BY <2>2, HashMultiple
<1>2. G1Mul(H, SumOn(f, {})) = Identity
  BY SumOverEmpty, HashMultiple
<1>3. it = PointBody(points, S, it)
  <2>1. ASSUME NEW s \in SUBSET S
        PROVE  it[s] = IF s = {} THEN Identity
                       ELSE G1Add(points[CHOOSE x \in s : TRUE],
                                  it[s \ {CHOOSE x \in s : TRUE}])
    <3>1. CASE s = {}
      BY <1>2, <3>1
    <3>2. CASE s # {}
      <4> DEFINE x == CHOOSE x \in s : TRUE
      <4>1. x \in s
        BY <3>2
      <4> HIDE DEF x
      <4>2. it[s] = G1Add(points[x], it[s \ {x}])
        BY <1>1, <4>1
      <4> QED
        BY <3>2, <4>2 DEF x
    <3> QED
      BY <3>1, <3>2
  <2> HIDE DEF H
  <2> QED
    BY <2>1 DEF PointBody
<1> DEFINE chosen == CHOOSE g : g = PointBody(points, S, g)
<1>4. chosen = PointBody(points, S, chosen)
  <2> HIDE DEF it
  <2> QED
    BY <1>3
<1> HIDE DEF chosen, it
<1> DEFINE W == {s \in SUBSET S : chosen[s] = G1Mul(H, SumOn(f, s))}
<1>5. {} \in W
  BY <1>2, <1>4 DEF PointBody
<1>6. ASSUME NEW s \in SUBSET S, s # {}, \A x \in s : s \ {x} \in W
      PROVE  s \in W
  <2> DEFINE x == CHOOSE x \in s : TRUE
  <2>1. x \in s /\ s \ {x} \in W
    BY <1>6
  <2>2. chosen[s] = G1Add(points[x], chosen[s \ {x}])
    BY <1>4, <1>6 DEF PointBody
  <2> HIDE DEF x, H
  <2> QED
    BY <1>1, <2>1, <2>2
<1>7. S \in W
  <2> HIDE DEF W
  <2> QED
    BY <1>5, <1>6, SetInduction
<1> QED
  BY <1>7, G1SumIsIter DEF chosen

LEMMA SumOfTwoPoints ==
  ASSUME NEW p, NEW q, IsPoint(p), IsPoint(q), NEW f, DOMAIN f = 1..2, f[1] = p, f[2] = q
  PROVE  G1Sum(f) = G1Add(p, q)
<1> DEFINE whole == {1, 2}
           c == CHOOSE x \in whole : TRUE
           it == [s \in SUBSET whole |->
                    IF s = {} THEN Identity
                    ELSE IF s = whole THEN G1Add(f[c], G1Add(f[3 - c], Identity))
                    ELSE IF s = {1} THEN G1Add(p, Identity) ELSE G1Add(q, Identity)]
<1>1. c \in {1, 2} /\ 1..2 = whole /\ whole = {1, 2} /\ {1} # whole /\ {2} # whole
  OBVIOUS
<1>2. \A s \in SUBSET whole : s = {} \/ s = {1} \/ s = {2} \/ s = whole
  OBVIOUS
<1>3. (CHOOSE x \in {1} : TRUE) = 1 /\ (CHOOSE x \in {2} : TRUE) = 2 /\ {1} \ {1} = {}
      /\ {2} \ {2} = {}
  OBVIOUS
<1>4. whole \ {1} = {2} /\ 3 - 1 = 2
  OBVIOUS
<1>5. whole \ {2} = {1} /\ 3 - 2 = 1
  OBVIOUS
<1>6. it = PointBody(f, whole, it)
  <2> HIDE DEF whole
  <2>1. ASSUME NEW s \in SUBSET whole
        PROVE  it[s] = IF s = {} THEN Identity
                       ELSE G1Add(f[CHOOSE x \in s : TRUE], it[s \ {CHOOSE x \in s : TRUE}])
    <3>1. CASE s = {}
      BY <3>1
    <3>2. CASE s = {1}
      BY <1>1, <1>3, <3>2
    <3>3. CASE s = {2}
      BY <1>1, <1>3, <3>3
    <3>4. CASE s = whole
      <4>1. it[s] = G1Add(f[c], G1Add(f[3 - c], Identity))
        BY <3>4, <1>1
      <4>2. it[whole \ {c}] = G1Add(f[3 - c], Identity)
        BY <1>1, <1>4, <1>5
      <4> HIDE DEF it
      <4> QED
        BY <1>1, <3>4, <4>1, <4>2
    <3> QED
      BY <1>2, <3>1, <3>2, <3>3, <3>4
  <2> QED
    BY <2>1 DEF PointBody
<1> DEFINE chosen == CHOOSE g : g = PointBody(f, whole, g)
<1>7. chosen = PointBody(f, whole, chosen)
  <2> HIDE DEF it
  <2> QED
    BY <1>6
<1> HIDE DEF chosen, it, whole, c
<1>8. chosen[{}] = Identity
  BY <1>7 DEF PointBody
<1>9. chosen[{1}] = G1Add(p, Identity) /\ chosen[{2}] = G1Add(q, Identity)
  BY <1>1, <1>3, <1>7, <1>8 DEF PointBody
<1>10. chosen[whole] = G1Add(f[c], chosen[whole \ {c}])
  BY <1>1, <1>7 DEF PointBody, c
<1>11. chosen[whole] = G1Add(p, G1Add(q, Identity)) \/ chosen[whole] = G1Add(q, G1Add(p, Identity))
  BY <1>1, <1>4, <1>5, <1>9, <1>10
<1>12. G1Sum(f) = chosen[whole]
  BY <1>1, G1SumIsIter DEF chosen
<1>13. IsPoint(G1Sum(f))
       /\ \A b : Coefficient(G1Sum(f), b) = Add(Coefficient(p, b), Coefficient(q, b))
  <2>1. /\ IsPoint(G1Add(p, Identity)) /\ IsPoint(G1Add(q, Identity))
        /\ \A b : /\ Coefficient(G1Add(p, Identity), b) = Coefficient(p, b)
                  /\ Coefficient(G1Add(q, Identity), b) = Coefficient(q, b)
    BY AddPoint, IdentityPoint, AddLaws, CoefficientType
  <2>2. \A b : Coefficient(p, b) \in Int /\ Coefficient(q, b) \in Int
    BY CoefficientType, ScalarsAreIntegers
  <2>3. /\ IsPoint(G1Add(p, G1Add(q, Identity))) /\ IsPoint(G1Add(q, G1Add(p, Identity)))
        /\ \A b : /\ Coefficient(G1Add(p, G1Add(q, Identity)), b)
                       = Add(Coefficient(p, b), Coefficient(q, b))
                  /\ Coefficient(G1Add(q, G1Add(p, Identity)), b)
                       = Add(Coefficient(q, b), Coefficient(p, b))
    BY <2>1, AddPoint
  <2>4. \A b : Add(Coefficient(q, b), Coefficient(p, b)) = Add(Coefficient(p, b), Coefficient(q, b))
    BY <2>2, AddLaws
  <2> QED
    BY <1>11, <1>12, <2>3, <2>4
<1> QED
  BY <1>13, AddPoint, PointsEqual

\* The pairing check of two points holds for the multiple of the second alone.
LEMMA PairingCheckIff ==
  ASSUME NEW sig, IsPoint(sig), NEW H, IsPoint(H), NEW pk \in Scalars
  PROVE  CtPairingCheck(sig, G2Generator, G1Negate(H), pk) <=> sig = G1Mul(H, pk)
<1> DEFINE pairs == << <<sig, G2Generator>>, <<G1Negate(H), pk>> >>
           values == [i \in DOMAIN pairs |-> Pairing(pairs[i][1], pairs[i][2])]
           p == G1Mul(sig, 1)
           q == G1Mul(G1Negate(H), pk)
<1>1. CtPairingCheck(sig, G2Generator, G1Negate(H), pk) <=> G1Sum(values) = Identity
  BY DEF CtPairingCheck, CtEq, MultiPairing, GtMul, GtIdentity, G1Sum, G2Generator,
         FoldSeq, FoldFunction, FoldFunctionOnSet, MapThenFoldSet
<1>2. DOMAIN values = 1..2 /\ values[1] = p /\ values[2] = q
  BY DEF Pairing, G2Generator
<1>3. \A b : Coefficient(H, b) \in Scalars
  BY CoefficientType
<1> HIDE DEF values
<1>4. /\ IsPoint(p) /\ \A b : Coefficient(p, b) = Coefficient(sig, b)
      /\ IsPoint(q) /\ \A b : Coefficient(q, b) = Mul(Mul(Coefficient(H, b), Negate(1)), pk)
  <2>1. Negate(1) \in Scalars /\ 1 \in Scalars
    BY ScalarTypes
  <2> QED
    BY <1>3, <2>1, MulPoint, MulLaws, CoefficientType DEF G1Negate
<1> HIDE DEF p, q
<1>5. \A b : Coefficient(q, b) = Negate(Mul(Coefficient(H, b), pk))
  <2> TAKE b
  <2>1. Coefficient(H, b) \in Scalars /\ 1 \in Scalars
    BY <1>3, ScalarTypes
  <2>2. Mul(Coefficient(H, b), Negate(1)) = Negate(Coefficient(H, b))
    BY <2>1, NegateLaws, MulLaws
  <2> QED
    BY <1>4, <2>1, <2>2, NegateLaws
<1>6. G1Sum(values) = G1Add(p, q)
  BY <1>2, <1>4, SumOfTwoPoints
<1>7. /\ IsPoint(G1Add(p, q))
      /\ \A b : Coefficient(G1Add(p, q), b)
                 = Add(Coefficient(sig, b), Negate(Mul(Coefficient(H, b), pk)))
  BY <1>4, <1>5, AddPoint
<1>8. /\ IsPoint(G1Mul(H, pk)) /\ \A b : Coefficient(G1Mul(H, pk), b) = Mul(Coefficient(H, b), pk)
  BY <1>3, MulPoint
<1>9. \A b : Coefficient(G1Add(p, q), b) = 0 <=> Coefficient(sig, b) = Mul(Coefficient(H, b), pk)
  <2> TAKE b
  <2>1. Coefficient(sig, b) \in Scalars /\ Mul(Coefficient(H, b), pk) \in Scalars
    BY CoefficientType, <1>3, <1>8, ScalarTypes
  <2>2. Add(Coefficient(sig, b), Negate(Mul(Coefficient(H, b), pk)))
          = Sub(Coefficient(sig, b), Mul(Coefficient(H, b), pk))
    BY <2>1, AddLaws, ScalarsAreIntegers
  <2> QED
    BY <1>7, <2>1, <2>2, NegateLaws
<1>10. G1Add(p, q) = Identity <=> \A b : Coefficient(G1Add(p, q), b) = 0
  BY <1>7, IdentityPoint, PointsEqual
<1>11. sig = G1Mul(H, pk) <=> \A b : Coefficient(sig, b) = Mul(Coefficient(H, b), pk)
  BY <1>8, PointsEqual
<1> QED
  BY <1>1, <1>6, <1>9, <1>10, <1>11

\* e(sig, g2) = e(hash, pk) holds for the multiple of the hash by pk alone.
LEMMA VerifyBlsIff ==
  ASSUME NEW sig, IsPoint(sig), NEW msg, NEW dst, NEW pk \in Scalars
  PROVE  VerifyBls(sig, HashToG1(msg, dst), pk) <=> sig = G1Mul(HashToG1(msg, dst), pk)
<1> DEFINE H == HashToG1(msg, dst)
<1>1. IsPoint(H)
  BY HashPoint
<1> HIDE DEF H
<1>2. CtPairingCheck(sig, G2Generator, G1Negate(H), pk) <=> sig = G1Mul(H, pk)
  BY <1>1, PairingCheckIff
<1> QED
  BY <1>2 DEF VerifyBls, H

-----------------------------------------------------------------------------
(* Polynomials of degree one *)

LEMMA MinOfPair == Min({1, 2}) = 1 /\ Min({1}) = 1 /\ Min({2}) = 2
<1>1. \E x \in {1, 2} : \A y \in {1, 2} : x <= y
  OBVIOUS
<1>2. \A x \in {1, 2} : (\A y \in {1, 2} : x <= y) => x = 1
  OBVIOUS
<1> QED
  BY <1>1, <1>2 DEF Min

LEMMA SubsetsOfPair ==
  /\ 1..2 = {1, 2} /\ {1, 2} \ {1} = {2} /\ {2} \ {2} = {} /\ {1} \ {1} = {}
  /\ {1} # {1, 2} /\ {2} # {1, 2} /\ {1} # {2} /\ {1} # {} /\ {2} # {} /\ {1, 2} # {}
  /\ \A s \in SUBSET {1, 2} : s = {} \/ s = {1} \/ s = {2} \/ s = {1, 2}
<1>1. 1..2 = {1, 2} /\ {1, 2} \ {1} = {2} /\ {2} \ {2} = {} /\ {1} \ {1} = {}
  OBVIOUS
<1>2. {1} # {1, 2} /\ {2} # {1, 2} /\ {1} # {2} /\ {1} # {} /\ {2} # {} /\ {1, 2} # {}
  OBVIOUS
<1>3. \A s \in SUBSET {1, 2} : s = {} \/ s = {1} \/ s = {2} \/ s = {1, 2}
  OBVIOUS
<1> QED
  BY <1>1, <1>2, <1>3

HornerBody(f, S, x, it) ==
  [s \in SUBSET S |->
     IF s = {} THEN 0 ELSE Add(f[Min(s)], Mul(it[s \ {Min(s)}], FromU64(x)))]

LEMMA EvalOfTwo ==
  ASSUME NEW coeffs, DOMAIN coeffs = 1..2, coeffs[1] \in Scalars, coeffs[2] \in Scalars,
         NEW x \in Scalars
  PROVE  Eval(coeffs, x) = Add(coeffs[1], Mul(coeffs[2], x))
<1> DEFINE a == coeffs[1]
           b == coeffs[2]
           it == [s \in SUBSET {1, 2} |->
                    IF s = {} THEN 0
                    ELSE IF s = {1, 2} THEN Add(a, Mul(Add(b, Mul(0, FromU64(x))), FromU64(x)))
                    ELSE IF s = {1} THEN Add(a, Mul(0, FromU64(x))) ELSE Add(b, Mul(0, FromU64(x)))]
<1>1. ASSUME NEW s \in SUBSET {1, 2}
      PROVE  it[s] = IF s = {} THEN 0
                     ELSE Add(coeffs[Min(s)], Mul(it[s \ {Min(s)}], FromU64(x)))
  <2>1. it[{}] = 0 /\ it[{2}] = Add(b, Mul(0, FromU64(x)))
        /\ it[{1}] = Add(a, Mul(0, FromU64(x)))
        /\ it[{1, 2}] = Add(a, Mul(Add(b, Mul(0, FromU64(x))), FromU64(x)))
    BY SubsetsOfPair
  <2> HIDE DEF it
  <2>2. CASE s = {1}
    BY <2>1, <2>2, MinOfPair, SubsetsOfPair
  <2>3. CASE s = {2}
    BY <2>1, <2>3, MinOfPair, SubsetsOfPair
  <2>4. CASE s = {1, 2}
    BY <2>1, <2>4, MinOfPair, SubsetsOfPair
  <2> QED
    BY <2>1, <2>2, <2>3, <2>4, SubsetsOfPair
<1>2. it = HornerBody(coeffs, {1, 2}, x, it)
  <2> HIDE DEF a, b
  <2> QED
    BY <1>1 DEF HornerBody
<1> DEFINE chosen == CHOOSE g : g = HornerBody(coeffs, {1, 2}, x, g)
<1>3. chosen = HornerBody(coeffs, {1, 2}, x, chosen)
  <2> HIDE DEF it
  <2> QED
    BY <1>2
<1> HIDE DEF it, chosen
<1>4. \A s \in SUBSET {1, 2} :
        chosen[s] = IF s = {} THEN 0
                    ELSE Add(coeffs[Min(s)], Mul(chosen[s \ {Min(s)}], FromU64(x)))
  BY <1>3 DEF HornerBody
<1>5. chosen[{}] = 0
  BY <1>4
<1>6. chosen[{2}] = Add(b, Mul(0, FromU64(x)))
  BY <1>4, <1>5, MinOfPair, SubsetsOfPair
<1>7. chosen[{1, 2}] = Add(a, Mul(chosen[{2}], FromU64(x)))
  <2>1. chosen[{1, 2}]
          = Add(coeffs[Min({1, 2})], Mul(chosen[{1, 2} \ {Min({1, 2})}], FromU64(x)))
    BY <1>4
  <2> QED
    BY <2>1, MinOfPair, SubsetsOfPair
<1>8. FromU64(x) = x /\ chosen[{2}] = b
  BY <1>6, ScalarTypes, MulLaws, AddLaws
<1>9. Eval(coeffs, x) = chosen[{1, 2}]
  BY SubsetsOfPair DEF Eval, FoldRight, MapThenFoldSet, HornerBody, chosen
<1> QED
  BY <1>7, <1>8, <1>9

CommitmentBody(f, S, x, it) ==
  [s \in SUBSET S |->
     IF s = {} THEN Identity ELSE G1Add(f[Min(s)], G1Mul(it[s \ {Min(s)}], FromU64(x)))]

\* The right-hand side of the verification equation for two commitments.
LEMMA CommitmentOfTwo ==
  ASSUME NEW c, DOMAIN c = 1..2, IsPoint(c[1]), IsPoint(c[2]), NEW x \in Scalars
  PROVE  FoldRight(LAMBDA p, acc : G1Add(p, G1Mul(acc, FromU64(x))), c, Identity)
           = G1Add(c[1], G1Mul(c[2], x))
<1> DEFINE a == c[1]
           b == c[2]
           zero == G1Mul(Identity, FromU64(x))
           it == [s \in SUBSET {1, 2} |->
                    IF s = {} THEN Identity
                    ELSE IF s = {1, 2} THEN G1Add(a, G1Mul(G1Add(b, zero), FromU64(x)))
                    ELSE IF s = {1} THEN G1Add(a, zero) ELSE G1Add(b, zero)]
<1>1. ASSUME NEW s \in SUBSET {1, 2}
      PROVE  it[s] = IF s = {} THEN Identity
                     ELSE G1Add(c[Min(s)], G1Mul(it[s \ {Min(s)}], FromU64(x)))
  <2>1. it[{}] = Identity /\ it[{2}] = G1Add(b, zero) /\ it[{1}] = G1Add(a, zero)
        /\ it[{1, 2}] = G1Add(a, G1Mul(G1Add(b, zero), FromU64(x)))
    BY SubsetsOfPair
  <2> HIDE DEF it
  <2>2. CASE s = {1}
    BY <2>1, <2>2, MinOfPair, SubsetsOfPair
  <2>3. CASE s = {2}
    BY <2>1, <2>3, MinOfPair, SubsetsOfPair
  <2>4. CASE s = {1, 2}
    BY <2>1, <2>4, MinOfPair, SubsetsOfPair
  <2> QED
    BY <2>1, <2>2, <2>3, <2>4, SubsetsOfPair
<1>2. it = CommitmentBody(c, {1, 2}, x, it)
  <2> HIDE DEF a, b, zero
  <2> QED
    BY <1>1 DEF CommitmentBody
<1> DEFINE chosen == CHOOSE g : g = CommitmentBody(c, {1, 2}, x, g)
<1>3. chosen = CommitmentBody(c, {1, 2}, x, chosen)
  <2> HIDE DEF it
  <2> QED
    BY <1>2
<1> HIDE DEF it, chosen
<1>4. \A s \in SUBSET {1, 2} :
        chosen[s] = IF s = {} THEN Identity
                    ELSE G1Add(c[Min(s)], G1Mul(chosen[s \ {Min(s)}], FromU64(x)))
  BY <1>3 DEF CommitmentBody
<1>5. chosen[{}] = Identity
  BY <1>4
<1>6. chosen[{2}] = G1Add(b, zero)
  <2>1. chosen[{2}] = G1Add(c[Min({2})], G1Mul(chosen[{2} \ {Min({2})}], FromU64(x)))
    BY <1>4
  <2> QED
    BY <1>5, <2>1, MinOfPair, SubsetsOfPair
<1>7. chosen[{1, 2}] = G1Add(a, G1Mul(chosen[{2}], FromU64(x)))
  <2>1. chosen[{1, 2}]
          = G1Add(c[Min({1, 2})], G1Mul(chosen[{1, 2} \ {Min({1, 2})}], FromU64(x)))
    BY <1>4
  <2> QED
    BY <2>1, MinOfPair, SubsetsOfPair
<1>8. FromU64(x) = x /\ G1Add(b, zero) = b
  <2>1. FromU64(x) = x
    BY ScalarTypes
  <2>2. IsPoint(zero) /\ \A d : Coefficient(zero, d) = 0
    BY <2>1, IdentityPoint, MulPoint, MulLaws
  <2>3. IsPoint(G1Add(b, zero)) /\ \A d : Coefficient(G1Add(b, zero), d) = Coefficient(b, d)
    <3> HIDE DEF zero
    <3> QED
      BY <2>2, AddPoint, AddLaws, CoefficientType
  <2> QED
    BY <2>1, <2>3, PointsEqual
<1>9. FoldRight(LAMBDA p, acc : G1Add(p, G1Mul(acc, FromU64(x))), c, Identity) = chosen[{1, 2}]
  BY SubsetsOfPair DEF FoldRight, MapThenFoldSet, CommitmentBody, chosen
<1> QED
  BY <1>6, <1>7, <1>8, <1>9
=============================================================================
