-------------------------------- MODULE Field --------------------------------
(***************************************************************************)
(* The scalars of sigimora-math: the integers modulo the order of the two  *)
(* BLS12-381 groups.  The order is a parameter, a small prime here, so     *)
(* that TLC can compute with every scalar.                                 *)
(***************************************************************************)
EXTENDS Integers, SequencesExt

CONSTANT Q           \* the order of the field and of the groups

ASSUME FieldAssumption ==
  Q \in Nat \ {0, 1} /\ \A a, b \in 2..Q-1 : a * b # Q

Scalars == 0..Q-1

\* Every u64 is below the real order; below this one, by its residue.
FromU64(n) == n % Q

Add(a, b) == (a + b) % Q
Sub(a, b) == (a - b) % Q
Mul(a, b) == (a * b) % Q
Negate(a) == (-a) % Q

\* invert returns an Option: no element for zero, one for any other scalar.
Invert(a) == {b \in Scalars : Mul(a, b) = 1}

\* expect and unwrap panic on an empty Option; CHOOSE stops TLC likewise.
Unwrap(option) == CHOOSE b \in option : TRUE

\* Sum and product of the values of a function.
SumOf(f) == FoldFunction(Add, 0, f)

ProductOf(f) == FoldFunction(Mul, 1, f)

\* The value of the polynomial with these coefficients, lowest power first.
Eval(coeffs, x) == FoldRight(LAMBDA c, acc : Add(c, Mul(acc, FromU64(x))), coeffs, 0)

(* An encoded scalar: a number of bytes and the integer they spell.        *)
BadScalar == [ok |-> FALSE]

ScalarFromBytes(b) ==
  IF b.len = 32 /\ b.value < Q THEN [ok |-> TRUE, scalar |-> b.value] ELSE BadScalar

ScalarToBytes(a) == [len |-> 32, value |-> a]
=============================================================================
