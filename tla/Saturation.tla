----------------------------- MODULE Saturation -----------------------------
(***************************************************************************)
(* The integer arithmetic of an increment transform (addInt64 and its use  *)
(* in applyTransforms, internal/writes/writes.go): two's complement        *)
(* addition, an overflow test on the wrapped sum, and saturation.          *)
(***************************************************************************)
EXTENDS Integers

CONSTANT MaxInt  \* math.MaxInt64

ASSUME MaxIntAssumption == MaxInt \in Nat

MinInt == -MaxInt - 1
Int64 == MinInt..MaxInt

\* What a + b leaves of a sum of two numbers of this width.
Wrap(n) == IF n > MaxInt THEN n - 2 * (MaxInt + 1)
           ELSE IF n < MinInt THEN n + 2 * (MaxInt + 1)
           ELSE n

\* Mutant: no overflow test.
addInt64Unchecked(a, b) == [sum |-> Wrap(a + b), ok |-> TRUE]

addInt64(a, b) ==
    LET s == Wrap(a + b) IN
    IF (a > 0 /\ b > 0 /\ s < 0) \/ (a < 0 /\ b < 0 /\ s >= 0)
    THEN [sum |-> 0, ok |-> FALSE]
    ELSE [sum |-> s, ok |-> TRUE]

\* The function applyTransforms hands to numericTransform.
Increment(a, b) ==
    LET r == addInt64(a, b) IN
    IF r.ok THEN r.sum
    ELSE IF (a > 0) = (b > 0) /\ a > 0 THEN MaxInt
    ELSE MinInt

\* The reference: the exact sum, clamped to the range.
Clamp(n) == IF n > MaxInt THEN MaxInt ELSE IF n < MinInt THEN MinInt ELSE n
=============================================================================
