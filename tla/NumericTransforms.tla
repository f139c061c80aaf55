------------------------- MODULE NumericTransforms --------------------------
(***************************************************************************)
(* Numbers, their order, and the transforms that work on them              *)
(* (numericTransform and extremumTransform, internal/writes/writes.go;     *)
(* compareNumbers, internal/value/compare.go).                             *)
(*                                                                         *)
(* A number is a record with the field int or dbl.  Doubles are a small    *)
(* floating-point format: integers between -Inf and Inf, and NaN.          *)
(***************************************************************************)
EXTENDS Saturation

CONSTANTS NaN, Inf

ASSUME DoubleAssumption == Inf \in Nat /\ Inf > MaxInt + 1 /\ NaN \notin Int

IsInt(v) == "int" \in DOMAIN v
IsDouble(v) == "dbl" \in DOMAIN v
IsNumeric(v) == IsInt(v) \/ IsDouble(v)
IsNaN(v) == IsDouble(v) /\ v.dbl = NaN
NumberOf(v) == IF IsInt(v) THEN v.int ELSE v.dbl

\* value.Compare, on two numbers: NaN sorts before all others.
Less(v, w) ==
    IF IsNaN(v) \/ IsNaN(w) THEN IsNaN(v) /\ ~IsNaN(w)
    ELSE NumberOf(v) < NumberOf(w)

\* value.Equal, on the scalars an array holds: 1 and 1.0 are equal.
Equal(v, w) ==
    IF IsNumeric(v) /\ IsNumeric(w) THEN ~Less(v, w) /\ ~Less(w, v) ELSE v = w

\* Addition of doubles: overflow is infinite, and Inf - Inf is NaN.
DoublePlus(a, b) ==
    IF NaN \in {a, b} \/ {a, b} = {Inf, -Inf} THEN NaN
    ELSE IF a \in {Inf, -Inf} THEN a
    ELSE IF b \in {Inf, -Inf} THEN b
    ELSE IF a + b > Inf THEN Inf
    ELSE IF a + b < -Inf THEN -Inf
    ELSE a + b

numericTransform(cur, operand) ==
    IF ~IsNumeric(operand) \/ ~IsNumeric(cur) THEN operand
    ELSE IF IsInt(cur) /\ IsInt(operand) THEN [int |-> Increment(cur.int, operand.int)]
    ELSE [dbl |-> DoublePlus(NumberOf(cur), NumberOf(operand))]

\* Mutant: NaN is an operand like another.
extremumNaNOrdered(cur, operand, dir) ==
    IF ~IsNumeric(cur) THEN operand
    ELSE IF IsNaN(cur) THEN cur
    ELSE IF (dir = 1 /\ Less(cur, operand)) \/ (dir = -1 /\ Less(operand, cur))
    THEN operand ELSE cur

extremumTransform(cur, operand, dir) ==
    IF ~IsNumeric(cur) THEN operand
    ELSE IF IsNaN(cur) THEN cur
    ELSE IF IsNaN(operand) THEN [dbl |-> NaN]
    ELSE IF (dir = 1 /\ Less(cur, operand)) \/ (dir = -1 /\ Less(operand, cur))
    THEN operand ELSE cur
=============================================================================
