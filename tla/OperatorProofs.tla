--------------------------- MODULE OperatorProofs ---------------------------
(***************************************************************************)
(* Proofs about operators without state: the byte keys of an index         *)
(* (ByteKeys), the arithmetic of an increment (Saturation), and maxima and *)
(* minima (NumericTransforms).                                             *)
(***************************************************************************)
EXTENDS ByteKeys, NumericTransforms, TLAPS

(***************************************************************************)
(* What the planner relies on, for keys of every length.                   *)
(***************************************************************************)

\* What membership in Key says, position by position.
LEMMA KeyBytes ==
    ASSUME NEW k \in Key
    PROVE  /\ Len(k) \in Nat
           /\ \A i \in 1..Len(k) : k[i] \in Int /\ 0 <= k[i] /\ k[i] <= MaxByte
<1>1. Len(k) \in Nat /\ \A i \in 1..Len(k) : k[i] \in Byte
  BY DEF Key
<1>2. \A b \in Byte : b \in Int /\ 0 <= b /\ b <= MaxByte BY DEF Byte, MaxByte
<1> QED BY <1>1, <1>2

\* Keys of one length with the same bytes are the same.
LEMMA KeyEqual ==
    ASSUME NEW a \in Key, NEW b \in Key, Len(a) = Len(b),
           \A i \in 1..Len(a) : a[i] = b[i]
    PROVE  a = b
  BY DEF Key

\* Incrementing at a position the loop of PrefixEnd stops at bounds the keys
\* that begin with the prefix, and no others.
LEMMA IncrementBounds ==
    ASSUME NEW p \in Key, NEW k \in Key, NEW i \in 1..Len(p), Increments(p, i)
    PROVE  Prefix(p, k) <=> KeyLeq(p, k) /\ KeyLess(k, IncrementedAt(p, i))
<1> DEFINE e == IncrementedAt(p, i)
<1>p. Len(p) \in Nat /\ \A j \in 1..Len(p) : p[j] \in Int /\ p[j] <= MaxByte
  BY KeyBytes
<1>k. Len(k) \in Nat /\ \A j \in 1..Len(k) : k[j] \in Int /\ k[j] <= MaxByte
  BY KeyBytes
<1>i. i \in Nat /\ i >= 1 /\ i <= Len(p) BY <1>p
<1>1. Len(e) = i /\ e[i] = p[i] + 1 /\ \A j \in 1..(i - 1) : e[j] = p[j]
  BY <1>i DEF IncrementedAt
<1> HIDE DEF e
<1>2. ASSUME Prefix(p, k) PROVE KeyLeq(p, k) /\ KeyLess(k, e)
  <2>1. KeyLess(k, e)
    <3>1. DifferAt(k, e, i)
      BY <1>p, <1>k, <1>i, <1>1, <1>2 DEF DifferAt, Prefix
    <3> QED BY <3>1 DEF KeyLess, DifferAt
  <2>2. CASE Len(p) < Len(k)
    BY <2>1, <2>2, <1>2 DEF KeyLeq, KeyLess
  <2>3. CASE ~(Len(p) < Len(k))
    <3>1. p = k BY <2>3, <1>2, <1>p, <1>k, KeyEqual DEF Prefix
    <3> QED BY <2>1, <3>1 DEF KeyLeq
  <2> QED BY <2>2, <2>3
<1>3. ASSUME KeyLeq(p, k), KeyLess(k, e) PROVE Prefix(p, k)
  <2>1. CASE p = k BY <2>1, <1>p DEF Prefix
  <2>2. CASE Len(p) < Len(k) /\ Prefix(p, k) BY <2>2
  <2>3. CASE \E j \in 1..Len(p) : DifferAt(p, k, j)
    <3>1. PICK j \in 1..Len(p) : DifferAt(p, k, j) BY <2>3
    <3>2. /\ j \in Nat /\ j >= 1 /\ j <= Len(p) /\ j <= Len(k)
          /\ p[j] < k[j] /\ \A m \in 1..(j - 1) : p[m] = k[m]
      BY <3>1, <1>p, <1>k DEF DifferAt
    <3>3. j <= i
      BY <3>2, <1>i, <1>p, <1>k DEF Increments
    <3>4. k[j] \in Int /\ p[j] \in Int /\ p[i] \in Int BY <3>2, <1>p, <1>k, <1>i
    <3>5. j < i => e[j] = p[j] BY <3>2, <1>i, <1>1
    <3>6. ~(k[j] < e[j]) BY <3>2, <3>3, <3>4, <3>5, <1>1, <1>i
    <3>7. \A m \in 1..(j - 1) : k[m] = e[m] BY <3>2, <3>3, <1>1, <1>i
    <3>8. j < i => k[j] # e[j] BY <3>2, <3>4, <3>5
    <3>9. ASSUME NEW m \in 1..Len(k), DifferAt(k, e, m) PROVE FALSE
      <4>1. /\ m \in Nat /\ m >= 1 /\ m <= i /\ k[m] < e[m] /\ k[m] \in Int
            /\ \A n \in 1..(m - 1) : k[n] = e[n]
        BY <3>9, <1>1, <1>k, <1>i DEF DifferAt
      <4>2. CASE m < j
        <5>1. k[m] = e[m] BY <4>1, <4>2, <3>2, <3>7
        <5> QED BY <4>1, <5>1
      <4>3. CASE m = j BY <4>1, <4>3, <3>6
      <4>4. CASE m > j
        <5>1. k[j] = e[j] BY <4>1, <4>4, <3>2
        <5> QED BY <5>1, <4>1, <4>4, <3>2, <3>8, <1>i
      <4> QED BY <4>1, <4>2, <4>3, <4>4, <3>2
    <3>10. ASSUME Len(k) < Len(e), Prefix(k, e) PROVE FALSE
      BY <3>10, <3>2, <3>8, <1>1, <1>k, <1>i DEF Prefix
    <3> QED BY <3>9, <3>10, <1>3 DEF KeyLess
  <2> QED BY <2>1, <2>2, <2>3, <1>3 DEF KeyLeq, KeyLess
<1> QED BY <1>2, <1>3 DEF e

\* "The exclusive upper bound for a prefix range scan" (PrefixEnd): unless every
\* byte of the prefix is 0xFF, [p, PrefixEnd(p)) holds exactly the keys that
\* begin with p.
THEOREM PrefixRange ==
    ASSUME NEW p \in Key, NEW k \in Key, PrefixEnd(p) # Unbounded
    PROVE  Prefix(p, k) <=> InRange(k, p, PrefixEnd(p))
<1>1. PICK i \in 1..Len(p) : Increments(p, i) /\ PrefixEnd(p) = IncrementedAt(p, i)
  BY DEF PrefixEnd
<1>2. Prefix(p, k) <=> KeyLeq(p, k) /\ KeyLess(k, PrefixEnd(p))
  BY <1>1, IncrementBounds
<1> QED BY <1>2 DEF InRange

\* "The scheme is prefix-free, so complementing reverses order" (sortkey.go): of
\* two keys neither of which begins with the other, the complements are in the
\* opposite order.
THEOREM ComplementReverses ==
    ASSUME NEW a \in Key, NEW b \in Key, ~Prefix(a, b), ~Prefix(b, a)
    PROVE  KeyLess(a, b) <=> KeyLess(Complement(b), Complement(a))
<1> DEFINE ca == Complement(a)
           cb == Complement(b)
<1>a. Len(a) \in Nat /\ \A i \in 1..Len(a) : a[i] \in Int BY KeyBytes
<1>b. Len(b) \in Nat /\ \A i \in 1..Len(b) : b[i] \in Int BY KeyBytes
<1>1. /\ Len(ca) = Len(a) /\ \A i \in 1..Len(a) : ca[i] = MaxByte - a[i]
      /\ Len(cb) = Len(b) /\ \A i \in 1..Len(b) : cb[i] = MaxByte - b[i]
  BY <1>a, <1>b DEF Complement
<1> HIDE DEF ca, cb
<1>2. ASSUME NEW i PROVE DifferAt(a, b, i) <=> DifferAt(cb, ca, i)
  <2>1. ASSUME NEW j \in 1..Len(a), j \in 1..Len(b)
        PROVE  (a[j] < b[j] <=> cb[j] < ca[j]) /\ (a[j] = b[j] <=> cb[j] = ca[j])
    BY <2>1, <1>a, <1>b, <1>1 DEF MaxByte
  <2>2. i \in 1..Len(a) /\ i \in 1..Len(b) =>
          \A j \in 1..(i - 1) : j \in 1..Len(a) /\ j \in 1..Len(b)
    BY <1>a, <1>b
  <2> QED BY <2>1, <2>2, <1>1 DEF DifferAt
<1>3. ~Prefix(cb, ca)
  <2>1. SUFFICES ASSUME Prefix(cb, ca) PROVE FALSE OBVIOUS
  <2>2. \A i \in 1..Len(b) : a[i] = b[i]
    BY <2>1, <1>a, <1>b, <1>1 DEF Prefix, MaxByte
  <2> QED BY <2>1, <2>2, <1>1 DEF Prefix
<1>4. \A i : DifferAt(a, b, i) => i \in 1..Len(a) /\ i \in 1..Len(b)
  BY DEF DifferAt
<1>5. KeyLess(a, b) <=> \E i : DifferAt(a, b, i) BY <1>4 DEF KeyLess
<1>6. KeyLess(cb, ca) <=> \E i : DifferAt(cb, ca, i)
  BY <1>3 DEF KeyLess, DifferAt
<1> QED BY <1>2, <1>5, <1>6 DEF ca, cb

\* "Complementing reverses order even across field boundaries": two keys in
\* which neither begins with the other stay in their order whatever is
\* appended to each, so a multi-field key is ordered by its first difference.
THEOREM FirstFieldDecides ==
    ASSUME NEW a \in Key, NEW b \in Key, NEW x \in Key, NEW y \in Key,
           ~Prefix(a, b), KeyLess(a, b)
    PROVE  KeyLess(a \o x, b \o y)
<1>1. PICK i \in 1..Len(a) : DifferAt(a, b, i) BY DEF KeyLess
<1>a. /\ Len(a) \in Nat /\ Len(b) \in Nat /\ Len(x) \in Nat /\ Len(y) \in Nat
      /\ i \in Nat /\ i >= 1 /\ i <= Len(a) /\ i <= Len(b)
  BY <1>1, KeyBytes DEF DifferAt
<1>2. /\ Len(a \o x) = Len(a) + Len(x) /\ \A j \in 1..Len(a) : (a \o x)[j] = a[j]
      /\ Len(b \o y) = Len(b) + Len(y) /\ \A j \in 1..Len(b) : (b \o y)[j] = b[j]
  BY DEF Key
<1>3. DifferAt(a \o x, b \o y, i)
  <2>1. i \in 1..Len(a \o x) /\ i \in 1..Len(b \o y) BY <1>a, <1>2
  <2>2. (a \o x)[i] < (b \o y)[i] BY <1>1, <1>a, <1>2 DEF DifferAt
  <2>3. \A j \in 1..(i - 1) : (a \o x)[j] = (b \o y)[j]
    <3>1. TAKE j \in 1..(i - 1)
    <3>2. j \in 1..Len(a) /\ j \in 1..Len(b) BY <1>a
    <3> QED BY <3>2, <1>1, <1>2 DEF DifferAt
  <2> QED BY <2>1, <2>2, <2>3 DEF DifferAt
<1> QED BY <1>3 DEF KeyLess, DifferAt

-----------------------------------------------------------------------------
(***************************************************************************)
(* Increments, for integers of every width.                                *)
(***************************************************************************)

\* The overflow test of addInt64 is exact: it fails on a sum that left the
\* range, and only on one, and else the wrapped sum is the sum.
LEMMA OverflowTestExact ==
    ASSUME NEW a \in Int64, NEW b \in Int64
    PROVE  /\ addInt64(a, b).ok <=> a + b \in Int64
           /\ a + b \in Int64 => addInt64(a, b).sum = a + b
<1>1. MaxInt \in Nat /\ a \in Int /\ b \in Int /\ MinInt = -MaxInt - 1
  BY MaxIntAssumption DEF Int64, MinInt
<1>2. a + b \in Int64 <=> MinInt <= a + b /\ a + b <= MaxInt
  BY <1>1 DEF Int64
<1>3. CASE a + b > MaxInt
  <2>1. Wrap(a + b) = a + b - 2 * (MaxInt + 1)
    BY <1>1, <1>3 DEF Wrap
  <2>2. a > 0 /\ b > 0 /\ Wrap(a + b) < 0
    BY <1>1, <1>3, <2>1 DEF Int64
  <2>3. addInt64(a, b) = [sum |-> 0, ok |-> FALSE]
    BY <2>2 DEF addInt64
  <2> QED BY <1>1, <1>2, <1>3, <2>3
<1>4. CASE a + b < MinInt
  <2>1. Wrap(a + b) = a + b + 2 * (MaxInt + 1)
    BY <1>1, <1>4 DEF Wrap
  <2>2. a < 0 /\ b < 0 /\ Wrap(a + b) >= 0
    BY <1>1, <1>4, <2>1 DEF Int64
  <2>3. addInt64(a, b) = [sum |-> 0, ok |-> FALSE]
    BY <2>2 DEF addInt64
  <2> QED BY <1>1, <1>2, <1>4, <2>3
<1>5. CASE MinInt <= a + b /\ a + b <= MaxInt
  <2>1. Wrap(a + b) = a + b
    BY <1>1, <1>5 DEF Wrap
  <2>2. ~(a > 0 /\ b > 0 /\ Wrap(a + b) < 0) /\ ~(a < 0 /\ b < 0 /\ Wrap(a + b) >= 0)
    BY <1>1, <2>1
  <2>3. addInt64(a, b) = [sum |-> a + b, ok |-> TRUE]
    BY <2>1, <2>2 DEF addInt64
  <2> QED BY <1>2, <1>5, <2>3
<1> QED BY <1>1, <1>3, <1>4, <1>5

\* "Integer overflow saturates" (numericTransform): an increment is the exact
\* sum clamped to the range, for every width and every two numbers of it.
THEOREM IncrementClamps ==
    \A a, b \in Int64 : Increment(a, b) = Clamp(a + b)
<1> SUFFICES ASSUME NEW a \in Int64, NEW b \in Int64
             PROVE  Increment(a, b) = Clamp(a + b)
  OBVIOUS
<1>1. MaxInt \in Nat /\ a \in Int /\ b \in Int /\ MinInt = -MaxInt - 1
  BY MaxIntAssumption DEF Int64, MinInt
<1>2. CASE a + b \in Int64
  <2>1. Increment(a, b) = a + b
    BY <1>2, OverflowTestExact DEF Increment
  <2> QED BY <1>1, <1>2, <2>1 DEF Clamp, Int64
<1>3. CASE a + b > MaxInt
  <2>1. a > 0 /\ b > 0 /\ a + b \notin Int64
    BY <1>1, <1>3 DEF Int64
  <2>2. ~addInt64(a, b).ok
    BY <2>1, OverflowTestExact
  <2>3. Increment(a, b) = MaxInt
    BY <2>1, <2>2 DEF Increment
  <2> QED BY <1>3, <2>3 DEF Clamp
<1>4. CASE a + b < MinInt
  <2>1. ~(a > 0) /\ a + b \notin Int64 /\ ~(a + b > MaxInt)
    BY <1>1, <1>4 DEF Int64
  <2>2. ~addInt64(a, b).ok
    BY <2>1, OverflowTestExact
  <2>3. Increment(a, b) = MinInt
    BY <2>1, <2>2 DEF Increment
  <2> QED BY <1>4, <2>1, <2>3 DEF Clamp
<1> QED BY <1>1, <1>2, <1>3, <1>4 DEF Int64

-----------------------------------------------------------------------------
(***************************************************************************)
(* Maxima and minima.                                                      *)
(***************************************************************************)

Number == [int : Int64] \cup [dbl : (-Inf)..Inf \cup {NaN}]

\* What a number is, and how two of them compare.
LEMMA NumberFacts ==
    ASSUME NEW v \in Number
    PROVE  /\ IsNumeric(v) /\ (IsNaN(v) <=> NumberOf(v) = NaN)
           /\ ~IsNaN(v) => NumberOf(v) \in Int
<1>1. CASE v \in [int : Int64]
  <2>1. v.int \in Int  BY <1>1, MaxIntAssumption DEF Int64, MinInt
  <2>2. IsInt(v) /\ ~IsDouble(v)  BY <1>1 DEF IsInt, IsDouble
  <2> QED  BY <2>1, <2>2, DoubleAssumption DEF IsNumeric, IsNaN, NumberOf
<1>2. CASE v \in [dbl : (-Inf)..Inf \cup {NaN}]
  <2>1. v.dbl \in Int \/ v.dbl = NaN  BY <1>2, DoubleAssumption
  <2>2. IsDouble(v) /\ ~IsInt(v)  BY <1>2 DEF IsInt, IsDouble
  <2> QED  BY <2>1, <2>2 DEF IsNumeric, IsNaN, NumberOf
<1> QED  BY <1>1, <1>2 DEF Number

\* The extremum of two numbers: NaN if one of them is, or the larger or smaller.
LEMMA ExtremumOfNumbers ==
    ASSUME NEW v \in Number, NEW w \in Number, NEW dir \in {1, -1}
    PROVE  LET e == extremumTransform(v, w, dir)
           IN  /\ e \in Number
               /\ IsNaN(v) \/ IsNaN(w) => IsNaN(e)
               /\ ~IsNaN(v) /\ ~IsNaN(w) =>
                     /\ ~IsNaN(e)
                     /\ dir = 1 => NumberOf(e) = IF NumberOf(v) < NumberOf(w)
                                                 THEN NumberOf(w) ELSE NumberOf(v)
                     /\ dir = -1 => NumberOf(e) = IF NumberOf(w) < NumberOf(v)
                                                  THEN NumberOf(w) ELSE NumberOf(v)
<1>1. /\ IsNumeric(v) /\ (~IsNaN(v) => NumberOf(v) \in Int)
      /\ IsNumeric(w) /\ (~IsNaN(w) => NumberOf(w) \in Int)
  BY NumberFacts
<1>2. CASE IsNaN(v)  BY <1>1, <1>2 DEF extremumTransform
<1>3. CASE ~IsNaN(v) /\ IsNaN(w)
  <2>1. extremumTransform(v, w, dir) = [dbl |-> NaN]
    BY <1>1, <1>3 DEF extremumTransform
  <2>2. [dbl |-> NaN] \in Number /\ IsNaN([dbl |-> NaN])  BY DEF Number, IsNaN, IsDouble
  <2> QED  BY <1>3, <2>1, <2>2
<1>4. CASE ~IsNaN(v) /\ ~IsNaN(w)
  <2>1. /\ Less(v, w) <=> NumberOf(v) < NumberOf(w)
        /\ Less(w, v) <=> NumberOf(w) < NumberOf(v)
    BY <1>4 DEF Less
  <2>2. CASE dir = 1
    BY <1>1, <1>4, <2>1, <2>2 DEF extremumTransform
  <2>3. CASE dir = -1
    BY <1>1, <1>4, <2>1, <2>3 DEF extremumTransform
  <2> QED  BY <2>2, <2>3
<1> QED  BY <1>2, <1>3, <1>4

LEMMA NumbersEqual ==
    ASSUME NEW v \in Number, NEW w \in Number, IsNaN(v) <=> IsNaN(w),
           ~IsNaN(v) => NumberOf(v) = NumberOf(w)
    PROVE  Equal(v, w)
BY NumberFacts DEF Equal, Less

\* Two maxima, or two minima, that two clients send come to equal numbers in
\* either order, NaN included, whatever the field held (extremumTransform:
\* "non-numbers/missing take the operand; NaN wins").
THEOREM ExtremaOfNumbersCommute ==
    ASSUME NEW v \in Number, NEW w \in Number, NEW dir \in {1, -1},
           NEW cur, IsNumeric(cur) => cur \in Number
    PROVE  Equal(extremumTransform(extremumTransform(cur, v, dir), w, dir),
                 extremumTransform(extremumTransform(cur, w, dir), v, dir))
<1> DEFINE X(a, b) == extremumTransform(a, b, dir)
<1>1. CASE ~IsNumeric(cur)
  <2>1. X(cur, v) = v /\ X(cur, w) = w  BY <1>1 DEF extremumTransform
  <2>2. /\ X(v, w) \in Number /\ X(w, v) \in Number
        /\ IsNaN(X(v, w)) <=> IsNaN(v) \/ IsNaN(w)
        /\ IsNaN(X(w, v)) <=> IsNaN(v) \/ IsNaN(w)
    BY ExtremumOfNumbers
  <2>3. ASSUME ~IsNaN(v), ~IsNaN(w) PROVE NumberOf(X(v, w)) = NumberOf(X(w, v))
    <3>1. NumberOf(v) \in Int /\ NumberOf(w) \in Int  BY <2>3, NumberFacts
    <3> QED  BY <2>3, <3>1, ExtremumOfNumbers
  <2> HIDE DEF X
  <2>4. Equal(X(v, w), X(w, v))  BY <2>2, <2>3, NumbersEqual
  <2> QED  BY <2>1, <2>4 DEF X
<1>2. CASE IsNumeric(cur)
  <2>1. cur \in Number  BY <1>2
  <2>2. X(cur, v) \in Number /\ X(cur, w) \in Number  BY <2>1, ExtremumOfNumbers
  <2>3. /\ X(X(cur, v), w) \in Number /\ X(X(cur, w), v) \in Number
        /\ IsNaN(X(X(cur, v), w)) <=> IsNaN(cur) \/ IsNaN(v) \/ IsNaN(w)
        /\ IsNaN(X(X(cur, w), v)) <=> IsNaN(cur) \/ IsNaN(v) \/ IsNaN(w)
    BY <2>1, <2>2, ExtremumOfNumbers
  <2>4. ASSUME ~IsNaN(cur), ~IsNaN(v), ~IsNaN(w)
        PROVE  NumberOf(X(X(cur, v), w)) = NumberOf(X(X(cur, w), v))
    <3>1. NumberOf(cur) \in Int /\ NumberOf(v) \in Int /\ NumberOf(w) \in Int
      BY <2>1, <2>4, NumberFacts
    <3> DEFINE Pick(a, b) == IF (dir = 1 /\ a < b) \/ (dir = -1 /\ b < a) THEN b ELSE a
    <3>2. \A a, b \in Number : ~IsNaN(a) /\ ~IsNaN(b) =>
             ~IsNaN(X(a, b)) /\ NumberOf(X(a, b)) = Pick(NumberOf(a), NumberOf(b))
      BY ExtremumOfNumbers
    <3> HIDE DEF X, Pick
    <3>3. /\ NumberOf(X(X(cur, v), w)) = Pick(Pick(NumberOf(cur), NumberOf(v)), NumberOf(w))
          /\ NumberOf(X(X(cur, w), v)) = Pick(Pick(NumberOf(cur), NumberOf(w)), NumberOf(v))
      BY <2>1, <2>2, <2>4, <3>2
    <3>4. ASSUME NEW a \in Int, NEW b \in Int, NEW c \in Int
          PROVE  Pick(Pick(a, b), c) = Pick(Pick(a, c), b)
      BY DEF Pick
    <3> QED  BY <3>1, <3>3, <3>4
  <2> HIDE DEF X
  <2>5. Equal(X(X(cur, v), w), X(X(cur, w), v))  BY <2>3, <2>4, NumbersEqual
  <2> QED  BY <2>5 DEF X
<1> QED  BY <1>1, <1>2

\* A maximum or minimum that is sent again because its answer was lost changes
\* nothing, not even the type of the number ("on ties the stored value is kept").
THEOREM ExtremumIdempotent ==
    ASSUME NEW v \in Number, NEW dir \in {1, -1},
           NEW cur, IsNumeric(cur) => cur \in Number
    PROVE  extremumTransform(extremumTransform(cur, v, dir), v, dir)
              = extremumTransform(cur, v, dir)
<1>1. IsNumeric(v) /\ (IsNaN(v) <=> NumberOf(v) = NaN) /\ (~IsNaN(v) => NumberOf(v) \in Int)
  BY NumberFacts
<1>2. extremumTransform(v, v, dir) = v
  <2>1. ~IsNaN(v) => ~Less(v, v)  BY <1>1 DEF Less
  <2> QED  BY <1>1, <2>1 DEF extremumTransform
<1>3. CASE ~IsNumeric(cur)  BY <1>2, <1>3 DEF extremumTransform
<1>4. CASE IsNumeric(cur) /\ IsNaN(cur)  BY <1>4 DEF extremumTransform
<1>5. CASE IsNumeric(cur) /\ ~IsNaN(cur) /\ IsNaN(v)
  <2>1. extremumTransform(cur, v, dir) = [dbl |-> NaN]  BY <1>5 DEF extremumTransform
  <2>2. IsNumeric([dbl |-> NaN]) /\ IsNaN([dbl |-> NaN])  BY DEF IsNumeric, IsNaN, IsDouble
  <2> QED  BY <2>1, <2>2 DEF extremumTransform
<1>6. CASE IsNumeric(cur) /\ ~IsNaN(cur) /\ ~IsNaN(v)
  <2>1. extremumTransform(cur, v, dir) = v \/ extremumTransform(cur, v, dir) = cur
    BY <1>6 DEF extremumTransform
  <2>2. CASE extremumTransform(cur, v, dir) = v  BY <1>2, <2>2
  <2>3. CASE extremumTransform(cur, v, dir) = cur  BY <2>3
  <2> QED  BY <2>1, <2>2, <2>3
<1> QED  BY <1>3, <1>4, <1>5, <1>6
=============================================================================
