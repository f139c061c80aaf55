------------------------------- MODULE ByteKeys -----------------------------
(***************************************************************************)
(* Byte strings as index keys: the order Postgres gives a bytea column     *)
(* (memcmp), the complement that turns it around for a descending field    *)
(* (complement, internal/value/sortkey.go) and the end of a prefix         *)
(* (PrefixEnd, internal/index/index.go).                                   *)
(***************************************************************************)
EXTENDS Integers, Sequences

MaxByte == 255
Byte == 0..MaxByte
Key == Seq(Byte)

\* No upper bound: the nil that PrefixEnd returns.
Unbounded == <<-1>>

Prefix(p, k) == Len(p) <= Len(k) /\ \A i \in 1..Len(p) : p[i] = k[i]

\* a and b agree below position i, where a has the smaller byte.
DifferAt(a, b, i) ==
    /\ i \in 1..Len(a) /\ i \in 1..Len(b)
    /\ a[i] < b[i]
    /\ \A j \in 1..(i - 1) : a[j] = b[j]

\* bytes.Compare(a, b) < 0.
KeyLess(a, b) ==
    \/ \E i \in 1..Len(a) : DifferAt(a, b, i)
    \/ Len(a) < Len(b) /\ Prefix(a, b)

KeyLeq(a, b) == a = b \/ KeyLess(a, b)

Complement(k) == [i \in 1..Len(k) |-> MaxByte - k[i]]

\* The last byte that can be incremented, where the loop of PrefixEnd stops.
Increments(p, i) ==
    /\ i \in 1..Len(p) /\ p[i] # MaxByte
    /\ \A j \in (i + 1)..Len(p) : p[j] = MaxByte

\* The prefix cut after position i, with that byte incremented.
IncrementedAt(p, i) == [j \in 1..i |-> IF j = i THEN p[j] + 1 ELSE p[j]]

\* Mutant: the last byte is incremented and the rest forgotten.
PrefixEndLastByte(p) ==
    IF p = <<>> \/ p[Len(p)] = MaxByte THEN Unbounded ELSE IncrementedAt(p, Len(p))

PrefixEnd(p) ==
    IF \E i \in 1..Len(p) : Increments(p, i)
    THEN IncrementedAt(p, CHOOSE i \in 1..Len(p) : Increments(p, i))
    ELSE Unbounded

\* k is in the half-open range [lo, hi).
InRange(k, lo, hi) == KeyLeq(lo, k) /\ (hi = Unbounded \/ KeyLess(k, hi))
=============================================================================
