------------------------------- MODULE Values -------------------------------
(***************************************************************************)
(* Values of fields (package value): Firestore's total order (Compare,     *)
(* compare.go), its byte encoding for index keys (AppendSortKey,           *)
(* sortkey.go), the tagged JSON of the data column (value.go) and the      *)
(* jsonb probes that narrow a scan (containment.go).                       *)
(*                                                                         *)
(* A value is a record whose one field says its type.  Doubles are         *)
(* multiples of one half, kept as the integer of halves, with four special *)
(* ones; strings, segments and map keys are sequences of bytes; a          *)
(* reference is the sequence of its segments; a timestamp is in units of   *)
(* which Micro make a microsecond.  A Vector, a marked map in the          *)
(* protocol, has a type of its own here.  An exponent and a mantissa take  *)
(* one byte each instead of two and eight, and so do the double of a       *)
(* geopoint and a timestamp.                                               *)
(***************************************************************************)
EXTENDS ByteKeys, FiniteSets, SequencesExt

Micro == 2

NaN == 9000
PosInf == 8000
NegInf == -8000
NegZero == 7000

Is(v, type) == type \in DOMAIN v

IsNull(v) == Is(v, "null")
IsNaN(v) == Is(v, "dbl") /\ v.dbl = NaN

Sign(n) == IF n < 0 THEN -1 ELSE IF n > 0 THEN 1 ELSE 0

(***************************************************************************)
(* Compare.                                                                *)
(***************************************************************************)

\* The types in their order: a value of an earlier one is less.
TypeNames == <<"null", "bool", "nan", "num", "time", "str", "bytes", "ref", "geo",
               "arr", "vec", "map">>

TypeOrder(v) ==
    LET name == IF IsNaN(v) THEN "nan"
                ELSE IF Is(v, "int") \/ Is(v, "dbl") THEN "num"
                ELSE CHOOSE n \in DOMAIN v : TRUE
    IN  CHOOSE i \in DOMAIN TypeNames : TypeNames[i] = name

\* Mutant: a sign of zero is kept.
NormalizeZeroNot(h) == IF h = NegZero THEN -1 ELSE h

normalizeZero(h) == IF h = NegZero THEN 0 ELSE h

\* The exact mathematical value of a number, in halves.
Halves(v) == IF Is(v, "int") THEN 2 * v.int ELSE normalizeZero(v.dbl)

compareNumbers(a, b) == Sign(Halves(a) - Halves(b))

CompareBytes(a, b) == IF KeyLess(a, b) THEN -1 ELSE IF a = b THEN 0 ELSE 1

\* The comparison of two sequences by their first difference under c, then by
\* length, given c(i) on the positions both have.
ByFirst(la, lb, c(_)) ==
    LET n == IF la < lb THEN la ELSE lb
        i == SelectInSeq([k \in 1..n |-> c(k)], LAMBDA x : x # 0)
    IN  IF i = 0 THEN Sign(la - lb) ELSE c(i)

\* Mutant: as the name column is ordered, by the bytes of the whole name.
CompareNamesByBytes(a, b) ==
    LET join(n) == FlattenSeq([i \in DOMAIN n |-> IF i = 1 THEN n[i] ELSE <<47>> \o n[i]])
    IN  CompareBytes(join(a), join(b))

\* By segment.
CompareResourceNames(a, b) ==
    ByFirst(Len(a), Len(b), LAMBDA i : CompareBytes(a[i], b[i]))

sortedKeys(m) == SetToSortSeq(DOMAIN m, KeyLess)

RECURSIVE Compare(_, _)
Compare(a, b) ==
    LET compareArrays(s, t) == ByFirst(Len(s), Len(t), LAMBDA i : Compare(s[i], t[i]))
        compareMaps(f, g) ==
            LET ks == sortedKeys(f)
                kt == sortedKeys(g)
                key(i) == CompareBytes(ks[i], kt[i])
            IN  ByFirst(Len(ks), Len(kt), LAMBDA i :
                    IF key(i) # 0 THEN key(i) ELSE Compare(f[ks[i]], g[kt[i]]))
    IN  IF TypeOrder(a) # TypeOrder(b) THEN Sign(TypeOrder(a) - TypeOrder(b))
        ELSE CASE IsNull(a) \/ IsNaN(a) -> 0
               [] Is(a, "bool") -> IF a = b THEN 0 ELSE IF b.bool THEN -1 ELSE 1
               [] Is(a, "int") \/ Is(a, "dbl") -> compareNumbers(a, b)
               [] Is(a, "time") -> Sign(a.time - b.time)
               [] Is(a, "str") -> CompareBytes(a.str, b.str)
               [] Is(a, "bytes") -> CompareBytes(a.bytes, b.bytes)
               [] Is(a, "ref") -> CompareResourceNames(a.ref, b.ref)
               [] Is(a, "geo") -> ByFirst(2, 2, LAMBDA i :
                      Sign(normalizeZero(a.geo[i]) - normalizeZero(b.geo[i])))
               [] Is(a, "arr") -> compareArrays(a.arr, b.arr)
               [] Is(a, "vec") -> IF Len(a.vec) # Len(b.vec)
                                  THEN Sign(Len(a.vec) - Len(b.vec))
                                  ELSE compareArrays(a.vec, b.vec)
               [] Is(a, "map") -> compareMaps(a.map, b.map)

(***************************************************************************)
(* Sort keys.                                                              *)
(***************************************************************************)

tagNull == 16
tagBool == 24
tagNaN == 32
tagNumber == 40
tagTimestamp == 48
tagString == 56
tagBytes == 64
tagReference == 72
tagGeoPoint == 80
tagArray == 88
tagVector == 92
tagMap == 96

itemMarker == 1
endMarker == 0

\* Mutant: a zero byte is not escaped.
AppendUnescaped(s) == s \o <<0, 1>>

\* Zero bytes escaped, and a terminator below every escape.
appendEscaped(s) ==
    FlattenSeq([i \in DOMAIN s |-> IF s[i] = 0 THEN <<0, MaxByte>> ELSE <<s[i]>>])
        \o <<0, 1>>

ExpBias == 16
MantissaBits == 8

BitLen(n) == CHOOSE b \in 0..MantissaBits : 2^b > n /\ (b = 0 \/ 2^(b - 1) <= n)

\* Class, biased exponent and left-aligned mantissa, the latter two complemented
\* for a negative number.
appendNumParts(neg, exp, mant) ==
    LET payload == <<exp + ExpBias, mant>>
    IN  IF neg THEN <<1>> \o Complement(payload) ELSE <<3>> \o payload

appendIntKey(x) ==
    LET mag == IF x < 0 THEN -x ELSE x
    IN  IF x = 0 THEN <<2>>
        ELSE appendNumParts(x < 0, BitLen(mag) - 1, mag * 2^(MantissaBits - BitLen(mag)))

\* h is the double in halves, so that its exponent is one less.
appendDoubleKey(h) ==
    LET mag == IF h < 0 THEN -h ELSE h
    IN  CASE h = 0 \/ h = NegZero -> <<2>>
          [] h = PosInf -> <<4>>
          [] h = NegInf -> <<0>>
          [] OTHER -> appendNumParts(h < 0, BitLen(mag) - 2,
                                     mag * 2^(MantissaBits - BitLen(mag)))

SignBit == 128

\* Mutant: of a negative double only the sign is turned.
OrderedDoubleSignOnly(h) ==
    LET z == normalizeZero(h) IN <<IF z < 0 THEN -z ELSE z + SignBit>>

\* A double's bits, a sign and a magnitude: all complemented if it is negative,
\* and otherwise the sign set.
appendOrderedDouble(h) ==
    LET z == normalizeZero(h)
        bits == IF z < 0 THEN SignBit - z ELSE z
    IN  <<IF bits >= SignBit THEN MaxByte - bits ELSE bits + SignBit>>

\* The seconds of a timestamp, in two's complement with the sign bit flipped.
appendSeconds(t) == <<((t % (2 * SignBit)) + SignBit) % (2 * SignBit)>>

Framed(items) == FlattenSeq([i \in DOMAIN items |-> <<itemMarker>> \o items[i]])
                     \o <<endMarker>>

\* A resource name, segment by segment: the end of an index key.
AppendNameKey(n) == Framed([i \in DOMAIN n |-> appendEscaped(n[i])])

RECURSIVE AppendSortKey(_)
AppendSortKey(v) ==
    CASE IsNull(v) -> <<tagNull>>
      [] Is(v, "bool") -> <<tagBool, IF v.bool THEN 1 ELSE 0>>
      [] Is(v, "int") -> <<tagNumber>> \o appendIntKey(v.int)
      [] IsNaN(v) -> <<tagNaN>>
      [] Is(v, "dbl") /\ ~IsNaN(v) -> <<tagNumber>> \o appendDoubleKey(v.dbl)
      [] Is(v, "time") -> <<tagTimestamp>> \o appendSeconds(v.time)
      [] Is(v, "str") -> <<tagString>> \o appendEscaped(v.str)
      [] Is(v, "bytes") -> <<tagBytes>> \o appendEscaped(v.bytes)
      [] Is(v, "ref") -> <<tagReference>> \o AppendNameKey(v.ref)
      [] Is(v, "geo") -> <<tagGeoPoint>> \o appendOrderedDouble(v.geo[1])
                                     \o appendOrderedDouble(v.geo[2])
      [] Is(v, "arr") -> <<tagArray>> \o Framed([i \in DOMAIN v.arr |-> AppendSortKey(v.arr[i])])
      [] Is(v, "vec") -> <<tagVector, Len(v.vec)>>
                             \o Framed([i \in DOMAIN v.vec |-> AppendSortKey(v.vec[i])])
      [] Is(v, "map") ->
           LET ks == sortedKeys(v.map)
           IN  <<tagMap>> \o Framed([i \in DOMAIN ks |->
                                 appendEscaped(ks[i]) \o AppendSortKey(v.map[ks[i]])])

\* In the direction of an index field (AppendSortKeyDesc complements).
SortKey(v, desc) == IF desc THEN Complement(AppendSortKey(v)) ELSE AppendSortKey(v)
NameKey(n, desc) == IF desc THEN Complement(AppendNameKey(n)) ELSE AppendNameKey(n)

\* The tag every key of v's type begins with.
TypeBucket(v, desc) == <<SortKey(v, desc)[1]>>

(***************************************************************************)
(* Tagged JSON.                                                            *)
(***************************************************************************)

\* Timestamps are cut to microseconds.
formatTimestamp(t) == t \div Micro

\* The tags a value is stored under, by which the probes tell spellings apart.
\* The text of a double, an integer or a blob under its tag stands for itself.
RECURSIVE Encode(_)
Encode(v) ==
    CASE IsNull(v) -> [z |-> TRUE]
      [] Is(v, "bool") -> [b |-> v.bool]
      [] Is(v, "int") -> [i |-> v.int]
      [] Is(v, "dbl") -> [d |-> v.dbl]
      [] Is(v, "time") -> [t |-> formatTimestamp(v.time)]
      [] Is(v, "str") -> IF 0 \in ToSet(v.str) THEN [s0 |-> v.str] ELSE [s |-> v.str]
      [] Is(v, "bytes") -> [y |-> v.bytes]
      [] Is(v, "ref") -> [r |-> v.ref]
      [] Is(v, "geo") -> [g |-> v.geo]
      [] Is(v, "arr") -> [a |-> [i \in DOMAIN v.arr |-> Encode(v.arr[i])]]
      [] Is(v, "vec") -> [v |-> [i \in DOMAIN v.vec |-> Encode(v.vec[i])]]
      [] Is(v, "map") -> [m |-> [k \in DOMAIN v.map |-> Encode(v.map[k])]]

RECURSIVE Decode(_)
Decode(j) ==
    CASE Is(j, "z") -> [null |-> TRUE]
      [] Is(j, "b") -> [bool |-> j.b]
      [] Is(j, "i") -> [int |-> j.i]
      [] Is(j, "d") -> [dbl |-> j.d]
      [] Is(j, "t") -> [time |-> j.t * Micro]
      [] Is(j, "s") -> [str |-> j.s]
      [] Is(j, "s0") -> [str |-> j.s0]
      [] Is(j, "y") -> [bytes |-> j.y]
      [] Is(j, "r") -> [ref |-> j.r]
      [] Is(j, "g") -> [geo |-> j.g]
      [] Is(j, "a") -> [arr |-> [i \in DOMAIN j.a |-> Decode(j.a[i])]]
      [] Is(j, "v") -> [vec |-> [i \in DOMAIN j.v |-> Decode(j.v[i])]]
      [] Is(j, "m") -> [map |-> [k \in DOMAIN j.m |-> Decode(j.m[k])]]

MarshalFields(f) == [n \in DOMAIN f |-> Encode(f[n])]
UnmarshalFields(d) == [n \in DOMAIN d |-> Decode(d[n])]

\* jsonb's x @> y: y's elements are each in some element of x, y's keys are keys
\* of x, and scalars are equal.
RECURSIVE JsonContains(_, _)
JsonContains(x, y) ==
    LET all(s, t) == \A i \in DOMAIN t : \E j \in DOMAIN s : JsonContains(s[j], t[i])
    IN  CASE Is(x, "a") /\ Is(y, "a") -> all(x.a, y.a)
          [] Is(x, "v") /\ Is(y, "v") -> all(x.v, y.v)
          [] Is(x, "m") /\ Is(y, "m") ->
               \A k \in DOMAIN y.m : k \in DOMAIN x.m /\ JsonContains(x.m[k], y.m[k])
          [] Is(x, "g") /\ Is(y, "g") -> ToSet(y.g) \subseteq ToSet(x.g)
          [] OTHER -> x = y
=============================================================================
