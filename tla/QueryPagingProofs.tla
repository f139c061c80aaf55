------------------------- MODULE QueryPagingProofs --------------------------
(***************************************************************************)
(* Proofs about QueryPaging, for any number of documents and ranges and    *)
(* any width of integers: pages are in query order, and every path cuts    *)
(* the page and counts the documents that runGeneral would.                *)
(***************************************************************************)
EXTENDS QueryPaging, FiniteSetTheorems, TLAPS

(***************************************************************************)
(* Positions, rows and pages with the direction x, the set of rows and the *)
(* offset as parameters: what the operators of QueryPaging are for q.      *)
(***************************************************************************)

Lt(x, d, e) == IF x THEN d > e ELSE d < e
Down(x, S, d) == {e \in S : e = d \/ Lt(x, e, d)}
Pos(x, S, d) == Cardinality(Down(x, S, d))
At(x, S, k) == CHOOSE d \in S : Pos(x, S, d) = k
FirstOf(x, S) == CHOOSE d \in S : \A e \in S : e = d \/ Lt(x, d, e)

Cut(x, S, l, o) == {d \in S : Pos(x, S, d) > o /\ (l < 0 \/ Pos(x, S, d) <= o + l)}

Start(n, o) == IF o > n THEN n ELSE o
End(n, l, o) == IF l >= 0 /\ Start(n, o) + l < n THEN Start(n, o) + l ELSE n
Page(x, S, l, o) ==
    [k \in 1..(End(Cardinality(S), l, o) - Start(Cardinality(S), o)) |->
        At(x, S, Start(Cardinality(S), o) + k)]

-----------------------------------------------------------------------------
(***************************************************************************)
(* The invariants.                                                         *)
(***************************************************************************)

TypeInv ==
    /\ q \in Query /\ (~moved => Meaningful(q))
    /\ pc \in {"start", "stream", "scan", "merge", "done"}
    /\ limit \in Int /\ skipped \in Nat /\ count \in Nat /\ moved \in BOOLEAN
    /\ seen \subseteq Docs /\ rest \in Seq(SUBSET Docs) /\ out \in Seq(Docs)
    /\ pc = "start" => rest = <<>>
    /\ pc = "stream" => Len(rest) = 1
    /\ pc = "scan" => Len(rest) < Len(q.rows)
    /\ pc = "merge" => Len(rest) = Len(q.rows)

\* No row that is still to be read comes before one that was yielded.
OrderInv ==
    /\ InQueryOrder
    /\ pc \in {"start", "scan"} => out = <<>>
    /\ pc \in {"stream", "merge"} =>
          \A k \in 1..Len(out), i \in 1..Len(rest) : \A f \in rest[i] : ~Before(f, out[k])

\* The first rows of S, D, have been skipped, sk of them, or yielded, as s.
Advanced(x, S, l, o, D, sk, s) ==
    /\ D \subseteq S
    /\ Cardinality(D) = sk + Len(s)
    /\ sk <= o /\ (s # <<>> => sk = o)
    /\ \A k \in 1..Len(s) : s[k] = At(x, S, o + k)
    /\ l >= 0 => Len(s) <= l

Progress(D) == Advanced(q.desc, All, limit, q.offset, D, skipped, out)

\* What the statement of runNameOrdered selects.
Selected ==
    IF ~q.filtered /\ q.offset = 0
    THEN Cut(q.desc, All \cup q.extra, limit, 0) ELSE All \cup q.extra

StreamInv ==
    /\ q.path = "name" /\ rest[1] \subseteq Selected
    /\ \A e \in Selected \ rest[1], f \in rest[1] : Lt(q.desc, e, f)
    /\ Progress((Selected \cap All) \ rest[1])

\* What scanRange reads of range i, and what the merge has taken from it.
Prefetched(i) == Cut(q.desc, q.rows[i], PerRange(limit), 0)
Taken == UNION {Prefetched(i) \ rest[i] : i \in Ranges}

MergeInv ==
    /\ \A i \in Ranges : rest[i] \subseteq Prefetched(i)
    /\ seen = IF q.dedup THEN Taken ELSE {}
    /\ \A e \in Taken, i \in Ranges : \A f \in rest[i] : e = f \/ Lt(q.desc, e, f)
    /\ Progress(Taken)
    /\ limit >= 0 => Len(out) < limit

Answered ==
    \/ /\ Counting /\ CountOnly
       /\ count = UpTo(AtMost(Cardinality(All \cup q.extra), q.limit), MergedUpTo)
    \/ /\ limit = EffectiveLimit
       /\ out = Page(q.desc, All, limit, q.offset) /\ count = Len(out)

\* The queries whose pages are right: nothing moved under the scans, and the query
\* has neither of the two shapes that are paged differently.
Regular == ~moved /\ ~CutBeforeCursor /\ ~ZeroMerge

PageInv ==
    /\ pc \in {"start", "scan"} => out = <<>> /\ skipped = 0 /\ seen = {}
    /\ pc \in {"stream", "scan", "merge"} => limit = EffectiveLimit
    /\ pc # "done" => count = Len(out)
    /\ pc = "scan" => q.path = "indexed" /\ Cardinality(Ranges) > 1
    /\ Regular =>
          /\ pc = "stream" => StreamInv
          /\ pc = "scan" => \A i \in 1..Len(rest) : rest[i] = Prefetched(i)
          /\ pc = "merge" => MergeInv
          /\ pc = "done" => Answered
-----------------------------------------------------------------------------
(***************************************************************************)
(* Positions in a finite set of integers.                                  *)
(***************************************************************************)

\* The order is total, whatever the direction.
LEMMA LtOrder ==
    ASSUME NEW x \in BOOLEAN, NEW d \in Int, NEW e \in Int
    PROVE  /\ d = e \/ Lt(x, d, e) \/ Lt(x, e, d)
           /\ ~(Lt(x, d, e) /\ Lt(x, e, d)) /\ ~Lt(x, d, d)
           /\ \A f \in Int : Lt(x, d, e) /\ Lt(x, e, f) => Lt(x, d, f)
BY DEF Lt

LEMMA DownFinite ==
    ASSUME NEW x, NEW S \in SUBSET Int, IsFiniteSet(S), NEW d
    PROVE  /\ IsFiniteSet(Down(x, S, d)) /\ Cardinality(S) \in Nat
           /\ Pos(x, S, d) \in Nat /\ Pos(x, S, d) <= Cardinality(S)
<1>1. Down(x, S, d) \in SUBSET S  BY DEF Down
<1>2. IsFiniteSet(Down(x, S, d)) /\ Cardinality(Down(x, S, d)) <= Cardinality(S)
  BY <1>1, FS_Subset
<1> QED  BY <1>2, FS_CardinalityType DEF Pos

\* A later element has a larger position.
LEMMA PosMonotone ==
    ASSUME NEW x \in BOOLEAN, NEW S \in SUBSET Int, IsFiniteSet(S),
           NEW d \in S, NEW e \in S, Lt(x, d, e)
    PROVE  Pos(x, S, d) < Pos(x, S, e)
<1>1. Down(x, S, d) \in SUBSET Down(x, S, e)
  BY LtOrder DEF Down
<1>2. e \in Down(x, S, e) /\ e \notin Down(x, S, d)
  BY LtOrder DEF Down
<1>3. /\ Cardinality(Down(x, S, d)) <= Cardinality(Down(x, S, e))
      /\ Cardinality(Down(x, S, e)) # Cardinality(Down(x, S, d))
  BY <1>1, <1>2, DownFinite, FS_Subset
<1>4. Pos(x, S, d) \in Nat /\ Pos(x, S, e) \in Nat
  BY DownFinite
<1> QED  BY <1>3, <1>4 DEF Pos

LEMMA PosType ==
    ASSUME NEW x \in BOOLEAN, NEW S \in SUBSET Int, IsFiniteSet(S), NEW d \in S
    PROVE  Pos(x, S, d) \in 1..Cardinality(S)
<1>1. Down(x, S, d) # {}  BY DEF Down
<1>2. Cardinality(Down(x, S, d)) # 0  BY <1>1, DownFinite, FS_EmptySet
<1> QED  BY <1>2, DownFinite DEF Pos

LEMMA PosInjective ==
    ASSUME NEW x \in BOOLEAN, NEW S \in SUBSET Int, IsFiniteSet(S),
           NEW d \in S, NEW e \in S, Pos(x, S, d) = Pos(x, S, e)
    PROVE  d = e
<1>1. Pos(x, S, d) \in Nat /\ Pos(x, S, e) \in Nat  BY DownFinite
<1>2. CASE Lt(x, d, e)  BY <1>1, <1>2, PosMonotone
<1>3. CASE Lt(x, e, d)  BY <1>1, <1>3, PosMonotone
<1> QED  BY <1>2, <1>3, LtOrder

\* The elements whose position is at most a are a of them: positions number the
\* set without gaps.
LEMMA LowerCount ==
    ASSUME NEW x \in BOOLEAN, NEW S \in SUBSET Int, IsFiniteSet(S)
    PROVE  /\ \A k \in 1..Cardinality(S) : \E d \in S : Pos(x, S, d) = k
           /\ \A a \in 0..Cardinality(S) :
                 Cardinality({d \in S : Pos(x, S, d) <= a}) = a
<1> DEFINE n == Cardinality(S)
           f == [d \in S |-> Pos(x, S, d)]
<1>1. n \in Nat  BY FS_CardinalityType
<1>2. f \in Injection(S, 1..n)
  <2>1. f \in [S -> 1..n]  BY PosType
  <2>2. \A d, e \in S : f[d] = f[e] => d = e  BY PosInjective
  <2> QED  BY <2>1, <2>2 DEF Injection, IsInjective
<1>3. IsFiniteSet(1..n) /\ Cardinality(1..n) = n  BY <1>1, FS_Interval
<1>4. f \in Surjection(S, 1..n)  BY <1>2, <1>3, FS_Injection
<1>5. \A k \in 1..n : \E d \in S : Pos(x, S, d) = k
  BY <1>4 DEF Surjection
<1>6. ASSUME NEW a \in 0..n PROVE Cardinality({d \in S : Pos(x, S, d) <= a}) = a
  <2> DEFINE L == {d \in S : Pos(x, S, d) <= a}
             g == [d \in L |-> Pos(x, S, d)]
  <2>1. \A d \in L : Pos(x, S, d) \in 1..a
    <3> TAKE d \in L
    <3>1. d \in S /\ Pos(x, S, d) <= a  OBVIOUS
    <3>2. Pos(x, S, d) \in 1..n  BY <3>1, PosType
    <3> QED  BY <1>1, <3>1, <3>2
  <2>2. g \in [L -> 1..a]  BY <2>1
  <2>3. \A d, e \in L : g[d] = g[e] => d = e  BY PosInjective
  <2>4. g \in Injection(L, 1..a)  BY <2>2, <2>3 DEF Injection, IsInjective
  <2>5. \A k \in 1..a : \E d \in L : g[d] = k
    <3> TAKE k \in 1..a
    <3>1. k \in 1..n /\ k <= a  BY <1>1
    <3>2. PICK d \in S : Pos(x, S, d) = k  BY <1>5, <3>1
    <3>3. d \in L  BY <3>1, <3>2
    <3> QED  BY <3>2, <3>3
  <2>6. g \in Surjection(L, 1..a)  BY <2>2, <2>5 DEF Surjection
  <2>7. IsFiniteSet(1..a) /\ Cardinality(1..a) = a  BY <1>1, FS_Interval
  <2> HIDE DEF L, g
  <2>8. Cardinality(L) = Cardinality(1..a)  BY <2>4, <2>6, <2>7, FS_Injection
  <2> QED  BY <2>7, <2>8 DEF L
<1> QED  BY <1>5, <1>6

\* At is the inverse of Pos.
LEMMA AtPos ==
    ASSUME NEW x \in BOOLEAN, NEW S \in SUBSET Int, IsFiniteSet(S)
    PROVE  /\ \A k \in 1..Cardinality(S) : At(x, S, k) \in S /\ Pos(x, S, At(x, S, k)) = k
           /\ \A d \in S : At(x, S, Pos(x, S, d)) = d
<1>1. ASSUME NEW k \in 1..Cardinality(S)
      PROVE  At(x, S, k) \in S /\ Pos(x, S, At(x, S, k)) = k
  <2>1. \E d \in S : Pos(x, S, d) = k  BY LowerCount
  <2> QED  BY <2>1 DEF At
<1>2. ASSUME NEW d \in S PROVE At(x, S, Pos(x, S, d)) = d
  <2>1. Pos(x, S, d) \in 1..Cardinality(S)  BY PosType
  <2>2. At(x, S, Pos(x, S, d)) \in S /\ Pos(x, S, At(x, S, Pos(x, S, d))) = Pos(x, S, d)
    BY <1>1, <2>1
  <2>3. \A e \in S : Pos(x, S, e) = Pos(x, S, d) => e = d
    BY PosInjective
  <2> QED  BY <2>2, <2>3
<1> QED  BY <1>1, <1>2

\* The first element of a set that is not empty.
LEMMA FirstIsFirst ==
    ASSUME NEW x \in BOOLEAN, NEW S \in SUBSET Int, IsFiniteSet(S), S # {}
    PROVE  FirstOf(x, S) \in S /\ \A e \in S : e = FirstOf(x, S) \/ Lt(x, FirstOf(x, S), e)
<1>1. Cardinality(S) \in Nat /\ Cardinality(S) # 0
  BY FS_EmptySet, FS_CardinalityType
<1>2. PICK d \in S : Pos(x, S, d) = 1  BY <1>1, LowerCount
<1>3. \A e \in S : e = d \/ Lt(x, d, e)
  <2> TAKE e \in S
  <2>1. ~Lt(x, e, d)
    <3> SUFFICES ASSUME Lt(x, e, d) PROVE FALSE  OBVIOUS
    <3>1. Pos(x, S, e) < 1 /\ Pos(x, S, e) \in 1..Cardinality(S)
      BY <1>2, PosMonotone, PosType
    <3> QED  BY <1>1, <3>1
  <2> QED  BY <2>1, LtOrder
<1> QED  BY <1>2, <1>3 DEF FirstOf

-----------------------------------------------------------------------------
(***************************************************************************)
(* LIMIT and OFFSET.                                                       *)
(***************************************************************************)

LEMMA PageBounds ==
    ASSUME NEW n \in Nat, NEW l \in Int, NEW o \in Nat
    PROVE  /\ Start(n, o) \in Nat /\ End(n, l, o) \in Nat
           /\ Start(n, o) <= End(n, l, o) /\ End(n, l, o) <= n
BY DEF Start, End

\* The rows that LIMIT and OFFSET leave are those whose positions are on the
\* page, as many as it has places, and in their order.
LEMMA CutFacts ==
    ASSUME NEW x \in BOOLEAN, NEW S \in SUBSET Int, IsFiniteSet(S),
           NEW l \in Int, NEW o \in Nat
    PROVE  LET s == Start(Cardinality(S), o)
               t == End(Cardinality(S), l, o)
               T == Cut(x, S, l, o)
           IN  /\ \A d \in S : d \in T <=> s < Pos(x, S, d) /\ Pos(x, S, d) <= t
               /\ T \subseteq S /\ IsFiniteSet(T) /\ Cardinality(T) = t - s
               /\ \A d \in T : Pos(x, T, d) = Pos(x, S, d) - s
<1> DEFINE n == Cardinality(S)
           s == Start(n, o)
           t == End(n, l, o)
           T == Cut(x, S, l, o)
           Low == {d \in S : Pos(x, S, d) <= s}
           High == {d \in S : Pos(x, S, d) <= t}
<1>1. n \in Nat  BY FS_CardinalityType
<1>2. s \in Nat /\ t \in Nat /\ s <= t /\ t <= n  BY <1>1, PageBounds
<1>3. ASSUME NEW d \in S
      PROVE  d \in T <=> s < Pos(x, S, d) /\ Pos(x, S, d) <= t
  <2>1. Pos(x, S, d) \in 1..n  BY PosType
  <2>2. d \in T <=> Pos(x, S, d) > o /\ (l < 0 \/ Pos(x, S, d) <= o + l)  BY DEF Cut
  <2> HIDE DEF T, n
  <2> QED  BY <1>1, <2>1, <2>2 DEF Start, End
<1>4. T \subseteq S  BY DEF Cut
<1>5. IsFiniteSet(T)  BY <1>4, FS_Subset
<1>6. Cardinality(Low) = s /\ Cardinality(High) = t
  BY <1>1, <1>2, LowerCount
<1>7. Cardinality(T) = t - s
  <2>1. \A d \in S : Pos(x, S, d) \in Nat  BY DownFinite
  <2>2. T = High \ Low
    <3> HIDE DEF T, s, t
    <3>1. ASSUME NEW d \in S PROVE d \in T <=> d \in High \ Low
      <4>1. d \in T <=> s < Pos(x, S, d) /\ Pos(x, S, d) <= t  BY <1>3
      <4>2. Pos(x, S, d) \in Nat  BY <2>1
      <4> QED  BY <1>2, <4>1, <4>2
    <3> QED  BY <1>4, <3>1
  <2>3. High \cap Low = Low
    <3> HIDE DEF s, t
    <3>1. ASSUME NEW d \in Low PROVE d \in High
      <4>1. d \in S /\ Pos(x, S, d) <= s /\ Pos(x, S, d) \in Nat  BY <2>1
      <4> QED  BY <1>2, <4>1
    <3> QED  BY <3>1
  <2>4. IsFiniteSet(High)  BY FS_Subset
  <2> HIDE DEF High, Low, T
  <2>5. Cardinality(High \ Low) = Cardinality(High) - Cardinality(High \cap Low)
    BY <2>4, FS_Difference
  <2> QED  BY <1>6, <2>2, <2>3, <2>5
<1>8. ASSUME NEW d \in T PROVE Pos(x, T, d) = Pos(x, S, d) - s
  <2>1. d \in S /\ s < Pos(x, S, d) /\ Pos(x, S, d) <= t  BY <1>3, <1>4
  <2>2. \A e \in S : Pos(x, S, e) \in Nat  BY DownFinite
  <2>3. \A e \in S : Lt(x, e, d) => Pos(x, S, e) < Pos(x, S, d)  BY <2>1, PosMonotone
  <2>4. \A e \in S : Lt(x, d, e) => Pos(x, S, d) < Pos(x, S, e)  BY <2>1, PosMonotone
  <2>5. \A e \in S : e = d \/ Lt(x, e, d) \/ Lt(x, d, e)  BY <2>1, LtOrder
  <2>6. Down(x, T, d) = Down(x, S, d) \ Low
    <3> HIDE DEF T, s, t
    <3>1. ASSUME NEW e \in Down(x, T, d) PROVE e \in Down(x, S, d) \ Low
      <4>1. e \in T /\ (e = d \/ Lt(x, e, d))  BY <3>1 DEF Down
      <4>2. e \in S /\ s < Pos(x, S, e)  BY <1>3, <1>4, <4>1
      <4> QED  BY <1>2, <2>2, <4>1, <4>2 DEF Down
    <3>2. ASSUME NEW e \in Down(x, S, d) \ Low PROVE e \in Down(x, T, d)
      <4>1. e \in S /\ (e = d \/ Lt(x, e, d)) /\ ~(Pos(x, S, e) <= s)
        BY <3>2 DEF Down
      <4>2. s < Pos(x, S, e) /\ Pos(x, S, e) <= t
        BY <1>2, <2>1, <2>2, <2>3, <4>1
      <4>3. e \in T  BY <1>3, <4>1, <4>2
      <4> QED  BY <4>1, <4>3 DEF Down
    <3> QED  BY <3>1, <3>2
  <2>7. Down(x, S, d) \cap Low = Low
    <3> HIDE DEF s, t
    <3>1. ASSUME NEW e \in Low PROVE e \in Down(x, S, d)
      <4>1. e \in S /\ Pos(x, S, e) <= s  OBVIOUS
      <4>2. ~Lt(x, d, e)  BY <1>2, <2>1, <2>2, <2>4, <4>1
      <4> QED  BY <2>5, <4>1, <4>2 DEF Down
    <3> QED  BY <3>1
  <2>8. IsFiniteSet(Down(x, S, d))  BY DownFinite
  <2> HIDE DEF Low, T
  <2>9. Cardinality(Down(x, S, d) \ Low) =
          Cardinality(Down(x, S, d)) - Cardinality(Down(x, S, d) \cap Low)
    BY <2>8, FS_Difference
  <2> QED  BY <1>6, <2>6, <2>7, <2>9 DEF Pos
<1> QED  BY <1>3, <1>4, <1>5, <1>7, <1>8

\* A limit alone takes the first rows, all of them or that many.
LEMMA CutPrefix ==
    ASSUME NEW x \in BOOLEAN, NEW S \in SUBSET Int, IsFiniteSet(S), NEW l \in Int
    PROVE  /\ \A e \in Cut(x, S, l, 0), f \in S : Lt(x, f, e) => f \in Cut(x, S, l, 0)
           /\ Cut(x, S, l, 0) \subseteq S
           /\ Cut(x, S, l, 0) = S \/ (l >= 0 /\ Cardinality(Cut(x, S, l, 0)) = l)
<1> DEFINE n == Cardinality(S)
           T == Cut(x, S, l, 0)
<1>1. n \in Nat  BY FS_CardinalityType
<1>2. Start(n, 0) = 0 /\ End(n, l, 0) = IF l >= 0 /\ l < n THEN l ELSE n
  BY <1>1 DEF Start, End
<1>3. /\ \A d \in S : d \in T <=> 0 < Pos(x, S, d) /\ Pos(x, S, d) <= End(n, l, 0)
      /\ T \subseteq S /\ Cardinality(T) = End(n, l, 0) - 0
  BY <1>2, CutFacts
<1>4. \A d \in S : Pos(x, S, d) \in 1..n  BY PosType
<1> HIDE DEF T, n
<1>5. ASSUME NEW e \in T, NEW f \in S, Lt(x, f, e) PROVE f \in T
  <2>1. Pos(x, S, f) < Pos(x, S, e)  BY <1>3, <1>5, PosMonotone
  <2> QED  BY <1>1, <1>2, <1>3, <1>4, <2>1
<1>6. CASE l >= 0 /\ l < n
  BY <1>1, <1>2, <1>3, <1>5, <1>6 DEF T
<1>7. CASE ~(l >= 0 /\ l < n)
  <2>1. \A d \in S : d \in T  BY <1>1, <1>2, <1>3, <1>4, <1>7
  <2> QED  BY <1>3, <1>5, <2>1 DEF T
<1> QED  BY <1>6, <1>7

\* The rows Postgres leaves, in order, are the page.
LEMMA CutPage ==
    ASSUME NEW x \in BOOLEAN, NEW S \in SUBSET Int, IsFiniteSet(S),
           NEW l \in Int, NEW o \in Nat
    PROVE  [k \in 1..Cardinality(Cut(x, S, l, o)) |-> At(x, Cut(x, S, l, o), k)]
              = Page(x, S, l, o)
<1> DEFINE n == Cardinality(S)
           s == Start(n, o)
           t == End(n, l, o)
           T == Cut(x, S, l, o)
<1>1. n \in Nat /\ s \in Nat /\ t \in Nat /\ s <= t /\ t <= n
  BY FS_CardinalityType, PageBounds
<1>2. /\ T \subseteq S /\ IsFiniteSet(T) /\ Cardinality(T) = t - s
      /\ \A d \in T : Pos(x, T, d) = Pos(x, S, d) - s
  BY CutFacts
<1>3. ASSUME NEW k \in 1..(t - s) PROVE At(x, T, k) = At(x, S, s + k)
  <2> DEFINE d == At(x, T, k)
  <2>1. d \in T /\ Pos(x, T, d) = k
    <3> HIDE DEF T
    <3> QED  BY <1>2, AtPos
  <2>2. d \in S /\ Pos(x, S, d) \in Nat  BY <1>2, <2>1, DownFinite
  <2>3. k = Pos(x, S, d) - s  BY <1>2, <2>1
  <2> HIDE DEF d, T, s, t
  <2>4. Pos(x, S, d) = s + k  BY <1>1, <2>2, <2>3
  <2>5. At(x, S, Pos(x, S, d)) = d  BY <2>2, AtPos
  <2> QED  BY <2>4, <2>5 DEF d
<1> HIDE DEF T
<1> QED  BY <1>2, <1>3 DEF Page, T

\* A page holds rows of the set, in order.
LEMMA PageRows ==
    ASSUME NEW x \in BOOLEAN, NEW S \in SUBSET Int, IsFiniteSet(S),
           NEW l \in Int, NEW o \in Nat
    PROVE  /\ Page(x, S, l, o) \in Seq(S)
           /\ Len(Page(x, S, l, o)) = End(Cardinality(S), l, o) - Start(Cardinality(S), o)
           /\ \A i, j \in 1..Len(Page(x, S, l, o)) :
                 i < j => Lt(x, Page(x, S, l, o)[i], Page(x, S, l, o)[j])
<1> DEFINE n == Cardinality(S)
           s == Start(n, o)
           m == End(n, l, o) - s
           p == Page(x, S, l, o)
<1>1. n \in Nat /\ s \in Nat /\ m \in Nat /\ s + m <= n
  <2>1. n \in Nat  BY FS_CardinalityType
  <2>2. s \in Nat /\ End(n, l, o) \in Nat /\ s <= End(n, l, o) /\ End(n, l, o) <= n
    BY <2>1, PageBounds
  <2> HIDE DEF s, n
  <2> QED  BY <2>1, <2>2
<1>2. p = [k \in 1..m |-> At(x, S, s + k)]  BY DEF Page
<1> HIDE DEF p, m, s, n
<1>3. \A k \in 1..m : s + k \in 1..n  BY <1>1
<1>4. \A k \in 1..m : p[k] \in S /\ Pos(x, S, p[k]) = s + k
  BY <1>2, <1>3, AtPos DEF n
<1>5. p \in [1..m -> S]  BY <1>2, <1>4
<1>6. p \in Seq(S) /\ Len(p) = m  BY <1>1, <1>5
<1>7. ASSUME NEW i \in 1..m, NEW j \in 1..m, i < j PROVE Lt(x, p[i], p[j])
  <2>1. p[i] \in S /\ p[j] \in S /\ Pos(x, S, p[i]) < Pos(x, S, p[j])
    BY <1>1, <1>4, <1>7
  <2>2. p[i] # p[j]  BY <1>1, <1>4, <1>7
  <2>3. ~Lt(x, p[j], p[i])
    <3>1. Pos(x, S, p[i]) \in Nat /\ Pos(x, S, p[j]) \in Nat  BY DownFinite
    <3>2. Lt(x, p[j], p[i]) => Pos(x, S, p[j]) < Pos(x, S, p[i])  BY <2>1, PosMonotone
    <3> QED  BY <2>1, <3>1, <3>2
  <2>4. p[i] \in Int /\ p[j] \in Int  BY <2>1
  <2> QED  BY <2>2, <2>3, <2>4, LtOrder
<1> QED  BY <1>6, <1>7 DEF p, m, s, n

-----------------------------------------------------------------------------
(***************************************************************************)
(* The operators of QueryPaging.                                           *)
(***************************************************************************)

LEMMA OperatorsOfQuery ==
    /\ \A d, e : Before(d, e) <=> Lt(q.desc, d, e)
    /\ \A S, d : Position(S, d) = Pos(q.desc, S, d)
    /\ \A S, l, o : Rows(S, l, o) = Cut(q.desc, S, l, o)
    /\ \A S : First(S) = FirstOf(q.desc, S)
    /\ \A l : GeneralPage(l) = Page(q.desc, All, l, q.offset)
<1>1. \A d, e : Before(d, e) <=> Lt(q.desc, d, e)  BY DEF Before, Lt
<1>2. \A S, d : Position(S, d) = Pos(q.desc, S, d)
  BY DEF Position, Pos, Down, Before, Lt
<1>3. \A S, l, o : Rows(S, l, o) = Cut(q.desc, S, l, o)
  BY <1>2 DEF Rows, Cut
<1>4. \A S : First(S) = FirstOf(q.desc, S)  BY DEF First, FirstOf, Before, Lt
<1>5. ASSUME NEW l PROVE GeneralPage(l) = Page(q.desc, All, l, q.offset)
  BY DEF GeneralPage, Page, Start, End, At, Position, Pos, Down, Before, Lt
<1> QED  BY <1>1, <1>2, <1>3, <1>4, <1>5

LEMMA DocSets ==
    ASSUME NEW S \in SUBSET Docs
    PROVE  S \in SUBSET Int /\ IsFiniteSet(S) /\ Cardinality(S) \in Nat
<1>1. IsFiniteSet(Docs)  BY PagingAssumption, FS_Interval DEF Docs
<1>2. IsFiniteSet(S)  BY <1>1, FS_Subset
<1> QED  BY <1>2, FS_CardinalityType, PagingAssumption DEF Docs

\* An int32 stays what it is, and the sum of two that are not negative is itself
\* or turns negative.
LEMMA Int32Facts ==
    /\ \A y \in Int : Int32(y) \in Int /\ Int32(y) <= MaxInt32
    /\ \A y \in 0..MaxInt32 : Int32(y) = y
    /\ \A y, z \in 0..MaxInt32 : Int32(y + z) = y + z \/ Int32(y + z) < 0
<1> DEFINE w == 2 * (MaxInt32 + 1)
<1>1. w \in Nat /\ w > 0 /\ MaxInt32 \in Nat /\ MaxInt32 < w  BY PagingAssumption
<1>2. \A y \in Int : y % w \in 0..(w - 1)  BY <1>1
<1>3. \A y \in 0..(w - 1) : y % w = y  BY <1>1
<1>4. ASSUME NEW y \in Int PROVE Int32(y) = IF y % w > MaxInt32 THEN (y % w) - w ELSE y % w
  BY DEF Int32
<1>5. \A y \in 0..MaxInt32 : y \in 0..(w - 1) /\ y \in Int  BY <1>1
<1>6. \A y, z \in 0..MaxInt32 : y + z \in 0..(w - 1) /\ y + z \in Int  BY <1>1
<1>7. w = 2 * (MaxInt32 + 1)  OBVIOUS
<1> HIDE DEF w
<1>8. \A y \in Int : Int32(y) \in Int /\ Int32(y) <= MaxInt32  BY <1>1, <1>2, <1>4
<1>9. \A y \in 0..MaxInt32 : Int32(y) = y  BY <1>1, <1>3, <1>4, <1>5
<1>10. ASSUME NEW y \in 0..MaxInt32, NEW z \in 0..MaxInt32
       PROVE  Int32(y + z) = y + z \/ Int32(y + z) < 0
  <2>1. (y + z) % w = y + z /\ Int32(y + z) =
          IF (y + z) % w > MaxInt32 THEN ((y + z) % w) - w ELSE (y + z) % w
    BY <1>3, <1>4, <1>6
  <2> QED  BY <1>1, <1>6, <2>1
<1> QED  BY <1>8, <1>9, <1>10

\* The bound of several counts is the largest of them.
LEMMA MergedIsLargest ==
    ASSUME q \in Query, Counting
    PROVE  /\ \E i \in DOMAIN q.aggs : MergedUpTo = q.aggs[i]
           /\ \A i \in DOMAIN q.aggs : q.aggs[i] <= MergedUpTo
           /\ MergedUpTo \in Nat /\ MergedUpTo \in UpTos
<1> DEFINE given == {q.aggs[i] : i \in DOMAIN q.aggs}
<1>1. PICK k \in 0..MaxAggs : q.aggs \in [1..k -> UpTos]
  BY DEF Query
<1>2. k \in Nat /\ UpTos \subseteq Nat  BY PagingAssumption
<1>3. k # 0
  <2>1. ASSUME k = 0 PROVE q.aggs = <<>>
    BY <1>1, <2>1
  <2> QED  BY <2>1 DEF Counting
<1>4. given \subseteq Nat /\ given \subseteq UpTos /\ given # {}
  <2>1. DOMAIN q.aggs = 1..k /\ \A i \in 1..k : q.aggs[i] \in UpTos  BY <1>1
  <2>2. 1 \in 1..k  BY <1>2, <1>3
  <2>3. q.aggs[1] \in given  BY <2>1, <2>2
  <2>4. given \subseteq UpTos  BY <2>1
  <2> QED  BY <1>2, <2>3, <2>4
<1>5. q.aggs \in Surjection(1..k, given)
  BY <1>1 DEF Surjection
<1>6. IsFiniteSet(1..k)  BY <1>2, FS_Interval
<1>7. IsFiniteSet(given)
  <2> HIDE DEF given
  <2> QED  BY <1>5, <1>6, FS_Surjection
<1>8. PICK u \in given : \A v \in given : v = u \/ Lt(TRUE, u, v)
  <2> HIDE DEF given
  <2>1. given \in SUBSET Int  BY <1>4
  <2> QED  BY <1>4, <1>7, <2>1, FirstIsFirst
<1>9. \A v \in given : v <= u
  <2> TAKE v \in given
  <2>1. u \in Nat /\ v \in Nat  BY <1>4
  <2> QED  BY <1>8, <2>1 DEF Lt
<1>10. MergedUpTo \in given /\ \A v \in given : v <= MergedUpTo
  <2>1. MergedUpTo = CHOOSE y \in given : \A v \in given : v <= y  BY DEF MergedUpTo
  <2> HIDE DEF given
  <2> QED  BY <1>9, <2>1
<1> QED  BY <1>4, <1>10

\* What the type of a query says, field by field.
LEMMA QueryFields ==
    ASSUME q \in Query
    PROVE  /\ q.desc \in BOOLEAN /\ q.offset \in Nat /\ q.limit \in Int
           /\ q.dedup \in BOOLEAN /\ q.filtered \in BOOLEAN
           /\ Len(q.rows) \in Nat /\ Ranges = 1..Len(q.rows)
           /\ Cardinality(Ranges) = Len(q.rows)
           /\ \A i \in Ranges : q.rows[i] \in SUBSET Docs
           /\ q.extra \in SUBSET Docs /\ All \in SUBSET Docs
           /\ EffectiveLimit \in Int /\ \A l \in Int : PerRange(l) \in Int
<1>1. PICK k \in 0..NRanges : q.rows \in [1..k -> SUBSET Docs]  BY DEF Query
<1>2. k \in Nat /\ Len(q.rows) = k /\ Ranges = 1..k  BY <1>1 DEF Ranges
<1>3. Cardinality(1..k) = k  BY <1>2, FS_Interval
<1>4. All \in SUBSET Docs  BY <1>1 DEF All, Matching
<1>5. /\ q.desc \in BOOLEAN /\ q.offset \in Nat /\ q.limit \in Int /\ q.extra \in SUBSET Docs
      /\ q.dedup \in BOOLEAN /\ q.filtered \in BOOLEAN
  <2>1. /\ q.offset \in Offsets /\ q.limit \in Limits
        /\ q.desc \in BOOLEAN /\ q.extra \in SUBSET Docs
        /\ q.dedup \in BOOLEAN /\ q.filtered \in BOOLEAN
    BY DEF Query
  <2>2. q.offset \in 0..MaxInt32 /\ q.limit \in (-MaxInt32 - 1)..MaxInt32 /\ MaxInt32 \in Nat
    BY <2>1, PagingAssumption
  <2> QED  BY <2>1, <2>2
<1>6. EffectiveLimit \in Int
  BY <1>5, Int32Facts, MergedIsLargest DEF EffectiveLimit, BoundedLimit
<1>7. ASSUME NEW l \in Int PROVE PerRange(l) \in Int
  BY <1>5, Int32Facts DEF PerRange
<1> QED  BY <1>1, <1>2, <1>3, <1>4, <1>5, <1>6, <1>7

\* The page of one range, as scanIndex has Postgres cut it.
LEMMA OneRangePage ==
    ASSUME q \in Query, NEW l \in Int
    PROVE  [k \in 1..Cardinality(Rows(All, l, q.offset)) |->
              CHOOSE d \in Rows(All, l, q.offset) : Position(Rows(All, l, q.offset), d) = k]
           = Page(q.desc, All, l, q.offset)
<1> DEFINE S == Rows(All, l, q.offset)
<1>1. S = Cut(q.desc, All, l, q.offset)  BY OperatorsOfQuery
<1>2. \A k : (CHOOSE d \in S : Position(S, d) = k) = At(q.desc, S, k)
  BY DEF Position, At, Pos, Down, Before, Lt
<1>3. q.desc \in BOOLEAN /\ q.offset \in Nat /\ All \in SUBSET Int /\ IsFiniteSet(All)
  BY QueryFields, DocSets
<1>4. [k \in 1..Cardinality(S) |-> At(q.desc, S, k)] = Page(q.desc, All, l, q.offset)
  <2> DEFINE C == Cut(q.desc, All, l, q.offset)
  <2>1. [k \in 1..Cardinality(C) |-> At(q.desc, C, k)] = Page(q.desc, All, l, q.offset)
    BY <1>3, CutPage
  <2> HIDE DEF S, C
  <2>2. S = C  BY <1>1 DEF C
  <2> QED  BY <2>1, <2>2
<1> HIDE DEF S
<1>5. [k \in 1..Cardinality(S) |-> CHOOSE d \in S : Position(S, d) = k]
        = [k \in 1..Cardinality(S) |-> At(q.desc, S, k)]
  BY <1>2
<1> QED  BY <1>4, <1>5 DEF S

LEMMA SeqOfSubset ==
    ASSUME NEW A, NEW B, A \subseteq B, NEW s \in Seq(A)
    PROVE  s \in Seq(B) /\ \A i \in 1..Len(s) : s[i] \in A
<1>1. Len(s) \in Nat /\ s \in [1..Len(s) -> A]  OBVIOUS
<1>2. s \in [1..Len(s) -> B]  BY <1>1
<1> QED  BY <1>1, <1>2

LEMMA PageOfQuery ==
    ASSUME q \in Query, NEW l \in Int
    PROVE  LET p == Page(q.desc, All, l, q.offset)
           IN  /\ p \in Seq(Docs)
               /\ \A i, j \in 1..Len(p) : i < j => ~Before(p[j], p[i])
<1> DEFINE p == Page(q.desc, All, l, q.offset)
<1>1. /\ q.desc \in BOOLEAN /\ q.offset \in Nat /\ All \in SUBSET Docs
      /\ All \in SUBSET Int /\ IsFiniteSet(All)
  BY QueryFields, DocSets
<1>2. p \in Seq(All) /\ \A i, j \in 1..Len(p) : i < j => Lt(q.desc, p[i], p[j])
  BY <1>1, PageRows
<1> HIDE DEF p
<1>3. p \in Seq(Docs) /\ \A i \in 1..Len(p) : p[i] \in All
  BY <1>1, <1>2, SeqOfSubset
<1>4. \A i \in 1..Len(p) : p[i] \in Int  BY <1>1, <1>3
<1>5. ASSUME NEW i \in 1..Len(p), NEW j \in 1..Len(p), i < j PROVE ~Before(p[j], p[i])
  BY <1>1, <1>2, <1>4, <1>5, LtOrder, OperatorsOfQuery
<1> QED  BY <1>3, <1>5 DEF p

\* The head of a stream that is not empty.
LEMMA HeadOfStream ==
    ASSUME q \in Query, NEW S \in SUBSET Docs, S # {}
    PROVE  First(S) \in S /\ \A e \in S : e = First(S) \/ Lt(q.desc, First(S), e)
BY QueryFields, DocSets, FirstIsFirst, OperatorsOfQuery

\* The stream mergeRanges picks has the first head of all.
LEMMA BestIsFirst ==
    ASSUME TypeInv, pc = "merge", \E i \in Ranges : rest[i] # {}
    PROVE  /\ Best \in Ranges /\ First(rest[Best]) \in rest[Best]
           /\ \A j \in Ranges : \A f \in rest[j] :
                 f = First(rest[Best]) \/ Lt(q.desc, First(rest[Best]), f)
<1> DEFINE U == UNION {rest[i] : i \in Ranges}
           u == FirstOf(q.desc, U)
           I == {i \in Ranges : u \in rest[i]}
           b == FirstOf(FALSE, I)
           x == q.desc
           Good(i) == /\ rest[i] # {}
                      /\ \A j \in Ranges : rest[j] # {} =>
                            \/ Before(First(rest[i]), First(rest[j]))
                            \/ First(rest[i]) = First(rest[j]) /\ i <= j
<1>1. /\ q \in Query /\ x \in BOOLEAN /\ Ranges = 1..Len(q.rows) /\ Len(q.rows) \in Nat
      /\ \A i \in Ranges : rest[i] \in SUBSET Docs
  <2>1. q \in Query /\ rest \in Seq(SUBSET Docs) /\ Len(rest) = Len(q.rows)
    BY DEF TypeInv
  <2>2. x \in BOOLEAN /\ Ranges = 1..Len(q.rows) /\ Len(q.rows) \in Nat
    BY <2>1, QueryFields
  <2> QED  BY <2>1, <2>2
<1>2. U \in SUBSET Docs /\ U # {}  BY <1>1
<1>3. u \in U /\ \A e \in U : e = u \/ Lt(x, u, e)
  <2> HIDE DEF U
  <2> QED  BY <1>1, <1>2, DocSets, FirstIsFirst
<1>4. I \in SUBSET Int /\ IsFiniteSet(I) /\ I # {}
  <2>1. I # {}  BY <1>3
  <2>2. I \in SUBSET (1..Len(q.rows)) /\ IsFiniteSet(1..Len(q.rows))
    BY <1>1, FS_Interval
  <2> HIDE DEF I
  <2>3. IsFiniteSet(I)  BY <2>2, FS_Subset
  <2> QED  BY <2>1, <2>2, <2>3
<1>5. b \in I /\ \A i \in I : i = b \/ b < i
  <2> HIDE DEF I
  <2>1. b \in I /\ \A i \in I : i = b \/ Lt(FALSE, b, i)  BY <1>4, FirstIsFirst
  <2> QED  BY <2>1 DEF Lt
<1>6. \A i \in Ranges : rest[i] # {} =>
         First(rest[i]) \in rest[i] /\ \A e \in rest[i] : e = First(rest[i]) \/ Lt(x, First(rest[i]), e)
  BY <1>1, HeadOfStream
<1>7. b \in Ranges /\ u \in rest[b] /\ rest[b] # {}  BY <1>5
<1>8. \A i \in Ranges : rest[i] # {} => First(rest[i]) \in U  BY <1>6
<1>9. U \in SUBSET Int  BY <1>2, DocSets
<1> HIDE DEF U
<1>10. First(rest[b]) = u
  <2>1. u = First(rest[b]) \/ Lt(x, First(rest[b]), u)  BY <1>6, <1>7
  <2>2. First(rest[b]) = u \/ Lt(x, u, First(rest[b]))  BY <1>3, <1>7, <1>8
  <2>3. u \in Int /\ First(rest[b]) \in Int  BY <1>3, <1>7, <1>8, <1>9
  <2> QED  BY <1>1, <2>1, <2>2, <2>3, LtOrder
<1>11. Good(b)
  <2> SUFFICES ASSUME NEW j \in Ranges, rest[j] # {}
               PROVE  \/ Before(First(rest[b]), First(rest[j]))
                      \/ First(rest[b]) = First(rest[j]) /\ b <= j
    BY <1>7
  <2>1. First(rest[j]) = u \/ Lt(x, u, First(rest[j]))  BY <1>3, <1>8
  <2>2. CASE First(rest[j]) = u
    <3>1. j \in I  BY <1>6, <2>2
    <3>2. b \in Int /\ j \in Int  BY <1>4, <1>5, <3>1
    <3> HIDE DEF b, I, u
    <3> QED  BY <1>5, <1>10, <2>2, <3>1, <3>2
  <2>3. CASE Lt(x, u, First(rest[j]))  BY <1>10, <2>3, OperatorsOfQuery
  <2> QED  BY <2>1, <2>2, <2>3
<1>12. Best = CHOOSE i \in Ranges : Good(i)  BY DEF Best
<1>13. Best \in Ranges /\ Good(Best)
  <2> HIDE DEF Good
  <2> QED  BY <1>7, <1>11, <1>12
<1> HIDE DEF b, u, I
<1>14. ASSUME NEW j \in Ranges, NEW f \in rest[j]
       PROVE  f = First(rest[Best]) \/ Lt(x, First(rest[Best]), f)
  <2>1. rest[j] # {}  OBVIOUS
  <2>2. Lt(x, First(rest[Best]), First(rest[j])) \/ First(rest[Best]) = First(rest[j])
    BY <1>13, <2>1, OperatorsOfQuery
  <2>3. f = First(rest[j]) \/ Lt(x, First(rest[j]), f)  BY <1>6, <2>1
  <2>4. First(rest[Best]) \in Int /\ First(rest[j]) \in Int /\ f \in Int
    <3>1. First(rest[Best]) \in Docs /\ First(rest[j]) \in Docs /\ f \in Docs
      BY <1>1, <1>6, <1>13, <2>1
    <3> QED  BY <3>1, PagingAssumption DEF Docs
  <2> QED  BY <1>1, <2>2, <2>3, <2>4, LtOrder
<1> QED  BY <1>6, <1>13, <1>14

-----------------------------------------------------------------------------
(***************************************************************************)
(* Types.                                                                  *)
(***************************************************************************)

LEMMA TypeInit == Init => TypeInv
<1> SUFFICES ASSUME Init PROVE TypeInv  OBVIOUS
<1>1. q \in Query /\ Meaningful(q)  BY DEF Init
<1>2. q.limit \in Int  BY <1>1, QueryFields
<1>3. /\ pc = "start" /\ limit = q.limit /\ rest = <<>> /\ seen = {} /\ skipped = 0
      /\ out = <<>> /\ count = 0 /\ moved = FALSE
  BY DEF Init
<1>4. rest \in Seq(SUBSET Docs) /\ out \in Seq(Docs)  BY <1>3
<1> QED  BY <1>1, <1>2, <1>3, <1>4 DEF TypeInv

\* A row of the stream is taken, or a row of the merge.
LEMMA RowTypes ==
    ASSUME TypeInv
    PROVE  /\ NameRow =>
                 /\ First(rest[1]) \in rest[1] /\ rest[1] \in SUBSET Docs
                 /\ rest' = <<rest[1] \ {First(rest[1])}>>
                 /\ out' = out \/ out' = Append(out, First(rest[1]))
           /\ MergeRow =>
                 /\ Best \in Ranges /\ First(rest[Best]) \in rest[Best]
                 /\ rest[Best] \in SUBSET Docs /\ Best \in 1..Len(rest)
                 /\ rest' = [rest EXCEPT ![Best] = @ \ {First(rest[Best])}]
                 /\ out' = out \/ out' = Append(out, First(rest[Best]))
<1>1. q \in Query /\ rest \in Seq(SUBSET Docs)  BY DEF TypeInv
<1>2. ASSUME NameRow
      PROVE  /\ First(rest[1]) \in rest[1] /\ rest[1] \in SUBSET Docs
             /\ rest' = <<rest[1] \ {First(rest[1])}>>
             /\ out' = out \/ out' = Append(out, First(rest[1]))
  <2>1. Len(rest) = 1 /\ rest[1] # {}  BY <1>2 DEF NameRow, TypeInv
  <2>2. rest[1] \in SUBSET Docs
    <3>1. 1 \in 1..Len(rest)  BY <2>1
    <3> QED  BY <1>1, <3>1
  <2>3. First(rest[1]) \in rest[1]  BY <1>1, <2>1, <2>2, HeadOfStream
  <2> QED  BY <1>2, <2>2, <2>3 DEF NameRow
<1>3. ASSUME MergeRow
      PROVE  /\ Best \in Ranges /\ First(rest[Best]) \in rest[Best]
             /\ rest[Best] \in SUBSET Docs /\ Best \in 1..Len(rest)
             /\ rest' = [rest EXCEPT ![Best] = @ \ {First(rest[Best])}]
             /\ out' = out \/ out' = Append(out, First(rest[Best]))
  <2>1. pc = "merge" /\ \E i \in Ranges : rest[i] # {}  BY <1>3 DEF MergeRow
  <2>2. Best \in Ranges /\ First(rest[Best]) \in rest[Best]  BY <2>1, BestIsFirst
  <2>3. Ranges = 1..Len(rest)  BY <1>1, <2>1, QueryFields DEF TypeInv
  <2>4. rest[Best] \in SUBSET Docs  BY <1>1, <2>2, <2>3
  <2> QED  BY <1>3, <2>2, <2>3, <2>4 DEF MergeRow
<1> QED  BY <1>2, <1>3

LEMMA TypeNext == TypeInv /\ [Next]_vars => TypeInv'
<1> SUFFICES ASSUME TypeInv, [Next]_vars PROVE TypeInv'  OBVIOUS
<1>q. /\ q \in Query /\ EffectiveLimit \in Int /\ All \in SUBSET Docs /\ q.extra \in SUBSET Docs
      /\ Len(q.rows) \in Nat /\ Ranges = 1..Len(q.rows) /\ Cardinality(Ranges) = Len(q.rows)
      /\ out \in Seq(Docs) /\ rest \in Seq(SUBSET Docs)
  BY QueryFields DEF TypeInv
<1>0. CASE UNCHANGED vars  BY <1>0 DEF vars, TypeInv
<1>1. CASE CountAll
  <2>1. count' \in Nat
    <3>1. All \cup q.extra \in SUBSET Docs  BY <1>q
    <3>2. Cardinality(All \cup q.extra) \in Nat  BY <3>1, DocSets
    <3>3. q.limit \in Int  BY <1>q, QueryFields
    <3>4. MergedUpTo \in Nat  BY <1>1, <1>q, MergedIsLargest DEF CountAll
    <3> QED  BY <1>1, <3>2, <3>3, <3>4 DEF CountAll, UpTo, AtMost, Least
  <2> QED  BY <1>1, <2>1 DEF CountAll, TypeInv
<1>2. CASE General
  <2>1. out' \in Seq(Docs)
    BY <1>2, <1>q, PageOfQuery, OperatorsOfQuery DEF General
  <2>2. count' \in Nat  BY <1>2, <2>1 DEF General
  <2> QED  BY <1>2, <1>q, <2>1, <2>2 DEF General, TypeInv
<1>3. CASE NameQuery
  <2>1. Rows(All \cup q.extra, EffectiveLimit, 0) \in SUBSET Docs  BY <1>q DEF Rows
  <2>2. rest' \in Seq(SUBSET Docs) /\ Len(rest') = 1
    <3>1. PICK R \in SUBSET Docs : rest' = <<R>>  BY <1>3, <1>q, <2>1 DEF NameQuery
    <3> QED  BY <3>1
  <2> QED  BY <1>3, <1>q, <2>2 DEF NameQuery, TypeInv
<1>4. CASE NameRow
  <2>1. /\ First(rest[1]) \in Docs
        /\ out' = out \/ out' = Append(out, First(rest[1]))
        /\ rest' = <<rest[1] \ {First(rest[1])}>> /\ rest[1] \in SUBSET Docs
    BY <1>4, RowTypes
  <2>2. out' \in Seq(Docs)  BY <1>q, <2>1
  <2>3. rest' \in Seq(SUBSET Docs) /\ Len(rest') = 1  BY <2>1
  <2>4. skipped' \in Nat /\ count' \in Nat /\ pc' \in {"stream", "done"}
    BY <1>4, <2>2 DEF NameRow, TypeInv
  <2> QED  BY <1>4, <2>2, <2>3, <2>4 DEF NameRow, TypeInv
<1>5. CASE NameDone  BY <1>5 DEF NameDone, TypeInv
<1>6. CASE ScanOne
  <2>1. out' \in Seq(Docs)
    BY <1>6, <1>q, PageOfQuery, OneRangePage DEF ScanOne
  <2>2. count' \in Nat
    <3>1. count' = Len(out')  BY <1>6 DEF ScanOne
    <3> QED  BY <2>1, <3>1
  <2> QED  BY <1>6, <1>q, <2>1, <2>2 DEF ScanOne, TypeInv
<1>7. CASE ScanRanges  BY <1>7, <1>q DEF ScanRanges, Starting, TypeInv
<1>8. CASE ScanRange
  <2> DEFINE R == Rows(q.rows[Len(rest) + 1], PerRange(limit), 0)
  <2>1. pc = "scan" /\ Len(rest) + 1 \in Ranges  BY <1>8, <1>q DEF ScanRange, TypeInv
  <2>2. R \in SUBSET Docs  BY <1>q, <2>1, QueryFields DEF Rows
  <2>3. rest' = Append(rest, R)  BY <1>8 DEF ScanRange
  <2> HIDE DEF R
  <2>4. rest' \in Seq(SUBSET Docs) /\ Len(rest') = Len(rest) + 1  BY <1>q, <2>2, <2>3
  <2>5. /\ pc' = "merge" => Len(rest') = Len(q.rows)
        /\ pc' = "scan" => Len(rest') < Len(q.rows)
        /\ pc' \in {"scan", "merge"}
    BY <1>8, <1>q, <2>1, <2>4 DEF ScanRange
  <2> QED  BY <1>8, <2>4, <2>5 DEF ScanRange, TypeInv
<1>9. CASE MergeRow
  <2> DEFINE d == First(rest[Best])
  <2>1. /\ d \in Docs
        /\ out' = out \/ out' = Append(out, d)
        /\ rest' = [rest EXCEPT ![Best] = @ \ {d}]
        /\ rest[Best] \in SUBSET Docs /\ Best \in 1..Len(rest)
    BY <1>9, RowTypes
  <2> HIDE DEF d
  <2>2. out' \in Seq(Docs)  BY <1>q, <2>1
  <2>3. rest' \in Seq(SUBSET Docs) /\ Len(rest') = Len(rest)  BY <1>q, <2>1
  <2>4. /\ skipped' \in Nat /\ count' \in Nat /\ pc' \in {"merge", "done"}
        /\ seen' \subseteq Docs /\ pc = "merge" /\ UNCHANGED <<q, limit, moved>>
    BY <1>9, <2>1, <2>2 DEF MergeRow, TypeInv, d
  <2> QED  BY <2>2, <2>3, <2>4 DEF TypeInv
<1>10. CASE MergeDone  BY <1>10 DEF MergeDone, TypeInv
<1>11. ASSUME NEW d \in Docs, NEW i \in Ranges, MoveDoc(d, i) PROVE TypeInv'
  <2> DEFINE f == [j \in Ranges |-> IF j = i THEN q.rows[j] \cup {d} ELSE q.rows[j] \ {d}]
  <2>1. /\ q' = [q EXCEPT !.rows = f] /\ moved' = TRUE
        /\ UNCHANGED <<pc, limit, rest, seen, skipped, out, count>>
    BY <1>11 DEF MoveDoc
  <2>2. PICK k \in 0..NRanges : q.rows \in [1..k -> SUBSET Docs]  BY <1>q DEF Query
  <2>3. Ranges = 1..k /\ k \in Nat  BY <2>2 DEF Ranges
  <2>4. f \in [1..k -> SUBSET Docs] /\ Len(f) = k  BY <2>2, <2>3
  <2> HIDE DEF f
  <2>5. f \in UNION {[1..n -> SUBSET Docs] : n \in 0..NRanges}  BY <2>2, <2>4
  <2>6. q' \in Query /\ q'.rows = f  BY <1>q, <2>1, <2>5 DEF Query
  <2>7. Len(q'.rows) = Len(q.rows)  BY <2>2, <2>3, <2>4, <2>6
  <2> QED  BY <2>1, <2>6, <2>7 DEF TypeInv
<1> QED  BY <1>0, <1>1, <1>2, <1>3, <1>4, <1>5, <1>6, <1>7, <1>8, <1>9, <1>10, <1>11 DEF Next
-----------------------------------------------------------------------------
(***************************************************************************)
(* The order of a page.                                                    *)
(***************************************************************************)

\* Yielding or dropping a row that no other row comes before keeps the order.
LEMMA OrderStep ==
    ASSUME TypeInv, OrderInv, pc \in {"stream", "merge"}, q' = q,
           NEW d \in Docs, \E b \in 1..Len(rest) : d \in rest[b],
           out' = out \/ out' = Append(out, d),
           \A j \in 1..Len(rest) : \A f \in rest[j] : f = d \/ Lt(q.desc, d, f),
           Len(rest') = Len(rest), \A j \in 1..Len(rest) : rest'[j] \subseteq rest[j],
           pc' \in {"stream", "merge", "done"}
    PROVE  OrderInv'
<1>1. q \in Query /\ out \in Seq(Docs) /\ rest \in Seq(SUBSET Docs)  BY DEF TypeInv
<1>2. q.desc \in BOOLEAN  BY <1>1, QueryFields
<1>3. \A k \in 1..Len(out) : ~Before(d, out[k])
  BY DEF OrderInv
<1>4. \A j \in 1..Len(rest) : \A f \in rest[j] : ~Before(f, d)
  <2> SUFFICES ASSUME NEW j \in 1..Len(rest), NEW f \in rest[j] PROVE ~Before(f, d)
    OBVIOUS
  <2>1. f \in Docs  BY <1>1
  <2>2. f \in Int /\ d \in Int  BY <2>1, PagingAssumption DEF Docs
  <2> QED  BY <1>2, <2>2, LtOrder, OperatorsOfQuery
<1>5. \A k \in 1..Len(out), j \in 1..Len(rest) : \A f \in rest[j] : ~Before(f, out[k])
  BY DEF OrderInv
<1>6. \A i, j \in 1..Len(out) : i < j => ~Before(out[j], out[i])
  BY DEF OrderInv, InQueryOrder
<1>7. Len(out) \in Nat  BY <1>1
<1>8. \A a, b : Before(a, b)' <=> Before(a, b)  BY DEF Before
<1>9. /\ Len(out') \in Nat /\ Len(out) <= Len(out')
      /\ \A k \in 1..Len(out') :
            (k \in 1..Len(out) /\ out'[k] = out[k]) \/ (k = Len(out) + 1 /\ out'[k] = d)
  <2>1. CASE out' = out  BY <1>7, <2>1
  <2>2. CASE out' = Append(out, d)  BY <1>1, <1>7, <2>2
  <2> QED  BY <2>1, <2>2
<1>10. ~Before(d, d)
  <2>1. d \in Int  BY PagingAssumption DEF Docs
  <2> QED  BY <1>2, <2>1, LtOrder, OperatorsOfQuery
<1>11. \A i, j \in 1..Len(out') : i < j => ~Before(out'[j], out'[i])
  BY <1>3, <1>6, <1>7, <1>9, <1>10
<1>12. \A k \in 1..Len(out'), j \in 1..Len(rest') : \A f \in rest'[j] : ~Before(f, out'[k])
  BY <1>4, <1>5, <1>9
<1> QED  BY <1>11, <1>12 DEF OrderInv, InQueryOrder, Before

LEMMA OrderNext == TypeInv /\ OrderInv /\ [Next]_vars => OrderInv'
<1> SUFFICES ASSUME TypeInv, OrderInv, [Next]_vars PROVE OrderInv'  OBVIOUS
<1>q. q \in Query /\ EffectiveLimit \in Int  BY QueryFields DEF TypeInv
<1>0. CASE UNCHANGED vars
  BY <1>0 DEF vars, OrderInv, InQueryOrder, Before
<1>e. ASSUME out' = <<>> PROVE OrderInv'
  <2>1. Len(out') = 0  BY <1>e
  <2>2. 1..Len(out') = {}  BY <2>1
  <2> QED  BY <1>e, <2>2 DEF OrderInv, InQueryOrder
<1>k. ASSUME pc' = "done", UNCHANGED <<q, out>> PROVE OrderInv'
  BY <1>k DEF OrderInv, InQueryOrder, Before
<1>g. ASSUME pc' = "done", q' = q, out' = Page(q.desc, All, EffectiveLimit, q.offset)
      PROVE  OrderInv'
  <2>1. \A i, j \in 1..Len(out') : i < j => ~Before(out'[j], out'[i])
    BY <1>q, <1>g, PageOfQuery
  <2> QED  BY <1>g, <2>1 DEF OrderInv, InQueryOrder, Before
<1>1. CASE CountAll  BY <1>1, <1>k DEF CountAll
<1>2. CASE General  BY <1>2, <1>g, OperatorsOfQuery DEF General
<1>3. CASE NameQuery  BY <1>3, <1>e DEF NameQuery, Starting, OrderInv
<1>4. CASE NameRow
  <2> DEFINE d == First(rest[1])
  <2>1. pc = "stream" /\ Len(rest) = 1  BY <1>4 DEF NameRow, TypeInv
  <2>2. /\ d \in rest[1] /\ rest[1] \in SUBSET Docs /\ rest' = <<rest[1] \ {d}>>
        /\ out' = out \/ out' = Append(out, d)
    BY <1>4, RowTypes
  <2>3. \A f \in rest[1] : f = d \/ Lt(q.desc, d, f)
    BY <1>q, <2>2, HeadOfStream
  <2>4. q' = q /\ pc' \in {"stream", "done"}  BY <1>4, <2>1 DEF NameRow
  <2> HIDE DEF d
  <2>5. Len(rest') = 1 /\ rest'[1] = rest[1] \ {d}  BY <2>2
  <2>6. \A j \in 1..Len(rest) : j = 1  BY <2>1
  <2>7. 1 \in 1..Len(rest) /\ d \in Docs  BY <2>1, <2>2
  <2>8. \A j \in 1..Len(rest) : \A f \in rest[j] : f = d \/ Lt(q.desc, d, f)
    BY <2>3, <2>6
  <2>9. \A j \in 1..Len(rest) : rest'[j] \subseteq rest[j]  BY <2>5, <2>6
  <2> QED  BY <2>1, <2>2, <2>4, <2>5, <2>7, <2>8, <2>9, OrderStep
<1>5. CASE NameDone  BY <1>5, <1>k DEF NameDone
<1>6. CASE ScanOne
  <2>1. out' = Page(q.desc, All, EffectiveLimit, q.offset)
    BY <1>6, <1>q, OneRangePage DEF ScanOne
  <2> QED  BY <1>6, <1>g, <2>1 DEF ScanOne
<1>7. CASE ScanRanges  BY <1>7, <1>e DEF ScanRanges, Starting, OrderInv
<1>8. CASE ScanRange  BY <1>8, <1>e DEF ScanRange, OrderInv
<1>9. CASE MergeRow
  <2> DEFINE d == First(rest[Best])
  <2>1. pc = "merge" /\ \E i \in Ranges : rest[i] # {}  BY <1>9 DEF MergeRow
  <2>2. /\ d \in rest[Best] /\ rest[Best] \in SUBSET Docs /\ Best \in 1..Len(rest)
        /\ rest' = [rest EXCEPT ![Best] = @ \ {d}]
        /\ out' = out \/ out' = Append(out, d)
    BY <1>9, RowTypes
  <2>3. \A j \in Ranges : \A f \in rest[j] : f = d \/ Lt(q.desc, d, f)
    BY <2>1, BestIsFirst
  <2>4. Ranges = 1..Len(rest) /\ rest \in Seq(SUBSET Docs)
    BY <1>q, <2>1, QueryFields DEF TypeInv
  <2>5. q' = q /\ pc' \in {"merge", "done"}  BY <1>9, <2>1 DEF MergeRow
  <2> HIDE DEF d
  <2>6. Len(rest') = Len(rest) /\ \A j \in 1..Len(rest) : rest'[j] \subseteq rest[j]
    BY <2>2, <2>4
  <2>7. d \in Docs /\ \E b \in 1..Len(rest) : d \in rest[b]  BY <2>2
  <2> QED  BY <2>1, <2>2, <2>3, <2>4, <2>5, <2>6, <2>7, OrderStep
<1>10. CASE MergeDone  BY <1>10, <1>k DEF MergeDone
<1>11. ASSUME NEW d \in Docs, NEW i \in Ranges, MoveDoc(d, i) PROVE OrderInv'
  BY <1>11, <1>e DEF MoveDoc, OrderInv
<1> QED  BY <1>0, <1>1, <1>2, <1>3, <1>4, <1>5, <1>6, <1>7, <1>8, <1>9, <1>10, <1>11 DEF Next

\* Every page is in query order, whatever path cut it, even if documents change
\* ranges between the scans: mergeRanges interleaves by suffix and never groups by
\* value.
THEOREM InQueryOrderHolds == Spec => []InQueryOrder
<1>1. Init => OrderInv
  <2> SUFFICES ASSUME Init PROVE OrderInv  OBVIOUS
  <2>1. pc = "start" /\ out = <<>>  BY DEF Init
  <2>2. 1..Len(out) = {}  BY <2>1
  <2> QED  BY <2>1, <2>2 DEF OrderInv, InQueryOrder
<1>2. OrderInv => InQueryOrder  BY DEF OrderInv
<1> QED  BY <1>1, <1>2, TypeInit, TypeNext, OrderNext, PTL DEF Spec
-----------------------------------------------------------------------------
(***************************************************************************)
(* Cutting a page row by row.                                              *)
(***************************************************************************)

LEMMA AdvancedStart ==
    ASSUME NEW x \in BOOLEAN, NEW S, NEW l \in Int, NEW o \in Nat
    PROVE  Advanced(x, S, l, o, {}, 0, <<>>)
<1>1. Cardinality({}) = 0 /\ Len(<<>>) = 0 /\ 1..0 = {}  BY FS_EmptySet
<1> QED  BY <1>1 DEF Advanced

\* The next row in order is skipped, up to the offset, and then yielded, up to
\* the limit.
LEMMA AdvancedStep ==
    ASSUME NEW x \in BOOLEAN, NEW S \in SUBSET Int, IsFiniteSet(S),
           NEW l \in Int, NEW o \in Nat, NEW sk \in Nat, NEW s \in Seq(Int), NEW D,
           Advanced(x, S, l, o, D, sk, s), NEW d \in S, d \notin D,
           \A e \in S : Lt(x, e, d) => e \in D, \A e \in D : Lt(x, e, d)
    PROVE  /\ sk < o => Advanced(x, S, l, o, D \cup {d}, sk + 1, s)
           /\ sk >= o /\ (l >= 0 => Len(s) < l) =>
                 Advanced(x, S, l, o, D \cup {d}, sk, Append(s, d))
<1>1. /\ D \subseteq S /\ Cardinality(D) = sk + Len(s) /\ Len(s) \in Nat
      /\ sk <= o /\ (s # <<>> => sk = o)
      /\ \A k \in 1..Len(s) : s[k] = At(x, S, o + k)
      /\ l >= 0 => Len(s) <= l
  BY DEF Advanced
<1>2. D \cup {d} = Down(x, S, d)  BY <1>1 DEF Down
<1>3. Cardinality(D \cup {d}) = sk + Len(s) + 1
  <2>1. IsFiniteSet(D)  BY <1>1, FS_Subset
  <2>2. Cardinality(D \cup {d}) = Cardinality(D) + 1  BY <2>1, FS_AddElement
  <2> QED  BY <1>1, <2>2
<1>4. ASSUME sk < o PROVE Advanced(x, S, l, o, D \cup {d}, sk + 1, s)
  <2>1. s = <<>>  BY <1>1, <1>4
  <2>2. sk + 1 <= o /\ (s # <<>> => sk + 1 = o)  BY <1>4, <2>1
  <2>3. Cardinality(D \cup {d}) = (sk + 1) + Len(s)  BY <1>1, <1>3
  <2> QED  BY <1>1, <2>2, <2>3 DEF Advanced
<1>5. ASSUME sk >= o, l >= 0 => Len(s) < l
      PROVE  Advanced(x, S, l, o, D \cup {d}, sk, Append(s, d))
  <2> DEFINE t == Append(s, d)
  <2>1. sk = o  BY <1>1, <1>5
  <2>2. At(x, S, o + (Len(s) + 1)) = d
    <3>1. Pos(x, S, d) = sk + Len(s) + 1  BY <1>2, <1>3 DEF Pos
    <3>2. Pos(x, S, d) = o + (Len(s) + 1)  BY <1>1, <2>1, <3>1
    <3> QED  BY <3>2, AtPos
  <2>3. /\ Len(t) = Len(s) + 1 /\ t[Len(s) + 1] = d
        /\ \A k \in 1..Len(s) : t[k] = s[k]
    OBVIOUS
  <2> HIDE DEF t
  <2>4. \A k \in 1..Len(t) : k \in 1..Len(s) \/ k = Len(s) + 1  BY <1>1, <2>3
  <2>5. \A k \in 1..Len(t) : t[k] = At(x, S, o + k)  BY <1>1, <2>2, <2>3, <2>4
  <2>6. l >= 0 => Len(t) <= l  BY <1>1, <1>5, <2>3
  <2>7. Cardinality(D \cup {d}) = sk + Len(t)  BY <1>1, <1>3, <2>3
  <2> QED  BY <1>1, <2>1, <2>5, <2>6, <2>7 DEF Advanced, t
<1> QED  BY <1>4, <1>5

\* When the rows are exhausted, or the limit is reached, what was yielded is the
\* page.
LEMMA AdvancedEnd ==
    ASSUME NEW x \in BOOLEAN, NEW S \in SUBSET Int, IsFiniteSet(S),
           NEW l \in Int, NEW o \in Nat, NEW sk \in Nat, NEW s \in Seq(Int), NEW D,
           Advanced(x, S, l, o, D, sk, s),
           D = S \/ (l >= 0 /\ Len(s) = l /\ sk = o)
    PROVE  s = Page(x, S, l, o)
<1> DEFINE n == Cardinality(S)
           m == End(n, l, o) - Start(n, o)
<1>1. /\ D \subseteq S /\ Cardinality(D) = sk + Len(s) /\ Len(s) \in Nat
      /\ sk <= o /\ (s # <<>> => sk = o)
      /\ \A k \in 1..Len(s) : s[k] = At(x, S, o + k)
      /\ l >= 0 => Len(s) <= l
  BY DEF Advanced
<1>2. n \in Nat /\ Cardinality(D) <= n  BY <1>1, FS_Subset, FS_CardinalityType
<1>3. s = <<>> <=> Len(s) = 0  OBVIOUS
<1>4. D = S => n = sk + Len(s)  BY <1>1
<1> HIDE DEF n
<1>5. m = Len(s) /\ (Len(s) # 0 => Start(n, o) = o)
  <2> DEFINE j == Len(s)
  <2>1. /\ j \in Nat /\ sk <= o /\ (j # 0 => sk = o) /\ (l >= 0 => j <= l)
        /\ sk + j <= n /\ (n = sk + j \/ (l >= 0 /\ j = l /\ sk = o))
    BY <1>1, <1>2, <1>3, <1>4
  <2> HIDE DEF j
  <2>2. m = j /\ (j # 0 => Start(n, o) = o)  BY <1>2, <2>1 DEF Start, End
  <2> QED  BY <2>2 DEF j
<1>6. \A k \in 1..Len(s) : s[k] = At(x, S, Start(n, o) + k)
  BY <1>1, <1>5
<1>7. s = [k \in 1..Len(s) |-> s[k]]  OBVIOUS
<1>8. Page(x, S, l, o) = [k \in 1..m |-> At(x, S, Start(n, o) + k)]  BY DEF Page, n
<1> HIDE DEF m
<1> QED  BY <1>5, <1>6, <1>7, <1>8
\* What a step that leaves the query alone leaves alone.
LEMMA SameQuery ==
    ASSUME q' = q
    PROVE  /\ All' = All /\ Ranges' = Ranges /\ EffectiveLimit' = EffectiveLimit
           /\ MergedUpTo' = MergedUpTo /\ (Counting' <=> Counting)
           /\ (CountOnly' <=> CountOnly) /\ \A l : PerRange(l)' = PerRange(l)
<1>1. MergedUpTo' = MergedUpTo  BY DEF MergedUpTo
<1>2. Counting' <=> Counting  BY DEF Counting
<1>3. CountOnly' <=> CountOnly  BY DEF CountOnly
<1>4. EffectiveLimit' = EffectiveLimit  BY <1>1, <1>2 DEF EffectiveLimit, BoundedLimit
<1>5. All' = All  BY DEF All
<1>6. Ranges' = Ranges  BY DEF Ranges
<1>7. \A l : PerRange(l)' = PerRange(l)  BY DEF PerRange
<1> QED  BY <1>1, <1>2, <1>3, <1>4, <1>5, <1>6, <1>7

\* The statement of runNameOrdered selects all rows, or the first ones.
LEMMA SelectedFacts ==
    ASSUME TypeInv
    PROVE  LET U == All \cup q.extra
           IN  /\ Selected \subseteq U /\ U \in SUBSET Docs
               /\ \A e \in Selected, f \in U : Lt(q.desc, f, e) => f \in Selected
               /\ \/ Selected = U
                  \/ /\ ~q.filtered /\ q.offset = 0
                     /\ limit >= 0 /\ Cardinality(Selected) = limit
<1> DEFINE U == All \cup q.extra
<1>1. U \in SUBSET Docs /\ q.desc \in BOOLEAN /\ limit \in Int  BY QueryFields DEF TypeInv
<1>2. U \in SUBSET Int /\ IsFiniteSet(U)  BY <1>1, DocSets
<1>3. Selected = IF ~q.filtered /\ q.offset = 0 THEN Cut(q.desc, U, limit, 0) ELSE U
  BY DEF Selected
<1> HIDE DEF U
<1>4. /\ \A e \in Cut(q.desc, U, limit, 0), f \in U :
            Lt(q.desc, f, e) => f \in Cut(q.desc, U, limit, 0)
      /\ Cut(q.desc, U, limit, 0) \subseteq U
      /\ \/ Cut(q.desc, U, limit, 0) = U
         \/ limit >= 0 /\ Cardinality(Cut(q.desc, U, limit, 0)) = limit
  BY <1>1, <1>2, CutPrefix
<1>5. CASE ~q.filtered /\ q.offset = 0
  <2>1. Selected = Cut(q.desc, U, limit, 0)  BY <1>3, <1>5
  <2> QED  BY <1>1, <1>4, <1>5, <2>1 DEF U
<1>6. CASE ~(~q.filtered /\ q.offset = 0)
  <2>1. Selected = U  BY <1>3, <1>6
  <2> QED  BY <1>1, <2>1 DEF U
<1> QED  BY <1>5, <1>6

\* No row that Go drops is among the matching ones, and where LIMIT is pushed down
\* it drops none.
LEMMA DroppedRows ==
    ASSUME TypeInv, Regular, q.path = "name"
    PROVE  q.extra \cap All = {} /\ (~q.filtered /\ q.offset = 0 => q.extra = {})
<1>1. Meaningful(q)  BY DEF TypeInv, Regular
<1> QED  BY <1>1 DEF Meaningful, Regular, CutBeforeCursor, All

LEMMA PageTypes ==
    ASSUME TypeInv
    PROVE  /\ q.desc \in BOOLEAN /\ q.offset \in Nat /\ limit \in Int /\ skipped \in Nat
           /\ All \in SUBSET Docs /\ All \in SUBSET Int /\ IsFiniteSet(All)
           /\ out \in Seq(Int) /\ Len(out) \in Nat
<1>1. q \in Query /\ limit \in Int /\ skipped \in Nat /\ out \in Seq(Docs)  BY DEF TypeInv
<1>2. Docs \subseteq Int  BY PagingAssumption DEF Docs
<1>3. out \in Seq(Int)  BY <1>1, <1>2, SeqOfSubset, Zenon
<1>4. Len(out) \in Nat  BY <1>1
<1> QED  BY <1>1, <1>3, <1>4, QueryFields, DocSets

\* runNameOrdered: the statement is started.
LEMMA StreamStarts ==
    ASSUME TypeInv, PageInv, Regular, NameQuery
    PROVE  StreamInv'
<1>1. /\ q' = q /\ limit' = EffectiveLimit /\ UNCHANGED <<skipped, out>>
      /\ q.path = "name" /\ pc = "start"
  BY DEF NameQuery, Starting
<1>2. out = <<>> /\ skipped = 0  BY <1>1 DEF PageInv
<1>3. rest'[1] = Selected'
  BY <1>1, SameQuery, OperatorsOfQuery DEF NameQuery, Selected
<1>4. q.desc \in BOOLEAN /\ q.offset \in Nat  BY PageTypes
<1>5. limit' \in Int  BY <1>1, QueryFields DEF TypeInv
<1>6. Advanced(q.desc, All, limit', q.offset, {}, 0, <<>>)  BY <1>4, <1>5, AdvancedStart
<1>7. (Selected' \cap All') \ rest'[1] = {}  BY <1>3
<1>8. Progress((Selected \cap All) \ rest[1])'
  BY <1>1, <1>2, <1>6, <1>7, SameQuery DEF Progress
<1>9. \A e \in Selected' \ rest'[1] : FALSE  BY <1>3
<1> QED  BY <1>1, <1>3, <1>8, <1>9 DEF StreamInv

\* runNameOrdered: one row.
LEMMA StreamRow ==
    ASSUME TypeInv, PageInv, Regular, NameRow
    PROVE  (pc' = "stream" => StreamInv') /\ (pc' = "done" => Answered')
<1> DEFINE d == First(rest[1])
           R == rest[1]
           D == (Selected \cap All) \ R
           x == q.desc
<1>1. pc = "stream" /\ q' = q /\ limit' = limit /\ count' = Len(out')  BY DEF NameRow
<1>2. StreamInv /\ limit = EffectiveLimit  BY <1>1 DEF PageInv
<1>3. d \in R /\ R \in SUBSET Docs /\ rest' = <<R \ {d}>>  BY RowTypes
<1>4. \A f \in R : f = d \/ Lt(x, d, f)
  BY <1>3, HeadOfStream DEF TypeInv
<1>5. /\ q.path = "name" /\ R \subseteq Selected /\ Progress(D)
      /\ \A e \in Selected \ R, f \in R : Lt(x, e, f)
  BY <1>2 DEF StreamInv
<1>6. /\ Selected \subseteq All \cup q.extra
      /\ \A e \in Selected, f \in All \cup q.extra : Lt(x, f, e) => f \in Selected
  BY SelectedFacts
<1>7. q.extra \cap All = {}  BY <1>5, DroppedRows
<1>8. rest'[1] = R \ {d}  BY <1>3
<1>9. Selected' = Selected /\ All' = All  BY <1>1, SameQuery DEF Selected
<1>10. ASSUME Advanced(x, All, limit, q.offset, (Selected \cap All) \ (R \ {d}), skipped', out')
       PROVE  StreamInv'
  <2>1. q'.path = "name" /\ R \ {d} \subseteq Selected  BY <1>1, <1>5
  <2>2. \A e \in Selected \ (R \ {d}), f \in R \ {d} : Lt(x, e, f)
    BY <1>4, <1>5
  <2>3. Progress((Selected \cap All) \ rest[1])'
    BY <1>1, <1>8, <1>9, <1>10 DEF Progress
  <2> QED  BY <1>1, <1>8, <1>9, <2>1, <2>2, <2>3 DEF StreamInv
<1>11. CASE d \in q.extra /\ UNCHANGED <<pc, skipped, out>>
  <2>1. (Selected \cap All) \ (R \ {d}) = D  BY <1>7, <1>11
  <2>2. Advanced(x, All, limit, q.offset, (Selected \cap All) \ (R \ {d}), skipped', out')
    BY <1>5, <1>11, <2>1 DEF Progress
  <2> QED  BY <1>1, <1>10, <1>11, <2>2
<1>12. ASSUME d \in All
       PROVE  /\ (Selected \cap All) \ (R \ {d}) = D \cup {d} /\ d \notin D
              /\ \A e \in All : Lt(x, e, d) => e \in D
              /\ \A e \in D : Lt(x, e, d)
  <2>1. d \in Selected  BY <1>3, <1>5
  <2>2. ASSUME NEW e \in All, Lt(x, e, d) PROVE e \in D
    <3>1. e \in Selected  BY <1>6, <2>1, <2>2
    <3>2. e \notin R
      <4>1. e \in Int /\ d \in Int /\ x \in BOOLEAN  BY <1>12, PageTypes
      <4> HIDE DEF d, R
      <4> QED  BY <1>4, <2>2, <4>1, LtOrder
    <3> QED  BY <3>1, <3>2
  <2> QED  BY <1>3, <1>5, <1>12, <2>1, <2>2
<1>13. Advanced(x, All, limit, q.offset, D, skipped, out)  BY <1>5 DEF Progress
<1> HIDE DEF d, R, D
<1>14. ASSUME d \in All
       PROVE  /\ skipped < q.offset =>
                    Advanced(x, All, limit, q.offset, D \cup {d}, skipped + 1, out)
              /\ skipped >= q.offset /\ (limit >= 0 => Len(out) < limit) =>
                    Advanced(x, All, limit, q.offset, D \cup {d}, skipped, Append(out, d))
  BY <1>12, <1>13, <1>14, PageTypes, AdvancedStep
<1>15. CASE d \in All /\ skipped < q.offset /\ skipped' = skipped + 1 /\ UNCHANGED <<pc, out>>
  <2>1. Advanced(x, All, limit, q.offset, (Selected \cap All) \ (R \ {d}), skipped', out')
    BY <1>12, <1>14, <1>15
  <2> QED  BY <1>1, <1>10, <1>15, <2>1
<1>16. CASE /\ d \in All /\ skipped >= q.offset /\ skipped' = skipped
            /\ limit >= 0 /\ Len(out) >= limit /\ pc' = "done" /\ out' = out
  <2>1. skipped = q.offset /\ Len(out) = limit
    BY <1>13, <1>16, PageTypes DEF Advanced
  <2>2. out = Page(x, All, limit, q.offset)
    BY <1>13, <1>16, <2>1, PageTypes, AdvancedEnd
  <2> QED  BY <1>1, <1>2, <1>16, <2>2, SameQuery DEF Answered
<1>17. CASE /\ d \in All /\ skipped >= q.offset /\ skipped' = skipped
            /\ ~(limit >= 0 /\ Len(out) >= limit) /\ out' = Append(out, d) /\ pc' = pc
  <2>1. limit >= 0 => Len(out) < limit  BY <1>17, PageTypes
  <2>2. Advanced(x, All, limit, q.offset, (Selected \cap All) \ (R \ {d}), skipped', out')
    BY <1>12, <1>14, <1>17, <2>1
  <2> QED  BY <1>1, <1>10, <1>17, <2>2
<1> QED  BY <1>11, <1>15, <1>16, <1>17 DEF NameRow, d

\* runNameOrdered: no row is left.
LEMMA StreamEnds ==
    ASSUME TypeInv, PageInv, Regular, NameDone
    PROVE  Answered'
<1>1. pc = "stream" /\ rest[1] = {} /\ q' = q /\ UNCHANGED <<limit, out, count>>
  BY DEF NameDone
<1>2. StreamInv /\ limit = EffectiveLimit /\ count = Len(out)  BY <1>1 DEF PageInv
<1>3. q.path = "name" /\ Progress(Selected \cap All)
  <2>1. (Selected \cap All) \ rest[1] = Selected \cap All  BY <1>1
  <2> QED  BY <1>2, <2>1 DEF StreamInv
<1>4. Advanced(q.desc, All, limit, q.offset, Selected \cap All, skipped, out)
  BY <1>3 DEF Progress
<1>5. Selected \cap All = All \/ (limit >= 0 /\ Len(out) = limit /\ skipped = q.offset)
  <2>1. CASE Selected = All \cup q.extra  BY <2>1
  <2>2. CASE ~q.filtered /\ q.offset = 0 /\ limit >= 0 /\ Cardinality(Selected) = limit
    <3>1. q.extra = {}  BY <1>3, <2>2, DroppedRows
    <3>2. Selected \cap All = Selected  BY <3>1, SelectedFacts
    <3>3. Cardinality(Selected) = skipped + Len(out) /\ skipped <= 0
      BY <1>4, <2>2, <3>2 DEF Advanced
    <3> QED  BY <2>2, <3>3, PageTypes
  <2> QED  BY <2>1, <2>2, SelectedFacts
<1>6. out = Page(q.desc, All, limit, q.offset)  BY <1>4, <1>5, PageTypes, AdvancedEnd
<1> QED  BY <1>1, <1>2, <1>6, SameQuery DEF Answered
LEMMA LimitFits ==
    ASSUME q \in Query
    PROVE  EffectiveLimit <= MaxInt32 /\ q.offset \in 0..MaxInt32
<1>1. q.offset \in Offsets /\ q.limit \in Limits  BY DEF Query
<1>2. q.offset \in 0..MaxInt32 /\ q.limit \in (-MaxInt32 - 1)..MaxInt32 /\ MaxInt32 \in Nat
  BY <1>1, PagingAssumption
<1>3. Counting => Int32(MergedUpTo) <= MaxInt32  BY MergedIsLargest, Int32Facts
<1> QED  BY <1>2, <1>3 DEF EffectiveLimit, BoundedLimit

\* What scanRange reads: the first rows of the range, and if it stops short of
\* the end, enough for the page and all that is skipped before it.  A sum of
\* limit and offset that overflows is negative, and reads the whole range.
LEMMA PrefetchedFacts ==
    ASSUME TypeInv, limit = EffectiveLimit, NEW j \in Ranges
    PROVE  /\ Prefetched(j) \subseteq q.rows[j] /\ q.rows[j] \in SUBSET Docs
           /\ q.rows[j] \subseteq All
           /\ \A e \in Prefetched(j), f \in q.rows[j] : Lt(q.desc, f, e) => f \in Prefetched(j)
           /\ \/ Prefetched(j) = q.rows[j]
              \/ limit >= 0 /\ Cardinality(Prefetched(j)) = limit + q.offset
<1> DEFINE S == q.rows[j]
           p == PerRange(limit)
<1>1. /\ q \in Query /\ q.desc \in BOOLEAN /\ S \in SUBSET Docs /\ limit \in Int /\ p \in Int
      /\ q.offset \in Nat
  BY QueryFields DEF TypeInv
<1>2. S \in SUBSET Int /\ IsFiniteSet(S)
  <2> HIDE DEF S
  <2> QED  BY <1>1, DocSets
<1>3. S \subseteq All  BY DEF All, Matching, Ranges
<1> HIDE DEF p, S
<1>4. Prefetched(j) = Cut(q.desc, S, p, 0)  BY DEF Prefetched, p, S
<1>5. /\ \A e \in Cut(q.desc, S, p, 0), f \in S : Lt(q.desc, f, e) => f \in Cut(q.desc, S, p, 0)
      /\ Cut(q.desc, S, p, 0) \subseteq S
      /\ Cut(q.desc, S, p, 0) = S \/ (p >= 0 /\ Cardinality(Cut(q.desc, S, p, 0)) = p)
  BY <1>1, <1>2, CutPrefix
<1>6. p >= 0 => limit >= 0 /\ p = limit + q.offset
  <2> SUFFICES ASSUME p >= 0 PROVE limit >= 0 /\ p = limit + q.offset  OBVIOUS
  <2>1. limit >= 0 /\ p = Int32(limit + q.offset)  BY DEF p, PerRange
  <2>2. limit \in 0..MaxInt32 /\ q.offset \in 0..MaxInt32 /\ MaxInt32 \in Nat
    BY <1>1, <2>1, LimitFits, PagingAssumption
  <2> QED  BY <1>1, <2>1, <2>2, Int32Facts
<1> QED  BY <1>1, <1>3, <1>4, <1>5, <1>6 DEF S

\* While the page is not full, no range that was read in part is used up.
LEMMA RangeNotUsedUp ==
    ASSUME TypeInv, limit = EffectiveLimit, MergeInv, NEW j \in Ranges,
           Prefetched(j) # q.rows[j]
    PROVE  ~(Prefetched(j) \subseteq Taken)
<1> SUFFICES ASSUME Prefetched(j) \subseteq Taken PROVE FALSE  OBVIOUS
<1>1. limit >= 0 /\ Cardinality(Prefetched(j)) = limit + q.offset  BY PrefetchedFacts
<1>2. /\ Taken \subseteq All /\ Cardinality(Taken) = skipped + Len(out)
      /\ skipped <= q.offset /\ Len(out) < limit
  BY <1>1 DEF MergeInv, Progress, Advanced
<1>3. All \in SUBSET Docs /\ q.offset \in Nat /\ limit \in Int /\ skipped \in Nat /\ Len(out) \in Nat
  BY PageTypes
<1>4. IsFiniteSet(Taken)  BY <1>2, <1>3, DocSets
<1>5. Cardinality(Prefetched(j)) <= Cardinality(Taken)  BY <1>4, FS_Subset
<1> QED  BY <1>1, <1>2, <1>3, <1>5

\* mergeRanges: all streams are there, and nothing is taken from them yet.
LEMMA MergeStarts ==
    ASSUME TypeInv, PageInv, Regular, ScanRange
    PROVE  /\ \A i \in 1..Len(rest') : rest'[i] = Prefetched(i)'
           /\ pc' = "merge" => MergeInv'
<1> DEFINE n == Len(rest)
           R == Rows(q.rows[n + 1], PerRange(limit), 0)
<1>1. /\ pc = "scan" /\ q' = q /\ limit' = limit /\ UNCHANGED <<seen, skipped, out>>
      /\ rest' = Append(rest, R)
      /\ pc' = IF Len(rest') = Cardinality(Ranges) THEN "merge" ELSE "scan"
  BY DEF ScanRange
<1>2. /\ limit = EffectiveLimit /\ out = <<>> /\ skipped = 0 /\ seen = {}
      /\ \A i \in 1..n : rest[i] = Prefetched(i)
  BY <1>1 DEF PageInv
<1>3. /\ rest \in Seq(SUBSET Docs) /\ q \in Query /\ limit \in Int
      /\ Ranges = 1..Len(q.rows) /\ Cardinality(Ranges) = Len(q.rows)
  BY QueryFields DEF TypeInv
<1>4. R = Prefetched(n + 1)  BY OperatorsOfQuery DEF Prefetched
<1>5. \A i : Prefetched(i)' = Prefetched(i)  BY <1>1, SameQuery DEF Prefetched
<1> HIDE DEF R
<1>6. Len(rest') = n + 1 /\ n \in Nat /\ rest'[n + 1] = R /\ \A i \in 1..n : rest'[i] = rest[i]
  BY <1>1, <1>3
<1>7. \A i \in 1..Len(rest') : i \in 1..n \/ i = n + 1  BY <1>6
<1> HIDE DEF n
<1>8. \A i \in 1..Len(rest') : rest'[i] = Prefetched(i)'
  <2> SUFFICES ASSUME NEW i \in 1..Len(rest') PROVE rest'[i] = Prefetched(i)  BY <1>5
  <2> QED  BY <1>2, <1>4, <1>6, <1>7
<1>9. ASSUME pc' = "merge" PROVE MergeInv'
  <2>1. Ranges' = 1..Len(rest')  BY <1>1, <1>3, <1>9, SameQuery
  <2>2. \A i \in Ranges' : rest'[i] = Prefetched(i)'  BY <1>8, <2>1
  <2>3. Taken' = {}  BY <2>2 DEF Taken
  <2>4. Advanced(q.desc, All, limit, q.offset, {}, 0, <<>>)  BY PageTypes, AdvancedStart
  <2>5. Progress(Taken)'  BY <1>1, <1>2, <2>3, <2>4, SameQuery DEF Progress
  <2>6. limit' >= 0 => Len(out') < limit'
    <3>1. limit # 0 /\ Len(out') = 0  BY <1>1, <1>2 DEF Regular, ZeroMerge, PageInv, ScanRange
    <3> QED  BY <1>1, <1>3, <3>1
  <2> QED  BY <1>1, <1>2, <2>2, <2>3, <2>5, <2>6 DEF MergeInv
<1> QED  BY <1>8, <1>9
\* mergeRanges: one row.
LEMMA MergeOneRow ==
    ASSUME TypeInv, PageInv, Regular, MergeRow
    PROVE  (pc' = "merge" => MergeInv') /\ (pc' = "done" => Answered')
<1> DEFINE b == Best
           d == First(rest[b])
           x == q.desc
<1>1. /\ pc = "merge" /\ \E i \in Ranges : rest[i] # {}
      /\ q' = q /\ limit' = limit /\ count' = Len(out')
      /\ seen' = IF q.dedup THEN seen \cup {d} ELSE seen
  BY DEF MergeRow
<1>2. MergeInv /\ limit = EffectiveLimit  BY <1>1 DEF PageInv
<1>3. /\ b \in Ranges /\ d \in rest[b] /\ b \in 1..Len(rest)
      /\ rest' = [rest EXCEPT ![b] = @ \ {d}]
  BY RowTypes
<1>4. \A j \in Ranges : \A f \in rest[j] : f = d \/ Lt(x, d, f)  BY <1>1, BestIsFirst
<1>5. /\ \A i \in Ranges : rest[i] \subseteq Prefetched(i)
      /\ seen = IF q.dedup THEN Taken ELSE {}
      /\ \A e \in Taken, i \in Ranges : \A f \in rest[i] : e = f \/ Lt(x, e, f)
      /\ Advanced(x, All, limit, q.offset, Taken, skipped, out)
      /\ limit >= 0 => Len(out) < limit
  BY <1>2 DEF MergeInv, Progress
<1>6. \A i : Prefetched(i)' = Prefetched(i)  BY <1>1, SameQuery DEF Prefetched
<1>7. /\ All' = All /\ Ranges' = Ranges /\ EffectiveLimit' = EffectiveLimit
  BY <1>1, SameQuery
<1>8. \A i \in Ranges : rest'[i] = IF i = b THEN rest[i] \ {d} ELSE rest[i]
  <2>1. rest \in Seq(SUBSET Docs) /\ Ranges = 1..Len(rest)
    BY <1>1, QueryFields DEF TypeInv
  <2>2. DOMAIN rest = Ranges  BY <2>1
  <2> HIDE DEF b, d
  <2> QED  BY <1>3, <2>2, Zenon
<1> HIDE DEF b, d
<1>9. Taken' = Taken \cup {d}
  <2>1. Taken' = UNION {Prefetched(i) \ rest'[i] : i \in Ranges}
    BY <1>6, <1>7 DEF Taken
  <2>2. d \in Prefetched(b)  BY <1>3, <1>5
  <2>3. \A i \in Ranges : rest'[i] \subseteq rest[i]  BY <1>8
  <2>4. ASSUME NEW e \in Taken' PROVE e \in Taken \cup {d}
    <3>1. PICK i \in Ranges : e \in Prefetched(i) \ rest'[i]  BY <2>1
    <3>2. e \notin rest[i] \/ e = d  BY <1>8, <3>1
    <3>3. e \in Prefetched(i) \ rest[i] => e \in Taken  BY DEF Taken
    <3> QED  BY <3>1, <3>2, <3>3
  <2>5. ASSUME NEW e \in Taken PROVE e \in Taken'
    <3>1. PICK i \in Ranges : e \in Prefetched(i) \ rest[i]  BY DEF Taken
    <3>2. e \in Prefetched(i) \ rest'[i]  BY <2>3, <3>1
    <3> QED  BY <2>1, <3>2
  <2>6. d \in Taken'
    <3>1. d \in Prefetched(b) \ rest'[b]  BY <1>3, <1>8, <2>2
    <3> QED  BY <1>3, <2>1, <3>1
  <2> QED  BY <2>4, <2>5, <2>6
<1>10. ASSUME Advanced(x, All, limit, q.offset, Taken \cup {d}, skipped', out'),
              limit >= 0 => Len(out') < limit
       PROVE  MergeInv'
  <2>1. \A i \in Ranges : rest'[i] \subseteq Prefetched(i)  BY <1>5, <1>8
  <2>2. seen' = IF q.dedup THEN Taken \cup {d} ELSE {}  BY <1>1, <1>5
  <2>3. \A e \in Taken \cup {d}, i \in Ranges : \A f \in rest'[i] : e = f \/ Lt(x, e, f)
    <3>1. \A i \in Ranges : rest'[i] \subseteq rest[i]  BY <1>8
    <3> QED  BY <1>4, <1>5, <3>1
  <2>4. Progress(Taken)'  BY <1>1, <1>7, <1>9, <1>10 DEF Progress
  <2> QED  BY <1>1, <1>6, <1>7, <1>9, <1>10, <2>1, <2>2, <2>3, <2>4 DEF MergeInv
<1>11. CASE d \in seen /\ UNCHANGED <<pc, skipped, out>>
  <2>1. Taken \cup {d} = Taken  BY <1>5, <1>11
  <2> QED  BY <1>1, <1>5, <1>10, <1>11, <2>1
<1>12. d \in All /\ \A e \in All : e \in Int
  <2>1. d \in Prefetched(b) /\ Prefetched(b) \subseteq q.rows[b] /\ q.rows[b] \subseteq All
    BY <1>2, <1>3, <1>5, PrefetchedFacts
  <2> QED  BY <2>1, PageTypes
<1>13. ASSUME d \notin seen
       PROVE  /\ d \notin Taken /\ \A e \in Taken : Lt(x, e, d)
              /\ \A e \in All : Lt(x, e, d) => e \in Taken
  <2>1. d \notin Taken
    <3>1. CASE q.dedup  BY <1>5, <1>13, <3>1
    <3>2. CASE ~q.dedup
      <4> SUFFICES ASSUME d \in Taken PROVE FALSE  OBVIOUS
      <4>1. PICK i \in Ranges : d \in Prefetched(i) \ rest[i]  BY DEF Taken
      <4>2. i # b /\ d \in q.rows[i] /\ d \in q.rows[b]
        BY <1>2, <1>3, <1>5, <4>1, PrefetchedFacts
      <4>3. q.rows[i] \cap q.rows[b] = {}
        BY <1>3, <3>2, <4>2 DEF Regular, TypeInv, Meaningful, Ranges
      <4> QED  BY <4>2, <4>3
    <3> QED  BY <3>1, <3>2
  <2>2. \A e \in Taken : Lt(x, e, d)  BY <1>3, <1>5, <2>1
  <2>3. ASSUME NEW e \in All, Lt(x, e, d) PROVE e \in Taken
    <3>1. PICK j \in Ranges : e \in q.rows[j]  BY DEF All, Matching, Ranges
    <3>2. x \in BOOLEAN /\ e \in Int /\ d \in Int  BY <1>12, PageTypes
    <3>3. ASSUME NEW f \in Prefetched(j), f = e \/ Lt(x, f, e) PROVE f \in Taken
      <4>1. f \in All  BY <1>2, PrefetchedFacts
      <4>2. Lt(x, f, d) /\ f \in Int  BY <1>12, <2>3, <3>2, <3>3, <4>1, LtOrder
      <4>3. f \notin rest[j]  BY <1>4, <3>2, <4>2, LtOrder
      <4> QED  BY <4>3 DEF Taken
    <3>4. CASE e \in Prefetched(j)  BY <3>3, <3>4
    <3>5. CASE e \notin Prefetched(j)
      <4>1. Prefetched(j) # q.rows[j]  BY <3>1, <3>5
      <4>2. \A f \in Prefetched(j) : f \in Int /\ ~Lt(x, e, f) /\ f # e
        BY <1>2, <1>12, <3>1, <3>5, PrefetchedFacts
      <4>3. \A f \in Prefetched(j) : Lt(x, f, e)  BY <3>2, <4>2, LtOrder
      <4>4. Prefetched(j) \subseteq Taken  BY <3>3, <4>3
      <4> QED  BY <1>2, <4>1, <4>4, RangeNotUsedUp
    <3> QED  BY <3>4, <3>5
  <2> QED  BY <2>1, <2>2, <2>3
<1>14. ASSUME d \notin seen
       PROVE  /\ skipped < q.offset =>
                    Advanced(x, All, limit, q.offset, Taken \cup {d}, skipped + 1, out)
              /\ skipped >= q.offset =>
                    Advanced(x, All, limit, q.offset, Taken \cup {d}, skipped, Append(out, d))
  BY <1>5, <1>12, <1>13, <1>14, PageTypes, AdvancedStep
<1>15. CASE d \notin seen /\ skipped < q.offset /\ skipped' = skipped + 1 /\ UNCHANGED <<pc, out>>
  BY <1>1, <1>5, <1>10, <1>14, <1>15
<1>16. CASE /\ d \notin seen /\ skipped >= q.offset /\ out' = Append(out, d)
            /\ pc' = IF limit >= 0 /\ Len(out') >= limit THEN "done" ELSE pc
            /\ skipped' = skipped
  <2>1. Advanced(x, All, limit, q.offset, Taken \cup {d}, skipped, out')  BY <1>14, <1>16
  <2>2. out' \in Seq(Int) /\ Len(out') \in Nat /\ limit \in Int
    <3>1. d \in Int /\ out \in Seq(Int) /\ limit \in Int  BY <1>12, PageTypes
    <3> QED  BY <1>16, <3>1
  <2>3. CASE limit >= 0 /\ Len(out') >= limit
    <3>1. pc' = "done"  BY <1>16, <2>3
    <3>2. skipped = q.offset /\ Len(out') = limit
      BY <1>16, <2>1, <2>2, <2>3, PageTypes DEF Advanced
    <3>3. out' = Page(x, All, limit, q.offset)
      BY <2>1, <2>2, <2>3, <3>2, PageTypes, AdvancedEnd
    <3> QED  BY <1>1, <1>2, <1>7, <3>1, <3>3 DEF Answered
  <2>4. CASE ~(limit >= 0 /\ Len(out') >= limit)
    <3>1. pc' = "merge" /\ (limit >= 0 => Len(out') < limit)  BY <1>1, <1>16, <2>2, <2>4
    <3> QED  BY <1>10, <1>16, <2>1, <3>1
  <2> QED  BY <2>3, <2>4
<1> QED  BY <1>11, <1>15, <1>16 DEF MergeRow, b, d

\* mergeRanges: the streams are exhausted.
LEMMA MergeEnds ==
    ASSUME TypeInv, PageInv, Regular, MergeDone
    PROVE  Answered'
<1>1. /\ pc = "merge" /\ q' = q /\ UNCHANGED <<limit, out, count>>
      /\ \A i \in Ranges : rest[i] = {}
  BY DEF MergeDone
<1>2. MergeInv /\ limit = EffectiveLimit /\ count = Len(out)  BY <1>1 DEF PageInv
<1>3. Advanced(q.desc, All, limit, q.offset, Taken, skipped, out)
  BY <1>2 DEF MergeInv, Progress
<1>4. Taken = All
  <2>1. \A i \in Ranges : Prefetched(i) \subseteq Taken  BY <1>1 DEF Taken
  <2>2. \A i \in Ranges : Prefetched(i) = q.rows[i]  BY <1>2, <2>1, RangeNotUsedUp
  <2>3. All \subseteq Taken
    <3> SUFFICES ASSUME NEW e \in All PROVE e \in Taken  OBVIOUS
    <3>1. PICK i \in Ranges : e \in q.rows[i]  BY DEF All, Matching, Ranges
    <3> QED  BY <2>1, <2>2, <3>1
  <2> QED  BY <1>3, <2>3 DEF Advanced
<1>5. out = Page(q.desc, All, limit, q.offset)  BY <1>3, <1>4, PageTypes, AdvancedEnd
<1> QED  BY <1>1, <1>2, <1>5, SameQuery DEF Answered
-----------------------------------------------------------------------------
(***************************************************************************)
(* The pages and the counts.                                               *)
(***************************************************************************)

LEMMA PageNext == TypeInv /\ PageInv /\ [Next]_vars => PageInv'
<1> SUFFICES ASSUME TypeInv, PageInv, [Next]_vars PROVE PageInv'  OBVIOUS
<1>q. q \in Query /\ EffectiveLimit \in Int  BY QueryFields DEF TypeInv
<1>r. ASSUME q' = q, moved' = moved PROVE Regular' <=> Regular
  <2>1. Ranges' = Ranges /\ EffectiveLimit' = EffectiveLimit  BY <1>r, SameQuery
  <2> QED  BY <1>r, <2>1 DEF Regular, CutBeforeCursor, ZeroMerge
<1>a. ASSUME pc' = "done", q' = q, moved' = moved, Regular => Answered' PROVE PageInv'
  BY <1>a, <1>r DEF PageInv
<1>p. ASSUME q' = q, limit' = EffectiveLimit, count' = Len(out'),
             out' = Page(q.desc, All, EffectiveLimit, q.offset)
      PROVE  Answered'
  BY <1>p, SameQuery DEF Answered
<1>0. CASE UNCHANGED vars
  <2>1. /\ q' = q /\ UNCHANGED <<pc, limit, rest, seen, skipped, out, count, moved>>
    BY <1>0 DEF vars
  <2>2. /\ All' = All /\ Ranges' = Ranges /\ EffectiveLimit' = EffectiveLimit
        /\ \A i : Prefetched(i)' = Prefetched(i)
    BY <2>1, SameQuery DEF Prefetched
  <2>3. Taken' = Taken /\ Selected' = Selected  BY <2>1, <2>2 DEF Taken, Selected
  <2>4. (Regular' <=> Regular) /\ (StreamInv' <=> StreamInv) /\ (Answered' <=> Answered)
    BY <1>r, <2>1, <2>2, <2>3, SameQuery DEF StreamInv, Progress, Answered
  <2>5. MergeInv' <=> MergeInv  BY <2>1, <2>2, <2>3 DEF MergeInv, Progress
  <2> QED  BY <2>1, <2>2, <2>4, <2>5 DEF PageInv
<1>1. CASE CountAll
  <2>1. pc' = "done" /\ q' = q /\ moved' = moved  BY <1>1 DEF CountAll
  <2>2. Answered'  BY <1>1, SameQuery DEF CountAll, Answered
  <2> QED  BY <1>a, <2>1, <2>2
<1>2. CASE General
  <2>1. /\ pc' = "done" /\ q' = q /\ moved' = moved /\ limit' = EffectiveLimit
        /\ count' = Len(out') /\ out' = Page(q.desc, All, EffectiveLimit, q.offset)
    BY <1>2, OperatorsOfQuery DEF General
  <2> QED  BY <1>a, <1>p, <2>1
<1>3. CASE NameQuery
  <2>1. /\ pc = "start" /\ pc' = "stream" /\ q' = q /\ limit' = EffectiveLimit
        /\ UNCHANGED <<out, count, moved>>
    BY <1>3 DEF NameQuery, Starting
  <2>2. Regular => StreamInv'  BY <1>3, StreamStarts
  <2> QED  BY <1>r, <2>1, <2>2, SameQuery DEF PageInv
<1>4. CASE NameRow
  <2>1. /\ pc = "stream" /\ pc' \in {"stream", "done"} /\ q' = q /\ limit' = limit
        /\ moved' = moved /\ count' = Len(out')
    BY <1>4 DEF NameRow
  <2>2. Regular => (pc' = "stream" => StreamInv') /\ (pc' = "done" => Answered')
    BY <1>4, StreamRow
  <2> QED  BY <1>r, <2>1, <2>2, SameQuery DEF PageInv
<1>5. CASE NameDone
  <2>1. pc' = "done" /\ q' = q /\ moved' = moved  BY <1>5 DEF NameDone
  <2> QED  BY <1>5, <1>a, <2>1, StreamEnds
<1>6. CASE ScanOne
  <2>1. /\ pc' = "done" /\ q' = q /\ moved' = moved /\ limit' = EffectiveLimit
        /\ count' = Len(out')
    BY <1>6 DEF ScanOne
  <2>2. out' = Page(q.desc, All, EffectiveLimit, q.offset)
    BY <1>6, <1>q, OneRangePage DEF ScanOne
  <2> QED  BY <1>a, <1>p, <2>1, <2>2
<1>7. CASE ScanRanges
  <2>1. /\ pc = "start" /\ pc' = "scan" /\ q' = q /\ limit' = EffectiveLimit
        /\ UNCHANGED <<rest, seen, skipped, out, count, moved>>
    BY <1>7 DEF ScanRanges, Starting
  <2>2. 1..Len(rest') = {}
    <3>1. rest' = <<>>  BY <2>1 DEF TypeInv
    <3> QED  BY <3>1
  <2>3. q'.path = "indexed" /\ Cardinality(Ranges') > 1
    BY <1>7, <2>1, SameQuery DEF ScanRanges
  <2> QED  BY <1>r, <2>1, <2>2, <2>3, SameQuery DEF PageInv
<1>8. CASE ScanRange
  <2>1. /\ pc = "scan" /\ pc' \in {"scan", "merge"} /\ q' = q /\ limit' = limit
        /\ UNCHANGED <<seen, skipped, out, count, moved>>
    BY <1>8 DEF ScanRange
  <2>2. Regular => /\ \A i \in 1..Len(rest') : rest'[i] = Prefetched(i)'
                   /\ pc' = "merge" => MergeInv'
    BY <1>8, MergeStarts
  <2> QED  BY <1>r, <2>1, <2>2, SameQuery DEF PageInv
<1>9. CASE MergeRow
  <2>1. /\ pc = "merge" /\ pc' \in {"merge", "done"} /\ q' = q /\ limit' = limit
        /\ moved' = moved /\ count' = Len(out')
    BY <1>9 DEF MergeRow
  <2>2. Regular => (pc' = "merge" => MergeInv') /\ (pc' = "done" => Answered')
    BY <1>9, MergeOneRow
  <2> QED  BY <1>r, <2>1, <2>2, SameQuery DEF PageInv
<1>10. CASE MergeDone
  <2>1. pc' = "done" /\ q' = q /\ moved' = moved  BY <1>10 DEF MergeDone
  <2> QED  BY <1>10, <1>a, <2>1, MergeEnds
<1>11. ASSUME NEW d \in Docs, NEW i \in Ranges, MoveDoc(d, i) PROVE PageInv'
  <2> DEFINE f == [j \in Ranges |-> IF j = i THEN q.rows[j] \cup {d} ELSE q.rows[j] \ {d}]
  <2>1. /\ pc = "scan" /\ pc' = pc /\ moved' = TRUE /\ q' = [q EXCEPT !.rows = f]
        /\ UNCHANGED <<limit, rest, seen, skipped, out, count>>
    BY <1>11 DEF MoveDoc
  <2>2. q'.aggs = q.aggs /\ q'.limit = q.limit /\ q'.path = q.path /\ q'.rows = f
    <3> HIDE DEF f
    <3> QED  BY <1>q, <2>1 DEF Query
  <2>3. EffectiveLimit' = EffectiveLimit
    <3>1. MergedUpTo' = MergedUpTo  BY <2>2 DEF MergedUpTo
    <3> QED  BY <2>2, <3>1 DEF EffectiveLimit, BoundedLimit, Counting
  <2>4. ~Regular'  BY <2>1 DEF Regular
  <2>5. Ranges' = Ranges  BY <2>2 DEF Ranges
  <2> QED  BY <2>1, <2>2, <2>3, <2>4, <2>5 DEF PageInv
<1> QED  BY <1>0, <1>1, <1>2, <1>3, <1>4, <1>5, <1>6, <1>7, <1>8, <1>9, <1>10, <1>11 DEF Next

LEMMA PageInit == Init => PageInv
<1> SUFFICES ASSUME Init PROVE PageInv  OBVIOUS
<1>1. pc = "start" /\ out = <<>> /\ skipped = 0 /\ seen = {} /\ count = 0  BY DEF Init
<1>2. Len(out) = 0  BY <1>1
<1> QED  BY <1>1, <1>2 DEF PageInv

\* Every path returns the page runGeneral returns, for any number of documents
\* and ranges and any width of integers, the sum of limit and offset in
\* mergeRanges overflowing or not, but for the two shapes that PagesAgree names
\* and documents that changed ranges under the scans.
THEOREM PagesAgreeHolds == Spec => []PagesAgree
<1>1. TypeInv /\ PageInv => PagesAgree
  <2> SUFFICES ASSUME TypeInv, PageInv, pc = "done", ~Counting, ~moved,
                      ~CutBeforeCursor, ~ZeroMerge
               PROVE  out = GeneralPage(q.limit)
    BY DEF PagesAgree
  <2>1. EffectiveLimit = q.limit  BY DEF EffectiveLimit
  <2>2. Regular  BY DEF Regular
  <2>3. Answered  BY <2>2 DEF PageInv
  <2> QED  BY <2>1, <2>3, OperatorsOfQuery DEF Answered
<1> QED  BY <1>1, TypeInit, TypeNext, PageInit, PageNext, PTL DEF Spec

\* A limit of a, then a bound of u, cut a page like the smaller of the two.
LEMMA BoundedPage ==
    ASSUME NEW n \in Nat, NEW o \in Nat, NEW a \in Int, NEW u \in Nat
    PROVE  /\ o = 0 => AtMost(n, a) = End(n, a, o) - Start(n, o)
           /\ LET l == IF u > 0 /\ (a < 0 \/ u < a) THEN u ELSE a
              IN  End(n, l, o) - Start(n, o) = UpTo(End(n, a, o) - Start(n, o), u)
BY DEF AtMost, UpTo, Least, Start, End

\* RunCount counts the documents of the page, up to the largest up_to of the
\* request, for any number of documents, ranges and counts, but for the four
\* exceptions that CountsAgree names.
THEOREM CountsAgreeHolds == Spec => []CountsAgree
<1>1. TypeInv /\ PageInv => CountsAgree
  <2> SUFFICES ASSUME TypeInv, PageInv, pc = "done", Counting, ~moved,
                      ~CutBeforeCursor, ~ZeroMerge, CountOnly => q.extra = {},
                      ~(MergedUpTo > MaxInt32)
               PROVE  count = UpTo(Len(GeneralPage(q.limit)), MergedUpTo)
    BY DEF CountsAgree
  <2> DEFINE u == MergedUpTo
             n == Cardinality(All)
             page == End(n, q.limit, q.offset) - Start(n, q.offset)
  <2>1. q \in Query  BY DEF TypeInv
  <2>2. /\ q.limit \in Int /\ q.offset \in Nat /\ n \in Nat /\ q.desc \in BOOLEAN
        /\ All \in SUBSET Int /\ IsFiniteSet(All)
    BY <2>1, QueryFields, DocSets
  <2>3. u \in Nat /\ Int32(u) = u
    <3>1. u \in Nat /\ MaxInt32 \in Nat  BY <2>1, MergedIsLargest, PagingAssumption
    <3>2. u \in 0..MaxInt32  BY <3>1
    <3> HIDE DEF u
    <3> QED  BY <3>1, <3>2, Int32Facts
  <2>4. EffectiveLimit = IF u > 0 /\ (q.limit < 0 \/ u < q.limit) THEN u ELSE q.limit
    BY <2>3 DEF EffectiveLimit, BoundedLimit
  <2>5. Len(GeneralPage(q.limit)) = page
    BY <2>2, OperatorsOfQuery, PageRows
  <2>6. Answered  BY DEF PageInv, Regular
  <2> HIDE DEF u, n
  <2>7. CASE /\ CountOnly
             /\ count = UpTo(AtMost(Cardinality(All \cup q.extra), q.limit), u)
    <3>1. q.offset = 0 /\ q.extra = {}  BY <2>7 DEF CountOnly
    <3>2. All \cup q.extra = All  BY <3>1
    <3>3. AtMost(n, q.limit) = page  BY <2>2, <2>3, <3>1, BoundedPage
    <3> QED  BY <2>5, <2>7, <3>2, <3>3 DEF n, u
  <2>8. CASE /\ limit = EffectiveLimit /\ count = Len(out)
             /\ out = Page(q.desc, All, limit, q.offset)
    <3>1. limit \in Int  BY DEF TypeInv
    <3>2. count = End(n, limit, q.offset) - Start(n, q.offset)
      BY <2>2, <2>8, <3>1, PageRows DEF n
    <3>3. End(n, limit, q.offset) - Start(n, q.offset) = UpTo(page, u)
      BY <2>2, <2>3, <2>4, <2>8, BoundedPage
    <3> QED  BY <2>5, <3>2, <3>3 DEF u
  <2> QED  BY <2>6, <2>7, <2>8 DEF Answered, u
<1> QED  BY <1>1, TypeInit, TypeNext, PageInit, PageNext, PTL DEF Spec
=============================================================================
