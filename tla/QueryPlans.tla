----------------------------- MODULE QueryPlans -----------------------------
(***************************************************************************)
(* How Kor answers a query: the planner (internal/index/plan.go) that      *)
(* turns filters, order and cursors into byte ranges of an index, the keys *)
(* documents have in it (Def.Keys, internal/index/index.go), and the three *)
(* paths of RunQuery (internal/store/query.go), on documents that commits  *)
(* write and delete.                                                       *)
(*                                                                         *)
(* All indexes are ready (readiness is IndexLifecycle's subject), a commit *)
(* and a query are one step each (their interleavings are IndexLifecycle's *)
(* and QueryPaging's), and pages are not cut (QueryPaging).                *)
(***************************************************************************)
EXTENDS QuerySemantics

CONSTANTS
    Names,     \* the resource names of documents: sequences of segments
    Contents,  \* the fields each of them may be given
    Defs,      \* the index definitions, in the order of the registry
    Queries,   \* the structured queries clients may send
    MaxDocs    \* bound: documents present at a time

VARIABLES
    data,      \* documents.data: tagged JSON
    entries,   \* index_entries: [def, key, name]
    answer     \* the last query, and what came back

vars == <<data, entries, answer>>

NoDoc == [none |-> TRUE]
NoAnswer == [path |-> "none"]

Present == {n \in Names : data[n] # NoDoc}
Doc(n) == [name |-> n, fields |-> UnmarshalFields(data[n])]

Parent(n) == SubSeq(n, 1, Len(n) - 2)
CollectionID(n) == n[Len(n) - 1]

\* The name as Postgres stores and compares it (COLLATE "C").
Slash == 47
NameBytes(n) == FlattenSeq([i \in DOMAIN n |-> IF i = 1 THEN n[i] ELSE <<Slash>> \o n[i]])

(***************************************************************************)
(* Index definitions and keys.                                             *)
(***************************************************************************)

trailingDirection(d) ==
    LET last == d.fields[Len(d.fields)] IN ~last.contains /\ last.desc

\* The fields with the name that ends every key.
effectiveFields(d) ==
    IF d.fields[Len(d.fields)].path = NameField THEN d.fields
    ELSE Append(d.fields, [path |-> NameField, desc |-> trailingDirection(d), contains |-> FALSE])

\* The encodings one component adds: one per distinct element of an array that
\* is indexed for containment, and none for a missing field.
ComponentKeys(f, doc) ==
    IF f.path = NameField THEN {NameKey(doc.name, f.desc)}
    ELSE IF f.path \notin DOMAIN doc.fields THEN {}
    ELSE LET v == doc.fields[f.path]
         IN  IF ~f.contains THEN {SortKey(v, f.desc)}
             ELSE IF Is(v, "arr") THEN {AppendSortKey(e) : e \in ToSet(v.arr)} ELSE {}

Keys(d, doc) ==
    FoldLeft(LAMBDA heads, f : {h \o k : h \in heads, k \in ComponentKeys(f, doc)},
             {<<>>}, effectiveFields(d))

(***************************************************************************)
(* splitFilters: what of a query's filter a byte range can express.        *)
(***************************************************************************)

\* The filters of a conjunction, nested ones included; a disjunction is one.
RECURSIVE Leaves(_)
Leaves(f) == IF Is(f, "all") THEN FlattenSeq([i \in DOMAIN f.all |-> Leaves(f.all[i])])
             ELSE <<f>>

LeavesWith(q, ops) == SelectSeq(Leaves(q.where), LAMBDA f : Is(f, "op") /\ f.op \in ops)

Equalities(q) == LeavesWith(q, {"=="})
Containment(q) == LeavesWith(q, {"contains"})
Ranged(q) == LeavesWith(q, Inequalities)
Listed(q) == LeavesWith(q, {"in", "contains-any"})

\* collect: one filter of a kind, and nothing else.
Collects(q) ==
    /\ \A f \in ToSet(Leaves(q.where)) :
         /\ Is(f, "op") /\ f.field # NameField
         /\ f.op \in {"==", "contains", "in", "contains-any"} \cup Inequalities
         /\ f.op \in {"in", "contains-any"} => f.val.arr # <<>>
    /\ \A i, j \in DOMAIN Equalities(q) :
         Equalities(q)[i].field = Equalities(q)[j].field => i = j
    /\ Len(Ranged(q)) <= 1 /\ Len(Containment(q)) <= 1 /\ Len(Listed(q)) <= 1

\* The fields an index must begin with, and their values.
Prefixed(q) ==
    LET fs == Equalities(q) \o Containment(q)
    IN  [p \in {f.field : f \in ToSet(fs)} |->
            (CHOOSE f \in ToSet(fs) : f.field = p).val]

Eligible(q) ==
    /\ Collects(q)
    /\ \A c \in ToSet(Containment(q)) :
         Findable(c.val) /\ \A e \in ToSet(Equalities(q)) : e.field # c.field
    /\ \A r \in ToSet(Ranged(q)) : q.order[1].path = r.field
    /\ \A l \in ToSet(Listed(q)) :
         l.field \notin DOMAIN Prefixed(q) /\ \A r \in ToSet(Ranged(q)) : r.field # l.field

\* The field filtered by array-contains, or by array-contains-any.
containsPath(q) ==
    LET c == Containment(q)
        l == SelectSeq(Listed(q), LAMBDA f : f.op = "contains-any")
    IN  IF c # <<>> THEN c[1].field ELSE IF l # <<>> THEN l[1].field ELSE ""

(***************************************************************************)
(* match and bounds.                                                       *)
(***************************************************************************)

\* The scan runs against the direction of the index.
Reversed(d, eq, order) ==
    effectiveFields(d)[Cardinality(DOMAIN eq) + 1].desc # order[1].desc

\* Mutant: an index of other fields serves if it has enough of them.
MatchAnyPrefix(d, eq, cPath, order) ==
    LET fields == effectiveFields(d)
        n == Cardinality(DOMAIN eq)
    IN  /\ Len(fields) >= n + Len(order)
        /\ \A i \in DOMAIN order : fields[n + i].path = order[i].path

\* The index begins with exactly the fields of the prefix and goes on with those
\* of the order, all in the query's direction or all against it.
Match(d, eq, cPath, order) ==
    LET fields == effectiveFields(d)
        n == Cardinality(DOMAIN eq)
    IN  /\ Len(fields) >= n + Len(order)
        /\ \A i \in 1..n : /\ fields[i].path \in DOMAIN eq
                           /\ fields[i].contains <=> (fields[i].path = cPath)
        /\ \A i \in DOMAIN order :
             /\ fields[n + i].path = order[i].path
             /\ (fields[n + i].desc # order[i].desc) = Reversed(d, eq, order)

PrefixKey(d, eq) ==
    FlattenSeq([i \in 1..Cardinality(DOMAIN eq) |->
                   SortKey(eq[d.fields[i].path], d.fields[i].desc)])

\* The key of a position n components in.
cursorKey(d, n, prefix, vals) ==
    LET fields == effectiveFields(d)
        m == IF n + Len(vals) > Len(fields) THEN Len(fields) - n ELSE Len(vals)
    IN  prefix \o FlattenSeq([i \in 1..m |-> SortKey(vals[i], fields[n + i].desc)])

maxBound(a, b) == IF b = Unbounded \/ KeyLeq(b, a) THEN a ELSE b
minBound(a, b) == IF b = Unbounded THEN a
                  ELSE IF a = Unbounded \/ KeyLess(b, a) THEN b ELSE a

startBoundFor(k, inclusive) == IF inclusive THEN k ELSE PrefixEnd(k)
endBoundFor(k, inclusive) == IF inclusive THEN PrefixEnd(k) ELSE k

\* Mutant: no clamp to the operand's type.
WithInequalityAnyType(b, d, n, prefix, f) ==
    LET desc == effectiveFields(d)[n + 1].desc
        k == cursorKey(d, n, prefix, <<f.val>>)
        inclusive == f.op \in {"<=", ">="}
    IN  IF (f.op \in {">", ">="}) = desc
        THEN [lo |-> b.lo, hi |-> minBound(b.hi, endBoundFor(k, inclusive))]
        ELSE [lo |-> maxBound(b.lo, startBoundFor(k, inclusive)), hi |-> b.hi]

\* What an inequality leaves of [lo, hi): the keys of the operand's type, on one
\* side of the operand, which side depends on the direction of the field.
WithInequality(b, d, n, prefix, f) ==
    LET desc == effectiveFields(d)[n + 1].desc
        bucket == prefix \o TypeBucket(f.val, desc)
        k == cursorKey(d, n, prefix, <<f.val>>)
        lo == maxBound(b.lo, bucket)
        hi == minBound(b.hi, PrefixEnd(bucket))
        inclusive == f.op \in {"<=", ">="}
    IN  IF IsNaN(f.val) THEN [lo |-> lo, hi |-> lo]
        ELSE IF (f.op \in {">", ">="}) = desc
        THEN [lo |-> lo, hi |-> minBound(hi, endBoundFor(k, inclusive))]
        ELSE [lo |-> maxBound(lo, startBoundFor(k, inclusive)), hi |-> hi]

\* A cursor bounds the low end of the scan or the high end, depending on the
\* direction of the scan.
AtLeast(b, k, inclusive) == [b EXCEPT !.lo = maxBound(@, startBoundFor(k, inclusive))]
AtMost(b, k, inclusive) == [b EXCEPT !.hi = minBound(@, endBoundFor(k, inclusive))]

capVals(vals, q) == SubSeq(vals, 1, IF Len(vals) > Len(q.order) THEN Len(q.order) ELSE Len(vals))

\* Mutant: the direction of the scan is forgotten.
WithCursorsForward(b, d, n, prefix, reversed, q) ==
    LET key(c) == cursorKey(d, n, prefix, capVals(c.vals, q))
        started == IF q.start = NoCursor THEN b
                   ELSE AtLeast(b, key(q.start), q.start.before)
    IN  IF q.end = NoCursor THEN started
        ELSE AtMost(started, key(q.end), ~q.end.before)

WithCursors(b, d, n, prefix, reversed, q) ==
    LET key(c) == cursorKey(d, n, prefix, capVals(c.vals, q))
        started == IF q.start = NoCursor THEN b
                   ELSE IF reversed THEN AtMost(b, key(q.start), q.start.before)
                   ELSE AtLeast(b, key(q.start), q.start.before)
    IN  IF q.end = NoCursor THEN started
        ELSE IF reversed THEN AtLeast(started, key(q.end), ~q.end.before)
        ELSE AtMost(started, key(q.end), ~q.end.before)

\* An empty range is [lo, lo).
Clamped(b, from) ==
    [lo |-> b.lo, from |-> from,
     hi |-> IF b.hi # Unbounded /\ KeyLeq(b.hi, b.lo) THEN b.lo ELSE b.hi]

\* The range of one prefix.
bounds(d, eq, reversed, q) ==
    LET prefix == PrefixKey(d, eq)
        n == Cardinality(DOMAIN eq)
        all == [lo |-> prefix, hi |-> PrefixEnd(prefix)]
        within == IF Ranged(q) = <<>> THEN all
                  ELSE WithInequality(all, d, n, prefix, Ranged(q)[1])
    IN  Clamped(WithCursors(within, d, n, prefix, reversed, q), Len(prefix))

(***************************************************************************)
(* planRanges and For.                                                     *)
(***************************************************************************)

\* The equality sets to scan for: one, or one per value of a list that can be
\* found at all, equal values once.
EqualitySets(q) ==
    LET eq == Prefixed(q)
        list == Listed(q)
    IN  IF list = <<>> THEN <<eq>>
        ELSE LET vals == SelectSeq(list[1].val.arr, Findable)
                 new == SelectSeq([i \in DOMAIN vals |-> i], LAMBDA i :
                          \A j \in 1..(i - 1) : AppendSortKey(vals[j]) # AppendSortKey(vals[i]))
             IN  [k \in DOMAIN new |-> (list[1].field :> vals[new[k]]) @@ eq]

Serves(d, q) ==
    /\ d.coll = q.coll /\ d.group = q.group
    /\ \A eq \in ToSet(EqualitySets(q)) : Match(d, eq, containsPath(q), q.order)

\* The plan that scans d once for each equality set of ps.
PlanOf(d, ps, q) ==
    LET reversed == ps # <<>> /\ Reversed(d, ps[1], q.order)
    IN  [def |-> d, reversed |-> reversed,
         ranges |-> [k \in DOMAIN ps |-> bounds(d, ps[k], reversed, q)],
         dedup |-> Listed(q) # <<>> /\ Listed(q)[1].op = "contains-any"]

\* The plan of the first definition that serves.
For(q) ==
    LET i == IF Eligible(q) THEN SelectInSeq(Defs, LAMBDA d : Serves(d, q)) ELSE 0
    IN  IF i = 0 THEN NoDoc ELSE PlanOf(Defs[i], EqualitySets(q), q)

(***************************************************************************)
(* The three paths of RunQuery.                                            *)
(***************************************************************************)

\* baseConditions: one collection of one parent, or, by the bytes of the name,
\* every collection of that id below the parent.
InScope(q, n) ==
    IF q.group
    THEN /\ CollectionID(n) = q.coll
         /\ LET b == NameBytes(q.parent)
            IN  q.parent # <<>> => InRange(NameBytes(n), b \o <<Slash>>, b \o <<Slash + 1>>)
    ELSE Parent(n) = q.parent /\ CollectionID(n) = q.coll

\* Mutant: only the operand's own spelling is probed.
EqualityProbesOwn(v) == {Encode(v)}

\* equalityProbes: the spellings equal numbers may be stored in.
equalityProbes(v) ==
    {Encode(v)} \cup
    (IF Is(v, "int")
     THEN {Encode([dbl |-> 2 * v.int])}
          \cup (IF v.int = 0 THEN {Encode([dbl |-> NegZero])} ELSE {})
     ELSE IF Is(v, "dbl") /\ v.dbl \in {0, NegZero}
     THEN {Encode([int |-> 0]), Encode([dbl |-> 0]), Encode([dbl |-> NegZero])}
     ELSE IF Is(v, "dbl") /\ v.dbl \notin {PosInf, NegInf} /\ v.dbl % 2 = 0
     THEN {Encode([int |-> v.dbl \div 2])}
     ELSE {})

\* ContainmentJSON and ArrayContainmentJSON, at the filter's field.
ContainmentJSON(op, p) == IF op = "==" THEN p ELSE [a |-> <<p>>]

\* The row passes the jsonb probe of filter f, if f has one.
Passes(f, n) ==
    Is(f, "op") /\ f.op \in {"==", "contains"} /\ f.field # NameField /\ ~IsNaN(f.val) =>
        /\ f.field \in DOMAIN data[n]
        /\ \E p \in equalityProbes(f.val) :
             JsonContains(data[n][f.field], ContainmentJSON(f.op, p))

\* The rows SQL returns; a disjunction is not narrowed.
Candidates(q) ==
    LET leaves == ToSet(Leaves(q.where))
    IN  {n \in Present : InScope(q, n) /\
            ((\E f \in leaves : Is(f, "any")) \/ \A f \in leaves : Passes(f, n))}

\* Kept by the evaluation in Go.
Selected(q, S) == {n \in S : Matches(q, Doc(n)) /\ InCursorRange(q, OrderKey(q, Doc(n)))}

InOrder(q, S) == SetToSortSeq(S, LAMBDA m, n :
                     CompareKeys(q, OrderKey(q, Doc(m)), OrderKey(q, Doc(n))) < 0)

Answer(path, sq, out) == answer' = [path |-> path, sq |-> sq, out |-> out]

RunGeneral(sq, q, plan) ==
    /\ plan = NoDoc /\ ~NameOnlyOrder(q)
    /\ Answer("general", sq, InOrder(q, Selected(q, Candidates(q))))
    /\ UNCHANGED <<data, entries>>

\* The name column against the reference of a cursor, in the query's direction.
PastCursor(n, c, desc, inclusive) ==
    LET b == NameBytes(n)
        r == NameBytes(c.vals[1].ref)
    IN  (inclusive /\ b = r) \/ IF desc THEN KeyLess(b, r) ELSE KeyLess(r, b)

\* Cursors that are references are bounds on the name, which orders the rows.
NameRows(q) ==
    LET desc == q.order[1].desc
        bounded == IF NameCursors(q)
                   THEN {n \in Candidates(q) :
                           /\ q.start # NoCursor => PastCursor(n, q.start, desc, q.start.before)
                           /\ q.end # NoCursor => PastCursor(n, q.end, ~desc, ~q.end.before)}
                   ELSE Candidates(q)
    IN  SetToSortSeq(bounded, LAMBDA m, n : IF desc THEN KeyLess(NameBytes(n), NameBytes(m))
                                            ELSE KeyLess(NameBytes(m), NameBytes(n)))

RunNameOrdered(sq, q, plan) ==
    /\ plan = NoDoc /\ NameOnlyOrder(q)
    /\ Answer("name", sq, SelectSeq(NameRows(q), LAMBDA n : n \in Selected(q, {n})))
    /\ UNCHANGED <<data, entries>>

\* The rows of all ranges: by key in one range, by the key's suffix in several,
\* where the first range wins a tie and a name may have to be dropped if it
\* comes again.
IndexRows(plan) ==
    LET several == Len(plan.ranges) > 1
        rows == UNION {{[name |-> e.name, r |-> r,
                         at |-> IF several THEN SubSeq(e.key, plan.ranges[r].from + 1, Len(e.key))
                                ELSE e.key] :
                        e \in {x \in entries : x.def = plan.def /\
                                 InRange(x.key, plan.ranges[r].lo, plan.ranges[r].hi)}} :
                       r \in DOMAIN plan.ranges}
        merged == SetToSortSeq(rows, LAMBDA x, y :
                      \/ IF plan.reversed THEN KeyLess(y.at, x.at) ELSE KeyLess(x.at, y.at)
                      \/ x.at = y.at /\ x.r < y.r)
        names == [i \in DOMAIN merged |-> merged[i].name]
        first == SelectSeq([i \in DOMAIN names |-> i], LAMBDA i :
                     ~(several /\ plan.dedup) \/ \A j \in 1..(i - 1) : names[j] # names[i])
    IN  [k \in DOMAIN first |-> names[first[k]]]

\* A row whose document is gone or does not match fails the query.
RunIndexed(sq, q, plan) ==
    LET names == IndexRows(plan)
    IN  /\ plan # NoDoc
        /\ Answer(IF \A n \in ToSet(names) : n \in Present /\ Matches(q, Doc(n))
                  THEN "indexed" ELSE "error", sq, names)
        /\ UNCHANGED <<data, entries>>

\* The query is planned first, and what has no plan is ordered by name or not.
RunQuery(sq) ==
    /\ Parses(sq)
    /\ \E q \in {Parse(sq)} : \E plan \in {For(q)} :
         \/ RunIndexed(sq, q, plan)
         \/ RunNameOrdered(sq, q, plan)
         \/ RunGeneral(sq, q, plan)

Refuse(sq) ==
    /\ ~Parses(sq)
    /\ Answer("refused", sq, <<>>)
    /\ UNCHANGED <<data, entries>>

(***************************************************************************)
(* Commits.                                                                *)
(***************************************************************************)

Init ==
    /\ data = [n \in Names |-> NoDoc]
    /\ entries = {}
    /\ answer = NoAnswer

\* refreshIndexEntries: all entries of the document go, the current ones come.
Refreshed(doc) ==
    {e \in entries : e.name # doc.name} \cup
    {[def |-> d, key |-> k, name |-> doc.name] :
        <<d, k>> \in UNION {{<<d, k>> : k \in Keys(d, doc)} :
                            d \in {x \in ToSet(Defs) : x.coll = CollectionID(doc.name)}}}

Write(n, f) ==
    /\ answer = NoAnswer
    /\ n \in Present \/ Cardinality(Present) < MaxDocs
    /\ data' = [data EXCEPT ![n] = MarshalFields(f)]
    /\ entries' = Refreshed([name |-> n, fields |-> f])
    /\ UNCHANGED answer

Delete(n) ==
    /\ answer = NoAnswer /\ n \in Present
    /\ data' = [data EXCEPT ![n] = NoDoc]
    /\ entries' = {e \in entries : e.name # n}
    /\ UNCHANGED answer

\* The client has read its answer, and the next call is handled.
Deliver ==
    /\ answer # NoAnswer
    /\ answer' = NoAnswer
    /\ UNCHANGED <<data, entries>>

Next ==
    \/ Deliver
    \/ \E n \in Names : Delete(n) \/ \E f \in Contents[n] : Write(n, f)
    \/ /\ answer = NoAnswer
       /\ \E sq \in Queries : RunQuery(sq) \/ Refuse(sq)

Spec == Init /\ [][Next]_vars

-----------------------------------------------------------------------------
(***************************************************************************)
(* Properties.                                                             *)
(***************************************************************************)

\* What a query means: the documents in its scope that match, between its
\* cursors, in its order.
Reference(q) ==
    InOrder(q, Selected(q, {n \in Present :
        /\ CollectionID(n) = q.coll
        /\ IF q.group THEN IsPrefix(q.parent, n) ELSE Parent(n) = q.parent}))

\* "Every shape the planner declines is a performance opportunity, never a
\* correctness risk" (RunQuery): an index, and the name-ordered stream, answer
\* a query as its meaning has it, and no row of an index fails the query, for
\* the shapes of the instance: filters, lists, directions, types of values, and
\* cursors on fields.  It does not hold for every shape the planner accepts: the
\* exceptions are instances of their own (MCQueryPlans).
AnswerExact ==
    answer.path \notin {"none", "refused"} =>
        answer.path # "error" /\ answer.out = Reference(Parse(answer.sq))

\* "Narrowing may over-include, never exclude" (RunQuery): the rows SQL returns
\* hold every document that matches, whether a number that is the value or an
\* element of it is stored as an integer or as a double.
NarrowingSound ==
    answer.path \notin {"none", "refused"} =>
        LET q == Parse(answer.sq)
        IN  \A n \in Present : InScope(q, n) /\ Matches(q, Doc(n)) => n \in Candidates(q)

\* "Byte-wise (memcmp) order equals Compare's order" and "no encoding is a prefix
\* of another" (sortkey.go), for the values of all documents and both
\* directions.
SortKeysOrdered ==
    LET vals == UNION {{d.fields[p] : p \in DOMAIN d.fields} : d \in {Doc(n) : n \in Present}}
    IN  \A v, w \in vals : \A desc \in BOOLEAN :
          LET k == SortKey(v, desc)
              l == SortKey(w, desc)
              c == IF desc THEN Compare(w, v) ELSE Compare(v, w)
          IN  /\ c = CompareBytes(k, l)
              /\ IsPrefix(k, l) => k = l
=============================================================================
