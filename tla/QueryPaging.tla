----------------------------- MODULE QueryPaging ----------------------------
(***************************************************************************)
(* How a query's page is cut (internal/store/query.go): the name-ordered   *)
(* stream, the scan of one index range, the merge of several, and the      *)
(* count, each with OFFSET and LIMIT pushed down or applied in Go, against *)
(* runGeneral, whose semantics "are the reference implementation".         *)
(*                                                                         *)
(* A document is its position in the query's ascending order.  An index    *)
(* key ends in the order values and the name, so the suffix the merge      *)
(* compares is that position too.  What matches is given: `rows' are the   *)
(* matching documents by range, one per value of an `in' or                *)
(* array-contains-any filter; `extra' are rows of the collection which     *)
(* Matches or InCursorRange drops.                                         *)
(***************************************************************************)
EXTENDS Integers, Sequences, FiniteSets

CONSTANTS
    N,          \* documents
    NRanges,    \* bound: ranges of a plan
    Limits,     \* limits clients send; negative means none
    Offsets,
    Cursors,    \* cursors: none, pushed into SQL, or evaluated in Go
    UpTos,      \* up_to of a count, 0 for none
    MaxAggs,    \* bound: counts asked for in one request
    SparseOrder,\* TRUE: documents may lack the field a query is ordered by
    MaxInt32    \* math.MaxInt32

Docs == 1..N
Paths == {"general", "name", "indexed"}

ASSUME PagingAssumption ==
    /\ N \in Nat /\ NRanges \in Nat /\ MaxInt32 \in Nat
    /\ Limits \subseteq (-MaxInt32 - 1)..MaxInt32 /\ Offsets \subseteq 0..MaxInt32
    /\ UpTos \subseteq Nat
    /\ MaxAggs \in Nat /\ SparseOrder \in BOOLEAN
    /\ Cursors \subseteq {"none", "pushed", "inGo"}

Query == [rows : UNION {[1..k -> SUBSET Docs] : k \in 0..NRanges},
          extra : SUBSET Docs, filtered : BOOLEAN, cursor : Cursors,
          desc : BOOLEAN, dedup : BOOLEAN,
          limit : Limits, offset : Offsets, path : Paths,
          aggs : UNION {[1..k -> UpTos] : k \in 0..MaxAggs}]   \* <<>>: not a count

VARIABLES
    q,        \* the query, and the path RunQuery takes for it
    pc,       \* start, stream, scan, merge, done
    limit,    \* the limit RunQuery works with
    rest,     \* rows not yet read: the SQL cursor, or the ranges' streams
    seen,     \* mergeRanges: names already merged
    skipped,
    out,      \* documents yielded
    count,    \* RunCount's answer
    moved     \* a document changed ranges while they were scanned

vars == <<q, pc, limit, rest, seen, skipped, out, count, moved>>

Ranges == DOMAIN q.rows
Matching(r) == UNION {r[i] : i \in DOMAIN r}
All == Matching(q.rows)

\* Conversion to a signed integer of the width of MaxInt32.
Int32(x) == LET w == 2 * (MaxInt32 + 1)
                m == x % w
            IN  IF m > MaxInt32 THEN m - w ELSE m

Before(d, e) == IF q.desc THEN d > e ELSE d < e
Position(S, d) == Cardinality({e \in S : e = d \/ Before(e, d)})
First(S) == CHOOSE d \in S : \A e \in S : e = d \/ Before(d, e)

\* ORDER BY ... LIMIT l OFFSET o, on a set of rows.
Rows(S, l, o) ==
    {d \in S : Position(S, d) > o /\ (l < 0 \/ Position(S, d) <= o + l)}

\* runGeneral: sort all that matches, and slice it.
GeneralPage(l) ==
    LET len == Cardinality(All)
        start == IF q.offset > len THEN len ELSE q.offset
        end == IF l >= 0 /\ start + l < len THEN start + l ELSE len
    IN  [k \in 1..(end - start) |->
            CHOOSE d \in All : Position(All, d) = start + k]

\* A query RunQuery can meet: only a list filter, served by an index, makes several
\* ranges, and only array-contains-any lets them share documents.  Without a filter
\* rows are dropped by cursors that NameCursorBounds does not translate, and for
\* the lack of a field of the order.
Meaningful(r) ==
    /\ r.path # "indexed" \/ ~r.filtered => DOMAIN r.rows = {1} /\ ~r.dedup
    /\ r.extra # {} => \/ r.path = "name" /\ (r.filtered \/ r.cursor = "inGo")
                       \/ r.path # "name" /\ ~r.filtered /\ SparseOrder
    /\ r.extra \cap Matching(r.rows) = {}
    /\ \A i, j \in DOMAIN r.rows : i # j => r.dedup \/ r.rows[i] \cap r.rows[j] = {}

Init ==
    /\ q \in {r \in Query : Meaningful(r)}
    /\ pc = "start"
    /\ limit = q.limit
    /\ rest = <<>> /\ seen = {} /\ skipped = 0 /\ out = <<>> /\ count = 0
    /\ moved = FALSE

(***************************************************************************)
(* RunAggregationQuery and RunCount.                                       *)
(***************************************************************************)

Least(a, b) == IF a < b THEN a ELSE b
AtMost(n, l) == IF l >= 0 THEN Least(n, l) ELSE n
UpTo(n, u) == IF u > 0 THEN Least(n, u) ELSE n

Counting == q.aggs # <<>>

\* One bound for all counts of the request, the largest.
MergedUpTo ==
    LET given == {q.aggs[i] : i \in DOMAIN q.aggs}
    IN  CHOOSE u \in given : \A v \in given : v <= u

CountOnly == ~q.filtered /\ q.cursor = "none" /\ q.offset = 0

\* No filter, no cursor, no offset: SELECT count(*) of the collection.
CountAll ==
    /\ pc = "start" /\ Counting
    /\ CountOnly
    /\ count' = UpTo(AtMost(Cardinality(All \cup q.extra), q.limit), MergedUpTo)
    /\ pc' = "done"
    /\ UNCHANGED <<q, limit, rest, seen, skipped, out, moved>>

\* Mutant: up_to replaces a smaller limit.
BoundedLimitAlways == IF MergedUpTo > 0 THEN Int32(MergedUpTo) ELSE q.limit

\* The limit of the query that is run and counted.
BoundedLimit ==
    IF MergedUpTo > 0 /\ (q.limit < 0 \/ MergedUpTo < q.limit)
    THEN Int32(MergedUpTo) ELSE q.limit

EffectiveLimit == IF Counting THEN BoundedLimit ELSE q.limit

\* RunQuery is entered, unless the count was answered directly.
Starting == pc = "start" /\ (Counting => ~CountOnly)

(***************************************************************************)
(* runGeneral and runNameOrdered.                                          *)
(***************************************************************************)

General ==
    /\ Starting /\ q.path = "general"
    /\ out' = GeneralPage(EffectiveLimit)
    /\ limit' = EffectiveLimit
    /\ count' = Len(out')
    /\ pc' = "done"
    /\ UNCHANGED <<q, rest, seen, skipped, moved>>

\* LIMIT is pushed down when there is no filter and no offset.
NameQuery ==
    /\ Starting /\ q.path = "name"
    /\ limit' = EffectiveLimit
    /\ rest' = <<IF ~q.filtered /\ q.offset = 0
                 THEN Rows(All \cup q.extra, EffectiveLimit, 0)
                 ELSE All \cup q.extra>>
    /\ pc' = "stream"
    /\ UNCHANGED <<q, seen, skipped, out, count, moved>>

\* One round of the loop over the rows.
NameRow ==
    /\ pc = "stream" /\ rest[1] # {}
    /\ LET d == First(rest[1])
       IN  /\ rest' = <<rest[1] \ {d}>>
           /\ \/ d \in q.extra /\ UNCHANGED <<pc, skipped, out>>
              \/ /\ d \in All /\ skipped < q.offset
                 /\ skipped' = skipped + 1 /\ UNCHANGED <<pc, out>>
              \/ /\ d \in All /\ skipped >= q.offset
                 /\ UNCHANGED skipped
                 /\ IF limit >= 0 /\ Len(out) >= limit
                    THEN pc' = "done" /\ UNCHANGED out
                    ELSE out' = Append(out, d) /\ UNCHANGED pc
    /\ count' = Len(out')
    /\ UNCHANGED <<q, limit, seen, moved>>

NameDone ==
    /\ pc = "stream" /\ rest[1] = {}
    /\ pc' = "done"
    /\ UNCHANGED <<q, limit, rest, seen, skipped, out, count, moved>>

(***************************************************************************)
(* scanIndex, scanRange and mergeRanges.                                   *)
(***************************************************************************)

\* No range: nothing matches.  One range: Postgres orders and cuts.
ScanOne ==
    /\ Starting /\ q.path = "indexed" /\ Cardinality(Ranges) <= 1
    /\ limit' = EffectiveLimit
    /\ LET S == Rows(All, EffectiveLimit, q.offset)
       IN  out' = [k \in 1..Cardinality(S) |-> CHOOSE d \in S : Position(S, d) = k]
    /\ count' = Len(out')
    /\ pc' = "done"
    /\ UNCHANGED <<q, rest, seen, skipped, moved>>

\* Mutant: the offset is forgotten.
PerRangeLimitOnly(l) == IF l >= 0 /\ ~q.dedup THEN l ELSE -1

\* How deep each range is read.
PerRange(l) == IF l >= 0 /\ ~q.dedup THEN Int32(l + q.offset) ELSE -1

\* Several ranges are scanned one after the other ...
ScanRanges ==
    /\ Starting /\ q.path = "indexed" /\ Cardinality(Ranges) > 1
    /\ limit' = EffectiveLimit
    /\ pc' = "scan"
    /\ UNCHANGED <<q, rest, seen, skipped, out, count, moved>>

\* ... by a statement, and so a snapshot, each; the last one hands over to the
\* merge.
ScanRange ==
    /\ pc = "scan"
    /\ rest' = Append(rest, Rows(q.rows[Len(rest) + 1], PerRange(limit), 0))
    /\ pc' = IF Len(rest') = Cardinality(Ranges) THEN "merge" ELSE "scan"
    /\ UNCHANGED <<q, limit, seen, skipped, out, count, moved>>

\* Meanwhile a commit gives a document another value of the `in' filter.
MoveDoc(d, i) ==
    /\ pc = "scan" /\ ~q.dedup
    /\ d \in All \ q.rows[i]
    /\ q' = [q EXCEPT !.rows = [j \in Ranges |-> IF j = i THEN q.rows[j] \cup {d}
                                                ELSE q.rows[j] \ {d}]]
    /\ moved' = TRUE
    /\ UNCHANGED <<pc, limit, rest, seen, skipped, out, count>>

\* Mutant: whole keys are compared, which puts the ranges one after the other.
BestByWholeKey ==
    CHOOSE i \in Ranges : rest[i] # {} /\ \A j \in 1..(i - 1) : rest[j] = {}

\* The stream whose head comes first, by the suffix; the first of equal ones.
Best ==
    CHOOSE i \in Ranges : rest[i] # {} /\
        \A j \in Ranges : rest[j] # {} =>
            \/ Before(First(rest[i]), First(rest[j]))
            \/ First(rest[i]) = First(rest[j]) /\ i <= j

\* One round of mergeRanges.
MergeRow ==
    /\ pc = "merge"
    /\ \E i \in Ranges : rest[i] # {}
    /\ LET best == Best
           d == First(rest[best])
       IN  /\ rest' = [rest EXCEPT ![best] = @ \ {d}]
           /\ seen' = IF q.dedup THEN seen \cup {d} ELSE seen
           /\ \/ d \in seen /\ UNCHANGED <<pc, skipped, out>>
              \/ /\ d \notin seen /\ skipped < q.offset
                 /\ skipped' = skipped + 1 /\ UNCHANGED <<pc, out>>
              \/ /\ d \notin seen /\ skipped >= q.offset
                 /\ out' = Append(out, d)
                 /\ pc' = IF limit >= 0 /\ Len(out') >= limit THEN "done" ELSE pc
                 /\ UNCHANGED skipped
    /\ count' = Len(out')
    /\ UNCHANGED <<q, limit, moved>>

MergeDone ==
    /\ pc = "merge"
    /\ \A i \in Ranges : rest[i] = {}
    /\ pc' = "done"
    /\ UNCHANGED <<q, limit, rest, seen, skipped, out, count, moved>>

Next ==
    \/ CountAll \/ General \/ NameQuery \/ NameRow \/ NameDone
    \/ ScanOne \/ ScanRanges \/ ScanRange \/ MergeRow \/ MergeDone
    \/ \E d \in Docs, i \in Ranges : MoveDoc(d, i)

Spec == Init /\ [][Next]_vars

-----------------------------------------------------------------------------
(***************************************************************************)
(* Properties.                                                             *)
(***************************************************************************)

\* The two shapes that are paged differently from runGeneral: a cursor that drops
\* rows in Go after LIMIT has cut them (runNameOrdered), and a merge, which looks
\* at a limit of 0 only after its first row (mergeRanges).
CutBeforeCursor == q.path = "name" /\ q.cursor = "inGo" /\ ~q.filtered /\ q.offset = 0
ZeroMerge == q.path = "indexed" /\ Cardinality(Ranges) > 1 /\ EffectiveLimit = 0

\* "Every shape the planner declines is a performance opportunity, never a
\* correctness risk" (RunQuery): but for these two shapes, whichever path serves a
\* query, the client gets the page runGeneral would have returned, "in query order
\* and already paged", if no document changed ranges while they were scanned.
PagesAgree ==
    pc = "done" /\ ~Counting /\ ~moved =>
        out = GeneralPage(q.limit) \/ CutBeforeCursor \/ ZeroMerge

\* Even if documents change ranges between the scans, a page is in query order:
\* the merge never groups it "by value instead of interleaving" (mergeRanges).
InQueryOrder == \A i, j \in 1..Len(out) : i < j => ~Before(out[j], out[i])

\* "RunCount executes the query counting matches, honoring limit and upTo": all
\* counts of a request are the number of documents on the page, but no more than
\* the largest up_to among them.  The exceptions are the two shapes above, a count
\* without filters of documents that lack the ordered field (query.go:204), and an
\* up_to that does not fit an int32 (query.go:221).
CountsAgree ==
    pc = "done" /\ Counting /\ ~moved =>
        \/ count = UpTo(Len(GeneralPage(q.limit)), MergedUpTo)
        \/ CutBeforeCursor \/ ZeroMerge
        \/ CountOnly /\ q.extra # {}
        \/ MergedUpTo > MaxInt32

\* What the repository says without these exceptions; the code keeps none of the
\* three (see the README).
EveryPageAgrees == pc = "done" /\ ~Counting /\ ~moved => out = GeneralPage(q.limit)

\* Every count of a request honors its own up_to (server.go:102).
EveryCountAgrees ==
    pc = "done" /\ Counting /\ ~moved =>
        \A i \in DOMAIN q.aggs : count = UpTo(Len(GeneralPage(q.limit)), q.aggs[i])

\* "They are disjoint, so no document can appear twice" (plan.go:34).
NoDuplicates == \A i, j \in 1..Len(out) : out[i] = out[j] => i = j
=============================================================================
