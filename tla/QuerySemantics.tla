--------------------------- MODULE QuerySemantics ---------------------------
(***************************************************************************)
(* What a query means (internal/query/query.go): the effective order of a  *)
(* StructuredQuery, its filters, and its cursors.                          *)
(*                                                                         *)
(* A document is [name, fields]: the segments of its resource name, and a  *)
(* function from the names of the fields it has to values.  Field paths    *)
(* have one segment (nested ones are in Writes).  A filter is [all |-> fs],*)
(* [any |-> fs], [field, op, val] or [field, unary].  Offset, limit and    *)
(* projection are left out; QueryPaging cuts pages.                        *)
(***************************************************************************)
EXTENDS Values

NameField == "__name__"
NoFilter == [all |-> <<>>]
NoCursor == [none |-> TRUE]

Inequalities == {"<", "<=", ">", ">="}

(***************************************************************************)
(* Parse.                                                                  *)
(***************************************************************************)

\* The field of the first range or not-equal filter of the tree, or "".
RECURSIVE firstInequalityField(_)
firstInequalityField(f) ==
    LET first(fs) == LET ps == [i \in DOMAIN fs |-> firstInequalityField(fs[i])]
                         i == SelectInSeq(ps, LAMBDA p : p # "")
                     IN  IF i = 0 THEN "" ELSE ps[i]
    IN  CASE Is(f, "all") -> first(f.all)
          [] Is(f, "any") -> first(f.any)
          [] Is(f, "op") -> IF f.op \in Inequalities \cup {"!=", "not-in"}
                            THEN f.field ELSE ""
          [] Is(f, "unary") -> IF f.unary \in {"not-nan", "not-null"} THEN f.field ELSE ""

\* Explicit terms, or the inequality's field, and the name as the last
\* tiebreaker in the direction of the last term.
EffectiveOrder(sq) ==
    LET ineq == firstInequalityField(sq.where)
        terms == IF sq.orderBy = <<>> /\ ineq \notin {"", NameField}
                 THEN <<[path |-> ineq, desc |-> FALSE]>> ELSE sq.orderBy
        last == IF terms = <<>> THEN FALSE ELSE terms[Len(terms)].desc
    IN  IF \E i \in DOMAIN sq.orderBy : sq.orderBy[i].path = NameField THEN terms
        ELSE Append(terms, [path |-> NameField, desc |-> last])

\* A string stands for the document of that id in the query's target.
ToRef(sq, v) ==
    LET base == IF sq.group THEN sq.parent ELSE sq.parent \o <<sq.coll>>
    IN  IF Is(v, "str") THEN [ref |-> base \o <<v.str>>] ELSE v

\* canonicalizeNameOperands, on filters and on cursors.
RECURSIVE CanonicalFilter(_, _)
CanonicalFilter(sq, f) ==
    CASE Is(f, "all") -> [all |-> [i \in DOMAIN f.all |-> CanonicalFilter(sq, f.all[i])]]
      [] Is(f, "any") -> [any |-> [i \in DOMAIN f.any |-> CanonicalFilter(sq, f.any[i])]]
      [] Is(f, "op") ->
           IF f.field # NameField THEN f
           ELSE IF Is(f.val, "arr")
           THEN [f EXCEPT !.val = [arr |-> [i \in DOMAIN f.val.arr |-> ToRef(sq, f.val.arr[i])]]]
           ELSE [f EXCEPT !.val = ToRef(sq, f.val)]
      [] OTHER -> f

CanonicalCursor(sq, order, c) ==
    IF c = NoCursor THEN c
    ELSE [c EXCEPT !.vals = [i \in DOMAIN c.vals |->
            IF i <= Len(order) /\ order[i].path = NameField THEN ToRef(sq, c.vals[i])
            ELSE c.vals[i]]]

\* A field may be ordered by only once.
Parses(sq) == \A i, j \in DOMAIN sq.orderBy :
                  sq.orderBy[i].path = sq.orderBy[j].path => i = j

Parse(sq) ==
    LET order == EffectiveOrder(sq)
    IN  [parent |-> sq.parent, coll |-> sq.coll, group |-> sq.group,
         where |-> CanonicalFilter(sq, sq.where), order |-> order,
         start |-> CanonicalCursor(sq, order, sq.start),
         end |-> CanonicalCursor(sq, order, sq.end)]

(***************************************************************************)
(* Matches.                                                                *)
(***************************************************************************)

Has(doc, path) == path = NameField \/ path \in DOMAIN doc.fields
FieldOf(doc, path) == IF path = NameField THEN [ref |-> doc.name] ELSE doc.fields[path]

evalUnaryFilter(u, doc) ==
    /\ u.field \in DOMAIN doc.fields
    /\ LET v == doc.fields[u.field]
       IN  CASE u.unary = "null" -> IsNull(v)
             [] u.unary = "not-null" -> ~IsNull(v)
             [] u.unary = "nan" -> IsNaN(v)
             [] u.unary = "not-nan" -> ~IsNaN(v) /\ ~IsNull(v)

\* Neither null nor NaN is found in a list or an array.
Findable(v) == ~IsNull(v) /\ ~IsNaN(v)

arrayContains(v, el) ==
    Is(v, "arr") /\ \E i \in DOMAIN v.arr : ~IsNaN(v.arr[i]) /\ Compare(v.arr[i], el) = 0

\* Range comparisons apply within the operand's type only.
InRangeOf(v, op, operand) ==
    /\ TypeOrder(v) = TypeOrder(operand) /\ ~IsNaN(v)
    /\ LET c == Compare(v, operand)
       IN  CASE op = "<" -> c < 0
             [] op = "<=" -> c <= 0
             [] op = ">" -> c > 0
             [] op = ">=" -> c >= 0

evalFieldFilter(ff, doc) ==
    /\ Has(doc, ff.field)
    /\ LET v == FieldOf(doc, ff.field)
           operand == ff.val
           els == ToSet(operand.arr)
       IN  CASE ff.op = "==" -> Compare(v, operand) = 0
             [] ff.op = "!=" -> ~IsNull(v) /\ Compare(v, operand) # 0
             [] ff.op \in Inequalities -> InRangeOf(v, ff.op, operand)
             [] ff.op = "in" -> ~IsNaN(v) /\ \E e \in els : Findable(e) /\ Compare(v, e) = 0
             [] ff.op = "not-in" ->
                  /\ ~IsNull(v)
                  /\ \A e \in els : ~IsNull(e) /\ (IsNaN(e) \/ Compare(v, e) # 0)
             [] ff.op = "contains" -> Findable(operand) /\ arrayContains(v, operand)
             [] ff.op = "contains-any" -> \E e \in els : Findable(e) /\ arrayContains(v, e)

RECURSIVE evalFilter(_, _)
evalFilter(f, doc) ==
    CASE Is(f, "all") -> \A i \in DOMAIN f.all : evalFilter(f.all[i], doc)
      [] Is(f, "any") -> \E i \in DOMAIN f.any : evalFilter(f.any[i], doc)
      [] Is(f, "op") -> evalFieldFilter(f, doc)
      [] Is(f, "unary") -> evalUnaryFilter(f, doc)

\* A document without a field of the order does not match.
Matches(q, doc) ==
    /\ \A i \in DOMAIN q.order : Has(doc, q.order[i].path)
    /\ evalFilter(q.where, doc)

(***************************************************************************)
(* Order and cursors.                                                      *)
(***************************************************************************)

OrderKey(q, doc) == [i \in DOMAIN q.order |-> FieldOf(doc, q.order[i].path)]

\* Two tuples in the query's order, on the first n terms.
CompareTuples(q, n, a, b) ==
    ByFirst(n, n, LAMBDA i : Compare(a[i], b[i]) * (IF q.order[i].desc THEN -1 ELSE 1))

CompareKeys(q, a, b) == CompareTuples(q, Len(q.order), a, b)

compareToCursor(q, key, c) ==
    CompareTuples(q, IF Len(c.vals) > Len(q.order) THEN Len(q.order) ELSE Len(c.vals),
                  key, c.vals)

\* `before' lies before the documents at its position: a start there includes
\* them, an end there excludes them.
InCursorRange(q, key) ==
    /\ q.start # NoCursor =>
         LET c == compareToCursor(q, key, q.start) IN c > 0 \/ (c = 0 /\ q.start.before)
    /\ q.end # NoCursor =>
         LET c == compareToCursor(q, key, q.end) IN c < 0 \/ (c = 0 /\ ~q.end.before)

NameOnlyOrder(q) == Len(q.order) = 1

\* NameCursorBounds: every cursor given is one reference.
NameCursors(q) ==
    \A c \in {q.start, q.end} \ {NoCursor} : Len(c.vals) = 1 /\ Is(c.vals[1], "ref")
=============================================================================
