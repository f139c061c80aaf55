---------------------------- MODULE MCQueryPlans ----------------------------
(***************************************************************************)
(* Small instances of QueryPlans for TLC.                                  *)
(***************************************************************************)
EXTENDS QueryPlans

\* Segments of names: "c" and "g" are collections, "x" and "y" documents, and
\* "x!" goes on with a byte below the slash.
c == <<99>>
g == <<103>>
x == <<120>>
y == <<121>>
xBang == <<120, 33>>

Null == [null |-> TRUE]
Whole(i) == [int |-> i]
Dbl(h) == [dbl |-> h]
Str(s) == [str |-> s]
Arr(s) == [arr |-> s]
Ref(n) == [ref |-> n]

\* Of every type, those that are equal but spelled differently and those whose
\* encodings share a prefix.
SampleValues == {
    Null, [bool |-> TRUE], Dbl(NaN), Whole(1), Dbl(2), Dbl(3), Whole(0), Dbl(NegZero), Whole(-2),
    Dbl(NegInf), [time |-> 3], Str(<<97>>), Str(<<97, 0>>), [bytes |-> <<97>>], Ref(<<c, xBang>>),
    Ref(<<c, x, g, y>>), [geo |-> <<NegZero, 1>>], [geo |-> <<-3, 2>>],
    [geo |-> <<-1, 0>>], Arr(<<>>), Arr(<<Whole(1), Str(<<97>>)>>), Arr(<<Dbl(2), Dbl(NaN), Whole(1)>>),
    [vec |-> <<Whole(1)>>], [vec |-> <<Whole(0), Whole(1)>>],
    [map |-> (<<107>> :> Whole(1))], [map |-> (<<107>> :> Whole(1)) @@ (<<107, 0>> :> Null)],
    Dbl(-3), [time |-> -2]}

\* A few, for the documents of the collection group.
FewValues == {Whole(1), Dbl(3), Str(<<97>>)}

InC == {<<c, x>>, <<c, y>>}
InG == {<<g, x>>, <<c, x, g, y>>}

MCNames == InC \cup InG
MCContents ==
    [n \in MCNames |->
        IF n = <<c, x>> THEN {[a |-> v] : v \in SampleValues} \cup {[b |-> Whole(1)]}
        ELSE IF n = <<c, y>>
        THEN {[a |-> v, b |-> Whole(1)] : v \in SampleValues} \cup {[a |-> Whole(1), b |-> Arr(<<>>)]}
        ELSE {[a |-> v] : v \in FewValues}]

Asc(p) == [path |-> p, desc |-> FALSE, contains |-> FALSE]
Desc(p) == [path |-> p, desc |-> TRUE, contains |-> FALSE]
Elements(p) == [path |-> p, desc |-> FALSE, contains |-> TRUE]

Index(coll, group, fields) == [coll |-> coll, group |-> group, fields |-> fields]

MCDefs == <<
    Index(c, FALSE, <<Asc("a")>>),
    Index(c, FALSE, <<Elements("a")>>),
    Index(c, FALSE, <<Desc("b"), Desc("a")>>),
    Index(g, TRUE, <<Desc("a")>>)>>

Op(p, op, v) == [field |-> p, op |-> op, val |-> v]
Unary(p, u) == [field |-> p, unary |-> u]
Up(p) == [path |-> p, desc |-> FALSE]
Down(p) == [path |-> p, desc |-> TRUE]
At(vals) == [vals |-> vals, before |-> TRUE]
After(vals) == [vals |-> vals, before |-> FALSE]

InCollection(where, order, start, end) ==
    [parent |-> <<>>, coll |-> c, group |-> FALSE, where |-> where, orderBy |-> order,
     start |-> start, end |-> end]
InGroup(where, order, start, end) ==
    [InCollection(where, order, start, end) EXCEPT !.coll = g, !.group = TRUE]

Some == {Null, Dbl(NaN), Whole(1), Dbl(NegZero), Str(<<97>>), Arr(<<Whole(1), Str(<<97>>)>>)}

Filtered ==
    {Op("a", op, v) : op \in {"==", "<", "<=", ">", ">=", "!=", "contains"}, v \in Some}
    \cup {Op("a", op, Arr(l)) : op \in {"in", "contains-any", "not-in"},
                                l \in {<<Dbl(2), Whole(1), Str(<<97>>)>>, <<Null, Dbl(NaN), Whole(0)>>}}
    \cup {Unary("a", u) : u \in {"null", "not-null", "nan", "not-nan"}}
    \cup {[any |-> <<Op("a", "==", Whole(1)), Op("b", "==", Whole(1))>>],
          [all |-> <<Op("b", "==", Whole(1)), Op("a", ">=", Dbl(2))>>],
          Op(NameField, ">", Str(x)), Op(NameField, "in", Arr(<<Str(x), Str(<<>>)>>))}

Cursors == {NoCursor, At(<<Whole(1)>>), After(<<Whole(1)>>)}

MCQueries ==
    {InCollection(f, <<>>, NoCursor, NoCursor) : f \in Filtered}
    \cup {InCollection(NoFilter, <<o>>, s, e) : o \in {Up("a"), Down("a")}, s, e \in Cursors}
    \cup {InCollection(Op("b", "==", Whole(1)), <<o>>, s, NoCursor) :
              o \in {Up("a"), Down("a")}, s \in Cursors}
    \cup {InCollection(Op("b", "in", Arr(<<Whole(1), Whole(0)>>)), <<Down("a")>>, s, NoCursor) :
              s \in Cursors}
    \cup {InCollection(NoFilter, <<o>>, s, e) : o \in {Up(NameField), Down(NameField)},
              s \in {NoCursor, At(<<Str(y)>>), After(<<Ref(<<c, x>>)>>)},
              e \in {NoCursor, At(<<Str(y)>>), After(<<Whole(1)>>)}}
    \cup {InGroup(f, <<Down("a")>>, s, NoCursor) : s \in Cursors,
              f \in {NoFilter, Op("a", ">", Whole(1))}}
    \cup {InCollection(Op("b", "==", Arr(<<>>)), <<Down("a")>>, NoCursor, NoCursor),
          InGroup(NoFilter, <<>>, NoCursor, NoCursor),
          [InGroup(NoFilter, <<>>, NoCursor, NoCursor) EXCEPT !.parent = <<c, x>>],
          InCollection(NoFilter, <<Up("a"), Down("b")>>, NoCursor, NoCursor),
          InCollection(NoFilter, <<Up("a"), Up("a")>>, NoCursor, NoCursor)}

-----------------------------------------------------------------------------
(***************************************************************************)
(* Instances in which the answer is not the query's meaning.               *)
(***************************************************************************)

NoIndexes == <<>>

\* Collections of one id under two parents.
ParentNames == {<<c, x>>, <<g, x, c, y>>}
ParentContents == [n \in ParentNames |-> {[a |-> v] : v \in FewValues}]
ParentQueries == {InCollection(NoFilter, <<Up("a")>>, NoCursor, NoCursor)}

\* An index of a's elements alone, and a query that orders by a.
ElementsDefs == <<Index(c, FALSE, <<Elements("a")>>)>>

\* A page that starts after a document.
NameCursorQueries == {InCollection(NoFilter, <<Up("a")>>, After(<<Whole(1), Str(x)>>), NoCursor)}

\* Equal numbers, spelled differently, inside an array.
NestedContents == [n \in MCNames |-> {[a |-> Arr(<<Dbl(2)>>)]}]
NestedQueries == {InCollection(Op("a", "==", Arr(<<Whole(1)>>)), <<>>, NoCursor, NoCursor)}

\* A segment that goes on with a byte below the slash.
BangNames == {<<c, x, g, y>>, <<c, xBang, g, y>>}
BangContents == [n \in BangNames |-> {[a |-> Whole(1)]}]
BangQueries == {InGroup(NoFilter, <<>>, NoCursor, NoCursor)}

\* A timestamp with more digits than are stored.
FineTime == [time |-> 3]
FineContents == [n \in MCNames |-> {[a |-> FineTime]}]
FineQueries == {InCollection(Op("a", "==", FineTime), <<>>, NoCursor, NoCursor)}

\* Both containment filters in one query.
TwoContents ==
    [n \in MCNames |->
        {[a |-> Arr(<<Whole(1)>>), b |-> v] : v \in {Whole(1), Arr(<<Whole(1)>>)}}]
TwoContainsDefs == <<Index(c, FALSE, <<Elements("a"), Asc("b")>>)>>
TwoContainsQueries == {InCollection([all |-> <<Op("a", "contains", Whole(1)),
                           Op("b", "contains-any", Arr(<<Whole(1)>>))>>], <<>>, NoCursor, NoCursor)}
=============================================================================
