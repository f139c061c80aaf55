------------------------------ MODULE MCWrites ------------------------------
(***************************************************************************)
(* Small instances of Writes for TLC: two names, maps inside maps, numbers *)
(* of three bits, and doubles that overflow soon.                          *)
(***************************************************************************)
EXTENDS Writes

I(n) == [int |-> n]
D(n) == [dbl |-> n]
S(s) == [str |-> s]
M(f) == [map |-> f]

a == <<"a">>
ab == <<"a", "b">>
ac == <<"a", "c">>
b == <<"b">>
MCPaths == {a, ab, ac, b}

T(p, kind, by) == [path |-> p, kind |-> kind, by |-> by, els |-> <<>>]
E(p, kind, els) == [path |-> p, kind |-> kind, by |-> Absent, els |-> els]

W(op, pre, fields, mask, transforms) ==
    [op |-> op, pre |-> pre, fields |-> fields, mask |-> mask, transforms |-> transforms]

F1(n, v) == [x \in {n} |-> v]
Nested == [x \in {"b", "c"} |-> IF x = "b" THEN I(1) ELSE S("s")]

\* Sets and updates, whole and by masks that overlap, and a bad path.
Structure ==
    { W("set", "missing", Empty, <<>>, <<>>),
      W("set", "none", F1("a", I(2)), <<>>, <<>>),
      W("set", "none", F1("a", M(Nested)), <<>>, <<>>),
      W("update", "exists", F1("a", M(Nested)), <<ab, ac>>, <<>>),
      W("update", "none", F1("a", M(F1("c", I(3)))), <<ab, ac>>, <<>>),
      W("update", "none", F1("a", M(F1("c", S("t")))), <<a, ab, b>>, <<>>),
      W("update", "none", F1("a", S("s")), <<ab, a>>, <<>>),
      W("update", "none", Empty, <<>>, <<>>),
      W("update", "none", Empty, <<ab>>, <<T(b, "time", Absent)>>),
      W("update", "none", Empty, <<a, <<>>>>, <<>>),
      W("delete", "none", Empty, <<>>, <<>>),
      W("delete", "exists", Empty, <<>>, <<T(b, "time", Absent)>>),
      W("transform", "none", Empty, <<>>, <<T(ac, "increment", I(1))>>),
      W("transform", "none", Empty, <<>>, <<E(ab, "append", <<S("s")>>), T(<<>>, "time", Absent)>>) }

\* Counters, maxima and minima, in integers and doubles.
Numbers ==
    { W("delete", "none", Empty, <<>>, <<>>),
      W("set", "none", F1("b", S("s")), <<>>, <<>>),
      W("set", "none", F1("b", I(MinInt)), <<>>, <<>>),
      W("update", "none", F1("b", D(1)), <<b>>, <<T(b, "maximum", I(1)), T(ab, "minimum", D(NaN))>>),
      W("transform", "none", Empty, <<>>, <<T(b, "increment", S("s"))>>) }
    \cup { W("transform", "none", Empty, <<>>, <<T(b, "increment", v)>>) :
             v \in {I(1), I(2), I(-3), I(MinInt), D(4), D(-Inf)} }
    \cup { W("transform", "none", Empty, <<>>, <<T(b, k, v)>>) :
             k \in {"maximum", "minimum"}, v \in {I(1), I(MaxInt), D(1), D(-3), D(NaN)} }

\* Array unions and removals, over elements of which two are equal numbers.
Arrays ==
    { W("delete", "none", Empty, <<>>, <<>>),
      W("set", "none", F1("b", I(1)), <<>>, <<>>),
      W("set", "none", F1("b", [arr |-> <<D(1), S("s"), S("s")>>]), <<>>, <<>>),
      W("update", "none", Empty, <<b>>, <<E(b, "append", <<I(1), D(1)>>), T(a, "maximum", I(1))>>),
      W("transform", "none", Empty, <<>>, <<E(b, "remove", <<I(1)>>), E(b, "append", <<D(1)>>)>>),
      W("transform", "none", Empty, <<>>, <<T(b, "maximum", I(2)), E(b, "append", <<I(2)>>)>>) }
    \cup { W("transform", "none", Empty, <<>>, <<E(b, k, els)>>) :
             k \in {"append", "remove"},
             els \in {<<I(1)>>, <<D(1), S("s")>>, <<S("t"), S("t")>>} }

\* All of them.
AllRequests == Structure \cup Numbers \cup Arrays
=============================================================================
