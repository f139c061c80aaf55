------------------------------- MODULE Writes -------------------------------
(***************************************************************************)
(* What a write does to the fields of a document (Apply and                *)
(* applyTransforms, internal/writes/writes.go; GetField, SetField and      *)
(* DeleteField, internal/value/fieldpath.go): full sets, masked updates,   *)
(* deletes and field transforms, on nested maps.                           *)
(*                                                                         *)
(* A value is a record whose one field says its type.  A path is a         *)
(* sequence of names; <<>> stands for one ParseFieldPath refuses.          *)
(* Numbers and their transforms are in NumericTransforms, the times of a   *)
(* document and preconditions on them in CommitProtocol.                   *)
(***************************************************************************)
EXTENDS NumericTransforms, Sequences, SequencesExt

CONSTANTS
    Requests,  \* the writes clients may send
    Paths,     \* the paths properties look at
    Times      \* commit times

VARIABLES
    doc,   \* DocState: whether it exists, and its fields
    last   \* history: the last request, and whether it was applied

vars == <<doc, last>>

Absent == [none |-> TRUE]
Empty == [n \in {} |-> Absent]
NoDoc == [exists |-> FALSE, fields |-> Empty]

IsMap(v) == "map" \in DOMAIN v

(***************************************************************************)
(* Field paths.                                                            *)
(***************************************************************************)

RECURSIVE GetField(_, _)
GetField(f, p) ==
    IF p[1] \notin DOMAIN f THEN Absent
    ELSE IF Len(p) = 1 THEN f[p[1]]
    ELSE IF IsMap(f[p[1]]) THEN GetField(f[p[1]].map, Tail(p))
    ELSE Absent

\* Mutant: the maps on the way are always created.
RECURSIVE SetFieldFresh(_, _, _)
SetFieldFresh(f, p, v) ==
    [n \in DOMAIN f \cup {p[1]} |->
        IF n # p[1] THEN f[n]
        ELSE IF Len(p) = 1 THEN v
        ELSE [map |-> SetFieldFresh(Empty, Tail(p), v)]]

\* Missing maps on the way are created, and other values there replaced.
RECURSIVE SetField(_, _, _)
SetField(f, p, v) ==
    [n \in DOMAIN f \cup {p[1]} |->
        IF n # p[1] THEN f[n]
        ELSE IF Len(p) = 1 THEN v
        ELSE [map |-> SetField(IF n \in DOMAIN f /\ IsMap(f[n]) THEN f[n].map ELSE Empty,
                               Tail(p), v)]]

\* Maps that become empty stay.
RECURSIVE DeleteField(_, _)
DeleteField(f, p) ==
    IF Len(p) = 1 THEN [n \in DOMAIN f \ {p[1]} |-> f[n]]
    ELSE IF p[1] \in DOMAIN f /\ IsMap(f[p[1]])
    THEN [f EXCEPT ![p[1]] = [map |-> DeleteField(@.map, Tail(p))]]
    ELSE f

\* Mutant: a masked update starts from an empty document.
MaskedAfresh(f, req, mask) ==
    FoldLeft(LAMBDA g, p : IF GetField(req, p) = Absent THEN DeleteField(g, p)
                           ELSE SetField(g, p, GetField(req, p)),
             Empty, mask)

\* An update with a mask: each path is set from the request, or deleted.
Masked(f, req, mask) ==
    FoldLeft(LAMBDA g, p : IF GetField(req, p) = Absent THEN DeleteField(g, p)
                           ELSE SetField(g, p, GetField(req, p)),
             f, mask)

(***************************************************************************)
(* Field transforms.                                                       *)
(***************************************************************************)

arrayElements(v) == IF "arr" \in DOMAIN v THEN v.arr ELSE <<>>
containsValue(list, v) == \E i \in DOMAIN list : Equal(list[i], v)


AppendMissingElements(existing, els) ==
    FoldLeft(LAMBDA a, e : IF containsValue(a, e) THEN a ELSE Append(a, e), existing, els)

RemoveAllFromArray(existing, els) == SelectSeq(existing, LAMBDA e : ~containsValue(els, e))

Kinds == {"time", "increment", "maximum", "minimum", "append", "remove"}

TransformedValue(cur, t, now) ==
    CASE t.kind = "time"      -> [ts |-> now]
      [] t.kind = "increment" -> numericTransform(cur, t.by)
      [] t.kind = "maximum"   -> extremumTransform(cur, t.by, 1)
      [] t.kind = "minimum"   -> extremumTransform(cur, t.by, -1)
      [] t.kind = "append"    -> [arr |-> AppendMissingElements(arrayElements(cur), t.els)]
      [] t.kind = "remove"    -> [arr |-> RemoveAllFromArray(arrayElements(cur), t.els)]

applyTransforms(f, transforms, now) ==
    FoldLeft(LAMBDA g, t : SetField(g, t.path, TransformedValue(GetField(g, t.path), t, now)),
             f, transforms)

(***************************************************************************)
(* Apply.                                                                  *)
(***************************************************************************)

checkPrecondition(d, pre) ==
    (pre = "exists" => d.exists) /\ (pre = "missing" => ~d.exists)

\* The errors of Apply.  The commit is then abandoned, and with it whatever the
\* write had changed before it met the error.
Valid(w) ==
    /\ <<>> \notin Range(w.mask)
    /\ \A t \in Range(w.transforms) : t.path # <<>> /\ t.kind \in Kinds
    /\ w.op = "delete" => w.transforms = <<>>

Accepted(d, w) == checkPrecondition(d, w.pre) /\ Valid(w)

\* The document after the write: the operation, then its transforms.
Result(d, w, now) ==
    IF w.op = "delete" THEN NoDoc
    ELSE [exists |-> TRUE,
          fields |-> applyTransforms(
              CASE w.op = "set"       -> w.fields
                [] w.op = "update"    -> Masked(d.fields, w.fields, w.mask)
                [] w.op = "transform" -> d.fields,
              w.transforms, now)]

Init == doc = NoDoc /\ last = [w |-> Absent, ok |-> FALSE]

Do(w, op) ==
    /\ w.op = op /\ Accepted(doc, w)
    /\ \E now \in Times : doc' = Result(doc, w, now)
    /\ last' = [w |-> w, ok |-> TRUE]

Set(w) == Do(w, "set")
Update(w) == Do(w, "update")
Delete(w) == Do(w, "delete")
Transform(w) == Do(w, "transform")

Reject(w) ==
    /\ ~Accepted(doc, w)
    /\ last' = [w |-> w, ok |-> FALSE]
    /\ UNCHANGED doc

Next == \E w \in Requests : Set(w) \/ Update(w) \/ Delete(w) \/ Transform(w) \/ Reject(w)

Spec == Init /\ [][Next]_vars

-----------------------------------------------------------------------------
(***************************************************************************)
(* Properties.                                                             *)
(***************************************************************************)

Related(p, q) == IsPrefix(p, q) \/ IsPrefix(q, p)
Named(w) == Range(w.mask) \cup {t.path : t \in Range(w.transforms)}

\* A masked update or a transform changes no field but those it names: what
\* lies beside a named path, in the same nested map or elsewhere, keeps its
\* value (Apply, SetField, DeleteField).
OthersKept ==
    [][last'.ok /\ last'.w.op \in {"update", "transform"} =>
         \A p \in Paths :
            (\A q \in Named(last'.w) : ~Related(p, q)) =>
                GetField(doc'.fields, p) = GetField(doc.fields, p)]_vars

\* A mask is a list that is worked off path by path, deletes and sets mixed and
\* paths inside one another allowed: the order of the list changes nothing
\* (Apply's loop over the update mask).
MaskOrderIrrelevant ==
    \A w \in {r \in Requests : r.op = "update" /\ Valid(r)} :
        \A pi \in Permutations(DOMAIN w.mask) :
            Masked(doc.fields, w.fields, [i \in DOMAIN w.mask |-> w.mask[pi[i]]])
                = Masked(doc.fields, w.fields, w.mask)


\* "Integer overflow saturates" (numericTransform): an integer a write only
\* increments ends at the exact sum, clamped to the range, step after step.
IncrementSaturates ==
    [][\A p \in Paths :
         last'.ok /\ last'.w.op = "transform" /\ Named(last'.w) = {p}
         /\ Len(last'.w.transforms) = 1 /\ last'.w.transforms[1].kind = "increment"
         /\ IsInt(GetField(doc.fields, p)) /\ IsInt(last'.w.transforms[1].by)
            => GetField(doc'.fields, p).int
                 = Clamp(GetField(doc.fields, p).int + last'.w.transforms[1].by.int)]_vars

\* Maxima of one field with numbers as operands, sent by two clients, come to
\* equal numbers in either order, NaN and a stored value that is no number
\* included, and so do minima ("NaN wins", extremumTransform).
ExtremaCommute ==
    \A dir \in {1, -1}, p \in Paths :
        \A v, w \in {r.transforms[1].by : r \in {q \in Requests :
                        Len(q.transforms) = 1 /\ q.transforms[1].kind \in {"maximum", "minimum"}}} :
            LET cur == GetField(doc.fields, p)
            IN  Equal(extremumTransform(extremumTransform(cur, v, dir), w, dir),
                      extremumTransform(extremumTransform(cur, w, dir), v, dir))
=============================================================================
