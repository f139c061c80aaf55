-------------------------- MODULE MCCommitProtocol --------------------------
(***************************************************************************)
(* Small instances of CommitProtocol for TLC.                              *)
(***************************************************************************)
EXTENDS CommitProtocol, TLC

CONSTANTS a, b, c, d, e   \* document names, in this order

Order == (a :> 1) @@ (b :> 2) @@ (c :> 3) @@ (d :> 4) @@ (e :> 5)
MCRank == [x \in Docs |-> Order[x]]

\* No two names share a hash.
DistinctHash == [x \in Docs |-> 10 + Order[x]]
\* The second and the last name collide.
CollidingHash == [x \in Docs |-> IF x = e THEN 12 ELSE 10 + Order[x]]

\* One collection, as {p/a, p/b, ...}, or two of which one is a subcollection of
\* a document of the other: {p/a, p/m/q/b, p/m/q/c, p/z}.
OneCollection == [x \in Docs |-> "p"]
TwoCollections == [x \in Docs |-> IF x \in {b, c} THEN "q" ELSE "p"]

W(x, op, pre, at) == [doc |-> x, op |-> op, pre |-> pre, at |-> at]
Put(x) == W(x, "update", "none", 0)
Del(x) == W(x, "delete", "none", 0)
Create(x) == W(x, "update", "absent", 0)
Edit(x) == W(x, "update", "exists", 0)
PutAt(x, at) == W(x, "update", "at", at)

\* Unconditional overwrites and deletes, both in one commit, and the empty commit
\* of a read-only transaction.
BlindRequests == {<<>>, <<Put(a)>>, <<Del(a)>>, <<Del(a), Put(a)>>}
\* One document per commit: transactions that read one and write the other.
TxnRequests == {<<>>} \cup {<<Put(x)>> : x \in Docs}
\* Commits that meet two collections in both orders, with and without a document
\* in common, and commits that meet two colliding names in both orders.
CycleRequests ==
    {<<Put(b), Put(a)>>, <<Put(a), Del(b)>>, <<Put(c), Put(d)>>, <<Put(c), Put(b)>>,
     <<Put(c), Put(e)>>}
\* Several writes per commit, with preconditions, in both orders.
BatchRequests ==
    CycleRequests \cup {<<Create(a)>>, <<Del(a)>>, <<Put(b), Edit(a)>>,
                        <<Del(a), Create(a)>>, <<PutAt(a, 1)>>}

Symm == Permutations(Sess) \cup Permutations(Txns)
=============================================================================
