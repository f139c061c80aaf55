---------------------------- MODULE MCChangeFeed ----------------------------
(***************************************************************************)
(* Small instances of ChangeFeed for TLC.                                  *)
(***************************************************************************)
EXTENDS ChangeFeed, TLC

CONSTANTS posts, users, c1, c2

\* One consumer of everything, one of a single collection.
MCFilter == [c \in Consumers |-> IF c = c1 THEN AllCollections ELSE posts]

Symm == Permutations(Writers)
=============================================================================
