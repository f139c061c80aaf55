-------------------------- MODULE MCIndexLifecycle --------------------------
(***************************************************************************)
(* A small instance of IndexLifecycle for TLC.                             *)
(***************************************************************************)
EXTENDS IndexLifecycle

CONSTANTS v1, v2, k1, k2

\* An array-contains index: one value holds two elements, one holds one.
MCKeysOf == [i \in Indexes |-> [v \in Values |-> IF v = v1 THEN {k1, k2} ELSE {k2}]]
=============================================================================
