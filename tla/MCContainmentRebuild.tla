----------------------- MODULE MCContainmentRebuild -------------------------
(***************************************************************************)
(* Small instances of ContainmentRebuild for TLC.                          *)
(***************************************************************************)
EXTENDS ContainmentRebuild, TLC

Symm == Permutations(Operators) \cup Permutations(Collections)
=============================================================================
