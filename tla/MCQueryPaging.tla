--------------------------- MODULE MCQueryPaging ----------------------------
(***************************************************************************)
(* Small instances of QueryPaging for TLC.                                 *)
(***************************************************************************)
EXTENDS QueryPaging

\* No limit, none at all, small limits, and the largest integer of 4 bits.
SmallLimits == {-1, 0, 1, 2, 7}
=============================================================================
