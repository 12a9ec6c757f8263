----------------------------- MODULE MCRangeSet -----------------------------
(* A small memory map for RangeSet: overlapping, touching, nested and      *)
(* separate reports on both sides of the 32-bit limit and up to the last   *)
(* address.                                                                *)
EXTENDS RangeSet

R(s, e) == [start |-> s, end |-> e]

Usable == {R(0, 3), R(4, 6), R(5, 9)}
Reserved == {R(4, 4), R(7, 7)}
OneNode == {R(3, 6)}
=============================================================================
