--------------------------- MODULE MCTokenSource ---------------------------
(* A lifetime of 4 ticks, longer than the margin; one that wraps to a      *)
(* negative number, 10 to -6, and one that wraps to a positive one, -12 to *)
(* 4.                                                                      *)
EXTENDS TokenSource

MCLifetimes == {-6, 2, 5}
=============================================================================
