---------------------------- MODULE MCRateLimit ----------------------------
(* Two keys, windows of Count requests; the clock reaches the third window. *)
EXTENDS RateLimit, TLC

CONSTANTS k1, k2

MCKeys == {k1, k2}
KeySymmetry == Permutations(MCKeys)
=============================================================================
