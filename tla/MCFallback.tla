----------------------------- MODULE MCFallback -----------------------------
(* p4 is in both groups, and the second one is its own; p3 failed to       *)
(* build; p6 is in no group.                                               *)
EXTENDS Fallback

CONSTANTS p1, p2, p3, p4, p5, p6

MCProviders == {p1, p2, p3, p4, p5, p6}
MCGroups == <<<<p1, p2, p4>>, <<p4, p5, p3>>>>
MCBuilt == {p1, p2, p4, p5, p6}
MCStatuses == {200, 400, 429, 503}
=============================================================================
