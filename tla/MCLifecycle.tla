---------------------------- MODULE MCLifecycle ----------------------------
(* Two requests, with telemetry on.                                        *)
EXTENDS Lifecycle

CONSTANTS q1, q2

MCRequests == {q1, q2}
=============================================================================
