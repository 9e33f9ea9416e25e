------------------------------ MODULE MCServer ------------------------------
(* v1 and v2 differ in tokens and in providers; v3 has one token with a    *)
(* rate limit that does not parse and a negative health check interval;    *)
(* bad is rejected by Parse.                                               *)
EXTENDS Server

CONSTANTS v1, v2, v3, bad, t1, t2, a, b

MCConfigs == {v1, v2, v3, bad}
MCLimits ==
  [c \in MCConfigs |->
     CASE c = v1 -> [t \in {t1, t2} |-> IF t = t1 THEN "limit" ELSE "absent"]
       [] c = v2 -> [t \in {t1, t2} |-> IF t = t1 THEN "absent" ELSE "none"]
       [] c = v3 -> [t \in {t1, t2} |-> IF t = t1 THEN "none" ELSE "misspelt"]
       [] c = bad -> [t \in {t1, t2} |-> "absent"]]
MCMembers ==
  [c \in MCConfigs |-> CASE c = v1 -> {a} [] c = v2 -> {b} [] c = v3 -> {b} [] c = bad -> {}]
MCFewMembers == [c \in MCConfigs |-> IF c = v2 THEN {a} ELSE {}]
MCInterval == [c \in MCConfigs |-> IF c = v3 THEN -1 ELSE 1]
=============================================================================
