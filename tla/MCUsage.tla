------------------------------ MODULE MCUsage ------------------------------
(* Two streams.  o1 reports twice between a comment and [DONE], a1 names   *)
(* its model first and its output last.  The table holds one name that the *)
(* other begins with; writers may add a longer one and the empty one.      *)
EXTENDS Usage

CONSTANTS o1, a1, w1

MCNames == {<<>>, <<"g">>, <<"g", "o">>, <<"g", "o", "m">>, <<"c">>}
MCProvider == [s \in {o1, a1} |-> IF s = o1 THEN "openai" ELSE "anthropic"]

Sent(type, usage, model, input, output) ==
  [data |-> TRUE, type |-> type, usage |-> usage, model |-> model,
   input |-> input, output |-> output, total |-> 0]
Comment == [Sent("other", FALSE, <<>>, 0, 0) EXCEPT !.data = FALSE]

MCScript == [s \in {o1, a1} |->
  IF s = o1
  THEN <<Comment, Sent("other", TRUE, <<"g", "o", "m">>, 3, 1),
         Sent("other", TRUE, <<"g", "o", "m">>, 3, 2), Comment>>
  ELSE <<Sent("start", TRUE, <<"c">>, 2, 0), Sent("other", FALSE, <<>>, 0, 0),
         Sent("delta", TRUE, <<>>, 0, 2)>>]
MCDefaults == (<<"g">> :> 1) @@ (<<"g", "o">> :> 2)
MCUpdates == {<<<<"g", "o", "m">>, 1>>, <<<<>>, 1>>}
=============================================================================
