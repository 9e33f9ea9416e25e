--------------------------- MODULE ConfigRegister ---------------------------
(***************************************************************************)
(* What the server promises about its configuration, with nothing said of  *)
(* generations, locks or checkers: the live configuration is one register. *)
(* A reload takes what the file holds, unless it is broken, and no other   *)
(* reload takes a configuration before this one is live; a request looks   *)
(* at the register once, and its answer is one which the configuration it  *)
(* saw gives.  Server implements it.                                       *)
(***************************************************************************)
CONSTANTS Requests, Configs, Broken, Initial,
          Gives(_, _, _)   \* does a configuration, asked this, answer that?

VARIABLES file,     \* the contents of the configuration file
          taken,    \* the configuration taken from it last
          current,  \* the live one
          pc, ask, view, answer

vars == <<file, taken, current, pc, ask, view, answer>>

Init == /\ file = Initial /\ taken = Initial /\ current = Initial
        /\ pc = [q \in Requests |-> "unsent"]
        /\ view = [q \in Requests |-> Initial]
        /\ answer = [q \in Requests |-> "none"]

Edit == /\ file' \in Configs
        /\ UNCHANGED <<taken, current, pc, ask, view, answer>>

Take == /\ taken = current /\ file \notin Broken
        /\ taken' = file
        /\ UNCHANGED <<file, current, pc, ask, view, answer>>

Publish == /\ current' = taken
           /\ UNCHANGED <<file, taken, pc, ask, view, answer>>

Send(q) == /\ pc[q] = "unsent"
           /\ pc' = [pc EXCEPT ![q] = "sent"]
           /\ UNCHANGED <<file, taken, current, ask, view, answer>>

Look(q) == /\ pc[q] = "sent"
           /\ pc' = [pc EXCEPT ![q] = "looked"]
           /\ view' = [view EXCEPT ![q] = current]
           /\ UNCHANGED <<file, taken, current, ask, answer>>

Reply(q) == /\ pc[q] = "looked"
            /\ pc' = [pc EXCEPT ![q] = "done"]
            /\ answer' = [answer EXCEPT ![q] = answer'[q]]
            /\ Gives(view[q], ask[q], answer'[q])
            /\ UNCHANGED <<file, taken, current, ask, view>>

Next == \/ Edit \/ Take \/ Publish
        \/ \E q \in Requests : Send(q) \/ Look(q) \/ Reply(q)

Spec == Init /\ [][Next]_vars
=============================================================================
