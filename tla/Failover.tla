------------------------------ MODULE Failover ------------------------------
(***************************************************************************)
(* What a client may rely on, with nothing said of attempts, recorders and *)
(* connections: the upstreams of a plan are given up one by one, in order, *)
(* each on a failure; a buffered request hears nothing until one complete  *)
(* answer, which is never that of an upstream that failed; "all failed" is *)
(* said when all of them did; a streamed request hears its one upstream.   *)
(* Fallback implements it.                                                 *)
(***************************************************************************)
EXTENDS Integers, Sequences

CONSTANTS Requests,
          Upstreams,
          Statuses,   \* what a client or a verdict may say
          MaxChunks,  \* bound on the pieces of one body
          Yai         \* the proxy, as author of an answer

VARIABLES plan,       \* plan[r]: the upstreams r may be answered by, in order
          buffered,   \* an answer to r is held back until it is complete
          verdicts,   \* the failures on which r's upstreams were given up
          heard,      \* what r's client has been told, by whom, in how many pieces
          open        \* r is not over

vars == <<plan, buffered, verdicts, heard, open>>

Silence == [status |-> 0, from |-> {}, chunks |-> 0]

Failure(s) == s = 429 \/ s >= 500

Init == /\ plan \in [Requests -> Seq(Upstreams) \ {<<>>}]
        /\ buffered \in [Requests -> BOOLEAN]
        /\ verdicts = [r \in Requests |-> <<>>]
        /\ heard = [r \in Requests |-> Silence]
        /\ open = [r \in Requests |-> TRUE]

(* The upstream whose turn it is.                                          *)
Trying(r) == plan[r][Len(verdicts[r]) + 1]

Hear(r, who, s, n) == heard' = [heard EXCEPT ![r] = [status |-> s, from |-> {who}, chunks |-> n]]
Close(r) == open' = [open EXCEPT ![r] = FALSE]
Condemn(r, s) == /\ Failure(s)
                 /\ verdicts' = [verdicts EXCEPT ![r] = Append(@, s)]

GiveUp(r) ==
  /\ open[r] /\ buffered[r] /\ heard[r] = Silence
  /\ Len(verdicts[r]) + 1 < Len(plan[r])
  /\ \E s \in Statuses : Condemn(r, s)
  /\ UNCHANGED <<plan, buffered, heard, open>>

AllFailed(r) ==
  /\ open[r] /\ buffered[r] /\ heard[r] = Silence
  /\ Len(verdicts[r]) + 1 = Len(plan[r])
  /\ \E s \in Statuses : Condemn(r, s)
  /\ Hear(r, Yai, 502, 0) /\ Close(r)
  /\ UNCHANGED <<plan, buffered>>

Answer(r) ==
  /\ open[r] /\ buffered[r] /\ heard[r] = Silence
  /\ \E who \in {Trying(r), Yai}, s \in Statuses, n \in 0 .. MaxChunks :
       ~ Failure(s) /\ Hear(r, who, s, n)
  /\ Close(r)
  /\ UNCHANGED <<plan, buffered, verdicts>>

(* The proxy itself turns the request down before it gave up anyone.       *)
Refuse(r) ==
  /\ open[r] /\ heard[r] = Silence /\ verdicts[r] = <<>>
  /\ \E s \in Statuses : Hear(r, Yai, s, 0)
  /\ Close(r)
  /\ UNCHANGED <<plan, buffered, verdicts>>

Begin(r) ==
  /\ open[r] /\ ~ buffered[r] /\ heard[r] = Silence
  /\ \E s \in Statuses : Hear(r, Trying(r), s, 0)
  /\ UNCHANGED <<plan, buffered, verdicts, open>>

Stream(r) ==
  /\ open[r] /\ ~ buffered[r] /\ heard[r] # Silence /\ heard[r].chunks < MaxChunks
  /\ heard' = [heard EXCEPT ![r].chunks = @ + 1]
  /\ UNCHANGED <<plan, buffered, verdicts, open>>

(* A streamed answer is over, or the connection is cut.                    *)
End(r) ==
  /\ open[r]
  /\ Close(r)
  /\ UNCHANGED <<plan, buffered, verdicts, heard>>

Next == \E r \in Requests : \/ GiveUp(r) \/ AllFailed(r) \/ Answer(r) \/ Refuse(r)
                            \/ Begin(r) \/ Stream(r) \/ End(r)

Spec == Init /\ [][Next]_vars
=============================================================================
