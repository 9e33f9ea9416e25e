------------------------------- MODULE Quota -------------------------------
(***************************************************************************)
(* What a rate limiter promises, with nothing said of how it counts: of    *)
(* the requests one key had admitted, any Bound + 1 consecutive ones span  *)
(* more than Window.  RateLimit implements it with Bound = 2 * Count - 1.  *)
(***************************************************************************)
EXTENDS Integers, Sequences

CONSTANTS Keys,      \* token names
          Bound,     \* admissions allowed within one Window
          Window,    \* length of the window, in ticks
          MaxTime    \* bound on the clock

VARIABLES now,       \* the clock
          log        \* log[k]: the times at which k was admitted, oldest first

vars == <<now, log>>

Init == /\ now = 0
        /\ log = [k \in Keys |-> <<>>]

Admit(k) ==
  LET oldest == Len(log[k]) + 1 - Bound IN
  /\ oldest >= 1 => log[k][oldest] + Window < now
  /\ log' = [log EXCEPT ![k] = Append(@, now)]
  /\ UNCHANGED now

Tick == /\ now < MaxTime
        /\ now' = now + 1
        /\ UNCHANGED log

Next == Tick \/ \E k \in Keys : Admit(k)

Spec == Init /\ [][Next]_vars
=============================================================================
