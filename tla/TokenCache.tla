----------------------------- MODULE TokenCache -----------------------------
(***************************************************************************)
(* What a token source promises to its callers, with nothing said of a     *)
(* lock or of the way to the endpoint: a call is answered from the cache   *)
(* while the cached token is valid, else by at most one refresh at a time; *)
(* a refresh changes the cache only to a token whose expiry it knows       *)
(* within Slack, if its lifetime is not below Least, and returns what it   *)
(* cached; one that fails changes nothing.  TokenSource implements it with *)
(* Slack = Timeout.                                                        *)
(***************************************************************************)
EXTENDS Integers

CONSTANTS Callers, NoCaller,
          Margin,    \* a token this near to its expiry is not valid
          Slack,     \* by how much its expiry may be overestimated
          Least      \* of a lifetime below it the expiry may be anything

VARIABLES now,       \* the clock
          token,     \* the cached token
          asking,    \* the callers with a call to answer
          refresher, \* the one of them that refreshes
          answer     \* what each was answered last

vars == <<now, token, asking, refresher, answer>>

Valid == token.present /\ now < token.expiresAt - Margin

NoToken == [expiresAt |-> 0, expiry |-> 0, lifetime |-> 0, present |-> FALSE]

Init == /\ now = 0
        /\ token = NoToken
        /\ asking = {} /\ refresher = NoCaller
        /\ answer = [c \in Callers |-> [kind |-> "none", at |-> 0, token |-> NoToken]]

Ask(c) == /\ c \notin asking
          /\ asking' = asking \cup {c}
          /\ UNCHANGED <<now, token, refresher, answer>>

Answer(c, kind, t) ==
  /\ c \in asking /\ asking' = asking \ {c}
  /\ answer' = [answer EXCEPT ![c] = [kind |-> kind, at |-> now, token |-> t]]
  /\ UNCHANGED now

FromCache(c) == /\ Valid /\ refresher = NoCaller
                /\ Answer(c, "cached", token)
                /\ UNCHANGED <<token, refresher>>

Refresh(c) == /\ c \in asking
              /\ ~ Valid /\ refresher = NoCaller
              /\ refresher' = c
              /\ UNCHANGED <<now, token, asking, answer>>

Refreshed(c) == /\ refresher = c /\ refresher' = NoCaller
                /\ token'.present
                /\ token'.lifetime >= Least => token'.expiresAt <= token'.expiry + Slack
                /\ Answer(c, "fresh", token')

Fails(c) == /\ refresher = c /\ refresher' = NoCaller
            /\ Answer(c, "error", NoToken)
            /\ UNCHANGED token

Tick == now' = now + 1 /\ UNCHANGED <<token, asking, refresher, answer>>

Next == \/ Tick
        \/ \E c \in Callers : Ask(c) \/ FromCache(c) \/ Refresh(c) \/ Refreshed(c) \/ Fails(c)

Spec == Init /\ [][Next]_vars
=============================================================================
