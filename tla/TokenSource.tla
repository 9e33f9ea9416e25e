---------------------------- MODULE TokenSource ----------------------------
(***************************************************************************)
(* The OAuth2 token sources of internal/oauth2: one cached token behind a  *)
(* mutex, refreshed by whichever caller finds it no longer valid, with the *)
(* mutex held over the request to the token endpoint.  Both sources have   *)
(* this shape; they differ in the instant from which a token's lifetime is *)
(* counted (StampAtResponse).  The endpoint is external: it may issue a    *)
(* token of any lifetime in Lifetimes, answer with an error, or stall      *)
(* until the HTTP client gives up after Timeout.                           *)
(***************************************************************************)
EXTENDS Integers

CONSTANTS Callers,          \* request goroutines calling Token()
          Lifetimes,        \* values of expires_in; the endpoint may send any int64
          Second,           \* time.Second, in ticks of the clock
          MaxInt,           \* the largest int64
          Margin,           \* the 60 s of Token.Valid
          Timeout,          \* http.Client.Timeout, 10 s
          StampAtResponse,  \* TRUE: client credentials, FALSE: service account
          MaxTime,          \* bound on the clock
          NoCaller

ASSUME TimingAssumption ==
  /\ MaxInt \in Nat \ {0} /\ Second \in Nat \ {0}
  /\ Lifetimes \subseteq -MaxInt - 1 .. MaxInt
  /\ Margin \in Nat /\ Timeout \in Nat /\ MaxTime \in Nat
  /\ Timeout <= Margin
ASSUME CallerAssumption == NoCaller \notin Callers /\ StampAtResponse \in BOOLEAN

VARIABLES now,      \* the clock
          mu,       \* who holds the mutex
          token,    \* s.token, with the expiry the issuer gave it
          pc,       \* where each caller is in Token()
          flight,   \* the refresh each caller has in flight
          answer    \* what Token() last returned to each caller

vars == <<now, mu, token, pc, flight, answer>>

NoToken == [expiresAt |-> 0, expiry |-> 0, lifetime |-> 0, present |-> FALSE]
NoFlight == [start |-> 0, lifetime |-> 0, issuedAt |-> 0]
Started == [start |-> now, lifetime |-> 0, issuedAt |-> 0]
NoAnswer == [kind |-> "none", at |-> 0, token |-> NoToken]

-----------------------------------------------------------------------------
Init == /\ now = 0
        /\ mu = NoCaller
        /\ token = NoToken
        /\ pc = [c \in Callers |-> "idle"]
        /\ flight = [c \in Callers |-> NoFlight]
        /\ answer = [c \in Callers |-> NoAnswer]

Valid_noMargin(t) == t.present /\ now <= t.expiresAt
Valid(t) == t.present /\ now < t.expiresAt - Margin

Refreshing(c) == pc[c] \in {"requesting", "issued"}

(* Token() reaches the mutex.                                              *)
Call(c) == /\ pc[c] = "idle"
           /\ pc' = [pc EXCEPT ![c] = "waiting"]
           /\ UNCHANGED <<now, mu, token, flight, answer>>

(* The caller unlocks, returning what kind says.                           *)
Return(c, kind, t) ==
  /\ mu' = NoCaller
  /\ pc' = [pc EXCEPT ![c] = "idle"]
  /\ flight' = [flight EXCEPT ![c] = NoFlight]
  /\ answer' = [answer EXCEPT ![c] = [kind |-> kind, at |-> now, token |-> t]]

Hit(c) == /\ pc[c] = "waiting" /\ mu = NoCaller
          /\ Valid(token)
          /\ Return(c, "cached", token)
          /\ UNCHANGED <<now, token>>

Miss_notRechecked(c) ==
  /\ pc[c] = "waiting" /\ mu = NoCaller
  /\ mu' = c
  /\ pc' = [pc EXCEPT ![c] = "requesting"]
  /\ flight' = [flight EXCEPT ![c] = Started]
  /\ UNCHANGED <<now, token, answer>>

(* The holder finds no valid token and sends a request to the endpoint.    *)
Miss(c) == /\ pc[c] = "waiting" /\ mu = NoCaller
           /\ ~ Valid(token)
           /\ mu' = c
           /\ pc' = [pc EXCEPT ![c] = "requesting"]
           /\ flight' = [flight EXCEPT ![c] = Started]
           /\ UNCHANGED <<now, token, answer>>

(* The endpoint issues a token; its answer is on the way back.             *)
Issue(c) ==
  /\ pc[c] = "requesting"
  /\ pc' = [pc EXCEPT ![c] = "issued"]
  /\ \E l \in Lifetimes :
       flight' = [flight EXCEPT ![c] = [start |-> flight[c].start,
                                        lifetime |-> l * Second, issuedAt |-> now]]
  /\ UNCHANGED <<now, mu, token, answer>>

(* time.Duration(expires_in) * time.Second, as an int64 has it.            *)
Wrap(x) == ((x + MaxInt + 1) % (2 * (MaxInt + 1))) - (MaxInt + 1)

(* The token built from the answer: expiresAt as the source computes it,   *)
(* expiry as the issuer does, and the lifetime that the issuer gave it.    *)
Received_extended(f) ==
  [expiresAt |-> now + Wrap(f.lifetime) + Margin,
   expiry |-> f.issuedAt + f.lifetime, lifetime |-> f.lifetime, present |-> TRUE]
Received(f) ==
  [expiresAt |-> (IF StampAtResponse THEN now ELSE f.start) + Wrap(f.lifetime),
   expiry |-> f.issuedAt + f.lifetime, lifetime |-> f.lifetime, present |-> TRUE]

Complete(c) == /\ pc[c] = "issued"
               /\ token' = Received(flight[c])
               /\ Return(c, "fresh", Received(flight[c]))
               /\ UNCHANGED now

Fail_locked(c) ==
  /\ Refreshing(c)
  /\ pc' = [pc EXCEPT ![c] = "idle"]
  /\ flight' = [flight EXCEPT ![c] = NoFlight]
  /\ answer' = [answer EXCEPT ![c] = [kind |-> "error", at |-> now, token |-> NoToken]]
  /\ UNCHANGED <<now, mu, token>>

(* No connection, a timeout, a bad status or body, or an answer lost.      *)
Fail(c) == /\ Refreshing(c)
           /\ Return(c, "error", NoToken)
           /\ UNCHANGED <<now, token>>

(* Time passes, but no refresh outlives the HTTP client's timeout.         *)
Tick == /\ now < MaxTime
        /\ \A c \in Callers : Refreshing(c) => now < flight[c].start + Timeout
        /\ now' = now + 1
        /\ UNCHANGED <<mu, token, pc, flight, answer>>

Next == \/ \E c \in Callers : Call(c) \/ Hit(c) \/ Miss(c)
                              \/ Issue(c) \/ Complete(c) \/ Fail(c)
        \/ Tick

Spec == Init /\ [][Next]_vars

(* sync.Mutex hands the lock to a waiter in the end, and the HTTP client's *)
(* timeout ends every refresh.                                             *)
Fairness == \A c \in Callers : /\ SF_vars(Hit(c) \/ Miss(c))
                               /\ WF_vars(Complete(c) \/ Fail(c))

FairSpec == Spec /\ Fairness

-----------------------------------------------------------------------------
TokenType == [expiresAt : Int, expiry : Int, lifetime : Int, present : BOOLEAN]

(* Every variable has its type.                                            *)
TypeOK ==
  /\ now \in 0 .. MaxTime
  /\ mu \in Callers \cup {NoCaller}
  /\ token \in TokenType
  /\ pc \in [Callers -> {"idle", "waiting", "requesting", "issued"}]
  /\ flight \in [Callers -> [start : Nat, lifetime : Int, issuedAt : Nat]]
  /\ answer \in [Callers -> [kind : {"none", "cached", "fresh", "error"},
                             at : Nat, token : TokenType]]

(* At most one caller is at the token endpoint, and it holds the mutex:    *)
(* callers who find an expired token never refresh it side by side.        *)
SingleFlight == \A c \in Callers : Refreshing(c) <=> mu = c

(* The lifetimes that come out of the multiplication no larger than they   *)
(* went in: those not below the least int64 of nanoseconds.                *)
Least == -MaxInt - 1

(* A token handed out from the cache is alive at its issuer, and stays so  *)
(* for Margin less the timeout, however long the answer that brought it    *)
(* was under way; but a token said to have died some 292 years ago or more *)
(* is taken for one that lives (oauth2.go:24-26, :116, :238).              *)
CachedTokenLives ==
  \A c \in Callers : answer[c].kind = "cached" =>
    /\ answer[c].token.present
    /\ answer[c].token.lifetime >= Least =>
         answer[c].at + (Margin - Timeout) < answer[c].token.expiry

(* Every call returns: no failing or stalling refresh keeps the mutex.     *)
EveryCallReturns == \A c \in Callers : pc[c] = "waiting" ~> pc[c] = "idle"

(* Seen by its callers the source is a TokenCache: the mutex and the wait  *)
(* for the endpoint show in nothing else, and however late the answer to a *)
(* refresh comes the expiry is overestimated by Timeout at most, unless    *)
(* the lifetime is below Least.                                            *)
Cache == INSTANCE TokenCache WITH Slack <- Timeout, refresher <- mu,
                                  asking <- {c \in Callers : pc[c] # "idle"}
ImplementsCache == Cache!Spec

-----------------------------------------------------------------------------
(* A refresh under way started at most Timeout ago, and what the endpoint  *)
(* issued it issued since.                                                 *)
FlightBounds ==
  \A c \in Callers : Refreshing(c) =>
    /\ flight[c].start <= now /\ now <= flight[c].start + Timeout
    /\ pc[c] = "issued" => flight[c].start <= flight[c].issuedAt /\ flight[c].issuedAt <= now

(* No cached token is believed to live longer than it does by more than    *)
(* Timeout, if its lifetime is not below Least.                            *)
ExpiryKnown ==
  token.present /\ token.lifetime >= Least => token.expiresAt <= token.expiry + Timeout

IInv == TypeOK /\ SingleFlight /\ FlightBounds /\ ExpiryKnown /\ CachedTokenLives
=============================================================================
