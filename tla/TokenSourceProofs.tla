------------------------- MODULE TokenSourceProofs -------------------------
(***************************************************************************)
(* Proofs about TokenSource, for any callers, any lifetimes the endpoint   *)
(* may send, any margin and any timeout: mutual exclusion of refreshes,    *)
(* and that a token handed out from the cache is alive at its issuer.      *)
(***************************************************************************)
EXTENDS TokenSource, TLAPS

USE TimingAssumption, CallerAssumption

(* Taking a number round the int64 makes it no larger, unless it lies      *)
(* below the least of them.                                                *)
LEMMA Remainder ==
  ASSUME NEW a \in Int, NEW m \in Nat \ {0}
  PROVE  a % m \in Int /\ (a >= 0 => a % m <= a)
OBVIOUS

LEMMA WrapType ==
  ASSUME NEW x \in Int
  PROVE  Wrap(x) \in Int
<1>1. x + MaxInt + 1 \in Int /\ 2 * (MaxInt + 1) \in Nat \ {0}
  OBVIOUS
<1> QED
  BY <1>1, Remainder DEF Wrap

LEMMA WrapDecreases ==
  ASSUME NEW x \in Int, x >= Least
  PROVE  Wrap(x) <= x
<1> DEFINE a == x + MaxInt + 1
           m == 2 * (MaxInt + 1)
<1>1. a \in Int /\ m \in Nat \ {0} /\ a >= 0
  BY DEF Least
<1>2. a % m \in Int /\ a % m <= a
  BY <1>1, Remainder
<1> QED
  BY <1>1, <1>2 DEF Wrap

LEMMA TypeInit == Init => TypeOK
  BY DEF Init, TypeOK, NoToken, NoFlight, NoAnswer, TokenType

LEMMA TypeStep == TypeOK /\ [Next]_vars => TypeOK'
<1> SUFFICES ASSUME TypeOK, [Next]_vars PROVE TypeOK'
  OBVIOUS
<1> USE DEF TypeOK
<1>1. NoToken \in TokenType /\ NoFlight \in [start : Nat, lifetime : Int, issuedAt : Nat]
  BY DEF NoToken, NoFlight, TokenType
<1>2. ASSUME NEW c \in Callers, Call(c) PROVE TypeOK'
  BY <1>2 DEF Call
<1>3. ASSUME NEW c \in Callers, Hit(c) PROVE TypeOK'
  BY <1>1, <1>3 DEF Hit, Return
<1>4. ASSUME NEW c \in Callers, Miss(c) PROVE TypeOK'
  BY <1>4 DEF Miss, Started
<1>5. ASSUME NEW c \in Callers, Issue(c) PROVE TypeOK'
  BY <1>5 DEF Issue
<1>6. ASSUME NEW c \in Callers, Complete(c) PROVE TypeOK'
  <2>1. Received(flight[c]) \in TokenType
    <3>1. Wrap(flight[c].lifetime) \in Int
      BY WrapType
    <3> QED
      BY <3>1 DEF Received, TokenType
  <2> QED
    BY <1>1, <1>6, <2>1 DEF Complete, Return
<1>7. ASSUME NEW c \in Callers, Fail(c) PROVE TypeOK'
  BY <1>1, <1>7 DEF Fail, Return
<1>8. CASE Tick
  BY <1>8 DEF Tick
<1>9. CASE UNCHANGED vars
  BY <1>9 DEF vars
<1> QED
  BY <1>2, <1>3, <1>4, <1>5, <1>6, <1>7, <1>8, <1>9 DEF Next

(* Every variable keeps its type.                                          *)
THEOREM TypeCorrect == Spec => []TypeOK
<1> QED
  BY TypeInit, TypeStep, PTL DEF Spec

-----------------------------------------------------------------------------
LEMMA InvInit == Init => IInv
<1> SUFFICES ASSUME Init PROVE IInv
  OBVIOUS
<1>1. SingleFlight /\ FlightBounds
  BY DEF Init, SingleFlight, FlightBounds, Refreshing
<1>2. ExpiryKnown /\ CachedTokenLives
  BY DEF Init, ExpiryKnown, CachedTokenLives, NoToken, NoAnswer
<1> QED
  BY <1>1, <1>2, TypeInit DEF IInv

(* No step begins a refresh without the mutex or ends one keeping it.      *)
LEMMA SingleFlightStep ==
  ASSUME TypeOK, SingleFlight, [Next]_vars PROVE SingleFlight'
<1> USE DEF TypeOK, SingleFlight, Refreshing
<1>1. ASSUME NEW c \in Callers, Call(c) PROVE SingleFlight'
  BY <1>1 DEF Call
<1>2. ASSUME NEW c \in Callers, Hit(c) PROVE SingleFlight'
  BY <1>2 DEF Hit, Return
<1>3. ASSUME NEW c \in Callers, Miss(c) PROVE SingleFlight'
  BY <1>3 DEF Miss
<1>4. ASSUME NEW c \in Callers, Issue(c) PROVE SingleFlight'
  BY <1>4 DEF Issue
<1>5. ASSUME NEW c \in Callers, Complete(c) PROVE SingleFlight'
  BY <1>5 DEF Complete, Return
<1>6. ASSUME NEW c \in Callers, Fail(c) PROVE SingleFlight'
  BY <1>6 DEF Fail, Return
<1>7. CASE Tick
  BY <1>7 DEF Tick
<1>8. CASE UNCHANGED vars
  BY <1>8 DEF vars
<1> QED
  BY <1>1, <1>2, <1>3, <1>4, <1>5, <1>6, <1>7, <1>8 DEF Next

(* A refresh is bounded by the HTTP client's timeout.                      *)
LEMMA FlightStep ==
  ASSUME TypeOK, FlightBounds, [Next]_vars PROVE FlightBounds'
<1> USE DEF TypeOK, FlightBounds, Refreshing
<1>1. ASSUME NEW c \in Callers, Call(c) PROVE FlightBounds'
  BY <1>1 DEF Call
<1>2. ASSUME NEW c \in Callers, Hit(c) PROVE FlightBounds'
  BY <1>2 DEF Hit, Return
<1>3. ASSUME NEW c \in Callers, Miss(c) PROVE FlightBounds'
  BY <1>3 DEF Miss, Started
<1>4. ASSUME NEW c \in Callers, Issue(c) PROVE FlightBounds'
  BY <1>4 DEF Issue
<1>5. ASSUME NEW c \in Callers, Complete(c) PROVE FlightBounds'
  BY <1>5 DEF Complete, Return
<1>6. ASSUME NEW c \in Callers, Fail(c) PROVE FlightBounds'
  BY <1>6 DEF Fail, Return
<1>7. CASE Tick
  BY <1>7 DEF Tick
<1>8. CASE UNCHANGED vars
  BY <1>8 DEF vars
<1> QED
  BY <1>1, <1>2, <1>3, <1>4, <1>5, <1>6, <1>7, <1>8 DEF Next

(* A token received within Timeout expires, at its issuer, at most Timeout *)
(* before the instant the source computed.                                 *)
LEMMA ExpiryStep ==
  ASSUME TypeOK, FlightBounds, ExpiryKnown, [Next]_vars PROVE ExpiryKnown'
<1> USE DEF TypeOK
<1>1. ASSUME NEW c \in Callers, Complete(c) PROVE ExpiryKnown'
  <2>1. /\ flight[c].start <= flight[c].issuedAt
        /\ now <= flight[c].start + Timeout
        /\ flight[c].lifetime \in Int
    BY <1>1 DEF Complete, FlightBounds, Refreshing
  <2>2. /\ token'.expiry = flight[c].issuedAt + flight[c].lifetime
        /\ token'.expiresAt = (IF StampAtResponse THEN now ELSE flight[c].start)
                              + Wrap(flight[c].lifetime)
        /\ token'.lifetime = flight[c].lifetime
    BY <1>1 DEF Complete, Received
  <2>3. Wrap(flight[c].lifetime) \in Int
    BY <2>1, WrapType
  <2>4. flight[c].lifetime >= Least => Wrap(flight[c].lifetime) <= flight[c].lifetime
    BY <2>1, WrapDecreases
  <2> QED
    BY <2>1, <2>2, <2>3, <2>4 DEF ExpiryKnown
<1>2. ASSUME token' = token PROVE ExpiryKnown'
  BY <1>2 DEF ExpiryKnown
<1> QED
  BY <1>1, <1>2 DEF Next, Call, Hit, Miss, Issue, Fail, Tick, vars

(* A cache hit returns a token the issuer honours for a while yet.         *)
LEMMA CachedStep ==
  ASSUME TypeOK, ExpiryKnown, CachedTokenLives, [Next]_vars PROVE CachedTokenLives'
<1> USE DEF TypeOK
<1>1. ASSUME NEW c \in Callers, Hit(c) PROVE CachedTokenLives'
  <2>1. /\ answer' = [answer EXCEPT ![c] = [kind |-> "cached", at |-> now, token |-> token]]
        /\ token.present /\ now < token.expiresAt - Margin
        /\ token.expiry \in Int /\ token.expiresAt \in Int
    BY <1>1 DEF Hit, Return, Valid, TokenType
  <2>2. token.lifetime >= Least => now + (Margin - Timeout) < token.expiry
    BY <2>1 DEF ExpiryKnown
  <2> QED
    BY <2>1, <2>2 DEF CachedTokenLives
<1>2. ASSUME NEW c \in Callers, Complete(c) \/ Fail(c) PROVE CachedTokenLives'
  BY <1>2 DEF Complete, Fail, Return, CachedTokenLives
<1>3. ASSUME answer' = answer PROVE CachedTokenLives'
  BY <1>3 DEF CachedTokenLives
<1> QED
  BY <1>1, <1>2, <1>3 DEF Next, Call, Miss, Issue, Tick, vars

(* The inductive invariant.                                                *)
THEOREM Invariance == Spec => []IInv
<1>1. IInv /\ [Next]_vars => IInv'
  BY TypeStep, SingleFlightStep, FlightStep, ExpiryStep, CachedStep DEF IInv
<1> QED
  BY InvInit, <1>1, PTL DEF Spec

(* Refreshes exclude one another.                                          *)
THEOREM OneRefresh == Spec => []SingleFlight
<1>1. IInv => SingleFlight
  BY DEF IInv
<1> QED
  BY Invariance, <1>1, PTL

(* Tokens from the cache are alive.                                        *)
THEOREM CacheAlive == Spec => []CachedTokenLives
<1>1. IInv => CachedTokenLives
  BY DEF IInv
<1> QED
  BY Invariance, <1>1, PTL

-----------------------------------------------------------------------------
LEMMA CacheInit == Init => Cache!Init
  BY DEF Init, NoToken, NoAnswer, Cache!Init, Cache!NoToken

(* What is read of the mapping: its view of a caller that is busy.         *)
LEMMA CacheStep ==
  ASSUME IInv, [Next]_vars PROVE [Cache!Next]_(Cache!vars)
<1> DEFINE busy == {c \in Callers : pc[c] # "idle"}
<1> USE DEF IInv, TypeOK
<1>1. ASSUME NEW c \in Callers, Call(c) PROVE Cache!Ask(c)
  <2>1. c \notin busy /\ busy' = busy \cup {c}
    BY <1>1 DEF Call
  <2> QED
    BY <1>1, <2>1 DEF Call, Cache!Ask
<1>2. ASSUME NEW c \in Callers, pc[c] # "idle", pc' = [pc EXCEPT ![c] = "idle"]
      PROVE  c \in busy /\ busy' = busy \ {c}
  BY <1>2
<1>3. ASSUME NEW c \in Callers, Hit(c) PROVE Cache!FromCache(c)
  <2>1. c \in busy /\ busy' = busy \ {c}
    BY <1>2, <1>3 DEF Hit, Return
  <2> QED
    BY <1>3, <2>1 DEF Hit, Return, Valid, Cache!FromCache, Cache!Answer, Cache!Valid
<1>4. ASSUME NEW c \in Callers, Miss(c) PROVE Cache!Refresh(c)
  <2>1. c \in busy /\ busy' = busy
    BY <1>4 DEF Miss
  <2> QED
    BY <1>4, <2>1 DEF Miss, Valid, Cache!Refresh, Cache!Valid
<1>5. ASSUME NEW c \in Callers, Issue(c) PROVE UNCHANGED Cache!vars
  <2>1. busy' = busy
    BY <1>5 DEF Issue
  <2> QED
    BY <1>5, <2>1 DEF Issue, Cache!vars
<1>6. ASSUME NEW c \in Callers, Complete(c) PROVE Cache!Refreshed(c)
  <2>1. c \in busy /\ busy' = busy \ {c}
    BY <1>2, <1>6 DEF Complete, Return
  <2>2. mu = c
    BY <1>6 DEF Complete, SingleFlight, Refreshing
  <2>3. /\ token'.present
        /\ token'.lifetime >= Least => token'.expiresAt <= token'.expiry + Timeout
    <3>1. ExpiryKnown'
      BY ExpiryStep
    <3> QED
      BY <1>6, <3>1 DEF ExpiryKnown, Complete, Received
  <2> QED
    BY <1>6, <2>1, <2>2, <2>3 DEF Complete, Return, Cache!Refreshed, Cache!Answer
<1>7. ASSUME NEW c \in Callers, Fail(c) PROVE Cache!Fails(c)
  <2>1. c \in busy /\ busy' = busy \ {c}
    BY <1>2, <1>7 DEF Fail, Return, Refreshing
  <2>2. mu = c
    BY <1>7 DEF Fail, SingleFlight
  <2> QED
    BY <1>7, <2>1, <2>2 DEF Fail, Return, NoToken, Cache!Fails, Cache!Answer, Cache!NoToken
<1>8. CASE Tick
  <2>1. busy' = busy
    BY <1>8 DEF Tick
  <2> QED
    BY <1>8, <2>1 DEF Tick, Cache!Next, Cache!Tick
<1>9. CASE UNCHANGED vars
  BY <1>9 DEF vars, Cache!vars
<1> QED
  BY <1>1, <1>3, <1>4, <1>5, <1>6, <1>7, <1>8, <1>9 DEF Next, Cache!Next

(* TokenSource implements TokenCache.                                      *)
THEOREM Implementation == Spec => ImplementsCache
<1> QED
  BY CacheInit, CacheStep, Invariance, PTL DEF Spec, ImplementsCache, Cache!Spec
=============================================================================
