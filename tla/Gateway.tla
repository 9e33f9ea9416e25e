------------------------------ MODULE Gateway ------------------------------
(***************************************************************************)
(* The components together, over reloads: a request is bound to the        *)
(* generation that is live when it is routed, counts against that          *)
(* generation's limiter, and tries the members of a group one by one, each *)
(* with a token from that generation's source, whose mutex it may have to  *)
(* wait for.  Every load starts with fresh limiters and without tokens.    *)
(* A reload is one step (Server implements ConfigRegister), a limiter is   *)
(* RateLimit's, and a refresh is the longest step of TokenSource.          *)
(* Upstreams and token endpoints are external.                             *)
(***************************************************************************)
EXTENDS Integers, Sequences, FiniteSets

CONSTANTS Requests, Tokens, Providers,
          Group,     \* the members of the fallback group, in order
          OAuth,     \* those whose token comes from a token source
          Count, Window, MaxTime,
          MaxGen,    \* bound on the loads
          NoOne

ASSUME GatewayAssumption ==
  /\ Group \in Seq(Providers) /\ Group # <<>> /\ OAuth \subseteq Providers
  /\ Count \in Nat \ {0} /\ Window \in Nat /\ MaxTime \in Nat /\ MaxGen \in Nat \ {0}
  /\ NoOne \notin Requests

Gens == 1 .. MaxGen

VARIABLES now,
          live,     \* the generation in the server's handler
          windows,  \* the windows of each generation's limiters
          admitted, \* history: each token's admissions, when, by which generation,
                    \* in the window that ends when, and as its which
          pc,       \* where each request is
          token,    \* the one it comes with
          gen,      \* the generation it was routed to
          member,   \* the group member it tries
          lock,     \* who holds the mutex of a generation's token source
          valid     \* the source has a valid token

vars == <<now, live, windows, admitted, pc, token, gen, member, lock, valid>>

Init == /\ now = 0 /\ live = 1
        /\ windows = [g \in Gens |-> [t \in {} |-> {}]]
        /\ admitted = [t \in Tokens |-> <<>>]
        /\ pc = [q \in Requests |-> "sent"]
        /\ token \in [Requests -> Tokens]
        /\ gen = [q \in Requests |-> 1]
        /\ member = [q \in Requests |-> 1]
        /\ lock = [g \in Gens |-> [p \in OAuth |-> NoOne]]
        /\ valid = [g \in Gens |-> [p \in OAuth |-> FALSE]]

(* The limiter of a generation.                                            *)
Limiter(g) == INSTANCE RateLimit WITH
  Keys <- Tokens, windows <- windows[g],
  log <- [t \in Tokens |-> <<>>], answer <- [t \in Tokens |-> {}]

Goto(q, l) == pc' = [pc EXCEPT ![q] = l]

-----------------------------------------------------------------------------
Reload_clearsLimiters ==
  /\ live < MaxGen
  /\ live' = live + 1
  /\ windows' = [g \in Gens |-> [t \in {} |-> {}]]
  /\ UNCHANGED <<now, admitted, pc, token, gen, member, lock, valid>>
Reload == /\ live < MaxGen
          /\ live' = live + 1
          /\ UNCHANGED <<now, windows, admitted, pc, token, gen, member, lock, valid>>

Route(q) == /\ pc[q] = "sent"
            /\ gen' = [gen EXCEPT ![q] = live]
            /\ Goto(q, "routed")
            /\ UNCHANGED <<now, live, windows, admitted, token, member, lock, valid>>

(* The auth middleware asks the limiter of the request's token.            *)
Keep(g, t, w) ==
  windows' = [windows EXCEPT ![g] = [x \in DOMAIN @ \cup {t} |-> IF x = t THEN w ELSE @[x]]]

Limit(q) == LET w == Limiter(gen[q])!Current(token[q]) IN
            /\ pc[q] = "routed" /\ w.count >= Count
            /\ Keep(gen[q], token[q], w)
            /\ Goto(q, "limited")
            /\ UNCHANGED <<now, live, admitted, token, gen, member, lock, valid>>

Admit(q) == LET w == Limiter(gen[q])!Current(token[q])
                c == Limiter(gen[q])!Consume(w) IN
            /\ pc[q] = "routed" /\ w.count < Count
            /\ Keep(gen[q], token[q], c)
            /\ admitted' = [admitted EXCEPT ![token[q]] =
                              Append(@, [at |-> now, gen |-> gen[q],
                                         until |-> c.resetAt, nth |-> c.count])]
            /\ Goto(q, "attempting")
            /\ UNCHANGED <<now, live, token, gen, member, lock, valid>>

-----------------------------------------------------------------------------
Provider(q) == Group[member[q]]

(* The director needs no token, or finds a valid one under the lock ...    *)
Direct(q) == /\ pc[q] = "attempting"
             /\ Provider(q) \in OAuth =>
                  lock[gen[q]][Provider(q)] = NoOne /\ valid[gen[q]][Provider(q)]
             /\ Goto(q, "directed")
             /\ UNCHANGED <<now, live, windows, admitted, token, gen, member, lock, valid>>

SetLock(q, who) == lock' = [lock EXCEPT ![gen[q]][Provider(q)] = who]

(* ... or sends for one, keeping the lock.                                 *)
Refresh_unlocked(q) ==
  /\ pc[q] = "attempting" /\ Provider(q) \in OAuth
  /\ ~ valid[gen[q]][Provider(q)]
  /\ SetLock(q, q)
  /\ Goto(q, "refreshing")
  /\ UNCHANGED <<now, live, windows, admitted, token, gen, member, valid>>
Refresh(q) == /\ pc[q] = "attempting" /\ Provider(q) \in OAuth
              /\ lock[gen[q]][Provider(q)] = NoOne /\ ~ valid[gen[q]][Provider(q)]
              /\ SetLock(q, q)
              /\ Goto(q, "refreshing")
              /\ UNCHANGED <<now, live, windows, admitted, token, gen, member, valid>>

(* With a token or, when the refresh failed, without one, it goes on.      *)
Refreshed_noUnlock(q) ==
  /\ pc[q] = "refreshing"
  /\ \/ valid' = [valid EXCEPT ![gen[q]][Provider(q)] = TRUE]
     \/ UNCHANGED valid
  /\ Goto(q, "directed")
  /\ UNCHANGED <<now, live, windows, admitted, token, gen, member, lock>>
Refreshed(q) ==
  /\ pc[q] = "refreshing"
  /\ SetLock(q, NoOne)
  /\ \/ valid' = [valid EXCEPT ![gen[q]][Provider(q)] = TRUE]
     \/ UNCHANGED valid
  /\ Goto(q, "directed")
  /\ UNCHANGED <<now, live, windows, admitted, token, gen, member>>

Expire(g, p) == /\ valid[g][p]
                /\ valid' = [valid EXCEPT ![g][p] = FALSE]
                /\ UNCHANGED <<now, live, windows, admitted, pc, token, gen, member, lock>>

(* The upstream's answer ends the round, unless it can be retried.         *)
Answered(q) == /\ pc[q] = "directed"
               /\ Goto(q, "answered")
               /\ UNCHANGED <<now, live, windows, admitted, token, gen, member, lock, valid>>

Retry(q) == /\ pc[q] = "directed"
            /\ \/ /\ member[q] < Len(Group)
                  /\ member' = [member EXCEPT ![q] = @ + 1]
                  /\ Goto(q, "attempting")
               \/ /\ member[q] = Len(Group)
                  /\ UNCHANGED member
                  /\ Goto(q, "exhausted")
            /\ UNCHANGED <<now, live, windows, admitted, token, gen, lock, valid>>

Tick == /\ now < MaxTime
        /\ now' = now + 1
        /\ UNCHANGED <<live, windows, admitted, pc, token, gen, member, lock, valid>>

Next == \/ Reload \/ Tick
        \/ \E g \in Gens, p \in OAuth : Expire(g, p)
        \/ \E q \in Requests : \/ Route(q) \/ Limit(q) \/ Admit(q)
                               \/ Direct(q) \/ Refresh(q) \/ Refreshed(q)
                               \/ Answered(q) \/ Retry(q)

Spec == Init /\ [][Next]_vars

(* A goroutine runs on; the mutex is handed to each waiter in the end; the *)
(* token client gives up after ten seconds.  Of the upstreams' answers     *)
(* nothing is assumed.                                                     *)
Fairness == \A q \in Requests :
              /\ WF_vars(Route(q)) /\ WF_vars(Limit(q) \/ Admit(q))
              /\ SF_vars(Direct(q) \/ Refresh(q)) /\ WF_vars(Refreshed(q))

FairSpec == Spec /\ Fairness

-----------------------------------------------------------------------------
(* Every variable has its type.                                            *)
TypeOK ==
  /\ now \in Nat /\ live \in Gens
  /\ DOMAIN windows = Gens
  /\ \A g \in Gens : /\ DOMAIN windows[g] \subseteq Tokens
                     /\ \A t \in DOMAIN windows[g] :
                          windows[g][t] \in [count : 1 .. Count, resetAt : Nat]
  /\ admitted \in [Tokens -> Seq([at : Nat, gen : Gens, until : Nat, nth : 1 .. Count])]
  /\ pc \in [Requests -> {"sent", "routed", "limited", "attempting", "refreshing",
                           "directed", "answered", "exhausted"}]
  /\ token \in [Requests -> Tokens] /\ gen \in [Requests -> Gens]
  /\ member \in [Requests -> 1 .. Len(Group)]
  /\ lock \in [Gens -> [OAuth -> Requests \cup {NoOne}]]
  /\ valid \in [Gens -> [OAuth -> BOOLEAN]]

(* What a token's quota is worth over reloads: the admissions between two  *)
(* of its requests, when they are more than 2 * Count - 1 for each of the  *)
(* generations that granted them, span more than a window; requests of a   *)
(* superseded generation still count in that one's (server.go:130).        *)
QuotaPerReload ==
  \A t \in Tokens : \A i, j \in 1 .. Len(admitted[t]) :
    LET granting == {admitted[t][n].gen : n \in i .. j} IN
    j - i + 1 > (2 * Count - 1) * Cardinality(granting) =>
      admitted[t][j].at > admitted[t][i].at + Window

(* A superseded generation's limiter grants, to the requests it still has, *)
(* no more of a window's quota than the live one does: of the admissions   *)
(* between two that are at most a window apart, no generation made more    *)
(* than 2 * Count - 1 (server.go:130, ratelimit.go:112).                   *)
QuotaPerGeneration ==
  \A t \in Tokens : \A g \in Gens : \A i, j \in 1 .. Len(admitted[t]) :
    LET own == {n \in i .. j : admitted[t][n].gen = g} IN
    Cardinality(own) > 2 * Count - 1 =>
      admitted[t][j].at > admitted[t][i].at + Window

(* No request waits for ever for another one: each is limited or sent on,  *)
(* again after each failed member, though refreshes fail, upstreams never  *)
(* answer the requests ahead and the server is reloaded                    *)
(* (oauth2.go:72, fallback.go:87, server.go:88).                           *)
OthersGoOn ==
  \A q \in Requests :
    /\ pc[q] = "routed" ~> pc[q] \in {"limited", "directed"}
    /\ pc[q] = "attempting" ~> pc[q] = "directed"

-----------------------------------------------------------------------------
(* Of two admissions by one generation the later is the later one of the   *)
(* same window, or in one that was opened when the first had ended.        *)
Later(d, e) == \/ d.until = e.until /\ d.nth < e.nth
               \/ d.until < e.at /\ d.until + Window < e.until

(* The window of a generation counts its latest admissions.                *)
CountedIn(e, w) == \/ e.until = w.resetAt /\ e.nth <= w.count
                   \/ e.until + Window < w.resetAt

NoLongWindow ==
  \A g \in Gens : \A t \in DOMAIN windows[g] : windows[g][t].resetAt <= now + Window

Accounting ==
  \A t \in Tokens : \A n \in 1 .. Len(admitted[t]) :
    LET e == admitted[t][n] IN
    /\ e.at <= now /\ e.at <= e.until
    /\ e.nth = 1 => e.until = e.at + Window
    /\ t \in DOMAIN windows[e.gen] /\ CountedIn(e, windows[e.gen][t])
    /\ \A m \in 1 .. n - 1 : /\ admitted[t][m].at <= e.at
                             /\ admitted[t][m].gen = e.gen => Later(admitted[t][m], e)

(* The mutex of a source is held by the one request that refreshes it, or  *)
(* by none: whoever waits for it waits for a refresh that can end, and no  *)
(* token is asked for twice at a time (oauth2.go:72).                      *)
SourcesHeld ==
  /\ \A q \in Requests : pc[q] = "refreshing" =>
       Provider(q) \in OAuth /\ lock[gen[q]][Provider(q)] = q
  /\ \A g \in Gens, p \in OAuth :
       LET q == lock[g][p] IN
       q # NoOne => pc[q] = "refreshing" /\ gen[q] = g /\ Provider(q) = p

IInv == TypeOK /\ NoLongWindow /\ Accounting /\ SourcesHeld
=============================================================================
