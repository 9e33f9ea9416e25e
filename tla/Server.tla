------------------------------- MODULE Server -------------------------------
(***************************************************************************)
(* internal/server with the health checkers and the auth middleware it     *)
(* assembles.  A reload reads the configuration file under the mutex,      *)
(* stops the health checker in charge, starts a new one and then stores    *)
(* the new components in one atomic value; a generation is what one load   *)
(* built.  Every provider of a generation has a loop that probes it until  *)
(* the checker is stopped.  A request loads the atomic value once and is   *)
(* authorised and routed by what it found.                                 *)
(* The file's editor, the upstreams that are probed and the clients are    *)
(* external.                                                               *)
(***************************************************************************)
EXTENDS Integers

CONSTANTS Reloaders,  \* callers of Reload()
          Requests,
          Monitors,   \* clients of /health
          Providers, Tokens,
          Configs,    \* contents the configuration file can have
          Broken,     \* those that Parse rejects, or that cannot be opened
          Limits,     \* per configuration, what rate_limit each token has:
                      \* "absent" no such token, "none", "limit", "misspelt"
          Members,    \* per configuration, its providers
          Interval,   \* per configuration, the health check interval's sign
          Initial,    \* the configuration main() loaded
          MaxGen,     \* bound on the loads
          NoOne

ASSUME ConfigAssumption ==
  /\ Broken \subseteq Configs /\ Initial \in Configs \ Broken
  /\ Limits \in [Configs -> [Tokens -> {"absent", "none", "limit", "misspelt"}]]
  /\ Members \in [Configs -> SUBSET Providers]
  /\ Interval \in [Configs -> Int]
ASSUME BoundAssumption == MaxGen \in Nat \ {0} /\ NoOne \notin Reloaders

Gens == 1 .. MaxGen

VARIABLES file,     \* the contents of the configuration file
          mu,       \* who holds s.mu
          reload,   \* where each caller of Reload() is
          read,     \* the configuration each has parsed
          mine,     \* the generation each has built
          latest,   \* history: the configuration parsed last
          built,    \* the number of loads so far
          config,   \* the configuration of each generation
          owner,    \* s.checker, as the generation it belongs to
          live,     \* s.handler, as the generation stored in it
          stopped,  \* the generations whose checker has been stopped
          loop,     \* where the loop of each generation and provider is
          status,   \* its entry of statuses
          view,     \* the generation each GET /health has loaded; 0: none
          proc,     \* the process
          pc,       \* where each request is
          ask,      \* the token and the provider it comes with
          since,    \* history: the live generation when it was sent
          snap,     \* the generation it loaded
          answer    \* what became of it

reloadVars == <<file, mu, reload, read, mine, latest, built, config, owner, live>>
checkVars == <<stopped, loop, status>>
requestVars == <<pc, ask, since, snap, answer>>
vars == <<reloadVars, checkVars, view, proc, requestVars>>

-----------------------------------------------------------------------------
(* The tokens a configuration accepts: one whose rate_limit cannot be      *)
(* parsed is left out.                                                     *)
TokenMap(c) == {t \in Tokens : Limits[c][t] \in {"none", "limit"}}

(* The loops of a checker that has just been started, and its statuses.    *)
Launched(c) == [p \in Providers |-> IF p \in Members[c] THEN "probing" ELSE "none"]
Unchecked == [p \in Providers |-> "unknown"]

Init ==
  /\ file = Initial /\ latest = Initial
  /\ mu = NoOne
  /\ reload = [r \in Reloaders |-> "idle"]
  /\ read = [r \in Reloaders |-> Initial]
  /\ mine = [r \in Reloaders |-> 1]
  /\ built = 1 /\ owner = 1 /\ live = 1
  /\ config = [g \in Gens |-> Initial]
  /\ stopped = {}
  /\ loop = [g \in Gens |-> IF g = 1 THEN Launched(Initial) ELSE [p \in Providers |-> "none"]]
  /\ status = [g \in Gens |-> Unchecked]
  /\ view = [m \in Monitors |-> 0]
  /\ proc = "running"
  /\ pc = [q \in Requests |-> "unsent"]
  /\ ask \in [Requests -> [token : Tokens, provider : Providers]]
  /\ since = [q \in Requests |-> 1]
  /\ snap = [q \in Requests |-> 1]
  /\ answer = [q \in Requests |-> "none"]

EditFile == /\ proc = "running"
            /\ \E c \in Configs \ {file} : file' = c
            /\ UNCHANGED <<mu, reload, read, mine, latest, built, config, owner, live,
                           checkVars, view, proc, requestVars>>

-----------------------------------------------------------------------------
(* Reload(): the mutex is taken ...                                        *)
Lock_unserialised(r) ==
  /\ proc = "running" /\ reload[r] = "idle" /\ built < MaxGen
  /\ mu' = r
  /\ reload' = [reload EXCEPT ![r] = "locked"]
  /\ UNCHANGED <<file, read, mine, latest, built, config, owner, live,
                 checkVars, view, proc, requestVars>>
Lock_stopsOld(r) ==
  /\ proc = "running" /\ reload[r] = "idle" /\ built < MaxGen
  /\ mu = NoOne /\ mu' = r
  /\ reload' = [reload EXCEPT ![r] = "locked"]
  /\ stopped' = stopped \cup {owner}
  /\ UNCHANGED <<file, read, mine, latest, built, config, owner, live,
                 loop, status, view, proc, requestVars>>
Lock(r) ==
  /\ proc = "running" /\ reload[r] = "idle" /\ built < MaxGen
  /\ mu = NoOne /\ mu' = r
  /\ reload' = [reload EXCEPT ![r] = "locked"]
  /\ UNCHANGED <<file, read, mine, latest, built, config, owner, live,
                 checkVars, view, proc, requestVars>>

(* ... a file that cannot be opened or parsed ends it ...                  *)
ReloadFails(r) ==
  /\ proc = "running" /\ reload[r] = "locked" /\ file \in Broken
  /\ mu' = NoOne
  /\ reload' = [reload EXCEPT ![r] = "idle"]
  /\ UNCHANGED <<file, read, mine, latest, built, config, owner, live,
                 checkVars, view, proc, requestVars>>

Parse(r) ==
  /\ proc = "running" /\ reload[r] = "locked" /\ file \notin Broken
  /\ read' = [read EXCEPT ![r] = file]
  /\ latest' = file
  /\ reload' = [reload EXCEPT ![r] = "parsed"]
  /\ UNCHANGED <<file, mu, mine, built, config, owner, live, checkVars, view, proc, requestVars>>

(* ... load() stops the old checker ...                                    *)
StopOld_forgets(r) ==
  /\ proc = "running" /\ reload[r] = "parsed"
  /\ reload' = [reload EXCEPT ![r] = "stopped"]
  /\ UNCHANGED <<file, mu, read, mine, latest, built, config, owner, live,
                 checkVars, view, proc, requestVars>>
StopOld(r) ==
  /\ proc = "running" /\ reload[r] = "parsed"
  /\ stopped' = stopped \cup {owner}
  /\ reload' = [reload EXCEPT ![r] = "stopped"]
  /\ UNCHANGED <<file, mu, read, mine, latest, built, config, owner, live,
                 loop, status, view, proc, requestVars>>

(* ... starts a new one, which becomes s.checker ...                       *)
StartNew(r) ==
  /\ proc = "running" /\ reload[r] = "stopped" /\ built < MaxGen
  /\ built' = built + 1
  /\ config' = [config EXCEPT ![built + 1] = read[r]]
  /\ loop' = [loop EXCEPT ![built + 1] = Launched(read[r])]
  /\ owner' = built + 1
  /\ mine' = [mine EXCEPT ![r] = built + 1]
  /\ reload' = [reload EXCEPT ![r] = "started"]
  /\ UNCHANGED <<file, mu, read, latest, live, stopped, status, view, proc, requestVars>>

(* ... and stores the new components; the mutex is released.               *)
Store(r) ==
  /\ proc = "running" /\ reload[r] = "started"
  /\ live' = mine[r]
  /\ mu' = NoOne
  /\ reload' = [reload EXCEPT ![r] = "idle"]
  /\ UNCHANGED <<file, read, mine, latest, built, config, owner, checkVars, view, proc, requestVars>>

(* Server.Stop(), which main() defers: the signal loop that calls Reload() *)
(* has returned by then, and the listener is closed.                       *)
Stop ==
  /\ proc = "running"
  /\ \A r \in Reloaders : reload[r] = "idle"
  /\ proc' = "stopping"
  /\ stopped' = stopped \cup {owner}
  /\ UNCHANGED <<reloadVars, loop, status, view, requestVars>>

-----------------------------------------------------------------------------
SetLoop(g, p, l) == loop' = [loop EXCEPT ![g][p] = l]

(* client.Do returns.  The upstream of a checker that is stopped may have  *)
(* answered before that; a probe begun or cut off later fails.             *)
Probed(g, p) ==
  /\ proc # "crashed" /\ loop[g][p] = "probing"
  /\ \/ g \notin stopped /\ SetLoop(g, p, "well")
     \/ SetLoop(g, p, "ill")
     \/ g \in stopped /\ SetLoop(g, p, "cut")
  /\ UNCHANGED <<reloadVars, stopped, status, view, proc, requestVars>>

(* updateStatus, and on to the ticker.                                     *)
Report(g, p) ==
  /\ proc # "crashed" /\ loop[g][p] \in {"well", "ill", "cut"}
  /\ Interval[config[g]] > 0
  /\ status' = [status EXCEPT ![g][p] = loop[g][p]]
  /\ SetLoop(g, p, "waiting")
  /\ UNCHANGED <<reloadVars, stopped, view, proc, requestVars>>

(* NewTicker panics on an interval that is not positive, in a goroutine    *)
(* that nothing recovers.                                                  *)
Panic(g, p) ==
  /\ proc # "crashed" /\ loop[g][p] \in {"well", "ill", "cut"}
  /\ Interval[config[g]] <= 0
  /\ proc' = "crashed"
  /\ UNCHANGED <<reloadVars, checkVars, view, requestVars>>

(* The select: ready for both, it may take either.                         *)
TickerFires(g, p) ==
  /\ proc # "crashed" /\ loop[g][p] = "waiting"
  /\ SetLoop(g, p, "probing")
  /\ UNCHANGED <<reloadVars, stopped, status, view, proc, requestVars>>

LoopEnds(g, p) ==
  /\ proc # "crashed" /\ loop[g][p] = "waiting" /\ g \in stopped
  /\ SetLoop(g, p, "ended")
  /\ UNCHANGED <<reloadVars, stopped, status, view, proc, requestVars>>

(* GET /health loads the live components ...                               *)
HealthLoad(m) ==
  /\ proc # "crashed" /\ view[m] = 0
  /\ view' = [view EXCEPT ![m] = live]
  /\ UNCHANGED <<reloadVars, checkVars, proc, requestVars>>

(* ... and answers what the checker it found there has, whatever has been  *)
(* stored in the meantime.                                                 *)
HealthAnswer(m) == [p \in Members[config[view[m]]] |-> status[view[m]][p]]

HealthRead(m) ==
  /\ proc # "crashed" /\ view[m] # 0
  /\ view' = [view EXCEPT ![m] = 0]
  /\ UNCHANGED <<reloadVars, checkVars, proc, requestVars>>

-----------------------------------------------------------------------------
Send(q) ==
  /\ proc = "running" /\ pc[q] = "unsent"
  /\ pc' = [pc EXCEPT ![q] = "sent"]
  /\ since' = [since EXCEPT ![q] = live]
  /\ UNCHANGED <<reloadVars, checkVars, view, proc, ask, snap, answer>>

(* The /proxy/ handler loads the live components.                          *)
Route_captured(q) ==
  /\ proc # "crashed" /\ pc[q] = "sent"
  /\ pc' = [pc EXCEPT ![q] = "routed"]
  /\ UNCHANGED <<reloadVars, checkVars, view, proc, ask, since, snap, answer>>
Route(q) ==
  /\ proc # "crashed" /\ pc[q] = "sent"
  /\ pc' = [pc EXCEPT ![q] = "routed"]
  /\ snap' = [snap EXCEPT ![q] = live]
  /\ UNCHANGED <<reloadVars, checkVars, view, proc, ask, since, answer>>

Answer(q, a) == /\ pc' = [pc EXCEPT ![q] = "done"]
                /\ answer' = [answer EXCEPT ![q] = a]

(* The auth middleware: 401, 429 as the token's limiter decides, or pass.  *)
Authorise(q) ==
  LET c == config[snap[q]]
      t == ask[q].token IN
  /\ proc # "crashed" /\ pc[q] = "routed"
  /\ \/ t \notin TokenMap(c) /\ Answer(q, "unauthorized")
     \/ t \in TokenMap(c) /\ Limits[c][t] = "limit" /\ Answer(q, "limited")
     \/ t \in TokenMap(c) /\ pc' = [pc EXCEPT ![q] = "authorised"] /\ UNCHANGED answer
  /\ UNCHANGED <<reloadVars, checkVars, view, proc, ask, since, snap>>

(* The generation's proxy knows the provider, or answers 404.              *)
Forward_reloaded(q) ==
  /\ proc # "crashed" /\ pc[q] = "authorised"
  /\ Answer(q, IF ask[q].provider \in Members[config[live]] THEN "forwarded" ELSE "unknown")
  /\ UNCHANGED <<reloadVars, checkVars, view, proc, ask, since, snap>>
Forward(q) ==
  /\ proc # "crashed" /\ pc[q] = "authorised"
  /\ Answer(q, IF ask[q].provider \in Members[config[snap[q]]] THEN "forwarded" ELSE "unknown")
  /\ UNCHANGED <<reloadVars, checkVars, view, proc, ask, since, snap>>

Next == \/ EditFile \/ Stop
        \/ \E r \in Reloaders : \/ Lock(r) \/ ReloadFails(r) \/ Parse(r)
                                \/ StopOld(r) \/ StartNew(r) \/ Store(r)
        \/ \E g \in Gens, p \in Providers :
             \/ Probed(g, p) \/ Report(g, p) \/ Panic(g, p)
             \/ TickerFires(g, p) \/ LoopEnds(g, p)
        \/ \E m \in Monitors : HealthLoad(m) \/ HealthRead(m)
        \/ \E q \in Requests : Send(q) \/ Route(q) \/ Authorise(q) \/ Forward(q)

Spec == Init /\ [][Next]_vars

(* Reloads and probes run to their end: a probe by its client's timeout.   *)
(* A select that finds both channels ready again and again takes each of   *)
(* them in the end.                                                        *)
Fairness ==
  /\ \A r \in Reloaders :
       WF_vars(ReloadFails(r) \/ Parse(r) \/ StopOld(r) \/ StartNew(r) \/ Store(r))
  /\ \A g \in Gens, p \in Providers :
       /\ WF_vars(Probed(g, p) \/ Report(g, p) \/ Panic(g, p))
       /\ SF_vars(LoopEnds(g, p))

FairSpec == Spec /\ Fairness

-----------------------------------------------------------------------------
(* Every variable has its type, and a generation has loops for exactly     *)
(* the providers of its configuration (health.go:45-51).                   *)
TypeOK ==
  /\ file \in Configs /\ latest \in Configs \ Broken
  /\ mu \in Reloaders \cup {NoOne}
  /\ reload \in [Reloaders -> {"idle", "locked", "parsed", "stopped", "started"}]
  /\ read \in [Reloaders -> Configs \ Broken]
  /\ mine \in [Reloaders -> Gens]
  /\ built \in Gens /\ owner \in 1 .. built /\ live \in 1 .. built
  /\ config \in [Gens -> Configs \ Broken]
  /\ stopped \in SUBSET (1 .. built)
  /\ loop \in [Gens -> [Providers -> {"none", "probing", "well", "ill", "cut",
                                      "waiting", "ended"}]]
  /\ \A g \in Gens : \A p \in Providers :
       loop[g][p] # "none" <=> g <= built /\ p \in Members[config[g]]
  /\ status \in [Gens -> [Providers -> {"unknown", "well", "ill", "cut"}]]
  /\ view \in [Monitors -> 0 .. built]
  /\ proc \in {"running", "stopping", "crashed"}
  /\ pc \in [Requests -> {"unsent", "sent", "routed", "authorised", "done"}]
  /\ ask \in [Requests -> [token : Tokens, provider : Providers]]
  /\ since \in [Requests -> Gens] /\ snap \in [Requests -> Gens]
  /\ answer \in [Requests -> {"none", "unauthorized", "limited", "unknown", "forwarded"}]

(* Between reloads the live components are those of the configuration      *)
(* parsed last, however reloads, edits and broken files came in between    *)
(* (server.go:76-92).                                                      *)
NewestWins == mu = NoOne => config[live] = latest

(* Between reloads /health is answered by the checker in charge, and it is *)
(* running: a reload that failed has not stopped it (server.go:52-57).     *)
LiveWatched == mu = NoOne /\ proc = "running" => owner = live /\ live \notin stopped

(* GET /health shows no provider failed because of a probe that a reload   *)
(* cut off, unless a reload is under way when it reads the statuses, since *)
(* the old checker stops before the new one is stored, or one was stored   *)
(* after it had loaded the live components (server.go:52-57, :98-101).     *)
HealthTruthful ==
  \A m \in Monitors : view[m] = live /\ mu = NoOne /\ proc = "running" =>
    \A p \in DOMAIN HealthAnswer(m) : HealthAnswer(m)[p] # "cut"

(* Only the checker that s.checker names is running: no reload leaves one  *)
(* behind that nothing will ever stop, and once Stop() has returned none   *)
(* runs at all (server.go:52-57, :114-118).                                *)
NoOrphanChecker ==
  \A g \in 1 .. built : g \notin stopped => g = owner /\ proc # "stopping"

(* Does the configuration c, asked this, answer that?                      *)
Gives(c, want, a) ==
  LET accepted == want.token \in TokenMap(c)
      known == want.provider \in Members[c] IN
  \/ a = "unauthorized" /\ ~ accepted
  \/ a = "limited" /\ accepted /\ Limits[c][want.token] = "limit"
  \/ a = "unknown" /\ accepted /\ ~ known
  \/ a = "forwarded" /\ accepted /\ known
Explains(g, q) == Gives(config[g], ask[q], answer[q])

(* Every answer is one that some single configuration gives, and one that  *)
(* was live at some time between the request and its answer: no mixture of *)
(* two, and no superseded one (server.go:105-108).                         *)
OneConfigPerAnswer ==
  \A q \in Requests : pc[q] = "done" => \E g \in since[q] .. live : Explains(g, q)

(* The live generation is never replaced by an older one.                  *)
NeverBack == [][live' >= live]_vars

(* To editors and clients the server is one register of configurations:    *)
(* a reload takes effect at its Store and nowhere else, a request at its   *)
(* Route, whatever the steps in between (server.go:74-108).                *)
Register == INSTANCE ConfigRegister WITH
  taken <- latest, current <- config[live],
  pc <- [q \in Requests |-> IF pc[q] \in {"routed", "authorised"} THEN "looked" ELSE pc[q]],
  view <- [q \in Requests |-> config[snap[q]]]
ImplementsRegister == Register!Spec

(* The loops of a checker that was superseded all end.                     *)
SupersededLoopsEnd ==
  \A g \in Gens : \A p \in Providers :
    g < live ~> loop[g][p] \in {"none", "ended"} \/ proc = "crashed"

-----------------------------------------------------------------------------
(* Where the reload in progress stands.                                    *)
ReloadStands ==
  /\ \A r \in Reloaders : reload[r] # "idle" <=> mu = r
  /\ \A r \in Reloaders :
       /\ reload[r] \in {"parsed", "stopped", "started"} => read[r] = latest
       /\ reload[r] = "started" => mine[r] = owner /\ config[owner] = latest
                                   /\ owner \notin stopped
       /\ reload[r] \in {"locked", "parsed"} => owner = live /\ live \notin stopped
       /\ reload[r] = "locked" => config[live] = latest
       /\ reload[r] = "stopped" => owner = live /\ owner \in stopped
  /\ mu # NoOne => proc # "stopping"
  /\ owner = built

(* What each request has found so far.                                     *)
RequestStands ==
  \A q \in Requests :
    /\ since[q] <= live /\ snap[q] <= live
    /\ pc[q] \in {"routed", "authorised", "done"} => since[q] <= snap[q]
    /\ pc[q] = "authorised" => ask[q].token \in TokenMap(config[snap[q]])
    /\ pc[q] = "done" => Explains(snap[q], q)

IInv == TypeOK /\ NewestWins /\ LiveWatched /\ NoOrphanChecker /\ ReloadStands /\ RequestStands

-----------------------------------------------------------------------------
(* "Returns an error if the new config is invalid (old config stays        *)
(* active)": no file that a reload picks up would bring the process down   *)
(* (server.go:75).                                                         *)
ReloadNeverKills == proc # "crashed"
=============================================================================
