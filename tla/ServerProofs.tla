---------------------------- MODULE ServerProofs ----------------------------
(***************************************************************************)
(* Proofs about Server, for any configurations, any number of concurrent   *)
(* callers of Reload(), any number of loads, providers and requests.       *)
(***************************************************************************)
EXTENDS Server, TLAPS

(* The invariant holds when New has loaded the first configuration.        *)
LEMMA InitInv == Init => IInv
<1> SUFFICES ASSUME Init PROVE IInv
  OBVIOUS
<1> USE ConfigAssumption, BoundAssumption
<1>1. TypeOK
  BY DEF Init, TypeOK, Gens, Launched, Unchecked
<1>2. NewestWins /\ LiveWatched /\ NoOrphanChecker
  BY DEF Init, NewestWins, LiveWatched, NoOrphanChecker, Gens
<1>3. ReloadStands
  BY DEF Init, ReloadStands
<1>4. RequestStands
  BY DEF Init, RequestStands
<1> QED
  BY <1>1, <1>2, <1>3, <1>4 DEF IInv

(* A step that touches no request, and no configuration that was ever      *)
(* live, leaves what requests have found.                                  *)
LEMMA RequestsKept ==
  ASSUME TypeOK, RequestStands, UNCHANGED requestVars, live' \in Gens, live <= live',
         \A g \in 1 .. live : config'[g] = config[g]
  PROVE  RequestStands'
<1> SUFFICES ASSUME NEW q \in Requests
             PROVE  /\ since[q] <= live' /\ snap[q] <= live'
                    /\ pc[q] \in {"routed", "authorised", "done"} => since[q] <= snap[q]
                    /\ pc[q] = "authorised" => ask[q].token \in TokenMap(config'[snap[q]])
                    /\ pc[q] = "done" => Explains(snap[q], q)'
  BY DEF RequestStands, requestVars, TokenMap
<1>1. /\ live \in Gens /\ since[q] \in Gens /\ snap[q] \in Gens
      /\ since[q] <= live /\ snap[q] <= live
  BY BoundAssumption DEF TypeOK, RequestStands, Gens
<1>2. config'[snap[q]] = config[snap[q]]
  BY <1>1 DEF Gens
<1>3. Explains(snap[q], q) => Explains(snap[q], q)'
  BY <1>2 DEF Explains, Gives, TokenMap, requestVars
<1> QED
  BY <1>1, <1>2, <1>3, BoundAssumption DEF RequestStands, Gens

LEMMA LiveGen == TypeOK => live \in Gens /\ live <= live /\ built \in Gens
  BY BoundAssumption DEF TypeOK, Gens

-----------------------------------------------------------------------------
(* Reload() and what else happens to the configuration keep the invariant. *)
LEMMA EditFileInv == IInv /\ EditFile => IInv'
<1> SUFFICES ASSUME IInv, EditFile PROVE IInv'
  OBVIOUS
<1> USE DEF IInv, EditFile, checkVars
<1>1. TypeOK'
  BY DEF TypeOK, requestVars
<1>2. NewestWins' /\ LiveWatched' /\ NoOrphanChecker'
  BY DEF NewestWins, LiveWatched, NoOrphanChecker
<1>3. ReloadStands'
  BY DEF ReloadStands
<1>4. RequestStands'
  BY RequestsKept, LiveGen
<1> QED
  BY <1>1, <1>2, <1>3, <1>4

LEMMA LockInv == ASSUME NEW r \in Reloaders PROVE IInv /\ Lock(r) => IInv'
<1> SUFFICES ASSUME IInv, Lock(r) PROVE IInv'
  OBVIOUS
<1> USE DEF IInv, Lock, checkVars
<1>1. TypeOK'
  BY DEF TypeOK, requestVars
<1>2. NewestWins' /\ LiveWatched' /\ NoOrphanChecker'
  BY BoundAssumption DEF NewestWins, LiveWatched, NoOrphanChecker
<1>3. ReloadStands'
  BY BoundAssumption DEF ReloadStands, TypeOK, NewestWins, LiveWatched
<1>4. RequestStands'
  BY RequestsKept, LiveGen
<1> QED
  BY <1>1, <1>2, <1>3, <1>4

LEMMA ReloadFailsInv == ASSUME NEW r \in Reloaders PROVE IInv /\ ReloadFails(r) => IInv'
<1> SUFFICES ASSUME IInv, ReloadFails(r) PROVE IInv'
  OBVIOUS
<1> USE DEF IInv, ReloadFails, checkVars
<1>1. TypeOK'
  BY DEF TypeOK, requestVars
<1>2. NewestWins' /\ LiveWatched' /\ NoOrphanChecker'
  BY DEF NewestWins, LiveWatched, NoOrphanChecker, ReloadStands
<1>3. ReloadStands'
  BY BoundAssumption DEF ReloadStands, TypeOK
<1>4. RequestStands'
  BY RequestsKept, LiveGen
<1> QED
  BY <1>1, <1>2, <1>3, <1>4

LEMMA ParseInv == ASSUME NEW r \in Reloaders PROVE IInv /\ Parse(r) => IInv'
<1> SUFFICES ASSUME IInv, Parse(r) PROVE IInv'
  OBVIOUS
<1> USE DEF IInv, Parse, checkVars
<1>1. TypeOK'
  BY DEF TypeOK, requestVars
<1>2. mu = r /\ mu # NoOne
  BY BoundAssumption DEF ReloadStands
<1>3. NewestWins' /\ LiveWatched' /\ NoOrphanChecker'
  BY <1>2 DEF NewestWins, LiveWatched, NoOrphanChecker
<1>4. ReloadStands'
  BY <1>2 DEF ReloadStands, TypeOK
<1>5. RequestStands'
  BY RequestsKept, LiveGen
<1> QED
  BY <1>1, <1>3, <1>4, <1>5

LEMMA StopOldInv == ASSUME NEW r \in Reloaders PROVE IInv /\ StopOld(r) => IInv'
<1> SUFFICES ASSUME IInv, StopOld(r) PROVE IInv'
  OBVIOUS
<1> USE DEF IInv, StopOld
<1>1. TypeOK'
  BY DEF TypeOK, requestVars
<1>2. mu = r /\ mu # NoOne
  BY BoundAssumption DEF ReloadStands
<1>3. NewestWins' /\ LiveWatched' /\ NoOrphanChecker'
  BY <1>2 DEF NewestWins, LiveWatched, NoOrphanChecker
<1>4. ReloadStands'
  BY <1>2 DEF ReloadStands, TypeOK
<1>5. RequestStands'
  BY RequestsKept, LiveGen
<1> QED
  BY <1>1, <1>3, <1>4, <1>5

LEMMA StartNewInv == ASSUME NEW r \in Reloaders PROVE IInv /\ StartNew(r) => IInv'
<1> SUFFICES ASSUME IInv, StartNew(r) PROVE IInv'
  OBVIOUS
<1> USE BoundAssumption DEF IInv, StartNew
<1>1. /\ mu = r /\ mu # NoOne /\ read[r] = latest /\ owner = live /\ owner \in stopped
      /\ owner = built /\ built + 1 \in Gens /\ read[r] \in Configs \ Broken
      /\ stopped \subseteq 1 .. built
  BY DEF ReloadStands, TypeOK, Gens
<1>2. TypeOK'
  <2>1. /\ loop' \in [Gens -> [Providers -> {"none", "probing", "well", "ill", "cut",
                                             "waiting", "ended"}]]
        /\ config' \in [Gens -> Configs \ Broken]
    BY <1>1 DEF TypeOK, Launched
  <2>2. \A g \in Gens : \A p \in Providers :
          loop'[g][p] # "none" <=> g <= built' /\ p \in Members[config'[g]]
    <3> SUFFICES ASSUME NEW g \in Gens, NEW p \in Providers
                 PROVE loop'[g][p] # "none" <=> g <= built' /\ p \in Members[config'[g]]
      OBVIOUS
    <3>1. CASE g = built + 1
      BY <1>1, <3>1 DEF TypeOK, Launched, Gens
    <3>2. CASE g # built + 1
      BY <1>1, <3>2 DEF TypeOK, Gens
    <3> QED
      BY <3>1, <3>2
  <2>3. /\ built' \in Gens /\ owner' \in 1 .. built' /\ live' \in 1 .. built'
        /\ mine' \in [Reloaders -> Gens] /\ stopped' \in SUBSET (1 .. built')
    BY <1>1 DEF TypeOK, Gens
  <2>4. reload' \in [Reloaders -> {"idle", "locked", "parsed", "stopped", "started"}]
    BY DEF TypeOK
  <2>5. view' \in [Monitors -> 0 .. built']
    <3>1. view \in [Monitors -> 0 .. built] /\ view' = view /\ built' = built + 1
      BY DEF TypeOK
    <3>2. 0 .. built \subseteq 0 .. built + 1
      BY <1>1 DEF Gens
    <3> QED
      BY <3>1, <3>2
  <2> QED
    BY <2>1, <2>2, <2>3, <2>4, <2>5 DEF TypeOK, requestVars
<1>3. NewestWins' /\ LiveWatched'
  BY <1>1 DEF NewestWins, LiveWatched
<1>4. NoOrphanChecker'
  BY <1>1 DEF NoOrphanChecker, Gens
<1>5. ReloadStands'
  <2>1. \A x \in Reloaders : reload'[x] # "idle" <=> mu' = x
    BY <1>1 DEF ReloadStands, TypeOK
  <2>2. config'[owner'] = latest /\ owner' \notin stopped /\ mine'[r] = owner'
    BY <1>1 DEF TypeOK, Gens
  <2>3. \A x \in Reloaders : x # r => reload'[x] = "idle"
    BY <1>1, <2>1
  <2>4. reload'[r] = "started"
    BY DEF TypeOK
  <2> QED
    BY <1>1, <2>1, <2>2, <2>3, <2>4 DEF ReloadStands
<1>6. RequestStands'
  <2>1. \A g \in 1 .. live : config'[g] = config[g]
    BY <1>1 DEF TypeOK, Gens
  <2>2. UNCHANGED requestVars /\ live' = live
    OBVIOUS
  <2>3. TypeOK /\ RequestStands /\ live \in Gens /\ live <= live
    BY DEF TypeOK, Gens
  <2> QED
    BY <2>1, <2>2, <2>3, RequestsKept
<1> QED
  BY <1>2, <1>3, <1>4, <1>5, <1>6

LEMMA StoreInv == ASSUME NEW r \in Reloaders PROVE IInv /\ Store(r) => IInv'
<1> SUFFICES ASSUME IInv, Store(r) PROVE IInv'
  OBVIOUS
<1> USE BoundAssumption DEF IInv, Store, checkVars
<1>1. /\ mu = r /\ mu # NoOne /\ mine[r] = owner /\ owner \notin stopped
      /\ config[owner] = latest /\ owner = built /\ live <= owner /\ live' = owner
      /\ owner \in Gens
  BY DEF ReloadStands, TypeOK, Gens
<1>2. TypeOK'
  BY <1>1 DEF TypeOK, requestVars, Gens
<1>3. NewestWins' /\ LiveWatched' /\ NoOrphanChecker'
  BY <1>1 DEF NewestWins, LiveWatched, NoOrphanChecker
<1>4. ReloadStands'
  <2>1. \A x \in Reloaders : reload'[x] = "idle"
    BY <1>1 DEF ReloadStands, TypeOK
  <2> QED
    BY <1>1, <2>1 DEF ReloadStands
<1>5. RequestStands'
  BY <1>1, RequestsKept
<1> QED
  BY <1>2, <1>3, <1>4, <1>5

LEMMA StopInv == IInv /\ Stop => IInv'
<1> SUFFICES ASSUME IInv, Stop PROVE IInv'
  OBVIOUS
<1> USE DEF IInv, Stop, reloadVars
<1>1. TypeOK'
  BY DEF TypeOK, requestVars
<1>2. NewestWins' /\ LiveWatched' /\ NoOrphanChecker'
  BY DEF NewestWins, LiveWatched, NoOrphanChecker
<1>3. ReloadStands'
  BY DEF ReloadStands, TypeOK
<1>4. RequestStands'
  BY RequestsKept, LiveGen
<1> QED
  BY <1>1, <1>2, <1>3, <1>4

-----------------------------------------------------------------------------
(* So do the loops of the checkers, which only fill in statuses.           *)
LEMMA LoopInv ==
  ASSUME NEW g \in Gens, NEW p \in Providers, IInv,
         \/ Probed(g, p) \/ Report(g, p) \/ Panic(g, p)
         \/ TickerFires(g, p) \/ LoopEnds(g, p)
  PROVE  IInv'
<1>1. /\ UNCHANGED <<reloadVars, stopped, view, requestVars>>
      /\ proc' \in {proc, "crashed"}
  BY DEF Probed, Report, Panic, TickerFires, LoopEnds, checkVars
<1>2. TypeOK'
  <2> DEFINE Places == {"none", "probing", "well", "ill", "cut", "waiting", "ended"}
  <2>1. /\ loop \in [Gens -> [Providers -> Places]]
        /\ status \in [Gens -> [Providers -> {"unknown", "well", "ill", "cut"}]]
        /\ proc \in {"running", "stopping", "crashed"}
    BY DEF IInv, TypeOK
  <2>2. loop' = loop \/ (loop[g][p] # "none" /\ \E l \in Places \ {"none"} : SetLoop(g, p, l))
    BY DEF Probed, Report, Panic, TickerFires, LoopEnds, checkVars
  <2>3. loop' \in [Gens -> [Providers -> Places]]
    BY <2>1, <2>2 DEF SetLoop
  <2>4. ASSUME NEW h \in Gens, NEW x \in Providers
        PROVE  loop'[h][x] # "none" <=> loop[h][x] # "none"
    BY <2>1, <2>2 DEF SetLoop
  <2>5. status' \in [Gens -> [Providers -> {"unknown", "well", "ill", "cut"}]]
    <3>1. CASE Report(g, p)
      BY <2>1, <3>1 DEF Report
    <3>2. CASE status' = status
      BY <2>1, <3>2
    <3> QED
      BY <3>1, <3>2 DEF Probed, Panic, TickerFires, LoopEnds, checkVars
  <2> QED
    BY <1>1, <2>1, <2>3, <2>4, <2>5 DEF IInv, TypeOK, reloadVars, requestVars
<1>3. NewestWins' /\ LiveWatched' /\ NoOrphanChecker'
  BY <1>1 DEF IInv, NewestWins, LiveWatched, NoOrphanChecker, reloadVars
<1>4. ReloadStands'
  BY <1>1 DEF IInv, ReloadStands, reloadVars
<1>5. RequestStands'
  <2>1. UNCHANGED requestVars /\ live' = live /\ config' = config
    BY <1>1 DEF reloadVars
  <2>2. TypeOK /\ RequestStands
    BY DEF IInv
  <2>3. live \in Gens /\ live <= live
    BY <2>2, BoundAssumption DEF TypeOK, Gens
  <2> QED
    BY <2>1, <2>2, <2>3, RequestsKept
<1> QED
  BY <1>2, <1>3, <1>4, <1>5 DEF IInv

-----------------------------------------------------------------------------
(* GET /health changes nothing.                                            *)
LEMMA HealthInv ==
  ASSUME NEW m \in Monitors, IInv, HealthLoad(m) \/ HealthRead(m)
  PROVE  IInv'
<1>1. UNCHANGED <<reloadVars, checkVars, proc, requestVars>>
  BY DEF HealthLoad, HealthRead
<1>2. TypeOK'
  <2>1. view' \in [Monitors -> 0 .. built]
    BY BoundAssumption DEF IInv, TypeOK, HealthLoad, HealthRead, Gens
  <2> QED
    BY <1>1, <2>1 DEF IInv, TypeOK, reloadVars, checkVars, requestVars
<1>3. NewestWins' /\ LiveWatched' /\ NoOrphanChecker' /\ ReloadStands'
  BY <1>1 DEF IInv, NewestWins, LiveWatched, NoOrphanChecker, ReloadStands,
     reloadVars, checkVars
<1>4. RequestStands'
  BY <1>1 DEF IInv, RequestStands, Explains, Gives, TokenMap, reloadVars, requestVars
<1> QED
  BY <1>2, <1>3, <1>4 DEF IInv

-----------------------------------------------------------------------------
(* And so does a request: what it answers is what the generation it loaded *)
(* answers.                                                                *)
LEMMA RequestInv ==
  ASSUME NEW q \in Requests, IInv,
         Send(q) \/ Route(q) \/ Authorise(q) \/ Forward(q)
  PROVE  IInv'
<1>1. UNCHANGED <<reloadVars, checkVars, view, proc>>
  BY DEF Send, Route, Authorise, Forward
<1>2. TypeOK'
  <2>1. /\ pc' \in [Requests -> {"unsent", "sent", "routed", "authorised", "done"}]
        /\ answer' \in [Requests -> {"none", "unauthorized", "limited", "unknown", "forwarded"}]
    BY DEF IInv, TypeOK, Send, Route, Authorise, Forward, Answer
  <2>2. since' \in [Requests -> Gens] /\ snap' \in [Requests -> Gens]
    <3>1. since \in [Requests -> Gens] /\ snap \in [Requests -> Gens] /\ live \in Gens
      BY LiveGen DEF IInv, TypeOK
    <3> QED
      BY <3>1 DEF Send, Route, Authorise, Forward
  <2>3. ask' \in [Requests -> [token : Tokens, provider : Providers]]
    BY DEF IInv, TypeOK, Send, Route, Authorise, Forward
  <2> QED
    BY <1>1, <2>1, <2>2, <2>3 DEF IInv, TypeOK, reloadVars, checkVars
<1>3. NewestWins' /\ LiveWatched' /\ NoOrphanChecker'
  BY <1>1 DEF IInv, NewestWins, LiveWatched, NoOrphanChecker, reloadVars, checkVars
<1>4. ReloadStands'
  BY <1>1 DEF IInv, ReloadStands, reloadVars, checkVars
<1>5. RequestStands'
  <2> SUFFICES ASSUME NEW x \in Requests
               PROVE  /\ since'[x] <= live /\ snap'[x] <= live
                      /\ pc'[x] \in {"routed", "authorised", "done"} => since'[x] <= snap'[x]
                      /\ pc'[x] = "authorised" => ask'[x].token \in TokenMap(config[snap'[x]])
                      /\ pc'[x] = "done" => Explains(snap[x], x)'
    BY <1>1 DEF RequestStands, reloadVars, TokenMap, Explains, Gives
  <2>1. CASE x # q
    <3>1. /\ pc'[x] = pc[x] /\ since'[x] = since[x] /\ snap'[x] = snap[x]
          /\ answer'[x] = answer[x] /\ ask'[x] = ask[x]
      BY <2>1 DEF IInv, TypeOK, Send, Route, Authorise, Forward, Answer
    <3>2. Explains(snap[x], x) => Explains(snap[x], x)'
      BY <1>1, <3>1 DEF Explains, Gives, reloadVars, TokenMap
    <3> QED
      BY <3>1, <3>2 DEF IInv, RequestStands
  <2>2. CASE x = q /\ (Send(q) \/ Route(q))
    BY <1>1, <2>2, BoundAssumption
    DEF IInv, TypeOK, RequestStands, Send, Route, Gens, reloadVars
  <2>3. CASE x = q /\ Authorise(q)
    <3>1. /\ since' = since /\ snap' = snap /\ config' = config /\ ask' = ask
          /\ pc[q] = "routed" /\ since[q] <= snap[q] /\ snap[q] <= live /\ since[q] <= live
      BY <1>1, <2>3 DEF Authorise, IInv, RequestStands, reloadVars
    <3>2. CASE pc'[q] = "authorised"
      BY <2>3, <3>1, <3>2 DEF Authorise, Answer, IInv, TypeOK
    <3>3. CASE pc'[q] = "done"
      <4>1. Explains(snap[q], q)'
        BY <2>3, <3>1, <3>3 DEF Authorise, Answer, IInv, TypeOK, Explains, Gives, TokenMap
      <4> QED
        BY <2>3, <3>1, <3>3, <4>1
    <3> QED
      BY <2>3, <3>2, <3>3 DEF Authorise, Answer, IInv, TypeOK
  <2>4. CASE x = q /\ Forward(q)
    <3>1. /\ since' = since /\ snap' = snap /\ config' = config /\ ask' = ask
          /\ pc[q] = "authorised" /\ since[q] <= snap[q] /\ snap[q] <= live
          /\ since[q] <= live /\ ask[q].token \in TokenMap(config[snap[q]])
      BY <1>1, <2>4 DEF Forward, IInv, RequestStands, reloadVars
    <3>2. Explains(snap[q], q)'
      BY <2>4, <3>1 DEF Forward, Answer, IInv, TypeOK, Explains, Gives, TokenMap
    <3>3. pc'[q] = "done"
      BY <2>4 DEF Forward, Answer, IInv, TypeOK
    <3> QED
      BY <2>4, <3>1, <3>2, <3>3
  <2> QED
    BY <2>1, <2>2, <2>3, <2>4
<1> QED
  BY <1>2, <1>3, <1>4, <1>5 DEF IInv

-----------------------------------------------------------------------------
LEMMA StutterInv == IInv /\ UNCHANGED vars => IInv'
<1> SUFFICES ASSUME IInv, UNCHANGED vars PROVE IInv'
  OBVIOUS
<1> USE DEF IInv, vars, reloadVars, checkVars, requestVars
<1>1. TypeOK'
  BY DEF TypeOK
<1>2. NewestWins' /\ LiveWatched' /\ NoOrphanChecker' /\ ReloadStands'
  BY DEF NewestWins, LiveWatched, NoOrphanChecker, ReloadStands
<1>3. RequestStands'
  BY DEF RequestStands, Explains, Gives, TokenMap
<1> QED
  BY <1>1, <1>2, <1>3

(* IInv is an invariant: reloads are serialised, the checker in charge is  *)
(* known at every point of one, and requests know a single generation.     *)
THEOREM Invariance == Spec => []IInv
<1>1. IInv /\ [Next]_vars => IInv'
  BY EditFileInv, StopInv, LockInv, ReloadFailsInv, ParseInv, StopOldInv, StartNewInv,
     StoreInv, LoopInv, HealthInv, RequestInv, StutterInv
  DEF Next
<1> QED
  BY InitInv, <1>1, PTL DEF Spec

(* Types, and loops for exactly the configured providers.                  *)
THEOREM TypeCorrect == Spec => []TypeOK
<1>1. IInv => TypeOK
  BY DEF IInv
<1> QED
  BY Invariance, <1>1, PTL

(* Between reloads the configuration parsed last is the live one.          *)
THEOREM LatestLive == Spec => []NewestWins
<1>1. IInv => NewestWins
  BY DEF IInv
<1> QED
  BY Invariance, <1>1, PTL

(* Between reloads the live generation's checker is in charge and runs.    *)
THEOREM CheckerInCharge == Spec => []LiveWatched
<1>1. IInv => LiveWatched
  BY DEF IInv
<1> QED
  BY Invariance, <1>1, PTL

(* Only the probes of a stopped checker are cut off.                       *)
CutKnown == \A g \in Gens : \A p \in Providers :
              "cut" \in {loop[g][p], status[g][p]} => g \in stopped

LEMMA CutStep == ASSUME TypeOK, CutKnown, [Next]_vars PROVE CutKnown'
<1> USE DEF TypeOK, CutKnown
<1>1. ASSUME NEW r \in Reloaders, StartNew(r) PROVE CutKnown'
  <2> SUFFICES ASSUME NEW g \in Gens, NEW p \in Providers,
                      "cut" \in {loop'[g][p], status'[g][p]}
               PROVE  g \in stopped'
    OBVIOUS
  <2>1. /\ loop' = [loop EXCEPT ![built + 1] = Launched(read[r])]
        /\ status' = status /\ stopped' = stopped
    BY <1>1 DEF StartNew
  <2>2. loop'[g] = Launched(read[r]) \/ loop'[g] = loop[g]
    BY <2>1
  <2>3. Launched(read[r])[p] # "cut"
    BY DEF Launched
  <2>4. "cut" \in {loop[g][p], status[g][p]}
    BY <2>1, <2>2, <2>3
  <2> QED
    BY <2>1, <2>4
<1>2. CASE Stop \/ \E r \in Reloaders : StopOld(r)
  BY <1>2 DEF Stop, StopOld
<1>3. ASSUME NEW g \in Gens, NEW p \in Providers, Probed(g, p) PROVE CutKnown'
  <2>1. PICK l \in {"well", "ill", "cut"} :
          loop' = [loop EXCEPT ![g][p] = l] /\ (l = "cut" => g \in stopped)
    BY <1>3 DEF Probed, SetLoop
  <2>2. status' = status /\ stopped' = stopped
    BY <1>3 DEF Probed
  <2> SUFFICES ASSUME NEW h \in Gens, NEW x \in Providers,
                      loop'[h][x] = "cut" \/ status'[h][x] = "cut"
               PROVE  h \in stopped
    BY <2>2
  <2>3. loop'[h][x] = loop[h][x] \/ (h = g /\ loop'[h][x] = l)
    BY <2>1
  <2> QED
    BY <2>1, <2>2, <2>3
<1>4. ASSUME NEW g \in Gens, NEW p \in Providers, Report(g, p) PROVE CutKnown'
  <2>1. /\ loop' = [loop EXCEPT ![g][p] = "waiting"]
        /\ status' = [status EXCEPT ![g][p] = loop[g][p]]
        /\ stopped' = stopped
    BY <1>4 DEF Report, SetLoop
  <2> SUFFICES ASSUME NEW h \in Gens, NEW x \in Providers,
                      loop'[h][x] = "cut" \/ status'[h][x] = "cut"
               PROVE  h \in stopped
    BY <2>1
  <2>2. loop'[h][x] = loop[h][x] \/ loop'[h][x] = "waiting"
    BY <2>1
  <2>3. status'[h][x] = status[h][x] \/ status'[h][x] = loop[h][x]
    BY <2>1
  <2>4. loop[h][x] = "cut" \/ status[h][x] = "cut"
    BY <2>2, <2>3
  <2> QED
    BY <2>4
<1>5. ASSUME NEW g \in Gens, NEW p \in Providers, NEW l \in {"probing", "ended"},
             SetLoop(g, p, l), UNCHANGED <<status, stopped>>
      PROVE  CutKnown'
  <2> SUFFICES ASSUME NEW h \in Gens, NEW x \in Providers,
                      loop'[h][x] = "cut" \/ status'[h][x] = "cut"
               PROVE  h \in stopped
    BY <1>5
  <2>1. loop'[h][x] = loop[h][x] \/ loop'[h][x] = l
    BY <1>5 DEF SetLoop
  <2>2. loop[h][x] = "cut" \/ status[h][x] = "cut"
    BY <1>5, <2>1
  <2> QED
    BY <2>2
<1>6. CASE UNCHANGED <<loop, status, stopped>>
  BY <1>6
<1> QED
  BY <1>1, <1>2, <1>3, <1>4, <1>5, <1>6 DEF Next, EditFile, Lock, ReloadFails, Parse, Store,
     TickerFires, LoopEnds, Panic, HealthLoad, HealthRead, Send, Route, Authorise, Forward,
     vars, checkVars

(* A GET /health that has loaded what is still live shows nothing of a     *)
(* probe that was cut off, unless a reload is under way.                   *)
THEOREM HealthAfterReload == Spec => []HealthTruthful
<1>1. Init => CutKnown
  BY BoundAssumption DEF Init, CutKnown, Launched, Unchecked, Gens
<1>2. LiveWatched /\ TypeOK /\ CutKnown => HealthTruthful
  <2> SUFFICES ASSUME LiveWatched, TypeOK, CutKnown, mu = NoOne, proc = "running",
                      NEW m \in Monitors, view[m] = live, NEW p \in Members[config[live]]
               PROVE  status[live][p] # "cut"
    BY DEF HealthTruthful, HealthAnswer
  <2>1. live \in Gens /\ live \notin stopped
    BY BoundAssumption DEF LiveWatched, TypeOK, Gens
  <2>2. p \in Providers
    BY <2>1, ConfigAssumption DEF TypeOK
  <2> QED
    BY <2>1, <2>2 DEF CutKnown
<1> QED
  BY <1>1, <1>2, CutStep, TypeCorrect, CheckerInCharge, PTL DEF Spec

(* No reload leaves a checker running that nothing will stop.              *)
THEOREM NoCheckerLeaks == Spec => []NoOrphanChecker
<1>1. IInv => NoOrphanChecker
  BY DEF IInv
<1> QED
  BY Invariance, <1>1, PTL

(* Every answer is that of one configuration live during the request.      *)
THEOREM SnapshotConsistent == Spec => []OneConfigPerAnswer
<1>1. IInv => OneConfigPerAnswer
  <2> SUFFICES ASSUME IInv, NEW q \in Requests, pc[q] = "done"
               PROVE  \E g \in since[q] .. live : Explains(g, q)
    BY DEF OneConfigPerAnswer
  <2>1. snap[q] \in since[q] .. live /\ Explains(snap[q], q)
    BY BoundAssumption DEF IInv, TypeOK, RequestStands, Gens
  <2> QED
    BY <2>1
<1> QED
  BY Invariance, <1>1, PTL

(* Reloads only ever move the live generation forward.                     *)
THEOREM ForwardOnly == Spec => NeverBack
<1>1. IInv /\ [Next]_vars => [live' >= live]_vars
  <2> SUFFICES ASSUME IInv, [Next]_vars PROVE live' >= live
    OBVIOUS
  <2>1. live \in Nat
    BY BoundAssumption DEF IInv, TypeOK, Gens
  <2>2. ASSUME NEW r \in Reloaders, Store(r) PROVE live' >= live
    BY <2>1, <2>2, BoundAssumption DEF Store, IInv, ReloadStands, TypeOK, Gens
  <2>3. CASE live' = live
    BY <2>1, <2>3
  <2> QED
    BY <2>2, <2>3 DEF Next, EditFile, Stop, Lock, ReloadFails, Parse, StopOld, StartNew,
       Probed, Report, Panic, TickerFires, LoopEnds, HealthLoad, HealthRead,
       Send, Route, Authorise, Forward, vars, reloadVars
<1> QED
  BY Invariance, <1>1, PTL DEF Spec, NeverBack

-----------------------------------------------------------------------------
LEMMA RegisterInit == Init => Register!Init
<1> SUFFICES ASSUME Init PROVE Register!Init
  OBVIOUS
<1>1. config[live] = Initial /\ \A q \in Requests : config[snap[q]] = Initial
  BY BoundAssumption DEF Init, Gens
<1> QED
  BY <1>1 DEF Init, Register!Init

(* What a request has seen stays what it is until it looks.                *)
LEMMA ViewsKept ==
  ASSUME IInv, snap' = snap, pc' = pc, live' = live,
         \A g \in 1 .. live : config'[g] = config[g]
  PROVE  /\ config'[live'] = config[live]
         /\ [q \in Requests |-> config'[snap'[q]]] = [q \in Requests |-> config[snap[q]]]
<1>1. live \in 1 .. live /\ \A q \in Requests : snap[q] \in 1 .. live
  BY BoundAssumption DEF IInv, TypeOK, RequestStands, Gens
<1> QED
  BY <1>1

(* Of a reload's steps only Parse and Store show.                          *)
LEMMA ReloadMaps ==
  ASSUME IInv, NEW r \in Reloaders,
         \/ Lock(r) \/ ReloadFails(r) \/ Parse(r) \/ StopOld(r) \/ StartNew(r) \/ Store(r)
  PROVE  Register!Take \/ Register!Publish \/ UNCHANGED Register!vars
<1> USE DEF requestVars
<1>1. CASE Lock(r) \/ ReloadFails(r) \/ StopOld(r)
  BY <1>1 DEF Lock, ReloadFails, StopOld, Register!vars
<1>2. CASE Parse(r)
  <2>1. config[live] = latest
    BY <1>2, BoundAssumption DEF Parse, IInv, ReloadStands, NewestWins
  <2>2. UNCHANGED <<config, live, pc, ask, snap, answer>>
    BY <1>2 DEF Parse
  <2>3. latest = config[live] /\ file \notin Broken /\ latest' = file /\ file' = file
    BY <1>2, <2>1 DEF Parse
  <2>4. Register!Take
    BY <2>2, <2>3 DEF Register!Take
  <2> QED
    BY <2>4
<1>3. CASE StartNew(r)
  <2>1. \A g \in 1 .. live : config'[g] = config[g]
    BY <1>3, BoundAssumption DEF StartNew, IInv, TypeOK, Gens
  <2>2. UNCHANGED <<file, latest, live, pc, ask, snap, answer>>
    BY <1>3 DEF StartNew
  <2>3. /\ config'[live'] = config[live]
        /\ [q \in Requests |-> config'[snap'[q]]] = [q \in Requests |-> config[snap[q]]]
    BY <2>1, <2>2, ViewsKept
  <2> QED
    BY <2>2, <2>3 DEF Register!vars
<1>4. CASE Store(r)
  <2>1. config'[live'] = latest
    BY <1>4 DEF Store, IInv, ReloadStands
  <2>2. UNCHANGED <<file, latest, config, pc, ask, snap, answer>>
    BY <1>4 DEF Store
  <2> QED
    BY <2>1, <2>2 DEF Register!Publish
<1> QED
  BY <1>1, <1>2, <1>3, <1>4

(* Of a request's steps only Send, Route and the one that answers it show. *)
LEMMA RequestMaps ==
  ASSUME IInv, NEW q \in Requests, Send(q) \/ Route(q) \/ Authorise(q) \/ Forward(q)
  PROVE  \/ Register!Send(q) \/ Register!Look(q) \/ Register!Reply(q)
         \/ UNCHANGED Register!vars
<1> DEFINE at == [x \in Requests |-> IF pc[x] \in {"routed", "authorised"} THEN "looked" ELSE pc[x]]
           seen == [x \in Requests |-> config[snap[x]]]
<1>1. UNCHANGED <<file, latest, live, config>> /\ ask' = ask
  BY DEF Send, Route, Authorise, Forward, reloadVars
<1>2. /\ pc \in [Requests -> {"unsent", "sent", "routed", "authorised", "done"}]
      /\ snap \in [Requests -> Gens] /\ DOMAIN answer = Requests
  BY DEF IInv, TypeOK
<1>3. CASE Send(q)
  <2>1. at[q] = "unsent" /\ at' = [at EXCEPT ![q] = "sent"]
    BY <1>2, <1>3 DEF Send
  <2>2. seen' = seen /\ answer' = answer
    BY <1>1, <1>3 DEF Send
  <2> QED
    BY <1>1, <2>1, <2>2 DEF Register!Send
<1>4. CASE Route(q)
  <2>1. at[q] = "sent" /\ at' = [at EXCEPT ![q] = "looked"]
    BY <1>2, <1>4 DEF Route
  <2>2. seen' = [seen EXCEPT ![q] = config[live]] /\ answer' = answer
    BY <1>1, <1>2, <1>4 DEF Route
  <2> QED
    BY <1>1, <2>1, <2>2 DEF Register!Look
<1>5. CASE Authorise(q) /\ pc' = [pc EXCEPT ![q] = "authorised"] /\ UNCHANGED answer
  <2>1. at' = at
    BY <1>2, <1>5 DEF Authorise
  <2>2. seen' = seen
    BY <1>1, <1>5 DEF Authorise
  <2> QED
    BY <1>1, <1>5, <2>1, <2>2 DEF Register!vars
<1>6. ASSUME NEW a, Answer(q, a), snap' = snap, pc[q] \in {"routed", "authorised"},
             Gives(config[snap[q]], ask[q], a)
      PROVE  Register!Reply(q)
  <2>1. at[q] = "looked" /\ at' = [at EXCEPT ![q] = "done"]
    BY <1>2, <1>6 DEF Answer
  <2>2. answer'[q] = a /\ answer' = [answer EXCEPT ![q] = answer'[q]]
    BY <1>2, <1>6 DEF Answer
  <2>3. seen' = seen /\ seen[q] = config[snap[q]]
    BY <1>1, <1>6
  <2> QED
    BY <1>1, <1>6, <2>1, <2>2, <2>3 DEF Register!Reply
<1>7. CASE Authorise(q) /\ ~ (pc' = [pc EXCEPT ![q] = "authorised"] /\ UNCHANGED answer)
  <2>1. snap' = snap /\ pc[q] = "routed"
    BY <1>7 DEF Authorise
  <2>2. PICK a \in {"unauthorized", "limited"} :
          Answer(q, a) /\ Gives(config[snap[q]], ask[q], a)
    BY <1>7 DEF Authorise, Gives
  <2> QED
    BY <1>6, <2>1, <2>2
<1>8. CASE Forward(q)
  <2>1. snap' = snap /\ pc[q] = "authorised" /\ ask[q].token \in TokenMap(config[snap[q]])
    BY <1>8 DEF Forward, IInv, RequestStands
  <2>2. PICK a \in {"forwarded", "unknown"} :
          Answer(q, a) /\ Gives(config[snap[q]], ask[q], a)
    BY <1>8, <2>1 DEF Forward, Gives
  <2> QED
    BY <1>6, <2>1, <2>2
<1> QED
  BY <1>3, <1>4, <1>5, <1>7, <1>8

LEMMA RegisterStep == ASSUME IInv, [Next]_vars PROVE [Register!Next]_(Register!vars)
<1>1. CASE EditFile
  BY <1>1 DEF EditFile, requestVars, Register!Next, Register!Edit
<1>2. CASE UNCHANGED <<reloadVars, requestVars>>
  BY <1>2 DEF reloadVars, requestVars, Register!vars
<1>3. CASE Stop \/ UNCHANGED vars \/ \E g \in Gens, p \in Providers :
             Probed(g, p) \/ Report(g, p) \/ Panic(g, p) \/ TickerFires(g, p) \/ LoopEnds(g, p)
  BY <1>2, <1>3 DEF Stop, vars, Probed, Report, Panic, TickerFires, LoopEnds
<1>4. ASSUME NEW r \in Reloaders,
             \/ Lock(r) \/ ReloadFails(r) \/ Parse(r) \/ StopOld(r) \/ StartNew(r) \/ Store(r)
      PROVE  [Register!Next]_(Register!vars)
  BY <1>4, ReloadMaps DEF Register!Next
<1>5. ASSUME NEW q \in Requests, Send(q) \/ Route(q) \/ Authorise(q) \/ Forward(q)
      PROVE  [Register!Next]_(Register!vars)
  BY <1>5, RequestMaps DEF Register!Next
<1>6. ASSUME NEW m \in Monitors, HealthLoad(m) \/ HealthRead(m)
      PROVE  [Register!Next]_(Register!vars)
  BY <1>2, <1>6 DEF HealthLoad, HealthRead
<1> QED
  BY <1>1, <1>3, <1>4, <1>5, <1>6 DEF Next

(* Server implements ConfigRegister.                                       *)
THEOREM Implementation == Spec => ImplementsRegister
<1> QED
  BY RegisterInit, RegisterStep, Invariance, PTL DEF Spec, ImplementsRegister, Register!Spec
=============================================================================
