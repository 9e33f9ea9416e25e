-------------------------- MODULE LifecycleProofs --------------------------
(***************************************************************************)
(* Proofs about Lifecycle, for any number of requests in flight and of     *)
(* signals, with telemetry or without.                                     *)
(***************************************************************************)
EXTENDS Lifecycle, TLAPS

(* Types, the truth values apart from the rest.                            *)
Flags == /\ listening \in BOOLEAN /\ closing \in BOOLEAN /\ notified \in BOOLEAN
         /\ expired \in BOOLEAN /\ tracer \in BOOLEAN /\ meter \in BOOLEAN
         /\ hup \in BOOLEAN /\ term \in BOOLEAN

Places ==
  /\ main \in {"binding", "serving", "closed", "exited", "killed", "fatal"}
  /\ sigCh \in {<<>>, <<"HUP">>, <<"TERM">>}
  /\ sigLoop \in {"starting", "waiting", "reloading", "traces", "flushing", "metrics",
                  "closing", "draining", "done"}
  /\ req \in [Requests -> {"none", "connected", "closed", "active", "recorded",
                          "finished", "aborted", "cut"}]
  /\ span \in [Requests -> {"none", "open", "taken", "exported", "lost"}]

Tallies == /\ counted \in [Requests -> {"no", "added", "exported", "lost"}]
           /\ sent \in 0 .. MaxSignals

LEMMA TypeParts == TypeOK <=> Flags /\ Places /\ Tallies
BY DEF TypeOK, Flags, Places, Tallies

LEMMA InitInv == Init => IInv
<1> SUFFICES ASSUME Init PROVE IInv
  OBVIOUS
<1>1. Flags
  BY LifecycleAssumption, Zenon DEF Init, Flags
<1>2. Places
  BY DEF Init, Places
<1>3. Tallies
  BY LifecycleAssumption DEF Init, Tallies
<1>4. DrainHolds
  BY DEF Init, DrainHolds
<1>5. CutOnlyWhenExpired
  BY DEF Init, CutOnlyWhenExpired
<1>6. TracesFirst /\ Counted /\ Unended /\ HupPending
  BY DEF Init, TracesFirst, Counted, Shown, Unended, Open, InFlight, HupPending
<1> QED
  BY <1>1, <1>2, <1>3, <1>4, <1>5, <1>6, TypeParts DEF IInv

(* Every step keeps the types.                                             *)
LEMMA FlagsStep == Flags /\ [Next]_vars => Flags'
<1> SUFFICES ASSUME Flags, [Next]_vars PROVE Flags'
  OBVIOUS
<1> USE Zenon DEF Flags, procVars, otelVars, signalVars
<1>1. ASSUME Notify \/ Reload \/ ReloadReturns \/ BeginShutdown \/ ContextExpires PROVE Flags'
  BY <1>1 DEF Notify, Reload, ReloadReturns, BeginShutdown, ContextExpires
<1>2. ASSUME CloseTraces \/ FlushTraces \/ CloseMetrics \/ CloseListener \/ Drained PROVE Flags'
  BY <1>2 DEF CloseTraces, FlushTraces, CloseMetrics, CloseListener, Drained
<1>3. ASSUME Bind \/ ServeReturns \/ Exit PROVE Flags'
  BY <1>3 DEF Bind, ServeReturns, Exit
<1>4. ASSUME NEW s \in {"HUP", "TERM"}, SignalKills(s) \/ Signal(s) PROVE Flags'
  BY <1>4 DEF SignalKills, Signal, Sent
<1>5. ASSUME NEW q \in Requests, Arrive(q) \/ Record(q) \/ Finish(q) \/ Abort(q) PROVE Flags'
  BY <1>5 DEF Arrive, Record, Finish, Abort
<1>6. ASSUME NEW q \in Requests, Connect(q) \/ CloseIdle(q) PROVE Flags'
  BY <1>6 DEF Connect, CloseIdle
<1>7. ASSUME BatchLeaves \/ ReaderExports PROVE Flags'
  BY <1>7 DEF BatchLeaves, ReaderExports
<1>8. CASE UNCHANGED vars
  BY <1>8 DEF vars
<1> QED
  BY <1>1, <1>2, <1>3, <1>4, <1>5, <1>6, <1>7, <1>8 DEF Next

LEMMA PlacesStep == Places /\ [Next]_vars => Places'
<1> SUFFICES ASSUME Places, [Next]_vars PROVE Places'
  OBVIOUS
<1> USE DEF Places, procVars, otelVars, signalVars
<1>1. ASSUME Notify \/ Reload \/ ReloadReturns \/ BeginShutdown \/ ContextExpires PROVE Places'
  BY <1>1 DEF Notify, Reload, ReloadReturns, BeginShutdown, ContextExpires, Received
<1>2. ASSUME CloseTraces \/ FlushTraces \/ CloseMetrics \/ CloseListener \/ Drained PROVE Places'
  BY <1>2 DEF CloseTraces, FlushTraces, SpansLeave, CloseMetrics, CloseListener, Drained
<1>3. ASSUME Bind \/ ServeReturns \/ Exit PROVE Places'
  BY <1>3 DEF Bind, ServeReturns, Exit, Cut, InFlight
<1>4. ASSUME NEW s \in {"HUP", "TERM"}, SignalKills(s) \/ Signal(s) PROVE Places'
  BY <1>4 DEF SignalKills, Signal, Sent
<1>5. ASSUME NEW q \in Requests, Arrive(q) \/ Record(q) \/ Finish(q) \/ Abort(q) PROVE Places'
  BY <1>5 DEF Arrive, Record, Finish, Abort, EndSpan
<1>6. ASSUME NEW q \in Requests, Connect(q) \/ CloseIdle(q) PROVE Places'
  BY <1>6 DEF Connect, CloseIdle
<1>7. ASSUME BatchLeaves \/ ReaderExports PROVE Places'
  BY <1>7 DEF BatchLeaves, ReaderExports, SpansLeave
<1>8. CASE UNCHANGED vars
  BY <1>8 DEF vars
<1> QED
  BY <1>1, <1>2, <1>3, <1>4, <1>5, <1>6, <1>7, <1>8 DEF Next

LEMMA TalliesStep == Tallies /\ [Next]_vars => Tallies'
<1> SUFFICES ASSUME Tallies, [Next]_vars PROVE Tallies'
  OBVIOUS
<1>1. ASSUME NEW s \in {"HUP", "TERM"}, Sent(s), UNCHANGED counted PROVE Tallies'
  BY <1>1, LifecycleAssumption DEF Tallies, Sent
<1>2. ASSUME NEW q \in Requests, NEW c \in {"no", "added"},
             counted' = [counted EXCEPT ![q] = c], UNCHANGED sent
      PROVE  Tallies'
  BY <1>2 DEF Tallies
<1>3. ASSUME NEW outcome \in {"exported", "lost"}, CountsLeave(outcome), UNCHANGED sent
      PROVE  Tallies'
  BY <1>3 DEF Tallies, CountsLeave
<1>4. CASE UNCHANGED <<counted, sent>>
  BY <1>4 DEF Tallies
<1> QED
  BY <1>1, <1>2, <1>3, <1>4
  DEF Next, Notify, Reload, ReloadReturns, BeginShutdown, ContextExpires, CloseTraces,
      FlushTraces, CloseMetrics, CloseListener, Drained, Bind, ServeReturns, Exit,
      BatchLeaves, ReaderExports, Connect, CloseIdle,
      SignalKills, Signal, Arrive, Record, Finish, Abort, vars, procVars, otelVars, signalVars

LEMMA TypeStep == TypeOK /\ [Next]_vars => TypeOK'
BY TypeParts, FlagsStep, PlacesStep, TalliesStep, PTL

(* Every step keeps the drain's promise.                                   *)
LEMMA DrainStep == IInv /\ [Next]_vars => DrainHolds' /\ CutOnlyWhenExpired'
<1> SUFFICES ASSUME IInv, [Next]_vars PROVE DrainHolds' /\ CutOnlyWhenExpired'
  OBVIOUS
<1> USE DEF IInv, TypeOK, DrainHolds, CutOnlyWhenExpired, Open, InFlight,
            procVars, otelVars, signalVars
<1>1. ASSUME Notify \/ Reload \/ ReloadReturns \/ BeginShutdown \/ ContextExpires
      PROVE  DrainHolds' /\ CutOnlyWhenExpired'
  BY <1>1 DEF Notify, Reload, ReloadReturns, BeginShutdown, ContextExpires, Received
<1>2. ASSUME CloseTraces \/ FlushTraces \/ CloseMetrics \/ CloseListener \/ Drained
      PROVE  DrainHolds' /\ CutOnlyWhenExpired'
  BY <1>2 DEF CloseTraces, FlushTraces, CloseMetrics, CloseListener, Drained
<1>3. ASSUME Bind \/ ServeReturns \/ BatchLeaves \/ ReaderExports
      PROVE  DrainHolds' /\ CutOnlyWhenExpired'
  BY <1>3 DEF Bind, ServeReturns, BatchLeaves, ReaderExports
<1>4. CASE Exit
  BY <1>4 DEF Exit, Cut
<1>5. ASSUME NEW s \in {"HUP", "TERM"}, SignalKills(s) \/ Signal(s)
      PROVE  DrainHolds' /\ CutOnlyWhenExpired'
  BY <1>5 DEF SignalKills, Signal, Sent
<1>6. ASSUME NEW q \in Requests, Connect(q) PROVE DrainHolds' /\ CutOnlyWhenExpired'
  BY <1>6 DEF Connect
<1>7. ASSUME NEW q \in Requests, CloseIdle(q) PROVE DrainHolds' /\ CutOnlyWhenExpired'
  BY <1>7 DEF CloseIdle
<1>8. ASSUME NEW q \in Requests, Arrive(q) PROVE DrainHolds' /\ CutOnlyWhenExpired'
  BY <1>8 DEF Arrive
<1>9. ASSUME NEW q \in Requests, Record(q) \/ Finish(q) \/ Abort(q)
      PROVE  DrainHolds' /\ CutOnlyWhenExpired'
  BY <1>9 DEF Record, Finish, Abort
<1>10. CASE UNCHANGED vars
  BY <1>10 DEF vars
<1> QED
  BY <1>1, <1>2, <1>3, <1>4, <1>5, <1>6, <1>7, <1>8, <1>9, <1>10 DEF Next

-----------------------------------------------------------------------------
LEMMA TracesFirstStep == ASSUME TypeOK, TracesFirst, [Next]_vars PROVE TracesFirst'
<1> USE DEF TypeOK, TracesFirst, procVars, otelVars, signalVars
<1>1. ASSUME Notify \/ Reload \/ ReloadReturns \/ BeginShutdown \/ ContextExpires PROVE TracesFirst'
  BY <1>1 DEF Notify, Reload, ReloadReturns, BeginShutdown, ContextExpires, Received
<1>2. ASSUME CloseTraces \/ FlushTraces \/ CloseMetrics \/ CloseListener \/ Drained
      PROVE  TracesFirst'
  BY <1>2 DEF CloseTraces, FlushTraces, CloseMetrics, CloseListener, Drained
<1>3. CASE UNCHANGED <<tracer, meter, sigLoop>>
  BY <1>3
<1> QED
  BY <1>1, <1>2, <1>3 DEF Next, Bind, ServeReturns, Exit, BatchLeaves, ReaderExports,
     SignalKills, Signal, Connect, CloseIdle, Arrive, Record, Finish, Abort, vars

LEMMA UnendedStep == ASSUME TypeOK, Unended, [Next]_vars PROVE Unended'
<1> USE DEF TypeOK, Unended, Open, InFlight, procVars, otelVars, signalVars
<1>1. ASSUME NEW q \in Requests, Arrive(q) \/ Record(q) \/ Finish(q) \/ Abort(q) PROVE Unended'
  BY <1>1 DEF Arrive, Record, Finish, Abort, EndSpan
<1>2. CASE Exit \/ FlushTraces \/ BatchLeaves
  BY <1>2 DEF Exit, Cut, FlushTraces, BatchLeaves, SpansLeave
<1>3. CASE UNCHANGED <<req, span>>
  BY <1>3
<1>4. ASSUME NEW q \in Requests, Connect(q) \/ CloseIdle(q) PROVE Unended'
  BY <1>4 DEF Connect, CloseIdle
<1> QED
  BY <1>1, <1>2, <1>3, <1>4 DEF Next, Notify, Reload, ReloadReturns, BeginShutdown, ContextExpires,
     CloseTraces, CloseMetrics, CloseListener, Drained, Bind, ServeReturns, ReaderExports,
     SignalKills, Signal, vars

LEMMA CountedStep ==
  ASSUME TypeOK, TracesFirst, Unended, Counted, [Next]_vars PROVE Counted'
<1> DEFINE Due(q) == \/ req[q] = "recorded" /\ tracer
                     \/ req[q] = "finished" /\ span[q] \in {"taken", "exported"}
           Done(q) == counted[q] \in {"exported", IF meter THEN "added" ELSE "lost"}
<1> SUFFICES ASSUME NEW q \in Requests, Due(q)' PROVE Done(q)'
  BY DEF Counted, Shown, Tallied
<1>1. Due(q) => Done(q)
  BY DEF Counted, Shown, Tallied
<1> USE DEF TypeOK, procVars, otelVars, signalVars
<1>2. ASSUME req'[q] = req[q], counted'[q] = counted[q], meter' = meter, tracer' => tracer,
             span[q] \in {"taken", "exported"} \/ span'[q] = span[q]
      PROVE  Done(q)'
  BY <1>1, <1>2
<1>3. ASSUME NEW r \in Requests, Record(r) PROVE Done(q)'
  <2>1. CASE r = q
    <3>1. req'[q] = "recorded" /\ tracer' = tracer /\ meter' = meter
      BY <1>3, <2>1 DEF Record
    <3>2. counted'[q] = IF meter THEN "added" ELSE "no"
      BY <1>3, <2>1 DEF Record
    <3> QED
      BY <3>1, <3>2 DEF TracesFirst
  <2>2. CASE r # q
    BY <1>2, <1>3, <2>2 DEF Record
  <2> QED
    BY <2>1, <2>2
<1>4. ASSUME NEW r \in Requests, Finish(r) PROVE Done(q)'
  <2>1. counted' = counted /\ tracer' = tracer /\ meter' = meter
    BY <1>4 DEF Finish
  <2>2. CASE r = q
    <3>1. /\ req[q] = "recorded" /\ req'[q] = "finished"
          /\ span'[q] = IF span[q] # "open" THEN span[q] ELSE IF tracer THEN "taken" ELSE "lost"
      BY <1>4, <2>2 DEF Finish, EndSpan
    <3>2. span[q] \in {"none", "open"}
      BY <3>1 DEF Unended, Open, InFlight
    <3>3. tracer
      BY <3>1, <3>2
    <3> QED
      BY <1>1, <2>1, <3>1, <3>3
  <2>3. CASE r # q
    BY <1>2, <1>4, <2>1, <2>3 DEF Finish, EndSpan
  <2> QED
    BY <2>2, <2>3
<1>5. ASSUME NEW r \in Requests, Connect(r) \/ CloseIdle(r) \/ Arrive(r) \/ Abort(r)
      PROVE  Done(q)'
  <2>1. counted' = counted /\ tracer' = tracer /\ meter' = meter
    BY <1>5 DEF Connect, CloseIdle, Arrive, Abort
  <2>2. req'[q] = req[q] /\ span'[q] = span[q]
    BY <1>5 DEF Connect, CloseIdle, Arrive, Abort, EndSpan
  <2> QED
    BY <1>2, <2>1, <2>2
<1>6. CASE FlushTraces \/ BatchLeaves
  <2>1. req' = req /\ counted' = counted /\ tracer' = tracer /\ meter' = meter
    BY <1>6 DEF FlushTraces, BatchLeaves
  <2>2. PICK delivered \in SUBSET Requests : SpansLeave(delivered)
    BY <1>6 DEF FlushTraces, BatchLeaves
  <2>3. span[q] \in {"taken", "exported"} \/ span'[q] = span[q]
    BY <2>2 DEF SpansLeave
  <2> QED
    BY <1>2, <2>1, <2>3
<1>7. CASE CloseMetrics
  <2>1. /\ req' = req /\ span' = span /\ tracer' = tracer /\ ~ meter'
        /\ CountsLeave("exported") \/ CountsLeave("lost")
    BY <1>7 DEF CloseMetrics
  <2>2. Done(q)
    BY <1>1, <2>1
  <2>3. counted'[q] \in {"exported", "lost"}
    BY <2>1, <2>2 DEF CountsLeave
  <2> QED
    BY <2>1, <2>3
<1>8. CASE ReaderExports
  <2>1. /\ req' = req /\ span' = span /\ tracer' = tracer /\ meter' = meter
        /\ CountsLeave("exported")
    BY <1>8 DEF ReaderExports
  <2>2. Done(q)
    BY <1>1, <2>1
  <2> QED
    BY <2>1, <2>2 DEF CountsLeave
<1>9. CASE Exit
  <2>1. counted' = counted /\ tracer' = tracer /\ meter' = meter /\ span' = span
    BY <1>9 DEF Exit
  <2>2. req'[q] = req[q]
    BY <1>9 DEF Exit, Cut
  <2> QED
    BY <1>2, <2>1, <2>2
<1>10. CASE CloseTraces
  BY <1>2, <1>10 DEF CloseTraces
<1>11. CASE UNCHANGED <<req, span, counted, tracer, meter>>
  BY <1>2, <1>11
<1> QED
  BY <1>3, <1>4, <1>5, <1>6, <1>7, <1>8, <1>9, <1>10, <1>11
  DEF Next, Notify, Reload, ReloadReturns, BeginShutdown, ContextExpires, CloseListener,
      Drained, Bind, ServeReturns, SignalKills, Signal, vars

(* A SIGHUP is not forgotten before a reload has begun after it.           *)
LEMMA HupPendingStep == ASSUME TypeOK, HupPending, [Next]_vars PROVE HupPending'
<1> USE DEF TypeOK, HupPending, ShuttingDown, Alive, procVars, otelVars, signalVars
<1>1. ASSUME Notify \/ Reload \/ ReloadReturns \/ BeginShutdown \/ ContextExpires PROVE HupPending'
  BY <1>1 DEF Notify, Reload, ReloadReturns, BeginShutdown, ContextExpires, Received
<1>2. ASSUME CloseTraces \/ FlushTraces \/ CloseMetrics \/ CloseListener \/ Drained
      PROVE  HupPending'
  BY <1>2 DEF CloseTraces, FlushTraces, CloseMetrics, CloseListener, Drained
<1>3. CASE Bind \/ ServeReturns \/ Exit
  BY <1>3 DEF Bind, ServeReturns, Exit
<1>4. ASSUME NEW s \in {"HUP", "TERM"}, SignalKills(s) PROVE HupPending'
  <2>1. main' = "killed"
    BY <1>4 DEF SignalKills
  <2> QED
    BY <2>1
<1>5. ASSUME NEW s \in {"HUP", "TERM"}, Signal(s) PROVE HupPending'
  <2>1. sigCh' = IF sigCh = <<>> THEN <<s>> ELSE sigCh
    BY <1>5 DEF Signal
  <2>2. sigCh' # <<>>
    BY <2>1
  <2> QED
    BY <2>2
<1>6. CASE UNCHANGED <<procVars, signalVars>>
  BY <1>6
<1> QED
  BY <1>1, <1>2, <1>3, <1>4, <1>5, <1>6
  DEF Next, BatchLeaves, ReaderExports, Connect, CloseIdle, Arrive, Record, Finish, Abort, vars

-----------------------------------------------------------------------------
(* IInv is an invariant: no connection comes in once the drain has begun   *)
(* and the drain outlasts the requests that begin on those there are, a    *)
(* graceful exit cuts none before the time is up, traces are closed before *)
(* metrics, and a SIGHUP stays due.                                        *)
THEOREM Invariance == Spec => []IInv
<1>1. IInv /\ [Next]_vars => IInv'
  BY TypeStep, DrainStep, TracesFirstStep, UnendedStep, CountedStep, HupPendingStep DEF IInv
<1> QED
  BY InitInv, <1>1, PTL DEF Spec

(* Types of the process's state.                                           *)
THEOREM TypeCorrect == Spec => []TypeOK
<1>1. IInv => TypeOK
  BY DEF IInv
<1> QED
  BY Invariance, <1>1, PTL

(* A graceful exit cuts off no request before the time is up, not even one *)
(* that began on an open connection after the listener was closed.         *)
THEOREM GracefulExit == Spec => []CutOnlyWhenExpired
<1>1. IInv => CutOnlyWhenExpired
  BY DEF IInv
<1> QED
  BY Invariance, <1>1, PTL

(* The traces never show a finished request that was not counted: it is in *)
(* the metrics too, unless their own last export failed.                   *)
THEOREM TracesCounted == Spec => []NoTraceUncounted
<1>1. IInv => NoTraceUncounted
  BY DEF IInv, Counted, NoTraceUncounted
<1> QED
  BY Invariance, <1>1, PTL

(* The safety half of HupServed: as long as no reload has begun since a    *)
(* SIGHUP, one is due, or the process is on its way out.                   *)
THEOREM NoHupLost == Spec => []HupPending
<1>1. IInv => HupPending
  BY DEF IInv
<1> QED
  BY Invariance, <1>1, PTL
=============================================================================
