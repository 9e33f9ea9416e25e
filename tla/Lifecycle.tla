----------------------------- MODULE Lifecycle -----------------------------
(***************************************************************************)
(* The process of cmd/yai: the main goroutine that serves HTTP, the signal *)
(* goroutine that reloads on SIGHUP and shuts down on SIGTERM, and the     *)
(* connections, each with the next request on it and what                  *)
(* internal/telemetry records of that.  SIGINT is treated like SIGTERM by  *)
(* the code and stands for it.  The sender of signals, the clients, the    *)
(* collector and net/http's connections are external; Go delivers a signal *)
(* to a channel that has room and drops it otherwise.                      *)
(***************************************************************************)
EXTENDS Naturals, Sequences

CONSTANTS Requests,
          Enabled,      \* telemetry.enabled
          MaxSignals    \* bound on the signals sent

ASSUME LifecycleAssumption == Enabled \in BOOLEAN /\ MaxSignals \in Nat

VARIABLES main,       \* the main goroutine, and with it the process
          listening,  \* the listener is open
          closing,    \* httpServer.Shutdown has been called
          notified,   \* signal.Notify has been called
          sigCh,      \* the channel of signals, of capacity 1
          sigLoop,    \* where the signal goroutine is
          expired,    \* the shutdown's context is over
          tracer, meter, \* the OTel providers take what they are given
          req,        \* the requests, with the connection of each
          span,       \* the span of each
          counted,    \* what became of each in yai.requests.total
          sent,       \* number of signals sent
          hup,        \* history: SIGHUP sent, no reload begun since
          term        \* history: SIGTERM sent

procVars == <<main, listening, closing, notified, sigCh, sigLoop, expired>>
otelVars == <<tracer, meter, span, counted>>
signalVars == <<sent, hup, term>>
vars == <<procVars, otelVars, req, signalVars>>

-----------------------------------------------------------------------------
Alive == main \in {"binding", "serving", "closed"}

Init == /\ main = "binding" /\ listening = FALSE /\ closing = FALSE
        /\ notified = FALSE /\ sigCh = <<>> /\ sigLoop = "starting" /\ expired = FALSE
        /\ tracer = Enabled /\ meter = Enabled
        /\ req = [q \in Requests |-> "none"]
        /\ span = [q \in Requests |-> "none"]
        /\ counted = [q \in Requests |-> "no"]
        /\ sent = 0 /\ hup = FALSE /\ term = FALSE

(* signal.Notify: from here on signals no longer kill the process.         *)
Notify == /\ Alive /\ sigLoop = "starting"
          /\ notified' = TRUE
          /\ sigLoop' = "waiting"
          /\ UNCHANGED <<main, listening, closing, sigCh, expired, otelVars, req, signalVars>>

Sent(s) == /\ sent < MaxSignals
           /\ sent' = sent + 1
           /\ hup' = (hup \/ s = "HUP")
           /\ term' = (term \/ s = "TERM")

SignalKills(s) == /\ Alive /\ ~ notified
                  /\ Sent(s)
                  /\ main' = "killed"
                  /\ UNCHANGED <<listening, closing, notified, sigCh, sigLoop, expired,
                                 otelVars, req>>

Signal_unbuffered(s) ==
  /\ Alive /\ notified
  /\ Sent(s)
  /\ sigCh' = IF sigCh = <<>> /\ sigLoop = "waiting" THEN <<s>> ELSE sigCh
  /\ UNCHANGED <<main, listening, closing, notified, sigLoop, expired, otelVars, req>>
Signal(s) ==
  /\ Alive /\ notified
  /\ Sent(s)
  /\ sigCh' = IF sigCh = <<>> THEN <<s>> ELSE sigCh
  /\ UNCHANGED <<main, listening, closing, notified, sigLoop, expired, otelVars, req>>

-----------------------------------------------------------------------------
Received(s) == /\ Alive /\ sigLoop = "waiting"
               /\ sigCh = <<s>> /\ sigCh' = <<>>

Reload == /\ Received("HUP")
          /\ sigLoop' = "reloading"
          /\ hup' = FALSE
          /\ UNCHANGED <<main, listening, closing, notified, expired, otelVars, req, sent, term>>

(* srv.Reload returns, with or without an error.                           *)
ReloadReturns == /\ Alive /\ sigLoop = "reloading"
                 /\ sigLoop' = "waiting"
                 /\ UNCHANGED <<main, listening, closing, notified, sigCh, expired,
                                otelVars, req, signalVars>>

(* SIGTERM: one context bounds all of the shutdown.                        *)
BeginShutdown_metricsFirst ==
  /\ Received("TERM")
  /\ sigLoop' = IF Enabled THEN "metrics" ELSE "closing"
  /\ UNCHANGED <<main, listening, closing, notified, expired, otelVars, req, signalVars>>
BeginShutdown ==
  /\ Received("TERM")
  /\ sigLoop' = IF Enabled THEN "traces" ELSE "closing"
  /\ UNCHANGED <<main, listening, closing, notified, expired, otelVars, req, signalVars>>

ContextExpires == /\ Alive /\ ~ expired
                  /\ sigLoop \in {"traces", "flushing", "metrics", "closing", "draining"}
                  /\ expired' = TRUE
                  /\ UNCHANGED <<main, listening, closing, notified, sigCh, sigLoop,
                                 otelVars, req, signalVars>>

(* tracerProvider.Shutdown: no more spans are taken; those that were taken *)
(* go to the collector, or are lost when it fails or the time is up.       *)
CloseTraces == /\ Alive /\ sigLoop = "traces"
               /\ tracer' = FALSE
               /\ sigLoop' = "flushing"
               /\ UNCHANGED <<main, listening, closing, notified, sigCh, expired,
                              meter, span, counted, req, signalVars>>

SpansLeave(delivered) ==
  span' = [q \in Requests |-> IF span[q] # "taken" THEN span[q]
                              ELSE IF q \in delivered THEN "exported" ELSE "lost"]

FlushTraces == /\ Alive /\ sigLoop = "flushing"
               /\ sigLoop' = "metrics"
               /\ \E delivered \in SUBSET Requests : SpansLeave(delivered)
               /\ UNCHANGED <<main, listening, closing, notified, sigCh, expired,
                              tracer, meter, counted, req, signalVars>>

CountsLeave(outcome) ==
  counted' = [q \in Requests |-> IF counted[q] = "added" THEN outcome ELSE counted[q]]

(* meterProvider.Shutdown collects a last time: no later count is taken,   *)
(* and the last ones are lost when the collector fails or the time that    *)
(* the traces have left is up.                                             *)
CloseMetrics ==
  /\ Alive /\ sigLoop = "metrics"
  /\ meter' = FALSE
  /\ \/ ~ expired /\ CountsLeave("exported")
     \/ CountsLeave("lost")
  /\ sigLoop' = "closing"
  /\ UNCHANGED <<main, listening, closing, notified, sigCh, expired,
                 tracer, span, req, signalVars>>

(* Meanwhile the batcher and the periodic reader export by themselves; a   *)
(* batch that fails is lost, counts are kept for the next time.            *)
BatchLeaves == /\ Alive /\ tracer
               /\ \E delivered \in SUBSET Requests : SpansLeave(delivered)
               /\ UNCHANGED <<procVars, tracer, meter, counted, req, signalVars>>

ReaderExports == /\ Alive /\ meter
                 /\ CountsLeave("exported")
                 /\ UNCHANGED <<procVars, tracer, meter, span, req, signalVars>>

(* httpServer.Shutdown closes the listener, then those connections that    *)
(* are idle or send no request, and waits for the others or the context.   *)
CloseListener == /\ Alive /\ sigLoop = "closing"
                 /\ closing' = TRUE /\ listening' = FALSE
                 /\ sigLoop' = "draining"
                 /\ UNCHANGED <<main, notified, sigCh, expired, otelVars, req, signalVars>>

CloseIdle(q) == /\ Alive /\ sigLoop = "draining" /\ req[q] = "connected"
                /\ req' = [req EXCEPT ![q] = "closed"]
                /\ UNCHANGED <<procVars, otelVars, signalVars>>

InFlight == {q \in Requests : req[q] \in {"active", "recorded"}}
Open == {q \in Requests : req[q] = "connected"} \cup InFlight

Drained_unbounded ==
  /\ Alive /\ sigLoop = "draining" /\ Open = {}
  /\ sigLoop' = "done"
  /\ UNCHANGED <<main, listening, closing, notified, sigCh, expired,
                 otelVars, req, signalVars>>
Drained ==
  /\ Alive /\ sigLoop = "draining" /\ (Open = {} \/ expired)
  /\ sigLoop' = "done"
  /\ UNCHANGED <<main, listening, closing, notified, sigCh, expired,
                 otelVars, req, signalVars>>

-----------------------------------------------------------------------------
(* ListenAndServe: binds, unless Shutdown came first, or fails.            *)
Bind_regardless ==
  /\ main = "binding"
  /\ main' = "serving" /\ listening' = TRUE
  /\ UNCHANGED <<closing, notified, sigCh, sigLoop, expired, otelVars, req, signalVars>>
Bind == /\ main = "binding"
        /\ \/ ~ closing /\ main' = "serving" /\ listening' = TRUE
           \/ closing /\ main' = "closed" /\ UNCHANGED listening
           \/ ~ closing /\ main' = "fatal" /\ UNCHANGED listening
        /\ UNCHANGED <<closing, notified, sigCh, sigLoop, expired, otelVars, req, signalVars>>

(* It returns as soon as the listener is closed, before the drain ends.    *)
ServeReturns == /\ main = "serving" /\ closing
                /\ main' = "closed"
                /\ UNCHANGED <<listening, closing, notified, sigCh, sigLoop, expired,
                               otelVars, req, signalVars>>

Cut == req' = [q \in Requests |-> IF q \in InFlight THEN "cut" ELSE req[q]]

Exit_early == /\ main = "closed"
              /\ main' = "exited"
              /\ Cut
              /\ UNCHANGED <<listening, closing, notified, sigCh, sigLoop, expired,
                             otelVars, signalVars>>

(* <-done, then the deferred srv.Stop() and the end of the process, which  *)
(* takes the requests still in flight with it.                             *)
Exit == /\ main = "closed" /\ sigLoop = "done"
        /\ main' = "exited"
        /\ Cut
        /\ UNCHANGED <<listening, closing, notified, sigCh, sigLoop, expired,
                       otelVars, signalVars>>

-----------------------------------------------------------------------------
(* A connection is accepted; a request may begin on it at any time, also   *)
(* when the listener is closed and the drain has begun.                    *)
Connect(q) == /\ Alive /\ listening /\ req[q] = "none"
              /\ req' = [req EXCEPT ![q] = "connected"]
              /\ UNCHANGED <<procVars, otelVars, signalVars>>

(* The telemetry middleware around a request: the span ends in a deferred  *)
(* call, the metrics are recorded after the handler returns.               *)
Arrive(q) == /\ Alive /\ req[q] = "connected"
             /\ req' = [req EXCEPT ![q] = "active"]
             /\ span' = [span EXCEPT ![q] = IF Enabled THEN "open" ELSE "none"]
             /\ UNCHANGED <<procVars, tracer, meter, counted, signalVars>>

EndSpan(q) == span' = [span EXCEPT ![q] = IF span[q] # "open" THEN span[q]
                                          ELSE IF tracer THEN "taken" ELSE "lost"]

Record(q) == /\ Alive /\ req[q] = "active"
             /\ req' = [req EXCEPT ![q] = "recorded"]
             /\ counted' = [counted EXCEPT ![q] = IF meter THEN "added" ELSE "no"]
             /\ UNCHANGED <<procVars, tracer, meter, span, signalVars>>

Finish(q) == /\ Alive /\ req[q] = "recorded"
             /\ req' = [req EXCEPT ![q] = "finished"]
             /\ EndSpan(q)
             /\ UNCHANGED <<procVars, tracer, meter, counted, signalVars>>

(* The proxy panics with ErrAbortHandler: past the metrics.                *)
Abort(q) == /\ Alive /\ req[q] = "active"
            /\ req' = [req EXCEPT ![q] = "aborted"]
            /\ EndSpan(q)
            /\ UNCHANGED <<procVars, tracer, meter, counted, signalVars>>

Next == \/ Notify \/ Reload \/ ReloadReturns \/ BeginShutdown \/ ContextExpires
        \/ CloseTraces \/ FlushTraces \/ CloseMetrics \/ CloseListener \/ Drained
        \/ Bind \/ ServeReturns \/ Exit \/ BatchLeaves \/ ReaderExports
        \/ \E s \in {"HUP", "TERM"} : SignalKills(s) \/ Signal(s)
        \/ \E q \in Requests : \/ Connect(q) \/ CloseIdle(q)
                              \/ Arrive(q) \/ Record(q) \/ Finish(q) \/ Abort(q)

Spec == Init /\ [][Next]_vars

(* Both goroutines run on and the context's timer fires; a request may     *)
(* stream for ever.                                                        *)
Fairness == /\ WF_vars(Notify \/ Reload \/ ReloadReturns \/ BeginShutdown \/ CloseTraces
                       \/ FlushTraces \/ CloseMetrics \/ CloseListener \/ Drained)
            /\ WF_vars(Bind \/ ServeReturns \/ Exit)
            /\ WF_vars(ContextExpires)

FairSpec == Spec /\ Fairness

-----------------------------------------------------------------------------
(* Every variable has its type.                                            *)
TypeOK ==
  /\ main \in {"binding", "serving", "closed", "exited", "killed", "fatal"}
  /\ listening \in BOOLEAN /\ closing \in BOOLEAN /\ notified \in BOOLEAN
  /\ sigCh \in {<<>>, <<"HUP">>, <<"TERM">>}
  /\ sigLoop \in {"starting", "waiting", "reloading", "traces", "flushing", "metrics",
                  "closing", "draining", "done"}
  /\ expired \in BOOLEAN /\ tracer \in BOOLEAN /\ meter \in BOOLEAN
  /\ req \in [Requests -> {"none", "connected", "closed", "active", "recorded",
                          "finished", "aborted", "cut"}]
  /\ span \in [Requests -> {"none", "open", "taken", "exported", "lost"}]
  /\ counted \in [Requests -> {"no", "added", "exported", "lost"}]
  /\ sent \in 0 .. MaxSignals /\ hup \in BOOLEAN /\ term \in BOOLEAN

(* A graceful exit cuts a request off only when the shutdown's time was    *)
(* up, although ListenAndServe returns before the drain (main.go:105-117). *)
CutOnlyWhenExpired == \A q \in Requests : req[q] = "cut" => expired

Shown(q) == req[q] = "finished" /\ span[q] \in {"taken", "exported"}
Tallied(q) == counted[q] \in {"exported", IF meter THEN "added" ELSE "lost"}

(* A request whose end the traces show was counted while the metrics took  *)
(* counts, however its end falls between the steps of a shutdown that      *)
(* closes both: it is missing there only when the metrics' own last export *)
(* failed (telemetry.go:138-143, middleware.go:52, :75).  One that panics  *)
(* is in the traces only.                                                  *)
NoTraceUncounted == \A q \in Requests : Shown(q) => Tallied(q)

ShuttingDown == sigLoop \in {"traces", "flushing", "metrics", "closing", "draining", "done"}

(* The configuration as of the last SIGHUP is read in the end, however     *)
(* many of them the channel had no room for (main.go:77-88).               *)
HupServed == hup ~> ~ hup \/ ~ Alive \/ ShuttingDown

(* A shutdown that has begun ends, whatever the requests do and whether    *)
(* or not the listener was open yet (main.go:90-117).                      *)
ShutdownEnds == ShuttingDown ~> ~ Alive

-----------------------------------------------------------------------------
(* Once the listener is closed it stays so, and the drain has ended with   *)
(* no connection on which a request runs or could begin, or with no time   *)
(* left.                                                                   *)
DrainHolds ==
  /\ closing <=> sigLoop \in {"draining", "done"}
  /\ closing => ~ listening
  /\ main = "binding" => ~ listening
  /\ sigLoop = "done" => Open = {} \/ expired

(* Traces are closed before metrics.                                       *)
TracesFirst == /\ tracer => meter
               /\ sigLoop \in {"flushing", "metrics"} => ~ tracer

(* While traces are taken, whoever has got to the metrics was counted.     *)
Counted == \A q \in Requests : Shown(q) \/ (req[q] = "recorded" /\ tracer) => Tallied(q)

(* The span of a request that runs, or has not begun, has not ended.       *)
Unended == \A q \in Requests :
             req[q] = "none" \/ q \in Open => span[q] \in {"none", "open"}

(* A SIGHUP that found the channel full loses nothing: what fills it makes *)
(* the signal goroutine read a later configuration, or end the process.    *)
HupPending == hup /\ Alive => sigCh # <<>> \/ ShuttingDown

IInv == /\ TypeOK /\ DrainHolds /\ CutOnlyWhenExpired
        /\ TracesFirst /\ Counted /\ Unended /\ HupPending

-----------------------------------------------------------------------------
(* "SIGHUP for reload, SIGINT/SIGTERM for shutdown": a SIGTERM would end   *)
(* the process, whatever else it is doing (main.go:74).                    *)
TermHonoured == term ~> ~ Alive
=============================================================================
