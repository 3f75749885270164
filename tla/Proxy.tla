-------------------------------- MODULE Proxy --------------------------------
(***************************************************************************)
(* The life of the RESP proxy: internal/proxy/drain.go, which counts       *)
(* admitted handlers and accepted connections, and the parts of            *)
(* internal/proxy/server.go that dispatch commands, start, drain and close *)
(* the server.  redcon is external: one goroutine per connection reads a   *)
(* pipeline, calls the handler for each command, flushes, and calls the    *)
(* closed callback at the end; closing the listener closes every socket.   *)
(*                                                                         *)
(* Every section under drainTracker.mu or Server.lifecycleMu is one step;  *)
(* the atomic counter and the draining flag are also read and changed      *)
(* outside it, and those accesses are steps of their own.                  *)
(***************************************************************************)
EXTENDS Integers, FiniteSets

CONSTANTS
  Conns,      \* client connections, each accepted at most once
  BatchSize,  \* len(batch) in beginDrain
  Scenarios   \* what a behaviour may be given: [clients, maxConnections,
              \*   maxPipeline, env], see below

EnvOptions == {"close", "cancel", "timeout", "listenFails", "serveFails",
               "clientLeaves", "quit"}

ASSUME ProxyAssumption ==
  /\ IsFiniteSet(Conns) /\ BatchSize \in Nat \ {0}
  /\ Scenarios \subseteq [clients : SUBSET Conns, maxConnections : Nat \ {0},
                          maxPipeline : Nat \ {0}, env : SUBSET EnvOptions]

VARIABLE scene  \* the scenario, chosen at the start and fixed

MaxConnections == scene.maxConnections  \* proxy.max_connections
MaxPipeline == scene.maxPipeline        \* bound: commands that one read yields
Env == scene.env                        \* what the environment may do

VARIABLES
  draining,  \* drainTracker.draining
  active,    \* drainTracker.active
  conns,     \* DOMAIN drainTracker.connections
  pending,   \* the connections still on the pending list
  drained,   \* the channel drainTracker.drained is closed
  panicked   \* a consistency check of the tracker failed

drainVars == <<draining, active, conns, pending, drained, panicked>>

VARIABLES
  cpc,       \* [Conns -> ConnPC]: next step of the connection's goroutine
  cmds,      \* commands read from the pipeline and not yet dispatched
  stopped,   \* connectionState.dispatchStopped
  sock,      \* the socket is open
  wake       \* the read deadline is the one that beginDrain set

connVars == <<cpc, cmds, stopped, sock, wake>>

VARIABLES
  spc,            \* next step of Start
  batch,          \* connections whose deadlines beginDrain still has to set
  exited,         \* Start is in waitAfterListenerExit
  outcome,        \* drainOutcome, "none" before waitForDrain returns
  lpc,            \* next step of Close
  started, closing, listenerReady, listenerClosed, finished,
  forced,         \* the channel forceClose is closed
  canceled,       \* requestCtx is canceled
  proxyActive,    \* Service.proxyActive
  ln,             \* the listener: "none", "open" or "closed"
  serving,        \* ListenServeAndSignal: "no", "yes" or "done"
  ctxDone,        \* the context of Start is canceled
  timeUp          \* the drain deadline has passed

serverVars == <<spc, batch, exited, outcome, lpc, started, closing, listenerReady,
                listenerClosed, finished, forced, canceled, proxyActive, ln,
                serving, ctxDone, timeUp>>

vars == <<drainVars, connVars, serverVars>>
-----------------------------------------------------------------------------
\* The connections whose goroutine has reserved a place in active; the
\* handlers among them that were admitted.
Admitted == {"run", "prep", "deadline", "settle", "shut", "complete"}
Reserved == Admitted \cup {"recheck", "rollback"}

ConnPC == Reserved \cup {"out", "idle", "next", "reserve", "repair", "closing",
                         "gone"}
StartPC == {"new", "listen", "ready", "select", "drainStart", "wake", "setWake",
            "waitDrain", "blocked", "closeFlag", "closeServer", "result", "return",
            "done"}
ClosePC == {"idle", "force", "closeFlag", "closeServer", "done"}

\* The type invariant.
TypeOK ==
  /\ scene \in Scenarios
  /\ draining \in BOOLEAN /\ drained \in BOOLEAN /\ panicked \in BOOLEAN
  /\ active \in Int
  /\ conns \subseteq Conns /\ pending \subseteq conns
  /\ cpc \in [Conns -> ConnPC]
  /\ cmds \in [Conns -> 0 .. MaxPipeline]
  /\ stopped \in [Conns -> BOOLEAN]
  /\ sock \in [Conns -> BOOLEAN] /\ wake \in [Conns -> BOOLEAN]
  /\ spc \in StartPC /\ lpc \in ClosePC
  /\ batch \subseteq Conns
  /\ outcome \in {"none", "completed", "timedOut", "forced"}
  /\ {exited, started, closing, listenerReady, listenerClosed, finished, forced,
      canceled, proxyActive, ctxDone, timeUp} \subseteq BOOLEAN
  /\ ln \in {"none", "open", "closed"} /\ serving \in {"no", "yes", "done"}

Init ==
  /\ scene \in Scenarios
  /\ draining = FALSE /\ drained = FALSE /\ panicked = FALSE
  /\ active = 0 /\ conns = {} /\ pending = {}
  /\ cpc = [c \in Conns |-> "out"]
  /\ cmds = [c \in Conns |-> 0]
  /\ stopped = [c \in Conns |-> FALSE]
  /\ sock = [c \in Conns |-> FALSE] /\ wake = [c \in Conns |-> FALSE]
  /\ spc = "new" /\ lpc = "idle" /\ batch = {} /\ exited = FALSE
  /\ outcome = "none"
  /\ started = FALSE /\ closing = FALSE /\ listenerReady = FALSE
  /\ listenerClosed = FALSE /\ finished = FALSE /\ forced = FALSE
  /\ canceled = FALSE /\ proxyActive = FALSE
  /\ ln = "none" /\ serving = "no" /\ ctxDone = FALSE /\ timeUp = FALSE
-----------------------------------------------------------------------------
(***************************************************************************)
(* The drain tracker.                                                      *)
(***************************************************************************)
\* signalDrainedLocked, as the last thing a section does.
SignalDrainedEarly == drained' = (drained \/ (draining' /\ active' = 0))
SignalDrained ==
  drained' = (drained \/ (draining' /\ active' = 0 /\ conns' = {}))

StopAdmission ==
  /\ draining' = TRUE
  /\ UNCHANGED <<active, conns, pending, panicked>>
  /\ SignalDrained

\* decrementActiveHandler panics, and restores the count, below zero.
Decrement ==
  IF active > 0 THEN active' = active - 1 /\ UNCHANGED panicked
  ELSE panicked' = TRUE /\ UNCHANGED active

Goto(c, label) == cpc' = [cpc EXCEPT ![c] = label]

\* redcon's ReadPipeline hands out the commands left; what it may leave behind
\* is still passed to dispatch.
ReadPipeline(c, left) == \E n \in {0, left} : cmds' = [cmds EXCEPT ![c] = n]

\* The close of a connection by its own handler: stopDispatch discards what
\* was parsed, Conn.Close shuts the socket.
Shut(c, left) ==
  /\ stopped' = [stopped EXCEPT ![c] = TRUE]
  /\ ReadPipeline(c, left)
  /\ sock' = [sock EXCEPT ![c] = FALSE]
-----------------------------------------------------------------------------
(***************************************************************************)
(* A connection.                                                           *)
(***************************************************************************)
AtLimit == Cardinality(conns) >= MaxConnections

\* acceptConnection and drainTracker.accept; the deadline cannot be set on a
\* socket whose client has left.
Accept(c) ==
  /\ cpc[c] = "out" /\ c \in scene.clients /\ ln = "open" /\ serving = "yes"
  /\ \/ /\ draining \/ AtLimit \/ "clientLeaves" \in Env
        /\ Goto(c, "gone")
        /\ UNCHANGED <<conns, pending, sock>>
     \/ /\ ~draining /\ ~AtLimit
        /\ conns' = conns \cup {c} /\ pending' = pending \cup {c}
        /\ sock' = [sock EXCEPT ![c] = TRUE]
        /\ Goto(c, "idle")
  /\ UNCHANGED <<draining, active, drained, panicked, cmds, stopped, wake,
                 serverVars>>

\* The client sends a pipeline.
ReadCommands(c) ==
  /\ cpc[c] = "idle" /\ sock[c] /\ ~wake[c]
  /\ \E n \in 1 .. MaxPipeline : cmds' = [cmds EXCEPT ![c] = n]
  /\ Goto(c, "next")
  /\ UNCHANGED <<drainVars, stopped, sock, wake, serverVars>>

\* The read fails: the socket is closed or the deadline has been moved up.
ReadFails(c) ==
  /\ cpc[c] = "idle" /\ (~sock[c] \/ wake[c])
  /\ Goto(c, "closing")
  /\ UNCHANGED <<drainVars, cmds, stopped, sock, wake, serverVars>>

ClientLeaves(c) ==
  /\ cpc[c] \in {"idle", "next"} /\ "clientLeaves" \in Env
  /\ sock' = [sock EXCEPT ![c] = FALSE]
  /\ UNCHANGED <<drainVars, cpc, cmds, stopped, wake, serverVars>>

\* The end of a pipeline: redcon flushes, or leaves after Conn.Close.
Flush(c) ==
  /\ cpc[c] = "next" /\ cmds[c] = 0
  /\ Goto(c, IF sock[c] THEN "idle" ELSE "closing")
  /\ UNCHANGED <<drainVars, cmds, stopped, sock, wake, serverVars>>

DispatchStopped(c) == stopped[c]

\* dispatch, up to the first check of beginHandler.
Dispatch(c) ==
  /\ cpc[c] = "next" /\ cmds[c] > 0
  /\ \/ /\ DispatchStopped(c)
        /\ cmds' = [cmds EXCEPT ![c] = @ - 1]
        /\ UNCHANGED <<cpc, stopped, sock>>
     \/ /\ ~DispatchStopped(c) /\ draining
        /\ Shut(c, cmds[c] - 1)
        /\ UNCHANGED cpc
     \/ /\ ~DispatchStopped(c) /\ ~draining
        /\ cmds' = [cmds EXCEPT ![c] = @ - 1]
        /\ Goto(c, "reserve")
        /\ UNCHANGED <<stopped, sock>>
  /\ UNCHANGED <<drainVars, wake, serverVars>>

Reserve(c) ==
  /\ cpc[c] = "reserve"
  /\ active' = active + 1
  /\ Goto(c, "recheck")
  /\ UNCHANGED <<draining, conns, pending, drained, panicked, cmds, stopped,
                 sock, wake, serverVars>>

\* The second check: drain may have won after the first one.
RecheckSkipped(c) == "run"
Rechecked(c) == IF draining THEN "rollback" ELSE "run"

Recheck(c) ==
  /\ cpc[c] = "recheck"
  /\ Goto(c, Rechecked(c))
  /\ UNCHANGED <<drainVars, cmds, stopped, sock, wake, serverVars>>

RollbackKept(c) ==
  /\ cpc[c] = "rollback"
  /\ Goto(c, "repair")
  /\ UNCHANGED <<drainVars, cmds, stopped, sock, wake, serverVars>>
Rollback(c) ==
  /\ cpc[c] = "rollback"
  /\ Decrement
  /\ Goto(c, "repair")
  /\ UNCHANGED <<draining, conns, pending, drained, cmds, stopped, sock, wake,
                 serverVars>>

\* The repaired signal, then the TRYAGAIN reply and the close of dispatch.
Repair(c) ==
  /\ cpc[c] = "repair"
  /\ UNCHANGED <<draining, active, conns, pending, panicked>>
  /\ SignalDrained
  /\ Shut(c, cmds[c])
  /\ Goto(c, "next")
  /\ UNCHANGED <<wake, serverVars>>

\* handle; QUIT and a command over a limit close the connection.
Handle(c) ==
  /\ cpc[c] = "run"
  /\ \/ UNCHANGED <<stopped, cmds, sock>>
     \/ "quit" \in Env /\ Shut(c, cmds[c])
  /\ Goto(c, "prep")
  /\ UNCHANGED <<drainVars, wake, serverVars>>

\* prepareHandlerDone: check, set the normal deadlines, check again under mu.
PrepareHandlerDone(c) ==
  /\ cpc[c] = "prep"
  /\ Goto(c, IF draining THEN "shut" ELSE "deadline")
  /\ UNCHANGED <<drainVars, cmds, stopped, sock, wake, serverVars>>

SetDeadlines(c) ==
  /\ cpc[c] = "deadline"
  /\ wake' = [wake EXCEPT ![c] = FALSE]
  /\ Goto(c, "settle")
  /\ UNCHANGED <<drainVars, cmds, stopped, sock, serverVars>>

\* The section that ends prepareHandlerDone: it keeps the handler accounted
\* for when a drain has started meanwhile.
SettleUnchecked(c) ==
  /\ cpc[c] = "settle"
  /\ Decrement /\ Goto(c, "next")
  /\ UNCHANGED <<draining, conns, pending, drained, cmds, stopped, sock, wake,
                 serverVars>>
Settle(c) ==
  /\ cpc[c] = "settle"
  /\ IF draining THEN Goto(c, "shut") /\ UNCHANGED <<active, panicked>>
     ELSE Decrement /\ Goto(c, "next")
  /\ UNCHANGED <<draining, conns, pending, drained, cmds, stopped, sock, wake,
                 serverVars>>

\* finishHandler during a drain.
FinishHandler(c) ==
  /\ cpc[c] = "shut"
  /\ Shut(c, cmds[c])
  /\ Goto(c, "complete")
  /\ UNCHANGED <<drainVars, wake, serverVars>>

CompleteDrainingHandler(c) ==
  /\ cpc[c] = "complete"
  /\ IF draining THEN Decrement ELSE panicked' = TRUE /\ UNCHANGED active
  /\ UNCHANGED <<draining, conns, pending>>
  /\ SignalDrained
  /\ Goto(c, "next")
  /\ UNCHANGED <<cmds, stopped, sock, wake, serverVars>>

RemovePending(c) == pending \ {c}

\* The closed callback.
ConnectionClosed(c) ==
  /\ cpc[c] = "closing"
  /\ conns' = conns \ {c} /\ pending' = RemovePending(c)
  /\ UNCHANGED <<draining, active, panicked>>
  /\ SignalDrained
  /\ sock' = [sock EXCEPT ![c] = FALSE]
  /\ Goto(c, "gone")
  /\ UNCHANGED <<cmds, stopped, wake, serverVars>>
-----------------------------------------------------------------------------
(***************************************************************************)
(* Start.                                                                  *)
(***************************************************************************)
SGoto(label) == spc' = label
StartFrame == UNCHANGED <<lpc, closing, forced, ctxDone, timeUp>>
NoConnChange == UNCHANGED <<drainVars, connVars>>

StartCall ==
  /\ spc = "new"
  /\ IF closing THEN SGoto("done") /\ UNCHANGED started
     ELSE SGoto("listen") /\ started' = TRUE
  /\ StartFrame /\ NoConnChange
  /\ UNCHANGED <<batch, exited, outcome, listenerReady, listenerClosed, finished,
                 canceled, proxyActive, ln, serving>>

\* ListenServeAndSignal; from here on redcon accepts connections.
Listen ==
  /\ spc = "listen"
  /\ \/ /\ ln' = "open" /\ serving' = "yes" /\ SGoto("ready")
     \/ /\ "listenFails" \in Env
        /\ serving' = "done" /\ SGoto("return")
        /\ UNCHANGED ln
  /\ StartFrame /\ NoConnChange
  /\ UNCHANGED <<batch, exited, outcome, started, listenerReady, listenerClosed,
                 finished, canceled, proxyActive>>

\* A Close that came before the listener was ready left it to Start.
AfterReady == IF closing THEN "closeFlag" ELSE "select"

ReadyActive == proxyActive \/ ~closing

ListenerReady ==
  /\ spc = "ready"
  /\ listenerReady' = TRUE
  /\ proxyActive' = ReadyActive
  /\ SGoto(AfterReady)
  /\ StartFrame /\ NoConnChange
  /\ UNCHANGED <<batch, exited, outcome, started, listenerClosed, finished, canceled, ln,
                 serving>>

\* The select of Start: the listener failed (waitAfterListenerExit), the
\* context is canceled (drainAndClose), or Close was called.
Select ==
  /\ spc = "select"
  /\ \/ /\ serving = "done"
        /\ exited' = TRUE /\ proxyActive' = FALSE /\ canceled' = TRUE
        /\ SGoto("drainStart")
        /\ NoConnChange
     \/ /\ ctxDone
        /\ proxyActive' = FALSE
        /\ SGoto("drainStart")
        /\ NoConnChange /\ UNCHANGED <<exited, canceled>>
     \/ /\ forced
        /\ canceled' = TRUE
        /\ StopAdmission
        /\ SGoto("closeFlag")
        /\ UNCHANGED <<connVars, exited, proxyActive>>
  /\ StartFrame
  /\ UNCHANGED <<batch, outcome, started, listenerReady, listenerClosed, finished,
                 ln, serving>>

\* beginDrain.
BeginDrain ==
  /\ spc = "drainStart"
  /\ StopAdmission
  /\ SGoto("wake")
  /\ StartFrame
  /\ UNCHANGED <<connVars, batch, exited, outcome, started, listenerReady,
                 listenerClosed, finished, canceled, proxyActive, ln, serving>>

\* The next batch of the pending list, unless the drain is over.
TakeBatch ==
  /\ spc = "wake"
  /\ IF timeUp \/ drained \/ pending = {}
     THEN SGoto("waitDrain") /\ UNCHANGED <<batch, pending>>
     ELSE /\ \E B \in SUBSET pending :
               /\ Cardinality(B) = IF Cardinality(pending) < BatchSize
                                   THEN Cardinality(pending) ELSE BatchSize
               /\ batch' = B /\ pending' = pending \ B
          /\ SGoto("setWake")
  /\ StartFrame
  /\ UNCHANGED <<draining, active, conns, drained, panicked, connVars, exited, outcome,
                 started, listenerReady, listenerClosed, finished, canceled,
                 proxyActive, ln, serving>>

WokenNot(c) == wake
Woken(c) == [wake EXCEPT ![c] = TRUE]

SetWakeDeadline ==
  /\ spc = "setWake"
  /\ IF batch = {} THEN SGoto("wake") /\ UNCHANGED <<batch, wake>>
     ELSE \E c \in batch : /\ wake' = Woken(c)
                           /\ batch' = batch \ {c}
                           /\ UNCHANGED spc
  /\ StartFrame
  /\ UNCHANGED <<drainVars, cpc, cmds, stopped, sock, exited, outcome, started,
                 listenerReady, listenerClosed, finished, canceled, proxyActive,
                 ln, serving>>

\* What waitForDrain returns: it looks at force, at drained and at the clock, in
\* this order, and then waits for any of them.
Ready(o) == \/ o = "forced" /\ forced
            \/ o = "completed" /\ drained
            \/ o = "timedOut" /\ timeUp
Polled == IF forced THEN "forced" ELSE IF drained THEN "completed"
          ELSE IF timeUp THEN "timedOut" ELSE "none"

\* waitForDrain, then drainAndClose cancels what is left; after a listener
\* exit Start only waits.
WaitForDrain ==
  /\ \/ spc = "waitDrain" /\ outcome' = Polled
     \/ spc = "blocked" /\ outcome' \in {"forced", "completed", "timedOut"} /\ Ready(outcome')
  /\ canceled' = (canceled \/ outcome' \in {"forced", "timedOut"})
  /\ SGoto(IF outcome' = "none" THEN "blocked"
           ELSE IF exited THEN "return" ELSE "closeFlag")
  /\ StartFrame /\ NoConnChange
  /\ UNCHANGED <<batch, exited, started, listenerReady, listenerClosed, finished,
                 proxyActive, ln, serving>>

\* closeListener: the first caller closes the redcon server.
MayCloseUnready == ~listenerClosed /\ ~finished /\ started
MayClose == ~listenerClosed /\ listenerReady /\ ~finished /\ started

StartCloseListener ==
  /\ \/ /\ spc = "closeFlag"
        /\ listenerClosed' = (listenerClosed \/ MayClose)
        /\ SGoto(IF MayClose THEN "closeServer" ELSE "result")
        /\ UNCHANGED ln
     \/ /\ spc = "closeServer"
        /\ ln' = "closed"
        /\ SGoto("result")
        /\ UNCHANGED listenerClosed
  /\ StartFrame /\ NoConnChange
  /\ UNCHANGED <<batch, exited, outcome, started, listenerReady, finished, canceled,
                 proxyActive, serving>>

\* A completed drain waits for redcon; otherwise its result is only polled.
ServeResult ==
  /\ spc = "result"
  /\ outcome = "completed" => serving = "done"
  /\ SGoto("return")
  /\ StartFrame /\ NoConnChange
  /\ UNCHANGED <<batch, exited, outcome, started, listenerReady, listenerClosed,
                 finished, canceled, proxyActive, ln, serving>>

\* The deferred cleanup.
StartReturn ==
  /\ spc = "return"
  /\ canceled' = TRUE /\ proxyActive' = FALSE
  /\ listenerReady' = FALSE /\ finished' = TRUE
  /\ SGoto("done")
  /\ StartFrame /\ NoConnChange
  /\ UNCHANGED <<batch, exited, outcome, started, listenerClosed, ln, serving>>
-----------------------------------------------------------------------------
(***************************************************************************)
(* Close, redcon's accept loop and the environment.                        *)
(***************************************************************************)
CloseFrame == UNCHANGED <<spc, batch, exited, outcome, started, listenerReady, finished,
                          serving, ctxDone, timeUp>>

CloseCall ==
  /\ lpc = "idle" /\ "close" \in Env
  /\ closing' = TRUE /\ proxyActive' = FALSE
  /\ StopAdmission
  /\ lpc' = "force"
  /\ CloseFrame
  /\ UNCHANGED <<connVars, listenerClosed, forced, canceled, ln>>

CloseForce ==
  /\ lpc = "force"
  /\ canceled' = TRUE /\ forced' = TRUE
  /\ lpc' = "closeFlag"
  /\ CloseFrame /\ NoConnChange
  /\ UNCHANGED <<closing, listenerClosed, proxyActive, ln>>

CloseCloseListener ==
  /\ \/ /\ lpc = "closeFlag"
        /\ listenerClosed' = (listenerClosed \/ MayClose)
        /\ lpc' = IF MayClose THEN "closeServer" ELSE "done"
        /\ UNCHANGED ln
     \/ /\ lpc = "closeServer"
        /\ ln' = "closed"
        /\ lpc' = "done"
        /\ UNCHANGED listenerClosed
  /\ CloseFrame /\ NoConnChange
  /\ UNCHANGED <<closing, forced, canceled, proxyActive>>

\* redcon leaves its accept loop and closes every socket.
ServeExits ==
  /\ serving = "yes" /\ (ln = "closed" \/ "serveFails" \in Env)
  /\ serving' = "done" /\ ln' = "closed"
  /\ sock' = [c \in Conns |-> FALSE]
  /\ UNCHANGED <<drainVars, cpc, cmds, stopped, wake, spc, batch, exited, outcome, lpc,
                 started, closing, listenerReady, listenerClosed, finished,
                 forced, canceled, proxyActive, ctxDone, timeUp>>

CancelContext ==
  /\ ~ctxDone /\ "cancel" \in Env
  /\ ctxDone' = TRUE
  /\ NoConnChange
  /\ UNCHANGED <<spc, batch, exited, outcome, lpc, started, closing, listenerReady,
                 listenerClosed, finished, forced, canceled, proxyActive, ln,
                 serving, timeUp>>

DeadlinePasses ==
  /\ ~timeUp /\ "timeout" \in Env
  /\ spc \in {"wake", "setWake", "waitDrain", "blocked"}
  /\ timeUp' = TRUE
  /\ NoConnChange
  /\ UNCHANGED <<spc, batch, exited, outcome, lpc, started, closing, listenerReady,
                 listenerClosed, finished, forced, canceled, proxyActive, ln,
                 serving, ctxDone>>
-----------------------------------------------------------------------------
ConnStep(c) ==
  \/ ReadFails(c) \/ Flush(c) \/ Dispatch(c) \/ Reserve(c) \/ Recheck(c)
  \/ Rollback(c) \/ Repair(c) \/ Handle(c) \/ PrepareHandlerDone(c)
  \/ SetDeadlines(c) \/ Settle(c) \/ FinishHandler(c)
  \/ CompleteDrainingHandler(c) \/ ConnectionClosed(c)

StartStep ==
  \/ StartCall \/ Listen \/ ListenerReady \/ Select \/ BeginDrain \/ TakeBatch
  \/ SetWakeDeadline \/ WaitForDrain \/ StartCloseListener \/ ServeResult
  \/ StartReturn

CloseStep == CloseForce \/ CloseCloseListener

Stopped == spc = "done" /\ lpc \in {"idle", "done"} /\ UNCHANGED vars

Next ==
  \/ \E c \in Conns : ConnStep(c) \/ Accept(c) \/ ReadCommands(c)
                      \/ ClientLeaves(c)
  \/ StartStep \/ CloseCall \/ CloseStep
  \/ ServeExits \/ CancelContext \/ DeadlinePasses
  \/ Stopped

Spec == Init /\ [][Next /\ UNCHANGED scene]_<<vars, scene>>

\* Goroutines run, handlers end (every origin call has a deadline), redcon
\* notices a closed listener.  Clients, signals, the drain deadline and Close
\* are free to come or not.
Fairness ==
  /\ \A c \in Conns : WF_vars(ConnStep(c))
  /\ WF_vars(StartStep) /\ WF_vars(CloseStep)
  /\ WF_vars(ServeExits /\ ln = "closed")

FairSpec == Spec /\ Fairness
-----------------------------------------------------------------------------
\* Once drained is closed no admitted handler runs and no connection is open,
\* now and later: drainAndClose lets Start return on it.  The reservation that
\* loses against the drain is not an admitted handler.
DrainedIsQuiet ==
  drained => conns = {} /\ \A c \in Conns : cpc[c] \notin Admitted

\* The lock-free counter is exactly the reservations under way, and neither
\* consistency check of the tracker can fail.
ActiveCountsReservations ==
  ~panicked /\ active = Cardinality({c \in Conns : cpc[c] \in Reserved})

\* Once admission is stopped no command is admitted any more, not even one that
\* had passed the first check of beginHandler: what beginDrain reports as active
\* can only shrink.  Nor is a command of a pipeline after the reply that closes its
\* connection (QUIT, a command over a limit, TRYAGAIN).
AdmissionEnds ==
  [][\A c \in Conns : /\ draining \/ stopped[c]
                      /\ cpc[c] \notin Admitted
                      => cpc'[c] \notin Admitted]_vars

\* The connection limit holds whatever connections come and go.
ConnectionLimit == Cardinality(conns) <= MaxConnections

\* Readiness is never reported while commands are refused, whatever the order
\* of Start becoming ready and Close.
ActiveIsAdmitting == proxyActive => ~draining

\* However Start and Close interleave, when both are over the listener is not
\* left open: the one that cannot close it leaves it to the other.
ListenerNotLeaked ==
  spc = "done" /\ lpc \in {"idle", "done"} => ln # "open"

\* A drain that the deadline does not cut short completes, although clients
\* keep sending commands and idle ones stay connected: every connection is
\* woken, refused or closed after its handler.
DrainCompletes == (spc = "drainStart") ~> (drained \/ timeUp)

\* A canceled context or a Close makes Start return.
StartReturns == (spc = "select" /\ (ctxDone \/ forced)) ~> (spc = "done")
=============================================================================
