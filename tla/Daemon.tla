-------------------------------- MODULE Daemon -------------------------------
(***************************************************************************)
(* The life of the slizend process: run of cmd/slizend/main.go from the    *)
(* start of its two servers to its return, with Start of the admin server  *)
(* and, of the proxy's Start, what the Proxy module shows in detail: it    *)
(* drains when its context ends or its listener fails, and a drain ends    *)
(* when its handlers have, or at its deadline.                             *)
(***************************************************************************)
EXTENDS Integers, Sequences

Servers == {"admin", "proxy"}

VARIABLES
  main,       \* where run is
  signalled,  \* rootCtx is done
  cancelled,  \* serverCtx is done
  srv,        \* where each Start is
  handlers,   \* servers with a handler that may call the service
  abandoned,  \* servers whose Start returned without waiting for handlers
  errCh,      \* results sent and not received, oldest first
  timedOut,   \* the wait for the servers was given up
  failed,     \* history: a server failed while no shutdown was under way
  runResult,  \* what run returns
  service     \* "open", or "closed" by the deferred svc.Close

serverVars == <<srv, handlers, abandoned>>
runVars == <<main, timedOut, runResult, service>>
daemonVars == <<serverVars, runVars, signalled, cancelled, errCh, failed>>

\* The upstream has answered the ping; both goroutines are started.
DaemonInit ==
  /\ main = "select"
  /\ signalled = FALSE /\ cancelled = FALSE /\ timedOut = FALSE /\ failed = FALSE
  /\ srv = [s \in Servers |-> "starting"]
  /\ handlers = {} /\ abandoned = {}
  /\ errCh = <<>>
  /\ runResult = "none"
  /\ service = "open"

-----------------------------------------------------------------------------
(* The servers.                                                            *)

Move(s, from, to) == srv[s] = from /\ srv' = [srv EXCEPT ![s] = to]

\* A connection the admin server had before it failed may send more requests.
HandlerBegins(s) ==
  /\ srv[s] = "serving" \/ (s = "admin" /\ s \in abandoned)
  /\ handlers' = handlers \cup {s}
  /\ UNCHANGED <<runVars, srv, abandoned, signalled, cancelled, errCh, failed>>

HandlerEnds(s) ==
  /\ s \in handlers
  /\ handlers' = handlers \ {s}
  /\ UNCHANGED <<runVars, srv, abandoned, signalled, cancelled, errCh, failed>>

Listen(s) ==
  /\ \/ Move(s, "starting", "serving") /\ UNCHANGED failed
     \/ Move(s, "starting", "returnErr") /\ failed' = (failed \/ ~cancelled)
  /\ UNCHANGED <<runVars, handlers, abandoned, signalled, cancelled, errCh>>

\* Serve fails: the admin's Start returns at once, the proxy's drains first.
Fail(s) ==
  /\ IF s = "admin" THEN Move(s, "serving", "returnErr") /\ abandoned' = abandoned \cup {s}
                    ELSE Move(s, "serving", "failing") /\ UNCHANGED abandoned
  /\ failed' = (failed \/ ~cancelled)
  /\ UNCHANGED <<runVars, handlers, signalled, cancelled, errCh>>

Stop(s) ==
  /\ cancelled
  /\ Move(s, "serving", "stopping")
  /\ UNCHANGED <<runVars, handlers, abandoned, signalled, cancelled, errCh, failed>>

\* Shutdown, or the proxy's drain, ends: with the last handler, or at its deadline
\* with handlers left.  Closing the listener, or Shutdown itself, may fail.
Stopped(s) ==
  /\ \/ Move(s, "stopping", "returnNil")
     \/ Move(s, "stopping", "returnErr")
     \/ Move(s, "failing", "returnErr")
  /\ abandoned' = IF s \in handlers THEN abandoned \cup {s} ELSE abandoned
  /\ UNCHANGED <<runVars, handlers, signalled, cancelled, errCh, failed>>

\* errCh <- Start(...), into a buffer of two.
Send(s) ==
  /\ Len(errCh) < 2
  /\ \/ Move(s, "returnNil", "sent") /\ errCh' = Append(errCh, "nil")
     \/ Move(s, "returnErr", "sent") /\ errCh' = Append(errCh, "error")
  /\ UNCHANGED <<runVars, handlers, abandoned, signalled, cancelled, failed>>

\* The deferred wg.Done.
Done(s) ==
  /\ Move(s, "sent", "done")
  /\ UNCHANGED <<runVars, handlers, abandoned, signalled, cancelled, errCh, failed>>

-----------------------------------------------------------------------------
(* run.                                                                    *)

\* serverCtx is derived from rootCtx.
Signal ==
  /\ ~signalled
  /\ signalled' = TRUE /\ cancelled' = TRUE
  /\ UNCHANGED <<serverVars, runVars, errCh, failed>>

BothDone == \A s \in Servers : srv[s] = "done"

CancelsNothing == cancelled

\* cancelServers() on every way out of the select.
Cancels == TRUE

SelectSignal ==
  /\ main = "select" /\ signalled
  /\ main' = "wait" /\ cancelled' = Cancels
  /\ UNCHANGED <<serverVars, signalled, errCh, timedOut, failed, runResult, service>>

AfterResultAlike(err) == "wait"

\* An error is returned, once both servers have; nil is a shutdown like any other.
AfterResult(err) == IF err = "error" THEN "waitError" ELSE "wait"

SelectResult ==
  /\ main = "select" /\ errCh # <<>>
  /\ main' = AfterResult(Head(errCh))
  /\ errCh' = Tail(errCh)
  /\ cancelled' = Cancels
  /\ UNCHANGED <<serverVars, signalled, timedOut, failed, runResult, service>>

ErrorWaitSkipped == TRUE

\* wg.Wait() without a timer: the servers' own deadlines bound it.
ErrorWaitOver == BothDone

WaitError ==
  /\ main = "waitError" /\ ErrorWaitOver
  /\ main' = "return" /\ runResult' = "error"
  /\ UNCHANGED <<serverVars, signalled, cancelled, errCh, timedOut, failed, service>>

Wait ==
  /\ main = "wait" /\ BothDone
  /\ main' = "return" /\ runResult' = "nil"
  /\ UNCHANGED <<serverVars, signalled, cancelled, errCh, timedOut, failed, service>>

\* time.After(ShutdownTimeout), which the proxy's drain deadline equals: either may
\* be first.  The servers are closed, which is no more than their cancelled context
\* makes them do, and are not waited for.
GiveUp ==
  /\ main = "wait"
  /\ main' = "return" /\ runResult' = "nil" /\ timedOut' = TRUE
  /\ UNCHANGED <<serverVars, signalled, cancelled, errCh, failed, service>>

\* The deferred calls, svc.Close last; main then ends the process.
RunReturns ==
  /\ main = "return"
  /\ main' = "exited" /\ cancelled' = TRUE /\ service' = "closed"
  /\ UNCHANGED <<serverVars, signalled, errCh, timedOut, failed, runResult>>

Progress(s) == Listen(s) \/ Stop(s) \/ Stopped(s) \/ Send(s) \/ Done(s)

Run == SelectSignal \/ SelectResult \/ WaitError \/ Wait \/ GiveUp \/ RunReturns

DaemonNext ==
  /\ main # "exited"
  /\ \/ Signal
     \/ Run
     \/ \E s \in Servers : HandlerBegins(s) \/ HandlerEnds(s) \/ Fail(s) \/ Progress(s)

DaemonSpec == DaemonInit /\ [][DaemonNext]_daemonVars

\* run and the goroutines are scheduled; a listener starts or fails to; Shutdown and
\* the drain have deadlines, so what has begun to stop does.  Signals, failures of a
\* serving listener and the end of a handler are not promised.
FairSpec == DaemonSpec /\ WF_daemonVars(Run) /\ \A s \in Servers : WF_daemonVars(Progress(s))

-----------------------------------------------------------------------------

\* svc.Close, deferred first and so run last, finds no handler of either server
\* running, unless a deadline was reached or the admin listener failed: run waits
\* for both servers on the error path as on the signal's.
NoHandlerAtClose == service = "closed" => timedOut \/ handlers \subseteq abandoned

\* A process whose listener failed while no shutdown was under way exits with the
\* error, whatever the other server does meanwhile, unless a signal came as well.
FailureReported == main = "exited" /\ failed /\ ~signalled => runResult = "error"

\* A signal, or a listener's failure, ends the process: the error path, which has
\* no timer, does not wait for a server that nothing stops.
ShutdownCompletes == signalled \/ failed ~> main = "exited"
=============================================================================
