------------------------------- MODULE Shutdown -------------------------------
(***************************************************************************)
(* The graceful shutdown of advanced/graceful_shutdown.  The first signal  *)
(* starts App.shutdown, a sequence of steps, and beside it a goroutine     *)
(* that ends the process at a second signal or after shutdownTimeout.      *)
(* Requests are served meanwhile, by one goroutine each.                   *)
(*                                                                         *)
(* Time is counted in ticks from the first signal.  What the program does  *)
(* takes no time; handlers and callbacks take as long as they like.        *)
(***************************************************************************)
EXTENDS Naturals, FiniteSets

CONSTANTS Servers,
          Requests,
          Callbacks,
          WaitTime, CbTimeout, CloseTime, ShutdownTimeout,
          MaxSignals          \* bound: signals sent to the process

ASSUME TimeAssumption ==
  /\ WaitTime \in Nat /\ CbTimeout \in Nat /\ CloseTime \in Nat
  /\ ShutdownTimeout \in Nat
  /\ WaitTime < ShutdownTimeout
ASSUME SignalAssumption == MaxSignals \in Nat

VARIABLES
  \* the process and its signals
  exit,        \* how it ended: "no" (it runs), "graceful", "signal", "timeout"
  sent,        \* the signals sent to it
  channel,     \* the signals in c, which has room for one
  guard,       \* the goroutine that forces the exit
  \* StartAndServe and shutdown
  main,        \* the step
  since,       \* when the step began
  drained,     \* when all servers were closed
  clock,
  \* the servers and their requests
  server,
  reject,      \* serverMux.reject
  request,
  at,          \* the server of a request
  \* the callbacks
  callback,
  polite       \* those that return when their context is done

signalVars == <<sent, channel>>
mainVars == <<guard, main, since, drained>>
serverVars == <<server, reject>>
requestVars == <<request, at>>
callbackVars == <<callback, polite>>
vars == <<exit, signalVars, mainVars, clock, serverVars, requestVars, callbackVars>>

Steps == {"listen", "reject", "wait", "stop", "callbacks", "close", "returned"}
AfterStop == {"callbacks", "close", "returned"}
AfterCallbacks == {"close", "returned"}

Up == exit = "no"
InFlight(s) == {r \in Requests : request[r] \in {"accepted", "serving"} /\ at[r] = s}

TypeOK ==
  /\ exit \in {"no", "graceful", "signal", "timeout"}
  /\ sent \in 0 .. MaxSignals
  /\ channel \in 0 .. 1
  /\ guard \in {"off", "waiting"}
  /\ main \in Steps
  /\ (guard = "off") <=> (main = "listen")
  /\ since \in 0 .. ShutdownTimeout /\ drained \in 0 .. ShutdownTimeout
  /\ clock \in 0 .. ShutdownTimeout
  /\ since <= clock /\ drained <= clock
  /\ server \in [Servers -> {"starting", "open", "failed", "closing", "closed"}]
  /\ reject \in [Servers -> BOOLEAN]
  /\ request \in [Requests -> {"none", "accepted", "serving", "done"}]
  /\ at \in [Requests -> Servers]
  /\ callback \in [Callbacks -> {"off", "running", "done"}]
  /\ polite \in SUBSET Callbacks

\* NewServer, NewApp and StartAndServe up to its select.
Init ==
  /\ exit = "no"
  /\ sent = 0 /\ channel = 0
  /\ guard = "off" /\ main = "listen" /\ since = 0 /\ drained = 0 /\ clock = 0
  /\ server = [s \in Servers |-> "starting"]
  /\ reject = [s \in Servers |-> FALSE]
  /\ request = [r \in Requests |-> "none"]
  /\ at \in [Requests -> Servers]
  /\ callback = [b \in Callbacks |-> "off"]
  /\ polite \in SUBSET Callbacks

-----------------------------------------------------------------------------
(* Signals, and the exits they force.                                      *)

\* Mutant: room for one signal more.
SignalBuffered ==
  /\ Up
  /\ sent < MaxSignals
  /\ sent' = sent + 1
  /\ channel' = IF channel = 2 THEN 2 ELSE channel + 1
  /\ UNCHANGED <<exit, mainVars, clock, serverVars, requestVars, callbackVars>>

\* signal.Notify drops a signal for which the channel has no room.
Signal ==
  /\ Up
  /\ sent < MaxSignals
  /\ sent' = sent + 1
  /\ channel' = 1
  /\ UNCHANGED <<exit, mainVars, clock, serverVars, requestVars, callbackVars>>

SecondSignal ==
  /\ Up
  /\ guard = "waiting"
  /\ channel > 0
  /\ channel' = channel - 1
  /\ exit' = "signal"
  /\ UNCHANGED <<sent, mainVars, clock, serverVars, requestVars, callbackVars>>

\* Mutant: the time-out is looked at only after the servers are closed.
TimeoutAfterStop ==
  /\ Up
  /\ guard = "waiting"
  /\ clock >= ShutdownTimeout
  /\ main \in AfterStop
  /\ exit' = "timeout"
  /\ UNCHANGED <<signalVars, mainVars, clock, serverVars, requestVars, callbackVars>>

Timeout ==
  /\ Up
  /\ guard = "waiting"
  /\ clock >= ShutdownTimeout
  /\ exit' = "timeout"
  /\ UNCHANGED <<signalVars, mainVars, clock, serverVars, requestVars, callbackVars>>

-----------------------------------------------------------------------------
(* The servers: Start in a goroutine, ServeHTTP, and http.Server.          *)

\* ListenAndServe, which fails when the address is taken.
Start(s) ==
  /\ Up
  /\ server[s] = "starting"
  /\ \E outcome \in {"open", "failed"} : server' = [server EXCEPT ![s] = outcome]
  /\ UNCHANGED <<exit, signalVars, mainVars, clock, reject, requestVars, callbackVars>>

Accept(r) ==
  /\ Up
  /\ request[r] = "none"
  /\ server[at[r]] = "open"
  /\ request' = [request EXCEPT ![r] = "accepted"]
  /\ UNCHANGED <<exit, signalVars, mainVars, clock, serverVars, at, callbackVars>>

\* Request and shutdown share reject without a lock; the write is seen at the
\* latest when the writer goes to sleep, which takes locks of the runtime.
ServeHTTP(r) ==
  /\ Up
  /\ request[r] = "accepted"
  /\ request' = [request EXCEPT ![r] = IF reject[at[r]] THEN "done" ELSE "serving"]
  /\ UNCHANGED <<exit, signalVars, mainVars, clock, serverVars, at, callbackVars>>

HandlerReturns(r) ==
  /\ Up
  /\ request[r] = "serving"
  /\ request' = [request EXCEPT ![r] = "done"]
  /\ UNCHANGED <<exit, signalVars, mainVars, clock, serverVars, at, callbackVars>>

\* http.Server.Shutdown returns when no connection is active.
ShutdownReturns(s) ==
  /\ Up
  /\ server[s] = "closing"
  /\ InFlight(s) = {}
  /\ server' = [server EXCEPT ![s] = "closed"]
  /\ UNCHANGED <<exit, signalVars, mainVars, clock, reject, requestVars, callbackVars>>

-----------------------------------------------------------------------------
(* StartAndServe after its select, and the steps of shutdown.              *)

Enter(step) ==
  /\ main' = step
  /\ since' = clock

ReceiveSignal ==
  /\ Up
  /\ main = "listen"
  /\ channel > 0
  /\ channel' = channel - 1
  /\ guard' = "waiting"
  /\ Enter("reject")
  /\ UNCHANGED <<exit, sent, drained, clock, serverVars, requestVars, callbackVars>>

RejectReq(s) ==
  /\ Up
  /\ main = "reject"
  /\ ~reject[s]
  /\ reject' = [reject EXCEPT ![s] = TRUE]
  /\ UNCHANGED <<exit, signalVars, mainVars, clock, server, requestVars, callbackVars>>

\* Mutant: the loop ends after one server.
WaitCompletingEarly ==
  /\ Up
  /\ main = "reject"
  /\ \E s \in Servers : reject[s]
  /\ Enter("wait")
  /\ UNCHANGED <<exit, signalVars, guard, drained, clock, serverVars, requestVars, callbackVars>>

WaitCompleting ==
  /\ Up
  /\ main = "reject"
  /\ \A s \in Servers : reject[s]
  /\ Enter("wait")
  /\ UNCHANGED <<exit, signalVars, guard, drained, clock, serverVars, requestVars, callbackVars>>

CloseServers ==
  /\ Up
  /\ main = "wait"
  /\ clock >= since + WaitTime
  /\ Enter("stop")
  /\ UNCHANGED <<exit, signalVars, guard, drained, clock, serverVars, requestVars, callbackVars>>

\* Each in a goroutine of its own, with a context that is never done.
Stop(s) ==
  /\ Up
  /\ main = "stop"
  /\ server[s] \in {"starting", "open", "failed"}
  /\ server' = [server EXCEPT ![s] = "closing"]
  /\ UNCHANGED <<exit, signalVars, mainVars, clock, reject, requestVars, callbackVars>>

\* Mutant: no wg.Wait before the callbacks.
RunCallbacksAtOnce ==
  /\ Up
  /\ main = "stop"
  /\ \A s \in Servers : server[s] \in {"closing", "closed"}
  /\ Enter("callbacks")
  /\ drained' = clock
  /\ callback' = [b \in Callbacks |-> "running"]
  /\ UNCHANGED <<exit, signalVars, guard, clock, serverVars, requestVars, polite>>

RunCallbacks ==
  /\ Up
  /\ main = "stop"
  /\ \A s \in Servers : server[s] = "closed"
  /\ Enter("callbacks")
  /\ drained' = clock
  /\ callback' = [b \in Callbacks |-> "running"]
  /\ UNCHANGED <<exit, signalVars, guard, clock, serverVars, requestVars, polite>>

CallbackReturns(b) ==
  /\ Up
  /\ callback[b] = "running"
  /\ callback' = [callback EXCEPT ![b] = "done"]
  /\ UNCHANGED <<exit, signalVars, mainVars, clock, serverVars, requestVars, polite>>

Close ==
  /\ Up
  /\ main = "callbacks"
  /\ \A b \in Callbacks : callback[b] = "done"
  /\ Enter("close")
  /\ UNCHANGED <<exit, signalVars, guard, drained, clock, serverVars, requestVars, callbackVars>>

\* close sleeps for a second; with StartAndServe the process's main ends.
Return ==
  /\ Up
  /\ main = "close"
  /\ clock >= since + CloseTime
  /\ Enter("returned")
  /\ exit' = "graceful"
  /\ UNCHANGED <<signalVars, guard, drained, clock, serverVars, requestVars, callbackVars>>

-----------------------------------------------------------------------------
(* Time.                                                                   *)

\* Mutant: the callbacks' contexts have the time-out of the whole shutdown.
CallbackDeadlineLate == since + ShutdownTimeout

CallbackDeadline == since + CbTimeout

\* The program, or a callback that minds its context, has something to do now.
Due ==
  \/ channel > 0 \/ clock >= ShutdownTimeout
  \/ main = "reject"
  \/ main = "wait" /\ clock >= since + WaitTime
  \/ main = "stop" /\ \A s \in Servers : InFlight(s) = {}
  \/ main = "callbacks" /\ \A b \in Callbacks : callback[b] = "done"
  \/ /\ main = "callbacks" /\ clock >= CallbackDeadline
     /\ \E b \in polite : callback[b] = "running"
  \/ main = "close" /\ clock >= since + CloseTime

Tick ==
  /\ Up
  /\ guard = "waiting"
  /\ ~Due
  /\ clock' = clock + 1
  /\ UNCHANGED <<exit, signalVars, mainVars, serverVars, requestVars, callbackVars>>

-----------------------------------------------------------------------------
(* The specification.                                                      *)

MainStep == ReceiveSignal \/ WaitCompleting \/ CloseServers \/ RunCallbacks \/ Close \/ Return
GuardStep == SecondSignal \/ Timeout
ServerStep(s) == RejectReq(s) \/ Stop(s) \/ ShutdownReturns(s)
RequestStep(r) == Accept(r) \/ ServeHTTP(r) \/ HandlerReturns(r)

Next ==
  \/ MainStep \/ GuardStep \/ Signal \/ Tick
  \/ \E s \in Servers : Start(s) \/ ServerStep(s)
  \/ \E r \in Requests : RequestStep(r)
  \/ \E b \in Callbacks : CallbackReturns(b)

Spec == Init /\ [][Next]_vars

\* Goroutines that can run do, time goes on, and callbacks that mind their
\* context return.  Handlers and the other callbacks need never do.
Fairness ==
  /\ WF_vars(MainStep) /\ WF_vars(GuardStep) /\ WF_vars(Tick)
  /\ \A s \in Servers : WF_vars(ServerStep(s))
  /\ \A b \in Callbacks : WF_vars(b \in polite /\ CallbackReturns(b))

FairSpec == Spec /\ Fairness

-----------------------------------------------------------------------------
(* Correctness.                                                            *)

\* The comments in closeServers and runCallbacks: a step begins when the one
\* before it has ended everywhere.  So no callback runs while a request is being
\* served or may yet be, and nothing is released under a running callback.
StepsInOrder ==
  /\ main \in AfterStop => \A s \in Servers : server[s] = "closed" /\ InFlight(s) = {}
  /\ main \in AfterCallbacks => \A b \in Callbacks : callback[b] = "done"

\* Once shutdown waits for the requests in flight, no other request passes the
\* check in ServeHTTP, on any server, however early it was accepted.
NoNewRequests ==
  [][main \notin {"listen", "reject"} =>
       \A r \in Requests : request'[r] = "serving" => request[r] = "serving"]_vars

\* The time-out is for requests that take too long: it does not force the exit
\* when the servers were closed in time for the callbacks and the release, and
\* the callbacks mind their contexts.
TimeoutOnlyForSlowRequests ==
  exit = "timeout" /\ polite = Callbacks =>
    main = "stop" \/ drained + CbTimeout + CloseTime >= ShutdownTimeout

\* A signal ends the process, whatever handlers and callbacks do.
SignalEndsProcess == sent > 0 ~> ~Up
================================================================================
