---------------------------- MODULE ShutdownProofs ----------------------------
(***************************************************************************)
(* Proofs about Shutdown, for any servers, requests, callbacks and times:  *)
(* the order of its steps, and when its time-out may force the exit.       *)
(***************************************************************************)
EXTENDS Shutdown, TLAPS

USE TimeAssumption, SignalAssumption
USE DEF signalVars, mainVars, serverVars, requestVars, callbackVars, Up

\* Servers that are closed have nothing in flight and stay closed; all of them
\* reject when shutdown waits; callbacks are started together.
Order ==
  /\ \A s \in Servers : server[s] = "closed" => InFlight(s) = {}
  /\ main \notin {"listen", "reject"} => \A s \in Servers : reject[s]
  /\ main \in AfterStop =>
       /\ \A s \in Servers : server[s] = "closed"
       /\ \A b \in Callbacks : callback[b] \in {"running", "done"}
  /\ main \in AfterCallbacks => \A b \in Callbacks : callback[b] = "done"

\* How far the clock gets in each step.
Timing ==
  /\ main \in {"listen", "reject"} => clock = 0
  /\ main = "wait" => since = 0 /\ clock <= WaitTime
  /\ main = "callbacks" => since = drained /\ (polite = Callbacks => clock <= drained + CbTimeout)
  /\ main = "close" =>
       clock <= since + CloseTime /\ (polite = Callbacks => since <= drained + CbTimeout)
  /\ main = "returned" => exit = "graceful"

ShutdownInv == TypeOK /\ Order /\ Timing /\ TimeoutOnlyForSlowRequests

-----------------------------------------------------------------------------
(* Type correctness.                                                       *)

LEMMA TypeInit == Init => TypeOK
BY DEF Init, TypeOK, Steps

LEMMA MainKeepsType ==
  ASSUME TypeOK, MainStep
  PROVE  TypeOK'
<1> USE DEF TypeOK, Steps, Enter
<1>1. CASE ReceiveSignal
  BY <1>1 DEF ReceiveSignal
<1>2. CASE WaitCompleting
  BY <1>2 DEF WaitCompleting
<1>3. CASE CloseServers
  BY <1>3 DEF CloseServers
<1>4. CASE RunCallbacks
  BY <1>4 DEF RunCallbacks
<1>5. CASE Close
  BY <1>5 DEF Close
<1>6. CASE Return
  BY <1>6 DEF Return
<1> QED BY <1>1, <1>2, <1>3, <1>4, <1>5, <1>6 DEF MainStep

LEMMA OthersKeepType ==
  ASSUME TypeOK,
         \/ GuardStep \/ Signal \/ Tick
         \/ \E s \in Servers : Start(s) \/ ServerStep(s)
         \/ \E r \in Requests : RequestStep(r)
         \/ \E b \in Callbacks : CallbackReturns(b)
  PROVE  TypeOK'
<1> USE DEF TypeOK, Steps
<1>1. CASE GuardStep
  BY <1>1 DEF GuardStep, SecondSignal, Timeout
<1>2. CASE Signal
  BY <1>2 DEF Signal
<1>3. CASE Tick
  BY <1>3 DEF Tick, Due
<1>4. ASSUME NEW s \in Servers, Start(s) \/ ServerStep(s) PROVE TypeOK'
  BY <1>4 DEF Start, ServerStep, RejectReq, Stop, ShutdownReturns
<1>5. ASSUME NEW r \in Requests, RequestStep(r) PROVE TypeOK'
  BY <1>5 DEF RequestStep, Accept, ServeHTTP, HandlerReturns
<1>6. ASSUME NEW b \in Callbacks, CallbackReturns(b) PROVE TypeOK'
  BY <1>6 DEF CallbackReturns
<1> QED BY <1>1, <1>2, <1>3, <1>4, <1>5, <1>6

LEMMA TypeStep == TypeOK /\ [Next]_vars => TypeOK'
<1> SUFFICES ASSUME TypeOK, [Next]_vars PROVE TypeOK'
  OBVIOUS
<1>1. CASE UNCHANGED vars
  BY <1>1 DEF vars, TypeOK
<1>2. CASE Next
  BY <1>2, MainKeepsType, OthersKeepType DEF Next
<1> QED BY <1>1, <1>2

\* Every reachable state is well typed, whatever the sets and the times.
THEOREM TypeCorrect == Spec => []TypeOK
BY TypeInit, TypeStep, PTL DEF Spec

-----------------------------------------------------------------------------
(* The order of the steps.                                                 *)

\* What is in flight at a server depends on its requests only.
LEMMA InFlightSame ==
  ASSUME TypeOK, UNCHANGED requestVars, NEW s \in Servers
  PROVE  InFlight(s)' = InFlight(s)
BY DEF InFlight

LEMMA MainKeepsOrder ==
  ASSUME ShutdownInv, MainStep
  PROVE  Order'
<1> USE DEF ShutdownInv, Order, Enter, AfterStop, AfterCallbacks
<1>1. UNCHANGED <<server, reject, request, at, polite>>
  BY DEF MainStep, ReceiveSignal, WaitCompleting, CloseServers, RunCallbacks, Close, Return
<1>2. \A s \in Servers : server'[s] = "closed" => InFlight(s)' = {}
  BY <1>1, InFlightSame
<1>3. CASE ReceiveSignal
  BY <1>1, <1>2, <1>3 DEF ReceiveSignal
<1>4. CASE WaitCompleting
  BY <1>1, <1>2, <1>4 DEF WaitCompleting
<1>5. CASE CloseServers
  BY <1>1, <1>2, <1>5 DEF CloseServers
<1>6. CASE RunCallbacks
  BY <1>1, <1>2, <1>6 DEF RunCallbacks
<1>7. CASE Close
  BY <1>1, <1>2, <1>7 DEF Close
<1>8. CASE Return
  BY <1>1, <1>2, <1>8 DEF Return
<1> QED BY <1>3, <1>4, <1>5, <1>6, <1>7, <1>8 DEF MainStep

LEMMA ServersKeepOrder ==
  ASSUME ShutdownInv, NEW s \in Servers, Start(s) \/ ServerStep(s)
  PROVE  Order'
<1> USE DEF ShutdownInv, Order, TypeOK
<1>1. UNCHANGED <<main, request, at, callback>>
  BY DEF Start, ServerStep, RejectReq, Stop, ShutdownReturns
<1>2. \A t \in Servers : InFlight(t)' = InFlight(t)
  BY <1>1, InFlightSame
<1>3. \A t \in Servers : server'[t] = "closed" => InFlight(t)' = {}
  BY <1>2 DEF Start, ServerStep, RejectReq, Stop, ShutdownReturns
<1>4. \A t \in Servers : reject[t] => reject'[t]
  BY DEF Start, ServerStep, RejectReq, Stop, ShutdownReturns
<1>5. \A t \in Servers : server[t] = "closed" => server'[t] = "closed"
  BY DEF Start, ServerStep, RejectReq, Stop, ShutdownReturns
<1> QED BY <1>1, <1>3, <1>4, <1>5

\* A request that is accepted is at an open server.
LEMMA RequestsKeepOrder ==
  ASSUME ShutdownInv, NEW r \in Requests, RequestStep(r)
  PROVE  Order'
<1> USE DEF ShutdownInv, TypeOK
<1>1. UNCHANGED <<main, server, reject, at, callback>>
  BY DEF RequestStep, Accept, ServeHTTP, HandlerReturns
<1>2. ASSUME NEW s \in Servers, server[s] = "closed" PROVE InFlight(s)' \subseteq InFlight(s)
  <2>1. CASE Accept(r)
    BY <1>1, <1>2, <2>1 DEF Accept, InFlight
  <2>2. CASE ServeHTTP(r) \/ HandlerReturns(r)
    BY <1>1, <2>2 DEF ServeHTTP, HandlerReturns, InFlight
  <2> QED BY <2>1, <2>2 DEF RequestStep
<1>3. \A s \in Servers : server'[s] = "closed" => InFlight(s)' = {}
  BY <1>1, <1>2 DEF Order
<1> QED BY <1>1, <1>3 DEF Order

LEMMA OthersKeepOrder ==
  ASSUME ShutdownInv,
         GuardStep \/ Signal \/ Tick \/ \E b \in Callbacks : CallbackReturns(b)
  PROVE  Order'
<1> USE DEF ShutdownInv, Order, TypeOK
<1>1. UNCHANGED <<main, server, reject, request, at>>
  BY DEF GuardStep, SecondSignal, Timeout, Signal, Tick, CallbackReturns
<1>2. \A s \in Servers : InFlight(s)' = InFlight(s)
  BY <1>1, InFlightSame
<1>3. \A b \in Callbacks : callback'[b] = callback[b] \/ callback'[b] = "done"
  BY DEF GuardStep, SecondSignal, Timeout, Signal, Tick, CallbackReturns
<1> QED BY <1>1, <1>2, <1>3

-----------------------------------------------------------------------------
(* The clock.                                                              *)

LEMMA MainKeepsTiming ==
  ASSUME ShutdownInv, MainStep
  PROVE  Timing' /\ TimeoutOnlyForSlowRequests'
<1> USE DEF ShutdownInv, Timing, TypeOK, Enter, TimeoutOnlyForSlowRequests
<1>1. UNCHANGED clock
  BY DEF MainStep, ReceiveSignal, WaitCompleting, CloseServers, RunCallbacks, Close, Return
<1>2. exit' # "timeout"
  BY DEF MainStep, ReceiveSignal, WaitCompleting, CloseServers, RunCallbacks, Close, Return
<1>3. CASE ReceiveSignal
  BY <1>2, <1>3 DEF ReceiveSignal
<1>4. CASE WaitCompleting
  BY <1>2, <1>4 DEF WaitCompleting
<1>5. CASE CloseServers
  BY <1>2, <1>5 DEF CloseServers
<1>6. CASE RunCallbacks
  BY <1>2, <1>6 DEF RunCallbacks
<1>7. CASE Close
  BY <1>2, <1>7 DEF Close
<1>8. CASE Return
  BY <1>2, <1>8 DEF Return
<1> QED BY <1>3, <1>4, <1>5, <1>6, <1>7, <1>8 DEF MainStep

\* Where main is when the time-out is over.
LEMMA GuardKeepsTiming ==
  ASSUME ShutdownInv, GuardStep
  PROVE  Timing' /\ TimeoutOnlyForSlowRequests'
<1> USE DEF ShutdownInv, Timing, TypeOK, TimeoutOnlyForSlowRequests
<1>1. CASE SecondSignal
  BY <1>1 DEF SecondSignal
<1>2. CASE Timeout
  <2>1. Timing'
    BY <1>2 DEF Timeout
  <2>2. main \in {"stop", "callbacks", "close"}
    BY <1>2 DEF Timeout, Steps
  <2>3. polite = Callbacks => main = "stop" \/ drained + CbTimeout + CloseTime >= ShutdownTimeout
    BY <1>2, <2>2 DEF Timeout
  <2> QED BY <1>2, <2>1, <2>3 DEF Timeout
<1> QED BY <1>1, <1>2 DEF GuardStep

LEMMA TickKeepsTiming ==
  ASSUME ShutdownInv, Tick
  PROVE  Timing' /\ TimeoutOnlyForSlowRequests'
<1> USE DEF ShutdownInv, Timing, TypeOK
<1>1. /\ clock' = clock + 1 /\ exit' = "no"
      /\ UNCHANGED <<main, since, drained, exit, polite>>
      /\ main \notin {"listen", "reject", "returned"}
  BY DEF Tick, Due
<1>2. main = "wait" => clock + 1 <= since + WaitTime
  BY DEF Tick, Due
<1>3. main = "close" => clock + 1 <= since + CloseTime
  BY DEF Tick, Due
<1>4. main = "callbacks" /\ polite = Callbacks => clock + 1 <= since + CbTimeout
  <2> SUFFICES ASSUME main = "callbacks", polite = Callbacks PROVE clock + 1 <= since + CbTimeout
    OBVIOUS
  <2>1. \E b \in Callbacks : callback[b] = "running"
    BY DEF Tick, Due, Order, AfterStop
  <2> QED BY <2>1 DEF Tick, Due, CallbackDeadline
<1> QED BY <1>1, <1>2, <1>3, <1>4 DEF TimeoutOnlyForSlowRequests

LEMMA OthersKeepTiming ==
  ASSUME ShutdownInv,
         \/ Signal
         \/ \E s \in Servers : Start(s) \/ ServerStep(s)
         \/ \E r \in Requests : RequestStep(r)
         \/ \E b \in Callbacks : CallbackReturns(b)
  PROVE  Timing' /\ TimeoutOnlyForSlowRequests'
<1>1. UNCHANGED <<exit, main, since, drained, clock, polite>>
  BY DEF Signal, Start, ServerStep, RejectReq, Stop, ShutdownReturns, RequestStep, Accept,
    ServeHTTP, HandlerReturns, CallbackReturns
<1> QED BY <1>1 DEF ShutdownInv, Timing, TimeoutOnlyForSlowRequests

-----------------------------------------------------------------------------
LEMMA InvInit == Init => ShutdownInv
<1> SUFFICES ASSUME Init PROVE ShutdownInv
  OBVIOUS
<1>1. Order
  BY DEF Init, Order, AfterStop, AfterCallbacks
<1>2. Timing /\ TimeoutOnlyForSlowRequests
  BY DEF Init, Timing, TimeoutOnlyForSlowRequests
<1> QED BY <1>1, <1>2, TypeInit DEF ShutdownInv

LEMMA InvStep == ShutdownInv /\ [Next]_vars => ShutdownInv'
<1> SUFFICES ASSUME ShutdownInv, [Next]_vars PROVE ShutdownInv'
  OBVIOUS
<1>1. TypeOK'
  BY TypeStep DEF ShutdownInv
<1>2. Order'
  <2>1. CASE UNCHANGED vars
    <3>1. \A s \in Servers : InFlight(s)' = InFlight(s)
      BY <2>1, InFlightSame DEF vars, ShutdownInv
    <3> QED BY <2>1, <3>1 DEF vars, ShutdownInv, Order
  <2>2. CASE Next
    BY <2>2, MainKeepsOrder, ServersKeepOrder, RequestsKeepOrder, OthersKeepOrder DEF Next
  <2> QED BY <2>1, <2>2
<1>3. Timing' /\ TimeoutOnlyForSlowRequests'
  <2>1. CASE UNCHANGED vars
    BY <2>1 DEF vars, ShutdownInv, Timing, TimeoutOnlyForSlowRequests
  <2>2. CASE Next
    BY <2>2, MainKeepsTiming, GuardKeepsTiming, TickKeepsTiming, OthersKeepTiming DEF Next
  <2> QED BY <2>1, <2>2
<1> QED BY <1>1, <1>2, <1>3 DEF ShutdownInv

\* Callbacks begin when every server is closed and nothing is in flight, and the
\* release when every callback has returned.
THEOREM StepsStayInOrder == Spec => []StepsInOrder
<1>1. ShutdownInv => StepsInOrder
  BY DEF ShutdownInv, Order, StepsInOrder, AfterStop, AfterCallbacks
<1> QED BY <1>1, InvInit, InvStep, PTL DEF Spec

\* The time-out forces the exit only if servers were closed too late to leave
\* time for callbacks and release, or a callback does not mind its context.
THEOREM TimeoutIsLast == Spec => []TimeoutOnlyForSlowRequests
<1>1. ShutdownInv => TimeoutOnlyForSlowRequests
  BY DEF ShutdownInv
<1> QED BY <1>1, InvInit, InvStep, PTL DEF Spec

\* After the flags are set no request passes the check in ServeHTTP.
THEOREM NoRequestAfterReject == Spec => NoNewRequests
<1>1. ASSUME ShutdownInv, [Next]_vars, main \notin {"listen", "reject"},
             NEW r \in Requests, request'[r] = "serving"
      PROVE  request[r] = "serving"
  <2> USE DEF ShutdownInv, TypeOK
  <2>1. \A q \in Requests : reject[at[q]]
    BY <1>1 DEF Order
  <2>2. CASE UNCHANGED request
    BY <1>1, <2>2
  <2>3. ASSUME NEW q \in Requests, RequestStep(q) PROVE request[r] = "serving"
    BY <1>1, <2>1, <2>3 DEF RequestStep, Accept, ServeHTTP, HandlerReturns
  <2>4. UNCHANGED request \/ \E q \in Requests : RequestStep(q)
    BY <1>1 DEF vars, Next, MainStep, ReceiveSignal, WaitCompleting, CloseServers, RunCallbacks,
      Close, Return, GuardStep, SecondSignal, Timeout, Signal, Tick, Start, ServerStep,
      RejectReq, Stop, ShutdownReturns, CallbackReturns
  <2> QED BY <2>2, <2>3, <2>4
<1>2. ShutdownInv /\ [Next]_vars =>
        [main \notin {"listen", "reject"} =>
           \A r \in Requests : request'[r] = "serving" => request[r] = "serving"]_vars
  BY <1>1
<1> QED BY <1>2, InvInit, InvStep, PTL DEF Spec, NoNewRequests
================================================================================
