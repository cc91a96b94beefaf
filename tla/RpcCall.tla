-------------------------------- MODULE RpcCall --------------------------------
(***************************************************************************)
(* The RPC framework of rpc/homework1.  A call of a service's stub is an   *)
(* Invoke, which leaves the work to a goroutine (doInvoke) and returns     *)
(* when that is done or when its context is.  The goroutine takes a        *)
(* connection from a pool, writes one request and reads one message; a     *)
(* server goroutine per connection (handleConn) reads requests and writes  *)
(* responses.  A connection is a pair of byte streams, kept as sequences   *)
(* of messages.                                                            *)
(***************************************************************************)
EXTENDS Naturals, Sequences

CONSTANTS Calls,       \* the calls of one client
          NoCall,
          Plain,       \* bound: calls with an answer, to a known service, with a numeric timeout
          Conns,       \* the connections its pool may open
          NoConn,
          MaxBreaks    \* bound: connections that break or are misread

ASSUME CallAssumption == NoCall \notin Calls /\ Plain \subseteq Calls
ASSUME ConnAssumption == NoConn \notin Conns
ASSUME BreakAssumption == MaxBreaks \in Nat

VARIABLES
  shape,       \* what each call asks for
  \* the caller of Invoke
  caller,      \* where it is
  told,        \* what it was told
  ctxDone,     \* its context is done
  \* doInvoke
  worker,      \* where the goroutine is
  conn,        \* the connection it took
  result,      \* what it returns, and for which call that was made
  \* the pool and the connections
  idle,        \* the connections that can still be taken (or opened)
  requests,    \* the messages on their way to the server
  responses,   \* the messages on their way back
  breaks,
  \* the server
  server,      \* where handleConn is, per connection
  serving,     \* the call whose request it has read
  runs         \* how often the service has run for each call

callerVars == <<caller, told>>
workerVars == <<worker, conn, result>>
streamVars == <<requests, responses>>
serverVars == <<server, serving, runs>>
vars == <<shape, callerVars, ctxDone, workerVars, idle, streamVars, breaks, serverVars>>

\* oneway: Meta["oneway"] is set; known: the service is registered;
\* badTimeout: Meta["timeout"] is not a number (an Invoke without InitService).
Shapes == [oneway : BOOLEAN, known : BOOLEAN, badTimeout : BOOLEAN]
PlainShape == [oneway |-> FALSE, known |-> TRUE, badTimeout |-> FALSE]

Message(c, k) == [call |-> c, kind |-> k]
Messages == [call : Calls, kind : {"value", "error"}]
NoResult == Message(NoCall, "none")
Failed   == Message(NoCall, "error")

TypeOK ==
  /\ shape \in [Calls -> Shapes]
  /\ caller \in [Calls -> {"idle", "waiting", "returned"}]
  /\ told \in [Calls -> {"none", "value", "noData", "failed", "ctx"}]
  /\ \A c \in Calls : (caller[c] = "returned") <=> (told[c] # "none")
  /\ ctxDone \in [Calls -> BOOLEAN]
  /\ worker \in [Calls -> {"off", "get", "write", "read", "done"}]
  /\ conn \in [Calls -> Conns \union {NoConn}]
  /\ \A c \in Calls : worker[c] \in {"write", "read"} => conn[c] # NoConn
  /\ result \in [Calls -> Messages \union {NoResult, Failed}]
  /\ idle \in SUBSET Conns
  /\ requests \in [Conns -> Seq(Calls)]
  /\ responses \in [Conns -> Seq(Messages)]
  /\ breaks \in 0 .. MaxBreaks
  /\ server \in [Conns -> {"reading", "serving", "closed"}]
  /\ serving \in [Conns -> Calls \union {NoCall}]
  /\ \A k \in Conns : (server[k] = "serving") <=> (serving[k] # NoCall)
  /\ runs \in [Calls -> 0 .. 1]

\* Earlier calls may have taken any of the connections.
Init ==
  /\ shape \in [Calls -> Shapes]
  /\ \A c \in Plain : shape[c] = PlainShape
  /\ caller = [c \in Calls |-> "idle"]
  /\ told = [c \in Calls |-> "none"]
  /\ ctxDone = [c \in Calls |-> FALSE]
  /\ worker = [c \in Calls |-> "off"]
  /\ conn = [c \in Calls |-> NoConn]
  /\ result = [c \in Calls |-> NoResult]
  /\ idle \in SUBSET Conns
  /\ requests = [k \in Conns |-> <<>>]
  /\ responses = [k \in Conns |-> <<>>]
  /\ breaks = 0
  /\ server = [k \in Conns |-> "reading"]
  /\ serving = [k \in Conns |-> NoCall]
  /\ runs = [c \in Calls |-> 0]

-----------------------------------------------------------------------------
(* Client.Invoke and the stub around it.                                   *)

Tell(c, what) ==
  /\ caller' = [caller EXCEPT ![c] = "returned"]
  /\ told' = [told EXCEPT ![c] = what]

\* The goroutine starts, unless the context is done already.
Invoke(c) ==
  /\ caller[c] = "idle"
  /\ IF ctxDone[c]
       THEN Tell(c, "ctx") /\ UNCHANGED worker
       ELSE /\ caller' = [caller EXCEPT ![c] = "waiting"]
            /\ worker' = [worker EXCEPT ![c] = "get"]
            /\ UNCHANGED told
  /\ UNCHANGED <<shape, ctxDone, conn, result, idle, streamVars, breaks, serverVars>>

\* Mutant: a response that carries an error has a value as well.
ToldUnlessFailed(c) == IF result[c] = Failed THEN "failed" ELSE "value"

\* What the stub makes of doInvoke's result.  It does not look at the Error of
\* a response: one that carries an error has no data, which does not decompress.
Told(c) ==
  CASE result[c] = Failed       -> "failed"
    [] result[c].kind = "value" -> "value"
    [] OTHER                    -> "noData"

\* case <-ch
ReturnResult(c) ==
  /\ caller[c] = "waiting"
  /\ worker[c] = "done"
  /\ Tell(c, Told(c))
  /\ UNCHANGED <<shape, ctxDone, workerVars, idle, streamVars, breaks, serverVars>>

\* Mutant: the context is looked at only once the result is there.
ReturnCtxLate(c) ==
  /\ caller[c] = "waiting"
  /\ ctxDone[c]
  /\ worker[c] = "done"
  /\ Tell(c, "ctx")
  /\ UNCHANGED <<shape, ctxDone, workerVars, idle, streamVars, breaks, serverVars>>

\* case <-ctx.Done(): the goroutine goes on alone.
ReturnCtx(c) ==
  /\ caller[c] = "waiting"
  /\ ctxDone[c]
  /\ Tell(c, "ctx")
  /\ UNCHANGED <<shape, ctxDone, workerVars, idle, streamVars, breaks, serverVars>>

CtxDone(c) ==
  /\ ~ctxDone[c]
  /\ caller[c] # "returned"
  /\ ctxDone' = [ctxDone EXCEPT ![c] = TRUE]
  /\ UNCHANGED <<shape, callerVars, workerVars, idle, streamVars, breaks, serverVars>>

-----------------------------------------------------------------------------
(* doInvoke.                                                               *)

WorkerEnds(c, res) ==
  /\ worker' = [worker EXCEPT ![c] = "done"]
  /\ result' = [result EXCEPT ![c] = res]

\* connPool.Get; no path of doInvoke puts the connection back.
Get(c) ==
  /\ worker[c] = "get"
  /\ \E k \in idle :
       /\ conn' = [conn EXCEPT ![c] = k]
       /\ idle' = idle \ {k}
  /\ worker' = [worker EXCEPT ![c] = "write"]
  /\ UNCHANGED <<shape, callerVars, ctxDone, result, streamVars, breaks, serverVars>>

\* Get may dial in vain.  With every connection taken it waits, for nobody.
GetFails(c) ==
  /\ worker[c] = "get"
  /\ idle # {}
  /\ WorkerEnds(c, Failed)
  /\ UNCHANGED <<shape, callerVars, ctxDone, conn, idle, streamVars, breaks, serverVars>>

\* What is written to a connection that the server has closed is lost.
Write(c) ==
  /\ worker[c] = "write"
  /\ requests' = [requests EXCEPT ![conn[c]] =
                    IF server[conn[c]] = "closed" THEN @ ELSE Append(@, c)]
  /\ worker' = [worker EXCEPT ![c] = "read"]
  /\ UNCHANGED <<shape, callerVars, ctxDone, conn, result, idle, responses, breaks, serverVars>>

\* ReadMsg and DecodeResp: the first message that arrives, whatever its
\* MessageId.
Read(c) ==
  /\ worker[c] = "read"
  /\ responses[conn[c]] # <<>>
  /\ WorkerEnds(c, Head(responses[conn[c]]))
  /\ responses' = [responses EXCEPT ![conn[c]] = Tail(@)]
  /\ UNCHANGED <<shape, callerVars, ctxDone, conn, idle, requests, breaks, serverVars>>

\* A write that fails, or ends short.
WriteFails(c) ==
  /\ worker[c] = "write"
  /\ server[conn[c]] = "closed"
  /\ WorkerEnds(c, Failed)
  /\ UNCHANGED <<shape, callerVars, ctxDone, conn, idle, streamVars, breaks, serverVars>>

\* The server closed the connection before it answered, or the first Read
\* returned a part of the eight bytes of the lengths.
ReadFails(c) ==
  /\ worker[c] = "read"
  /\ \/ /\ responses[conn[c]] = <<>>
        /\ server[conn[c]] = "closed"
        /\ UNCHANGED <<responses, breaks>>
     \/ /\ responses[conn[c]] # <<>>
        /\ breaks < MaxBreaks
        /\ breaks' = breaks + 1
        /\ responses' = [responses EXCEPT ![conn[c]] = Tail(@)]
  /\ WorkerEnds(c, Failed)
  /\ UNCHANGED <<shape, callerVars, ctxDone, conn, idle, requests, serverVars>>

-----------------------------------------------------------------------------
(* handleConn, per connection.                                             *)

Respond(k, c, kind) ==
  responses' = [responses EXCEPT ![k] = Append(@, Message(c, kind))]

\* Mutant: an unknown service is not answered.
ReadRequestSilent(k) ==
  /\ server[k] = "reading"
  /\ requests[k] # <<>>
  /\ requests' = [requests EXCEPT ![k] = Tail(@)]
  /\ LET c == Head(requests[k]) IN
       IF ~shape[c].known
         THEN UNCHANGED <<server, serving, responses>>
         ELSE /\ server' = [server EXCEPT ![k] = "serving"]
              /\ serving' = [serving EXCEPT ![k] = c]
              /\ IF shape[c].badTimeout THEN Respond(k, c, "error") ELSE UNCHANGED responses
  /\ UNCHANGED <<shape, callerVars, ctxDone, workerVars, idle, breaks, runs>>

\* ReadMsg, and what comes before service.invoke.  An unknown service is
\* answered with an error; so is a timeout that is not a number, but the
\* service is called all the same, as continue is the inner loop's.
ReadRequest(k) ==
  /\ server[k] = "reading"
  /\ requests[k] # <<>>
  /\ requests' = [requests EXCEPT ![k] = Tail(@)]
  /\ LET c == Head(requests[k]) IN
       IF ~shape[c].known
         THEN /\ Respond(k, c, "error")
              /\ UNCHANGED <<server, serving>>
         ELSE /\ server' = [server EXCEPT ![k] = "serving"]
              /\ serving' = [serving EXCEPT ![k] = c]
              /\ IF shape[c].badTimeout THEN Respond(k, c, "error") ELSE UNCHANGED responses
  /\ UNCHANGED <<shape, callerVars, ctxDone, workerVars, idle, breaks, runs>>

\* Mutant: the loop does not go on to the next request.
BackToReadStuck(k) ==
  /\ server' = [server EXCEPT ![k] = "reading"]
  /\ UNCHANGED serving

BackToRead(k) ==
  /\ server' = [server EXCEPT ![k] = "reading"]
  /\ serving' = [serving EXCEPT ![k] = NoCall]

\* A one-way call is not answered.
Answer(k, kind) ==
  IF shape[serving[k]].oneway
    THEN UNCHANGED responses
    ELSE Respond(k, serving[k], kind)

\* service.invoke runs the method, which returns a value or an error (so does
\* the compression of the value).
InvokeService(k) ==
  /\ server[k] = "serving"
  /\ runs' = [runs EXCEPT ![serving[k]] = @ + 1]
  /\ \E kind \in {"value", "error"} : Answer(k, kind)
  /\ BackToRead(k)
  /\ UNCHANGED <<shape, callerVars, ctxDone, workerVars, idle, requests, breaks>>

\* service.invoke knows no such serializer or compressor, or cannot decode.
RejectRequest(k) ==
  /\ server[k] = "serving"
  /\ Answer(k, "error")
  /\ BackToRead(k)
  /\ UNCHANGED <<shape, callerVars, ctxDone, workerVars, idle, requests, breaks, runs>>

\* The connection breaks, or the eight bytes of a request's lengths arrive in
\* two parts: handleConn returns an error and the connection is closed.
ServerFails(k) ==
  /\ server[k] # "closed"
  /\ breaks < MaxBreaks
  /\ breaks' = breaks + 1
  /\ server' = [server EXCEPT ![k] = "closed"]
  /\ serving' = [serving EXCEPT ![k] = NoCall]
  /\ requests' = [requests EXCEPT ![k] = <<>>]
  /\ UNCHANGED <<shape, callerVars, ctxDone, workerVars, idle, responses, runs>>

\* The method, or the look-up of one that does not exist, panics, which ends
\* the server process with all its connections.
ServicePanics(k) ==
  /\ server[k] = "serving"
  /\ runs' \in {runs, [runs EXCEPT ![serving[k]] = @ + 1]}
  /\ server' = [j \in Conns |-> "closed"]
  /\ serving' = [j \in Conns |-> NoCall]
  /\ requests' = [j \in Conns |-> <<>>]
  /\ UNCHANGED <<shape, callerVars, ctxDone, workerVars, idle, responses, breaks>>

-----------------------------------------------------------------------------
(* The specification.                                                      *)

CallerStep(c) == ReturnResult(c) \/ ReturnCtx(c)
WorkerStep(c) ==
  Get(c) \/ GetFails(c) \/ Write(c) \/ WriteFails(c) \/ Read(c) \/ ReadFails(c)
ServerStep(k) == ReadRequest(k) \/ InvokeService(k) \/ RejectRequest(k) \/ ServicePanics(k)

Next ==
  \/ \E c \in Calls : Invoke(c) \/ CallerStep(c) \/ CtxDone(c) \/ WorkerStep(c)
  \/ \E k \in Conns : ServerStep(k) \/ ServerFails(k)

Spec == Init /\ [][Next]_vars

\* Goroutines that can run do, and services return.  No call has to be made, no
\* context to end, and nothing frees a pool whose connections are all taken.
Fairness ==
  /\ \A c \in Calls : WF_vars(CallerStep(c)) /\ WF_vars(WorkerStep(c))
  /\ \A k \in Conns : WF_vars(ServerStep(k))

FairSpec == Spec /\ Fairness

-----------------------------------------------------------------------------
(* Correctness.                                                            *)

\* What c was told; a value is the one of the call in whose response it came.
ToldOf(c) ==
  CASE told[c] = "none"  -> <<"none">>
    [] told[c] = "value" -> <<"value", result[c].call>>
    [] OTHER             -> <<"error">>

\* A call is what AtMostOnce promises: the service runs at most once for it, and
\* it returns a value only if the service has run for this very call, and only the
\* value of that run, although responses are not matched with requests, abandoned
\* goroutines go on reading and a request may get two responses.
Call == INSTANCE AtMostOnce WITH told <- [c \in Calls |-> ToldOf(c)]

ImplementsCall == Call!Spec

\* A call whose context is over returns, wherever its goroutine waits: for a
\* connection, for a response that was lost or for one that is never sent.
ContextEndsCall ==
  \A c \in Calls : caller[c] = "waiting" /\ ctxDone[c] ~> caller[c] = "returned"

\* A call that expects an answer and got a connection returns, with no help of
\* its context: the server answers every request of it, or closes the
\* connection.
AnswerEndsCall ==
  \A c \in Calls :
    worker[c] = "write" /\ ~shape[c].oneway ~> caller[c] = "returned"

\* The comments in handleConn and in invoke: the server returns an error message
\* to the client.  So a call that was answered with an error is told that error.
ErrorIsTold == \A c \in Calls : told[c] # "noData"
================================================================================
