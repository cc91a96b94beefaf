-------------------------------- MODULE WebServer --------------------------------
(***************************************************************************)
(* ServeHTTP of web/homework2: one request on its way through the layers   *)
(* of the server and back.  The outermost layers are the middlewares given *)
(* to Use; then comes the server's own serve, which finds the route; then  *)
(* the middlewares of the route, of which the last is the outermost; and   *)
(* the handler.  On the way back a layer reads and changes the response    *)
(* that the context keeps, which is sent at the end; a panic unwinds the   *)
(* layers until one recovers it.                                           *)
(*                                                                         *)
(* A layer named ...Panics has been given a log function that panics; so   *)
(* does the recovery layer when it has been given none.                    *)
(***************************************************************************)
EXTENDS Naturals, FiniteSets, Sequences, SequencesExt

CONSTANTS GlobalLayers,  \* the sequences of middlewares that Use may have been given
          RouteLayers,   \* those that findMdls may return
          Pages          \* the statuses that error pages are registered for

Middlewares ==
  {"recovery", "recoveryPanics", "errhdl", "accesslog", "accesslogPanics",
   "prometheus", "opentelemetry"}

\* What the handler does: it answers with a status and a body, leaves the context as
\* it is, writes to ctx.Resp itself, or panics, after setting a status or before.
\* "missing": the route has none.
Handlers == {"missing", "ok", "error", "silent", "direct", "panic", "panicLate"}

ASSUME LayerAssumption ==
  GlobalLayers \subseteq Seq(Middlewares) /\ RouteLayers \subseteq Seq(Middlewares)

VARIABLES
  handler, route,  \* what this request meets: the handler, the route's middlewares
  layers,          \* the layers entered or known to come, the outermost first
  at,              \* the layer that is running; 0: root, which flushes
  way,             \* "in", "out", "panic": running; "sent", "dropped", "exited": over
  status, data,    \* ctx.RespStatusCode and ctx.RespData
  sent,            \* the status that the client got, 0: none yet
  reporting,       \* the layers whose goroutine report has not run yet
  told,            \* [layer, status]: what was observed or put on a span
  logged           \* the layers that wrote the access log, each time

vars == <<handler, route, layers, at, way, status, data, sent, reporting, told, logged>>

Statuses == {0, 200, 404, 500}
Page(code) == [kind |-> "page", of |-> code]
Body(code) == [kind |-> "body", of |-> code]

TypeOK ==
  /\ at \in 0 .. Len(layers)
  /\ way \in {"in", "out", "panic", "sent", "dropped", "exited"}
  /\ status \in Statuses /\ sent \in Statuses
  /\ reporting \subseteq {k \in DOMAIN layers : layers[k] = "prometheus"}
  /\ \A t \in told : layers[t.layer] \in {"prometheus", "opentelemetry"} /\ t.status \in Statuses

Init ==
  /\ handler \in Handlers /\ route \in RouteLayers
  /\ \E global \in GlobalLayers : layers = global \o <<"serve">>
  /\ at = 1 /\ way = "in"
  /\ status = 0 /\ data = Body(0) /\ sent = 0
  /\ reporting = {} /\ told = {} /\ logged = <<>>

Running(w, kinds) == at > 0 /\ way = w /\ layers[at] \in kinds

-----------------------------------------------------------------------------
(* The way in.                                                             *)

Enter ==
  /\ Running("in", Middlewares)
  /\ at' = at + 1
  /\ UNCHANGED <<handler, route, layers, way, status, data, sent, reporting, told, logged>>

\* serve: the middlewares of the route are wrapped around the handler one after the
\* other, the last outermost; without a handler the status is 404 and nothing else runs.
Serve ==
  /\ Running("in", {"serve"})
  /\ IF handler = "missing"
       THEN status' = 404 /\ way' = "out" /\ UNCHANGED <<layers, at>>
       ELSE /\ layers' = layers \o Reverse(route) \o <<"handler">>
            /\ at' = at + 1
            /\ UNCHANGED <<status, way>>
  /\ UNCHANGED <<handler, route, data, sent, reporting, told, logged>>

Handle ==
  /\ Running("in", {"handler"})
  /\ status' = CASE handler \in {"ok", "panicLate"} -> 200 [] handler = "error" -> 500
                 [] OTHER -> status
  /\ data' = IF status' # status THEN Body(status') ELSE data
  /\ sent' = IF handler = "direct" THEN 200 ELSE sent
  /\ way' = IF handler \in {"panic", "panicLate"} THEN "panic" ELSE "out"
  /\ UNCHANGED <<handler, route, layers, at, reporting, told, logged>>

-----------------------------------------------------------------------------
(* The way out, after next(ctx) returned.                                  *)

Pass ==
  /\ Running("out", {"handler", "serve", "recovery", "recoveryPanics"})
  /\ at' = at - 1
  /\ UNCHANGED <<handler, route, layers, way, status, data, sent, reporting, told, logged>>

\* Mutant: the page is looked up when the layer is entered, before a status is known.
PageOfFirst == data

PageOfStatus == IF status \in Pages THEN Page(status) ELSE data

ReplaceByPage ==
  /\ Running("out", {"errhdl"})
  /\ data' = PageOfStatus
  /\ at' = at - 1
  /\ UNCHANGED <<handler, route, layers, way, status, sent, reporting, told, logged>>

StartReport ==
  /\ Running("out", {"prometheus"})
  /\ reporting' = reporting \cup {at}
  /\ at' = at - 1
  /\ UNCHANGED <<handler, route, layers, way, status, data, sent, told, logged>>

Trace ==
  /\ Running("out", {"opentelemetry"})
  /\ told' = told \cup {[layer |-> at, status |-> status]}
  /\ at' = at - 1
  /\ UNCHANGED <<handler, route, layers, way, status, data, sent, reporting, logged>>

\* The deferred function of the access log runs on the way out and in a panic.
LogAccess ==
  /\ at > 0 /\ way \in {"out", "panic"} /\ layers[at] \in {"accesslog", "accesslogPanics"}
  /\ logged' = Append(logged, at)
  /\ way' = IF layers[at] = "accesslogPanics" THEN "panic" ELSE way
  /\ at' = at - 1
  /\ UNCHANGED <<handler, route, layers, status, data, sent, reporting, told>>

-----------------------------------------------------------------------------
(* A panic.                                                                *)

Unwind ==
  /\ Running("panic", {"handler", "serve", "errhdl", "prometheus", "opentelemetry"})
  /\ at' = at - 1
  /\ UNCHANGED <<handler, route, layers, way, status, data, sent, reporting, told, logged>>

\* code: the StatusCode given to the builder, 0 where it was given none.
Recover ==
  /\ Running("panic", {"recovery", "recoveryPanics"})
  /\ \E code \in Statuses : status' = code /\ data' = Body(code)
  /\ way' = IF layers[at] = "recovery" THEN "out" ELSE "panic"
  /\ at' = at - 1
  /\ UNCHANGED <<handler, route, layers, sent, reporting, told, logged>>

\* net/http recovers what no layer did, and closes the connection.
Drop ==
  /\ at = 0 /\ way = "panic"
  /\ way' = "dropped"
  /\ UNCHANGED <<handler, route, layers, at, status, data, sent, reporting, told, logged>>

-----------------------------------------------------------------------------
(* The end.                                                                *)

\* flushResp: a status that was sent stays; without one, net/http sends 200.  When
\* the client is gone the write fails, and log.Fatalln ends the whole process.
Flush ==
  /\ at = 0 /\ way = "out"
  /\ \/ /\ sent' = IF sent # 0 THEN sent ELSE IF status > 0 THEN status ELSE 200
        /\ way' = "sent"
     \/ way' = "exited" /\ UNCHANGED sent
  /\ UNCHANGED <<handler, route, layers, at, status, data, reporting, told, logged>>

\* The goroutine of the prometheus layer reads the context when it gets to run,
\* which may be after the request is over.
Report ==
  \E k \in reporting :
    /\ way # "exited"
    /\ reporting' = reporting \ {k}
    /\ told' = told \cup {[layer |-> k, status |-> status]}
    /\ UNCHANGED <<handler, route, layers, at, way, status, data, sent, logged>>

Next ==
  \/ Enter \/ Serve \/ Handle
  \/ Pass \/ ReplaceByPage \/ StartReport \/ Trace \/ LogAccess
  \/ Unwind \/ Recover \/ Drop
  \/ Flush \/ Report

Spec == Init /\ [][Next]_vars

-----------------------------------------------------------------------------
(* Correctness.                                                            *)

Over == way \in {"sent", "dropped", "exited"}

\* Layer k raises a panic of its own.
Raises(k) ==
  \/ layers[k] = "accesslogPanics"
  \/ layers[k] = "handler" /\ handler \in {"panic", "panicLate"}

\* A panic leaves layer k: it began there or further in, and no recovery in between
\* returns normally.
PanicLeaves(k) ==
  \E source \in k .. Len(layers) :
    Raises(source) /\ \A j \in k .. source - 1 : layers[j] # "recovery"

\* Layer j set the response after a panic that the layers inside it raised.
Recovered(j) == layers[j] \in {"recovery", "recoveryPanics"} /\ PanicLeaves(j + 1)
SetByRecovery == \E j \in DOMAIN layers : Recovered(j)

\* The context may have no status: the handler gave it none, or a recovery's builder.
MayBeUnset == handler \in {"silent", "direct"} \/ SetByRecovery

\* When a request is over: it was dropped exactly if a panic got past every
\* recovery layer.  Every access log layer wrote it once, whatever happened inside.
\* Exactly the metric and trace layers that no panic left tell of it, and they tell
\* the status that the client got, unless a recovery layer further out replaced it,
\* or it is 0 for none, which net/http sends as 200, or a recovery set one after the
\* handler had written its own to ctx.Resp.  A page goes out with the status that it
\* was registered for, but for the same two reasons; and if a layer for pages is the
\* outermost, every status that the client gets comes with its page, unless the
\* handler wrote it, or net/http.  At all times the state is of its types.
ToldWhatWasSent ==
  TypeOK /\ (Over =>
    /\ way = "dropped" <=> PanicLeaves(1)
    /\ \A k \in DOMAIN layers :
         layers[k] \in {"accesslog", "accesslogPanics"} <=>
           Cardinality({i \in DOMAIN logged : logged[i] = k}) = 1
    /\ \A k \in DOMAIN layers :
         layers[k] \in {"prometheus", "opentelemetry"} =>
           (~PanicLeaves(k) <=> k \in reporting \cup {t.layer : t \in told})
    /\ way = "sent" =>
         /\ \A t \in told :
              \/ t.status = sent
              \/ \E j \in 1 .. t.layer - 1 : Recovered(j)
              \/ t.status = 0 /\ sent = 200 /\ MayBeUnset
              \/ handler = "direct" /\ SetByRecovery
         /\ data.kind = "page" =>
              \/ data.of = sent
              \/ data.of = 0 /\ sent = 200 /\ MayBeUnset
              \/ handler = "direct" /\ SetByRecovery
         /\ layers[1] = "errhdl" /\ sent \in Pages =>
              \/ data = Page(sent)
              \/ handler = "direct"
              \/ sent = 200 /\ MayBeUnset)
==================================================================================
