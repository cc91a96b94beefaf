-------------------------------- MODULE RouterV2 --------------------------------
(***************************************************************************)
(* The route tree of web/homework2: static segments, path parameters and   *)
(* the wildcard *, which stands for one segment; and the middlewares of    *)
(* routes.  A call of addRoute brings a handler (Get, Post) or none        *)
(* (UseV1), and its own middlewares, which are known by the number of the  *)
(* call.                                                                   *)
(***************************************************************************)
EXTENDS Paths

CONSTANTS Registered,  \* the paths that addRoute is called with
          Requests,    \* the paths that are requested
          MaxRoutes    \* bound: calls of addRoute

VARIABLES
  nodes,     \* the nodes of the tree, <<>> for its root; empty before the first call
  handler,   \* node.handler of the nodes that have one: the number of the call
  mdls,      \* node.mdls: the numbers of the calls that brought middlewares
  calls,     \* the calls of addRoute that returned, and node.route of their nodes
  count      \* history: the number of calls of addRoute

vars == <<nodes, handler, mdls, calls, count>>

\* calls[i] is the node that call i registered; calls that panicked are missing.
TypeOK ==
  /\ \A n \in nodes : n # <<>> => Front(n) \in nodes
  /\ DOMAIN handler \subseteq nodes
  /\ DOMAIN mdls = nodes
  /\ DOMAIN calls \subseteq 1 .. count
  /\ \A n \in DOMAIN handler : handler[n] \in DOMAIN calls /\ calls[handler[n]] = n
  /\ \A n \in nodes : \A i \in DOMAIN mdls[n] : mdls[n][i] \in DOMAIN calls

Init == nodes = {} /\ handler = <<>> /\ mdls = <<>> /\ calls = <<>> /\ count = 0

-----------------------------------------------------------------------------
(* addRoute.                                                               *)

KidsOf(n, kind) == KidsIn(nodes, n, {kind})

\* childOrCreate panics instead of giving node n a child for segment s.
Blocked(n, s) ==
  \/ s = NoSeg
  \/ s.kind = "star" /\ KidsOf(n, "param") # {}
  \/ s.kind = "param" /\ (KidsOf(n, "star") # {} \/ KidsOf(n, "param") \ {Append(n, s)} # {})

Reached(segs) ==
  {SubSeq(segs, 1, i) : i \in {k \in 0 .. Len(segs) :
                                 \A j \in 1 .. k : ~Blocked(SubSeq(segs, 1, j - 1), segs[j])}}

\* Mutant: the handler of a route is replaced, as that of a wildcard in homework1.
NoConflict(n) == FALSE

Conflict(n) == n \in DOMAIN handler

AddRoute(path, withHandler, withMdls) ==
  /\ count < MaxRoutes
  /\ count' = count + 1
  /\ IF ~WellFormed(path)
       THEN UNCHANGED <<nodes, handler, mdls, calls>>
       ELSE LET n == path.segs
                grown == nodes \cup Reached(n)
                listed == [m \in grown |-> IF m \in nodes THEN mdls[m] ELSE <<>>]
            IN  /\ nodes' = grown
                /\ IF n \notin grown \/ Conflict(n)
                     THEN mdls' = listed /\ UNCHANGED <<handler, calls>>
                     ELSE /\ handler' = IF withHandler THEN Put(handler, n, count') ELSE handler
                          /\ mdls' = IF withMdls THEN [listed EXCEPT ![n] = Append(@, count')]
                                                 ELSE listed
                          /\ calls' = Put(calls, count', n)

\* HTTPServer.Get and Post give a handler, UseV1 middlewares only.
Get(path) == \E withMdls \in BOOLEAN : AddRoute(path, TRUE, withMdls)
UseV1(path) == AddRoute(path, FALSE, TRUE)

Next == \E path \in Registered : Get(path) \/ UseV1(path)

Spec == Init /\ [][Next]_vars

-----------------------------------------------------------------------------
(* findRoute.                                                              *)

\* childOf: the child that segment v leads to; the empty set if there is none.
ChildOf(n, v) ==
  IF Append(n, Static(v)) \in nodes THEN {Append(n, Static(v))}
  ELSE IF KidsOf(n, "param") # {} THEN KidsOf(n, "param")
  ELSE KidsOf(n, "star")

Step(mi, v) ==
  LET next == IF mi.ok THEN ChildOf(mi.n, v) ELSE {} IN
  IF next = {} THEN [mi EXCEPT !.ok = FALSE]
  ELSE LET m == CHOOSE m \in next : TRUE
       IN  [mi EXCEPT !.n = m, !.params = IF Last(m).kind = "param"
                                            THEN Put(@, Last(m).name, v) ELSE @]

FindRoute(request) ==
  LET walk[i \in 0 .. Len(request)] ==
        IF i = 0 THEN [n |-> <<>>, params |-> <<>>, ok |-> nodes # {}]
        ELSE Step(walk[i - 1], request[i])
  IN  walk[Len(request)]

\* Mutant: only the children that the request is routed through are visited.
ChildOnly(n, v) == SetToSeq(ChildOf(n, v))

\* The nodes that findMdls visits after n for segment v, in its order.
Visited(n, v) ==
  SetToSeq(KidsOf(n, "star")) \o SetToSeq(KidsOf(n, "param"))
    \o (IF Append(n, Static(v)) \in nodes THEN <<Append(n, Static(v))>> ELSE <<>>)

\* findMdls: what follows the queue q, and the middlewares of every node once in a queue.
After(q, v) == FlattenSeq([j \in DOMAIN q |-> Visited(q[j], v)])

FindMdls(request) ==
  LET queue[i \in 0 .. Len(request)] ==
        IF i = 0 THEN <<(<<>>)>> ELSE After(queue[i - 1], request[i])
      res == FlattenSeq([i \in 1 .. Len(request) + 1 |-> queue[i - 1]])
  IN  FlattenSeq([i \in DOMAIN res |-> mdls[res[i]]])

\* serve: node.handler, 0 for 404, and ctx.MatchedRoute, empty for the root, whose
\* node.route no call sets.
Serve(request) ==
  LET mi == FindRoute(request)
  IN  IF ~mi.ok \/ mi.n \notin DOMAIN handler
        THEN [handler |-> 0, route |-> <<>>, mdls |-> <<>>]
        ELSE [handler |-> handler[mi.n], route |-> mi.n, mdls |-> FindMdls(request)]

-----------------------------------------------------------------------------
(* Correctness.                                                            *)

Begins(n, request) ==
  /\ Len(n) <= Len(request)
  /\ \A i \in DOMAIN n : n[i] = Static(request[i]) \/ n[i].kind \in {"param", "star"}

\* Of the children of a node at most one is not static, whatever was registered
\* before and whichever calls panicked half way: what is registered and what is
\* requested meet the same one, and childOf never has a choice.
OneWildChild ==
  \A m, n \in nodes \ {<<>>} :
    Front(m) = Front(n) /\ Last(m).kind # "static" /\ Last(n).kind # "static" => m = n

\* A handler runs only for a request that its path matches segment by segment,
\* and a route whose path matches is passed over only for a static segment.
Dispatch ==
  OneWildChild /\ \A request \in Requests :
    LET served == Serve(request) IN
    /\ served.handler # 0 => Begins(served.route, request) /\ Len(served.route) = Len(request)
    /\ \A n \in DOMAIN handler :
         Begins(n, request) /\ Len(n) = Len(request) /\ served.handler # handler[n] =>
           \E m \in nodes, i \in DOMAIN n :
             /\ i \in DOMAIN m /\ Begins(m, request)
             /\ SubSeq(m, 1, i - 1) = SubSeq(n, 1, i - 1)
             /\ m[i].kind = "static" /\ n[i].kind # "static"

\* Around the handler of a request run the middlewares of exactly those calls
\* whose path matches the beginning of the request's path, each once: none of a
\* call that panicked, and all of a branch that the request is not routed through.
\* Those of a longer path run further out, and on one node the later ones.
MiddlewareMatched ==
  \A request \in Requests :
    LET run == FindMdls(request)
        brought == UNION {ToSet(mdls[n]) : n \in nodes}
    IN  nodes # {} =>
          /\ ToSet(run) = {i \in brought : Begins(calls[i], request)}
          /\ \A i, j \in DOMAIN run : i < j =>
               \/ Len(calls[run[i]]) < Len(calls[run[j]])
               \/ Len(calls[run[i]]) = Len(calls[run[j]]) /\ run[i] # run[j]
                    /\ (calls[run[i]] = calls[run[j]] => run[i] < run[j])

\* The comment on addRoute: a registered route cannot be replaced; nor does a call
\* that panics, or one that brings middlewares only, take it back.
Stays ==
  \A n \in DOMAIN handler : n \in DOMAIN handler' /\ handler'[n] = handler[n]
RoutesStay == [][Stays]_vars
================================================================================
