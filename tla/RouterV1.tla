-------------------------------- MODULE RouterV1 --------------------------------
(***************************************************************************)
(* The route tree of web/homework1: static segments, path parameters,      *)
(* regular expressions and the wildcard *, which at the end of a path      *)
(* stands for any number of segments.                                      *)
(*                                                                         *)
(* The trees of different methods have nothing in common; this is the tree *)
(* of one.                                                                 *)
(***************************************************************************)
EXTENDS Paths

CONSTANTS Registered,  \* the paths that addRoute is called with
          Requests,    \* the paths that are requested
          Accepted,    \* the strings that the regular expression of a name matches
          MaxRoutes    \* bound: calls of addRoute

VARIABLES
  nodes,    \* the nodes of the tree, <<>> for its root; empty before the first call
  handler,  \* node.handler of the nodes that have one: the number of the call
  calls     \* history: the number of calls of AddRoute

vars == <<nodes, handler, calls>>

TypeOK ==
  /\ \A n \in nodes : n # <<>> => Front(n) \in nodes
  /\ DOMAIN handler \subseteq nodes
  /\ \A n \in DOMAIN handler : handler[n] \in 1 .. calls

Init == nodes = {} /\ handler = <<>> /\ calls = 0

-----------------------------------------------------------------------------
(* addRoute.                                                               *)

KidsOf(n, kinds) == KidsIn(nodes, n, kinds)

StarBlocked(n) == KidsOf(n, {"param", "reg"}) # {}
RegexBlocked(n, s) == KidsOf(n, {"star", "param", "reg"}) \ {Append(n, s)} # {}

\* Mutant: a parameter only minds other parameters.
ParamBlockedByParam(n, s) == KidsOf(n, {"param"}) \ {Append(n, s)} # {}

ParamBlocked(n, s) == KidsOf(n, {"star", "reg", "param"}) \ {Append(n, s)} # {}

\* childOrCreate panics instead of giving node n a child for segment s.
Blocked(n, s) ==
  \/ s = NoSeg \/ s = BadReg
  \/ s.kind = "star" /\ StarBlocked(n)
  \/ s.kind = "reg" /\ RegexBlocked(n, s)
  \/ s.kind = "param" /\ ParamBlocked(n, s)

\* handleSegmentRouter creates the nodes up to the segment it panics at.
Reached(segs) ==
  {SubSeq(segs, 1, i) : i \in {k \in 0 .. Len(segs) :
                                 \A j \in 1 .. k : ~Blocked(SubSeq(segs, 1, j - 1), segs[j])}}

\* A node's handler is not replaced, but that of a wildcard is.
Conflict(n) == n \in DOMAIN handler /\ (n = <<>> \/ Last(n) # Star)

AddRoute(path) ==
  /\ calls < MaxRoutes
  /\ calls' = calls + 1
  /\ IF ~WellFormed(path)
       THEN UNCHANGED <<nodes, handler>>
       ELSE /\ nodes' = nodes \cup Reached(path.segs)
            /\ IF path.segs \in Reached(path.segs) /\ ~Conflict(path.segs)
                 THEN handler' = Put(handler, path.segs, calls')
                 ELSE UNCHANGED handler

Next == \E path \in Registered : AddRoute(path)

Spec == Init /\ [][Next]_vars

-----------------------------------------------------------------------------
(* findRoute.                                                              *)

\* childOf: the child that segment v leads to; the empty set if there is none.
ChildOf(n, v) ==
  IF Append(n, Static(v)) \in nodes THEN {Append(n, Static(v))}
  ELSE IF KidsOf(n, {"reg"}) # {}
    THEN {m \in KidsOf(n, {"reg"}) : v \in Accepted[Last(m).name]}
  ELSE IF KidsOf(n, {"param"}) # {} THEN KidsOf(n, {"param"})
  ELSE KidsOf(n, {"star"})

\* addValue: of two parameters with one name the later one stays.
AddValue(params, m, v) ==
  IF Last(m).kind \in {"param", "reg"} THEN Put(params, Last(m).name, v) ELSE params

\* findPathRoute, one segment.  A wildcard without a child for the segment
\* takes it and the rest of the path.
Step(mi, v) ==
  IF mi.end # "walking" THEN mi
  ELSE LET next == ChildOf(mi.n, v) IN
       IF next # {}
         THEN LET m == CHOOSE m \in next : TRUE
              IN  [mi EXCEPT !.n = m, !.params = AddValue(mi.params, m, v)]
       ELSE [mi EXCEPT !.end = IF mi.n # <<>> /\ Last(mi.n) = Star THEN "found" ELSE "none"]

FindRoute(request) ==
  LET walk[i \in 0 .. Len(request)] ==
        IF i = 0 THEN [n |-> <<>>, params |-> <<>>,
                       end |-> IF nodes = {} THEN "none" ELSE "walking"]
        ELSE Step(walk[i - 1], request[i])
  IN  walk[Len(request)]

\* HTTPServer.serve: the handler that runs, 0 for 404.
Serve(request) ==
  LET mi == FindRoute(request)
  IN  IF mi.end = "none" \/ mi.n \notin DOMAIN handler THEN 0 ELSE handler[mi.n]

-----------------------------------------------------------------------------
(* Correctness.                                                            *)

SegMatches(s, v) ==
  \/ s = Static(v) \/ s.kind \in {"param", "star"}
  \/ s.kind = "reg" /\ v \in Accepted[s.name]

\* The segments of node n match the first ones of the request, one by one.
Begins(n, request) ==
  Len(n) <= Len(request) /\ \A i \in DOMAIN n : SegMatches(n[i], request[i])

Covers(n, request) ==
  Begins(n, request) /\ (Len(n) = Len(request) \/ (n # <<>> /\ Last(n) = Star))

\* Node m keeps the request away from n: where the two part, m has a static
\* segment and n has none; or m goes on below the wildcard that ends n.
Shadows(m, n, request) ==
  /\ Begins(m, request)
  /\ \/ \E i \in DOMAIN n \cap DOMAIN m :
          SubSeq(m, 1, i - 1) = SubSeq(n, 1, i - 1) /\ m[i] # n[i] /\ m[i].kind = "static"
     \/ Len(m) = Len(n) + 1 /\ Front(m) = n

Values(n, request) ==
  LET named == {i \in DOMAIN n : n[i].kind \in {"param", "reg"}}
  IN  [p \in {n[i].name : i \in named} |->
         request[CHOOSE i \in named :
                   n[i].name = p /\ \A j \in named : n[j].name = p => j <= i]]

\* Of the children of a node at most one is not static, whatever was registered
\* before and whichever calls panicked half way: what is registered and what is
\* requested meet the same one, and childOf never has a choice.
OneWildChild ==
  \A m, n \in nodes \ {<<>>} :
    Front(m) = Front(n) /\ Last(m).kind # "static" /\ Last(n).kind # "static" => m = n

\* A handler runs only for a request that its path covers, with the values of
\* the path's parameters, and the last one's where two have a name in common.  A
\* request that a registered path covers runs another handler, or none, only
\* where a static segment (or, below a wildcard, a further one) takes precedence:
\* no order of calls, and no call that panics half way, costs a route otherwise.
Dispatch ==
  OneWildChild /\ \A request \in Requests :
    LET mi == FindRoute(request) IN
    /\ Serve(request) # 0 =>
         Covers(mi.n, request) /\ mi.params = Values(mi.n, request)
    /\ \A n \in DOMAIN handler :
         Covers(n, request) /\ Serve(request) # handler[n] =>
           \E m \in nodes : Shadows(m, n, request)

\* A route once registered is not replaced, whatever is registered after it; the
\* exception is a path that ends in a wildcard.
Stays ==
  \A n \in DOMAIN handler :
    n = <<>> \/ Last(n) # Star => n \in DOMAIN handler' /\ handler'[n] = handler[n]
RoutesStay == [][Stays]_vars
================================================================================
