---------------------------------- MODULE MCWeb ----------------------------------
(***************************************************************************)
(* The parts of web/: the two routers, each with its calls of addRoute,    *)
(* and a request on its way through the middlewares of the server; part    *)
(* says which of them runs.                                                *)
(***************************************************************************)
EXTENDS Routers, WebServer

VARIABLE part

SeqsUpTo(S, k) == UNION {[1 .. n -> S] : n \in 0 .. k}

MCRequests == {r \in SeqsUpTo({"a", "b", ""}, 3) : Trimmed(r)}

Segs == {Static("a"), Param("x"), Star}
OtherNames == {<<Param("y")>>, <<Static("a"), Param("y")>>, <<Param("x"), Param("y")>>}
Odd == {<<NoSeg>>, <<Static("a"), NoSeg, Star>>, <<Static("a"), NoSeg>>}

Paths1 == SeqsUpTo(Segs \cup {Reg("r")}, 2) \cup OtherNames \cup Odd \cup {<<Star, BadReg>>}
Paths2 == SeqsUpTo(Segs, 2) \cup OtherNames \cup Odd
WithoutSlash == [slash |-> FALSE, segs |-> <<>>]
MCRegistered1 == [slash : {TRUE}, segs : Paths1] \cup {WithoutSlash}
MCRegistered2 == [slash : {TRUE}, segs : Paths2] \cup {WithoutSlash}
MCAccepted == [r |-> {"a"}]

MCGlobalLayers == SeqsUpTo(Middlewares, 2)

\* Two middlewares of a route: their order matters where one of them recovers.
RoutePairs ==
  {<<m, "recovery">> : m \in Middlewares} \cup {<<"recovery", m>> : m \in Middlewares}
MCRouteLayers == SeqsUpTo(Middlewares, 1) \cup RoutePairs

webVars == <<router1, router2, vars, part>>

\* The part that does not run starts in one state.
WebInit ==
  /\ part \in {"router1", "router2", "server"}
  /\ V1!Init /\ V2!Init /\ Init
  /\ part # "server" => handler = "missing" /\ route = <<>> /\ layers = <<"serve">>

WebNext ==
  \/ part = "router1" /\ V1!Next /\ UNCHANGED <<router2, vars, part>>
  \/ part = "router2" /\ V2!Next /\ UNCHANGED <<router1, vars, part>>
  \/ part = "server" /\ Next /\ UNCHANGED <<router1, router2, part>>

WebSpec == WebInit /\ [][WebNext]_webVars
==================================================================================
