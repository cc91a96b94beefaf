-------------------------------- MODULE Pickers --------------------------------
(***************************************************************************)
(* The round robin, least active and fastest pickers of                    *)
(* rpc/homework2/loadbalance, over the same ready connections.  A client   *)
(* uses one of them, by its Name.  The connections come from a map, so     *)
(* that the order in which Build lists them is arbitrary.                  *)
(*                                                                         *)
(* The round robin picker counts with one atomic addition, and the least   *)
(* active picker holds its mutex from the first read on: their Picks are   *)
(* one step.  The fastest picker takes a read lock that no writer minds:   *)
(* its Pick looks at one connection a step, and response times change in   *)
(* between.                                                                *)
(***************************************************************************)
EXTENDS Integers, FiniteSets, Sequences

CONSTANTS Groups,      \* the groups of connections and of calls
          NoGroup,     \* a call whose context names no group
          MaxReady,    \* bound: the ready connections
          MaxActive,   \* bound: the calls under way at the least active picker
          Times,       \* bound: the response times Prometheus may report
          DefaultTime, \* the 100 ms that a connection starts from
          CounterMod   \* uint64 wraps around at CounterMod

ASSUME PickersAssumption ==
  /\ NoGroup \notin Groups
  /\ MaxReady \in Nat /\ MaxActive \in Nat
  /\ Times \subseteq Nat /\ DefaultTime \in Times
  /\ CounterMod \in Nat /\ CounterMod > MaxReady

VARIABLES
  name,      \* the Name of the picker in use
  group,     \* the group in the attributes of each connection's address
  cnt,       \* round robin: Picker.cnt
  row,       \* history: the latest Picks, while all were for the same group
  numReq,    \* least active: conn.numReq, of the picker's connections
  active,    \* history: the calls under way on each connection
  response,  \* fastest: conn.response
  scan,      \* fastest: the Pick that is under way, or an idle one
  exited     \* fastest: the client's process was ended by log.Fatalln

pickerVars == <<name, group, cnt, row, numReq, active, response, scan, exited>>

Names == {"ROUND_ROBIN", "LEAST_ACTIVE", "FASTEST"}
Ready == DOMAIN group
Wanted == Groups \cup {NoGroup}

\* filter: the group the call asks for; next: the connection to look at next;
\* best: the local variable res, 0 for nil; seen: the response times it met;
\* slowed: history, the response time of a connection rose while it was res.
Idle == [filter |-> NoGroup, next |-> 0, best |-> 0, seen |-> <<>>, slowed |-> FALSE]

PickersTypeOK ==
  /\ name \in Names
  /\ \E n \in 0 .. MaxReady : group \in [1 .. n -> Groups]
  /\ cnt \in 0 .. CounterMod - 1
  /\ row.filter \in Wanted /\ row.picks \in Seq(Ready)
  /\ numReq \in [Ready -> Nat] /\ active \in [Ready -> 0 .. MaxActive]
  /\ response \in [Ready -> Times]
  /\ scan.filter \in Wanted /\ scan.next \in 0 .. MaxReady + 1
  /\ scan.best \in Ready \cup {0} /\ scan.slowed \in BOOLEAN
  /\ exited \in BOOLEAN

\* PickerBuilder.Build of the round robin picker.
RoundRobinInit == cnt = 0 /\ row = [filter |-> NoGroup, picks |-> <<>>]

\* PickerBuilder.Build of the least active picker.
LeastActiveInit == numReq = [c \in Ready |-> 0] /\ active = [c \in Ready |-> 0]

\* Builder.Build of the fastest picker.
FastestInit == response = [c \in Ready |-> DefaultTime] /\ scan = Idle /\ exited = FALSE

PickersInit ==
  /\ name \in Names
  /\ group \in UNION {[1 .. n -> Groups] : n \in 0 .. MaxReady}
  /\ RoundRobinInit /\ LeastActiveInit /\ FastestInit

\* GroupFilter: a call that names no group may use any connection.
GroupFilter(g, c) == g = NoGroup \/ g = group[c]

-----------------------------------------------------------------------------
(* Round robin.                                                            *)

\* Pick lists the connections that pass the filter, in their order.
Candidates(g) ==
  LET listed[n \in 0 .. Len(group)] ==
        IF n = 0 THEN <<>>
        ELSE IF GroupFilter(g, n) THEN Append(listed[n - 1], n)
        ELSE listed[n - 1]
  IN listed[Len(group)]

\* Mutant: the index is taken of all connections, and cut off.
IndexOfAll(g) == LET i == (cnt + 1) % Cardinality(Ready)
                 IN  IF i < Len(Candidates(g)) THEN i ELSE 0

Index(g) == ((cnt + 1) % CounterMod) % Len(Candidates(g))

\* The history goes on when the Pick before was for the same group and the
\* counter did not jump: it jumps where it wraps around, unless the number of
\* candidates divides CounterMod.  It keeps one Pick of each candidate.
RowAfter(g, c) ==
  LET n == Len(Candidates(g))
      jump == cnt + 1 = CounterMod /\ CounterMod % n # 0
      picks == IF g # row.filter \/ jump THEN <<c>> ELSE Append(row.picks, c)
  IN  [filter |-> g, picks |-> IF Len(picks) > n THEN Tail(picks) ELSE picks]

\* Without a candidate, Pick fails and does not count.
RoundRobinPick(g) ==
  /\ name = "ROUND_ROBIN"
  /\ Candidates(g) # <<>>
  /\ cnt' = (cnt + 1) % CounterMod
  /\ row' = RowAfter(g, Candidates(g)[Index(g) + 1])
  /\ UNCHANGED <<name, group, numReq, active, response, scan, exited>>

-----------------------------------------------------------------------------
(* Least active.                                                           *)

LeastActive ==
  CHOOSE c \in Ready : \A d \in Ready : numReq[c] < numReq[d] \/ (numReq[c] = numReq[d] /\ c <= d)

\* res is a copy of the connection: what Pick adds to res.numReq and Done takes
\* off again never reaches the picker's own numReq.
LeastActivePick ==
  /\ name = "LEAST_ACTIVE"
  /\ Ready # {}
  /\ active[LeastActive] < MaxActive
  /\ active' = [active EXCEPT ![LeastActive] = @ + 1]
  /\ UNCHANGED <<name, group, cnt, row, numReq, response, scan, exited>>

LeastActiveDone(c) ==
  /\ name = "LEAST_ACTIVE"
  /\ active[c] > 0
  /\ active' = [active EXCEPT ![c] = @ - 1]
  /\ UNCHANGED <<name, group, cnt, row, numReq, response, scan, exited>>

-----------------------------------------------------------------------------
(* Fastest.                                                                *)

FastestStart(g) ==
  /\ name = "FASTEST"
  /\ ~exited /\ scan.next = 0
  /\ scan' = [Idle EXCEPT !.filter = g, !.next = 1]
  /\ UNCHANGED <<name, group, cnt, row, numReq, active, response, exited>>

\* Mutant: the later of two connections wins, unless it is slower by itself.
FasterThanDefault(c) == scan.best = 0 \/ response[c] <= DefaultTime

Faster(c) == scan.best = 0 \/ response[scan.best] > response[c]

\* One turn of the loop over the connections.
FastestLook ==
  /\ name = "FASTEST"
  /\ ~exited /\ scan.next \in Ready
  /\ LET c == scan.next IN
     scan' = IF ~GroupFilter(scan.filter, c)
               THEN [scan EXCEPT !.next = c + 1, !.seen = Append(@, response[c])]
               ELSE [scan EXCEPT !.next = c + 1, !.seen = Append(@, response[c]),
                                 !.best = IF Faster(c) THEN c ELSE @]
  /\ UNCHANGED <<name, group, cnt, row, numReq, active, response, exited>>

FastestReturn ==
  /\ name = "FASTEST"
  /\ ~exited /\ scan.next = Cardinality(Ready) + 1
  /\ scan' = Idle
  /\ UNCHANGED <<name, group, cnt, row, numReq, active, response, exited>>

\* updateRespTime, one result of Prometheus' answer: no lock is held.
UpdateRespTime(c, t) ==
  /\ name = "FASTEST"
  /\ ~exited
  /\ response' = [response EXCEPT ![c] = t]
  /\ scan' = [scan EXCEPT !.slowed = @ \/ (c = scan.best /\ t > response[c])]
  /\ UNCHANGED <<name, group, cnt, row, numReq, active, exited>>

\* updateRespTime when Prometheus does not answer as expected: log.Fatalln.
UpdateFails ==
  /\ name = "FASTEST"
  /\ ~exited
  /\ exited' = TRUE
  /\ UNCHANGED <<name, group, cnt, row, numReq, active, response, scan>>

PickersNext ==
  \/ \E g \in Wanted : RoundRobinPick(g) \/ FastestStart(g)
  \/ LeastActivePick
  \/ \E c \in Ready : LeastActiveDone(c)
  \/ FastestLook \/ FastestReturn \/ UpdateFails
  \/ \E c \in Ready, t \in Times : UpdateRespTime(c, t)

PickersSpec == PickersInit /\ [][PickersNext]_pickerVars

-----------------------------------------------------------------------------
(* Correctness.                                                            *)

\* While the calls are all for one group, n candidates take turns: of the last n
\* Picks no two chose the same connection.  Calls for another group share the
\* counter and break the row, and so does the counter's wrap around.
RoundRobinCycle ==
  \A i, j \in DOMAIN row.picks : i # j => row.picks[i] # row.picks[j]

\* The fastest picker returns a connection of the group that is not slower than
\* any other of the group was when the Pick looked at it, unless a connection it
\* had settled on slowed down, under the read lock, before a later look.
FastestUnlessSlowed ==
  scan.best # 0 /\ ~scan.slowed =>
    /\ GroupFilter(scan.filter, scan.best)
    /\ \A c \in DOMAIN scan.seen :
         GroupFilter(scan.filter, c) => response[scan.best] <= scan.seen[c]
================================================================================
