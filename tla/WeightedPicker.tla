---------------------------- MODULE WeightedPicker ----------------------------
(***************************************************************************)
(* The weighted round robin of rpc/homework2/loadbalance/roundrobin.  Pick *)
(* holds the mutex from its first read to its last write, so a Pick is one *)
(* step however many calls run at once.  The weights are unsigned: uint32  *)
(* is modelled as arithmetic modulo Modulus.                               *)
(***************************************************************************)
EXTENDS Integers, FiniteSets, Sequences

CONSTANTS MaxConns,    \* bound: the ready connections
          MaxWeight,   \* bound: the weights in the addresses' attributes
          Modulus      \* uint32 wraps around at Modulus

ASSUME WeightAssumption ==
  /\ MaxConns \in Nat \ {0} /\ MaxWeight \in Nat \ {0}
  /\ Modulus \in Nat /\ Modulus > 2 * MaxConns * MaxWeight

VARIABLES
  weight,      \* efficientWight, always equal to weight: no code changes it
  current,     \* currentWeight
  rounds,      \* history: Picks in the current cycle of totalWeight Picks
  picks        \* history: those of them that chose each connection

vars == <<weight, current, rounds, picks>>

Conns == DOMAIN weight

\* totalWeight: the loop of Pick adds the weights up.
Total ==
  LET sum[n \in 0 .. Len(weight)] == IF n = 0 THEN 0 ELSE sum[n - 1] + weight[n]
  IN sum[Len(weight)]

TypeOK ==
  /\ \E n \in 1 .. MaxConns : Conns = 1 .. n
  /\ weight \in [Conns -> 1 .. MaxWeight]
  /\ current \in [Conns -> 0 .. Modulus - 1]
  /\ rounds \in 0 .. Total
  /\ picks \in [Conns -> 0 .. Total]

\* WeightBuilder.Build: the connections come from a map, in any order.
Init ==
  /\ weight \in UNION {[1 .. n -> 1 .. MaxWeight] : n \in 1 .. MaxConns}
  /\ current = weight
  /\ rounds = 0
  /\ picks = [c \in Conns |-> 0]

-----------------------------------------------------------------------------
(* WeightPicker.Pick.                                                      *)

\* The loop adds its weight to each connection.
Raised == [c \in Conns |-> (current[c] + weight[c]) % Modulus]

\* It keeps the first of the connections with the highest sum.
Heaviest ==
  CHOOSE c \in Conns :
    \A d \in Conns : Raised[d] < Raised[c] \/ (Raised[d] = Raised[c] /\ c <= d)

\* Mutant: the chosen connection pays its own weight, not that of all.
LoweredByOwn(c) == (Raised[c] - weight[c]) % Modulus

\* Mutant: the subtraction is signed.
LoweredSigned(c) == Raised[c] - Total

\* Mutant: the chosen connection starts again from nothing.
LoweredToZero(c) == 0

\* The chosen connection pays the weight of all.
Lowered(c) == (Raised[c] - Total) % Modulus

Pick ==
  /\ current' = [Raised EXCEPT ![Heaviest] = Lowered(Heaviest)]
  /\ IF rounds < Total
       THEN /\ rounds' = rounds + 1
            /\ picks' = [picks EXCEPT ![Heaviest] = @ + 1]
       ELSE /\ rounds' = 1
            /\ picks' = [c \in Conns |-> IF c = Heaviest THEN 1 ELSE 0]
  /\ UNCHANGED weight

Next == Pick

Spec == Init /\ [][Next]_vars

-----------------------------------------------------------------------------
(* Correctness.                                                            *)

\* Of three connections one can be owed less than nothing after a Pick, so that its
\* unsigned currentWeight wraps around: see NoNodeForgotten.
Few == Len(weight) <= 2

\* Over each cycle of totalWeight Picks each of one or two connections is chosen exactly
\* as often as its weight says, although currentWeight is unsigned and Pick subtracts the
\* weight of all from it.
Proportional == Few /\ rounds = Total => picks = weight

\* At no time has one of one or two connections been chosen a whole Pick more, or a whole
\* Pick less, than its share of the Picks made so far.
Smooth ==
  Few => \A c \in Conns :
    /\ picks[c] * Total < rounds * weight[c] + Total
    /\ picks[c] * Total > rounds * weight[c] - Total

\* The comment in Pick's Done: in no extreme case is a node never chosen, or one
\* node chosen all the time.
NoNodeForgotten == rounds = Total => \A c \in Conns : picks[c] > 0
================================================================================
