----------------------------- MODULE PickersProofs -----------------------------
(***************************************************************************)
(* The pickers, for any number of connections, groups, weights and times:  *)
(* their counters keep within their width and their choices within the     *)
(* connections; round robin takes turns; the fastest picker returns a      *)
(* connection that was the fastest when its Pick looked, however often the *)
(* times change meanwhile; and of one or two connections the weighted one  *)
(* is proportional and smooth, whatever their weights.                     *)
(***************************************************************************)
EXTENDS MCPickers, FiniteSetTheorems, Induction, TLAPS

-----------------------------------------------------------------------------
(* Numbers.                                                                *)

\* A number is its quotient times the divisor, and its remainder.
LEMMA Division ==
  ASSUME NEW a \in Int, NEW n \in Nat, n > 0
  PROVE  a % n \in 0 .. n - 1 /\ a \div n \in Int /\ a = n * (a \div n) + (a % n)
  OBVIOUS

\* And no other number is its quotient.
LEMMA UniqueDivision ==
  ASSUME NEW n \in Nat, n > 0, NEW q \in Int, NEW p \in Int,
         NEW r \in 0 .. n - 1, NEW s \in 0 .. n - 1, n * q + r = n * p + s
  PROVE  q = p /\ r = s
<1>1. CASE q < p
  <2>1. q + 1 <= p /\ n * (q + 1) <= n * p
    BY <1>1
  <2> QED
    BY <2>1
<1>2. CASE p < q
  <2>1. p + 1 <= q /\ n * (p + 1) <= n * q
    BY <1>2
  <2> QED
    BY <2>1
<1>3. CASE q = p
  BY <1>3
<1> QED
  BY <1>1, <1>2, <1>3

\* The next number leaves the next remainder.
LEMMA NextRemainder ==
  ASSUME NEW a \in Int, NEW n \in Nat, n > 0
  PROVE  (a + 1) % n = IF a % n = n - 1 THEN 0 ELSE (a % n) + 1
<1> DEFINE q == a \div n
           r == a % n
           p == (a + 1) \div n
           s == (a + 1) % n
<1>1. q \in Int /\ p \in Int /\ r \in 0 .. n - 1 /\ s \in 0 .. n - 1 /\ a = n * q + r /\ a + 1 = n * p + s
  BY Division
<1> HIDE DEF q, r, p, s
<1>2. CASE r = n - 1
  <2>1. n * (q + 1) + 0 = n * p + s /\ q + 1 \in Int
    BY <1>1, <1>2
  <2>2. s = 0
    BY <1>1, <2>1, UniqueDivision
  <2> QED
    BY <1>2, <2>2 DEF r, s
<1>3. CASE r # n - 1
  <2>1. n * q + (r + 1) = n * p + s /\ r + 1 \in 0 .. n - 1
    BY <1>1, <1>3
  <2>2. s = r + 1
    BY <1>1, <2>1, UniqueDivision
  <2> QED
    BY <1>3, <2>2 DEF r, s
<1> QED
  BY <1>2, <1>3

\* Of the values of a function the least has a first place.
LEMMA FirstLeast ==
  ASSUME NEW n \in Nat, n > 0, NEW f \in [1 .. n -> Nat]
  PROVE  \E c \in 1 .. n : \A d \in 1 .. n : f[c] < f[d] \/ (f[c] = f[d] /\ c <= d)
<1> DEFINE V == {v \in Nat : \E c \in 1 .. n : f[c] = v}
<1>1. f[1] \in V
  OBVIOUS
<1>2. PICK v \in V : \A w \in V : v <= w
  <2>1. V \in SUBSET Nat /\ V # {}
    BY <1>1
  <2> HIDE DEF V
  <2> QED
    BY <2>1, LeastNumber
<1> DEFINE C == {c \in 1 .. n : f[c] = v}
<1>3. PICK c \in C : \A d \in C : c <= d
  <2>1. C \in SUBSET Nat /\ C # {}
    BY <1>2
  <2> HIDE DEF C
  <2> QED
    BY <2>1, LeastNumber
<1>4. ASSUME NEW d \in 1 .. n PROVE f[c] < f[d] \/ (f[c] = f[d] /\ c <= d)
  <2>1. f[d] \in V /\ f[c] = v /\ f[d] \in Nat /\ v \in Nat
    BY <1>3
  <2>2. v <= f[d]
    BY <1>2, <2>1
  <2>3. f[d] = v => c <= d
    BY <1>3
  <2> QED
    BY <2>1, <2>2, <2>3
<1> QED
  BY <1>3, <1>4

-----------------------------------------------------------------------------
(* The weighted picker.                                                    *)

\* The weights of the addresses, of as many as there are.
Weights ==
  Len(weight) \in 1 .. MaxConns /\ weight \in [1 .. Len(weight) -> 1 .. MaxWeight]

\* A connection has not been chosen more often than Picks were made.
WeightedInv ==
  /\ Weights
  /\ current \in [Conns -> 0 .. Modulus - 1]
  /\ rounds \in 0 .. Total
  /\ picks \in [Conns -> Nat]
  /\ \A c \in Conns : picks[c] <= rounds

\* totalWeight is what the loop has added up when it ends.
LEMMA TotalAddsUp ==
  ASSUME Weights
  PROVE  \E sum : /\ sum[0] = 0 /\ Total = sum[Len(weight)]
                  /\ \A i \in 1 .. Len(weight) : sum[i] = sum[i - 1] + weight[i]
<1> DEFINE n == Len(weight)
           step == [x \in Nat \X (1 .. n) |-> x[1] + weight[x[2]]]
           Def(sum) == [i \in 0 .. n |-> IF i = 0 THEN 0 ELSE sum[i - 1] + weight[i]]
           sum == CHOOSE sum : sum = Def(sum)
<1>1. n \in Nat /\ \A i \in 1 .. n : weight[i] \in Nat /\ weight[i] >= 1
  BY WeightAssumption DEF Weights
<1>2. PICK f : Iterates(f, Nat, 0, n, step)
  <2>1. Steps(Nat, n, step)
    <3> HIDE DEF n
    <3> QED
      BY <1>1 DEF Steps
  <2> HIDE DEF n, step
  <2> QED
    BY <1>1, <2>1, IterationExists
<1>3. f = Def(f)
  <2> HIDE DEF n
  <2>1. \A i \in 1 .. n : i - 1 \in 0 .. n /\ f[i - 1] \in Nat
    BY <1>1, <1>2 DEF Iterates
  <2>2. \A i \in 1 .. n : f[i] = f[i - 1] + weight[i]
    BY <1>2, <2>1 DEF Iterates
  <2>3. f \in [0 .. n -> Nat] /\ \A i \in 0 .. n : f[i] = Def(f)[i]
    BY <1>1, <1>2, <2>2 DEF Iterates
  <2> QED
    BY <2>3
<1>4. sum = Def(sum)
  <2> HIDE DEF Def
  <2> QED
    BY <1>3
<1>5. sum[0] = 0 /\ \A i \in 1 .. n : sum[i] = sum[i - 1] + weight[i]
  <2> HIDE DEF sum, n
  <2>1. sum[0] = 0
    BY <1>1, <1>4
  <2>2. ASSUME NEW i \in 1 .. n PROVE sum[i] = sum[i - 1] + weight[i]
    <3>1. i \in 0 .. n /\ i # 0
      BY <1>1, <2>2
    <3> QED
      BY <1>4, <3>1
  <2> QED
    BY <2>1, <2>2
<1>6. Total = sum[n]
  BY DEF Total
<1> HIDE DEF sum
<1> QED
  BY <1>5, <1>6

\* It is not below how many weights there are.
LEMMA TotalIsPositive ==
  ASSUME Weights
  PROVE  Total \in Nat /\ Total >= Len(weight)
<1>1. PICK sum : /\ sum[0] = 0 /\ Total = sum[Len(weight)]
                 /\ \A i \in 1 .. Len(weight) : sum[i] = sum[i - 1] + weight[i]
  BY TotalAddsUp
<1> DEFINE n == Len(weight)
           P == {i \in 0 .. n : sum[i] \in Nat /\ sum[i] >= i}
<1>2. n \in Nat /\ \A i \in 1 .. n : weight[i] \in Nat /\ weight[i] >= 1
  BY WeightAssumption DEF Weights
<1>3. 0 \in P
  BY <1>1, <1>2
<1>4. ASSUME NEW i \in 0 .. n, i < n, i \in P PROVE i + 1 \in P
  <2>1. i + 1 \in 1 .. n /\ i + 1 - 1 = i /\ sum[i] \in Nat /\ sum[i] >= i
    BY <1>2, <1>4
  <2>2. sum[i + 1] = sum[i] + weight[i + 1]
    BY <1>1, <2>1
  <2> QED
    BY <1>2, <2>1, <2>2
<1>5. n \in P
  <2> HIDE DEF P, n
  <2> QED
    BY <1>2, <1>3, <1>4, CountUp
<1> QED
  BY <1>1, <1>5

\* Pick finds a connection with the highest sum.
LEMMA HeaviestIsOne ==
  ASSUME Weights, current \in [Conns -> 0 .. Modulus - 1]
  PROVE  /\ Heaviest \in Conns /\ Raised \in [Conns -> 0 .. Modulus - 1]
         /\ \A d \in Conns : Raised[d] <= Raised[Heaviest]
<1>1. Modulus \in Nat /\ Modulus > 0
  <2>1. \A a, b \in Nat : a * b >= 0
    OBVIOUS
  <2> QED
    BY <2>1, WeightAssumption
<1>2. Conns = 1 .. Len(weight) /\ Len(weight) \in Nat /\ Len(weight) > 0
  BY WeightAssumption DEF Conns, Weights
<1>3. Raised \in [Conns -> 0 .. Modulus - 1]
  <2>1. ASSUME NEW c \in Conns PROVE (current[c] + weight[c]) % Modulus \in 0 .. Modulus - 1
    <3>1. current[c] + weight[c] \in Int
      BY <1>1, <1>2 DEF Weights
    <3> QED
      BY <1>1, <3>1, Division
  <2> QED
    BY <2>1 DEF Raised
<1> DEFINE f == [c \in 1 .. Len(weight) |-> Modulus - Raised[c]]
<1>4. f \in [1 .. Len(weight) -> Nat]
  BY <1>1, <1>2, <1>3
<1>5. PICK c \in 1 .. Len(weight) :
        \A d \in 1 .. Len(weight) : f[c] < f[d] \/ (f[c] = f[d] /\ c <= d)
  <2> HIDE DEF f
  <2> QED
    BY <1>2, <1>4, FirstLeast
<1>6. \A d \in Conns : Raised[d] < Raised[c] \/ (Raised[d] = Raised[c] /\ c <= d)
  BY <1>1, <1>2, <1>3, <1>5
<1>7. /\ Heaviest \in Conns
      /\ \A d \in Conns : Raised[d] < Raised[Heaviest] \/ (Raised[d] = Raised[Heaviest] /\ Heaviest <= d)
  BY <1>2, <1>6 DEF Heaviest
<1>8. ASSUME NEW d \in Conns PROVE Raised[d] <= Raised[Heaviest]
  <2>1. Raised[d] \in Int /\ Raised[Heaviest] \in Int
    BY <1>1, <1>3, <1>7
  <2> QED
    BY <1>7, <2>1
<1> QED
  BY <1>3, <1>7, <1>8

LEMMA InitWeighted == Init => WeightedInv
<1> SUFFICES ASSUME Init PROVE WeightedInv
  OBVIOUS
<1>1. PICK n \in 1 .. MaxConns : weight \in [1 .. n -> 1 .. MaxWeight]
  BY DEF Init
<1>2. Weights /\ Conns = 1 .. n
  BY <1>1, WeightAssumption DEF Weights, Conns
<1>3. Modulus \in Nat /\ Modulus > MaxWeight /\ MaxWeight \in Nat
  <2>1. 2 * MaxConns * MaxWeight >= MaxWeight
    BY WeightAssumption
  <2> QED
    BY <2>1, WeightAssumption
<1> QED
  BY <1>1, <1>2, <1>3, TotalIsPositive DEF Init, WeightedInv

LEMMA PickKeepsWeighted == WeightedInv /\ [Next]_vars => WeightedInv'
<1> SUFFICES ASSUME WeightedInv, [Next]_vars PROVE WeightedInv'
  OBVIOUS
<1>1. CASE UNCHANGED vars
  BY <1>1 DEF vars, WeightedInv, Weights, Conns, Total
<1>2. CASE Pick
  <2>1. weight' = weight /\ Conns' = Conns /\ Total' = Total /\ Weights'
    BY <1>2 DEF Pick, Conns, Total, WeightedInv, Weights
  <2>2. Total \in Nat /\ Total >= 1
    BY TotalIsPositive, WeightAssumption DEF WeightedInv, Weights
  <2>3. Heaviest \in Conns /\ Raised \in [Conns -> 0 .. Modulus - 1]
    BY HeaviestIsOne DEF WeightedInv
  <2>4. Lowered(Heaviest) \in 0 .. Modulus - 1
    <3>1. Modulus \in Nat /\ Modulus > 0
      <4>1. \A a, b \in Nat : a * b >= 0
        OBVIOUS
      <4> QED
        BY <4>1, WeightAssumption
    <3>2. Raised[Heaviest] - Total \in Int
      BY <2>2, <2>3, <3>1
    <3> QED
      BY <3>1, <3>2, Division DEF Lowered
  <2>5. current' \in [Conns -> 0 .. Modulus - 1]
    BY <1>2, <2>3, <2>4 DEF Pick
  <2>6. /\ rounds' \in 0 .. Total /\ picks' \in [Conns -> Nat]
        /\ \A c \in Conns : picks'[c] <= rounds'
    <3>1. CASE rounds < Total
      <4>1. rounds' = rounds + 1 /\ picks' = [picks EXCEPT ![Heaviest] = @ + 1]
        BY <1>2, <3>1 DEF Pick
      <4> QED
        BY <2>2, <2>3, <3>1, <4>1 DEF WeightedInv
    <3>2. CASE ~(rounds < Total)
      <4>1. rounds' = 1 /\ picks' = [c \in Conns |-> IF c = Heaviest THEN 1 ELSE 0]
        BY <1>2, <3>2 DEF Pick
      <4> QED
        BY <2>2, <4>1
    <3> QED
      BY <3>1, <3>2
  <2> QED
    BY <2>1, <2>5, <2>6 DEF WeightedInv
<1> QED
  BY <1>1, <1>2 DEF Next

LEMMA WeightedTypes == WeightedInv => TypeOK
<1> SUFFICES ASSUME WeightedInv PROVE TypeOK
  OBVIOUS
<1>1. Conns = 1 .. Len(weight) /\ weight \in [Conns -> 1 .. MaxWeight]
  BY DEF WeightedInv, Weights, Conns
<1>2. Total \in Nat
  BY TotalIsPositive DEF WeightedInv
<1>3. picks \in [Conns -> 0 .. Total]
  BY <1>2 DEF WeightedInv
<1> QED
  BY <1>1, <1>3 DEF WeightedInv, TypeOK, Weights

-----------------------------------------------------------------------------
(* One or two connections.                                                 *)

\* The weights of all, and the first for one connection.
LEMMA TotalOfFew ==
  ASSUME Weights
  PROVE  /\ Len(weight) = 1 => Total = weight[1]
         /\ Len(weight) = 2 => Total = weight[1] + weight[2]
<1>1. PICK sum : /\ sum[0] = 0 /\ Total = sum[Len(weight)]
                 /\ \A i \in 1 .. Len(weight) : sum[i] = sum[i - 1] + weight[i]
  BY TotalAddsUp
<1>2. weight[1] \in Int /\ sum[1] = weight[1]
  <2>1. 1 \in 1 .. Len(weight) /\ 1 - 1 = 0 /\ weight[1] \in Int
    BY WeightAssumption DEF Weights
  <2>2. sum[1] = sum[0] + weight[1]
    BY <1>1, <2>1
  <2> QED
    BY <1>1, <2>1, <2>2
<1>3. ASSUME Len(weight) = 2 PROVE sum[2] = weight[1] + weight[2]
  <2>1. 2 \in 1 .. Len(weight) /\ 2 - 1 = 1
    BY <1>3
  <2> QED
    BY <1>1, <1>2, <2>1
<1> QED
  BY <1>1, <1>2, <1>3

\* What a connection is owed: its weight, and that again for each Pick, less the weight of
\* all for each Pick that chose it.
Owed(c) == weight[c] + rounds * weight[c] - picks[c] * Total

\* currentWeight, which never wraps around, is what a connection is owed; the connections
\* are owed the weight of all together, and every Pick chose one of them.
FewInv ==
  /\ WeightedInv
  /\ \A c \in Conns : current[c] = Owed(c)
  /\ Len(weight) = 1 => current[1] = Total /\ picks[1] = rounds
  /\ Len(weight) = 2 => current[1] + current[2] = Total /\ picks[1] + picks[2] = rounds

\* What the numbers of one or two connections are: one has the weight of all and is owed
\* it, and two share both.
LEMMA FewNumbers ==
  ASSUME Few, FewInv
  PROVE  /\ Len(weight) = 1 \/ Len(weight) = 2
         /\ Conns = 1 .. Len(weight)
         /\ Total \in Nat /\ Total >= 1 /\ rounds \in Nat
         /\ \A c \in Conns : /\ weight[c] \in Nat /\ weight[c] >= 1 /\ weight[c] <= MaxWeight
                             /\ current[c] \in Nat /\ picks[c] \in Nat
         /\ Len(weight) = 1 => /\ 1 \in Conns /\ Total = weight[1]
                               /\ current[1] = Total /\ picks[1] = rounds
         /\ Len(weight) = 2 => /\ 1 \in Conns /\ 2 \in Conns /\ Total = weight[1] + weight[2]
                               /\ current[1] + current[2] = Total
                               /\ picks[1] + picks[2] = rounds
<1>1. Weights /\ rounds \in 0 .. Total /\ picks \in [Conns -> Nat]
      /\ current \in [Conns -> 0 .. Modulus - 1]
  BY DEF FewInv, WeightedInv
<1> DEFINE n == Len(weight)
<1>2. n \in 1 .. MaxConns /\ weight \in [1 .. n -> 1 .. MaxWeight]
  BY <1>1 DEF Weights
<1>3. Conns = 1 .. n
  BY <1>2 DEF Conns
<1>4. n = 1 \/ n = 2
  <2>1. n <= 2
    BY DEF Few
  <2> HIDE DEF n
  <2> QED
    BY <1>2, <2>1, WeightAssumption
<1>5. Total \in Nat /\ Total >= 1 /\ rounds \in Nat
  <2>1. Total \in Nat /\ Total >= n
    BY <1>1, TotalIsPositive
  <2> HIDE DEF n
  <2> QED
    BY <1>1, <1>4, <2>1
<1> HIDE DEF n
<1>6. ASSUME NEW c \in Conns
      PROVE  /\ weight[c] \in Nat /\ weight[c] >= 1 /\ weight[c] <= MaxWeight
             /\ current[c] \in Nat /\ picks[c] \in Nat
  <2>1. weight[c] \in 1 .. MaxWeight /\ current[c] \in 0 .. Modulus - 1 /\ picks[c] \in Nat
    BY <1>1, <1>2, <1>3
  <2>2. Modulus \in Nat /\ MaxWeight \in Nat
    BY WeightAssumption
  <2> QED
    BY <2>1, <2>2
<1>7. n = 1 => 1 \in Conns /\ Total = weight[1] /\ current[1] = Total /\ picks[1] = rounds
  BY <1>1, <1>3, TotalOfFew DEF FewInv, n
<1>8. n = 2 => /\ 1 \in Conns /\ 2 \in Conns /\ Total = weight[1] + weight[2]
               /\ current[1] + current[2] = Total /\ picks[1] + picks[2] = rounds
  BY <1>1, <1>3, TotalOfFew DEF FewInv, n
<1> QED
  BY <1>3, <1>4, <1>5, <1>6, <1>7, <1>8 DEF n

\* So no connection weighs more than all, and what it is owed is above its weight less that
\* of all, and not above that of all.
LEMMA FewBounds ==
  ASSUME Few, FewInv, NEW c \in Conns
  PROVE  /\ weight[c] <= Total /\ current[c] <= Total /\ current[c] > weight[c] - Total
         /\ Len(weight) = 2 => weight[c] < Total
<1>1. CASE Len(weight) = 1
  <2>1. c = 1
    BY <1>1, FewNumbers
  <2>2. weight[1] \in Nat /\ weight[1] >= 1 /\ Total = weight[1] /\ current[1] = Total
    BY <1>1, FewNumbers
  <2> QED
    BY <1>1, <2>1, <2>2
<1>2. CASE Len(weight) = 2
  <2>1. c = 1 \/ c = 2
    BY <1>2, FewNumbers
  <2>2. /\ weight[1] \in Nat /\ weight[1] >= 1 /\ weight[2] \in Nat /\ weight[2] >= 1
        /\ current[1] \in Nat /\ current[2] \in Nat
        /\ Total = weight[1] + weight[2] /\ current[1] + current[2] = Total
    BY <1>2, FewNumbers
  <2> QED
    BY <1>2, <2>1, <2>2
<1> QED
  BY <1>1, <1>2, FewNumbers

\* At the end of a cycle each connection is owed its weight.
LEMMA FewProportional ==
  ASSUME Few, FewInv
  PROVE  Proportional /\ (rounds = Total => current = weight)
<1>1. DOMAIN picks = Conns /\ DOMAIN weight = Conns /\ DOMAIN current = Conns
      /\ weight = [c \in Conns |-> weight[c]] /\ picks = [c \in Conns |-> picks[c]]
      /\ current = [c \in Conns |-> current[c]]
  <2>1. Conns = 1 .. Len(weight)
    BY FewNumbers
  <2> QED
    BY <2>1 DEF FewInv, WeightedInv, Weights
<1>2. Total \in Nat /\ Total >= 1
  BY FewNumbers
<1>3. \A c \in Conns : weight[c] \in Nat /\ weight[c] >= 1 /\ current[c] \in Nat /\ picks[c] \in Nat
  BY FewNumbers
<1>4. ASSUME rounds = Total, NEW c \in Conns PROVE picks[c] = weight[c]
  <2>1. CASE Len(weight) = 1
    <3>1. c = 1
      BY <2>1, FewNumbers
    <3> QED
      BY <1>4, <2>1, <3>1, FewNumbers
  <2>2. CASE Len(weight) = 2
    <3> DEFINE d == weight[c] - picks[c]
    <3>1. current[c] <= Total /\ weight[c] < Total
      BY <2>2, FewBounds
    <3>2. current[c] = weight[c] + Total * weight[c] - picks[c] * Total
      BY <1>4 DEF FewInv, Owed
    <3>3. current[c] = weight[c] + d * Total /\ d \in Int
      BY <1>2, <1>3, <3>2
    <3> HIDE DEF d
    <3>4. ~(d >= 1)
      <4>1. d >= 1 => d * Total >= Total
        BY <1>2, <3>3
      <4> QED
        BY <1>2, <1>3, <3>1, <3>3, <4>1
    <3>5. ~(d <= -1)
      <4>1. d <= -1 => d * Total <= -Total
        BY <1>2, <3>3
      <4> QED
        BY <1>2, <1>3, <3>1, <3>3, <4>1
    <3>6. d = 0
      BY <3>3, <3>4, <3>5
    <3> QED
      BY <1>3, <3>6 DEF d
  <2> QED
    BY <2>1, <2>2, FewNumbers
<1>5. rounds = Total => picks = weight
  BY <1>1, <1>4
<1>6. ASSUME rounds = Total, NEW c \in Conns PROVE current[c] = weight[c]
  <2>1. current[c] = weight[c] + Total * weight[c] - weight[c] * Total
    BY <1>4, <1>6 DEF FewInv, Owed
  <2> QED
    BY <1>2, <1>3, <2>1
<1>7. rounds = Total => current = weight
  BY <1>1, <1>6
<1> QED
  BY <1>5, <1>7 DEF Proportional

LEMMA FewSmooth ==
  ASSUME Few, FewInv
  PROVE  Smooth
<1> SUFFICES ASSUME NEW c \in Conns
             PROVE  /\ picks[c] * Total < rounds * weight[c] + Total
                    /\ picks[c] * Total > rounds * weight[c] - Total
  BY DEF Smooth
<1>1. Total \in Nat /\ rounds \in Nat /\ weight[c] \in Nat /\ weight[c] >= 1
      /\ current[c] \in Nat /\ picks[c] \in Nat
  BY FewNumbers
<1>2. picks[c] * Total \in Int /\ rounds * weight[c] \in Int
  BY <1>1
<1>3. current[c] = weight[c] + rounds * weight[c] - picks[c] * Total
  BY DEF FewInv, Owed
<1>4. current[c] <= Total /\ current[c] > weight[c] - Total
  BY FewBounds
<1> QED
  BY <1>1, <1>2, <1>3, <1>4

\* A Pick neither wraps a sum around, nor takes a connection below nothing: the heavier of
\* two has at least the half of both their sums, the weight of all.
LEMMA PickOfFew ==
  ASSUME Few, FewInv, Pick
  PROVE  FewInv'
<1> DEFINE n == Len(weight)
           h == Heaviest
           T == Total
<1>1. (n = 1 \/ n = 2) /\ Conns = 1 .. n
  BY FewNumbers
<1>2. T \in Nat /\ T >= 1 /\ rounds \in Nat
  BY FewNumbers
<1>3. \A c \in Conns : /\ weight[c] \in Nat /\ weight[c] >= 1 /\ weight[c] <= MaxWeight
                       /\ current[c] \in Nat /\ picks[c] \in Nat
                       /\ weight[c] <= T /\ current[c] <= T
  BY FewNumbers, FewBounds
<1>4. n = 1 => 1 \in Conns /\ T = weight[1] /\ current[1] = T /\ picks[1] = rounds
  BY FewNumbers
<1>5. n = 2 => /\ 1 \in Conns /\ 2 \in Conns /\ T = weight[1] + weight[2]
               /\ current[1] + current[2] = T /\ picks[1] + picks[2] = rounds
  BY FewNumbers
<1>6. n \in Nat /\ n <= MaxConns /\ rounds <= T /\ DOMAIN picks = Conns
  BY <1>2, WeightAssumption DEF FewInv, WeightedInv, Weights
<1>7. Modulus \in Nat /\ Modulus > 2 * T
  <2>1. MaxWeight \in Nat /\ MaxConns \in Nat /\ Modulus \in Nat
        /\ Modulus > 2 * MaxConns * MaxWeight
    BY WeightAssumption
  <2>2. T <= n * MaxWeight
    <3>1. CASE n = 1
      <4>1. T <= MaxWeight
        BY <1>3, <1>4, <3>1
      <4> HIDE DEF T, n
      <4> QED
        BY <1>2, <2>1, <3>1, <4>1
    <3>2. CASE n = 2
      <4>1. weight[1] <= MaxWeight /\ weight[2] <= MaxWeight
            /\ weight[1] \in Nat /\ weight[2] \in Nat /\ T = weight[1] + weight[2]
        BY <1>3, <1>5, <3>2
      <4> HIDE DEF T, n
      <4> QED
        BY <2>1, <3>2, <4>1
    <3> QED
      BY <1>1, <3>1, <3>2
  <2> HIDE DEF T, n
  <2>3. n * MaxWeight \in Nat /\ n * MaxWeight <= MaxConns * MaxWeight
    BY <1>6, <2>1, Z3
  <2>4. 2 * MaxConns * MaxWeight = 2 * (MaxConns * MaxWeight) /\ MaxConns * MaxWeight \in Nat
    BY <2>1
  <2> QED
    BY <1>2, <2>1, <2>2, <2>3, <2>4
<1>8. \A c \in Conns : Raised[c] = current[c] + weight[c]
  <2>1. ASSUME NEW c \in Conns PROVE (current[c] + weight[c]) % Modulus = current[c] + weight[c]
    <3>1. current[c] <= T /\ weight[c] <= T /\ current[c] \in Nat /\ weight[c] \in Nat
      BY <1>3
    <3> HIDE DEF T
    <3>2. current[c] + weight[c] \in 0 .. Modulus - 1
      BY <1>2, <1>7, <3>1
    <3> QED
      BY <1>7, <3>2
  <2> QED
    BY <2>1 DEF Raised
<1>9. h \in Conns /\ \A d \in Conns : Raised[d] <= Raised[h]
  BY HeaviestIsOne DEF FewInv, WeightedInv
<1> HIDE DEF h, n, T
<1>10. current[h] + weight[h] >= T
  <2>1. CASE n = 1
    BY <1>1, <1>2, <1>3, <1>4, <1>9, <2>1
  <2>2. CASE n = 2
    <3>1. h = 1 \/ h = 2
      BY <1>1, <1>9, <2>2
    <3>2. /\ current[1] + weight[1] <= current[h] + weight[h]
          /\ current[2] + weight[2] <= current[h] + weight[h]
      BY <1>5, <1>8, <1>9, <2>2
    <3>3. /\ weight[1] \in Nat /\ weight[2] \in Nat /\ current[1] \in Nat /\ current[2] \in Nat
          /\ T = weight[1] + weight[2] /\ current[1] + current[2] = T
      BY <1>3, <1>5, <2>2
    <3> QED
      BY <3>1, <3>2, <3>3
  <2> QED
    BY <1>1, <2>1, <2>2
<1>11. Lowered(h) = current[h] + weight[h] - T
  <2>1. /\ current[h] \in Nat /\ weight[h] \in Nat /\ current[h] <= T /\ weight[h] <= T
        /\ Raised[h] = current[h] + weight[h]
    BY <1>3, <1>8, <1>9
  <2>2. current[h] + weight[h] - T \in 0 .. Modulus - 1
    BY <1>2, <1>7, <1>10, <2>1
  <2>3. (current[h] + weight[h] - T) % Modulus = current[h] + weight[h] - T
    BY <1>7, <2>2
  <2>4. Lowered(h) = (Raised[h] - T) % Modulus
    BY DEF Lowered, T
  <2> QED
    BY <1>2, <2>1, <2>3, <2>4
<1>12. weight' = weight /\ Conns' = Conns /\ Total' = T /\ n' = n
  BY DEF Pick, Conns, Total, T, n
<1>13. \A c \in Conns :
         current'[c] = IF c = h THEN current[c] + weight[c] - T ELSE current[c] + weight[c]
  <2>1. current' = [Raised EXCEPT ![h] = Lowered(h)]
    BY DEF Pick, h
  <2>2. DOMAIN Raised = Conns
    BY DEF Raised
  <2> QED
    BY <1>8, <1>9, <1>11, <2>1, <2>2
<1>14. /\ \A c \in Conns : current'[c] = Owed(c)'
       /\ n = 1 => picks'[1] = rounds'
       /\ n = 2 => picks'[1] + picks'[2] = rounds'
  <2>1. CASE rounds < T
    <3>1. rounds' = rounds + 1 /\ picks' = [picks EXCEPT ![h] = @ + 1]
      BY <2>1 DEF Pick, h, T
    <3>2. \A c \in Conns : picks'[c] = IF c = h THEN picks[c] + 1 ELSE picks[c]
      BY <1>6, <1>9, <3>1
    <3>3. ASSUME NEW c \in Conns PROVE current'[c] = Owed(c)'
      <4>1. current[c] = weight[c] + rounds * weight[c] - picks[c] * T
        BY DEF FewInv, Owed, T
      <4>2. /\ (rounds + 1) * weight[c] = rounds * weight[c] + weight[c]
            /\ (picks[c] + 1) * T = picks[c] * T + T
            /\ rounds * weight[c] \in Int /\ picks[c] * T \in Int
            /\ weight[c] \in Int /\ T \in Int
        BY <1>2, <1>3
      <4>3. Owed(c)' = weight[c] + rounds' * weight[c] - picks'[c] * T
        BY <1>12 DEF Owed
      <4>4. CASE c = h
        BY <1>13, <3>1, <3>2, <4>1, <4>2, <4>3, <4>4
      <4>5. CASE c # h
        BY <1>13, <3>1, <3>2, <4>1, <4>2, <4>3, <4>5
      <4> QED
        BY <4>4, <4>5
    <3>4. n = 1 => picks'[1] = rounds'
      BY <1>1, <1>4, <1>9, <3>1, <3>2
    <3>5. ASSUME n = 2 PROVE picks'[1] + picks'[2] = rounds'
      <4>1. (h = 1 \/ h = 2) /\ picks[1] \in Nat /\ picks[2] \in Nat
            /\ picks[1] + picks[2] = rounds /\ 1 \in Conns /\ 2 \in Conns
        BY <1>1, <1>3, <1>5, <1>9, <3>5
      <4>2. /\ picks'[1] = IF 1 = h THEN picks[1] + 1 ELSE picks[1]
            /\ picks'[2] = IF 2 = h THEN picks[2] + 1 ELSE picks[2]
        BY <3>2, <4>1
      <4> QED
        BY <3>1, <4>1, <4>2
    <3> QED
      BY <3>3, <3>4, <3>5
  <2>2. CASE ~(rounds < T)
    <3>1. rounds' = 1 /\ picks' = [c \in Conns |-> IF c = h THEN 1 ELSE 0]
      BY <2>2 DEF Pick, h, T
    <3>2. rounds = T
      BY <1>2, <1>6, <2>2
    <3>3. current = weight
      BY <3>2, FewProportional DEF T
    <3>4. ASSUME NEW c \in Conns PROVE current'[c] = Owed(c)'
      <4>1. Owed(c)' = weight[c] + rounds' * weight[c] - picks'[c] * T
        BY <1>12 DEF Owed
      <4>2. weight[c] \in Int /\ T \in Int /\ picks'[c] = IF c = h THEN 1 ELSE 0
        BY <1>2, <1>3, <3>1
      <4> QED
        BY <1>13, <3>1, <3>3, <4>1, <4>2
    <3>5. (n = 1 => picks'[1] = rounds') /\ (n = 2 => picks'[1] + picks'[2] = rounds')
      <4>1. (n = 1 => h = 1) /\ (n = 2 => h = 1 \/ h = 2)
        BY <1>1, <1>9
      <4>2. (n = 1 => 1 \in Conns) /\ (n = 2 => 1 \in Conns /\ 2 \in Conns)
        BY <1>4, <1>5
      <4> QED
        BY <3>1, <4>1, <4>2
    <3> QED
      BY <3>4, <3>5
  <2> QED
    BY <2>1, <2>2
<1>15. n = 1 => current'[1] = T
  BY <1>1, <1>2, <1>3, <1>4, <1>9, <1>13
<1>16. ASSUME n = 2 PROVE current'[1] + current'[2] = T
  <2>1. /\ h = 1 \/ h = 2
        /\ weight[1] \in Nat /\ weight[2] \in Nat /\ current[1] \in Nat /\ current[2] \in Nat
        /\ T = weight[1] + weight[2] /\ current[1] + current[2] = T
        /\ 1 \in Conns /\ 2 \in Conns
    BY <1>1, <1>3, <1>5, <1>9, <1>16
  <2>2. /\ current'[1] = IF 1 = h THEN current[1] + weight[1] - T ELSE current[1] + weight[1]
        /\ current'[2] = IF 2 = h THEN current[2] + weight[2] - T ELSE current[2] + weight[2]
    BY <1>13, <2>1
  <2> QED
    BY <2>1, <2>2
<1>17. WeightedInv'
  BY PickKeepsWeighted DEF FewInv, Next
<1> QED
  BY <1>12, <1>14, <1>15, <1>16, <1>17 DEF FewInv, n, T

\* WeightPicker.Pick with one or two connections of any weights: currentWeight is what a
\* connection is owed, and as that is never negative it does not wrap around.
LEMMA FewStay == Spec => [](Few => FewInv)
<1>1. Init => FewInv
  <2> SUFFICES ASSUME Init PROVE FewInv
    OBVIOUS
  <2>1. WeightedInv /\ current = weight /\ rounds = 0 /\ \A c \in Conns : picks[c] = 0
    BY InitWeighted DEF Init
  <2>2. Weights /\ Total \in Nat
    BY <2>1, TotalIsPositive DEF WeightedInv
  <2>3. Conns = 1 .. Len(weight)
    BY <2>2 DEF Weights, Conns
  <2>4. \A c \in Conns : weight[c] \in Nat
    BY <2>2, <2>3, WeightAssumption DEF Weights
  <2>5. \A c \in Conns : current[c] = Owed(c)
    <3> SUFFICES ASSUME NEW c \in Conns PROVE current[c] = Owed(c)
      OBVIOUS
    <3>1. Owed(c) = weight[c] + 0 * weight[c] - 0 * Total
      BY <2>1 DEF Owed
    <3>2. weight[c] \in Nat
      BY <2>4
    <3> QED
      BY <2>1, <2>2, <3>1, <3>2
  <2>6. Len(weight) = 1 => current[1] = Total /\ picks[1] = rounds
    BY <2>1, <2>2, <2>3, TotalOfFew
  <2>7. Len(weight) = 2 => current[1] + current[2] = Total /\ picks[1] + picks[2] = rounds
    BY <2>1, <2>2, <2>3, TotalOfFew
  <2> QED
    BY <2>1, <2>5, <2>6, <2>7 DEF FewInv
<1>2. (Few => FewInv) /\ [Next]_vars => (Few => FewInv)'
  <2> SUFFICES ASSUME Few => FewInv, [Next]_vars, Few' PROVE FewInv'
    OBVIOUS
  <2>1. weight' = weight
    BY DEF Next, Pick, vars
  <2>2. Few /\ FewInv
    BY <2>1 DEF Few
  <2>3. CASE UNCHANGED vars
    BY <2>2, <2>3 DEF FewInv, WeightedInv, Weights, Conns, Total, Owed, vars
  <2> QED
    BY <2>2, <2>3, PickOfFew DEF Next
<1> QED
  BY <1>1, <1>2, PTL DEF Spec

\* Of up to two connections of any weights: a cycle of Total picks chooses each as often as
\* its weight says, although current is unsigned.
THEOREM FewAreServedInProportion == Spec => []Proportional
<1>1. (Few => FewInv) => Proportional
  BY FewProportional DEF Proportional
<1> QED
  BY <1>1, FewStay, PTL

\* And at no time within the cycle has one of them had a pick too many or too few.
THEOREM FewAreServedSmoothly == Spec => []Smooth
<1>1. (Few => FewInv) => Smooth
  BY FewSmooth DEF Smooth
<1> QED
  BY <1>1, FewStay, PTL

-----------------------------------------------------------------------------
(* The fastest picker.                                                     *)

\* What the Pick under way has seen: the response times of the connections before
\* the next one, among which is the best so far.
ScanInv ==
  /\ Ready \subseteq Nat \ {0}
  /\ response \in [Ready -> Nat]
  /\ scan.next \in Nat
  /\ scan.seen \in Seq(Nat)
  /\ scan.next = 0 => scan.seen = <<>> /\ scan.best = 0
  /\ scan.next > 0 => Len(scan.seen) = scan.next - 1
  /\ scan.best \in {0} \cup (Ready \cap DOMAIN scan.seen)
  /\ scan.best = 0 => \A c \in DOMAIN scan.seen : ~GroupFilter(scan.filter, c)

ScanType ==
  scan \in [filter : Wanted, next : Nat, best : Nat, seen : Seq(Nat), slowed : BOOLEAN]

IInv == ScanType /\ ScanInv /\ FastestUnlessSlowed

-----------------------------------------------------------------------------
\* Build starts without a Pick under way.
LEMMA InitIInv == PickersInit => IInv
<1> SUFFICES ASSUME PickersInit PROVE IInv
  OBVIOUS
<1>1. PICK n \in 0 .. MaxReady : group \in [1 .. n -> Groups]
  BY DEF PickersInit
<1>2. Ready = 1 .. n
  BY <1>1 DEF Ready
<1> QED
  BY <1>2, PickersAssumption
    DEF PickersInit, FastestInit, Idle, IInv, ScanType, ScanInv, FastestUnlessSlowed, Wanted, GroupFilter

\* A look keeps the faster of the two: the new one was seen faster than the best,
\* which is no slower now than what was seen of the others.
LEMMA LookIInv == IInv /\ FastestLook => IInv'
<1> SUFFICES ASSUME IInv, FastestLook PROVE IInv'
  OBVIOUS
<1> DEFINE c == scan.next
<1>1. c \in Ready /\ c \in Nat \ {0} /\ Len(scan.seen) = c - 1 /\ response[c] \in Nat
  BY DEF IInv, ScanInv, FastestLook
<1>2. /\ scan'.seen = Append(scan.seen, response[c]) /\ scan'.next = c + 1
      /\ scan'.filter = scan.filter /\ scan'.slowed = scan.slowed
      /\ scan'.best = IF GroupFilter(scan.filter, c) /\ Faster(c) THEN c ELSE scan.best
      /\ group' = group /\ response' = response
  BY DEF FastestLook, IInv, ScanType
<1>3. ScanType'
  <2>1. Append(scan.seen, response[c]) \in Seq(Nat) /\ c + 1 \in Nat
    BY <1>1 DEF IInv, ScanType
  <2>2. CASE GroupFilter(scan.filter, c) /\ Faster(c)
    <3>1. scan' = [scan EXCEPT !.next = c + 1, !.seen = Append(@, response[c]), !.best = c]
      BY <2>2 DEF FastestLook, IInv, ScanType
    <3> QED
      BY <3>1, <2>1, <1>1 DEF IInv, ScanType, Wanted
  <2>3. CASE ~(GroupFilter(scan.filter, c) /\ Faster(c))
    <3>1. scan' = [scan EXCEPT !.next = c + 1, !.seen = Append(@, response[c])]
      BY <2>3 DEF FastestLook, IInv, ScanType
    <3> QED
      BY <3>1, <2>1 DEF IInv, ScanType, Wanted
  <2> QED
    BY <2>2, <2>3
<1>4. ScanInv'
  BY <1>1, <1>2 DEF IInv, ScanType, ScanInv, Ready, GroupFilter, Faster
<1>5. FastestUnlessSlowed'
  BY <1>1, <1>2 DEF IInv, ScanType, ScanInv, FastestUnlessSlowed, Ready, GroupFilter, Faster
<1> QED
  BY <1>3, <1>4, <1>5 DEF IInv

\* A response time that changes under the Pick: that of the best connection may fall,
\* or rises, which the history tells.
LEMMA UpdateIInv ==
  ASSUME NEW c \in Ready, NEW t \in Times, IInv, UpdateRespTime(c, t)
  PROVE  IInv'
<1>1. /\ scan'.seen = scan.seen /\ scan'.next = scan.next /\ scan'.best = scan.best
      /\ scan'.filter = scan.filter
      /\ ~scan'.slowed => ~scan.slowed /\ ~(c = scan.best /\ t > response[c])
      /\ group' = group /\ response' = [response EXCEPT ![c] = t] /\ t \in Nat
  BY PickersAssumption DEF UpdateRespTime, IInv, ScanType
<1>2. ScanType'
  BY <1>1 DEF UpdateRespTime, IInv, ScanType, Wanted
<1>3. ScanInv'
  BY <1>1 DEF IInv, ScanType, ScanInv, Ready, GroupFilter
<1>4. FastestUnlessSlowed'
  BY <1>1 DEF IInv, ScanType, ScanInv, FastestUnlessSlowed, Ready, GroupFilter
<1> QED
  BY <1>2, <1>3, <1>4 DEF IInv

\* Every step of every picker keeps what a Pick knows.
LEMMA NextIInv == IInv /\ [PickersNext]_pickerVars => IInv'
<1> SUFFICES ASSUME IInv, [PickersNext]_pickerVars PROVE IInv'
  OBVIOUS
<1> USE DEF IInv, ScanType, ScanInv, FastestUnlessSlowed, Ready, GroupFilter, Wanted
<1>1. CASE UNCHANGED <<group, response, scan>>
  BY <1>1
<1>2. ASSUME NEW g \in Wanted, FastestStart(g) PROVE IInv'
  <2>1. /\ scan' = [filter |-> g, next |-> 1, best |-> 0, seen |-> <<>>, slowed |-> FALSE]
        /\ group' = group /\ response' = response
    BY <1>2 DEF FastestStart, Idle
  <2> QED
    BY <2>1
<1>3. CASE FastestLook
  BY <1>3, LookIInv
<1>4. CASE FastestReturn
  BY <1>4 DEF FastestReturn, Idle
<1>5. ASSUME NEW c \in Ready, NEW t \in Times, UpdateRespTime(c, t) PROVE IInv'
  BY <1>5, UpdateIInv
<1> QED
  BY <1>1, <1>2, <1>3, <1>4, <1>5
    DEF PickersNext, pickerVars, RoundRobinPick, LeastActivePick, LeastActiveDone, UpdateFails

-----------------------------------------------------------------------------
\* Balancer.Pick: what it returns was the fastest connection of the group when it looked,
\* unless that connection slowed down meanwhile.
THEOREM FastestIsFastest == PickersSpec => []FastestUnlessSlowed
<1>1. PickersInit => IInv
  BY InitIInv
<1>2. IInv /\ [PickersNext]_pickerVars => IInv'
  BY NextIInv
<1>3. IInv => FastestUnlessSlowed
  BY DEF IInv
<1> QED
  BY <1>1, <1>2, <1>3, PTL DEF PickersSpec
-----------------------------------------------------------------------------
(* The round robin and least active pickers, and the types of all three.   *)

Grouped == \E n \in 0 .. MaxReady : group \in [1 .. n -> Groups]

LEMMA ReadyIsAnInterval ==
  ASSUME Grouped
  PROVE  Len(group) \in Nat /\ Len(group) <= MaxReady /\ Ready = 1 .. Len(group)
         /\ IsFiniteSet(Ready) /\ Cardinality(Ready) = Len(group)
<1>1. PICK n \in 0 .. MaxReady : group \in [1 .. n -> Groups]
  BY DEF Grouped
<1>2. n \in Nat /\ Len(group) = n /\ Ready = 1 .. n
  BY <1>1, PickersAssumption DEF Ready
<1>3. IsFiniteSet(1 .. n) /\ Cardinality(1 .. n) = n
  BY <1>2, FS_Interval
<1> QED
  BY <1>1, <1>2, <1>3, PickersAssumption

\* A list of numbers up to n, in their order.
InOrder(s, n) ==
  /\ s \in Seq(Nat) /\ \A a \in 1 .. Len(s) : s[a] \in 1 .. n
  /\ \A a, b \in 1 .. Len(s) : a < b => s[a] < s[b]

LEMMA OneMoreInOrder ==
  ASSUME NEW n \in Nat, NEW s, InOrder(s, n)
  PROVE  InOrder(s, n + 1) /\ InOrder(Append(s, n + 1), n + 1)
<1>1. /\ Append(s, n + 1) \in Seq(Nat) /\ Len(Append(s, n + 1)) = Len(s) + 1 /\ Len(s) \in Nat
      /\ \A a \in 1 .. Len(s) : Append(s, n + 1)[a] = s[a]
      /\ Append(s, n + 1)[Len(s) + 1] = n + 1
  BY DEF InOrder
<1>2. \A a \in 1 .. Len(s) : s[a] \in Nat /\ 1 <= s[a] /\ s[a] <= n
  BY DEF InOrder
<1>3. InOrder(s, n + 1)
  BY <1>2 DEF InOrder
<1>4. InOrder(Append(s, n + 1), n + 1)
  BY <1>1, <1>2 DEF InOrder
<1> QED
  BY <1>3, <1>4

\* Pick lists each connection of the group once.
LEMMA CandidatesInOrder ==
  ASSUME Grouped, NEW g
  PROVE  InOrder(Candidates(g), Len(group))
<1> DEFINE n == Len(group)
           step == [x \in Seq(Nat) \X (1 .. n) |->
                      IF GroupFilter(g, x[2]) THEN Append(x[1], x[2]) ELSE x[1]]
           Def(listed) == [i \in 0 .. n |-> IF i = 0 THEN <<>>
                                            ELSE IF GroupFilter(g, i) THEN Append(listed[i - 1], i)
                                            ELSE listed[i - 1]]
           listed == CHOOSE listed : listed = Def(listed)
<1>1. n \in Nat
  BY ReadyIsAnInterval
<1>2. PICK f : Iterates(f, Seq(Nat), <<>>, n, step)
  <2>1. Steps(Seq(Nat), n, step)
    <3>1. \A s \in Seq(Nat), i \in 1 .. n : Append(s, i) \in Seq(Nat)
      BY <1>1
    <3> HIDE DEF n
    <3> QED
      BY <3>1 DEF Steps
  <2>2. <<>> \in Seq(Nat)
    OBVIOUS
  <2> HIDE DEF n, step
  <2> QED
    BY <1>1, <2>1, <2>2, IterationExists
<1>3. f = Def(f)
  <2> HIDE DEF n
  <2>1. \A i \in 1 .. n : i - 1 \in 0 .. n /\ f[i - 1] \in Seq(Nat)
    BY <1>1, <1>2 DEF Iterates
  <2>2. \A i \in 1 .. n : f[i] = IF GroupFilter(g, i) THEN Append(f[i - 1], i) ELSE f[i - 1]
    BY <1>2, <2>1 DEF Iterates
  <2>3. f \in [0 .. n -> Seq(Nat)] /\ \A i \in 0 .. n : f[i] = Def(f)[i]
    <3>1. f \in [0 .. n -> Seq(Nat)] /\ f[0] = <<>>
      BY <1>2 DEF Iterates
    <3>2. f[0] = Def(f)[0]
      BY <1>1, <3>1
    <3>3. ASSUME NEW i \in 1 .. n PROVE f[i] = Def(f)[i]
      <4>1. i \in 0 .. n /\ i # 0
        BY <1>1
      <4> QED
        BY <2>2, <4>1
    <3>4. \A i \in 0 .. n : i = 0 \/ i \in 1 .. n
      BY <1>1
    <3> HIDE DEF Def
    <3> QED
      BY <3>1, <3>2, <3>3, <3>4
  <2>4. f = [i \in 0 .. n |-> f[i]] /\ Def(f) = [i \in 0 .. n |-> Def(f)[i]]
    BY <2>3
  <2> HIDE DEF Def
  <2> QED
    BY <2>3, <2>4
<1>4. listed = Def(listed)
  <2> HIDE DEF Def
  <2> QED
    BY <1>3
<1> DEFINE P == {i \in 0 .. n : InOrder(listed[i], i)}
<1>5. 0 .. n \subseteq P
  <2>1. 0 \in P
    <3>1. InOrder(<<>>, 0)
      BY DEF InOrder
    <3> HIDE DEF listed, n
    <3>2. listed[0] = <<>>
      BY <1>1, <1>4
    <3> QED
      BY <1>1, <3>1, <3>2
  <2>2. ASSUME NEW i \in 0 .. n, i < n, i \in P PROVE i + 1 \in P
    <3> HIDE DEF listed, n
    <3>1. i + 1 \in 1 .. n /\ i + 1 - 1 = i /\ i \in Nat /\ InOrder(listed[i], i)
      BY <1>1, <2>2
    <3>2. listed[i + 1] = IF GroupFilter(g, i + 1) THEN Append(listed[i], i + 1) ELSE listed[i]
      <4>1. Def(listed)[i + 1] = IF GroupFilter(g, i + 1) THEN Append(listed[i + 1 - 1], i + 1)
                                                         ELSE listed[i + 1 - 1]
        <5>1. i + 1 \in 0 .. n /\ i + 1 # 0
          BY <1>1, <3>1
        <5> QED
          BY <5>1
      <4> HIDE DEF Def
      <4> QED
        BY <1>4, <3>1, <4>1
    <3>3. InOrder(listed[i + 1], i + 1)
      BY <3>1, <3>2, OneMoreInOrder
    <3> QED
      BY <1>1, <3>1, <3>3
  <2> HIDE DEF P
  <2> QED
    BY <1>1, <2>1, <2>2, CountUp
<1>6. Candidates(g) = listed[n]
  BY DEF Candidates
<1> HIDE DEF listed, n
<1>7. n \in P
  BY <1>1, <1>5
<1> QED
  BY <1>6, <1>7 DEF n

\* Pick's index is one of the list: the remainder that the counter leaves.
LEMMA IndexOfNext ==
  ASSUME Grouped, NEW g, Candidates(g) # <<>>, cnt \in 0 .. CounterMod - 1
  PROVE  /\ (cnt + 1) % CounterMod \in 0 .. CounterMod - 1
         /\ Len(Candidates(g)) \in Nat /\ Len(Candidates(g)) > 0
         /\ Index(g) \in 0 .. Len(Candidates(g)) - 1
         /\ Candidates(g)[Index(g) + 1] \in Ready
<1>1. CounterMod \in Nat /\ CounterMod > 0
  BY PickersAssumption
<1>2. Len(Candidates(g)) \in Nat /\ Len(Candidates(g)) > 0
  BY CandidatesInOrder DEF InOrder
<1>3. (cnt + 1) % CounterMod \in 0 .. CounterMod - 1 /\ cnt + 1 \in Int
  BY <1>1, Division
<1>4. Index(g) \in 0 .. Len(Candidates(g)) - 1
  BY <1>1, <1>2, <1>3, Division DEF Index
<1>5. Candidates(g)[Index(g) + 1] \in 1 .. Len(group)
  BY <1>2, <1>4, CandidatesInOrder DEF InOrder
<1> QED
  BY <1>2, <1>3, <1>4, <1>5, ReadyIsAnInterval

\* The place of a list of n that comes d before place r, in a circle.
Back(r, d, n) == IF r >= d THEN r - d ELSE r - d + n

\* The latest Picks are those that the counter led to, one after the other.
TakesTurns ==
  LET cs == Candidates(row.filter)
      k == Len(row.picks)
  IN row.picks # <<>> =>
       /\ k <= Len(cs)
       /\ \A i \in 1 .. k : row.picks[i] = cs[Back(cnt % Len(cs), k - i, Len(cs)) + 1]

RoundRobinInv ==
  /\ Grouped
  /\ cnt \in 0 .. CounterMod - 1
  /\ row \in [filter : Wanted, picks : Seq(Ready)]
  /\ TakesTurns

\* What Pick adds to the row is the candidate after the one before, and the row has no
\* more of them than there are candidates.
LEMMA PickTakesTurns ==
  ASSUME RoundRobinInv, NEW g \in Wanted, RoundRobinPick(g)
  PROVE  RoundRobinInv'
<1> DEFINE cs == Candidates(g)
           n == Len(cs)
           c == cs[Index(g) + 1]
           jump == cnt + 1 = CounterMod /\ CounterMod % n # 0
           longer == IF g # row.filter \/ jump THEN <<c>> ELSE Append(row.picks, c)
           k == Len(row.picks)
           r == cnt % n
           s == cnt' % n
<1>1. group' = group /\ cs # <<>> /\ cnt' = (cnt + 1) % CounterMod /\ cnt \in 0 .. CounterMod - 1
  BY DEF RoundRobinPick, RoundRobinInv
<1>2. /\ n \in Nat /\ n > 0 /\ Index(g) = s /\ s \in 0 .. n - 1 /\ c = cs[s + 1]
      /\ cnt' \in 0 .. CounterMod - 1 /\ c \in Ready /\ r \in 0 .. n - 1
  <2>1. Index(g) = s
    BY <1>1 DEF Index
  <2>2. r \in 0 .. n - 1
    BY <1>1, IndexOfNext, Division, PickersAssumption DEF RoundRobinInv
  <2> QED
    BY <1>1, <2>1, <2>2, IndexOfNext DEF RoundRobinInv
<1>3. row' = [filter |-> g, picks |-> IF Len(longer) > n THEN Tail(longer) ELSE longer]
  BY DEF RoundRobinPick, RowAfter
<1>4. row.picks \in Seq(Ready) /\ row.filter \in Wanted /\ k \in Nat
  BY DEF RoundRobinInv
<1>5. Candidates(g)' = cs /\ Ready' = Ready
  BY <1>1 DEF Candidates, GroupFilter, Ready
<1>6. ~jump => s = IF r = n - 1 THEN 0 ELSE r + 1
  <2>1. CounterMod \in Nat /\ CounterMod > 0
    BY PickersAssumption
  <2>2. CASE cnt + 1 < CounterMod
    <3>1. cnt' = cnt + 1
      BY <1>1, <2>1, <2>2, UniqueDivision, Division
    <3> QED
      BY <1>1, <1>2, <3>1, NextRemainder
  <2>3. CASE cnt + 1 = CounterMod
    <3>1. cnt' = 0
      BY <1>1, <2>1, <2>3, UniqueDivision, Division
    <3>2. s = 0
      BY <1>2, <3>1, UniqueDivision, Division
    <3>3. (cnt + 1) % n = IF r = n - 1 THEN 0 ELSE r + 1
      BY <1>1, <1>2, NextRemainder
    <3> QED
      BY <1>2, <2>3, <3>2, <3>3
  <2> QED
    BY <1>1, <2>1, <2>2, <2>3
<1> HIDE DEF n, r, s, c, cs, k
<1>7. CASE g # row.filter \/ jump \/ row.picks = <<>>
  <2>1. longer = <<c>> /\ row' = [filter |-> g, picks |-> <<c>>]
    <3>1. longer = <<c>>
      <4>1. CASE g # row.filter \/ jump
        BY <4>1
      <4>2. CASE row.picks = <<>>
        <5>1. Append(row.picks, c) = <<c>>
          BY <4>2
        <5> QED
          BY <5>1
      <4> QED
        BY <1>7, <4>1, <4>2
    <3>2. Len(<<c>>) = 1
      OBVIOUS
    <3> HIDE DEF longer
    <3> QED
      BY <1>2, <1>3, <3>1, <3>2
  <2>2. row'.picks = <<c>> /\ row'.filter = g /\ row' \in [filter : Wanted', picks : Seq(Ready)']
    BY <1>2, <1>5, <2>1 DEF Wanted
  <2>3. Back(s, 0, n) = s
    BY <1>2 DEF Back
  <2>4. TakesTurns'
    <3>1. Candidates(row.filter)' = cs
      BY <1>5, <2>2
    <3> QED
      BY <1>2, <2>2, <2>3, <3>1 DEF TakesTurns, n, s
  <2> QED
    BY <1>1, <1>2, <2>2, <2>4 DEF RoundRobinInv, Grouped
<1>8. CASE g = row.filter /\ ~jump /\ row.picks # <<>>
  <2>1. k <= n /\ \A i \in 1 .. k : row.picks[i] = cs[Back(r, k - i, n) + 1]
    BY <1>8 DEF RoundRobinInv, TakesTurns, cs, n, r, k
  <2>2. /\ longer = Append(row.picks, c) /\ longer \in Seq(Ready) /\ Len(longer) = k + 1
        /\ longer[k + 1] = c /\ \A i \in 1 .. k : longer[i] = row.picks[i]
    BY <1>2, <1>4, <1>8 DEF k
  <2>3. \A i \in 1 .. k + 1 : longer[i] = cs[Back(s, k + 1 - i, n) + 1]
    <3> SUFFICES ASSUME NEW i \in 1 .. k + 1
                 PROVE  longer[i] = cs[Back(s, k + 1 - i, n) + 1]
      OBVIOUS
    <3>1. CASE i = k + 1
      <4>1. k + 1 - i = 0 /\ Back(s, 0, n) = s
        BY <1>2, <1>4, <3>1 DEF Back
      <4> QED
        BY <1>2, <2>2, <3>1, <4>1
    <3>2. CASE i # k + 1
      <4>1. i \in 1 .. k /\ longer[i] = cs[Back(r, k - i, n) + 1]
        BY <1>4, <2>1, <2>2, <3>2
      <4>2. Back(s, k + 1 - i, n) = Back(r, k - i, n)
        BY <1>2, <1>4, <1>6, <1>8, <2>1, <4>1 DEF Back
      <4> QED
        BY <4>1, <4>2
    <3> QED
      BY <3>1, <3>2
  <2> DEFINE picked == IF k + 1 > n THEN Tail(longer) ELSE longer
  <2>4. row' = [filter |-> g, picks |-> picked]
    BY <1>3, <2>2
  <2> HIDE DEF longer
  <2>5. /\ picked \in Seq(Ready) /\ Len(picked) <= n
        /\ \A i \in 1 .. Len(picked) : picked[i] = cs[Back(s, Len(picked) - i, n) + 1]
    <3>1. CASE k + 1 > n
      <4>1. /\ Tail(longer) \in Seq(Ready) /\ Len(Tail(longer)) = k
            /\ \A i \in 1 .. k : Tail(longer)[i] = longer[i + 1]
        BY <1>4, <2>2
      <4>2. \A i \in 1 .. k : i + 1 \in 1 .. k + 1 /\ k + 1 - (i + 1) = k - i
        BY <1>4
      <4> QED
        BY <2>1, <2>3, <3>1, <4>1, <4>2
    <3>2. CASE ~(k + 1 > n)
      BY <1>2, <1>4, <2>2, <2>3, <3>2
    <3> QED
      BY <3>1, <3>2
  <2> HIDE DEF picked
  <2>6. row'.picks = picked /\ row'.filter = g /\ row' \in [filter : Wanted', picks : Seq(Ready)']
    BY <1>5, <2>4, <2>5 DEF Wanted
  <2>7. TakesTurns'
    <3>1. Candidates(row.filter)' = cs
      BY <1>5, <2>6
    <3> QED
      BY <2>5, <2>6, <3>1 DEF TakesTurns, n, s
  <2> QED
    BY <1>1, <1>2, <2>6, <2>7 DEF RoundRobinInv, Grouped
<1> QED
  BY <1>7, <1>8

LEMMA InitRoundRobin == PickersInit => RoundRobinInv
<1> SUFFICES ASSUME PickersInit PROVE RoundRobinInv
  OBVIOUS
<1>1. Grouped
  BY DEF PickersInit, Grouped
<1>2. cnt = 0 /\ row = [filter |-> NoGroup, picks |-> <<>>] /\ <<>> \in Seq(Ready)
  BY DEF PickersInit, RoundRobinInit
<1>3. cnt \in 0 .. CounterMod - 1
  BY <1>2, PickersAssumption
<1> QED
  BY <1>1, <1>2, <1>3 DEF RoundRobinInv, TakesTurns, Wanted

LEMMA NextRoundRobin == RoundRobinInv /\ [PickersNext]_pickerVars => RoundRobinInv'
<1> SUFFICES ASSUME RoundRobinInv, [PickersNext]_pickerVars PROVE RoundRobinInv'
  OBVIOUS
<1>1. CASE UNCHANGED <<group, cnt, row>>
  <2>1. \A g : Candidates(g)' = Candidates(g)
    BY <1>1 DEF Candidates, GroupFilter
  <2>2. Grouped' /\ cnt' = cnt /\ row' = row /\ Ready' = Ready
    BY <1>1 DEF RoundRobinInv, Grouped, Ready
  <2>3. TakesTurns'
    BY <2>1, <2>2 DEF RoundRobinInv, TakesTurns
  <2> QED
    BY <2>2, <2>3 DEF RoundRobinInv, Wanted
<1>2. ASSUME NEW g \in Wanted, RoundRobinPick(g) PROVE RoundRobinInv'
  BY <1>2, PickTakesTurns
<1> QED
  BY <1>1, <1>2
    DEF PickersNext, pickerVars, LeastActivePick, LeastActiveDone, FastestStart, FastestLook,
        FastestReturn, UpdateRespTime, UpdateFails

\* Two places of a circle that are not as far back are not the same.
LEMMA RowIsDistinct == RoundRobinInv => RoundRobinCycle
<1> SUFFICES ASSUME RoundRobinInv, NEW i \in DOMAIN row.picks, NEW j \in DOMAIN row.picks,
                    i # j, row.picks[i] = row.picks[j]
             PROVE  FALSE
  BY DEF RoundRobinCycle
<1> DEFINE cs == Candidates(row.filter)
           n == Len(cs)
           k == Len(row.picks)
           r == cnt % n
           a == Back(r, k - i, n) + 1
           b == Back(r, k - j, n) + 1
<1>1. row.picks \in Seq(Ready) /\ k \in Nat /\ i \in 1 .. k /\ j \in 1 .. k /\ row.picks # <<>>
  BY DEF RoundRobinInv
<1>2. k <= n /\ row.picks[i] = cs[a] /\ row.picks[j] = cs[b]
  BY <1>1 DEF RoundRobinInv, TakesTurns
<1>3. InOrder(cs, Len(group)) /\ n \in Nat
  BY CandidatesInOrder DEF RoundRobinInv, InOrder
<1>4. r \in 0 .. n - 1
  BY <1>1, <1>2, <1>3, Division, PickersAssumption DEF RoundRobinInv
<1> HIDE DEF cs, n, k, r
<1>5. a \in 1 .. n /\ b \in 1 .. n /\ a # b
  <2>1. k - i \in 0 .. n - 1 /\ k - j \in 0 .. n - 1 /\ k - i # k - j
    BY <1>1, <1>2, <1>3
  <2>2. \A d \in 0 .. n - 1 : Back(r, d, n) + 1 \in 1 .. n
    BY <1>3, <1>4 DEF Back
  <2>3. \A d, e \in 0 .. n - 1 : Back(r, d, n) + 1 = Back(r, e, n) + 1 => d = e
    BY <1>3, <1>4 DEF Back
  <2> QED
    BY <2>1, <2>2, <2>3
<1>6. cs[a] \in Nat /\ cs[b] \in Nat /\ cs[a] # cs[b]
  <2>1. a < b \/ b < a
    BY <1>3, <1>5
  <2> HIDE DEF a, b
  <2> QED
    BY <1>3, <1>5, <2>1 DEF InOrder, n
<1> QED
  BY <1>2, <1>6

\* Picker.Pick of round robin: while all calls are for one group, n candidates take turns,
\* and of the last n Picks no two chose the same connection.
THEOREM RoundRobinTakesTurns == PickersSpec => []RoundRobinCycle
<1> QED
  BY InitRoundRobin, NextRoundRobin, RowIsDistinct, PTL DEF PickersSpec
-----------------------------------------------------------------------------
(* Types.                                                                  *)

\* The rest of what the types need: the least active picker's counters, and how far a
\* Pick of the fastest looks.
Bounded ==
  /\ name \in Names
  /\ numReq \in [Ready -> Nat] /\ active \in [Ready -> 0 .. MaxActive]
  /\ response \in [Ready -> Times] /\ scan.next <= Len(group) + 1
  /\ exited \in BOOLEAN

PickersInv == RoundRobinInv /\ IInv /\ Bounded

\* The least active picker finds a connection if there is one.
LEMMA LeastActiveIsOne ==
  ASSUME Grouped, Ready # {}, numReq \in [Ready -> Nat]
  PROVE  LeastActive \in Ready
<1> DEFINE n == Len(group)
<1>1. n \in Nat /\ Ready = 1 .. n /\ n > 0
  <2>1. n \in Nat /\ Ready = 1 .. n
    BY ReadyIsAnInterval
  <2> HIDE DEF n
  <2> QED
    BY <2>1
<1>2. \E c \in 1 .. n : \A d \in 1 .. n : numReq[c] < numReq[d] \/ (numReq[c] = numReq[d] /\ c <= d)
  <2> HIDE DEF n
  <2> QED
    BY <1>1, FirstLeast
<1> QED
  BY <1>1, <1>2 DEF LeastActive

LEMMA InitPickers == PickersInit => PickersInv
<1> SUFFICES ASSUME PickersInit PROVE PickersInv
  OBVIOUS
<1>1. RoundRobinInv
  BY InitRoundRobin
<1>2. Bounded
  <2>1. Len(group) \in Nat
    BY <1>1, ReadyIsAnInterval DEF RoundRobinInv
  <2> QED
    <3>1. name \in Names /\ LeastActiveInit /\ FastestInit
      BY DEF PickersInit
    <3>2. scan.next = 0 /\ 0 <= Len(group) + 1
      BY <2>1, <3>1 DEF FastestInit, Idle
    <3>3. numReq \in [Ready -> Nat] /\ active \in [Ready -> 0 .. MaxActive]
      BY <3>1, PickersAssumption DEF LeastActiveInit
    <3>4. response \in [Ready -> Times] /\ exited \in BOOLEAN
      BY <3>1, PickersAssumption DEF FastestInit
    <3>5. scan.next <= Len(group) + 1
      BY <3>2
    <3> QED
      BY <3>1, <3>3, <3>4, <3>5 DEF Bounded
<1> QED
  BY <1>1, <1>2, InitIInv DEF PickersInv

LEMMA NextPickers == PickersInv /\ [PickersNext]_pickerVars => PickersInv'
<1> SUFFICES ASSUME PickersInv, [PickersNext]_pickerVars PROVE PickersInv'
  OBVIOUS
<1>1. RoundRobinInv' /\ IInv'
  BY NextRoundRobin, NextIInv DEF PickersInv
<1>2. Len(group) \in Nat /\ Ready = 1 .. Len(group) /\ Cardinality(Ready) = Len(group)
  BY ReadyIsAnInterval DEF PickersInv, RoundRobinInv
<1>3. Bounded'
  <2> USE DEF PickersInv, Bounded, Ready
  <2>1. CASE UNCHANGED <<name, group, numReq, active, response, scan, exited>>
    BY <2>1
  <2>2. CASE LeastActivePick
    <3>1. LeastActive \in Ready
      BY <2>2, LeastActiveIsOne DEF LeastActivePick, RoundRobinInv
    <3>2. active' = [active EXCEPT ![LeastActive] = @ + 1] /\ active[LeastActive] < MaxActive
          /\ UNCHANGED <<name, group, numReq, response, scan, exited>>
      BY <2>2 DEF LeastActivePick
    <3> HIDE DEF Ready
    <3>3. active' \in [Ready -> 0 .. MaxActive]
      BY <3>1, <3>2, PickersAssumption
    <3> QED
      BY <3>2, <3>3 DEF Ready
  <2>3. ASSUME NEW c \in Ready, LeastActiveDone(c) PROVE Bounded'
    <3>1. active' = [active EXCEPT ![c] = @ - 1] /\ active[c] > 0
          /\ UNCHANGED <<name, group, numReq, response, scan, exited>>
      BY <2>3 DEF LeastActiveDone
    <3>2. active' \in [Ready -> 0 .. MaxActive]
      BY <3>1, PickersAssumption
    <3> QED
      BY <3>1, <3>2
  <2>4. ASSUME NEW g \in Wanted, FastestStart(g) PROVE Bounded'
    BY <1>2, <2>4 DEF FastestStart, Idle
  <2>5. CASE FastestLook
    <3>1. scan'.next = scan.next + 1 /\ scan.next \in 1 .. Len(group)
          /\ UNCHANGED <<name, group, numReq, active, response, exited>>
      BY <1>2, <2>5 DEF FastestLook, IInv, ScanType
    <3> QED
      BY <1>2, <3>1
  <2>6. CASE FastestReturn
    BY <1>2, <2>6 DEF FastestReturn, Idle
  <2>7. ASSUME NEW c \in Ready, NEW t \in Times, UpdateRespTime(c, t) PROVE Bounded'
    <3>1. scan'.next = scan.next /\ response' = [response EXCEPT ![c] = t]
          /\ UNCHANGED <<name, group, numReq, active, exited>>
      BY <2>7 DEF UpdateRespTime, IInv, ScanType
    <3> QED
      BY <3>1
  <2>8. CASE UpdateFails
    BY <2>8 DEF UpdateFails
  <2> QED
    BY <2>1, <2>2, <2>3, <2>4, <2>5, <2>6, <2>7, <2>8
      DEF PickersNext, pickerVars, RoundRobinPick
<1> QED
  BY <1>1, <1>3 DEF PickersInv

LEMMA PickersTypes == PickersInv => PickersTypeOK
<1> SUFFICES ASSUME PickersInv PROVE PickersTypeOK
  OBVIOUS
<1>1. Grouped /\ Len(group) <= MaxReady /\ Len(group) \in Nat
  BY ReadyIsAnInterval DEF PickersInv, RoundRobinInv
<1>2. scan.next \in 0 .. MaxReady + 1
  BY <1>1, PickersAssumption DEF PickersInv, Bounded, IInv, ScanType
<1>3. scan.filter \in Wanted /\ scan.slowed \in BOOLEAN /\ scan.best \in Ready \cup {0}
  BY DEF PickersInv, IInv, ScanType, ScanInv
<1> QED
  BY <1>1, <1>2, <1>3 DEF PickersInv, RoundRobinInv, Bounded, PickersTypeOK, Grouped

\* The counters of all pickers stay within their width and their choices within the
\* connections, whichever is in use, for any weights, groups and times.
THEOREM PickersTypeCorrect == AllSpec => []AllTypeOK
<1> DEFINE Inv == WeightedInv /\ PickersInv /\ weighted \in BOOLEAN
<1>1. AllInit => Inv
  <2>1. ASSUME Init, name = "ROUND_ROBIN", group = <<>>,
               RoundRobinInit, LeastActiveInit, FastestInit
        PROVE  WeightedInv /\ PickersInv
    <3>1. 0 \in 0 .. MaxReady /\ group \in [1 .. 0 -> Groups]
      BY <2>1, PickersAssumption
    <3>2. PickersInit
      BY <2>1, <3>1 DEF PickersInit, Names
    <3> QED
      BY <2>1, <3>2, InitPickers, InitWeighted
  <2>2. ASSUME PickersInit, weight = << 1 >>, current = weight, rounds = 0, picks = << 0 >>
        PROVE  WeightedInv /\ PickersInv
    <3>1. Len(weight) = 1 /\ Conns = 1 .. 1 /\ weight[1] = 1 /\ weight \in [1 .. 1 -> 1 .. MaxWeight]
      BY <2>2, WeightAssumption DEF Conns
    <3>2. Weights
      BY <3>1, WeightAssumption DEF Weights
    <3>3. Modulus \in Nat /\ Modulus > 1
      <4>1. 2 * MaxConns * MaxWeight >= MaxWeight
        BY WeightAssumption
      <4> QED
        BY <4>1, WeightAssumption
    <3> QED
      BY <2>2, <3>1, <3>2, <3>3, TotalIsPositive, InitPickers DEF WeightedInv
  <2> QED
    BY <2>1, <2>2 DEF AllInit
<1>2. Inv /\ [AllNext]_allVars => Inv'
  <2> SUFFICES ASSUME Inv, [AllNext]_allVars PROVE Inv'
    OBVIOUS
  <2>1. [Next]_vars /\ [PickersNext]_pickerVars /\ weighted' = weighted
    BY DEF AllNext, allVars, vars, pickerVars
  <2> QED
    BY <2>1, PickKeepsWeighted, NextPickers
<1>3. Inv => AllTypeOK
  BY WeightedTypes, PickersTypes DEF AllTypeOK
<1> QED
  BY <1>1, <1>2, <1>3, PTL DEF AllSpec
================================================================================
