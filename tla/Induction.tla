-------------------------------- MODULE Induction --------------------------------
(***************************************************************************)
(* What the loops of the code compute, step by step: facts about functions *)
(* over 0 .. n whose value at i is made from the one at i - 1, and about   *)
(* sets of numbers.  A set stands for the property that is proved by       *)
(* induction, and a function for the step of a recursive definition, so    *)
(* that no fact has an operator for a parameter.                           *)
(***************************************************************************)
EXTENDS Integers, Sequences, SequencesExt, SequenceTheorems, WellFoundedInduction, TLAPS

\* Every set of numbers that has an element has a least one.
LEMMA LeastNumber ==
  ASSUME NEW T \in SUBSET Nat, T # {}
  PROVE  \E x \in T : \A y \in T : x <= y
<1>1. PICK x \in T : \A y \in T : ~(<<y, x>> \in OpToRel(<, Nat))
  BY NatLessThanWellFounded, WFMin
<1>2. \A y \in T : ~(y < x)
  BY <1>1 DEF OpToRel
<1> QED BY <1>2

\* And if it has a bound, a greatest one.
LEMMA GreatestNumber ==
  ASSUME NEW n \in Nat, NEW T \in SUBSET (0 .. n), T # {}
  PROVE  \E x \in T : \A y \in T : y <= x
<1> DEFINE D == {d \in 0 .. n : n - d \in T}
<1>1. \A x \in T : x \in Nat /\ x <= n /\ n - (n - x) = x /\ n - x \in 0 .. n
  OBVIOUS
<1>2. \A x \in T : n - x \in D
  BY <1>1
<1>3. D \in SUBSET Nat /\ D # {}
  <2>1. \A d \in D : d \in Nat
    OBVIOUS
  <2>2. D # {}
    <3>1. PICK x : x \in T
      OBVIOUS
    <3> HIDE DEF D
    <3> QED
      BY <1>2, <3>1
  <2> HIDE DEF D
  <2> QED
    BY <2>1, <2>2
<1>4. PICK d \in D : \A e \in D : d <= e
  <2> HIDE DEF D
  <2> QED
    BY <1>3, LeastNumber
<1>5. n - d \in T /\ d \in 0 .. n
  OBVIOUS
<1>6. ASSUME NEW y \in T PROVE y <= n - d
  <2>1. d <= n - y
    BY <1>2, <1>4
  <2> QED
    BY <1>1, <1>5, <2>1
<1> QED
  BY <1>5, <1>6

\* What holds of 0, and of i + 1 if it does of i, holds of all the numbers up to n.
LEMMA CountUp ==
  ASSUME NEW n \in Nat, NEW P, 0 \in P, \A i \in 0 .. n : i < n /\ i \in P => i + 1 \in P
  PROVE  0 .. n \subseteq P
<1> DEFINE T == {i \in 0 .. n : i \notin P}
<1> SUFFICES ASSUME T # {} PROVE FALSE
  OBVIOUS
<1>1. PICK x \in T : \A y \in T : x <= y
  <2>1. T \in SUBSET Nat
    OBVIOUS
  <2> HIDE DEF T
  <2> QED BY <2>1, LeastNumber
<1>2. x # 0 /\ x - 1 \in 0 .. n /\ x - 1 < n /\ x - 1 \notin T
  BY <1>1
<1> QED BY <1>2

\* The value s0, and for i in 1 .. n the value that step makes of the one before and i.
Steps(S, n, step) == step \in [S \X (1 .. n) -> S]
Iterates(f, S, s0, n, step) ==
  f \in [0 .. n -> S] /\ f[0] = s0 /\ \A i \in 1 .. n : f[i] = step[<<f[i - 1], i>>]

\* A start and a step within a set S have a sequence of values, all of them in S.
LEMMA IterationExists ==
  ASSUME NEW S, NEW s0 \in S, NEW n \in Nat, NEW step, Steps(S, n, step)
  PROVE  \E f : Iterates(f, S, s0, n, step)
<1> USE DEF Steps, Iterates
<1> DEFINE Good(m, f) == f \in [0 .. m -> S] /\ f[0] = s0 /\ \A i \in 1 .. m : f[i] = step[<<f[i - 1], i>>]
           P == {m \in 0 .. n : \E f \in [0 .. m -> S] : Good(m, f)}
<1>1. 0 \in P
  <2>1. Good(0, [i \in 0 .. 0 |-> s0])
    OBVIOUS
  <2>2. [i \in 0 .. 0 |-> s0] \in [0 .. 0 -> S] /\ 0 \in 0 .. n
    OBVIOUS
  <2> HIDE DEF Good
  <2> QED BY <2>1, <2>2
<1>2. ASSUME NEW m \in 0 .. n, m < n, m \in P PROVE m + 1 \in P
  <2>1. PICK f \in [0 .. m -> S] : Good(m, f)
    BY <1>2
  <2> DEFINE g == [i \in 0 .. m + 1 |-> IF i = m + 1 THEN step[<<f[m], m + 1>>] ELSE f[i]]
  <2>2. m + 1 \in 1 .. n /\ f[m] \in S
    BY <1>2, <2>1
  <2>3. <<f[m], m + 1>> \in S \X (1 .. n)
    BY <2>2
  <2>4. step[<<f[m], m + 1>>] \in S
    BY <2>3
  <2>5. g \in [0 .. m + 1 -> S] /\ g[0] = s0
    BY <2>1, <2>4
  <2>6. ASSUME NEW i \in 1 .. m + 1 PROVE g[i] = step[<<g[i - 1], i>>]
    <3>1. CASE i = m + 1
      <4>1. g[m] = f[m] /\ g[m + 1] = step[<<f[m], m + 1>>] /\ i - 1 = m
        BY <3>1
      <4> HIDE DEF g
      <4> QED BY <3>1, <4>1
    <3>2. CASE i # m + 1
      <4>1. i \in 1 .. m /\ g[i] = f[i] /\ g[i - 1] = f[i - 1]
        BY <3>2
      <4>2. f[i] = step[<<f[i - 1], i>>]
        BY <2>1, <4>1
      <4> HIDE DEF g
      <4> QED BY <4>1, <4>2
    <3> QED BY <3>1, <3>2
  <2>7. Good(m + 1, g)
    <3> HIDE DEF g
    <3> QED BY <2>5, <2>6
  <2>8. m + 1 \in 0 .. n /\ g \in [0 .. m + 1 -> S]
    BY <1>2, <2>5
  <2> HIDE DEF g, Good
  <2> QED BY <2>7, <2>8
<1>3. 0 .. n \subseteq P
  <2> HIDE DEF P
  <2> QED BY <1>1, <1>2, CountUp
<1>4. n \in P
  <2> HIDE DEF P
  <2> QED BY <1>3
<1> QED BY <1>4

-----------------------------------------------------------------------------
(* Sequences of sequences, one after the other.                            *)

\* F lists what the first n of the sequences ss list: row and col say which of them an
\* element comes from, and which of its elements it is.
Lists(F, ss, n, row, col) ==
  /\ row \in [1 .. Len(F) -> 1 .. n] /\ col \in [1 .. Len(F) -> Nat]
  /\ \A k \in 1 .. Len(F) : col[k] \in 1 .. Len(ss[row[k]]) /\ F[k] = ss[row[k]][col[k]]
  /\ \A k, l \in 1 .. Len(F) :
       k < l => row[k] < row[l] \/ (row[k] = row[l] /\ col[k] < col[l])
  /\ \A i \in 1 .. n : \A j \in 1 .. Len(ss[i]) : \E k \in 1 .. Len(F) : row[k] = i /\ col[k] = j

\* One more sequence at the end.
LEMMA ListsOneMore ==
  ASSUME NEW S, NEW n \in Nat, NEW m \in 0 .. n, m < n, NEW ss \in [1 .. n -> Seq(S)],
         NEW F \in Seq(S), NEW row, NEW col, Lists(F, ss, m, row, col)
  PROVE  /\ F \o ss[m + 1] \in Seq(S)
         /\ \E r, c : Lists(F \o ss[m + 1], ss, m + 1, r, c)
<1> DEFINE t == ss[m + 1]
           G == F \o t
           r == [k \in 1 .. Len(G) |-> IF k <= Len(F) THEN row[k] ELSE m + 1]
           c == [k \in 1 .. Len(G) |-> IF k <= Len(F) THEN col[k] ELSE k - Len(F)]
<1>1. t \in Seq(S) /\ m + 1 \in 1 .. n
  OBVIOUS
<1> HIDE DEF t
<1>2. G \in Seq(S) /\ Len(G) = Len(F) + Len(t) /\ Len(F) \in Nat /\ Len(t) \in Nat
  BY <1>1
<1>3. \A k \in 1 .. Len(G) : G[k] = IF k <= Len(F) THEN F[k] ELSE t[k - Len(F)]
  BY <1>1, <1>2
<1> HIDE DEF G
<1>4. \A k \in 1 .. Len(F) : /\ k \in 1 .. Len(G) /\ r[k] = row[k] /\ c[k] = col[k]
                             /\ row[k] \in 1 .. m /\ col[k] \in 1 .. Len(ss[row[k]])
                             /\ G[k] = ss[row[k]][col[k]]
  <2> TAKE k \in 1 .. Len(F)
  <2>1. k \in 1 .. Len(G) /\ k <= Len(F)
    BY <1>2
  <2>2. r[k] = row[k] /\ c[k] = col[k] /\ G[k] = F[k]
    BY <1>3, <2>1
  <2>3. row[k] \in 1 .. m /\ col[k] \in 1 .. Len(ss[row[k]]) /\ F[k] = ss[row[k]][col[k]]
    BY DEF Lists
  <2> QED
    BY <2>1, <2>2, <2>3
<1>5. \A k \in 1 .. Len(G) : k > Len(F) => /\ r[k] = m + 1 /\ c[k] = k - Len(F)
                                           /\ k - Len(F) \in 1 .. Len(t)
                                           /\ G[k] = t[k - Len(F)]
  BY <1>2, <1>3
<1>6. \A k \in 1 .. Len(G) : k \in 1 .. Len(F) \/ k > Len(F)
  BY <1>2
<1>7. r \in [1 .. Len(G) -> 1 .. m + 1] /\ c \in [1 .. Len(G) -> Nat]
  <2>1. ASSUME NEW k \in 1 .. Len(G) PROVE r[k] \in 1 .. m + 1 /\ c[k] \in Nat
    <3>1. CASE k \in 1 .. Len(F)
      <4>1. r[k] = row[k] /\ c[k] = col[k] /\ row[k] \in 1 .. m /\ col[k] \in Nat
        BY <1>4, <3>1 DEF Lists
      <4> HIDE DEF r, c
      <4> QED
        BY <4>1
    <3>2. CASE k > Len(F)
      <4>1. r[k] = m + 1 /\ c[k] = k - Len(F) /\ k - Len(F) \in 1 .. Len(t)
        BY <1>5, <2>1, <3>2
      <4> HIDE DEF r, c
      <4> QED
        BY <1>2, <4>1
    <3> QED
      BY <1>6, <3>1, <3>2
  <2>2. r = [k \in 1 .. Len(G) |-> r[k]] /\ c = [k \in 1 .. Len(G) |-> c[k]]
    OBVIOUS
  <2> HIDE DEF r, c
  <2> QED
    BY <2>1, <2>2
<1> HIDE DEF r, c
<1>8. \A k \in 1 .. Len(G) : c[k] \in 1 .. Len(ss[r[k]]) /\ G[k] = ss[r[k]][c[k]]
  <2> TAKE k \in 1 .. Len(G)
  <2>1. CASE k \in 1 .. Len(F)
    BY <1>4, <2>1
  <2>2. CASE k > Len(F)
    BY <1>5, <2>2 DEF t
  <2> QED
    BY <1>6, <2>1, <2>2
<1>9. \A k, l \in 1 .. Len(G) : k < l => r[k] < r[l] \/ (r[k] = r[l] /\ c[k] < c[l])
  <2> SUFFICES ASSUME NEW k \in 1 .. Len(G), NEW l \in 1 .. Len(G), k < l
               PROVE  r[k] < r[l] \/ (r[k] = r[l] /\ c[k] < c[l])
    OBVIOUS
  <2>1. CASE l \in 1 .. Len(F)
    <3>1. k \in 1 .. Len(F)
      BY <1>2, <2>1
    <3>2. row[k] < row[l] \/ (row[k] = row[l] /\ col[k] < col[l])
      BY <2>1, <3>1 DEF Lists
    <3> QED
      BY <1>4, <2>1, <3>1, <3>2
  <2>2. CASE l > Len(F) /\ k \in 1 .. Len(F)
    <3>1. r[k] \in 1 .. m
      BY <1>4, <2>2
    <3>2. r[l] = m + 1
      BY <1>5, <2>2
    <3> QED
      BY <3>1, <3>2
  <2>3. CASE l > Len(F) /\ k > Len(F)
    <3>1. r[k] = m + 1 /\ r[l] = m + 1 /\ c[k] = k - Len(F) /\ c[l] = l - Len(F)
      BY <1>5, <2>3
    <3>2. k - Len(F) < l - Len(F)
      BY <1>2
    <3> QED
      BY <3>1, <3>2
  <2> QED
    BY <1>6, <2>1, <2>2, <2>3
<1>10. ASSUME NEW i \in 1 .. m + 1, NEW j \in 1 .. Len(ss[i])
       PROVE  \E k \in 1 .. Len(G) : r[k] = i /\ c[k] = j
  <2>1. CASE i \in 1 .. m
    <3>1. PICK k \in 1 .. Len(F) : row[k] = i /\ col[k] = j
      BY <2>1 DEF Lists
    <3> QED
      BY <1>4, <3>1
  <2>2. CASE i = m + 1
    <3>1. j \in 1 .. Len(t)
      BY <2>2 DEF t
    <3> DEFINE k == Len(F) + j
    <3>2. k \in 1 .. Len(G) /\ k > Len(F) /\ k - Len(F) = j
      BY <1>2, <3>1
    <3> HIDE DEF k
    <3>3. r[k] = i /\ c[k] = j
      BY <1>5, <2>2, <3>2
    <3> QED
      BY <3>2, <3>3
  <2> QED
    BY <2>1, <2>2
<1>11. Lists(G, ss, m + 1, r, c)
  BY <1>7, <1>8, <1>9, <1>10 DEF Lists
<1> QED
  BY <1>2, <1>11 DEF G, t

\* FlattenSeq lists what its sequences list, in their order.
LEMMA FlattenLists ==
  ASSUME NEW S, NEW n \in Nat, NEW ss \in [1 .. n -> Seq(S)]
  PROVE  /\ FlattenSeq(ss) \in Seq(S)
         /\ \E row, col : Lists(FlattenSeq(ss), ss, n, row, col)
<1>0. Len(ss) = n /\ DOMAIN ss = 1 .. n
  <2>1. ss \in Seq(Seq(S)) /\ DOMAIN ss = 1 .. n
    OBVIOUS
  <2> QED
    BY <2>1, LenProperties
<1>1. CASE n = 0
  <2>1. FlattenSeq(ss) = ss
    BY <1>0, <1>1 DEF FlattenSeq
  <2>2. ss = <<>> /\ <<>> \in Seq(S) /\ Len(<<>>) = 0
    BY <1>0, <1>1
  <2>3. Lists(<<>>, ss, n, <<>>, <<>>)
    BY <1>1 DEF Lists
  <2> QED
    BY <2>1, <2>2, <2>3
<1>2. CASE n > 0
  <2> DEFINE step == [x \in Seq(S) \X (1 .. n - 1) |-> x[1] \o ss[x[2] + 1]]
             Def(flatten) == [i \in 1 .. n |-> IF i = 1 THEN ss[i] ELSE flatten[i - 1] \o ss[i]]
             flatten == CHOOSE flatten : flatten = Def(flatten)
  <2>1. FlattenSeq(ss) = flatten[n]
    <3>1. Len(ss) # 0 /\ Len(ss) = n
      BY <1>0, <1>2
    <3> HIDE DEF flatten
    <3>2. FlattenSeq(ss) = (CHOOSE g : g = [i \in 1 .. Len(ss) |-> IF i = 1 THEN ss[i] ELSE g[i - 1] \o ss[i]])[Len(ss)]
      BY <3>1 DEF FlattenSeq
    <3> QED
      BY <3>1, <3>2 DEF flatten
  <2>2. PICK f : Iterates(f, Seq(S), ss[1], n - 1, step)
    <3>1. n - 1 \in Nat /\ 1 \in 1 .. n
      BY <1>2
    <3>2. Steps(Seq(S), n - 1, step)
      <4>1. \A s \in Seq(S), i \in 1 .. n - 1 : s \o ss[i + 1] \in Seq(S)
        <5> TAKE s \in Seq(S), i \in 1 .. n - 1
        <5>1. ss[i + 1] \in Seq(S)
          BY <1>2
        <5> QED
          BY <5>1
      <4> QED
        BY <4>1 DEF Steps
    <3> HIDE DEF step
    <3>3. ss[1] \in Seq(S)
      BY <3>1
    <3> QED
      BY <3>1, <3>2, <3>3, IterationExists
  <2> DEFINE g == [i \in 1 .. n |-> f[i - 1]]
  <2>3. g = Def(g)
    <3>1. f[0] = ss[1] /\ f \in [0 .. n - 1 -> Seq(S)]
      BY <2>2 DEF Iterates
    <3>2. ASSUME NEW i \in 2 .. n PROVE f[i - 1] = f[i - 2] \o ss[i]
      <4>1. i - 1 \in 1 .. n - 1 /\ i - 1 - 1 = i - 2 /\ i - 1 + 1 = i
            /\ i - 2 \in 0 .. n - 1
        BY <1>2
      <4>2. f[i - 1] = step[<<f[i - 1 - 1], i - 1>>]
        BY <2>2, <4>1 DEF Iterates
      <4>3. f[i - 2] \in Seq(S)
        BY <3>1, <4>1
      <4> QED
        BY <4>1, <4>2, <4>3
    <3>3. \A i \in 1 .. n : g[i] = Def(g)[i]
      <4> TAKE i \in 1 .. n
      <4>1. CASE i = 1
        BY <3>1, <4>1
      <4>2. CASE i # 1
        <5>1. i \in 2 .. n /\ i - 1 \in 1 .. n /\ i - 1 - 1 = i - 2
          BY <4>2
        <5>2. g[i] = f[i - 1] /\ g[i - 1] = f[i - 2]
          BY <5>1
        <5>3. Def(g)[i] = g[i - 1] \o ss[i]
          BY <4>2
        <5> HIDE DEF g, Def
        <5> QED
          BY <3>2, <5>1, <5>2, <5>3
      <4> QED
        BY <4>1, <4>2
    <3>4. g = [i \in 1 .. n |-> g[i]] /\ Def(g) = [i \in 1 .. n |-> Def(g)[i]]
      OBVIOUS
    <3> HIDE DEF g, Def
    <3> QED
      BY <3>3, <3>4
  <2>4. flatten = Def(flatten)
    <3> HIDE DEF Def
    <3> QED
      BY <2>3
  <2> HIDE DEF flatten
  <2>5. flatten[1] = ss[1] /\ \A i \in 2 .. n : flatten[i] = flatten[i - 1] \o ss[i]
    <3>1. \A i \in 1 .. n : Def(flatten)[i] = IF i = 1 THEN ss[i] ELSE flatten[i - 1] \o ss[i]
      OBVIOUS
    <3> HIDE DEF Def
    <3>2. \A i \in 1 .. n : flatten[i] = IF i = 1 THEN ss[i] ELSE flatten[i - 1] \o ss[i]
      BY <2>4, <3>1
    <3>3. 1 \in 1 .. n /\ \A i \in 2 .. n : i \in 1 .. n /\ i # 1
      BY <1>2
    <3> QED
      BY <3>2, <3>3
  <2> DEFINE P == {m \in 0 .. n - 1 : /\ flatten[m + 1] \in Seq(S)
                                      /\ \E row, col : Lists(flatten[m + 1], ss, m + 1, row, col)}
  <2>6. 0 \in P
    <3>1. 0 \in 0 .. n /\ 0 < n /\ <<>> \in Seq(S) /\ <<>> \o ss[1] = ss[1] /\ 0 \in 0 .. n - 1
      <4>1. ss[1] \in Seq(S)
        BY <1>2
      <4> QED
        BY <1>2, <4>1
    <3>2. Lists(<<>>, ss, 0, <<>>, <<>>)
      BY DEF Lists
    <3>3. /\ <<>> \o ss[0 + 1] \in Seq(S)
          /\ \E row, col : Lists(<<>> \o ss[0 + 1], ss, 0 + 1, row, col)
      <4> DEFINE m == 0
      <4>1. m \in 0 .. n /\ m < n /\ Lists(<<>>, ss, m, <<>>, <<>>)
        BY <3>1, <3>2
      <4> HIDE DEF m
      <4>2. /\ <<>> \o ss[m + 1] \in Seq(S)
            /\ \E row, col : Lists(<<>> \o ss[m + 1], ss, m + 1, row, col)
        BY <3>1, <4>1, ListsOneMore
      <4> QED
        BY <4>2 DEF m
    <3>4. 0 + 1 = 1
      OBVIOUS
    <3> QED
      BY <2>5, <3>1, <3>3, <3>4
  <2>7. ASSUME NEW m \in 0 .. n - 1, m < n - 1, m \in P PROVE m + 1 \in P
    <3>1. m + 1 \in 0 .. n /\ m + 1 < n /\ m + 2 \in 2 .. n /\ m + 2 - 1 = m + 1
          /\ m + 1 + 1 = m + 2 /\ m + 1 \in 0 .. n - 1
      BY <2>7
    <3>2. PICK row, col : Lists(flatten[m + 1], ss, m + 1, row, col)
      BY <2>7
    <3>3. flatten[m + 1] \in Seq(S)
      BY <2>7
    <3>4. flatten[m + 2] = flatten[m + 1] \o ss[m + 2]
      <4> DEFINE k == m + 2
      <4>1. k \in 2 .. n /\ k - 1 = m + 1
        BY <3>1
      <4> HIDE DEF k
      <4>2. flatten[k] = flatten[k - 1] \o ss[k]
        BY <2>5, <4>1
      <4> QED
        BY <4>1, <4>2 DEF k
    <3>5. /\ flatten[m + 1] \o ss[m + 1 + 1] \in Seq(S)
          /\ \E r, c : Lists(flatten[m + 1] \o ss[m + 1 + 1], ss, m + 1 + 1, r, c)
      BY <3>1, <3>2, <3>3, ListsOneMore
    <3> QED
      BY <3>1, <3>4, <3>5
  <2>8. n - 1 \in P
    <3>1. n - 1 \in Nat
      BY <1>2
    <3> HIDE DEF P
    <3>2. 0 .. n - 1 \subseteq P
      BY <2>6, <2>7, <3>1, CountUp
    <3> QED
      BY <3>1, <3>2
  <2>9. n - 1 + 1 = n
    OBVIOUS
  <2> QED
    BY <2>1, <2>8, <2>9
<1> QED
  BY <1>1, <1>2

==================================================================================
