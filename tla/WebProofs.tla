-------------------------------- MODULE WebProofs --------------------------------
(***************************************************************************)
(* What is proved about web/: the two route trees, and what logs, metrics  *)
(* and spans tell of a request.                                            *)
(*                                                                         *)
(* The trees keep their shape and their routes, for any paths, any number  *)
(* of calls and any order of them: the nodes are closed under their        *)
(* parents, at most one child of a node is not static, and a route stays   *)
(* what it was registered as.  They differ in the segments that block each *)
(* other.  What they have in common, that a call adds beginnings of its    *)
(* path, each allowed below its parent, is stated first.  From the shape   *)
(* follows what findRoute and findMdls find in them.                       *)
(***************************************************************************)
EXTENDS Routers, WebServer, SequenceTheorems, FiniteSetTheorems, Induction, TLAPS

-----------------------------------------------------------------------------
(* Beginnings of paths.                                                    *)

\* A beginning of a path, without its last segment, is the next shorter one.
LEMMA BeginningProperties ==
  ASSUME NEW S, NEW segs \in Seq(S), NEW i \in 0 .. Len(segs)
  PROVE  LET m == SubSeq(segs, 1, i) IN
         /\ m \in Seq(S) /\ Len(m) = i
         /\ i = 0 => m = <<>>
         /\ i > 0 => m # <<>> /\ Last(m) = segs[i] /\ Front(m) = SubSeq(segs, 1, i - 1)
<1> DEFINE m == SubSeq(segs, 1, i)
<1>1. i \in Nat /\ Len(segs) \in Nat /\ i <= Len(segs)
  BY LenProperties
<1>2. \A j \in 1 .. i : segs[j] \in S
  BY <1>1, ElementOfSeq
<1>3. m \in Seq(S) /\ Len(m) = i /\ \A j \in 1 .. i : m[j] = segs[j]
  <2>1. /\ m \in Seq(S) /\ Len(m) = IF 1 <= i THEN i - 1 + 1 ELSE 0
        /\ \A j \in 1 .. i - 1 + 1 : m[j] = segs[1 + j - 1]
    BY <1>1, <1>2, SubSeqProperties
  <2>2. Len(m) = i
    BY <1>1, <2>1
  <2>3. ASSUME NEW j \in 1 .. i PROVE m[j] = segs[j]
    <3>1. j \in 1 .. i - 1 + 1 /\ 1 + j - 1 = j
      BY <1>1
    <3> QED
      BY <2>1, <3>1
  <2> QED
    BY <2>1, <2>2, <2>3
<1>4. i = 0 => m = <<>>
  BY <1>1, SubSeqEmpty
<1>5. ASSUME i > 0 PROVE m # <<>> /\ Last(m) = segs[i] /\ Front(m) = SubSeq(segs, 1, i - 1)
  <2>1. m # <<>>
    BY <1>3, <1>5, EmptySeq
  <2>2. Last(m) = segs[i]
    BY <1>1, <1>3, <1>5 DEF Last
  <2> DEFINE f == SubSeq(m, 1, i - 1)
             g == SubSeq(segs, 1, i - 1)
  <2>3. f \in Seq(S) /\ Len(f) = i - 1 /\ \A j \in 1 .. i - 1 : f[j] = m[j]
    <3>1. \A j \in 1 .. i - 1 : m[j] \in S
      BY <1>1, <1>2, <1>3
    <3>2. /\ f \in Seq(S) /\ Len(f) = IF 1 <= i - 1 THEN i - 1 - 1 + 1 ELSE 0
          /\ \A j \in 1 .. i - 1 - 1 + 1 : f[j] = m[1 + j - 1]
      BY <1>1, <1>5, <3>1, SubSeqProperties
    <3> HIDE DEF f
    <3>3. Len(f) = i - 1 /\ i - 1 - 1 + 1 = i - 1 /\ \A j \in 1 .. i - 1 : 1 + j - 1 = j
      BY <1>1, <1>5, <3>2
    <3> QED
      BY <3>2, <3>3
  <2>4. g \in Seq(S) /\ Len(g) = i - 1 /\ \A j \in 1 .. i - 1 : g[j] = segs[j]
    <3>1. \A j \in 1 .. i - 1 : segs[j] \in S
      BY <1>1, <1>2
    <3>2. /\ g \in Seq(S) /\ Len(g) = IF 1 <= i - 1 THEN i - 1 - 1 + 1 ELSE 0
          /\ \A j \in 1 .. i - 1 - 1 + 1 : g[j] = segs[1 + j - 1]
      BY <1>1, <1>5, <3>1, SubSeqProperties
    <3> HIDE DEF g
    <3>3. Len(g) = i - 1 /\ i - 1 - 1 + 1 = i - 1 /\ \A j \in 1 .. i - 1 : 1 + j - 1 = j
      BY <1>1, <1>5, <3>2
    <3> QED
      BY <3>2, <3>3
  <2>5. f = g
    <3> HIDE DEF f, g
    <3>1. \A j \in 1 .. Len(f) : f[j] = g[j]
      BY <1>1, <1>3, <1>5, <2>3, <2>4
    <3> QED
      BY <2>3, <2>4, <3>1, SeqEqual
  <2> QED
    BY <1>3, <2>1, <2>2, <2>5 DEF Front
<1> QED
  BY <1>3, <1>4, <1>5

\* A node is the child of its parent for its last segment.
LEMMA ChildIsItsSegment ==
  ASSUME NEW S, NEW m \in Seq(S), m # <<>>
  PROVE  m = Append(Front(m), Last(m))
<1>1. Len(m) \in Nat \ {0}
  BY EmptySeq
<1>2. 1 \in 1 .. Len(m) /\ Len(m) \in 1 .. Len(m)
  BY <1>1
<1>3. SubSeq(m, 1, Len(m)) = SubSeq(m, 1, Len(m) - 1) \o <<m[Len(m)]>>
  BY <1>2, SubSeqRecursiveSecond
<1>4. SubSeq(m, 1, Len(m) - 1) \in Seq(S) /\ m[Len(m)] \in S
  <2>1. \A i \in 1 .. Len(m) - 1 : m[i] \in S
    BY <1>1, ElementOfSeq
  <2>2. Len(m) - 1 \in Int
    BY <1>1
  <2> QED
    BY <1>2, <2>1, <2>2, SubSeqProperties, ElementOfSeq
<1>5. SubSeq(m, 1, Len(m)) = m
  BY SubSeqFull
<1> QED
  BY <1>3, <1>4, <1>5, AppendIsConcat DEF Front, Last

\* Its last segment is one of its segments.
LEMMA LastIsASegment ==
  ASSUME NEW S, NEW m \in Seq(S), m # <<>>
  PROVE  Last(m) \in S
<1>1. Len(m) \in Nat \ {0}
  BY EmptySeq
<1> QED
  BY <1>1, ElementOfSeq DEF Last

\* A child of n for segment s is n and the segment.
LEMMA AppendedProperties ==
  ASSUME NEW S, NEW n \in Seq(S), NEW s \in S
  PROVE  LET m == Append(n, s) IN
         /\ m \in Seq(S) /\ m # <<>> /\ Len(m) = Len(n) + 1 /\ DOMAIN m = 1 .. Len(n) + 1
         /\ Front(m) = n /\ Last(m) = s
         /\ m[Len(n) + 1] = s /\ \A i \in 1 .. Len(n) : m[i] = n[i]
<1> DEFINE m == Append(n, s)
<1>1. /\ m \in Seq(S) /\ Len(m) = Len(n) + 1 /\ Len(n) \in Nat
      /\ m[Len(n) + 1] = s /\ \A i \in 1 .. Len(n) : m[i] = n[i]
  BY AppendProperties, LenProperties
<1>2. m # <<>>
  BY <1>1, EmptySeq
<1>3. Last(m) = s
  BY <1>1 DEF Last
<1> HIDE DEF m
<1> DEFINE f == SubSeq(m, 1, Len(n))
<1>4. f = n
  <2>1. \A i \in 1 .. Len(n) : m[i] \in S
    BY <1>1, ElementOfSeq
  <2>2. f \in Seq(S) /\ Len(f) = Len(n) /\ \A i \in 1 .. Len(n) : f[i] = m[i]
    <3>1. /\ f \in Seq(S) /\ Len(f) = IF 1 <= Len(n) THEN Len(n) - 1 + 1 ELSE 0
          /\ \A i \in 1 .. Len(n) - 1 + 1 : f[i] = m[1 + i - 1]
      BY <1>1, <2>1, SubSeqProperties
    <3> HIDE DEF f
    <3>2. Len(f) = Len(n) /\ Len(n) - 1 + 1 = Len(n) /\ \A i \in 1 .. Len(n) : 1 + i - 1 = i
      BY <1>1, <3>1
    <3> QED
      BY <3>1, <3>2
  <2> HIDE DEF f
  <2>3. \A i \in 1 .. Len(f) : f[i] = n[i]
    BY <1>1, <2>2
  <2> QED
    BY <2>2, <2>3, SeqEqual
<1>5. Front(m) = n
  <2>1. Len(m) - 1 = Len(n)
    BY <1>1
  <2> QED
    BY <1>4, <2>1 DEF Front
<1>6. DOMAIN m = 1 .. Len(n) + 1
  BY <1>1, LenProperties
<1> QED
  BY <1>1, <1>2, <1>3, <1>5, <1>6 DEF m

-----------------------------------------------------------------------------
(* Trees.                                                                  *)

Closed(N) == \A n \in N : n # <<>> => Front(n) \in N

OneWild(N) ==
  \A m, n \in N \ {<<>>} :
    Front(m) = Front(n) /\ Last(m).kind # "static" /\ Last(n).kind # "static" => m = n

\* With a node, a tree has all the beginnings of its segments, from the root on.
LEMMA BeginningsInTree ==
  ASSUME NEW S, NEW N \in SUBSET Seq(S), Closed(N), NEW n \in N, NEW i \in 0 .. Len(n)
  PROVE  SubSeq(n, 1, i) \in N
<1> DEFINE l == Len(n)
           P == {j \in 0 .. l : SubSeq(n, 1, l - j) \in N}
<1>1. n \in Seq(S) /\ l \in Nat /\ SubSeq(n, 1, l) = n
  <2>1. n \in Seq(S)
    OBVIOUS
  <2> QED
    BY <2>1, LenProperties, SubSeqFull
<1>2. 0 \in P
  <2>1. l - 0 = l /\ 0 \in 0 .. l
    BY <1>1
  <2> QED
    BY <1>1, <2>1
<1>3. ASSUME NEW j \in 0 .. l, j < l, j \in P PROVE j + 1 \in P
  <2> DEFINE k == l - j
  <2>1. k \in 0 .. Len(n) /\ k > 0 /\ k - 1 = l - (j + 1) /\ j + 1 \in 0 .. l
    BY <1>1, <1>3
  <2>2. SubSeq(n, 1, k) \in N
    BY <1>3
  <2> HIDE DEF k
  <2>3. SubSeq(n, 1, k) # <<>> /\ Front(SubSeq(n, 1, k)) = SubSeq(n, 1, k - 1)
    BY <1>1, <2>1, BeginningProperties
  <2>4. SubSeq(n, 1, k - 1) \in N
    BY <2>2, <2>3 DEF Closed
  <2> QED
    BY <2>1, <2>4
<1>4. 0 .. l \subseteq P
  <2> HIDE DEF P, l
  <2> QED
    BY <1>1, <1>2, <1>3, CountUp
<1>5. l - i \in 0 .. l /\ l - (l - i) = i
  BY <1>1
<1> QED
  BY <1>4, <1>5

\* Beginnings of segs that may join tree N: where N has a child that is not static,
\* a new one that is not static is that child.
Joins(R, N, segs) ==
  /\ R \subseteq {SubSeq(segs, 1, i) : i \in 0 .. Len(segs)}
  /\ Closed(R)
  /\ \A m \in R \ {<<>>} : Last(m).kind # "static" =>
       \A n \in N \ {<<>>} : Front(n) = Front(m) /\ Last(n).kind # "static" => n = m

\* A tree stays one when such beginnings join it.
LEMMA GrownIsATree ==
  ASSUME NEW S, NEW N \in SUBSET Seq(S), Closed(N), OneWild(N),
         NEW segs \in Seq(S), NEW R, Joins(R, N, segs)
  PROVE  N \cup R \in SUBSET Seq(S) /\ Closed(N \cup R) /\ OneWild(N \cup R)
<1>1. ASSUME NEW m \in R
      PROVE  \E i \in 0 .. Len(segs) :
               /\ m = SubSeq(segs, 1, i) /\ m \in Seq(S) /\ Len(m) = i
               /\ m # <<>> => i > 0 /\ Front(m) = SubSeq(segs, 1, i - 1)
  <2>1. PICK i \in 0 .. Len(segs) : m = SubSeq(segs, 1, i)
    BY <1>1 DEF Joins
  <2> QED
    BY <2>1, BeginningProperties
<1>2. R \in SUBSET Seq(S)
  BY <1>1
<1>3. Closed(N \cup R)
  BY DEF Closed, Joins
<1>4. ASSUME NEW m \in R \ {<<>>}, NEW n \in R \ {<<>>}, Front(m) = Front(n)
      PROVE  m = n
  <2>1. PICK i \in 0 .. Len(segs) :
          m = SubSeq(segs, 1, i) /\ i > 0 /\ Front(m) = SubSeq(segs, 1, i - 1)
    BY <1>1
  <2>2. PICK j \in 0 .. Len(segs) :
          n = SubSeq(segs, 1, j) /\ j > 0 /\ Front(n) = SubSeq(segs, 1, j - 1)
    BY <1>1
  <2>3. Len(segs) \in Nat
    BY LenProperties
  <2>4. i - 1 \in 0 .. Len(segs) /\ j - 1 \in 0 .. Len(segs)
    BY <2>1, <2>2, <2>3
  <2>5. Len(Front(m)) = i - 1 /\ Len(Front(n)) = j - 1
    BY <2>1, <2>2, <2>4, BeginningProperties
  <2>6. i = j
    BY <1>4, <2>3, <2>5
  <2> QED
    BY <2>1, <2>2, <2>6
<1>5. OneWild(N \cup R)
  BY <1>4 DEF OneWild, Joins
<1> QED
  BY <1>2, <1>3, <1>5

-----------------------------------------------------------------------------
(* homework1.                                                              *)

Shape1 ==
  /\ nodes1 \in SUBSET Seq(RegSegment) /\ Closed(nodes1) /\ OneWild(nodes1)
  /\ \A n \in nodes1 \ {<<>>} : Last(n) # BadReg
  /\ calls1 \in Nat

IInv1 == V1!TypeOK /\ Shape1

\* The words of Paths mean the same in the router as here.
LEMMA Words1 ==
  /\ V1!BadReg = BadReg /\ V1!Star = Star
  /\ \A m : V1!Front(m) = Front(m) /\ V1!Last(m) = Last(m)
  /\ \A n, kinds : V1!KidsOf(n, kinds) =
       {m \in nodes1 : m # <<>> /\ Front(m) = n /\ Last(m).kind \in kinds}
  BY DEF V1!BadReg, BadReg, V1!Star, Star, V1!Front, Front, V1!Last, Last, V1!KidsOf, V1!KidsIn

\* What childOrCreate refuses keeps a second child that is not static away.
LEMMA ReachedJoins1 ==
  ASSUME Shape1, NEW segs \in Seq(RegSegment)
  PROVE  /\ Joins(V1!Reached(segs), nodes1, segs)
         /\ \A m \in V1!Reached(segs) \ {<<>>} : Last(m) # BadReg
<1> DEFINE R == V1!Reached(segs)
<1>1. R \subseteq {SubSeq(segs, 1, i) : i \in 0 .. Len(segs)}
  BY DEF V1!Reached
<1>2. ASSUME NEW m \in R, m # <<>>
      PROVE  /\ m \in Seq(RegSegment) /\ Front(m) \in R
             /\ ~V1!Blocked(Front(m), Last(m))
  <2>1. PICK i \in 0 .. Len(segs) :
          /\ m = SubSeq(segs, 1, i)
          /\ \A j \in 1 .. i : ~V1!Blocked(SubSeq(segs, 1, j - 1), segs[j])
    BY DEF V1!Reached
  <2>2. /\ i > 0 /\ m \in Seq(RegSegment)
        /\ Last(m) = segs[i] /\ Front(m) = SubSeq(segs, 1, i - 1)
    BY <1>2, <2>1, BeginningProperties
  <2>3. i \in 1 .. i /\ i - 1 \in 0 .. Len(segs) /\ \A j \in 1 .. i - 1 : j \in 1 .. i
    BY <2>2, LenProperties
  <2>4. Front(m) \in R
    BY <2>1, <2>2, <2>3 DEF V1!Reached
  <2> QED
    BY <2>1, <2>2, <2>3, <2>4
<1>3. Closed(R)
  BY <1>2 DEF Closed
<1>4. ASSUME NEW m \in R \ {<<>>}
      PROVE  /\ m = Append(Front(m), Last(m)) /\ Last(m) \in RegSegment
             /\ Last(m) # BadReg /\ ~V1!Blocked(Front(m), Last(m))
  BY <1>2, ChildIsItsSegment, LastIsASegment, Words1 DEF V1!Blocked
<1>5. ASSUME NEW m \in R \ {<<>>}, Last(m).kind # "static",
             NEW n \in nodes1 \ {<<>>}, Front(n) = Front(m), Last(n).kind # "static"
      PROVE  n = m
  <2>1. /\ Last(n) \in RegSegment /\ Last(n) # BadReg /\ n = Append(Front(m), Last(n))
    BY <1>5, ChildIsItsSegment, LastIsASegment DEF Shape1
  <2>2. /\ Last(n).kind \in {"param", "reg", "star"} /\ (Last(n).kind = "star" => Last(n) = Star)
        /\ Last(m).kind \in {"param", "reg", "star"} /\ (Last(m).kind = "star" => Last(m) = Star)
    <3>1. \A s \in RegSegment : s # BadReg /\ s.kind # "static" =>
            s.kind \in {"param", "reg", "star"} /\ (s.kind = "star" => s = Star)
      BY DEF RegSegment, Star
    <3> QED
      BY <1>4, <1>5, <2>1, <3>1
  <2>3. n \in V1!KidsOf(Front(m), {Last(n).kind})
    BY <1>5, Words1
  <2>4. CASE Last(m).kind = "star"
    <3>1. V1!KidsOf(Front(m), {"param", "reg"}) = {}
      BY <1>4, <2>4 DEF V1!Blocked, V1!StarBlocked
    <3>2. Last(n).kind = "star"
      BY <2>2, <2>3, <3>1, Words1
    <3> QED
      BY <1>4, <2>1, <2>2, <2>4, <3>2
  <2>5. CASE Last(m).kind \in {"reg", "param"}
    <3>1. V1!KidsOf(Front(m), {"star", "param", "reg"}) \ {Append(Front(m), Last(m))} = {}
      BY <1>4, <2>5, Words1 DEF V1!Blocked, V1!RegexBlocked, V1!ParamBlocked
    <3>2. n \in V1!KidsOf(Front(m), {"star", "param", "reg"})
      BY <2>2, <2>3, Words1
    <3> QED
      BY <1>4, <3>1, <3>2
  <2> QED
    BY <2>2, <2>4, <2>5
<1> QED
  BY <1>1, <1>3, <1>4, <1>5 DEF Joins

\* A call of addRoute keeps the tree, and numbers only nodes that it has.
LEMMA AddRouteShape1 ==
  ASSUME IInv1, NEW path, path.segs \in Seq(RegSegment), V1!AddRoute(path)
  PROVE  IInv1'
<1>1. calls1' = calls1 + 1 /\ calls1 \in Nat
  BY DEF IInv1, Shape1, V1!AddRoute
<1>2. CASE UNCHANGED <<nodes1, handler1>>
  BY <1>1, <1>2 DEF IInv1, Shape1, V1!TypeOK, Closed, OneWild
<1>3. CASE nodes1' = nodes1 \cup V1!Reached(path.segs)
  <2>1. /\ nodes1' \in SUBSET Seq(RegSegment) /\ Closed(nodes1') /\ OneWild(nodes1')
        /\ \A n \in nodes1' \ {<<>>} : Last(n) # BadReg
    BY <1>3, ReachedJoins1, GrownIsATree DEF IInv1, Shape1
  <2>2. Shape1'
    BY <1>1, <2>1 DEF Shape1, Closed, OneWild
  <2>3. \A n \in nodes1' : n # <<>> => V1!Front(n) \in nodes1'
    BY <2>1, Words1 DEF Closed
  <2>4. DOMAIN handler1' \subseteq nodes1' /\ \A n \in DOMAIN handler1' : handler1'[n] \in 1 .. calls1'
    <3>1. CASE UNCHANGED handler1
      BY <1>1, <1>3, <3>1 DEF IInv1, V1!TypeOK
    <3>2. CASE /\ path.segs \in V1!Reached(path.segs)
               /\ handler1' = V1!Put(handler1, path.segs, calls1')
      BY <1>1, <1>3, <3>2 DEF IInv1, V1!TypeOK, V1!Put
    <3> QED
      BY <1>1, <3>1, <3>2 DEF V1!AddRoute
  <2> QED
    BY <2>2, <2>3, <2>4 DEF IInv1, V1!TypeOK
<1> QED
  BY <1>2, <1>3 DEF V1!AddRoute

LEMMA TreeStays1 ==
  ASSUME \A path \in Registered1 : path.segs \in Seq(RegSegment)
  PROVE  V1!Spec => []IInv1
<1>1. V1!Init => IInv1
  BY DEF V1!Init, IInv1, Shape1, V1!TypeOK, Closed, OneWild
<1>2. IInv1 /\ [V1!Next]_(V1!vars) => IInv1'
  <2> SUFFICES ASSUME IInv1, [V1!Next]_(V1!vars) PROVE IInv1'
    OBVIOUS
  <2>1. ASSUME NEW path \in Registered1, V1!AddRoute(path) PROVE IInv1'
    BY <2>1, AddRouteShape1
  <2>2. CASE UNCHANGED V1!vars
    BY <2>2 DEF V1!vars, IInv1, Shape1, V1!TypeOK, Closed, OneWild
  <2> QED
    BY <2>1, <2>2 DEF V1!Next
<1> QED
  BY <1>1, <1>2, PTL DEF V1!Spec

\* Every node of homework1's tree has its parent, a handler is a registered call's, and
\* childOf never has a choice among children that are not static.
THEOREM TreeIsSound1 ==
  ASSUME \A path \in Registered1 : path.segs \in Seq(RegSegment)
  PROVE  V1!Spec => [](V1!TypeOK /\ V1!OneWildChild)
<1>1. IInv1 => V1!TypeOK /\ V1!OneWildChild
  BY Words1 DEF IInv1, Shape1, OneWild, V1!OneWildChild
<1> QED
  BY <1>1, TreeStays1, PTL

\* What findRoute knows of a request on its way.
Params == UNION {[D -> STRING] : D \in SUBSET STRING}
Infos1 == [n : Seq(RegSegment), params : Params, end : {"walking", "found", "none"}]

LEMMA PutParam ==
  ASSUME NEW params \in Params, NEW name \in STRING, NEW v \in STRING
  PROVE  Put(params, name, v) \in Params
<1>1. PICK D \in SUBSET STRING : params \in [D -> STRING]
  BY DEF Params
<1>2. Put(params, name, v) \in [D \cup {name} -> STRING]
  BY <1>1 DEF Put
<1>3. D \cup {name} \in SUBSET STRING
  BY <1>1
<1> QED
  BY <1>2, <1>3 DEF Params

\* childOf goes down by one segment, which matches.
LEMMA ChildOfMatches1 ==
  ASSUME Shape1, NEW n \in Seq(RegSegment), NEW v \in STRING, NEW m \in V1!ChildOf(n, v)
  PROVE  m \in nodes1 /\ m # <<>> /\ Front(m) = n /\ V1!SegMatches(Last(m), v)
<1>1. V1!Static(v) = Static(v) /\ Static(v) \in RegSegment
  BY DEF V1!Static, Static, RegSegment
<1>2. Front(Append(n, Static(v))) = n /\ Last(Append(n, Static(v))) = Static(v)
      /\ Append(n, Static(v)) # <<>>
  <2> DEFINE s == Static(v)
  <2>1. s \in RegSegment
    BY <1>1
  <2> HIDE DEF s
  <2>2. Front(Append(n, s)) = n /\ Last(Append(n, s)) = s /\ Append(n, s) # <<>>
    BY <2>1, AppendedProperties
  <2> QED
    BY <2>2 DEF s
<1>3. \/ m \in {Append(n, Static(v))} \cap nodes1
      \/ m \in V1!KidsOf(n, {"reg"}) /\ v \in Accepted[V1!Last(m).name]
      \/ m \in V1!KidsOf(n, {"param"}) \cup V1!KidsOf(n, {"star"})
  BY <1>1 DEF V1!ChildOf
<1>4. CASE m \in {Append(n, Static(v))} \cap nodes1
  BY <1>1, <1>2, <1>4 DEF V1!SegMatches
<1>5. CASE m \in V1!KidsOf(n, {"reg"}) /\ v \in Accepted[V1!Last(m).name]
  BY <1>5, Words1 DEF V1!SegMatches
<1>6. CASE m \in V1!KidsOf(n, {"param"}) \cup V1!KidsOf(n, {"star"})
  BY <1>6, Words1 DEF V1!SegMatches
<1> QED
  BY <1>3, <1>4, <1>5, <1>6

\* And it goes to the child that is not static, unless there is one for the segment itself.
LEMMA ChildOfIsUnique1 ==
  ASSUME Shape1, NEW m \in nodes1, m # <<>>, NEW v \in STRING, V1!SegMatches(Last(m), v),
         Last(m) = Static(v) \/ Append(Front(m), Static(v)) \notin nodes1
  PROVE  V1!ChildOf(Front(m), v) = {m}
<1> DEFINE f == Front(m)
           k == Last(m).kind
<1>1. V1!Static(v) = Static(v)
  BY DEF V1!Static, Static
<1>2. m = Append(f, Last(m))
  BY ChildIsItsSegment DEF Shape1
<1>3. CASE Last(m) = Static(v)
  BY <1>1, <1>2, <1>3 DEF V1!ChildOf
<1>4. CASE Last(m) # Static(v)
  <2>1. k \in {"reg", "param", "star"} /\ Append(f, Static(v)) \notin nodes1
        /\ (k = "reg" => v \in Accepted[Last(m).name])
    BY <1>1, <1>4 DEF V1!SegMatches
  <2>2. \A kind \in {"reg", "param", "star"} : V1!KidsOf(f, {kind}) = IF kind = k THEN {m} ELSE {}
    <3> TAKE kind \in {"reg", "param", "star"}
    <3>1. ASSUME NEW c \in V1!KidsOf(f, {kind}) PROVE c = m /\ kind = k
      <4>1. c \in nodes1 /\ c # <<>> /\ Front(c) = f /\ Last(c).kind = kind
        BY <3>1, Words1
      <4>2. c = m
        BY <2>1, <4>1 DEF Shape1, OneWild
      <4> QED
        BY <4>1, <4>2
    <3>2. kind = k => m \in V1!KidsOf(f, {kind})
      BY Words1
    <3> HIDE DEF f, k
    <3> QED
      BY <3>1, <3>2
  <2> HIDE DEF f
  <2>3. CASE k = "reg"
    <3>1. V1!KidsOf(f, {"reg"}) = {m}
      BY <2>2, <2>3
    <3>2. V1!ChildOf(f, v) = {c \in {m} : v \in Accepted[V1!Last(c).name]}
      BY <1>1, <2>1, <3>1 DEF V1!ChildOf
    <3> QED
      BY <2>1, <2>3, <3>2, Words1 DEF f
  <2>4. CASE k = "param"
    <3>1. V1!KidsOf(f, {"reg"}) = {} /\ V1!KidsOf(f, {"param"}) = {m}
      BY <2>2, <2>4
    <3> QED
      BY <1>1, <2>1, <3>1 DEF V1!ChildOf, f
  <2>5. CASE k = "star"
    <3>1. V1!KidsOf(f, {"reg"}) = {} /\ V1!KidsOf(f, {"param"}) = {} /\ V1!KidsOf(f, {"star"}) = {m}
      BY <2>2, <2>5
    <3> QED
      BY <1>1, <2>1, <3>1 DEF V1!ChildOf, f
  <2> QED
    BY <2>1, <2>3, <2>4, <2>5
<1> QED
  BY <1>3, <1>4

\* One segment of findPathRoute: down to a child; or, without one, the end.
LEMMA StepGoesDown1 ==
  ASSUME Shape1, NEW mi \in Infos1, NEW v \in STRING
  PROVE  LET next == V1!ChildOf(mi.n, v)
             then == V1!Step(mi, v)
         IN  /\ then \in Infos1
             /\ mi.end # "walking" => then = mi
             /\ mi.end = "walking" /\ next # {} =>
                  /\ then.end = "walking" /\ then.n \in next
                  /\ then.params = V1!AddValue(mi.params, then.n, v)
             /\ mi.end = "walking" /\ next = {} =>
                  /\ then.n = mi.n /\ then.params = mi.params
                  /\ then.end = IF mi.n # <<>> /\ V1!Last(mi.n) = V1!Star THEN "found" ELSE "none"
<1> DEFINE next == V1!ChildOf(mi.n, v)
           m == CHOOSE m \in next : TRUE
           then == V1!Step(mi, v)
<1>1. mi.n \in Seq(RegSegment) /\ mi.params \in Params /\ mi.end \in {"walking", "found", "none"}
      /\ DOMAIN mi = {"n", "params", "end"}
  BY DEF Infos1
<1>2. CASE mi.end # "walking"
  <2>1. then = mi
    BY <1>2 DEF V1!Step
  <2> HIDE DEF then, next
  <2> QED
    BY <1>2, <2>1 DEF then
<1>3. CASE mi.end = "walking" /\ next # {}
  <2>1. m \in next
    BY <1>3
  <2>2. m \in Seq(RegSegment) /\ m # <<>>
    BY <1>1, <2>1, ChildOfMatches1 DEF Shape1
  <2>3. then = [mi EXCEPT !.n = m, !.params = V1!AddValue(mi.params, m, v)]
    BY <1>3 DEF V1!Step
  <2> HIDE DEF m
  <2>4. V1!AddValue(mi.params, m, v) \in Params
    <3>1. Last(m) \in RegSegment
      BY <2>2, LastIsASegment
    <3>2. Last(m).kind \in {"param", "reg"} => Last(m).name \in STRING
      <4>1. \A s \in RegSegment : s.kind \in {"param", "reg"} => s.name \in STRING
        <5>1. Star.kind = "star" /\ BadReg.kind = "bad"
          BY DEF Star, BadReg
        <5>2. \A s \in [kind : {"static", "param", "reg"}, name : STRING] : s.name \in STRING
          OBVIOUS
        <5> QED
          BY <5>1, <5>2 DEF RegSegment
      <4> QED
        BY <3>1, <4>1
    <3>3. V1!Put(mi.params, Last(m).name, v) = Put(mi.params, Last(m).name, v)
      BY DEF V1!Put, Put
    <3> QED
      BY <1>1, <3>2, <3>3, PutParam, Words1 DEF V1!AddValue
  <2>5. then.n = m /\ then.end = mi.end /\ DOMAIN then = {"n", "params", "end"}
        /\ then.params = V1!AddValue(mi.params, m, v)
        /\ then = [n |-> then.n, params |-> then.params, end |-> then.end]
    BY <1>1, <2>3
  <2> HIDE DEF then, next
  <2>6. then \in Infos1
    BY <1>1, <2>2, <2>4, <2>5 DEF Infos1
  <2> QED
    BY <1>3, <2>1, <2>5, <2>6 DEF then, next
<1>4. CASE mi.end = "walking" /\ next = {}
  <2> DEFINE e == IF mi.n # <<>> /\ V1!Last(mi.n) = V1!Star THEN "found" ELSE "none"
  <2>1. then = [mi EXCEPT !.end = e]
    BY <1>4 DEF V1!Step
  <2>2. e \in {"walking", "found", "none"}
    OBVIOUS
  <2> HIDE DEF e
  <2>3. then.n = mi.n /\ then.params = mi.params /\ then.end = e /\ then \in Infos1
    BY <1>1, <2>1, <2>2 DEF Infos1
  <2> HIDE DEF then, next
  <2> QED
    BY <1>4, <2>3 DEF then, next, e
<1> QED
  BY <1>1, <1>2, <1>3, <1>4

\* Its way through the segments of a request.
Walk1(walk, request) ==
  /\ walk \in [0 .. Len(request) -> Infos1]
  /\ walk[0] = [n |-> <<>>, params |-> <<>>, end |-> IF nodes1 = {} THEN "none" ELSE "walking"]
  /\ \A i \in 1 .. Len(request) : walk[i] = V1!Step(walk[i - 1], request[i])
  /\ V1!FindRoute(request) = walk[Len(request)]

LEMMA FindRouteWalks1 ==
  ASSUME Shape1, NEW request \in Seq(STRING)
  PROVE  \E walk : Walk1(walk, request)
<1> DEFINE n == Len(request)
           start == [n |-> <<>>, params |-> <<>>,
                     end |-> IF nodes1 = {} THEN "none" ELSE "walking"]
           step == [x \in Infos1 \X (1 .. n) |-> V1!Step(x[1], request[x[2]])]
           Def(walk) == [i \in 0 .. n |-> IF i = 0 THEN start ELSE V1!Step(walk[i - 1], request[i])]
           walk == CHOOSE walk : walk = Def(walk)
<1>1. n \in Nat /\ \A i \in 1 .. n : request[i] \in STRING
  BY LenProperties, ElementOfSeq
<1>2. start \in Infos1
  <2>1. <<>> \in [{} -> STRING] /\ {} \in SUBSET STRING
    OBVIOUS
  <2>2. <<>> \in Params
    BY <2>1, Zenon DEF Params
  <2>3. <<>> \in Seq(RegSegment)
    OBVIOUS
  <2> QED
    BY <2>2, <2>3 DEF Infos1
<1> HIDE DEF start
<1>3. PICK f : Iterates(f, Infos1, start, n, step)
  <2>1. \A x \in Infos1 \X (1 .. n) : V1!Step(x[1], request[x[2]]) \in Infos1
    BY <1>1, StepGoesDown1
  <2>2. Steps(Infos1, n, step)
    BY <2>1 DEF Steps
  <2> HIDE DEF n, step
  <2> QED
    BY <1>1, <1>2, <2>2, IterationExists
<1>4. f \in [0 .. n -> Infos1] /\ f[0] = start
      /\ \A i \in 1 .. n : f[i] = V1!Step(f[i - 1], request[i])
  <2>1. f \in [0 .. n -> Infos1] /\ f[0] = start /\ \A i \in 1 .. n : f[i] = step[<<f[i - 1], i>>]
    BY <1>3 DEF Iterates
  <2>2. \A i \in 1 .. n : f[i - 1] \in Infos1
    BY <1>1, <2>1
  <2> QED
    BY <2>1, <2>2
<1>5. f = Def(f)
  <2>1. \A i \in 0 .. n : f[i] = Def(f)[i]
    <3> TAKE i \in 0 .. n
    <3>1. i = 0 \/ (i \in 1 .. n /\ i # 0)
      BY <1>1
    <3> QED
      BY <1>4, <3>1
  <2>2. f = [i \in 0 .. n |-> f[i]] /\ Def(f) = [i \in 0 .. n |-> Def(f)[i]]
    BY <1>4
  <2> HIDE DEF Def
  <2> QED
    BY <2>1, <2>2
<1>6. walk = Def(walk)
  <2> HIDE DEF Def
  <2> QED
    BY <1>5
<1>7. V1!FindRoute(request) = walk[n]
  BY DEF V1!FindRoute, start
<1> HIDE DEF walk
<1>8. /\ walk[0] = start /\ DOMAIN walk = 0 .. n
      /\ \A i \in 1 .. n : walk[i] = V1!Step(walk[i - 1], request[i])
  <2>1. Def(walk)[0] = start /\ DOMAIN Def(walk) = 0 .. n
    BY <1>1
  <2>2. \A i \in 1 .. n : Def(walk)[i] = V1!Step(walk[i - 1], request[i])
    BY <1>1
  <2> HIDE DEF Def
  <2> QED
    BY <1>6, <2>1, <2>2
<1> DEFINE P == {i \in 0 .. n : walk[i] \in Infos1}
<1>9. 0 .. n \subseteq P
  <2>1. 0 \in P
    BY <1>1, <1>2, <1>8
  <2>2. ASSUME NEW i \in 0 .. n, i < n, i \in P PROVE i + 1 \in P
    <3> DEFINE j == i + 1
    <3>1. j \in 1 .. n /\ j \in 0 .. n /\ j - 1 = i
      BY <1>1, <2>2
    <3> HIDE DEF j
    <3>2. walk[j] \in Infos1
      BY <1>1, <1>8, <2>2, <3>1, StepGoesDown1
    <3> QED
      BY <3>1, <3>2 DEF j
  <2> HIDE DEF P
  <2> QED
    BY <1>1, <2>1, <2>2, CountUp
<1>10. walk \in [0 .. n -> Infos1]
  BY <1>6, <1>8, <1>9
<1> QED
  BY <1>7, <1>8, <1>10 DEF Walk1, start

\* The segments of a node that take a value, and the last of them with name p.
Named(n) == {i \in DOMAIN n : n[i].kind \in {"param", "reg"}}
Latest(n, p) == CHOOSE i \in Named(n) : n[i].name = p /\ \A j \in Named(n) : n[j].name = p => j <= i

LEMMA LatestProperties ==
  ASSUME NEW n \in Seq(RegSegment), NEW i \in Named(n)
  PROVE  LET k == Latest(n, n[i].name) IN
         /\ k \in Named(n) /\ n[k].name = n[i].name
         /\ \A j \in Named(n) : n[j].name = n[i].name => j <= k
<1> DEFINE p == n[i].name
           T == {j \in Named(n) : n[j].name = p}
<1>1. Len(n) \in Nat /\ DOMAIN n = 1 .. Len(n)
  BY LenProperties
<1>2. T \in SUBSET (0 .. Len(n)) /\ T # {}
  <2>1. i \in T
    OBVIOUS
  <2>2. T \subseteq 1 .. Len(n)
    BY <1>1 DEF Named
  <2> QED
    BY <1>1, <2>1, <2>2
<1>3. PICK k \in T : \A j \in T : j <= k
  <2> HIDE DEF T
  <2> QED
    BY <1>1, <1>2, GreatestNumber
<1>4. \E x \in Named(n) : n[x].name = p /\ \A j \in Named(n) : n[j].name = p => j <= x
  BY <1>3
<1> QED
  BY <1>4, Zenon DEF Latest

\* addValue, segment by segment, collects the values of a node's parameters.
LEMMA ValuesOfChild ==
  ASSUME NEW n \in Seq(RegSegment), NEW s \in RegSegment, NEW request
  PROVE  V1!Values(Append(n, s), request) =
           IF s.kind \in {"param", "reg"}
             THEN Put(V1!Values(n, request), s.name, request[Len(n) + 1])
             ELSE V1!Values(n, request)
<1> DEFINE m == Append(n, s)
           l == Len(n) + 1
           takes == s.kind \in {"param", "reg"}
           Names(x) == {x[i].name : i \in Named(x)}
<1>1. /\ m \in Seq(RegSegment) /\ DOMAIN m = 1 .. l /\ m[l] = s
      /\ \A i \in 1 .. Len(n) : m[i] = n[i]
  BY AppendedProperties
<1>2. Len(n) \in Nat /\ DOMAIN n = 1 .. Len(n) /\ l \in Nat
  BY LenProperties
<1> HIDE DEF m
<1>3. \A i : i \in Named(m) <=> i \in Named(n) \/ (i = l /\ takes)
  <2>1. \A i : i \in 1 .. l <=> i \in 1 .. Len(n) \/ i = l
    BY <1>2
  <2>2. l \notin 1 .. Len(n)
    BY <1>2
  <2> HIDE DEF l
  <2> QED
    BY <1>1, <1>2, <2>1, <2>2 DEF Named
<1>4. \A i \in Named(n) : m[i] = n[i] /\ i < l /\ i \in Nat
  BY <1>1, <1>2 DEF Named
<1> HIDE DEF l, takes
<1>5. ASSUME NEW i \in Named(n), ~(takes /\ n[i].name = s.name)
      PROVE  Latest(m, n[i].name) = Latest(n, n[i].name)
  <2> DEFINE p == n[i].name
             a == Latest(n, p)
             b == Latest(m, p)
  <2>1. i \in Named(m) /\ m[i].name = p
    BY <1>3, <1>4
  <2>2. b \in Named(m) /\ m[b].name = p /\ \A j \in Named(m) : m[j].name = p => j <= b
    BY <1>1, <2>1, LatestProperties
  <2>3. a \in Named(n) /\ n[a].name = p /\ \A j \in Named(n) : n[j].name = p => j <= a
    BY LatestProperties
  <2> HIDE DEF a, b
  <2>4. b \in Named(n) /\ n[b].name = p
    BY <1>1, <1>3, <1>4, <1>5, <2>2
  <2>5. a \in Named(m) /\ m[a].name = p
    BY <1>3, <1>4, <2>3
  <2>6. a <= b /\ b <= a /\ a \in Nat /\ b \in Nat
    BY <1>4, <2>2, <2>3, <2>4, <2>5
  <2>7. a = b
    BY <2>6
  <2> QED
    BY <2>7 DEF a, b
<1>6. takes => Latest(m, s.name) = l
  <2> SUFFICES ASSUME takes PROVE Latest(m, s.name) = l
    OBVIOUS
  <2> DEFINE b == Latest(m, s.name)
  <2>1. l \in Named(m) /\ m[l].name = s.name
    BY <1>1, <1>3
  <2>2. b \in Named(m) /\ \A j \in Named(m) : m[j].name = s.name => j <= b
    BY <1>1, <2>1, LatestProperties
  <2> HIDE DEF b
  <2>3. l <= b /\ b \in Nat /\ b <= l
    <3>1. l <= b
      BY <2>1, <2>2
    <3>2. b \in Nat /\ b <= l
      BY <1>2, <1>3, <1>4, <2>2
    <3> QED
      BY <3>1, <3>2
  <2>4. b = l
    BY <1>2, <2>3
  <2> QED
    BY <2>4 DEF b
<1>7. \A x : V1!Values(x, request) = [p \in Names(x) |-> request[Latest(x, p)]]
  BY DEF V1!Values, Named, Latest
<1>8. \A p : p \in Names(m) <=> p \in Names(n) \/ (takes /\ p = s.name)
  <2> TAKE p
  <2>1. ASSUME p \in Names(m) PROVE p \in Names(n) \/ (takes /\ p = s.name)
    <3>1. PICK i \in Named(m) : p = m[i].name
      BY <2>1
    <3> QED
      BY <1>1, <1>3, <1>4, <3>1
  <2>2. ASSUME p \in Names(n) PROVE p \in Names(m)
    <3>1. PICK i \in Named(n) : p = n[i].name
      BY <2>2
    <3> QED
      BY <1>3, <1>4, <3>1
  <2>3. ASSUME takes, p = s.name PROVE p \in Names(m)
    BY <1>1, <1>3, <2>3
  <2> QED
    BY <2>1, <2>2, <2>3
<1>9. ASSUME NEW p \in Names(n), ~(takes /\ p = s.name)
      PROVE  request[Latest(m, p)] = request[Latest(n, p)]
  <2>1. PICK i \in Named(n) : p = n[i].name
    OBVIOUS
  <2> QED
    BY <1>5, <1>9, <2>1
<1> DEFINE values == V1!Values(n, request)
           grown == V1!Values(m, request)
<1>10. /\ DOMAIN values = Names(n) /\ \A p \in Names(n) : values[p] = request[Latest(n, p)]
       /\ DOMAIN grown = Names(m) /\ \A p \in Names(m) : grown[p] = request[Latest(m, p)]
       /\ values = [p \in Names(n) |-> values[p]] /\ grown = [p \in Names(m) |-> grown[p]]
  BY <1>7
<1> HIDE DEF values, grown, Names
<1>11. CASE takes
  <2> DEFINE put == Put(values, s.name, request[l])
  <2>1. /\ DOMAIN put = Names(m) /\ put = [p \in Names(m) |-> put[p]]
        /\ \A p \in Names(m) : put[p] = IF p = s.name THEN request[l] ELSE values[p]
    <3>1. DOMAIN values \cup {s.name} = Names(m)
      BY <1>8, <1>10, <1>11
    <3> QED
      BY <3>1 DEF Put
  <2> HIDE DEF put
  <2>2. \A p \in Names(m) : grown[p] = put[p]
    BY <1>6, <1>8, <1>9, <1>10, <1>11, <2>1
  <2>3. grown = put
    BY <1>10, <2>1, <2>2
  <2> QED
    BY <1>11, <2>3 DEF put, grown, values, m, l, takes
<1>12. CASE ~takes
  <2>1. Names(m) = Names(n)
    BY <1>8, <1>12
  <2>2. \A p \in Names(n) : grown[p] = values[p]
    BY <1>9, <1>10, <1>12, <2>1
  <2>3. grown = values
    BY <1>10, <2>1, <2>2
  <2> QED
    BY <1>12, <2>3 DEF grown, values, m, takes
<1> QED
  BY <1>11, <1>12

LEMMA StartOfWalk1 ==
  ASSUME NEW walk, NEW request, Walk1(walk, request)
  PROVE  /\ walk[0].n = <<>> /\ walk[0].params = <<>>
         /\ walk[0].end = IF nodes1 = {} THEN "none" ELSE "walking"
  BY DEF Walk1

\* Until there is no way, it leads through nodes that match the request, with the values
\* of their parameters; it ends early only in a wildcard.
Matching1(mi, i, request) ==
  /\ mi.end # "none" =>
       /\ mi.n \in nodes1 /\ Len(mi.n) <= i
       /\ \A k \in 1 .. Len(mi.n) : V1!SegMatches(mi.n[k], request[k])
       /\ mi.params = V1!Values(mi.n, request)
  /\ mi.end = "walking" => Len(mi.n) = i
  /\ mi.end = "found" => mi.n # <<>> /\ V1!Last(mi.n) = V1!Star

LEMMA StepMatches1 ==
  ASSUME Shape1, NEW request \in Seq(STRING), NEW i \in 1 .. Len(request),
         NEW mi \in Infos1, Matching1(mi, i - 1, request)
  PROVE  Matching1(V1!Step(mi, request[i]), i, request)
<1> DEFINE v == request[i]
           then == V1!Step(mi, v)
           next == V1!ChildOf(mi.n, v)
<1>1. v \in STRING /\ i \in Nat
  BY ElementOfSeq
<1>2. /\ then \in Infos1
      /\ mi.end # "walking" => then = mi
      /\ mi.end = "walking" /\ next # {} =>
           /\ then.end = "walking" /\ then.n \in next
           /\ then.params = V1!AddValue(mi.params, then.n, v)
      /\ mi.end = "walking" /\ next = {} =>
           /\ then.n = mi.n /\ then.params = mi.params
           /\ then.end = IF mi.n # <<>> /\ V1!Last(mi.n) = V1!Star THEN "found" ELSE "none"
  BY <1>1, StepGoesDown1
<1>3. mi.end # "none" => mi.n \in Seq(RegSegment) /\ Len(mi.n) \in Nat
  BY LenProperties DEF Matching1, Shape1
<1> HIDE DEF then, next, v
<1>4. CASE mi.end # "walking"
  <2>1. then = mi
    BY <1>2, <1>4
  <2>2. Len(mi.n) <= i - 1 /\ Len(mi.n) \in Nat => Len(mi.n) <= i
    BY <1>1
  <2>3. Matching1(mi, i, request)
    BY <1>3, <1>4, <2>2 DEF Matching1
  <2> QED
    BY <2>1, <2>3 DEF then, v
<1>5. CASE mi.end = "walking" /\ next = {}
  <2>1. Len(mi.n) = i - 1 /\ Len(mi.n) <= i
    BY <1>1, <1>5 DEF Matching1
  <2>2. then.n = mi.n /\ then.params = mi.params /\ then.end # "walking"
        /\ (then.end = "found" => mi.n # <<>> /\ V1!Last(mi.n) = V1!Star)
    BY <1>2, <1>5
  <2>3. Matching1(then, i, request)
    BY <1>5, <2>1, <2>2 DEF Matching1
  <2> QED
    BY <2>3 DEF then, v
<1>6. CASE mi.end = "walking" /\ next # {}
  <2> DEFINE m == then.n
             p == mi.n
  <2>1. then.end = "walking" /\ m \in next /\ then.params = V1!AddValue(mi.params, m, v)
    BY <1>2, <1>6
  <2>2. /\ p \in nodes1 /\ p \in Seq(RegSegment) /\ Len(p) = i - 1
        /\ \A k \in 1 .. Len(p) : V1!SegMatches(p[k], request[k])
        /\ mi.params = V1!Values(p, request)
    BY <1>3, <1>6 DEF Matching1
  <2> HIDE DEF m, p
  <2>3. m \in nodes1 /\ m # <<>> /\ Front(m) = p /\ V1!SegMatches(Last(m), v)
    BY <1>1, <2>1, <2>2, ChildOfMatches1 DEF next, p
  <2>4. m = Append(p, Last(m)) /\ Last(m) \in RegSegment
    BY <2>3, ChildIsItsSegment, LastIsASegment DEF Shape1
  <2>5. /\ Len(m) = Len(p) + 1 /\ m[Len(p) + 1] = Last(m)
        /\ \A k \in 1 .. Len(p) : m[k] = p[k]
    BY <2>2, <2>4, AppendedProperties
  <2>6. Len(m) = i /\ Len(p) + 1 = i
    BY <1>1, <2>2, <2>5
  <2>7. \A k \in 1 .. Len(m) : V1!SegMatches(m[k], request[k])
    <3> TAKE k \in 1 .. Len(m)
    <3>1. k \in 1 .. Len(p) \/ k = i
      BY <1>1, <2>2, <2>6
    <3>2. CASE k \in 1 .. Len(p)
      BY <2>2, <2>5, <3>2
    <3>3. CASE k = i
      BY <2>3, <2>5, <2>6, <3>3 DEF v
    <3> QED
      BY <3>1, <3>2, <3>3
  <2>8. then.params = V1!Values(m, request)
    <3>1. V1!Values(m, request) =
            IF Last(m).kind \in {"param", "reg"} THEN Put(V1!Values(p, request), Last(m).name, request[Len(p) + 1])
                                                 ELSE V1!Values(p, request)
      BY <2>2, <2>4, ValuesOfChild
    <3>2. then.params = IF Last(m).kind \in {"param", "reg"} THEN Put(mi.params, Last(m).name, v)
                                                             ELSE mi.params
      BY <2>1, Words1 DEF V1!AddValue, V1!Put, Put
    <3> QED
      BY <2>2, <2>6, <3>1, <3>2 DEF v
  <2>9. Matching1(then, i, request)
    <3>1. Len(then.n) = i /\ then.n \in nodes1 /\ then.end = "walking"
          /\ then.params = V1!Values(then.n, request)
          /\ \A k \in 1 .. Len(then.n) : V1!SegMatches(then.n[k], request[k])
      BY <2>1, <2>3, <2>6, <2>7, <2>8 DEF m
    <3> QED
      BY <1>1, <3>1 DEF Matching1
  <2> QED
    BY <2>9 DEF then, v
<1> QED
  BY <1>4, <1>5, <1>6

LEMMA WalkMatches1 ==
  ASSUME Shape1, NEW request \in Seq(STRING), NEW walk, Walk1(walk, request),
         NEW i \in 0 .. Len(request)
  PROVE  Matching1(walk[i], i, request)
<1> DEFINE n == Len(request)
           P == {j \in 0 .. n : Matching1(walk[j], j, request)}
<1>1. n \in Nat
  BY LenProperties
<1>2. 0 \in P
  <2>1. walk[0].n = <<>> /\ walk[0].params = <<>>
        /\ walk[0].end = IF nodes1 = {} THEN "none" ELSE "walking"
    BY StartOfWalk1
  <2>2. V1!Values(<<>>, request) = <<>>
    BY DEF V1!Values
  <2>3. nodes1 # {} => <<>> \in nodes1
    <3> SUFFICES ASSUME NEW m \in nodes1 PROVE <<>> \in nodes1
      OBVIOUS
    <3>1. m \in Seq(RegSegment) /\ 0 \in 0 .. Len(m)
      BY LenProperties DEF Shape1
    <3>2. SubSeq(m, 1, 0) \in nodes1
      BY <3>1, BeginningsInTree DEF Shape1
    <3>3. SubSeq(m, 1, 0) = <<>>
      BY <3>1, BeginningProperties
    <3> QED
      BY <3>2, <3>3
  <2>4. Len(<<>>) = 0 /\ 1 .. 0 = {}
    OBVIOUS
  <2>5. Matching1(walk[0], 0, request)
    BY <2>1, <2>2, <2>3, <2>4 DEF Matching1
  <2> QED
    BY <1>1, <2>5
<1>3. ASSUME NEW j \in 0 .. n, j < n, j \in P PROVE j + 1 \in P
  <2> DEFINE k == j + 1
  <2>1. k \in 1 .. n /\ k \in 0 .. n /\ k - 1 = j
    BY <1>1, <1>3
  <2> HIDE DEF k
  <2>2. walk[j] \in Infos1 /\ walk[k] = V1!Step(walk[j], request[k])
    BY <2>1 DEF Walk1
  <2>3. Matching1(walk[k], k, request)
    BY <1>3, <2>1, <2>2, StepMatches1
  <2> QED
    BY <2>1, <2>3 DEF k
<1> QED
  <2>1. 0 .. n \subseteq P
    <3> HIDE DEF P, n
    <3> QED
      BY <1>1, <1>2, <1>3, CountUp
  <2> QED
    BY <2>1

LEMMA WalkStep1 ==
  ASSUME Shape1, NEW request \in Seq(STRING), NEW walk, Walk1(walk, request),
         NEW i \in 1 .. Len(request)
  PROVE  /\ walk[i - 1].end # "walking" => walk[i] = walk[i - 1]
         /\ walk[i - 1].end = "walking" /\ V1!ChildOf(walk[i - 1].n, request[i]) # {} =>
              walk[i].end = "walking" /\ walk[i].n \in V1!ChildOf(walk[i - 1].n, request[i])
         /\ walk[i - 1].end = "walking" /\ V1!ChildOf(walk[i - 1].n, request[i]) = {} =>
              /\ walk[i].n = walk[i - 1].n
              /\ walk[i].end = IF walk[i - 1].n # <<>> /\ V1!Last(walk[i - 1].n) = V1!Star
                                 THEN "found" ELSE "none"
<1> DEFINE mi == walk[i - 1]
           v == request[i]
<1>1. mi \in Infos1 /\ v \in STRING /\ walk[i] = V1!Step(mi, v)
  <2>1. Len(request) \in Nat /\ i - 1 \in 0 .. Len(request)
    BY LenProperties
  <2> QED
    BY <2>1, ElementOfSeq DEF Walk1
<1> HIDE DEF mi, v
<1>2. /\ mi.end # "walking" => V1!Step(mi, v) = mi
      /\ mi.end = "walking" /\ V1!ChildOf(mi.n, v) # {} =>
           V1!Step(mi, v).end = "walking" /\ V1!Step(mi, v).n \in V1!ChildOf(mi.n, v)
      /\ mi.end = "walking" /\ V1!ChildOf(mi.n, v) = {} =>
           /\ V1!Step(mi, v).n = mi.n
           /\ V1!Step(mi, v).end = IF mi.n # <<>> /\ V1!Last(mi.n) = V1!Star THEN "found" ELSE "none"
  BY <1>1, StepGoesDown1
<1> QED
  BY <1>1, <1>2 DEF mi, v

\* Where the way leaves the beginning of a node that covers the request, or goes on below
\* a wildcard, another node shadows it.
LEMMA WalkIsShadowed1 ==
  ASSUME Shape1, NEW request \in Seq(STRING), NEW walk, Walk1(walk, request),
         NEW n \in nodes1, V1!Begins(n, request),
         ~\E m \in nodes1 : V1!Shadows(m, n, request), NEW i \in 0 .. Len(n)
  PROVE  walk[i].end = "walking" /\ walk[i].n = SubSeq(n, 1, i)
<1> DEFINE l == Len(n)
           P == {j \in 0 .. l : walk[j].end = "walking" /\ walk[j].n = SubSeq(n, 1, j)}
<1>1. /\ n \in Seq(RegSegment) /\ l \in Nat /\ DOMAIN n = 1 .. l
      /\ Len(request) \in Nat /\ l <= Len(request)
      /\ \A j \in 1 .. Len(request) : request[j] \in STRING
      /\ \A j \in 1 .. l : V1!SegMatches(n[j], request[j])
  BY LenProperties, ElementOfSeq DEF Shape1, V1!Begins
<1>2. \A v : V1!Static(v) = Static(v)
  BY DEF V1!Static, Static
<1>3. 0 \in P
  <2>1. walk[0].end = "walking" /\ walk[0].n = <<>>
    BY StartOfWalk1
  <2>2. 0 \in 0 .. l
    BY <1>1
  <2>3. SubSeq(n, 1, 0) = <<>>
    BY <1>1, <2>2, BeginningProperties
  <2> QED
    BY <2>1, <2>2, <2>3
<1>4. ASSUME NEW j \in 0 .. l, j < l, j \in P PROVE j + 1 \in P
  <2> DEFINE k == j + 1
             v == request[k]
             p == SubSeq(n, 1, j)
             c == SubSeq(n, 1, k)
             m == Append(p, Static(v))
  <2>1. k \in 1 .. l /\ k \in 0 .. l /\ k - 1 = j /\ k > 0 /\ j \in Nat
        /\ k \in 1 .. Len(request) /\ v \in STRING
    BY <1>1, <1>4
  <2>2. walk[j].end = "walking" /\ walk[j].n = p
    BY <1>4
  <2> HIDE DEF k
  <2>3. c \in nodes1
    BY <2>1, BeginningsInTree DEF Shape1
  <2>4. c # <<>> /\ Last(c) = n[k] /\ Front(c) = SubSeq(n, 1, k - 1)
    BY <1>1, <2>1, BeginningProperties
  <2>5. p \in Seq(RegSegment) /\ Len(p) = j /\ Front(c) = p
    BY <1>1, <2>1, <2>4, BeginningProperties
  <2>6. V1!SegMatches(n[k], v)
    BY <1>1, <2>1
  <2>7. n[k] = Static(v) \/ m \notin nodes1
    <3> SUFFICES ASSUME n[k] # Static(v), m \in nodes1 PROVE FALSE
      OBVIOUS
    <3>1. /\ Len(m) = k /\ DOMAIN m = 1 .. k /\ Front(m) = p
          /\ m[k] = Static(v) /\ \A q \in 1 .. j : m[q] = p[q]
      <4>1. Static(v) \in RegSegment /\ Len(p) + 1 = k
        BY <2>1, <2>5 DEF Static, RegSegment, k
      <4> HIDE DEF p, v
      <4> QED
        BY <2>5, <4>1, AppendedProperties
    <3>2. SubSeq(m, 1, k - 1) = SubSeq(n, 1, k - 1)
      BY <2>1, <3>1 DEF Front
    <3>3. \A q \in 1 .. j : p[q] = n[q]
      <4> TAKE q \in 1 .. j
      <4>1. \A r \in 1 .. j - 1 + 1 : p[r] = n[1 + r - 1]
        <5>1. \A r \in 1 .. j : n[r] \in RegSegment
          BY <1>1, <2>1, ElementOfSeq
        <5> QED
          BY <1>1, <2>1, <5>1, SubSeqProperties
      <4>2. q \in 1 .. j - 1 + 1 /\ 1 + q - 1 = q
        BY <2>1
      <4> HIDE DEF p
      <4> QED
        BY <4>1, <4>2
    <3>4. V1!Begins(m, request)
      <4>1. k <= Len(request)
        BY <2>1
      <4>2. \A q \in 1 .. k : V1!SegMatches(m[q], request[q])
        <5> TAKE q \in 1 .. k
        <5>1. q = k \/ (q \in 1 .. j /\ q \in 1 .. l)
          BY <1>1, <2>1
        <5>2. CASE q = k
          BY <1>2, <3>1, <5>2 DEF V1!SegMatches
        <5>3. CASE q \in 1 .. j /\ q \in 1 .. l
          BY <1>1, <3>1, <3>3, <5>3
        <5> QED
          BY <5>1, <5>2, <5>3
      <4> QED
        BY <3>1, <4>1, <4>2 DEF V1!Begins
    <3>5. m[k].kind = "static" /\ m[k] # n[k]
      <4>1. Static(v).kind = "static"
        BY DEF Static
      <4> QED
        BY <3>1, <4>1
    <3>6. k \in DOMAIN n \cap DOMAIN m
      BY <1>1, <2>1, <3>1
    <3> HIDE DEF m
    <3>7. V1!Shadows(m, n, request)
      BY <3>2, <3>4, <3>5, <3>6 DEF V1!Shadows
    <3> QED
      BY <3>7
  <2>8. V1!ChildOf(p, v) = {c}
    <3> HIDE DEF c, p, v
    <3>1. V1!SegMatches(Last(c), v) /\ (Last(c) = Static(v) \/ Append(Front(c), Static(v)) \notin nodes1)
      BY <2>4, <2>5, <2>6, <2>7
    <3> QED
      BY <2>1, <2>3, <2>4, <2>5, <3>1, ChildOfIsUnique1
  <2> HIDE DEF c, p
  <2>9. walk[k].end = "walking" /\ walk[k].n = c
    <3> DEFINE next == V1!ChildOf(walk[j].n, v)
    <3>1. next = {c}
      BY <2>2, <2>8
    <3>2. next # {} => walk[k].end = "walking" /\ walk[k].n \in next
      BY <2>1, <2>2, WalkStep1
    <3> HIDE DEF next
    <3> QED
      BY <3>1, <3>2
  <2> QED
    BY <2>1, <2>9 DEF k, c
<1> QED
  <2>1. 0 .. l \subseteq P
    <3> HIDE DEF P, l
    <3> QED
      BY <1>1, <1>3, <1>4, CountUp
  <2> QED
    BY <2>1

\* A wildcard at the end of the way keeps what it has found.
LEMMA WildcardTakesTheRest1 ==
  ASSUME Shape1, NEW request \in Seq(STRING), NEW walk, Walk1(walk, request),
         NEW n \in nodes1, V1!Begins(n, request),
         ~\E m \in nodes1 : V1!Shadows(m, n, request),
         n # <<>>, V1!Last(n) = V1!Star, Len(n) < Len(request)
  PROVE  walk[Len(request)].end = "found" /\ walk[Len(request)].n = n
<1> DEFINE l == Len(request)
           k == Len(n) + 1
           P == {i \in 0 .. l : i >= k => walk[i].end = "found" /\ walk[i].n = n}
<1>1. /\ n \in Seq(RegSegment) /\ Len(n) \in Nat /\ l \in Nat /\ SubSeq(n, 1, Len(n)) = n
      /\ \A j \in 1 .. l : request[j] \in STRING
  BY LenProperties, ElementOfSeq, SubSeqFull DEF Shape1
<1>2. k \in 1 .. l /\ k - 1 = Len(n) /\ Len(n) \in 0 .. l /\ Len(n) \in 0 .. Len(n) /\ k \in Nat
  BY <1>1
<1>3. walk[Len(n)].end = "walking" /\ walk[Len(n)].n = n
  BY <1>1, <1>2, WalkIsShadowed1
<1>4. V1!ChildOf(n, request[k]) = {}
  <2> SUFFICES ASSUME NEW m \in V1!ChildOf(n, request[k]) PROVE FALSE
    OBVIOUS
  <2>1. m \in nodes1 /\ m # <<>> /\ Front(m) = n /\ V1!SegMatches(Last(m), request[k])
    BY <1>1, <1>2, ChildOfMatches1
  <2>2. m = Append(n, Last(m)) /\ Last(m) \in RegSegment
    BY <2>1, ChildIsItsSegment, LastIsASegment DEF Shape1
  <2>3. Len(m) = k /\ DOMAIN m = 1 .. k /\ m[k] = Last(m) /\ \A j \in 1 .. Len(n) : m[j] = n[j]
    BY <1>1, <2>2, AppendedProperties
  <2>4. \A j \in 1 .. k : V1!SegMatches(m[j], request[j])
    <3> TAKE j \in 1 .. k
    <3>1. j \in 1 .. Len(n) \/ j = k
      BY <1>2
    <3>2. CASE j \in 1 .. Len(n)
      BY <1>1, <2>3, <3>2, LenProperties DEF V1!Begins
    <3>3. CASE j = k
      BY <2>1, <2>3, <3>3
    <3> QED
      BY <3>1, <3>2, <3>3
  <2>5. V1!Begins(m, request)
    BY <1>2, <2>3, <2>4 DEF V1!Begins
  <2>6. V1!Shadows(m, n, request)
    BY <2>1, <2>3, <2>5, Words1 DEF V1!Shadows
  <2> QED
    BY <2>1, <2>6
<1>5. ASSUME NEW i \in 0 .. l, i < l, i \in P PROVE i + 1 \in P
  <2> DEFINE j == i + 1
  <2>1. j \in 1 .. l /\ j \in 0 .. l /\ j - 1 = i /\ i \in Nat
    BY <1>1, <1>5
  <2>0. SUFFICES ASSUME j >= k PROVE walk[j].end = "found" /\ walk[j].n = n
    BY <2>1
  <2>2. i >= Len(n) /\ (i = Len(n) => j = k)
    <3>1. Len(n) \in Nat /\ i \in Nat /\ i + 1 >= Len(n) + 1
      BY <1>1, <2>0, <2>1
    <3>2. i >= Len(n)
      BY ONLY <3>1
    <3> QED
      BY <3>2
  <2> HIDE DEF j
  <2>3. CASE i = Len(n)
    <3>1. walk[i].end = "walking" /\ walk[i].n = n /\ V1!ChildOf(walk[i].n, request[j]) = {}
      BY <1>3, <1>4, <2>3, <2>2
    <3>2. /\ walk[j].n = walk[i].n
          /\ walk[j].end = IF walk[i].n # <<>> /\ V1!Last(walk[i].n) = V1!Star THEN "found" ELSE "none"
      BY <2>1, <3>1, WalkStep1
    <3> QED
      BY <3>1, <3>2
  <2>4. CASE i # Len(n)
    <3>1. i >= k
      <4>1. Len(n) \in Nat /\ i \in Nat /\ i >= Len(n) /\ i # Len(n)
        BY <1>1, <2>1, <2>4, <2>2
      <4> QED
        BY ONLY <4>1
    <3>2. walk[i].end = "found" /\ walk[i].n = n
      BY <1>5, <3>1
    <3>3. walk[j] = walk[i]
      BY <2>1, <3>2, WalkStep1
    <3> QED
      BY <3>2, <3>3
  <2> QED
    BY <2>3, <2>4
<1>6. 0 \in P
  BY <1>1, <1>2
<1> QED
  <2>1. 0 .. l \subseteq P
    <3> HIDE DEF P, l
    <3> QED
      BY <1>1, <1>5, <1>6, CountUp
  <2>2. l \in 0 .. l /\ l >= k
    BY <1>1, <1>2
  <2> HIDE DEF l, k
  <2> QED
    BY <2>1, <2>2 DEF l

LEMMA DispatchInv1 ==
  ASSUME IInv1, \A request \in Requests : request \in Seq(STRING)
  PROVE  V1!Dispatch
<1>1. V1!OneWildChild
  BY Words1 DEF IInv1, Shape1, OneWild, V1!OneWildChild
<1>2. ASSUME NEW request \in Requests
      PROVE  LET mi == V1!FindRoute(request) IN
             /\ V1!Serve(request) # 0 =>
                  V1!Covers(mi.n, request) /\ mi.params = V1!Values(mi.n, request)
             /\ \A n \in DOMAIN handler1 :
                  V1!Covers(n, request) /\ V1!Serve(request) # handler1[n] =>
                    \E m \in nodes1 : V1!Shadows(m, n, request)
  <2> DEFINE mi == V1!FindRoute(request)
             l == Len(request)
  <2>1. request \in Seq(STRING) /\ Shape1 /\ DOMAIN handler1 \subseteq nodes1
    BY DEF IInv1, V1!TypeOK
  <2>2. PICK walk : Walk1(walk, request)
    BY <2>1, FindRouteWalks1
  <2>3. mi = walk[l] /\ l \in 0 .. l /\ l \in Nat /\ mi \in Infos1
    BY <2>1, <2>2, LenProperties DEF Walk1
  <2>4. Matching1(mi, l, request)
    BY <2>1, <2>2, <2>3, WalkMatches1
  <2>5. V1!Serve(request) = IF mi.end = "none" \/ mi.n \notin DOMAIN handler1 THEN 0 ELSE handler1[mi.n]
    BY DEF V1!Serve
  <2> HIDE DEF mi
  <2>6. ASSUME V1!Serve(request) # 0
        PROVE  V1!Covers(mi.n, request) /\ mi.params = V1!Values(mi.n, request)
    <3>1. mi.end # "none" /\ mi.end \in {"walking", "found", "none"}
      BY <2>3, <2>5, <2>6 DEF Infos1
    <3>2. mi.n \in nodes1 /\ Len(mi.n) <= l /\ mi.params = V1!Values(mi.n, request)
          /\ \A k \in 1 .. Len(mi.n) : V1!SegMatches(mi.n[k], request[k])
      BY <2>4, <3>1 DEF Matching1
    <3>3. DOMAIN mi.n = 1 .. Len(mi.n)
      BY <2>1, <3>2, LenProperties DEF Shape1
    <3>4. Len(mi.n) = l \/ (mi.n # <<>> /\ V1!Last(mi.n) = V1!Star)
      BY <2>4, <3>1 DEF Matching1
    <3> QED
      BY <3>2, <3>3, <3>4 DEF V1!Covers, V1!Begins
  <2>7. ASSUME NEW n \in DOMAIN handler1, V1!Covers(n, request), V1!Serve(request) # handler1[n],
               ~\E m \in nodes1 : V1!Shadows(m, n, request)
        PROVE  FALSE
    <3>1. n \in nodes1 /\ V1!Begins(n, request) /\ Len(n) <= l
      BY <2>1, <2>7 DEF V1!Covers, V1!Begins
    <3>2. n \in Seq(RegSegment) /\ Len(n) \in 0 .. Len(n) /\ SubSeq(n, 1, Len(n)) = n /\ Len(n) \in Nat
      BY <2>1, <3>1, LenProperties, SubSeqFull DEF Shape1
    <3>3. CASE Len(n) = l
      <4>1. walk[Len(n)].end = "walking" /\ walk[Len(n)].n = SubSeq(n, 1, Len(n))
        BY <2>1, <2>2, <2>7, <3>1, <3>2, WalkIsShadowed1
      <4>2. mi.end = "walking" /\ mi.n = n
        BY <2>3, <3>2, <3>3, <4>1
      <4> QED
        BY <2>5, <2>7, <4>2
    <3>4. CASE Len(n) # l
      <4>1. Len(n) < l /\ n # <<>> /\ V1!Last(n) = V1!Star
        BY <2>3, <2>7, <3>1, <3>2, <3>4 DEF V1!Covers
      <4>2. mi.end = "found" /\ mi.n = n
        BY <2>1, <2>2, <2>3, <2>7, <3>1, <4>1, WildcardTakesTheRest1
      <4> QED
        BY <2>5, <2>7, <4>2
    <3> QED
      BY <3>3, <3>4
  <2> QED
    BY <2>6, <2>7 DEF mi
<1> QED
  BY <1>1, <1>2 DEF V1!Dispatch

\* addRoute of homework1 replaces no handler, but that of a path that ends in a wildcard.
LEMMA RoutesStay1 == V1!Spec => V1!RoutesStay
<1>1. [V1!Next]_(V1!vars) => [V1!Stays]_(V1!vars)
  <2> SUFFICES ASSUME NEW path \in Registered1, V1!AddRoute(path),
                      NEW n \in DOMAIN handler1, n = <<>> \/ V1!Last(n) # V1!Star
               PROVE  n \in DOMAIN handler1' /\ handler1'[n] = handler1[n]
    BY DEF V1!Next, V1!Stays
  <2>1. CASE UNCHANGED handler1
    BY <2>1
  <2>2. CASE handler1' = V1!Put(handler1, path.segs, calls1') /\ ~V1!Conflict(path.segs)
    <3>1. n # path.segs
      BY <2>2 DEF V1!Conflict
    <3> QED
      BY <2>2, <3>1 DEF V1!Put
  <2> QED
    BY <2>1, <2>2 DEF V1!AddRoute
<1> QED
  BY <1>1, PTL DEF V1!Spec, V1!RoutesStay

-----------------------------------------------------------------------------
(* homework2.                                                              *)

Shape2 ==
  /\ nodes2 \in SUBSET Seq(Segment) /\ Closed(nodes2) /\ OneWild(nodes2)
  /\ count2 \in Nat

IInv2 == V2!TypeOK /\ Shape2 /\ mdls2 \in [nodes2 -> Seq(Nat)]

\* The words of Paths mean the same in the router as here.
LEMMA Words2 ==
  /\ V2!Star = Star
  /\ \A m : V2!Front(m) = Front(m) /\ V2!Last(m) = Last(m)
  /\ \A n, kind : V2!KidsOf(n, kind) =
       {m \in nodes2 : m # <<>> /\ Front(m) = n /\ Last(m).kind = kind}
  BY DEF V2!Star, Star, V2!Front, Front, V2!Last, Last, V2!KidsOf, V2!KidsIn

\* What childOrCreate refuses keeps a second child that is not static away.
LEMMA ReachedJoins2 ==
  ASSUME Shape2, NEW segs \in Seq(Segment)
  PROVE  Joins(V2!Reached(segs), nodes2, segs)
<1> DEFINE R == V2!Reached(segs)
<1>1. R \subseteq {SubSeq(segs, 1, i) : i \in 0 .. Len(segs)}
  BY DEF V2!Reached
<1>2. ASSUME NEW m \in R, m # <<>>
      PROVE  /\ m \in Seq(Segment) /\ Front(m) \in R
             /\ ~V2!Blocked(Front(m), Last(m))
  <2>1. PICK i \in 0 .. Len(segs) :
          /\ m = SubSeq(segs, 1, i)
          /\ \A j \in 1 .. i : ~V2!Blocked(SubSeq(segs, 1, j - 1), segs[j])
    BY DEF V2!Reached
  <2>2. /\ i > 0 /\ m \in Seq(Segment)
        /\ Last(m) = segs[i] /\ Front(m) = SubSeq(segs, 1, i - 1)
    BY <1>2, <2>1, BeginningProperties
  <2>3. i \in 1 .. i /\ i - 1 \in 0 .. Len(segs) /\ \A j \in 1 .. i - 1 : j \in 1 .. i
    BY <2>2, LenProperties
  <2>4. Front(m) \in R
    BY <2>1, <2>2, <2>3 DEF V2!Reached
  <2> QED
    BY <2>1, <2>2, <2>3, <2>4
<1>3. Closed(R)
  BY <1>2 DEF Closed
<1>4. ASSUME NEW m \in R \ {<<>>}, Last(m).kind # "static",
             NEW n \in nodes2 \ {<<>>}, Front(n) = Front(m), Last(n).kind # "static"
      PROVE  n = m
  <2>1. /\ Last(n) \in Segment /\ n = Append(Front(m), Last(n))
        /\ Last(m) \in Segment /\ m = Append(Front(m), Last(m))
    BY <1>2, <1>4, ChildIsItsSegment, LastIsASegment DEF Shape2
  <2>2. /\ Last(n).kind \in {"param", "star"} /\ (Last(n).kind = "star" => Last(n) = Star)
        /\ Last(m).kind \in {"param", "star"} /\ (Last(m).kind = "star" => Last(m) = Star)
    <3>1. \A s \in Segment : s.kind # "static" =>
            s.kind \in {"param", "star"} /\ (s.kind = "star" => s = Star)
      BY DEF Segment, Star
    <3> QED
      BY <1>4, <2>1, <3>1
  <2>3. n \in V2!KidsOf(Front(m), Last(n).kind)
    BY <1>4, Words2
  <2>4. CASE Last(m).kind = "star"
    BY <1>2, <1>4, <2>1, <2>2, <2>3, <2>4 DEF V2!Blocked
  <2>5. CASE Last(m).kind = "param"
    BY <1>2, <1>4, <2>1, <2>2, <2>3, <2>5 DEF V2!Blocked
  <2> QED
    BY <2>2, <2>4, <2>5
<1> QED
  BY <1>1, <1>3, <1>4 DEF Joins

\* A call of addRoute keeps the tree, and lists only calls that returned.
LEMMA AddRouteShape2 ==
  ASSUME IInv2, NEW path, path.segs \in Seq(Segment),
         NEW withHandler, NEW withMdls, V2!AddRoute(path, withHandler, withMdls)
  PROVE  IInv2'
<1> DEFINE n == path.segs
           grown == nodes2 \cup V2!Reached(n)
           listed == [m \in grown |-> IF m \in nodes2 THEN mdls2[m] ELSE <<>>]
<1>1. count2' = count2 + 1 /\ count2 \in Nat /\ count2' \notin DOMAIN calls2
  BY DEF IInv2, Shape2, V2!AddRoute, V2!TypeOK
<1>2. CASE UNCHANGED <<nodes2, handler2, mdls2, calls2>>
  BY <1>1, <1>2 DEF IInv2, Shape2, V2!TypeOK, Closed, OneWild
<1>3. CASE nodes2' = grown /\ V2!WellFormed(path)
  <2>1. /\ nodes2' \in SUBSET Seq(Segment) /\ Closed(nodes2') /\ OneWild(nodes2')
    BY <1>3, ReachedJoins2, GrownIsATree DEF IInv2, Shape2
  <2>2. Shape2'
    BY <1>1, <2>1 DEF Shape2, Closed, OneWild
  <2>3. \A m \in nodes2' : m # <<>> => V2!Front(m) \in nodes2'
    BY <2>1, Words2 DEF Closed
  <2>4. /\ listed \in [grown -> Seq(Nat)]
        /\ \A m \in grown : \A i \in DOMAIN listed[m] : listed[m][i] \in DOMAIN calls2
    <3>1. <<>> \in Seq(Nat) /\ DOMAIN <<>> = {}
      OBVIOUS
    <3> QED
      BY <3>1 DEF IInv2, V2!TypeOK
  <2>5. CASE mdls2' = listed /\ UNCHANGED <<handler2, calls2>>
    BY <1>1, <1>3, <2>2, <2>3, <2>4, <2>5 DEF IInv2, V2!TypeOK
  <2>6. CASE /\ n \in grown
             /\ handler2' = IF withHandler THEN V2!Put(handler2, n, count2') ELSE handler2
             /\ mdls2' = IF withMdls THEN [listed EXCEPT ![n] = Append(@, count2')] ELSE listed
             /\ calls2' = V2!Put(calls2, count2', n)
    <3>1. /\ DOMAIN calls2' = DOMAIN calls2 \cup {count2'}
          /\ calls2'[count2'] = n /\ \A i \in DOMAIN calls2 : calls2'[i] = calls2[i]
      BY <1>1, <2>6 DEF V2!Put
    <3>2. DOMAIN calls2' \subseteq 1 .. count2'
      BY <1>1, <3>1 DEF IInv2, V2!TypeOK
    <3>3. /\ DOMAIN handler2' \subseteq nodes2'
          /\ \A m \in DOMAIN handler2' : handler2'[m] \in DOMAIN calls2' /\ calls2'[handler2'[m]] = m
      BY <1>3, <2>6, <3>1 DEF IInv2, V2!TypeOK, V2!Put
    <3>4. /\ mdls2' \in [nodes2' -> Seq(Nat)]
          /\ \A m \in nodes2' : \A i \in DOMAIN mdls2'[m] : mdls2'[m][i] \in DOMAIN calls2'
      <4>1. CASE withMdls
        <5>1. \A m \in grown : mdls2'[m] = IF m = n THEN Append(listed[n], count2') ELSE listed[m]
          BY <2>6, <4>1
        <5> HIDE DEF grown, listed
        <5>2. /\ Append(listed[n], count2') \in Seq(Nat)
              /\ \A i \in DOMAIN Append(listed[n], count2') :
                   Append(listed[n], count2')[i] \in DOMAIN calls2'
          <6>1. listed[n] \in Seq(Nat) /\ count2' \in Nat
            BY <1>1, <2>4, <2>6
          <6>2. /\ Append(listed[n], count2') \in Seq(Nat)
                /\ Len(Append(listed[n], count2')) = Len(listed[n]) + 1
                /\ \A i \in 1 .. Len(listed[n]) : Append(listed[n], count2')[i] = listed[n][i]
                /\ Append(listed[n], count2')[Len(listed[n]) + 1] = count2'
            BY <6>1, AppendProperties
          <6>3. /\ Len(listed[n]) \in Nat /\ DOMAIN listed[n] = 1 .. Len(listed[n])
                /\ DOMAIN Append(listed[n], count2') = 1 .. Len(listed[n]) + 1
            BY <6>1, <6>2, LenProperties
          <6> QED
            BY <2>4, <2>6, <3>1, <6>2, <6>3
        <5> QED
          BY <1>3, <2>4, <2>6, <3>1, <4>1, <5>1, <5>2
      <4>2. CASE ~withMdls
        BY <1>3, <2>4, <2>6, <3>1, <4>2
      <4> QED
        BY <4>1, <4>2
    <3> QED
      BY <2>2, <2>3, <3>2, <3>3, <3>4 DEF IInv2, V2!TypeOK
  <2> QED
    BY <1>3, <2>5, <2>6 DEF V2!AddRoute
<1> QED
  BY <1>2, <1>3 DEF V2!AddRoute

\* The middlewares of a node are those of calls that registered it, in the order of the calls.
Listed2 ==
  /\ \A n \in nodes2 : \A i \in DOMAIN mdls2[n] : calls2[mdls2[n][i]] = n
  /\ \A n \in nodes2 : \A i, j \in DOMAIN mdls2[n] : i < j => mdls2[n][i] < mdls2[n][j]

LEMMA AddRouteLists2 ==
  ASSUME IInv2, Listed2, NEW path, path.segs \in Seq(Segment),
         NEW withHandler, NEW withMdls, V2!AddRoute(path, withHandler, withMdls)
  PROVE  Listed2'
<1> DEFINE n == path.segs
           grown == nodes2 \cup V2!Reached(n)
           listed == [m \in grown |-> IF m \in nodes2 THEN mdls2[m] ELSE <<>>]
<1>1. /\ count2' = count2 + 1 /\ count2 \in Nat
      /\ \A i \in DOMAIN calls2 : i \in Nat /\ i <= count2 /\ i < count2'
  BY DEF IInv2, Shape2, V2!AddRoute, V2!TypeOK
<1>2. CASE UNCHANGED <<nodes2, handler2, mdls2, calls2>>
  BY <1>2 DEF Listed2
<1>3. CASE nodes2' = grown /\ V2!WellFormed(path)
  <2>1. /\ \A m \in grown : listed[m] \in Seq(Nat)
        /\ \A m \in grown : \A i \in DOMAIN listed[m] :
             listed[m][i] \in DOMAIN calls2 /\ calls2[listed[m][i]] = m
        /\ \A m \in grown : \A i, j \in DOMAIN listed[m] : i < j => listed[m][i] < listed[m][j]
    <3>1. <<>> \in Seq(Nat) /\ DOMAIN <<>> = {}
      OBVIOUS
    <3>2. ASSUME NEW m \in grown
          PROVE  /\ listed[m] \in Seq(Nat)
                 /\ \A i \in DOMAIN listed[m] :
                      listed[m][i] \in DOMAIN calls2 /\ calls2[listed[m][i]] = m
                 /\ \A i, j \in DOMAIN listed[m] : i < j => listed[m][i] < listed[m][j]
      <4>1. CASE m \in nodes2
        <5>1. listed[m] = mdls2[m] /\ mdls2[m] \in Seq(Nat)
          BY <4>1 DEF IInv2
        <5> HIDE DEF listed
        <5> QED
          BY <4>1, <5>1 DEF IInv2, V2!TypeOK, Listed2
      <4>2. CASE m \notin nodes2
        <5>1. listed[m] = <<>>
          BY <4>2
        <5> HIDE DEF listed
        <5> QED
          BY <3>1, <5>1
      <4> QED
        BY <4>1, <4>2
    <3> HIDE DEF grown, listed
    <3> QED
      BY <3>2
  <2>2. CASE mdls2' = listed /\ UNCHANGED calls2
    <3> HIDE DEF grown, listed
    <3> QED
      BY <1>3, <2>1, <2>2 DEF Listed2
  <2>3. CASE /\ n \in grown /\ calls2' = V2!Put(calls2, count2', n)
             /\ mdls2' = IF withMdls THEN [listed EXCEPT ![n] = Append(@, count2')] ELSE listed
    <3>1. calls2'[count2'] = n /\ \A i \in DOMAIN calls2 : calls2'[i] = calls2[i]
      BY <1>1, <2>3 DEF V2!Put
    <3>2. ASSUME NEW m \in grown
          PROVE  /\ \A i \in DOMAIN mdls2'[m] : calls2'[mdls2'[m][i]] = m
                 /\ \A i, j \in DOMAIN mdls2'[m] : i < j => mdls2'[m][i] < mdls2'[m][j]
      <4>1. mdls2'[m] = IF withMdls /\ m = n THEN Append(listed[m], count2') ELSE listed[m]
        BY <2>3
      <4> HIDE DEF grown, listed
      <4> DEFINE l == listed[m]
                 a == Append(l, count2')
      <4>2. /\ l \in Seq(Nat) /\ Len(l) \in Nat /\ DOMAIN l = 1 .. Len(l)
            /\ \A i \in DOMAIN l : l[i] \in DOMAIN calls2 /\ calls2[l[i]] = m
            /\ \A i, j \in DOMAIN l : i < j => l[i] < l[j]
        BY <2>1, LenProperties
      <4>3. CASE ~(withMdls /\ m = n)
        <5>1. mdls2'[m] = l
          BY <4>1, <4>3
        <5> HIDE DEF l
        <5> QED
          BY <3>1, <4>2, <5>1
      <4>4. CASE withMdls /\ m = n
        <5>1. /\ DOMAIN a = 1 .. Len(l) + 1
              /\ \A i \in 1 .. Len(l) : a[i] = l[i]
              /\ a[Len(l) + 1] = count2'
          BY <1>1, <4>2, AppendProperties, LenProperties
        <5>2. mdls2'[m] = a
          BY <4>1, <4>4
        <5> HIDE DEF l, a
        <5>3. \A i \in DOMAIN a : (i \in DOMAIN l /\ a[i] = l[i]) \/ (i = Len(l) + 1 /\ a[i] = count2')
          BY <4>2, <5>1
        <5>4. \A i \in DOMAIN a : calls2'[a[i]] = m
          BY <3>1, <4>2, <4>4, <5>3
        <5>5. ASSUME NEW i \in DOMAIN a, NEW j \in DOMAIN a, i < j PROVE a[i] < a[j]
          <6>1. i \in DOMAIN l /\ a[i] = l[i]
            BY <4>2, <5>1, <5>5
          <6>2. CASE j \in DOMAIN l /\ a[j] = l[j]
            BY <4>2, <5>5, <6>1, <6>2
          <6>3. CASE a[j] = count2'
            BY <1>1, <4>2, <6>1, <6>3
          <6> QED
            BY <5>3, <6>2, <6>3
        <5> QED
          BY <5>2, <5>4, <5>5
      <4> QED
        BY <4>3, <4>4
    <3> HIDE DEF grown
    <3> QED
      BY <1>3, <3>2 DEF Listed2
  <2> QED
    BY <2>2, <2>3, <1>3 DEF V2!AddRoute
<1> QED
  BY <1>2, <1>3 DEF V2!AddRoute

LEMMA TreeStays2 ==
  ASSUME \A path \in Registered2 : path.segs \in Seq(Segment)
  PROVE  V2!Spec => [](IInv2 /\ Listed2)
<1>1. V2!Init => IInv2 /\ Listed2
  BY DEF V2!Init, IInv2, Shape2, V2!TypeOK, Closed, OneWild, Listed2
<1>2. IInv2 /\ Listed2 /\ [V2!Next]_(V2!vars) => (IInv2 /\ Listed2)'
  <2> SUFFICES ASSUME IInv2, Listed2, [V2!Next]_(V2!vars) PROVE IInv2' /\ Listed2'
    OBVIOUS
  <2>1. ASSUME NEW path \in Registered2, V2!Get(path) \/ V2!UseV1(path) PROVE IInv2' /\ Listed2'
    BY <2>1, AddRouteShape2, AddRouteLists2 DEF V2!Get, V2!UseV1
  <2>2. CASE UNCHANGED V2!vars
    BY <2>2 DEF V2!vars, IInv2, Shape2, V2!TypeOK, Closed, OneWild, Listed2
  <2> QED
    BY <2>1, <2>2 DEF V2!Next
<1> QED
  BY <1>1, <1>2, PTL DEF V2!Spec

\* Every node of homework2's tree has its parent; handlers and middlewares are those of
\* calls that returned; and childOf never has a choice among children that are not static.
THEOREM TreeIsSound2 ==
  ASSUME \A path \in Registered2 : path.segs \in Seq(Segment)
  PROVE  V2!Spec => [](V2!TypeOK /\ V2!OneWildChild)
<1>1. IInv2 => V2!TypeOK /\ V2!OneWildChild
  BY Words2 DEF IInv2, Shape2, OneWild, V2!OneWildChild
<1> QED
  BY <1>1, TreeStays2, PTL

\* What findRoute of homework2 knows of a request on its way.
Infos2 == [n : Seq(Segment), params : Params, ok : BOOLEAN]

Matches2(s, v) == s = Static(v) \/ s.kind \in {"param", "star"}

\* childOf goes down by one segment, which matches.
LEMMA ChildOfMatches2 ==
  ASSUME Shape2, NEW n \in Seq(Segment), NEW v \in STRING, NEW m \in V2!ChildOf(n, v)
  PROVE  m \in nodes2 /\ m # <<>> /\ Front(m) = n /\ Matches2(Last(m), v)
<1>1. V2!Static(v) = Static(v) /\ Static(v) \in Segment
  BY DEF V2!Static, Static, Segment
<1>2. Front(Append(n, Static(v))) = n /\ Last(Append(n, Static(v))) = Static(v)
      /\ Append(n, Static(v)) # <<>>
  <2> DEFINE s == Static(v)
  <2>1. s \in Segment
    BY <1>1
  <2> HIDE DEF s
  <2>2. Front(Append(n, s)) = n /\ Last(Append(n, s)) = s /\ Append(n, s) # <<>>
    BY <2>1, AppendedProperties
  <2> QED
    BY <2>2 DEF s
<1>3. m \in {Append(n, Static(v))} \cap nodes2 \/ m \in V2!KidsOf(n, "param") \cup V2!KidsOf(n, "star")
  BY <1>1 DEF V2!ChildOf
<1>4. CASE m \in {Append(n, Static(v))} \cap nodes2
  BY <1>2, <1>4 DEF Matches2
<1>5. CASE m \in V2!KidsOf(n, "param") \cup V2!KidsOf(n, "star")
  BY <1>5, Words2 DEF Matches2
<1> QED
  BY <1>3, <1>4, <1>5

\* And it goes to the child that is not static, unless there is one for the segment itself.
LEMMA ChildOfIsUnique2 ==
  ASSUME Shape2, NEW m \in nodes2, m # <<>>, NEW v \in STRING, Matches2(Last(m), v),
         Last(m) = Static(v) \/ Append(Front(m), Static(v)) \notin nodes2
  PROVE  V2!ChildOf(Front(m), v) = {m}
<1>1. V2!Static(v) = Static(v)
  BY DEF V2!Static, Static
<1>2. m = Append(Front(m), Last(m))
  BY ChildIsItsSegment DEF Shape2
<1>3. CASE Last(m) = Static(v)
  BY <1>1, <1>2, <1>3 DEF V2!ChildOf
<1>4. CASE Last(m) # Static(v)
  <2>1. Last(m).kind \in {"param", "star"} /\ Append(Front(m), Static(v)) \notin nodes2
    BY <1>4 DEF Matches2
  <2>2. \A k \in V2!KidsOf(Front(m), "param") \cup V2!KidsOf(Front(m), "star") : k = m
    <3> SUFFICES ASSUME NEW k \in V2!KidsOf(Front(m), "param") \cup V2!KidsOf(Front(m), "star")
                 PROVE  k = m
      OBVIOUS
    <3>1. k \in nodes2 /\ k # <<>> /\ Front(k) = Front(m) /\ Last(k).kind \in {"param", "star"}
      BY Words2
    <3> QED
      BY <2>1, <3>1 DEF Shape2, OneWild
  <2>3. m \in V2!KidsOf(Front(m), Last(m).kind)
    BY Words2
  <2>4. Last(m).kind = "star" => V2!KidsOf(Front(m), "param") = {}
    <3> SUFFICES ASSUME Last(m).kind = "star", NEW k \in V2!KidsOf(Front(m), "param")
                 PROVE  FALSE
      OBVIOUS
    <3>1. k = m /\ Last(k).kind = "param"
      BY <2>2, Words2
    <3> QED
      BY <3>1
  <2>5. CASE Last(m).kind = "param"
    <3>1. V2!KidsOf(Front(m), "param") = {m}
      BY <2>2, <2>3, <2>5
    <3> QED
      BY <1>1, <2>1, <3>1 DEF V2!ChildOf
  <2>6. CASE Last(m).kind = "star"
    <3>1. V2!KidsOf(Front(m), "star") = {m}
      BY <2>2, <2>3, <2>6
    <3> QED
      BY <1>1, <2>1, <2>4, <2>6, <3>1 DEF V2!ChildOf
  <2> QED
    BY <2>1, <2>5, <2>6
<1> QED
  BY <1>3, <1>4

\* One segment of findRoute: down to a child, or the end of the way.
LEMMA StepGoesDown2 ==
  ASSUME Shape2, NEW mi \in Infos2, NEW v \in STRING
  PROVE  LET next == V2!ChildOf(mi.n, v)
             then == V2!Step(mi, v)
         IN  /\ then \in Infos2
             /\ mi.ok /\ next # {} => then.ok /\ then.n \in next
             /\ ~mi.ok \/ next = {} => ~then.ok
<1> DEFINE next == V2!ChildOf(mi.n, v)
           m == CHOOSE m \in next : TRUE
           then == V2!Step(mi, v)
<1>1. mi.n \in Seq(Segment) /\ mi.params \in Params /\ mi.ok \in BOOLEAN
      /\ DOMAIN mi = {"n", "params", "ok"}
  BY DEF Infos2
<1>2. CASE mi.ok /\ next # {}
  <2>1. m \in next
    BY <1>2
  <2>2. m \in Seq(Segment) /\ m # <<>>
    BY <1>1, <2>1, ChildOfMatches2 DEF Shape2
  <2>3. then = [mi EXCEPT !.n = m, !.params = IF V2!Last(m).kind = "param"
                                                THEN V2!Put(@, V2!Last(m).name, v) ELSE @]
    BY <1>2 DEF V2!Step
  <2> HIDE DEF m
  <2>4. V2!Last(m).kind = "param" => V2!Put(mi.params, V2!Last(m).name, v) \in Params
    <3> SUFFICES ASSUME V2!Last(m).kind = "param"
                 PROVE  V2!Put(mi.params, V2!Last(m).name, v) \in Params
      OBVIOUS
    <3>1. Last(m) \in Segment
      BY <2>2, LastIsASegment
    <3>2. V2!Last(m).name \in STRING
      BY <3>1, Words2 DEF Segment, Star
    <3>3. V2!Put(mi.params, V2!Last(m).name, v) = Put(mi.params, V2!Last(m).name, v)
      BY DEF V2!Put, Put
    <3> QED
      BY <1>1, <3>2, <3>3, PutParam
  <2>5. then.n = m /\ then.ok = mi.ok /\ DOMAIN then = {"n", "params", "ok"}
        /\ then.params \in Params
        /\ then = [n |-> then.n, params |-> then.params, ok |-> then.ok]
    BY <1>1, <2>3, <2>4
  <2> HIDE DEF then, next
  <2>6. then \in Infos2
    BY <1>1, <2>2, <2>5 DEF Infos2
  <2> QED
    BY <1>2, <2>1, <2>5, <2>6 DEF then, next
<1>3. CASE ~(mi.ok /\ next # {})
  <2>1. then = [mi EXCEPT !.ok = FALSE]
    BY <1>3 DEF V2!Step
  <2>2. then.ok = FALSE /\ then \in Infos2
    BY <1>1, <2>1 DEF Infos2
  <2> HIDE DEF then, next
  <2> QED
    BY <1>3, <2>2 DEF then, next
<1> QED
  BY <1>2, <1>3

\* Its way through the segments of a request.
Walk2(walk, request) ==
  /\ walk \in [0 .. Len(request) -> Infos2]
  /\ walk[0] = [n |-> <<>>, params |-> <<>>, ok |-> nodes2 # {}]
  /\ \A i \in 1 .. Len(request) : walk[i] = V2!Step(walk[i - 1], request[i])
  /\ V2!FindRoute(request) = walk[Len(request)]

LEMMA FindRouteWalks2 ==
  ASSUME Shape2, NEW request \in Seq(STRING)
  PROVE  \E walk : Walk2(walk, request)
<1> DEFINE n == Len(request)
           start == [n |-> <<>>, params |-> <<>>, ok |-> nodes2 # {}]
           step == [x \in Infos2 \X (1 .. n) |-> V2!Step(x[1], request[x[2]])]
           Def(walk) == [i \in 0 .. n |-> IF i = 0 THEN start ELSE V2!Step(walk[i - 1], request[i])]
           walk == CHOOSE walk : walk = Def(walk)
<1>1. n \in Nat /\ \A i \in 1 .. n : request[i] \in STRING
  BY LenProperties, ElementOfSeq
<1>2. start \in Infos2
  <2>1. <<>> \in [{} -> STRING] /\ {} \in SUBSET STRING
    OBVIOUS
  <2>2. <<>> \in Params
    BY <2>1, Zenon DEF Params
  <2>3. <<>> \in Seq(Segment)
    OBVIOUS
  <2> QED
    BY <2>2, <2>3 DEF Infos2
<1> HIDE DEF start
<1>3. PICK f : Iterates(f, Infos2, start, n, step)
  <2>1. \A x \in Infos2 \X (1 .. n) : V2!Step(x[1], request[x[2]]) \in Infos2
    BY <1>1, StepGoesDown2
  <2>2. Steps(Infos2, n, step)
    BY <2>1 DEF Steps
  <2> HIDE DEF n, step
  <2> QED
    BY <1>1, <1>2, <2>2, IterationExists
<1>4. f \in [0 .. n -> Infos2] /\ f[0] = start
      /\ \A i \in 1 .. n : f[i] = V2!Step(f[i - 1], request[i])
  <2>1. f \in [0 .. n -> Infos2] /\ f[0] = start /\ \A i \in 1 .. n : f[i] = step[<<f[i - 1], i>>]
    BY <1>3 DEF Iterates
  <2>2. \A i \in 1 .. n : f[i - 1] \in Infos2
    BY <1>1, <2>1
  <2> QED
    BY <2>1, <2>2
<1>5. f = Def(f)
  <2>1. \A i \in 0 .. n : f[i] = Def(f)[i]
    <3> TAKE i \in 0 .. n
    <3>1. i = 0 \/ (i \in 1 .. n /\ i # 0)
      BY <1>1
    <3> QED
      BY <1>4, <3>1
  <2>2. f = [i \in 0 .. n |-> f[i]] /\ Def(f) = [i \in 0 .. n |-> Def(f)[i]]
    BY <1>4
  <2> HIDE DEF Def
  <2> QED
    BY <2>1, <2>2
<1>6. walk = Def(walk)
  <2> HIDE DEF Def
  <2> QED
    BY <1>5
<1>7. V2!FindRoute(request) = walk[n]
  BY DEF V2!FindRoute, start
<1> HIDE DEF walk
<1>8. /\ walk[0] = start /\ DOMAIN walk = 0 .. n
      /\ \A i \in 1 .. n : walk[i] = V2!Step(walk[i - 1], request[i])
  <2>1. Def(walk)[0] = start /\ DOMAIN Def(walk) = 0 .. n
    BY <1>1
  <2>2. \A i \in 1 .. n : Def(walk)[i] = V2!Step(walk[i - 1], request[i])
    BY <1>1
  <2> HIDE DEF Def
  <2> QED
    BY <1>6, <2>1, <2>2
<1> DEFINE P == {i \in 0 .. n : walk[i] \in Infos2}
<1>9. 0 .. n \subseteq P
  <2>1. 0 \in P
    BY <1>1, <1>2, <1>8
  <2>2. ASSUME NEW i \in 0 .. n, i < n, i \in P PROVE i + 1 \in P
    <3> DEFINE j == i + 1
    <3>1. j \in 1 .. n /\ j \in 0 .. n /\ j - 1 = i
      BY <1>1, <2>2
    <3> HIDE DEF j
    <3>2. walk[j] \in Infos2
      BY <1>1, <1>8, <2>2, <3>1, StepGoesDown2
    <3> QED
      BY <3>1, <3>2 DEF j
  <2> HIDE DEF P
  <2> QED
    BY <1>1, <2>1, <2>2, CountUp
<1>10. walk \in [0 .. n -> Infos2]
  BY <1>8, <1>9, <1>6
<1> QED
  BY <1>7, <1>8, <1>10 DEF Walk2, start

LEMMA StartOfWalk2 ==
  ASSUME NEW walk, NEW request, Walk2(walk, request)
  PROVE  walk[0].n = <<>> /\ (walk[0].ok <=> nodes2 # {})
<1>1. walk[0] = [n |-> <<>>, params |-> <<>>, ok |-> nodes2 # {}]
  BY DEF Walk2
<1>2. walk[0].n = <<>>
  BY <1>1
<1>3. walk[0].ok = (nodes2 # {})
  <2> DEFINE b == nodes2 # {}
  <2>1. walk[0] = [n |-> <<>>, params |-> <<>>, ok |-> b]
    BY <1>1
  <2> HIDE DEF b
  <2>2. walk[0].ok = b
    BY <2>1
  <2> QED
    BY <2>2 DEF b
<1> QED
  BY <1>2, <1>3

\* As long as it goes on, the way leads through nodes that match the request so far.
LEMMA WalkMatches2 ==
  ASSUME Shape2, NEW request \in Seq(STRING), NEW walk, Walk2(walk, request),
         NEW i \in 0 .. Len(request), walk[i].ok
  PROVE  walk[i].n \in nodes2 /\ Len(walk[i].n) = i /\ V2!Begins(walk[i].n, request)
<1> DEFINE n == Len(request)
           Good(j) == /\ walk[j].n \in nodes2 /\ Len(walk[j].n) = j
                      /\ \A k \in 1 .. j : Matches2(walk[j].n[k], request[k])
           P == {j \in 0 .. n : walk[j].ok => Good(j)}
<1>1. n \in Nat /\ \A j \in 1 .. n : request[j] \in STRING
  BY LenProperties, ElementOfSeq
<1>2. 0 \in P
  <2> SUFFICES ASSUME walk[0].ok PROVE Good(0)
    BY <1>1
  <2>1. walk[0].n = <<>> /\ nodes2 # {}
    BY StartOfWalk2
  <2>2. PICK m : m \in nodes2
    BY <2>1
  <2>3. m \in Seq(Segment) /\ 0 \in 0 .. Len(m)
    BY <2>2, LenProperties DEF Shape2
  <2>4. SubSeq(m, 1, 0) \in nodes2
    BY <2>2, <2>3, BeginningsInTree DEF Shape2
  <2>5. SubSeq(m, 1, 0) = <<>>
    BY <2>3, BeginningProperties
  <2>6. Len(<<>>) = 0 /\ 1 .. 0 = {}
    OBVIOUS
  <2> QED
    BY <2>1, <2>4, <2>5, <2>6
<1>3. ASSUME NEW j \in 0 .. n, j < n, j \in P PROVE j + 1 \in P
  <2> DEFINE k == j + 1
             p == walk[j].n
             m == walk[k].n
  <2>1. k \in 1 .. n /\ k \in 0 .. n /\ k - 1 = j /\ j \in Nat /\ request[k] \in STRING
    BY <1>1, <1>3
  <2> SUFFICES ASSUME walk[k].ok PROVE Good(k)
    BY <2>1
  <2> HIDE DEF k
  <2>2. walk[j] \in Infos2 /\ walk[k] = V2!Step(walk[j], request[k])
    BY <2>1 DEF Walk2
  <2>3. walk[j].ok /\ m \in V2!ChildOf(p, request[k])
    <3> DEFINE mi == walk[j]
               v == request[k]
               next == V2!ChildOf(mi.n, v)
               then == V2!Step(mi, v)
    <3>1. mi \in Infos2 /\ v \in STRING /\ walk[k] = then
      BY <2>1, <2>2
    <3>2. (mi.ok /\ next # {} => then.ok /\ then.n \in next) /\ (~mi.ok \/ next = {} => ~then.ok)
      <4> HIDE DEF mi, v
      <4> QED
        BY <3>1, StepGoesDown2
    <3>3. next = V2!ChildOf(p, request[k]) /\ m = then.n /\ (walk[j].ok <=> mi.ok) /\ then.ok
      BY <3>1
    <3> HIDE DEF mi, next, then, m, v
    <3> QED
      BY <3>2, <3>3
  <2>4. p \in nodes2 /\ Len(p) = j /\ \A l \in 1 .. j : Matches2(p[l], request[l])
    BY <1>3, <2>3
  <2> HIDE DEF p, m
  <2>5. m \in nodes2 /\ m # <<>> /\ Front(m) = p /\ Matches2(Last(m), request[k])
    BY <2>1, <2>3, <2>4, ChildOfMatches2 DEF Shape2
  <2>6. m = Append(p, Last(m)) /\ Last(m) \in Segment /\ p \in Seq(Segment)
    BY <2>4, <2>5, ChildIsItsSegment, LastIsASegment DEF Shape2
  <2>7. Len(m) = j + 1 /\ m[j + 1] = Last(m) /\ \A l \in 1 .. j : m[l] = p[l]
    BY <2>4, <2>6, AppendedProperties
  <2>8. \A l \in 1 .. k : Matches2(m[l], request[l])
    <3> TAKE l \in 1 .. k
    <3>1. l \in 1 .. j \/ l = k
      BY <2>1 DEF k
    <3>2. CASE l \in 1 .. j
      BY <2>4, <2>7, <3>2
    <3>3. CASE l = k
      BY <2>5, <2>7, <3>3 DEF k
    <3> QED
      BY <3>1, <3>2, <3>3
  <2> QED
    BY <2>5, <2>7, <2>8 DEF k, m
<1>4. Good(i)
  <2> HIDE DEF Good
  <2>1. 0 .. n \subseteq P
    <3> HIDE DEF P, n
    <3> QED
      BY <1>1, <1>2, <1>3, CountUp
  <2> QED
    BY <2>1
<1>5. DOMAIN walk[i].n = 1 .. i
  BY <1>4, LenProperties DEF Shape2
<1>6. \A v : V2!Static(v) = Static(v)
  BY DEF V2!Static, Static
<1> QED
  BY <1>1, <1>4, <1>5, <1>6 DEF V2!Begins, Matches2

\* Where the way leaves a node that the request leads to, a static segment takes it away.
LEMMA WalkIsShadowed2 ==
  ASSUME Shape2, NEW request \in Seq(STRING), NEW walk, Walk2(walk, request),
         NEW n \in nodes2, V2!Begins(n, request), Len(n) = Len(request),
         ~(walk[Len(request)].ok /\ walk[Len(request)].n = n)
  PROVE  \E m \in nodes2, i \in DOMAIN n :
           /\ i \in DOMAIN m /\ V2!Begins(m, request)
           /\ SubSeq(m, 1, i - 1) = SubSeq(n, 1, i - 1)
           /\ m[i].kind = "static" /\ n[i].kind # "static"
<1> DEFINE l == Len(request)
           P == {i \in 0 .. l : walk[i].ok /\ walk[i].n = SubSeq(n, 1, i)}
<1>1. l \in Nat /\ \A j \in 1 .. l : request[j] \in STRING
  BY LenProperties, ElementOfSeq
<1>2. n \in Seq(Segment) /\ DOMAIN n = 1 .. l /\ SubSeq(n, 1, l) = n
  BY LenProperties, SubSeqFull DEF Shape2
<1>3. \A v : V2!Static(v) = Static(v)
  BY DEF V2!Static, Static
<1>4. \A j \in 1 .. l : Matches2(n[j], request[j])
  BY <1>2, <1>3 DEF V2!Begins, Matches2
<1>5. 0 \in P
  <2>1. walk[0].ok /\ walk[0].n = <<>>
    BY StartOfWalk2
  <2>2. 0 \in 0 .. Len(n) /\ 0 \in 0 .. l
    BY <1>1
  <2>3. SubSeq(n, 1, 0) = <<>>
    BY <1>2, <2>2, BeginningProperties
  <2> QED
    BY <2>1, <2>2, <2>3
<1>6. l \notin P
  BY <1>2
<1>7. PICK i \in 0 .. l : i < l /\ i \in P /\ i + 1 \notin P
  <2> HIDE DEF P, l
  <2>1. ~(0 .. l \subseteq P)
    BY <1>1, <1>6
  <2> QED
    BY <1>1, <1>5, <2>1, CountUp
<1> DEFINE k == i + 1
           v == request[k]
           p == SubSeq(n, 1, i)
           c == SubSeq(n, 1, k)
           m == Append(p, Static(v))
<1>8. k \in 1 .. l /\ k \in 0 .. l /\ k - 1 = i /\ v \in STRING /\ i \in Nat /\ k \in 0 .. Len(n)
      /\ i \in 0 .. Len(n)
  BY <1>1, <1>7
<1>9. walk[i].ok /\ walk[i].n = p /\ ~(walk[k].ok /\ walk[k].n = c)
  BY <1>7, <1>8
<1> HIDE DEF k
<1>10. /\ c \in nodes2 /\ c # <<>> /\ Last(c) = n[k] /\ Front(c) = p
       /\ p \in Seq(Segment) /\ Len(p) = i
  <2>1. c \in nodes2
    BY <1>8, BeginningsInTree DEF Shape2
  <2>2. k > 0 /\ k - 1 = i
    BY <1>8
  <2>3. c # <<>> /\ Last(c) = n[k] /\ Front(c) = SubSeq(n, 1, k - 1)
    BY <1>2, <1>8, <2>2, BeginningProperties
  <2>4. p \in Seq(Segment) /\ Len(p) = i
    BY <1>2, <1>8, BeginningProperties
  <2> QED
    BY <2>1, <2>2, <2>3, <2>4
<1>11. V2!ChildOf(p, v) # {c}
  <2>1. walk[i] \in Infos2 /\ walk[k] = V2!Step(walk[i], v)
    BY <1>8 DEF Walk2
  <2> HIDE DEF p, c, v
  <2> SUFFICES ASSUME V2!ChildOf(p, v) = {c} PROVE FALSE
    OBVIOUS
  <2>2. walk[k].ok /\ walk[k].n \in V2!ChildOf(p, v)
    BY <1>8, <1>9, <2>1, StepGoesDown2
  <2> QED
    BY <1>9, <2>2
<1>12. Matches2(n[k], v) /\ n[k] # Static(v) /\ m \in nodes2
  <2>1. Matches2(n[k], v)
    BY <1>4, <1>8
  <2> HIDE DEF c, p, v, m
  <2>2. V2!ChildOf(Front(c), v) # {c} /\ Matches2(Last(c), v)
    BY <1>10, <1>11, <2>1
  <2> QED
    BY <1>8, <1>10, <2>1, <2>2, ChildOfIsUnique2 DEF m
<1>13. /\ m \in Seq(Segment) /\ Len(m) = k /\ DOMAIN m = 1 .. k /\ Front(m) = p
       /\ m[k] = Static(v) /\ \A j \in 1 .. i : m[j] = p[j]
  <2>1. Static(v) \in Segment /\ Len(p) + 1 = k
    BY <1>8, <1>10 DEF Static, Segment, k
  <2> HIDE DEF p, v
  <2> QED
    BY <1>10, <2>1, AppendedProperties
<1>14. SubSeq(m, 1, k - 1) = p
  BY <1>13 DEF Front
<1>15. \A j \in 1 .. i : p[j] = n[j]
  <2> TAKE j \in 1 .. i
  <2>1. /\ p \in Seq(Segment) /\ \A q \in 1 .. i - 1 + 1 : p[q] = n[1 + q - 1]
    <3>1. \A q \in 1 .. i : n[q] \in Segment
      BY <1>2, <1>8, ElementOfSeq
    <3> QED
      BY <1>2, <1>8, <3>1, SubSeqProperties
  <2>2. j \in 1 .. i - 1 + 1 /\ 1 + j - 1 = j
    BY <1>8
  <2> HIDE DEF p
  <2> QED
    BY <2>1, <2>2
<1>16. V2!Begins(m, request)
  <2>1. k <= l
    BY <1>8
  <2>2. \A j \in 1 .. k : m[j] = Static(request[j]) \/ m[j].kind \in {"param", "star"}
    <3> TAKE j \in 1 .. k
    <3>1. j = k \/ (j \in 1 .. i /\ j \in 1 .. l)
      BY <1>8
    <3>2. CASE j = k
      BY <1>13, <3>2
    <3>3. CASE j \in 1 .. i /\ j \in 1 .. l
      BY <1>4, <1>13, <1>15, <3>3 DEF Matches2
    <3> QED
      BY <3>1, <3>2, <3>3
  <2> QED
    BY <1>3, <1>13, <2>1, <2>2 DEF V2!Begins
<1>17. m[k].kind = "static" /\ n[k].kind # "static"
  <2>1. Static(v).kind = "static"
    BY DEF Static
  <2>2. n[k].kind \in {"param", "star"}
    BY <1>12 DEF Matches2
  <2> QED
    BY <1>13, <2>1, <2>2
<1>18. k \in DOMAIN n /\ k \in DOMAIN m /\ SubSeq(m, 1, k - 1) = SubSeq(n, 1, k - 1)
  BY <1>2, <1>8, <1>13, <1>14
<1> HIDE DEF m
<1> QED
  BY <1>12, <1>16, <1>17, <1>18

LEMMA DispatchInv2 ==
  ASSUME IInv2, \A request \in Requests : request \in Seq(STRING)
  PROVE  V2!Dispatch
<1>1. V2!OneWildChild
  BY Words2 DEF IInv2, Shape2, OneWild, V2!OneWildChild
<1>2. ASSUME NEW request \in Requests
      PROVE  LET served == V2!Serve(request) IN
             /\ served.handler # 0 =>
                  V2!Begins(served.route, request) /\ Len(served.route) = Len(request)
             /\ \A n \in DOMAIN handler2 :
                  V2!Begins(n, request) /\ Len(n) = Len(request)
                    /\ served.handler # handler2[n] =>
                  \E m \in nodes2, i \in DOMAIN n :
                    /\ i \in DOMAIN m /\ V2!Begins(m, request)
                    /\ SubSeq(m, 1, i - 1) = SubSeq(n, 1, i - 1)
                    /\ m[i].kind = "static" /\ n[i].kind # "static"
  <2> DEFINE served == V2!Serve(request)
             mi == V2!FindRoute(request)
  <2>1. request \in Seq(STRING) /\ Shape2 /\ DOMAIN handler2 \subseteq nodes2
    BY DEF IInv2, V2!TypeOK
  <2>2. PICK walk : Walk2(walk, request)
    BY <2>1, FindRouteWalks2
  <2>3. mi = walk[Len(request)] /\ Len(request) \in 0 .. Len(request)
    BY <2>1, <2>2, LenProperties DEF Walk2
  <2>4. served = IF ~mi.ok \/ mi.n \notin DOMAIN handler2
                   THEN [handler |-> 0, route |-> <<>>, mdls |-> <<>>]
                   ELSE [handler |-> handler2[mi.n], route |-> mi.n, mdls |-> V2!FindMdls(request)]
    BY DEF V2!Serve
  <2> HIDE DEF served, mi
  <2>5. ASSUME served.handler # 0
        PROVE  V2!Begins(served.route, request) /\ Len(served.route) = Len(request)
    <3>1. mi.ok /\ served.route = mi.n
      BY <2>4, <2>5
    <3> QED
      BY <2>1, <2>2, <2>3, <3>1, WalkMatches2
  <2>6. ASSUME NEW n \in DOMAIN handler2, V2!Begins(n, request), Len(n) = Len(request),
               served.handler # handler2[n]
        PROVE  \E m \in nodes2, i \in DOMAIN n :
                 /\ i \in DOMAIN m /\ V2!Begins(m, request)
                 /\ SubSeq(m, 1, i - 1) = SubSeq(n, 1, i - 1)
                 /\ m[i].kind = "static" /\ n[i].kind # "static"
    <3>1. ~(mi.ok /\ mi.n = n)
      BY <2>4, <2>6
    <3> QED
      BY <2>1, <2>2, <2>3, <2>6, <3>1, WalkIsShadowed2
  <2> QED
    BY <2>5, <2>6 DEF served
<1> QED
  BY <1>1, <1>2 DEF V2!Dispatch

\* A set of at most one element, as a sequence.
LEMMA FewInSequence ==
  ASSUME NEW S, NEW A \in SUBSET S, \A x, y \in A : x = y
  PROVE  LET s == V2!SetToSeq(A) IN
         /\ s \in Seq(S) /\ \A k, l \in 1 .. Len(s) : k = l
         /\ \A x : x \in A <=> \E k \in 1 .. Len(s) : s[k] = x
<1> DEFINE s == V2!SetToSeq(A)
<1>1. s = SetToSeq(A)
  <2>1. V2!Cardinality(A) = Cardinality(A)
    BY Zenon DEF V2!Cardinality, Cardinality
  <2>2. \A f : V2!IsInjective(f) <=> IsInjective(f)
    BY DEF V2!IsInjective, IsInjective
  <2> QED
    BY <2>1, <2>2, Zenon DEF V2!SetToSeq, SetToSeq
<1>2. CASE A = {}
  <2>1. Cardinality(A) = 0
    BY <1>2, FS_EmptySet
  <2>2. \A f \in [1 .. 0 -> A] : f = <<>> /\ IsInjective(f)
    BY DEF IsInjective
  <2>3. <<>> \in [1 .. Cardinality(A) -> A]
    BY <2>1
  <2>4. \E f \in [1 .. Cardinality(A) -> A] : IsInjective(f)
    BY <2>1, <2>2, <2>3
  <2>5. s \in [1 .. Cardinality(A) -> A]
    BY <1>1, <2>4, Zenon DEF SetToSeq
  <2>6. s = <<>>
    BY <2>1, <2>2, <2>5
  <2>7. <<>> \in Seq(S) /\ Len(<<>>) = 0 /\ 1 .. 0 = {}
    OBVIOUS
  <2> QED
    BY <1>2, <2>6, <2>7
<1>3. CASE A # {}
  <2>1. PICK x \in S : A = {x}
    BY <1>3
  <2>2. Cardinality(A) = 1
    BY <2>1, FS_Singleton
  <2>3. \A f \in [1 .. 1 -> A] : f = <<x>> /\ IsInjective(f)
    BY <2>1 DEF IsInjective
  <2>4. <<x>> \in [1 .. 1 -> A]
    BY <2>1
  <2>5. \E f \in [1 .. Cardinality(A) -> A] : IsInjective(f)
    BY <2>2, <2>3, <2>4
  <2>6. s \in [1 .. Cardinality(A) -> A]
    BY <1>1, <2>5, Zenon DEF SetToSeq
  <2>7. s = <<x>>
    BY <2>2, <2>3, <2>6
  <2> HIDE DEF s
  <2>8. s \in Seq(S) /\ Len(s) = 1 /\ s[1] = x
    BY <2>7
  <2>9. \A k \in 1 .. 1 : k = 1
    OBVIOUS
  <2>10. 1 \in 1 .. Len(s)
    BY <2>8
  <2>11. \A k \in 1 .. Len(s) : k = 1
    BY <2>8, <2>9
  <2>12. \A y : y \in A <=> \E k \in 1 .. Len(s) : s[k] = y
    <3>1. \A y : y \in A <=> y = x
      BY <2>1
    <3> QED
      BY <2>8, <2>10, <2>11, <3>1
  <2> QED
    BY <2>8, <2>11, <2>12 DEF s
<1> QED
  BY <1>2, <1>3

\* The nodes that findMdls visits after n: its children that match, each once.
LEMMA VisitedChildren ==
  ASSUME Shape2, NEW n \in nodes2, NEW v \in STRING
  PROVE  LET s == V2!Visited(n, v) IN
         /\ s \in Seq(nodes2)
         /\ \A m : (\E k \in 1 .. Len(s) : s[k] = m) <=>
                     m \in nodes2 /\ m # <<>> /\ Front(m) = n /\ Matches2(Last(m), v)
         /\ \A k, l \in 1 .. Len(s) : s[k] = s[l] => k = l
<1> DEFINE star == V2!KidsOf(n, "star")
           param == V2!KidsOf(n, "param")
           c == Append(n, Static(v))
           a == V2!SetToSeq(star)
           b == V2!SetToSeq(param)
           d == IF c \in nodes2 THEN <<c>> ELSE <<>>
           s == V2!Visited(n, v)
<1>1. s = a \o b \o d
  BY DEF V2!Visited, V2!Static, Static
<1>2. \A m : m \in star <=> m \in nodes2 /\ m # <<>> /\ Front(m) = n /\ Last(m).kind = "star"
  BY Words2
<1>3. \A m : m \in param <=> m \in nodes2 /\ m # <<>> /\ Front(m) = n /\ Last(m).kind = "param"
  BY Words2
<1>4. c \in nodes2 => c # <<>> /\ Front(c) = n /\ Last(c) = Static(v)
  <2>1. n \in Seq(Segment) /\ Static(v) \in Segment
    <3>1. Static(v) \in Segment
      BY DEF Static, Segment
    <3> QED
      BY <3>1 DEF Shape2
  <2> DEFINE t == Static(v)
  <2> HIDE DEF t
  <2>2. t \in Segment
    BY <2>1 DEF t
  <2>3. Append(n, t) # <<>> /\ Front(Append(n, t)) = n /\ Last(Append(n, t)) = t
    BY <2>1, <2>2, AppendedProperties
  <2> QED
    BY <2>3 DEF t
<1>5. \A m \in nodes2 : m # <<>> /\ Front(m) = n /\ Last(m) = Static(v) => m = c
  BY ChildIsItsSegment DEF Shape2
<1> HIDE DEF star, param, c
<1>6. \A x, y \in star : x = y
  BY <1>2 DEF Shape2, OneWild
<1>7. \A x, y \in param : x = y
  BY <1>3 DEF Shape2, OneWild
<1>8. /\ a \in Seq(nodes2) /\ \A k, l \in 1 .. Len(a) : k = l
      /\ \A m : m \in star <=> \E k \in 1 .. Len(a) : a[k] = m
  BY <1>2, <1>6, FewInSequence
<1>9. /\ b \in Seq(nodes2) /\ \A k, l \in 1 .. Len(b) : k = l
      /\ \A m : m \in param <=> \E k \in 1 .. Len(b) : b[k] = m
  BY <1>3, <1>7, FewInSequence
<1>10. /\ d \in Seq(nodes2) /\ \A k, l \in 1 .. Len(d) : k = l
       /\ \A m : m \in {c} \cap nodes2 <=> \E k \in 1 .. Len(d) : d[k] = m
  <2>1. CASE c \in nodes2
    <3>1. d = <<c>> /\ d \in Seq(nodes2) /\ Len(d) = 1 /\ d[1] = c
      BY <2>1
    <3>2. 1 \in 1 .. Len(d) /\ \A k \in 1 .. Len(d) : k = 1
      BY <3>1
    <3> HIDE DEF d
    <3> QED
      BY <2>1, <3>1, <3>2
  <2>2. CASE c \notin nodes2
    <3>1. d \in Seq(nodes2) /\ 1 .. Len(d) = {}
      BY <2>2
    <3> HIDE DEF d
    <3> QED
      BY <2>2, <3>1
  <2> QED
    BY <2>1, <2>2
<1> HIDE DEF a, b, d, s
<1>11. Len(a) \in Nat /\ Len(b) \in Nat /\ Len(d) \in Nat
  BY <1>8, <1>9, <1>10, LenProperties
<1>12. s \in Seq(nodes2) /\ Len(s) = Len(a) + Len(b) + Len(d)
  BY <1>1, <1>8, <1>9, <1>10
<1>13. \A k \in 1 .. Len(s) :
         s[k] = IF k <= Len(a) THEN a[k]
                ELSE IF k <= Len(a) + Len(b) THEN b[k - Len(a)] ELSE d[k - Len(a) - Len(b)]
  BY <1>1, <1>8, <1>9, <1>10, <1>11, <1>12
\* Where an element of s is from.
<1>14. ASSUME NEW k \in 1 .. Len(s)
       PROVE  \/ k \in 1 .. Len(a) /\ s[k] = a[k] /\ s[k] \in star
              \/ k - Len(a) \in 1 .. Len(b) /\ s[k] = b[k - Len(a)] /\ s[k] \in param
              \/ /\ k - Len(a) - Len(b) \in 1 .. Len(d) /\ s[k] = d[k - Len(a) - Len(b)]
                 /\ s[k] \in {c} \cap nodes2
  <2>1. \/ k \in 1 .. Len(a) /\ k <= Len(a)
        \/ k - Len(a) \in 1 .. Len(b) /\ k <= Len(a) + Len(b) /\ ~(k <= Len(a))
        \/ k - Len(a) - Len(b) \in 1 .. Len(d) /\ ~(k <= Len(a)) /\ ~(k <= Len(a) + Len(b))
    BY <1>11, <1>12
  <2> QED
    BY <1>8, <1>9, <1>10, <1>13, <2>1
<1>15. \A m : m \in star \cup param \cup ({c} \cap nodes2) => \E k \in 1 .. Len(s) : s[k] = m
  <2> SUFFICES ASSUME NEW m, m \in star \cup param \cup ({c} \cap nodes2)
               PROVE  \E k \in 1 .. Len(s) : s[k] = m
    OBVIOUS
  <2>1. CASE m \in star
    <3>1. PICK k \in 1 .. Len(a) : a[k] = m
      BY <1>8, <2>1
    <3>2. k \in 1 .. Len(s) /\ k <= Len(a)
      BY <1>11, <1>12
    <3> QED
      BY <1>13, <3>1, <3>2
  <2>2. CASE m \in param
    <3>1. PICK j \in 1 .. Len(b) : b[j] = m
      BY <1>9, <2>2
    <3> DEFINE k == Len(a) + j
    <3>2. k \in 1 .. Len(s) /\ ~(k <= Len(a)) /\ k <= Len(a) + Len(b) /\ k - Len(a) = j
      BY <1>11, <1>12
    <3> HIDE DEF k
    <3> QED
      BY <1>13, <3>1, <3>2
  <2>3. CASE m \in {c} \cap nodes2
    <3>1. PICK j \in 1 .. Len(d) : d[j] = m
      BY <1>10, <2>3
    <3> DEFINE k == Len(a) + Len(b) + j
    <3>2. k \in 1 .. Len(s) /\ ~(k <= Len(a)) /\ ~(k <= Len(a) + Len(b))
          /\ k - Len(a) - Len(b) = j
      BY <1>11, <1>12
    <3> HIDE DEF k
    <3> QED
      BY <1>13, <3>1, <3>2
  <2> QED
    BY <2>1, <2>2, <2>3
<1>16. \A m : m \in star \cup param \cup ({c} \cap nodes2) <=>
                m \in nodes2 /\ m # <<>> /\ Front(m) = n /\ Matches2(Last(m), v)
  BY <1>2, <1>3, <1>4, <1>5 DEF Matches2
<1>17. \A m : (\E k \in 1 .. Len(s) : s[k] = m) <=>
                m \in nodes2 /\ m # <<>> /\ Front(m) = n /\ Matches2(Last(m), v)
  BY <1>14, <1>15, <1>16
<1>18. ASSUME NEW k \in 1 .. Len(s), NEW l \in 1 .. Len(s), s[k] = s[l] PROVE k = l
  <2>1. \A x : ~(x \in star /\ x \in param)
    BY <1>2, <1>3
  <2>2. \A x : ~(x \in star \cup param /\ x \in {c} \cap nodes2)
    <3>1. Static(v).kind = "static"
      BY DEF Static
    <3> QED
      BY <1>2, <1>3, <1>4, <3>1
  <2>3. \/ k \in 1 .. Len(a) /\ l \in 1 .. Len(a)
        \/ k - Len(a) \in 1 .. Len(b) /\ l - Len(a) \in 1 .. Len(b)
        \/ k - Len(a) - Len(b) \in 1 .. Len(d) /\ l - Len(a) - Len(b) \in 1 .. Len(d)
    BY <1>14, <1>18, <2>1, <2>2
  <2>4. k = l \/ k - Len(a) = l - Len(a) \/ k - Len(a) - Len(b) = l - Len(a) - Len(b)
    BY <1>8, <1>9, <1>10, <2>3
  <2> QED
    BY <1>11, <2>4
<1> QED
  BY <1>12, <1>17, <1>18 DEF s

\* The queue of findMdls after i segments: the nodes at that depth that match, each once.
Leads2(m, i, request) ==
  m \in nodes2 /\ Len(m) = i /\ \A j \in 1 .. i : Matches2(m[j], request[j])

Level2(q, i, request) ==
  /\ q \in Seq(nodes2)
  /\ \A m : (\E k \in 1 .. Len(q) : q[k] = m) <=> Leads2(m, i, request)
  /\ \A k, l \in 1 .. Len(q) : q[k] = q[l] => k = l

\* What follows a queue lists the children of its nodes.
LEMMA AfterLists ==
  ASSUME Shape2, NEW q \in Seq(nodes2), NEW v \in STRING
  PROVE  /\ V2!After(q, v) \in Seq(nodes2)
         /\ \E row, col : Lists(V2!After(q, v), [j \in 1 .. Len(q) |-> V2!Visited(q[j], v)],
                                Len(q), row, col)
<1> DEFINE ss == [j \in 1 .. Len(q) |-> V2!Visited(q[j], v)]
<1>1. Len(q) \in Nat /\ DOMAIN q = 1 .. Len(q) /\ \A j \in 1 .. Len(q) : q[j] \in nodes2
  BY LenProperties, ElementOfSeq
<1>2. \A j \in 1 .. Len(q) : V2!Visited(q[j], v) \in Seq(nodes2)
  BY <1>1, VisitedChildren
<1>3. ss \in [1 .. Len(q) -> Seq(nodes2)]
  BY <1>2
<1>4. V2!After(q, v) = FlattenSeq(ss)
  BY <1>1 DEF V2!After, V2!FlattenSeq, FlattenSeq
<1> HIDE DEF ss
<1>5. FlattenSeq(ss) \in Seq(nodes2) /\ \E row, col : Lists(FlattenSeq(ss), ss, Len(q), row, col)
  BY <1>1, <1>3, FlattenLists
<1> QED
  BY <1>4, <1>5 DEF ss

LEMMA AfterIsNextLevel ==
  ASSUME Shape2, NEW request \in Seq(STRING), NEW i \in 1 .. Len(request),
         NEW q, Level2(q, i - 1, request)
  PROVE  Level2(V2!After(q, request[i]), i, request)
<1> DEFINE v == request[i]
           ss == [j \in 1 .. Len(q) |-> V2!Visited(q[j], v)]
           F == V2!After(q, v)
<1>1. v \in STRING /\ i \in Nat /\ q \in Seq(nodes2)
  BY ElementOfSeq DEF Level2
<1>2. \A j \in 1 .. Len(q) : q[j] \in nodes2
  BY <1>1, ElementOfSeq
<1>3. F \in Seq(nodes2) /\ \E row, col : Lists(F, ss, Len(q), row, col)
  BY <1>1, AfterLists
<1>4. PICK row, col : Lists(F, ss, Len(q), row, col)
  BY <1>3
<1> HIDE DEF v
<1>5. \A j \in 1 .. Len(q) :
        /\ \A m : (\E k \in 1 .. Len(ss[j]) : ss[j][k] = m) <=>
                    m \in nodes2 /\ m # <<>> /\ Front(m) = q[j] /\ Matches2(Last(m), v)
        /\ \A k, l \in 1 .. Len(ss[j]) : ss[j][k] = ss[j][l] => k = l
  <2> TAKE j \in 1 .. Len(q)
  <2> DEFINE n == q[j]
             s == V2!Visited(n, v)
  <2>1. ss[j] = s /\ n \in nodes2
    BY <1>2
  <2> HIDE DEF n, ss
  <2>2. /\ \A m : (\E k \in 1 .. Len(s) : s[k] = m) <=>
                   m \in nodes2 /\ m # <<>> /\ Front(m) = n /\ Matches2(Last(m), v)
        /\ \A k, l \in 1 .. Len(s) : s[k] = s[l] => k = l
    BY <1>1, <2>1, VisitedChildren DEF v
  <2> HIDE DEF s
  <2> QED
    BY <2>1, <2>2 DEF n
<1> HIDE DEF ss, F
<1>6. \A k \in 1 .. Len(F) :
        /\ row[k] \in 1 .. Len(q) /\ col[k] \in 1 .. Len(ss[row[k]]) /\ F[k] = ss[row[k]][col[k]]
        /\ F[k] \in nodes2 /\ F[k] # <<>> /\ Front(F[k]) = q[row[k]] /\ Matches2(Last(F[k]), v)
  <2> TAKE k \in 1 .. Len(F)
  <2>1. row[k] \in 1 .. Len(q) /\ col[k] \in 1 .. Len(ss[row[k]]) /\ F[k] = ss[row[k]][col[k]]
    BY <1>4 DEF Lists
  <2> QED
    BY <1>5, <2>1
\* The children of the nodes that lead there lead one segment further.
<1>7. \A m : Leads2(m, i, request) <=>
               m \in nodes2 /\ m # <<>> /\ Leads2(Front(m), i - 1, request) /\ Matches2(Last(m), v)
  <2> SUFFICES ASSUME NEW m \in nodes2
               PROVE  Leads2(m, i, request) <=>
                        m # <<>> /\ Leads2(Front(m), i - 1, request) /\ Matches2(Last(m), v)
    BY DEF Leads2
  <2>1. CASE m = <<>>
    <3>1. Len(m) # i
      BY <1>1, <2>1
    <3> QED
      BY <2>1, <3>1 DEF Leads2
  <2>2. CASE m # <<>>
    <3> DEFINE p == Front(m)
    <3>1. p \in nodes2 /\ p \in Seq(Segment) /\ m = Append(p, Last(m)) /\ Last(m) \in Segment
      BY <2>2, ChildIsItsSegment, LastIsASegment DEF Shape2, Closed
    <3> HIDE DEF p
    <3>2. Len(m) = Len(p) + 1 /\ m[Len(p) + 1] = Last(m) /\ \A j \in 1 .. Len(p) : m[j] = p[j]
      BY <3>1, AppendedProperties
    <3>3. Len(p) \in Nat
      BY <3>1, LenProperties
    <3>4. CASE Len(p) = i - 1
      <4>1. Len(m) = i /\ m[i] = Last(m) /\ \A j \in 1 .. i - 1 : m[j] = p[j]
        BY <1>1, <3>2, <3>4
      <4>2. \A j : j \in 1 .. i <=> j \in 1 .. i - 1 \/ j = i
        BY <1>1
      <4>3. (\A j \in 1 .. i : Matches2(m[j], request[j])) <=>
              (\A j \in 1 .. i - 1 : Matches2(p[j], request[j])) /\ Matches2(Last(m), v)
        BY <4>1, <4>2 DEF v
      <4> QED
        BY <2>2, <3>1, <3>4, <4>1, <4>3 DEF Leads2, p
    <3>5. CASE Len(p) # i - 1
      <4>1. Len(m) # i
        BY <1>1, <3>2, <3>3, <3>5
      <4> QED
        BY <3>5, <4>1 DEF Leads2, p
    <3> QED
      BY <3>4, <3>5
  <2> QED
    BY <2>1, <2>2
<1>8. ASSUME NEW m PROVE (\E k \in 1 .. Len(F) : F[k] = m) <=> Leads2(m, i, request)
  <2>1. ASSUME NEW k \in 1 .. Len(F), F[k] = m PROVE Leads2(m, i, request)
    <3>1. Leads2(q[row[k]], i - 1, request)
      BY <1>6 DEF Level2
    <3> QED
      BY <1>6, <1>7, <2>1, <3>1
  <2>2. ASSUME Leads2(m, i, request) PROVE \E k \in 1 .. Len(F) : F[k] = m
    <3>1. m \in nodes2 /\ m # <<>> /\ Leads2(Front(m), i - 1, request) /\ Matches2(Last(m), v)
      BY <1>7, <2>2
    <3>2. PICK j \in 1 .. Len(q) : q[j] = Front(m)
      BY <3>1 DEF Level2
    <3>3. PICK c \in 1 .. Len(ss[j]) : ss[j][c] = m
      BY <1>5, <3>1, <3>2
    <3>4. PICK k \in 1 .. Len(F) : row[k] = j /\ col[k] = c
      BY <1>4 DEF Lists
    <3> QED
      BY <1>6, <3>3, <3>4
  <2> QED
    BY <2>1, <2>2
<1>9. ASSUME NEW k \in 1 .. Len(F), NEW l \in 1 .. Len(F), F[k] = F[l] PROVE k = l
  <2>1. q[row[k]] = q[row[l]]
    BY <1>6, <1>9
  <2>2. row[k] = row[l]
    BY <1>6, <2>1 DEF Level2
  <2>3. col[k] = col[l]
    <3> DEFINE t == ss[row[k]]
    <3>1. \A a, b \in 1 .. Len(t) : t[a] = t[b] => a = b
      BY <1>5, <1>6
    <3>2. /\ col[k] \in 1 .. Len(t) /\ F[k] = t[col[k]]
          /\ col[l] \in 1 .. Len(t) /\ F[l] = t[col[l]]
      BY <1>6, <2>2
    <3> HIDE DEF t
    <3> QED
      BY <1>9, <3>1, <3>2
  <2>4. Len(F) \in Nat /\ row[k] \in Int /\ col[k] \in Int
    <3>1. Len(F) \in Nat
      BY <1>3, LenProperties
    <3>2. row[k] \in 1 .. Len(q)
      BY <1>6
    <3>3. col[k] \in Nat
      BY <1>4 DEF Lists
    <3> QED
      BY <3>1, <3>2, <3>3
  <2>5. ~(k < l)
    BY <1>4, <2>2, <2>3, <2>4 DEF Lists
  <2>6. ~(l < k)
    BY <1>4, <2>2, <2>3, <2>4 DEF Lists
  <2> QED
    BY <2>4, <2>5, <2>6
<1> QED
  BY <1>3, <1>8, <1>9 DEF Level2, F, v

\* The queues of findMdls, one after the other.
Queues2(queue, request) ==
  /\ queue[0] = <<(<<>>)>>
  /\ \A i \in 1 .. Len(request) : queue[i] = V2!After(queue[i - 1], request[i])

\* The nodes that findMdls visits: those whose path matches the beginning of the request,
\* each once, the shorter ones first.
VisitedNodes(res, request) ==
  /\ res \in Seq(nodes2)
  /\ \A m : (\E k \in 1 .. Len(res) : res[k] = m) <=> m \in nodes2 /\ V2!Begins(m, request)
  /\ \A k, l \in 1 .. Len(res) :
       k < l => Len(res[k]) < Len(res[l]) \/ (Len(res[k]) = Len(res[l]) /\ res[k] # res[l])

LEMMA LevelsOfQueues ==
  ASSUME Shape2, nodes2 # {}, NEW request \in Seq(STRING), NEW queue, Queues2(queue, request),
         NEW i \in 0 .. Len(request)
  PROVE  Level2(queue[i], i, request)
<1> DEFINE n == Len(request)
           P == {j \in 0 .. n : Level2(queue[j], j, request)}
<1>1. n \in Nat
  BY LenProperties
<1>2. Level2(queue[0], 0, request)
  <2> DEFINE q == queue[0]
  <2>1. <<>> \in nodes2
    <3>1. PICK m : m \in nodes2
      OBVIOUS
    <3>2. m \in Seq(Segment) /\ 0 \in 0 .. Len(m)
      BY <3>1, LenProperties DEF Shape2
    <3>3. SubSeq(m, 1, 0) \in nodes2
      BY <3>1, <3>2, BeginningsInTree DEF Shape2
    <3>4. SubSeq(m, 1, 0) = <<>>
      BY <3>2, BeginningProperties
    <3> QED
      BY <3>3, <3>4
  <2>2. q \in Seq(nodes2) /\ Len(q) = 1 /\ q[1] = <<>>
    BY <2>1 DEF Queues2
  <2> HIDE DEF q
  <2>3. 1 \in 1 .. Len(q) /\ \A k \in 1 .. Len(q) : k = 1
    BY <2>2
  <2>4. \A m : Leads2(m, 0, request) <=> m = <<>>
    <3>1. Len(<<>>) = 0 /\ 1 .. 0 = {}
      OBVIOUS
    <3>2. \A m \in nodes2 : Len(m) = 0 => m = <<>>
      BY EmptySeq DEF Shape2
    <3> QED
      BY <2>1, <3>1, <3>2 DEF Leads2
  <2>5. \A m : (\E k \in 1 .. Len(q) : q[k] = m) <=> Leads2(m, 0, request)
    BY <2>2, <2>3, <2>4
  <2> QED
    BY <2>2, <2>3, <2>5 DEF Level2, q
<1>3. ASSUME NEW j \in 0 .. n, j < n, j \in P PROVE j + 1 \in P
  <2> DEFINE k == j + 1
  <2>1. k \in 1 .. n /\ k \in 0 .. n /\ k - 1 = j
    BY <1>1, <1>3
  <2> HIDE DEF k
  <2>2. Level2(V2!After(queue[j], request[k]), k, request)
    BY <1>3, <2>1, AfterIsNextLevel
  <2>3. queue[k] = V2!After(queue[j], request[k])
    BY <2>1 DEF Queues2
  <2> QED
    BY <2>1, <2>2, <2>3 DEF k
<1> QED
  <2>1. 0 \in P
    BY <1>1, <1>2
  <2>2. 0 .. n \subseteq P
    <3> HIDE DEF P, n
    <3> QED
      BY <1>1, <1>3, <2>1, CountUp
  <2> QED
    BY <2>2

\* The queues together.
LEMMA QueuesVisit ==
  ASSUME Shape2, nodes2 # {}, NEW request \in Seq(STRING), NEW queue, Queues2(queue, request)
  PROVE  VisitedNodes(FlattenSeq([i \in 1 .. Len(request) + 1 |-> queue[i - 1]]), request)
<1> DEFINE n == Len(request) + 1
           ss == [i \in 1 .. n |-> queue[i - 1]]
           F == FlattenSeq(ss)
<1>1. n \in Nat /\ Len(request) \in Nat /\ \A i \in 1 .. n : i - 1 \in 0 .. Len(request) /\ i \in Nat
  BY LenProperties
<1>2. \A i \in 1 .. n : ss[i] = queue[i - 1] /\ Level2(ss[i], i - 1, request)
  BY <1>1, LevelsOfQueues
<1>3. ss \in [1 .. n -> Seq(nodes2)]
  <2>1. \A i \in 1 .. n : ss[i] \in Seq(nodes2)
    BY <1>2 DEF Level2
  <2>2. ss = [i \in 1 .. n |-> ss[i]]
    OBVIOUS
  <2> HIDE DEF ss
  <2> QED
    BY <2>1, <2>2
<1> HIDE DEF ss
<1>4. F \in Seq(nodes2) /\ \E row, col : Lists(F, ss, n, row, col)
  <2> HIDE DEF n
  <2> QED
    BY <1>1, <1>3, FlattenLists
<1>5. PICK row, col : Lists(F, ss, n, row, col)
  BY <1>4
<1> HIDE DEF F
<1>6. \A k \in 1 .. Len(F) :
        /\ row[k] \in 1 .. n /\ col[k] \in 1 .. Len(ss[row[k]]) /\ F[k] = ss[row[k]][col[k]]
        /\ Leads2(F[k], row[k] - 1, request)
  <2> TAKE k \in 1 .. Len(F)
  <2>1. row[k] \in 1 .. n /\ col[k] \in 1 .. Len(ss[row[k]]) /\ F[k] = ss[row[k]][col[k]]
    BY <1>5 DEF Lists
  <2>2. Level2(ss[row[k]], row[k] - 1, request)
    BY <1>2, <2>1
  <2> QED
    BY <2>1, <2>2 DEF Level2
<1>7. ASSUME NEW m PROVE (\E k \in 1 .. Len(F) : F[k] = m) <=> m \in nodes2 /\ V2!Begins(m, request)
  <2>1. \A v : V2!Static(v) = Static(v)
    BY DEF V2!Static, Static
  <2>2. ASSUME NEW x \in nodes2 PROVE /\ Len(x) \in Nat
                                      /\ V2!Begins(x, request) <=>
                                           /\ Len(x) <= Len(request)
                                           /\ \A j \in 1 .. Len(x) : Matches2(x[j], request[j])
    BY <2>1, LenProperties DEF Shape2, V2!Begins, Matches2
  <2>3. ASSUME NEW k \in 1 .. Len(F), F[k] = m PROVE m \in nodes2 /\ V2!Begins(m, request)
    <3> DEFINE d == row[k] - 1
    <3>1. Leads2(m, d, request) /\ d <= Len(request)
      BY <1>1, <1>6, <2>3
    <3> HIDE DEF d
    <3> QED
      BY <2>2, <3>1 DEF Leads2
  <2>4. ASSUME m \in nodes2, V2!Begins(m, request) PROVE \E k \in 1 .. Len(F) : F[k] = m
    <3> DEFINE i == Len(m) + 1
    <3>1. Leads2(m, Len(m), request) /\ Len(m) \in Nat /\ Len(m) <= Len(request)
      BY <2>2, <2>4 DEF Leads2
    <3>2. i \in 1 .. n /\ i - 1 = Len(m)
      BY <1>1, <3>1
    <3> HIDE DEF i
    <3>3. PICK c \in 1 .. Len(ss[i]) : ss[i][c] = m
      BY <1>2, <3>1, <3>2 DEF Level2
    <3>4. PICK k \in 1 .. Len(F) : row[k] = i /\ col[k] = c
      BY <1>5, <3>2 DEF Lists
    <3> QED
      BY <1>6, <3>3, <3>4
  <2> QED
    BY <2>3, <2>4
<1>8. ASSUME NEW k \in 1 .. Len(F), NEW l \in 1 .. Len(F), k < l
      PROVE  Len(F[k]) < Len(F[l]) \/ (Len(F[k]) = Len(F[l]) /\ F[k] # F[l])
  <2>1. Len(F[k]) = row[k] - 1 /\ Len(F[l]) = row[l] - 1 /\ row[k] \in Nat /\ row[l] \in Nat
    BY <1>1, <1>6 DEF Leads2
  <2>2. row[k] < row[l] \/ (row[k] = row[l] /\ col[k] < col[l])
    BY <1>5, <1>8 DEF Lists
  <2>3. CASE row[k] < row[l]
    BY <2>1, <2>3
  <2>4. CASE row[k] = row[l] /\ col[k] < col[l]
    <3> DEFINE t == ss[row[k]]
    <3>1. \A a, b \in 1 .. Len(t) : t[a] = t[b] => a = b
      <4>1. Level2(ss[row[k]], row[k] - 1, request)
        BY <1>2, <1>6
      <4> QED
        BY <4>1 DEF Level2
    <3>2. /\ col[k] \in 1 .. Len(t) /\ F[k] = t[col[k]]
          /\ col[l] \in 1 .. Len(t) /\ F[l] = t[col[l]]
      BY <1>6, <2>4
    <3> HIDE DEF t
    <3>3. F[k] # F[l]
      BY <2>4, <3>1, <3>2
    <3> QED
      BY <2>1, <2>4, <3>3
  <2> QED
    BY <2>2, <2>3, <2>4
<1> QED
  BY <1>4, <1>7, <1>8 DEF VisitedNodes, F, ss

\* findMdls: the middlewares of those nodes, in that order.
LEMMA FindMdlsVisits ==
  ASSUME Shape2, nodes2 # {}, NEW request \in Seq(STRING)
  PROVE  \E res : /\ VisitedNodes(res, request)
                  /\ V2!FindMdls(request) = FlattenSeq([i \in 1 .. Len(res) |-> mdls2[res[i]]])
<1> DEFINE n == Len(request)
           start == <<(<<>>)>>
           S == Seq(Seq(Segment))
           step == [x \in Seq(nodes2) \X (1 .. n) |-> V2!After(x[1], request[x[2]])]
           Def(queue) == [i \in 0 .. n |-> IF i = 0 THEN start
                                           ELSE V2!After(queue[i - 1], request[i])]
           queue == CHOOSE queue : queue = Def(queue)
           res == FlattenSeq([i \in 1 .. n + 1 |-> queue[i - 1]])
<1>1. n \in Nat /\ \A i \in 1 .. n : request[i] \in STRING
  BY LenProperties, ElementOfSeq
<1>2. start \in Seq(nodes2)
  <2>1. PICK m : m \in nodes2
    OBVIOUS
  <2>2. m \in Seq(Segment) /\ 0 \in 0 .. Len(m)
    BY <2>1, LenProperties DEF Shape2
  <2>3. SubSeq(m, 1, 0) \in nodes2
    BY <2>1, <2>2, BeginningsInTree DEF Shape2
  <2>4. SubSeq(m, 1, 0) = <<>>
    BY <2>2, BeginningProperties
  <2>5. <<>> \in nodes2
    BY <2>3, <2>4
  <2> QED
    BY <2>5
<1> HIDE DEF start
<1>3. PICK f : Iterates(f, Seq(nodes2), start, n, step)
  <2>1. \A x \in Seq(nodes2) \X (1 .. n) : V2!After(x[1], request[x[2]]) \in Seq(nodes2)
    BY <1>1, AfterLists
  <2>2. Steps(Seq(nodes2), n, step)
    BY <2>1 DEF Steps
  <2> HIDE DEF n, step
  <2> QED
    BY <1>1, <1>2, <2>2, IterationExists
<1>4. f \in [0 .. n -> Seq(nodes2)] /\ f[0] = start
      /\ \A i \in 1 .. n : f[i] = V2!After(f[i - 1], request[i])
  <2>1. f \in [0 .. n -> Seq(nodes2)] /\ f[0] = start
        /\ \A i \in 1 .. n : f[i] = step[<<f[i - 1], i>>]
    BY <1>3 DEF Iterates
  <2>2. \A i \in 1 .. n : f[i - 1] \in Seq(nodes2)
    BY <1>1, <2>1
  <2> QED
    BY <2>1, <2>2
<1>5. f = Def(f)
  <2>1. \A i \in 0 .. n : f[i] = Def(f)[i]
    <3> TAKE i \in 0 .. n
    <3>1. i = 0 \/ (i \in 1 .. n /\ i # 0)
      BY <1>1
    <3> QED
      BY <1>4, <3>1
  <2>2. f = [i \in 0 .. n |-> f[i]] /\ Def(f) = [i \in 0 .. n |-> Def(f)[i]]
    BY <1>4
  <2> HIDE DEF Def
  <2> QED
    BY <2>1, <2>2
<1>6. queue = Def(queue)
  <2> HIDE DEF Def
  <2> QED
    BY <1>5
<1>7. V2!FindMdls(request) = FlattenSeq([i \in 1 .. Len(res) |-> mdls2[res[i]]])
  <2>1. \A x : V2!FlattenSeq(x) = FlattenSeq(x)
    BY DEF V2!FlattenSeq, FlattenSeq
  <2>2. V2!FindMdls(request) = FlattenSeq([i \in DOMAIN res |-> mdls2[res[i]]])
    BY <2>1 DEF V2!FindMdls, start
  <2>3. DOMAIN res = 1 .. Len(res)
    <3>1. Queues2(queue, request)
      <4> HIDE DEF queue
      <4>1. Def(queue)[0] = start
        BY <1>1
      <4>2. \A i \in 1 .. n : Def(queue)[i] = V2!After(queue[i - 1], request[i])
        BY <1>1
      <4> HIDE DEF Def
      <4> QED
        BY <1>6, <4>1, <4>2 DEF Queues2, start
    <3> HIDE DEF queue
    <3>2. VisitedNodes(res, request)
      BY <3>1, QueuesVisit
    <3> HIDE DEF res
    <3> QED
      BY <3>2, LenProperties DEF VisitedNodes
  <2> HIDE DEF res
  <2> QED
    BY <2>2, <2>3
<1> HIDE DEF queue
<1>8. Queues2(queue, request)
  <2>1. Def(queue)[0] = start
    BY <1>1
  <2>2. \A i \in 1 .. n : Def(queue)[i] = V2!After(queue[i - 1], request[i])
    BY <1>1
  <2> HIDE DEF Def
  <2> QED
    BY <1>6, <2>1, <2>2 DEF Queues2, start
<1>9. VisitedNodes(res, request)
  BY <1>8, QueuesVisit
<1> HIDE DEF res
<1> QED
  BY <1>7, <1>9

\* What runs around a handler is what the nodes on the way brought, each node's in order.
LEMMA MiddlewareInv2 ==
  ASSUME IInv2, Listed2, \A request \in Requests : request \in Seq(STRING)
  PROVE  V2!MiddlewareMatched
<1> SUFFICES ASSUME NEW request \in Requests, nodes2 # {}
             PROVE  LET run == V2!FindMdls(request)
                        brought == UNION {V2!ToSet(mdls2[n]) : n \in nodes2}
                    IN  /\ V2!ToSet(run) = {i \in brought : V2!Begins(calls2[i], request)}
                        /\ \A i, j \in DOMAIN run : i < j =>
                             \/ Len(calls2[run[i]]) < Len(calls2[run[j]])
                             \/ Len(calls2[run[i]]) = Len(calls2[run[j]]) /\ run[i] # run[j]
                                  /\ (calls2[run[i]] = calls2[run[j]] => run[i] < run[j])
  BY DEF V2!MiddlewareMatched
<1> DEFINE run == V2!FindMdls(request)
           brought == UNION {V2!ToSet(mdls2[n]) : n \in nodes2}
<1>1. request \in Seq(STRING) /\ Shape2
  BY DEF IInv2
<1>2. PICK res : /\ VisitedNodes(res, request)
                 /\ run = FlattenSeq([i \in 1 .. Len(res) |-> mdls2[res[i]]])
  BY <1>1, FindMdlsVisits
<1> DEFINE N == Len(res)
           ss == [i \in 1 .. N |-> mdls2[res[i]]]
<1>3. /\ N \in Nat /\ res \in Seq(nodes2) /\ \A i \in 1 .. N : res[i] \in nodes2
      /\ \A m : (\E k \in 1 .. N : res[k] = m) <=> m \in nodes2 /\ V2!Begins(m, request)
      /\ \A k, l \in 1 .. N :
           k < l => Len(res[k]) < Len(res[l]) \/ (Len(res[k]) = Len(res[l]) /\ res[k] # res[l])
  BY <1>2, LenProperties, ElementOfSeq DEF VisitedNodes
<1>4. ss \in [1 .. N -> Seq(Nat)] /\ \A i \in 1 .. N : ss[i] = mdls2[res[i]]
  BY <1>3 DEF IInv2
<1>5. run = FlattenSeq(ss)
  BY <1>2
<1> HIDE DEF ss, N, run
<1>6. run \in Seq(Nat) /\ \E row, col : Lists(run, ss, N, row, col)
  BY <1>3, <1>4, <1>5, FlattenLists
<1>7. PICK row, col : Lists(run, ss, N, row, col)
  BY <1>6
<1>8. DOMAIN run = 1 .. Len(run)
  BY <1>6, LenProperties
<1>9. \A m \in nodes2 : /\ DOMAIN mdls2[m] = 1 .. Len(mdls2[m])
                        /\ V2!ToSet(mdls2[m]) = {mdls2[m][i] : i \in 1 .. Len(mdls2[m])}
  BY LenProperties DEF IInv2, V2!ToSet
<1>10. \A k \in 1 .. Len(run) :
         /\ row[k] \in 1 .. N /\ res[row[k]] \in nodes2
         /\ col[k] \in 1 .. Len(mdls2[res[row[k]]])
         /\ run[k] = mdls2[res[row[k]]][col[k]]
         /\ calls2[run[k]] = res[row[k]]
  <2> TAKE k \in 1 .. Len(run)
  <2>1. row[k] \in 1 .. N /\ col[k] \in 1 .. Len(ss[row[k]]) /\ run[k] = ss[row[k]][col[k]]
    BY <1>7 DEF Lists
  <2> DEFINE m == res[row[k]]
  <2>2. m \in nodes2 /\ ss[row[k]] = mdls2[m]
    BY <1>3, <1>4, <2>1
  <2> HIDE DEF m
  <2>3. col[k] \in DOMAIN mdls2[m] /\ run[k] = mdls2[m][col[k]]
    BY <1>9, <2>1, <2>2
  <2>4. calls2[run[k]] = m
    BY <2>2, <2>3 DEF Listed2
  <2> QED
    BY <2>1, <2>2, <2>3, <2>4 DEF m
<1>11. V2!ToSet(run) = {i \in brought : V2!Begins(calls2[i], request)}
  <2>1. V2!ToSet(run) = {run[k] : k \in 1 .. Len(run)}
    BY <1>8 DEF V2!ToSet
  <2>2. ASSUME NEW k \in 1 .. Len(run) PROVE run[k] \in brought /\ V2!Begins(calls2[run[k]], request)
    <3>1. run[k] \in V2!ToSet(mdls2[res[row[k]]])
      <4> DEFINE m == res[row[k]]
      <4>1. m \in nodes2 /\ col[k] \in 1 .. Len(mdls2[m]) /\ run[k] = mdls2[m][col[k]]
        BY <1>10
      <4> HIDE DEF m
      <4>2. V2!ToSet(mdls2[m]) = {mdls2[m][i] : i \in 1 .. Len(mdls2[m])}
        BY <1>9, <4>1
      <4>3. run[k] \in V2!ToSet(mdls2[m])
        BY <4>1, <4>2
      <4> QED
        BY <4>3 DEF m
    <3> QED
      BY <1>3, <1>10, <3>1
  <2>3. ASSUME NEW i \in brought, V2!Begins(calls2[i], request)
        PROVE  \E k \in 1 .. Len(run) : run[k] = i
    <3>1. PICK m \in nodes2 : i \in V2!ToSet(mdls2[m])
      OBVIOUS
    <3>2. PICK c \in 1 .. Len(mdls2[m]) : i = mdls2[m][c]
      BY <1>9, <3>1
    <3>3. calls2[i] = m
      BY <1>9, <3>2 DEF Listed2
    <3>4. PICK r \in 1 .. N : res[r] = m
      BY <1>3, <2>3, <3>3
    <3>5. PICK k \in 1 .. Len(run) : row[k] = r /\ col[k] = c
      BY <1>4, <1>7, <3>2, <3>4 DEF Lists
    <3> QED
      BY <1>10, <3>2, <3>4, <3>5
  <2> HIDE DEF brought
  <2> QED
    BY <2>1, <2>2, <2>3
<1>12. ASSUME NEW k \in 1 .. Len(run), NEW l \in 1 .. Len(run), k < l
       PROVE  \/ Len(calls2[run[k]]) < Len(calls2[run[l]])
              \/ Len(calls2[run[k]]) = Len(calls2[run[l]]) /\ run[k] # run[l]
                   /\ (calls2[run[k]] = calls2[run[l]] => run[k] < run[l])
  <2>1. /\ row[k] \in 1 .. N /\ row[l] \in 1 .. N
        /\ calls2[run[k]] = res[row[k]] /\ calls2[run[l]] = res[row[l]]
    BY <1>10
  <2>2. row[k] < row[l] \/ (row[k] = row[l] /\ col[k] < col[l])
    BY <1>7, <1>12 DEF Lists
  <2>3. CASE row[k] < row[l]
    <3>1. Len(res[row[k]]) < Len(res[row[l]])
          \/ (Len(res[row[k]]) = Len(res[row[l]]) /\ res[row[k]] # res[row[l]])
      BY <1>3, <2>1, <2>3
    <3> QED
      BY <2>1, <3>1
  <2>4. CASE row[k] = row[l] /\ col[k] < col[l]
    <3> DEFINE m == res[row[k]]
    <3>1. /\ m \in nodes2 /\ col[k] \in DOMAIN mdls2[m] /\ col[l] \in DOMAIN mdls2[m]
          /\ run[k] = mdls2[m][col[k]] /\ run[l] = mdls2[m][col[l]]
      BY <1>9, <1>10, <2>4
    <3>2. run[k] < run[l]
      BY <2>4, <3>1 DEF Listed2
    <3>3. run[k] \in Nat /\ run[l] \in Nat
      BY <1>6, ElementOfSeq
    <3>4. run[k] # run[l]
      BY <3>2, <3>3
    <3> QED
      BY <2>1, <2>4, <3>2, <3>4
  <2> QED
    BY <2>2, <2>3, <2>4
<1> HIDE DEF brought
<1> QED
  BY <1>8, <1>11, <1>12 DEF run, brought

\* addRoute of homework2 replaces no handler, be it called by Get, by Post or by UseV1.
LEMMA RoutesStay2 == V2!Spec => V2!RoutesStay
<1>1. [V2!Next]_(V2!vars) => [V2!Stays]_(V2!vars)
  <2>1. ASSUME NEW path, NEW withHandler, NEW withMdls,
               V2!AddRoute(path, withHandler, withMdls), NEW n \in DOMAIN handler2
        PROVE  n \in DOMAIN handler2' /\ handler2'[n] = handler2[n]
    <3>1. CASE UNCHANGED handler2
      BY <3>1
    <3>2. CASE handler2' = V2!Put(handler2, path.segs, count2') /\ ~V2!Conflict(path.segs)
      BY <3>2 DEF V2!Conflict, V2!Put
    <3> QED
      BY <2>1, <3>1, <3>2 DEF V2!AddRoute
  <2> QED
    BY <2>1 DEF V2!Next, V2!Get, V2!UseV1, V2!Stays
<1> QED
  BY <1>1, PTL DEF V2!Spec, V2!RoutesStay

\* Both trees keep their routes.
THEOREM RoutesAlwaysStay == V1!Spec /\ V2!Spec => RoutesStay
  BY RoutesStay1, RoutesStay2 DEF RoutesStay

\* Whatever was registered, in whichever order and however many calls panicked, a request
\* is served by a route that covers it, and passes over one that does only for a static
\* segment; findRoute never has to choose between two children.
THEOREM RequestsReachTheirRoute ==
  ASSUME \A path \in Registered1 : path.segs \in Seq(RegSegment),
         \A path \in Registered2 : path.segs \in Seq(Segment),
         \A request \in Requests : request \in Seq(STRING)
  PROVE  V1!Spec /\ V2!Spec => []Dispatch
<1>1. IInv1 /\ IInv2 => Dispatch
  BY DispatchInv1, DispatchInv2 DEF Dispatch
<1> QED
  BY <1>1, TreeStays1, TreeStays2, PTL

\* Around a handler run the middlewares of exactly the calls whose path matches the
\* beginning of the request's, each once and in findMdls' order.
THEOREM MiddlewaresAreMatched ==
  ASSUME \A path \in Registered2 : path.segs \in Seq(Segment),
         \A request \in Requests : request \in Seq(STRING)
  PROVE  V2!Spec => []MiddlewareMatched
<1>1. IInv2 /\ Listed2 => MiddlewareMatched
  BY MiddlewareInv2 DEF MiddlewareMatched
<1> QED
  BY <1>1, TreeStays2, PTL

-----------------------------------------------------------------------------
(* The server: what logs, metrics and spans tell of a request is what its  *)
(* client got, for any layers given to Use and to a route, and any error   *)
(* pages.  First the inductive invariant.                                  *)

Logging == {"accesslog", "accesslogPanics"}
Telling == {"prometheus", "opentelemetry"}

\* The layers: on the way in only middlewares lie between the one that runs and
\* the last, which is serve until the route is found, and then the handler.
Nested ==
  /\ layers \in Seq(Middlewares \cup {"serve", "handler"}) /\ layers # <<>>
  /\ handler \in Handlers /\ route \in RouteLayers
  /\ way \in {"in", "out", "panic", "sent", "dropped", "exited"}
  /\ at \in 0 .. Len(layers)
  /\ layers[Len(layers)] \in IF handler = "missing" THEN {"serve"} ELSE {"serve", "handler"}
  /\ \A k \in DOMAIN layers : layers[k] = "handler" => k = Len(layers)
  /\ way = "in" => at > 0 /\ \A k \in at .. Len(layers) - 1 : layers[k] \in Middlewares
  /\ Over => at = 0

\* A panic is under way exactly if one leaves the layer inside the one that
\* runs, or the handler, the innermost, runs and has raised it.
Panicking ==
  way # "in" =>
    (way \in {"panic", "dropped"} <=>
       PanicLeaves(at + 1) \/ (at = Len(layers) /\ Raises(at)))

\* The access log layers that have been left have written, once each.
Logs ==
  /\ way = "in" => logged = <<>>
  /\ way # "in" =>
       /\ logged \in Seq(Nat)
       /\ \A i \in DOMAIN logged :
            logged[i] \in at + 1 .. Len(layers) /\ layers[logged[i]] \in Logging
       /\ \A k \in at + 1 .. Len(layers) :
            layers[k] \in Logging => \E i \in DOMAIN logged : logged[i] = k
       /\ \A i, j \in DOMAIN logged : logged[i] = logged[j] => i = j

\* The metric and trace layers that have been left, by no panic, tell of it.
Tells ==
  /\ \A t \in told : /\ t.layer \in DOMAIN layers /\ layers[t.layer] \in Telling
                     /\ t.status \in Statuses
  /\ reporting \subseteq {k \in DOMAIN layers : layers[k] = "prometheus"}
  /\ way = "in" => reporting = {} /\ told = {}
  /\ way # "in" =>
       \A k \in DOMAIN layers :
         layers[k] \in Telling =>
           (k \in reporting \cup {t.layer : t \in told} <=> k > at /\ ~PanicLeaves(k))

\* Once a layer has told a status, only a recovery further out changes it.
Response ==
  /\ status \in Statuses /\ sent \in Statuses
  /\ data \in [kind : {"page", "body"}, of : Statuses]
  /\ way = "in" => status = 0 /\ data = Body(0) /\ sent = 0
  /\ way # "in" =>
       /\ data.kind = "page" => data.of = status
       /\ sent = IF handler = "direct" THEN 200
                 ELSE IF way # "sent" THEN 0
                 ELSE IF status > 0 THEN status ELSE 200
       /\ status = 0 => MayBeUnset \/ (way \in {"panic", "dropped"} /\ reporting = {} /\ told = {})
       /\ handler = "direct" /\ status # 0 => \E j \in at + 1 .. Len(layers) : Recovered(j)
       /\ \A t \in told :
            /\ t.status = status \/ \E j \in at + 1 .. t.layer - 1 : Recovered(j)
            /\ t.status = 0 => MayBeUnset
            /\ handler = "direct" /\ t.status # 0 =>
                 \E j \in DOMAIN layers : Recovered(j)
       /\ at = 0 /\ way \in {"out", "sent"} /\ layers[1] = "errhdl" /\ status \in Pages =>
            data = Page(status)

WebInv == Nested /\ Panicking /\ Logs /\ Tells /\ Response

LEMMA WebInit == Init => WebInv
<1> SUFFICES ASSUME Init PROVE WebInv
  OBVIOUS
<1> DEFINE Kinds == Middlewares \cup {"serve", "handler"}
<1>1. PICK global \in GlobalLayers : layers = global \o <<"serve">>
  BY DEF Init
<1>2. global \in Seq(Middlewares) /\ global \in Seq(Kinds) /\ <<"serve">> \in Seq(Kinds)
  <2>1. global \in Seq(Middlewares)
    BY LayerAssumption
  <2> QED BY <2>1
<1>3. /\ layers \in Seq(Kinds)
      /\ Len(layers) = Len(global) + 1
      /\ \A i \in 1 .. Len(global) + 1 :
           layers[i] = IF i <= Len(global) THEN global[i] ELSE "serve"
  BY <1>1, <1>2, ConcatProperties
<1>4. Len(global) \in Nat /\ \A i \in 1 .. Len(global) : global[i] \in Middlewares
  BY <1>2, ElementOfSeq, LenProperties
<1>5. layers # <<>> /\ DOMAIN layers = 1 .. Len(layers)
  BY <1>3, <1>4, EmptySeq, LenProperties
<1>6. /\ layers[Len(layers)] = "serve"
      /\ \A k \in 1 .. Len(layers) - 1 : layers[k] \in Middlewares
  BY <1>3, <1>4
<1>7. \A k \in DOMAIN layers : layers[k] # "handler"
  BY <1>3, <1>4, <1>5, <1>6 DEF Middlewares
<1>8. at \in 0 .. Len(layers) /\ at = 1 /\ way = "in"
  BY <1>3, <1>4 DEF Init
<1>9. Nested
  BY <1>3, <1>5, <1>6, <1>7, <1>8 DEF Init, Nested, Over
<1> QED BY <1>9 DEF Init, WebInv, Panicking, Logs, Tells, Response, Statuses, Body

-----------------------------------------------------------------------------
(* Panics on the way out.                                                  *)

LEMMA Indices ==
  ASSUME Nested
  PROVE  /\ Len(layers) \in Nat \ {0} /\ DOMAIN layers = 1 .. Len(layers)
         /\ \A k \in 1 .. Len(layers) : layers[k] \in Middlewares \cup {"serve", "handler"}
BY EmptySeq, LenProperties, ElementOfSeq DEF Nested

\* A panic leaves a layer that raises one, or that one reaches from inside and
\* that is no recovery; none leaves what is inside of the innermost layer.
LEMMA LeavesStep ==
  ASSUME Nested, NEW k \in 1 .. Len(layers)
  PROVE  /\ PanicLeaves(k) <=> Raises(k) \/ (layers[k] # "recovery" /\ PanicLeaves(k + 1))
         /\ ~PanicLeaves(Len(layers) + 1)
<1>1. Len(layers) \in Nat
  BY Indices
<1>2. ASSUME Raises(k) PROVE PanicLeaves(k)
  BY <1>1, <1>2 DEF PanicLeaves
<1>3. ASSUME layers[k] # "recovery", PanicLeaves(k + 1) PROVE PanicLeaves(k)
  <2>1. PICK source \in k + 1 .. Len(layers) :
          Raises(source) /\ \A j \in k + 1 .. source - 1 : layers[j] # "recovery"
    BY <1>3 DEF PanicLeaves
  <2>2. source \in k .. Len(layers) /\ \A j \in k .. source - 1 : j = k \/ j \in k + 1 .. source - 1
    BY <1>1
  <2> QED BY <1>3, <2>1, <2>2 DEF PanicLeaves
<1>4. ASSUME PanicLeaves(k), ~Raises(k) PROVE layers[k] # "recovery" /\ PanicLeaves(k + 1)
  <2>1. PICK source \in k .. Len(layers) :
          Raises(source) /\ \A j \in k .. source - 1 : layers[j] # "recovery"
    BY <1>4 DEF PanicLeaves
  <2>2. source \in k + 1 .. Len(layers) /\ k \in k .. source - 1
    BY <1>1, <1>4, <2>1
  <2>3. \A j \in k + 1 .. source - 1 : j \in k .. source - 1
    BY <1>1
  <2> QED BY <2>1, <2>2, <2>3 DEF PanicLeaves
<1>5. ~PanicLeaves(Len(layers) + 1)
  BY <1>1 DEF PanicLeaves
<1> QED BY <1>2, <1>3, <1>4, <1>5

\* Whether a panic leaves the layer that runs follows from the way it is on.
LEMMA LeavesThisLayer ==
  ASSUME Nested, Panicking, way \in {"out", "panic"}, at > 0
  PROVE  /\ at \in 1 .. Len(layers)
         /\ PanicLeaves(at) <=> Raises(at) \/ (layers[at] # "recovery" /\ way = "panic")
         /\ at # Len(layers) => (way = "panic" <=> PanicLeaves(at + 1))
         /\ at = Len(layers) => (way = "panic" <=> Raises(at))
<1>1. at \in 1 .. Len(layers)
  BY Indices DEF Nested
<1> QED BY <1>1, LeavesStep DEF Panicking

\* Layers and handler decide of panics.
LEMMA SamePanics ==
  ASSUME UNCHANGED <<layers, handler>>
  PROVE  /\ \A k : Raises(k)' <=> Raises(k)
         /\ \A k : PanicLeaves(k)' <=> PanicLeaves(k)
         /\ \A k : Recovered(k)' <=> Recovered(k)
         /\ MayBeUnset' <=> MayBeUnset
BY DEF Raises, PanicLeaves, Recovered, MayBeUnset, SetByRecovery

\* A layer that is left hands on whether a panic left it.
LEMMA LayerLeft ==
  ASSUME Nested, Panicking, way \in {"out", "panic"}, at > 0,
         at' = at - 1, UNCHANGED <<handler, route, layers>>,
         way' \in {"out", "panic"}, way' = "panic" <=> PanicLeaves(at)
  PROVE  Nested' /\ Panicking'
<1>1. at \in 1 .. Len(layers) /\ Len(layers) \in Nat
  BY LeavesThisLayer, Indices
<1>2. at' \in 0 .. Len(layers) /\ at' + 1 = at /\ at' # Len(layers)
  BY <1>1
<1>3. Nested'
  BY <1>2 DEF Nested, Over
<1>4. (PanicLeaves(at + 1))' <=> PanicLeaves(at)
  BY <1>2 DEF PanicLeaves, Raises
<1>5. Panicking'
  BY <1>2, <1>4 DEF Panicking
<1> QED BY <1>3, <1>5

\* Layers that write no log, and those that tell of nothing, leave it to the others.
LEMMA LogsKept ==
  ASSUME Nested, Logs, way \in {"out", "panic"}, way' # "in", at > 0, at' = at - 1,
         layers[at] \notin Logging, UNCHANGED <<layers, logged>>
  PROVE  Logs'
<1>1. at \in Nat /\ Len(layers) \in Nat /\ at' + 1 = at
  BY Indices DEF Nested
<1>2. \A k \in at .. Len(layers) : k = at \/ k \in at + 1 .. Len(layers)
  BY <1>1
<1>3. at + 1 .. Len(layers) \subseteq at .. Len(layers)
  BY <1>1
<1> QED BY <1>1, <1>2, <1>3 DEF Logs, Logging

LEMMA TellsKept ==
  ASSUME Nested, Tells, way \in {"out", "panic"}, way' # "in", at > 0, at' = at - 1,
         layers[at] \in Telling => PanicLeaves(at),
         UNCHANGED <<layers, handler, reporting, told>>
  PROVE  Tells'
<1>1. at \in Nat /\ Len(layers) \in Nat
  BY Indices DEF Nested
<1>2. \A k \in DOMAIN layers : k > at' <=> k > at \/ k = at
  BY <1>1, Indices
<1>3. \A k : PanicLeaves(k)' <=> PanicLeaves(k)
  BY SamePanics
<1>4. ASSUME NEW k \in DOMAIN layers, layers[k] \in Telling
      PROVE  k \in reporting' \cup {t.layer : t \in told'} <=> k > at' /\ ~PanicLeaves(k)
  BY <1>1, <1>2, <1>4 DEF Tells
<1> QED BY <1>3, <1>4 DEF Tells, Telling

\* A layer that leaves the response alone.
LEMMA ResponseKept ==
  ASSUME Nested, Response, way \in {"out", "panic"}, way' \in {"out", "panic"},
         at > 0, at' = at - 1,
         way' = "panic" \/ layers[at] # "errhdl",
         way = "panic" => way' = "panic",
         UNCHANGED <<handler, layers, status, data, sent, reporting, told>>
  PROVE  Response'
<1>1. at \in 1 .. Len(layers) /\ Len(layers) \in Nat
  BY Indices DEF Nested
<1>2. at' = 0 /\ way' = "out" => layers[1] # "errhdl"
  BY <1>1
<1>3. /\ \A j \in at + 1 .. Len(layers) : j \in at' + 1 .. Len(layers)
      /\ \A k : \A j \in at + 1 .. k - 1 : j \in at' + 1 .. k - 1
  BY <1>1
<1>4. (\A k : Recovered(k)' <=> Recovered(k)) /\ (MayBeUnset' <=> MayBeUnset)
  BY SamePanics
<1>5. status = 0 => MayBeUnset \/ (way' \in {"panic", "dropped"} /\ reporting' = {} /\ told' = {})
  BY DEF Response
<1>6. handler = "direct" /\ status # 0 => \E j \in at' + 1 .. Len(layers) : Recovered(j)
  BY <1>3 DEF Response
<1>7. \A t \in told :
        /\ t.status = status \/ \E j \in at' + 1 .. t.layer - 1 : Recovered(j)
        /\ t.status = 0 => MayBeUnset
        /\ handler = "direct" /\ t.status # 0 => \E j \in DOMAIN layers : Recovered(j)
  BY <1>3 DEF Response
<1> HIDE DEF Recovered
<1> QED BY <1>2, <1>4, <1>5, <1>6, <1>7 DEF Response

-----------------------------------------------------------------------------
(* The steps.                                                              *)

LEMMA InvEnter == WebInv /\ Enter => WebInv'
<1> SUFFICES ASSUME WebInv, Enter PROVE WebInv'
  OBVIOUS
<1>1. Len(layers) \in Nat \ {0} /\ at \in 1 .. Len(layers) /\ at # Len(layers)
  BY Indices DEF WebInv, Nested, Enter, Running, Middlewares
<1>2. Nested'
  BY <1>1 DEF WebInv, Nested, Enter, Running, Over
<1> QED BY <1>2 DEF Enter, Running, WebInv, Panicking, Logs, Tells, Response

LEMMA InvServe == WebInv /\ Serve => WebInv'
<1> SUFFICES ASSUME WebInv, Serve PROVE WebInv'
  OBVIOUS
<1> DEFINE Kinds == Middlewares \cup {"serve", "handler"}
           n == Len(layers)
<1>1. n \in Nat \ {0} /\ at = n /\ layers[n] = "serve"
  BY Indices DEF WebInv, Nested, Serve, Running, Middlewares
<1>2. \A k \in 1 .. n : layers[k] # "handler"
  BY <1>1, Indices DEF WebInv, Nested
<1>3. CASE handler = "missing"
  <2>1. Nested'
    BY <1>1, <1>3 DEF WebInv, Nested, Serve, Running, Over
  <2>2. ~PanicLeaves(n + 1) /\ ~Raises(n)
    BY <1>1, LeavesStep DEF WebInv, Raises
  <2>3. Panicking'
    BY <1>1, <1>3, <2>2 DEF Serve, Running, Panicking, PanicLeaves, Raises
  <2>4. Logs'
    BY <1>1, <1>3, Indices DEF WebInv, Serve, Running, Logs
  <2>5. Tells'
    BY <1>1, <1>3, Indices DEF WebInv, Serve, Running, Tells
  <2>6. Response'
    BY <1>1, <1>3 DEF WebInv, Serve, Running, Tells, Response, Statuses, Body
  <2> QED BY <2>1, <2>3, <2>4, <2>5, <2>6 DEF WebInv
<1>4. CASE handler # "missing"
  <2> DEFINE inner == Reverse(route)
             m == Len(route)
  <2>1. route \in Seq(Middlewares) /\ m \in Nat
    <3>1. route \in Seq(Middlewares)
      BY LayerAssumption DEF WebInv, Nested
    <3> QED BY <3>1, LenProperties
  <2>2. inner \in Seq(Middlewares) /\ Len(inner) = m
    <3>1. \A i \in 1 .. m : route[(m - i) + 1] \in Middlewares
      BY <2>1, ElementOfSeq
    <3>2. inner = [i \in 1 .. m |-> route[(m - i) + 1]]
      BY DEF Reverse
    <3>3. inner \in [1 .. m -> Middlewares]
      BY <3>1, <3>2
    <3> QED BY <2>1, <3>3
  <2>3. layers' = (layers \o inner) \o <<"handler">> /\ at' = n + 1 /\ way' = "in"
    BY <1>1, <1>4 DEF Serve, Running
  <2> HIDE DEF inner, m
  <2>4. layers \in Seq(Kinds) /\ inner \in Seq(Kinds) /\ <<"handler">> \in Seq(Kinds)
    BY <2>2 DEF WebInv, Nested
  <2>5. /\ layers \o inner \in Seq(Kinds) /\ Len(layers \o inner) = n + m
        /\ \A i \in 1 .. n + m :
             (layers \o inner)[i] = IF i <= n THEN layers[i] ELSE inner[i - n]
    BY <2>2, <2>4, ConcatProperties
  <2>6. /\ layers' \in Seq(Kinds) /\ Len(layers') = n + m + 1
        /\ \A i \in 1 .. n + m + 1 :
             layers'[i] = IF i <= n + m THEN (layers \o inner)[i] ELSE "handler"
    BY <2>3, <2>4, <2>5, ConcatProperties
  <2>7. \A i \in 1 .. m : inner[i] \in Middlewares
    BY <2>2, ElementOfSeq
  <2>8. layers'[n + m + 1] = "handler" /\ layers' # <<>>
    BY <1>1, <2>1, <2>6, EmptySeq
  <2>9. ASSUME NEW k \in n + 1 .. n + m PROVE layers'[k] \in Middlewares
    <3>1. k \in 1 .. n + m /\ k \in 1 .. n + m + 1 /\ ~(k <= n) /\ k <= n + m /\ k - n \in 1 .. m
      BY <1>1, <2>1
    <3>2. layers'[k] = inner[k - n]
      BY <2>5, <2>6, <3>1
    <3> QED BY <2>7, <3>1, <3>2
  <2>10. DOMAIN layers' = 1 .. n + m + 1
    BY <2>6, LenProperties
  <2>11. \A k \in 1 .. n : layers'[k] # "handler"
    BY <1>1, <1>2, <2>1, <2>5, <2>6
  <2>12. \A k \in DOMAIN layers' : layers'[k] = "handler" => k = n + m + 1
    BY <1>1, <2>1, <2>9, <2>10, <2>11 DEF Middlewares
  <2>13. at' \in 1 .. Len(layers') /\ Len(layers') - 1 = n + m
    BY <1>1, <2>1, <2>3, <2>6
  <2>14. UNCHANGED <<handler, route>>
    BY DEF Serve
  <2>15. Nested'
    BY <1>4, <2>3, <2>6, <2>8, <2>9, <2>12, <2>13, <2>14 DEF WebInv, Nested, Over
  <2> QED
    BY <1>4, <2>3, <2>15 DEF Serve, Running, WebInv, Panicking, Logs, Tells, Response
<1> QED BY <1>3, <1>4

LEMMA InvHandle == WebInv /\ Handle => WebInv'
<1> SUFFICES ASSUME WebInv, Handle PROVE WebInv'
  OBVIOUS
<1> DEFINE n == Len(layers)
<1>1. n \in Nat \ {0} /\ at = n /\ layers[n] = "handler"
  BY Indices DEF WebInv, Nested, Handle, Running, Middlewares
<1>2. way = "in" /\ at' = n /\ UNCHANGED <<layers, handler, route>>
  BY <1>1 DEF Handle, Running
<1>3. way' = IF handler \in {"panic", "panicLate"} THEN "panic" ELSE "out"
  BY DEF Handle
<1>4. Nested'
  BY <1>1, <1>2, <1>3 DEF WebInv, Nested, Over
<1>5. ~PanicLeaves(n + 1)
  BY <1>1, LeavesStep DEF WebInv
<1>6. Panicking'
  BY <1>1, <1>2, <1>3, <1>5 DEF Panicking, PanicLeaves, Raises
<1>7. Logs' /\ Tells'
  BY <1>1, <1>2, <1>3, Indices DEF WebInv, Handle, Logs, Tells
<1>8. Response'
  <2>1. status = 0 /\ data = Body(0) /\ sent = 0 /\ reporting' = {} /\ told' = {}
    BY <1>2 DEF WebInv, Handle, Tells, Response
  <2>2. /\ status' \in {0, 200, 500}
        /\ handler = "direct" => status' = 0
        /\ status' = 0 => MayBeUnset \/ handler = "panic"
    <3>1. status' = CASE handler \in {"ok", "panicLate"} -> 200 [] handler = "error" -> 500
                      [] OTHER -> 0
      BY <2>1 DEF Handle
    <3>2. handler \in Handlers /\ handler # "missing"
      BY <1>1 DEF WebInv, Nested
    <3> QED BY <3>1, <3>2 DEF Handlers, MayBeUnset
  <2>3. data' = Body(status') /\ sent' = IF handler = "direct" THEN 200 ELSE 0
    BY <2>1 DEF Handle
  <2>4. status' \in Statuses /\ sent' \in Statuses /\ data' \in [kind : {"page", "body"}, of : Statuses]
    BY <2>2, <2>3 DEF Statuses, Body
  <2>5. data'.kind # "page" /\ at' # 0 /\ way' \in {"out", "panic"}
    BY <1>1, <1>2, <1>3, <2>3 DEF Body
  <2>6. status' = 0 => MayBeUnset' \/ way' = "panic"
    BY <1>2, <1>3, <2>2, SamePanics
  <2>7. handler' = handler
    BY <1>2
  <2> QED BY <2>1, <2>2, <2>3, <2>4, <2>5, <2>6, <2>7 DEF Response
<1> QED BY <1>4, <1>6, <1>7, <1>8 DEF WebInv

\* What the actions of the way out have in common.
LEMMA Leaving ==
  ASSUME WebInv,
         Pass \/ ReplaceByPage \/ StartReport \/ Trace \/ LogAccess \/ Unwind \/ Recover
  PROVE  /\ way \in {"out", "panic"} /\ way' \in {"out", "panic"}
         /\ at > 0 /\ at' = at - 1 /\ at \in 1 .. Len(layers)
         /\ UNCHANGED <<handler, route, layers>>
         /\ way' = "panic" <=> PanicLeaves(at)
<1> USE DEF Running
<1>1. /\ way \in {"out", "panic"} /\ way' \in {"out", "panic"}
      /\ at > 0 /\ at' = at - 1 /\ UNCHANGED <<handler, route, layers>>
  BY DEF Pass, ReplaceByPage, StartReport, Trace, LogAccess, Unwind, Recover
<1>2. /\ at \in 1 .. Len(layers)
      /\ PanicLeaves(at) <=> Raises(at) \/ (layers[at] # "recovery" /\ way = "panic")
      /\ at = Len(layers) => (way = "panic" <=> Raises(at))
  BY <1>1, LeavesThisLayer DEF WebInv
<1>3. layers[at] = "handler" => at = Len(layers)
  BY <1>2, Indices DEF WebInv, Nested
<1>4. CASE Pass
  <2>1. ~Raises(at) /\ way = "out" /\ way' = "out"
    BY <1>2, <1>3, <1>4 DEF Pass, Raises
  <2> QED BY <1>1, <1>2, <2>1
<1>5. CASE ReplaceByPage \/ StartReport \/ Trace
  <2>1. ~Raises(at) /\ way = "out" /\ way' = "out"
    BY <1>5 DEF ReplaceByPage, StartReport, Trace, Raises
  <2> QED BY <1>1, <1>2, <2>1
<1>6. CASE LogAccess
  <2>1. Raises(at) <=> layers[at] = "accesslogPanics"
    BY <1>6 DEF LogAccess, Raises
  <2> QED BY <1>1, <1>2, <1>6, <2>1 DEF LogAccess
<1>7. CASE Unwind
  BY <1>1, <1>2, <1>7 DEF Unwind
<1>8. CASE Recover
  BY <1>1, <1>2, <1>8 DEF Recover, Raises
<1> QED BY <1>4, <1>5, <1>6, <1>7, <1>8

LEMMA InvPass == WebInv /\ (Pass \/ Unwind) => WebInv'
<1> SUFFICES ASSUME WebInv, Pass \/ Unwind PROVE WebInv'
  OBVIOUS
<1>1. /\ way \in {"out", "panic"} /\ way' \in {"out", "panic"} /\ way' = way
      /\ at > 0 /\ at' = at - 1 /\ UNCHANGED <<handler, route, layers>>
      /\ way' = "panic" <=> PanicLeaves(at)
  BY Leaving DEF Pass, Unwind
<1>2. /\ layers[at] \notin Logging
      /\ layers[at] \in Telling => way = "panic"
      /\ way' = "panic" \/ layers[at] # "errhdl"
      /\ UNCHANGED <<status, data, sent, reporting, told, logged>>
  BY DEF Pass, Unwind, Running, Logging, Telling
<1>3. Nested' /\ Panicking'
  BY <1>1, LayerLeft DEF WebInv
<1>4. Logs' /\ Tells' /\ Response'
  BY <1>1, <1>2, LogsKept, TellsKept, ResponseKept DEF WebInv
<1> QED BY <1>3, <1>4 DEF WebInv

LEMMA InvLogAccess == WebInv /\ LogAccess => WebInv'
<1> SUFFICES ASSUME WebInv, LogAccess PROVE WebInv'
  OBVIOUS
<1>1. /\ way \in {"out", "panic"} /\ way' \in {"out", "panic"}
      /\ at > 0 /\ at' = at - 1 /\ UNCHANGED <<handler, route, layers>>
      /\ at \in 1 .. Len(layers)
      /\ way' = "panic" <=> PanicLeaves(at)
  BY Leaving
<1>2. /\ layers[at] \in Logging /\ layers[at] \notin Telling /\ layers[at] # "errhdl"
      /\ logged' = Append(logged, at)
      /\ way = "panic" => way' = "panic"
      /\ UNCHANGED <<status, data, sent, reporting, told>>
  BY DEF LogAccess, Logging, Telling
<1>3. Nested' /\ Panicking'
  BY <1>1, LayerLeft DEF WebInv
<1>4. Tells' /\ Response'
  BY <1>1, <1>2, TellsKept, ResponseKept DEF WebInv
<1>5. Logs'
  <2> DEFINE n == Len(logged)
  <2>1. /\ logged \in Seq(Nat) /\ n \in Nat /\ DOMAIN logged = 1 .. n
        /\ \A i \in 1 .. n : logged[i] \in at + 1 .. Len(layers) /\ layers[logged[i]] \in Logging
        /\ \A k \in at + 1 .. Len(layers) :
             layers[k] \in Logging => \E i \in 1 .. n : logged[i] = k
        /\ \A i, j \in 1 .. n : logged[i] = logged[j] => i = j
    BY <1>1, LenProperties DEF WebInv, Logs
  <2>2. at \in Nat /\ Len(layers) \in Nat
    BY <1>1, Indices DEF WebInv
  <2>3. /\ logged' \in Seq(Nat) /\ Len(logged') = n + 1
        /\ \A i \in 1 .. n : logged'[i] = logged[i]
        /\ logged'[n + 1] = at
    BY <1>2, <2>1, <2>2, AppendProperties
  <2>4. DOMAIN logged' = 1 .. n + 1
    BY <2>3, LenProperties
  <2> HIDE DEF n
  <2>5. \A i \in 1 .. n + 1 : i = n + 1 \/ i \in 1 .. n
    BY <2>1
  <2>6. at' + 1 = at /\ \A k \in at .. Len(layers) : k = at \/ k \in at + 1 .. Len(layers)
    BY <1>1, <2>2
  <2>7. \A i \in 1 .. n + 1 :
          logged'[i] \in at .. Len(layers) /\ layers[logged'[i]] \in Logging
    BY <1>1, <1>2, <2>1, <2>2, <2>3, <2>5
  <2>8. ASSUME NEW k \in at .. Len(layers), layers[k] \in Logging
        PROVE  \E i \in 1 .. n + 1 : logged'[i] = k
    <3>1. n + 1 \in 1 .. n + 1 /\ \A i \in 1 .. n : i \in 1 .. n + 1
      BY <2>1
    <3> QED BY <2>1, <2>3, <2>6, <2>8, <3>1
  <2>9. ASSUME NEW i \in 1 .. n + 1, NEW j \in 1 .. n + 1, logged'[i] = logged'[j] PROVE i = j
    <3>1. \A l \in 1 .. n : logged'[l] # at
      BY <2>1, <2>2, <2>3
    <3> QED BY <2>1, <2>3, <2>5, <2>9, <3>1
  <2>10. way' # "in"
    BY <1>1
  <2> QED BY <1>1, <2>3, <2>4, <2>6, <2>7, <2>8, <2>9, <2>10 DEF Logs
<1> QED BY <1>3, <1>4, <1>5 DEF WebInv

LEMMA InvReplaceByPage == WebInv /\ ReplaceByPage => WebInv'
<1> SUFFICES ASSUME WebInv, ReplaceByPage PROVE WebInv'
  OBVIOUS
<1>1. /\ way = "out" /\ way' = "out"
      /\ at > 0 /\ at' = at - 1 /\ UNCHANGED <<handler, route, layers>>
      /\ at \in 1 .. Len(layers)
      /\ way' = "panic" <=> PanicLeaves(at)
  BY Leaving DEF ReplaceByPage, Running
<1>2. /\ layers[at] \notin Logging /\ layers[at] \notin Telling
      /\ data' = PageOfStatus /\ UNCHANGED <<status, sent, reporting, told, logged>>
  BY DEF ReplaceByPage, Running, Logging, Telling
<1>3. Nested' /\ Panicking'
  BY <1>1, LayerLeft DEF WebInv
<1>4. Logs' /\ Tells'
  BY <1>1, <1>2, LogsKept, TellsKept DEF WebInv
<1>5. Response'
  <2>1. /\ data' \in [kind : {"page", "body"}, of : Statuses]
        /\ data'.kind = "page" => data'.of = status
        /\ status \in Pages => data' = Page(status)
    BY <1>1, <1>2 DEF WebInv, Response, PageOfStatus, Page
  <2>2. /\ \A j \in at + 1 .. Len(layers) : j \in at' + 1 .. Len(layers)
        /\ \A k : \A j \in at + 1 .. k - 1 : j \in at' + 1 .. k - 1
    BY <1>1, Indices DEF WebInv
  <2>3. (\A k : Recovered(k)' <=> Recovered(k)) /\ (MayBeUnset' <=> MayBeUnset)
    BY <1>1, SamePanics
  <2>4. handler = "direct" /\ status # 0 => \E j \in at' + 1 .. Len(layers) : Recovered(j)
    BY <1>1, <2>2 DEF WebInv, Response
  <2>5. \A t \in told :
          /\ t.status = status \/ \E j \in at' + 1 .. t.layer - 1 : Recovered(j)
          /\ t.status = 0 => MayBeUnset
          /\ handler = "direct" /\ t.status # 0 => \E j \in DOMAIN layers : Recovered(j)
    BY <1>1, <2>2 DEF WebInv, Response
  <2> HIDE DEF Recovered
  <2> QED BY <1>1, <1>2, <2>1, <2>3, <2>4, <2>5 DEF WebInv, Response
<1> QED BY <1>3, <1>4, <1>5 DEF WebInv

\* A layer that no panic left tells, now (Trace) or later (StartReport).
LEMMA InvStartReport == WebInv /\ StartReport => WebInv'
<1> SUFFICES ASSUME WebInv, StartReport PROVE WebInv'
  OBVIOUS
<1>1. /\ way = "out" /\ way' = "out"
      /\ at > 0 /\ at' = at - 1 /\ UNCHANGED <<handler, route, layers>>
      /\ at \in 1 .. Len(layers)
      /\ ~PanicLeaves(at)
  BY Leaving DEF StartReport, Running
<1>2. /\ layers[at] = "prometheus" /\ reporting' = reporting \cup {at}
      /\ UNCHANGED <<status, data, sent, told, logged>>
  BY DEF StartReport, Running
<1>3. Nested' /\ Panicking'
  BY <1>1, LayerLeft DEF WebInv
<1>4. Logs'
  BY <1>1, <1>2, LogsKept DEF WebInv, Logging
<1>5. Tells'
  <2>1. \A k \in DOMAIN layers : k > at' <=> k > at \/ k = at
    BY <1>1, Indices DEF WebInv
  <2>2. \A k : PanicLeaves(k)' <=> PanicLeaves(k)
    BY <1>1, SamePanics
  <2>3. \A k \in DOMAIN layers :
          layers[k] \in Telling =>
            (k \in reporting' \cup {t.layer : t \in told'} <=> k > at' /\ ~PanicLeaves(k))
    BY <1>1, <1>2, <2>1 DEF WebInv, Tells
  <2>4. reporting' \subseteq {k \in DOMAIN layers : layers[k] = "prometheus"}
    BY <1>1, <1>2, Indices DEF WebInv, Tells
  <2> QED BY <1>1, <1>2, <2>2, <2>3, <2>4 DEF WebInv, Tells
<1>6. Response'
  <2>1. /\ \A j \in at + 1 .. Len(layers) : j \in at' + 1 .. Len(layers)
        /\ \A k : \A j \in at + 1 .. k - 1 : j \in at' + 1 .. k - 1
    BY <1>1, Indices DEF WebInv
  <2>2. (\A k : Recovered(k)' <=> Recovered(k)) /\ (MayBeUnset' <=> MayBeUnset)
    BY <1>1, SamePanics
  <2>3. handler = "direct" /\ status # 0 => \E j \in at' + 1 .. Len(layers) : Recovered(j)
    BY <1>1, <2>1 DEF WebInv, Response
  <2>4. \A t \in told :
          /\ t.status = status \/ \E j \in at' + 1 .. t.layer - 1 : Recovered(j)
          /\ t.status = 0 => MayBeUnset
          /\ handler = "direct" /\ t.status # 0 => \E j \in DOMAIN layers : Recovered(j)
    BY <1>1, <2>1 DEF WebInv, Response
  <2>5. at' = 0 => layers[1] # "errhdl"
    BY <1>1, <1>2
  <2> HIDE DEF Recovered
  <2> QED BY <1>1, <1>2, <2>2, <2>3, <2>4, <2>5 DEF WebInv, Response
<1> QED BY <1>3, <1>4, <1>5, <1>6 DEF WebInv

LEMMA InvTrace == WebInv /\ Trace => WebInv'
<1> SUFFICES ASSUME WebInv, Trace PROVE WebInv'
  OBVIOUS
<1> DEFINE new == [layer |-> at, status |-> status]
<1>1. /\ way = "out" /\ way' = "out"
      /\ at > 0 /\ at' = at - 1 /\ UNCHANGED <<handler, route, layers>>
      /\ at \in 1 .. Len(layers)
      /\ ~PanicLeaves(at)
  BY Leaving DEF Trace, Running
<1>2. /\ layers[at] = "opentelemetry" /\ told' = told \cup {new}
      /\ UNCHANGED <<status, data, sent, reporting, logged>>
  BY DEF Trace, Running
<1>3. Nested' /\ Panicking'
  BY <1>1, LayerLeft DEF WebInv
<1>4. Logs'
  BY <1>1, <1>2, LogsKept DEF WebInv, Logging
<1>5. new.layer = at /\ new.status = status
  OBVIOUS
<1> HIDE DEF new
<1>6. Tells'
  <2>1. \A k \in DOMAIN layers : k > at' <=> k > at \/ k = at
    BY <1>1, Indices DEF WebInv
  <2>2. \A k : PanicLeaves(k)' <=> PanicLeaves(k)
    BY <1>1, SamePanics
  <2>3. {t.layer : t \in told'} = {t.layer : t \in told} \cup {at}
    BY <1>2, <1>5
  <2>4. \A k \in DOMAIN layers :
          layers[k] \in Telling =>
            (k \in reporting' \cup {t.layer : t \in told'} <=> k > at' /\ ~PanicLeaves(k))
    BY <1>1, <1>2, <2>1, <2>3 DEF WebInv, Tells
  <2>5. \A t \in told' : /\ t.layer \in DOMAIN layers /\ layers[t.layer] \in Telling
                         /\ t.status \in Statuses
    BY <1>1, <1>2, <1>5, Indices DEF WebInv, Tells, Response, Telling
  <2> QED BY <1>1, <1>2, <2>2, <2>4, <2>5 DEF WebInv, Tells
<1>7. Response'
  <2>1. /\ \A j \in at + 1 .. Len(layers) : j \in at' + 1 .. Len(layers) /\ j \in DOMAIN layers
        /\ \A k : \A j \in at + 1 .. k - 1 : j \in at' + 1 .. k - 1
    BY <1>1, Indices DEF WebInv
  <2>2. (\A k : Recovered(k)' <=> Recovered(k)) /\ (MayBeUnset' <=> MayBeUnset)
    BY <1>1, SamePanics
  <2>3. handler = "direct" /\ status # 0 =>
          \E j \in at' + 1 .. Len(layers) : j \in DOMAIN layers /\ Recovered(j)
    BY <1>1, <2>1 DEF WebInv, Response
  <2>4. \A t \in told' :
          /\ t.status = status \/ \E j \in at' + 1 .. t.layer - 1 : Recovered(j)
          /\ t.status = 0 => MayBeUnset
          /\ handler = "direct" /\ t.status # 0 => \E j \in DOMAIN layers : Recovered(j)
    BY <1>1, <1>2, <1>5, <2>1, <2>3 DEF WebInv, Response
  <2>5. at' = 0 => layers[1] # "errhdl"
    BY <1>1, <1>2
  <2> HIDE DEF Recovered
  <2> QED BY <1>1, <1>2, <2>2, <2>3, <2>4, <2>5 DEF WebInv, Response
<1> QED BY <1>3, <1>4, <1>6, <1>7 DEF WebInv

\* A recovery layer replaces the status that the layers inside have told: it is
\* further out than each of them.
LEMMA InvRecover == WebInv /\ Recover => WebInv'
<1> SUFFICES ASSUME WebInv, Recover PROVE WebInv'
  OBVIOUS
<1>1. /\ way = "panic" /\ way' \in {"out", "panic"}
      /\ at > 0 /\ at' = at - 1 /\ UNCHANGED <<handler, route, layers>>
      /\ at \in 1 .. Len(layers)
      /\ way' = "panic" <=> PanicLeaves(at)
  BY Leaving DEF Recover, Running
<1>2. /\ layers[at] \in {"recovery", "recoveryPanics"}
      /\ status' \in Statuses /\ data' = Body(status')
      /\ UNCHANGED <<sent, reporting, told, logged>>
  BY DEF Recover, Running, Body
<1>3. Nested' /\ Panicking'
  BY <1>1, LayerLeft DEF WebInv
<1>4. Logs' /\ Tells'
  BY <1>1, <1>2, LogsKept, TellsKept DEF WebInv, Logging, Telling
<1>5. Recovered(at)
  <2>1. ~Raises(at)
    BY <1>2 DEF Raises
  <2>2. PanicLeaves(at + 1)
    BY <1>1, <2>1, LeavesThisLayer DEF WebInv
  <2> QED BY <1>2, <2>2 DEF Recovered
<1>6. Response'
  <2>1. at' + 1 = at /\ at \in at' + 1 .. Len(layers)
    BY <1>1, Indices DEF WebInv
  <2>2. (\A k : Recovered(k)' <=> Recovered(k)) /\ (MayBeUnset' <=> MayBeUnset)
    BY <1>1, SamePanics
  <2>3. ASSUME NEW t \in told PROVE at \in at' + 1 .. t.layer - 1
    <3>1. t.layer > at /\ t.layer \in Nat
      BY <1>1, Indices DEF WebInv, Tells
    <3> QED BY <1>1, <2>1, <3>1
  <2>4. SetByRecovery /\ MayBeUnset
    BY <1>1, <1>5, Indices DEF WebInv, SetByRecovery, MayBeUnset
  <2>5. \A t \in told :
          /\ \E j \in at' + 1 .. t.layer - 1 : Recovered(j)
          /\ t.status = 0 => MayBeUnset
          /\ handler = "direct" /\ t.status # 0 => \E j \in DOMAIN layers : Recovered(j)
    BY <1>1, <1>5, <2>3, <2>4 DEF WebInv, Response, SetByRecovery
  <2>6. \E j \in at' + 1 .. Len(layers) : Recovered(j)
    BY <1>5, <2>1
  <2>7. /\ data' \in [kind : {"page", "body"}, of : Statuses] /\ data'.kind # "page"
        /\ status' \in Statuses
    BY <1>2 DEF Body, Statuses
  <2>8. at' = 0 => layers[1] # "errhdl"
    BY <1>1, <1>2
  <2> HIDE DEF Recovered
  <2> QED BY <1>1, <1>2, <2>2, <2>5, <2>6, <2>7, <2>8, <2>4 DEF WebInv, Response
<1> QED BY <1>3, <1>4, <1>6 DEF WebInv

\* The end of the request, with the response sent or without.
LEMMA InvEnd == WebInv /\ (Drop \/ Flush) => WebInv'
<1> SUFFICES ASSUME WebInv, Drop \/ Flush PROVE WebInv'
  OBVIOUS
<1>1. /\ at = 0 /\ way \in {"out", "panic"} /\ way' \in {"sent", "dropped", "exited"}
      /\ way = "panic" <=> way' = "dropped"
      /\ UNCHANGED <<handler, route, layers, at, status, data, reporting, told, logged>>
  BY DEF Drop, Flush
<1>2. /\ \A k : (PanicLeaves(k)' <=> PanicLeaves(k)) /\ (Recovered(k)' <=> Recovered(k))
      /\ MayBeUnset' <=> MayBeUnset
  BY <1>1, SamePanics
<1>3. Nested'
  BY <1>1 DEF WebInv, Nested, Over
<1>4. Panicking'
  BY <1>1, <1>2, Indices DEF WebInv, Panicking
<1>5. Logs' /\ Tells'
  BY <1>1, <1>2 DEF WebInv, Logs, Tells
<1>6. Response'
  <2>1. sent' \in Statuses /\ sent' = IF handler = "direct" THEN 200
                                      ELSE IF way' # "sent" THEN 0
                                      ELSE IF status > 0 THEN status ELSE 200
    BY <1>1 DEF WebInv, Response, Drop, Flush, Statuses
  <2> HIDE DEF Recovered
  <2> QED BY <1>1, <1>2, <2>1 DEF WebInv, Response
<1> QED BY <1>3, <1>4, <1>5, <1>6 DEF WebInv

\* The goroutine tells the status of the moment it runs.
LEMMA InvReport == WebInv /\ Report => WebInv'
<1> SUFFICES ASSUME WebInv, Report PROVE WebInv'
  OBVIOUS
<1>1. PICK k \in reporting :
        /\ reporting' = reporting \ {k}
        /\ told' = told \cup {[layer |-> k, status |-> status]}
        /\ UNCHANGED <<handler, route, layers, at, way, status, data, sent, logged>>
  BY DEF Report
<1> DEFINE new == [layer |-> k, status |-> status]
<1>2. told' = told \cup {new} /\ new.layer = k /\ new.status = status
  BY <1>1
<1> HIDE DEF new
<1>3. /\ way # "in" /\ k \in DOMAIN layers /\ layers[k] = "prometheus" /\ status \in Statuses
  BY DEF WebInv, Tells, Response
<1>4. /\ \A l : (PanicLeaves(l)' <=> PanicLeaves(l)) /\ (Recovered(l)' <=> Recovered(l))
      /\ MayBeUnset' <=> MayBeUnset
  BY <1>1, SamePanics
<1>5. Nested' /\ Panicking' /\ Logs'
  BY <1>1, <1>4 DEF WebInv, Nested, Panicking, Logs, Over, Raises
<1>6. Tells'
  <2>1. reporting' \cup {t.layer : t \in told'} = reporting \cup {t.layer : t \in told}
    BY <1>1, <1>2
  <2>2. \A t \in told' : /\ t.layer \in DOMAIN layers /\ layers[t.layer] \in Telling
                         /\ t.status \in Statuses
    BY <1>2, <1>3 DEF WebInv, Tells, Telling
  <2> QED BY <1>1, <1>3, <1>4, <2>1, <2>2 DEF WebInv, Tells
<1>7. Response'
  <2>1. status = 0 => MayBeUnset
    BY <1>3 DEF WebInv, Response
  <2>2. handler = "direct" /\ status # 0 => \E j \in DOMAIN layers : Recovered(j)
    <3>1. \A j \in at + 1 .. Len(layers) : j \in DOMAIN layers
      BY Indices DEF WebInv, Nested
    <3> QED BY <1>3, <3>1 DEF WebInv, Response
  <2>3. \A t \in told' :
          /\ t.status = status \/ \E j \in at + 1 .. t.layer - 1 : Recovered(j)
          /\ t.status = 0 => MayBeUnset
          /\ handler = "direct" /\ t.status # 0 => \E j \in DOMAIN layers : Recovered(j)
    BY <1>2, <1>3, <2>1, <2>2 DEF WebInv, Response
  <2> HIDE DEF Recovered
  <2> QED BY <1>1, <1>3, <1>4, <2>1, <2>3 DEF WebInv, Response
<1> QED BY <1>5, <1>6, <1>7 DEF WebInv

LEMMA InvNext == WebInv /\ [Next]_vars => WebInv'
<1> SUFFICES ASSUME WebInv, [Next]_vars PROVE WebInv'
  OBVIOUS
<1>1. CASE UNCHANGED vars
  BY <1>1 DEF vars, WebInv, Nested, Panicking, Logs, Tells, Response, Over, PanicLeaves,
    Raises, Recovered, MayBeUnset, SetByRecovery
<1>2. CASE Next
  BY <1>2, InvEnter, InvServe, InvHandle, InvPass, InvReplaceByPage, InvStartReport,
    InvTrace, InvLogAccess, InvRecover, InvEnd, InvReport DEF Next
<1> QED BY <1>1, <1>2

-----------------------------------------------------------------------------
(* What the invariant says of a request that is over.                      *)

LEMMA InvIsTruth == WebInv => ToldWhatWasSent
<1> SUFFICES ASSUME WebInv PROVE ToldWhatWasSent
  OBVIOUS
<1>1. TypeOK
  BY DEF WebInv, Nested, Tells, Response, TypeOK, Telling
<1> SUFFICES ASSUME Over PROVE ToldWhatWasSent
  BY <1>1 DEF ToldWhatWasSent
<1>2. /\ at = 0 /\ way # "in" /\ way # "panic" /\ at # Len(layers)
      /\ Len(layers) \in Nat \ {0} /\ DOMAIN layers = 1 .. Len(layers)
  BY Indices DEF WebInv, Nested, Over
<1>3. way = "dropped" <=> PanicLeaves(1)
  BY <1>2 DEF WebInv, Panicking
<1>4. ASSUME NEW k \in DOMAIN layers
      PROVE  layers[k] \in Logging <=> Cardinality({i \in DOMAIN logged : logged[i] = k}) = 1
  <2>1. CASE layers[k] \in Logging
    <3>1. PICK i \in DOMAIN logged : logged[i] = k
      BY <1>2, <2>1 DEF WebInv, Logs
    <3>2. {j \in DOMAIN logged : logged[j] = k} = {i}
      BY <1>2, <3>1 DEF WebInv, Logs
    <3> QED BY <2>1, <3>2, FS_Singleton
  <2>2. CASE layers[k] \notin Logging
    <3>1. {j \in DOMAIN logged : logged[j] = k} = {}
      BY <1>2, <2>2 DEF WebInv, Logs
    <3> QED BY <2>2, <3>1, FS_EmptySet
  <2> QED BY <2>1, <2>2
<1>5. \A k \in DOMAIN layers :
        layers[k] \in Telling =>
          (~PanicLeaves(k) <=> k \in reporting \cup {t.layer : t \in told})
  BY <1>2 DEF WebInv, Tells
<1>6. ASSUME way = "sent", NEW t \in told
      PROVE  \/ t.status = sent
             \/ \E j \in 1 .. t.layer - 1 : Recovered(j)
             \/ t.status = 0 /\ sent = 200 /\ MayBeUnset
             \/ handler = "direct" /\ SetByRecovery
  <2>1. t.status = status \/ \E j \in 1 .. t.layer - 1 : Recovered(j)
    BY <1>2 DEF WebInv, Response
  <2>2. t.status = 0 => MayBeUnset
    BY <1>2 DEF WebInv, Response
  <2>3. handler = "direct" /\ t.status # 0 => SetByRecovery
    BY <1>2 DEF WebInv, Response, SetByRecovery
  <2>4. sent = IF handler = "direct" THEN 200 ELSE IF status > 0 THEN status ELSE 200
    BY <1>2, <1>6 DEF WebInv, Response
  <2>5. status # 0 => status > 0
    BY DEF WebInv, Response, Statuses
  <2> HIDE DEF Recovered
  <2> QED BY <2>1, <2>2, <2>3, <2>4, <2>5
<1>7. ASSUME way = "sent"
      PROVE  /\ data.kind = "page" =>
                  \/ data.of = sent
                  \/ data.of = 0 /\ sent = 200 /\ MayBeUnset
                  \/ handler = "direct" /\ SetByRecovery
             /\ layers[1] = "errhdl" /\ sent \in Pages =>
                  \/ data = Page(sent)
                  \/ handler = "direct"
                  \/ sent = 200 /\ MayBeUnset
  <2>1. /\ data.kind = "page" => data.of = status
        /\ layers[1] = "errhdl" /\ status \in Pages => data = Page(status)
    BY <1>2, <1>7 DEF WebInv, Response
  <2>2. /\ status = 0 => MayBeUnset
        /\ status # 0 => status > 0
    BY <1>2, <1>7 DEF WebInv, Response, Statuses
  <2>3. sent = IF handler = "direct" THEN 200 ELSE IF status > 0 THEN status ELSE 200
    BY <1>2, <1>7 DEF WebInv, Response
  <2>4. handler = "direct" /\ status # 0 => SetByRecovery
    <3>1. \A j \in at + 1 .. Len(layers) : j \in DOMAIN layers
      BY <1>2
    <3> QED BY <1>2, <3>1 DEF WebInv, Response, SetByRecovery
  <2> QED BY <2>1, <2>2, <2>3, <2>4
<1> HIDE DEF Recovered
<1> QED BY <1>1, <1>3, <1>4, <1>5, <1>6, <1>7 DEF ToldWhatWasSent, Logging, Telling

\* Once a request is over, its access logs were written once each, it was dropped
\* exactly if a panic got past every recovery, and metrics, spans and pages agree with
\* the status that the client got, but for recoveries further out, a status left to
\* net/http, and one that the handler wrote itself before a recovery set another: for
\* any middlewares in any order, any handler and any pages.
THEOREM LayersTellWhatWasSent == Spec => []ToldWhatWasSent
BY WebInit, InvNext, InvIsTruth, PTL DEF Spec
==================================================================================
