----------------------------- MODULE RpcCallProofs -----------------------------
(***************************************************************************)
(* Proofs about rpc/homework1.  For every set of messages, the decoders    *)
(* undo the encoders, and ReadMsg finds in the bytes of a connection the   *)
(* messages that were written to it: MessageStream implements              *)
(* MessageQueue.  For every set of calls and connections, RpcCall          *)
(* implements AtMostOnce: nothing in the code matches a response with its  *)
(* request; what makes it right is that a connection serves one call only. *)
(***************************************************************************)
EXTENDS RpcCall, MessageStream, SequenceTheorems, FiniteSetTheorems, Induction, TLAPS

-----------------------------------------------------------------------------
(* The layout of a message.                                                *)

\* Four bytes hold every number below 2^32.
LEMMA FourBytes ==
  ASSUME NEW n \in Nat
  PROVE  /\ PutUint32(n) \in Seq(Byte) /\ Len(PutUint32(n)) = 4
         /\ Fits(n) => ToUint32(n) = n
<1> DEFINE a == (n \div 16777216) % 256
           b == (n \div 65536) % 256
           c == (n \div 256) % 256
           d == n % 256
<1>1. a \in Byte /\ b \in Byte /\ c \in Byte /\ d \in Byte
  BY DEF Byte
<1>2. PutUint32(n) = <<a, b, c, d>>
  BY DEF PutUint32
<1>3. <<a, b, c, d>> \in Seq(Byte) /\ Len(<<a, b, c, d>>) = 4
  <2> HIDE DEF a, b, c, d
  <2> QED
    BY <1>1
<1>4. ASSUME Fits(n) PROVE 16777216 * a + 65536 * b + 256 * c + d = n
  BY <1>4 DEF Fits
<1>5. ToUint32(n) = 16777216 * a + 65536 * b + 256 * c + d
  <2> HIDE DEF a, b, c, d
  <2> QED
    BY <1>2 DEF ToUint32, Uint32
<1> HIDE DEF a, b, c, d
<1> QED
  BY <1>2, <1>3, <1>4, <1>5

\* A sequence of bytes is cut where two were joined.
LEMMA CutJoined ==
  ASSUME NEW S, NEW s \in Seq(S), NEW t \in Seq(S)
  PROVE  /\ s \o t \in Seq(S) /\ Len(s \o t) = Len(s) + Len(t)
         /\ First(s \o t, Len(s)) = s /\ Rest(s \o t, Len(s)) = t
<1> DEFINE j == s \o t
<1>1. /\ j \in Seq(S) /\ Len(j) = Len(s) + Len(t) /\ Len(s) \in Nat /\ Len(t) \in Nat
      /\ \A i \in 1 .. Len(s) + Len(t) : j[i] = IF i <= Len(s) THEN s[i] ELSE t[i - Len(s)]
  BY ConcatProperties, LenProperties
<1> HIDE DEF j
<1>2. \A i \in 1 .. Len(j) : j[i] \in S
  BY <1>1, ElementOfSeq
<1>3. First(j, Len(s)) = s
  <2>1. /\ First(j, Len(s)) \in Seq(S) /\ Len(First(j, Len(s))) = Len(s)
        /\ \A i \in 1 .. Len(s) : First(j, Len(s))[i] = j[i]
    BY <1>1, <1>2, SubSeqProperties DEF First
  <2> QED
    BY <1>1, <2>1, SeqEqual
<1>4. Rest(j, Len(s)) = t
  <2>1. /\ Rest(j, Len(s)) \in Seq(S) /\ Len(Rest(j, Len(s))) = Len(t)
        /\ \A i \in 1 .. Len(t) : Rest(j, Len(s))[i] = j[Len(s) + i]
    BY <1>1, <1>2, SubSeqProperties DEF Rest
  <2>2. \A i \in 1 .. Len(t) : j[Len(s) + i] = t[i]
    BY <1>1
  <2> QED
    BY <1>1, <2>1, <2>2, SeqEqual
<1> QED
  BY <1>1, <1>3, <1>4 DEF j

\* Where s has no separator, the first one is the one after s.
LEMMA FieldIsFound ==
  ASSUME NEW b \in Byte, NEW s \in Seq(Byte \ {b}), NEW rest \in Seq(Byte)
  PROVE  LET x == Field(s, b, rest)
         IN  /\ x \in Seq(Byte) /\ Len(x) = Len(s) + 1 + Len(rest)
             /\ IndexByte(x, b) = Len(s)
             /\ First(x, Len(s)) = s /\ Rest(x, Len(s) + 1) = rest
<1> DEFINE x == Field(s, b, rest)
           p == s \o <<b>>
           places == {i \in 0 .. Len(x) - 1 : x[i + 1] = b}
<1>1. s \in Seq(Byte) /\ <<b>> \in Seq(Byte) /\ Len(<<b>>) = 1 /\ Len(s) \in Nat /\ Len(rest) \in Nat
  BY SeqMonotonic, LenProperties
<1>2. /\ p \in Seq(Byte) /\ Len(p) = Len(s) + 1
      /\ \A i \in 1 .. Len(s) + 1 : p[i] = IF i <= Len(s) THEN s[i] ELSE <<b>>[i - Len(s)]
  BY <1>1, ConcatProperties
<1>3. x = p \o rest
  BY DEF Field
<1> HIDE DEF p
<1>4. /\ x \in Seq(Byte) /\ Len(x) = Len(s) + 1 + Len(rest) /\ Rest(x, Len(s) + 1) = rest
      /\ \A i \in 1 .. Len(s) + 1 : x[i] = p[i]
  <2>1. /\ p \o rest \in Seq(Byte) /\ Len(p \o rest) = Len(p) + Len(rest)
        /\ Rest(p \o rest, Len(p)) = rest
    BY <1>2, CutJoined
  <2>2. \A i \in 1 .. Len(p) + Len(rest) : (p \o rest)[i] = IF i <= Len(p) THEN p[i] ELSE rest[i - Len(p)]
    BY <1>2, ConcatProperties
  <2> HIDE DEF x
  <2> QED
    BY <1>1, <1>2, <1>3, <2>1, <2>2
<1>5. x = s \o (<<b>> \o rest)
  BY <1>1, ConcatAssociative DEF Field
<1>6. First(x, Len(s)) = s
  <2>1. <<b>> \o rest \in Seq(Byte)
    BY <1>1, ConcatProperties
  <2>2. First(s \o (<<b>> \o rest), Len(s)) = s
    BY <1>1, <2>1, CutJoined
  <2> HIDE DEF x
  <2> QED
    BY <1>5, <2>2
<1> HIDE DEF x
<1>7. \A i \in 1 .. Len(s) : s[i] # b
  BY ElementOfSeq
<1>8. Len(s) \in places /\ \A i \in places : Len(s) <= i
  <2>1. x[Len(s) + 1] = b
    BY <1>1, <1>2, <1>4
  <2>2. ASSUME NEW i \in 0 .. Len(s) - 1 PROVE x[i + 1] # b
    BY <1>1, <1>2, <1>4, <1>7
  <2> QED
    BY <1>1, <1>4, <2>1, <2>2
<1>9. IndexByte(x, b) = Len(s)
  <2>1. \A i \in places : (\A j \in places : i <= j) => i = Len(s)
    <3>1. \A i \in places : i \in Int
      BY <1>4
    <3> HIDE DEF places
    <3> QED
      BY <1>1, <1>8, <3>1
  <2>2. IndexByte(x, b) = CHOOSE i \in places : \A j \in places : i <= j
    BY <1>8 DEF IndexByte
  <2> HIDE DEF places
  <2> QED
    BY <1>8, <2>1, <2>2
<1> QED
  BY <1>4, <1>6, <1>9 DEF x

\* Metadata in an order of its keys.
Ordered(meta, order) ==
  /\ order \in Seq(Key)
  /\ \A i \in 1 .. Len(order) : meta[order[i]] \in Name

\* A pair as EncodeReq writes it.
PairField(meta, k, rest) == Field(k, PairSplitter, Field(meta[k], Splitter, rest))

\* A round of the loop takes the pair at the front of the head.
LEMMA OnePair ==
  ASSUME NEW meta, NEW k \in Key, meta[k] \in Name, NEW rest \in Seq(Byte)
  PROVE  LET pair == Field(k, PairSplitter, meta[k])
         IN  /\ PairField(meta, k, rest) = Field(pair, Splitter, rest)
             /\ pair \in Seq(Byte \ {Splitter}) /\ Len(pair) = Len(k) + 1 + Len(meta[k])
             /\ PairField(meta, k, rest) \in Seq(Byte)
             /\ Len(PairField(meta, k, rest)) = Len(k) + 1 + Len(meta[k]) + 1 + Len(rest)
             /\ IndexByte(pair, PairSplitter) = Len(k)
             /\ First(pair, Len(k)) = k /\ Rest(pair, Len(k) + 1) = meta[k]
<1> DEFINE v == meta[k]
           pair == Field(k, PairSplitter, v)
           B == Byte \ {Splitter}
<1>1. /\ k \in Seq(B) /\ k \in Seq(Byte \ {PairSplitter}) /\ v \in Seq(B)
      /\ k \in Seq(Byte) /\ v \in Seq(Byte)
  <2>1. k \in Seq(Byte \ {Splitter, PairSplitter}) /\ v \in Seq(B)
    BY DEF Key, Name
  <2> HIDE DEF v
  <2> QED
    BY <2>1, SeqMonotonic
<1>2. /\ Splitter \in Byte /\ PairSplitter \in Byte /\ PairSplitter \in B
      /\ Splitter # PairSplitter
  BY DEF Byte, Splitter, PairSplitter
<1>3. /\ Len(k) \in Nat /\ Len(v) \in Nat /\ Len(rest) \in Nat
  BY <1>1, LenProperties
<1> HIDE DEF v
<1>4. /\ pair \in Seq(Byte) /\ Len(pair) = Len(k) + 1 + Len(v)
      /\ IndexByte(pair, PairSplitter) = Len(k)
      /\ First(pair, Len(k)) = k /\ Rest(pair, Len(k) + 1) = v
  BY <1>1, <1>2, FieldIsFound
<1>5. pair \in Seq(B)
  <2>1. <<PairSplitter>> \in Seq(B)
    BY <1>2
  <2>2. k \o <<PairSplitter>> \in Seq(B)
    BY <1>1, <2>1, ConcatProperties
  <2> QED
    BY <1>1, <2>2, ConcatProperties DEF Field
<1>6. PairField(meta, k, rest) = Field(pair, Splitter, rest)
  <2> DEFINE p == k \o <<PairSplitter>>
             w == v \o <<Splitter>>
  <2>1. p \in Seq(Byte) /\ <<Splitter>> \in Seq(Byte)
    <3>1. <<PairSplitter>> \in Seq(Byte) /\ <<Splitter>> \in Seq(Byte)
      BY <1>2
    <3> QED
      BY <1>1, <3>1, ConcatProperties
  <2>2. w \in Seq(Byte)
    BY <1>1, <2>1, ConcatProperties
  <2>3. PairField(meta, k, rest) = p \o (w \o rest)
    BY DEF PairField, Field, v
  <2>4. pair = p \o v
    BY DEF Field
  <2> HIDE DEF p, w, pair
  <2>5. p \o (w \o rest) = (p \o w) \o rest
    BY <2>1, <2>2, ConcatAssociative
  <2>6. p \o w = (p \o v) \o <<Splitter>>
    BY <1>1, <2>1, ConcatAssociative DEF w
  <2> QED
    BY <2>3, <2>4, <2>5, <2>6 DEF Field
<1> HIDE DEF pair
<1>7. /\ Field(pair, Splitter, rest) \in Seq(Byte)
      /\ Len(Field(pair, Splitter, rest)) = Len(pair) + 1 + Len(rest)
  BY <1>2, <1>5, FieldIsFound
<1>8. Len(PairField(meta, k, rest)) = Len(k) + 1 + Len(v) + 1 + Len(rest)
  BY <1>3, <1>4, <1>6, <1>7
<1> QED
  BY <1>4, <1>5, <1>6, <1>7, <1>8 DEF pair, v

\* The loop of EncodeReq over the metadata.
LEMMA PutMetaSteps ==
  ASSUME NEW meta, NEW order, Ordered(meta, order)
  PROVE  \E put : /\ put \in [0 .. Len(order) -> Seq(Byte)]
                  /\ put[0] = <<>> /\ PutMeta(meta, order) = put[Len(order)]
                  /\ \A i \in 1 .. Len(order) : put[i] = PairField(meta, order[i], put[i - 1])
<1> DEFINE n == Len(order)
           step == [x \in Seq(Byte) \X (1 .. n) |-> PairField(meta, order[x[2]], x[1])]
           Def(put) == [i \in 0 .. n |-> IF i = 0 THEN <<>> ELSE PairField(meta, order[i], put[i - 1])]
           put == CHOOSE put : put = Def(put)
<1>1. n \in Nat /\ \A i \in 1 .. n : order[i] \in Key /\ meta[order[i]] \in Name
  BY LenProperties, ElementOfSeq DEF Ordered
<1>2. PICK f : Iterates(f, Seq(Byte), <<>>, n, step)
  <2>1. ASSUME NEW x \in Seq(Byte) \X (1 .. n) PROVE PairField(meta, order[x[2]], x[1]) \in Seq(Byte)
    <3>1. x[1] \in Seq(Byte) /\ x[2] \in 1 .. n
      OBVIOUS
    <3> HIDE DEF n
    <3> QED
      BY <1>1, <3>1, OnePair
  <2>2. Steps(Seq(Byte), n, step)
    <3> HIDE DEF n
    <3> QED
      BY <2>1 DEF Steps
  <2>3. <<>> \in Seq(Byte)
    OBVIOUS
  <2> HIDE DEF n, step
  <2> QED
    BY <1>1, <2>2, <2>3, IterationExists
<1>3. f = Def(f)
  <2> HIDE DEF n
  <2>1. f \in [0 .. n -> Seq(Byte)] /\ f[0] = <<>>
    BY <1>2 DEF Iterates
  <2>2. ASSUME NEW i \in 1 .. n PROVE f[i] = PairField(meta, order[i], f[i - 1])
    <3>1. <<f[i - 1], i>> \in Seq(Byte) \X (1 .. n)
      <4>1. i - 1 \in 0 .. n
        BY <1>1
      <4> QED
        BY <2>1, <4>1
    <3>2. f[i] = step[<<f[i - 1], i>>]
      BY <1>2 DEF Iterates
    <3> QED
      BY <3>1, <3>2
  <2>3. \A i \in 0 .. n : i = 0 \/ i \in 1 .. n
    BY <1>1
  <2>4. \A i \in 0 .. n : f[i] = IF i = 0 THEN <<>> ELSE PairField(meta, order[i], f[i - 1])
    BY <2>1, <2>2, <2>3
  <2> QED
    BY <2>1, <2>4
<1>4. put = Def(put)
  <2> HIDE DEF Def
  <2> QED
    BY <1>3
<1>5. PutMeta(meta, order) = put[n]
  BY DEF PutMeta, PairField
<1>6. put[0] = <<>> /\ \A i \in 1 .. n : put[i] = PairField(meta, order[i], put[i - 1])
  <2> HIDE DEF put, n
  <2>1. put[0] = <<>>
    BY <1>1, <1>4
  <2>2. ASSUME NEW i \in 1 .. n PROVE put[i] = PairField(meta, order[i], put[i - 1])
    <3>1. i \in 0 .. n /\ i # 0
      BY <1>1, <2>2
    <3> QED
      BY <1>4, <3>1
  <2> QED
    BY <2>1, <2>2
<1>7. put \in [0 .. n -> Seq(Byte)]
  <2> DEFINE P == {i \in 0 .. n : put[i] \in Seq(Byte)}
  <2> HIDE DEF put, n
  <2>1. 0 \in P
    <3>1. <<>> \in Seq(Byte) /\ 0 \in 0 .. n
      BY <1>1
    <3> QED
      BY <1>6, <3>1
  <2>2. ASSUME NEW i \in 0 .. n, i < n, i \in P PROVE i + 1 \in P
    <3>1. i + 1 \in 1 .. n /\ i + 1 - 1 = i /\ put[i] \in Seq(Byte) /\ i + 1 \in 0 .. n
      BY <1>1, <2>2
    <3>2. put[i + 1] = PairField(meta, order[i + 1], put[i])
      BY <1>6, <3>1
    <3>3. PairField(meta, order[i + 1], put[i]) \in Seq(Byte)
      BY <1>1, <3>1, OnePair
    <3> QED
      BY <3>1, <3>2, <3>3
  <2>3. 0 .. n \subseteq P
    <3> HIDE DEF P
    <3> QED
      BY <1>1, <2>1, <2>2, CountUp
  <2>4. \A i \in 0 .. n : put[i] \in Seq(Byte)
    BY <2>3
  <2> HIDE DEF P, Def
  <2> QED
    BY <1>4, <2>4 DEF Def
<1> HIDE DEF put
<1> QED
  BY <1>5, <1>6, <1>7

\* DecodeReq's loop takes the pairs off the head one by one, the last one that
\* was put there first, and has all the metadata when the head is empty.
LEMMA DecodeMetaOfPut ==
  ASSUME NEW meta, NEW order, Ordered(meta, order),
         meta = [k \in DOMAIN meta |-> meta[k]],
         DOMAIN meta = {order[i] : i \in 1 .. Len(order)}
  PROVE  DecodeMeta(PutMeta(meta, order)) = meta
<1> DEFINE n == Len(order)
           h == PutMeta(meta, order)
           L == Len(h)
           Seen(i) == {order[j] : j \in {j \in 1 .. n : j > n - i}}
           Left(i) == IF i <= n THEN n - i ELSE 0
<1>1. n \in Nat /\ \A i \in 1 .. n : order[i] \in Key /\ meta[order[i]] \in Name
  BY LenProperties, ElementOfSeq DEF Ordered
<1>2. PICK put : /\ put \in [0 .. n -> Seq(Byte)]
                 /\ put[0] = <<>> /\ PutMeta(meta, order) = put[n]
                 /\ \A i \in 1 .. n : put[i] = PairField(meta, order[i], put[i - 1])
  BY PutMetaSteps
<1> DEFINE f == [i \in 0 .. L |->
                   [head |-> put[Left(i)], meta |-> [k \in Seen(i) |-> meta[k]]]]
           Def(loop) == [i \in 0 .. L |->
                           IF i = 0 THEN [head |-> h, meta |-> [k \in {} |-> <<>>]]
                                    ELSE TakePair(loop[i - 1])]
           loop == CHOOSE loop : loop = Def(loop)
<1>3. h = put[n] /\ h \in Seq(Byte) /\ L \in Nat
  BY <1>1, <1>2, LenProperties
<1>4. L >= n
  <2> DEFINE P == {i \in 0 .. n : Len(put[i]) >= i}
  <2> HIDE DEF n
  <2>1. 0 \in P
    BY <1>1, <1>2
  <2>2. ASSUME NEW i \in 0 .. n, i < n, i \in P PROVE i + 1 \in P
    <3>1. i + 1 \in 1 .. n /\ i + 1 - 1 = i /\ put[i] \in Seq(Byte) /\ i + 1 \in 0 .. n
      BY <1>1, <1>2, <2>2
    <3>2. put[i + 1] = PairField(meta, order[i + 1], put[i])
      BY <1>2, <3>1
    <3> DEFINE k0 == order[i + 1]
               p0 == put[i]
    <3>3. k0 \in Key /\ meta[k0] \in Name /\ p0 \in Seq(Byte)
      BY <1>1, <3>1
    <3>4. Len(p0) >= i /\ i \in Nat
      BY <1>1, <2>2
    <3> HIDE DEF k0, p0, P
    <3>5. Len(PairField(meta, k0, p0)) = Len(k0) + 1 + Len(meta[k0]) + 1 + Len(p0)
      BY <3>3, OnePair
    <3>6. Len(k0) \in Nat /\ Len(meta[k0]) \in Nat /\ Len(p0) \in Nat
      BY <3>3, LenProperties DEF Key, Name
    <3>7. put[i + 1] = PairField(meta, k0, p0)
      BY <3>2 DEF k0, p0
    <3>8. Len(put[i + 1]) = Len(k0) + 1 + Len(meta[k0]) + 1 + Len(p0)
      BY <3>5, <3>7
    <3>9. Len(put[i + 1]) >= i + 1
      <4> DEFINE l == Len(put[i + 1])
                 a == Len(k0)
                 b == Len(meta[k0])
                 c == Len(p0)
      <4>1. l = a + 1 + b + 1 + c /\ a \in Nat /\ b \in Nat /\ c \in Nat /\ c >= i /\ i \in Nat
        BY <3>4, <3>6, <3>8
      <4> HIDE DEF l, a, b, c
      <4>2. l >= i + 1
        BY <4>1
      <4> QED
        BY <4>2 DEF l
    <3> QED
      BY <3>1, <3>9 DEF P
  <2>3. 0 .. n \subseteq P
    <3> HIDE DEF P
    <3> QED
      BY <1>1, <2>1, <2>2, CountUp
  <2> QED
    BY <1>1, <1>3, <2>3
<1>5. \A i \in 0 .. L : Left(i) \in 0 .. n
  BY <1>1, <1>3
<1> HIDE DEF h
<1>6. ASSUME NEW i \in 1 .. L, i <= n
      PROVE  TakePair([head |-> put[Left(i - 1)], meta |-> [k \in Seen(i - 1) |-> meta[k]]])
               = [head |-> put[Left(i)], meta |-> [k \in Seen(i) |-> meta[k]]]
  <2> DEFINE j == n - i + 1
             k0 == order[j]
             v == meta[k0]
             pair == Field(k0, PairSplitter, v)
             old == [k \in Seen(i - 1) |-> meta[k]]
             s == [head |-> put[Left(i - 1)], meta |-> old]
  <2>1. j \in 1 .. n /\ Left(i - 1) = j /\ Left(i) = j - 1 /\ j - 1 \in 0 .. n
    BY <1>1, <1>6
  <2>2. Seen(i) = Seen(i - 1) \union {k0}
    <3>1. {l \in 1 .. n : l > n - i} = {l \in 1 .. n : l > n - (i - 1)} \union {j}
      BY <1>1, <1>6, <2>1
    <3> DEFINE A == {l \in 1 .. n : l > n - (i - 1)}
    <3> HIDE DEF A, j
    <3> QED
      BY <3>1 DEF A
  <2> HIDE DEF n, j, Left
  <2>3. k0 \in Key /\ v \in Name /\ put[j - 1] \in Seq(Byte)
    BY <1>1, <1>2, <2>1
  <2> HIDE DEF k0
  <2>4. /\ put[j] = Field(pair, Splitter, put[j - 1])
        /\ pair \in Seq(Byte \ {Splitter}) /\ Len(pair) \in Nat
        /\ IndexByte(pair, PairSplitter) = Len(k0)
        /\ First(pair, Len(k0)) = k0 /\ Rest(pair, Len(k0) + 1) = v
    <3>1. put[j] = PairField(meta, k0, put[j - 1])
      BY <1>2, <2>1 DEF k0
    <3> DEFINE q == put[j - 1]
    <3>2. k0 \in Key /\ meta[k0] \in Name /\ q \in Seq(Byte)
      BY <2>3
    <3> HIDE DEF q
    <3>3. LET p == Field(k0, PairSplitter, meta[k0])
          IN  /\ PairField(meta, k0, q) = Field(p, Splitter, q)
              /\ p \in Seq(Byte \ {Splitter})
              /\ IndexByte(p, PairSplitter) = Len(k0)
              /\ First(p, Len(k0)) = k0 /\ Rest(p, Len(k0) + 1) = meta[k0]
      BY <3>2, OnePair
    <3>4. /\ PairField(meta, k0, q) = Field(pair, Splitter, q)
          /\ pair \in Seq(Byte \ {Splitter})
          /\ IndexByte(pair, PairSplitter) = Len(k0)
          /\ First(pair, Len(k0)) = k0 /\ Rest(pair, Len(k0) + 1) = v
      BY <3>3
    <3> HIDE DEF pair, v
    <3>5. Len(pair) \in Nat
      BY <3>4, LenProperties
    <3> QED
      BY <3>1, <3>4, <3>5 DEF q
  <2> HIDE DEF pair, v
  <2>5. /\ IndexByte(put[j], Splitter) = Len(pair)
        /\ First(put[j], Len(pair)) = pair /\ Rest(put[j], Len(pair) + 1) = put[j - 1]
    <3>1. Splitter \in Byte
      BY DEF Splitter, Byte
    <3> DEFINE q == put[j - 1]
    <3>2. q \in Seq(Byte) /\ pair \in Seq(Byte \ {Splitter}) /\ put[j] = Field(pair, Splitter, q)
      BY <2>3, <2>4
    <3> HIDE DEF q
    <3>3. LET x == Field(pair, Splitter, q)
          IN  /\ IndexByte(x, Splitter) = Len(pair)
              /\ First(x, Len(pair)) = pair /\ Rest(x, Len(pair) + 1) = q
      BY <3>1, <3>2, FieldIsFound
    <3> QED
      BY <3>2, <3>3 DEF q
  <2> HIDE DEF old, Seen
  <2>6. TakePair(s) = [head |-> put[j - 1], meta |-> PutKey(old, k0, v)]
    <3>1. s.head = put[j] /\ s.meta = old /\ Len(pair) # -1
      BY <2>1, <2>4
    <3> HIDE DEF s
    <3> QED
      BY <2>4, <2>5, <3>1 DEF TakePair
  <2>7. PutKey(old, k0, v) = [k \in Seen(i) |-> meta[k]]
    <3>1. DOMAIN old = Seen(i - 1) /\ \A k \in Seen(i - 1) : old[k] = meta[k]
      BY DEF old
    <3> QED
      BY <2>2, <3>1 DEF PutKey, v
  <2> QED
    BY <2>1, <2>6, <2>7 DEF s, old
<1>7. ASSUME NEW i \in 1 .. L, i > n
      PROVE  TakePair([head |-> put[Left(i - 1)], meta |-> [k \in Seen(i - 1) |-> meta[k]]])
               = [head |-> put[Left(i)], meta |-> [k \in Seen(i) |-> meta[k]]]
  <2>1. Left(i - 1) = 0 /\ Left(i) = 0
    BY <1>1, <1>7
  <2>2. Seen(i - 1) = Seen(i)
    <3>1. {l \in 1 .. n : l > n - i} = 1 .. n /\ {l \in 1 .. n : l > n - (i - 1)} = 1 .. n
      BY <1>1, <1>7
    <3> HIDE DEF n
    <3> QED
      BY <3>1
  <2>3. IndexByte(<<>>, Splitter) = -1
    <3>1. {x \in 0 .. Len(<<>>) - 1 : <<>>[x + 1] = Splitter} = {}
      OBVIOUS
    <3> QED
      BY <3>1 DEF IndexByte
  <2> HIDE DEF Seen, Left
  <2> QED
    BY <1>2, <2>1, <2>2, <2>3 DEF TakePair
<1>8. f[0] = [head |-> h, meta |-> [k \in {} |-> <<>>]]
  <2>1. Left(0) = n /\ 0 \in 0 .. L
    BY <1>1, <1>3
  <2>2. Seen(0) = {}
    <3>1. {j \in 1 .. n : j > n - 0} = {}
      BY <1>1
    <3> HIDE DEF n
    <3> QED
      BY <3>1
  <2> HIDE DEF Seen, Left, L, n
  <2> QED
    BY <1>3, <2>1, <2>2
<1>9. ASSUME NEW i \in 1 .. L PROVE i - 1 \in 0 .. L /\ f[i] = TakePair(f[i - 1])
  <2>1. i - 1 \in 0 .. L /\ i \in 0 .. L /\ (i <= n \/ i > n)
    BY <1>1, <1>3
  <2> HIDE DEF Seen, Left, L, n
  <2> QED
    BY <1>6, <1>7, <2>1
<1>10. f = Def(f)
  <2>1. \A i \in 0 .. L : i = 0 \/ i \in 1 .. L
    BY <1>3
  <2> DEFINE g == f
  <2>2. g = [i \in 0 .. L |-> g[i]]
    OBVIOUS
  <2> HIDE DEF g, L
  <2>3. \A i \in 0 .. L : g[i] = IF i = 0 THEN [head |-> h, meta |-> [k \in {} |-> <<>>]]
                                          ELSE TakePair(g[i - 1])
    BY <1>8, <1>9, <2>1 DEF g
  <2>4. g = Def(g)
    BY <2>2, <2>3
  <2> QED
    BY <2>4 DEF g
<1>11. loop = Def(loop)
  <2> HIDE DEF Def, f
  <2> QED
    BY <1>10
<1>12. DecodeMeta(h) = loop[L].meta
  BY DEF DecodeMeta
<1>13. loop[L] = f[L]
  <2> DEFINE P == {i \in 0 .. L : loop[i] = f[i]}
  <2> HIDE DEF loop, f, L
  <2>1. 0 \in P
    <3>1. 0 \in 0 .. L
      BY <1>3
    <3> QED
      BY <1>8, <1>11, <3>1
  <2>2. ASSUME NEW i \in 0 .. L, i < L, i \in P PROVE i + 1 \in P
    <3>1. i + 1 \in 1 .. L /\ i + 1 \in 0 .. L /\ i + 1 - 1 = i /\ i + 1 # 0 /\ loop[i] = f[i]
      BY <1>3, <2>2
    <3>2. loop[i + 1] = TakePair(loop[i])
      BY <1>11, <3>1
    <3>3. f[i + 1] = TakePair(f[i])
      BY <1>9, <3>1
    <3> QED
      BY <3>1, <3>2, <3>3
  <2>3. 0 .. L \subseteq P
    <3> HIDE DEF P
    <3> QED
      BY <1>3, <2>1, <2>2, CountUp
  <2> QED
    BY <1>3, <2>3
<1>14. f[L].meta = meta
  <2>1. Seen(L) = DOMAIN meta /\ L \in 0 .. L
    <3>1. {j \in 1 .. n : j > n - L} = 1 .. n /\ L \in 0 .. L
      BY <1>1, <1>3, <1>4
    <3>2. DOMAIN meta = {order[j] : j \in 1 .. n}
      OBVIOUS
    <3> HIDE DEF n, L
    <3> QED
      BY <3>1, <3>2
  <2>2. f[L].meta = [k \in Seen(L) |-> meta[k]]
    <3> HIDE DEF Seen, L
    <3> QED
      BY <2>1
  <2> HIDE DEF f, Seen
  <2> QED
    BY <2>1, <2>2
<1> HIDE DEF loop, f
<1> QED
  BY <1>12, <1>13, <1>14 DEF h

\* An order of the keys of a finite map.
LEMMA OrderProperties ==
  ASSUME NEW K, IsFiniteSet(K), NEW order \in Orders(K)
  PROVE  /\ Len(order) = Cardinality(K) /\ Len(order) \in Nat
         /\ order \in [1 .. Len(order) -> K] /\ order \in Seq(K)
         /\ \A i, j \in 1 .. Len(order) : order[i] = order[j] => i = j
         /\ \A k \in K : \E i \in 1 .. Len(order) : order[i] = k
         /\ K = {order[i] : i \in 1 .. Len(order)}
<1>1. Cardinality(K) \in Nat
  BY FS_CardinalityType
<1>2. order \in [1 .. Cardinality(K) -> K]
  BY DEF Orders
<1>3. order \in Seq(K) /\ Len(order) = Cardinality(K) /\ DOMAIN order = 1 .. Len(order)
  BY <1>1, <1>2
<1>4. /\ \A i, j \in 1 .. Len(order) : order[i] = order[j] => i = j
      /\ \A k \in K : \E i \in 1 .. Len(order) : order[i] = k
  BY <1>3 DEF Orders
<1>5. order \in [1 .. Len(order) -> K]
  BY <1>2, <1>3
<1>6. K = {order[i] : i \in 1 .. Len(order)}
  BY <1>4, <1>5
<1> QED
  BY <1>1, <1>3, <1>4, <1>5, <1>6

\* The sum of the weights of distinct things is the same in every order.
Sums(K, w, m, s, a) ==
  /\ s \in [1 .. m -> K] /\ a \in [0 .. m -> Int]
  /\ \A i \in 1 .. m : a[i] = a[i - 1] + w[s[i]]

Reorders(m, s, t) ==
  /\ \A i, j \in 1 .. m : s[i] = s[j] => i = j
  /\ \A i \in 1 .. m : \E j \in 1 .. m : s[i] = t[j]

\* A sum over the keys of a map is the same in every order.
LEMMA SumInAnyOrder ==
  ASSUME NEW K, NEW w \in [K -> Int], NEW n \in Nat, NEW s, NEW t, NEW a, NEW b,
         Sums(K, w, n, s, a), Sums(K, w, n, t, b), a[0] = b[0], Reorders(n, s, t)
  PROVE  a[n] = b[n]
<1> DEFINE Same(m, s1, t1, a1, b1) ==
             /\ Sums(K, w, m, s1, a1) /\ Sums(K, w, m, t1, b1) /\ a1[0] = b1[0]
             /\ \A i, j \in 1 .. m : s1[i] = s1[j] => i = j
             /\ \A i \in 1 .. m : \E j \in 1 .. m : s1[i] = t1[j]
           P == {m \in 0 .. n : \A s1, t1, a1, b1 : Same(m, s1, t1, a1, b1) => a1[m] = b1[m]}
<1>1. 0 \in P
  OBVIOUS
<1>2. ASSUME NEW m \in 0 .. n, m < n, m \in P PROVE m + 1 \in P
  <2> SUFFICES ASSUME NEW s1, NEW t1, NEW a1, NEW b1, Same(m + 1, s1, t1, a1, b1)
               PROVE  a1[m + 1] = b1[m + 1]
    BY <1>2
  <2>1. m \in Nat /\ m + 1 \in 1 .. m + 1
    OBVIOUS
  <2>2. PICK j \in 1 .. m + 1 : s1[m + 1] = t1[j]
    BY <2>1
  <2> DEFINE x == s1[m + 1]
             s2 == [i \in 1 .. m |-> s1[i]]
             t2 == [i \in 1 .. m |-> IF i < j THEN t1[i] ELSE t1[i + 1]]
             a2 == [i \in 0 .. m |-> a1[i]]
             b2 == [i \in 0 .. m |-> IF i < j THEN b1[i] ELSE b1[i + 1] - w[x]]
  <2>3. /\ s1 \in [1 .. m + 1 -> K] /\ t1 \in [1 .. m + 1 -> K]
        /\ a1 \in [0 .. m + 1 -> Int] /\ b1 \in [0 .. m + 1 -> Int]
        /\ \A i \in 1 .. m + 1 : a1[i] = a1[i - 1] + w[s1[i]] /\ b1[i] = b1[i - 1] + w[t1[i]]
        /\ a1[0] = b1[0]
        /\ \A i, l \in 1 .. m + 1 : s1[i] = s1[l] => i = l
        /\ \A i \in 1 .. m + 1 : \E l \in 1 .. m + 1 : s1[i] = t1[l]
    BY DEF Sums
  <2> HIDE DEF Same
  <2>4. x \in K /\ w[x] \in Int /\ t1[j] = x /\ b1[j] = b1[j - 1] + w[x]
    BY <2>1, <2>2, <2>3
  <2>5. Sums(K, w, m, s2, a2)
    <3>1. \A i \in 1 .. m : i \in 1 .. m + 1 /\ i - 1 \in 0 .. m /\ i \in 0 .. m
      BY <2>1
    <3>2. s2 \in [1 .. m -> K] /\ a2 \in [0 .. m -> Int]
      <4>1. (\A i \in 1 .. m : i \in 1 .. m + 1) /\ (\A i \in 0 .. m : i \in 0 .. m + 1)
        BY <2>1
      <4> QED
        BY <2>3, <4>1
    <3>3. \A i \in 1 .. m : a2[i] = a2[i - 1] + w[s2[i]]
      BY <2>3, <3>1
    <3> HIDE DEF s2, a2
    <3> QED
      BY <3>2, <3>3 DEF Sums
  <2>6. Sums(K, w, m, t2, b2)
    <3>1. t2 \in [1 .. m -> K]
      <4>1. ASSUME NEW i \in 1 .. m PROVE t1[i] \in K /\ t1[i + 1] \in K
        <5>1. i \in 1 .. m + 1 /\ i + 1 \in 1 .. m + 1
          BY <2>1
        <5> QED
          BY <2>3, <5>1
      <4> QED
        BY <4>1
    <3>2. b2 \in [0 .. m -> Int]
      <4>1. ASSUME NEW i \in 0 .. m PROVE b1[i] \in Int /\ b1[i + 1] \in Int
        <5>1. i \in 0 .. m + 1 /\ i + 1 \in 0 .. m + 1
          BY <2>1
        <5> QED
          BY <2>3, <5>1
      <4> HIDE DEF x
      <4>2. ASSUME NEW i \in 0 .. m PROVE b1[i + 1] - w[x] \in Int
        <5> DEFINE B == b1[i + 1]
                   D == w[x]
        <5>1. B \in Int /\ D \in Int
          BY <2>4, <4>1
        <5> HIDE DEF B, D
        <5>2. B - D \in Int
          BY <5>1
        <5> QED
          BY <5>2 DEF B, D
      <4> QED
        BY <4>1, <4>2
    <3>3. ASSUME NEW i \in 1 .. m PROVE b2[i] = b2[i - 1] + w[t2[i]]
      <4>1. i \in Int /\ i \in 1 .. m + 1 /\ i + 1 \in 1 .. m + 1 /\ i - 1 \in 0 .. m /\ i \in 0 .. m
            /\ i + 1 - 1 = i /\ i - 1 + 1 = i
        BY <2>1
      <4>2. /\ b1[i] = b1[i - 1] + w[t1[i]] /\ b1[i + 1] = b1[i] + w[t1[i + 1]]
            /\ t1[i] \in K /\ t1[i + 1] \in K /\ b1[i] \in Int /\ b1[i - 1] \in Int
            /\ w[t1[i]] \in Int /\ w[t1[i + 1]] \in Int
        <5>1. /\ i + 1 \in 0 .. m + 1 /\ i - 1 \in 0 .. m + 1 /\ i \in 0 .. m + 1
          BY <2>1
        <5>2. t1[i] \in K /\ t1[i + 1] \in K
          BY <2>3, <4>1
        <5> QED
          BY <2>3, <4>1, <5>1, <5>2
      <4>3. b2[i] = IF i < j THEN b1[i] ELSE b1[i + 1] - w[x]
        BY <4>1
      <4>4. b2[i - 1] = IF i - 1 < j THEN b1[i - 1] ELSE b1[i] - w[x]
        BY <4>1
      <4>5. t2[i] = IF i < j THEN t1[i] ELSE t1[i + 1]
        BY <4>1
      <4> HIDE DEF b2, t2, x
      <4>6. CASE i < j
        BY <2>1, <4>1, <4>2, <4>3, <4>4, <4>5, <4>6
      <4>7. CASE i = j
        <5>1. b2[i] = b1[i + 1] - w[x] /\ b2[i - 1] = b1[i - 1] /\ t2[i] = t1[i + 1]
          BY <4>1, <4>3, <4>4, <4>5, <4>7
        <5>2. b1[i] = b1[i - 1] + w[x]
          BY <2>4, <4>7
        <5> QED
          BY <2>4, <4>2, <5>1, <5>2
      <4>8. CASE i > j
        <5>1. b2[i] = b1[i + 1] - w[x] /\ b2[i - 1] = b1[i] - w[x] /\ t2[i] = t1[i + 1]
          BY <2>2, <4>1, <4>3, <4>4, <4>5, <4>8
        <5> QED
          BY <2>4, <4>2, <5>1
      <4> QED
        BY <2>1, <2>2, <4>1, <4>6, <4>7, <4>8
    <3> HIDE DEF t2, b2
    <3> QED
      BY <3>1, <3>2, <3>3 DEF Sums
  <2>7. a2[0] = b2[0]
    BY <2>1, <2>2, <2>3
  <2>8. \A i, l \in 1 .. m : s2[i] = s2[l] => i = l
    BY <2>1, <2>3
  <2>9. ASSUME NEW i \in 1 .. m PROVE \E l \in 1 .. m : s2[i] = t2[l]
    <3>1. i \in 1 .. m + 1 /\ i # m + 1 /\ s2[i] = s1[i]
      BY <2>1
    <3>2. PICK l \in 1 .. m + 1 : s1[i] = t1[l]
      BY <2>3, <3>1
    <3>3. l # j
      BY <2>1, <2>2, <2>3, <3>1, <3>2
    <3>4. CASE l < j
      <4>1. l \in 1 .. m /\ t2[l] = t1[l]
        BY <2>1, <2>2, <3>2, <3>4
      <4> QED
        BY <3>1, <3>2, <4>1
    <3>5. CASE l > j
      <4>1. l - 1 \in 1 .. m /\ ~(l - 1 < j) /\ l - 1 + 1 = l
        BY <2>1, <2>2, <3>2, <3>5
      <4>2. t2[l - 1] = t1[l]
        BY <4>1
      <4> QED
        BY <3>1, <3>2, <4>1, <4>2
    <3> QED
      BY <2>1, <2>2, <3>2, <3>3, <3>4, <3>5
  <2>10. a2[m] = b2[m]
    <3>1. Same(m, s2, t2, a2, b2)
      <4> HIDE DEF s2, t2, a2, b2
      <4> QED
        BY <2>5, <2>6, <2>7, <2>8, <2>9 DEF Same
    <3> HIDE DEF s2, t2, a2, b2
    <3> QED
      BY <1>2, <3>1
  <2>11. a2[m] = a1[m] /\ a1[m + 1] = a1[m] + w[x] /\ a1[m] \in Int
    <3>1. m \in 0 .. m /\ m \in 0 .. m + 1 /\ m + 1 - 1 = m
      BY <2>1
    <3> QED
      BY <2>1, <2>3, <3>1
  <2>12. b2[m] = b1[m + 1] - w[x]
    <3>1. m \in 0 .. m /\ m + 1 \in 0 .. m + 1 /\ m + 1 - 1 = m /\ m \in 0 .. m + 1
      BY <2>1
    <3>2. b1[m + 1] \in Int /\ b1[m] \in Int
      BY <2>3, <3>1
    <3>3. CASE j = m + 1
      <4>1. b2[m] = b1[m]
        BY <2>1, <3>1, <3>3
      <4>2. b1[m + 1] = b1[m] + w[x]
        BY <2>4, <3>1, <3>3
      <4> QED
        BY <2>4, <3>2, <4>1, <4>2
    <3>4. CASE j # m + 1
      BY <2>1, <2>2, <3>1, <3>4
    <3> QED
      BY <3>3, <3>4
  <2>13. b1[m + 1] \in Int
    BY <2>1, <2>3
  <2> HIDE DEF a2, b2, x
  <2> DEFINE A == a1[m + 1]
             B == b1[m + 1]
             C == a1[m]
             D == w[x]
  <2>14. A = C + D /\ C = B - D /\ B \in Int /\ C \in Int /\ D \in Int
    BY <2>4, <2>10, <2>11, <2>12, <2>13
  <2> HIDE DEF A, B, C, D
  <2>15. A = B
    BY <2>14
  <2> QED
    BY <2>15 DEF A, B
<1>3. n \in P
  <2>1. 0 .. n \subseteq P
    <3> HIDE DEF P
    <3> QED
      BY <1>1, <1>2, CountUp
  <2> HIDE DEF P
  <2> QED
    BY <2>1
<1>4. Same(n, s, t, a, b)
  BY DEF Reorders
<1> HIDE DEF Same
<1> QED
  BY <1>3, <1>4

\* The parts of a proper request have lengths.
LEMMA NameLength ==
  ASSUME NEW s, s \in Name \/ s \in Key
  PROVE  Len(s) \in Nat
BY LenProperties DEF Name, Key

\* The count of CalHeadLength, key by key.
HeadCount(r, order, res) ==
  /\ res \in [0 .. Len(order) -> Nat]
  /\ res[0] = 17 + Len(r.ServiceName) + Len(r.MethodName)
  /\ HeadBytes(r, order) = res[Len(order)]
  /\ \A i \in 1 .. Len(order) :
       res[i] = res[i - 1] + Len(order[i]) + 1 + Len(r.Meta[order[i]]) + 1

\* HeadBytes goes up by one pair at a time.
LEMMA HeadBytesSteps ==
  ASSUME NEW r, NEW order, Ordered(r.Meta, order), r.ServiceName \in Name, r.MethodName \in Name
  PROVE  \E res : HeadCount(r, order, res)
<1> DEFINE n == Len(order)
           W(i) == Len(order[i]) + 1 + Len(r.Meta[order[i]]) + 1
           base == 15 + Len(r.ServiceName) + 1 + Len(r.MethodName) + 1
           step == [x \in Nat \X (1 .. n) |-> x[1] + W(x[2])]
           Def(res) == [i \in 0 .. n |->
                          IF i = 0 THEN base
                                   ELSE res[i - 1] + Len(order[i]) + 1 + Len(r.Meta[order[i]]) + 1]
           res == CHOOSE res : res = Def(res)
<1>1. n \in Nat /\ \A i \in 1 .. n : Len(order[i]) \in Nat /\ Len(r.Meta[order[i]]) \in Nat
  <2>1. n \in Nat /\ \A i \in 1 .. n : order[i] \in Key /\ r.Meta[order[i]] \in Name
    BY LenProperties, ElementOfSeq DEF Ordered
  <2> QED
    BY <2>1, NameLength
<1>2. /\ Len(r.ServiceName) \in Nat /\ Len(r.MethodName) \in Nat
      /\ base \in Nat /\ base = 17 + Len(r.ServiceName) + Len(r.MethodName)
  <2> DEFINE a == Len(r.ServiceName)
             b == Len(r.MethodName)
  <2>1. a \in Nat /\ b \in Nat
    BY NameLength
  <2> HIDE DEF a, b
  <2>2. 15 + a + 1 + b + 1 \in Nat /\ 15 + a + 1 + b + 1 = 17 + a + b
    BY <2>1
  <2> QED
    BY <2>1, <2>2 DEF a, b
<1>3. \A i \in 1 .. n : W(i) \in Nat
  <2> SUFFICES ASSUME NEW i \in 1 .. n PROVE W(i) \in Nat
    OBVIOUS
  <2> DEFINE a == Len(order[i])
             b == Len(r.Meta[order[i]])
  <2>1. a \in Nat /\ b \in Nat
    BY <1>1
  <2> HIDE DEF a, b
  <2>2. a + 1 + b + 1 \in Nat
    BY <2>1
  <2> QED
    BY <2>2 DEF a, b
<1>4. PICK f : Iterates(f, Nat, base, n, step)
  <2>1. Steps(Nat, n, step)
    <3> HIDE DEF n, W
    <3>1. \A x \in Nat \X (1 .. n) : x[1] + W(x[2]) \in Nat
      BY <1>3
    <3> QED
      BY <3>1 DEF Steps
  <2> HIDE DEF n, step, base
  <2> QED
    BY <1>1, <1>2, <2>1, IterationExists
<1> HIDE DEF base
<1>5. f = Def(f)
  <2>1. f \in [0 .. n -> Nat] /\ f[0] = base
    BY <1>4 DEF Iterates
  <2>2. ASSUME NEW i \in 1 .. n
        PROVE  f[i] = f[i - 1] + Len(order[i]) + 1 + Len(r.Meta[order[i]]) + 1
    <3>0. i - 1 \in 0 .. n
      BY <1>1
    <3>1. f[i - 1] \in Nat
      BY <2>1, <3>0
    <3>2. <<f[i - 1], i>> \in Nat \X (1 .. n)
      BY <3>1
    <3>3. f[i] = step[<<f[i - 1], i>>]
      BY <1>4 DEF Iterates
    <3>4. f[i] = f[i - 1] + W(i)
      <4> HIDE DEF W
      <4> QED
        BY <3>2, <3>3
    <3> DEFINE a == Len(order[i])
               b == Len(r.Meta[order[i]])
               c == f[i - 1]
    <3>5. a \in Nat /\ b \in Nat /\ c \in Nat /\ f[i] = c + (a + 1 + b + 1)
      BY <1>1, <3>1, <3>4
    <3> HIDE DEF a, b, c
    <3>6. f[i] = c + a + 1 + b + 1
      BY <3>5
    <3> QED
      BY <3>6 DEF a, b, c
  <2>3. \A i \in 0 .. n : i = 0 \/ i \in 1 .. n
    BY <1>1
  <2> HIDE DEF n
  <2>4. \A i \in 0 .. n : f[i] = Def(f)[i]
    BY <2>1, <2>2, <2>3
  <2> QED
    BY <2>1, <2>4
<1>6. res = Def(res)
  <2> HIDE DEF Def
  <2> QED
    BY <1>5
<1>7. HeadBytes(r, order) = res[n]
  BY DEF HeadBytes, base
<1>8. res[0] = base /\ \A i \in 1 .. n : res[i] = res[i - 1] + Len(order[i]) + 1 + Len(r.Meta[order[i]]) + 1
  <2> HIDE DEF res, n
  <2>1. res[0] = base
    BY <1>1, <1>6
  <2>2. ASSUME NEW i \in 1 .. n
        PROVE  res[i] = res[i - 1] + Len(order[i]) + 1 + Len(r.Meta[order[i]]) + 1
    <3>1. i \in 0 .. n /\ i # 0
      BY <1>1, <2>2
    <3> QED
      BY <1>6, <3>1
  <2> QED
    BY <2>1, <2>2
<1>9. res \in [0 .. n -> Nat]
  <2> DEFINE P == {i \in 0 .. n : res[i] \in Nat}
  <2> HIDE DEF res, n
  <2>1. 0 \in P
    <3>1. 0 \in 0 .. n
      BY <1>1
    <3> QED
      BY <1>2, <1>8, <3>1
  <2>2. ASSUME NEW i \in 0 .. n, i < n, i \in P PROVE i + 1 \in P
    <3>1. i + 1 \in 1 .. n /\ i + 1 - 1 = i /\ res[i] \in Nat /\ i + 1 \in 0 .. n
      BY <1>1, <2>2
    <3> DEFINE j == i + 1
    <3>2. res[j] = res[i] + Len(order[j]) + 1 + Len(r.Meta[order[j]]) + 1
      BY <1>8, <3>1
    <3>3. Len(order[j]) \in Nat /\ Len(r.Meta[order[j]]) \in Nat
      BY <1>1, <3>1
    <3> HIDE DEF j
    <3>4. res[j] \in Nat
      BY <3>1, <3>2, <3>3
    <3> QED
      BY <3>1, <3>4 DEF j
  <2>3. 0 .. n \subseteq P
    <3> HIDE DEF P
    <3> QED
      BY <1>1, <2>1, <2>2, CountUp
  <2>4. \A i \in 0 .. n : res[i] \in Nat
    BY <2>3
  <2> HIDE DEF P, Def
  <2> QED
    BY <1>6, <2>4 DEF Def
<1> HIDE DEF res
<1>10. HeadCount(r, order, res)
  BY <1>2, <1>7, <1>8, <1>9 DEF HeadCount
<1> QED
  BY <1>10

\* It is how many bytes EncodeReq writes before the data.
LEMMA HeadBytesOfPut ==
  ASSUME NEW r, NEW order, Ordered(r.Meta, order), r.ServiceName \in Name, r.MethodName \in Name
  PROVE  /\ PutMeta(r.Meta, order) \in Seq(Byte)
         /\ HeadBytes(r, order)
              = 17 + Len(r.ServiceName) + Len(r.MethodName) + Len(PutMeta(r.Meta, order))
<1> DEFINE n == Len(order)
           base == 17 + Len(r.ServiceName) + Len(r.MethodName)
<1>1. n \in Nat /\ \A i \in 1 .. n : order[i] \in Key /\ r.Meta[order[i]] \in Name
  BY LenProperties, ElementOfSeq DEF Ordered
<1>2. base \in Nat
  <2> DEFINE a == Len(r.ServiceName)
             b == Len(r.MethodName)
  <2>1. a \in Nat /\ b \in Nat
    BY NameLength
  <2> HIDE DEF a, b
  <2>2. 17 + a + b \in Nat
    BY <2>1
  <2> QED
    BY <2>2 DEF a, b
<1>3. PICK put : /\ put \in [0 .. n -> Seq(Byte)]
                 /\ put[0] = <<>> /\ PutMeta(r.Meta, order) = put[n]
                 /\ \A i \in 1 .. n : put[i] = PairField(r.Meta, order[i], put[i - 1])
  BY PutMetaSteps
<1>4. PICK res : HeadCount(r, order, res)
  BY HeadBytesSteps
<1>5. /\ res \in [0 .. n -> Nat] /\ res[0] = base /\ HeadBytes(r, order) = res[n]
      /\ \A i \in 1 .. n : res[i] = res[i - 1] + Len(order[i]) + 1 + Len(r.Meta[order[i]]) + 1
  BY <1>4 DEF HeadCount
<1> DEFINE P == {i \in 0 .. n : res[i] = base + Len(put[i])}
<1> HIDE DEF n, base
<1>6. 0 \in P
  <2>1. put[0] = <<>> /\ Len(<<>>) = 0 /\ res[0] = base /\ 0 \in 0 .. n
    BY <1>1, <1>3, <1>5
  <2>2. base = base + 0
    BY <1>2
  <2> QED
    BY <2>1, <2>2
<1>7. ASSUME NEW i \in 0 .. n, i < n, i \in P PROVE i + 1 \in P
  <2>1. i + 1 \in 1 .. n /\ i + 1 - 1 = i /\ i + 1 \in 0 .. n /\ put[i] \in Seq(Byte) /\ res[i] \in Nat
    BY <1>1, <1>3, <1>5, <1>7
  <2> DEFINE j == i + 1
             k == order[j]
             v == r.Meta[k]
             p == put[i]
  <2>2. res[j] = res[i] + Len(k) + 1 + Len(v) + 1
    BY <1>5, <2>1
  <2>3. put[j] = PairField(r.Meta, k, p)
    BY <1>3, <2>1
  <2>4. k \in Key /\ v \in Name /\ p \in Seq(Byte) /\ res[i] = base + Len(p)
    BY <1>1, <1>7, <2>1
  <2> HIDE DEF j, k, p, P
  <2>5. Len(PairField(r.Meta, k, p)) = Len(k) + 1 + Len(v) + 1 + Len(p)
    BY <2>4, OnePair
  <2>6. Len(k) \in Nat /\ Len(v) \in Nat /\ Len(p) \in Nat
    BY <2>4, LenProperties DEF Key, Name
  <2> HIDE DEF v
  <2>7. Len(put[j]) = Len(k) + 1 + Len(v) + 1 + Len(p)
    BY <2>3, <2>5
  <2>8. res[j] = base + Len(put[j])
    <3> DEFINE a == Len(k)
               b == Len(v)
               c == Len(p)
               d == Len(put[j])
               e == res[j]
    <3>1. /\ a \in Nat /\ b \in Nat /\ c \in Nat /\ d = a + 1 + b + 1 + c
          /\ e = (base + c) + a + 1 + b + 1
      BY <2>2, <2>4, <2>6, <2>7
    <3> HIDE DEF a, b, c, d, e
    <3>2. e = base + d
      BY <1>2, <3>1
    <3> QED
      BY <3>2 DEF d, e
  <2> QED
    BY <2>1, <2>8 DEF P, j
<1>8. 0 .. n \subseteq P
  <2> HIDE DEF P
  <2> QED
    BY <1>1, <1>6, <1>7, CountUp
<1>9. n \in 0 .. n
  BY <1>1
<1> QED
  BY <1>3, <1>5, <1>8, <1>9 DEF base

\* The numbers that a message has in its first 15 bytes.
Numbers(m) ==
  /\ m.HeadLength \in Nat /\ Fits(m.HeadLength)
  /\ m.BodyLength \in Nat /\ Fits(m.BodyLength)
  /\ m.MessageId \in Nat /\ Fits(m.MessageId)
  /\ m.Version \in Byte /\ m.Compressor \in Byte /\ m.Serializer \in Byte

\* The first 15 bytes and the four numbers they hold.
LEMMA FixedBytes ==
  ASSUME NEW m, Numbers(m)
  PROVE  LET f == Fixed(m)
         IN  /\ f \in Seq(Byte) /\ Len(f) = 15
             /\ Uint32(f, 0) = m.HeadLength /\ Uint32(f, 4) = m.BodyLength
             /\ Uint32(f, 8) = m.MessageId
             /\ f[13] = m.Version /\ f[14] = m.Compressor /\ f[15] = m.Serializer
<1> DEFINE p == PutUint32(m.HeadLength)
           q == PutUint32(m.BodyLength)
           u == PutUint32(m.MessageId)
           w == <<m.Version, m.Compressor, m.Serializer>>
           f == Fixed(m)
<1>1. /\ p \in Seq(Byte) /\ Len(p) = 4 /\ Uint32(p, 0) = m.HeadLength
      /\ q \in Seq(Byte) /\ Len(q) = 4 /\ Uint32(q, 0) = m.BodyLength
      /\ u \in Seq(Byte) /\ Len(u) = 4 /\ Uint32(u, 0) = m.MessageId
  BY FourBytes DEF Numbers, ToUint32
<1>2. /\ w \in Seq(Byte) /\ Len(w) = 3
      /\ w[1] = m.Version /\ w[2] = m.Compressor /\ w[3] = m.Serializer
  BY DEF Numbers
<1>3. f = ((p \o q) \o u) \o w
  BY DEF Fixed
<1> HIDE DEF p, q, u, w, f
<1>4. /\ p \o q \in Seq(Byte) /\ Len(p \o q) = 8
      /\ \A i \in 1 .. 8 : (p \o q)[i] = IF i <= 4 THEN p[i] ELSE q[i - 4]
  <2>1. /\ p \o q \in Seq(Byte) /\ Len(p \o q) = Len(p) + Len(q)
        /\ \A i \in 1 .. Len(p) + Len(q) : (p \o q)[i] = IF i <= Len(p) THEN p[i] ELSE q[i - Len(p)]
    BY <1>1, ConcatProperties
  <2> QED
    BY <1>1, <2>1
<1> DEFINE pq == p \o q
<1> HIDE DEF pq
<1>5. /\ pq \o u \in Seq(Byte) /\ Len(pq \o u) = 12
      /\ \A i \in 1 .. 12 : (pq \o u)[i] = IF i <= 8 THEN pq[i] ELSE u[i - 8]
  <2>1. /\ pq \o u \in Seq(Byte) /\ Len(pq \o u) = Len(pq) + Len(u)
        /\ \A i \in 1 .. Len(pq) + Len(u) :
             (pq \o u)[i] = IF i <= Len(pq) THEN pq[i] ELSE u[i - Len(pq)]
    BY <1>1, <1>4, ConcatProperties DEF pq
  <2> QED
    BY <1>1, <1>4, <2>1 DEF pq
<1> DEFINE pqu == pq \o u
<1> HIDE DEF pqu
<1>6. /\ f \in Seq(Byte) /\ Len(f) = 15
      /\ \A i \in 1 .. 15 : f[i] = IF i <= 12 THEN pqu[i] ELSE w[i - 12]
  <2>3. pqu \in Seq(Byte) /\ Len(pqu) = 12
    BY <1>5 DEF pqu
  <2>1. /\ pqu \o w \in Seq(Byte) /\ Len(pqu \o w) = Len(pqu) + Len(w)
        /\ \A i \in 1 .. Len(pqu) + Len(w) :
             (pqu \o w)[i] = IF i <= Len(pqu) THEN pqu[i] ELSE w[i - Len(pqu)]
    BY <1>2, <2>3, ConcatProperties
  <2>2. f = pqu \o w
    BY <1>3 DEF pqu, pq
  <2>4. ASSUME NEW i \in 1 .. 15 PROVE f[i] = IF i <= 12 THEN pqu[i] ELSE w[i - 12]
    <3>1. i \in 1 .. Len(pqu) + Len(w)
      BY <1>2, <2>3
    <3> QED
      BY <2>1, <2>2, <2>3, <3>1
  <2>5. Len(f) = 15
    BY <1>2, <2>1, <2>2, <2>3
  <2> QED
    BY <2>1, <2>2, <2>4, <2>5
<1>7. /\ \A i \in 1 .. 8 : pq[i] = IF i <= 4 THEN p[i] ELSE q[i - 4]
      /\ \A i \in 1 .. 12 : pqu[i] = IF i <= 8 THEN pq[i] ELSE u[i - 8]
  BY <1>4, <1>5 DEF pq, pqu
<1>8. /\ f[1] = p[1] /\ f[2] = p[2] /\ f[3] = p[3] /\ f[4] = p[4]
      /\ f[5] = q[1] /\ f[6] = q[2] /\ f[7] = q[3] /\ f[8] = q[4]
      /\ f[9] = u[1] /\ f[10] = u[2] /\ f[11] = u[3] /\ f[12] = u[4]
      /\ f[13] = w[1] /\ f[14] = w[2] /\ f[15] = w[3]
  BY <1>6, <1>7
<1>9. Uint32(f, 0) = Uint32(p, 0) /\ Uint32(f, 4) = Uint32(q, 0) /\ Uint32(f, 8) = Uint32(u, 0)
  <2>1. /\ Uint32(f, 0) = 16777216 * f[1] + 65536 * f[2] + 256 * f[3] + f[4]
        /\ Uint32(f, 4) = 16777216 * f[5] + 65536 * f[6] + 256 * f[7] + f[8]
        /\ Uint32(f, 8) = 16777216 * f[9] + 65536 * f[10] + 256 * f[11] + f[12]
    BY DEF Uint32
  <2>2. /\ Uint32(p, 0) = 16777216 * p[1] + 65536 * p[2] + 256 * p[3] + p[4]
        /\ Uint32(q, 0) = 16777216 * q[1] + 65536 * q[2] + 256 * q[3] + q[4]
        /\ Uint32(u, 0) = 16777216 * u[1] + 65536 * u[2] + 256 * u[3] + u[4]
    BY DEF Uint32
  <2> QED
    BY <1>8, <2>1, <2>2
<1> QED
  BY <1>1, <1>2, <1>6, <1>8, <1>9 DEF f

\* A message is those bytes, the rest of its head and its data.
LEMMA MessageParts ==
  ASSUME NEW m, Numbers(m), NEW h \in Seq(Byte), NEW d \in Seq(Byte)
  PROVE  LET bs == Fixed(m) \o h \o d
         IN  /\ bs \in Seq(Byte) /\ Len(bs) = 15 + Len(h) + Len(d)
             /\ Uint32(bs, 0) = m.HeadLength /\ Uint32(bs, 4) = m.BodyLength
             /\ Uint32(bs, 8) = m.MessageId
             /\ bs[13] = m.Version /\ bs[14] = m.Compressor /\ bs[15] = m.Serializer
             /\ Rest(First(bs, 15 + Len(h)), 15) = h /\ Rest(bs, 15 + Len(h)) = d
<1> DEFINE f == Fixed(m)
           g == f \o h
           bs == g \o d
<1>1. /\ f \in Seq(Byte) /\ Len(f) = 15
      /\ Uint32(f, 0) = m.HeadLength /\ Uint32(f, 4) = m.BodyLength
      /\ Uint32(f, 8) = m.MessageId
      /\ f[13] = m.Version /\ f[14] = m.Compressor /\ f[15] = m.Serializer
  BY FixedBytes
<1> HIDE DEF f
<1>2. Len(h) \in Nat /\ Len(d) \in Nat
  BY LenProperties
<1>3. /\ g \in Seq(Byte) /\ Len(g) = 15 + Len(h) /\ Rest(g, 15) = h
      /\ \A i \in 1 .. 15 : g[i] = f[i]
  <2>1. g \in Seq(Byte) /\ Len(g) = Len(f) + Len(h) /\ Rest(g, Len(f)) = h
    BY <1>1, CutJoined
  <2>2. \A i \in 1 .. Len(f) + Len(h) : g[i] = IF i <= Len(f) THEN f[i] ELSE h[i - Len(f)]
    BY <1>1, ConcatProperties
  <2> HIDE DEF g
  <2> QED
    BY <1>1, <1>2, <2>1, <2>2
<1> HIDE DEF g
<1>4. /\ bs \in Seq(Byte) /\ Len(bs) = Len(g) + Len(d)
      /\ First(bs, Len(g)) = g /\ Rest(bs, Len(g)) = d
  BY <1>3, CutJoined
<1>5. \A i \in 1 .. 15 : bs[i] = f[i]
  <2>1. g \in Seq(Byte)
    BY <1>3
  <2>2. \A i \in 1 .. Len(g) + Len(d) : bs[i] = IF i <= Len(g) THEN g[i] ELSE d[i - Len(g)]
    BY <2>1, ConcatProperties
  <2> HIDE DEF bs
  <2>3. ASSUME NEW i \in 1 .. 15 PROVE bs[i] = f[i]
    <3>1. i \in 1 .. Len(g) + Len(d) /\ i <= Len(g)
      BY <1>2, <1>3
    <3> QED
      BY <1>3, <2>2, <3>1
  <2> QED
    BY <2>3
<1>6. bs = Fixed(m) \o h \o d
  BY DEF f, g
<1> HIDE DEF bs
<1>7. /\ bs[1] = f[1] /\ bs[2] = f[2] /\ bs[3] = f[3] /\ bs[4] = f[4]
      /\ bs[5] = f[5] /\ bs[6] = f[6] /\ bs[7] = f[7] /\ bs[8] = f[8]
      /\ bs[9] = f[9] /\ bs[10] = f[10] /\ bs[11] = f[11] /\ bs[12] = f[12]
      /\ bs[13] = f[13] /\ bs[14] = f[14] /\ bs[15] = f[15]
  BY <1>5
<1>8. Uint32(bs, 0) = Uint32(f, 0) /\ Uint32(bs, 4) = Uint32(f, 4) /\ Uint32(bs, 8) = Uint32(f, 8)
  <2>1. /\ Uint32(f, 0) = 16777216 * f[1] + 65536 * f[2] + 256 * f[3] + f[4]
        /\ Uint32(f, 4) = 16777216 * f[5] + 65536 * f[6] + 256 * f[7] + f[8]
        /\ Uint32(f, 8) = 16777216 * f[9] + 65536 * f[10] + 256 * f[11] + f[12]
    BY DEF Uint32
  <2>2. /\ Uint32(bs, 0) = 16777216 * bs[1] + 65536 * bs[2] + 256 * bs[3] + bs[4]
        /\ Uint32(bs, 4) = 16777216 * bs[5] + 65536 * bs[6] + 256 * bs[7] + bs[8]
        /\ Uint32(bs, 8) = 16777216 * bs[9] + 65536 * bs[10] + 256 * bs[11] + bs[12]
    BY DEF Uint32
  <2> QED
    BY <1>7, <2>1, <2>2
<1> QED
  BY <1>1, <1>2, <1>3, <1>4, <1>6, <1>7, <1>8

\* The metadata of a request, in any order.
LEMMA RequestOrdered ==
  ASSUME NEW r, ProperRequest(r), NEW order \in Orders(DOMAIN r.Meta)
  PROVE  /\ Ordered(r.Meta, order)
         /\ order \in [1 .. Len(order) -> DOMAIN r.Meta]
         /\ DOMAIN r.Meta = {order[i] : i \in 1 .. Len(order)}
<1> DEFINE K == DOMAIN r.Meta
<1>1. IsFiniteSet(K) /\ \A k \in K : k \in Key /\ r.Meta[k] \in Name
  BY DEF ProperRequest
<1> HIDE DEF K
<1>2. order \in Orders(K)
  BY DEF K
<1>3. /\ order \in [1 .. Len(order) -> K] /\ order \in Seq(K)
      /\ K = {order[i] : i \in 1 .. Len(order)}
  BY <1>1, <1>2, OrderProperties
<1>4. order \in Seq(Key)
  BY <1>1, <1>3, SeqMonotonic
<1>5. \A i \in 1 .. Len(order) : r.Meta[order[i]] \in Name
  BY <1>1, <1>3
<1> QED
  BY <1>3, <1>4, <1>5 DEF Ordered, K

\* CalHeadLength counts the same in every order.
LEMMA CountInAnyOrder ==
  ASSUME NEW r, ProperRequest(r),
         NEW order \in Orders(DOMAIN r.Meta), NEW counted \in Orders(DOMAIN r.Meta)
  PROVE  HeadBytes(r, order) = HeadBytes(r, counted)
<1> DEFINE K == DOMAIN r.Meta
           w == [k \in K |-> Len(k) + 1 + Len(r.Meta[k]) + 1]
           n == Len(order)
<1>1. IsFiniteSet(K) /\ \A k \in K : k \in Key /\ r.Meta[k] \in Name
  BY DEF ProperRequest
<1>2. r.ServiceName \in Name /\ r.MethodName \in Name
  BY DEF ProperRequest
<1>3. PICK a : HeadCount(r, order, a)
  BY <1>2, RequestOrdered, HeadBytesSteps
<1>4. PICK b : HeadCount(r, counted, b)
  BY <1>2, RequestOrdered, HeadBytesSteps
<1>5. \A k \in K : Len(k) \in Nat /\ Len(r.Meta[k]) \in Nat
  BY <1>1, NameLength
<1>6. w \in [K -> Int]
  <2>1. \A k \in K : Len(k) + 1 + Len(r.Meta[k]) + 1 \in Int
    BY <1>5
  <2> QED
    BY <2>1
<1> HIDE DEF K
<1>7. order \in Orders(K) /\ counted \in Orders(K)
  BY DEF K
<1>8. /\ n \in Nat /\ Len(counted) = n
      /\ order \in [1 .. n -> K] /\ counted \in [1 .. n -> K]
      /\ \A i, j \in 1 .. n : order[i] = order[j] => i = j
      /\ \A k \in K : \E i \in 1 .. n : counted[i] = k
  <2>1. /\ n = Cardinality(K) /\ n \in Nat /\ order \in [1 .. n -> K]
        /\ \A i, j \in 1 .. n : order[i] = order[j] => i = j
    BY <1>1, <1>7, OrderProperties
  <2>2. /\ Len(counted) = Cardinality(K) /\ counted \in [1 .. Len(counted) -> K]
        /\ \A k \in K : \E i \in 1 .. Len(counted) : counted[i] = k
    BY <1>1, <1>7, OrderProperties
  <2> QED
    BY <2>1, <2>2
<1> HIDE DEF n
<1>9. /\ a \in [0 .. n -> Nat] /\ b \in [0 .. n -> Nat] /\ a[0] = b[0]
      /\ HeadBytes(r, order) = a[n] /\ HeadBytes(r, counted) = b[n]
      /\ \A i \in 1 .. n : a[i] = a[i - 1] + Len(order[i]) + 1 + Len(r.Meta[order[i]]) + 1
      /\ \A i \in 1 .. n : b[i] = b[i - 1] + Len(counted[i]) + 1 + Len(r.Meta[counted[i]]) + 1
  BY <1>3, <1>4, <1>8 DEF HeadCount, n
<1>10. ASSUME NEW s \in [1 .. n -> K], NEW c \in [0 .. n -> Nat],
              \A i \in 1 .. n : c[i] = c[i - 1] + Len(s[i]) + 1 + Len(r.Meta[s[i]]) + 1
       PROVE  Sums(K, w, n, s, c)
  <2>1. ASSUME NEW i \in 1 .. n PROVE c[i] = c[i - 1] + w[s[i]]
    <3> DEFINE l == Len(s[i])
               v == Len(r.Meta[s[i]])
               x == c[i - 1]
    <3>1. s[i] \in K /\ i - 1 \in 0 .. n
      BY <1>8
    <3>2. l \in Nat /\ v \in Nat /\ x \in Nat /\ w[s[i]] = l + 1 + v + 1 /\ c[i] = x + l + 1 + v + 1
      BY <1>5, <1>10, <3>1
    <3> HIDE DEF l, v, x, w
    <3>3. c[i] = x + w[s[i]]
      BY <3>2
    <3> QED
      BY <3>3 DEF x
  <2>2. c \in [0 .. n -> Int]
    OBVIOUS
  <2> HIDE DEF w
  <2> QED
    BY <2>1, <2>2 DEF Sums
<1>11. Sums(K, w, n, order, a) /\ Sums(K, w, n, counted, b)
  <2> HIDE DEF w
  <2> QED
    BY <1>8, <1>9, <1>10
<1>12. Reorders(n, order, counted)
  BY <1>8 DEF Reorders
<1> HIDE DEF w
<1>13. a[n] = b[n]
  <2>1. n \in Nat /\ w \in [K -> Int] /\ a[0] = b[0]
    BY <1>6, <1>8, <1>9
  <2> QED
    BY <1>11, <1>12, <2>1, SumInAnyOrder
<1> QED
  BY <1>9, <1>13

\* A sum of two numbers below 2^32 fits where the sum does.
LEMMA FitsBelow ==
  ASSUME NEW a \in Nat, NEW b \in Nat, Fits(a + b)
  PROVE  Fits(a) /\ Fits(b)
BY DEF Fits

\* Its two lengths say how long a message is.
IsPacket(bs) ==
  /\ bs \in Seq(Byte) /\ Len(bs) >= 15
  /\ ToUint32(Uint32(bs, 0) + Uint32(bs, 4)) = Len(bs)

\* DecodeReq undoes EncodeReq, whatever the orders of the two ranges over Meta.
THEOREM RequestReadBack ==
  ASSUME NEW r, ProperRequest(r),
         NEW counted \in Orders(DOMAIN r.Meta), NEW order \in Orders(DOMAIN r.Meta)
  PROVE  LET m == NewRequest(r, counted)
             bs == EncodeReq(m, order)
         IN  IsPacket(bs) /\ DecodeReq(bs) = m
<1> DEFINE m == NewRequest(r, counted)
           bs == EncodeReq(m, order)
           name == r.ServiceName
           method == r.MethodName
           meta == r.Meta
           d == r.Data
           pm == PutMeta(meta, order)
           h2 == Field(method, Splitter, pm)
           h == Field(name, Splitter, h2)
<1>1. /\ ProperFixed(r) /\ name \in Name /\ method \in Name /\ d \in Seq(Byte)
      /\ Fits(HeadBytes(r, counted) + Len(d))
      /\ meta = [k \in DOMAIN meta |-> meta[k]]
  BY DEF ProperRequest, ProperFixed
<1>2. /\ pm \in Seq(Byte)
      /\ HeadBytes(r, counted) = 17 + Len(name) + Len(method) + Len(pm)
  BY <1>1, RequestOrdered, HeadBytesOfPut, CountInAnyOrder
<1>3. DecodeMeta(pm) = meta
  BY <1>1, RequestOrdered, DecodeMetaOfPut
<1>4. m = [HeadLength |-> CalHeadLength(r, counted), BodyLength |-> ToUint32(Len(d)),
           MessageId |-> r.MessageId, Version |-> r.Version, Compressor |-> r.Compressor,
           Serializer |-> r.Serializer, ServiceName |-> name, MethodName |-> method,
           Meta |-> meta, Data |-> d]
  BY DEF NewRequest
<1> HIDE DEF m, name, method, meta, d
<1>5. bs = Fixed(m) \o h \o d
  <2>1. m.ServiceName = name /\ m.MethodName = method /\ m.Meta = meta /\ m.Data = d
    BY <1>4
  <2> QED
    BY <2>1 DEF EncodeReq
<1> HIDE DEF bs, pm, h2, h
<1>6. Len(name) \in Nat /\ Len(method) \in Nat /\ Len(pm) \in Nat /\ Len(d) \in Nat
  BY <1>1, <1>2, NameLength, LenProperties
<1>7. Splitter \in Byte /\ name \in Seq(Byte \ {Splitter}) /\ method \in Seq(Byte \ {Splitter})
  BY <1>1 DEF Splitter, Byte, Name
<1>8. /\ h2 \in Seq(Byte) /\ Len(h2) = Len(method) + 1 + Len(pm)
      /\ IndexByte(h2, Splitter) = Len(method)
      /\ First(h2, Len(method)) = method /\ Rest(h2, Len(method) + 1) = pm
  BY <1>2, <1>7, FieldIsFound DEF h2
<1>9. /\ h \in Seq(Byte) /\ Len(h) = Len(name) + 1 + Len(h2)
      /\ IndexByte(h, Splitter) = Len(name)
      /\ First(h, Len(name)) = name /\ Rest(h, Len(name) + 1) = h2
  BY <1>7, <1>8, FieldIsFound DEF h
<1>10. /\ Len(h) \in Nat /\ HeadBytes(r, counted) = 15 + Len(h)
       /\ 15 + Len(h) \in Nat /\ Fits((15 + Len(h)) + Len(d))
  <2>1. Len(h) \in Nat /\ HeadBytes(r, counted) = 15 + Len(h) /\ 15 + Len(h) \in Nat
    BY <1>2, <1>6, <1>8, <1>9
  <2> QED
    BY <1>1, <2>1
<1>11. /\ Fits(15 + Len(h)) /\ Fits(Len(d))
  BY <1>6, <1>10, FitsBelow
<1>12. /\ m.HeadLength = 15 + Len(h) /\ m.BodyLength = Len(d)
  BY <1>4, <1>6, <1>10, <1>11, FourBytes DEF CalHeadLength
<1>13. Numbers(m)
  BY <1>1, <1>4, <1>6, <1>10, <1>11, <1>12 DEF Numbers, ProperFixed
<1>14. /\ bs \in Seq(Byte) /\ Len(bs) = 15 + Len(h) + Len(d)
       /\ Uint32(bs, 0) = m.HeadLength /\ Uint32(bs, 4) = m.BodyLength
       /\ Uint32(bs, 8) = m.MessageId
       /\ bs[13] = m.Version /\ bs[14] = m.Compressor /\ bs[15] = m.Serializer
       /\ Rest(First(bs, 15 + Len(h)), 15) = h /\ Rest(bs, 15 + Len(h)) = d
  <2>1. h \in Seq(Byte) /\ d \in Seq(Byte) /\ Numbers(m)
    BY <1>1, <1>9, <1>13
  <2>2. LET x == Fixed(m) \o h \o d
        IN  /\ x \in Seq(Byte) /\ Len(x) = 15 + Len(h) + Len(d)
            /\ Uint32(x, 0) = m.HeadLength /\ Uint32(x, 4) = m.BodyLength
            /\ Uint32(x, 8) = m.MessageId
            /\ x[13] = m.Version /\ x[14] = m.Compressor /\ x[15] = m.Serializer
            /\ Rest(First(x, 15 + Len(h)), 15) = h /\ Rest(x, 15 + Len(h)) = d
    BY <2>1, MessageParts
  <2> QED
    BY <1>5, <2>2
<1>15. IsPacket(bs)
  <2>1. ToUint32((15 + Len(h)) + Len(d)) = (15 + Len(h)) + Len(d)
    <3> DEFINE l == (15 + Len(h)) + Len(d)
    <3>1. l \in Nat /\ Fits(l)
      BY <1>6, <1>10
    <3> HIDE DEF l
    <3>2. ToUint32(l) = l
      BY <3>1, FourBytes
    <3> QED
      BY <3>2 DEF l
  <2>2. Len(bs) = (15 + Len(h)) + Len(d) /\ Len(bs) >= 15
    BY <1>6, <1>10, <1>14
  <2> QED
    BY <1>12, <1>14, <2>1, <2>2 DEF IsPacket
<1>16. DecodeReq(bs) = m
  <2> DEFINE H == Uint32(bs, 0)
             hd == Rest(First(bs, H), 15)
             i1 == IndexByte(hd, Splitter)
             hd2 == Rest(hd, i1 + 1)
             i2 == IndexByte(hd2, Splitter)
  <2>1. H = 15 + Len(h)
    BY <1>12, <1>14
  <2>2. hd = h /\ i1 = Len(name)
    BY <1>9, <1>14, <2>1
  <2>3. hd2 = h2 /\ i2 = Len(method)
    BY <1>8, <1>9, <2>2
  <2>4. DecodeReq(bs) =
          [HeadLength  |-> H, BodyLength  |-> Uint32(bs, 4), MessageId |-> Uint32(bs, 8),
           Version |-> bs[13], Compressor |-> bs[14], Serializer |-> bs[15],
           ServiceName |-> First(hd, i1), MethodName  |-> First(hd2, i2),
           Meta |-> DecodeMeta(Rest(hd2, i2 + 1)), Data |-> Rest(bs, H)]
    BY DEF DecodeReq
  <2> HIDE DEF H, hd, i1, hd2, i2
  <2>5. /\ First(hd, i1) = name /\ First(hd2, i2) = method /\ Rest(bs, H) = d
        /\ DecodeMeta(Rest(hd2, i2 + 1)) = meta
    BY <1>3, <1>8, <1>9, <1>14, <2>1, <2>2, <2>3
  <2>6. /\ H = CalHeadLength(r, counted) /\ Uint32(bs, 4) = ToUint32(Len(d))
        /\ Uint32(bs, 8) = r.MessageId /\ bs[13] = r.Version /\ bs[14] = r.Compressor
        /\ bs[15] = r.Serializer
    BY <1>4, <1>14 DEF H
  <2> QED
    BY <1>4, <2>4, <2>5, <2>6
<1> QED
  BY <1>15, <1>16 DEF m, bs

\* DecodeResp undoes EncodeResp.
THEOREM ResponseReadBack ==
  ASSUME NEW r, ProperResponse(r)
  PROVE  LET m == NewResponse(r)
             bs == EncodeResp(m)
         IN  IsPacket(bs) /\ DecodeResp(bs) = m
<1> DEFINE m == NewResponse(r)
           bs == EncodeResp(m)
           h == r.Error
           d == r.Data
<1>1. /\ ProperFixed(r) /\ h \in Seq(Byte) /\ d \in Seq(Byte)
      /\ Fits(15 + Len(h) + Len(d))
  BY DEF ProperResponse, ProperFixed
<1>2. m = [HeadLength |-> ToUint32(15 + Len(h)), BodyLength |-> ToUint32(Len(d)),
           MessageId |-> r.MessageId, Version |-> r.Version, Compressor |-> r.Compressor,
           Serializer |-> r.Serializer, Error |-> h, Data |-> d]
  BY DEF NewResponse
<1> HIDE DEF m, h, d
<1>3. bs = Fixed(m) \o h \o d
  <2>1. m.Error = h /\ m.Data = d
    BY <1>2
  <2> QED
    BY <2>1 DEF EncodeResp
<1> HIDE DEF bs
<1>4. Len(h) \in Nat /\ Len(d) \in Nat /\ 15 + Len(h) \in Nat
  <2>1. Len(h) \in Nat /\ Len(d) \in Nat
    BY <1>1, LenProperties
  <2> QED
    BY <2>1
<1>5. Fits(15 + Len(h)) /\ Fits(Len(d))
  BY <1>1, <1>4, FitsBelow
<1>6. m.HeadLength = 15 + Len(h) /\ m.BodyLength = Len(d)
  BY <1>2, <1>4, <1>5, FourBytes
<1>7. Numbers(m)
  BY <1>1, <1>2, <1>4, <1>5, <1>6 DEF Numbers, ProperFixed
<1>8. /\ bs \in Seq(Byte) /\ Len(bs) = 15 + Len(h) + Len(d)
      /\ Uint32(bs, 0) = m.HeadLength /\ Uint32(bs, 4) = m.BodyLength
      /\ Uint32(bs, 8) = m.MessageId
      /\ bs[13] = m.Version /\ bs[14] = m.Compressor /\ bs[15] = m.Serializer
      /\ Rest(First(bs, 15 + Len(h)), 15) = h /\ Rest(bs, 15 + Len(h)) = d
  BY <1>1, <1>3, <1>7, MessageParts
<1>9. IsPacket(bs)
  <2>1. 15 + Len(h) + Len(d) \in Nat /\ 15 + Len(h) + Len(d) >= 15
    BY <1>4
  <2>2. ToUint32(15 + Len(h) + Len(d)) = 15 + Len(h) + Len(d)
    BY <1>1, <2>1, FourBytes
  <2> QED
    BY <1>6, <1>8, <2>1, <2>2 DEF IsPacket
<1>10. DecodeResp(bs) = m
  <2> DEFINE H == Uint32(bs, 0)
  <2>1. H = 15 + Len(h) /\ H = ToUint32(15 + Len(h))
    BY <1>2, <1>6, <1>8
  <2>2. DecodeResp(bs) =
          [HeadLength |-> H, BodyLength |-> Uint32(bs, 4), MessageId |-> Uint32(bs, 8),
           Version |-> bs[13], Compressor |-> bs[14], Serializer |-> bs[15],
           Error |-> Rest(First(bs, H), 15), Data |-> Rest(bs, H)]
    BY DEF DecodeResp
  <2> HIDE DEF H
  <2>3. Rest(First(bs, H), 15) = h /\ Rest(bs, H) = d
    BY <1>8, <2>1
  <2>4. /\ Uint32(bs, 4) = ToUint32(Len(d)) /\ Uint32(bs, 8) = r.MessageId
        /\ bs[13] = r.Version /\ bs[14] = r.Compressor /\ bs[15] = r.Serializer
    BY <1>2, <1>8
  <2> QED
    BY <1>2, <2>1, <2>2, <2>3, <2>4
<1> QED
  BY <1>9, <1>10 DEF m, bs

\* What is written is a packet that is decoded to the message it encodes.
LEMMA OutgoingPackets ==
  ASSUME NEW out \in Outgoing
  PROVE  IsPacket(out.bytes) /\ Decode(out.bytes) = out.message
<1>1. CASE toServer
  <2>1. PICK r \in Requests : \E counted, order \in Orders(DOMAIN r.Meta) :
          out = [message |-> NewRequest(r, counted), bytes |-> EncodeReq(NewRequest(r, counted), order)]
    BY <1>1 DEF Outgoing, RequestsOut
  <2>2. PICK counted \in Orders(DOMAIN r.Meta), order \in Orders(DOMAIN r.Meta) :
          out = [message |-> NewRequest(r, counted), bytes |-> EncodeReq(NewRequest(r, counted), order)]
    BY <2>1
  <2>3. ProperRequest(r)
    BY MessageAssumption
  <2>4. /\ IsPacket(EncodeReq(NewRequest(r, counted), order))
        /\ DecodeReq(EncodeReq(NewRequest(r, counted), order)) = NewRequest(r, counted)
    BY <2>3, RequestReadBack
  <2> QED
    BY <1>1, <2>2, <2>4 DEF Decode
<1>2. CASE ~toServer
  <2>1. PICK r \in Responses : out = [message |-> NewResponse(r), bytes |-> EncodeResp(NewResponse(r))]
    BY <1>2 DEF Outgoing, ResponsesOut
  <2>2. ProperResponse(r)
    BY MessageAssumption
  <2>3. /\ IsPacket(EncodeResp(NewResponse(r)))
        /\ DecodeResp(EncodeResp(NewResponse(r))) = NewResponse(r)
    BY <2>2, ResponseReadBack
  <2> QED
    BY <1>2, <2>1, <2>3 DEF Decode
<1> QED
  BY <1>1, <1>2

-----------------------------------------------------------------------------
(* The bytes of a connection.                                              *)

\* Where the i-th message starts in the stream.
Start(i) == IF i = 1 THEN 0 ELSE ends[i - 1]

\* The first n bytes of a packet are in the stream from here on.
LiesAt(bs, start, n) == \A j \in 1 .. n : wire[start + j] = bs[j]

Sent == {out.message : out \in Outgoing}

\* The stream is the packets of the messages, one after the other, and after
\* these perhaps a part of one more whose write broke off.
Packets ==
  /\ written \in Seq(Sent) /\ decoded \in Seq(Sent)
  /\ Len(decoded) <= Len(written)
  /\ \A i \in 1 .. Len(ends) :
       \E out \in Outgoing :
         /\ out.message = written[i]
         /\ Start(i) + Len(out.bytes) = ends[i]
         /\ LiesAt(out.bytes, Start(i), Len(out.bytes))
  /\ writer = "open" => Len(wire) = Start(Len(ends) + 1)
  /\ \/ Len(wire) = Start(Len(ends) + 1)
     \/ \E out \in Outgoing :
          /\ Len(wire) < Start(Len(ends) + 1) + Len(out.bytes)
          /\ LiesAt(out.bytes, Start(Len(ends) + 1), Len(wire) - Start(Len(ends) + 1))

\* ReadMsg is at the start of a message, or eight bytes into it.
Position ==
  LET start == Start(Len(decoded) + 1)
  IN  /\ reading = "lengths" => taken = start
      /\ reading = "rest" => /\ taken = start + LenBytes /\ Len(lengths) = LenBytes
                             /\ \A j \in 1 .. LenBytes : wire[start + j] = lengths[j]

StreamInv == StreamTypeOK /\ Packets /\ Position

\* Before anything is written there is no packet to find.
LEMMA StreamStarts == StreamInit => StreamInv
<1> SUFFICES ASSUME StreamInit PROVE StreamInv
  OBVIOUS
<1> USE DEF StreamInit
<1>1. \A S : <<>> \in Seq(S)
  OBVIOUS
<1>2. StreamTypeOK
  BY <1>1 DEF StreamTypeOK
<1>3. Start(1) = 0 /\ Len(ends) = 0 /\ Len(decoded) = 0 /\ Len(written) = 0 /\ Len(wire) = 0
  BY DEF Start
<1>4. Packets
  BY <1>1, <1>3 DEF Packets
<1>5. Position
  BY <1>3 DEF Position
<1> QED
  BY <1>2, <1>4, <1>5 DEF StreamInv

\* What was there stays there when bytes are added.
LEMMA StreamGrows ==
  ASSUME StreamTypeOK, NEW bs \in Seq(Byte), wire' = wire \o bs
  PROVE  /\ wire' \in Seq(Byte) /\ Len(wire') = Len(wire) + Len(bs)
         /\ Len(wire) \in Nat /\ Len(bs) \in Nat
         /\ \A i \in 1 .. Len(wire) : wire'[i] = wire[i]
         /\ \A i \in 1 .. Len(bs) : wire'[Len(wire) + i] = bs[i]
         /\ 0 .. Len(wire) \subseteq 0 .. Len(wire')
<1>1. wire \in Seq(Byte) /\ Len(wire) \in Nat /\ Len(bs) \in Nat
  BY LenProperties DEF StreamTypeOK
<1>2. /\ wire \o bs \in Seq(Byte) /\ Len(wire \o bs) = Len(wire) + Len(bs)
      /\ \A i \in 1 .. Len(wire) + Len(bs) :
           (wire \o bs)[i] = IF i <= Len(wire) THEN wire[i] ELSE bs[i - Len(wire)]
  BY <1>1, ConcatProperties
<1>3. \A i \in 1 .. Len(wire) : wire'[i] = wire[i]
  BY <1>1, <1>2
<1>4. ASSUME NEW i \in 1 .. Len(bs) PROVE wire'[Len(wire) + i] = bs[i]
  <2>1. /\ Len(wire) + i \in 1 .. Len(wire) + Len(bs) /\ ~(Len(wire) + i <= Len(wire))
        /\ Len(wire) + i - Len(wire) = i
    BY <1>1
  <2> QED
    BY <1>2, <2>1
<1> QED
  BY <1>1, <1>2, <1>3, <1>4

\* The starts of the messages lie in the stream.
LEMMA StartsInStream ==
  ASSUME StreamInv
  PROVE  /\ Len(ends) \in Nat /\ Len(written) = Len(ends) /\ Len(decoded) \in Nat
         /\ Len(decoded) + 1 \in 1 .. Len(ends) + 1
         /\ \A i \in 1 .. Len(ends) + 1 : Start(i) \in 0 .. Len(wire)
         /\ \A i \in 1 .. Len(ends) : ends[i] \in 0 .. Len(wire) /\ Start(i + 1) = ends[i]
         /\ Len(wire) \in Nat /\ arrived \in 0 .. Len(wire) /\ taken \in 0 .. arrived
<1>1. /\ ends \in Seq(0 .. Len(wire)) /\ wire \in Seq(Byte) /\ Len(ends) = Len(written)
      /\ decoded \in Seq(Sent) /\ Len(decoded) <= Len(written)
      /\ arrived \in 0 .. Len(wire) /\ taken \in 0 .. arrived
  BY DEF StreamInv, StreamTypeOK, Packets
<1>2. Len(ends) \in Nat /\ Len(wire) \in Nat /\ Len(decoded) \in Nat
  BY <1>1, LenProperties
<1>3. \A i \in 1 .. Len(ends) : ends[i] \in 0 .. Len(wire)
  BY <1>1, ElementOfSeq
<1>4. ASSUME NEW i \in 1 .. Len(ends) + 1 PROVE Start(i) \in 0 .. Len(wire)
  <2>1. CASE i = 1
    BY <1>2, <2>1 DEF Start
  <2>2. CASE i # 1
    <3>1. i - 1 \in 1 .. Len(ends)
      BY <1>2, <2>2
    <3> QED
      BY <1>3, <2>2, <3>1 DEF Start
  <2> QED
    BY <2>1, <2>2
<1>5. \A i \in 1 .. Len(ends) : Start(i + 1) = ends[i]
  BY <1>2 DEF Start
<1> QED
  BY <1>1, <1>2, <1>3, <1>4, <1>5

\* Bytes that are added at the end leave the packets where they are.
LEMMA PacketsStay ==
  ASSUME StreamInv, NEW bs \in Seq(Byte), wire' = wire \o bs,
         \A i \in 1 .. Len(ends) : ends'[i] = ends[i],
         UNCHANGED <<decoded, arrived, taken, lengths, reading>>
  PROVE  /\ \A i \in 1 .. Len(ends) + 1 : Start(i)' = Start(i)
         /\ \A i \in 1 .. Len(ends) :
              \E out \in Outgoing :
                /\ out.message = written[i]
                /\ Start(i)' + Len(out.bytes) = ends'[i]
                /\ LiesAt(out.bytes, Start(i), Len(out.bytes))'
         /\ Position'
<1>1. /\ wire' \in Seq(Byte) /\ Len(wire') = Len(wire) + Len(bs)
      /\ Len(wire) \in Nat /\ Len(bs) \in Nat
      /\ \A i \in 1 .. Len(wire) : wire'[i] = wire[i]
      /\ 0 .. Len(wire) \subseteq 0 .. Len(wire')
  BY StreamGrows DEF StreamInv
<1>2. \A i \in 1 .. Len(ends) + 1 : Start(i)' = Start(i)
  <2>1. \A i \in 1 .. Len(ends) + 1 : i # 1 => i - 1 \in 1 .. Len(ends)
    BY StartsInStream
  <2> QED
    BY <2>1 DEF Start
<1>3. \A i \in 1 .. Len(ends) : i \in 1 .. Len(ends) + 1
  BY StartsInStream
<1>4. ASSUME NEW i \in 1 .. Len(ends)
      PROVE  \E out \in Outgoing : /\ out.message = written[i]
                                   /\ Start(i)' + Len(out.bytes) = ends'[i]
                                   /\ LiesAt(out.bytes, Start(i), Len(out.bytes))'
  <2>1. PICK out \in Outgoing : /\ out.message = written[i]
                                /\ Start(i) + Len(out.bytes) = ends[i]
                                /\ LiesAt(out.bytes, Start(i), Len(out.bytes))
    BY DEF StreamInv, Packets
  <2> DEFINE b == out.bytes
             l == Len(b)
             st == Start(i)
  <2>2. l \in Nat /\ st \in 0 .. Len(wire) /\ ends[i] \in 0 .. Len(wire) /\ st + l = ends[i]
    <3>1. b \in Seq(Byte)
      BY OutgoingPackets DEF IsPacket
    <3>2. i \in 1 .. Len(ends) + 1
      BY StartsInStream
    <3> QED
      BY <2>1, <3>1, <3>2, StartsInStream, LenProperties
  <2>3. \A j \in 1 .. l : wire[st + j] = b[j]
    BY <2>1 DEF LiesAt
  <2>4. (LiesAt(out.bytes, Start(i), Len(out.bytes)))' <=> \A j \in 1 .. l : wire'[st + j] = b[j]
    BY <1>2, <1>3 DEF LiesAt
  <2> HIDE DEF b, l, st
  <2>5. \A j \in 1 .. l : st + j \in 1 .. Len(wire)
    BY <1>1, <2>2
  <2>6. \A j \in 1 .. l : wire'[st + j] = b[j]
    BY <1>1, <2>3, <2>5
  <2> QED
    BY <1>2, <1>3, <2>1, <2>4, <2>6
<1>5. Position'
  <2> DEFINE st == Start(Len(decoded) + 1)
  <2>1. st' = st
    <3> DEFINE i == Len(decoded) + 1
    <3>1. i' = i /\ i \in 1 .. Len(ends) + 1
      BY StartsInStream
    <3>2. st = IF i = 1 THEN 0 ELSE ends[i - 1]
      BY DEF Start
    <3>3. st' = IF i' = 1 THEN 0 ELSE ends'[i' - 1]
      BY DEF Start
    <3>4. i # 1 => i - 1 \in 1 .. Len(ends)
      BY <3>1, StartsInStream
    <3> HIDE DEF i, st
    <3> QED
      BY <3>1, <3>2, <3>3, <3>4
  <2>2. st \in 0 .. Len(wire) /\ taken \in 0 .. Len(wire)
    BY <1>1, StartsInStream
  <2>3. /\ reading = "lengths" => taken = st
        /\ reading = "rest" => /\ taken = st + LenBytes /\ Len(lengths) = LenBytes
                               /\ \A j \in 1 .. LenBytes : wire[st + j] = lengths[j]
    BY DEF StreamInv, Position
  <2>4. Position' <=> /\ reading' = "lengths" => taken' = st'
                      /\ reading' = "rest" => /\ taken' = st' + LenBytes /\ Len(lengths') = LenBytes
                                              /\ \A j \in 1 .. LenBytes : wire'[st' + j] = lengths'[j]
    BY DEF Position, LenBytes
  <2> HIDE DEF st
  <2>5. ASSUME reading = "rest", NEW j \in 1 .. LenBytes PROVE wire'[st + j] = lengths[j]
    <3>1. taken = st + 8 /\ wire[st + j] = lengths[j] /\ j \in 1 .. 8
      BY <2>3, <2>5 DEF LenBytes
    <3>2. st + j \in 1 .. Len(wire)
      BY <1>1, <2>2, <3>1
    <3> QED
      BY <1>1, <3>1, <3>2
  <2> QED
    BY <2>1, <2>3, <2>4, <2>5
<1> QED
  BY <1>2, <1>4, <1>5

\* A whole packet is added at the end.
LEMMA WriteKeeps ==
  ASSUME StreamInv, WriteMessage
  PROVE  StreamInv'
<1>1. PICK out \in Outgoing : /\ wire' = wire \o out.bytes
                              /\ written' = Append(written, out.message)
                              /\ ends' = Append(ends, Len(wire) + Len(out.bytes))
  BY DEF WriteMessage
<1>2. /\ writer = "open" /\ UNCHANGED <<toServer, writer, arrived, reading, taken, lengths, decoded>>
  BY DEF WriteMessage
<1> DEFINE b == out.bytes
           n == Len(ends)
           e == Len(wire) + Len(b)
<1>3. b \in Seq(Byte) /\ Len(b) \in Nat
  BY OutgoingPackets, LenProperties DEF IsPacket
<1>4. /\ wire' \in Seq(Byte) /\ Len(wire') = e /\ Len(wire) \in Nat /\ e \in Nat
      /\ \A i \in 1 .. Len(b) : wire'[Len(wire) + i] = b[i]
      /\ 0 .. Len(wire) \subseteq 0 .. Len(wire')
  <2>1. StreamTypeOK /\ wire' = wire \o b
    BY <1>1 DEF StreamInv
  <2> HIDE DEF b
  <2>2. /\ wire' \in Seq(Byte) /\ Len(wire') = Len(wire) + Len(b)
        /\ Len(wire) \in Nat
        /\ \A i \in 1 .. Len(b) : wire'[Len(wire) + i] = b[i]
        /\ 0 .. Len(wire) \subseteq 0 .. Len(wire')
    BY <1>3, <2>1, StreamGrows
  <2>3. e \in Nat
    BY <1>3, <2>2
  <2> QED
    BY <2>2, <2>3
<1>5. /\ ends' \in Seq(0 .. Len(wire')) /\ Len(ends') = n + 1 /\ n \in Nat
      /\ ends'[n + 1] = e /\ \A i \in 1 .. n : ends'[i] = ends[i]
  <2>1. ends \in Seq(0 .. Len(wire')) /\ e \in 0 .. Len(wire')
    BY <1>4, SeqMonotonic DEF StreamInv, StreamTypeOK
  <2>2. n \in Nat
    BY StartsInStream
  <2> HIDE DEF e
  <2> QED
    BY <1>1, <2>1, <2>2, AppendProperties DEF e
<1>6. /\ \A i \in 1 .. n + 1 : Start(i)' = Start(i)
      /\ \A i \in 1 .. n :
           \E o \in Outgoing :
             /\ o.message = written[i]
             /\ Start(i)' + Len(o.bytes) = ends'[i]
             /\ LiesAt(o.bytes, Start(i), Len(o.bytes))'
      /\ Position'
  BY <1>1, <1>2, <1>3, <1>5, PacketsStay
<1>7. /\ written' \in Seq(Sent) /\ Len(written') = n + 1 /\ written'[n + 1] = out.message
      /\ \A i \in 1 .. n : written'[i] = written[i]
  <2>1. written \in Seq(Sent) /\ out.message \in Sent /\ Len(written) = n
    BY StartsInStream DEF StreamInv, Packets, Sent
  <2> QED
    BY <1>1, <2>1, AppendProperties
<1>8. Sent' = Sent /\ Outgoing' = Outgoing
  BY <1>2 DEF Sent, Outgoing, RequestsOut, ResponsesOut
<1>9. StreamTypeOK'
  BY <1>2, <1>4, <1>5, <1>7 DEF StreamInv, StreamTypeOK
<1>10. \A i \in 1 .. n + 1 : i = n + 1 => Start(i)' = Len(wire)
  <2>1. Start(n + 1) = Len(wire)
    BY <1>2 DEF StreamInv, Packets
  <2> QED
    BY <1>6, <2>1
<1>11. ASSUME NEW i \in 1 .. n + 1
       PROVE  \E o \in Outgoing : /\ o.message = written'[i]
                                  /\ Start(i)' + Len(o.bytes) = ends'[i]
                                  /\ LiesAt(o.bytes, Start(i), Len(o.bytes))'
  <2>1. CASE i = n + 1
    <3>1. Start(i)' = Len(wire) /\ ends'[i] = e /\ written'[i] = out.message
      <4> HIDE DEF e, n
      <4> QED
        BY <1>5, <1>7, <1>10, <2>1
    <3>2. LiesAt(out.bytes, Start(i), Len(out.bytes))'
      BY <1>4, <3>1 DEF LiesAt
    <3> QED
      BY <3>1, <3>2
  <2>2. CASE i # n + 1
    <3>1. i \in 1 .. n
      BY <1>5, <2>2
    <3>2. written'[i] = written[i]
      BY <1>7, <3>1
    <3> QED
      BY <1>6, <3>1, <3>2
  <2> QED
    BY <2>1, <2>2
<1>12. Packets'
  <2>1. decoded' \in Seq(Sent') /\ Len(decoded') <= Len(written')
    <3>1. decoded \in Seq(Sent) /\ Len(decoded) <= n /\ Len(decoded) \in Nat
      BY StartsInStream DEF StreamInv, Packets
    <3> QED
      BY <1>2, <1>5, <1>7, <1>8, <3>1
  <2>2. Len(wire') = Start(Len(ends) + 1)'
    <3>1. Len(ends') + 1 = n + 2
      BY <1>5
    <3>2. Start(Len(ends) + 1)' = IF Len(ends') + 1 = 1 THEN 0 ELSE ends'[Len(ends') + 1 - 1]
      BY DEF Start
    <3>3. Len(ends') + 1 # 1 /\ Len(ends') + 1 - 1 = n + 1
      BY <1>5
    <3> QED
      BY <1>4, <1>5, <3>2, <3>3
  <2>3. \A i \in 1 .. Len(ends') :
          \E o \in Outgoing' : /\ o.message = written'[i]
                               /\ Start(i)' + Len(o.bytes) = ends'[i]
                               /\ LiesAt(o.bytes, Start(i), Len(o.bytes))'
    BY <1>5, <1>8, <1>11
  <2> HIDE DEF n, e, b
  <2> QED
    BY <1>7, <1>8, <2>1, <2>2, <2>3 DEF Packets
<1> QED
  BY <1>6, <1>9, <1>12 DEF StreamInv

\* The part of a packet that a failed write leaves is the last there is.
LEMMA BreakKeeps ==
  ASSUME StreamInv, WriteBreaksOff
  PROVE  StreamInv'
<1>1. PICK out \in Outgoing, k \in Cuts : k < Len(out.bytes) /\ wire' = wire \o First(out.bytes, k)
  BY DEF WriteBreaksOff
<1>2. /\ writer = "open" /\ writer' = "closed"
      /\ UNCHANGED <<toServer, written, ends, arrived, reading, taken, lengths, decoded>>
  BY DEF WriteBreaksOff
<1> DEFINE b == First(out.bytes, k)
           n == Len(ends)
<1>3. /\ k \in Nat /\ out.bytes \in Seq(Byte) /\ Len(out.bytes) \in Nat
      /\ b \in Seq(Byte) /\ Len(b) = k /\ \A j \in 1 .. k : b[j] = out.bytes[j]
  <2>1. k \in Nat /\ out.bytes \in Seq(Byte)
    BY OutgoingPackets, StreamAssumption DEF IsPacket
  <2>2. Len(out.bytes) \in Nat
    BY <2>1, LenProperties
  <2>3. \A j \in 1 .. k : out.bytes[j] \in Byte
    <3>1. \A j \in 1 .. k : j \in 1 .. Len(out.bytes)
      BY <1>1, <2>1, <2>2
    <3> QED
      BY <2>1, <3>1, ElementOfSeq
  <2>4. /\ b \in Seq(Byte) /\ Len(b) = IF 1 <= k THEN k - 1 + 1 ELSE 0
        /\ \A j \in 1 .. k - 1 + 1 : b[j] = out.bytes[1 + j - 1]
    BY <2>1, <2>3, SubSeqProperties DEF First
  <2> HIDE DEF b
  <2>5. Len(b) = k /\ \A j \in 1 .. k : b[j] = out.bytes[j]
    <3>1. k - 1 + 1 = k /\ (1 <= k \/ k = 0) /\ \A j \in 1 .. k : 1 + j - 1 = j
      BY <2>1
    <3> QED
      BY <2>4, <3>1
  <2> QED
    BY <2>1, <2>2, <2>4, <2>5
<1>4. wire' = wire \o b
  BY <1>1
<1> HIDE DEF b
<1>5. /\ wire' \in Seq(Byte) /\ Len(wire') = Len(wire) + k /\ Len(wire) \in Nat
      /\ \A i \in 1 .. k : wire'[Len(wire) + i] = b[i]
      /\ 0 .. Len(wire) \subseteq 0 .. Len(wire')
  BY <1>3, <1>4, StreamGrows DEF StreamInv
<1>6. /\ \A i \in 1 .. n + 1 : Start(i)' = Start(i)
      /\ \A i \in 1 .. n :
           \E o \in Outgoing :
             /\ o.message = written[i]
             /\ Start(i)' + Len(o.bytes) = ends'[i]
             /\ LiesAt(o.bytes, Start(i), Len(o.bytes))'
      /\ Position'
  BY <1>2, <1>3, <1>4, PacketsStay
<1>7. ends' = ends /\ n \in Nat /\ ends' \in Seq(0 .. Len(wire'))
  <2>1. ends \in Seq(0 .. Len(wire'))
    BY <1>5, SeqMonotonic DEF StreamInv, StreamTypeOK
  <2> QED
    BY <1>2, <2>1, StartsInStream
<1>8. StreamTypeOK'
  BY <1>2, <1>5, <1>7 DEF StreamInv, StreamTypeOK
<1>9. Sent' = Sent /\ Outgoing' = Outgoing
  BY <1>2 DEF Sent, Outgoing, RequestsOut, ResponsesOut
<1>10. Start(n + 1) = Len(wire)
  BY <1>2 DEF StreamInv, Packets
<1>11. (Start(n + 1))' = Len(wire)
  <2>1. (Start(n + 1))' = IF Len(ends') + 1 = 1 THEN 0 ELSE ends'[Len(ends') + 1 - 1]
    BY DEF Start
  <2>2. Start(n + 1) = IF Len(ends) + 1 = 1 THEN 0 ELSE ends[Len(ends) + 1 - 1]
    BY DEF Start
  <2> QED
    BY <1>7, <1>10, <2>1, <2>2
<1>12. /\ Len(wire') < (Start(n + 1))' + Len(out.bytes)
       /\ LiesAt(out.bytes, Start(n + 1), Len(wire) - Start(n + 1))'
  <2>1. Len(wire') < (Start(n + 1))' + Len(out.bytes)
    BY <1>1, <1>3, <1>5, <1>11
  <2>2. (LiesAt(out.bytes, Start(n + 1), Len(wire) - Start(n + 1)))'
          <=> \A j \in 1 .. (Len(wire') - (Start(n + 1))') : wire'[(Start(n + 1))' + j] = out.bytes[j]
    BY DEF LiesAt
  <2>3. Len(wire') - (Start(n + 1))' = k
    <3>1. Len(wire') - (Start(n + 1))' = Len(wire') - Len(wire)
      BY <1>11
    <3>2. Len(wire') - Len(wire) = k
      BY <1>3, <1>5
    <3> QED
      BY <3>1, <3>2
  <2> QED
    BY <1>3, <1>5, <1>11, <2>1, <2>2, <2>3
<1>13. Packets'
  <2>1. written' \in Seq(Sent') /\ decoded' \in Seq(Sent') /\ Len(decoded') <= Len(written')
    BY <1>2, <1>9 DEF StreamInv, Packets
  <2>2. \A i \in 1 .. Len(ends') :
          \E o \in Outgoing' : /\ o.message = written'[i]
                               /\ Start(i)' + Len(o.bytes) = ends'[i]
                               /\ LiesAt(o.bytes, Start(i), Len(o.bytes))'
    BY <1>2, <1>6, <1>9
  <2>3. \E o \in Outgoing' : /\ Len(wire') < (Start(n + 1))' + Len(o.bytes)
                             /\ LiesAt(o.bytes, Start(n + 1), Len(wire) - Start(n + 1))'
    BY <1>9, <1>12
  <2>4. writer' # "open"
    BY <1>2
  <2> QED
    BY <2>1, <2>2, <2>3, <2>4 DEF Packets
<1> QED
  BY <1>6, <1>8, <1>13 DEF StreamInv

\* A step that leaves the stream as it is leaves the packets where they are.
LEMMA ReadingLeavesPackets ==
  ASSUME StreamInv, UNCHANGED <<toServer, writer, wire, written, ends>>,
         decoded' \in Seq(Sent), Len(decoded') <= Len(written)
  PROVE  Packets' /\ (\A i \in 1 .. Len(ends) + 1 : Start(i)' = Start(i))
<1>1. Sent' = Sent /\ Outgoing' = Outgoing
  BY DEF Sent, Outgoing, RequestsOut, ResponsesOut
<1>2. \A i \in 1 .. Len(ends) + 1 : Start(i)' = Start(i)
  BY DEF Start
<1>3. (Start(Len(ends) + 1))' = Start(Len(ends) + 1)
  BY DEF Start
<1>4. \A i \in 1 .. Len(ends'), o \in Outgoing :
        (LiesAt(o.bytes, Start(i), Len(o.bytes)))' <=> LiesAt(o.bytes, Start(i), Len(o.bytes))
  BY DEF LiesAt, Start
<1>5. \A o \in Outgoing :
        (LiesAt(o.bytes, Start(Len(ends) + 1), Len(wire) - Start(Len(ends) + 1)))'
          <=> LiesAt(o.bytes, Start(Len(ends) + 1), Len(wire) - Start(Len(ends) + 1))
  BY DEF LiesAt, Start
<1>6. \A i \in 1 .. Len(ends') : i \in 1 .. Len(ends) + 1
  BY StartsInStream
<1>7. written' \in Seq(Sent') /\ decoded' \in Seq(Sent') /\ Len(decoded') <= Len(written')
  BY <1>1 DEF StreamInv, Packets
<1>8. \A i \in 1 .. Len(ends') :
        \E o \in Outgoing' : /\ o.message = written'[i]
                             /\ Start(i)' + Len(o.bytes) = ends'[i]
                             /\ LiesAt(o.bytes, Start(i), Len(o.bytes))'
  <2>1. \A i \in 1 .. Len(ends) :
          \E o \in Outgoing : /\ o.message = written[i]
                              /\ Start(i) + Len(o.bytes) = ends[i]
                              /\ LiesAt(o.bytes, Start(i), Len(o.bytes))
    BY DEF StreamInv, Packets
  <2> QED
    BY <1>1, <1>2, <1>4, <1>6, <2>1
<1>9. writer' = "open" => Len(wire') = (Start(Len(ends) + 1))'
  BY <1>3 DEF StreamInv, Packets
<1>10. \/ Len(wire') = (Start(Len(ends) + 1))'
       \/ \E o \in Outgoing' :
            /\ Len(wire') < (Start(Len(ends) + 1))' + Len(o.bytes)
            /\ (LiesAt(o.bytes, Start(Len(ends) + 1), Len(wire) - Start(Len(ends) + 1)))'
  <2>1. \/ Len(wire) = Start(Len(ends) + 1)
        \/ \E o \in Outgoing :
             /\ Len(wire) < Start(Len(ends) + 1) + Len(o.bytes)
             /\ LiesAt(o.bytes, Start(Len(ends) + 1), Len(wire) - Start(Len(ends) + 1))
    BY DEF StreamInv, Packets
  <2> QED
    BY <1>1, <1>3, <1>5, <2>1
<1> QED
  BY <1>2, <1>7, <1>8, <1>9, <1>10 DEF Packets

\* Which bytes have arrived does not matter to the packets.
LEMMA ArriveKeeps ==
  ASSUME StreamInv, Arrive
  PROVE  StreamInv'
<1>1. /\ UNCHANGED <<toServer, writer, wire, written, ends, reading, taken, lengths, decoded>>
      /\ arrived' \in arrived + 1 .. Len(wire)
  BY DEF Arrive
<1>2. arrived' \in 0 .. Len(wire') /\ taken' \in 0 .. arrived'
  BY <1>1, StartsInStream
<1>3. StreamTypeOK'
  BY <1>1, <1>2 DEF StreamInv, StreamTypeOK
<1>4. Packets'
  BY <1>1, ReadingLeavesPackets DEF StreamInv, Packets
<1>5. Position'
  BY <1>1 DEF StreamInv, Position, Start
<1> QED
  BY <1>3, <1>4, <1>5 DEF StreamInv

\* The eight bytes that are read start where the next packet does.
LEMMA ReadLengthsKeeps ==
  ASSUME StreamInv, ReadLengths
  PROVE  StreamInv'
<1>1. /\ UNCHANGED <<toServer, writer, wire, written, ends, arrived, decoded>>
      /\ reading = "lengths" /\ taken < arrived
  BY DEF ReadLengths
<1>2. Packets' /\ \A i \in 1 .. Len(ends) + 1 : Start(i)' = Start(i)
  BY <1>1, ReadingLeavesPackets DEF StreamInv, Packets
<1>3. wire \in Seq(Byte) /\ lengths \in Seq(Byte)
  BY DEF StreamInv, StreamTypeOK
<1>4. CASE arrived - taken >= LenBytes
  <2>1. /\ lengths' = SubSeq(wire, taken + 1, taken + LenBytes)
        /\ taken' = taken + LenBytes /\ reading' = "rest"
    BY <1>4 DEF ReadLengths
  <2>2. /\ taken + 1 \in Int /\ taken + 8 \in Int /\ taken + 8 - (taken + 1) + 1 = 8
        /\ taken + 1 <= taken + 8 /\ taken + 8 \in 0 .. arrived
        /\ taken + 1 .. taken + 8 \subseteq 1 .. Len(wire)
    BY <1>4, StartsInStream DEF LenBytes
  <2>3. \A i \in taken + 1 .. taken + 8 : wire[i] \in Byte
    BY <1>3, <2>2, ElementOfSeq
  <2>4. /\ lengths' \in Seq(Byte) /\ Len(lengths') = 8
        /\ \A j \in 1 .. 8 : lengths'[j] = wire[taken + 1 + j - 1]
    <3> DEFINE lo == taken + 1
               hi == taken + 8
    <3>1. lengths' = SubSeq(wire, lo, hi)
      BY <2>1 DEF LenBytes
    <3>2. lo \in Int /\ hi \in Int /\ hi - lo + 1 = 8 /\ lo <= hi
      <4>1. taken \in Nat
        BY StartsInStream
      <4> QED
        BY <4>1
    <3>3. \A i \in lo .. hi : wire[i] \in Byte
      BY <2>3
    <3> HIDE DEF lo, hi
    <3>4. /\ lengths' \in Seq(Byte)
          /\ Len(lengths') = IF lo <= hi THEN hi - lo + 1 ELSE 0
          /\ \A j \in 1 .. hi - lo + 1 : lengths'[j] = wire[lo + j - 1]
      BY <3>1, <3>2, <3>3, SubSeqProperties
    <3>5. /\ lengths' \in Seq(Byte) /\ Len(lengths') = 8
          /\ \A j \in 1 .. 8 : lengths'[j] = wire[lo + j - 1]
      BY <3>2, <3>4
    <3> QED
      BY <3>5 DEF lo
  <2>5. taken = Start(Len(decoded) + 1)
    BY <1>1 DEF StreamInv, Position
  <2>6. (Start(Len(decoded) + 1))' = taken
    BY <1>1, <2>5 DEF Start
  <2>7. \A j \in 1 .. 8 : wire'[(Start(Len(decoded) + 1))' + j] = lengths'[j]
    <3>1. \A j \in 1 .. 8 : taken + 1 + j - 1 = taken + j
      BY <2>2, StartsInStream
    <3> QED
      BY <1>1, <2>4, <2>6, <3>1
  <2>8. Position'
    BY <2>1, <2>4, <2>6, <2>7 DEF Position, LenBytes
  <2>9. StreamTypeOK'
    BY <1>1, <2>1, <2>2, <2>4 DEF StreamInv, StreamTypeOK, LenBytes
  <2> QED
    BY <1>2, <2>8, <2>9 DEF StreamInv
<1>5. CASE ~(arrived - taken >= LenBytes)
  <2>1. lengths' = lengths /\ taken' = arrived /\ reading' = "failed"
    BY <1>5 DEF ReadLengths
  <2>2. Position'
    BY <2>1 DEF Position
  <2>3. arrived \in 0 .. arrived
    BY StartsInStream
  <2>4. StreamTypeOK'
    BY <1>1, <2>1, <2>3 DEF StreamInv, StreamTypeOK
  <2> QED
    BY <1>2, <2>2, <2>4 DEF StreamInv
<1> QED
  BY <1>4, <1>5

\* A reader that has failed is nowhere in the stream.
LEMMA FailKeeps ==
  ASSUME StreamInv, ReadMsgFails
  PROVE  StreamInv'
<1>1. /\ UNCHANGED <<toServer, writer, wire, written, ends, arrived, taken, lengths, decoded>>
      /\ reading' = "failed"
  BY DEF ReadMsgFails
<1>2. Packets'
  BY <1>1, ReadingLeavesPackets DEF StreamInv, Packets
<1>3. Position'
  BY <1>1 DEF Position
<1>4. StreamTypeOK'
  BY <1>1 DEF StreamInv, StreamTypeOK
<1> QED
  BY <1>2, <1>3, <1>4 DEF StreamInv

\* The eight bytes that were read are those of the packet that starts here.
LEMMA LengthsOfPacket ==
  ASSUME StreamInv, NEW out \in Outgoing, NEW start \in Nat, NEW n \in Nat,
         LiesAt(out.bytes, start, n), n >= 8,
         \A j \in 1 .. 8 : wire[start + j] = lengths[j]
  PROVE  MsgLength = Len(out.bytes)
<1>1. \A j \in 1 .. 8 : lengths[j] = out.bytes[j]
  BY DEF LiesAt
<1>2. Uint32(lengths, 0) = Uint32(out.bytes, 0) /\ Uint32(lengths, 4) = Uint32(out.bytes, 4)
  BY <1>1 DEF Uint32
<1>3. ToUint32(Uint32(out.bytes, 0) + Uint32(out.bytes, 4)) = Len(out.bytes)
  BY OutgoingPackets DEF IsPacket
<1> QED
  BY <1>2, <1>3 DEF MsgLength

\* When all the rest has arrived there is a message to read, and what ReadMsg
\* returns is its packet.
LEMMA NextPacket ==
  ASSUME StreamInv, ReadRest
  PROVE  /\ Len(decoded) + 1 \in 1 .. Len(ends) /\ MsgLength \in Nat
         /\ \E out \in Outgoing :
              /\ out.message = written[Len(decoded) + 1]
              /\ taken + MsgLength - LenBytes = ends[Len(decoded) + 1]
              /\ lengths \o SubSeq(wire, taken + 1, taken + MsgLength - LenBytes) = out.bytes
<1> DEFINE j == Len(decoded) + 1
           st == Start(j)
<1>1. /\ reading = "rest" /\ MsgLength >= LenBytes /\ arrived - taken >= MsgLength - LenBytes
  BY DEF ReadRest
<1>2. /\ taken = st + 8 /\ Len(lengths) = 8 /\ \A i \in 1 .. 8 : wire[st + i] = lengths[i]
  BY <1>1 DEF StreamInv, Position, LenBytes
<1>3. /\ Len(ends) \in Nat /\ j \in 1 .. Len(ends) + 1 /\ st \in Nat
      /\ Len(wire) \in Nat /\ arrived \in Nat /\ arrived <= Len(wire) /\ taken <= arrived
  <2>1. j \in 1 .. Len(ends) + 1 /\ Len(wire) \in Nat /\ arrived \in 0 .. Len(wire) /\ taken \in 0 .. arrived
    BY StartsInStream
  <2>2. st \in 0 .. Len(wire)
    BY <2>1, StartsInStream
  <2> HIDE DEF st, j
  <2> QED
    BY <2>1, <2>2, StartsInStream
<1>4. ASSUME j = Len(ends) + 1 PROVE FALSE
  <2>1. st = Start(Len(ends) + 1)
    BY <1>4
  <2>2. Len(wire) # st
    <3> HIDE DEF st, j
    <3> QED
      BY <1>2, <1>3
  <2>3. PICK out \in Outgoing : /\ Len(wire) < Start(Len(ends) + 1) + Len(out.bytes)
                                /\ LiesAt(out.bytes, Start(Len(ends) + 1), Len(wire) - Start(Len(ends) + 1))
    BY <2>1, <2>2 DEF StreamInv, Packets
  <2> DEFINE n == Len(wire) - st
             l == Len(out.bytes)
  <2>4. Len(wire) < st + l /\ LiesAt(out.bytes, st, n)
    BY <2>1, <2>3
  <2>5. l \in Nat
    BY OutgoingPackets, LenProperties DEF IsPacket
  <2>6. n \in Nat /\ n >= 8
    <3> DEFINE w == Len(wire)
    <3>1. taken = st + 8 /\ st \in Nat /\ w \in Nat /\ arrived \in Nat /\ arrived <= w /\ taken <= arrived
      BY <1>2, <1>3
    <3> HIDE DEF st, w
    <3>2. w - st \in Nat /\ w - st >= 8
      BY <3>1
    <3> QED
      BY <3>2 DEF w
  <2>7. MsgLength = l
    <3> HIDE DEF st, j, n
    <3> QED
      BY <1>2, <1>3, <2>4, <2>6, LengthsOfPacket
  <2>8. arrived - taken >= l - 8
    BY <1>1, <2>7 DEF LenBytes
  <2> HIDE DEF st, j, n, l
  <2> QED
    BY <1>2, <1>3, <2>4, <2>5, <2>8
<1>5. j \in 1 .. Len(ends)
  <2> HIDE DEF st, j
  <2> QED
    BY <1>3, <1>4
<1>6. PICK out \in Outgoing : /\ out.message = written[j]
                              /\ Start(j) + Len(out.bytes) = ends[j]
                              /\ LiesAt(out.bytes, Start(j), Len(out.bytes))
  <2> HIDE DEF j
  <2> QED
    BY <1>5 DEF StreamInv, Packets
<1> DEFINE b == out.bytes
           l == Len(b)
<1>7. b \in Seq(Byte) /\ l \in Nat /\ l >= 15 /\ \A i \in 1 .. l : wire[st + i] = b[i]
  <2>1. b \in Seq(Byte) /\ Len(b) >= 15
    BY OutgoingPackets DEF IsPacket
  <2>2. \A i \in 1 .. l : wire[st + i] = b[i]
    BY <1>6 DEF LiesAt
  <2> QED
    BY <2>1, <2>2, LenProperties
<1>8. MsgLength = l
  <2>1. l >= 8
    BY <1>7
  <2>2. LiesAt(out.bytes, st, l)
    BY <1>6
  <2> HIDE DEF st, j, l
  <2>3. l \in Nat /\ st \in Nat /\ \A i \in 1 .. 8 : wire[st + i] = lengths[i]
    BY <1>2, <1>3, <1>7
  <2> QED
    BY <2>1, <2>2, <2>3, LengthsOfPacket DEF l
<1> DEFINE lo == taken + 1
           hi == taken + MsgLength - LenBytes
           rest == SubSeq(wire, lo, hi)
<1>9. lo = st + 9 /\ hi = st + l /\ hi = ends[j] /\ hi <= Len(wire)
  <2>1. st + l = ends[j]
    BY <1>6
  <2>2. lo = taken + 1 /\ hi = taken + l - 8 /\ arrived - taken >= l - 8
    BY <1>1, <1>8 DEF LenBytes
  <2> HIDE DEF st, j, l, lo, hi
  <2> QED
    BY <1>2, <1>3, <1>7, <2>1, <2>2
<1>10. lengths \in Seq(Byte) /\ wire \in Seq(Byte)
  BY DEF StreamInv, StreamTypeOK
<1>11. rest \in Seq(Byte) /\ Len(rest) = l - 8 /\ \A i \in 1 .. l - 8 : rest[i] = b[i + 8]
  <2> HIDE DEF st, j, l, lo, hi, b
  <2>1. lo \in Int /\ hi \in Int /\ lo <= hi /\ hi - lo + 1 = l - 8
    BY <1>3, <1>7, <1>9
  <2>2. \A i \in lo .. hi : wire[i] \in Byte
    <3>1. \A i \in lo .. hi : i \in 1 .. Len(wire)
      BY <1>3, <1>7, <1>9
    <3> QED
      BY <1>10, <3>1, ElementOfSeq
  <2>3. /\ rest \in Seq(Byte) /\ Len(rest) = IF lo <= hi THEN hi - lo + 1 ELSE 0
        /\ \A i \in 1 .. hi - lo + 1 : rest[i] = wire[lo + i - 1]
    BY <2>1, <2>2, SubSeqProperties
  <2> HIDE DEF rest
  <2>4. ASSUME NEW i \in 1 .. l - 8 PROVE rest[i] = b[i + 8]
    <3>1. rest[i] = wire[lo + i - 1]
      BY <2>1, <2>3
    <3>2. lo + i - 1 = st + (i + 8) /\ i + 8 \in 1 .. l
      BY <1>3, <1>7, <1>9
    <3>3. wire[st + (i + 8)] = b[i + 8]
      BY <1>7, <3>2
    <3> QED
      BY <3>1, <3>2, <3>3
  <2> QED
    BY <2>1, <2>3, <2>4
<1>12. lengths \o rest = b
  <2> HIDE DEF st, j, l, lo, hi, b, rest
  <2> DEFINE whole == lengths \o rest
  <2>1. /\ whole \in Seq(Byte) /\ Len(whole) = Len(lengths) + Len(rest)
        /\ \A i \in 1 .. Len(lengths) + Len(rest) :
             whole[i] = IF i <= Len(lengths) THEN lengths[i] ELSE rest[i - Len(lengths)]
    BY <1>10, <1>11, ConcatProperties
  <2>2. Len(whole) = l /\ Len(lengths) + Len(rest) = l
    BY <1>2, <1>7, <1>11, <2>1
  <2> HIDE DEF whole
  <2>3. ASSUME NEW i \in 1 .. l PROVE whole[i] = b[i]
    <3>1. whole[i] = IF i <= 8 THEN lengths[i] ELSE rest[i - 8]
      BY <1>2, <2>1, <2>2
    <3>2. CASE i <= 8
      <4>1. i \in 1 .. 8
        BY <1>7, <3>2
      <4> QED
        BY <1>2, <1>7, <3>1, <3>2, <4>1
    <3>3. CASE ~(i <= 8)
      <4>1. i - 8 \in 1 .. l - 8 /\ (i - 8) + 8 = i
        BY <1>7, <3>3
      <4> QED
        BY <1>11, <3>1, <3>3, <4>1
    <3> QED
      BY <3>2, <3>3
  <2>4. Len(b) = l
    BY DEF l
  <2>5. whole = b
    BY <1>7, <2>1, <2>2, <2>3, <2>4, SeqEqual
  <2> QED
    BY <2>5 DEF whole
<1> QED
  BY <1>5, <1>6, <1>7, <1>8, <1>9, <1>12

\* What is decoded is the next message, and the reader is at the one after it.
LEMMA ReadRestKeeps ==
  ASSUME StreamInv, ReadRest
  PROVE  /\ StreamInv'
         /\ Len(decoded) < Len(written)
         /\ decoded' = Append(decoded, written[Len(decoded) + 1])
<1> DEFINE j == Len(decoded) + 1
           k == Len(decoded)
<1>1. /\ UNCHANGED <<toServer, writer, wire, written, ends, arrived, lengths>>
      /\ reading' = "lengths" /\ taken' = taken + MsgLength - LenBytes
      /\ arrived - taken >= MsgLength - LenBytes
      /\ decoded' = Append(decoded,
           Decode(lengths \o SubSeq(wire, taken + 1, taken + MsgLength - LenBytes)))
  BY DEF ReadRest
<1>2. PICK out \in Outgoing :
        /\ out.message = written[j]
        /\ taken + MsgLength - LenBytes = ends[j]
        /\ lengths \o SubSeq(wire, taken + 1, taken + MsgLength - LenBytes) = out.bytes
  BY NextPacket
<1>3. k \in Nat /\ j \in 1 .. Len(ends) /\ k < Len(ends) /\ Len(ends) = Len(written) /\ Len(ends) \in Nat
  BY NextPacket, StartsInStream
<1>4. decoded' = Append(decoded, written[j])
  <2>1. Decode(out.bytes) = written[j]
    BY <1>2, OutgoingPackets
  <2> QED
    BY <1>1, <1>2, <2>1
<1>5. decoded' \in Seq(Sent) /\ Len(decoded') = j /\ Len(decoded') <= Len(written)
  <2>1. decoded \in Seq(Sent) /\ written[j] \in Sent
    BY <1>2 DEF StreamInv, Packets, Sent
  <2>2. decoded' \in Seq(Sent) /\ Len(decoded') = Len(decoded) + 1
    BY <1>4, <2>1, AppendProperties
  <2> QED
    BY <1>3, <2>2
<1>6. Packets'
  BY <1>1, <1>5, ReadingLeavesPackets
<1>7. taken' = ends[j] /\ ends[j] \in 0 .. Len(wire)
  BY <1>1, <1>2, <1>3, StartsInStream
<1>8. taken' \in 0 .. arrived
  <2> DEFINE e == ends[j]
             l == MsgLength - LenBytes
  <2>1. e \in Nat
    <3>1. Len(wire) \in Nat
      BY StartsInStream
    <3> QED
      BY <1>7, <3>1
  <2>2. e = taken + MsgLength - LenBytes /\ arrived - taken >= MsgLength - LenBytes /\ taken' = e
    BY <1>1, <1>2
  <2>3. arrived \in Nat /\ taken \in Nat
    BY StartsInStream
  <2>4. MsgLength \in Int
    BY NextPacket
  <2> HIDE DEF e
  <2> QED
    BY <2>1, <2>2, <2>3, <2>4 DEF LenBytes
<1>9. StreamTypeOK'
  BY <1>1, <1>8 DEF StreamInv, StreamTypeOK
<1>10. Position'
  <2>1. (Start(Len(decoded) + 1))' = IF Len(decoded') + 1 = 1 THEN 0 ELSE ends'[Len(decoded') + 1 - 1]
    BY DEF Start
  <2>2. Len(decoded') + 1 # 1 /\ Len(decoded') + 1 - 1 = j
    BY <1>3, <1>5
  <2>3. (Start(Len(decoded) + 1))' = ends[j]
    BY <1>1, <2>1, <2>2
  <2> QED
    BY <1>1, <1>7, <2>3 DEF Position
<1> QED
  BY <1>3, <1>4, <1>6, <1>9, <1>10 DEF StreamInv

\* Every step keeps the invariant.
LEMMA StreamNextKeeps ==
  ASSUME StreamInv, [StreamNext]_byteVars
  PROVE  StreamInv'
<1>1. CASE StreamNext
  BY <1>1, WriteKeeps, BreakKeeps, ArriveKeeps, ReadLengthsKeeps, ReadRestKeeps, FailKeeps DEF StreamNext
<1>2. CASE UNCHANGED byteVars
  <2>1. UNCHANGED <<toServer, writer, wire, written, ends, arrived, reading, taken, lengths, decoded>>
    BY <1>2 DEF byteVars
  <2>2. Packets'
    BY <2>1, ReadingLeavesPackets DEF StreamInv, Packets
  <2>3. Position'
    BY <2>1 DEF StreamInv, Position, Start
  <2>4. StreamTypeOK'
    BY <2>1 DEF StreamInv, StreamTypeOK
  <2> QED
    BY <2>2, <2>3, <2>4 DEF StreamInv
<1> QED
  BY <1>1, <1>2

\* The bytes of a connection are always the packets of the messages written,
\* perhaps with a broken one at the end, and ReadMsg is always between two of
\* them or eight bytes into one.
THEOREM StreamInvariant == StreamSpec => [](StreamTypeOK /\ Packets /\ Position)
<1>1. StreamInit => StreamInv
  BY StreamStarts
<1>2. StreamInv /\ [StreamNext]_byteVars => StreamInv'
  BY StreamNextKeeps
<1> QED
  BY <1>1, <1>2, PTL DEF StreamSpec, StreamInv

\* What the callers of ReadMsg decode are the messages that were encoded, each
\* once and in order, for every set of messages, every length below 2^32 and
\* every way the bytes are cut into pieces.
THEOREM QueueRefinement == StreamSpec => ImplementsQueue
<1>1. StreamInit => Queue!Init
  BY DEF StreamInit, Queue!Init
<1>2. StreamInv /\ [StreamNext]_byteVars => [Queue!Next]_<<written, decoded>>
  <2> SUFFICES ASSUME StreamInv, [StreamNext]_byteVars
               PROVE  [Queue!Next]_<<written, decoded>>
    OBVIOUS
  <2>1. CASE WriteMessage
    <3>1. PICK out \in Outgoing : written' = Append(written, out.message)
      BY <2>1 DEF WriteMessage
    <3>2. decoded' = decoded
      BY <2>1 DEF WriteMessage
    <3>3. written \in Seq(Sent) /\ out.message \in Sent
      BY DEF StreamInv, Packets, Sent
    <3>4. Len(written') = Len(written) + 1 /\ SubSeq(written', 1, Len(written)) = written
      BY <3>1, <3>3, AppendProperties
    <3>5. Queue!Send
      BY <3>2, <3>4 DEF Queue!Send
    <3> QED
      BY <3>5 DEF Queue!Next
  <2>2. CASE ReadRest
    <3>1. written' = written
      BY <2>2 DEF ReadRest
    <3>2. Len(decoded) < Len(written) /\ decoded' = Append(decoded, written[Len(decoded) + 1])
      BY <2>2, ReadRestKeeps
    <3>3. Queue!Receive
      BY <3>1, <3>2 DEF Queue!Receive
    <3> QED
      BY <3>3 DEF Queue!Next
  <2>3. CASE WriteBreaksOff \/ Arrive \/ ReadLengths \/ ReadMsgFails
    BY <2>3 DEF WriteBreaksOff, Arrive, ReadLengths, ReadMsgFails
  <2>4. CASE UNCHANGED byteVars
    BY <2>4 DEF byteVars
  <2> QED
    BY <2>1, <2>2, <2>3, <2>4 DEF StreamNext
<1>3. StreamInit => StreamInv
  BY StreamStarts
<1>4. StreamInv /\ [StreamNext]_byteVars => StreamInv'
  BY StreamNextKeeps
<1> QED
  BY <1>1, <1>2, <1>3, <1>4, PTL DEF StreamSpec, ImplementsQueue, Queue!Spec, Queue!vars

-----------------------------------------------------------------------------
(* Calls.                                                                  *)

USE CallAssumption, ConnAssumption, BreakAssumption

\* A connection is in the pool, or with the one call that took it.
OwnConnections ==
  /\ \A c \in Calls : caller[c] = "idle" => worker[c] = "off"
  /\ \A c \in Calls : worker[c] \in {"off", "get"} => conn[c] = NoConn
  /\ \A c \in Calls : conn[c] \notin idle
  /\ \A c, d \in Calls : conn[c] = conn[d] /\ conn[c] # NoConn => c = d

\* A request is written once, so the service has not run for one that is on its
\* way or being served.
Before(k, c) == conn[c] = k /\ worker[c] \in {"read", "done"} /\ runs[c] = 0

OneRequest ==
  /\ \A c \in Calls : worker[c] \in {"off", "get", "write"} => runs[c] = 0
  /\ \A k \in Conns :
       \/ requests[k] = <<>>
       \/ serving[k] = NoCall /\ \E c \in Calls : requests[k] = <<c>> /\ Before(k, c)
  /\ \A k \in Conns : serving[k] # NoCall => Before(k, serving[k])

\* A message is for the call that has its connection, and a value in it comes
\* from the service.
Honest(k, m) == conn[m.call] = k /\ (m.kind = "value" => runs[m.call] = 1)

OwnResponses ==
  /\ \A k \in Conns : \A i \in 1 .. Len(responses[k]) : Honest(k, responses[k][i])
  /\ \A c \in Calls : result[c].kind = "value" => result[c].call = c /\ runs[c] = 1
  /\ \A c \in Calls : told[c] = "value" => worker[c] = "done" /\ result[c].kind = "value"

CallInv == TypeOK /\ OwnConnections /\ OneRequest /\ OwnResponses

-----------------------------------------------------------------------------
LEMMA CallInit == Init => CallInv
<1> SUFFICES ASSUME Init PROVE CallInv
  OBVIOUS
<1>1. TypeOK
  BY DEF Init, TypeOK, NoResult, Message
<1>2. OwnConnections /\ OneRequest
  BY DEF Init, OwnConnections, OneRequest
<1>3. OwnResponses
  BY DEF Init, OwnResponses, NoResult, Message
<1> QED BY <1>1, <1>2, <1>3 DEF CallInv

\* Messages keep their type through the queues.
LEMMA QueueType ==
  ASSUME NEW S, NEW s \in Seq(S), NEW e \in S
  PROVE  /\ Append(s, e) \in Seq(S)
         /\ Len(Append(s, e)) = Len(s) + 1
         /\ \A i \in 1 .. Len(s) + 1 : Append(s, e)[i] = IF i = Len(s) + 1 THEN e ELSE s[i]
         /\ s # <<>> => /\ Tail(s) \in Seq(S) /\ Head(s) \in S /\ Head(s) = s[1]
                        /\ Len(Tail(s)) = Len(s) - 1 /\ Len(s) \in Nat \ {0}
                        /\ \A i \in 1 .. Len(s) - 1 : Tail(s)[i] = s[i + 1]
OBVIOUS

-----------------------------------------------------------------------------
(* The caller.                                                             *)

\* A value that is told is the result that the goroutine has left.
LEMMA TellValue ==
  ASSUME CallInv, NEW c \in Calls, CallerStep(c)
  PROVE  \E what \in {"value", "noData", "failed", "ctx"} :
           /\ Tell(c, what)
           /\ what = "value" => worker[c] = "done" /\ result[c].kind = "value" /\ runs[c] = 1
<1>1. Told(c) \in {"value", "noData", "failed"} /\ (Told(c) = "value" => result[c].kind = "value")
  BY DEF Told
<1>2. result[c].kind = "value" => runs[c] = 1
  BY DEF CallInv, OwnResponses
<1> HIDE DEF Told
<1> QED BY <1>1, <1>2 DEF CallerStep, ReturnResult, ReturnCtx

LEMMA CallerKeepsInv ==
  ASSUME CallInv, NEW c \in Calls,
         Invoke(c) \/ CallerStep(c) \/ CtxDone(c)
  PROVE  CallInv'
<1> USE DEF CallInv, workerVars, streamVars, serverVars
<1>1. CASE Invoke(c)
  <2>1. CASE ctxDone[c]
    <3>1. Tell(c, "ctx") /\ UNCHANGED worker
      BY <1>1, <2>1 DEF Invoke
    <3>2. TypeOK'
      BY <1>1, <3>1 DEF Invoke, Tell, TypeOK
    <3>3. OwnConnections' /\ OneRequest'
      BY <1>1, <3>1 DEF Invoke, Tell, TypeOK, OwnConnections, OneRequest, Before
    <3>4. OwnResponses'
      BY <1>1, <3>1 DEF Invoke, Tell, TypeOK, OwnResponses, Honest
    <3> QED BY <3>2, <3>3, <3>4
  <2>2. CASE ~ctxDone[c]
    <3>1. /\ caller' = [caller EXCEPT ![c] = "waiting"]
          /\ worker' = [worker EXCEPT ![c] = "get"]
          /\ UNCHANGED told
      BY <1>1, <2>2 DEF Invoke
    <3>2. worker[c] = "off"
      BY <1>1 DEF Invoke, OwnConnections
    <3>3. TypeOK'
      BY <1>1, <3>1 DEF Invoke, TypeOK
    <3>4. OwnConnections'
      BY <1>1, <3>1, <3>2 DEF Invoke, TypeOK, OwnConnections
    <3>5. \A k \in Conns, d \in Calls : Before(k, d) => Before(k, d)'
      BY <1>1, <3>1, <3>2 DEF Invoke, TypeOK, Before
    <3>6. OneRequest'
      BY <1>1, <3>1, <3>2, <3>5 DEF Invoke, TypeOK, OneRequest
    <3>7. OwnResponses'
      BY <1>1, <3>1, <3>2 DEF Invoke, TypeOK, OwnResponses, Honest
    <3> QED BY <3>3, <3>4, <3>6, <3>7
  <2> QED BY <2>1, <2>2
<1>2. CASE CallerStep(c)
  <2>1. PICK what \in {"value", "noData", "failed", "ctx"} :
          /\ Tell(c, what)
          /\ what = "value" => worker[c] = "done" /\ result[c].kind = "value"
    BY <1>2, TellValue
  <2>2. UNCHANGED <<shape, ctxDone, workerVars, idle, streamVars, breaks, serverVars>>
    BY <1>2 DEF CallerStep, ReturnResult, ReturnCtx
  <2>3. TypeOK'
    BY <2>1, <2>2 DEF Tell, TypeOK
  <2>4. OwnConnections' /\ OneRequest'
    BY <2>1, <2>2 DEF Tell, TypeOK, OwnConnections, OneRequest, Before
  <2>5. \A d \in Calls : told'[d] = "value" => worker[d] = "done" /\ result[d].kind = "value"
    BY <2>1 DEF Tell, TypeOK, OwnResponses
  <2>6. OwnResponses'
    BY <2>2, <2>5 DEF OwnResponses, Honest
  <2> QED BY <2>3, <2>4, <2>6
<1>3. CASE CtxDone(c)
  <2>1. TypeOK'
    BY <1>3 DEF CtxDone, callerVars, TypeOK
  <2>2. OwnConnections' /\ OneRequest' /\ OwnResponses'
    BY <1>3 DEF CtxDone, callerVars, OwnConnections, OneRequest, Before, OwnResponses, Honest
  <2> QED BY <2>1, <2>2
<1> QED BY <1>1, <1>2, <1>3

-----------------------------------------------------------------------------
(* doInvoke.                                                               *)

LEMMA GetKeepsInv ==
  ASSUME CallInv, NEW c \in Calls, Get(c) \/ GetFails(c)
  PROVE  CallInv'
<1> USE DEF CallInv, workerVars, streamVars, serverVars, callerVars
<1>1. CASE Get(c)
  <2>1. PICK k \in idle : conn' = [conn EXCEPT ![c] = k] /\ idle' = idle \ {k}
    BY <1>1 DEF Get
  <2>2. TypeOK'
    BY <1>1, <2>1 DEF Get, TypeOK
  <2>3. OwnConnections'
    BY <1>1, <2>1 DEF Get, TypeOK, OwnConnections
  <2>4. /\ \A d \in Calls : d # c => conn'[d] = conn[d] /\ worker'[d] = worker[d]
        /\ \A k2 \in Conns : conn[c] # k2
    BY <1>1, <2>1 DEF Get, TypeOK, OwnConnections
  <2>5. \A k2 \in Conns, d \in Calls : Before(k2, d) => Before(k2, d)'
    BY <1>1, <2>4 DEF Get, Before
  <2>6. OneRequest'
    BY <1>1, <2>4, <2>5 DEF Get, TypeOK, OneRequest
  <2>7. \A k2 \in Conns, m \in Messages : Honest(k2, m) => Honest(k2, m)'
    BY <1>1, <2>4 DEF Get, Honest, Messages
  <2>8. OwnResponses'
    BY <1>1, <2>7, QueueType DEF Get, TypeOK, OwnResponses
  <2> QED BY <2>2, <2>3, <2>6, <2>8
<1>2. CASE GetFails(c)
  <2>1. TypeOK'
    BY <1>2 DEF GetFails, WorkerEnds, TypeOK
  <2>2. OwnConnections'
    BY <1>2 DEF GetFails, WorkerEnds, TypeOK, OwnConnections
  <2>3. OneRequest'
    BY <1>2 DEF GetFails, WorkerEnds, TypeOK, OneRequest, Before
  <2>4. OwnResponses'
    BY <1>2 DEF GetFails, WorkerEnds, TypeOK, OwnResponses, Honest, Failed, Message
  <2> QED BY <2>1, <2>2, <2>3, <2>4
<1> QED BY <1>1, <1>2

LEMMA WriteKeepsInv ==
  ASSUME CallInv, NEW c \in Calls, Write(c)
  PROVE  CallInv'
<1> USE DEF CallInv, callerVars, serverVars
<1>1. conn[c] \in Conns /\ runs[c] = 0
  BY DEF Write, TypeOK, OneRequest
<1>2. \A k \in Conns, d \in Calls : Before(k, d) => Before(k, d)' /\ (k = conn[c] => FALSE)
  <2>1. \A d \in Calls : worker[d] \in {"read", "done"} => d # c
    BY DEF Write
  <2>2. \A d \in Calls : d # c /\ conn[d] = conn[c] => FALSE
    BY <1>1 DEF OwnConnections
  <2> QED BY <2>1, <2>2 DEF Write, Before, TypeOK
<1>3. requests[conn[c]] = <<>> /\ serving[conn[c]] = NoCall
  BY <1>1, <1>2 DEF OneRequest, TypeOK
<1>4. /\ requests' \in [Conns -> Seq(Calls)]
      /\ requests'[conn[c]] \in {<<>>, <<c>>}
      /\ \A k \in Conns : k # conn[c] => requests'[k] = requests[k]
  BY <1>1, <1>3 DEF Write, TypeOK
<1>5. TypeOK'
  BY <1>4 DEF Write, TypeOK
<1>6. OwnConnections'
  BY DEF Write, TypeOK, OwnConnections
<1>7. Before(conn[c], c)'
  BY <1>1 DEF Write, Before, TypeOK
<1>8. OneRequest'
  <2>1. \A d \in Calls : worker'[d] \in {"off", "get", "write"} => runs'[d] = 0
    BY DEF Write, TypeOK, OneRequest
  <2>2. ASSUME NEW k \in Conns
        PROVE  \/ requests'[k] = <<>>
               \/ serving'[k] = NoCall /\ \E d \in Calls : requests'[k] = <<d>> /\ Before(k, d)'
    <3>1. CASE k = conn[c]
      BY <1>3, <1>4, <1>7, <3>1 DEF Write
    <3>2. CASE k # conn[c]
      BY <1>2, <1>4, <3>2 DEF Write, OneRequest
    <3> QED BY <3>1, <3>2
  <2>3. \A k \in Conns : serving'[k] # NoCall => Before(k, serving[k])'
    BY <1>2 DEF Write, OneRequest, TypeOK
  <2> QED BY <2>1, <2>2, <2>3 DEF OneRequest, Write
<1>9. OwnResponses'
  BY DEF Write, OwnResponses, Honest
<1> QED BY <1>5, <1>6, <1>8, <1>9

\* The end of the goroutine, with an honest result.
LEMMA WorkerEndKeepsInv ==
  ASSUME CallInv, NEW c \in Calls, NEW res \in Messages \union {NoResult, Failed},
         worker[c] \in {"write", "read"},
         res.kind = "value" => res.call = c /\ runs[c] = 1,
         WorkerEnds(c, res),
         UNCHANGED <<shape, callerVars, ctxDone, conn, idle, requests, serverVars>>,
         breaks' \in 0 .. MaxBreaks,
         responses' \in [Conns -> Seq(Messages)],
         \A k \in Conns : \A i \in 1 .. Len(responses'[k]) : Honest(k, responses'[k][i])
  PROVE  CallInv'
<1> USE DEF CallInv, callerVars, serverVars
<1>1. TypeOK'
  BY DEF WorkerEnds, TypeOK
<1>2. OwnConnections'
  BY DEF WorkerEnds, TypeOK, OwnConnections
<1>3. \A k \in Conns, d \in Calls : Before(k, d) => Before(k, d)'
  BY DEF WorkerEnds, TypeOK, Before
<1>4. OneRequest'
  BY <1>3 DEF WorkerEnds, TypeOK, OneRequest
<1>5. \A k \in Conns : \A m : Honest(k, m) => Honest(k, m)'
  BY DEF Honest
<1>6. \A d \in Calls : result'[d] = IF d = c THEN res ELSE result[d]
  BY DEF WorkerEnds, TypeOK
<1>7. \A d \in Calls : told'[d] = "value" => worker'[d] = "done" /\ result'[d].kind = "value"
  <2>1. \A d \in Calls : told[d] = "value" => d # c
    BY DEF OwnResponses
  <2> QED BY <1>6, <2>1 DEF WorkerEnds, TypeOK, OwnResponses
<1>8. OwnResponses'
  BY <1>5, <1>6, <1>7 DEF OwnResponses
<1> QED BY <1>1, <1>2, <1>4, <1>8

LEMMA ResultKeepsInv ==
  ASSUME CallInv, NEW c \in Calls, WriteFails(c) \/ Read(c) \/ ReadFails(c)
  PROVE  CallInv'
<1> USE DEF CallInv
<1>1. Failed \in Messages \union {NoResult, Failed} /\ Failed.kind # "value"
  BY DEF Failed, Message
<1>2. CASE WriteFails(c) \/ (ReadFails(c) /\ UNCHANGED <<responses, breaks>>)
  <2>1. WorkerEnds(c, Failed) /\ UNCHANGED <<responses, breaks>>
    BY <1>2 DEF WriteFails, ReadFails, streamVars
  <2>2. /\ worker[c] \in {"write", "read"}
        /\ UNCHANGED <<shape, callerVars, ctxDone, conn, idle, requests, serverVars>>
    BY <1>2 DEF WriteFails, ReadFails, streamVars
  <2>3. /\ breaks' \in 0 .. MaxBreaks
        /\ responses' \in [Conns -> Seq(Messages)]
        /\ \A k \in Conns : \A i \in 1 .. Len(responses'[k]) : Honest(k, responses'[k][i])
    BY <2>1 DEF TypeOK, OwnResponses
  <2> QED BY <1>1, <2>1, <2>2, <2>3, WorkerEndKeepsInv
<1>3. CASE Read(c) \/ (ReadFails(c) /\ responses[conn[c]] # <<>>)
  <2> DEFINE k == conn[c]
  <2>1. worker[c] = "read" /\ k \in Conns /\ responses[k] # <<>> /\ responses[k] \in Seq(Messages)
    BY <1>3 DEF Read, ReadFails, TypeOK
  <2>2. /\ Head(responses[k]) \in Messages /\ Head(responses[k]) = responses[k][1]
        /\ Tail(responses[k]) \in Seq(Messages) /\ Len(responses[k]) \in Nat \ {0}
        /\ Len(Tail(responses[k])) = Len(responses[k]) - 1
        /\ \A i \in 1 .. Len(responses[k]) - 1 : Tail(responses[k])[i] = responses[k][i + 1]
    BY <2>1, QueueType
  <2>3. responses' = [responses EXCEPT ![k] = Tail(@)] /\ breaks' \in 0 .. MaxBreaks
    BY <1>3, <2>1 DEF Read, ReadFails, TypeOK
  <2>4. Honest(k, Head(responses[k]))
    BY <2>1, <2>2 DEF OwnResponses
  <2>5. Head(responses[k]).call = c
    <3>1. Head(responses[k]).call \in Calls
      BY <2>2 DEF Messages
    <3> QED BY <2>1, <2>4, <3>1 DEF Honest, OwnConnections
  <2>6. responses' \in [Conns -> Seq(Messages)]
    BY <2>1, <2>2, <2>3 DEF TypeOK
  <2>7. ASSUME NEW j \in Conns, NEW i \in 1 .. Len(responses'[j])
        PROVE  Honest(j, responses'[j][i])
    <3>1. CASE j = k
      <4>1. responses'[j] = Tail(responses[k])
        BY <2>1, <2>3, <3>1 DEF TypeOK
      <4>2. i + 1 \in 1 .. Len(responses[k]) /\ responses'[j][i] = responses[k][i + 1]
        BY <2>2, <4>1
      <4> QED BY <2>1, <3>1, <4>2 DEF OwnResponses
    <3>2. CASE j # k
      BY <2>1, <2>3, <3>2 DEF TypeOK, OwnResponses
    <3> QED BY <3>1, <3>2
  <2>8. PICK res \in {Failed, Head(responses[k])} : WorkerEnds(c, res)
    BY <1>3 DEF Read, ReadFails
  <2>9. /\ res \in Messages \union {NoResult, Failed}
        /\ res.kind = "value" => res.call = c /\ runs[c] = 1
    BY <1>1, <2>2, <2>4, <2>5 DEF Honest
  <2>10. UNCHANGED <<shape, callerVars, ctxDone, conn, idle, requests, serverVars>>
    BY <1>3 DEF Read, ReadFails
  <2> QED BY <2>1, <2>3, <2>6, <2>7, <2>8, <2>9, <2>10, WorkerEndKeepsInv
<1> QED BY <1>2, <1>3 DEF ReadFails

-----------------------------------------------------------------------------
(* handleConn.                                                             *)

\* Whatever a step of the server leaves of the streams: what waits in a queue is
\* still right if the connections are where they were and no run is undone.
LEMMA RespondType ==
  ASSUME CallInv, NEW k \in Conns, NEW c \in Calls, NEW kind \in {"value", "error"},
         conn[c] = k, UNCHANGED conn,
         \A d \in Calls : runs[d] = 1 => runs'[d] = 1,
         kind = "value" => runs'[c] = 1,
         Respond(k, c, kind) \/ UNCHANGED responses
  PROVE  /\ responses' \in [Conns -> Seq(Messages)]
         /\ \A j \in Conns : \A i \in 1 .. Len(responses'[j]) : Honest(j, responses[j][i])'
<1> USE DEF CallInv
<1>1. \A j \in Conns, m \in Messages : Honest(j, m) => Honest(j, m)'
  BY DEF Honest, Messages
<1>2. CASE UNCHANGED responses
  <2>1. \A j \in Conns : \A i \in 1 .. Len(responses[j]) :
          responses[j][i] \in Messages /\ Honest(j, responses[j][i])
    BY DEF OwnResponses, TypeOK
  <2> QED BY <1>1, <1>2, <2>1 DEF TypeOK
<1>3. CASE Respond(k, c, kind)
  <2> DEFINE m == Message(c, kind)
  <2>1. m \in Messages /\ Honest(k, m)'
    BY DEF Message, Messages, Honest
  <2> HIDE DEF m
  <2>2. responses' = [responses EXCEPT ![k] = Append(responses[k], m)]
    BY <1>3 DEF Respond, m
  <2>3. /\ responses[k] \in Seq(Messages) /\ Append(responses[k], m) \in Seq(Messages)
        /\ Len(Append(responses[k], m)) = Len(responses[k]) + 1
        /\ \A i \in 1 .. Len(responses[k]) + 1 :
             Append(responses[k], m)[i] = IF i = Len(responses[k]) + 1 THEN m ELSE responses[k][i]
    BY <2>1, QueueType DEF TypeOK
  <2>4. responses' \in [Conns -> Seq(Messages)]
    BY <2>2, <2>3 DEF TypeOK
  <2>5. ASSUME NEW j \in Conns, NEW i \in 1 .. Len(responses'[j])
        PROVE  Honest(j, responses[j][i])'
    <3>1. CASE j # k
      <4>1. responses'[j] = responses[j] /\ responses[j] \in Seq(Messages)
        BY <2>2, <3>1 DEF TypeOK
      <4>2. responses[j][i] \in Messages /\ Honest(j, responses[j][i])
        BY <4>1 DEF OwnResponses
      <4> QED BY <1>1, <4>1, <4>2
    <3>2. CASE j = k
      <4>1. responses'[j] = Append(responses[k], m)
        BY <2>2, <3>2 DEF TypeOK
      <4>2. CASE i = Len(responses[k]) + 1
        <5>1. responses'[j][i] = m
          BY <2>3, <4>1, <4>2
        <5> QED BY <2>1, <3>2, <5>1
      <4>3. CASE i # Len(responses[k]) + 1
        <5>1. i \in 1 .. Len(responses[k]) /\ responses'[j][i] = responses[k][i]
          BY <2>3, <4>1, <4>3
        <5>2. responses[k][i] \in Messages /\ Honest(k, responses[k][i])
          BY <2>3, <5>1 DEF OwnResponses
        <5> QED BY <1>1, <3>2, <5>1, <5>2
      <4> QED BY <4>2, <4>3
    <3> QED BY <3>1, <3>2
  <2> QED BY <2>4, <2>5
<1> QED BY <1>2, <1>3

\* The parts of the invariant that a step of the server does not disturb, and
\* what it must establish of the others.
LEMMA ServerSteps ==
  ASSUME CallInv,
         UNCHANGED <<shape, callerVars, ctxDone, workerVars, idle>>,
         breaks' \in 0 .. MaxBreaks,
         runs' \in [Calls -> 0 .. 1],
         \A d \in Calls : runs[d] = 1 => runs'[d] = 1,
         \A d \in Calls : worker[d] \in {"off", "get", "write"} => runs'[d] = 0,
         requests' \in [Conns -> Seq(Calls)],
         server' \in [Conns -> {"reading", "serving", "closed"}],
         serving' \in [Conns -> Calls \union {NoCall}],
         \A j \in Conns : (server'[j] = "serving") <=> (serving'[j] # NoCall),
         \A j \in Conns :
           \/ requests'[j] = <<>>
           \/ serving'[j] = NoCall /\ \E d \in Calls : requests'[j] = <<d>> /\ Before(j, d)',
         \A j \in Conns : serving'[j] # NoCall => Before(j, serving[j])',
         responses' \in [Conns -> Seq(Messages)],
         \A j \in Conns : \A i \in 1 .. Len(responses'[j]) : Honest(j, responses[j][i])'
  PROVE  CallInv'
<1> USE DEF CallInv, callerVars, workerVars
<1>1. TypeOK'
  BY DEF TypeOK
<1>2. OwnConnections'
  BY DEF OwnConnections
<1>3. OneRequest'
  BY DEF OneRequest
<1>4. OwnResponses'
  <2>1. \A d \in Calls : result'[d].kind = "value" => result'[d].call = d /\ runs'[d] = 1
    BY DEF OwnResponses
  <2>2. \A d \in Calls : told'[d] = "value" => runs'[d] = 1
    BY DEF OwnResponses
  <2> QED BY <2>1, <2>2 DEF OwnResponses
<1> QED BY <1>1, <1>2, <1>3, <1>4

LEMMA ReadRequestKeepsInv ==
  ASSUME CallInv, NEW k \in Conns, ReadRequest(k)
  PROVE  CallInv'
<1> USE DEF CallInv
<1>1. PICK c \in Calls : requests[k] = <<c>> /\ Before(k, c)
  BY DEF ReadRequest, OneRequest
<1>2. Head(requests[k]) = c /\ Tail(requests[k]) = <<>>
  BY <1>1
<1>3. UNCHANGED <<shape, callerVars, ctxDone, workerVars, idle, breaks, runs>>
  BY DEF ReadRequest
<1>4. requests' = [requests EXCEPT ![k] = <<>>]
  BY <1>2 DEF ReadRequest
<1>5. Respond(k, c, "error") \/ UNCHANGED responses
  BY <1>2 DEF ReadRequest
<1>6. \/ UNCHANGED <<server, serving>>
      \/ server' = [server EXCEPT ![k] = "serving"] /\ serving' = [serving EXCEPT ![k] = c]
  BY <1>2 DEF ReadRequest
<1>7. /\ responses' \in [Conns -> Seq(Messages)]
      /\ \A j \in Conns : \A i \in 1 .. Len(responses'[j]) : Honest(j, responses[j][i])'
  <2>1. conn[c] = k /\ UNCHANGED conn /\ UNCHANGED runs
    BY <1>1, <1>3 DEF Before, workerVars
  <2> QED BY <1>5, <2>1, RespondType
<1>8. \A j \in Conns, d \in Calls : Before(j, d) => Before(j, d)'
  BY <1>3 DEF Before, workerVars
<1>9. /\ server' \in [Conns -> {"reading", "serving", "closed"}]
      /\ serving' \in [Conns -> Calls \union {NoCall}]
      /\ \A j \in Conns : (server'[j] = "serving") <=> (serving'[j] # NoCall)
      /\ \A j \in Conns : j # k => serving'[j] = serving[j]
      /\ serving'[k] \in {c, NoCall}
  <2>1. server[k] = "reading" /\ serving[k] = NoCall
    BY DEF ReadRequest, TypeOK
  <2>2. CASE UNCHANGED <<server, serving>>
    BY <2>1, <2>2 DEF TypeOK
  <2>3. CASE server' = [server EXCEPT ![k] = "serving"] /\ serving' = [serving EXCEPT ![k] = c]
    <3>1. /\ \A j \in Conns : server'[j] = IF j = k THEN "serving" ELSE server[j]
          /\ \A j \in Conns : serving'[j] = IF j = k THEN c ELSE serving[j]
      BY <2>3 DEF TypeOK
    <3>2. /\ server' \in [Conns -> {"reading", "serving", "closed"}]
          /\ serving' \in [Conns -> Calls \union {NoCall}]
      BY <2>3 DEF TypeOK
    <3> QED BY <3>1, <3>2 DEF TypeOK
  <2> QED BY <1>6, <2>2, <2>3
<1>10. /\ requests' \in [Conns -> Seq(Calls)]
       /\ requests'[k] = <<>>
       /\ \A j \in Conns : j # k => requests'[j] = requests[j]
  BY <1>4 DEF TypeOK
<1>11. ASSUME NEW j \in Conns
       PROVE  \/ requests'[j] = <<>>
              \/ serving'[j] = NoCall /\ \E d \in Calls : requests'[j] = <<d>> /\ Before(j, d)'
  BY <1>8, <1>9, <1>10 DEF OneRequest
<1>12. \A j \in Conns : serving'[j] # NoCall => Before(j, serving[j])'
  <2>1. ASSUME NEW j \in Conns, serving'[j] # NoCall PROVE Before(j, serving'[j])
    <3>1. CASE j = k
      BY <1>1, <1>9, <2>1, <3>1
    <3>2. CASE j # k
      BY <1>9, <2>1, <3>2 DEF OneRequest
    <3> QED BY <3>1, <3>2
  <2>2. \A j \in Conns : serving'[j] # NoCall => serving'[j] \in Calls
    BY <1>9
  <2>3. \A j \in Conns : serving'[j] # NoCall =>
          conn'[serving'[j]] = j /\ worker'[serving'[j]] \in {"read", "done"} /\ runs'[serving'[j]] = 0
    BY <1>3, <2>1 DEF Before, workerVars
  <2> QED BY <2>3 DEF Before
<1>13. runs' \in [Calls -> 0 .. 1] /\ breaks' \in 0 .. MaxBreaks
  BY <1>3 DEF TypeOK
<1>14. /\ \A d \in Calls : runs[d] = 1 => runs'[d] = 1
       /\ \A d \in Calls : worker[d] \in {"off", "get", "write"} => runs'[d] = 0
  BY <1>3 DEF OneRequest
<1> QED BY <1>3, <1>7, <1>9, <1>10, <1>11, <1>12, <1>13, <1>14, ServerSteps

\* The service runs, or the request is turned down, and the loop goes on.
LEMMA ServeKeepsInv ==
  ASSUME CallInv, NEW k \in Conns, InvokeService(k) \/ RejectRequest(k)
  PROVE  CallInv'
<1> USE DEF CallInv
<1> DEFINE c == serving[k]
<1>1. c \in Calls /\ Before(k, c) /\ requests[k] = <<>>
  BY DEF InvokeService, RejectRequest, TypeOK, OneRequest
<1>2. UNCHANGED <<shape, callerVars, ctxDone, workerVars, idle, requests, breaks>>
  BY DEF InvokeService, RejectRequest
<1>3. PICK kind \in {"value", "error"} :
        /\ Answer(k, kind)
        /\ \/ runs' = [runs EXCEPT ![c] = @ + 1]
           \/ UNCHANGED runs /\ kind = "error"
  BY DEF InvokeService, RejectRequest
<1>4. /\ runs' \in [Calls -> 0 .. 1]
      /\ \A d \in Calls : d # c => runs'[d] = runs[d]
      /\ kind = "value" => runs'[c] = 1
  <2>1. runs[c] = 0
    BY <1>1 DEF Before
  <2>2. CASE runs' = [runs EXCEPT ![c] = @ + 1]
    <3>1. runs' = [runs EXCEPT ![c] = 1]
      BY <2>1, <2>2
    <3> HIDE DEF c
    <3> QED BY <1>1, <3>1 DEF TypeOK
  <2>3. CASE UNCHANGED runs /\ kind = "error"
    BY <2>3 DEF TypeOK
  <2> QED BY <1>3, <2>2, <2>3
<1>5. Respond(k, c, kind) \/ UNCHANGED responses
  BY <1>3 DEF Answer
<1>6. \A d \in Calls : runs[d] = 1 => runs'[d] = 1
  BY <1>1, <1>4 DEF Before
<1>7. /\ responses' \in [Conns -> Seq(Messages)]
      /\ \A j \in Conns : \A i \in 1 .. Len(responses'[j]) : Honest(j, responses[j][i])'
  <2>1. conn[c] = k /\ UNCHANGED conn
    BY <1>1, <1>2 DEF Before, workerVars
  <2> QED BY <1>1, <1>4, <1>5, <1>6, <2>1, RespondType
<1>8. /\ server' = [server EXCEPT ![k] = "reading"]
      /\ serving' = [serving EXCEPT ![k] = NoCall]
  BY DEF InvokeService, RejectRequest, BackToRead
<1>9. /\ server' \in [Conns -> {"reading", "serving", "closed"}]
      /\ serving' \in [Conns -> Calls \union {NoCall}]
      /\ serving'[k] = NoCall /\ server'[k] = "reading"
      /\ \A j \in Conns : j # k => serving'[j] = serving[j] /\ server'[j] = server[j]
  BY <1>8 DEF TypeOK
<1>10. \A j \in Conns : (server'[j] = "serving") <=> (serving'[j] # NoCall)
  <2>1. \A j \in Conns : (server[j] = "serving") <=> (serving[j] # NoCall)
    BY DEF TypeOK
  <2> QED BY <1>9, <2>1
<1>11. \A j \in Conns, d \in Calls : j # k /\ Before(j, d) => Before(j, d)'
  BY <1>1, <1>2, <1>4 DEF Before, workerVars
<1>12. ASSUME NEW j \in Conns
       PROVE  \/ requests'[j] = <<>>
              \/ serving'[j] = NoCall /\ \E d \in Calls : requests'[j] = <<d>> /\ Before(j, d)'
  BY <1>1, <1>2, <1>9, <1>11 DEF OneRequest
<1>13. \A j \in Conns : serving'[j] # NoCall => Before(j, serving[j])'
  <2>1. ASSUME NEW j \in Conns, serving'[j] # NoCall
        PROVE  conn'[serving'[j]] = j /\ worker'[serving'[j]] \in {"read", "done"} /\ runs'[serving'[j]] = 0
    <3>1. j # k /\ serving'[j] = serving[j] /\ serving[j] \in Calls
      BY <1>9, <2>1 DEF TypeOK
    <3>2. Before(j, serving[j])
      BY <2>1, <3>1 DEF OneRequest
    <3> QED BY <1>1, <1>2, <1>4, <3>1, <3>2 DEF Before, workerVars
  <2> QED BY <2>1 DEF Before
<1>14. \A d \in Calls : worker[d] \in {"off", "get", "write"} => runs'[d] = 0
  BY <1>1, <1>4 DEF Before, OneRequest
<1>15. breaks' \in 0 .. MaxBreaks /\ requests' \in [Conns -> Seq(Calls)]
  BY <1>2 DEF TypeOK
<1> QED
  BY <1>2, <1>4, <1>6, <1>7, <1>9, <1>10, <1>12, <1>13, <1>14, <1>15, ServerSteps

\* Connections that break take their requests with them.
LEMMA BreakKeepsInv ==
  ASSUME CallInv, NEW k \in Conns, ServerFails(k) \/ ServicePanics(k)
  PROVE  CallInv'
<1> USE DEF CallInv
<1>1. UNCHANGED <<shape, callerVars, ctxDone, workerVars, idle, responses>>
  BY DEF ServerFails, ServicePanics
<1>2. /\ runs' \in [Calls -> 0 .. 1]
      /\ \A d \in Calls : runs'[d] = runs[d] \/ (d = serving[k] /\ ServicePanics(k))
      /\ \A d \in Calls : runs[d] = 1 => runs'[d] = 1
      /\ \A d \in Calls : worker[d] \in {"off", "get", "write"} => runs'[d] = 0
  <2>1. CASE UNCHANGED runs
    BY <2>1 DEF TypeOK, OneRequest
  <2>2. CASE ServicePanics(k) /\ runs' = [runs EXCEPT ![serving[k]] = @ + 1]
    <3>1. serving[k] \in Calls /\ Before(k, serving[k])
      BY <2>2 DEF ServicePanics, TypeOK, OneRequest
    <3>2. runs' = [runs EXCEPT ![serving[k]] = 1]
      BY <2>2, <3>1 DEF Before
    <3> QED BY <2>2, <3>1, <3>2 DEF Before, TypeOK, OneRequest
  <2> QED BY <2>1, <2>2 DEF ServerFails, ServicePanics
<1>3. /\ breaks' \in 0 .. MaxBreaks
      /\ requests' \in [Conns -> Seq(Calls)]
      /\ server' \in [Conns -> {"reading", "serving", "closed"}]
      /\ serving' \in [Conns -> Calls \union {NoCall}]
  <2>1. <<>> \in Seq(Calls)
    OBVIOUS
  <2>2. CASE ServerFails(k)
    BY <2>1, <2>2 DEF ServerFails, TypeOK
  <2>3. CASE ServicePanics(k)
    BY <2>1, <2>3 DEF ServicePanics, TypeOK
  <2> QED BY <2>2, <2>3
<1>4. \A j \in Conns :
        \/ requests'[j] = <<>> /\ serving'[j] = NoCall /\ server'[j] = "closed"
        \/ /\ requests'[j] = requests[j] /\ serving'[j] = serving[j]
           /\ server'[j] = server[j] /\ UNCHANGED runs
  <2>1. CASE ServerFails(k)
    BY <2>1 DEF ServerFails, TypeOK
  <2>2. CASE ServicePanics(k)
    BY <2>2 DEF ServicePanics
  <2> QED BY <2>1, <2>2
<1>5. \A j \in Conns : (server'[j] = "serving") <=> (serving'[j] # NoCall)
  <2>1. \A j \in Conns : (server[j] = "serving") <=> (serving[j] # NoCall)
    BY DEF TypeOK
  <2> QED BY <1>4, <2>1
<1>6. \A j \in Conns :
        \/ requests'[j] = <<>>
        \/ serving'[j] = NoCall /\ \E d \in Calls : requests'[j] = <<d>> /\ Before(j, d)'
  BY <1>1, <1>4 DEF OneRequest, Before, workerVars
<1>7. \A j \in Conns : serving'[j] # NoCall => Before(j, serving[j])'
  BY <1>1, <1>4 DEF OneRequest, Before, workerVars
<1>8. /\ responses' \in [Conns -> Seq(Messages)]
      /\ \A j \in Conns : \A i \in 1 .. Len(responses'[j]) : Honest(j, responses[j][i])'
  <2>1. ASSUME NEW j \in Conns, NEW i \in 1 .. Len(responses[j])
        PROVE  responses[j][i].call \in Calls /\ Honest(j, responses[j][i])
    <3>1. responses[j] \in Seq(Messages)
      BY DEF TypeOK
    <3>2. responses[j][i] \in Messages
      BY <3>1
    <3>3. responses[j][i].call \in Calls
      BY <3>2 DEF Messages
    <3> QED BY <3>3 DEF OwnResponses
  <2>2. \A j \in Conns : \A i \in 1 .. Len(responses[j]) : Honest(j, responses[j][i])'
    BY <1>1, <1>2, <2>1 DEF Honest, workerVars
  <2> QED BY <1>1, <2>2 DEF TypeOK
<1> QED BY <1>1, <1>2, <1>3, <1>5, <1>6, <1>7, <1>8, ServerSteps

-----------------------------------------------------------------------------
LEMMA CallNext == CallInv /\ [Next]_vars => CallInv'
<1> SUFFICES ASSUME CallInv, [Next]_vars PROVE CallInv'
  OBVIOUS
<1>1. CASE UNCHANGED vars
  <2> USE <1>1 DEF vars, callerVars, workerVars, streamVars, serverVars
  <2>1. TypeOK'
    BY DEF CallInv, TypeOK
  <2>2. OwnConnections' /\ OneRequest' /\ OwnResponses'
    BY DEF CallInv, OwnConnections, OneRequest, Before, OwnResponses, Honest
  <2> QED BY <2>1, <2>2 DEF CallInv
<1>2. CASE Next
  BY <1>2, CallerKeepsInv, GetKeepsInv, WriteKeepsInv, ResultKeepsInv, ReadRequestKeepsInv,
    ServeKeepsInv, BreakKeepsInv DEF Next, WorkerStep, ServerStep
<1> QED BY <1>1, <1>2

\* The state is well typed for any calls, connections and breaks; in particular
\* the service runs at most once for a call.
THEOREM TypeCorrect == Spec => []TypeOK
<1>1. CallInv => TypeOK
  BY DEF CallInv
<1> QED BY <1>1, CallInit, CallNext, PTL DEF Spec

-----------------------------------------------------------------------------
(* RpcCall implements AtMostOnce.                                          *)

\* What is told of a result is told for good, and is of its own call.
OwnTold(c) ==
  CASE told[c] = "none"  -> <<"none">>
    [] told[c] = "value" -> <<"value", c>>
    [] OTHER             -> <<"error">>

LEMMA ValuesAreOwn ==
  CallInv => \A c \in Calls : told[c] = "value" => result[c].call = c
  BY DEF CallInv, OwnResponses

\* What a step shows of told in AtMostOnce.
LEMMA ToldChanges ==
  ASSUME CallInv, CallInv'
  PROVE  /\ UNCHANGED told => UNCHANGED [c \in Calls |-> ToldOf(c)]
         /\ \A c \in Calls : told[c] = "none" => ToldOf(c) = Call!Nothing
         /\ \A c \in Calls : \A what \in {"value", "noData", "failed", "ctx"} :
              Tell(c, what) =>
                [d \in Calls |-> ToldOf(d)]'
                  = [[d \in Calls |-> ToldOf(d)] EXCEPT
                       ![c] = IF what = "value" THEN Call!ValueOf(c) ELSE Call!AnError]
<1>1. \A d \in Calls : ToldOf(d) = OwnTold(d)
  BY ValuesAreOwn DEF ToldOf, OwnTold
<1>2. \A d \in Calls : ToldOf(d)' = OwnTold(d)'
  <2>1. \A d \in Calls : told'[d] = "value" => result'[d].call = d
    BY DEF CallInv, OwnResponses
  <2> QED BY <2>1 DEF ToldOf, OwnTold
<1>3. UNCHANGED told => \A d \in Calls : ToldOf(d)' = ToldOf(d)
  <2>1. UNCHANGED told => \A d \in Calls : OwnTold(d)' = OwnTold(d)
    BY DEF OwnTold
  <2> HIDE DEF OwnTold, ToldOf
  <2> QED BY <1>1, <1>2, <2>1
<1>4. \A c \in Calls : told[c] = "none" => ToldOf(c) = Call!Nothing
  BY <1>1 DEF OwnTold, Call!Nothing
<1>5. ASSUME NEW c \in Calls, NEW what \in {"value", "noData", "failed", "ctx"}, Tell(c, what),
             NEW d \in Calls
      PROVE  ToldOf(d)' = IF d = c THEN IF what = "value" THEN Call!ValueOf(c) ELSE Call!AnError
                                   ELSE ToldOf(d)
  <2>1. told \in [Calls -> {"none", "value", "noData", "failed", "ctx"}]
    BY DEF CallInv, TypeOK
  <2>2. told'[d] = IF d = c THEN what ELSE told[d]
    BY <1>5, <2>1 DEF Tell
  <2> QED BY <1>1, <1>2, <2>2 DEF OwnTold, Call!ValueOf, Call!AnError
<1> HIDE DEF ToldOf
<1> QED BY <1>3, <1>4, <1>5

LEMMA CallerRefines ==
  ASSUME CallInv, CallInv', NEW c \in Calls, Invoke(c) \/ CallerStep(c) \/ CtxDone(c)
  PROVE  [Call!Next]_(Call!vars)
<1>1. UNCHANGED runs
  BY DEF Invoke, CallerStep, ReturnResult, ReturnCtx, CtxDone, serverVars
<1>2. CASE UNCHANGED told
  BY <1>1, <1>2, ToldChanges DEF Call!vars
<1>3. ASSUME NEW what \in {"value", "noData", "failed", "ctx"}, Tell(c, what),
             what = "value" => runs[c] = 1, told[c] = "none"
      PROVE  [Call!Next]_(Call!vars)
  <2> DEFINE shown == [d \in Calls |-> ToldOf(d)]
  <2>1. shown[c] = Call!Nothing
    BY <1>3, ToldChanges
  <2>2. shown' = [shown EXCEPT ![c] = IF what = "value" THEN Call!ValueOf(c) ELSE Call!AnError]
    BY <1>3, ToldChanges
  <2> HIDE DEF Call!Nothing, Call!ValueOf, Call!AnError, ToldOf
  <2>3. Call!Value(c) \/ Call!Error(c)
    BY <1>1, <1>3, <2>1, <2>2 DEF Call!Value, Call!Error
  <2> QED BY <2>3 DEF Call!Next
<1>4. caller[c] # "returned" => told[c] = "none"
  BY DEF CallInv, TypeOK
<1>5. CASE CallerStep(c)
  <2>1. caller[c] # "returned"
    BY <1>5 DEF CallerStep, ReturnResult, ReturnCtx
  <2> QED BY <1>3, <1>4, <1>5, <2>1, TellValue
<1>6. CASE Invoke(c)
  BY <1>2, <1>3, <1>4, <1>6 DEF Invoke
<1>7. CASE CtxDone(c)
  BY <1>2, <1>7 DEF CtxDone, callerVars
<1> QED BY <1>5, <1>6, <1>7

\* The service runs for the call whose request is served.
LEMMA ServiceRefines ==
  ASSUME CallInv, CallInv', NEW k \in Conns, ServerStep(k) \/ ServerFails(k)
  PROVE  [Call!Next]_(Call!vars)
<1>1. UNCHANGED [c \in Calls |-> ToldOf(c)]
  <2>1. UNCHANGED told
    BY DEF ServerStep, ReadRequest, InvokeService, RejectRequest, ServicePanics, ServerFails,
      callerVars
  <2> QED BY <2>1, ToldChanges
<1>2. CASE UNCHANGED runs
  BY <1>1, <1>2 DEF Call!vars
<1>3. CASE server[k] = "serving" /\ runs' = [runs EXCEPT ![serving[k]] = @ + 1]
  <2>1. serving[k] \in Calls /\ runs[serving[k]] = 0
    BY <1>3 DEF CallInv, TypeOK, OneRequest, Before
  <2>2. Call!Run(serving[k])
    BY <1>1, <1>3, <2>1 DEF Call!Run
  <2> QED BY <2>1, <2>2 DEF Call!Next
<1> QED
  BY <1>2, <1>3 DEF ServerStep, ReadRequest, InvokeService, RejectRequest, ServicePanics,
    ServerFails

\* A call runs the service at most once, and gets a value only from a run of its
\* own, whatever breaks, is abandoned or is answered twice.
THEOREM Refinement == Spec => ImplementsCall
<1>1. Init => Call!Init
  BY DEF Init, Call!Init, Call!Nothing, ToldOf
<1>2. CallInv /\ CallInv' /\ [Next]_vars => [Call!Next]_(Call!vars)
  <2> SUFFICES ASSUME CallInv, CallInv', [Next]_vars PROVE [Call!Next]_(Call!vars)
    OBVIOUS
  <2>1. CASE UNCHANGED vars
    BY <2>1, ToldChanges DEF vars, callerVars, serverVars, Call!vars
  <2>2. ASSUME NEW c \in Calls, WorkerStep(c) PROVE UNCHANGED <<told, runs>>
    BY <2>2 DEF WorkerStep, Get, GetFails, Write, WriteFails, Read, ReadFails,
      callerVars, serverVars
  <2>3. ASSUME NEW c \in Calls, WorkerStep(c) PROVE [Call!Next]_(Call!vars)
    BY <2>2, <2>3, ToldChanges DEF Call!vars
  <2> QED BY <2>1, <2>3, CallerRefines, ServiceRefines DEF Next
<1> QED BY <1>1, <1>2, CallInit, CallNext, PTL DEF Spec, ImplementsCall, Call!Spec
================================================================================
