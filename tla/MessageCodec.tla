------------------------------ MODULE MessageCodec ------------------------------
(***************************************************************************)
(* The layout of a message of rpc/homework1, and what EncodeReq, DecodeReq *)
(* and their counterparts for responses make of it.  A string is the       *)
(* sequence of its bytes and a Go map a function on its keys, where a nil  *)
(* map is the empty one.  Indices are Go's, from 0 up.                     *)
(***************************************************************************)
EXTENDS Integers, Sequences, FiniteSets

Byte == 0 .. 255
Splitter == 10
PairSplitter == 13

\* s[:n] and s[n:]
First(s, n) == SubSeq(s, 1, n)
Rest(s, n) == SubSeq(s, n + 1, Len(s))

\* bytes.IndexByte: the first place of b in s, or -1.
IndexByte(s, b) ==
  LET places == {i \in 0 .. Len(s) - 1 : s[i + 1] = b}
  IN  IF places = {} THEN -1 ELSE CHOOSE i \in places : \A j \in places : i <= j

\* binary.BigEndian; a number above 2^32 loses its upper bits.
PutUint32(n) ==
  <<(n \div 16777216) % 256, (n \div 65536) % 256, (n \div 256) % 256, n % 256>>
Uint32(bs, i) ==
  16777216 * bs[i + 1] + 65536 * bs[i + 2] + 256 * bs[i + 3] + bs[i + 4]

ToUint32(n) == Uint32(PutUint32(n), 0)

\* n < 2^32
Fits(n) == n \div 16777216 < 256

\* The orders in which a range may go through a map with these keys.
Orders(keys) ==
  {order \in [1 .. Cardinality(keys) -> keys] :
     /\ \A i, j \in DOMAIN order : order[i] = order[j] => i = j
     /\ \A k \in keys : \E i \in DOMAIN order : order[i] = k}

-----------------------------------------------------------------------------
(* Requests.                                                               *)

\* 15 bytes and two splitters, and for each key two more.
HeadBytes(r, order) ==
  LET res[i \in 0 .. Len(order)] ==
        IF i = 0
          THEN 15 + Len(r.ServiceName) + 1 + Len(r.MethodName) + 1
          ELSE res[i - 1] + Len(order[i]) + 1 + Len(r.Meta[order[i]]) + 1
  IN  res[Len(order)]

CalHeadLength(r, order) == ToUint32(HeadBytes(r, order))

\* What InitService makes of a call: the lengths are those of this request.
NewRequest(r, order) ==
  [HeadLength |-> CalHeadLength(r, order), BodyLength |-> ToUint32(Len(r.Data)),
   MessageId |-> r.MessageId, Version |-> r.Version, Compressor |-> r.Compressor,
   Serializer |-> r.Serializer, ServiceName |-> r.ServiceName, MethodName |-> r.MethodName,
   Meta |-> r.Meta, Data |-> r.Data]

Fixed(m) ==
  PutUint32(m.HeadLength) \o PutUint32(m.BodyLength) \o PutUint32(m.MessageId)
    \o <<m.Version, m.Compressor, m.Serializer>>

\* s, a separator and what follows.
Field(s, separator, rest) == s \o <<separator>> \o rest

\* The pairs of Meta, the keys in this order from the last one to the first.
PutMeta(meta, order) ==
  LET put[i \in 0 .. Len(order)] ==
        IF i = 0
          THEN <<>>
          ELSE Field(order[i], PairSplitter, Field(meta[order[i]], Splitter, put[i - 1]))
  IN  put[Len(order)]

\* The lengths in r are its own, so it fills the buffer that is made for it.
EncodeReq(r, order) ==
  Fixed(r)
    \o Field(r.ServiceName, Splitter, Field(r.MethodName, Splitter, PutMeta(r.Meta, order)))
    \o r.Data

PutKey(meta, key, value) ==
  [k \in DOMAIN meta \union {key} |-> IF k = key THEN value ELSE meta[k]]

\* The loop of DecodeReq: a round takes one pair off the head.
TakePair(s) ==
  LET index == IndexByte(s.head, Splitter)
      pair == First(s.head, index)
      pairIndex == IndexByte(pair, PairSplitter)
  IN  IF index = -1
        THEN s
        ELSE [head |-> Rest(s.head, index + 1),
              meta |-> PutKey(s.meta, First(pair, pairIndex), Rest(pair, pairIndex + 1))]

\* A round takes at least a byte, so Len(head) rounds are enough.
DecodeMeta(head) ==
  LET loop[i \in 0 .. Len(head)] ==
        IF i = 0
          THEN [head |-> head, meta |-> [k \in {} |-> <<>>]]
          ELSE TakePair(loop[i - 1])
  IN  loop[Len(head)].meta

\* For what EncodeReq has written; other bytes may make it panic.
DecodeReq(data) ==
  LET headLength == Uint32(data, 0)
      head == Rest(First(data, headLength), 15)
      index == IndexByte(head, Splitter)
      head2 == Rest(head, index + 1)
      index2 == IndexByte(head2, Splitter)
  IN  [HeadLength  |-> headLength,
       BodyLength  |-> Uint32(data, 4),
       MessageId   |-> Uint32(data, 8),
       Version     |-> data[13],
       Compressor  |-> data[14],
       Serializer  |-> data[15],
       ServiceName |-> First(head, index),
       MethodName  |-> First(head2, index2),
       Meta        |-> DecodeMeta(Rest(head2, index2 + 1)),
       Data        |-> Rest(data, headLength)]

-----------------------------------------------------------------------------
(* Responses.                                                              *)

\* What handleConn answers.
NewResponse(r) ==
  [HeadLength |-> ToUint32(15 + Len(r.Error)), BodyLength |-> ToUint32(Len(r.Data)),
   MessageId |-> r.MessageId, Version |-> r.Version, Compressor |-> r.Compressor,
   Serializer |-> r.Serializer, Error |-> r.Error, Data |-> r.Data]

EncodeResp(r) == Fixed(r) \o r.Error \o r.Data

DecodeResp(bs) ==
  LET headLength == Uint32(bs, 0)
  IN  [HeadLength |-> headLength,
       BodyLength |-> Uint32(bs, 4),
       MessageId  |-> Uint32(bs, 8),
       Version    |-> bs[13],
       Compressor |-> bs[14],
       Serializer |-> bs[15],
       Error      |-> Rest(First(bs, headLength), 15),
       Data       |-> Rest(bs, headLength)]

-----------------------------------------------------------------------------
(* What the code sends: InitService's metadata has the keys "oneway" and   *)
(* "timeout", a method's name is that of a Go field, and nothing checks    *)
(* that the name of a service has no line break.                           *)

Name == Seq(Byte \ {Splitter})
Key == Seq(Byte \ {Splitter, PairSplitter})

ProperFixed(m) ==
  /\ m.MessageId \in Nat /\ Fits(m.MessageId)
  /\ m.Version \in Byte /\ m.Compressor \in Byte /\ m.Serializer \in Byte
  /\ m.Data \in Seq(Byte)

\* The fields of a request but for the lengths; it is shorter than 2^32 bytes.
ProperRequest(r) ==
  /\ ProperFixed(r)
  /\ r.ServiceName \in Name /\ r.MethodName \in Name
  /\ IsFiniteSet(DOMAIN r.Meta)
  /\ r.Meta = [k \in DOMAIN r.Meta |-> r.Meta[k]]
  /\ \A k \in DOMAIN r.Meta : k \in Key /\ r.Meta[k] \in Name
  /\ \A order \in Orders(DOMAIN r.Meta) : Fits(HeadBytes(r, order) + Len(r.Data))

ProperResponse(r) ==
  /\ ProperFixed(r)
  /\ r.Error \in Seq(Byte)
  /\ Fits(15 + Len(r.Error) + Len(r.Data))
================================================================================
