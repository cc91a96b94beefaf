----------------------------- MODULE MessageStream -----------------------------
(***************************************************************************)
(* One direction of a connection of rpc/homework1, byte by byte: a client  *)
(* writes requests and a server reads them, or the other way round for     *)
(* responses.  The bytes arrive in pieces of any size, and ReadMsg finds   *)
(* the messages in them.                                                   *)
(***************************************************************************)
EXTENDS MessageCodec

CONSTANTS Requests,    \* the requests of the clients
          Responses,   \* the responses of the servers
          MaxWritten,  \* bound: messages written
          Cuts         \* bound: how much of a message a write that fails has written

ASSUME MessageAssumption ==
  /\ \A r \in Requests : ProperRequest(r)
  /\ \A r \in Responses : ProperResponse(r)
ASSUME StreamAssumption == MaxWritten \in Nat /\ Cuts \subseteq Nat

VARIABLES
  toServer,  \* the messages are requests
  writer,    \* the writer can still write
  wire,      \* all the bytes that were written
  written,   \* history: the messages in them
  ends,      \* history: where each of these ends
  arrived,   \* how many bytes have arrived
  \* ReadMsg
  reading,   \* what it reads next
  taken,     \* how many bytes have been read, by all its calls
  lengths,   \* msgLenBytes
  decoded    \* the messages its callers have decoded

byteVars == <<toServer, writer, wire, written, ends, arrived, reading, taken, lengths, decoded>>

LenBytes == 8

StreamTypeOK ==
  /\ toServer \in BOOLEAN
  /\ writer \in {"open", "closed"}
  /\ wire \in Seq(Byte)
  /\ Len(ends) = Len(written)
  /\ ends \in Seq(0 .. Len(wire))
  /\ arrived \in 0 .. Len(wire)
  /\ reading \in {"lengths", "rest", "failed"}
  /\ taken \in 0 .. arrived
  /\ lengths \in Seq(Byte)

StreamInit ==
  /\ toServer \in BOOLEAN
  /\ writer = "open"
  /\ wire = <<>>
  /\ written = <<>>
  /\ ends = <<>>
  /\ arrived = 0
  /\ reading = "lengths"
  /\ taken = 0
  /\ lengths = <<>>
  /\ decoded = <<>>

\* CalHeadLength and EncodeReq range over the metadata on their own.
RequestsOut ==
  UNION {{[message |-> NewRequest(r, counted), bytes |-> EncodeReq(NewRequest(r, counted), order)] :
            counted, order \in Orders(DOMAIN r.Meta)} : r \in Requests}

ResponsesOut ==
  {[message |-> NewResponse(r), bytes |-> EncodeResp(NewResponse(r))] : r \in Responses}

Outgoing == IF toServer THEN RequestsOut ELSE ResponsesOut

\* conn.Write
WriteMessage ==
  /\ writer = "open"
  /\ Len(written) < MaxWritten
  /\ \E out \in Outgoing :
       /\ wire' = wire \o out.bytes
       /\ written' = Append(written, out.message)
       /\ ends' = Append(ends, Len(wire) + Len(out.bytes))
  /\ UNCHANGED <<toServer, writer, arrived, reading, taken, lengths, decoded>>

\* It fails, perhaps halfway: the writer gives up the connection.
WriteBreaksOff ==
  /\ writer = "open"
  /\ \E out \in Outgoing, n \in Cuts :
       /\ n < Len(out.bytes)
       /\ wire' = wire \o First(out.bytes, n)
  /\ writer' = "closed"
  /\ UNCHANGED <<toServer, written, ends, arrived, reading, taken, lengths, decoded>>

\* Some more of the bytes arrive.
Arrive ==
  /\ arrived' \in arrived + 1 .. Len(wire)
  /\ UNCHANGED <<toServer, writer, wire, written, ends, reading, taken, lengths, decoded>>

\* conn.Read returns what is there, up to eight bytes; fewer are an error.
ReadLengths ==
  /\ reading = "lengths"
  /\ taken < arrived
  /\ IF arrived - taken >= LenBytes
       THEN /\ lengths' = SubSeq(wire, taken + 1, taken + LenBytes)
            /\ taken' = taken + LenBytes
            /\ reading' = "rest"
       ELSE /\ taken' = arrived
            /\ reading' = "failed"
            /\ UNCHANGED lengths
  /\ UNCHANGED <<toServer, writer, wire, written, ends, arrived, decoded>>

\* headLength + bodyLength, an uint32
MsgLength == ToUint32(Uint32(lengths, 0) + Uint32(lengths, 4))

Decode(bs) == IF toServer THEN DecodeReq(bs) ELSE DecodeResp(bs)

\* Mutant: the whole length is read, that of the eight bytes included.
ReadRestWhole ==
  /\ reading = "rest"
  /\ arrived - taken >= MsgLength
  /\ decoded' = Append(decoded, Decode(lengths \o SubSeq(wire, taken + 1, taken + MsgLength)))
  /\ taken' = taken + MsgLength
  /\ reading' = "lengths"
  /\ UNCHANGED <<toServer, writer, wire, written, ends, arrived, lengths>>

\* io.ReadFull waits for all the rest.
ReadRest ==
  /\ reading = "rest"
  /\ MsgLength >= LenBytes
  /\ arrived - taken >= MsgLength - LenBytes
  /\ decoded' = Append(decoded,
       Decode(lengths \o SubSeq(wire, taken + 1, taken + MsgLength - LenBytes)))
  /\ taken' = taken + MsgLength - LenBytes
  /\ reading' = "lengths"
  /\ UNCHANGED <<toServer, writer, wire, written, ends, arrived, lengths>>

\* The connection breaks or ends, or a length below eight makes bs[lenBytes:]
\* panic, which is recovered: the caller gets an error and reads no more.
ReadMsgFails ==
  /\ reading # "failed"
  /\ reading' = "failed"
  /\ UNCHANGED <<toServer, writer, wire, written, ends, arrived, taken, lengths, decoded>>

StreamNext ==
  \/ WriteMessage \/ WriteBreaksOff \/ Arrive
  \/ ReadLengths \/ ReadRest \/ ReadMsgFails

StreamSpec == StreamInit /\ [][StreamNext]_byteVars

\* ReadMsg and the decoders find in the bytes the messages that were written,
\* one after the other, whatever the pieces the bytes arrive in, wherever a
\* write breaks off, and whatever line breaks are in the data.  It is why
\* RpcCall may keep a stream as a sequence of messages.
Queue == INSTANCE MessageQueue WITH sent <- written, received <- decoded

ImplementsQueue == Queue!Spec
================================================================================
