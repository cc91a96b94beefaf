------------------------------- MODULE MCRpcCall -------------------------------
(***************************************************************************)
(* The parts of rpc/homework1, side by side: calls with few connections,   *)
(* whose streams are sequences of messages, and one such stream as bytes.  *)
(* Liveness forbids symmetry, so safety and liveness share one instance    *)
(* without it.                                                             *)
(***************************************************************************)
EXTENDS RpcCall, MessageStream

VARIABLE part   \* which of them runs

\* A name or a value is a letter or two, and the data has line breaks too.
MCRequests == {
  [MessageId |-> 1, Version |-> 0, Compressor |-> 3,
   Serializer |-> 1, ServiceName |-> <<117, 115>>, MethodName |-> <<71>>,
   Meta |-> [k \in {<<111>>, <<116, 105>>} |-> IF k = <<111>> THEN <<116, 13>> ELSE <<>>],
   Data |-> <<123, 10, 13, 125>>],
  [MessageId |-> 66051, Version |-> 0, Compressor |-> 0,
   Serializer |-> 1, ServiceName |-> <<>>, MethodName |-> <<71>>,
   Meta |-> [k \in {} |-> <<>>], Data |-> <<>>]}

MCResponses == {
  [MessageId |-> 1, Version |-> 0, Compressor |-> 3,
   Serializer |-> 1, Error |-> <<10, 101>>, Data |-> <<>>],
  [MessageId |-> 66051, Version |-> 0, Compressor |-> 0,
   Serializer |-> 1, Error |-> <<>>, Data |-> <<13, 10>>]}

allVars == <<vars, byteVars, part>>

\* The part that does not run starts in one state.
AllInit ==
  \/ /\ part = "calls"
     /\ Init
     /\ StreamInit /\ toServer
  \/ /\ part = "stream"
     /\ StreamInit
     /\ Init /\ shape = [c \in Calls |-> PlainShape] /\ idle = {}

AllNext ==
  \/ part = "calls" /\ Next /\ UNCHANGED <<byteVars, part>>
  \/ part = "stream" /\ StreamNext /\ UNCHANGED <<vars, part>>

AllFairSpec == AllInit /\ [][AllNext]_allVars /\ Fairness
================================================================================
