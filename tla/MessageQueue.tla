------------------------------ MODULE MessageQueue ------------------------------
(***************************************************************************)
(* What one direction of a connection promises: each message that is       *)
(* received is the next one of those sent, whole and unchanged.            *)
(***************************************************************************)
EXTENDS Naturals, Sequences

VARIABLES
  sent,      \* all that was sent, in order
  received   \* all that was received, in order

vars == <<sent, received>>

Init == sent = <<>> /\ received = <<>>

Send ==
  /\ Len(sent') = Len(sent) + 1
  /\ SubSeq(sent', 1, Len(sent)) = sent
  /\ UNCHANGED received

Receive ==
  /\ Len(received) < Len(sent)
  /\ received' = Append(received, sent[Len(received) + 1])
  /\ UNCHANGED sent

Next == Send \/ Receive

Spec == Init /\ [][Next]_vars
================================================================================
