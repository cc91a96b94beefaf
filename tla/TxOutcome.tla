-------------------------------- MODULE TxOutcome --------------------------------
(***************************************************************************)
(* What orm/homework3 promises of a transaction: it commits only after its *)
(* function was content with it, and whoever asked for it is told nil only *)
(* of a transaction that committed.  An error tells less: the transaction  *)
(* was given up, or its commit was made and the answer of the database     *)
(* lost.                                                                   *)
(***************************************************************************)
CONSTANT Tasks

VARIABLES tx,       \* the transaction of a task: "none", "open", "committed", "rolledback"
          verdict,  \* how its function ended: "none", "ok", "err", "panic"
          told      \* what its caller heard: "none", "nil", "err", "panic"

vars == <<tx, verdict, told>>

Init ==
  /\ tx = [t \in Tasks |-> "none"]
  /\ verdict = [t \in Tasks |-> "none"]
  /\ told = [t \in Tasks |-> "none"]

Begin(t) ==
  /\ tx[t] = "none" /\ told[t] = "none"
  /\ \/ tx' = [tx EXCEPT ![t] = "open"] /\ UNCHANGED told
     \/ told' = [told EXCEPT ![t] = "err"] /\ UNCHANGED tx
  /\ UNCHANGED verdict

\* The context may have rolled the transaction back while its function ran.
Judge(t) ==
  /\ tx[t] # "none" /\ verdict[t] = "none"
  /\ \E v \in {"ok", "err", "panic"} : verdict' = [verdict EXCEPT ![t] = v]
  /\ UNCHANGED <<tx, told>>

Commit(t) ==
  /\ tx[t] = "open" /\ verdict[t] = "ok" /\ told[t] = "none"
  /\ tx' = [tx EXCEPT ![t] = "committed"]
  /\ \E answer \in {"nil", "err"} : told' = [told EXCEPT ![t] = answer]
  /\ UNCHANGED verdict

Failure(t) == IF verdict[t] = "panic" THEN "panic" ELSE "err"
TellFailure(t) ==
  /\ told[t] = "none" /\ verdict[t] # "none"
  /\ told' = [told EXCEPT ![t] = Failure(t)]

GiveUp(t) ==
  /\ tx[t] \in {"open", "rolledback"}
  /\ \/ tx' = [tx EXCEPT ![t] = "rolledback"] /\ (TellFailure(t) \/ UNCHANGED told)
     \/ TellFailure(t) /\ UNCHANGED tx
  /\ UNCHANGED verdict

Next == \E t \in Tasks : Begin(t) \/ Judge(t) \/ Commit(t) \/ GiveUp(t)

Spec == Init /\ [][Next]_vars
==================================================================================
