------------------------------ MODULE AtMostOnce ------------------------------
(***************************************************************************)
(* What a remote call without retries promises: the service runs at most   *)
(* once for it, and the caller is told once, a value only after the        *)
(* service has run for this very call, and only the value of that run.  An *)
(* error tells nothing of the service: it may have run, may run later, or  *)
(* never.                                                                  *)
(***************************************************************************)
EXTENDS Naturals

CONSTANT Calls

VARIABLES
  runs,   \* how often the service ran for each call
  told    \* what its caller was told, and if a value, for which call it was made

vars == <<runs, told>>

Nothing  == <<"none">>
AnError  == <<"error">>
ValueOf(c) == <<"value", c>>

Init ==
  /\ runs = [c \in Calls |-> 0]
  /\ told = [c \in Calls |-> Nothing]

Run(c) ==
  /\ runs[c] = 0
  /\ runs' = [runs EXCEPT ![c] = 1]
  /\ UNCHANGED told

Value(c) ==
  /\ told[c] = Nothing
  /\ runs[c] = 1
  /\ told' = [told EXCEPT ![c] = ValueOf(c)]
  /\ UNCHANGED runs

Error(c) ==
  /\ told[c] = Nothing
  /\ told' = [told EXCEPT ![c] = AnError]
  /\ UNCHANGED runs

Next == \E c \in Calls : Run(c) \/ Value(c) \/ Error(c)

Spec == Init /\ [][Next]_vars
================================================================================
