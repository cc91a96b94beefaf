-------------------------------- MODULE MCPickers --------------------------------
(***************************************************************************)
(* The four pickers with few connections: the client uses either the       *)
(* weighted picker, of WeightedPicker, or one of those of Pickers.  The    *)
(* state of the pickers that are not in use stays as it is.                *)
(***************************************************************************)
EXTENDS WeightedPicker, Pickers

VARIABLE weighted   \* the picker in use is the weighted one

allVars == <<vars, pickerVars, weighted>>

\* Types: the counters of the pickers stay within their width, and an index within the
\* connections, whichever picker is in use.
AllTypeOK == TypeOK /\ PickersTypeOK /\ weighted \in BOOLEAN

AllInit ==
  \/ /\ weighted = TRUE
     /\ Init
     /\ name = "ROUND_ROBIN" /\ group = <<>>
     /\ RoundRobinInit /\ LeastActiveInit /\ FastestInit
  \/ /\ weighted = FALSE
     /\ PickersInit
     /\ weight = <<1>> /\ current = weight /\ rounds = 0 /\ picks = <<0>>

AllNext ==
  \/ weighted /\ Next /\ UNCHANGED <<pickerVars, weighted>>
  \/ ~weighted /\ PickersNext /\ UNCHANGED <<vars, weighted>>

AllSpec == AllInit /\ [][AllNext]_allVars
================================================================================
