---------------------------- MODULE MCWeightedPicker ----------------------------
(***************************************************************************)
(* WeightedPicker with few connections, small weights and a narrow integer. *)
(***************************************************************************)
EXTENDS WeightedPicker
================================================================================
