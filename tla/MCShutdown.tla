------------------------------ MODULE MCShutdown ------------------------------
(***************************************************************************)
(* Shutdown with two servers, requests and callbacks, and times that keep  *)
(* the order of the program's (10 s, 3 s, 1 s and 30 s).  Liveness forbids *)
(* symmetry, so the sets are given in the .cfg file alone.                 *)
(***************************************************************************)
EXTENDS Shutdown
================================================================================
