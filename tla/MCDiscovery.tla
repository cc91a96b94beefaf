------------------------------ MODULE MCDiscovery ------------------------------
(***************************************************************************)
(* Discovery on small instances.  The servers are not interchangeable when *)
(* some are of another service, and liveness forbids symmetry anyway.      *)
(***************************************************************************)
EXTENDS Discovery
================================================================================
