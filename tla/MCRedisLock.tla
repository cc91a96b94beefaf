------------------------------ MODULE MCRedisLock ------------------------------
(***************************************************************************)
(* RedisLock on small instances.  Only some of the clients refresh, unlock *)
(* or crash, so the clients are not interchangeable.                       *)
(***************************************************************************)
EXTENDS RedisLock
================================================================================
