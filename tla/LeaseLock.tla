------------------------------- MODULE LeaseLock -------------------------------
(***************************************************************************)
(* What the distributed lock promises, without a network: one lease with a *)
(* remaining time, taken only when it is free, moved from an owner to      *)
(* nobody only when its time is used up or the owner asked for its         *)
(* release, and a lock handle given only to a client that did hold the     *)
(* lease.  RedisLock is shown to implement this module.                    *)
(***************************************************************************)
EXTENDS Naturals

CONSTANTS Clients,      \* the callers of Lock, one per lock value
          NoOwner,      \* the lease is free
          MaxLease      \* the longest remaining time of a lease

VARIABLES owner,        \* the client that holds the lease, or NoOwner
          left,         \* the remaining time of the lease, 0 when it is free
          acquired,     \* the clients that have ever held the lease
          handles,      \* the clients that were given a lock handle
          released      \* the clients that asked for the release of the lease

vars == <<owner, left, acquired, handles, released>>

Init ==
  /\ owner = NoOwner
  /\ left = 0
  /\ acquired = {}
  /\ handles = {}
  /\ released = {}

Acquire(c) ==
  /\ owner = NoOwner
  /\ owner' = c
  /\ left' \in 1 .. MaxLease
  /\ acquired' = acquired \union {c}
  /\ UNCHANGED <<handles, released>>

\* Only the owner's own requests set the remaining time of its lease.
Renew(c) ==
  /\ owner = c
  /\ left' \in 1 .. MaxLease
  /\ UNCHANGED <<owner, acquired, handles, released>>

Elapse ==
  /\ owner # NoOwner
  /\ left > 1
  /\ left' = left - 1
  /\ UNCHANGED <<owner, acquired, handles, released>>

Expire ==
  /\ owner # NoOwner
  /\ left = 1
  /\ owner' = NoOwner
  /\ left' = 0
  /\ UNCHANGED <<acquired, handles, released>>

Give(c) ==
  /\ c \in acquired
  /\ handles' = handles \union {c}
  /\ UNCHANGED <<owner, left, acquired, released>>

AskRelease(c) ==
  /\ c \in handles
  /\ released' = released \union {c}
  /\ UNCHANGED <<owner, left, acquired, handles>>

Free(c) ==
  /\ owner = c
  /\ c \in released
  /\ owner' = NoOwner
  /\ left' = 0
  /\ UNCHANGED <<acquired, handles, released>>

Next ==
  \/ \E c \in Clients : Acquire(c) \/ Renew(c) \/ Give(c) \/ AskRelease(c) \/ Free(c)
  \/ Elapse
  \/ Expire

Spec == Init /\ [][Next]_vars
================================================================================
