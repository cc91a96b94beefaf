------------------------------ MODULE EtcdRegistry ------------------------------
(***************************************************************************)
(* The service registry of rpc/homework2: servers that register themselves *)
(* in etcd under the lease of their session (server.go, Register,          *)
(* Unregister), what ListService reads, and the goroutine of Subscribe     *)
(* that turns the watch responses of etcd into the events of a channel.    *)
(* One client process watches one service; Discovery adds its resolver.    *)
(***************************************************************************)
EXTENDS Naturals, Sequences

CONSTANTS Instances,   \* the server instances, each with an address of its own
          Matching,    \* those with a key under the prefix /micro/<service>: the
                       \* service's own, and those of services whose name begins so
          MaxStarts,   \* bound: starts of each server process
          MaxBreaks    \* bound: watches that etcd cancels

ASSUME InstancesAssumption == Matching \subseteq Instances
ASSUME RegistryBoundAssumption == MaxStarts \in Nat /\ MaxBreaks \in Nat

VARIABLES
  server,      \* where Server.Start is, per instance
  starts,      \* processes started so far: the number of the current one
  onWay,       \* the processes whose Put (of Register) is on its way to etcd
  deletes,     \* the processes whose Delete (of Unregister) is
  stored,      \* etcd has run the current process's Put; not unregistered since
  leases,      \* the processes whose lease etcd still has
  key,         \* the process whose lease the instance's key hangs on; 0: no key
  overtaken,   \* history: an earlier process's request ran after the current one's Put
  watch,       \* the goroutine of Subscribe
  events,      \* the events etcd has sent to it
  out,         \* the event it is sending on the channel
  cancelled,   \* its context is cancelled
  breaks       \* watches cancelled by etcd

serverVars   == <<server, starts, onWay, deletes, stored, leases, key, overtaken>>
watchVars    == <<watch, events, out, cancelled, breaks>>
registryVars == <<serverVars, watchVars>>

RegistryTypeOK ==
  /\ server \in [Instances -> {"off", "listening", "serving", "failed"}]
  /\ starts \in [Instances -> 0 .. MaxStarts]
  /\ onWay \in [Instances -> SUBSET (1 .. MaxStarts)]
  /\ deletes \in [Instances -> SUBSET (1 .. MaxStarts)]
  /\ stored \in [Instances -> BOOLEAN]
  /\ leases \in [Instances -> SUBSET (1 .. MaxStarts)]
  /\ key \in [Instances -> 0 .. MaxStarts]
  /\ overtaken \in [Instances -> BOOLEAN]
  /\ \A i \in Instances :
       /\ onWay[i] \subseteq leases[i]
       /\ leases[i] \union deletes[i] \subseteq 1 .. starts[i]
       /\ starts[i] > 0 \/ server[i] = "off"
       /\ key[i] \in leases[i] \union {0}
  /\ watch \in {"off", "receiving", "sending", "ended"}
  /\ events \in Seq({"put", "delete"})
  /\ out \in {"none", "add", "unknown"}
  /\ (watch = "sending") => (out # "none")
  /\ cancelled \in BOOLEAN
  /\ breaks \in 0 .. MaxBreaks

RegistryInit ==
  /\ server = [i \in Instances |-> "off"]
  /\ starts = [i \in Instances |-> 0]
  /\ onWay = [i \in Instances |-> {}]
  /\ deletes = [i \in Instances |-> {}]
  /\ stored = [i \in Instances |-> FALSE]
  /\ leases = [i \in Instances |-> {}]
  /\ key = [i \in Instances |-> 0]
  /\ overtaken = [i \in Instances |-> FALSE]
  /\ watch = "off"
  /\ events = <<>>
  /\ out = "none"
  /\ cancelled = FALSE
  /\ breaks = 0

-----------------------------------------------------------------------------
(* etcd.                                                                   *)

\* ListService: every key that starts with /micro/<service>.
Listed == {i \in Matching : key[i] > 0}

\* A change of i's key; etcd tells a watch that covers it.
SetKeyOf(i, n, kind) ==
  /\ key' = [key EXCEPT ![i] = n]
  /\ events' = IF i \in Matching /\ watch \in {"receiving", "sending"} /\ ~cancelled
                 THEN Append(events, kind) ELSE events
  /\ UNCHANGED <<watch, out, cancelled, breaks>>

\* Mutant: a key that is already there keeps the lease it hangs on.
EtcdPutOldLease(i, n) ==
  /\ n \in onWay[i]
  /\ onWay' = [onWay EXCEPT ![i] = @ \ {n}]
  /\ SetKeyOf(i, IF key[i] > 0 THEN key[i] ELSE n, "put")
  /\ stored' = [stored EXCEPT ![i] = @ \/ (n = starts[i] /\ server[i] # "off")]
  /\ overtaken' = [overtaken EXCEPT ![i] = @ \/ (stored[i] /\ n < starts[i])]
  /\ UNCHANGED <<server, starts, deletes, leases>>

\* etcd runs the Put of process n, perhaps after Register has given up on it, or
\* after that process has ended and another one serves.
EtcdPut(i, n) ==
  /\ n \in onWay[i]
  /\ onWay' = [onWay EXCEPT ![i] = @ \ {n}]
  /\ SetKeyOf(i, n, "put")
  /\ stored' = [stored EXCEPT ![i] = @ \/ (n = starts[i] /\ server[i] # "off")]
  /\ overtaken' = [overtaken EXCEPT ![i] = @ \/ (stored[i] /\ n < starts[i])]
  /\ UNCHANGED <<server, starts, deletes, leases>>

\* etcd runs the Delete of process n, as late.
EtcdDelete(i, n) ==
  /\ n \in deletes[i]
  /\ deletes' = [deletes EXCEPT ![i] = @ \ {n}]
  /\ IF key[i] > 0 THEN SetKeyOf(i, 0, "delete") ELSE UNCHANGED <<key, watchVars>>
  /\ overtaken' = [overtaken EXCEPT ![i] = @ \/ (stored[i] /\ n < starts[i])]
  /\ UNCHANGED <<server, starts, onWay, stored, leases>>

\* etcd drops the lease of process n: the key goes with the lease on which it
\* hangs, and a Put that has not run yet is refused.
DropLease(i, n) ==
  /\ n \in leases[i]
  /\ leases' = [leases EXCEPT ![i] = @ \ {n}]
  /\ onWay' = [onWay EXCEPT ![i] = @ \ {n}]
  /\ IF key[i] = n THEN SetKeyOf(i, 0, "delete") ELSE UNCHANGED <<key, watchVars>>
  /\ UNCHANGED <<server, starts, deletes, stored, overtaken>>

\* The lease of a process that is gone runs out.
LeaseExpires(i, n) ==
  /\ n < starts[i] \/ server[i] = "off"
  /\ DropLease(i, n)

-----------------------------------------------------------------------------
(* Servers: Start, Unregister, the registry's Close, and their end.        *)

\* A new process opens a session, listens and calls Register.
Start(i) ==
  /\ server[i] = "off"
  /\ starts[i] < MaxStarts
  /\ server' = [server EXCEPT ![i] = "listening"]
  /\ starts' = [starts EXCEPT ![i] = @ + 1]
  /\ onWay' = [onWay EXCEPT ![i] = @ \union {starts'[i]}]
  /\ leases' = [leases EXCEPT ![i] = @ \union {starts'[i]}]
  /\ UNCHANGED <<deletes, stored, key, overtaken, watchVars>>

\* Register returns; Start goes on to Serve.
Serve(i) ==
  /\ server[i] = "listening"
  /\ stored[i]
  /\ server' = [server EXCEPT ![i] = "serving"]
  /\ UNCHANGED <<starts, onWay, deletes, stored, leases, key, overtaken, watchVars>>

\* Register fails or takes longer than ten seconds; Start returns the error and
\* leaves the listener open and the Put, if it was sent, on its way.
RegisterFails(i) ==
  /\ server[i] = "listening"
  /\ server' = [server EXCEPT ![i] = "failed"]
  /\ UNCHANGED <<starts, onWay, deletes, stored, leases, key, overtaken, watchVars>>

Unregister(i) ==
  /\ server[i] = "serving"
  /\ stored[i]
  /\ stored' = [stored EXCEPT ![i] = FALSE]
  /\ deletes' = [deletes EXCEPT ![i] = @ \union {starts[i]}]
  /\ UNCHANGED <<server, starts, onWay, leases, key, overtaken, watchVars>>

\* Registry.Close in the server process closes its session, which revokes the
\* lease, or leaves it to run out; the server itself goes on (Server.Close does
\* nothing).
CloseSession(i) ==
  /\ server[i] # "off"
  /\ DropLease(i, starts[i])

\* The server process ends, with nothing unregistered and what it sent on its way.
Exit(i) ==
  /\ server[i] # "off"
  /\ server' = [server EXCEPT ![i] = "off"]
  /\ stored' = [stored EXCEPT ![i] = FALSE]
  /\ overtaken' = [overtaken EXCEPT ![i] = FALSE]
  /\ UNCHANGED <<starts, onWay, deletes, leases, key, watchVars>>

-----------------------------------------------------------------------------
(* Subscribe and Close, in the client process.                             *)

Subscribe ==
  /\ watch = "off"
  /\ watch' = "receiving"
  /\ UNCHANGED <<serverVars, events, out, cancelled, breaks>>

\* resp := <-watchCh.  The value of a DELETE is empty, does not unmarshal, and
\* becomes the zero Event.
WatchReceive ==
  /\ watch = "receiving"
  /\ events # <<>>
  /\ watch' = "sending"
  /\ out' = IF Head(events) = "put" THEN "add" ELSE "unknown"
  /\ events' = Tail(events)
  /\ UNCHANGED <<serverVars, cancelled, breaks>>

\* res <- event: the subscriber is there to receive it.
WatchSend ==
  /\ watch = "sending"
  /\ watch' = "receiving"
  /\ out' = "none"
  /\ UNCHANGED <<serverVars, events, cancelled, breaks>>

\* etcd cancels the watch (resp.Canceled): the goroutine ends, the subscriber's
\* channel stays open and silent.
WatchBroken ==
  /\ watch = "receiving"
  /\ events = <<>>
  /\ breaks < MaxBreaks
  /\ breaks' = breaks + 1
  /\ watch' = "ended"
  /\ UNCHANGED <<serverVars, events, out, cancelled>>

\* Registry.Close in the client process cancels the watches made so far.
CloseRegistry ==
  /\ watch # "off"
  /\ ~cancelled
  /\ cancelled' = TRUE
  /\ UNCHANGED <<serverVars, watch, events, out, breaks>>

\* Mutant: the send on the channel does not look at the context.
WatchDoneIdle ==
  /\ watch = "receiving"
  /\ cancelled
  /\ watch' = "ended"
  /\ UNCHANGED <<serverVars, events, out, cancelled, breaks>>

\* case <-ctx.Done(), in both selects.
WatchDone ==
  /\ watch \in {"receiving", "sending"}
  /\ cancelled
  /\ watch' = "ended"
  /\ out' = "none"
  /\ UNCHANGED <<serverVars, events, cancelled, breaks>>

ServerStep(i) ==
  \/ \E n \in 1 .. MaxStarts : EtcdPut(i, n) \/ EtcdDelete(i, n) \/ LeaseExpires(i, n)
  \/ Start(i) \/ Serve(i) \/ RegisterFails(i)
  \/ Unregister(i) \/ CloseSession(i) \/ Exit(i)

\* What the registry does without its subscriber.
RegistryStep ==
  \/ \E i \in Instances : ServerStep(i)
  \/ WatchReceive \/ WatchBroken \/ CloseRegistry \/ WatchDone
================================================================================
