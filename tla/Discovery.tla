------------------------------- MODULE Discovery -------------------------------
(***************************************************************************)
(* The gRPC resolver of rpc/homework2 on top of EtcdRegistry.  Three       *)
(* threads of control run resolve: Build, before anything else, the watch  *)
(* goroutine at every event, and ResolveNow, called by gRPC at any time.   *)
(* resolve reads the list from the registry and hands it to gRPC in two    *)
(* steps, and nothing orders these steps between the threads.              *)
(***************************************************************************)
EXTENDS EtcdRegistry

CONSTANT MaxUpsets     \* bound: lists that fail or time out, and calls of ResolveNow

ASSUME DiscoveryBoundAssumption == MaxUpsets \in Nat

VARIABLES
  job,         \* where each thread is in resolve
  list,        \* the instances it has read
  goroutine,   \* the resolver's watch goroutine
  addrs,       \* the addresses gRPC was last given
  closing,     \* the Close call: none, sending on g.close, or returned
  fails,       \* lists that failed
  nows         \* calls of ResolveNow

resolverVars == <<job, list, goroutine, addrs, closing, fails, nows>>
vars == <<registryVars, resolverVars>>

Threads == {"build", "watch", "now"}

TypeOK ==
  /\ RegistryTypeOK
  /\ job \in [Threads -> {"idle", "list", "update"}]
  /\ list \in [Threads -> SUBSET Matching]
  /\ goroutine \in {"off", "select", "resolve", "ended"}
  /\ (goroutine = "resolve") <=> (job["watch"] # "idle")
  /\ addrs \in SUBSET Matching
  /\ closing \in {"no", "sending", "done"}
  /\ fails \in Nat /\ nows \in Nat
  /\ fails + nows <= MaxUpsets

Init ==
  /\ RegistryInit
  /\ job = [t \in Threads |-> IF t = "build" THEN "list" ELSE "idle"]
  /\ list = [t \in Threads |-> {}]
  /\ goroutine = "off"
  /\ addrs = {}
  /\ closing = "no"
  /\ fails = 0
  /\ nows = 0

-----------------------------------------------------------------------------
(* resolve.                                                                *)

\* The thread leaves resolve; the watch goroutine is back at its select.
Resolved(t) ==
  /\ job' = [job EXCEPT ![t] = "idle"]
  /\ goroutine' = IF t = "watch" THEN "select" ELSE goroutine

ListService(t) ==
  /\ job[t] = "list"
  /\ job' = [job EXCEPT ![t] = "update"]
  /\ list' = [list EXCEPT ![t] = Listed]
  /\ UNCHANGED <<registryVars, goroutine, addrs, closing, fails, nows>>

\* Mutant: an error ends the goroutine.
ListFailsEnds(t) ==
  /\ job[t] = "list"
  /\ fails + nows < MaxUpsets
  /\ fails' = fails + 1
  /\ job' = [job EXCEPT ![t] = "idle"]
  /\ goroutine' = IF t = "watch" THEN "ended" ELSE goroutine
  /\ UNCHANGED <<registryVars, list, addrs, closing, nows>>

\* An error is reported to gRPC and forgotten: resolve does not try again.
ListFails(t) ==
  /\ job[t] = "list"
  /\ fails + nows < MaxUpsets
  /\ fails' = fails + 1
  /\ Resolved(t)
  /\ UNCHANGED <<registryVars, list, addrs, closing, nows>>

UpdateState(t) ==
  /\ job[t] = "update"
  /\ addrs' = list[t]
  /\ list' = [list EXCEPT ![t] = {}]
  /\ Resolved(t)
  /\ UNCHANGED <<registryVars, closing, fails, nows>>

-----------------------------------------------------------------------------
(* Build, the watch goroutine, ResolveNow and Close.                       *)

\* Build subscribes after its resolve, and starts the goroutine.
Watch ==
  /\ job["build"] = "idle"
  /\ goroutine = "off"
  /\ Subscribe
  /\ goroutine' = "select"
  /\ UNCHANGED <<job, list, addrs, closing, fails, nows>>

\* Mutant: the goroutine resolves only for events that carry an instance.
ReceiveEventAdd ==
  /\ goroutine = "select"
  /\ WatchSend
  /\ IF out = "add"
       THEN /\ goroutine' = "resolve"
            /\ job' = [job EXCEPT !["watch"] = "list"]
       ELSE UNCHANGED <<goroutine, job>>
  /\ UNCHANGED <<list, addrs, closing, fails, nows>>

\* case event := <-eventsCh: whatever the event, resolve.
ReceiveEvent ==
  /\ goroutine = "select"
  /\ WatchSend
  /\ goroutine' = "resolve"
  /\ job' = [job EXCEPT !["watch"] = "list"]
  /\ UNCHANGED <<list, addrs, closing, fails, nows>>

ResolveNow ==
  /\ goroutine # "off"
  /\ closing = "no"
  /\ job["now"] = "idle"
  /\ fails + nows < MaxUpsets
  /\ nows' = nows + 1
  /\ job' = [job EXCEPT !["now"] = "list"]
  /\ UNCHANGED <<registryVars, list, goroutine, addrs, closing, fails>>

\* Mutant: Close closes the channel instead of sending on it, and returns.
CloseAtOnce ==
  /\ goroutine # "off"
  /\ closing = "no"
  /\ closing' = "done"
  /\ UNCHANGED <<registryVars, job, list, goroutine, addrs, fails, nows>>

\* gRPC calls Close once; it waits for the goroutine to receive.
Close ==
  /\ goroutine # "off"
  /\ closing = "no"
  /\ closing' = "sending"
  /\ UNCHANGED <<registryVars, job, list, goroutine, addrs, fails, nows>>

\* case <-g.close
ReceiveClose ==
  /\ goroutine = "select"
  /\ closing = "sending"
  /\ goroutine' = "ended"
  /\ closing' = "done"
  /\ UNCHANGED <<registryVars, job, list, addrs, fails, nows>>

ThreadStep(t) == ListService(t) \/ ListFails(t) \/ UpdateState(t)

Next ==
  \/ RegistryStep /\ UNCHANGED resolverVars
  \/ \E t \in Threads : ThreadStep(t)
  \/ Watch \/ ReceiveEvent \/ ResolveNow \/ Close \/ ReceiveClose

Spec == Init /\ [][Next]_vars

\* Goroutines run on, and resolve ends thanks to its timeout.  Both selects are
\* fair to a case that is ready again and again, as Go's select draws at random.
\* Nothing is assumed of servers, of gRPC or of what fails.
Fairness ==
  /\ \A t \in Threads : WF_vars(ThreadStep(t))
  /\ WF_vars(Watch)
  /\ WF_vars(WatchReceive /\ UNCHANGED resolverVars)
  /\ SF_vars(WatchDone /\ UNCHANGED resolverVars)
  /\ WF_vars(ReceiveEvent)
  /\ SF_vars(ReceiveClose)

FairSpec == Spec /\ Fairness

-----------------------------------------------------------------------------
(* Correctness.                                                            *)

\* A server that serves, with its lease alive and not unregistered, is listed
\* under that lease, and so the end of an earlier process's lease does not take
\* it out of the registry: unless a Put or Delete which an earlier process of
\* its address had sent has overtaken its own Put.
ServingIsListed ==
  \A i \in Instances :
    server[i] = "serving" /\ starts[i] \in leases[i] /\ stored[i] =>
      key[i] = starts[i] \/ overtaken[i]

\* Once Close has returned, the watch goroutine hands no list to gRPC any more:
\* it is not between ListService and UpdateState, nor will it be again.
QuietAfterClose == closing = "done" => job["watch"] = "idle" /\ goroutine = "ended"

\* Close returns, whatever the goroutine is doing and however many events wait.
CloseReturns == closing = "sending" ~> closing = "done"

\* The registry's Close ends the goroutine of Subscribe even if nobody receives
\* its events any more, as after the resolver's Close.
CloseRegistryEndsWatch == cancelled ~> watch = "ended"

EventWaits == events # <<>> \/ watch = "sending"
WatchOver  == closing # "no" \/ cancelled \/ breaks > 0

\* The changes that reach the watch are made good: when the registrations come
\* to rest, gRPC has the list of the registry and keeps it, unless a list
\* failed, ResolveNow interfered or the watch was ended.
EventsAreApplied ==
  EventWaits ~> [](addrs = Listed \/ fails > 0 \/ nows > 0 \/ WatchOver)

\* The comment in watch: to resolve again at every event updates the list, is
\* idempotent and does not depend on an order.  So the list is right in the end
\* whatever else resolves at the same time.
ResolveIsIdempotent ==
  EventWaits ~> [](addrs = Listed \/ fails > 0 \/ WatchOver)
================================================================================
