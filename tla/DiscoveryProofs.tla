---------------------------- MODULE DiscoveryProofs ----------------------------
(***************************************************************************)
(* Proofs about Discovery and the registry under it, for every set of      *)
(* instances and every bound.                                              *)
(***************************************************************************)
EXTENDS Discovery, TLAPS

USE InstancesAssumption, RegistryBoundAssumption, DiscoveryBoundAssumption

-----------------------------------------------------------------------------
(* The registry.                                                           *)

LEMMA AppendType ==
  ASSUME NEW s \in Seq({"put", "delete"}), NEW e \in {"put", "delete"}
  PROVE  Append(s, e) \in Seq({"put", "delete"})
OBVIOUS

LEMMA SetKeyOfType ==
  ASSUME RegistryTypeOK, NEW i \in Instances, NEW n \in 0 .. MaxStarts,
         NEW kind \in {"put", "delete"}, SetKeyOf(i, n, kind)
  PROVE  /\ key' \in [Instances -> 0 .. MaxStarts]
         /\ \A j \in Instances : key'[j] = IF j = i THEN n ELSE key[j]
         /\ events' \in Seq({"put", "delete"})
         /\ UNCHANGED <<watch, out, cancelled, breaks>>
BY AppendType DEF SetKeyOf, RegistryTypeOK

\* What RegistryTypeOK says of one instance, and how its parts relate.
OfInstance(i) ==
  /\ onWay[i] \subseteq leases[i]
  /\ leases[i] \union deletes[i] \subseteq 1 .. starts[i]
  /\ starts[i] > 0 \/ server[i] = "off"
  /\ key[i] \in leases[i] \union {0}

LEMMA ServerType ==
  ASSUME RegistryTypeOK, NEW i \in Instances, ServerStep(i)
  PROVE  RegistryTypeOK'
<1> USE DEF watchVars
<1>0. /\ \A j \in Instances : OfInstance(j)
      /\ \A j \in Instances : starts[j] \in 0 .. MaxStarts
      /\ leases[i] \subseteq 1 .. MaxStarts /\ onWay[i] \subseteq 1 .. MaxStarts
  BY DEF RegistryTypeOK, OfInstance
<1>1. ASSUME NEW n \in 1 .. MaxStarts, EtcdPut(i, n)
      PROVE  RegistryTypeOK'
  <2>1. n \in leases[i] /\ SetKeyOf(i, n, "put")
    BY <1>0, <1>1 DEF EtcdPut, OfInstance
  <2>2. /\ key' \in [Instances -> 0 .. MaxStarts]
        /\ \A j \in Instances : key'[j] = IF j = i THEN n ELSE key[j]
        /\ events' \in Seq({"put", "delete"})
        /\ UNCHANGED <<watch, out, cancelled, breaks>>
    BY <2>1, SetKeyOfType
  <2>3. /\ onWay' \in [Instances -> SUBSET (1 .. MaxStarts)]
        /\ \A j \in Instances : onWay'[j] \subseteq onWay[j]
        /\ UNCHANGED <<server, starts, deletes, leases>>
    BY <1>1 DEF EtcdPut, RegistryTypeOK
  <2>4. stored' \in [Instances -> BOOLEAN] /\ overtaken' \in [Instances -> BOOLEAN]
    BY <1>1, Zenon DEF EtcdPut, RegistryTypeOK
  <2>5. \A j \in Instances : OfInstance(j)'
    BY <1>0, <2>1, <2>2, <2>3 DEF OfInstance
  <2> QED BY <2>2, <2>3, <2>4, <2>5 DEF RegistryTypeOK, OfInstance
<1>2. ASSUME NEW n \in 1 .. MaxStarts, EtcdDelete(i, n)
      PROVE  RegistryTypeOK'
  <2>1. /\ key' \in [Instances -> 0 .. MaxStarts]
        /\ \A j \in Instances : key'[j] \in {key[j], 0}
        /\ events' \in Seq({"put", "delete"})
        /\ UNCHANGED <<watch, out, cancelled, breaks>>
    <3>1. CASE SetKeyOf(i, 0, "delete")
      BY <3>1, SetKeyOfType
    <3>2. CASE UNCHANGED <<key, watchVars>>
      BY <3>2 DEF RegistryTypeOK
    <3> QED BY <1>2, <3>1, <3>2 DEF EtcdDelete
  <2>2. /\ deletes' \in [Instances -> SUBSET (1 .. MaxStarts)]
        /\ \A j \in Instances : deletes'[j] \subseteq deletes[j]
        /\ UNCHANGED <<server, starts, onWay, stored, leases>>
    BY <1>2 DEF EtcdDelete, RegistryTypeOK
  <2>3. overtaken' \in [Instances -> BOOLEAN]
    BY <1>2, Zenon DEF EtcdDelete, RegistryTypeOK
  <2>4. \A j \in Instances : OfInstance(j)'
    BY <1>0, <2>1, <2>2 DEF OfInstance
  <2> QED BY <2>1, <2>2, <2>3, <2>4 DEF RegistryTypeOK, OfInstance
<1>3. ASSUME NEW n \in 0 .. MaxStarts, DropLease(i, n)
      PROVE  RegistryTypeOK'
  <2>1. /\ key' \in [Instances -> 0 .. MaxStarts]
        /\ \A j \in Instances : key'[j] = IF j = i /\ key[j] = n THEN 0 ELSE key[j]
        /\ events' \in Seq({"put", "delete"})
        /\ UNCHANGED <<watch, out, cancelled, breaks>>
    <3>1. CASE key[i] = n
      <4>1. SetKeyOf(i, 0, "delete")
        BY <1>3, <3>1 DEF DropLease
      <4> QED BY <3>1, <4>1, SetKeyOfType
    <3>2. CASE key[i] # n
      BY <1>3, <3>2 DEF DropLease, RegistryTypeOK
    <3> QED BY <3>1, <3>2
  <2>2. /\ leases' \in [Instances -> SUBSET (1 .. MaxStarts)]
        /\ onWay' \in [Instances -> SUBSET (1 .. MaxStarts)]
        /\ \A j \in Instances : leases'[j] = IF j = i THEN leases[j] \ {n} ELSE leases[j]
        /\ \A j \in Instances : onWay'[j] = IF j = i THEN onWay[j] \ {n} ELSE onWay[j]
        /\ UNCHANGED <<server, starts, deletes, stored, overtaken>>
    BY <1>3 DEF DropLease, RegistryTypeOK
  <2>3. \A j \in Instances : OfInstance(j)'
    BY <1>0, <2>1, <2>2 DEF OfInstance
  <2> QED BY <2>1, <2>2, <2>3 DEF RegistryTypeOK, OfInstance
<1>4. CASE Start(i)
  <2> DEFINE n == starts[i] + 1
  <2>1. n \in 1 .. MaxStarts
    BY <1>0, <1>4 DEF Start
  <2>2. /\ starts' \in [Instances -> 0 .. MaxStarts]
        /\ \A j \in Instances : starts'[j] = IF j = i THEN n ELSE starts[j]
    BY <1>4, <2>1 DEF Start, RegistryTypeOK
  <2>3. /\ onWay' = [onWay EXCEPT ![i] = @ \union {n}]
        /\ leases' = [leases EXCEPT ![i] = @ \union {n}]
    BY <1>4, <2>2 DEF Start
  <2>4. /\ onWay' \in [Instances -> SUBSET (1 .. MaxStarts)]
        /\ leases' \in [Instances -> SUBSET (1 .. MaxStarts)]
        /\ \A j \in Instances : onWay'[j] = IF j = i THEN onWay[j] \union {n} ELSE onWay[j]
        /\ \A j \in Instances : leases'[j] = IF j = i THEN leases[j] \union {n} ELSE leases[j]
    BY <2>1, <2>3 DEF RegistryTypeOK
  <2>5. UNCHANGED <<deletes, stored, key, overtaken, watchVars>>
    BY <1>4 DEF Start
  <2>6. \A j \in Instances : 1 .. starts[j] \subseteq 1 .. starts'[j]
    BY <1>0, <2>2
  <2>7. n \in 1 .. starts'[i]
    BY <2>1, <2>2
  <2> HIDE DEF n
  <2>8. /\ server' \in [Instances -> {"off", "listening", "serving", "failed"}]
        /\ \A j \in Instances \ {i} : server'[j] = server[j]
    BY <1>4 DEF Start, RegistryTypeOK
  <2>9. starts'[i] > 0 /\ \A j \in Instances \ {i} : starts'[j] = starts[j]
    BY <1>0, <2>2, <2>7
  <2>10. \A j \in Instances : OfInstance(j)'
    BY <1>0, <2>4, <2>5, <2>6, <2>7, <2>8, <2>9 DEF OfInstance
  <2> QED BY <2>2, <2>4, <2>5, <2>8, <2>10 DEF RegistryTypeOK, OfInstance
<1>5. CASE Serve(i) \/ RegisterFails(i)
  BY <1>5 DEF Serve, RegisterFails, RegistryTypeOK
<1>6. CASE Unregister(i)
  <2>1. starts[i] \in 1 .. MaxStarts /\ starts[i] \in 1 .. starts[i]
    BY <1>0, <1>6 DEF Unregister, OfInstance
  <2>2. /\ deletes' \in [Instances -> SUBSET (1 .. MaxStarts)]
        /\ \A j \in Instances :
             deletes'[j] \subseteq deletes[j] \union (IF j = i THEN {starts[i]} ELSE {})
        /\ stored' \in [Instances -> BOOLEAN]
    BY <1>6, <2>1 DEF Unregister, RegistryTypeOK
  <2>3. UNCHANGED <<server, starts, onWay, leases, key, overtaken, watchVars>>
    BY <1>6 DEF Unregister
  <2>4. \A j \in Instances : OfInstance(j)'
    BY <1>0, <2>1, <2>2, <2>3 DEF OfInstance
  <2> QED BY <2>2, <2>3, <2>4 DEF RegistryTypeOK, OfInstance
<1>7. CASE Exit(i)
  BY <1>7 DEF Exit, RegistryTypeOK
<1>8. CASE CloseSession(i)
  BY <1>0, <1>3, <1>8 DEF CloseSession
<1>9. ASSUME NEW n \in 1 .. MaxStarts, LeaseExpires(i, n)
      PROVE  RegistryTypeOK'
  BY <1>3, <1>9 DEF LeaseExpires
<1> QED BY <1>1, <1>2, <1>4, <1>5, <1>6, <1>7, <1>8, <1>9 DEF ServerStep

LEMMA WatchType ==
  ASSUME RegistryTypeOK,
         WatchReceive \/ WatchBroken \/ CloseRegistry \/ WatchDone \/ Subscribe \/ WatchSend
  PROVE  RegistryTypeOK'
<1> USE DEF serverVars
<1>1. CASE WatchReceive
  BY <1>1 DEF WatchReceive, RegistryTypeOK
<1>2. CASE WatchBroken
  BY <1>2 DEF WatchBroken, RegistryTypeOK
<1>3. CASE CloseRegistry \/ WatchDone \/ Subscribe \/ WatchSend
  BY <1>3 DEF CloseRegistry, WatchDone, Subscribe, WatchSend, RegistryTypeOK
<1> QED BY <1>1, <1>2, <1>3

-----------------------------------------------------------------------------
(* The resolver.                                                           *)

LEMMA ResolvedType ==
  ASSUME TypeOK, NEW t \in Threads, job[t] # "idle", Resolved(t)
  PROVE  /\ job' \in [Threads -> {"idle", "list", "update"}]
         /\ goroutine' \in {"off", "select", "resolve", "ended"}
         /\ (goroutine' = "resolve") <=> (job'["watch"] # "idle")
<1>1. CASE t = "watch"
  BY <1>1 DEF Resolved, TypeOK, Threads
<1>2. CASE t # "watch"
  BY <1>2 DEF Resolved, TypeOK, Threads
<1> QED BY <1>1, <1>2

LEMMA TypeInit == Init => TypeOK
<1> SUFFICES ASSUME Init PROVE TypeOK
  OBVIOUS
<1>1. RegistryTypeOK
  <2>1. /\ starts \in [Instances -> 0 .. MaxStarts] /\ key \in [Instances -> 0 .. MaxStarts]
        /\ onWay \in [Instances -> SUBSET (1 .. MaxStarts)]
        /\ deletes \in [Instances -> SUBSET (1 .. MaxStarts)]
        /\ leases \in [Instances -> SUBSET (1 .. MaxStarts)]
    BY DEF Init, RegistryInit
  <2>2. ASSUME NEW i \in Instances PROVE OfInstance(i)
    <3>1. /\ starts[i] = 0 /\ key[i] = 0 /\ server[i] = "off"
          /\ onWay[i] = {} /\ leases[i] = {} /\ deletes[i] = {}
      BY DEF Init, RegistryInit
    <3> QED BY <3>1 DEF OfInstance
  <2>3. events \in Seq({"put", "delete"})
    BY DEF Init, RegistryInit
  <2>4. /\ server \in [Instances -> {"off", "listening", "serving", "failed"}]
        /\ stored \in [Instances -> BOOLEAN] /\ overtaken \in [Instances -> BOOLEAN]
    BY DEF Init, RegistryInit
  <2>5. /\ watch \in {"off", "receiving", "sending", "ended"}
        /\ out \in {"none", "add", "unknown"}
        /\ (watch = "sending") => (out # "none")
    BY DEF Init, RegistryInit
  <2>6. breaks \in 0 .. MaxBreaks
    BY DEF Init, RegistryInit
  <2>7. cancelled \in BOOLEAN
    BY Zenon DEF Init, RegistryInit
  <2> QED BY <2>1, <2>2, <2>3, <2>4, <2>5, <2>6, <2>7 DEF RegistryTypeOK, OfInstance
<1> QED BY <1>1 DEF Init, TypeOK, Threads

LEMMA TypeNext == TypeOK /\ [Next]_vars => TypeOK'
<1> SUFFICES ASSUME TypeOK, [Next]_vars PROVE TypeOK'
  OBVIOUS
<1> USE DEF vars, registryVars, serverVars, watchVars, resolverVars
<1>1. CASE UNCHANGED vars
  BY <1>1 DEF TypeOK, RegistryTypeOK
<1>2. CASE RegistryStep /\ UNCHANGED resolverVars
  <2>1. RegistryTypeOK'
    BY <1>2, ServerType, WatchType DEF RegistryStep, TypeOK
  <2> QED BY <1>2, <2>1 DEF TypeOK
<1>3. ASSUME NEW t \in Threads, ThreadStep(t)
      PROVE  TypeOK'
  <2>1. RegistryTypeOK'
    BY <1>3 DEF ThreadStep, ListService, ListFails, UpdateState, TypeOK, RegistryTypeOK
  <2>2. CASE ListService(t)
    BY <2>1, <2>2 DEF ListService, TypeOK, Listed, Threads
  <2>3. CASE ListFails(t)
    <3>1. fails' \in Nat /\ fails' + nows' <= MaxUpsets
      BY <2>3 DEF ListFails, TypeOK
    <3> QED BY <2>1, <2>3, <3>1, ResolvedType DEF ListFails, TypeOK
  <2>4. CASE UpdateState(t)
    BY <2>1, <2>4, ResolvedType DEF UpdateState, TypeOK
  <2> QED BY <1>3, <2>2, <2>3, <2>4 DEF ThreadStep
<1>4. CASE Watch \/ ReceiveEvent
  <2>1. RegistryTypeOK'
    BY <1>4, WatchType DEF Watch, ReceiveEvent, TypeOK
  <2> QED BY <1>4, <2>1 DEF Watch, ReceiveEvent, TypeOK, Threads
<1>5. CASE ResolveNow \/ Close \/ ReceiveClose
  <2>1. RegistryTypeOK'
    BY <1>5 DEF ResolveNow, Close, ReceiveClose, TypeOK, RegistryTypeOK
  <2> QED BY <1>5, <2>1 DEF ResolveNow, Close, ReceiveClose, TypeOK, Threads
<1> QED BY <1>1, <1>2, <1>3, <1>4, <1>5 DEF Next

\* Every variable keeps its type; the watch goroutine is inside resolve exactly
\* when it has left its select for an event.
THEOREM TypeCorrect == Spec => []TypeOK
BY TypeInit, TypeNext, PTL DEF Spec

-----------------------------------------------------------------------------
(* Close.                                                                  *)

ClosedMeansEnded == closing = "done" => goroutine = "ended"

LEMMA ClosedNext ==
  TypeOK /\ ClosedMeansEnded /\ [Next]_vars => ClosedMeansEnded'
<1> SUFFICES ASSUME TypeOK, ClosedMeansEnded, [Next]_vars PROVE ClosedMeansEnded'
  OBVIOUS
<1> USE DEF vars, resolverVars, ClosedMeansEnded
<1>1. CASE UNCHANGED vars \/ (RegistryStep /\ UNCHANGED resolverVars)
  BY <1>1
<1>2. ASSUME NEW t \in Threads, ThreadStep(t)
      PROVE  ClosedMeansEnded'
  <2>1. closing' = closing
    BY <1>2 DEF ThreadStep, ListService, ListFails, UpdateState
  <2>2. t = "watch" => goroutine = "resolve"
    BY <1>2 DEF ThreadStep, ListService, ListFails, UpdateState, TypeOK
  <2>3. t # "watch" => goroutine' = goroutine
    BY <1>2 DEF ThreadStep, ListService, ListFails, UpdateState, Resolved
  <2> QED BY <2>1, <2>2, <2>3
<1>3. CASE Watch \/ ReceiveEvent \/ ResolveNow \/ Close \/ ReceiveClose
  BY <1>3 DEF Watch, ReceiveEvent, ResolveNow, Close, ReceiveClose
<1> QED BY <1>1, <1>2, <1>3 DEF Next

\* After Close has returned the watch goroutine has ended and no list that it
\* read is on its way to gRPC: Close waits for it at its select, between two
\* resolves.
THEOREM CloseIsQuiet == Spec => []QuietAfterClose
<1>1. Init => ClosedMeansEnded
  BY DEF Init, ClosedMeansEnded
<1>2. TypeOK /\ ClosedMeansEnded => QuietAfterClose
  BY DEF TypeOK, ClosedMeansEnded, QuietAfterClose, Threads
<1> QED BY <1>1, <1>2, TypeInit, TypeNext, ClosedNext, PTL DEF Spec

-----------------------------------------------------------------------------
(* Registration.                                                           *)

\* A process's Put and its Delete run once, the Delete after the Put; what etcd
\* has run for the current process is in the key, unless it was overtaken.
PutIsCurrent(i) ==
  /\ stored[i] => starts[i] \notin onWay[i] \union deletes[i]
  /\ starts[i] \in deletes[i] => starts[i] \notin onWay[i]
  /\ server[i] = "off" => ~stored[i]
  /\ stored[i] /\ starts[i] \in leases[i] => key[i] = starts[i] \/ overtaken[i]

PutsAreCurrent == \A i \in Instances : PutIsCurrent(i)

LEMMA PutInit == Init => PutsAreCurrent
<1> SUFFICES ASSUME Init PROVE PutsAreCurrent
  OBVIOUS
<1>1. stored = [i \in Instances |-> FALSE] /\ deletes = [i \in Instances |-> {}]
  BY DEF Init, RegistryInit
<1>2. ASSUME NEW i \in Instances
      PROVE  stored[i] = FALSE /\ deletes[i] = {}
  BY <1>1
<1> QED BY <1>2, Zenon DEF PutsAreCurrent, PutIsCurrent

LEMMA PutNext == TypeOK /\ PutsAreCurrent /\ [Next]_vars => PutsAreCurrent'
<1> SUFFICES ASSUME TypeOK, \A i \in Instances : PutIsCurrent(i), [Next]_vars
             PROVE  \A i \in Instances : PutIsCurrent(i)'
  BY DEF PutsAreCurrent
<1> USE DEF vars, registryVars, serverVars, watchVars, resolverVars
<1>1. CASE UNCHANGED serverVars
  BY <1>1 DEF PutIsCurrent
<1>2. ASSUME NEW i \in Instances, ServerStep(i), NEW j \in Instances
      PROVE  PutIsCurrent(j)'
  <2> USE DEF TypeOK, RegistryTypeOK
  <2>0. /\ starts[i] \in Nat
        /\ onWay[i] \union leases[i] \union deletes[i] \subseteq 1 .. starts[i]
    OBVIOUS
  <2>1. CASE j # i
    <3>1. /\ server'[j] = server[j] /\ starts'[j] = starts[j] /\ onWay'[j] = onWay[j]
          /\ deletes'[j] = deletes[j] /\ stored'[j] = stored[j] /\ leases'[j] = leases[j]
          /\ key'[j] = key[j] /\ overtaken'[j] = overtaken[j]
      BY <1>2, <2>1 DEF ServerStep, EtcdPut, EtcdDelete, LeaseExpires, CloseSession, DropLease,
        SetKeyOf, Start, Serve, RegisterFails, Unregister, Exit
    <3> QED BY <3>1 DEF PutIsCurrent
  <2>2. ASSUME NEW n \in 1 .. MaxStarts, EtcdPut(i, n), j = i
        PROVE  PutIsCurrent(j)'
    <3>1. /\ onWay'[i] = onWay[i] \ {n} /\ key'[i] = n
          /\ stored'[i] = (stored[i] \/ (n = starts[i] /\ server[i] # "off"))
          /\ overtaken'[i] = (overtaken[i] \/ (stored[i] /\ n < starts[i]))
          /\ UNCHANGED <<server, starts, deletes, leases>>
      BY <2>2 DEF EtcdPut, SetKeyOf
    <3>2. CASE n = starts[i]
      BY <2>2, <3>1, <3>2 DEF PutIsCurrent, EtcdPut
    <3>3. CASE n # starts[i]
      <4>1. n < starts[i]
        BY <2>0, <2>2, <3>3 DEF EtcdPut
      <4> QED BY <2>2, <3>1, <3>3, <4>1 DEF PutIsCurrent
    <3> QED BY <3>2, <3>3
  <2>3. ASSUME NEW n \in 1 .. MaxStarts, EtcdDelete(i, n), j = i
        PROVE  PutIsCurrent(j)'
    <3>1. /\ deletes'[i] = deletes[i] \ {n}
          /\ overtaken'[i] = (overtaken[i] \/ (stored[i] /\ n < starts[i]))
          /\ UNCHANGED <<server, starts, onWay, stored, leases>>
      BY <2>3 DEF EtcdDelete
    <3>2. CASE n = starts[i]
      BY <2>3, <3>1, <3>2 DEF PutIsCurrent, EtcdDelete
    <3>3. CASE n # starts[i]
      <4>1. n < starts[i]
        BY <2>0, <2>3, <3>3 DEF EtcdDelete
      <4> QED BY <2>3, <3>1, <4>1 DEF PutIsCurrent
    <3> QED BY <3>2, <3>3
  <2>4. ASSUME NEW n, DropLease(i, n), j = i
        PROVE  PutIsCurrent(j)'
    <3>1. /\ leases'[i] = leases[i] \ {n} /\ onWay'[i] = onWay[i] \ {n}
          /\ key[i] # n => key'[i] = key[i]
          /\ UNCHANGED <<server, starts, deletes, stored, overtaken>>
      BY <2>4 DEF DropLease
    <3> QED BY <2>4, <3>1 DEF PutIsCurrent
  <2>5. CASE Start(i) /\ j = i
    <3>1. /\ ~stored'[i] /\ deletes'[i] = deletes[i] /\ starts'[i] = starts[i] + 1
          /\ server'[i] = "listening"
      BY <2>5 DEF Start, PutIsCurrent
    <3>2. starts'[i] \notin deletes'[i]
      BY <2>0, <3>1
    <3> QED BY <2>5, <3>1, <3>2 DEF PutIsCurrent
  <2>6. CASE (Serve(i) \/ RegisterFails(i)) /\ j = i
    BY <2>6 DEF Serve, RegisterFails, PutIsCurrent
  <2>7. CASE Unregister(i) /\ j = i
    BY <2>7 DEF Unregister, PutIsCurrent
  <2>8. CASE Exit(i) /\ j = i
    BY <2>8 DEF Exit, PutIsCurrent
  <2> QED
    BY <1>2, <2>1, <2>2, <2>3, <2>4, <2>5, <2>6, <2>7, <2>8
    DEF ServerStep, LeaseExpires, CloseSession
<1>3. CASE WatchReceive \/ WatchBroken \/ CloseRegistry \/ WatchDone \/ Watch \/ ReceiveEvent
  BY <1>1, <1>3 DEF WatchReceive, WatchBroken, CloseRegistry, WatchDone, Watch, Subscribe,
    ReceiveEvent, WatchSend
<1>4. CASE ResolveNow \/ Close \/ ReceiveClose \/ \E t \in Threads : ThreadStep(t)
  BY <1>1, <1>4 DEF ResolveNow, Close, ReceiveClose, ThreadStep, ListService, ListFails,
    UpdateState
<1>5. CASE UNCHANGED vars
  BY <1>1, <1>5
<1> QED BY <1>2, <1>3, <1>4, <1>5 DEF Next, RegistryStep

\* A serving server whose lease is alive stays listed under it, whatever leases
\* of earlier processes of its address end and whenever their Puts and Deletes
\* run: only one of these that runs after its own Put can take it out.
THEOREM ServingStaysListed == Spec => []ServingIsListed
<1>1. PutsAreCurrent => ServingIsListed
  BY DEF PutsAreCurrent, PutIsCurrent, ServingIsListed
<1> QED BY <1>1, PutInit, TypeInit, TypeNext, PutNext, PTL DEF Spec
================================================================================
