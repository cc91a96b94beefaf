---------------------------- MODULE RedisLockProofs ----------------------------
(***************************************************************************)
(* Proofs about RedisLock, for every set of clients, every expiration and  *)
(* every bound.                                                            *)
(***************************************************************************)
EXTENDS RedisLock, TLAPS

-----------------------------------------------------------------------------
(* Type correctness.                                                       *)

\* An expiration in seconds is, in PX units, a positive number that SET's does
\* not exceed.
LEMMA TtlBounds ==
  /\ MaxTtl \in Nat \ {0}
  /\ Expiration \in 1 .. MaxTtl
<1>1. MaxTtl \in Nat
  BY TimeAssumption DEF MaxTtl
<1>2. MaxTtl >= Expiration
  <2> DEFINE m == MsPerSec - 1
  <2>1. m \in Nat /\ MsPerSec = m + 1
    BY TimeAssumption
  <2>2. MaxTtl = m * Expiration + Expiration
    BY <2>1, TimeAssumption DEF MaxTtl
  <2>3. m * Expiration \in Nat
    BY <2>1, TimeAssumption
  <2> QED BY <2>2, <2>3, TimeAssumption
<1> QED BY <1>1, <1>2, TimeAssumption

\* A script leaves a well-typed key and answers yes or no.
LEMMA ScriptType ==
  ASSUME RedisTypeOK, NEW c \in Clients, NEW op \in Ops
  PROVE  /\ Script(c, op).owner \in Clients \union {NoOwner}
         /\ Script(c, op).ttl \in 0 .. MaxTtl
         /\ (Script(c, op).owner = NoOwner) <=> (Script(c, op).ttl = 0)
         /\ Script(c, op).res \in {"yes", "no"}
<1> USE OwnerAssumption, TtlBounds
<1>1. CASE op = "lock"
  BY <1>1 DEF RedisTypeOK, Script, LockScript, Key, MaxTtl
<1>2. CASE op = "refresh"
  BY <1>2 DEF RedisTypeOK, Script, RefreshScript, Key, MaxTtl
<1>3. CASE op = "unlock"
  BY <1>3 DEF RedisTypeOK, Script, UnlockScript, Key, MaxTtl
<1> QED BY <1>1, <1>2, <1>3 DEF Ops

\* Whatever a well-typed key is set to, Redis' part of the state stays typed.
LEMMA SetKeyType ==
  ASSUME RedisTypeOK,
         NEW o \in Clients \union {NoOwner}, NEW t \in 0 .. MaxTtl,
         (o = NoOwner) <=> (t = 0),
         SetKey(o, t)
  PROVE  RedisTypeOK'
BY DEF RedisTypeOK, SetKey, MaxTtl, OwnerOps

\* The caller's side of the network keeps the type of the requests.
LEMMA NetType ==
  ASSUME NetTypeOK, NEW c \in Clients, NEW op \in Ops, NEW res,
         Send(c, op) \/ Answered(c, op, res) \/ GiveUp(c, op)
  PROVE  NetTypeOK'
<1>1. CASE Send(c, op)
  BY <1>1 DEF Send, NetTypeOK
<1>2. CASE Answered(c, op, res)
  BY <1>2 DEF Answered, NetTypeOK
<1>3. CASE GiveUp(c, op)
  <2>1. call' \in [Clients -> [Ops -> {"none", "sent", "yes", "no"}]]
    BY <1>3 DEF GiveUp, NetTypeOK
  <2>2. CASE UNCHANGED late
    BY <2>1, <2>2 DEF NetTypeOK
  <2>3. CASE late[c][op] < MaxLate /\ late' = [late EXCEPT ![c][op] = @ + 1]
    <3>1. late[c][op] + 1 \in 0 .. MaxLate
      BY <2>3, BoundAssumption DEF NetTypeOK
    <3> QED BY <2>1, <2>3, <3>1 DEF NetTypeOK
  <2> QED BY <1>3, <2>2, <2>3 DEF GiveUp
<1> QED BY <1>1, <1>2, <1>3

LEMMA TypeInit == Init => TypeOK
BY TtlBounds, OwnerAssumption, BoundAssumption
   DEF Init, TypeOK, RedisTypeOK, NetTypeOK, LockTypeOK, RefreshTypeOK, UnlockTypeOK

\* Redis and the clock.
LEMMA TypeRedis ==
  ASSUME TypeOK,
         Tick \/ \E c \in Clients : RedisStep(c)
  PROVE  TypeOK'
<1>1. CASE Tick
  <2>1. RedisTypeOK'
    <3> DEFINE o == IF ttl = 1 THEN NoOwner ELSE owner
    <3>1. o \in Clients \union {NoOwner} /\ ttl - 1 \in 0 .. MaxTtl
      BY <1>1, TtlBounds DEF Tick, TypeOK, RedisTypeOK
    <3>2. (o = NoOwner) <=> (ttl - 1 = 0)
      BY <1>1, TtlBounds DEF Tick, TypeOK, RedisTypeOK
    <3>3. SetKey(o, ttl - 1)
      BY <1>1 DEF Tick
    <3> QED BY <3>1, <3>2, <3>3, SetKeyType DEF TypeOK
  <2> QED
    BY <1>1, <2>1 DEF Tick, TypeOK, NetTypeOK, LockTypeOK, RefreshTypeOK, UnlockTypeOK,
      netVars, lockVars, refreshVars, unlockVars
<1>2. ASSUME NEW c \in Clients, NEW op \in Ops, Serve(c, op) \/ ServeLate(c, op)
      PROVE  TypeOK'
  <2>1. RedisTypeOK'
    <3>1. SetKey(Script(c, op).owner, Script(c, op).ttl)
      BY <1>2 DEF Serve, ServeLate, Apply
    <3> QED BY <3>1, ScriptType, SetKeyType DEF TypeOK
  <2>2. NetTypeOK'
    <3>1. CASE Serve(c, op)
      BY <3>1, ScriptType DEF Serve, TypeOK, NetTypeOK
    <3>2. CASE ServeLate(c, op)
      <4>1. late[c][op] - 1 \in 0 .. MaxLate
        BY <3>2, BoundAssumption DEF ServeLate, TypeOK, NetTypeOK
      <4> QED BY <3>2, <4>1 DEF ServeLate, TypeOK, NetTypeOK
    <3> QED BY <1>2, <3>1, <3>2
  <2> QED
    BY <1>2, <2>1, <2>2 DEF Serve, ServeLate, TypeOK, LockTypeOK, RefreshTypeOK,
      UnlockTypeOK, lockVars, refreshVars, unlockVars
<1> QED BY <1>1, <1>2 DEF RedisStep

\* The Lock call.
LEMMA TypeLock ==
  ASSUME TypeOK, NEW c \in Clients,
         Lock(c) \/ LockStep(c) \/ CtxDone(c)
  PROVE  TypeOK'
<1> USE DEF lockVars, refreshVars, unlockVars, keyVars, redisVars, netVars
<1>0. "lock" \in Ops
  BY DEF Ops
<1>1. RedisTypeOK' /\ RefreshTypeOK' /\ UnlockTypeOK'
  BY DEF Lock, LockStep, CtxDone, CreateLockOk, CreateLockTaken, FirstTimeout,
    CreateLockError, WaitDone, WaitElapsed, TypeOK, RedisTypeOK, RefreshTypeOK, UnlockTypeOK
<1>2. NetTypeOK'
  <2>1. CASE UNCHANGED netVars
    BY <2>1 DEF TypeOK, NetTypeOK
  <2>2. CASE Send(c, "lock") \/ Answered(c, "lock", "yes") \/ Answered(c, "lock", "no")
               \/ GiveUp(c, "lock")
    BY <1>0, <2>2, NetType DEF TypeOK
  <2> QED
    BY <2>1, <2>2 DEF Lock, LockStep, CtxDone, CreateLockOk, CreateLockTaken,
      FirstTimeout, CreateLockError, WaitDone, WaitElapsed
<1>3. LockTypeOK'
  <2> USE BoundAssumption
  <2>1. CASE Lock(c)
    BY <2>1 DEF Lock, LockFails, TypeOK, LockTypeOK
  <2>2. CASE CreateLockOk(c)
    BY <2>2 DEF CreateLockOk, LockHolds, TypeOK, LockTypeOK
  <2>3. ASSUME NextAttempt(c), UNCHANGED ctxDone, lock[c] # "failed"
        PROVE  LockTypeOK'
    BY <2>3 DEF NextAttempt, LockFails, TypeOK, LockTypeOK
  <2>4. CASE CreateLockTaken(c) \/ CreateLockError(c)
    BY <2>3, <2>4 DEF CreateLockTaken, CreateLockError
  <2>5. CASE FirstTimeout(c) \/ WaitDone(c)
    BY <2>5 DEF FirstTimeout, WaitDone, LockFails, TypeOK, LockTypeOK
  <2>6. CASE WaitElapsed(c) \/ CtxDone(c)
    BY <2>6 DEF WaitElapsed, CtxDone, TypeOK, LockTypeOK
  <2> QED BY <2>1, <2>2, <2>4, <2>5, <2>6 DEF LockStep
<1> QED BY <1>1, <1>2, <1>3 DEF TypeOK

\* The AutoRefresh goroutine.
LEMMA TypeRefresh ==
  ASSUME TypeOK, NEW c \in Clients,
         AutoRefresh(c) \/ RefreshStep(c) \/ UnlockBranch(c)
  PROVE  TypeOK'
<1> USE DEF lockVars, refreshVars, unlockVars, keyVars, redisVars, netVars
<1>0. "refresh" \in Ops
  BY DEF Ops
<1>1. RedisTypeOK' /\ LockTypeOK' /\ UnlockTypeOK'
  BY DEF SendAsOwner, AutoRefresh, RefreshStep, UnlockBranch, TickerBranch,
      RetryBranch, RefreshOk,
    RefreshNotHold, RefreshError, TickerTimeout, RetryTimeout, Wake, TypeOK, RedisTypeOK,
    LockTypeOK, UnlockTypeOK
<1>2. NetTypeOK'
  <2>1. CASE UNCHANGED netVars
    BY <2>1 DEF TypeOK, NetTypeOK
  <2>2. CASE Send(c, "refresh") \/ Answered(c, "refresh", "yes")
               \/ Answered(c, "refresh", "no") \/ GiveUp(c, "refresh")
    BY <1>0, <2>2, NetType DEF TypeOK
  <2> QED
    BY <2>1, <2>2 DEF AutoRefresh, RefreshStep, UnlockBranch, TickerBranch, RetryBranch,
      RefreshOk, RefreshNotHold, RefreshError, TickerTimeout, RetryTimeout, Wake, SendAsOwner
<1>3. RefreshTypeOK'
  <2> USE BoundAssumption
  <2>1. CASE RetryBranch(c)
    BY <2>1 DEF RetryBranch, RefreshEnds, TypeOK, RefreshTypeOK
  <2>2. CASE AutoRefresh(c) \/ TickerBranch(c) \/ RefreshOk(c) \/ RetryTimeout(c)
    BY <2>2 DEF AutoRefresh, TickerBranch, RefreshOk, RetryTimeout, TypeOK, RefreshTypeOK
  <2>3. CASE UnlockBranch(c) \/ RefreshNotHold(c) \/ RefreshError(c)
    BY <2>3 DEF UnlockBranch, RefreshNotHold, RefreshError, RefreshEnds, TypeOK, RefreshTypeOK
  <2>4. CASE TickerTimeout(c) \/ Wake(c)
    BY <2>4 DEF TickerTimeout, Wake, RaiseSignal, TypeOK, RefreshTypeOK
  <2> QED BY <2>1, <2>2, <2>3, <2>4 DEF RefreshStep
<1> QED BY <1>1, <1>2, <1>3 DEF TypeOK

\* Unlock and crashes.
LEMMA TypeUnlock ==
  ASSUME TypeOK, NEW c \in Clients,
         Unlock(c) \/ UnlockStep(c) \/ Crash(c)
  PROVE  TypeOK'
<1> USE DEF lockVars, refreshVars, unlockVars, keyVars, redisVars, netVars
<1>0. "unlock" \in Ops
  BY DEF Ops
<1>1. CASE Unlock(c) \/ UnlockStep(c)
  <2>1. RedisTypeOK' /\ LockTypeOK' /\ RefreshTypeOK'
    BY <1>1 DEF SendAsOwner, Unlock, UnlockStep, UnlockAnswered, UnlockError, TypeOK, RedisTypeOK,
      LockTypeOK, RefreshTypeOK
  <2>2. NetTypeOK'
    <3>1. Send(c, "unlock") \/ Answered(c, "unlock", "yes") \/ Answered(c, "unlock", "no")
            \/ GiveUp(c, "unlock")
      BY <1>1 DEF Unlock, UnlockStep, UnlockAnswered, UnlockError, SendAsOwner
    <3> QED BY <1>0, <3>1, NetType DEF TypeOK
  <2>3. UnlockTypeOK'
    <3>1. CASE Unlock(c)
      BY <3>1, BoundAssumption DEF Unlock, TypeOK, UnlockTypeOK
    <3>2. CASE UnlockStep(c)
      BY <3>2 DEF UnlockStep, UnlockAnswered, UnlockError, TypeOK, UnlockTypeOK
    <3> QED BY <1>1, <3>1, <3>2
  <2> QED BY <2>1, <2>2, <2>3 DEF TypeOK
<1>2. CASE Crash(c)
  <2>1. RedisTypeOK' /\ UnlockTypeOK'
    BY <1>2 DEF Crash, TypeOK, RedisTypeOK, UnlockTypeOK
  <2>2. NetTypeOK'
    BY <1>2 DEF Crash, TypeOK, NetTypeOK
  <2>3. LockTypeOK' /\ RefreshTypeOK'
    BY <1>2, BoundAssumption DEF Crash, TypeOK, LockTypeOK, RefreshTypeOK
  <2> QED BY <2>1, <2>2, <2>3 DEF TypeOK
<1> QED BY <1>1, <1>2

LEMMA TypeNext == TypeOK /\ [Next]_vars => TypeOK'
<1> SUFFICES ASSUME TypeOK, [Next]_vars PROVE TypeOK'
  OBVIOUS
<1>1. CASE UNCHANGED vars
  BY <1>1 DEF vars, keyVars, redisVars, netVars, lockVars, refreshVars, unlockVars, TypeOK,
    RedisTypeOK, NetTypeOK, LockTypeOK, RefreshTypeOK, UnlockTypeOK
<1>2. CASE Next
  BY <1>2, TypeRedis, TypeLock, TypeRefresh, TypeUnlock DEF Next, ClientStep
<1> QED BY <1>1, <1>2

\* Every variable keeps its type, and neither retry loop counts past the limit
\* of its strategy without ending.
THEOREM TypeCorrect == Spec => []TypeOK
BY TypeInit, TypeNext, PTL DEF Spec

-----------------------------------------------------------------------------
(* The inductive invariant behind the safety properties.                   *)

\* What is in the key was ever in it; what is not is absent from every call.
KeyHistory ==
  /\ owner # NoOwner => owner \in acquired
  /\ \A c \in Clients : owner # c => absent[c] = OwnerOps

\* A handle, and the answer that makes one, stands for a key that was set.
HandleIsEarned ==
  \A c \in Clients : lock[c] = "held" \/ call[c]["lock"] = "yes" => c \in acquired

\* Only the holder of a handle refreshes or unlocks.
HoldersAct ==
  \A c \in Clients :
    \/ lock[c] = "held"
    \/ /\ refresh[c] = "off" /\ ~closed[c]
       /\ \A op \in {"refresh", "unlock"} : call[c][op] = "none" /\ late[c][op] = 0

\* An unlock script on its way was sent by Unlock, which closes l.unlock first.
UnlockIsAsked ==
  \A c \in Clients : call[c]["unlock"] # "none" \/ late[c]["unlock"] > 0 => closed[c]

\* A refresh or unlock script that answers no has found the key absent.
NoMeansAbsent ==
  \A c \in Clients : \A op \in OwnerOps : call[c][op] = "no" => op \in absent[c]

\* AutoRefresh has no result before it ends.
ErrorIsFinal ==
  \A c \in Clients : refresh[c] # "ended" => refreshErr[c] = "none"

LeaseInv ==
  TypeOK /\ KeyHistory /\ HandleIsEarned /\ HoldersAct /\ UnlockIsAsked /\ NoMeansAbsent
    /\ ErrorIsFinal /\ LossIsReal

LEMMA LeaseInit == Init => LeaseInv
BY TypeInit DEF Init, LeaseInv, KeyHistory, HandleIsEarned, HoldersAct, UnlockIsAsked,
  NoMeansAbsent, ErrorIsFinal, LossIsReal, Ops, OwnerOps

\* Setting the key keeps its history, and history only grows.
LEMMA SetKeyHistory ==
  ASSUME KeyHistory, RedisTypeOK,
         NEW o \in Clients \union {NoOwner}, NEW t,
         SetKey(o, t)
  PROVE  /\ KeyHistory'
         /\ acquired \subseteq acquired'
         /\ \A c \in Clients : absent[c] \subseteq absent'[c]
         /\ o # NoOwner => o \in acquired'
<1> USE DEF SetKey, RedisTypeOK
<1>1. acquired \subseteq acquired' /\ (o # NoOwner => o \in acquired')
  OBVIOUS
<1>2. \A c \in Clients : absent'[c] = IF c = o THEN absent[c] ELSE OwnerOps
  OBVIOUS
<1>3. \A c \in Clients : absent[c] \subseteq absent'[c]
  BY <1>2
<1>4. owner' # NoOwner => owner' \in acquired'
  BY <1>1
<1>5. \A c \in Clients : owner' # c => absent'[c] = OwnerOps
  BY <1>2
<1> QED BY <1>1, <1>3, <1>4, <1>5 DEF KeyHistory

\* Redis runs a script.
LEMMA LeaseServe ==
  ASSUME LeaseInv, NEW c \in Clients, NEW op \in Ops,
         Serve(c, op) \/ ServeLate(c, op)
  PROVE  LeaseInv'
<1> USE DEF LeaseInv, lockVars, refreshVars, unlockVars
<1>1. TypeOK'
  BY TypeRedis DEF RedisStep
<1>2. SetKey(Script(c, op).owner, Script(c, op).ttl)
  BY DEF Serve, ServeLate, Apply
<1>3. /\ KeyHistory'
      /\ acquired \subseteq acquired'
      /\ \A d \in Clients : absent[d] \subseteq absent'[d]
      /\ Script(c, op).owner # NoOwner => Script(c, op).owner \in acquired'
  BY <1>2, ScriptType, SetKeyHistory DEF TypeOK
<1>a. UNCHANGED <<lock, refresh, refreshErr, unlockRes>>
  BY DEF Serve, ServeLate
<1>b. ASSUME NEW d \in Clients, NEW o \in Ops, ~(Serve(c, op) /\ d = c /\ o = op)
      PROVE  call'[d][o] = call[d][o]
  BY <1>b DEF Serve, ServeLate, TypeOK, NetTypeOK
<1>4. HandleIsEarned'
  <2>1. ASSUME Serve(c, op), op = "lock", call'[c][op] = "yes"
        PROVE  c \in acquired'
    <3>1. Script(c, op).res = "yes"
      BY <2>1 DEF Serve, TypeOK, NetTypeOK
    <3>2. Script(c, op).owner = c
      BY <2>1, <3>1 DEF Script, LockScript, Key
    <3> QED BY <1>3, <3>2, OwnerAssumption
  <2> QED BY <1>3, <1>a, <1>b, <2>1 DEF HandleIsEarned, Ops
<1>5. HoldersAct'
  BY DEF HoldersAct, Serve, ServeLate, TypeOK, NetTypeOK, Ops
<1>6. UnlockIsAsked'
  BY DEF UnlockIsAsked, Serve, ServeLate, TypeOK, NetTypeOK, Ops
<1>7. NoMeansAbsent'
  <2>1. ASSUME Serve(c, op), op \in OwnerOps, call'[c][op] = "no"
        PROVE  op \in absent'[c]
    <3>1. Script(c, op).res = "no"
      BY <2>1 DEF Serve, TypeOK, NetTypeOK
    <3>2. owner # c
      BY <2>1, <3>1 DEF Script, RefreshScript, UnlockScript, Key, OwnerOps
    <3> QED BY <1>3, <2>1, <3>2 DEF KeyHistory
  <2> QED BY <1>3, <1>b, <2>1 DEF NoMeansAbsent, Ops, OwnerOps
<1>8. ErrorIsFinal' /\ LossIsReal'
  BY <1>3, <1>a DEF ErrorIsFinal, LossIsReal
<1> QED BY <1>1, <1>3, <1>4, <1>5, <1>6, <1>7, <1>8

LEMMA LeaseTick == LeaseInv /\ Tick => LeaseInv'
<1> SUFFICES ASSUME LeaseInv, Tick PROVE LeaseInv'
  OBVIOUS
<1> USE DEF LeaseInv, netVars, lockVars, refreshVars, unlockVars
<1>1. TypeOK'
  BY TypeRedis
<1>2. /\ KeyHistory' /\ acquired \subseteq acquired'
      /\ \A c \in Clients : absent[c] \subseteq absent'[c]
  <2> DEFINE o == IF ttl = 1 THEN NoOwner ELSE owner
  <2>1. o \in Clients \union {NoOwner} /\ SetKey(o, ttl - 1)
    BY DEF Tick, TypeOK, RedisTypeOK
  <2> HIDE DEF o
  <2> QED BY <2>1, SetKeyHistory DEF TypeOK
<1>3. HandleIsEarned' /\ NoMeansAbsent' /\ ErrorIsFinal' /\ LossIsReal'
  BY <1>2 DEF HandleIsEarned, NoMeansAbsent, ErrorIsFinal, LossIsReal, Tick
<1>4. HoldersAct' /\ UnlockIsAsked'
  BY DEF HoldersAct, UnlockIsAsked, Tick
<1> QED BY <1>1, <1>2, <1>3, <1>4

\* A client's step that leaves the key alone, keeps a handle, begins a history
\* only of a key that is its own, and neither sends refresh or unlock scripts
\* without a handle nor learns a loss that is not there.
LEMMA LeaseKept ==
  ASSUME LeaseInv, TypeOK', UNCHANGED <<owner, acquired>>,
         NEW c \in Clients,
         \A d \in Clients \ {c} :
           /\ lock'[d] = lock[d] /\ refresh'[d] = refresh[d] /\ closed'[d] = closed[d]
           /\ call'[d] = call[d] /\ late'[d] = late[d] /\ absent'[d] = absent[d]
           /\ refreshErr'[d] = refreshErr[d] /\ unlockRes'[d] = unlockRes[d],
         owner # c => absent'[c] = absent[c],
         lock'[c] = "held" \/ call'[c]["lock"] = "yes" => c \in acquired,
         \/ lock'[c] = "held"
         \/ /\ refresh'[c] = "off" /\ ~closed'[c]
            /\ \A op \in {"refresh", "unlock"} : call'[c][op] = "none" /\ late'[c][op] = 0,
         call'[c]["unlock"] # "none" \/ late'[c]["unlock"] > 0 => closed'[c],
         refresh'[c] # "ended" => refreshErr'[c] = "none",
         call'[c]["refresh"] = "no" \/ refreshErr'[c] = "notHold" => "refresh" \in absent'[c],
         call'[c]["unlock"] = "no" \/ unlockRes'[c] = "notHold" => "unlock" \in absent'[c]
  PROVE  LeaseInv'
<1>1. KeyHistory'
  <2>1. ASSUME NEW d \in Clients, owner' # d PROVE absent'[d] = OwnerOps
    BY <2>1 DEF LeaseInv, KeyHistory
  <2> QED BY <2>1 DEF LeaseInv, KeyHistory
<1>2. HandleIsEarned'
  BY DEF LeaseInv, HandleIsEarned
<1>3. HoldersAct'
  BY DEF LeaseInv, HoldersAct
<1>4. UnlockIsAsked'
  BY DEF LeaseInv, UnlockIsAsked
<1>5. NoMeansAbsent' /\ LossIsReal'
  BY DEF LeaseInv, NoMeansAbsent, LossIsReal, OwnerOps
<1>6. ErrorIsFinal'
  BY DEF LeaseInv, ErrorIsFinal
<1> QED BY <1>1, <1>2, <1>3, <1>4, <1>5, <1>6 DEF LeaseInv

\* What a client's step does to its own part of the network.
LEMMA NetStep ==
  ASSUME NetTypeOK, NEW c \in Clients, NEW op \in Ops, NEW res,
         Send(c, op) \/ Answered(c, op, res) \/ GiveUp(c, op)
  PROVE  /\ \A d \in Clients \ {c} : call'[d] = call[d] /\ late'[d] = late[d]
         /\ \A o \in Ops \ {op} : call'[c][o] = call[c][o] /\ late'[c][o] = late[c][o]
         /\ Send(c, op) => call'[c][op] = "sent" /\ late'[c][op] = late[c][op]
         /\ Answered(c, op, res) => call'[c][op] = "none" /\ late'[c][op] = late[c][op]
         /\ GiveUp(c, op) => /\ call'[c][op] = "none"
                             /\ call[c][op] # "none" \/ late'[c][op] = late[c][op]
<1>1. CASE Send(c, op)
  BY <1>1 DEF Send, Answered, GiveUp, NetTypeOK
<1>2. CASE Answered(c, op, res)
  BY <1>2 DEF Send, Answered, GiveUp, NetTypeOK
<1>3. CASE GiveUp(c, op)
  BY <1>3 DEF Send, Answered, GiveUp, NetTypeOK
<1> QED BY <1>1, <1>2, <1>3

\* The Lock call: it runs before there is a handle, and only the answer yes,
\* which Redis gives when it has set the key, makes one.
LEMMA LeaseLockCall ==
  ASSUME LeaseInv, NEW c \in Clients,
         Lock(c) \/ LockStep(c) \/ CtxDone(c)
  PROVE  LeaseInv'
<1> USE DEF keyVars, redisVars, netVars, lockVars, refreshVars, unlockVars, Ops
<1>1. TypeOK'
  BY TypeLock DEF LeaseInv
<1>2. lock[c] # "held"
  BY DEF Lock, LockStep, CtxDone, CreateLockOk, CreateLockTaken, FirstTimeout,
    CreateLockError, WaitDone, WaitElapsed
<1>3. UNCHANGED <<owner, acquired, absent, refresh, refreshErr, closed, unlockRes>>
  BY DEF Lock, LockStep, CtxDone, CreateLockOk, CreateLockTaken, FirstTimeout,
    CreateLockError, WaitDone, WaitElapsed
<1>4. \/ UNCHANGED netVars
      \/ Send(c, "lock") \/ GiveUp(c, "lock") \/ Answered(c, "lock", "yes")
      \/ Answered(c, "lock", "no")
  BY DEF Lock, LockStep, CtxDone, CreateLockOk, CreateLockTaken, FirstTimeout,
    CreateLockError, WaitDone, WaitElapsed
<1>5. /\ \A d \in Clients \ {c} : call'[d] = call[d] /\ late'[d] = late[d]
      /\ \A o \in Ops \ {"lock"} : call'[c][o] = call[c][o] /\ late'[c][o] = late[c][o]
      /\ call'[c]["lock"] = "yes" => call[c]["lock"] = "yes"
  BY <1>4, NetStep DEF LeaseInv, TypeOK
<1>6. /\ \A d \in Clients \ {c} : lock'[d] = lock[d]
      /\ lock'[c] = "held" => call[c]["lock"] = "yes"
  <2>1. CASE CreateLockOk(c)
    BY <2>1 DEF CreateLockOk, LockHolds, Answered, LeaseInv, TypeOK, LockTypeOK
  <2>2. CASE CreateLockTaken(c) \/ CreateLockError(c)
    BY <1>2, <2>2 DEF CreateLockTaken, CreateLockError, NextAttempt, LockFails, LeaseInv,
      TypeOK, LockTypeOK
  <2>3. CASE Lock(c) \/ FirstTimeout(c) \/ WaitDone(c)
    BY <1>2, <2>3 DEF Lock, FirstTimeout, WaitDone, LockFails, LeaseInv, TypeOK, LockTypeOK
  <2>4. CASE WaitElapsed(c) \/ CtxDone(c)
    BY <1>2, <2>4 DEF WaitElapsed, CtxDone, LeaseInv, TypeOK, LockTypeOK
  <2> QED BY <2>1, <2>2, <2>3, <2>4 DEF LockStep
<1>7. /\ refresh[c] = "off" /\ ~closed[c]
      /\ \A op \in {"refresh", "unlock"} : call[c][op] = "none" /\ late[c][op] = 0
  BY <1>2 DEF LeaseInv, HoldersAct
<1>8. /\ refreshErr'[c] = "notHold" => "refresh" \in absent'[c]
      /\ unlockRes'[c] = "notHold" => "unlock" \in absent'[c]
      /\ refresh'[c] # "ended" => refreshErr'[c] = "none"
  BY <1>3 DEF LeaseInv, LossIsReal, ErrorIsFinal
<1>9. lock'[c] = "held" \/ call'[c]["lock"] = "yes" => c \in acquired
  BY <1>5, <1>6 DEF LeaseInv, HandleIsEarned
<1>10. /\ refresh'[c] = "off" /\ ~closed'[c]
       /\ \A op \in {"refresh", "unlock"} : call'[c][op] = "none" /\ late'[c][op] = 0
  BY <1>3, <1>5, <1>7
<1>11. /\ ~(call'[c]["unlock"] # "none" \/ late'[c]["unlock"] > 0)
       /\ call'[c]["refresh"] # "no" /\ call'[c]["unlock"] # "no"
  BY <1>10
<1> QED BY <1>1, <1>3, <1>5, <1>6, <1>8, <1>9, <1>10, <1>11, LeaseKept

\* The AutoRefresh goroutine.
LEMMA LeaseRefreshCall ==
  ASSUME LeaseInv, NEW c \in Clients,
         AutoRefresh(c) \/ RefreshStep(c) \/ UnlockBranch(c)
  PROVE  LeaseInv'
<1> USE DEF keyVars, redisVars, netVars, lockVars, refreshVars, unlockVars, Ops
<1>1. TypeOK'
  BY TypeRefresh DEF LeaseInv
<1>2. UNCHANGED <<owner, acquired, lock, closed, unlockRes>>
  BY DEF SendAsOwner, AutoRefresh, RefreshStep, UnlockBranch, TickerBranch,
      RetryBranch, RefreshOk,
    RefreshNotHold, RefreshError, TickerTimeout, RetryTimeout, Wake
<1>3. lock[c] = "held"
  <2>1. lock[c] = "held" \/ refresh[c] # "off"
    BY DEF AutoRefresh, RefreshStep, UnlockBranch, TickerBranch, RetryBranch, RefreshOk,
      RefreshNotHold, RefreshError, TickerTimeout, RetryTimeout, Wake
  <2> QED BY <2>1 DEF LeaseInv, HoldersAct
<1>4. \/ UNCHANGED netVars
      \/ Send(c, "refresh") \/ GiveUp(c, "refresh") \/ Answered(c, "refresh", "yes")
      \/ Answered(c, "refresh", "no")
  BY DEF AutoRefresh, RefreshStep, UnlockBranch, TickerBranch, RetryBranch, RefreshOk,
    RefreshNotHold, RefreshError, TickerTimeout, RetryTimeout, Wake, SendAsOwner
<1>5. /\ \A d \in Clients \ {c} : call'[d] = call[d] /\ late'[d] = late[d]
      /\ \A o \in Ops \ {"refresh"} : call'[c][o] = call[c][o] /\ late'[c][o] = late[c][o]
      /\ call'[c]["refresh"] = "no" => call[c]["refresh"] = "no"
  BY <1>4, NetStep DEF LeaseInv, TypeOK
<1>6. /\ \A d \in Clients \ {c} : refresh'[d] = refresh[d] /\ refreshErr'[d] = refreshErr[d]
      /\ refreshErr'[c] = "notHold" => refreshErr[c] = "notHold" \/ call[c]["refresh"] = "no"
      /\ refresh'[c] # "ended" => refreshErr'[c] = "none"
  <2>1. CASE RefreshNotHold(c)
    BY <2>1 DEF RefreshNotHold, RefreshEnds, Answered, LeaseInv, ErrorIsFinal, TypeOK, RefreshTypeOK
  <2>2. CASE AutoRefresh(c) \/ TickerBranch(c) \/ RefreshOk(c) \/ RetryTimeout(c)
    BY <2>2 DEF AutoRefresh, TickerBranch, RefreshOk, RetryTimeout, LeaseInv, ErrorIsFinal, TypeOK,
      RefreshTypeOK
  <2>3. CASE UnlockBranch(c) \/ RefreshError(c)
    BY <2>3 DEF UnlockBranch, RefreshError, RefreshEnds, LeaseInv, ErrorIsFinal,
      TypeOK, RefreshTypeOK
  <2>4. CASE TickerTimeout(c) \/ Wake(c)
    BY <2>4 DEF TickerTimeout, Wake, RaiseSignal, LeaseInv, ErrorIsFinal, TypeOK, RefreshTypeOK
  <2>5. CASE RetryBranch(c)
    BY <2>5 DEF RetryBranch, RefreshEnds, LeaseInv, ErrorIsFinal, TypeOK, RefreshTypeOK
  <2> QED BY <2>1, <2>2, <2>3, <2>4, <2>5 DEF RefreshStep
<1>7. lock'[c] = "held" \/ call'[c]["lock"] = "yes" => c \in acquired
  BY <1>2, <1>5 DEF LeaseInv, HandleIsEarned
<1>8. call'[c]["unlock"] # "none" \/ late'[c]["unlock"] > 0 => closed'[c]
  BY <1>2, <1>5 DEF LeaseInv, UnlockIsAsked
<1>9. /\ \A d \in Clients \ {c} : absent'[d] = absent[d]
      /\ owner # c => absent'[c] = absent[c]
      /\ "unlock" \in absent[c] => "unlock" \in absent'[c]
      /\ \/ absent' = absent
         \/ refreshErr'[c] = "none" /\ call'[c]["refresh"] = "sent"
  <2>1. CASE UNCHANGED absent
    BY <2>1
  <2>2. CASE SendAsOwner(c, "refresh") /\ UNCHANGED refreshErr /\ refresh[c] = "select"
    <3>1. /\ \A d \in Clients \ {c} : absent'[d] = absent[d]
          /\ absent'[c] = IF owner = c THEN absent[c] \ {"refresh"} ELSE absent[c]
      BY <2>2 DEF SendAsOwner, LeaseInv, TypeOK, RedisTypeOK
    <3>2. refreshErr'[c] = "none"
      BY <2>2 DEF LeaseInv, ErrorIsFinal
    <3>3. call'[c]["refresh"] = "sent"
      BY <2>2, NetStep DEF SendAsOwner, LeaseInv, TypeOK
    <3> QED BY <3>1, <3>2, <3>3
  <2> QED
    BY <2>1, <2>2 DEF AutoRefresh, RefreshStep, UnlockBranch, TickerBranch, RetryBranch,
      RefreshOk, RefreshNotHold, RefreshError, TickerTimeout, RetryTimeout, Wake
<1>10. call'[c]["refresh"] = "no" \/ refreshErr'[c] = "notHold" => "refresh" \in absent'[c]
  BY <1>5, <1>6, <1>9 DEF LeaseInv, NoMeansAbsent, LossIsReal, OwnerOps
<1>11. call'[c]["unlock"] = "no" \/ unlockRes'[c] = "notHold" => "unlock" \in absent'[c]
  BY <1>2, <1>5, <1>9 DEF LeaseInv, NoMeansAbsent, LossIsReal, OwnerOps
<1>12. lock'[c] = "held"
  BY <1>2, <1>3
<1>13. UNCHANGED <<owner, acquired>>
  BY <1>2
<1>14. \A d \in Clients \ {c} :
         /\ lock'[d] = lock[d] /\ refresh'[d] = refresh[d] /\ closed'[d] = closed[d]
         /\ call'[d] = call[d] /\ late'[d] = late[d] /\ absent'[d] = absent[d]
         /\ refreshErr'[d] = refreshErr[d] /\ unlockRes'[d] = unlockRes[d]
  BY <1>2, <1>5, <1>6, <1>9
<1> HIDE DEF keyVars, redisVars, netVars, lockVars, refreshVars, unlockVars, Ops
<1> QED BY <1>1, <1>6, <1>7, <1>8, <1>9, <1>10, <1>11, <1>12, <1>13, <1>14, LeaseKept

\* Unlock, and the end of a client's process.
LEMMA LeaseUnlockCall ==
  ASSUME LeaseInv, NEW c \in Clients,
         Unlock(c) \/ UnlockStep(c)
  PROVE  LeaseInv'
<1> USE DEF keyVars, redisVars, netVars, lockVars, refreshVars, unlockVars, Ops
<1>1. TypeOK'
  BY TypeUnlock DEF LeaseInv
<1>2. UNCHANGED <<owner, acquired, lock, refresh, refreshErr>>
  BY DEF SendAsOwner, Unlock, UnlockStep, UnlockAnswered, UnlockError
<1>3. lock[c] = "held"
  <2>1. lock[c] = "held" \/ call[c]["unlock"] # "none"
    BY DEF Unlock, UnlockStep, UnlockAnswered, UnlockError, Answered, GiveUp
  <2> QED BY <2>1 DEF LeaseInv, HoldersAct
<1>4. Send(c, "unlock") \/ GiveUp(c, "unlock") \/ Answered(c, "unlock", "yes")
        \/ Answered(c, "unlock", "no")
  BY DEF Unlock, UnlockStep, UnlockAnswered, UnlockError, SendAsOwner
<1>5. /\ \A d \in Clients \ {c} : call'[d] = call[d] /\ late'[d] = late[d]
      /\ \A o \in Ops \ {"unlock"} : call'[c][o] = call[c][o] /\ late'[c][o] = late[c][o]
      /\ call'[c]["unlock"] # "no"
  BY <1>4, NetStep DEF LeaseInv, TypeOK
<1>6. /\ \A d \in Clients \ {c} : closed'[d] = closed[d] /\ unlockRes'[d] = unlockRes[d]
      /\ closed'[c]
      /\ unlockRes'[c] = "notHold" => ~Unlock(c) /\ call[c]["unlock"] = "no"
  <2>1. CASE Unlock(c)
    BY <2>1 DEF Unlock, LeaseInv, TypeOK, UnlockTypeOK
  <2>2. CASE UnlockStep(c)
    <3>1. call[c]["unlock"] # "none"
      BY <2>2 DEF UnlockStep, UnlockAnswered, UnlockError, Answered, GiveUp
    <3>2. closed[c]
      BY <3>1 DEF LeaseInv, UnlockIsAsked
    <3>3. ~Unlock(c)
      BY <3>1 DEF Unlock
    <3> QED
      BY <2>2, <3>2, <3>3 DEF UnlockStep, UnlockAnswered, UnlockError, Answered, LeaseInv,
        TypeOK, UnlockTypeOK
  <2> QED BY <2>1, <2>2
<1>7. lock'[c] = "held" \/ call'[c]["lock"] = "yes" => c \in acquired
  BY <1>2, <1>5 DEF LeaseInv, HandleIsEarned
<1>8. /\ \A d \in Clients \ {c} : absent'[d] = absent[d]
      /\ owner # c => absent'[c] = absent[c]
      /\ "refresh" \in absent[c] => "refresh" \in absent'[c]
      /\ absent' = absent \/ Unlock(c)
  <2>1. CASE Unlock(c)
    BY <2>1 DEF Unlock, SendAsOwner, LeaseInv, TypeOK, RedisTypeOK
  <2>2. CASE UnlockStep(c)
    BY <2>2 DEF UnlockStep, UnlockAnswered, UnlockError
  <2> QED BY <2>1, <2>2
<1>9. call'[c]["refresh"] = "no" \/ refreshErr'[c] = "notHold" => "refresh" \in absent'[c]
  BY <1>2, <1>5, <1>8 DEF LeaseInv, NoMeansAbsent, LossIsReal, OwnerOps
<1>10. call'[c]["unlock"] = "no" \/ unlockRes'[c] = "notHold" => "unlock" \in absent'[c]
  BY <1>5, <1>6, <1>8 DEF LeaseInv, NoMeansAbsent, OwnerOps
<1>11. lock'[c] = "held" /\ (refresh'[c] # "ended" => refreshErr'[c] = "none")
  BY <1>2, <1>3 DEF LeaseInv, ErrorIsFinal
<1>12. UNCHANGED <<owner, acquired>>
  BY <1>2
<1>13. \A d \in Clients \ {c} :
         /\ lock'[d] = lock[d] /\ refresh'[d] = refresh[d] /\ closed'[d] = closed[d]
         /\ call'[d] = call[d] /\ late'[d] = late[d] /\ absent'[d] = absent[d]
         /\ refreshErr'[d] = refreshErr[d] /\ unlockRes'[d] = unlockRes[d]
  BY <1>2, <1>5, <1>6, <1>8
<1> HIDE DEF keyVars, redisVars, netVars, lockVars, refreshVars, unlockVars, Ops
<1> QED BY <1>1, <1>6, <1>7, <1>8, <1>9, <1>10, <1>11, <1>12, <1>13, LeaseKept

LEMMA LeaseCrash == ASSUME LeaseInv, NEW c \in Clients, Crash(c) PROVE LeaseInv'
<1>1. TypeOK'
  BY TypeUnlock DEF LeaseInv
<1>2. UNCHANGED <<owner, acquired, absent, lock, closed, late>>
  BY DEF Crash, keyVars, redisVars
<1>3. \A d \in Clients \ {c} :
        /\ refresh'[d] = refresh[d] /\ call'[d] = call[d]
        /\ refreshErr'[d] = refreshErr[d] /\ unlockRes'[d] = unlockRes[d]
  BY DEF Crash, LeaseInv, TypeOK, NetTypeOK, RefreshTypeOK, UnlockTypeOK
<1>4. /\ \A o \in Ops : call'[c][o] = IF call[c][o] = "sent" THEN "sent" ELSE "none"
      /\ refresh'[c] = "off" /\ refreshErr'[c] = "none" /\ unlockRes'[c] = "none"
  BY DEF Crash, LeaseInv, TypeOK, NetTypeOK, RefreshTypeOK, UnlockTypeOK
<1>5. lock'[c] = "held" \/ call'[c]["lock"] = "yes" => c \in acquired
  BY <1>2, <1>4 DEF LeaseInv, HandleIsEarned, Ops
<1>6. \/ lock'[c] = "held"
      \/ /\ refresh'[c] = "off" /\ ~closed'[c]
         /\ \A op \in {"refresh", "unlock"} : call'[c][op] = "none" /\ late'[c][op] = 0
  BY <1>2, <1>4 DEF LeaseInv, HoldersAct, Ops
<1>7. call'[c]["unlock"] # "none" \/ late'[c]["unlock"] > 0 => closed'[c]
  BY <1>2, <1>4 DEF LeaseInv, UnlockIsAsked, Ops
<1>8. call'[c]["refresh"] # "no" /\ call'[c]["unlock"] # "no"
  BY <1>4 DEF Ops
<1> QED BY <1>1, <1>2, <1>3, <1>4, <1>5, <1>6, <1>7, <1>8, LeaseKept

LEMMA LeaseNext == LeaseInv /\ [Next]_vars => LeaseInv'
<1> SUFFICES ASSUME LeaseInv, [Next]_vars PROVE LeaseInv'
  OBVIOUS
<1>1. CASE UNCHANGED vars
  <2>1. TypeOK'
    BY TypeNext DEF LeaseInv
  <2> QED
    BY <1>1, <2>1 DEF LeaseInv, KeyHistory, HandleIsEarned, HoldersAct, UnlockIsAsked,
      NoMeansAbsent, ErrorIsFinal, LossIsReal, vars, keyVars, redisVars, netVars, lockVars,
      refreshVars, unlockVars
<1>2. CASE Next
  BY <1>2, LeaseServe, LeaseTick, LeaseLockCall, LeaseRefreshCall, LeaseUnlockCall,
    LeaseCrash DEF Next, ClientStep, RedisStep
<1> QED BY <1>1, <1>2

\* When Refresh or Unlock tells a client that it does not hold the lock, the key
\* was not the client's at some moment of that very call, whatever requests were
\* delayed, lost or answered too late on the way.
THEOREM LossIsAlwaysReal == Spec => []LossIsReal
<1>1. LeaseInv => LossIsReal
  BY DEF LeaseInv
<1> QED BY <1>1, LeaseInit, LeaseNext, PTL DEF Spec

-----------------------------------------------------------------------------
(* RedisLock implements LeaseLock.                                         *)

Handles  == {d \in Clients : lock[d] = "held"}
Released == {d \in Clients : closed[d]}

\* A script takes, renews or frees the lease, or leaves all that LeaseLock sees.
LEMMA ServeRefines ==
  ASSUME LeaseInv, NEW c \in Clients, NEW op \in Ops,
         Serve(c, op) \/ ServeLate(c, op)
  PROVE  [Lease!Next]_(Lease!vars)
<1> USE DEF LeaseInv, TypeOK, lockVars, refreshVars, unlockVars
<1>1. UNCHANGED <<Handles, Released>>
  BY DEF Serve, ServeLate, Handles, Released
<1>2. SetKey(Script(c, op).owner, Script(c, op).ttl)
  BY DEF Serve, ServeLate, Apply
<1>3. CASE Script(c, op).owner = owner /\ Script(c, op).ttl = ttl
  <2>1. UNCHANGED <<owner, ttl, acquired>>
    BY <1>2, <1>3 DEF SetKey, KeyHistory
  <2> QED BY <1>1, <2>1 DEF Lease!vars, Handles, Released
<1>4. CASE owner = NoOwner /\ op = "lock"
  <2>1. Script(c, op).owner = c /\ Script(c, op).ttl \in 1 .. MaxTtl
    BY <1>4, TtlBounds DEF Script, LockScript, Key
  <2>2. owner' = c /\ ttl' \in 1 .. MaxTtl /\ acquired' = acquired \union {c}
    BY <1>2, <2>1, OwnerAssumption DEF SetKey
  <2>3. Lease!Acquire(c)
    BY <1>1, <1>4, <2>2 DEF Lease!Acquire, Handles, Released
  <2> QED BY <2>3 DEF Lease!Next
<1>5. CASE owner = c /\ op \in {"lock", "refresh"}
  <2>1. Script(c, op).owner = c /\ Script(c, op).ttl = MaxTtl
    BY <1>5, OwnerAssumption DEF Script, LockScript, RefreshScript, Key, MaxTtl
  <2>2. UNCHANGED <<owner, acquired>> /\ ttl' \in 1 .. MaxTtl
    BY <1>2, <1>5, <2>1, TtlBounds DEF SetKey, KeyHistory
  <2>3. Lease!Renew(c)
    BY <1>1, <1>5, <2>2 DEF Lease!Renew, Handles, Released
  <2> QED BY <2>3 DEF Lease!Next
<1>6. CASE owner = c /\ op = "unlock"
  <2>1. Script(c, op).owner = NoOwner /\ Script(c, op).ttl = 0
    BY <1>6 DEF Script, UnlockScript, Key
  <2>2. owner' = NoOwner /\ ttl' = 0 /\ UNCHANGED acquired
    BY <1>2, <2>1 DEF SetKey
  <2>3. c \in Released
    BY <1>6, BoundAssumption DEF Serve, ServeLate, UnlockIsAsked, Released, NetTypeOK, Ops
  <2>4. Lease!Free(c)
    BY <1>1, <1>6, <2>2, <2>3 DEF Lease!Free, Handles, Released
  <2> QED BY <2>4 DEF Lease!Next
<1>7. CASE owner # c /\ ~(owner = NoOwner /\ op = "lock")
  BY <1>3, <1>7 DEF Script, LockScript, RefreshScript, UnlockScript, Key, Ops
<1> QED BY <1>4, <1>5, <1>6, <1>7 DEF Ops

LEMMA TickRefines ==
  ASSUME LeaseInv, Tick
  PROVE  [Lease!Next]_(Lease!vars)
<1> USE DEF LeaseInv, TypeOK, RedisTypeOK
<1>1. UNCHANGED <<Handles, Released>> /\ owner # NoOwner
  BY DEF Tick, lockVars, unlockVars, Handles, Released
<1>2. CASE ttl = 1
  <2>1. owner' = NoOwner /\ ttl' = 0 /\ UNCHANGED acquired
    BY <1>2 DEF Tick, SetKey
  <2>2. Lease!Expire
    BY <1>1, <1>2, <2>1 DEF Lease!Expire, Handles, Released
  <2> QED BY <2>2 DEF Lease!Next
<1>3. CASE ttl # 1
  <2>1. UNCHANGED <<owner, acquired>> /\ ttl' = ttl - 1 /\ ttl > 1
    BY <1>3, TtlBounds DEF Tick, SetKey, KeyHistory
  <2>2. Lease!Elapse
    BY <1>1, <2>1 DEF Lease!Elapse, Handles, Released
  <2> QED BY <2>2 DEF Lease!Next
<1> QED BY <1>2, <1>3

\* Lock gives a handle, or nothing that LeaseLock sees.
LEMMA LockCallRefines ==
  ASSUME LeaseInv, NEW c \in Clients,
         Lock(c) \/ LockStep(c) \/ CtxDone(c)
  PROVE  [Lease!Next]_(Lease!vars)
<1> USE DEF LeaseInv, TypeOK, LockTypeOK
<1>1. UNCHANGED <<owner, ttl, acquired, Released>>
  BY DEF Lock, LockStep, CtxDone, CreateLockOk, CreateLockTaken, FirstTimeout,
    CreateLockError, WaitDone, WaitElapsed, keyVars, redisVars, unlockVars, Released
<1>2. CASE CreateLockOk(c)
  <2>1. c \in acquired
    BY <1>2, NetStep DEF CreateLockOk, Answered, HandleIsEarned
  <2>2. Handles' = Handles \union {c}
    BY <1>2 DEF CreateLockOk, LockHolds, Handles
  <2>3. Lease!Give(c)
    BY <1>1, <2>1, <2>2 DEF Lease!Give, Handles, Released
  <2> QED BY <2>3 DEF Lease!Next
<1>3. CASE ~CreateLockOk(c)
  <2>1. UNCHANGED Handles
    <3>1. CASE CreateLockTaken(c) \/ CreateLockError(c)
      BY <3>1 DEF CreateLockTaken, CreateLockError, NextAttempt, LockFails, Handles
    <3>2. CASE Lock(c) \/ FirstTimeout(c) \/ WaitDone(c)
      BY <3>2 DEF Lock, FirstTimeout, WaitDone, LockFails, Handles
    <3>3. CASE WaitElapsed(c) \/ CtxDone(c)
      BY <3>3 DEF WaitElapsed, CtxDone, lockVars, Handles
    <3> QED BY <1>3, <3>1, <3>2, <3>3 DEF LockStep
  <2> QED BY <1>1, <2>1 DEF Lease!vars, Handles, Released
<1> QED BY <1>2, <1>3

\* Unlock asks for the release; all else on the client's side is invisible.
LEMMA HolderRefines ==
  ASSUME LeaseInv, NEW c \in Clients,
         \/ AutoRefresh(c) \/ RefreshStep(c) \/ UnlockBranch(c)
         \/ Unlock(c) \/ UnlockStep(c) \/ Crash(c)
  PROVE  [Lease!Next]_(Lease!vars)
<1> USE DEF LeaseInv, TypeOK, UnlockTypeOK
<1>1. UNCHANGED <<owner, ttl, acquired, Handles>>
  BY DEF AutoRefresh, RefreshStep, UnlockBranch, TickerBranch, RetryBranch, RefreshOk,
    RefreshNotHold, RefreshError, TickerTimeout, RetryTimeout, Wake, Unlock, UnlockStep,
    UnlockAnswered, UnlockError, Crash, SendAsOwner, keyVars, redisVars, lockVars, Handles
<1>2. CASE Unlock(c)
  <2>1. Released' = Released \union {c}
    BY <1>2 DEF Unlock, Released
  <2>2. c \in Handles
    BY <1>2 DEF Unlock, Handles
  <2>3. Lease!AskRelease(c)
    BY <1>1, <2>1, <2>2 DEF Lease!AskRelease, Handles, Released
  <2> QED BY <2>3 DEF Lease!Next
<1>3. CASE ~Unlock(c)
  <2>1. UNCHANGED Released
    BY <1>3 DEF AutoRefresh, RefreshStep, UnlockBranch, TickerBranch, RetryBranch, RefreshOk,
      RefreshNotHold, RefreshError, TickerTimeout, RetryTimeout, Wake, UnlockStep,
      UnlockAnswered, UnlockError, Crash, unlockVars, Released
  <2> QED BY <1>1, <2>1 DEF Lease!vars, Handles, Released
<1> QED BY <1>2, <1>3

\* The lock of the Redis scripts, the Go client and the network between them
\* implements the lease: it passes from one client to the next only through
\* expiry or the owner's Unlock, and only a client that held it gets a handle.
THEOREM Refinement == Spec => ImplementsLease
<1>1. Init => Lease!Init
  BY DEF Init, Lease!Init
<1>2. LeaseInv /\ [Next]_vars => [Lease!Next]_(Lease!vars)
  <2> SUFFICES ASSUME LeaseInv, [Next]_vars PROVE [Lease!Next]_(Lease!vars)
    OBVIOUS
  <2>1. CASE UNCHANGED vars
    BY <2>1 DEF vars, keyVars, redisVars, lockVars, unlockVars, Lease!vars
  <2>2. CASE Next
    BY <2>2, ServeRefines, TickRefines, LockCallRefines, HolderRefines
    DEF Next, ClientStep, RedisStep
  <2> QED BY <2>1, <2>2
<1> QED BY <1>1, <1>2, LeaseInit, LeaseNext, PTL DEF Spec, ImplementsLease, Lease!Spec

-----------------------------------------------------------------------------
(* Who prolongs a lease, and how a lost key comes back.                    *)

\* Only Redis and its clock change the key.
LEMMA KeyChanges ==
  ASSUME Next
  PROVE  \/ Tick
         \/ \E c \in Clients, op \in Ops : Serve(c, op) \/ ServeLate(c, op)
         \/ UNCHANGED keyVars
<1>1. ASSUME NEW c \in Clients, Lock(c) \/ LockStep(c) \/ CtxDone(c) \/ Crash(c)
      PROVE  UNCHANGED keyVars
  BY <1>1 DEF redisVars, Lock, LockStep, CtxDone, Crash, CreateLockOk, CreateLockTaken,
    FirstTimeout, CreateLockError, WaitDone, WaitElapsed
<1>2. ASSUME NEW c \in Clients, AutoRefresh(c) \/ RefreshStep(c) \/ UnlockBranch(c)
      PROVE  UNCHANGED keyVars
  BY <1>2 DEF redisVars, SendAsOwner, AutoRefresh, RefreshStep, UnlockBranch, TickerBranch,
    RetryBranch, RefreshOk,
    RefreshNotHold, RefreshError, TickerTimeout, RetryTimeout, Wake
<1>3. ASSUME NEW c \in Clients, Unlock(c) \/ UnlockStep(c)
      PROVE  UNCHANGED keyVars
  BY <1>3 DEF redisVars, SendAsOwner, Unlock, UnlockStep, UnlockAnswered, UnlockError
<1> QED BY <1>1, <1>2, <1>3 DEF Next, ClientStep, RedisStep

\* Only the owner's own lock and refresh scripts prolong a lease: those of a
\* client that waits for the key leave its expiry alone.
THEOREM OwnerAloneProlongs == Spec => ProlongedByOwnerOnly
<1> DEFINE Kept ==
      \A c \in Clients :
        owner = c /\ owner' = c /\ ttl' > ttl =>
          \E op \in {"lock", "refresh"} :
            \/ call[c][op] = "sent" /\ call'[c][op] = "yes"
            \/ late'[c][op] < late[c][op]
<1>1. ASSUME TypeOK, NEW d \in Clients, NEW op \in Ops,
             Serve(d, op) \/ ServeLate(d, op)
      PROVE  Kept
  <2> SUFFICES ASSUME NEW c \in Clients, owner = c, owner' = c, ttl' > ttl
               PROVE  \E o \in {"lock", "refresh"} :
                        \/ call[c][o] = "sent" /\ call'[c][o] = "yes"
                        \/ late'[c][o] < late[c][o]
    OBVIOUS
  <2> USE DEF TypeOK, RedisTypeOK, NetTypeOK
  <2>1. owner' = Script(d, op).owner /\ ttl' = Script(d, op).ttl
    BY <1>1 DEF Serve, ServeLate, Apply, SetKey
  <2>2. d = c /\ op \in {"lock", "refresh"} /\ Script(d, op).res = "yes"
    <3>1. ttl \in Nat /\ owner # NoOwner
      BY <1>1, OwnerAssumption, TtlBounds
    <3>2. CASE op = "lock"
      BY <2>1, <3>1, <3>2 DEF Script, LockScript, Key
    <3>3. CASE op = "refresh"
      BY <2>1, <3>1, <3>3 DEF Script, RefreshScript, Key
    <3>4. CASE op = "unlock"
      BY <2>1, <3>1, <3>4 DEF Script, UnlockScript, Key
    <3> QED BY <3>2, <3>3, <3>4 DEF Ops
  <2>3. CASE Serve(d, op)
    BY <1>1, <2>2, <2>3 DEF Serve, Ops
  <2>4. CASE ServeLate(d, op)
    <3>1. late'[c][op] = late[c][op] - 1
      BY <1>1, <2>2, <2>4 DEF ServeLate, Ops
    <3>2. late[c][op] \in Nat
      BY <1>1, BoundAssumption
    <3> QED BY <2>2, <3>1, <3>2
  <2> QED BY <1>1, <2>3, <2>4
<1>2. ASSUME TypeOK, Tick PROVE Kept
  BY <1>2, TtlBounds DEF Tick, SetKey, TypeOK, RedisTypeOK
<1>3. ASSUME TypeOK, UNCHANGED keyVars PROVE Kept
  BY <1>3, TtlBounds DEF keyVars, TypeOK, RedisTypeOK
<1>4. TypeOK /\ [Next]_vars => [Kept]_vars
  BY <1>1, <1>2, <1>3, KeyChanges
<1> QED BY <1>4, TypeCorrect, PTL DEF Spec, ProlongedByOwnerOnly

\* A lock script that is waited for belongs to an attempt of a Lock call that
\* has not returned.
AttemptsAreOpen ==
  \A c \in Clients : call[c]["lock"] # "none" => lock[c] \in {"first", "again"}

\* The other calls' requests are none of Lock's.
LEMMA LockRequestKept ==
  ASSUME NetTypeOK, NEW d \in Clients, NEW op \in {"refresh", "unlock"},
         Send(d, op) \/ GiveUp(d, op) \/ Answered(d, op, "yes") \/ Answered(d, op, "no")
  PROVE  \A c \in Clients : call'[c]["lock"] = call[c]["lock"]
<1> SUFFICES ASSUME NEW c \in Clients PROVE call'[c]["lock"] = call[c]["lock"]
  OBVIOUS
<1>1. "lock" \in Ops \ {op} /\ op \in Ops
  BY DEF Ops
<1>2. CASE c = d
  BY <1>1, <1>2, NetStep
<1>3. CASE c # d
  <2>1. call'[c] = call[c]
    BY <1>1, <1>3, NetStep
  <2> QED BY <2>1
<1> QED BY <1>2, <1>3

LEMMA AttemptsInit == Init => AttemptsAreOpen
BY DEF Init, AttemptsAreOpen, Ops

LEMMA AttemptsNext == LeaseInv /\ AttemptsAreOpen /\ [Next]_vars => AttemptsAreOpen'
<1> SUFFICES ASSUME LeaseInv, AttemptsAreOpen, [Next]_vars PROVE AttemptsAreOpen'
  OBVIOUS
<1> USE DEF AttemptsAreOpen, LeaseInv, TypeOK, NetTypeOK, LockTypeOK, Ops
<1>1. CASE UNCHANGED vars
  BY <1>1 DEF vars, netVars, lockVars
<1>2. CASE Tick
  BY <1>2 DEF Tick, netVars, lockVars
<1>3. ASSUME NEW d \in Clients, NEW op \in Ops, Serve(d, op) \/ ServeLate(d, op)
      PROVE  AttemptsAreOpen'
  BY <1>3 DEF Serve, ServeLate, lockVars
<1>4. ASSUME NEW d \in Clients, Lock(d) \/ LockStep(d) \/ CtxDone(d)
      PROVE  AttemptsAreOpen'
  <2>1. CASE Lock(d) \/ WaitElapsed(d)
    BY <2>1 DEF Lock, LockFails, WaitElapsed, Send, netVars
  <2>2. CASE CreateLockOk(d) \/ CreateLockTaken(d)
    BY <2>2 DEF CreateLockOk, CreateLockTaken, Answered, LockHolds, NextAttempt, LockFails
  <2>3. CASE FirstTimeout(d) \/ CreateLockError(d)
    BY <2>3 DEF FirstTimeout, CreateLockError, GiveUp, NextAttempt, LockFails
  <2>4. CASE WaitDone(d) \/ CtxDone(d)
    BY <2>4 DEF WaitDone, CtxDone, LockFails, netVars, lockVars
  <2> QED BY <1>4, <2>1, <2>2, <2>3, <2>4 DEF LockStep
<1>5. ASSUME NEW d \in Clients, AutoRefresh(d) \/ RefreshStep(d) \/ UnlockBranch(d)
      PROVE  AttemptsAreOpen'
  <2>1. UNCHANGED lockVars
    BY <1>5 DEF SendAsOwner, AutoRefresh, RefreshStep, UnlockBranch, TickerBranch,
      RetryBranch, RefreshOk,
      RefreshNotHold, RefreshError, TickerTimeout, RetryTimeout, Wake
  <2>2. \/ UNCHANGED netVars
        \/ Send(d, "refresh") \/ GiveUp(d, "refresh")
        \/ Answered(d, "refresh", "yes") \/ Answered(d, "refresh", "no")
    BY <1>5 DEF SendAsOwner, AutoRefresh, RefreshStep, UnlockBranch, TickerBranch,
      RetryBranch, RefreshOk,
      RefreshNotHold, RefreshError, TickerTimeout, RetryTimeout, Wake
  <2>3. \A c \in Clients : call'[c]["lock"] = call[c]["lock"]
    BY <2>2, LockRequestKept DEF netVars
  <2> QED BY <2>1, <2>3 DEF lockVars
<1>6. ASSUME NEW d \in Clients, Unlock(d) \/ UnlockStep(d)
      PROVE  AttemptsAreOpen'
  <2>1. UNCHANGED lockVars
    BY <1>6 DEF SendAsOwner, Unlock, UnlockStep, UnlockAnswered, UnlockError
  <2>2. \/ Send(d, "unlock") \/ GiveUp(d, "unlock")
        \/ Answered(d, "unlock", "yes") \/ Answered(d, "unlock", "no")
    BY <1>6 DEF SendAsOwner, Unlock, UnlockStep, UnlockAnswered, UnlockError
  <2>3. \A c \in Clients : call'[c]["lock"] = call[c]["lock"]
    BY <2>2, LockRequestKept
  <2> QED BY <2>1, <2>3 DEF lockVars
<1>7. ASSUME NEW d \in Clients, Crash(d) PROVE AttemptsAreOpen'
  BY <1>7 DEF Crash
<1> QED BY <1>1, <1>2, <1>3, <1>4, <1>5, <1>6, <1>7 DEF Next, ClientStep, RedisStep

\* Once Lock has returned, a key that is gone comes back only by a lock script
\* of an attempt that had timed out: neither AutoRefresh nor Unlock revives it.
THEOREM NothingElseRevivesAKey == Spec => KeyReturnsByLateLockOnly
<1> DEFINE Kept ==
      \A c \in Clients :
        lock[c] = "held" /\ owner # c /\ owner' = c => late[c]["lock"] > 0
<1>1. ASSUME AttemptsAreOpen, NEW d \in Clients, NEW op \in Ops,
             Serve(d, op) \/ ServeLate(d, op)
      PROVE  Kept
  <2> SUFFICES ASSUME NEW c \in Clients, lock[c] = "held", owner # c, owner' = c
               PROVE  late[c]["lock"] > 0
    OBVIOUS
  <2>1. owner' = Script(d, op).owner
    BY <1>1 DEF Serve, ServeLate, Apply, SetKey
  <2>2. d = c /\ op = "lock"
    BY <2>1, OwnerAssumption DEF Ops, Script, LockScript, RefreshScript, UnlockScript, Key
  <2> QED BY <1>1, <2>2 DEF Serve, ServeLate, AttemptsAreOpen
<1>2. ASSUME Tick PROVE Kept
  BY <1>2, OwnerAssumption DEF Tick, SetKey
<1>3. ASSUME UNCHANGED keyVars PROVE Kept
  BY <1>3 DEF keyVars
<1>4. AttemptsAreOpen /\ [Next]_vars => [Kept]_vars
  BY <1>1, <1>2, <1>3, KeyChanges
<1> QED
  BY <1>4, LeaseInit, LeaseNext, AttemptsInit, AttemptsNext, PTL
  DEF Spec, KeyReturnsByLateLockOnly
================================================================================
