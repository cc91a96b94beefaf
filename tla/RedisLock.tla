------------------------------- MODULE RedisLock -------------------------------
(***************************************************************************)
(* The Redis lock of cache/homework2.  Each client makes one Lock call     *)
(* with a fresh uuid (so the client stands for its value), may start one   *)
(* AutoRefresh goroutine on the handle it gets and may call Unlock.  Every *)
(* one of the three sends lua scripts with Eval.  Redis runs a script      *)
(* atomically, at any moment after it was sent: also after the caller gave *)
(* up on it, since a context that times out does not recall the request.   *)
(***************************************************************************)
EXTENDS Naturals, FiniteSets

CONSTANTS Clients,      \* the clients; each has one lock value (uuid)
          NoOwner,      \* the key does not exist
          Expiration,   \* ARGV[2] of lock.lua and refresh.lua: expiration.Seconds()
          MsPerSec,     \* PX counts in units MsPerSec times finer than EXPIRE
          MaxRetry,     \* FixIntervalRetry.Max, of Lock's and AutoRefresh's strategy
          MaxUnlocks,   \* bound: calls of Unlock per client
          MaxLate,      \* bound: given-up requests of a client and kind still on their way
          MaxDelayed,   \* bound: clients and kinds that have such requests
          Refreshers,   \* the clients that may start AutoRefresh
          Unlockers,    \* the clients that may call Unlock
          MaxCancels,   \* bound: contexts of Lock calls that are cancelled
          Crashers      \* the clients that may crash

ASSUME OwnerAssumption == NoOwner \notin Clients
ASSUME TimeAssumption ==
  Expiration \in Nat \ {0} /\ MsPerSec \in Nat \ {0}
ASSUME BoundAssumption ==
  MaxRetry \in Nat /\ MaxUnlocks \in Nat /\ MaxLate \in Nat

VARIABLES
  \* Redis
  owner,       \* the value of the key, as the client it belongs to
  ttl,         \* the remaining time of the key, in PX units
  \* the network
  call,        \* call[c][op]: the request c's op waits for, and its answer
  late,        \* late[c][op]: requests c gave up on that may still run
  \* Client.Lock
  lock,        \* where the Lock call is
  lockErr,     \* the error it returned
  lockTries,   \* retry.cnt of its retry strategy
  ctxDone,     \* its context is done
  \* Lock.AutoRefresh
  refresh,     \* where the goroutine is
  refreshErr,  \* the error it returned
  refreshTries,\* retry.cnt of its retry strategy
  signal,      \* the retrySignal channel (capacity 1) is full
  \* Lock.Unlock
  unlockRes,   \* the outcome of the last Unlock call, none while one runs
  unlocks,     \* Unlock calls made
  closed,      \* l.unlock is closed
  \* the environment and history
  crashed,     \* the clients whose process is gone
  acquired,    \* history: the clients whose value was ever in the key
  absent       \* history: absent[c]: the kinds of owner's requests in the last call
               \* of which the key was, at some moment, not c's

keyVars     == <<owner, ttl, acquired>>
redisVars   == <<keyVars, absent>>
lockVars    == <<lock, lockErr, lockTries>>
refreshVars == <<refresh, refreshErr, refreshTries, signal>>
unlockVars  == <<unlockRes, unlocks, closed>>
netVars     == <<call, late>>
vars == <<redisVars, netVars, lockVars, ctxDone, refreshVars, unlockVars, crashed>>

Ops == {"lock", "refresh", "unlock"}
OwnerOps == {"refresh", "unlock"}
MaxTtl == MsPerSec * Expiration

-----------------------------------------------------------------------------
(* Types. *)

RedisTypeOK ==
  /\ owner \in Clients \union {NoOwner}
  /\ ttl \in 0 .. MaxTtl
  /\ (owner = NoOwner) <=> (ttl = 0)
  /\ acquired \in SUBSET Clients
  /\ absent \in [Clients -> SUBSET OwnerOps]

NetTypeOK ==
  /\ call \in [Clients -> [Ops -> {"none", "sent", "yes", "no"}]]
  /\ late \in [Clients -> [Ops -> 0 .. MaxLate]]

LockTypeOK ==
  /\ lock \in [Clients -> {"idle", "first", "wait", "again", "held", "failed"}]
  /\ lockErr \in [Clients -> {"none", "ctx", "timeout", "preempt"}]
  /\ lockTries \in [Clients -> 0 .. MaxRetry + 1]
  /\ \A c \in Clients : lockTries[c] <= MaxRetry \/ lock[c] = "failed"
  /\ ctxDone \in [Clients -> BOOLEAN]

RefreshTypeOK ==
  /\ refresh \in [Clients ->
       {"off", "select", "tick", "retry", "sleep", "blocked", "ended"}]
  /\ refreshErr \in [Clients -> {"none", "notHold", "failed", "error"}]
  /\ refreshTries \in [Clients -> 0 .. MaxRetry + 1]
  /\ \A c \in Clients : refreshTries[c] <= MaxRetry \/ refresh[c] = "ended"
  /\ signal \in [Clients -> BOOLEAN]

UnlockTypeOK ==
  /\ unlockRes \in [Clients -> {"none", "ok", "notHold", "error"}]
  /\ unlocks \in [Clients -> 0 .. MaxUnlocks]
  /\ closed \in [Clients -> BOOLEAN]
  /\ crashed \in SUBSET Clients

TypeOK ==
  RedisTypeOK /\ NetTypeOK /\ LockTypeOK /\ RefreshTypeOK /\ UnlockTypeOK

Init ==
  /\ owner = NoOwner
  /\ ttl = 0
  /\ call = [c \in Clients |-> [op \in Ops |-> "none"]]
  /\ late = [c \in Clients |-> [op \in Ops |-> 0]]
  /\ lock = [c \in Clients |-> "idle"]
  /\ lockErr = [c \in Clients |-> "none"]
  /\ lockTries = [c \in Clients |-> 0]
  /\ ctxDone = [c \in Clients |-> FALSE]
  /\ refresh = [c \in Clients |-> "off"]
  /\ refreshErr = [c \in Clients |-> "none"]
  /\ refreshTries = [c \in Clients |-> 0]
  /\ signal = [c \in Clients |-> FALSE]
  /\ unlockRes = [c \in Clients |-> "none"]
  /\ unlocks = [c \in Clients |-> 0]
  /\ closed = [c \in Clients |-> FALSE]
  /\ crashed = {}
  /\ acquired = {}
  /\ absent = [c \in Clients |-> OwnerOps]

-----------------------------------------------------------------------------
(* Redis: the three scripts, and time.  A script maps the key to what it   *)
(* leaves in it and what it answers.                                       *)

Key(o, t, res) == [owner |-> o, ttl |-> t, res |-> res]

\* Mutant: SET without an expiry.
LockScriptForEver(c) ==
  IF owner = NoOwner THEN Key(c, 0, "yes")
  ELSE IF owner = c  THEN Key(c, MsPerSec * Expiration, "yes")
  ELSE Key(owner, ttl, "no")

\* A missing key is SET with PX (the fine unit), one of c's own is given
\* EXPIRE (the coarse unit), another client's is left alone.
LockScript(c) ==
  IF owner = NoOwner THEN Key(c, Expiration, "yes")
  ELSE IF owner = c  THEN Key(c, MsPerSec * Expiration, "yes")
  ELSE Key(owner, ttl, "no")

\* Mutants: the value of the key is not compared; a missing key is SET again.
RefreshScriptAny(c) ==
  IF owner # NoOwner THEN Key(owner, MsPerSec * Expiration, "yes") ELSE Key(owner, ttl, "no")

RefreshScriptSets(c) ==
  IF owner \in {c, NoOwner} THEN Key(c, MsPerSec * Expiration, "yes") ELSE Key(owner, ttl, "no")

RefreshScript(c) ==
  IF owner = c THEN Key(c, MsPerSec * Expiration, "yes") ELSE Key(owner, ttl, "no")

\* Mutant: DEL comes before the comparison.
UnlockScriptBlind(c) == Key(NoOwner, 0, IF owner = c THEN "yes" ELSE "no")

UnlockScript(c) ==
  IF owner = c THEN Key(NoOwner, 0, "yes") ELSE Key(owner, ttl, "no")

Script(c, op) ==
  CASE op = "lock"    -> LockScript(c)
    [] op = "refresh" -> RefreshScript(c)
    [] op = "unlock"  -> UnlockScript(c)

SetKey(o, t) ==
  /\ owner' = o
  /\ ttl' = t
  /\ acquired' = acquired \union ({o} \ {NoOwner})
  /\ absent' = [c \in Clients |-> IF c = o THEN absent[c] ELSE OwnerOps]

Apply(k) == SetKey(k.owner, k.ttl)

\* Redis runs the script its caller waits for, and answers.
Serve(c, op) ==
  /\ call[c][op] = "sent"
  /\ Apply(Script(c, op))
  /\ call' = [call EXCEPT ![c][op] = Script(c, op).res]
  /\ UNCHANGED <<late, lockVars, ctxDone, refreshVars, unlockVars, crashed>>

\* Redis runs a script its caller no longer waits for.
ServeLate(c, op) ==
  /\ late[c][op] > 0
  /\ Apply(Script(c, op))
  /\ late' = [late EXCEPT ![c][op] = @ - 1]
  /\ UNCHANGED <<call, lockVars, ctxDone, refreshVars, unlockVars, crashed>>

\* One PX unit goes by; the key expires with the last one.
Tick ==
  /\ ttl > 0
  /\ SetKey(IF ttl = 1 THEN NoOwner ELSE owner, ttl - 1)
  /\ UNCHANGED <<netVars, lockVars, ctxDone, refreshVars, unlockVars, crashed>>

-----------------------------------------------------------------------------
(* The network, from the side of a caller of Eval.                         *)

Up(c) == c \notin crashed

Send(c, op) ==
  /\ call' = [call EXCEPT ![c][op] = "sent"]
  /\ UNCHANGED late

\* A call of c that asks for the key to be c's: its history begins with the key
\* as it is.
SendAsOwner(c, op) ==
  /\ Send(c, op)
  /\ absent' = [absent EXCEPT ![c] = IF owner = c THEN @ \ {op} ELSE @]
  /\ UNCHANGED keyVars

Answered(c, op, res) ==
  /\ call[c][op] = res
  /\ call' = [call EXCEPT ![c][op] = "none"]
  /\ UNCHANGED late

Delayed == {r \in Clients \X Ops : late[r[1]][r[2]] > 0}

\* Eval returns an error: the request was lost, or ran and its answer was
\* lost, or is still on its way.
GiveUp(c, op) ==
  /\ call[c][op] # "none"
  /\ call' = [call EXCEPT ![c][op] = "none"]
  /\ \/ UNCHANGED late
     \/ /\ call[c][op] = "sent"
        /\ late[c][op] < MaxLate
        /\ late[c][op] > 0 \/ Cardinality(Delayed) < MaxDelayed
        /\ late' = [late EXCEPT ![c][op] = @ + 1]

-----------------------------------------------------------------------------
(* Client.Lock and createLock.                                             *)

LockFails(c, err) ==
  /\ lock' = [lock EXCEPT ![c] = "failed"]
  /\ lockErr' = [lockErr EXCEPT ![c] = err]

\* createLock returns a Lock.
LockHolds(c) ==
  /\ lock' = [lock EXCEPT ![c] = "held"]
  /\ UNCHANGED <<lockErr, lockTries>>

\* Mutant: the attempts are not counted.
NextAttemptUncounted(c) ==
  /\ lock' = [lock EXCEPT ![c] = "wait"]
  /\ UNCHANGED <<lockErr, lockTries>>

\* The top of the loop: retry.Next decides between one more wait and giving up.
NextAttempt(c) ==
  /\ lockTries' = [lockTries EXCEPT ![c] = @ + 1]
  /\ IF lockTries[c] + 1 > MaxRetry
       THEN LockFails(c, "preempt")
       ELSE /\ lock' = [lock EXCEPT ![c] = "wait"]
            /\ UNCHANGED lockErr

Lock(c) ==
  /\ Up(c)
  /\ lock[c] = "idle"
  /\ IF ctxDone[c]
       THEN LockFails(c, "ctx") /\ UNCHANGED netVars
       ELSE /\ lock' = [lock EXCEPT ![c] = "first"]
            /\ Send(c, "lock")
            /\ UNCHANGED lockErr
  /\ UNCHANGED <<redisVars, lockTries, ctxDone, refreshVars, unlockVars, crashed>>

CreateLockOk(c) ==
  /\ Up(c)
  /\ lock[c] \in {"first", "again"}
  /\ Answered(c, "lock", "yes")
  /\ LockHolds(c)
  /\ UNCHANGED <<redisVars, ctxDone, refreshVars, unlockVars, crashed>>

\* The key is another client's: createLock returns neither a Lock nor an error.
CreateLockTaken(c) ==
  /\ Up(c)
  /\ lock[c] \in {"first", "again"}
  /\ Answered(c, "lock", "no")
  /\ NextAttempt(c)
  /\ UNCHANGED <<redisVars, ctxDone, refreshVars, unlockVars, crashed>>

\* A timeout of the first attempt ends the call.
FirstTimeout(c) ==
  /\ Up(c)
  /\ lock[c] = "first"
  /\ GiveUp(c, "lock")
  /\ LockFails(c, "timeout")
  /\ UNCHANGED <<redisVars, lockTries, ctxDone, refreshVars, unlockVars, crashed>>

\* Another error of the first attempt, or any error of a later one, is retried.
CreateLockError(c) ==
  /\ Up(c)
  /\ lock[c] \in {"first", "again"}
  /\ GiveUp(c, "lock")
  /\ NextAttempt(c)
  /\ UNCHANGED <<redisVars, ctxDone, refreshVars, unlockVars, crashed>>

WaitDone(c) ==
  /\ Up(c)
  /\ lock[c] = "wait"
  /\ ctxDone[c]
  /\ LockFails(c, "ctx")
  /\ UNCHANGED <<redisVars, netVars, lockTries, ctxDone, refreshVars, unlockVars, crashed>>

WaitElapsed(c) ==
  /\ Up(c)
  /\ lock[c] = "wait"
  /\ lock' = [lock EXCEPT ![c] = "again"]
  /\ Send(c, "lock")
  /\ UNCHANGED <<redisVars, lockErr, lockTries, ctxDone, refreshVars, unlockVars, crashed>>

-----------------------------------------------------------------------------
(* Lock.AutoRefresh and Lock.Refresh.                                      *)

RefreshEnds(c, err) ==
  /\ refresh' = [refresh EXCEPT ![c] = "ended"]
  /\ refreshErr' = [refreshErr EXCEPT ![c] = err]

\* retrySignal <- struct{}{}: the goroutine that sends is the only receiver,
\* so on a full channel it waits for ever.
RaiseSignal(c) ==
  /\ signal' = [signal EXCEPT ![c] = TRUE]
  /\ refresh' = [refresh EXCEPT ![c] = IF signal[c] THEN "blocked" ELSE "select"]
  /\ UNCHANGED <<refreshErr, refreshTries>>

AutoRefresh(c) ==
  /\ Up(c)
  /\ c \in Refreshers
  /\ lock[c] = "held"
  /\ refresh[c] = "off"
  /\ refresh' = [refresh EXCEPT ![c] = "select"]
  /\ UNCHANGED <<redisVars, netVars, lockVars, ctxDone, refreshErr, refreshTries,
                 signal, unlockVars, crashed>>

\* case <-ticker.C
TickerBranch(c) ==
  /\ Up(c)
  /\ refresh[c] = "select"
  /\ refresh' = [refresh EXCEPT ![c] = "tick"]
  /\ SendAsOwner(c, "refresh")
  /\ UNCHANGED <<lockVars, ctxDone, refreshErr, refreshTries, signal,
                 unlockVars, crashed>>

\* case <-retrySignal
RetryBranch(c) ==
  /\ Up(c)
  /\ refresh[c] = "select"
  /\ signal[c]
  /\ signal' = [signal EXCEPT ![c] = FALSE]
  /\ refreshTries' = [refreshTries EXCEPT ![c] = @ + 1]
  /\ IF refreshTries[c] + 1 > MaxRetry
       THEN RefreshEnds(c, "failed") /\ UNCHANGED <<redisVars, netVars>>
       ELSE /\ refresh' = [refresh EXCEPT ![c] = "retry"]
            /\ SendAsOwner(c, "refresh")
            /\ UNCHANGED refreshErr
  /\ UNCHANGED <<lockVars, ctxDone, unlockVars, crashed>>

\* case <-l.unlock
UnlockBranch(c) ==
  /\ Up(c)
  /\ refresh[c] = "select"
  /\ closed[c]
  /\ RefreshEnds(c, "none")
  /\ UNCHANGED <<redisVars, netVars, lockVars, ctxDone, refreshTries, signal,
                 unlockVars, crashed>>

RefreshOk(c) ==
  /\ Up(c)
  /\ refresh[c] \in {"tick", "retry"}
  /\ Answered(c, "refresh", "yes")
  /\ refresh' = [refresh EXCEPT ![c] = "select"]
  /\ UNCHANGED <<redisVars, lockVars, ctxDone, refreshErr, refreshTries, signal,
                 unlockVars, crashed>>

RefreshNotHold(c) ==
  /\ Up(c)
  /\ refresh[c] \in {"tick", "retry"}
  /\ Answered(c, "refresh", "no")
  /\ RefreshEnds(c, "notHold")
  /\ UNCHANGED <<redisVars, lockVars, ctxDone, refreshTries, signal, unlockVars, crashed>>

\* Mutant: every failure of Refresh is reported as a lost lock.
RefreshErrorAsLoss(c) ==
  /\ Up(c)
  /\ refresh[c] \in {"tick", "retry"}
  /\ GiveUp(c, "refresh")
  /\ RefreshEnds(c, "notHold")
  /\ UNCHANGED <<redisVars, lockVars, ctxDone, refreshTries, signal, unlockVars, crashed>>

RefreshError(c) ==
  /\ Up(c)
  /\ refresh[c] \in {"tick", "retry"}
  /\ GiveUp(c, "refresh")
  /\ RefreshEnds(c, "error")
  /\ UNCHANGED <<redisVars, lockVars, ctxDone, refreshTries, signal, unlockVars, crashed>>

\* A deadline in the ticker branch signals at once, one in the retry branch
\* after the retry interval.
TickerTimeout(c) ==
  /\ Up(c)
  /\ refresh[c] = "tick"
  /\ GiveUp(c, "refresh")
  /\ RaiseSignal(c)
  /\ UNCHANGED <<redisVars, lockVars, ctxDone, unlockVars, crashed>>

RetryTimeout(c) ==
  /\ Up(c)
  /\ refresh[c] = "retry"
  /\ GiveUp(c, "refresh")
  /\ refresh' = [refresh EXCEPT ![c] = "sleep"]
  /\ UNCHANGED <<redisVars, lockVars, ctxDone, refreshErr, refreshTries, signal,
                 unlockVars, crashed>>

Wake(c) ==
  /\ Up(c)
  /\ refresh[c] = "sleep"
  /\ RaiseSignal(c)
  /\ UNCHANGED <<redisVars, netVars, lockVars, ctxDone, unlockVars, crashed>>

-----------------------------------------------------------------------------
(* Lock.Unlock, and the environment.                                       *)

\* Mutant: l.unlock is not closed.
UnlockSilent(c) ==
  /\ Up(c)
  /\ c \in Unlockers
  /\ lock[c] = "held"
  /\ call[c]["unlock"] = "none"
  /\ unlocks[c] < MaxUnlocks
  /\ unlocks' = [unlocks EXCEPT ![c] = @ + 1]
  /\ unlockRes' = [unlockRes EXCEPT ![c] = "none"]
  /\ SendAsOwner(c, "unlock")
  /\ UNCHANGED <<lockVars, ctxDone, refreshVars, closed, crashed>>

Unlock(c) ==
  /\ Up(c)
  /\ c \in Unlockers
  /\ lock[c] = "held"
  /\ call[c]["unlock"] = "none"
  /\ unlocks[c] < MaxUnlocks
  /\ unlocks' = [unlocks EXCEPT ![c] = @ + 1]
  /\ closed' = [closed EXCEPT ![c] = TRUE]
  /\ unlockRes' = [unlockRes EXCEPT ![c] = "none"]
  /\ SendAsOwner(c, "unlock")
  /\ UNCHANGED <<lockVars, ctxDone, refreshVars, crashed>>

UnlockAnswered(c) ==
  /\ Up(c)
  /\ \/ Answered(c, "unlock", "yes") /\ unlockRes' = [unlockRes EXCEPT ![c] = "ok"]
     \/ Answered(c, "unlock", "no") /\ unlockRes' = [unlockRes EXCEPT ![c] = "notHold"]
  /\ UNCHANGED <<redisVars, lockVars, ctxDone, refreshVars, unlocks, closed, crashed>>

UnlockError(c) ==
  /\ Up(c)
  /\ GiveUp(c, "unlock")
  /\ unlockRes' = [unlockRes EXCEPT ![c] = "error"]
  /\ UNCHANGED <<redisVars, lockVars, ctxDone, refreshVars, unlocks, closed, crashed>>

\* The context given to Lock is cancelled or its deadline passes.
CtxDone(c) ==
  /\ Up(c)
  /\ lock[c] \notin {"held", "failed"}
  /\ ~ctxDone[c]
  /\ Cardinality({d \in Clients : ctxDone[d]}) < MaxCancels
  /\ ctxDone' = [ctxDone EXCEPT ![c] = TRUE]
  /\ UNCHANGED <<redisVars, netVars, lockVars, refreshVars, unlockVars, crashed>>

\* The process of c ends: its goroutines and their variables are gone (lock
\* and closed stay, as the record of what c was given and asked for), what it
\* sent is still on its way.
Crash(c) ==
  /\ Up(c)
  /\ c \in Crashers
  /\ crashed' = crashed \union {c}
  /\ call' = [call EXCEPT ![c] = [op \in Ops |->
                IF call[c][op] = "sent" THEN "sent" ELSE "none"]]
  /\ lockErr' = [lockErr EXCEPT ![c] = "none"]
  /\ lockTries' = [lockTries EXCEPT ![c] = 0]
  /\ ctxDone' = [ctxDone EXCEPT ![c] = FALSE]
  /\ refresh' = [refresh EXCEPT ![c] = "off"]
  /\ refreshErr' = [refreshErr EXCEPT ![c] = "none"]
  /\ refreshTries' = [refreshTries EXCEPT ![c] = 0]
  /\ signal' = [signal EXCEPT ![c] = FALSE]
  /\ unlockRes' = [unlockRes EXCEPT ![c] = "none"]
  /\ UNCHANGED <<redisVars, late, lock, unlocks, closed>>

-----------------------------------------------------------------------------
(* The specification.                                                      *)

LockStep(c) ==
  CreateLockOk(c) \/ CreateLockTaken(c) \/ FirstTimeout(c) \/ CreateLockError(c)
    \/ WaitDone(c) \/ WaitElapsed(c)

RefreshStep(c) ==
  TickerBranch(c) \/ RetryBranch(c) \/ RefreshOk(c) \/ RefreshNotHold(c)
    \/ RefreshError(c) \/ TickerTimeout(c) \/ RetryTimeout(c) \/ Wake(c)

UnlockStep(c) == UnlockAnswered(c) \/ UnlockError(c)

ClientStep(c) ==
  \/ Lock(c) \/ LockStep(c)
  \/ AutoRefresh(c) \/ RefreshStep(c) \/ UnlockBranch(c)
  \/ Unlock(c) \/ UnlockStep(c)
  \/ CtxDone(c) \/ Crash(c)

RedisStep(c) == \E op \in Ops : Serve(c, op) \/ ServeLate(c, op)

Next ==
  \/ \E c \in Clients : ClientStep(c) \/ RedisStep(c)
  \/ Tick

Spec == Init /\ [][Next]_vars

\* Started calls go on: contexts and Redis both end the wait for an answer, and
\* a select with a ready case takes one (the steps of Lock and of AutoRefresh
\* exclude each other, so one condition serves both).  A case that is ready
\* again and again is taken at last, since select draws among the ready ones
\* (SF).  Redis runs what reaches it, and its clock does not stop.
Fairness ==
  /\ \A c \in Clients : WF_vars(LockStep(c) \/ RefreshStep(c)) /\ WF_vars(RedisStep(c))
  /\ \A c \in Refreshers : SF_vars(UnlockBranch(c))
  /\ WF_vars(Tick)

FairSpec == Spec /\ Fairness

-----------------------------------------------------------------------------
(* Correctness.                                                            *)

\* The lock implements the lease that LeaseLock promises: the key passes from
\* one client to another only through expiry or the owner's own Unlock, and
\* Lock returns a handle only to a client whose value was in the key, whatever
\* requests are delayed, lost or answered too late.
Lease == INSTANCE LeaseLock WITH
  MaxLease <- MaxTtl,
  left     <- ttl,
  handles  <- {c \in Clients : lock[c] = "held"},
  released <- {c \in Clients : closed[c]}

ImplementsLease == Lease!Spec

\* ErrLockNotHold is never a false alarm, nor news from an earlier attempt or
\* call: when AutoRefresh or Unlock tells a client so, the key was not the
\* client's at some moment of the very call of Refresh or Unlock that failed.
LossIsReal ==
  \A c \in Clients :
    /\ refreshErr[c] = "notHold" => "refresh" \in absent[c]
    /\ unlockRes[c] = "notHold" => "unlock" \in absent[c]

\* Only the owner's own lock and refresh scripts prolong a lease: the scripts
\* of the clients that wait for the key leave its expiry alone.
ProlongedByOwnerOnly ==
  [][\A c \in Clients :
       owner = c /\ owner' = c /\ ttl' > ttl =>
         \E op \in {"lock", "refresh"} :
           \/ call[c][op] = "sent" /\ call'[c][op] = "yes"
           \/ late'[c][op] < late[c][op]]_vars

\* Once Lock has returned, the client's key, when it is gone (expired or
\* unlocked), comes back only if a lock script of an attempt that had timed out
\* is still on its way: neither AutoRefresh nor Unlock can bring it back.
KeyReturnsByLateLockOnly ==
  [][\A c \in Clients :
       lock[c] = "held" /\ owner # c /\ owner' = c => late[c]["lock"] > 0]_vars

\* Lock always returns: the retry strategy ends its loop, however the attempts
\* fail.
LockReturns ==
  \A c \in Clients :
    lock[c] \in {"first", "wait", "again"} ~> lock[c] \in {"held", "failed"} \/ ~Up(c)

\* Nobody works for c's lock any more: its process crashed, Lock failed, or
\* AutoRefresh returned or hangs.
Inactive(c) ==
  \/ ~Up(c)
  \/ lock[c] = "failed"
  \/ lock[c] = "held" /\ refresh[c] \in {"ended", "blocked"}

\* A lock whose client does nothing for it any more, however it stopped, is
\* free of that client from some time on, late scripts included.
InactiveLeaseEnds ==
  \A c \in Clients : Inactive(c) ~> [](owner # c)

\* Unlock ends AutoRefresh, even if the unlock script never reaches Redis,
\* unless the goroutine hangs on its own full retrySignal channel.
UnlockEndsAutoRefresh ==
  \A c \in Clients :
    unlocks[c] > 0 /\ refresh[c] # "off" ~> refresh[c] \in {"ended", "blocked"} \/ ~Up(c)

\* The comment in Lock's loop: an attempt that timed out is tried again.  So a
\* timeout is Lock's result only if the caller's own context is over.
TimeoutIsRetried ==
  \A c \in Clients : lockErr[c] = "timeout" => ctxDone[c]
================================================================================
