# A verification project for go-study

The repository is a collection of Go components written along a course: a
distributed lock on Redis, service discovery on etcd for gRPC, load balancers,
an RPC framework, a web server, an ORM, graceful shutdown, an LRU cache. This
directory holds TLA+ modules that model its components, the TLC runs that check
them on small instances and TLAPS proofs for every size. `PROJECT.json` lists the
components, the runs, the mutants, the source lines behind each definition, the
findings and the hazards.

## 1. Inventory

| component | state it keeps | operations | what is hard |
| --- | --- | --- | --- |
| Redis lock, `src/cache/homework2` | the key and its expiry in Redis; `Lock.unlock`, `retrySignal`, the counter of the retry strategy | `Lock`, `createLock`, `AutoRefresh`, `Refresh`, `Unlock`, `lock.lua`, `refresh.lua`, `unlock.lua` | scripts that run after their caller gave up; expiry against refresh; crash of a holder; a channel whose only receiver sends on it |
| registry and server, `src/rpc/homework2/registry`, `server.go` | keys and leases in etcd; the session; the list of watches | `Register`, `Unregister`, `ListService`, `Subscribe`, `Close`, `Server.Start`, `Server.Close` | restart at the same address under a new lease; a `Put` that outlives its timeout; a watch that etcd cancels |
| resolver, `src/rpc/homework2/grpc_resolver.go` | the addresses gRPC was given; the `close` channel | `Build`, `ResolveNow`, `watch`, `resolve`, `Close` | three goroutines run `resolve` at once; `Close` waits for a busy goroutine |
| pickers, `src/rpc/homework2/loadbalance` | weights, counters and response times per connection | `Pick`, `Build`, `Done`, `updateRespTime`, the group filter | unsigned arithmetic, a counter shared by filters, copies of structs, updates without a lock |
| RPC framework, `src/rpc/homework1` | the connection pool, the connections, the server's services | `Invoke`, `doInvoke`, `InitService`, `handleConn`, `ReadMsg`, `EncodeReq` ... | connections never returned; one-way calls; two responses to one request; short reads; a layout with separators in it |
| graceful shutdown, `src/advanced/graceful_shutdown` | the reject flags, the requests in flight | `StartAndServe`, `shutdown` and its steps, `ServeHTTP` | two signals, a timeout and the steps in order |
| routers, `src/web/homework1`, `homework2` | the route trees | `addRoute`, `UseV1`, `findRoute`, `findMdls` | one registration meets the nodes of another, or those of a call that panicked half way |
| web server and middlewares, `src/web/homework2` | the response that the context keeps | `ServeHTTP`, `serve`, five middlewares, `flashResp` | panics, in any layer; a goroutine that reports what the layers further out still change |
| ORM builders, `src/orm/homework1`, `2`, `3` | text and arguments | `Build` of SELECT, INSERT with its upsert, UPDATE; expressions, joins, subqueries | nested expressions and subqueries; a second `Build`; a selector that is used twice |
| ORM sessions, `src/orm/homework3` | the pool, transactions, open rows | `DoTx`, `BeginTx`, `Commit`, `Rollback`, `RollbackIfNotCommit`, `Get`, `Exec` | error, panic, ended context and lost answer at every step; rows that nobody closes |
| ORM model registry, `src/orm/homework3/model` | a `sync.Map` of models | `Get`, `Register` and its options, `SetColumns` | two steps without a lock |
| LRU cache, `src/cache/homework1` | a list and a map | `Set`, `Get`, `Delete` | the list's constructor dereferences nil (`lru.go:16-19`), so no cache ever exists |
| insert exercise and generator, `src/advanced/homework`, `src/advanced/template` | none | pure functions over structs and syntax trees | - |

Interactions: a server registers in etcd and a resolver, in another process,
watches etcd and hands gRPC the list from which a picker chooses. The lock's
clients share nothing but Redis. The other components stand alone.

What makes them correct:

* lock: the key passes from one client to another only through expiry or the
  owner's `Unlock`; only its owner prolongs it; who is told that it does not hold the
  lock did not, at some moment of the call that tells so; every call returns; a lock nobody works for becomes free.
* registry and resolver: a serving server is listed whatever became of the leases of its
  earlier processes, unless a request they had sent overtakes its own; watched changes reach gRPC; `Close` returns and is final.
* pickers: calls are shared in proportion to the weights, evenly over time, and in turns.
* RPC: the service runs at most once for a call, the value told is that of this run; a call ends with its context or answer.
* shutdown: no new request after the flag, the steps in order, the process ends.
* routers: a handler runs only for what its path covers, in whatever order routes were
  registered; a route once registered stays; web server: logs, spans and metrics tell what the client got, and pages go out with their status.
* ORM: what is built reads as the query means; a transaction ends, once, and whoever is told that it
  committed is told the truth; options given to a model are not lost, but by an overlap.

The hazards of all of them, modelled or not, are under "hazards" in `PROJECT.json`.

## 2. Modules and how they correspond to the code

### LeaseLock

What a lock with a lease promises, with no scripts and no network: an owner, the
time left, the clients that ever acquired it, those that have a handle and those
that asked to release it. `Acquire` needs a free lock, `Free` is preceded by the
owner's `AskRelease`, `Expire` by `left` running out, `Give` hands a handle only to a client
that has acquired.

### RedisLock

One client makes one `Lock` call, may start one `AutoRefresh` and may call
`Unlock` (again, up to a bound). As each `Lock` call has its own uuid, the client
stands for the value in the key.

* `owner`, `ttl`: the key. `LockScript`, `RefreshScript`, `UnlockScript` are the
  lua scripts as functions of the key; a script runs atomically in Redis.
  `ttl` is counted in the finer of the two units that the scripts use: `PX` sets
  `Expiration` of them and `EXPIRE` `MsPerSec * Expiration`, because both are given
  the same number.
* `call[c][op]` and `late[c][op]`: a request that is waited for and those that its
  caller gave up on. `Eval` returns an answer (`Answered`) or an error (`GiveUp`);
  after an error the request may have run, may be lost, or may still run later
  (`ServeLate`), since a context that is done does not recall what was sent.
* `lock`, `lockErr`, `lockTries`: the program counter, result and retry counter of
  `Lock`. `Lock` is lines 36-42 up to the first `Eval`; `FirstTimeout` is the early
  return of line 42; `NextAttempt` is the top of the loop; `WaitDone` and
  `WaitElapsed` are the cases of the select.
* `refresh`, `refreshErr`, `refreshTries`, `signal`: `AutoRefresh`. `TickerBranch`,
  `RetryBranch` and `UnlockBranch` are the cases of its select; `RaiseSignal` is a send
  on `retrySignal` (capacity one): with a signal pending it blocks, and as the
  goroutine is the only receiver it stays `blocked`.
* `closed`, `unlocks`, `unlockRes`: `Unlock`. The close of `l.unlock` and the sending of
  the script are one step, since nothing that another process sees lies between.
* `CtxDone` and `Crash` are the environment. A crash forgets the process's
  variables and leaves what it sent on its way.
* `acquired` and `absent` are history, read by properties only. `absent[c]` says of the latest
  call of `Refresh` and of `Unlock` of a client whether the key was not the client's when it began, or at any moment since:
  `SendAsOwner` begins it, every change of the key (`SetKey`) goes on with it. What was lost before the call
  does not count, which is what makes `LossIsReal` refuse a "not held" that is old news.

`FixIntervalRetry` spells its method `next`, so it does not implement
`RetryStrategy` as it stands; its counting is what the model uses for `Next`.

### EtcdRegistry and Discovery

`EtcdRegistry` models the servers, etcd and the goroutine of `Subscribe`. A server
process is a number; `key[i]` is the process whose lease instance `i`'s key hangs
on, so a restart at the same address is visible. What a process has sent to etcd stays on its way (`onWay`, `deletes`),
by the process's number, whatever becomes of the process: `EtcdPut` and `EtcdDelete` may run while `Register` or `Unregister`
waits, after it gave up, or after the process has ended (`Exit`) and another one serves at its address. `leases` are those that etcd
still has; `LeaseExpires` takes that of an ended process and `CloseSession` the current one's (`DropLease`), with the key that hangs on it, and etcd refuses
a Put whose lease is gone. `SetKeyOf` tells a watch that covers the key. `overtaken` is history: a request of an earlier process ran after the current
one's Put. It may hang the key of the serving server on a lease that runs out, or remove it; nothing in the code prevents that, and
`ServingIsListed` names it as its exception. The watch goroutine
(`WatchReceive`, `WatchSend`, `WatchDone`, `WatchBroken`) turns a DELETE, whose
value is empty and does not unmarshal, into the zero event.

`Discovery` EXTENDS it with the resolver: `job[t]` is where thread `t` (Build, the watch
goroutine, ResolveNow) is inside `resolve`, between reading the list (`ListService`) and handing
it over (`UpdateState`). `ReceiveEvent` joins the registry's send and the resolver's
receive on the unbuffered channel, `Close` and `ReceiveClose` those on `g.close`.
One client process is modelled; `Matching` are the instances whose key has the prefix that is
listed, those of a service whose name begins with this one's among them.

### WeightedPicker

`Pick` holds its mutex throughout, so it is one step. `uint32` is arithmetic modulo
`Modulus`. `rounds` and `picks` are history: the picks in the current cycle of
`Total`. `Build` is `Init`, for connections in any order and of any weights. Weights are positive: the
comment at `weight_balancer.go:41` asks for at least 1. `Modulus` exceeds twice the sum of all weights: weights
near 2^32 are not modelled. `Few` is where the algorithm works, one or two connections: from three on a
connection may be owed less than nothing after a `Pick`, its `currentWeight` wraps around, and
`Proportional` and `Smooth` do not hold (finding 3).

### Pickers

A client uses one of the pickers, by its `name`, over connections in any order, each in a group. Round
robin counts with one atomic addition and least active holds its mutex, so a `Pick` of theirs is one step. The least active
picker works on a copy (`leastactive.go:21`): `numReq` never changes and the first connection
gets every call, which `active`, a history, records. The fastest picker looks at one connection a step (`scan`), while
`UpdateRespTime` changes the response times, which no lock prevents; `scan.seen` is history. `UpdateFails` is
`log.Fatalln`, the end of the process. The goroutine's ticker never ends, as its finalizer cannot run. `Candidates` is the loop of round robin's
`Pick` over the connections, a recursive function of how many it has passed; `row` is history: the latest picks, for as long as all were for one group.

`MCPickers` puts these and `WeightedPicker` side by side.

### Paths, RouterV1, RouterV2, Routers

A node of a tree is the sequence of segments that leads to it, so the tree is the set `nodes`; `handler` and `mdls`
are the fields of its nodes, by the number of the call of `addRoute` that brought them. `AddRoute` is the whole call, with its checks; a
call that panics (`Conflict`) leaves the nodes that it had `Reached`. `FindRoute` and `FindMdls` are recursive functions
of the number of segments of a request that they have passed: the node that is reached, and the queue of nodes at one depth, of which `After` makes the
next. Version 1 has regular expressions and a wildcard that covers the rest of a path, version 2 has `UseV1` and
middlewares. The trees of different methods are independent; one is modelled. `Routers` puts the two trees
side by side and states what is asked of both.

### WebServer

One request on its way through the `layers`, those of `Use`, `serve`, those of the route and the handler: `at` is the
layer that runs and `way` whether it goes in, comes out or unwinds a panic. On the way in a layer does nothing that others see;
coming out it changes or reports `status` and `data`. The goroutine of the metrics (`reporting`) may run at any
time later. `Flush` sends; the `log.Fatalln` of `flashResp` ends the process. A layer panics of itself (`Raises`) if it has been given a
log function that does, or none; its builder's `StatusCode` is any status, or 0 if it was not set (`Recover`). `Use` and a route may be given any sequences of middlewares (`GlobalLayers`, `RouteLayers`). `MCWeb` puts the server
and the routers side by side.

### SqlText, OrmV1, OrmV2, OrmV3, OrmV3Write, SqlMeaning

`SqlText` has the expressions that the builders are given, and a builder: tokens and arguments. `OrmV1` to
`OrmV3Write` are the three versions' `Build`: from a builder and a query to a builder. In the third a
subquery holds a selector, whose own buffer, `bufs[id]`, is built each time that the subquery is. `SqlMeaning`, which is the
reference, says independently of any builder what a database has to read for a query: the clauses in SQL's
order, each expression as its tree, each name as the model has it, and a refusal for a name that it has not. `ReadsAs` compares: a column has the table
that the caller named (`of`) beside the one that the builder still has (`table`, which `Named` drops), and an operator what its method is named
for (`means`) beside what is written (`op`). A text
is read token by token, each placeholder replaced by its argument, each operator with the number of
parentheses around it.

These modules use recursive operators and have no theorems.

### TxOutcome and OrmSession

`TxOutcome` is what a transaction promises: it commits only after its function ended well, and its
caller is told nil only if it committed; an error may also mean that the answer of the commit got lost.
`OrmSession` has tasks that share a pool of `MaxOpen` connections: `DoTx`, a transaction by hand with a deferred
`RollbackIfNotCommit`, or one statement. A function may use the DB besides its Tx, and then needs a second
connection. `getHandler` (`core.go:49-66`) never closes its rows: the connection of a `Get` outside of a
transaction that found a row is held (`rows`) until its context ends. `CtxRollback` and `CtxCloseRows` are the
goroutines of `database/sql`, which the repository does not have.

### ModelRegistry

`models` is the `sync.Map`, empty at first (`RegistryInit`); `Get` loads, and if there is nothing parses and stores, as `Register` does, in further
steps (`RegistryNext`). `parseModel` and the options (`Made`, which gives up at the first that fails) are functions from what reflect says of a type (`Reflected`: no
two fields of one name). `SetColumns` says which fields of a row can be read back.

`MCOrm` puts the builders, sessions and registry side by side.

### AtMostOnce and RpcCall

`AtMostOnce` is what a remote call without retries promises: the service runs at
most once for it, its caller is told once, and a value only after a run for this
very call, the value of that run; an error says nothing of the service.

`RpcCall` models the calls of one client and the goroutines of the server.

* `shape`: what a call asks for: one-way, a service that is registered or not, a
  timeout that is a number or not (a hand-made `Invoke`; the stub's is always one).
* `caller`, `told`, `ctxDone`: `Invoke` and the stub around it. `ReturnResult` and `ReturnCtx` are
  the two cases of the select; `Told` is what the stub makes of a response, and `ToldOf` adds of which call's run a value is.
* `worker`, `conn`, `result`: the goroutine of `doInvoke`, which goes on alone when
  `ReturnCtx` has ended the call.
* `idle`, `requests`, `responses`: the connections that the pool can still give, and what is
  under way on each. A connection is never put back, so a `Get` with none left waits.
  A first `Read` that returns a part of the eight bytes of the lengths is `ReadFails` or `ServerFails`. That
  a connection, which is a stream of bytes, may be taken for a sequence of messages is what `MessageStream` shows.
* `server`, `serving`, `runs`: `handleConn` per connection, between two messages or inside
  `service.invoke`. `ReadRequest` is all that comes before it, with the response to a
  timeout that does not parse, after which the service is called all the same.
  `ServicePanics` ends the process with all its connections.

### MessageCodec, MessageQueue and MessageStream

`MessageCodec` is `message.go` as operators: `EncodeReq`, `DecodeReq`, `EncodeResp`, `DecodeResp` and the lengths. A string is
the sequence of its bytes. A range over a map goes in any order (`Orders`), and `CalHeadLength` and `EncodeReq` range
over the metadata each in its own. `NewRequest` and `NewResponse` are what the stub and `handleConn` fill in.

`MessageStream` is one direction of a connection. `WriteMessage` is `conn.Write`, which may also break off inside a message
(`WriteBreaksOff`); the bytes arrive in pieces of any size (`Arrive`); `ReadLengths` and `ReadRest` are the two reads of
`ReadMsg`, with the decoder that its callers apply to what it returns. `written` and `ends` are history. `MessageQueue` is what it
promises: a receiver gets the next of the messages sent, whole and unchanged, or nothing.

`ProperRequest` and `ProperResponse` say which messages are sent: shorter than 2^32 bytes, names of services and methods and values of
metadata without a line break, keys without a carriage return either. The code's own keys are `oneway` and `timeout`, and a
method's name is that of a Go field; a service's `Name()` is the user's, and nothing checks it for a line break. A decoder may panic on
other bytes; it is applied to what an encoder wrote only, as the theorems show.

`MCRpcCall` puts calls and one stream side by side.

### Shutdown

`main` is the step that `StartAndServe` and `shutdown` are at, `guard` the goroutine that forces
the exit (`SecondSignal`, `Timeout`), `channel` the signal channel with room for one. A server is
`starting`, `open` (or `failed`), `closing` from `Stop`, and `closed` when `http.Server.Shutdown` has
found no request in flight (`ShutdownReturns`). A request is `accepted`, passes the check in
`ServeHTTP` (`serving`) or is turned away, and is served for as long as its handler likes. Callbacks in `polite` return
when their context is done; the others need never do.

`clock` counts ticks since the first signal. A tick passes only when nothing is `Due`: the program's
own steps take no time, which against seconds is what they do.

`server.stop()` is called without the context that its definition wants (`shutdown.go:139`, `220`), so the file
does not compile; the model takes the call as `shutdown_answer.go:193` writes it, with
`context.Background()`. SIGKILL and SIGSTOP, which the list of signals names, cannot be caught and
end or stop the process from outside; they are not modelled.

## 3. Runs

| run | bounds | shows |
| --- | --- | --- |
| `lock_safety` | two clients, leases of 1 and 2 units, one retry, one delayed request per client and kind and two such pairs, one Unlock each, one cancelled context, one crash | `ImplementsLease`, `ProlongedByOwnerOnly`, `KeyReturnsByLateLockOnly`, `LossIsReal`, `TypeOK` (777 000 states) |
| `lock_liveness` | the same with one delayed pair and no cancellation | `LockReturns`, `InactiveLeaseEnds`, `UnlockEndsAutoRefresh` (92 000 states) |
| `lock_timeout` | as `lock_safety` | finding: the first timeout is not retried |
| `discovery` | one instance, two processes of it, one failed list or one ResolveNow, one broken watch | `ServingIsListed`, `QuietAfterClose`, `CloseReturns`, `CloseRegistryEndsWatch`, `EventsAreApplied` (262 000 states) |
| `discovery_idempotent` | one instance, one ResolveNow | finding: a stale list overwrites a newer one |
| `pickers` | weighted: up to three connections, weights up to 6, integers modulo 256; others: up to three connections in two groups, three response times, a counter modulo 8 | `Proportional`, `Smooth`, `RoundRobinCycle`, `FastestUnlessSlowed`, `AllTypeOK` (121 000 states) |
| `weighted_picker_wrap` | up to three connections, weights up to 4 | finding: with weights 1, 1 and 4 one connection is never picked |
| `rpc_call` | two calls, one of any shape, up to two connections of which earlier calls may have taken any, one broken connection; a stream in either direction, two messages of two kinds, one that breaks off | `ImplementsCall`, `ContextEndsCall`, `AnswerEndsCall`, `ImplementsQueue`, `TypeOK` (209 000 states) |
| `shutdown` | two servers, two requests, two callbacks polite or not, three signals, times 2, 2, 1 and 7 for 10, 3, 1 and 30 seconds | `StepsInOrder`, `NoNewRequests`, `TimeoutOnlyForSlowRequests`, `SignalEndsProcess`, `TypeOK` (197 000 states) |
| `rpc_error` | the calls of `rpc_call` | finding: the server's error is not told |
| `web` | three calls of `addRoute`, paths of up to two segments and some longer or malformed ones, requests of up to three; requests through up to two of seven middlewares of the server and two of the route, seven kinds of handlers | `Dispatch`, `RoutesStay`, `MiddlewareMatched`, `ToldWhatWasSent` (218 000 states) |
| `orm` | some thirteen thousand queries, each built twice; two tasks over two connections with two statements each; three goroutines with a type, five kinds of types and four lists of options | `TextMatchesQuery`, `ImplementsTx`, `TasksEnd`, `OptionsKept` (129 000 states) |

Why the bounds are enough: the lock's scripts compare a value with one other, so
two clients show every outcome of a comparison; one retry separates the first
attempt, a later one and the end of the strategy; two leases of different length
separate PX from EXPIRE; two requests delayed at once let a script of the past
race one of another client. In discovery an instance's key does not depend on other keys,
two processes are a restart, with whatever the first one left on its way, and a failed list or a ResolveNow precedes every other
step. Calls of the RPC framework meet in the pool and when the server panics only, so two of
them show whatever they do to each other, and no, one or two connections are a pool that is used up, contended
and free. A second message shows whether the first one's end was found, whose metadata has two pairs, so that it has two orders, and
whose data has both separators in it; a write breaks off after 16 bytes, past the lengths and within every one of the messages. The
shutdown's times keep the order of the program's and leave a time-out that two callbacks can meet and miss. Two calls of `addRoute` decide whether two routes agree,
and a third meets what the two have left, which may be half of a path. A middleware meets one that is further
out and one that is further in. The queries have every kind of expression below every other, each clause with and
without the others before it, lists with none, one and several elements; deeper expressions repeat what `buildSubExpr` does at
the second level. Two tasks and two connections are the least that starve for one another. A `Get`, a `Register` and a
third call are an overlap and what comes after it.
The theorems of section 5 hold for all values. A picker's state is bounded
by itself. The width of the integers only has to exceed the sums (the module's
assumption); 2^32 differs from 256 in nothing but the number of picks a wrapped
connection stays ahead.

`Proportional` and `Smooth` speak of one and two connections, of any weights. They fail for three already where weights are apart (1, 1, 4), though
not for all: three equal ones are served well, four equal ones are not. No condition on the weights is offered as one under which three
work, for whether a wrapped sum is made good in time depends on all of them (5, 5 and 7 are served, 7, 7 and 10 in this order are not).

Deadlock is checked in none of the passing runs, for all of them come to rest: clients return, servers exit, requests and
tasks end, a client without connections has nothing to pick from, a call without a deadline waits for a used-up pool. What must not stop before its end
is stated as a liveness property instead (`LockReturns`, `CloseReturns`, `AnswerEndsCall`, `SignalEndsProcess`, `TasksEnd`
and others). It is checked in `weighted_picker_wrap`.

`TextMatchesQuery` names the queries that a first `Build` gets wrong (`Astray`), and says of them, and of every second `Build`, that the text is
not what was meant: an upsert loses what follows its first assignment (`dialect.go:65`), GROUP BY of homework1 writes the alias of
a column, a field that only the right side of a join inside of a subquery has gets the empty name, and one that only its left side has is refused (`builder.go:55-60`), a subquery's column is
looked up in the outer model, and a selector that two subqueries share is built twice; `As` drops the table of a column (`column.go:26-31`), so that the column of a joined table
is looked up in the query's own model and refused; `Column.Multi` writes `+`; and `Exist` writes `EXIST`. The documents of the repository are not of one mind about them: `select_test.go:204-211` asserts
the doubled text of a selector that two subqueries share, while line 29 of the design document of subqueries writes `EXISTS`, the word of SQL that `SqlMeaning` expects. Only a query that has to be
refused anyway may be both astray and right.

## 4. Fairness

* `LockStep`, `RefreshStep`, `ThreadStep`, `Watch`, `WatchReceive`,
  `ReceiveEvent`: weak fairness, since a goroutine that can run is scheduled, and
  each of these waits for an `Eval` or a `ListService` to which the code gives a context with a timeout, so
  that the wait ends. (`Unlock` passes its caller's context on: nothing is assumed of it.)
* `UnlockBranch`, `ReceiveClose`, `WatchDone`: strong fairness, since Go's `select`
  draws at random among the ready cases, so a case that is ready again and again is
  taken in the end.
* `RedisStep` and `Tick`: Redis runs what has reached it and its clock goes on.
* `CallerStep`, `WorkerStep`, `ServerStep` of `RpcCall`: weak fairness, since goroutines that can
  run do and services return. A `Get` on a used-up pool and a `Read` of a response that is never
  sent are not enabled, so fairness does not end them.
* `MainStep`, `GuardStep`, `ServerStep` and `Tick` of `Shutdown`, and polite callbacks: weak fairness of goroutines,
  timers and `http.Server`. Nothing is assumed of handlers, of the other callbacks and of `Start`.
* `Step` and `AwaitDone` of `OrmSession`: weak fairness of each task and of the goroutines of `database/sql`. A
  function is taken to return. A context need not end, and a task that finds no connection is not enabled: `TasksEnd` names these as `Starved`.
* Nothing is assumed of callers, of crashes, of failures, of etcd's leases or of
  ResolveNow: no step of theirs has to happen.

## 5. What is proved

For every number of clients and instances and every value of the bounds, under the
assumptions named in the modules (`OwnerAssumption`, `TimeAssumption`,
`BoundAssumption`, `InstancesAssumption`, `RegistryBoundAssumption`, `DiscoveryBoundAssumption`,
`CallAssumption`, `ConnAssumption`, `BreakAssumption`, `MessageAssumption`, `StreamAssumption`, `PoolAssumption`, `RegistryAssumption`, `LayerAssumption`,
`PickersAssumption`, `WeightAssumption`, and for `Shutdown` `TimeAssumption`, that the
wait is shorter than the time-out, and `SignalAssumption`):

`RedisLockProofs`
* `TypeCorrect`: `Spec => []TypeOK`, inductive as it stands.
* `Refinement`: `Spec => ImplementsLease`, and `LossIsAlwaysReal`: `Spec => []LossIsReal`. Both rest on
  `LeaseInv`, whose parts say what the requests on their way prove about the past:
  a client in the key has acquired it (`KeyHistory`); a client with a handle, or
  with a "yes" answer to its lock script, has acquired (`HandleIsEarned`); only
  holders refresh or unlock (`HoldersAct`); an unlock script on its way, waited for
  or late, means that `l.unlock` is closed (`UnlockIsAsked`); a "no" to a refresh or an
  unlock means that the key was not the client's at some moment since this call began (`NoMeansAbsent`), and
  `AutoRefresh` has told nothing before it ends (`ErrorIsFinal`). `ImplementsLease`
  needs them because the abstract lease frees the key for an asked release only, and gives
  handles to those who acquired only, while the code learns both from answers.
* `OwnerAloneProlongs`: `Spec => ProlongedByOwnerOnly`, and `NothingElseRevivesAKey`:
  `Spec => KeyReturnsByLateLockOnly`. Only Redis and its clock change the key (`KeyChanges`), so that both come down to what
  a script does to it. The second needs that a lock script that somebody waits for is of a `Lock` that has not
  returned (`AttemptsAreOpen`).

`DiscoveryProofs`
* `TypeCorrect`: `Spec => []TypeOK`.
* `CloseIsQuiet`: `Spec => []QuietAfterClose`; `TypeOK` links `job["watch"]` to the goroutine,
  which makes it inductive.
* `ServingStaysListed`: `Spec => []ServingIsListed`, with the invariant (`PutIsCurrent`) that the Put of the current process
  left the key on its lease, for as long as that is alive and no request of an earlier process has overtaken it.

`RpcCallProofs`
* `TypeCorrect`: `Spec => []TypeOK`, with `runs` at most one, which is not inductive by
  itself, and `Refinement`: `Spec => ImplementsCall`. Both rest on `CallInv`: a connection is in
  the pool or with the one call that took it (`OwnConnections`); a request is written once,
  and the service has not run for one that is on its way or being served (`OneRequest`); what
  comes back on a connection is for the call that has it, and a value comes from a
  run and is in the end that call's own (`OwnResponses`), which is what `AtMostOnce` asks of the value that is told (`ToldOf`). The code compares no `MessageId`, so it is the connections' having one user
  each, that is the very leak of the pool, that makes responses match: with a `Put` at the end of `doInvoke` the second
  response to a bad timeout would be the next call's.
* `RequestReadBack` and `ResponseReadBack`: for every proper message (`ProperRequest`, `ProperResponse`), a decoder undoes its encoder, and the
  first eight bytes of the packet say how long it is (`IsPacket`). For requests this is so for any two orders of the ranges over the
  metadata: the length of the head is a sum over the pairs, which `SumInAnyOrder` shows to be the same in every order, by
  induction over the order that `EncodeReq` takes; and the decoder's loop takes from the front of the head the pairs
  that were put there (`OnePair`), ending with the map they came from, whatever their order (`DecodeMetaOfPut`). The two lines
  end at the first line break (`FieldIsFound`), which is why names must not have one, while the data is found by its length and may.
* `StreamInvariant` and `QueueRefinement`: `StreamSpec => ImplementsQueue`. The invariant says what the bytes are: the packets of the
  messages one after the other and perhaps a part of one more (`Packets`), and that `ReadMsg` is where a packet starts, or
  eight bytes into it (`Position`). A `ReadRest` that has all it waits for thus has a whole packet and never the
  broken one, whose lengths promise more bytes than there are (`NextPacket`), and the theorems on the decoders make
  of it the message that was written. `StreamAssumption` and `MessageAssumption` are all that is assumed.

`ShutdownProofs`
* `TypeCorrect`, `StepsStayInOrder`, `NoRequestAfterReject` and `TimeoutIsLast`: the four safety properties of the run.
  They rest on `ShutdownInv`: closed servers have nothing in flight, all of them reject from
  the wait on, callbacks start together (`Order`); and the clock's distance from the
  beginning of each step is bounded by the step's time (`Timing`), from which
  follows where `main` can be when the time-out is over.

`PickersProofs`
* `FewAreServedInProportion`: `Spec => []Proportional`, and `FewAreServedSmoothly`: `Spec => []Smooth`, for one and two connections
  of any weights. `FewInv` says what `currentWeight` is: what a connection is owed (`Owed`), its weight once more than the Picks so far give it, less
  the total for each that chose it. All together are owed the total; so of two the one with the higher sum has at least the total when it
  pays it (`PickOfFew`), nothing is ever below zero, and at the end of a cycle a debt that is a multiple of the total and smaller than it is
  none. With three this argument breaks at the first step, and so does the code.
* `RoundRobinTakesTurns`: `PickersSpec => []RoundRobinCycle`. The row is the candidates in order, counted back from the counter's
  remainder (`TakesTurns`), also where the counter wraps around at a multiple of their number.
* `FastestIsFastest`: `PickersSpec => []FastestUnlessSlowed`. `ScanInv` says what the
  look under way has behind it: as many response times as connections, the best so far among them, and none at all only if no
  connection of the group has been met.
* `PickersTypeCorrect`: `AllSpec => []AllTypeOK`: whichever picker is in use.

`WebProofs`
* `TreeIsSound1`, `TreeIsSound2`: every node has its parent, handlers and middlewares are those of calls, and a node has at most one child
  that is not static (`OneWildChild`, the first half of `Dispatch`), for any paths. A call adds beginnings of its path (`Reached`) that may join the
  tree (`Joins`): where the tree has such a child, a new one is that child; `GrownIsATree` shows that this keeps the
  shape, whether the call returns or panics half way.
* `RoutesAlwaysStay`: `RoutesStay` of both trees.
* `RequestsReachTheirRoute`: `V1!Spec /\ V2!Spec => []Dispatch`. `findRoute` takes a way through the segments of a request
  (`FindRouteWalks1`, `FindRouteWalks2`). As long as it goes on it leads through nodes that match, with the values of their parameters
  (`WalkMatches1`, `WalkMatches2`), so that a handler that runs is one whose path covers the request; and where it leaves the beginning of a node that
  covers the request, another node shadows that one (`WalkIsShadowed1`, `WalkIsShadowed2`).
* `MiddlewaresAreMatched`: `V2!Spec => []MiddlewareMatched`. `findMdls` visits the nodes that match a beginning of the request, each once and
  depth by depth (`FindMdlsVisits`), and the middlewares of a node are those of calls for its path, in the order of the calls (`Listed2`). What the loops list
  in a row is `FlattenLists` of `Induction`.
* `LayersTellWhatWasSent`: `Spec => []ToldWhatWasSent`, for any sequences of middlewares. `WebInv` has a part for each thing that the layers share:
  where the request is (`Nested`); a panic is under way exactly if one left the layer inside (`Panicking`); the access
  logs that were passed have written once (`Logs`), metrics and spans that no panic passed have told (`Tells`); and a status that was told changes only by
  a recovery further out, a page is of the context's status, and what is sent is that status, 200 for none, or the handler's own (`Response`). The property
  compares with what was sent, and so has to except the two cases in which that is not the context's status: none was set, or a recovery set one
  after the handler had written directly.

  The routers' theorems ask that the paths that are registered, and the requests, are sequences of segments (`TreeIsSound1` and those after it
  have it as a hypothesis): they are constants' members that `Registered1`, `Registered2` and `Requests` of `Routers` list.

`OrmProofs`
* `SessionImplementsTx`: `Spec => ImplementsTx`. `Progress` says what a task's program counter says of
  its transaction, its function and its caller; without it a rollback or an answer could come a second time. `TypeCorrect` comes with it: the rows
  left open are of statements that were made, one each.
* `OptionsAreKept`: `RegistrySpec => []OptionsKept`. `MayStore` says of a goroutine about to store what it has made, and that if it is a `Get`
  the map was empty when it began (`RegistryInv`). The half about `SetColumns` needs that a model's two maps say the same where no two fields share a column
  (`Mirrors`), which `parseModel` brings about and an option that renames no column keeps.

`Induction` holds the lemmas on loops that the other proof modules share: a set of numbers has a least one
(`LeastNumber`), counting up (`CountUp`), a step from each number to the next has a sequence of values (`IterationExists`), one
sequence after the other (`FlattenLists`). The library's theorems on induction take an operator, which cannot be
instantiated here; these take a set or a function instead, which is enough for the recursive functions over `0 .. n` that the loops
of the code are written as.

Only model-checked: the liveness properties (fairness and ENABLED are out of the prover's reach), and `TextMatchesQuery`, as
the builders and their reference are recursive over data. The proofs about the weighted picker, the round robin, the layers, the routers, the calls and the stream are
of the modules' own specifications; the runs check the same properties in the modules that put them side by side.

## 6. Findings

1. `lock_timeout`: the comment at `redis_lock.go:47` promises a retry after a timeout; the first
   attempt's timeout ends `Lock` at line 42.
2. `discovery_idempotent`: resolving at every event is called idempotent (`grpc_resolver.go:67-68`), but
   a concurrent `ResolveNow` may hand over an older list last.
3. `weighted_picker_wrap`: `weight_balancer.go:33` subtracts below zero in `uint32`; with three connections of weights 1, 1 and 4 one is never chosen.
4. `rpc_error`: the server returns its errors (`server.go:129`), but the stub (`client.go:155`) never looks
   at them and reports that empty data does not decompress.

Hazards noted without a run: the hang of `AutoRefresh` on its own channel
(`redis_lock.go:104`), milliseconds against seconds (`lock.lua:4,8`), the second signal
that is dropped (`shutdown.go:77`), the prefix without a closing slash (`registry.go:65`). Seen while
modelling, and no state of a model: `weight_balancer.go:61` asserts an `int` where `grpc_resolver.go:139` stores
a `uint32`, so the weighted picker panics with this resolver; a `Register` that times out may
still put the key (`server.go:61`), and `Server.Close` (`server.go:76`) neither unregisters nor stops the server. In
homework3 `Updater.Exec` (`updater.go:104`) skips the middlewares that `Inserter.Exec` runs through; `querylog` and `opentelemetry` call `Build` before the
query does, so that what is executed is the second, doubled text; `In` puts its values down as one `?`; `Column.Multi` adds. In homework2's
router the root's `route` is never set, and `UseV1` after `Get` of the same path panics.

## 7. Not modelled

The LRU cache (no reachable state), the insert exercise and the generator (pure
text), the option plumbing of the gRPC client, examples, mocks and generated code.
`Registry.Subscribe` for several services in one process: each has a goroutine and
channel of its own. The serializers and compressors of the RPC framework, and what its decoders do with bytes that no encoder wrote. In homework2's `addRoute` the slice of middlewares is the
caller's own and may share its array (`route.go:51-54`, `72-76`); the model has sequences. Of the web server the
accessors of `Context`, and what logs, spans and metrics say besides the status. Of the ORM the
middlewares around `Get` and `Exec`, the options of `Open`, `GetMulti`, which is not implemented, DELETE, which does not
exist, and the unsafe variant of reading rows.

## 8. What is left

1. Proofs: for which weights three connections and more are served well; that each builder's text has as many placeholders as
   arguments, which needs the builders without recursive operators.

Runs are few on purpose: one passing run per component or group of them, and one per finding. Parts that have no state in
common share a run, in which a variable says which part runs (`MCRpcCall`, `MCPickers`, `MCWeb`, `MCOrm`): their states add up and do not multiply.
