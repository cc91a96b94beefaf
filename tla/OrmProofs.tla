-------------------------------- MODULE OrmProofs --------------------------------
(***************************************************************************)
(* Of orm/homework3: OrmSession implements TxOutcome, for every set of     *)
(* tasks, every size of the pool and every number of statements; and the   *)
(* registry of models keeps the options it is given, but for an overlap,   *)
(* and reads back what a model's query names, for any goroutines, types    *)
(* and options.                                                            *)
(***************************************************************************)
EXTENDS OrmSession, ModelRegistry, FiniteSetTheorems, Induction, TLAPS

-----------------------------------------------------------------------------
(* Sessions.  Progress says how far a task is: what its program counter    *)
(* says of its transaction, of its function and of what its caller has     *)
(* heard.                                                                  *)

Live(t) == tx[t] \in {"open", "rolledback"}

Progress(t) ==
  /\ kind[t] = "statement" => pc[t] \in {"db", "done"} /\ tx[t] = "none"
  /\ pc[t] = "db" => made[t] < MaxStatements
  /\ pc[t] = "begin" => tx[t] = "none"
  /\ pc[t] \in {"begin", "fn", "db"} => verdict[t] = "none" /\ told[t] = "none"
  /\ pc[t] = "fn" => Live(t)
  /\ pc[t] = "db" /\ kind[t] # "statement" => Live(t)
  /\ pc[t] = "finish" => Live(t) /\ verdict[t] # "none" /\ told[t] = "none"
  /\ pc[t] = "finish" /\ kind[t] = "byHand" => verdict[t] = "ok"
  /\ pc[t] = "deferred" => verdict[t] # "none"
  /\ pc[t] = "deferred" /\ told[t] = "none" => Live(t)

IInv == TypeOK /\ \A t \in Tasks : Progress(t)

\* What a step of one task leaves to the others.
Others(t) ==
  \A u \in Tasks \ {t} :
    /\ pc'[u] = pc[u] /\ tx'[u] = tx[u] /\ verdict'[u] = verdict[u]
    /\ told'[u] = told[u] /\ made'[u] = made[u] /\ kind'[u] = kind[u]

-----------------------------------------------------------------------------
\* Every task starts with its transaction not begun and its caller not answered.
LEMMA InitIInv == Init => IInv
  BY PoolAssumption DEF Init, IInv, TypeOK, Progress, Live, Kinds

\* A task's step keeps the others' progress, for they keep all it speaks of.
LEMMA OthersProgress ==
  ASSUME NEW t \in Tasks, IInv, Others(t), Progress(t)'
  PROVE  \A u \in Tasks : Progress(u)'
  BY DEF IInv, Progress, Live, Others

\* Every step keeps the types and the progress of each task.
LEMMA NextIInv == IInv /\ [Next]_vars => IInv'
<1> SUFFICES ASSUME IInv, [Next]_vars PROVE IInv'
  OBVIOUS
<1>1. CASE UNCHANGED vars
  BY <1>1 DEF vars, IInv, TypeOK, Progress, Live
<1>2. ASSUME NEW t \in Tasks, Step(t) \/ AwaitDone(t) \/ EndContext(t) PROVE IInv'
  <2> USE PoolAssumption, <1>2 DEF Kinds, Go, Tell
  <2>1. CASE BeginTx(t)
    <3>1. TypeOK' BY <2>1 DEF BeginTx, IInv, TypeOK
    <3>2. Progress(t)' /\ Others(t)
      BY <2>1 DEF BeginTx, IInv, TypeOK, Progress, Live, Others
    <3> QED BY <3>1, <3>2, OthersProgress DEF IInv
  <2>2. CASE UseDB(t)
    <3>1. TypeOK' BY <2>2 DEF UseDB, IInv, TypeOK
    <3>2. Progress(t)' /\ Others(t)
      BY <2>2 DEF UseDB, IInv, TypeOK, Progress, Live, Others
    <3> QED BY <3>1, <3>2, OthersProgress DEF IInv
  <2>3. CASE Statement(t)
    <3>1. made[t] + 1 \in 1 .. MaxStatements
      BY <2>3 DEF Statement, IInv, TypeOK, Progress
    <3>2. TypeOK'
      BY <2>3, <3>1 DEF Statement, AfterStatement, LeftOpen, IInv, TypeOK
    <3>3. Progress(t)' /\ Others(t)
      BY <2>3 DEF Statement, AfterStatement, IInv, TypeOK, Progress, Live, Others
    <3> QED BY <3>2, <3>3, OthersProgress DEF IInv
  <2>4. CASE Fn(t)
    <3>1. TypeOK' BY <2>4 DEF Fn, IInv, TypeOK
    <3>2. Progress(t)' /\ Others(t)
      BY <2>4 DEF Fn, IInv, TypeOK, Progress, Live, Others
    <3> QED BY <3>1, <3>2, OthersProgress DEF IInv
  <2>5. CASE FinishDoTx(t)
    <3>1. TypeOK'
      BY <2>5 DEF FinishDoTx, Rollback, TellFailure, Commit, IInv, TypeOK
    <3>2. Progress(t)' /\ Others(t)
      BY <2>5 DEF FinishDoTx, Rollback, TellFailure, Commit, IInv, TypeOK, Progress, Live, Others
    <3> QED BY <3>1, <3>2, OthersProgress DEF IInv
  <2>6. CASE CommitByHand(t)
    <3>1. TypeOK' BY <2>6 DEF CommitByHand, Commit, IInv, TypeOK
    <3>2. Progress(t)' /\ Others(t)
      BY <2>6 DEF CommitByHand, Commit, IInv, TypeOK, Progress, Live, Others
    <3> QED BY <3>1, <3>2, OthersProgress DEF IInv
  <2>7. CASE RollbackIfNotCommit(t)
    <3>1. TypeOK'
      BY <2>7 DEF RollbackIfNotCommit, Rollback, TellFailure, IInv, TypeOK
    <3>2. Progress(t)' /\ Others(t)
      BY <2>7 DEF RollbackIfNotCommit, Rollback, TellFailure, IInv, TypeOK, Progress, Live, Others
    <3> QED BY <3>1, <3>2, OthersProgress DEF IInv
  <2>8. CASE CtxRollback(t)
    <3>1. TypeOK' BY <2>8 DEF CtxRollback, IInv, TypeOK
    <3>2. Progress(t)' /\ Others(t)
      BY <2>8 DEF CtxRollback, IInv, TypeOK, Progress, Live, Others
    <3> QED BY <3>1, <3>2, OthersProgress DEF IInv
  <2>9. CASE CtxCloseRows(t) \/ EndContext(t)
    BY <2>9 DEF CtxCloseRows, EndContext, IInv, TypeOK, Progress, Live
  <2> QED BY <2>1, <2>2, <2>3, <2>4, <2>5, <2>6, <2>7, <2>8, <2>9 DEF Step, AwaitDone
<1> QED BY <1>1, <1>2 DEF Next

\* TypeOK: every variable keeps its type, whatever the tasks and the contexts do.
THEOREM TypeCorrect == Spec => []TypeOK
<1>1. IInv => TypeOK BY DEF IInv
<1> QED BY <1>1, InitIInv, NextIInv, PTL DEF Spec

-----------------------------------------------------------------------------
\* A function's end is judged while its transaction is open, or rolled back already.
LEMMA FnJudges ==
  ASSUME NEW t \in Tasks, IInv, Fn(t)
  PROVE  Outcome!Judge(t)
  BY DEF Fn, IInv, Progress, Live, Outcome!Judge

\* tx.Commit of a function that ended well is the abstract Commit, or gives up.
LEMMA CommitImplements ==
  ASSUME NEW t \in Tasks, IInv, Commit(t), UNCHANGED verdict,
         verdict[t] = "ok", told[t] = "none", Live(t)
  PROVE  Outcome!Commit(t) \/ Outcome!GiveUp(t)
<1>1. CASE UNCHANGED tx /\ Tell(t, "err")
  BY <1>1 DEF Live, Tell, Outcome!GiveUp, Outcome!TellFailure, Outcome!Failure
<1>2. CASE tx[t] = "open" /\ \E fate \in {"committed", "rolledback"} :
             /\ tx' = [tx EXCEPT ![t] = fate]
             /\ \E answer \in {"nil", "err"} :
                  (tx'[t] = "rolledback" => answer = "err") /\ Tell(t, answer)
  <2>1. PICK fate \in {"committed", "rolledback"}, answer \in {"nil", "err"} :
          /\ tx' = [tx EXCEPT ![t] = fate]
          /\ (tx'[t] = "rolledback" => answer = "err") /\ told' = [told EXCEPT ![t] = answer]
    BY <1>2 DEF Tell
  <2>2. CASE fate = "committed"
    BY <1>2, <2>1, <2>2 DEF Outcome!Commit
  <2>3. CASE fate = "rolledback"
    <3>1. answer = "err" BY <2>1, <2>3 DEF IInv, TypeOK
    <3> QED BY <1>2, <2>1, <2>3, <3>1 DEF Outcome!GiveUp, Outcome!TellFailure, Outcome!Failure
  <2> QED BY <2>1, <2>2, <2>3
<1> QED BY <1>1, <1>2 DEF Commit

\* tx.Rollback gives the transaction up, and tells of the failure of its function.
LEMMA RollbackImplements ==
  ASSUME NEW t \in Tasks, IInv, Rollback(t), TellFailure(t), UNCHANGED verdict,
         verdict[t] # "none", told[t] = "none", Live(t)
  PROVE  Outcome!GiveUp(t)
<1>1. tx' = [tx EXCEPT ![t] = "rolledback"]
  BY DEF Rollback, Live, IInv, TypeOK
<1>2. Outcome!TellFailure(t)
  BY DEF TellFailure, Tell, Outcome!TellFailure, Outcome!Failure
<1> QED BY <1>1, <1>2 DEF Outcome!GiveUp, Live

\* Each step of a task is a step of TxOutcome or leaves its variables alone.
LEMMA StepImplements ==
  ASSUME IInv, NEW t \in Tasks, Step(t) \/ AwaitDone(t) \/ EndContext(t)
  PROVE  Outcome!Next \/ UNCHANGED Outcome!vars
<1>1. CASE BeginTx(t)
  BY <1>1 DEF BeginTx, Tell, IInv, Progress, Outcome!Begin, Outcome!Next
<1>2. CASE UseDB(t) \/ Statement(t) \/ CtxCloseRows(t) \/ EndContext(t)
  BY <1>2 DEF UseDB, Statement, CtxCloseRows, EndContext, Outcome!vars
<1>3. CASE Fn(t)
  BY <1>3, FnJudges DEF Outcome!Next
<1>4. CASE FinishDoTx(t)
  <2>1. Live(t) /\ verdict[t] # "none" /\ told[t] = "none" /\ UNCHANGED verdict
    BY <1>4 DEF FinishDoTx, IInv, Progress
  <2>2. CASE Failed(t)
    BY <1>4, <2>1, <2>2, RollbackImplements DEF FinishDoTx, Outcome!Next
  <2>3. CASE ~Failed(t)
    <3>1. verdict[t] = "ok" BY <2>1, <2>3 DEF Failed, IInv, TypeOK
    <3> QED BY <1>4, <2>1, <2>3, <3>1, CommitImplements DEF FinishDoTx, Outcome!Next
  <2> QED BY <2>2, <2>3
<1>5. CASE CommitByHand(t)
  <2>1. Live(t) /\ verdict[t] = "ok" /\ told[t] = "none" /\ UNCHANGED verdict /\ Commit(t)
    BY <1>5 DEF CommitByHand, IInv, Progress
  <2> QED BY <2>1, CommitImplements DEF Outcome!Next
<1>6. CASE RollbackIfNotCommit(t)
  <2>1. verdict[t] # "none" /\ UNCHANGED verdict /\ Rollback(t)
    BY <1>6 DEF RollbackIfNotCommit, IInv, Progress
  <2>2. CASE told[t] = "none"
    BY <1>6, <2>1, <2>2, RollbackImplements
       DEF RollbackIfNotCommit, IInv, Progress, Outcome!Next
  <2>3. CASE told[t] # "none" /\ tx[t] = "open"
    <3>1. tx' = [tx EXCEPT ![t] = "rolledback"] /\ UNCHANGED <<verdict, told>>
      BY <1>6, <2>1, <2>3 DEF RollbackIfNotCommit, Rollback
    <3> QED BY <2>3, <3>1 DEF Outcome!GiveUp, Outcome!Next
  <2>4. CASE told[t] # "none" /\ tx[t] # "open"
    BY <1>6, <2>1, <2>4 DEF RollbackIfNotCommit, Rollback, IInv, TypeOK, Outcome!vars
  <2> QED BY <2>2, <2>3, <2>4
<1>7. CASE CtxRollback(t)
  BY <1>7 DEF CtxRollback, Outcome!GiveUp, Outcome!Next
<1> QED BY <1>1, <1>2, <1>3, <1>4, <1>5, <1>6, <1>7 DEF Step, AwaitDone

\* ImplementsTx: what DoTx and BeginTx with RollbackIfNotCommit do to a transaction and
\* tell their caller of it is what TxOutcome allows, for any tasks and any pool.
THEOREM SessionImplementsTx == Spec => ImplementsTx
<1>1. Init => Outcome!Init
  BY DEF Init, Outcome!Init
<1>2. IInv /\ [Next]_vars => [Outcome!Next]_Outcome!vars
  BY StepImplements DEF Next, vars, Outcome!vars
<1> QED BY <1>1, <1>2, InitIInv, NextIInv, PTL DEF Spec, ImplementsTx, Outcome!Spec

-----------------------------------------------------------------------------
(* The registry of models.  What a call may store is known when it gets to *)
(* its store; and what is known of the call whose model is in the map      *)
(* stays as it is, for that call is over.                                  *)

\* The model is all that the call made, and a Get makes one of an empty place only.
MayStore(g, model) ==
  /\ model = Made(call[g]) /\ model # NoModel
  /\ call[g].do = "Get" => ~before[g]

Places == [Goroutines -> {"call", "register", "store", "done"}]

RegistryInv ==
  /\ at \in Places
  /\ \A g \in Goroutines : TypeOf(g) \in Types /\ call[g].opts \in Seq(Options)
  /\ DOMAIN built = Goroutines /\ DOMAIN before = Goroutines /\ DOMAIN models = Types
  /\ \A g \in Goroutines :
       /\ at[g] = "register" => call[g].do = "Get" /\ ~before[g]
       /\ at[g] = "store" => MayStore(g, built[g])
  /\ \A type \in Types : models[type] # Nobody =>
       LET g == models[type].by IN
       g \in Goroutines /\ at[g] = "done" /\ MayStore(g, models[type].model)

\* Every step keeps what is known of the calls and of the map.
LEMMA KeepsRegistryInv == RegistryInv /\ [RegistryNext]_registry => RegistryInv'
<1> SUFFICES ASSUME RegistryInv, [RegistryNext]_registry PROVE RegistryInv'
  OBVIOUS
<1> USE DEF TypeOf, Goto, Places
<1>1. CASE UNCHANGED registry
  BY <1>1 DEF registry, RegistryInv, MayStore
<1>2. ASSUME NEW g \in Goroutines, Get(g) PROVE RegistryInv'
  <2>1. CASE Loaded(g)
    BY <1>2, <2>1 DEF Get, RegistryInv, MayStore
  <2>2. CASE ~Loaded(g)
    BY <1>2, <2>2 DEF Get, Loaded, RegistryInv, MayStore
  <2> QED
    BY <2>1, <2>2
<1>3. ASSUME NEW g \in Goroutines, Register(g) PROVE RegistryInv'
  <2>1. CASE Made(call[g]) = NoModel
    BY <1>3, <2>1 DEF Register, RegistryInv, MayStore
  <2>2. CASE Made(call[g]) # NoModel
    BY <1>3, <2>2 DEF Register, RegistryInv, MayStore
  <2> QED
    BY <2>1, <2>2
<1>4. ASSUME NEW g \in Goroutines, Store(g) PROVE RegistryInv'
  BY <1>4 DEF Store, RegistryInv, MayStore
<1> QED
  BY <1>1, <1>2, <1>3, <1>4 DEF RegistryNext

-----------------------------------------------------------------------------
(* What a model in the registry reads back.                                *)

\* The two maps of a model say the same, if no two fields have one column.
Mirrors(m) ==
  /\ IsFiniteSet(DOMAIN m.names)
  /\ Distinct(m) =>
       \A f \in DOMAIN m.names : m.names[f] \in DOMAIN m.index /\ m.index[m.names[f]] = f

\* parseModel fills both maps from the same fields.
LEMMA ParsedMirrors ==
  ASSUME NEW type \in Types
  PROVE  Mirrors(parseModel(type))
<1> DEFINE fields == type.fields
           p == parseModel(type)
           names == {fields[i].name : i \in DOMAIN fields}
           field(name) == CHOOSE i \in DOMAIN fields : fields[i].name = name
           columns == {Column(fields[i]) : i \in DOMAIN fields}
           Is(c, i) == Column(fields[i]) = c /\ \A j \in i + 1 .. Len(fields) : Column(fields[j]) # c
           last(c) == CHOOSE i \in DOMAIN fields : Is(c, i)
<1>1. fields \in Seq(StructFields) /\ Len(fields) \in Nat /\ DOMAIN fields = 1 .. Len(fields)
  BY RegistryAssumption DEF Reflected
<1>2. CASE p = NoModel
  <2>1. DOMAIN p.names = {}
    <3>1. NoModel.names = <<>> /\ DOMAIN <<>> = {}
      BY DEF NoModel
    <3> HIDE DEF p
    <3> QED
      BY <1>2, <3>1
  <2> HIDE DEF p
  <2> QED
    BY <2>1, FS_EmptySet DEF Mirrors, p
<1>3. CASE p # NoModel
  <2>1. /\ p.names = [n \in names |-> Column(fields[field(n)])]
        /\ p.index = [c \in columns |-> fields[last(c)].name]
    BY <1>3 DEF parseModel
  <2> HIDE DEF p
  <2>2. IsFiniteSet(names)
    <3> DEFINE nameOf == [i \in 1 .. Len(fields) |-> fields[i].name]
    <3>1. nameOf \in Surjection(1 .. Len(fields), names)
      BY <1>1 DEF Surjection
    <3>2. IsFiniteSet(1 .. Len(fields))
      BY <1>1, FS_Interval
    <3> QED
      BY <3>1, <3>2, FS_Surjection
  <2>3. ASSUME Distinct(p), NEW f \in names
        PROVE  p.names[f] \in columns /\ p.index[p.names[f]] = f
    <3> DEFINE c == p.names[f]
    <3>1. \E i \in DOMAIN fields : fields[i].name = f
      BY <2>3
    <3>2. field(f) \in DOMAIN fields /\ fields[field(f)].name = f
      BY <3>1
    <3>3. c = Column(fields[field(f)]) /\ c \in columns
      <4>1. c = Column(fields[field(f)])
        <5> HIDE DEF field
        <5> QED
          BY <2>1, <2>3
      <4> HIDE DEF field, c
      <4> QED
        BY <3>2, <4>1
    <3>4. \E i \in DOMAIN fields : Is(c, i)
      <4> DEFINE T == {i \in 1 .. Len(fields) : Column(fields[i]) = c}
      <4>1. T \in SUBSET (0 .. Len(fields)) /\ T # {}
        <5> HIDE DEF field, c
        <5> QED
          BY <1>1, <3>2, <3>3
      <4>2. PICK i \in T : \A j \in T : j <= i
        <5> HIDE DEF T
        <5> QED
          BY <1>1, <4>1, GreatestNumber
      <4>3. \A j \in i + 1 .. Len(fields) : j \notin T /\ j \in 1 .. Len(fields)
        BY <1>1, <4>2
      <4> QED
        BY <1>1, <4>3
    <3>5. last(c) \in DOMAIN fields /\ Column(fields[last(c)]) = c
      BY <3>4
    <3> DEFINE g == fields[last(c)].name
    <3>6. g \in names /\ fields[field(g)].name = g /\ field(g) \in DOMAIN fields
      BY <3>5
    <3>7. field(g) = last(c)
      BY <1>1, <3>5, <3>6, RegistryAssumption
    <3>8. p.names[g] = c
      <4>1. p.names[g] = Column(fields[field(g)])
        <5> HIDE DEF field, g
        <5> QED
          BY <2>1, <3>6
      <4> HIDE DEF field, last, g, c
      <4> QED
        BY <3>5, <3>7, <4>1
    <3>9. g = f
      BY <2>1, <2>3, <3>6, <3>8 DEF Distinct
    <3> QED
      BY <2>1, <3>3, <3>9
  <2>4. DOMAIN p.names = names /\ DOMAIN p.index = columns
    BY <2>1
  <2> HIDE DEF names, columns
  <2>5. Mirrors(p)
    BY <2>2, <2>3, <2>4 DEF Mirrors
  <2> QED
    BY <2>5 DEF p
<1> QED
  BY <1>2, <1>3

\* Options that rename no column leave both maps as they were parsed.
LEMMA MapsAsParsed ==
  ASSUME NEW c, c.opts \in Seq(Options), ~Renames(c.opts), Made(c) # NoModel
  PROVE  /\ Made(c).names = parseModel(c.type).names
         /\ Made(c).index = parseModel(c.type).index
<1> DEFINE n == Len(c.opts)
           p == parseModel(c.type)
           tables == {p.table} \cup {c.opts[i].name : i \in 1 .. n}
           Renamed(table) == [table |-> table, names |-> p.names, index |-> p.index]
           S == {NoModel} \cup {Renamed(table) : table \in tables}
           step == [x \in S \X (1 .. n) |-> Apply(x[1], c.opts[x[2]])]
<1>1. n \in Nat /\ DOMAIN c.opts = 1 .. n
  OBVIOUS
<1>2. p \in S
  BY DEF parseModel
<1>3. ASSUME NEW m \in S, NEW i \in 1 .. n PROVE Apply(m, c.opts[i]) \in S
  <2>1. CASE m = NoModel
    BY <2>1 DEF Apply
  <2>2. CASE m # NoModel
    <3>1. c.opts[i].option = "table"
      <4>1. c.opts[i] \in Options /\ c.opts[i].option # "column"
        BY <1>1, <1>3 DEF Renames
      <4> QED
        BY <4>1 DEF Options
    <3>2. PICK table \in tables : m = Renamed(table)
      BY <2>2
    <3>3. Apply(m, c.opts[i]) = [m EXCEPT !.table = c.opts[i].name]
      <4> HIDE DEF S
      <4> QED
        BY <2>2, <3>1 DEF Apply
    <3>4. Apply(m, c.opts[i]) = Renamed(c.opts[i].name) /\ c.opts[i].name \in tables
      BY <3>2, <3>3
    <3> HIDE DEF tables, p
    <3> QED
      BY <3>4
  <2> HIDE DEF S
  <2> QED
    BY <2>1, <2>2
<1>4. Steps(S, n, step)
  <2> HIDE DEF S
  <2> QED
    BY <1>3 DEF Steps
<1>5. PICK f : Iterates(f, S, p, n, step)
  <2> HIDE DEF S, step, p, n
  <2> QED
    BY <1>1, <1>2, <1>4, IterationExists
<1> DEFINE Def(stage) == [i \in 0 .. n |-> IF i = 0 THEN p ELSE Apply(stage[i - 1], c.opts[i])]
           stage == CHOOSE stage : stage = Def(stage)
<1>6. f = Def(f)
  <2>1. ASSUME NEW i \in 1 .. n PROVE f[i] = Apply(f[i - 1], c.opts[i])
    <3>1. i - 1 \in 0 .. n
      BY <1>1
    <3>2. f[i - 1] \in S
      <4> HIDE DEF S, n
      <4> QED
        BY <1>5, <3>1 DEF Iterates
    <3>3. step[<<f[i - 1], i>>] = Apply(f[i - 1], c.opts[i])
      <4> HIDE DEF S, n
      <4> QED
        BY <3>2
    <3> HIDE DEF S, step, p, n
    <3> QED
      BY <1>5, <3>3 DEF Iterates
  <2>2. \A i \in 0 .. n : f[i] = Def(f)[i]
    <3> HIDE DEF S, step, p, n
    <3> QED
      BY <1>1, <1>5, <2>1 DEF Iterates
  <2>3. DOMAIN f = 0 .. n /\ DOMAIN Def(f) = 0 .. n /\ f = [i \in DOMAIN f |-> f[i]]
        /\ Def(f) = [i \in DOMAIN Def(f) |-> Def(f)[i]]
    <3> HIDE DEF S, step, p, n
    <3> QED
      BY <1>5 DEF Iterates
  <2> HIDE DEF Def
  <2> QED
    BY <2>2, <2>3
<1>7. stage = Def(stage)
  <2> HIDE DEF Def
  <2> QED
    BY <1>6
<1>8. 0 .. n \subseteq {i \in 0 .. n : stage[i] \in S}
  <2> DEFINE P == {i \in 0 .. n : stage[i] \in S}
  <2>1. 0 \in P
    <3> HIDE DEF S, stage, p, n
    <3> QED
      BY <1>1, <1>2, <1>7
  <2>2. ASSUME NEW i \in 0 .. n, i < n, i \in P PROVE i + 1 \in P
    <3>1. i + 1 \in 1 .. n /\ i + 1 - 1 = i /\ stage[i] \in S
      <4> HIDE DEF S, stage, n
      <4> QED
        BY <1>1, <2>2
    <3>2. stage[i + 1] = Apply(stage[i], c.opts[i + 1])
      <4> HIDE DEF S, stage, p, n
      <4> QED
        BY <1>7, <3>1
    <3> HIDE DEF S, stage, n
    <3> QED
      BY <1>3, <3>1, <3>2
  <2> HIDE DEF P
  <2>3. 0 .. n \subseteq P
    BY <1>1, <2>1, <2>2, CountUp
  <2> QED
    BY <2>3 DEF P
<1>9. Made(c) = stage[n]
  BY DEF Made
<1>10. stage[n] \in S
  <2> HIDE DEF S, stage, n
  <2> QED
    BY <1>1, <1>8
<1>11. \A m \in S : m # NoModel => m.names = p.names /\ m.index = p.index
  <2> HIDE DEF p, tables
  <2> QED
    OBVIOUS
<1> HIDE DEF S, stage, n
<1> QED
  BY <1>9, <1>10, <1>11

\* SetColumns finds the fields of all columns that the names of such a model ask for.
LEMMA MirrorsReadBack ==
  ASSUME NEW m, Mirrors(m), Distinct(m)
  PROVE  SetColumns(m, SetToSeq({m.names[f] : f \in DOMAIN m.names})) = DOMAIN m.names
<1> DEFINE N == DOMAIN m.names
           C == {m.names[f] : f \in N}
           queried == SetToSeq(C)
<1>1. IsFiniteSet(C) /\ Cardinality(C) <= Cardinality(N) /\ Cardinality(C) \in Nat
  <2> DEFINE column == [f \in N |-> m.names[f]]
  <2>1. column \in Surjection(N, C)
    BY DEF Surjection
  <2>2. IsFiniteSet(N)
    BY DEF Mirrors
  <2> HIDE DEF N, C, column
  <2> QED
    BY <2>1, <2>2, FS_Surjection, FS_CardinalityType
<1>2. queried \in [1 .. Cardinality(C) -> C] /\ Len(queried) = Cardinality(C) /\ ToSet(queried) = C
  <2> HIDE DEF C
  <2> DEFINE k == Cardinality(C)
  <2>1. PICK h : h \in Bijection(1 .. k, C)
    BY <1>1, FS_CardinalityType DEF ExistsBijection
  <2>2. h \in [1 .. k -> C] /\ IsInjective(h)
    BY <2>1 DEF Bijection, Injection
  <2>3. queried \in [1 .. k -> C] /\ IsInjective(queried)
    BY <2>2 DEF SetToSeq
  <2> HIDE DEF queried
  <2>4. queried \in Surjection(1 .. k, C)
    <3>1. queried \in Injection(1 .. k, C)
      BY <2>3 DEF Injection
    <3>2. Cardinality(1 .. k) = k /\ IsFiniteSet(1 .. k)
      BY <1>1, FS_Interval
    <3> HIDE DEF k
    <3>3. Cardinality(1 .. k) = Cardinality(C)
      BY <3>2 DEF k
    <3> QED
      BY <1>1, <3>1, <3>3, FS_Injection
  <2>5. ToSet(queried) = C
    BY <2>3, <2>4 DEF Surjection, ToSet
  <2> QED
    BY <1>1, <2>3, <2>5
<1>3. \A f \in N : m.names[f] \in DOMAIN m.index /\ m.index[m.names[f]] = f
  BY DEF Mirrors
<1>4. {m.index[c] : c \in C} = N /\ C \subseteq DOMAIN m.index
  BY <1>3
<1>5. SetColumns(m, queried) = N
  <2> HIDE DEF queried, C
  <2> QED
    BY <1>1, <1>2, <1>4 DEF SetColumns
<1> QED
  BY <1>5

\* registry.Get and Register with SetColumns of the valuers: what a call stored is the
\* whole of what it made, a Get's only if that began when the map had none; and the
\* columns of a query are read back into their fields, where no column was renamed or is
\* shared.
THEOREM OptionsAreKept == RegistrySpec => []OptionsKept
<1>1. RegistryInit => RegistryInv
  <2> SUFFICES ASSUME RegistryInit PROVE RegistryInv
    OBVIOUS
  <2>1. \A g \in Goroutines : TypeOf(g) \in Types /\ call[g].opts \in Seq(Options)
    <3>1. <<>> \in Seq(Options) /\ OptionLists \subseteq Seq(Options)
      BY RegistryAssumption
    <3> QED
      BY <3>1 DEF RegistryInit, TypeOf
  <2> QED
    BY <2>1 DEF RegistryInit, RegistryInv, TypeOf, Places
<1>2. RegistryInv => LostByOverlapOnly
  BY DEF RegistryInv, LostByOverlapOnly, MayStore
<1>3. RegistryInv => ReadsBack
  <2> SUFFICES ASSUME RegistryInv, NEW type \in Types, models[type] # Nobody,
                      Distinct(models[type].model),
                      ~Renames(call[models[type].by].opts)
               PROVE  LET m == models[type].model IN
                      SetColumns(m, SetToSeq({m.names[f] : f \in DOMAIN m.names})) = DOMAIN m.names
    BY DEF ReadsBack
  <2> DEFINE m == models[type].model
             c == call[models[type].by]
  <2>1. m = Made(c) /\ m # NoModel /\ c.type \in Types /\ c.opts \in Seq(Options)
    BY DEF RegistryInv, MayStore, TypeOf
  <2>2. m.names = parseModel(c.type).names /\ m.index = parseModel(c.type).index
    BY <2>1, MapsAsParsed
  <2>3. Mirrors(m)
    <3>1. Mirrors(parseModel(c.type))
      BY <2>1, ParsedMirrors
    <3> HIDE DEF m, c
    <3> QED
      BY <2>2, <3>1 DEF Mirrors, Distinct
  <2> HIDE DEF m
  <2> QED
    BY <2>3, MirrorsReadBack DEF m
<1> QED
  BY <1>1, <1>2, <1>3, KeepsRegistryInv, PTL DEF RegistrySpec, OptionsKept
==================================================================================
