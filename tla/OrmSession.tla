------------------------------- MODULE OrmSession -------------------------------
(***************************************************************************)
(* The sessions of orm/homework3: tasks that share the connections of one  *)
(* DB.  A task runs a function in a transaction with DoTx, or by hand      *)
(* (BeginTx, defer RollbackIfNotCommit, Commit), or makes one statement.   *)
(* A function may make statements with the DB as well, for which it needs  *)
(* a second connection; those it makes with the Tx use the one it has.     *)
(*                                                                         *)
(* database/sql and the driver are not in the repository: they are         *)
(* modelled as the code uses them.  A context that ends rolls back the     *)
(* transaction and closes the rows that were opened with it; Commit is     *)
(* refused once the context has ended, and Commit and Rollback once the    *)
(* transaction is done.                                                    *)
(***************************************************************************)
EXTENDS Naturals, FiniteSets

CONSTANTS Tasks,
          MaxOpen,       \* the pool's SetMaxOpenConns
          MaxStatements  \* bound: statements a task makes with the DB

ASSUME PoolAssumption == IsFiniteSet(Tasks) /\ MaxOpen \in Nat \ {0} /\ MaxStatements \in Nat \ {0}

VARIABLES kind,     \* "DoTx", "byHand" or "statement"
          pc,       \* what the task does: "begin" and "db" wait for a connection
          tx, verdict, told,   \* those of TxOutcome
          made,     \* how many statements the task has made with the DB
          rows,     \* the rows left open, as <<task, statement>>: each holds a connection
          ended     \* the tasks whose context has ended

vars == <<kind, pc, tx, verdict, told, made, rows, ended>>

Kinds == {"DoTx", "byHand", "statement"}

TypeOK ==
  /\ kind \in [Tasks -> Kinds]
  /\ pc \in [Tasks -> {"begin", "fn", "db", "finish", "deferred", "done"}]
  /\ tx \in [Tasks -> {"none", "open", "committed", "rolledback"}]
  /\ verdict \in [Tasks -> {"none", "ok", "err", "panic"}]
  /\ told \in [Tasks -> {"none", "nil", "err", "panic"}]
  /\ made \in [Tasks -> 0 .. MaxStatements]
  /\ rows \subseteq Tasks \X (1 .. MaxStatements)
  /\ \A r \in rows : r[2] <= made[r[1]]
  /\ ended \subseteq Tasks

Init ==
  /\ kind \in [Tasks -> Kinds]
  /\ pc = [t \in Tasks |-> IF kind[t] = "statement" THEN "db" ELSE "begin"]
  /\ tx = [t \in Tasks |-> "none"]
  /\ verdict = [t \in Tasks |-> "none"]
  /\ told = [t \in Tasks |-> "none"]
  /\ made = [t \in Tasks |-> 0]
  /\ rows = {} /\ ended = {}

OpenTxs == {t \in Tasks : tx[t] = "open"}
InUse == Cardinality(OpenTxs) + Cardinality(rows)
HasConn(t) == t \notin ended /\ InUse < MaxOpen
Tell(t, answer) == told' = [told EXCEPT ![t] = answer]
Go(t, where) == pc' = [pc EXCEPT ![t] = where]

-----------------------------------------------------------------------------
(* Statements with the DB.                                                 *)

\* db.db.BeginTx: a connection, or an error of the context or of the driver.
BeginTx(t) ==
  /\ pc[t] = "begin"
  /\ \/ /\ HasConn(t)
        /\ tx' = [tx EXCEPT ![t] = "open"] /\ Go(t, "fn")
        /\ UNCHANGED told
     \/ /\ HasConn(t) \/ t \in ended
        /\ Tell(t, "err") /\ Go(t, "done")
        /\ UNCHANGED tx
  /\ UNCHANGED <<kind, verdict, made, rows, ended>>

UseDB(t) ==
  /\ pc[t] = "fn" /\ made[t] < MaxStatements
  /\ Go(t, "db")
  /\ UNCHANGED <<kind, tx, verdict, told, made, rows, ended>>

AfterStatement(t) == Go(t, IF kind[t] = "statement" THEN "done" ELSE "fn")

\* getHandler closes no rows: those it found one in stay open, and hold their
\* connection.  Rows without one close themselves.
LeftOpen(t, found) == IF found THEN {<<t, made[t] + 1>>} ELSE {}

\* An INSERT, an UPDATE or a Get that finds nothing gives its connection back.
Statement(t) ==
  /\ pc[t] = "db"
  /\ \/ HasConn(t) /\ \E found \in BOOLEAN : rows' = rows \cup LeftOpen(t, found)
     \/ t \in ended /\ UNCHANGED rows
  /\ made' = [made EXCEPT ![t] = @ + 1]
  /\ AfterStatement(t)
  /\ UNCHANGED <<kind, tx, verdict, told, ended>>

-----------------------------------------------------------------------------
(* The end of a transaction.                                               *)

Fn(t) ==
  /\ pc[t] = "fn"
  /\ \E v \in {"ok", "err", "panic"} :
       /\ verdict' = [verdict EXCEPT ![t] = v]
       /\ Go(t, IF kind[t] = "byHand" /\ v # "ok" THEN "deferred" ELSE "finish")
  /\ UNCHANGED <<kind, tx, told, made, rows, ended>>

\* Mutant: only the error of fn is looked at.
ErrOnly(t) == verdict[t] = "err"

\* panicked || err != nil
Failed(t) == verdict[t] \in {"err", "panic"}

\* tx.Commit: refused when the context has ended or the transaction is done; made,
\* with an answer that may get lost; or failed, and then nothing is kept.
Commit(t) ==
  \/ /\ t \in ended \/ tx[t] # "open"
     /\ Tell(t, "err") /\ UNCHANGED tx
  \/ /\ t \notin ended /\ tx[t] = "open"
     /\ \E fate \in {"committed", "rolledback"} : tx' = [tx EXCEPT ![t] = fate]
     /\ \E answer \in {"nil", "err"} :
          /\ tx'[t] = "rolledback" => answer = "err"
          /\ Tell(t, answer)

\* Mutant: the transaction of a function that panicked is left alone.
RollbackIfErr(t) ==
  tx' = [tx EXCEPT ![t] = IF @ = "open" /\ verdict[t] # "panic" THEN "rolledback" ELSE @]

\* tx.Rollback: ErrTxDone when there is nothing left to roll back.
Rollback(t) == tx' = [tx EXCEPT ![t] = IF @ = "open" THEN "rolledback" ELSE @]

TellFailure(t) == Tell(t, IF verdict[t] = "panic" THEN "panic" ELSE "err")

\* The deferred function of DoTx: a panic goes on after it.
FinishDoTx(t) ==
  /\ pc[t] = "finish" /\ kind[t] = "DoTx"
  /\ IF Failed(t) THEN Rollback(t) /\ TellFailure(t) ELSE Commit(t)
  /\ Go(t, "done")
  /\ UNCHANGED <<kind, verdict, made, rows, ended>>

CommitByHand(t) ==
  /\ pc[t] = "finish" /\ kind[t] = "byHand"
  /\ Commit(t)
  /\ Go(t, "deferred")
  /\ UNCHANGED <<kind, verdict, made, rows, ended>>

\* The caller hears of its own Commit, not of this.
RollbackIfNotCommit(t) ==
  /\ pc[t] = "deferred"
  /\ Rollback(t)
  /\ IF told[t] = "none" THEN TellFailure(t) ELSE UNCHANGED told
  /\ Go(t, "done")
  /\ UNCHANGED <<kind, verdict, made, rows, ended>>

-----------------------------------------------------------------------------
(* The caller's context, and what database/sql does when it ends.          *)

EndContext(t) ==
  /\ t \notin ended
  /\ ended' = ended \cup {t}
  /\ UNCHANGED <<kind, pc, tx, verdict, told, made, rows>>

CtxRollback(t) ==
  /\ t \in ended /\ tx[t] = "open"
  /\ tx' = [tx EXCEPT ![t] = "rolledback"]
  /\ UNCHANGED <<kind, pc, verdict, told, made, rows, ended>>

CtxCloseRows(t) ==
  /\ t \in ended
  /\ \E r \in rows : r[1] = t /\ rows' = rows \ {r}
  /\ UNCHANGED <<kind, pc, tx, verdict, told, made, ended>>

-----------------------------------------------------------------------------
Step(t) ==
  \/ BeginTx(t) \/ UseDB(t) \/ Statement(t) \/ Fn(t)
  \/ FinishDoTx(t) \/ CommitByHand(t) \/ RollbackIfNotCommit(t)

AwaitDone(t) == CtxRollback(t) \/ CtxCloseRows(t)

Next == \E t \in Tasks : Step(t) \/ AwaitDone(t) \/ EndContext(t)

\* A task goes on when it can, and so does database/sql; a context need not end.
Fairness == \A t \in Tasks : WF_vars(Step(t)) /\ WF_vars(AwaitDone(t))

Spec == Init /\ [][Next]_vars /\ Fairness

-----------------------------------------------------------------------------
(* Properties.                                                             *)

Outcome == INSTANCE TxOutcome

\* A transaction commits only if its function ended well, is committed or given up
\* once, and its caller is told nil only if it committed (DoTx, RollbackIfNotCommit).
ImplementsTx == Outcome!Spec

\* The task waits for a connection that is never given back: each is held by rows that
\* nobody closes or by a transaction whose function waits for a second one, and none of
\* their contexts has ended.
Starved(t) ==
  /\ pc[t] \in {"begin", "db"} /\ t \notin ended
  /\ InUse = MaxOpen
  /\ \A u \in OpenTxs : pc[u] = "db" /\ u \notin ended
  /\ \A r \in rows : r[1] \notin ended

\* Every task comes to its end, with its transaction committed or given up, or starves.
TxEnds == <>[](\A t \in Tasks : Starved(t) \/ (pc[t] = "done" /\ tx[t] # "open"))
==================================================================================
