---------------------------------- MODULE OrmV2 ----------------------------------
(***************************************************************************)
(* The builders of orm/homework2: SELECT, INSERT with what to do with      *)
(* duplicates, and UPDATE.                                                 *)
(***************************************************************************)
EXTENDS SqlText

CONSTANTS TableName,    \* model.TableName
          Fields,       \* model.FieldMap: from the names of fields to those of columns
          FieldOrder    \* model.Fields: the names of the fields, in their order

-----------------------------------------------------------------------------
(* builder.                                                                *)

BuildColumn(b, field) ==
  IF field \notin DOMAIN Fields THEN Fail(b) ELSE b ++ Name(Fields[field])

BuildAggregate(b, a, useAlias) ==
  PutAs(BuildColumn(b ++ (Word(a.fn) \o Word("(")), a.arg) ++ Word(")"),
        IF useAlias THEN a.alias ELSE "")

RECURSIVE BuildExpression(_, _)

\* Mutant: the operands of an operator are put down as they are.
BuildBare(b, e) == BuildExpression(b, e)

BuildSubExpr(b, e) ==
  IF e.is \in {"pred", "math"} THEN BuildExpression(b ++ Word("("), e) ++ Word(")")
                               ELSE BuildExpression(b, e)

BuildBinaryExpr(b, e) ==
  BuildSubExpr(PutOp(BuildSubExpr(b, e.left), e.op), e.right)

BuildExpression(b, e) ==
  CASE e.is = "nil" -> b
    [] e.is = "col" -> BuildColumn(b, e.name)
    [] e.is = "agg" -> BuildAggregate(b, e, FALSE)
    [] e.is = "val" -> PutValue(b, e.val)
    [] e.is = "raw" -> PutRaw(b, e)
    [] e.is \in {"pred", "math"} -> BuildBinaryExpr(b, e)

BuildPredicates(b, ps) == BuildExpression(b, FoldLeft(And, Head(ps), Tail(ps)))

BuildWhere(b, q) ==
  IF q.where = <<>> THEN b ELSE BuildPredicates(b ++ Word("WHERE"), q.where)

-----------------------------------------------------------------------------
(* Selector.                                                               *)

BuildSelectable(b, c) ==
  CASE c.is = "col" -> PutAs(BuildColumn(b, c.name), c.alias)
    [] c.is = "agg" -> BuildAggregate(b, c, TRUE)
    [] c.is = "raw" -> PutRaw(b, c)

BuildColumns(b, q) ==
  IF q.columns = <<>> THEN b ++ Word("*") ELSE PutList(BuildSelectable, b, q.columns)

BuildGroupBy(b, q) ==
  IF q.groupBy = <<>> THEN b
  ELSE PutList(LAMBDA c, col : BuildColumn(c, col.name), b ++ Word("GROUP BY"), q.groupBy)

BuildHaving(b, q) ==
  IF q.having = <<>> THEN b ELSE BuildPredicates(b ++ Word("HAVING"), q.having)

\* Selector.Build: neither sb nor args is reset.
BuildSelect(b, q) ==
  LET from == BuildColumns(b ++ Word("SELECT"), q)
                ++ (Word("FROM") \o (IF q.table.is = "nil" THEN Name(TableName) ELSE q.table.text))
      having == BuildHaving(BuildGroupBy(BuildWhere(from, q), q), q)
  IN  PutLimit(PutLimit(having, "LIMIT", q.limit), "OFFSET", q.offset) ++ Word(";")

-----------------------------------------------------------------------------
(* Inserter.  A row is a function from the names of fields to values.      *)

UpsertItem(dialect, b, a) ==
  CASE a.is = "col" ->
         BuildColumn(b, a.name)
           ++ (Op("=") \o Proposed(dialect, IF a.name \in DOMAIN Fields THEN Fields[a.name] ELSE ""))
    [] a.is = "assign" -> BuildExpression(BuildColumn(b, a.column) ++ Op("="), a.val)
    [] OTHER -> Fail(b)

UpsertItems(b, dialect, assigns) ==
  PutList(LAMBDA c, a : UpsertItem(dialect, c, a), b, UpToAssignment(assigns))

BuildUpsertMySQL(b, upsert) ==
  UpsertItems(b ++ Word("ON DUPLICATE KEY UPDATE"), "mysql", upsert.assigns)

ConflictColumns(b, columns) ==
  IF columns = <<>> THEN b ELSE PutList(BuildColumn, b ++ Word("("), columns) ++ Word(")")

BuildUpsertSQLite(b, upsert) ==
  UpsertItems(ConflictColumns(b ++ Word("ON CONFLICT"), upsert.conflictColumns)
                ++ Word("DO UPDATE SET"),
              "sqlite", upsert.assigns)

BuildUpsert(b, upsert) ==
  CASE upsert.dialect = "none" -> b
    [] upsert.dialect = "mysql" -> BuildUpsertMySQL(b, upsert)
    [] upsert.dialect = "sqlite" -> BuildUpsertSQLite(b, upsert)

\* Inserter.Build.  It resets args, but not sb.
BuildInsert(b, q) ==
  LET fields == IF q.columns = <<>> THEN FieldOrder ELSE q.columns
      head == b ++ (Word("INSERT INTO") \o Name(TableName) \o Word("("))
      columns == PutList(BuildColumn, [head EXCEPT !.args = <<>>], fields)
      Row(c, row) ==
        PutList(LAMBDA d, f : PutValue(d, row[f]), c ++ Word("("), fields) ++ Word(")")
      rows == PutList(Row, columns ++ (Word(")") \o Word("VALUES")), q.values)
  IN  IF q.values = <<>> \/ \E i \in DOMAIN fields : fields[i] \notin DOMAIN Fields
        THEN Fail(b) ELSE BuildUpsert(rows, q.upsert) ++ Word(";")

-----------------------------------------------------------------------------
(* Updater.                                                                *)

BuildAssignment(b, a) == BuildExpression(BuildColumn(b, a.column) ++ Op("="), a.val)

BuildAssignable(b, val, a) ==
  CASE a.is = "col" /\ a.name \in DOMAIN Fields ->
         PutValue(BuildColumn(b, a.name) ++ Op("="), val[a.name])
    [] a.is = "assign" -> BuildAssignment(b, a)
    [] OTHER -> Fail(b)

BuildUpdate(b, q) ==
  LET set == PutList(LAMBDA c, a : BuildAssignable(c, q.val, a),
                     b ++ (Word("UPDATE") \o Name(TableName) \o Word("SET")), q.assigns)
  IN  IF q.assigns = <<>> THEN Fail(b) ELSE BuildWhere(set, q) ++ Word(";")

\* An assignment for each field of a row that is not zero.
AssignNotZeroColumns(row) ==
  LET set == SelectSeq(FieldOrder, LAMBDA f : row[f] # 0)
  IN  [i \in DOMAIN set |-> Assign(set[i], Val(row[set[i]]))]
==================================================================================
