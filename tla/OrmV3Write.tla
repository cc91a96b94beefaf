------------------------------- MODULE OrmV3Write -------------------------------
(***************************************************************************)
(* The INSERT and UPDATE builders of orm/homework3, on the expressions,    *)
(* columns and subqueries of its SELECT builder.                           *)
(***************************************************************************)
EXTENDS OrmV3

CONSTANT FieldOrder    \* model.Fields: the names of the fields, in their order

TableName(b) == Models[b.model].table

-----------------------------------------------------------------------------
(* Inserter.  A row is a function from the names of fields to values.      *)

UpsertItem(dialect, b, a) ==
  CASE a.is = "col" ->
         LET name == ColName(b.model, a.table, a.name)
         IN  IF name = Unknown THEN Fail(b)
             ELSE b ++ (Name(name) \o Op("=") \o Proposed(dialect, name))
    [] a.is = "assign" -> BuildExpression(BuildColumn(b, NoTable, a.column) ++ Op("="), a.val)
    [] OTHER -> Fail(b)

UpsertItems(b, dialect, assigns) ==
  PutList(LAMBDA c, a : UpsertItem(dialect, c, a), b, UpToAssignment(assigns))

BuildUpsertMySQL(b, upsert) ==
  UpsertItems(b ++ Word("ON DUPLICATE KEY UPDATE"), "mysql", upsert.assigns)

ConflictColumns(b, columns) ==
  IF columns = <<>> THEN b ELSE BuildPlainColumns(b ++ Word("("), columns) ++ Word(")")

BuildUpsertSQLite(b, upsert) ==
  UpsertItems(ConflictColumns(b ++ Word("ON CONFLICT"), upsert.conflictColumns)
                ++ Word("DO UPDATE SET"),
              "sqlite", upsert.assigns)

BuildUpsert(b, upsert) ==
  CASE upsert.dialect = "none" -> b
    [] upsert.dialect = "mysql" -> BuildUpsertMySQL(b, upsert)
    [] upsert.dialect = "sqlite" -> BuildUpsertSQLite(b, upsert)

\* Inserter.Build.  It resets args, but not sb.
BuildInsert(b, q) ==
  LET fields == IF q.columns = <<>> THEN FieldOrder ELSE q.columns
      head == b ++ (Word("INSERT INTO") \o Name(TableName(b)) \o Word("("))
      columns == BuildPlainColumns([head EXCEPT !.args = <<>>], fields)
      Row(c, row) ==
        PutList(LAMBDA d, f : PutValue(d, row[f]), c ++ Word("("), fields) ++ Word(")")
      rows == PutList(Row, columns ++ (Word(")") \o Word("VALUES")), q.values)
  IN  IF q.values = <<>> \/ ~(ToSet(fields) \subseteq DOMAIN Models[b.model].fields)
        THEN Fail(b) ELSE BuildUpsert(rows, q.upsert) ++ Word(";")

-----------------------------------------------------------------------------
(* Updater.                                                                *)

BuildAssignment(b, a) == BuildExpression(BuildColumn(b, NoTable, a.column) ++ Op("="), a.val)

BuildAssignable(b, val, a) ==
  CASE a.is = "col" /\ a.name \in DOMAIN val ->
         PutValue(BuildColumn(b, a.table, a.name) ++ Op("="), val[a.name])
    [] a.is = "assign" -> BuildAssignment(b, a)
    [] OTHER -> Fail(b)

\* Updater.Build.  It resets neither.
BuildUpdate(b, q) ==
  LET set == PutList(LAMBDA c, a : BuildAssignable(c, q.val, a),
                     b ++ (Word("UPDATE") \o Name(TableName(b)) \o Word("SET")), q.assigns)
  IN  IF q.assigns = <<>> THEN Fail(b) ELSE BuildClause(set, "WHERE", q.where) ++ Word(";")
==================================================================================
