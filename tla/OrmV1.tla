---------------------------------- MODULE OrmV1 ----------------------------------
(***************************************************************************)
(* The SELECT builder of orm/homework1.                                    *)
(***************************************************************************)
EXTENDS SqlText

CONSTANTS TableName,   \* model.TableName
          Fields       \* model.FieldMap: from the names of fields to those of columns

BuildColumn(b, field, alias) ==
  IF field \notin DOMAIN Fields THEN Fail(b) ELSE PutAs(b ++ Name(Fields[field]), alias)

BuildAggregate(b, a, useAlias) ==
  PutAs(BuildColumn(b ++ (Word(a.fn) \o Word("(")), a.arg, "") ++ Word(")"),
        IF useAlias THEN a.alias ELSE "")

RECURSIVE BuildExpression(_, _)

\* One side of a predicate; a predicate in it is put in parentheses.
BuildSide(b, e) ==
  IF e.is = "pred" THEN BuildExpression(b ++ Word("("), e) ++ Word(")")
                   ELSE BuildExpression(b, e)

BuildExpression(b, e) ==
  CASE e.is = "nil" -> b
    [] e.is = "col" -> BuildColumn(b, e.name, "")
    [] e.is = "val" -> PutValue(b, e.val)
    [] e.is = "agg" -> BuildAggregate(b, e, FALSE)
    [] e.is = "raw" -> PutRaw(b, e)
    [] e.is = "pred" ->
         BuildSide(PutOp(BuildSide(b, e.left), e.op), e.right)

BuildPredicates(b, ps) == BuildExpression(b, FoldLeft(And, Head(ps), Tail(ps)))

BuildSelectable(b, c) ==
  CASE c.is = "col" -> BuildColumn(b, c.name, c.alias)
    [] c.is = "agg" -> BuildAggregate(b, c, TRUE)
    [] c.is = "raw" -> PutRaw(b, c)

BuildColumns(b, q) ==
  IF q.columns = <<>> THEN b ++ Word("*") ELSE PutList(BuildSelectable, b, q.columns)

BuildFrom(b, q) ==
  b ++ (Word("FROM") \o (IF q.table.is = "nil" THEN Name(TableName) ELSE q.table.text))

BuildWhere(b, q) ==
  IF q.where = <<>> THEN b ELSE BuildPredicates(b ++ Word("WHERE"), q.where)

BuildGroupBy(b, q) ==
  IF q.groupBy = <<>> THEN b
  ELSE PutList(LAMBDA c, col : BuildColumn(c, col.name, col.alias), b ++ Word("GROUP BY"), q.groupBy)

BuildHaving(b, q) ==
  IF q.having = <<>> THEN b ELSE BuildPredicates(b ++ Word("HAVING"), q.having)

BuildOrderBy(b, q) ==
  IF q.orderBy = <<>> THEN b
  ELSE PutList(LAMBDA c, ob : BuildColumn(c, ob.col, "") ++ Word(ob.order),
               b ++ Word("ORDER BY"), q.orderBy)

BuildLimit(b, q) == PutLimit(b, "LIMIT", q.limit)
BuildOffset(b, q) == PutLimit(b, "OFFSET", q.offset)

\* Selector.Build: neither sb nor args is reset, so a second call adds to the first.
BuildSelect(b, q) ==
  LET columns == BuildColumns(b ++ Word("SELECT"), q)
      grouped == BuildHaving(BuildGroupBy(BuildWhere(BuildFrom(columns, q), q), q), q)
  IN  BuildOffset(BuildLimit(BuildOrderBy(grouped, q), q), q) ++ Word(";")
==================================================================================
