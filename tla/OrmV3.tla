---------------------------------- MODULE OrmV3 ----------------------------------
(***************************************************************************)
(* The SELECT builder of orm/homework3, with joins and subqueries.         *)
(*                                                                         *)
(* A selector is a record q; q.entity is its T.  A subquery holds the      *)
(* selector it was made of, by the name id, and building the subquery      *)
(* builds that selector, in its own buffer: bufs[id].                      *)
(***************************************************************************)
EXTENDS SqlText, FiniteSetsExt

CONSTANTS Models,    \* the registry: from entities to [table, fields]
          Selectors  \* the selectors that subqueries are made of

\* What colName returns with an error.
Unknown == "unknown field"

\* builder: besides the text and the arguments, the model and the other buffers.
NewSelector(entity) ==
  [sb |-> <<>>, args |-> <<>>, err |-> FALSE, model |-> entity,
   bufs |-> [id \in Selectors |-> [sb |-> <<>>, args |-> <<>>]]]

-----------------------------------------------------------------------------
(* Tables and subqueries.                                                  *)

Table(entity, alias) == [is |-> "table", entity |-> entity, alias |-> alias]
JoinOn(left, typ, right, on) ==
  [is |-> "join", left |-> left, typ |-> typ, right |-> right, on |-> on, using |-> <<>>]
JoinUsing(left, typ, right, using) ==
  [is |-> "join", left |-> left, typ |-> typ, right |-> right, on |-> <<>>, using |-> using]

AsSubquery(q, id, alias) ==
  [is |-> "sub", id |-> id, q |-> q, alias |-> alias, columns |-> q.columns,
   table |-> IF q.table = NoTable THEN Table(q.entity, "") ELSE q.table]

Some(sub) == [is |-> "some", pred |-> "SOME", sub |-> sub]
Exist(sub) == [Binary("pred", Nil, "EXIST", sub) EXCEPT !.means = "EXISTS"]

TableAlias(table) == IF table.is \in {"table", "sub"} THEN table.alias ELSE ""

\* selectedAlias, fieldName and target of what a subquery selects.
SelectedAlias(c) == IF c.is = "raw" THEN "" ELSE c.alias
FieldName(c) == CASE c.is = "col" -> c.name [] c.is = "agg" -> c.arg [] OTHER -> ""
Target(c) == IF c.is = "raw" THEN NoTable ELSE c.table

FieldOf(entity, field) ==
  IF field \in DOMAIN Models[entity].fields THEN Models[entity].fields[field] ELSE Unknown

-----------------------------------------------------------------------------
(* Columns.                                                                *)

RECURSIVE ColName(_, _, _)

\* For a field that the left side of a join does not have, the empty name is returned,
\* without an error; for one that it has, what the right side says.
ColNameOfJoin(model, join, field) ==
  IF ColName(model, join.left, field) = Unknown THEN "" ELSE ColName(model, join.right, field)

ColNameOfSubquery(model, sub, field) ==
  LET hits == {i \in DOMAIN sub.columns :
                 field \in {SelectedAlias(sub.columns[i]), FieldName(sub.columns[i])}}
  IN  IF sub.columns = <<>> THEN ColName(model, sub.table, field)
      ELSE IF hits = {} THEN Unknown
      ELSE LET c == sub.columns[Min(hits)]
           IN  IF SelectedAlias(c) = field THEN field ELSE ColName(model, Target(c), field)

ColName(model, table, field) ==
  CASE table.is = "nil" -> FieldOf(model, field)
    [] table.is = "table" -> FieldOf(table.entity, field)
    [] table.is = "join" -> ColNameOfJoin(model, table, field)
    [] table.is = "sub" -> ColNameOfSubquery(model, table, field)

BuildColumn(b, table, field) ==
  LET alias == TableAlias(table)
      name == ColName(b.model, table, field)
      prefix == IF alias = "" THEN <<>> ELSE Name(alias) \o Word(".")
  IN  IF name = Unknown THEN Fail(b) ELSE b ++ (prefix \o Name(name))

BuildAggregate(b, a, useAlias) ==
  PutAs(BuildColumn(b ++ (Word(a.fn) \o Word("(")), a.table, a.arg) ++ Word(")"),
        IF useAlias THEN a.alias ELSE "")

-----------------------------------------------------------------------------
(* Expressions, tables and selectors, which contain one another.           *)

RECURSIVE BuildSelect(_, _), BuildExpression(_, _), BuildTable(_, _)

\* b with the text of the selector inner, without its last character, the semicolon.
PutSubquery(b, id, inner) ==
  LET c == [b EXCEPT !.bufs = [inner.bufs EXCEPT ![id] = [sb |-> inner.sb, args |-> inner.args]]]
  IN  IF inner.err THEN Fail(c)
      ELSE AddArgs(c ++ (Word("(") \o Front(inner.sb) \o Word(")")), inner.args)

Own(b, sub) ==
  [sb |-> b.bufs[sub.id].sb, args |-> b.bufs[sub.id].args, err |-> FALSE,
   model |-> sub.q.entity, bufs |-> b.bufs]

BuildSubquery(b, sub, useAlias) ==
  IF b.err THEN b
  ELSE PutSubquery(b, sub.id, BuildSelect(Own(b, sub), sub.q))
         ++ (IF useAlias THEN Word("AS") \o Name(sub.alias) ELSE <<>>)

BuildSubExpr(b, e) ==
  IF e.is \in {"pred", "math"} THEN BuildExpression(b ++ Word("("), e) ++ Word(")")
                               ELSE BuildExpression(b, e)

BuildBinaryExpr(b, e) ==
  BuildSubExpr(PutOp(BuildSubExpr(b, e.left), e.op), e.right)

BuildExpression(b, e) ==
  CASE e.is = "nil" -> b
    [] e.is = "col" -> BuildColumn(b, e.table, e.name)
    [] e.is = "agg" -> BuildAggregate(b, e, FALSE)
    [] e.is = "val" -> PutValue(b, e.val)
    [] e.is = "raw" -> PutRaw(b, e)
    [] e.is \in {"pred", "math"} -> BuildBinaryExpr(b, e)
    [] e.is = "some" -> BuildSubquery(b ++ Word(e.pred), e.sub, FALSE)
    [] e.is = "sub" -> BuildSubquery(b, e, FALSE)

BuildPredicates(b, ps) == BuildExpression(b, FoldLeft(And, Head(ps), Tail(ps)))

BuildPlainColumns(b, fields) == PutList(LAMBDA c, f : BuildColumn(c, NoTable, f), b, fields)

BuildUsing(b, fields) ==
  IF fields = <<>> THEN b
  ELSE BuildPlainColumns(b ++ (Word("USING") \o Word("(")), fields) ++ Word(")")

BuildClause(b, word, ps) == IF ps = <<>> THEN b ELSE BuildPredicates(b ++ Word(word), ps)

BuildJoin(b, join) ==
  LET sides == BuildTable(BuildTable(b ++ Word("("), join.left) ++ Word(join.typ), join.right)
  IN  BuildClause(BuildUsing(sides, join.using), "ON", join.on) ++ Word(")")

BuildTable(b, table) ==
  CASE table.is = "nil" -> b ++ Name(Models[b.model].table)
    [] table.is = "table" -> PutAs(b ++ Name(Models[table.entity].table), table.alias)
    [] table.is = "join" -> BuildJoin(b, table)
    [] table.is = "sub" -> BuildSubquery(b, table, TRUE)

BuildSelectable(b, c) ==
  CASE c.is = "col" -> PutAs(BuildColumn(b, c.table, c.name), c.alias)
    [] c.is = "agg" -> BuildAggregate(b, c, TRUE)
    [] c.is = "raw" -> PutRaw(b, c)

BuildColumns(b, q) ==
  IF q.columns = <<>> THEN b ++ Word("*") ELSE PutList(BuildSelectable, b, q.columns)

BuildGroupBy(b, columns) ==
  IF columns = <<>> THEN b
  ELSE PutList(LAMBDA c, col : BuildColumn(c, col.table, col.name), b ++ Word("GROUP BY"), columns)

\* Selector.Build: neither sb nor args is reset.
BuildSelect(b, q) ==
  LET from == BuildTable(BuildColumns(b ++ Word("SELECT"), q) ++ Word("FROM"), q.table)
      grouped == BuildGroupBy(BuildClause(from, "WHERE", q.where), q.groupBy)
      having == BuildClause(grouped, "HAVING", q.having)
  IN  PutLimit(PutLimit(having, "LIMIT", q.limit), "OFFSET", q.offset) ++ Word(";")
==================================================================================
