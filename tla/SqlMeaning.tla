------------------------------- MODULE SqlMeaning -------------------------------
(***************************************************************************)
(* What the queries given to the builders of orm/ mean: the sequence that  *)
(* a database has to read in the text that is built, with the tables and   *)
(* the operators that the caller named, whatever became of them.  A name   *)
(* that cannot be known makes the query one that has to be refused.        *)
(***************************************************************************)
EXTENDS SqlText

CONSTANT Models    \* from entities to [table, fields]

Unknown == "unknown field"

FieldOf(entity, field) ==
  IF field \in DOMAIN Models[entity].fields THEN Models[entity].fields[field] ELSE Unknown

RECURSIVE NameIn(_, _, _)

\* The name under which a table offers a field: a subquery, by the alias it selects
\* the field under, or else by its name inside.
NameIn(entity, table, field) ==
  CASE table.is = "nil" -> FieldOf(entity, field)
    [] table.is = "table" -> FieldOf(table.entity, field)
    [] table.is = "join" -> LET left == NameIn(entity, table.left, field)
                            IN  IF left = Unknown THEN NameIn(entity, table.right, field) ELSE left
    [] table.is = "sub" /\ table.columns = <<>> -> NameIn(table.q.entity, table.table, field)
    [] table.is = "sub" /\ table.columns # <<>> ->
         IF \E i \in DOMAIN table.columns : table.columns[i].alias = field THEN field
         ELSE IF \E i \in DOMAIN table.columns :
                   table.columns[i].name = field /\ table.columns[i].alias = ""
           THEN LET c == CHOOSE c \in ToSet(table.columns) : c.name = field /\ c.alias = ""
                IN  NameIn(table.q.entity, c.of, field)
         ELSE Unknown

Column(entity, table, field) ==
  LET alias == IF table.is \in {"table", "sub"} THEN table.alias ELSE ""
  IN  (IF alias = "" THEN <<>> ELSE Names(<<alias>>) \o Words(<<".">>))
        \o Names(<<NameIn(entity, table, field)>>)

As(alias) == IF alias = "" THEN <<>> ELSE Words(<<"AS">>) \o Names(<<alias>>)

Verbatim(raw) == Read([sb |-> raw.text, args |-> raw.args]).out

RECURSIVE Tree(_, _, _), Select(_, _), From(_, _, _)

\* An expression in order; d is the number of parentheses around it.
Tree(entity, e, d) ==
  LET Side(s) == Tree(entity, s, IF s.is \in {"pred", "math"} THEN d + 1 ELSE d) IN
  CASE e.is = "nil" -> <<>>
    [] e.is = "col" -> Column(entity, e.of, e.name)
    [] e.is = "val" -> <<<<"value", e.val>>>>
    [] e.is = "raw" -> Verbatim(e)
    [] e.is = "agg" -> Words(<<e.fn>>) \o Column(entity, e.table, e.arg)
    [] e.is \in {"pred", "math"} ->
         Side(e.left) \o (IF e.op = "" THEN <<>> ELSE <<<<"op", e.means, d>>>>) \o Side(e.right)
    [] e.is = "some" -> Words(<<e.pred>>) \o Select(e.sub.q, d + 1)
    [] e.is = "sub" -> Select(e.q, d + 1)

Conjunction(entity, ps, d) == Tree(entity, FoldLeft(And, Head(ps), Tail(ps)), d)

From(entity, table, d) ==
  CASE table.is = "nil" -> Names(<<Models[entity].table>>)
    [] table.is = "raw" -> Verbatim(table)
    [] table.is = "table" -> Names(<<Models[table.entity].table>>) \o As(table.alias)
    [] table.is = "sub" -> Select(table.q, d + 1) \o As(table.alias)
    [] table.is = "join" ->
         From(entity, table.left, d + 1) \o Words(<<table.typ>>) \o From(entity, table.right, d + 1)
           \o (IF table.using = <<>> THEN <<>>
               ELSE Words(<<"USING">>) \o Each(LAMBDA f : Column(entity, NoTable, f), table.using))
           \o (IF table.on = <<>> THEN <<>>
               ELSE Words(<<"ON">>) \o Conjunction(entity, table.on, d + 1))

\* The clauses that are given, in the order that SQL wants them.
Select(q, d) ==
  LET Selected(c) == Tree(q.entity, c, d) \o (IF c.is = "raw" THEN <<>> ELSE As(c.alias))
      Clause(word, given, text) == IF given THEN Words(<<word>>) \o text ELSE <<>>
  IN  Words(<<"SELECT">>)
      \o (IF q.columns = <<>> THEN Words(<<"*">>) ELSE Each(Selected, q.columns))
      \o Words(<<"FROM">>) \o From(q.entity, q.table, d)
      \o Clause("WHERE", q.where # <<>>, Conjunction(q.entity, q.where, d))
      \o Clause("GROUP BY", q.groupBy # <<>>,
                Each(LAMBDA c : Column(q.entity, c.of, c.name), q.groupBy))
      \o Clause("HAVING", q.having # <<>>, Conjunction(q.entity, q.having, d))
      \o Clause("ORDER BY", q.orderBy # <<>>,
                Each(LAMBDA o : Column(q.entity, NoTable, o.col) \o Words(<<o.order>>), q.orderBy))
      \o Clause("LIMIT", q.limit > 0, <<<<"value", q.limit>>>>)
      \o Clause("OFFSET", q.offset > 0, <<<<"value", q.offset>>>>)

-----------------------------------------------------------------------------
(* INSERT and UPDATE.                                                      *)

Refused == Names(<<Unknown>>)

\* What a list of assignments means, a column alone being given the text New(column).
Assignments(entity, assigns, New(_)) ==
  Each(LAMBDA a :
         CASE a.is = "col" -> Column(entity, NoTable, a.name) \o <<<<"op", "=", 0>>>> \o New(a.name)
           [] a.is = "assign" -> Column(entity, NoTable, a.column) \o <<<<"op", "=", 0>>>>
                                   \o Tree(entity, a.val, 0)
           [] OTHER -> Refused,
       assigns)

OnDuplicate(entity, upsert) ==
  CASE upsert.dialect = "none" -> <<>>
    [] upsert.dialect = "mysql" ->
         Words(<<"ON DUPLICATE KEY UPDATE">>)
           \o Assignments(entity, upsert.assigns,
                LAMBDA f : Words(<<"VALUES">>) \o Column(entity, NoTable, f))
    [] upsert.dialect = "sqlite" ->
         Words(<<"ON CONFLICT">>)
           \o Each(LAMBDA f : Column(entity, NoTable, f), upsert.conflictColumns)
           \o Words(<<"DO UPDATE SET">>)
           \o Assignments(entity, upsert.assigns,
                LAMBDA f : Words(<<"excluded.">>) \o Column(entity, NoTable, f))

Insert(q, order) ==
  LET fields == IF q.columns = <<>> THEN order ELSE q.columns
      Value(row, f) == IF f \in DOMAIN row THEN <<<<"value", row[f]>>>> ELSE <<>>
  IN  Words(<<"INSERT INTO">>) \o Names(<<Models[q.entity].table>>)
      \o Each(LAMBDA f : Column(q.entity, NoTable, f), fields) \o Words(<<"VALUES">>)
      \o (IF q.values = <<>> THEN Refused
          ELSE Each(LAMBDA row : Each(LAMBDA f : Value(row, f), fields), q.values))
      \o OnDuplicate(q.entity, q.upsert)

Update(q) ==
  Words(<<"UPDATE">>) \o Names(<<Models[q.entity].table>>) \o Words(<<"SET">>)
  \o (IF q.assigns = <<>> THEN Refused
      ELSE Assignments(q.entity, q.assigns,
             LAMBDA f : IF f \in DOMAIN q.val THEN <<<<"value", q.val[f]>>>> ELSE <<>>))
  \o (IF q.where = <<>> THEN <<>> ELSE Words(<<"WHERE">>) \o Conjunction(q.entity, q.where, 0))

\* A query that mentions an unknown name has to be refused, any other to be built.
HasToBeRefused(meant) == \E i \in DOMAIN meant : meant[i] = <<"name", Unknown>>

Sound(b, meant) ==
  IF HasToBeRefused(meant) THEN b.err
  ELSE ~b.err /\ ReadsAs(b, meant \o Words(<<";">>))
==================================================================================
