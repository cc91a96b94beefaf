---------------------------------- MODULE MCOrm ----------------------------------
(***************************************************************************)
(* The parts of orm/: the builders, of which each query of a bounded set   *)
(* asks one up to MaxBuilds times; the tasks that share a DB; and the      *)
(* goroutines that share a registry of models.  part says which runs.      *)
(***************************************************************************)
EXTENDS SqlText, OrmSession, ModelRegistry

CONSTANT MaxBuilds

VARIABLES query, b, builds, part

builder == <<query, b, builds>>

\* A type as it comes, one with tags, and values that cannot be parsed.
Field(name, snake, tag) == [name |-> name, snake |-> snake, tag |-> tag]
Type(pointer, fields) ==
  [pointer |-> pointer, snake |-> "user", tableName |-> "", fields |-> fields]
Plain == Type(TRUE, <<Field("Id", "id", ""), Field("FirstName", "first_name", "")>>)
Tagged == [Type(TRUE, <<Field("Id", "id", "user_id"), Field("Age", "age", "")>>)
             EXCEPT !.tableName = "people"]
MCTypes ==
  {Plain, Tagged, Type(TRUE, <<Field("Id", "id", "same"), Field("Age", "age", "same")>>),
   Type(FALSE, <<Field("Id", "id", "")>>), Type(TRUE, <<Field("Id", "id", "malformed")>>)}

MCOptionLists ==
  {<<>>, <<WithTableName("t")>>, <<WithTableName("t"), WithColumnName("Id", "key")>>,
   <<WithTableName("u"), WithColumnName("Nope", "key")>>}

Models ==
  [User |-> [table |-> "user", fields |-> [Id |-> "id", Age |-> "age"]],
   Order |-> [table |-> "order", fields |-> [Id |-> "id", Num |-> "num"]],
   Detail |-> [table |-> "order_detail", fields |-> [OrderId |-> "order_id", Num |-> "num"]]]
Fields == Models["User"].fields
FieldOrder == <<"Id", "Age">>

V1 == INSTANCE OrmV1 WITH TableName <- "user"
V2 == INSTANCE OrmV2 WITH TableName <- "user"
V3 == INSTANCE OrmV3Write WITH Selectors <- {"s1", "s2"}
SQL == INSTANCE SqlMeaning

-----------------------------------------------------------------------------
(* SELECT queries for one table.                                           *)

PlainSelect(version, entity) ==
  [do |-> "select", version |-> version, entity |-> entity, table |-> NoTable, columns |-> <<>>,
   where |-> <<>>, groupBy |-> <<>>, having |-> <<>>, orderBy |-> <<>>, limit |-> 0, offset |-> 0]

Like == Raw(Name("name") \o Word("LIKE") \o Hole, <<4>>)
Leaves == {EQ(C("Id"), Val(1)), EQ(Agg("AVG", "Age"), Val(2)), EQ(C("Id"), C("Age")),
           EQ(C("Nope"), Val(3)), AsPredicate(Like)}
Pairs == {And(p, q) : p, q \in Leaves} \cup {Or(p, q) : p, q \in Leaves} \cup {Not(p) : p \in Leaves}
Trees == Leaves \cup Pairs \cup {Not(p) : p \in Pairs}
           \cup {Or(p, EQ(C("Age"), Val(5))) : p \in Pairs} \cup {And(EQ(C("Age"), Val(5)), p) : p \in Pairs}
TimesSix == EQ(Multi(C("Age"), 6), Val(7))
Sums == {EQ(Add(C("Age"), 6), Val(7)), EQ(C("Id"), Multi(Add(C("Age"), 6), 7)), TimesSix}

Conditions(trees) == {<<t>> : t \in trees} \cup (Leaves \X Leaves)
ColumnLists == {<<>>, <<C("Id")>>, <<C("Nope")>>,
                <<Named(C("Id"), "x"), Named(Agg("MAX", "Age"), "y"), Like, Agg("SUM", "Nope")>>,
                <<Named(C("Id"), "x"), Named(Agg("MAX", "Age"), "y"), Like>>}
GroupLists == {<<>>, <<C("Age"), C("Id")>>, <<Named(C("Age"), "x")>>}
OrderLists == {<<>>, <<[col |-> "Age", order |-> "ASC"], [col |-> "Id", order |-> "DESC"]>>}

Selects(version, trees, orderLists) ==
  {[PlainSelect(version, "User") EXCEPT !.where = w] : w \in Conditions(trees)}
  \cup {[PlainSelect(version, "User") EXCEPT
           !.columns = c, !.table = t, !.where = w, !.groupBy = g, !.having = h, !.orderBy = o,
           !.limit = l, !.offset = f] :
          c \in ColumnLists, t \in {NoTable, Raw(Word("db.user"), <<>>)},
          w \in {<<>>, <<EQ(C("Id"), Val(1))>>}, g \in GroupLists,
          h \in {<<>>, <<EQ(Agg("AVG", "Age"), Val(8))>>}, o \in orderLists,
          l \in {0, 10}, f \in {0, 20}}

-----------------------------------------------------------------------------
(* INSERT and UPDATE queries.                                              *)

Assigns == {C("Id"), Assign("Age", Val(9)), Assign("Age", Add(C("Age"), 6)),
            Assign("Id", C("Nope")), Like}
AssignLists == UNION {[1 .. n -> Assigns] : n \in 0 .. 3}
Rows == {<<>>, <<[Id |-> 11, Age |-> 0]>>, <<[Id |-> 11, Age |-> 12], [Id |-> 0, Age |-> 14]>>}

Inserts ==
  {[do |-> "insert", version |-> 2, entity |-> "User", columns |-> c, values |-> v, upsert |-> u] :
     c \in {<<>>, <<"Age">>, <<"Age", "Id">>, <<"Nope">>}, v \in Rows,
     u \in [dialect : {"none", "mysql"}, conflictColumns : {<<>>}, assigns : AssignLists]
             \cup [dialect : {"sqlite"}, conflictColumns : {<<>>, <<"Id", "Age">>, <<"Nope">>},
                   assigns : AssignLists]}

Updates ==
  {[do |-> "update", version |-> 2, entity |-> "User", assigns |-> a, val |-> [Id |-> 11, Age |-> 12], where |-> w] :
     a \in AssignLists \cup {V2!AssignNotZeroColumns(row) : row \in [{"Id", "Age"} -> {0, 13}]},
     w \in {<<>>, <<EQ(C("Id"), Val(1))>>, <<EQ(C("Id"), Val(1)), EQ(Add(C("Age"), 6), Val(7))>>}}

-----------------------------------------------------------------------------
(* SELECT queries with joins and subqueries.                               *)

O == V3!Table("Order", "o")
D == V3!Table("Detail", "d")
OD == V3!JoinOn(O, "JOIN", D, <<EQ(ColOf(O, "Id"), ColOf(D, "OrderId"))>>)
Joins == {OD, V3!JoinUsing(O, "LEFT JOIN", D, <<"Num", "Id">>), V3!JoinUsing(O, "JOIN", D, <<"Nope">>),
          V3!JoinUsing(OD, "JOIN", V3!Table("User", ""), <<"Id">>),
          V3!JoinOn(V3!Table("User", "u"), "RIGHT JOIN", OD, <<EQ(ColOf(O, "Num"), Val(1))>>)}

DetailSelect == [PlainSelect(3, "Detail") EXCEPT !.where = <<EQ(C("Num"), Val(2))>>]
ListedSelect == [DetailSelect EXCEPT !.columns = <<ColOf(D, "OrderId"), Named(C("Num"), "n")>>]
AllOf == V3!AsSubquery(DetailSelect, "s1", "sub")
Listed == V3!AsSubquery(ListedSelect, "s1", "sub")
JoinedSub == V3!AsSubquery([PlainSelect(3, "Order") EXCEPT !.table = OD], "s1", "sub")
Nested == V3!AsSubquery([PlainSelect(3, "Detail") EXCEPT !.table = AllOf], "s2", "outer")

Orders == PlainSelect(3, "Order")
JoinSelects ==
  {[Orders EXCEPT !.table = t, !.columns = c, !.where = w, !.limit = l, !.groupBy = g] :
     t \in Joins \cup {O, NoTable}, c \in {<<>>, <<ColOf(O, "Num"), Named(ColOf(D, "OrderId"), "x")>>,
                                           <<Named(ColOf(D, "Num"), "x")>>, <<ColOf(D, "Nope")>>},
     w \in {<<>>, <<EQ(ColOf(D, "Num"), Val(3)), Not(EQ(C("Id"), Val(4)))>>}, l \in {0, 10},
     g \in {<<>>, <<ColOf(O, "Id")>>}}

Of(t, field) == [Orders EXCEPT !.table = t, !.columns = <<ColOf(t, field)>>,
                               !.where = <<EQ(ColOf(t, field), Val(5))>>, !.offset = 20]
SubSelects ==
  {Of(t, field) : t \in {AllOf, Nested}, field \in {"OrderId", "Num", "Nope"}}
  \cup {Of(JoinedSub, "Num"), Of(Listed, "OrderId"), Of(Listed, "n"), Of(Listed, "Nope")}
  \cup {[Orders EXCEPT !.where = <<w, EQ(C("Id"), Val(6))>>] :
          w \in {EQ(C("Id"), V3!Some(Listed)), Binary("pred", C("Id"), "IN", Nested), V3!Exist(AllOf),
                 Binary("pred", C("Nope"), "IN", AllOf)}}
  \cup {[Orders EXCEPT !.table = V3!JoinOn(O, "JOIN", AllOf, <<EQ(ColOf(O, "Id"), ColOf(AllOf, "OrderId"))>>),
                       !.where = <<EQ(C("Id"), V3!Some(V3!AsSubquery(ListedSelect, "s2", "")))>>]}

\* Where colName or a shared selector goes astray: a field that a join inside of a
\* subquery has on its right side only; one that the subquery selects without saying of
\* which table, or under another name; and a selector that is used in two places.
AstraySelects ==
  {Of(JoinedSub, "OrderId"), Of(JoinedSub, "Id"), Of(Listed, "Num"),
   Of(V3!AsSubquery([DetailSelect EXCEPT !.columns = <<C("OrderId")>>], "s1", "sub"), "OrderId"),
   [Orders EXCEPT !.where = <<EQ(C("Id"), V3!Some(AllOf)), EQ(C("Num"), V3!Some(AllOf))>>]}

-----------------------------------------------------------------------------
(* INSERT and UPDATE queries with tables and subqueries.                   *)

TableAssigns == {ColOf(V3!Table("User", ""), "Age"), ColOf(V3!Table("User", ""), "Nope"),
                 Assign("Age", Add(C("Age"), 6)), Assign("Age", AllOf)}
InNested == Binary("pred", C("Age"), "IN", Nested)
TableAssignLists == UNION {[1 .. n -> TableAssigns \cup {C("Id"), Like}] : n \in 0 .. 2}

TableInserts ==
  {[do |-> "insert", version |-> 3, entity |-> "User", columns |-> c, values |-> v, upsert |-> u] :
     c \in {<<>>, <<"Age", "Nope">>}, v \in Rows \ {<<>>},
     u \in [dialect : {"none", "mysql"}, conflictColumns : {<<>>}, assigns : TableAssignLists]
             \cup [dialect : {"sqlite"}, conflictColumns : {<<>>, <<"Id", "Age">>, <<"Nope">>},
                   assigns : TableAssignLists]}

TableUpdates ==
  {[do |-> "update", version |-> 3, entity |-> "User", assigns |-> a,
    val |-> [Id |-> 11, Age |-> 12], where |-> w] :
     a \in TableAssignLists, w \in {<<>>, <<EQ(C("Id"), Val(1)), InNested>>}}

-----------------------------------------------------------------------------
Queries ==
  Selects(1, Trees, OrderLists) \cup Selects(2, Trees \cup Sums, {<<>>})
    \cup JoinSelects \cup SubSelects \cup AstraySelects
    \cup Inserts \cup Updates \cup TableInserts \cup TableUpdates

Meaning(q) ==
  CASE q.do = "select" -> SQL!Select(q, 0)
    [] q.do = "insert" -> SQL!Insert(q, FieldOrder)
    [] q.do = "update" -> SQL!Update(q)

allVars == <<builder, vars, registry, part>>

IsV3(q) == q.version = 3

\* The parts that do not run start in one state.
AllInit ==
  /\ part \in {"builder", "session", "registry"}
  /\ query \in IF part = "builder" THEN Queries ELSE {Orders}
  /\ b = IF IsV3(query) THEN V3!NewSelector(query.entity) ELSE NewBuilder
  /\ builds = 0
  /\ part = "session" \/ kind = [t \in Tasks |-> "DoTx"]
  /\ part = "registry" \/ call = [g \in Goroutines |-> [do |-> "Get", type |-> Plain, opts |-> <<>>]]
  /\ Init /\ RegistryInit
  /\ \A g, h \in Goroutines : call[g].type = call[h].type

Version2(q) ==
  CASE q.do = "select" -> V2!BuildSelect(b, q)
    [] q.do = "insert" -> V2!BuildInsert(b, q)
    [] q.do = "update" -> V2!BuildUpdate(b, q)

Version3(q) ==
  CASE q.do = "select" -> V3!BuildSelect(b, q)
    [] q.do = "insert" -> V3!BuildInsert(b, q)
    [] q.do = "update" -> V3!BuildUpdate(b, q)

Build ==
  /\ part = "builder" /\ builds < MaxBuilds /\ ~b.err
  /\ builds' = builds + 1
  /\ b' = CASE query.version = 1 -> V1!BuildSelect(b, query)
            [] query.version = 2 -> Version2(query)
            [] query.version = 3 -> Version3(query)
  /\ UNCHANGED <<query, vars, registry, part>>

Serve(SessionStep) == part = "session" /\ SessionStep /\ UNCHANGED <<builder, registry, part>>
Look == part = "registry" /\ RegistryNext /\ UNCHANGED <<builder, vars, part>>

AllNext == Build \/ Serve(Next) \/ Look

AllFairness ==
  \A t \in Tasks : WF_allVars(Serve(Step(t))) /\ WF_allVars(Serve(AwaitDone(t)))

AllSpec == AllInit /\ [][AllNext]_allVars /\ AllFairness

\* The queries that even the first Build does not put into words: an upsert loses what
\* comes after its first Assignment; homework1 groups by a column's alias too; As drops
\* the table; Multi writes +, and Exist a word that is not SQL's.
LostAssignment(q) ==
  q.do = "insert" /\ q.upsert.dialect # "none"
    /\ \E i \in DOMAIN q.upsert.assigns :
         i < Len(q.upsert.assigns) /\ q.upsert.assigns[i].is = "assign"
GroupedAlias(q) == q.do = "select" /\ q.version = 1 /\ \E i \in DOMAIN q.groupBy : q.groupBy[i].alias # ""
TableDropped(q) == q.do = "select" /\ \E c \in ToSet(q.columns) : c.is = "col" /\ c.table # c.of
OtherOperator(q) == q.do = "select" /\ \E p \in ToSet(q.where) : p \in {TimesSix, V3!Exist(AllOf)}

\* An UPDATE in which the selector of AllOf is in two places, Nested being one of them.
SharedSelector(q) ==
  q.do = "update"
    /\ Cardinality({i \in DOMAIN q.assigns : q.assigns[i] = Assign("Age", AllOf)})
         + Cardinality({i \in DOMAIN q.where : q.where[i] = InNested}) > 1

Astray(q) ==
  \/ LostAssignment(q) \/ GroupedAlias(q) \/ TableDropped(q) \/ OtherOperator(q)
  \/ SharedSelector(q) \/ q \in AstraySelects

\* The first Build of a query gives a text that a database reads, with its arguments, as
\* the query means, or an error if the query names what its model does not have; except for
\* the queries that are Astray, which it gets right only where they have to be refused.
\* A later Build of the same query never gives that text: builder.go keeps sb and args, and
\* Build resets neither of them, or only args.
TextMatchesQuery ==
  builds > 0 =>
    (SQL!Sound(b, Meaning(query)) <=>
       builds = 1 /\ (Astray(query) => b.err /\ SQL!HasToBeRefused(Meaning(query))))

\* TxEnds, of the part in which the tasks run.
TasksEnd == part = "session" => TxEnds
==================================================================================
