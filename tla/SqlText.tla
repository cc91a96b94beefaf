--------------------------------- MODULE SqlText ---------------------------------
(***************************************************************************)
(* What the builders of orm/ have in common: the expressions they are      *)
(* given, the text and the arguments they put together, and, to judge the  *)
(* result by, what a database reads in a text and its arguments.           *)
(*                                                                         *)
(* A text is a sequence of tokens: words (keywords, commas, parentheses),  *)
(* quoted names, operators, and the placeholder ?.                         *)
(***************************************************************************)
EXTENDS Naturals, FiniteSets, Sequences, SequencesExt

Tok(kind, text) == [kind |-> kind, text |-> text]
Word(s) == <<Tok("word", s)>>
Name(s) == <<Tok("name", s)>>
Op(s) == <<Tok("op", s)>>
Hole == Word("?")

-----------------------------------------------------------------------------
(* Expressions.                                                            *)

Nil == [is |-> "nil"]
NoTable == [is |-> "nil"]

\* A column, of the table that its caller named.
ColOf(table, field) ==
  [is |-> "col", table |-> table, of |-> table, name |-> field, alias |-> ""]
C(field) == ColOf(NoTable, field)
Val(v) == [is |-> "val", val |-> v]
Raw(text, args) == [is |-> "raw", text |-> text, args |-> args]
Agg(fn, field) == [is |-> "agg", fn |-> fn, table |-> NoTable, arg |-> field, alias |-> ""]

\* Column.As and Aggregate.As: the table is not taken over.
Named(c, alias) == [c EXCEPT !.table = NoTable, !.alias = alias]

\* An operator, of which the caller means what its method is named for.
Binary(kind, left, op, right) ==
  [is |-> kind, left |-> left, op |-> op, means |-> op, right |-> right]
EQ(e, f) == Binary("pred", e, "=", f)
And(p, q) == Binary("pred", p, "AND", q)
Or(p, q) == Binary("pred", p, "OR", q)
Not(p) == Binary("pred", Nil, "NOT", p)
AsPredicate(raw) == Binary("pred", raw, "", Nil)
Add(e, v) == Binary("math", e, "+", Val(v))

\* Column.Multi has opAdd, MathExpr.Multi opMulti.
Multi(e, v) ==
  [Binary("math", e, IF e.is = "col" THEN "+" ELSE "*", Val(v)) EXCEPT !.means = "*"]

-----------------------------------------------------------------------------
(* A builder: strings.Builder, args, and whether an error was returned.    *)

NewBuilder == [sb |-> <<>>, args |-> <<>>, err |-> FALSE]

b ++ text == IF b.err THEN b ELSE [b EXCEPT !.sb = @ \o text]
AddArgs(b, vals) == IF b.err THEN b ELSE [b EXCEPT !.args = @ \o vals]
Fail(b) == [b EXCEPT !.err = TRUE]

PutValue(b, v) == AddArgs(b ++ Hole, <<v>>)
PutRaw(b, raw) == AddArgs(b ++ raw.text, raw.args)
PutOp(b, op) == IF op = "" THEN b ELSE b ++ Op(op)
PutLimit(b, word, n) == IF n > 0 THEN PutValue(b ++ Word(word), n) ELSE b
PutAs(b, alias) == IF alias = "" THEN b ELSE b ++ (Word("AS") \o Name(alias))

\* Put(b, item) for each item, with commas in between.
PutList(Put(_, _), b, items) ==
  FoldLeft(LAMBDA c, i : Put(IF i > 1 THEN c ++ Word(",") ELSE c, items[i]),
           b, [i \in DOMAIN items |-> i])

-----------------------------------------------------------------------------
(* Assignments, of UPDATE and of what INSERT does with duplicates.         *)

Assign(column, val) == [is |-> "assign", column |-> column, val |-> val]

\* buildUpsert's loop returns at the first Assignment: what comes after it is lost.
UpToAssignment(assigns) ==
  SubSeq(assigns, 1,
         Cardinality({i \in DOMAIN assigns : \A j \in 1 .. i - 1 : assigns[j].is # "assign"}))

\* The two dialects' words for the value that the row to be inserted has.
Proposed(dialect, column) ==
  IF dialect = "mysql" THEN Word("VALUES") \o Word("(") \o Name(column) \o Word(")")
                       ELSE Word("excluded.") \o Name(column)

-----------------------------------------------------------------------------
(* What a database reads: names, operators and words in order, each        *)
(* placeholder replaced by its argument, and each operator with the number *)
(* of parentheses it is in.  Parentheses and commas themselves are left    *)
(* out; so two expressions that read the same are the same tree.           *)

ReadToken(args, r, t) ==
  CASE t.text = "(" -> [r EXCEPT !.depth = @ + 1]
    [] t.text = ")" -> [r EXCEPT !.depth = @ - 1]
    [] t.text = "," -> r
    [] t.text = "?" -> [r EXCEPT !.next = @ + 1,
                          !.out = Append(@, <<"value", IF r.next \in DOMAIN args THEN args[r.next]
                                                       ELSE "missing">>)]
    [] t.kind = "op" -> [r EXCEPT !.out = Append(@, <<"op", t.text, r.depth>>)]
    [] OTHER -> [r EXCEPT !.out = Append(@, <<t.kind, t.text>>)]

Read(b) ==
  FoldLeft(LAMBDA r, t : ReadToken(b.args, r, t), [out |-> <<>>, depth |-> 0, next |-> 1], b.sb)

\* All arguments are used, all parentheses are closed, and it reads as meant.
ReadsAs(b, meant) ==
  Read(b) = [out |-> meant, depth |-> 0, next |-> Len(b.args) + 1]

Words(ss) == [i \in DOMAIN ss |-> <<"word", ss[i]>>]
Names(ss) == [i \in DOMAIN ss |-> <<"name", ss[i]>>]
Each(F(_), items) == FlattenSeq([i \in DOMAIN items |-> F(items[i])])
==================================================================================
