------------------------------ MODULE ModelRegistry ------------------------------
(***************************************************************************)
(* The registry of models of orm/homework3: goroutines that call Get and   *)
(* Register for the types of one registry, whose only state is a sync.Map. *)
(* Get loads and stores in two steps; what happens in between decides      *)
(* which options the model in the map has.                                 *)
(***************************************************************************)
EXTENDS SequencesExt

CONSTANTS Goroutines,
          Types,       \* the values: what reflect says of them
          OptionLists  \* what Register may be given

\* What reflect says of a value: of a struct no two fields have one name.
StructFields == [name : STRING, snake : STRING, tag : STRING]
Reflected ==
  [pointer : BOOLEAN, snake : STRING, tableName : STRING, fields : Seq(StructFields)]
Options ==
  [option : {"table"}, name : STRING] \cup [option : {"column"}, field : STRING, name : STRING]

ASSUME RegistryAssumption ==
  /\ Types \subseteq Reflected
  /\ \A type \in Types : \A i, j \in DOMAIN type.fields :
       type.fields[i].name = type.fields[j].name => i = j
  /\ OptionLists \subseteq Seq(Options)

VARIABLES call,    \* the call of a goroutine: Get or Register, of what type, with which options
          at,      \* "call", "register", "store", "done"
          models,  \* the sync.Map: a model and the goroutine that stored it
          built,   \* the model a goroutine has made, or was given
          before   \* history: whether the map had a model of its type when its call began

registry == <<call, at, models, built, before>>

NoModel == [table |-> "", names |-> <<>>, index |-> <<>>]
Nobody == [model |-> NoModel, by |-> "nobody"]

-----------------------------------------------------------------------------
(* parseModel and the options.                                             *)

Column(field) == IF field.tag = "" THEN field.snake ELSE field.tag

\* Of the fields that share a column the map by columns knows the last.
parseModel(type) ==
  LET field(name) == CHOOSE i \in DOMAIN type.fields : type.fields[i].name = name
      columns == {Column(type.fields[i]) : i \in DOMAIN type.fields}
      last(c) == CHOOSE i \in DOMAIN type.fields :
                   /\ Column(type.fields[i]) = c
                   /\ \A j \in i + 1 .. Len(type.fields) : Column(type.fields[j]) # c
  IN IF ~type.pointer \/ \E i \in DOMAIN type.fields : type.fields[i].tag = "malformed"
     THEN NoModel
     ELSE [table |-> IF type.tableName = "" THEN type.snake ELSE type.tableName,
           names |-> [n \in {type.fields[i].name : i \in DOMAIN type.fields} |->
                        Column(type.fields[field(n)])],
           index |-> [c \in columns |-> type.fields[last(c)].name]]

WithTableName(name) == [option |-> "table", name |-> name]
WithColumnName(field, name) == [option |-> "column", field |-> field, name |-> name]

\* A renamed column keeps its old name in the map by columns.
Apply(m, opt) ==
  IF m = NoModel \/ (opt.option = "column" /\ opt.field \notin DOMAIN m.names) THEN NoModel
  ELSE IF opt.option = "table" THEN [m EXCEPT !.table = opt.name]
  ELSE [m EXCEPT !.names[opt.field] = opt.name]

\* Register applies one option after the other.
Made(c) ==
  LET made[i \in 0 .. Len(c.opts)] ==
        IF i = 0 THEN parseModel(c.type) ELSE Apply(made[i - 1], c.opts[i])
  IN made[Len(c.opts)]

\* SetColumns: the fields that the columns of a row are read into; none if it fails.
SetColumns(m, columns) ==
  IF Len(columns) <= Cardinality(DOMAIN m.names) /\ ToSet(columns) \subseteq DOMAIN m.index
  THEN {m.index[c] : c \in ToSet(columns)}
  ELSE {}

-----------------------------------------------------------------------------
RegistryInit ==
  /\ call \in [Goroutines -> [do : {"Get"}, type : Types, opts : {<<>>}]
                              \cup [do : {"Register"}, type : Types, opts : OptionLists]]
  /\ at = [g \in Goroutines |-> "call"]
  /\ models = [type \in Types |-> Nobody]
  /\ built = [g \in Goroutines |-> NoModel]
  /\ before = [g \in Goroutines |-> FALSE]

TypeOf(g) == call[g].type
Goto(g, where) == at' = [at EXCEPT ![g] = where]

\* Mutant: a model that is there is made anew all the same.
NeverThere(g) == FALSE

\* r.models.Load
Loaded(g) == models[TypeOf(g)] # Nobody

Get(g) ==
  /\ at[g] = "call" /\ call[g].do = "Get"
  /\ before' = [before EXCEPT ![g] = models[TypeOf(g)] # Nobody]
  /\ IF Loaded(g)
     THEN built' = [built EXCEPT ![g] = models[TypeOf(g)].model] /\ Goto(g, "done")
     ELSE Goto(g, "register") /\ UNCHANGED built
  /\ UNCHANGED <<call, models>>

\* A malformed tag or an option for an unknown field ends the call, and nothing is stored.
Register(g) ==
  /\ at[g] = "register" \/ (at[g] = "call" /\ call[g].do = "Register")
  /\ built' = [built EXCEPT ![g] = Made(call[g])]
  /\ Goto(g, IF Made(call[g]) = NoModel THEN "done" ELSE "store")
  /\ before' = [before EXCEPT ![g] = IF at[g] = "call" THEN models[TypeOf(g)] # Nobody ELSE @]
  /\ UNCHANGED <<call, models>>

Store(g) ==
  /\ at[g] = "store"
  /\ models' = [models EXCEPT ![TypeOf(g)] = [model |-> built[g], by |-> g]]
  /\ Goto(g, "done")
  /\ UNCHANGED <<call, built, before>>

RegistryNext == \E g \in Goroutines : Get(g) \/ Register(g) \/ Store(g)

RegistrySpec == RegistryInit /\ [][RegistryNext]_registry

-----------------------------------------------------------------------------
(* Properties.                                                             *)

\* The model in the map is the whole of what one call made, and that call is a Get, whose
\* model has no options, only if it began before the first model of the type was stored:
\* options are lost by a Get that overlaps with their Register, never by a later one.
LostByOverlapOnly ==
  \A type \in Types : models[type] # Nobody =>
    LET by == models[type].by IN
    /\ models[type].model = Made(call[by]) /\ models[type].model # NoModel
    /\ call[by].do = "Get" => ~before[by]

\* The fields that the columns of a query name are read back from its row, but for a model
\* with a column that was renamed, and for fields that share a column.
Distinct(m) == \A f, g \in DOMAIN m.names : f # g => m.names[f] # m.names[g]
Renames(opts) == \E i \in DOMAIN opts : opts[i].option = "column"
ReadsBack ==
  \A type \in Types : models[type] # Nobody =>
    LET m == models[type].model
        queried == SetToSeq({m.names[f] : f \in DOMAIN m.names})
    IN Distinct(m) /\ ~Renames(call[models[type].by].opts)
         => SetColumns(m, queried) = DOMAIN m.names

OptionsKept == LostByOverlapOnly /\ ReadsBack
==================================================================================
