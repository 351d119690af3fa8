--------------------------- MODULE DatasetPerimeter ---------------------------
(***************************************************************************)
(* The perimeter of a dataset: parameters, selected columns, filter, sort. *)
(* First what the server makes of it (DatasetPerimeterCompiler,            *)
(* DatasetParameterResolver), then what the perimeter editor does           *)
(* (perimeter_service).                                                    *)
(*                                                                         *)
(* A perimeter is a record of four sequences and a logic, where a list     *)
(* that was not sent is <<>>.  Null is no perimeter, and an object without *)
(* a list of columns, without a sort and with nothing in the other two,    *)
(* which normalize reads as none; a record of four empty sequences is one  *)
(* whose empty list of columns or sort was sent, which it keeps.  A        *)
(* condition is [field, operator, mode, arg]: mode "none" has no value,    *)
(* "literal" a value, "parameter" the name of a parameter.  Values are     *)
(* tokens for what the code tells apart: texts (by what json.loads and the *)
(* coercions make of them), JSON values and, inside the server, dates.     *)
(***************************************************************************)
EXTENDS CommandConfig, SequencesExt

ParameterTypes == {"string", "integer", "number", "boolean", "date", "datetime"}
NullOperators == {"is_null", "is_not_null"}
ListOperators == {"in", "not_in"}
StringOperators == {"contains", "starts_with", "ends_with"}
OrderOperators == {"gt", "gte", "lt", "lte"}
Operators == {"eq", "neq"} \cup NullOperators \cup ListOperators \cup StringOperators
               \cup OrderOperators
\* SQLAlchemy raises when one of these meets None or a truth value.
ComparingOperators == OrderOperators \cup StringOperators

\* "digits" is the text 12, "quoted" the text "12" with its quotes.
Texts == {"text", "digits", "quoted", "trueText", "isoDate", "isoDatetime", "oneText", "manyText"}
\* A list of one value, a list of several.
ListValues == {"one", "many"}
Values == Texts \cup ListValues \cup {"int", "bool", "date", "datetime"}
Modes == {"None", "Literal", "Function"}
\* None is no value, and neither is an exception.
ASSUME TokensAssumption ==
  Null # Invalid /\ {Null, Invalid} \cap (Values \cup Operators \cup Modes \cup {"null"}) = {}

Logics == {"AND", "OR"}
Perimeter(parameters, columns, logic, items, sort) ==
  [parameters |-> parameters, columns |-> columns,
   logic |-> IF items = <<>> THEN "AND" ELSE logic, items |-> items, sort |-> sort]
NoPerimeter == [parameters |-> <<>>, columns |-> <<>>, logic |-> "AND", items |-> <<>>,
                sort |-> <<>>]
\* One Invalid element makes the whole Invalid.
Whole(seq) == IF \E i \in DOMAIN seq : seq[i] = Invalid THEN Invalid ELSE seq
Repeats(seq) == Cardinality(ToSet(seq)) < Len(seq)
IsList(seq) == seq \in Seq(ToSet(seq))
\* The elements that are in S, in their order.
Only(seq, S) ==
  LET kept[i \in 0..Len(seq)] ==
        IF i = 0 THEN <<>>
        ELSE IF seq[i] \in S THEN Append(kept[i - 1], seq[i]) ELSE kept[i - 1]
  IN  kept[Len(seq)]

------------------------------------------------------------------------------
(* The server: coercions.  "int" is an integer other than 0 and 1.          *)

Coercions ==
  [type \in ParameterTypes |->
     CASE type = "string"  -> [v \in Values |-> CASE v \in Texts     -> v
                                                 [] v = "int"      -> "digits"
                                                 [] v = "date"     -> "isoDate"
                                                 [] v = "datetime" -> "isoDatetime"
                                                 [] OTHER          -> "text"]
       [] type \in {"integer", "number"} -> [v \in {"int", "digits"} |-> "int"]
       [] type = "boolean" -> [v \in {"bool", "trueText"} |-> "bool"]
       [] type = "date"    -> [v \in {"isoDate", "isoDatetime", "date", "datetime"} |-> "date"]
       [] OTHER            -> [v \in {"isoDate", "isoDatetime", "date", "datetime"} |-> "datetime"]]
CoerceValue(type, value) ==
  IF value = Null THEN Null
  ELSE IF value \in DOMAIN Coercions[type] THEN Coercions[type][value] ELSE Invalid

SerializeDefault(value) ==
  CASE value = "date" -> "isoDate" [] value = "datetime" -> "isoDatetime" [] OTHER -> value

OperatorCompatible(type, operator) ==
  \/ operator \in {"eq", "neq"} /\ type \in ParameterTypes
  \/ operator \in OrderOperators /\ type \in {"integer", "number", "date", "datetime"}
  \/ operator \in StringOperators /\ type = "string"

------------------------------------------------------------------------------
(* The server: normalize.  Invalid stands for the ValueError.               *)

\* A parameter has no default (Null), a value or the name of a built-in.  An
\* explicit null ("null") may not stand next to a built-in; whatever reads a
\* stored parameter takes it for none.
GivenDefault(p) == IF p.default = "null" THEN Null ELSE p.default
WithDefault(p, value) ==
  IF value = Invalid THEN Invalid
  ELSE [name |-> p.name, type |-> p.type, default |-> SerializeDefault(value),
        binding |-> p.binding]
NormalParameter(p) ==
  IF \/ p.name = Null \/ p.type \notin ParameterTypes
     \/ p.default # Null /\ p.binding # Null
     \/ p.binding \notin BuiltIns \cup {Null}
  THEN Invalid
  ELSE WithDefault(p, CoerceValue(p.type, GivenDefault(p)))

\* Mutant: a reference is not checked against the type of the parameter.
AnyParameter(c, types) ==
  c.mode = "parameter" => c.arg \in DOMAIN types /\ c.operator \notin ListOperators
FilterValueValid(c, types) ==
  CASE c.mode = "parameter" ->
         /\ c.arg \in DOMAIN types
         /\ c.operator \notin ListOperators
         /\ OperatorCompatible(types[c.arg], c.operator)
    [] c.mode = "literal" ->
         /\ c.operator \in ListOperators => c.arg \in ListValues
         /\ c.operator \in StringOperators => c.arg \in Texts
    [] OTHER -> FALSE

Condition(field, operator, mode, arg) ==
  [field |-> field, operator |-> operator, mode |-> mode, arg |-> arg]
NormalCondition(c, types) ==
  IF c.field = Null \/ c.operator \notin Operators THEN Invalid
  ELSE IF c.operator \in NullOperators THEN Condition(c.field, c.operator, "none", Null)
  ELSE IF FilterValueValid(c, types) THEN Condition(c.field, c.operator, c.mode, c.arg)
  ELSE Invalid

\* An item is [kind, logic, conditions]; a plain condition is the only one of its item.
ItemOf(item, conditions) ==
  IF conditions \in {<<>>, Invalid} THEN Invalid
  ELSE [kind |-> item.kind, logic |-> item.logic, conditions |-> conditions]
NormalItem(item, types) ==
  IF item.logic \notin Logics \/ ~IsList(item.conditions) THEN Invalid
  ELSE ItemOf(item, Whole([i \in DOMAIN item.conditions |->
                             NormalCondition(item.conditions[i], types)]))

Group(logic, conditions) == [kind |-> "group", logic |-> logic, conditions |-> conditions]
Single(c) == [kind |-> "condition", logic |-> "AND", conditions |-> <<c>>]
\* filter.conditions of older clients: one group.
LegacyFilter(logic, conditions) ==
  IF conditions = <<>> THEN <<>> ELSE <<Group(logic, conditions)>>

\* parameter_definitions_by_name.
Names(parameters) == [i \in DOMAIN parameters |-> parameters[i].name]
IndexOf(names, n) == CHOOSE i \in DOMAIN names : names[i] = n
Named(parameters, n) == parameters[IndexOf(Names(parameters), n)]
TypesOf(parameters) == [n \in ToSet(Names(parameters)) |-> Named(parameters, n).type]

NormalParameters(parameters) ==
  IF Repeats(Names(parameters)) THEN Invalid
  ELSE Whole([i \in DOMAIN parameters |-> NormalParameter(parameters[i])])
NormalItems(items, types) == Whole([i \in DOMAIN items |-> NormalItem(items[i], types)])
PerimeterOf(parameters, columns, logic, items, sort) ==
  IF parameters = Invalid \/ items = Invalid THEN Invalid
  ELSE Perimeter(parameters, columns, logic, items, sort)
WellFormed(p) ==
  /\ IsList(p.parameters) /\ IsList(p.columns) /\ IsList(p.items) /\ IsList(p.sort)
  /\ ~Repeats(p.columns) /\ p.logic \in Logics
  /\ \A i \in DOMAIN p.columns : p.columns[i] # Null
  /\ \A i \in DOMAIN p.sort : p.sort[i].field # Null
Normalize(p) ==
  IF p = Null THEN Null
  ELSE IF ~WellFormed(p) THEN Invalid
  ELSE PerimeterOf(NormalParameters(p.parameters), p.columns, p.logic,
                   NormalItems(p.items, TypesOf(p.parameters)), p.sort)

------------------------------------------------------------------------------
(* The server: resolve and compile.                                         *)

BuiltInValue(resolver) == IF resolver = "$now" THEN "datetime" ELSE "date"
DefaultValue(p) ==
  IF p.default # Null THEN CoerceValue(p.type, p.default)
  ELSE IF p.binding # Null THEN CoerceValue(p.type, BuiltInValue(p.binding))
  ELSE Null
\* The values of the parameters by name; overrides must name parameters.
ValueOf(p, overrides) ==
  IF p.name \in DOMAIN overrides THEN CoerceValue(p.type, overrides[p.name]) ELSE DefaultValue(p)
Resolve(parameters, overrides) ==
  [n \in ToSet(Names(parameters)) |-> ValueOf(Named(parameters, n), overrides)]
Resolves(parameters, overrides) ==
  /\ parameters # <<>> => DOMAIN overrides \subseteq ToSet(Names(parameters))
  /\ \A n \in ToSet(Names(parameters)) : Resolve(parameters, overrides)[n] # Invalid

ConditionCompiles(c, columns, values) ==
  /\ c.field \in columns
  /\ c.mode = "parameter" => c.arg \in DOMAIN values
  /\ c.operator \in ComparingOperators =>
       (IF c.mode = "parameter" THEN values[c.arg] ELSE c.arg) \notin {Null, "bool"}
Conditions(p) == UNION {ToSet(p.items[i].conditions) : i \in DOMAIN p.items}
Compiles(p, columns, values) ==
  /\ ToSet(p.columns) \subseteq columns
  /\ \A c \in Conditions(p) : ConditionCompiles(c, columns, values)
  /\ \A i \in DOMAIN p.sort : p.sort[i].field \in columns
\* execute_dataset_query as far as the statement: the database may still refuse
\* that, for what it knows of the columns.  columns = {}: a table that is gone.
ReachesDatabase(p, columns, overrides) ==
  /\ columns # {}
  /\ \E n \in {Normalize(p)} :
       n # Null =>
         /\ n # Invalid
         /\ Resolves(n.parameters, overrides)
         /\ Compiles(n, columns, Resolve(n.parameters, overrides))

------------------------------------------------------------------------------
(* The editor (perimeter_service).                                          *)

\* json.loads of what was typed; blank is None.  isna() of a list is an array,
\* whose truth value is an error unless it has one element.
EditorValue(v) ==
  CASE v = "blank" -> Null
    [] v = "digits" -> "int" [] v = "quoted" -> "digits" [] v = "trueText" -> "bool"
    [] v = "oneText" -> "one" [] v = "manyText" -> "many"
    [] v = "many" -> Invalid
    [] OTHER -> v

\* Null: the condition is dropped; Invalid: the page fails.
ConditionWith(c, value) ==
  IF value = Invalid THEN Invalid
  ELSE IF c.field = Null \/ c.operator = Null THEN Null
  ELSE IF c.operator \in NullOperators THEN [c EXCEPT !.mode = "none", !.arg = Null]
  ELSE IF c.mode = "parameter" THEN (IF c.arg = Null THEN Null ELSE c)
  ELSE IF value = Null THEN Null ELSE [c EXCEPT !.arg = value]
EditorCondition(c) == ConditionWith(c, IF c.mode = "literal" THEN EditorValue(c.arg) ELSE Null)
Kept(seq) == IF seq = Invalid THEN Invalid ELSE Only(seq, ToSet(seq) \ {Null, <<>>})
EditorConditions(cs) == Kept(Whole([i \in DOMAIN cs |-> EditorCondition(cs[i])]))
WithConditions(item, conditions) ==
  IF conditions \in {<<>>, Invalid} THEN conditions ELSE [item EXCEPT !.conditions = conditions]
EditorItem(item) == WithConditions(item, EditorConditions(item.conditions))
EditorItems(items) ==
  IF items = Invalid THEN Invalid
  ELSE Kept(Whole([i \in DOMAIN items |-> EditorItem(items[i])]))
EditorSort(rows) == Only(rows, {r \in ToSet(rows) : r.field # Null})

\* A row of the parameters' table: what was stored (binding) or typed (mode,
\* function).  A value left in the row wins over the mode.
RowWith(r, mode, value) ==
  [name |-> r.name, type |-> r.type, mode |-> mode, binding |-> Null,
   default |-> IF mode = "Literal" THEN value ELSE Null,
   function |-> IF mode = "Function" THEN Or(Or(r.binding, r.function), "$now") ELSE r.function]
ModeOf(r, value) ==
  IF r.binding # Null THEN "Function" ELSE IF value # Null THEN "Literal" ELSE Or(r.mode, "None")
RowOf(r, value) ==
  IF value = Invalid THEN Invalid
  ELSE IF r.name = Null \/ r.type \notin ParameterTypes THEN Null
  ELSE RowWith(r, ModeOf(r, value), value)
EditorRow(r) == RowOf(r, EditorValue(r.default))
\* A second row of the same name is dropped.
FirstOf(rows) == {i \in DOMAIN rows : \A j \in 1..(i - 1) : rows[j].name # rows[i].name}
RowsAt(rows, indices) == [k \in DOMAIN indices |-> rows[indices[k]]]
Firsts(rows) ==
  IF rows = Invalid THEN Invalid
  ELSE RowsAt(rows, Only([i \in DOMAIN rows |-> i], FirstOf(rows)))
EditorRows(rows) ==
  IF rows = Invalid THEN Invalid
  ELSE Firsts(Kept(Whole([i \in DOMAIN rows |-> EditorRow(rows[i])])))
Definition(row) ==
  [name |-> row.name, type |-> row.type,
   default |-> IF row.mode = "Literal" THEN EditorValue(row.default) ELSE Null,
   binding |-> IF row.mode = "Function" THEN row.function ELSE Null]

\* build_perimeter_payload, of the draft the tabs of the page return: rows and
\* items are normalised once more, and nothing at all is None.  Invalid: the
\* page fails.
Definitions(rows) ==
  IF rows = Invalid \/ \E i \in DOMAIN rows : Definition(rows[i]).default = Invalid THEN Invalid
  ELSE [i \in DOMAIN rows |-> Definition(rows[i])]
PayloadOf(parameters, columns, logic, items, sort) ==
  IF parameters = <<>> /\ columns = <<>> /\ items = <<>> /\ sort = <<>> THEN Null
  ELSE PerimeterOf(parameters, columns, logic, items, sort)
BuildPayload(d) ==
  PayloadOf(Definitions(EditorRows(d.parameters)), d.columns, d.logic, EditorItems(d.items),
            EditorSort(d.sort))

\* The draft a page without any state starts from (default_*).
Stored(p) == IF p = Null THEN NoPerimeter ELSE p
DefaultColumns(p, available) == Only(Stored(p).columns, available)
DefaultItems(p) == EditorItems(Stored(p).items)
RowOfStored(q) ==
  [name |-> q.name, type |-> q.type, default |-> q.default, binding |-> q.binding,
   mode |-> Null, function |-> Null]
DefaultRows(p) ==
  EditorRows([i \in DOMAIN Stored(p).parameters |-> RowOfStored(Stored(p).parameters[i])])
\* Mutant: a page opens without the stored sort.
NoSort(p) == <<>>
DefaultSort(p) == EditorSort(Stored(p).sort)
==============================================================================
