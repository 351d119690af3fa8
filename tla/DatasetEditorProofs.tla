------------------------- MODULE DatasetEditorProofs -------------------------
(***************************************************************************)
(* Theorems about the dataset API and the perimeter page: what is stored   *)
(* is in normal form and compiles, what a page shows is what is stored,    *)
(* and what a session alone edits is saved.  The central facts are that    *)
(* normalize is idempotent, and that the page of a stored perimeter builds *)
(* it again, for perimeters of any size and with any names.                *)
(***************************************************************************)
EXTENDS DatasetEditor, FiniteSetTheorems, WellFoundedInduction, TLAPS

-----------------------------------------------------------------------------
(* Coercions *)

\* None and exceptions are no values (TokensAssumption).
LEMMA Tokens ==
  /\ Null # Invalid /\ Null \notin Values /\ Invalid \notin Values
  /\ Null \notin Operators /\ Null \notin Modes /\ Null # "null"
BY TokensAssumption

\* What coerce_value makes of a value that is not None.
LEMMA Coerced ==
  ASSUME NEW type \in ParameterTypes, NEW v, v # Null, CoerceValue(type, v) # Invalid
  PROVE  /\ v \in DOMAIN Coercions[type] /\ CoerceValue(type, v) = Coercions[type][v]
         /\ CoerceValue(type, v) \in Values
BY Tokens DEF CoerceValue, Coercions, ParameterTypes, Values, Texts, ListValues

\* A default that was coerced and serialised is coerced to the same again.
LEMMA DefaultIsStable ==
  ASSUME NEW type \in ParameterTypes, NEW v, v # Null, CoerceValue(type, v) # Invalid
  PROVE  LET w == SerializeDefault(CoerceValue(type, v))
         IN  /\ w \notin {Null, "null"} /\ CoerceValue(type, w) # Invalid
             /\ SerializeDefault(CoerceValue(type, w)) = w
<1>0. v \in DOMAIN Coercions[type] /\ CoerceValue(type, v) = Coercions[type][v] BY Coerced
<1> USE Tokens DEF CoerceValue, Coercions, ParameterTypes, Values, Texts, ListValues,
                   SerializeDefault
<1>1. CASE type = "string" BY <1>0, <1>1, ZenonT(40)
<1>2. CASE type \in {"integer", "number"} BY <1>0, <1>2
<1>3. CASE type = "boolean" BY <1>0, <1>3
<1>4. CASE type = "date" BY <1>0, <1>4
<1>5. CASE type = "datetime" BY <1>0, <1>5
<1> QED BY <1>1, <1>2, <1>3, <1>4, <1>5

-----------------------------------------------------------------------------
(* normalize is idempotent *)

\* A list without an exception is the list itself (Whole).
LEMMA WholeLemma ==
  ASSUME NEW seq, Whole(seq) # Invalid
  PROVE  Whole(seq) = seq /\ \A i \in DOMAIN seq : seq[i] # Invalid
BY DEF Whole

\* A list of the same length as a list is a list.
LEMMA MapIsList ==
  ASSUME NEW s, IsList(s), NEW t, t = [i \in DOMAIN s |-> t[i]]
  PROVE  IsList(t)
<1>1. DOMAIN s = 1..Len(s) /\ Len(s) \in Nat BY DEF IsList
<1>2. \A i \in 1..Len(s) : t[i] \in ToSet(t) BY <1>1 DEF ToSet
<1>3. t \in [1..Len(s) -> ToSet(t)] BY <1>1, <1>2
<1> QED BY <1>1, <1>3 DEF IsList

\* A normal parameter is normal (_normalize_parameter_definition).
LEMMA ParameterIsStable ==
  ASSUME NEW p, NormalParameter(p) # Invalid
  PROVE  /\ NormalParameter(p).name = p.name /\ NormalParameter(p).type = p.type
         /\ NormalParameter(p).default # "null"
         /\ NormalParameter(NormalParameter(p)) = NormalParameter(p)
<1> DEFINE value == CoerceValue(p.type, GivenDefault(p))
           default == SerializeDefault(value)
           q == [name |-> p.name, type |-> p.type, default |-> default, binding |-> p.binding]
<1>1. /\ p.name # Null /\ p.type \in ParameterTypes
      /\ p.default = Null \/ p.binding = Null
      /\ p.binding \in BuiltIns \cup {Null}
      /\ value # Invalid /\ NormalParameter(p) = q
  BY DEF NormalParameter, WithDefault
<1>2. CASE GivenDefault(p) = Null
  <2>1. value = Null BY <1>2 DEF CoerceValue
  <2>2. Null # "date" /\ Null # "datetime" BY Tokens DEF Values
  <2>3. default = Null BY <2>1, <2>2 DEF SerializeDefault
  <2>4. GivenDefault(q) = Null /\ CoerceValue(q.type, Null) = Null
    BY <2>3, Tokens DEF CoerceValue, GivenDefault
  <2>5. SerializeDefault(Null) = Null BY <2>1, <2>3
  <2> HIDE DEF value, default
  <2>6. WithDefault(q, Null) = q BY <2>3, <2>5, Tokens DEF WithDefault
  <2>7. NormalParameter(q) = WithDefault(q, Null) BY <1>1, <2>3, <2>4 DEF NormalParameter
  <2> QED BY <1>1, <2>3, <2>6, <2>7, Tokens
<1>3. CASE GivenDefault(p) # Null
  <2>1. /\ default \notin {Null, "null"} /\ CoerceValue(p.type, default) # Invalid
        /\ SerializeDefault(CoerceValue(p.type, default)) = default
    BY <1>1, <1>3, DefaultIsStable
  <2> HIDE DEF value, default
  <2>5. p.default # Null BY <1>3, Tokens DEF GivenDefault
  <2>2. q.type = p.type /\ q.default = default /\ q.name = p.name /\ q.binding = Null
    BY <1>1, <2>5
  <2>3. WithDefault(q, CoerceValue(q.type, q.default)) = q BY <2>1, <2>2, <1>1 DEF WithDefault
  <2>4. NormalParameter(q) = WithDefault(q, CoerceValue(q.type, q.default))
    BY <1>1, <2>1, <2>2 DEF NormalParameter, GivenDefault
  <2> QED BY <1>1, <2>1, <2>3, <2>4
<1> QED BY <1>2, <1>3

\* A normal condition is normal, under the same parameters
\* (_normalize_filter_condition).
LEMMA ConditionIsStable ==
  ASSUME NEW c, NEW types, NormalCondition(c, types) # Invalid
  PROVE  NormalCondition(NormalCondition(c, types), types) = NormalCondition(c, types)
<1>1. c.field # Null /\ c.operator \in Operators BY DEF NormalCondition
<1>2. CASE c.operator \in NullOperators
  BY <1>1, <1>2 DEF NormalCondition, Condition
<1>3. CASE c.operator \notin NullOperators
  <2> DEFINE n == Condition(c.field, c.operator, c.mode, c.arg)
  <2>1. NormalCondition(c, types) = n /\ FilterValueValid(c, types)
    BY <1>1, <1>3 DEF NormalCondition
  <2>2. n.field = c.field /\ n.operator = c.operator /\ n.mode = c.mode /\ n.arg = c.arg
    BY DEF Condition
  <2> HIDE DEF n
  <2>3. FilterValueValid(n, types) BY <2>1, <2>2 DEF FilterValueValid
  <2>4. NormalCondition(n, types) = Condition(c.field, c.operator, c.mode, c.arg)
    BY <1>1, <1>3, <2>2, <2>3 DEF NormalCondition
  <2> QED BY <2>1, <2>4 DEF n
<1> QED BY <1>2, <1>3

\* A normal item is normal (_normalize_filter_item).
LEMMA ItemIsStable ==
  ASSUME NEW item, NEW types, NormalItem(item, types) # Invalid
  PROVE  NormalItem(NormalItem(item, types), types) = NormalItem(item, types)
<1> DEFINE cs == [i \in DOMAIN item.conditions |-> NormalCondition(item.conditions[i], types)]
           n == NormalItem(item, types)
           ds == [i \in DOMAIN n.conditions |-> NormalCondition(n.conditions[i], types)]
<1>1. item.logic \in Logics /\ IsList(item.conditions) /\ Whole(cs) \notin {<<>>, Invalid}
  BY DEF NormalItem, ItemOf
<1>2. Whole(cs) = cs /\ \A i \in DOMAIN cs : cs[i] # Invalid BY <1>1, WholeLemma
<1>3. n = [kind |-> item.kind, logic |-> item.logic, conditions |-> cs]
  BY <1>1, <1>2 DEF NormalItem, ItemOf
<1>4. n.kind = item.kind /\ n.logic = item.logic /\ n.conditions = cs BY <1>3
<1>9. IsList(n.conditions) BY <1>1, <1>4, MapIsList
<1>5. \A i \in DOMAIN cs : NormalCondition(cs[i], types) = cs[i] BY <1>2, ConditionIsStable
<1>6. ds = cs BY <1>4, <1>5
<1>7. NormalItem(n, types) = ItemOf(n, Whole(ds)) BY <1>1, <1>4, <1>9 DEF NormalItem
<1> HIDE DEF n, cs, ds
<1>8. ItemOf(n, Whole(ds)) = [kind |-> item.kind, logic |-> item.logic, conditions |-> cs]
  BY <1>1, <1>2, <1>4, <1>6 DEF ItemOf
<1> QED BY <1>3, <1>7, <1>8 DEF n

\* A name of the list is at its index (parameter_definitions_by_name).
LEMMA IndexLemma ==
  ASSUME NEW ps, NEW n \in ToSet(Names(ps))
  PROVE  IndexOf(Names(ps), n) \in DOMAIN ps /\ Named(ps, n).name = n
<1>1. PICK i \in DOMAIN Names(ps) : Names(ps)[i] = n BY DEF ToSet
<1>2. IndexOf(Names(ps), n) \in DOMAIN Names(ps) /\ Names(ps)[IndexOf(Names(ps), n)] = n
  BY <1>1 DEF IndexOf
<1>3. DOMAIN Names(ps) = DOMAIN ps /\ \A j \in DOMAIN ps : Names(ps)[j] = ps[j].name BY DEF Names
<1> QED BY <1>2, <1>3 DEF Named

\* Normal parameters are normal, with the names and types of the raw ones.
LEMMA ParametersAreStable ==
  ASSUME NEW ps, NormalParameters(ps) # Invalid
  PROVE  LET ns == NormalParameters(ps)
         IN  NormalParameters(ns) = ns /\ TypesOf(ns) = TypesOf(ps)
<1> DEFINE ns == [i \in DOMAIN ps |-> NormalParameter(ps[i])]
           ms == [i \in DOMAIN ns |-> NormalParameter(ns[i])]
<1>1. ~Repeats(Names(ps)) /\ Whole(ns) # Invalid /\ NormalParameters(ps) = Whole(ns)
  BY DEF NormalParameters
<1>2. Whole(ns) = ns /\ \A i \in DOMAIN ns : ns[i] # Invalid BY <1>1, WholeLemma
<1>3. \A i \in DOMAIN ns : /\ ns[i].name = ps[i].name /\ ns[i].type = ps[i].type
                           /\ NormalParameter(ns[i]) = ns[i]
  BY <1>2, ParameterIsStable
<1>4. ms = ns BY <1>3
<1>5. Names(ns) = Names(ps) BY <1>3 DEF Names
<1>6. NormalParameters(ns) = Whole(ms) BY <1>1, <1>5 DEF NormalParameters
<1>7. DOMAIN ns = DOMAIN ps OBVIOUS
<1> HIDE DEF ns, ms
<1>8. ASSUME NEW n \in ToSet(Names(ps)) PROVE Named(ns, n).type = Named(ps, n).type
  <2>1. IndexOf(Names(ps), n) \in DOMAIN ps BY IndexLemma
  <2> QED BY <1>3, <1>5, <1>7, <2>1 DEF Named
<1>9. TypesOf(ns) = TypesOf(ps) BY <1>5, <1>8 DEF TypesOf
<1> QED BY <1>1, <1>2, <1>4, <1>6, <1>9

\* Normal items are normal, under the same parameters.
LEMMA ItemsAreStable ==
  ASSUME NEW items, NEW types, NormalItems(items, types) # Invalid
  PROVE  NormalItems(NormalItems(items, types), types) = NormalItems(items, types)
<1> DEFINE ns == [i \in DOMAIN items |-> NormalItem(items[i], types)]
           ms == [i \in DOMAIN ns |-> NormalItem(ns[i], types)]
<1>1. Whole(ns) = ns /\ \A i \in DOMAIN ns : ns[i] # Invalid BY WholeLemma DEF NormalItems
<1>2. \A i \in DOMAIN ns : NormalItem(ns[i], types) = ns[i] BY <1>1, ItemIsStable
<1>3. ms = ns BY <1>2
<1>4. NormalItems(items, types) = ns BY <1>1 DEF NormalItems
<1>5. NormalItems(ns, types) = Whole(ms) BY DEF NormalItems
<1> HIDE DEF ns, ms
<1> QED BY <1>1, <1>3, <1>4, <1>5

\* normalize accepts what it returns and changes nothing in it, whatever it was
\* given: a stored perimeter reads the same each time the runtime normalises it.
THEOREM NormalizeIsStable ==
  ASSUME NEW p, Normalize(p) # Invalid
  PROVE  Normalize(Normalize(p)) = Normalize(p)
<1> DEFINE n == Normalize(p)
           parameters == NormalParameters(p.parameters)
           items == NormalItems(p.items, TypesOf(p.parameters))
           logic == IF items = <<>> THEN "AND" ELSE p.logic
           r == [parameters |-> parameters, columns |-> p.columns, logic |-> logic,
                 items |-> items, sort |-> p.sort]
<1>1. CASE p = Null BY <1>1 DEF Normalize
<1>2. CASE p # Null
  <2>1. /\ p # Null /\ WellFormed(p) /\ parameters # Invalid /\ items # Invalid
        /\ n = r
    BY <1>2 DEF Normalize, PerimeterOf, Perimeter
  <2>2. /\ NormalParameters(parameters) = parameters
        /\ TypesOf(parameters) = TypesOf(p.parameters)
    BY <2>1, ParametersAreStable
  <2>3. NormalItems(items, TypesOf(p.parameters)) = items BY <2>1, ItemsAreStable
  <2>9. IsList(parameters)
    <3>1. IsList(p.parameters) BY <2>1 DEF WellFormed
    <3>2. parameters = [i \in DOMAIN p.parameters |-> NormalParameter(p.parameters[i])]
      BY <2>1, WholeLemma DEF NormalParameters
    <3>3. parameters = [i \in DOMAIN p.parameters |-> parameters[i]] BY <3>2
    <3> QED BY <3>1, <3>3, MapIsList
  <2>10. IsList(items)
    <3>1. IsList(p.items) BY <2>1 DEF WellFormed
    <3>2. items = [i \in DOMAIN p.items |-> NormalItem(p.items[i], TypesOf(p.parameters))]
      BY <2>1, WholeLemma DEF NormalItems
    <3>3. items = [i \in DOMAIN p.items |-> items[i]] BY <3>2
    <3> QED BY <3>1, <3>3, MapIsList
  <2>11. logic \in Logics BY <2>1 DEF WellFormed, Logics
  <2> HIDE DEF parameters, items
  <2>4. logic = IF items = <<>> THEN "AND" ELSE logic OBVIOUS
  <2> HIDE DEF logic
  <2>5. /\ r.parameters = parameters /\ r.columns = p.columns /\ r.logic = logic
        /\ r.items = items /\ r.sort = p.sort
    OBVIOUS
  <2>12. WellFormed(r) BY <2>1, <2>5, <2>9, <2>10, <2>11 DEF WellFormed
  <2> HIDE DEF r
  <2>7. r # Null => Normalize(r) = Perimeter(parameters, p.columns, logic, items, p.sort)
    BY <2>1, <2>2, <2>3, <2>5, <2>12 DEF Normalize, PerimeterOf
  <2>8. Perimeter(parameters, p.columns, logic, items, p.sort) = r
    BY <2>4 DEF Perimeter, r
  <2>6. r = Null => Normalize(r) = r BY DEF Normalize
  <2> QED BY <2>1, <2>6, <2>7, <2>8
<1> QED BY <1>1, <1>2

-----------------------------------------------------------------------------
(* The row *)

\* A perimeter the API may hold: normal, and not an exception.
Normal(p) == Normalize(p) = p /\ (p # Null => p # Invalid)
\* The row is a record of its four columns, with a normal perimeter.
NormalRow ==
  /\ row = [state |-> row.state, table |-> row.table, perimeter |-> row.perimeter,
            version |-> row.version]
  /\ Normal(row.perimeter)

\* No perimeter is a normal one.
LEMMA NullIsNormal == Normal(Null)
BY DEF Normal, Normalize

\* A rendering of the perimeter page leaves the row alone or saves a payload.
LEMMA RenderRow ==
  ASSUME NEW keys, NEW cached, NEW lost, Render(keys, cached, lost)
  PROVE  \/ row' = row
         \/ \E t, payload : row' = Updated(t, payload) /\ row' # Invalid
BY DEF Render, Autosave

\* An update that is accepted stores a normal perimeter (Updated).
LEMMA UpdatedRow ==
  ASSUME NormalRow, NEW t, NEW payload, row' = Updated(t, payload), row' # Invalid
  PROVE  NormalRow'
<1> DEFINE normal == Normalize(payload)
           stored == IF normal = Null THEN row.perimeter ELSE normal
<1>1. normal # Invalid /\ row' = [row EXCEPT !.table = t, !.version = @ + 1, !.perimeter = stored]
  BY DEF Updated, Written
<1>2. Normalize(normal) = normal BY <1>1, NormalizeIsStable
<1>3. Normal(stored) BY <1>1, <1>2 DEF NormalRow, Normal
<1> HIDE DEF normal, stored
<1>4. row' = [state |-> row.state, table |-> t, perimeter |-> stored, version |-> row.version + 1]
  BY <1>1 DEF NormalRow
<1> QED BY <1>3, <1>4 DEF NormalRow

\* Every step keeps the stored perimeter normal.
LEMMA NextNormal == ASSUME NormalRow, [DatasetNext]_datasetVars PROVE NormalRow'
<1>1. CASE UNCHANGED row BY <1>1 DEF NormalRow, Normal
<1>2. ASSUME NEW t, NEW payload, row' = Updated(t, payload), row' # Invalid PROVE NormalRow'
  BY <1>2, UpdatedRow
<1>3. ASSUME NEW keys, NEW cached, NEW lost, Render(keys, cached, lost) PROVE NormalRow'
  BY <1>1, <1>2, <1>3, RenderRow
<1>4. CASE row' = [row EXCEPT !.state = "deleted"]
  <2>1. row' = [state |-> "deleted", table |-> row.table, perimeter |-> row.perimeter,
                version |-> row.version]
    BY <1>4 DEF NormalRow
  <2> QED BY <2>1 DEF NormalRow
<1>5. ASSUME NEW t \in Tables, NEW lost \in Losses, AddDataset(t, lost) PROVE NormalRow'
  <2>1. row' = [NoRow EXCEPT !.state = "stored", !.table = t] BY <1>5 DEF AddDataset, RenderList
  <2>2. row' = [state |-> "stored", table |-> t, perimeter |-> Null, version |-> 0]
    BY <2>1 DEF NoRow
  <2> QED BY <2>2, NullIsNormal DEF NormalRow
<1>6. ASSUME NEW t \in Tables, NEW lost \in Losses, EditDataset(t, lost) PROVE NormalRow'
  BY <1>1, <1>2, <1>6 DEF EditDataset, RenderList
<1>7. ASSUME NEW lost \in Losses, DeleteDataset(lost) \/ TogglePreview(lost) \/ Back(lost)
      PROVE  NormalRow'
  BY <1>1, <1>4, <1>7 DEF DeleteDataset, TogglePreview, Back, RenderList
<1>8. ASSUME NEW lost \in Losses, OpenPerimeter(lost) PROVE NormalRow'
  BY <1>1, <1>3, <1>8 DEF OpenPerimeter
<1>9. ASSUME NEW lost \in Losses,
             \/ \E columns \in TypedColumns : SetColumns(columns, lost)
             \/ \E rows \in TypedRows : SetParameters(rows, lost)
             \/ \E logic \in Logics : SetLogic(logic, lost)
      PROVE  NormalRow'
  BY <1>3, <1>9 DEF SetColumns, SetParameters, SetLogic
<1>10. ASSUME NEW lost \in Losses,
              \/ \E c \in TypedConditions : AddCondition(c, lost) \/ SaveEdit(c, lost)
              \/ \E conditions \in TypedGroups : AddGroup("OR", conditions, lost)
       PROVE  NormalRow'
  BY <1>3, <1>10 DEF AddCondition, SaveEdit, AddGroup
<1>11. ASSUME NEW lost \in Losses,
              \/ \E i \in 1..2 : DeleteItem(i, lost) \/ RemoveSort(i, lost)
              \/ \E s \in TypedSorts : SaveSort(s, lost)
       PROVE  NormalRow'
  BY <1>3, <1>11 DEF DeleteItem, RemoveSort, SaveSort
<1>12. ASSUME NEW lost \in Losses,
              \/ \E i \in 1..2, j \in 0..2 :
                   DeleteGroupCondition(i, j, lost) \/ OpenEdit(i, j, lost)
              \/ CancelEdit(lost) \/ RefreshPreview(lost)
       PROVE  NormalRow'
  BY <1>3, <1>12 DEF DeleteGroupCondition, OpenEdit, CancelEdit, RefreshPreview
<1>13. ASSUME NEW p \in ApiPerimeters, OtherUpdate(p) PROVE NormalRow'
  BY <1>2, <1>13 DEF OtherUpdate
<1>14. CASE OtherDelete BY <1>4, <1>14 DEF OtherDelete
<1>15. CASE \E t \in Tables, c \in Columns : DropColumn(t, c) BY <1>1, <1>15 DEF DropColumn
<1>16. CASE UNCHANGED datasetVars BY <1>1, <1>16 DEF datasetVars, serverVars
<1> QED
  BY <1>5, <1>6, <1>7, <1>8, <1>9, <1>10, <1>11, <1>12, <1>13, <1>14, <1>15, <1>16
  DEF DatasetNext, DatasetClick

\* The row is normal at the start.
LEMMA InitNormal == DatasetInit => NormalRow
<1> SUFFICES ASSUME DatasetInit PROVE NormalRow OBVIOUS
<1>1. CASE row = NoRow BY <1>1, NullIsNormal DEF NoRow, NormalRow
<1>2. ASSUME NEW t \in Tables, NEW p \in ApiPerimeters, Normalize(p) # Invalid,
             row = [state |-> "stored", table |-> t, perimeter |-> Normalize(p), version |-> 0]
      PROVE  NormalRow
  <2>1. Normal(Normalize(p)) BY <1>2, NormalizeIsStable DEF Normal
  <2> QED BY <1>2, <2>1 DEF NormalRow
<1> QED BY <1>1, <1>2 DEF DatasetInit

\* In every reachable state the row is normal.
LEMMA NormalHolds == DatasetSpec => []NormalRow
BY InitNormal, NextNormal, PTL DEF DatasetSpec

\* What the API stores can be stored again, whoever saved it and whatever failed
\* (StoredIsNormal).
THEOREM StoredIsNormalCorrect == DatasetSpec => []StoredIsNormal
<1>1. NormalRow => StoredIsNormal BY DEF NormalRow, Normal, StoredIsNormal
<1> QED BY <1>1, NormalHolds, PTL

-----------------------------------------------------------------------------
(* A normal perimeter compiles *)

\* What normalize has checked of a perimeter it does not change.
LEMMA NormalParts ==
  ASSUME NEW p, Normal(p), p # Null
  PROVE  /\ \A i \in DOMAIN p.parameters :
              /\ NormalParameter(p.parameters[i]) # Invalid
              /\ p.parameters[i].default # "null"
         /\ \A i \in DOMAIN p.items : \A j \in DOMAIN p.items[i].conditions :
              LET c == p.items[i].conditions[j]
              IN  /\ NormalCondition(c, TypesOf(p.parameters)) = c
                  /\ NormalCondition(c, TypesOf(p.parameters)) # Invalid
<1> DEFINE parameters == NormalParameters(p.parameters)
           types == TypesOf(p.parameters)
           items == NormalItems(p.items, types)
           logic == IF items = <<>> THEN "AND" ELSE p.logic
<1>1. /\ parameters # Invalid /\ items # Invalid
      /\ p = [parameters |-> parameters, columns |-> p.columns, logic |-> logic,
              items |-> items, sort |-> p.sort]
  BY DEF Normal, Normalize, PerimeterOf, Perimeter
<1>2. \A i \in DOMAIN p.parameters :
        NormalParameter(p.parameters[i]) # Invalid /\ p.parameters[i].default # "null"
  <2> DEFINE ns == [k \in DOMAIN p.parameters |-> NormalParameter(p.parameters[k])]
  <2>1. parameters = ns /\ \A k \in DOMAIN ns : ns[k] # Invalid
    BY <1>1, WholeLemma DEF NormalParameters
  <2>2. p.parameters = ns BY <1>1, <2>1
  <2>3. \A k \in DOMAIN p.parameters : p.parameters[k] = NormalParameter(p.parameters[k])
    BY <2>2
  <2> QED BY <2>1, <2>3, ParameterIsStable
<1>3. p.items = items BY <1>1
<1>4. ASSUME NEW i \in DOMAIN p.items
      PROVE  NormalItem(p.items[i], types) = p.items[i] /\ p.items[i] # Invalid
  <2> DEFINE ns == [k \in DOMAIN p.items |-> NormalItem(p.items[k], types)]
  <2>1. items = ns /\ \A k \in DOMAIN ns : ns[k] # Invalid BY <1>1, WholeLemma DEF NormalItems
  <2> QED BY <1>3, <2>1
<1>5. ASSUME NEW i \in DOMAIN p.items, NEW j \in DOMAIN p.items[i].conditions
      PROVE  /\ NormalCondition(p.items[i].conditions[j], types) = p.items[i].conditions[j]
             /\ NormalCondition(p.items[i].conditions[j], types) # Invalid
  <2>1. PICK item : item = p.items[i] OBVIOUS
  <2> DEFINE cs == [k \in DOMAIN item.conditions |-> NormalCondition(item.conditions[k], types)]
  <2>2. NormalItem(item, types) = item /\ item # Invalid BY <1>4, <2>1
  <2>3. Whole(cs) \notin {<<>>, Invalid} BY <2>2 DEF NormalItem, ItemOf
  <2>4. Whole(cs) = cs /\ \A k \in DOMAIN cs : cs[k] # Invalid BY <2>3, WholeLemma
  <2>5. item = [kind |-> item.kind, logic |-> item.logic, conditions |-> cs]
    BY <2>2, <2>3, <2>4 DEF NormalItem, ItemOf
  <2>6. item.conditions = cs BY <2>5
  <2> QED BY <2>1, <2>4, <2>6
<1> QED BY <1>2, <1>5

\* A parameter that was accepted has a default of its type, unless it is bound
\* to a built-in of another type (_resolve_default_value).
LEMMA DefaultResolves ==
  ASSUME NEW q, NormalParameter(q) # Invalid, q.default # "null",
         q.binding # Null => q.type \notin {"integer", "number", "boolean"}
  PROVE  /\ q.type \in ParameterTypes
         /\ DefaultValue(q) # Invalid
         /\ /\ q.default # Null \/ q.binding # Null
            /\ q.type \in {"integer", "number", "date", "datetime"}
            => DefaultValue(q) \in {"int", "date", "datetime"}
         /\ /\ q.default # Null \/ q.binding # Null
            /\ q.type = "string"
            => DefaultValue(q) \in Texts
<1>1. q.type \in ParameterTypes /\ CoerceValue(q.type, q.default) # Invalid
      /\ q.binding \in BuiltIns \cup {Null}
  BY DEF NormalParameter, WithDefault, GivenDefault
<1>2. CASE q.default # Null
  <2>1. /\ DefaultValue(q) = CoerceValue(q.type, q.default)
        /\ q.default \in DOMAIN Coercions[q.type]
        /\ CoerceValue(q.type, q.default) = Coercions[q.type][q.default]
    BY <1>1, <1>2, Coerced DEF DefaultValue
  <2>2. q.type \in {"integer", "number", "date", "datetime"} =>
          Coercions[q.type][q.default] \in {"int", "date", "datetime"}
    BY <1>1, <2>1 DEF Coercions, ParameterTypes
  <2>3. q.type = "string" => Coercions[q.type][q.default] \in Texts
    BY <1>1, <2>1 DEF Coercions, ParameterTypes, Texts
  <2> QED BY <1>1, <2>1, <2>2, <2>3
<1>3. CASE q.default = Null /\ q.binding # Null
  <2>1. q.type \in {"string", "date", "datetime"} BY <1>1, <1>3 DEF ParameterTypes
  <2>2. BuiltInValue(q.binding) \in {"date", "datetime"} BY DEF BuiltInValue
  <2>3. BuiltInValue(q.binding) \in DOMAIN Coercions[q.type]
    BY <2>1, <2>2 DEF Coercions, ParameterTypes, Values
  <2>4. DefaultValue(q) = Coercions[q.type][BuiltInValue(q.binding)]
    BY <1>3, <2>2, <2>3, Tokens DEF DefaultValue, CoerceValue, Values
  <2>5. /\ Coercions[q.type][BuiltInValue(q.binding)] \in Values
        /\ q.type \in {"date", "datetime"} =>
             Coercions[q.type][BuiltInValue(q.binding)] \in {"date", "datetime"}
        /\ q.type = "string" => Coercions[q.type][BuiltInValue(q.binding)] \in Texts
    BY <2>1, <2>2 DEF Coercions, ParameterTypes, Values, Texts, ListValues
  <2> QED BY <1>1, <2>1, <2>4, <2>5, Tokens
<1>4. CASE q.default = Null /\ q.binding = Null
  BY <1>1, <1>4, Tokens DEF DefaultValue
<1> QED BY <1>2, <1>3, <1>4

\* A condition that was accepted names a parameter, of a type that the operator
\* compares (_normalize_filter_value).
LEMMA ConditionRefers ==
  ASSUME NEW c, NEW types, NormalCondition(c, types) = c, NormalCondition(c, types) # Invalid,
         c.mode = "parameter"
  PROVE  /\ c.arg \in DOMAIN types
         /\ c.operator \in OrderOperators =>
              types[c.arg] \in {"integer", "number", "date", "datetime"}
         /\ c.operator \in StringOperators => types[c.arg] = "string"
<1>1. c.operator \notin NullOperators
  <2> SUFFICES ASSUME c.operator \in NullOperators PROVE FALSE OBVIOUS
  <2>1. c = Condition(c.field, c.operator, "none", Null) BY DEF NormalCondition
  <2> QED BY <2>1 DEF Condition
<1>2. FilterValueValid(c, types) BY <1>1 DEF NormalCondition
<1> QED BY <1>2 DEF FilterValueValid, OperatorCompatible, OrderOperators, StringOperators

\* A normal perimeter compiles, with the exceptions of AcceptedCompiles.
LEMMA NormalCompiles ==
  ASSUME NEW p, Normal(p), p # Null, schema[row.table] # {},
         ~Missing(p), ~MistypedBuiltIn(p), ~Incomparable(p)
  PROVE  ReachesDatabase(p, schema[row.table], NoOverrides)
<1> DEFINE ps == p.parameters
           columns == schema[row.table]
           names == ToSet(Names(ps))
           values == Resolve(ps, NoOverrides)
<1>1. ASSUME NEW n \in names
      PROVE  /\ Named(ps, n) \in ToSet(ps) /\ Named(ps, n).name = n
             /\ NormalParameter(Named(ps, n)) # Invalid /\ Named(ps, n).default # "null"
  <2>1. IndexOf(Names(ps), n) \in DOMAIN ps /\ Named(ps, n).name = n BY IndexLemma
  <2> QED BY <2>1, NormalParts DEF Named, ToSet
<1>2. DOMAIN NoOverrides = {} BY DEF NoOverrides
<1>3. ASSUME NEW n \in names PROVE values[n] = DefaultValue(Named(ps, n))
  BY <1>2 DEF Resolve, ValueOf
<1>4. ASSUME NEW n \in names
      PROVE  Named(ps, n).binding # Null =>
               Named(ps, n).type \notin {"integer", "number", "boolean"}
  BY <1>1 DEF MistypedBuiltIn
<1>5. Resolves(ps, NoOverrides)
  BY <1>1, <1>2, <1>3, <1>4, DefaultResolves DEF Resolves
<1>6. ASSUME NEW c \in Conditions(p) PROVE ConditionCompiles(c, columns, values)
  <2>1. NormalCondition(c, TypesOf(ps)) = c /\ NormalCondition(c, TypesOf(ps)) # Invalid
    BY NormalParts DEF Conditions, ToSet
  <2>2. c.field \in columns BY DEF Missing
  <2>3. DOMAIN values = names /\ DOMAIN TypesOf(ps) = names BY DEF Resolve, TypesOf
  <2>4. c.mode = "parameter" => c.arg \in names BY <2>1, <2>3, ConditionRefers
  <2>5. ASSUME c.mode = "parameter", c.operator \in ComparingOperators
        PROVE  values[c.arg] \notin {Null, "bool"}
    <3>1. PICK q : q = Named(ps, c.arg) OBVIOUS
    <3>2. c.arg \in names BY <2>4, <2>5
    <3>3. /\ q \in ToSet(ps) /\ q.name = c.arg
          /\ NormalParameter(q) # Invalid /\ q.default # "null"
      BY <1>1, <3>1, <3>2
    <3>4. \/ q.type \in {"integer", "number", "date", "datetime"}
          \/ q.type = "string"
      <4>1. TypesOf(ps)[c.arg] = q.type BY <3>1, <3>2 DEF TypesOf
      <4> QED BY <2>1, <2>5, <4>1, ConditionRefers DEF ComparingOperators
    <3>5. q.default # Null \/ q.binding # Null BY <2>5, <3>3 DEF Incomparable
    <3>6. DefaultValue(q) \in {"int", "date", "datetime"} \cup Texts
      BY <1>4, <3>1, <3>2, <3>3, <3>4, <3>5, DefaultResolves
    <3>7. values[c.arg] = DefaultValue(q) BY <1>3, <3>1, <3>2
    <3> QED BY <3>6, <3>7, Tokens DEF Values, Texts
  <2>6. c.operator \in ComparingOperators /\ c.mode # "parameter" => c.arg \notin {Null, "bool"}
    BY DEF Incomparable
  <2> QED BY <2>2, <2>3, <2>4, <2>5, <2>6 DEF ConditionCompiles
<1>7. Compiles(p, columns, values)
  BY <1>6 DEF Compiles, Missing, ToSet
<1>8. Normalize(p) = p /\ p # Invalid BY DEF Normal
<1> QED BY <1>5, <1>7, <1>8 DEF ReachesDatabase

\* The program finds a statement for a stored perimeter, unless the database lost
\* what it names or it is of one of the kinds the validation lets through
\* (AcceptedCompiles): for any parameters, conditions and columns.
THEOREM AcceptedCompilesCorrect == DatasetSpec => []AcceptedCompiles
<1>1. NormalRow => AcceptedCompiles BY NormalCompiles DEF NormalRow, AcceptedCompiles
<1> QED BY <1>1, NormalHolds, PTL

-----------------------------------------------------------------------------
(* Lists: what Only keeps, by induction on the length of the list *)

\* Of numbers one is the least.
LEMMA LeastOf ==
  ASSUME NEW S, S \subseteq Nat, S # {}
  PROVE  \E m \in S : \A k \in S : m <= k
<1>1. PICK x \in S : \A y \in S : ~(<<y, x>> \in OpToRel(<, Nat))
  BY NatLessThanWellFounded, WFMin
<1>2. ASSUME NEW y \in S PROVE x <= y
  <2>1. <<y, x>> \in Nat \X Nat OBVIOUS
  <2>2. <<y, x>>[1] = y /\ <<y, x>>[2] = x OBVIOUS
  <2>3. ~(y < x) BY <1>1, <2>1, <2>2, Zenon DEF OpToRel
  <2> QED BY <2>3
<1> QED BY <1>2

\* One more element is kept or not.
Next1(kept, x, S) == IF x \in S THEN Append(kept, x) ELSE kept
\* The walk over the first elements of a list.
Walk(kept, n, seq, S) ==
  kept = [i \in 0..n |-> IF i = 0 THEN <<>> ELSE Next1(kept[i - 1], seq[i], S)]

LEMMA WalkExists ==
  ASSUME NEW seq, NEW S, NEW n \in Nat
  PROVE  \E kept : Walk(kept, n, seq, S)
<1> DEFINE Bad == {k \in Nat : ~ \E kept : Walk(kept, k, seq, S)}
<1> SUFFICES ASSUME Bad # {} PROVE FALSE OBVIOUS
<1>1. PICK m \in Bad : \A k \in Bad : m <= k BY LeastOf
<1>2. m # 0
  <2> DEFINE w == [i \in 0..0 |-> <<>>]
  <2>1. Walk(w, 0, seq, S) BY DEF Walk
  <2> QED BY <2>1
<1>3. m - 1 \in Nat /\ m - 1 \notin Bad BY <1>1, <1>2
<1>4. PICK kept : Walk(kept, m - 1, seq, S) BY <1>3
<1> DEFINE w == [i \in 0..m |-> IF i = 0 THEN <<>> ELSE Next1(kept[i - 1], seq[i], S)]
<1>5. \A i \in 0..(m - 1) : w[i] = kept[i] BY <1>4 DEF Walk
<1>6. \A i \in 0..m : w[i] = IF i = 0 THEN <<>> ELSE Next1(w[i - 1], seq[i], S)
  <2> SUFFICES ASSUME NEW i \in 0..m, i # 0 PROVE w[i] = Next1(w[i - 1], seq[i], S) BY <1>1
  <2>1. i - 1 \in 0..(m - 1) BY <1>1
  <2> QED BY <1>5, <2>1
<1>7. Walk(w, m, seq, S)
  <2>1. w = [i \in 0..m |-> w[i]] OBVIOUS
  <2> HIDE DEF w
  <2> QED BY <1>6, <2>1 DEF Walk
<1> QED BY <1>7

LEMMA OnlyWalks ==
  ASSUME NEW seq, NEW S, Len(seq) \in Nat
  PROVE  \E kept : Walk(kept, Len(seq), seq, S) /\ Only(seq, S) = kept[Len(seq)]
<1> DEFINE n == Len(seq)
           Body(f) == [i \in 0..n |->
                         IF i = 0 THEN <<>>
                         ELSE IF seq[i] \in S THEN Append(f[i - 1], seq[i]) ELSE f[i - 1]]
           kept == CHOOSE f : f = Body(f)
<1>1. Only(seq, S) = kept[n] BY DEF Only
<1>2. ASSUME NEW f PROVE Walk(f, n, seq, S) <=> f = Body(f) BY DEF Walk, Next1
<1>3. \E f : f = Body(f) BY <1>2, WalkExists
<1>4. kept = Body(kept)
  <2> HIDE DEF Body
  <2> QED BY <1>3
<1> HIDE DEF kept
<1> QED BY <1>1, <1>2, <1>4

\* A list of elements of S is kept as it is.
LEMMA OnlyAll ==
  ASSUME NEW S, NEW seq \in Seq(S)
  PROVE  Only(seq, S) = seq
<1>1. PICK kept : Walk(kept, Len(seq), seq, S) /\ Only(seq, S) = kept[Len(seq)] BY OnlyWalks
<1> DEFINE Bad == {i \in 0..Len(seq) : kept[i] # SubSeq(seq, 1, i)}
<1>2. CASE Bad = {}
  <2>1. kept[Len(seq)] = SubSeq(seq, 1, Len(seq)) BY <1>2
  <2> QED BY <1>1, <2>1
<1>3. CASE Bad # {}
  <2>0. Bad \subseteq Nat OBVIOUS
  <2>1. PICK i \in Bad : \A k \in Bad : i <= k
    <3> HIDE DEF Bad
    <3> QED BY <1>3, <2>0, LeastOf
  <2>2. i # 0 BY <1>1, <2>1 DEF Walk
  <2>3. i - 1 \in 0..Len(seq) /\ i - 1 \notin Bad BY <2>1, <2>2
  <2>4. kept[i - 1] = SubSeq(seq, 1, i - 1) BY <2>3
  <2>7. seq[i] \in S BY <2>1, <2>2
  <2>5. kept[i] = Append(kept[i - 1], seq[i]) BY <1>1, <2>1, <2>2, <2>7 DEF Walk, Next1
  <2>6. Append(SubSeq(seq, 1, i - 1), seq[i]) = SubSeq(seq, 1, i) BY <2>1, <2>2
  <2> QED BY <2>1, <2>4, <2>5, <2>6
<1> QED BY <1>2, <1>3

\* What is kept is a list of elements that are in S.
LEMMA OnlyIn ==
  ASSUME NEW S, NEW T, NEW seq \in Seq(T)
  PROVE  Only(seq, S) \in Seq(S \cap T)
<1>1. PICK kept : Walk(kept, Len(seq), seq, S) /\ Only(seq, S) = kept[Len(seq)] BY OnlyWalks
<1> DEFINE Bad == {i \in 0..Len(seq) : kept[i] \notin Seq(S \cap T)}
<1>2. CASE Bad = {} BY <1>1, <1>2
<1>3. CASE Bad # {}
  <2>0. Bad \subseteq Nat OBVIOUS
  <2>1. PICK i \in Bad : \A k \in Bad : i <= k
    <3> HIDE DEF Bad
    <3> QED BY <1>3, <2>0, LeastOf
  <2>2. i # 0
    <3>1. kept[0] = <<>> BY <1>1 DEF Walk
    <3>2. <<>> \in Seq(S \cap T) OBVIOUS
    <3> QED BY <2>1, <3>1, <3>2
  <2>3. i - 1 \in 0..Len(seq) /\ i - 1 \notin Bad BY <2>1, <2>2
  <2>4. kept[i - 1] \in Seq(S \cap T) BY <2>3
  <2>5. kept[i] = Next1(kept[i - 1], seq[i], S) BY <1>1, <2>1, <2>2 DEF Walk
  <2>6. seq[i] \in T BY <2>1, <2>2
  <2>7. CASE seq[i] \in S
    <3>1. Append(kept[i - 1], seq[i]) \in Seq(S \cap T) BY <2>4, <2>6, <2>7
    <3> QED BY <2>1, <2>5, <2>7, <3>1 DEF Next1
  <2>8. CASE seq[i] \notin S BY <2>1, <2>4, <2>5, <2>8 DEF Next1
  <2> QED BY <2>7, <2>8
<1> QED BY <1>2, <1>3

-----------------------------------------------------------------------------
(* The editor reads a stored perimeter back *)

\* None and an exception are neither dicts nor lists, which are functions here.
NotFunctions == \A f : f = [x \in DOMAIN f |-> f[x]] => f # Null /\ f # Invalid

LEMMA ListsDiffer ==
  ASSUME NotFunctions, NEW s, IsList(s)
  PROVE  s # Null /\ s # Invalid
<1>1. s \in [1..Len(s) -> ToSet(s)] BY DEF IsList
<1>2. s = [x \in DOMAIN s |-> s[x]] BY <1>1
<1> QED BY <1>2 DEF NotFunctions

LEMMA EmptyList ==
  ASSUME NEW s, IsList(s)
  PROVE  s = <<>> <=> DOMAIN s = {}
BY DEF IsList

\* A list whose elements are something is kept as it is (Kept).
LEMMA KeptAll ==
  ASSUME NotFunctions, NEW s, IsList(s), \A i \in DOMAIN s : s[i] \notin {Null, <<>>, Invalid}
  PROVE  Whole(s) = s /\ Kept(s) = s
<1>1. s # Invalid BY ListsDiffer
<1>2. Whole(s) = s BY DEF Whole
<1>3. s \in Seq(ToSet(s) \ {Null, <<>>})
  <2>1. s \in [1..Len(s) -> ToSet(s)] /\ Len(s) \in Nat BY DEF IsList
  <2>2. \A i \in 1..Len(s) : s[i] \in ToSet(s) \ {Null, <<>>} BY <2>1
  <2> QED BY <2>1, <2>2
<1>4. Only(s, ToSet(s) \ {Null, <<>>}) = s BY <1>3, OnlyAll
<1> QED BY <1>1, <1>2, <1>4 DEF Kept

\* A list as long as the set of its elements has no element twice (Repeats).
LEMMA NoRepeats ==
  ASSUME NEW s, IsList(s), ~Repeats(s), NEW i \in DOMAIN s, NEW j \in DOMAIN s, i # j
  PROVE  s[i] # s[j]
<1> DEFINE n == Len(s)
<1>1. n \in Nat /\ DOMAIN s = 1..n /\ s \in [1..n -> ToSet(s)] BY DEF IsList
<1>2. IsFiniteSet(1..n) /\ Cardinality(1..n) = n
  <2>1. 1 \in Int /\ n \in Int BY <1>1
  <2>2. IsFiniteSet(1..n) /\ Cardinality(1..n) = IF 1 > n THEN 0 ELSE n - 1 + 1
    BY <2>1, FS_Interval
  <2> QED BY <1>1, <2>2
<1>3. s \in Surjection(1..n, ToSet(s)) BY <1>1 DEF Surjection, ToSet
<1>4. /\ IsFiniteSet(ToSet(s)) /\ Cardinality(ToSet(s)) <= Cardinality(1..n)
      /\ Cardinality(ToSet(s)) = Cardinality(1..n) <=> s \in Injection(1..n, ToSet(s))
  BY <1>2, <1>3, FS_Surjection
<1>5. Cardinality(ToSet(s)) \in Nat BY <1>4, FS_CardinalityType
<1>6. Cardinality(ToSet(s)) = n BY <1>1, <1>2, <1>4, <1>5 DEF Repeats
<1> QED BY <1>1, <1>2, <1>4, <1>6 DEF Injection, IsInjective

\* A perimeter whose lists are all empty.
Bare(p) == p.parameters = <<>> /\ p.columns = <<>> /\ p.items = <<>> /\ p.sort = <<>>

\* What normalize has checked of a perimeter, all of it.
LEMMA NormalShape ==
  ASSUME NEW p, Normal(p), p # Null
  PROVE  LET types == TypesOf(p.parameters)
         IN  /\ WellFormed(p) /\ ~Repeats(Names(p.parameters))
             /\ p.items = <<>> => p.logic = "AND"
             /\ p = [parameters |-> p.parameters, columns |-> p.columns, logic |-> p.logic,
                     items |-> p.items, sort |-> p.sort]
             /\ \A i \in DOMAIN p.parameters :
                  /\ NormalParameter(p.parameters[i]) = p.parameters[i]
                  /\ p.parameters[i] # Invalid
             /\ NormalItems(p.items, types) = p.items
             /\ \A i \in DOMAIN p.items :
                  NormalItem(p.items[i], types) = p.items[i] /\ p.items[i] # Invalid
<1> DEFINE types == TypesOf(p.parameters)
           parameters == NormalParameters(p.parameters)
           items == NormalItems(p.items, types)
           logic == IF items = <<>> THEN "AND" ELSE p.logic
<1>1. /\ WellFormed(p) /\ parameters # Invalid /\ items # Invalid
      /\ p = [parameters |-> parameters, columns |-> p.columns, logic |-> logic,
              items |-> items, sort |-> p.sort]
  BY DEF Normal, Normalize, PerimeterOf, Perimeter
<1>2. p.parameters = parameters /\ p.items = items /\ p.logic = logic BY <1>1
<1>3. /\ ~Repeats(Names(p.parameters))
      /\ parameters = [i \in DOMAIN p.parameters |-> NormalParameter(p.parameters[i])]
      /\ \A i \in DOMAIN p.parameters : NormalParameter(p.parameters[i]) # Invalid
  BY <1>1, WholeLemma DEF NormalParameters
<1>4. /\ items = [i \in DOMAIN p.items |-> NormalItem(p.items[i], types)]
      /\ \A i \in DOMAIN p.items : NormalItem(p.items[i], types) # Invalid
  BY <1>1, WholeLemma DEF NormalItems
<1>5. \A i \in DOMAIN p.parameters :
        NormalParameter(p.parameters[i]) = p.parameters[i] /\ p.parameters[i] # Invalid
  BY <1>2, <1>3
<1>6. \A i \in DOMAIN p.items : NormalItem(p.items[i], types) = p.items[i] /\ p.items[i] # Invalid
  BY <1>2, <1>4
<1>7. p.items = <<>> => p.logic = "AND" BY <1>2
<1> HIDE DEF parameters, items, logic
<1> QED BY <1>1, <1>2, <1>3, <1>5, <1>6, <1>7 DEF items

\* The parts of a normal parameter (_normalize_parameter_definition).
LEMMA ParameterShape ==
  ASSUME NotFunctions, NEW q, NormalParameter(q) = q, q # Invalid
  PROVE  /\ q = [name |-> q.name, type |-> q.type, default |-> q.default, binding |-> q.binding]
         /\ q.name # Null /\ q.type \in ParameterTypes
         /\ q.default = Null \/ q.binding = Null
         /\ q.default # "null" /\ CoerceValue(q.type, q.default) # Invalid
         /\ q.default = SerializeDefault(CoerceValue(q.type, q.default))
<1> DEFINE value == CoerceValue(q.type, q.default)
<1>5. q.default # "null" BY ParameterIsStable
<1>6. GivenDefault(q) = q.default BY <1>5 DEF GivenDefault
<1>1. /\ q.name # Null /\ q.type \in ParameterTypes
      /\ q.default = Null \/ q.binding = Null
      /\ value # Invalid
      /\ q = [name |-> q.name, type |-> q.type, default |-> SerializeDefault(value),
              binding |-> q.binding]
  BY <1>6 DEF NormalParameter, WithDefault
<1>2. PICK d : d = SerializeDefault(value) OBVIOUS
<1>3. q = [name |-> q.name, type |-> q.type, default |-> d, binding |-> q.binding] BY <1>1, <1>2
<1>4. q.default = d BY <1>3
<1> HIDE DEF value
<1> QED BY <1>1, <1>2, <1>3, <1>4, <1>5 DEF value

\* The default of a stored parameter, once read, is read as itself, and is
\* coerced back to what was stored (normalize_editor_value, coerce_value).
LEMMA DefaultIsShown ==
  ASSUME NEW type \in ParameterTypes, NEW v, v # Null, v \notin ReadAsJson,
         CoerceValue(type, v) # Invalid, v = SerializeDefault(CoerceValue(type, v))
  PROVE  LET w == EditorValue(v)
         IN  /\ w \notin {Null, Invalid, "null"} /\ EditorValue(w) = w
             /\ CoerceValue(type, w) # Invalid
             /\ SerializeDefault(CoerceValue(type, w)) = v
<1>0. v \in DOMAIN Coercions[type] /\ CoerceValue(type, v) = Coercions[type][v] BY Coerced
<1> USE Tokens DEF CoerceValue, Coercions, ParameterTypes, Values, Texts, ListValues,
                   SerializeDefault, EditorValue, ReadAsJson
<1>1. CASE type = "string"
  <2>1. v \in {"text", "digits", "isoDate", "isoDatetime"} BY <1>0, <1>1
  <2>2. CASE v = "digits" BY <1>1, <2>2
  <2>3. CASE v = "text" BY <1>1, <2>3
  <2>4. CASE v = "isoDate" BY <1>1, <2>4
  <2>5. CASE v = "isoDatetime" BY <1>1, <2>5
  <2> QED BY <2>1, <2>2, <2>3, <2>4, <2>5
<1>2. CASE type \in {"integer", "number"} BY <1>0, <1>2
<1>3. CASE type = "boolean" BY <1>0, <1>3
<1>4. CASE type = "date" BY <1>0, <1>4
<1>5. CASE type = "datetime" BY <1>0, <1>5
<1> QED BY <1>1, <1>2, <1>3, <1>4, <1>5

\* A record is neither None nor the empty list nor an exception.
LEMMA RecordsDiffer ==
  ASSUME NotFunctions, NEW r, r = [x \in DOMAIN r |-> r[x]], DOMAIN r # {}
  PROVE  r \notin {Null, <<>>, Invalid}
BY DEF NotFunctions

\* A stored parameter becomes a row that stays as it is however often it is
\* normalised, and that is saved as the parameter (normalize_parameter_editor_row,
\* normalize_parameter_definition).
LEMMA RowIsShown ==
  ASSUME NotFunctions, NEW q, NormalParameter(q) = q, q # Invalid, q.default \notin ReadAsJson
  PROVE  LET r == EditorRow(RowOfStored(q))
             d == Definition(r)
         IN  /\ r \notin {Null, <<>>, Invalid} /\ r.name = q.name
             /\ EditorRow(r) = r
             /\ d.name = q.name /\ d.type = q.type
             /\ d.default # Invalid /\ NormalParameter(d) = q
<1> DEFINE r0 == RowOfStored(q)
           Row(mode, value, function) ==
             [name |-> q.name, type |-> q.type, mode |-> mode, binding |-> Null,
              default |-> value, function |-> function]
<1>1. /\ q = [name |-> q.name, type |-> q.type, default |-> q.default, binding |-> q.binding]
      /\ q.name # Null /\ q.type \in ParameterTypes
      /\ q.default = Null \/ q.binding = Null
      /\ CoerceValue(q.type, q.default) # Invalid
      /\ q.default = SerializeDefault(CoerceValue(q.type, q.default))
  BY ParameterShape
<1>2. /\ r0.name = q.name /\ r0.type = q.type /\ r0.default = q.default
      /\ r0.binding = q.binding /\ r0.mode = Null /\ r0.function = Null
  BY DEF RowOfStored
<1>3. q.binding \in BuiltIns \cup {Null} BY DEF NormalParameter
<1>4. EditorValue(Null) = Null BY Tokens DEF EditorValue, Values, Texts, ListValues
<1>5. /\ Null \notin {"None", "Literal", "Function"} BY Tokens DEF Modes
<1>6. ASSUME NEW mode, NEW value, NEW function
      PROVE  /\ Row(mode, value, function) \notin {Null, <<>>, Invalid}
             /\ Row(mode, value, function).name = q.name
  BY RecordsDiffer
<1>7. ASSUME NEW mode, NEW value, NEW function, NEW r, r = Row(mode, value, function)
      PROVE  /\ r.name = q.name /\ r.type = q.type /\ r.mode = mode /\ r.binding = Null
             /\ r.default = value /\ r.function = function
  BY <1>7
<1>8. CASE q.binding # Null
  <2>1. q.default = Null BY <1>1, <1>8
  <2>2. EditorRow(r0) = Row("Function", Null, q.binding)
    BY <1>1, <1>2, <1>4, <1>8, <2>1, Tokens DEF EditorRow, RowOf, RowWith, ModeOf, Or
  <2>3. PICK r : r = EditorRow(r0) OBVIOUS
  <2>4. /\ r.name = q.name /\ r.type = q.type /\ r.mode = "Function" /\ r.binding = Null
        /\ r.default = Null /\ r.function = q.binding
    BY <1>7, <2>2, <2>3
  <2>5. EditorRow(r) = r
    BY <1>1, <1>4, <1>5, <1>8, <2>2, <2>3, <2>4, Tokens
    DEF EditorRow, RowOf, RowWith, ModeOf, Or
  <2>6. Definition(r) = q
    BY <1>1, <2>1, <2>4 DEF Definition
  <2>7. q.default # Invalid BY <2>1, Tokens
  <2> QED BY <1>6, <2>2, <2>3, <2>5, <2>6, <2>7
<1>9. CASE q.binding = Null /\ q.default # Null
  <2>1. PICK w : w = EditorValue(q.default) OBVIOUS
  <2>2. /\ w \notin {Null, Invalid, "null"} /\ EditorValue(w) = w
        /\ CoerceValue(q.type, w) # Invalid
        /\ SerializeDefault(CoerceValue(q.type, w)) = q.default
    BY <1>1, <1>9, <2>1, DefaultIsShown
  <2>3. EditorRow(r0) = Row("Literal", w, Null)
    BY <1>1, <1>2, <1>9, <2>1, <2>2 DEF EditorRow, RowOf, RowWith, ModeOf, Or
  <2>4. PICK r : r = EditorRow(r0) OBVIOUS
  <2>5. /\ r.name = q.name /\ r.type = q.type /\ r.mode = "Literal" /\ r.binding = Null
        /\ r.default = w /\ r.function = Null
    BY <1>7, <2>3, <2>4
  <2>6. EditorRow(r) = r
    BY <1>1, <2>2, <2>3, <2>4, <2>5 DEF EditorRow, RowOf, RowWith, ModeOf, Or
  <2>7. PICK d : d = Definition(r) OBVIOUS
  <2>8. d.name = q.name /\ d.type = q.type /\ d.default = w /\ d.binding = Null
    BY <2>2, <2>5, <2>7 DEF Definition
  <2>9. NormalParameter(d) = WithDefault(d, CoerceValue(d.type, d.default))
    BY <1>1, <2>2, <2>8 DEF NormalParameter, GivenDefault
  <2>10. WithDefault(d, CoerceValue(d.type, d.default)) = q
    BY <1>1, <1>9, <2>2, <2>8 DEF WithDefault
  <2> QED BY <1>6, <2>2, <2>3, <2>4, <2>6, <2>7, <2>8, <2>9, <2>10
<1>10. CASE q.binding = Null /\ q.default = Null
  <2>1. EditorRow(r0) = Row("None", Null, Null)
    BY <1>1, <1>2, <1>4, <1>10, Tokens DEF EditorRow, RowOf, RowWith, ModeOf, Or
  <2>2. PICK r : r = EditorRow(r0) OBVIOUS
  <2>3. /\ r.name = q.name /\ r.type = q.type /\ r.mode = "None" /\ r.binding = Null
        /\ r.default = Null /\ r.function = Null
    BY <1>7, <2>1, <2>2
  <2>4. EditorRow(r) = r
    BY <1>1, <1>4, <2>1, <2>2, <2>3, Tokens DEF EditorRow, RowOf, RowWith, ModeOf, Or
  <2>5. Definition(r) = q BY <1>1, <1>10, <2>3 DEF Definition
  <2>6. q.default # Invalid BY <1>10, Tokens
  <2> QED BY <1>6, <2>1, <2>2, <2>4, <2>5, <2>6
<1> QED BY <1>8, <1>9, <1>10

\* Rows of different names are all kept (normalize_parameter_editor_rows).
LEMMA FirstsAll ==
  ASSUME NotFunctions, NEW rs, IsList(rs),
         \A i, j \in DOMAIN rs : i # j => rs[i].name # rs[j].name
  PROVE  Firsts(rs) = rs
<1> DEFINE n == Len(rs)
           indices == [i \in DOMAIN rs |-> i]
<1>1. n \in Nat /\ DOMAIN rs = 1..n /\ rs \in [1..n -> ToSet(rs)] BY DEF IsList
<1>2. FirstOf(rs) = 1..n BY <1>1 DEF FirstOf
<1>3. indices \in [1..n -> 1..n] BY <1>1
<1>4. indices \in Seq(1..n) BY <1>1, <1>3
<1>5. Only(indices, 1..n) = indices BY <1>4, OnlyAll
<1>6. RowsAt(rs, indices) = rs BY <1>1 DEF RowsAt
<1>7. rs # Invalid BY ListsDiffer
<1> HIDE DEF indices
<1> QED BY <1>2, <1>5, <1>6, <1>7 DEF Firsts, indices

\* Rows that are something and have different names are normalised one by one.
LEMMA EditorRowsAll ==
  ASSUME NotFunctions, NEW xs, IsList(xs), NEW rs,
         rs = [i \in DOMAIN xs |-> EditorRow(xs[i])],
         \A i \in DOMAIN xs : rs[i] \notin {Null, <<>>, Invalid},
         \A i, j \in DOMAIN xs : i # j => rs[i].name # rs[j].name
  PROVE  EditorRows(xs) = rs
<1>1. rs = [i \in DOMAIN xs |-> rs[i]] /\ DOMAIN rs = DOMAIN xs OBVIOUS
<1>2. IsList(rs) BY <1>1, MapIsList
<1>3. Whole(rs) = rs /\ Kept(rs) = rs BY <1>1, <1>2, KeptAll
<1>4. Firsts(rs) = rs BY <1>1, <1>2, FirstsAll
<1>5. xs # Invalid BY ListsDiffer
<1> QED BY <1>3, <1>4, <1>5 DEF EditorRows

\* The rows of the stored parameters stay as they are, and are saved as the
\* parameters (default_parameter_rows, normalize_parameter_rows).
LEMMA RowsAreShown ==
  ASSUME NotFunctions, NEW p, Normal(p), p # Null,
         \A q \in ToSet(p.parameters) : q.default \notin ReadAsJson
  PROVE  LET rows == DefaultRows(p)
             definitions == Definitions(EditorRows(EditorRows(rows)))
         IN  /\ IsList(definitions) /\ DOMAIN definitions = DOMAIN p.parameters
             /\ \A i \in DOMAIN p.parameters :
                  /\ definitions[i].name = p.parameters[i].name
                  /\ definitions[i].type = p.parameters[i].type
                  /\ NormalParameter(definitions[i]) = p.parameters[i]
<1> DEFINE xs == [i \in DOMAIN p.parameters |-> RowOfStored(p.parameters[i])]
           rs == [i \in DOMAIN p.parameters |-> EditorRow(RowOfStored(p.parameters[i]))]
           ds == [i \in DOMAIN p.parameters |-> Definition(rs[i])]
<1>1. /\ IsList(p.parameters) /\ ~Repeats(Names(p.parameters))
      /\ \A i \in DOMAIN p.parameters :
           NormalParameter(p.parameters[i]) = p.parameters[i] /\ p.parameters[i] # Invalid
  BY NormalShape DEF WellFormed
<1>2. ASSUME NEW i \in DOMAIN p.parameters
      PROVE  /\ rs[i] \notin {Null, <<>>, Invalid} /\ rs[i].name = p.parameters[i].name
             /\ EditorRow(rs[i]) = rs[i]
             /\ ds[i].name = p.parameters[i].name /\ ds[i].type = p.parameters[i].type
             /\ ds[i].default # Invalid /\ NormalParameter(ds[i]) = p.parameters[i]
  <2>1. p.parameters[i].default \notin ReadAsJson BY DEF ToSet
  <2>2. PICK q : q = p.parameters[i] OBVIOUS
  <2>3. NormalParameter(q) = q /\ q # Invalid /\ q.default \notin ReadAsJson BY <1>1, <2>1, <2>2
  <2>4. rs[i] = EditorRow(RowOfStored(q)) /\ ds[i] = Definition(EditorRow(RowOfStored(q)))
    BY <2>2
  <2> HIDE DEF rs, ds
  <2> QED BY <2>2, <2>3, <2>4, RowIsShown
<1>3. IsList(Names(p.parameters))
  <2>1. Names(p.parameters) = [i \in DOMAIN p.parameters |-> Names(p.parameters)[i]] BY DEF Names
  <2> QED BY <1>1, <2>1, MapIsList
<1>4. ASSUME NEW i \in DOMAIN p.parameters, NEW j \in DOMAIN p.parameters, i # j
      PROVE  rs[i].name # rs[j].name
  <2>1. DOMAIN Names(p.parameters) = DOMAIN p.parameters BY DEF Names
  <2>2. Names(p.parameters)[i] # Names(p.parameters)[j] BY <1>1, <1>3, <1>4, <2>1, NoRepeats
  <2>3. p.parameters[i].name # p.parameters[j].name BY <2>2 DEF Names
  <2> HIDE DEF rs
  <2> QED BY <1>2, <2>3
<1>5. DefaultRows(p) = EditorRows(xs) BY DEF DefaultRows, Stored
<1>6. xs = [i \in DOMAIN p.parameters |-> xs[i]] /\ DOMAIN xs = DOMAIN p.parameters OBVIOUS
<1>7. IsList(xs) BY <1>1, <1>6, MapIsList
<1>8. rs = [i \in DOMAIN xs |-> EditorRow(xs[i])] OBVIOUS
<1>9. rs = [i \in DOMAIN p.parameters |-> rs[i]] /\ DOMAIN rs = DOMAIN p.parameters OBVIOUS
<1>10. ds = [i \in DOMAIN rs |-> Definition(rs[i])] OBVIOUS
<1>11. ds = [i \in DOMAIN p.parameters |-> ds[i]] /\ DOMAIN ds = DOMAIN p.parameters OBVIOUS
<1>12. \A i \in DOMAIN rs : ds[i] = Definition(rs[i]) OBVIOUS
<1> HIDE DEF xs, rs, ds
<1>20. \A i \in DOMAIN rs : rs[i] \notin {Null, <<>>, Invalid} BY <1>2, <1>9
<1>21. \A i, j \in DOMAIN rs : i # j => rs[i].name # rs[j].name BY <1>4, <1>9
<1>22. DOMAIN xs = DOMAIN rs BY <1>6, <1>9
<1>13. EditorRows(xs) = rs BY <1>7, <1>8, <1>20, <1>21, <1>22, EditorRowsAll
<1>14. IsList(rs) BY <1>1, <1>9, MapIsList
<1>15. rs = [i \in DOMAIN rs |-> EditorRow(rs[i])] BY <1>2, <1>9
<1>16. EditorRows(rs) = rs BY <1>14, <1>15, <1>20, <1>21, EditorRowsAll
<1>17. rs # Invalid BY <1>14, ListsDiffer
<1>18. Definitions(rs) = ds BY <1>2, <1>9, <1>10, <1>12, <1>17 DEF Definitions
<1>19. IsList(ds) BY <1>1, <1>11, MapIsList
<1> QED BY <1>2, <1>5, <1>11, <1>13, <1>16, <1>18, <1>19

\* A literal that the editor reads as itself.
ReadsAsItself(c) ==
  c.mode = "literal" => EditorValue(c.arg) = c.arg /\ c.arg # Null /\ c.arg # Invalid

\* A stored condition stays as it is (normalize_filter_condition).
LEMMA ConditionIsShown ==
  ASSUME NotFunctions, NEW c, NEW types, NormalCondition(c, types) = c, c # Invalid,
         Null \notin DOMAIN types, ReadsAsItself(c)
  PROVE  EditorCondition(c) = c /\ c \notin {Null, <<>>, Invalid}
<1>1. c.field # Null /\ c.operator \in Operators BY DEF NormalCondition
<1>2. c.operator # Null BY <1>1, Tokens
<1>3. \E mode, arg : c = Condition(c.field, c.operator, mode, arg) BY DEF NormalCondition
<1>4. PICK mode, arg : c = Condition(c.field, c.operator, mode, arg) BY <1>3
<1>5. c = [field |-> c.field, operator |-> c.operator, mode |-> c.mode, arg |-> c.arg]
  BY <1>4 DEF Condition
<1>6. c \notin {Null, <<>>, Invalid} BY <1>5, RecordsDiffer
<1>7. CASE c.operator \in NullOperators
  <2>1. c = Condition(c.field, c.operator, "none", Null) BY <1>1, <1>7 DEF NormalCondition
  <2>2. c.mode = "none" /\ c.arg = Null BY <2>1 DEF Condition
  <2>3. EditorCondition(c) = ConditionWith(c, Null) BY <2>2 DEF EditorCondition
  <2>4. [c EXCEPT !.mode = "none", !.arg = Null] = c BY <1>5, <2>2
  <2> QED BY <1>1, <1>2, <1>6, <1>7, <2>3, <2>4, Tokens DEF ConditionWith
<1>8. CASE c.operator \notin NullOperators
  <2>1. FilterValueValid(c, types) BY <1>1, <1>8 DEF NormalCondition
  <2>2. CASE c.mode = "parameter"
    <3>1. c.arg # Null BY <2>1, <2>2 DEF FilterValueValid
    <3>2. EditorCondition(c) = ConditionWith(c, Null) BY <2>2 DEF EditorCondition
    <3> QED BY <1>1, <1>2, <1>6, <1>8, <2>2, <3>1, <3>2, Tokens DEF ConditionWith
  <2>3. CASE c.mode = "literal"
    <3>1. EditorValue(c.arg) = c.arg /\ c.arg # Null /\ c.arg # Invalid
      BY <2>3 DEF ReadsAsItself
    <3>2. EditorCondition(c) = ConditionWith(c, c.arg) BY <2>3, <3>1 DEF EditorCondition
    <3>3. [c EXCEPT !.arg = c.arg] = c BY <1>5
    <3> QED BY <1>1, <1>2, <1>6, <1>8, <2>3, <3>1, <3>2, <3>3 DEF ConditionWith
  <2>4. CASE c.mode \notin {"parameter", "literal"} BY <2>1, <2>4 DEF FilterValueValid
  <2> QED BY <2>2, <2>3, <2>4
<1> QED BY <1>7, <1>8

\* A stored item stays as it is (normalize_filter_group).
LEMMA ItemIsShown ==
  ASSUME NotFunctions, NEW item, NEW types, NormalItem(item, types) = item, item # Invalid,
         Null \notin DOMAIN types, \A c \in ToSet(item.conditions) : ReadsAsItself(c)
  PROVE  EditorItem(item) = item /\ item \notin {Null, <<>>, Invalid}
<1> DEFINE cs == [i \in DOMAIN item.conditions |-> NormalCondition(item.conditions[i], types)]
           es == [i \in DOMAIN item.conditions |-> EditorCondition(item.conditions[i])]
<1>1. IsList(item.conditions) /\ Whole(cs) \notin {<<>>, Invalid} BY DEF NormalItem, ItemOf
<1>2. Whole(cs) = cs /\ \A i \in DOMAIN cs : cs[i] # Invalid BY <1>1, WholeLemma
<1>3. item = [kind |-> item.kind, logic |-> item.logic, conditions |-> cs]
  BY <1>1, <1>2 DEF NormalItem, ItemOf
<1>4. item.conditions = cs BY <1>3
<1>5. ASSUME NEW i \in DOMAIN item.conditions
      PROVE  es[i] = item.conditions[i] /\ item.conditions[i] \notin {Null, <<>>, Invalid}
  <2>1. PICK c : c = item.conditions[i] OBVIOUS
  <2>2. NormalCondition(c, types) = c /\ c # Invalid /\ c \in ToSet(item.conditions)
    BY <1>2, <1>4, <2>1 DEF ToSet
  <2> QED BY <2>1, <2>2, ConditionIsShown
<1>6. es = item.conditions
  <2>1. item.conditions = [i \in DOMAIN item.conditions |-> item.conditions[i]] BY <1>4
  <2> QED BY <1>5, <2>1
<1>7. EditorConditions(item.conditions) = item.conditions
  BY <1>1, <1>5, <1>6, KeptAll DEF EditorConditions
<1>8. item.conditions \notin {<<>>, Invalid} BY <1>1, <1>2, <1>4
<1>9. EditorItem(item) = [item EXCEPT !.conditions = item.conditions]
  BY <1>7, <1>8 DEF EditorItem, WithConditions
<1>10. [item EXCEPT !.conditions = item.conditions] = item BY <1>3
<1>11. item \notin {Null, <<>>, Invalid} BY <1>3, RecordsDiffer
<1> QED BY <1>9, <1>10, <1>11

\* Stored items stay as they are (default_filter_items, normalize_filter_items).
LEMMA ItemsAreShown ==
  ASSUME NotFunctions, NEW p, Normal(p), p # Null, \A c \in Conditions(p) : ReadsAsItself(c)
  PROVE  EditorItems(p.items) = p.items
<1> DEFINE types == TypesOf(p.parameters)
           es == [i \in DOMAIN p.items |-> EditorItem(p.items[i])]
<1>1. /\ IsList(p.items)
      /\ \A i \in DOMAIN p.items : NormalItem(p.items[i], types) = p.items[i] /\ p.items[i] # Invalid
      /\ \A i \in DOMAIN p.parameters :
           NormalParameter(p.parameters[i]) = p.parameters[i] /\ p.parameters[i] # Invalid
  BY NormalShape DEF WellFormed
<1>2. Null \notin DOMAIN types
  <2>1. \A i \in DOMAIN p.parameters : p.parameters[i].name # Null BY <1>1, ParameterShape
  <2> QED BY <2>1 DEF TypesOf, Names, ToSet
<1>3. ASSUME NEW i \in DOMAIN p.items
      PROVE  es[i] = p.items[i] /\ p.items[i] \notin {Null, <<>>, Invalid}
  <2>1. PICK item : item = p.items[i] OBVIOUS
  <2>2. ToSet(item.conditions) \subseteq Conditions(p) BY <2>1 DEF Conditions
  <2>3. \A c \in ToSet(item.conditions) : ReadsAsItself(c) BY <2>2
  <2>4. NormalItem(item, types) = item /\ item # Invalid BY <1>1, <2>1
  <2> HIDE DEF types
  <2> QED BY <1>2, <2>1, <2>3, <2>4, ItemIsShown
<1>4. es = p.items
  <2>1. p.items \in [1..Len(p.items) -> ToSet(p.items)] BY <1>1 DEF IsList
  <2>2. p.items = [i \in DOMAIN p.items |-> p.items[i]] BY <2>1
  <2> QED BY <1>3, <2>2
<1>5. p.items # Invalid BY <1>1, ListsDiffer
<1>6. Whole(p.items) = p.items /\ Kept(p.items) = p.items BY <1>1, <1>3, KeptAll
<1> QED BY <1>4, <1>5, <1>6 DEF EditorItems

\* A page without any keys, for a perimeter and the columns of a table.
PageOf(p, available) ==
  [columns |-> DefaultColumns(p, available), parameters |-> EditorRows(DefaultRows(p)),
   logic |-> Stored(p).logic, items |-> EditorItems(DefaultItems(p)),
   sort |-> EditorSort(DefaultSort(p))]
PagePayload(p, available) == BuildPayload(PageOf(p, available))
\* What the editor shows of a perimeter is what it is.
ShownIn(p, available) ==
  /\ ToSet(p.columns) \subseteq available
  /\ \A c \in Conditions(p) : ReadsAsItself(c)
  /\ \A q \in ToSet(p.parameters) : q.default \notin ReadAsJson

\* A perimeter that is stored and that the editor shows is what its page would
\* have the server store; of a perimeter with nothing in it, that is none.
LEMMA PageShowsStored ==
  ASSUME NotFunctions, NEW p, Normal(p), p # Null, NEW available, ShownIn(p, available)
  PROVE  /\ Stored(Normalize(PagePayload(p, available))) = p
         /\ ~Bare(p) => Normalize(PagePayload(p, available)) = p
<1> DEFINE f == PageOf(p, available)
           ds == Definitions(EditorRows(f.parameters))
           payload == [parameters |-> ds, columns |-> p.columns, logic |-> p.logic,
                       items |-> p.items, sort |-> p.sort]
<1>1. /\ WellFormed(p) /\ ~Repeats(Names(p.parameters))
      /\ p.items = <<>> => p.logic = "AND"
      /\ p = [parameters |-> p.parameters, columns |-> p.columns, logic |-> p.logic,
              items |-> p.items, sort |-> p.sort]
      /\ NormalItems(p.items, TypesOf(p.parameters)) = p.items
  BY NormalShape
<1>2. /\ f.columns = Only(p.columns, available) /\ f.logic = p.logic
      /\ f.parameters = EditorRows(DefaultRows(p))
      /\ f.items = EditorItems(EditorItems(p.items))
      /\ f.sort = EditorSort(EditorSort(p.sort))
  BY DEF PageOf, DefaultColumns, DefaultItems, DefaultSort, Stored
<1>3. f.columns = p.columns
  <2>1. p.columns \in Seq(ToSet(p.columns)) /\ ToSet(p.columns) \subseteq available
    BY <1>1 DEF WellFormed, IsList, ShownIn
  <2>2. p.columns \in Seq(available) BY <2>1
  <2> QED BY <1>2, <2>2, OnlyAll
<1>4. f.items = p.items /\ EditorItems(f.items) = p.items BY <1>2, ItemsAreShown DEF ShownIn
<1>5. f.sort = p.sort /\ EditorSort(f.sort) = p.sort
  <2>1. p.sort \in Seq(ToSet(p.sort)) /\ \A r \in ToSet(p.sort) : r.field # Null
    BY <1>1 DEF WellFormed, IsList, ToSet
  <2>2. {r \in ToSet(p.sort) : r.field # Null} = ToSet(p.sort) BY <2>1
  <2>3. EditorSort(p.sort) = p.sort BY <2>1, <2>2, OnlyAll DEF EditorSort
  <2> QED BY <1>2, <2>3
<1>6. /\ IsList(ds) /\ DOMAIN ds = DOMAIN p.parameters
      /\ \A i \in DOMAIN p.parameters :
           /\ ds[i].name = p.parameters[i].name /\ ds[i].type = p.parameters[i].type
           /\ NormalParameter(ds[i]) = p.parameters[i] /\ p.parameters[i] # Invalid
  BY <1>2, RowsAreShown, NormalShape DEF ShownIn
<1>7. PagePayload(p, available) = PayloadOf(ds, p.columns, p.logic, p.items, p.sort)
  BY <1>2, <1>3, <1>4, <1>5 DEF PagePayload, BuildPayload
<1> HIDE DEF f, ds
<1>8. ds # Invalid /\ p.items # Invalid BY <1>1, <1>6, ListsDiffer DEF WellFormed
<1>9. p.parameters = <<>> <=> ds = <<>>
  <2>2. DOMAIN ds = DOMAIN p.parameters BY <1>6
  <2>3. p.parameters = <<>> <=> DOMAIN p.parameters = {} BY <1>1, EmptyList DEF WellFormed
  <2>4. ds = <<>> <=> DOMAIN ds = {} BY <1>6, EmptyList
  <2> QED BY <2>2, <2>3, <2>4
<1>21. CASE Bare(p)
  <2>1. PagePayload(p, available) = Null BY <1>7, <1>9, <1>21 DEF PayloadOf, Bare
  <2>2. Stored(Normalize(Null)) = NoPerimeter BY DEF Normalize, Stored
  <2>3. /\ p.parameters = <<>> /\ p.columns = <<>> /\ p.items = <<>> /\ p.sort = <<>>
        /\ p.logic = "AND"
    BY <1>1, <1>21 DEF Bare
  <2>4. p = NoPerimeter BY <1>1, <2>3 DEF NoPerimeter
  <2> QED BY <1>21, <2>1, <2>2, <2>4
<1>22. ASSUME ~Bare(p) PROVE PagePayload(p, available) = payload
  BY <1>1, <1>7, <1>8, <1>9, <1>22 DEF PayloadOf, PerimeterOf, Perimeter, Bare
<1>11. payload # Null
  <2>1. payload \notin {Null, <<>>, Invalid} BY RecordsDiffer
  <2> QED BY <2>1
<1>12. PICK r : r = payload OBVIOUS
<1>13. /\ r.parameters = ds /\ r.columns = p.columns /\ r.logic = p.logic
       /\ r.items = p.items /\ r.sort = p.sort
  BY <1>12
<1>14. WellFormed(r) BY <1>1, <1>6, <1>13 DEF WellFormed
<1>15. Names(ds) = Names(p.parameters) BY <1>6 DEF Names
<1>16. NormalParameters(ds) = p.parameters
  <2> DEFINE ns == [i \in DOMAIN ds |-> NormalParameter(ds[i])]
  <2>1. p.parameters \in [1..Len(p.parameters) -> ToSet(p.parameters)]
    BY <1>1 DEF WellFormed, IsList
  <2>2. p.parameters = [i \in DOMAIN p.parameters |-> p.parameters[i]] BY <2>1
  <2>3. ns = p.parameters BY <1>6, <2>2
  <2>4. Whole(ns) = p.parameters BY <1>6, <2>3 DEF Whole
  <2> QED BY <1>1, <1>15, <2>4 DEF NormalParameters
<1>17. TypesOf(ds) = TypesOf(p.parameters)
  <2>1. ASSUME NEW n \in ToSet(Names(p.parameters))
        PROVE  Named(ds, n).type = Named(p.parameters, n).type
    <3>1. IndexOf(Names(p.parameters), n) \in DOMAIN p.parameters BY IndexLemma
    <3> QED BY <1>6, <1>15, <3>1 DEF Named
  <2> QED BY <1>15, <2>1 DEF TypesOf
<1>18. p.parameters # Invalid BY <1>1, ListsDiffer DEF WellFormed
<1>19. Normalize(r) = PerimeterOf(p.parameters, p.columns, p.logic, p.items, p.sort)
  BY <1>1, <1>11, <1>12, <1>13, <1>14, <1>16, <1>17 DEF Normalize
<1>20. PerimeterOf(p.parameters, p.columns, p.logic, p.items, p.sort) = p
  BY <1>1, <1>8, <1>18 DEF PerimeterOf, Perimeter
<1>23. ASSUME ~Bare(p) PROVE Normalize(PagePayload(p, available)) = p
  BY <1>12, <1>19, <1>20, <1>22, <1>23
<1>24. Stored(p) = p BY DEF Stored
<1> QED BY <1>21, <1>23, <1>24

\* The payload of a page that was just opened.
LEMMA FreshPayloadIs == FreshPayload = PagePayload(listing.perimeter, Available)
BY DEF FreshPayload, PagePayload, PageOf, Filled, OrElse, NoKeys

LEMMA ShowableIsShown == ASSUME NEW p, Showable(p) PROVE ShownIn(p, Available)
<1>1. ASSUME NEW v \in Values \ (ReadAsJson \cup {"digits", "many"})
      PROVE  EditorValue(v) = v /\ v # Null /\ v # Invalid
  BY Tokens DEF EditorValue, Values, Texts, ListValues, ReadAsJson
<1> QED BY <1>1 DEF Showable, ShownIn, ReadsAsItself

-----------------------------------------------------------------------------
(* The caches *)

\* A session knows no version that is newer than the row, and its preview is not
\* older than its list.
VersionsKnown ==
  /\ row.version \in Int
  /\ listing.state = "stored" =>
       /\ listing.version \in Int /\ listing.version <= row.version
       /\ preview # Null => /\ preview.version \in Int
                            /\ listing.version <= preview.version /\ preview.version <= row.version

\* The page of the datasets without a change of the row.
LEMMA ListKeepsVersions ==
  ASSUME VersionsKnown, NEW shown, NEW lost, UNCHANGED listing,
         RenderList(row, preview, shown, lost)
  PROVE  VersionsKnown'
<1>1. row' = row /\ preview' \in {preview, Previewed(preview, row, lost)} BY DEF RenderList
<1>2. Previewed(preview, row, lost) # preview
        => Previewed(preview, row, lost).version = row.version
  BY DEF Previewed, Fetch
<1> QED BY <1>1, <1>2 DEF VersionsKnown

\* The page of the datasets after a change: the preview was dropped.
LEMMA ListTakesVersion ==
  ASSUME NEW new, new.version \in Int, NEW shown, NEW lost,
         listing' = Reloaded(new, lost) \/ listing' = NoRow,
         RenderList(new, Null, shown, lost)
  PROVE  VersionsKnown'
<1>1. row' = new /\ preview' \in {Null, Fetch(new, lost)} BY DEF RenderList, Previewed
<1>2. Fetch(new, lost).version = new.version BY DEF Fetch
<1>3. NoRow.state # "stored" BY DEF NoRow
<1>4. listing' \in {new, NoRow} BY DEF Reloaded
<1> QED BY <1>1, <1>2, <1>3, <1>4 DEF VersionsKnown

\* The version of an updated row.
LEMMA UpdatedVersion ==
  ASSUME VersionsKnown, NormalRow, NEW t, NEW payload, Updated(t, payload) # Invalid
  PROVE  Updated(t, payload).version = row.version + 1
<1> DEFINE stored == IF Normalize(payload) = Null THEN row.perimeter ELSE Normalize(payload)
<1>1. Updated(t, payload)
        = [row EXCEPT !.table = t, !.version = @ + 1, !.perimeter = stored]
  BY DEF Updated, Written
<1> HIDE DEF stored
<1> QED BY <1>1 DEF NormalRow

\* A rendering of the perimeter page, with the preview or after a click that
\* dropped it.
LEMMA RenderKeepsVersions ==
  ASSUME VersionsKnown, NormalRow, NEW keys, NEW cached \in {Null, preview}, NEW lost,
         Render(keys, cached, lost)
  PROVE  VersionsKnown'
<1>1. \/ row' = row /\ listing' = listing /\ preview' = preview
      \/ row' = row /\ listing' = listing /\ preview' = Previewed(cached, row, lost)
      \/ \E t, payload : /\ row' = Updated(t, payload) /\ row' # Invalid
                         /\ listing' = Reloaded(row', lost) /\ preview' = Fetch(row', lost)
  BY DEF Render, Autosave
<1>2. CASE row' = row /\ listing' = listing /\ preview' = preview
  BY <1>2 DEF VersionsKnown
<1>3. CASE row' = row /\ listing' = listing /\ preview' = Previewed(cached, row, lost)
  <2>1. preview' # preview => preview'.version = row.version
    BY <1>3 DEF Previewed, Fetch
  <2> QED BY <1>3, <2>1 DEF VersionsKnown
<1>4. ASSUME NEW t, NEW payload, row' = Updated(t, payload), row' # Invalid,
             listing' = Reloaded(row', lost), preview' = Fetch(row', lost)
      PROVE  VersionsKnown'
  <2>1. row'.version \in Int BY <1>4, UpdatedVersion DEF VersionsKnown
  <2>2. preview'.version = row'.version BY <1>4 DEF Fetch
  <2>3. NoRow.state # "stored" BY DEF NoRow
  <2>4. listing' \in {row', NoRow} BY <1>4 DEF Reloaded
  <2> QED BY <2>1, <2>2, <2>3, <2>4 DEF VersionsKnown
<1> QED BY <1>1, <1>2, <1>3, <1>4

\* Every step keeps the versions in order.
LEMMA NextKeepsVersions ==
  ASSUME VersionsKnown, NormalRow, [DatasetNext]_datasetVars
  PROVE  VersionsKnown'
<1>1. CASE UNCHANGED <<row, listing, preview>> BY <1>1 DEF VersionsKnown
<1>2. ASSUME NEW keys, NEW lost, Render(keys, preview, lost) PROVE VersionsKnown'
  BY <1>2, RenderKeepsVersions
<1>3. ASSUME NEW t \in Tables, NEW lost \in Losses, AddDataset(t, lost) PROVE VersionsKnown'
  <2> DEFINE new == [NoRow EXCEPT !.state = "stored", !.table = t]
  <2>1. listing' = Reloaded(new, lost) /\ RenderList(new, Null, visible, lost)
    BY <1>3 DEF AddDataset
  <2>2. new.version \in Int BY DEF NoRow
  <2> HIDE DEF new
  <2> QED BY <2>1, <2>2, ListTakesVersion
<1>4. ASSUME NEW t \in Tables, NEW lost \in Losses, EditDataset(t, lost) PROVE VersionsKnown'
  <2>1. PICK new : new = Updated(t, Null) OBVIOUS
  <2>2. \/ UNCHANGED listing /\ RenderList(row, preview, visible, lost)
        \/ /\ new # Invalid /\ listing' = Reloaded(new, lost)
           /\ RenderList(new, Null, visible, lost)
    BY <1>4, <2>1 DEF EditDataset
  <2>3. new # Invalid => new.version \in Int BY <2>1, UpdatedVersion DEF VersionsKnown
  <2> QED BY <2>2, <2>3, ListKeepsVersions, ListTakesVersion
<1>5. ASSUME NEW lost \in Losses, DeleteDataset(lost) PROVE VersionsKnown'
  <2>1. PICK new : new = [row EXCEPT !.state = "deleted"] OBVIOUS
  <2>2. new.version \in Int BY <2>1 DEF NormalRow, VersionsKnown
  <2>3. \/ UNCHANGED listing /\ RenderList(row, preview, visible, lost)
        \/ listing' = NoRow /\ RenderList(new, Null, FALSE, lost)
    BY <1>5, <2>1 DEF DeleteDataset
  <2> QED BY <2>2, <2>3, ListKeepsVersions, ListTakesVersion
<1>6. ASSUME NEW lost \in Losses, TogglePreview(lost) \/ Back(lost) PROVE VersionsKnown'
  BY <1>6, ListKeepsVersions DEF TogglePreview, Back
<1>7. ASSUME NEW lost \in Losses, OpenPerimeter(lost) PROVE VersionsKnown'
  BY <1>1, <1>2, <1>7 DEF OpenPerimeter
<1>8. ASSUME NEW lost \in Losses, RefreshPreview(lost) PROVE VersionsKnown'
  BY <1>8, RenderKeepsVersions DEF RefreshPreview
<1>9. ASSUME NEW lost \in Losses,
             \/ \E columns \in TypedColumns : SetColumns(columns, lost)
             \/ \E rows \in TypedRows : SetParameters(rows, lost)
             \/ \E logic \in Logics : SetLogic(logic, lost)
      PROVE  VersionsKnown'
  BY <1>2, <1>9 DEF SetColumns, SetParameters, SetLogic
<1>10. ASSUME NEW lost \in Losses,
              \/ \E c \in TypedConditions : AddCondition(c, lost) \/ SaveEdit(c, lost)
              \/ \E conditions \in TypedGroups : AddGroup("OR", conditions, lost)
       PROVE  VersionsKnown'
  BY <1>2, <1>10 DEF AddCondition, SaveEdit, AddGroup
<1>11. ASSUME NEW lost \in Losses,
              \/ \E i \in 1..2 : DeleteItem(i, lost) \/ RemoveSort(i, lost)
              \/ \E s \in TypedSorts : SaveSort(s, lost)
       PROVE  VersionsKnown'
  BY <1>2, <1>11 DEF DeleteItem, RemoveSort, SaveSort
<1>12. ASSUME NEW lost \in Losses,
              \/ \E i \in 1..2, j \in 0..2 :
                   DeleteGroupCondition(i, j, lost) \/ OpenEdit(i, j, lost)
              \/ CancelEdit(lost)
       PROVE  VersionsKnown'
  BY <1>2, <1>12 DEF DeleteGroupCondition, OpenEdit, CancelEdit
<1>13. ASSUME row'.version \in Int, row'.version >= row.version, UNCHANGED <<listing, preview>>
       PROVE  VersionsKnown'
  BY <1>13 DEF VersionsKnown
<1>14. ASSUME NEW p \in ApiPerimeters, OtherUpdate(p) PROVE VersionsKnown'
  <2>1. row' # Invalid /\ row' = Updated(row.table, p) /\ UNCHANGED <<listing, preview>>
    BY <1>14 DEF OtherUpdate, Other, cacheVars
  <2>2. row'.version = row.version + 1 BY <2>1, UpdatedVersion
  <2> QED BY <1>13, <2>1, <2>2 DEF VersionsKnown
<1>15. CASE OtherDelete
  <2>1. row'.version = row.version BY <1>15 DEF OtherDelete, NormalRow
  <2> QED BY <1>13, <1>15, <2>1 DEF OtherDelete, Other, cacheVars, VersionsKnown
<1>16. CASE \E t \in Tables, c \in Columns : DropColumn(t, c)
  BY <1>1, <1>16 DEF DropColumn, Other, cacheVars
<1>17. CASE UNCHANGED datasetVars BY <1>1, <1>17 DEF datasetVars, serverVars, cacheVars
<1> QED
  BY <1>3, <1>4, <1>5, <1>6, <1>7, <1>8, <1>9, <1>10, <1>11, <1>12, <1>14, <1>15, <1>16, <1>17
  DEF DatasetNext, DatasetClick

\* The versions are in order at the start.
LEMMA InitVersions == DatasetInit => VersionsKnown
<1> SUFFICES ASSUME DatasetInit PROVE VersionsKnown OBVIOUS
<1>1. row.version = 0 BY DEF DatasetInit, NoRow
<1> QED BY <1>1 DEF DatasetInit, VersionsKnown

\* An up-to-date session shows what is stored: its preview is of the stored
\* version, and a page that opens shows the stored perimeter, whoever saved it,
\* for any perimeter the editor can show (OpeningShowsStored).
THEOREM OpeningShowsStoredCorrect ==
  ASSUME NotFunctions
  PROVE  DatasetSpec => []OpeningShowsStored
<1>1. NormalRow /\ VersionsKnown => OpeningShowsStored
  BY PageShowsStored, FreshPayloadIs, ShowableIsShown DEF NormalRow, VersionsKnown, OpeningShowsStored
<1>2. VersionsKnown /\ NormalRow /\ [DatasetNext]_datasetVars => VersionsKnown'
  BY NextKeepsVersions
<1> QED BY <1>1, <1>2, InitVersions, NormalHolds, PTL DEF DatasetSpec

-----------------------------------------------------------------------------
(* What the editor makes of lists of conditions and parameters *)

\* A value that was read twice is read as itself (normalize_editor_value).
LEMMA ReadTwice ==
  ASSUME NEW v, EditorValue(EditorValue(v)) # Invalid
  PROVE  EditorValue(EditorValue(EditorValue(v))) = EditorValue(EditorValue(v))
<1>1. CASE v \in {"digits", "quoted", "trueText", "oneText", "manyText", "many", "blank"}
  BY <1>1, Tokens DEF EditorValue, Values, Texts, ListValues
<1>2. CASE v \notin {"digits", "quoted", "trueText", "oneText", "manyText", "many", "blank"}
  BY <1>2 DEF EditorValue
<1> QED BY <1>1, <1>2

\* What was read is no text that reads as JSON of another type.
LEMMA ReadOnce == ASSUME NEW v PROVE EditorValue(v) \notin ReadAsJson
<1>1. CASE v \in {"digits", "quoted", "trueText", "oneText", "manyText", "many", "blank"}
  BY <1>1, Tokens DEF EditorValue, Values, Texts, ListValues, ReadAsJson
<1>2. CASE v \notin {"digits", "quoted", "trueText", "oneText", "manyText", "many", "blank"}
  BY <1>2 DEF EditorValue, ReadAsJson
<1> QED BY <1>1, <1>2

\* Only the text of a list of several values can be read once and not twice.
LEMMA ReadsAgain ==
  ASSUME NEW v, v \notin ReadAsJson, EditorValue(v) # Invalid
  PROVE  EditorValue(EditorValue(v)) # Invalid
<1>1. CASE v \in {"digits", "many", "blank"}
  BY <1>1, Tokens DEF EditorValue, Values, Texts, ListValues, ReadAsJson
<1>2. CASE v \notin {"digits", "many", "blank"}
  BY <1>2 DEF EditorValue, ReadAsJson
<1> QED BY <1>1, <1>2

\* What is kept of a list are elements of it (Kept).
LEMMA KeptIn ==
  ASSUME NotFunctions, NEW s, IsList(s), Kept(Whole(s)) # Invalid
  PROVE  /\ Whole(s) = s /\ \A i \in DOMAIN s : s[i] # Invalid
         /\ Kept(s) \in Seq(ToSet(s) \ {Null, <<>>, Invalid})
<1>1. Whole(s) # Invalid BY DEF Kept
<1>2. Whole(s) = s /\ \A i \in DOMAIN s : s[i] # Invalid BY <1>1, WholeLemma
<1>3. s \in Seq(ToSet(s)) /\ s # Invalid BY ListsDiffer DEF IsList
<1>4. Kept(s) \in Seq((ToSet(s) \ {Null, <<>>}) \cap ToSet(s)) BY <1>3, OnlyIn DEF Kept
<1>5. (ToSet(s) \ {Null, <<>>}) \cap ToSet(s) = ToSet(s) \ {Null, <<>>, Invalid}
  BY <1>2 DEF ToSet
<1> QED BY <1>2, <1>4, <1>5

\* A sequence of anything is a list, of no more than that.
LEMMA SeqIsList ==
  ASSUME NEW S, NEW s \in Seq(S)
  PROVE  IsList(s) /\ ToSet(s) \subseteq S
<1>1. Len(s) \in Nat /\ s \in [1..Len(s) -> S] /\ DOMAIN s = 1..Len(s) OBVIOUS
<1>2. \A i \in 1..Len(s) : s[i] \in ToSet(s) BY <1>1 DEF ToSet
<1>3. s \in [1..Len(s) -> ToSet(s)] BY <1>1, <1>2
<1>4. s \in Seq(ToSet(s)) BY <1>1, <1>3
<1>5. \A e \in ToSet(s) : e \in S BY <1>1 DEF ToSet
<1> QED BY <1>4, <1>5 DEF IsList

\* Removing, appending and replacing keep a list a list.
LEMMA RemovedIsList ==
  ASSUME NEW s, IsList(s), NEW i \in DOMAIN s
  PROVE  IsList(RemoveAt(s, i)) /\ ToSet(RemoveAt(s, i)) \subseteq ToSet(s)
<1>1. s \in Seq(ToSet(s)) BY DEF IsList
<1>2. i \in 1..Len(s) /\ Len(s) \in Nat BY <1>1
<1>3. SubSeq(s, 1, i - 1) \in Seq(ToSet(s)) BY <1>1, <1>2
<1>4. SubSeq(s, i + 1, Len(s)) \in Seq(ToSet(s)) BY <1>1, <1>2
<1>5. RemoveAt(s, i) \in Seq(ToSet(s)) BY <1>3, <1>4 DEF RemoveAt
<1> QED BY <1>5, SeqIsList

LEMMA AppendedIsList ==
  ASSUME NEW s, IsList(s), NEW e
  PROVE  IsList(Append(s, e)) /\ ToSet(Append(s, e)) \subseteq ToSet(s) \cup {e}
<1>1. s \in Seq(ToSet(s) \cup {e}) BY DEF IsList
<1>2. Append(s, e) \in Seq(ToSet(s) \cup {e}) BY <1>1
<1> QED BY <1>2, SeqIsList

LEMMA ReplacedIsList ==
  ASSUME NEW s, IsList(s), NEW i \in DOMAIN s, NEW e
  PROVE  /\ IsList([s EXCEPT ![i] = e])
         /\ ToSet([s EXCEPT ![i] = e]) \subseteq ToSet(s) \cup {e}
<1>1. s \in Seq(ToSet(s) \cup {e}) BY DEF IsList
<1>2. [s EXCEPT ![i] = e] \in Seq(ToSet(s) \cup {e}) BY <1>1
<1> QED BY <1>2, SeqIsList

ConditionKeys == {"field", "operator", "mode", "arg"}
ItemKeys == {"kind", "logic", "conditions"}
ConditionList(cs) == IsList(cs) /\ \A c \in ToSet(cs) : DOMAIN c = ConditionKeys
ItemList(items) ==
  /\ IsList(items)
  /\ \A item \in ToSet(items) : DOMAIN item = ItemKeys /\ ConditionList(item.conditions)
ConditionsOf(items) == UNION {ToSet(item.conditions) : item \in ToSet(items)}

\* A condition of the editor comes from one that was given: its literal is what
\* was read of the given one.
From(c, b) ==
  /\ c \notin {Null, Invalid} /\ DOMAIN c = ConditionKeys /\ EditorCondition(b) # Invalid
  /\ c.mode = "literal" =>
       b.mode = "literal" /\ c.arg = EditorValue(b.arg) /\ c.arg # Null /\ c.arg # Invalid

LEMMA ConditionFrom ==
  ASSUME NEW b, DOMAIN b = ConditionKeys, EditorCondition(b) \notin {Null, Invalid}
  PROVE  From(EditorCondition(b), b)
<1> DEFINE c == EditorCondition(b)
           value == IF b.mode = "literal" THEN EditorValue(b.arg) ELSE Null
<1>1. c = ConditionWith(b, value) /\ c \notin {Null, Invalid} BY DEF EditorCondition
<1>2. value # Invalid BY <1>1 DEF ConditionWith
<1>3. CASE b.operator \in NullOperators
  <2>1. c = [b EXCEPT !.mode = "none", !.arg = Null] BY <1>1, <1>3 DEF ConditionWith
  <2>2. DOMAIN c = ConditionKeys /\ c.mode = "none" BY <2>1 DEF ConditionKeys
  <2> QED BY <1>1, <2>2 DEF From
<1>4. CASE b.operator \notin NullOperators /\ b.mode = "parameter"
  <2>1. c = b BY <1>1, <1>4 DEF ConditionWith
  <2> QED BY <1>1, <1>4, <2>1 DEF From
<1>5. CASE b.operator \notin NullOperators /\ b.mode # "parameter"
  <2>1. c = [b EXCEPT !.arg = value] /\ value # Null BY <1>1, <1>5 DEF ConditionWith
  <2>2. DOMAIN c = ConditionKeys /\ c.mode = b.mode /\ c.arg = value BY <2>1 DEF ConditionKeys
  <2>3. c.mode = "literal" => value = EditorValue(b.arg) BY <2>2
  <2> HIDE DEF value
  <2> QED BY <1>1, <1>2, <2>1, <2>2, <2>3 DEF From
<1> QED BY <1>3, <1>4, <1>5

\* A list of conditions that the editor reads (normalize_filter_rows).
LEMMA ConditionsFrom ==
  ASSUME NotFunctions, NEW cs, ConditionList(cs), EditorConditions(cs) # Invalid
  PROVE  /\ ConditionList(EditorConditions(cs))
         /\ \A c \in ToSet(EditorConditions(cs)) : \E b \in ToSet(cs) : From(c, b)
<1> DEFINE es == [i \in DOMAIN cs |-> EditorCondition(cs[i])]
<1>1. es = [i \in DOMAIN cs |-> es[i]] /\ DOMAIN es = DOMAIN cs OBVIOUS
<1>2. \A i \in DOMAIN es : cs[i] \in ToSet(cs) /\ es[i] = EditorCondition(cs[i])
  BY DEF ToSet
<1>3. EditorConditions(cs) = Kept(Whole(es)) BY DEF EditorConditions
<1> HIDE DEF es
<1>4. IsList(es) BY <1>1, MapIsList DEF ConditionList
<1>5. Whole(es) = es /\ Kept(es) \in Seq(ToSet(es) \ {Null, <<>>, Invalid})
  BY <1>3, <1>4, KeptIn
<1>6. PICK ks : ks = EditorConditions(cs) OBVIOUS
<1>7. IsList(ks) /\ ToSet(ks) \subseteq ToSet(es) \ {Null, <<>>, Invalid}
  BY <1>3, <1>5, <1>6, SeqIsList
<1>8. ASSUME NEW c \in ToSet(ks) PROVE \E b \in ToSet(cs) : From(c, b)
  <2>1. PICK i \in DOMAIN es : c = es[i] BY <1>7 DEF ToSet
  <2>2. c \notin {Null, Invalid} BY <1>7
  <2>3. DOMAIN cs[i] = ConditionKeys BY <1>2 DEF ConditionList
  <2> QED BY <1>2, <2>1, <2>2, <2>3, ConditionFrom
<1>9. \A c \in ToSet(ks) : DOMAIN c = ConditionKeys BY <1>8 DEF From
<1> QED BY <1>6, <1>7, <1>8, <1>9 DEF ConditionList

\* An item that the editor reads (normalize_filter_group).
LEMMA ItemFrom ==
  ASSUME NotFunctions, NEW item, DOMAIN item = ItemKeys, ConditionList(item.conditions),
         EditorItem(item) \notin {<<>>, Invalid}
  PROVE  LET k == EditorItem(item)
         IN  /\ DOMAIN k = ItemKeys /\ ConditionList(k.conditions)
             /\ \A c \in ToSet(k.conditions) : \E b \in ToSet(item.conditions) : From(c, b)
<1> DEFINE cs == EditorConditions(item.conditions)
<1>1. cs \notin {<<>>, Invalid} /\ EditorItem(item) = [item EXCEPT !.conditions = cs]
  BY DEF EditorItem, WithConditions
<1>2. /\ ConditionList(cs)
      /\ \A c \in ToSet(cs) : \E b \in ToSet(item.conditions) : From(c, b)
  BY <1>1, ConditionsFrom
<1> HIDE DEF cs
<1>3. PICK k : k = [item EXCEPT !.conditions = cs] OBVIOUS
<1>4. DOMAIN k = ItemKeys /\ k.conditions = cs BY <1>3 DEF ItemKeys
<1> QED BY <1>1, <1>2, <1>3, <1>4

\* The items that the editor reads (normalize_filter_items).
LEMMA ItemsFrom ==
  ASSUME NotFunctions, NEW items, ItemList(items), EditorItems(items) # Invalid
  PROVE  /\ ItemList(EditorItems(items))
         /\ \A c \in ConditionsOf(EditorItems(items)) :
              \E b \in ConditionsOf(items) : From(c, b)
<1> DEFINE es == [i \in DOMAIN items |-> EditorItem(items[i])]
<1>1. es = [i \in DOMAIN items |-> es[i]] /\ DOMAIN es = DOMAIN items OBVIOUS
<1>2. \A i \in DOMAIN es : items[i] \in ToSet(items) /\ es[i] = EditorItem(items[i])
  BY DEF ToSet
<1>3. EditorItems(items) = Kept(Whole(es))
  <2>1. items # Invalid BY ListsDiffer DEF ItemList
  <2> QED BY <2>1 DEF EditorItems
<1> HIDE DEF es
<1>4. IsList(es) BY <1>1, MapIsList DEF ItemList
<1>5. Whole(es) = es /\ Kept(es) \in Seq(ToSet(es) \ {Null, <<>>, Invalid})
  BY <1>3, <1>4, KeptIn
<1>6. PICK ks : ks = EditorItems(items) OBVIOUS
<1>7. IsList(ks) /\ ToSet(ks) \subseteq ToSet(es) \ {Null, <<>>, Invalid}
  BY <1>3, <1>5, <1>6, SeqIsList
<1>8. ASSUME NEW k \in ToSet(ks)
      PROVE  /\ DOMAIN k = ItemKeys /\ ConditionList(k.conditions)
             /\ \A c \in ToSet(k.conditions) : \E b \in ConditionsOf(items) : From(c, b)
  <2>1. PICK i \in DOMAIN es : k = es[i] BY <1>7 DEF ToSet
  <2>2. k \notin {<<>>, Invalid} BY <1>7
  <2>3. PICK item \in ToSet(items) : k = EditorItem(item) BY <1>2, <2>1
  <2>4. DOMAIN item = ItemKeys /\ ConditionList(item.conditions) BY DEF ItemList
  <2>5. /\ DOMAIN k = ItemKeys /\ ConditionList(k.conditions)
        /\ \A c \in ToSet(k.conditions) : \E b \in ToSet(item.conditions) : From(c, b)
    BY <2>2, <2>3, <2>4, ItemFrom
  <2>6. ToSet(item.conditions) \subseteq ConditionsOf(items) BY DEF ConditionsOf
  <2> QED BY <2>5, <2>6
<1>9. ItemList(ks) BY <1>7, <1>8 DEF ItemList
<1>10. \A c \in ConditionsOf(ks) : \E b \in ConditionsOf(items) : From(c, b)
  BY <1>8 DEF ConditionsOf
<1> QED BY <1>6, <1>9, <1>10

\* Items of which no condition breaks the page do not break it.
LEMMA ItemsNotInvalid ==
  ASSUME NotFunctions, NEW items, ItemList(items),
         \A c \in ConditionsOf(items) : EditorCondition(c) # Invalid
  PROVE  EditorItems(items) # Invalid
<1>1. ASSUME NEW s, IsList(s), \A i \in DOMAIN s : s[i] # Invalid
      PROVE  Kept(Whole(s)) # Invalid
  <2>1. Whole(s) = s BY <1>1 DEF Whole
  <2>2. s \in Seq(ToSet(s)) /\ s # Invalid BY <1>1, ListsDiffer DEF IsList
  <2>3. Kept(s) \in Seq((ToSet(s) \ {Null, <<>>}) \cap ToSet(s)) BY <2>2, OnlyIn DEF Kept
  <2>4. IsList(Kept(s)) BY <2>3, SeqIsList
  <2> QED BY <2>1, <2>4, ListsDiffer
<1>2. ASSUME NEW item \in ToSet(items) PROVE EditorItem(item) # Invalid
  <2> DEFINE cs == item.conditions
             es == [i \in DOMAIN cs |-> EditorCondition(cs[i])]
  <2>1. DOMAIN item = ItemKeys /\ IsList(cs) BY DEF ItemList, ConditionList
  <2>2. \A i \in DOMAIN cs : es[i] # Invalid BY DEF ConditionsOf, ToSet
  <2>3. es = [i \in DOMAIN cs |-> es[i]] /\ DOMAIN es = DOMAIN cs OBVIOUS
  <2>4. IsList(es) BY <2>1, <2>3, MapIsList
  <2>5. EditorConditions(cs) = Kept(Whole(es)) BY DEF EditorConditions
  <2> HIDE DEF es, cs
  <2>6. EditorConditions(cs) # Invalid BY <1>1, <2>2, <2>3, <2>4, <2>5
  <2>7. PICK ks : ks = EditorConditions(cs) OBVIOUS
  <2>8. EditorItem(item) = IF ks = <<>> THEN ks ELSE [item EXCEPT !.conditions = ks]
    BY <2>6, <2>7 DEF EditorItem, WithConditions, cs
  <2>9. PICK k : k = [item EXCEPT !.conditions = ks] OBVIOUS
  <2>10. k = [x \in DOMAIN k |-> k[x]] /\ DOMAIN k = ItemKeys BY <2>1, <2>9
  <2>11. k # Invalid BY <2>10 DEF NotFunctions
  <2> QED BY <2>6, <2>7, <2>8, <2>9, <2>11
<1>3. PICK es : es = [i \in DOMAIN items |-> EditorItem(items[i])] OBVIOUS
<1>4. es = [i \in DOMAIN items |-> es[i]] /\ DOMAIN es = DOMAIN items BY <1>3
<1>5. IsList(es) BY <1>4, MapIsList DEF ItemList
<1>6. \A i \in DOMAIN es : es[i] # Invalid BY <1>2, <1>3 DEF ToSet
<1>7. items # Invalid BY ListsDiffer DEF ItemList
<1>8. EditorItems(items) = Kept(Whole(es)) BY <1>3, <1>7 DEF EditorItems
<1> QED BY <1>1, <1>5, <1>6, <1>8

\* A condition, a list of conditions, an item and the items as a draft holds
\* them: what was typed was read.
ReadCondition(c) == DOMAIN c = ConditionKeys /\ (c.mode = "literal" => c.arg \notin ReadAsJson)
ReadConditions(cs) == IsList(cs) /\ \A c \in ToSet(cs) : ReadCondition(c)
ReadItem(item) == DOMAIN item = ItemKeys /\ ReadConditions(item.conditions)
ReadItems(items) == IsList(items) /\ \A item \in ToSet(items) : ReadItem(item)

LEMMA FromIsRead == ASSUME NEW c, NEW b, From(c, b) PROVE ReadCondition(c)
BY ReadOnce DEF From, ReadCondition

LEMMA ReadItemsAreItems == ASSUME NEW items, ReadItems(items) PROVE ItemList(items)
BY DEF ReadItems, ReadItem, ReadConditions, ReadCondition, ItemList, ConditionList

\* What the editor read once is no text of a list any more.
LEMMA ConditionsAreRead ==
  ASSUME NotFunctions, NEW cs, ConditionList(cs), EditorConditions(cs) # Invalid
  PROVE  ReadConditions(EditorConditions(cs))
<1>1. PICK ks : ks = EditorConditions(cs) OBVIOUS
<1>2. ConditionList(ks) /\ \A c \in ToSet(ks) : \E b \in ToSet(cs) : From(c, b)
  BY <1>1, ConditionsFrom
<1>3. \A c \in ToSet(ks) : ReadCondition(c) BY <1>2, FromIsRead
<1> QED BY <1>1, <1>2, <1>3 DEF ReadConditions, ConditionList

LEMMA ItemsAreRead ==
  ASSUME NotFunctions, NEW items, ItemList(items), EditorItems(items) # Invalid
  PROVE  ReadItems(EditorItems(items))
<1>1. PICK ks : ks = EditorItems(items) OBVIOUS
<1>2. ItemList(ks) /\ \A c \in ConditionsOf(ks) : \E b \in ConditionsOf(items) : From(c, b)
  BY <1>1, ItemsFrom
<1>3. \A c \in ConditionsOf(ks) : ReadCondition(c) BY <1>2, FromIsRead
<1>4. ASSUME NEW item \in ToSet(ks) PROVE ReadItem(item)
  <2>1. ToSet(item.conditions) \subseteq ConditionsOf(ks) BY DEF ConditionsOf
  <2>2. DOMAIN item = ItemKeys /\ IsList(item.conditions) BY <1>2 DEF ItemList, ConditionList
  <2> QED BY <1>3, <2>1, <2>2 DEF ReadItem, ReadConditions
<1> QED BY <1>1, <1>2, <1>4 DEF ReadItems, ItemList

\* Items of a draft that do not break the page do not break it when the payload
\* is built (build_perimeter_payload normalises what the tab returned).
LEMMA ReadSurvives ==
  ASSUME NotFunctions, NEW items, ReadItems(items), EditorItems(items) # Invalid
  PROVE  EditorItems(EditorItems(items)) # Invalid
<1>1. PICK ks : ks = EditorItems(items) OBVIOUS
<1>2. ItemList(ks) /\ \A c \in ConditionsOf(ks) : \E b \in ConditionsOf(items) : From(c, b)
  BY <1>1, ReadItemsAreItems, ItemsFrom
<1>3. \A b \in ConditionsOf(items) : ReadCondition(b)
  BY DEF ConditionsOf, ReadItems, ReadItem, ReadConditions
<1>4. ASSUME NEW c \in ConditionsOf(ks) PROVE EditorCondition(c) # Invalid
  <2>1. PICK b \in ConditionsOf(items) : From(c, b) BY <1>2
  <2> DEFINE value == IF c.mode = "literal" THEN EditorValue(c.arg) ELSE Null
  <2>2. value # Invalid
    <3>1. CASE c.mode = "literal"
      <4>1. b.mode = "literal" /\ c.arg = EditorValue(b.arg) /\ c.arg # Invalid
        BY <2>1, <3>1 DEF From
      <4>2. b.arg \notin ReadAsJson BY <1>3, <4>1 DEF ReadCondition
      <4> QED BY <3>1, <4>1, <4>2, ReadsAgain
    <3>2. CASE c.mode # "literal" BY <3>2, Tokens
    <3> QED BY <3>1, <3>2
  <2>3. EditorCondition(c) = ConditionWith(c, value) BY DEF EditorCondition
  <2> HIDE DEF value
  <2>4. [c EXCEPT !.mode = "none", !.arg = Null] # Invalid
    <3>1. PICK r : r = [c EXCEPT !.mode = "none", !.arg = Null] OBVIOUS
    <3>2. r = [x \in DOMAIN r |-> r[x]] BY <3>1
    <3> QED BY <3>1, <3>2 DEF NotFunctions
  <2>5. [c EXCEPT !.arg = value] # Invalid
    <3>1. PICK r : r = [c EXCEPT !.arg = value] OBVIOUS
    <3>2. r = [x \in DOMAIN r |-> r[x]] BY <3>1
    <3> QED BY <3>1, <3>2 DEF NotFunctions
  <2>6. c # Invalid BY <2>1 DEF From
  <2> QED BY <2>2, <2>3, <2>4, <2>5, <2>6, Tokens DEF ConditionWith
<1> QED BY <1>1, <1>2, <1>4, ItemsNotInvalid

\* A list of rows that the editor reads (normalize_parameter_editor_rows): each
\* comes from a row that was given.
LEMMA RowsFrom ==
  ASSUME NotFunctions, NEW xs, IsList(xs), EditorRows(xs) # Invalid
  PROVE  /\ IsList(EditorRows(xs))
         /\ \A r \in ToSet(EditorRows(xs)) :
              r # Null /\ r # Invalid /\ \E x \in ToSet(xs) : r = EditorRow(x)
<1> DEFINE es == [i \in DOMAIN xs |-> EditorRow(xs[i])]
<1>1. es = [i \in DOMAIN xs |-> es[i]] /\ DOMAIN es = DOMAIN xs OBVIOUS
<1>2. \A i \in DOMAIN es : xs[i] \in ToSet(xs) /\ es[i] = EditorRow(xs[i]) BY DEF ToSet
<1>3. EditorRows(xs) = Firsts(Kept(Whole(es)))
  <2>1. xs # Invalid BY ListsDiffer
  <2> QED BY <2>1 DEF EditorRows
<1> HIDE DEF es
<1>4. IsList(es) BY <1>1, MapIsList
<1>5. PICK ks : ks = Kept(Whole(es)) OBVIOUS
<1>6. ks # Invalid BY <1>3, <1>5 DEF Firsts
<1>7. Whole(es) = es /\ Kept(es) \in Seq(ToSet(es) \ {Null, <<>>, Invalid})
  BY <1>4, <1>5, <1>6, KeptIn
<1>8. IsList(ks) /\ ToSet(ks) \subseteq ToSet(es) \ {Null, <<>>, Invalid}
  BY <1>5, <1>7, SeqIsList
<1>9. PICK all : all = [i \in DOMAIN ks |-> i] OBVIOUS
<1>10. all \in Seq(DOMAIN ks) BY <1>8, <1>9 DEF IsList
<1>11. PICK indices : indices = Only(all, FirstOf(ks)) OBVIOUS
<1>12. indices \in Seq(FirstOf(ks) \cap DOMAIN ks) BY <1>10, <1>11, OnlyIn
<1>13. IsList(indices) /\ \A k \in DOMAIN indices : indices[k] \in DOMAIN ks
  BY <1>12, SeqIsList
<1>14. PICK rs : rs = EditorRows(xs) OBVIOUS
<1>15. rs = [k \in DOMAIN indices |-> ks[indices[k]]]
  BY <1>3, <1>5, <1>6, <1>9, <1>11, <1>14 DEF Firsts, RowsAt
<1>16. rs = [k \in DOMAIN indices |-> rs[k]] BY <1>15
<1>17. IsList(rs) BY <1>13, <1>16, MapIsList
<1>18. \A r \in ToSet(rs) : r \in ToSet(ks) BY <1>13, <1>15 DEF ToSet
<1>19. \A r \in ToSet(es) : \E x \in ToSet(xs) : r = EditorRow(x) BY <1>2 DEF ToSet
<1> QED BY <1>8, <1>14, <1>17, <1>18, <1>19

\* A row that was read, and its value.
LEMMA RowShape ==
  ASSUME NEW x, EditorRow(x) \notin {Null, Invalid}
  PROVE  /\ EditorValue(x.default) # Invalid
         /\ EditorRow(x).default \in {Null, EditorValue(x.default)}
<1>1. EditorValue(x.default) # Invalid BY DEF EditorRow, RowOf
<1>2. PICK mode : EditorRow(x) = RowWith(x, mode, EditorValue(x.default))
  BY <1>1 DEF EditorRow, RowOf
<1> QED BY <1>1, <1>2 DEF RowWith

\* Rows of which no value breaks the page do not break it.
LEMMA RowsNotInvalid ==
  ASSUME NotFunctions, NEW xs, IsList(xs), \A x \in ToSet(xs) : EditorValue(x.default) # Invalid
  PROVE  EditorRows(xs) # Invalid
<1>1. ASSUME NEW x \in ToSet(xs) PROVE EditorRow(x) # Invalid
  <2>1. PICK value : value = EditorValue(x.default) OBVIOUS
  <2>2. ASSUME NEW mode PROVE RowWith(x, mode, value) # Invalid
    <3>1. PICK r : r = RowWith(x, mode, value) OBVIOUS
    <3>2. r = [k \in DOMAIN r |-> r[k]] BY <3>1 DEF RowWith
    <3> QED BY <3>1, <3>2 DEF NotFunctions
  <2>3. value # Invalid BY <2>1
  <2> QED BY <2>1, <2>2, <2>3, Tokens DEF EditorRow, RowOf
<1>2. PICK es : es = [i \in DOMAIN xs |-> EditorRow(xs[i])] OBVIOUS
<1>3. es = [i \in DOMAIN xs |-> es[i]] /\ DOMAIN es = DOMAIN xs BY <1>2
<1>4. IsList(es) BY <1>3, MapIsList
<1>5. \A i \in DOMAIN es : es[i] # Invalid BY <1>1, <1>2 DEF ToSet
<1>6. Whole(es) = es BY <1>5 DEF Whole
<1>7. es \in Seq(ToSet(es)) /\ es # Invalid BY <1>4, ListsDiffer DEF IsList
<1>8. Kept(es) \in Seq((ToSet(es) \ {Null, <<>>}) \cap ToSet(es)) BY <1>7, OnlyIn DEF Kept
<1>9. IsList(Kept(es)) BY <1>8, SeqIsList
<1>10. PICK ks : ks = Kept(Whole(es)) OBVIOUS
<1>11. ks # Invalid BY <1>6, <1>9, <1>10, ListsDiffer
<1>12. xs # Invalid BY ListsDiffer
<1>13. EditorRows(xs) = RowsAt(ks, Only([i \in DOMAIN ks |-> i], FirstOf(ks)))
  BY <1>2, <1>10, <1>11, <1>12 DEF EditorRows, Firsts
<1>14. PICK rs : rs = EditorRows(xs) OBVIOUS
<1>15. rs = [k \in DOMAIN rs |-> rs[k]] BY <1>13, <1>14 DEF RowsAt
<1> QED BY <1>14, <1>15 DEF NotFunctions

\* A default that is read as itself.
Settled(v) == EditorValue(v) = v /\ v # Invalid

LEMMA NullIsSettled == Settled(Null)
BY Tokens DEF Settled, EditorValue, Values, Texts, ListValues

\* Rows whose defaults are read as themselves are kept so.
LEMMA SettledRows ==
  ASSUME NotFunctions, NEW xs, IsList(xs), \A x \in ToSet(xs) : Settled(x.default)
  PROVE  /\ EditorRows(xs) # Invalid /\ IsList(EditorRows(xs))
         /\ \A r \in ToSet(EditorRows(xs)) : Settled(r.default)
<1>1. \A x \in ToSet(xs) : EditorValue(x.default) # Invalid BY DEF Settled
<1>2. EditorRows(xs) # Invalid BY <1>1, RowsNotInvalid
<1>3. PICK rs : rs = EditorRows(xs) OBVIOUS
<1>4. /\ IsList(rs)
      /\ \A r \in ToSet(rs) : r # Null /\ r # Invalid /\ \E x \in ToSet(xs) : r = EditorRow(x)
  BY <1>2, <1>3, RowsFrom
<1>5. ASSUME NEW r \in ToSet(rs) PROVE Settled(r.default)
  <2>1. PICK x \in ToSet(xs) : r = EditorRow(x) BY <1>4
  <2>2. r # Null /\ r # Invalid BY <1>4
  <2>3. r.default \in {Null, EditorValue(x.default)} BY <2>1, <2>2, RowShape
  <2>4. EditorValue(x.default) = x.default /\ Settled(x.default) BY DEF Settled
  <2> QED BY <2>3, <2>4, NullIsSettled
<1> QED BY <1>2, <1>3, <1>4, <1>5

\* Rows that were read twice: their defaults are read as themselves.
LEMMA RowsSettle ==
  ASSUME NotFunctions, NEW xs, IsList(xs), EditorRows(EditorRows(xs)) # Invalid
  PROVE  /\ IsList(EditorRows(EditorRows(xs)))
         /\ \A r \in ToSet(EditorRows(EditorRows(xs))) : Settled(r.default)
<1>1. PICK rs : rs = EditorRows(xs) OBVIOUS
<1>2. rs # Invalid BY <1>1 DEF EditorRows
<1>3. /\ IsList(rs)
      /\ \A r \in ToSet(rs) : r # Null /\ r # Invalid /\ \E x \in ToSet(xs) : r = EditorRow(x)
  BY <1>1, <1>2, RowsFrom
<1>4. PICK ss : ss = EditorRows(rs) OBVIOUS
<1>5. /\ IsList(ss)
      /\ \A s \in ToSet(ss) : s # Null /\ s # Invalid /\ \E r \in ToSet(rs) : s = EditorRow(r)
  BY <1>1, <1>3, <1>4, RowsFrom
<1>6. ASSUME NEW s \in ToSet(ss) PROVE Settled(s.default)
  <2>1. PICK r \in ToSet(rs) : s = EditorRow(r) BY <1>5
  <2>2. s # Null /\ s # Invalid BY <1>5
  <2>3. /\ EditorValue(r.default) # Invalid
        /\ s.default \in {Null, EditorValue(r.default)}
    BY <2>1, <2>2, RowShape
  <2>4. PICK x \in ToSet(xs) : r = EditorRow(x) BY <1>3
  <2>5. r # Null /\ r # Invalid BY <1>3
  <2>6. r.default \in {Null, EditorValue(x.default)} BY <2>4, <2>5, RowShape
  <2>7. CASE r.default = Null BY <2>3, <2>7, NullIsSettled DEF Settled
  <2>8. CASE r.default = EditorValue(x.default)
    <3>1. EditorValue(EditorValue(x.default)) # Invalid BY <2>3, <2>8
    <3>2. EditorValue(EditorValue(r.default)) = EditorValue(r.default)
      BY <2>8, <3>1, ReadTwice
    <3>3. Settled(EditorValue(r.default)) BY <2>3, <3>2 DEF Settled
    <3> QED BY <2>3, <3>3, NullIsSettled
  <2> QED BY <2>6, <2>7, <2>8
<1> QED BY <1>1, <1>4, <1>5, <1>6

\* The stored rows, once a page could show them, do not break the payload.
LEMMA RowsSurvive ==
  ASSUME NotFunctions, NEW xs, IsList(xs), EditorRows(EditorRows(xs)) # Invalid
  PROVE  Definitions(EditorRows(EditorRows(EditorRows(xs)))) # Invalid
<1>1. PICK ss : ss = EditorRows(EditorRows(xs)) OBVIOUS
<1>2. IsList(ss) /\ \A s \in ToSet(ss) : Settled(s.default) BY <1>1, RowsSettle
<1>3. PICK ts : ts = EditorRows(ss) OBVIOUS
<1>4. ts # Invalid /\ \A r \in ToSet(ts) : Settled(r.default) BY <1>2, <1>3, SettledRows
<1>5. \A i \in DOMAIN ts : Settled(ts[i].default) BY <1>4 DEF ToSet
<1>6. \A i \in DOMAIN ts : Definition(ts[i]).default # Invalid
  BY <1>5, Tokens DEF Definition, Settled
<1>7. PICK ds : ds = [i \in DOMAIN ts |-> Definition(ts[i])] OBVIOUS
<1>8. ds = [i \in DOMAIN ds |-> ds[i]] BY <1>7
<1>9. ds # Invalid BY <1>8 DEF NotFunctions
<1> QED BY <1>1, <1>3, <1>4, <1>6, <1>7, <1>9 DEF Definitions

\* What a definition that is saved has as its default was read.
LEMMA DefinitionsRead ==
  ASSUME NEW rows, Definitions(rows) # Invalid
  PROVE  \A i \in DOMAIN Definitions(rows) : Definitions(rows)[i].default \notin ReadAsJson
<1>1. Definitions(rows) = [i \in DOMAIN rows |-> Definition(rows[i])] BY DEF Definitions
<1>2. Null \notin ReadAsJson BY Tokens DEF ReadAsJson, Values, Texts
<1>3. \A i \in DOMAIN rows : Definition(rows[i]).default \notin ReadAsJson
  BY <1>2, ReadOnce DEF Definition
<1> QED BY <1>1, <1>3

\* What the server makes of a default that was read is a value the editor shows
\* (coerce_value).
LEMMA StaysRead ==
  ASSUME NEW type \in ParameterTypes, NEW v, v \notin ReadAsJson, CoerceValue(type, v) # Invalid
  PROVE  SerializeDefault(CoerceValue(type, v)) \notin ReadAsJson
<1>1. CASE v = Null
  BY <1>1, Tokens DEF CoerceValue, SerializeDefault, ReadAsJson, Values, Texts
<1>2. CASE v # Null
  <2>0. v \in DOMAIN Coercions[type] /\ CoerceValue(type, v) = Coercions[type][v] BY <1>2, Coerced
  <2> USE DEF Coercions, ParameterTypes, Values, Texts, ListValues, SerializeDefault, ReadAsJson
  <2>1. CASE type = "string"
    <3>1. v \in Values /\ (v \in Texts => CoerceValue(type, v) = v) BY <2>0, <2>1
    <3>2. CASE v \in Texts BY <3>1, <3>2
    <3>3. CASE v \notin Texts BY <2>0, <2>1, <3>1, <3>3
    <3> QED BY <3>2, <3>3
  <2>2. CASE type \in {"integer", "number"} BY <2>0, <2>2
  <2>3. CASE type = "boolean" BY <2>0, <2>3
  <2>4. CASE type = "date" BY <2>0, <2>4
  <2>5. CASE type = "datetime" BY <2>0, <2>5
  <2> QED BY <2>1, <2>2, <2>3, <2>4, <2>5
<1> QED BY <1>1, <1>2

-----------------------------------------------------------------------------
(* The payload *)

\* The parts of a payload (build_perimeter_payload).
PartsOf(f) == [parameters |-> Definitions(EditorRows(f.parameters)), columns |-> f.columns,
               items |-> EditorItems(f.items), sort |-> EditorSort(f.sort)]

LEMMA PayloadBreaks ==
  ASSUME NotFunctions, NEW f, BuildPayload(f) # Invalid
  PROVE  PartsOf(f).parameters # Invalid /\ PartsOf(f).items # Invalid
<1>1. PICK e : e = <<>> OBVIOUS
<1>2. e = [x \in DOMAIN e |-> e[x]] BY <1>1
<1>3. <<>> # Invalid BY <1>1, <1>2 DEF NotFunctions
<1> QED BY <1>3 DEF BuildPayload, PayloadOf, PerimeterOf, PartsOf

LEMMA PayloadShape ==
  ASSUME NEW f, NEW r, r = BuildPayload(f), r # Null, r # Invalid
  PROVE  /\ r.parameters = PartsOf(f).parameters /\ r.columns = PartsOf(f).columns
         /\ r.items = PartsOf(f).items /\ r.sort = PartsOf(f).sort
         /\ ~Bare(r)
<1>1. PICK ds : ds = PartsOf(f).parameters OBVIOUS
<1>2. PICK items : items = PartsOf(f).items OBVIOUS
<1>3. PICK sort : sort = PartsOf(f).sort OBVIOUS
<1>4. PartsOf(f).columns = f.columns BY DEF PartsOf
<1>5. r = PayloadOf(ds, f.columns, f.logic, items, sort)
  BY <1>1, <1>2, <1>3 DEF BuildPayload, PartsOf
<1>6. ~(ds = <<>> /\ f.columns = <<>> /\ items = <<>> /\ sort = <<>>)
  BY <1>5 DEF PayloadOf
<1>7. PICK logic : r = [parameters |-> ds, columns |-> f.columns, logic |-> logic,
                        items |-> items, sort |-> sort]
  BY <1>5, <1>6 DEF PayloadOf, PerimeterOf, Perimeter
<1>8. r.parameters = ds /\ r.columns = f.columns /\ r.items = items /\ r.sort = sort BY <1>7
<1> QED BY <1>1, <1>2, <1>3, <1>4, <1>6, <1>8 DEF Bare

LEMMA PayloadHolds ==
  ASSUME NotFunctions, NEW f, PartsOf(f).parameters # Invalid, PartsOf(f).items # Invalid
  PROVE  BuildPayload(f) # Invalid
<1>1. PICK ds : ds = PartsOf(f).parameters OBVIOUS
<1>2. PICK items : items = PartsOf(f).items OBVIOUS
<1>3. PICK sort : sort = PartsOf(f).sort OBVIOUS
<1>4. PICK logic : logic = IF items = <<>> THEN "AND" ELSE f.logic OBVIOUS
<1>5. PICK r : r = [parameters |-> ds, columns |-> f.columns, logic |-> logic,
                    items |-> items, sort |-> sort]
  OBVIOUS
<1>6. BuildPayload(f) \in {Null, r}
  BY <1>1, <1>2, <1>3, <1>4, <1>5
  DEF BuildPayload, PartsOf, PayloadOf, PerimeterOf, Perimeter
<1>7. r = [x \in DOMAIN r |-> r[x]] BY <1>5
<1>8. r # Invalid BY <1>7 DEF NotFunctions
<1> QED BY <1>6, <1>8, Tokens

\* What normalize makes of a perimeter it accepts.
LEMMA Normalized ==
  ASSUME NEW p, p # Null, NEW n, n = Normalize(p), n # Invalid
  PROVE  /\ WellFormed(p) /\ n.columns = p.columns
         /\ n.parameters = [i \in DOMAIN p.parameters |-> NormalParameter(p.parameters[i])]
         /\ \A i \in DOMAIN p.parameters : NormalParameter(p.parameters[i]) # Invalid
         /\ n.items = [i \in DOMAIN p.items |-> NormalItem(p.items[i], TypesOf(p.parameters))]
         /\ \A i \in DOMAIN p.items : NormalItem(p.items[i], TypesOf(p.parameters)) # Invalid
<1>1. PICK types : types = TypesOf(p.parameters) OBVIOUS
<1>2. PICK ps : ps = NormalParameters(p.parameters) OBVIOUS
<1>3. PICK items : items = NormalItems(p.items, types) OBVIOUS
<1>4. WellFormed(p) /\ n = PerimeterOf(ps, p.columns, p.logic, items, p.sort)
  BY <1>1, <1>2, <1>3 DEF Normalize
<1>5. ps # Invalid /\ items # Invalid /\ n = Perimeter(ps, p.columns, p.logic, items, p.sort)
  BY <1>4 DEF PerimeterOf
<1>6. PICK logic : n = [parameters |-> ps, columns |-> p.columns, logic |-> logic,
                        items |-> items, sort |-> p.sort]
  BY <1>5 DEF Perimeter
<1>7. n.parameters = ps /\ n.columns = p.columns /\ n.items = items BY <1>6
<1>8. /\ ps = [i \in DOMAIN p.parameters |-> NormalParameter(p.parameters[i])]
      /\ \A i \in DOMAIN p.parameters : NormalParameter(p.parameters[i]) # Invalid
  BY <1>2, <1>5, WholeLemma DEF NormalParameters
<1>9. /\ items = [i \in DOMAIN p.items |-> NormalItem(p.items[i], types)]
      /\ \A i \in DOMAIN p.items : NormalItem(p.items[i], types) # Invalid
  BY <1>3, <1>5, WholeLemma DEF NormalItems
<1> QED BY <1>1, <1>4, <1>7, <1>8, <1>9

\* A payload that is something is not stored as nothing.
LEMMA PayloadIsStored ==
  ASSUME NotFunctions, NEW f, NEW r, r = BuildPayload(f), r # Null, r # Invalid
  PROVE  /\ Normalize(r) # Null
         /\ Normalize(r) # Invalid => ~Bare(Normalize(r))
<1> SUFFICES ASSUME Normalize(r) # Invalid
             PROVE  Normalize(r) # Null /\ ~Bare(Normalize(r))
  BY Tokens
<1>1. PICK n : n = Normalize(r) OBVIOUS
<1>2. PICK ps : ps = NormalParameters(r.parameters) OBVIOUS
<1>3. PICK items : items = NormalItems(r.items, TypesOf(r.parameters)) OBVIOUS
<1>4. WellFormed(r) /\ n = PerimeterOf(ps, r.columns, r.logic, items, r.sort)
  BY <1>1, <1>2, <1>3 DEF Normalize
<1>5. ps # Invalid /\ items # Invalid /\ n = Perimeter(ps, r.columns, r.logic, items, r.sort)
  BY <1>1, <1>4 DEF PerimeterOf
<1>6. PICK logic : n = [parameters |-> ps, columns |-> r.columns, logic |-> logic,
                        items |-> items, sort |-> r.sort]
  BY <1>5 DEF Perimeter
<1>7. n # Null
  <2>1. n = [x \in DOMAIN n |-> n[x]] BY <1>6
  <2> QED BY <2>1 DEF NotFunctions
<1>8. n.parameters = ps /\ n.columns = r.columns /\ n.items = items /\ n.sort = r.sort BY <1>6
<1>9. ASSUME ps = <<>> PROVE r.parameters = <<>>
  <2>1. ps = [i \in DOMAIN r.parameters |-> NormalParameter(r.parameters[i])]
    BY <1>2, <1>5, WholeLemma DEF NormalParameters
  <2>2. DOMAIN r.parameters = {} BY <1>9, <2>1
  <2> QED BY <1>4, <2>2, EmptyList DEF WellFormed
<1>10. ASSUME items = <<>> PROVE r.items = <<>>
  <2>1. items = [i \in DOMAIN r.items |-> NormalItem(r.items[i], TypesOf(r.parameters))]
    BY <1>3, <1>5, WholeLemma DEF NormalItems
  <2>2. DOMAIN r.items = {} BY <1>10, <2>1
  <2> QED BY <1>4, <2>2, EmptyList DEF WellFormed
<1>11. ~Bare(r) BY PayloadShape
<1> QED BY <1>1, <1>7, <1>8, <1>9, <1>10, <1>11 DEF Bare

\* A literal that was read twice is read as itself.
LEMMA TwiceRead ==
  ASSUME NEW c, NEW b, NEW a, From(c, b), From(b, a)
  PROVE  ReadsAsItself(c)
<1> SUFFICES ASSUME c.mode = "literal"
             PROVE  EditorValue(c.arg) = c.arg /\ c.arg # Null /\ c.arg # Invalid
  BY DEF ReadsAsItself
<1>1. b.mode = "literal" /\ c.arg = EditorValue(b.arg) /\ c.arg # Null /\ c.arg # Invalid
  BY DEF From
<1>2. b.arg = EditorValue(a.arg) BY <1>1 DEF From
<1>3. EditorValue(EditorValue(a.arg)) # Invalid BY <1>1, <1>2
<1>4. EditorValue(c.arg) = c.arg BY <1>1, <1>2, <1>3, ReadTwice
<1> QED BY <1>1, <1>4

\* normalize keeps the literals of the conditions it accepts.
LEMMA NormalizedCondition ==
  ASSUME NEW c, NEW types, NormalCondition(c, types) # Invalid, ReadsAsItself(c)
  PROVE  ReadsAsItself(NormalCondition(c, types))
<1>1. PICK d : d = NormalCondition(c, types) OBVIOUS
<1>2. \/ d = Condition(c.field, c.operator, "none", Null)
      \/ d = Condition(c.field, c.operator, c.mode, c.arg)
  BY <1>1 DEF NormalCondition
<1>3. CASE d = Condition(c.field, c.operator, "none", Null)
  <2>1. d.mode = "none" BY <1>3 DEF Condition
  <2> QED BY <1>1, <2>1 DEF ReadsAsItself
<1>4. CASE d = Condition(c.field, c.operator, c.mode, c.arg)
  <2>1. d.mode = c.mode /\ d.arg = c.arg BY <1>4 DEF Condition
  <2> QED BY <1>1, <2>1 DEF ReadsAsItself
<1> QED BY <1>2, <1>3, <1>4

LEMMA NormalizedItem ==
  ASSUME NEW item, NEW types, NormalItem(item, types) # Invalid,
         \A c \in ToSet(item.conditions) : ReadsAsItself(c)
  PROVE  \A c \in ToSet(NormalItem(item, types).conditions) : ReadsAsItself(c)
<1>1. PICK cs : cs = [i \in DOMAIN item.conditions |-> NormalCondition(item.conditions[i], types)]
  OBVIOUS
<1>2. Whole(cs) \notin {<<>>, Invalid} BY <1>1 DEF NormalItem, ItemOf
<1>3. Whole(cs) = cs /\ \A i \in DOMAIN cs : cs[i] # Invalid BY <1>2, WholeLemma
<1>4. NormalItem(item, types) = [kind |-> item.kind, logic |-> item.logic, conditions |-> cs]
  BY <1>1, <1>2, <1>3 DEF NormalItem, ItemOf
<1>5. NormalItem(item, types).conditions = cs BY <1>4
<1>6. ASSUME NEW i \in DOMAIN cs PROVE ReadsAsItself(cs[i])
  <2>1. PICK c : c = item.conditions[i] OBVIOUS
  <2>2. cs[i] = NormalCondition(c, types) /\ c \in ToSet(item.conditions)
    BY <1>1, <2>1 DEF ToSet
  <2>3. cs[i] # Invalid BY <1>3
  <2> QED BY <2>2, <2>3, NormalizedCondition
<1> QED BY <1>5, <1>6 DEF ToSet

LEMMA NormalizedParameter ==
  ASSUME NEW q, NormalParameter(q) # Invalid, q.default \notin ReadAsJson
  PROVE  NormalParameter(q).default \notin ReadAsJson
<1>1. PICK value : value = CoerceValue(q.type, GivenDefault(q)) OBVIOUS
<1>6. GivenDefault(q) \notin ReadAsJson BY Tokens DEF GivenDefault, ReadAsJson, Values, Texts
<1>2. q.type \in ParameterTypes /\ value # Invalid /\ NormalParameter(q) = WithDefault(q, value)
  BY <1>1 DEF NormalParameter, WithDefault
<1>3. PICK d : d = SerializeDefault(value) OBVIOUS
<1>4. WithDefault(q, value).default = d BY <1>2, <1>3 DEF WithDefault
<1>5. d \notin ReadAsJson BY <1>1, <1>2, <1>3, <1>6, StaysRead
<1> QED BY <1>2, <1>4, <1>5

\* What the server stores of a payload is what the page that sent it shows when
\* it is opened again.
LEMMA PayloadIsShown ==
  ASSUME NotFunctions, NEW f, NEW r, r = BuildPayload(f), r # Invalid,
         NEW raw, ItemList(raw), f.items = EditorItems(raw),
         NEW available, ToSet(f.columns) \subseteq available,
         NEW n, n = Normalize(r), n # Null, n # Invalid
  PROVE  Normalize(PagePayload(n, available)) = n
<1>1. r # Null BY DEF Normalize
<1>2. PartsOf(f).parameters # Invalid /\ PartsOf(f).items # Invalid BY PayloadBreaks
<1>3. /\ r.parameters = PartsOf(f).parameters /\ r.columns = PartsOf(f).columns
      /\ r.items = PartsOf(f).items
  BY <1>1, PayloadShape
<1>4. /\ WellFormed(r) /\ n.columns = r.columns
      /\ n.parameters = [i \in DOMAIN r.parameters |-> NormalParameter(r.parameters[i])]
      /\ \A i \in DOMAIN r.parameters : NormalParameter(r.parameters[i]) # Invalid
      /\ n.items = [i \in DOMAIN r.items |-> NormalItem(r.items[i], TypesOf(r.parameters))]
      /\ \A i \in DOMAIN r.items : NormalItem(r.items[i], TypesOf(r.parameters)) # Invalid
  BY <1>1, Normalized
<1>5. ToSet(n.columns) \subseteq available BY <1>3, <1>4 DEF PartsOf
<1>6. \A q \in ToSet(n.parameters) : q.default \notin ReadAsJson
  <2>1. PICK ds : ds = r.parameters OBVIOUS
  <2>2. ds = Definitions(EditorRows(f.parameters)) /\ ds # Invalid
    BY <1>2, <1>3, <2>1 DEF PartsOf
  <2>3. \A i \in DOMAIN ds : ds[i].default \notin ReadAsJson BY <2>2, DefinitionsRead
  <2>4. \A i \in DOMAIN ds : NormalParameter(ds[i]).default \notin ReadAsJson
    BY <1>4, <2>1, <2>3, NormalizedParameter
  <2> QED BY <1>4, <2>1, <2>4 DEF ToSet
<1>7. ASSUME NEW c \in Conditions(n) PROVE ReadsAsItself(c)
  <2>1. PICK ks : ks = f.items OBVIOUS
  <2>2. PICK is : is = r.items OBVIOUS
  <2>3. is = EditorItems(ks) /\ is # Invalid BY <1>2, <1>3, <2>1, <2>2 DEF PartsOf
  <2>4. ks # Invalid BY <2>3 DEF EditorItems
  <2>5. /\ ItemList(ks)
        /\ \A b \in ConditionsOf(ks) : \E a \in ConditionsOf(raw) : From(b, a)
    BY <2>1, <2>4, ItemsFrom
  <2>6. \A b \in ConditionsOf(is) : \E a \in ConditionsOf(ks) : From(b, a)
    BY <2>3, <2>5, ItemsFrom
  <2>7. ASSUME NEW b \in ConditionsOf(is) PROVE ReadsAsItself(b)
    <3>1. PICK a \in ConditionsOf(ks) : From(b, a) BY <2>6
    <3>2. PICK z \in ConditionsOf(raw) : From(a, z) BY <2>5
    <3> QED BY <3>1, <3>2, TwiceRead
  <2>8. PICK i \in DOMAIN n.items : c \in ToSet(n.items[i].conditions) BY DEF Conditions
  <2>9. PICK types : types = TypesOf(r.parameters) OBVIOUS
  <2>10. PICK item : item = is[i] OBVIOUS
  <2>11. n.items[i] = NormalItem(item, types) /\ item \in ToSet(is)
         /\ NormalItem(item, types) # Invalid
    BY <1>4, <2>2, <2>8, <2>9, <2>10 DEF ToSet
  <2>12. ToSet(item.conditions) \subseteq ConditionsOf(is) BY <2>11 DEF ConditionsOf
  <2>13. \A b \in ToSet(item.conditions) : ReadsAsItself(b) BY <2>7, <2>12
  <2>14. \A b \in ToSet(NormalItem(item, types).conditions) : ReadsAsItself(b)
    BY <2>11, <2>13, NormalizedItem
  <2> QED BY <2>8, <2>11, <2>14
<1>8. ShownIn(n, available) BY <1>5, <1>6, <1>7 DEF ShownIn
<1>9. Normal(n) BY NormalizeIsStable DEF Normal
<1>10. ~Bare(n) BY <1>1, PayloadIsStored
<1> QED BY <1>8, <1>9, <1>10, PageShowsStored

-----------------------------------------------------------------------------
(* The keys of the page *)

\* The lists of a stored perimeter, or of none.
LEMMA StoredLists ==
  ASSUME NotFunctions, NEW p, Normal(p)
  PROVE  /\ IsList(Stored(p).columns) /\ IsList(Stored(p).parameters)
         /\ ItemList(Stored(p).items)
<1>1. CASE p = Null
  <2>1. /\ Stored(p).columns = <<>> /\ Stored(p).parameters = <<>> /\ Stored(p).items = <<>>
    BY <1>1 DEF Stored, NoPerimeter
  <2>2. PICK e : e = <<>> OBVIOUS
  <2>3. e \in Seq({}) BY <2>2
  <2>4. IsList(e) /\ ToSet(e) \subseteq {} BY <2>3, SeqIsList
  <2>5. ItemList(e) BY <2>4 DEF ItemList
  <2> QED BY <2>1, <2>2, <2>4, <2>5
<1>2. CASE p # Null
  <2>1. PICK types : types = TypesOf(p.parameters) OBVIOUS
  <2>2. /\ Stored(p) = p /\ WellFormed(p)
        /\ \A i \in DOMAIN p.items : NormalItem(p.items[i], types) = p.items[i] /\ p.items[i] # Invalid
    BY <1>2, <2>1, NormalShape DEF Stored
  <2>3. ASSUME NEW item \in ToSet(p.items)
        PROVE  DOMAIN item = ItemKeys /\ ConditionList(item.conditions)
    <3>1. NormalItem(item, types) = item /\ item # Invalid BY <2>2 DEF ToSet
    <3>2. PICK cs : cs = [i \in DOMAIN item.conditions |-> NormalCondition(item.conditions[i], types)]
      OBVIOUS
    <3>3. IsList(item.conditions) /\ Whole(cs) \notin {<<>>, Invalid}
      BY <3>1, <3>2 DEF NormalItem, ItemOf
    <3>4. Whole(cs) = cs /\ \A i \in DOMAIN cs : cs[i] # Invalid BY <3>3, WholeLemma
    <3>5. item = [kind |-> item.kind, logic |-> item.logic, conditions |-> cs]
      BY <3>1, <3>2, <3>3, <3>4 DEF NormalItem, ItemOf
    <3>6. item.conditions = cs /\ DOMAIN item = ItemKeys BY <3>5 DEF ItemKeys
    <3>7. ASSUME NEW i \in DOMAIN cs PROVE DOMAIN cs[i] = ConditionKeys
      <4>1. PICK c : c = item.conditions[i] OBVIOUS
      <4>2. cs[i] = NormalCondition(c, types) /\ cs[i] # Invalid BY <3>2, <3>4, <4>1
      <4>3. PICK field, operator, mode, arg : cs[i] = Condition(field, operator, mode, arg)
        BY <4>2 DEF NormalCondition
      <4> QED BY <4>3 DEF Condition, ConditionKeys
    <3> QED BY <3>3, <3>6, <3>7 DEF ConditionList, ToSet
  <2> QED BY <2>2, <2>3 DEF WellFormed, ItemList
<1> QED BY <1>1, <1>2

\* A table of parameters is something, if only an exception.
LEMMA RowsAreThere == ASSUME NotFunctions, NEW xs PROVE EditorRows(xs) # Null
<1>1. ASSUME NEW ks PROVE Firsts(ks) # Null
  <2>1. PICK indices : indices = Only([i \in DOMAIN ks |-> i], FirstOf(ks)) OBVIOUS
  <2>2. PICK rs : rs = RowsAt(ks, indices) OBVIOUS
  <2>3. rs = [k \in DOMAIN rs |-> rs[k]] BY <2>2 DEF RowsAt
  <2>4. rs # Null BY <2>3 DEF NotFunctions
  <2> QED BY <2>1, <2>2, <2>4, Tokens DEF Firsts
<1> QED BY <1>1, Tokens DEF EditorRows

KeyNames == {"columns", "parameters", "logic", "items", "sort"}
\* The keys of a page as the session may hold them: columns of the table, items
\* that were read, and no items before the parameters.
KeysOf(keys, columns) ==
  /\ DOMAIN keys = KeyNames
  /\ keys.columns # Null => ToSet(keys.columns) \subseteq columns
  /\ keys.items # Null => keys.parameters # Null /\ ReadItems(keys.items)
\* Filled, of a perimeter and the columns of a table.
FilledOf(keys, p, columns) ==
  [columns |-> OrElse(keys.columns, DefaultColumns(p, columns)),
   parameters |-> EditorRows(OrElse(keys.parameters, DefaultRows(p))),
   logic |-> OrElse(keys.logic, Stored(p).logic),
   items |-> EditorItems(OrElse(keys.items, DefaultItems(p))),
   sort |-> EditorSort(OrElse(keys.sort, DefaultSort(p)))]

LEMMA FilledColumns ==
  ASSUME NotFunctions, NEW p, Normal(p), NEW columns, NEW keys, KeysOf(keys, columns)
  PROVE  /\ FilledOf(keys, p, columns).columns # Null
         /\ ToSet(FilledOf(keys, p, columns).columns) \subseteq columns
<1>1. PICK default : default = DefaultColumns(p, columns) OBVIOUS
<1>2. PICK stored : stored = Stored(p).columns OBVIOUS
<1>3. stored \in Seq(ToSet(stored)) BY <1>2, StoredLists DEF IsList
<1>4. default \in Seq(columns \cap ToSet(stored))
  BY <1>1, <1>2, <1>3, OnlyIn DEF DefaultColumns
<1>5. IsList(default) /\ ToSet(default) \subseteq columns BY <1>4, SeqIsList
<1>6. default # Null BY <1>5, ListsDiffer
<1>7. FilledOf(keys, p, columns).columns = IF keys.columns = Null THEN default ELSE keys.columns
  BY <1>1 DEF FilledOf, OrElse
<1> QED BY <1>5, <1>6, <1>7 DEF KeysOf

\* The items of a page that are not broken were read of a list of items.
LEMMA FilledItems ==
  ASSUME NotFunctions, NEW p, Normal(p), NEW columns, NEW keys, KeysOf(keys, columns),
         FilledOf(keys, p, columns).items # Invalid
  PROVE  \E raw : ItemList(raw) /\ FilledOf(keys, p, columns).items = EditorItems(raw)
<1>1. PICK default : default = DefaultItems(p) OBVIOUS
<1>2. FilledOf(keys, p, columns).items
        = EditorItems(IF keys.items = Null THEN default ELSE keys.items)
  BY <1>1 DEF FilledOf, OrElse
<1>3. CASE keys.items # Null BY <1>2, <1>3, ReadItemsAreItems DEF KeysOf
<1>4. CASE keys.items = Null
  <2>1. default # Invalid BY <1>2, <1>4 DEF EditorItems
  <2>2. ItemList(Stored(p).items) BY StoredLists
  <2>3. ItemList(default) BY <1>1, <2>1, <2>2, ItemsFrom DEF DefaultItems
  <2> QED BY <1>2, <1>4, <2>3
<1> QED BY <1>3, <1>4

\* The keys after a rendering that succeeds.
LEMMA FilledKeys ==
  ASSUME NotFunctions, NEW p, Normal(p), NEW columns, NEW keys, KeysOf(keys, columns),
         NEW f, f = FilledOf(keys, p, columns), BuildPayload(f) # Invalid
  PROVE  /\ KeysOf(f, columns) /\ f.columns # Null /\ ToSet(f.columns) \subseteq columns
         /\ \E raw : ItemList(raw) /\ f.items = EditorItems(raw)
<1>1. f.columns # Null /\ ToSet(f.columns) \subseteq columns BY FilledColumns
<1>2. EditorItems(f.items) # Invalid BY PayloadBreaks DEF PartsOf
<1>3. f.items # Invalid BY <1>2 DEF EditorItems
<1>4. PICK raw : ItemList(raw) /\ f.items = EditorItems(raw) BY <1>3, FilledItems
<1>5. ReadItems(f.items) BY <1>3, <1>4, ItemsAreRead
<1>6. f.parameters # Null
  <2>1. PICK xs : f.parameters = EditorRows(xs) BY DEF FilledOf
  <2> QED BY <2>1, RowsAreThere
<1>7. DOMAIN f = KeyNames BY DEF FilledOf, KeyNames
<1> QED BY <1>1, <1>4, <1>5, <1>6, <1>7 DEF KeysOf

\* The keys after a tab failed: the page stays broken as long as they do.
LEMMA BrokenKeys ==
  ASSUME NotFunctions, NEW p, Normal(p), NEW columns, NEW keys, KeysOf(keys, columns),
         NEW f, f = FilledOf(keys, p, columns), BuildPayload(f) = Invalid,
         NEW b, b = Broken(keys, f)
  PROVE  /\ KeysOf(b, columns) /\ b.columns # Null /\ b.items = keys.items
         /\ b.items # Null => BuildPayload(b) = Invalid
         /\ f.parameters = Invalid => b.parameters = keys.parameters
<1>1. f.columns # Null /\ ToSet(f.columns) \subseteq columns BY FilledColumns
<1>2. DOMAIN f = KeyNames BY DEF FilledOf, KeyNames
<1>3. PICK rows : rows = OrElse(keys.parameters, DefaultRows(p)) OBVIOUS
<1>4. f.parameters = EditorRows(rows) BY <1>3 DEF FilledOf
<1>5. CASE f.parameters = Invalid
  <2>1. b = [keys EXCEPT !.columns = f.columns] BY <1>5 DEF Broken
  <2>2. /\ DOMAIN b = KeyNames /\ b.columns = f.columns
        /\ b.items = keys.items /\ b.parameters = keys.parameters
    BY <2>1 DEF KeysOf, KeyNames
  <2>3. KeysOf(b, columns) BY <1>1, <2>2 DEF KeysOf
  <2>4. ASSUME b.items # Null PROVE BuildPayload(b) = Invalid
    <3>1. rows = b.parameters BY <1>3, <2>2, <2>4 DEF KeysOf, OrElse
    <3>2. EditorRows(b.parameters) = Invalid BY <1>4, <1>5, <3>1
    <3>3. PartsOf(b).parameters = Invalid BY <3>2 DEF PartsOf, Definitions
    <3> QED BY <3>3, PayloadBreaks
  <2> QED BY <1>1, <2>2, <2>3, <2>4
<1>6. CASE f.parameters # Invalid
  <2>1. b = [f EXCEPT !.items = keys.items, !.sort = keys.sort] BY <1>6 DEF Broken
  <2>2. /\ DOMAIN b = KeyNames /\ b.columns = f.columns
        /\ b.items = keys.items /\ b.parameters = f.parameters
    BY <1>2, <2>1 DEF KeyNames
  <2>3. f.parameters # Null BY <1>4, RowsAreThere
  <2>4. KeysOf(b, columns) BY <1>1, <2>2, <2>3 DEF KeysOf
  <2>5. ASSUME b.items # Null, BuildPayload(b) # Invalid PROVE FALSE
    <3>1. PartsOf(b).parameters # Invalid /\ PartsOf(b).items # Invalid BY <2>5, PayloadBreaks
    <3>2. EditorItems(keys.items) # Invalid BY <2>2, <3>1 DEF PartsOf
    <3>3. ReadItems(keys.items) BY <2>2, <2>5 DEF KeysOf
    <3>4. EditorItems(EditorItems(keys.items)) # Invalid BY <3>2, <3>3, ReadSurvives
    <3>5. f.items = EditorItems(keys.items) BY <2>2, <2>5 DEF FilledOf, OrElse
    <3>6. PartsOf(f).items # Invalid BY <3>4, <3>5 DEF PartsOf
    <3>7. PartsOf(f).parameters # Invalid BY <2>2, <3>1 DEF PartsOf
    <3> QED BY <3>6, <3>7, PayloadHolds
  <2> QED BY <1>1, <1>6, <2>2, <2>4, <2>5
<1> QED BY <1>5, <1>6

\* The keys before the first snapshot: none, or those of a page that was broken
\* when it was opened and that nothing the user reaches repairs.
FirstKeys(keys, p) ==
  /\ keys.items = Null
  /\ \/ keys = NoKeys
     \/ EditorItems(DefaultItems(p)) = Invalid
     \/ EditorRows(DefaultRows(p)) = Invalid /\ keys.parameters = Null

\* Only a page without keys renders before the first snapshot.
LEMMA FirstBreaks ==
  ASSUME NotFunctions, NEW p, NEW columns, NEW keys, FirstKeys(keys, p),
         BuildPayload(FilledOf(keys, p, columns)) # Invalid
  PROVE  keys = NoKeys
<1>1. PICK f : f = FilledOf(keys, p, columns) OBVIOUS
<1>2. PartsOf(f).parameters # Invalid /\ PartsOf(f).items # Invalid BY <1>1, PayloadBreaks
<1>3. f.items # Invalid BY <1>2 DEF PartsOf, EditorItems
<1>4. f.parameters # Invalid BY <1>2 DEF PartsOf, EditorRows, Definitions
<1>5. f.items = EditorItems(DefaultItems(p)) BY <1>1 DEF FilledOf, OrElse, FirstKeys
<1>6. keys.parameters = Null => f.parameters = EditorRows(DefaultRows(p))
  BY <1>1 DEF FilledOf, OrElse
<1> QED BY <1>3, <1>4, <1>5, <1>6 DEF FirstKeys

\* A page that is broken when it is opened stays so.
LEMMA FirstBroken ==
  ASSUME NotFunctions, NEW p, Normal(p), NEW columns, NEW keys, KeysOf(keys, columns),
         FirstKeys(keys, p),
         NEW f, f = FilledOf(keys, p, columns), BuildPayload(f) = Invalid
  PROVE  FirstKeys(Broken(keys, f), p)
<1>1. PICK b : b = Broken(keys, f) OBVIOUS
<1>2. /\ b.items = Null
      /\ f.parameters = Invalid => b.parameters = keys.parameters
  BY <1>1, BrokenKeys DEF FirstKeys
<1>3. f.items = EditorItems(DefaultItems(p)) BY DEF FilledOf, OrElse, FirstKeys
<1>4. keys.parameters = Null => f.parameters = EditorRows(DefaultRows(p)) BY DEF FilledOf, OrElse
<1>5. CASE EditorItems(DefaultItems(p)) = Invalid BY <1>1, <1>2, <1>5 DEF FirstKeys
<1>6. CASE EditorRows(DefaultRows(p)) = Invalid /\ keys.parameters = Null
  BY <1>1, <1>2, <1>4, <1>6 DEF FirstKeys
<1>7. CASE /\ keys = NoKeys /\ EditorItems(DefaultItems(p)) # Invalid
           /\ EditorRows(DefaultRows(p)) # Invalid
  <2>1. keys.parameters = Null BY <1>7 DEF NoKeys
  <2>2. PICK xs : xs = [i \in DOMAIN Stored(p).parameters |-> RowOfStored(Stored(p).parameters[i])]
    OBVIOUS
  <2>3. xs = [i \in DOMAIN Stored(p).parameters |-> xs[i]] BY <2>2
  <2>4. IsList(xs) BY <2>3, MapIsList, StoredLists
  <2>5. DefaultRows(p) = EditorRows(xs) BY <2>2 DEF DefaultRows
  <2>6. EditorRows(EditorRows(xs)) # Invalid BY <1>7, <2>5
  <2>7. Definitions(EditorRows(EditorRows(EditorRows(xs)))) # Invalid BY <2>4, <2>6, RowsSurvive
  <2>8. f.parameters = EditorRows(EditorRows(xs)) BY <1>4, <2>1, <2>5
  <2>9. PartsOf(f).parameters # Invalid BY <2>7, <2>8 DEF PartsOf
  <2>10. DefaultItems(p) # Invalid BY <1>7 DEF EditorItems
  <2>11. ReadItems(DefaultItems(p)) BY <2>10, StoredLists, ItemsAreRead DEF DefaultItems
  <2>12. EditorItems(EditorItems(DefaultItems(p))) # Invalid BY <1>7, <2>11, ReadSurvives
  <2>13. PartsOf(f).items # Invalid BY <1>3, <2>12 DEF PartsOf
  <2> QED BY <2>9, <2>13, PayloadHolds
<1>8. \/ keys = NoKeys \/ EditorItems(DefaultItems(p)) = Invalid
      \/ EditorRows(DefaultRows(p)) = Invalid /\ keys.parameters = Null
  BY DEF FirstKeys
<1>9. keys = NoKeys => keys.parameters = Null BY DEF NoKeys
<1> QED BY <1>5, <1>6, <1>7, <1>8, <1>9

-----------------------------------------------------------------------------
(* What a session saves *)

\* One session alone, without failures.
Quiet == others = 0 /\ failures = 0
\* The list of the session is up to date.
Served ==
  /\ schema = Schema
  /\ row.state = "none" => row.perimeter = Null
  /\ row.state # "none" => row.table \in Tables
  /\ listing.state = "stored" => listing = row
KeysKept ==
  /\ draft = [t \in Tables |-> draft[t]] /\ snapshot = [t \in Tables |-> snapshot[t]]
  /\ known = [t \in Tables |-> known[t]]
  /\ \A t \in Tables : known[t] \in {Null, Schema[t]} /\ KeysOf(draft[t], Schema[t])
\* The page has rendered its tabs, the first of them at least.
Opened ==
  page = "perimeter" /\ listing.state = "stored" /\ Available # {} => draft[table].columns # Null
\* Snapshots of no other table than t.
OnlyPage(t) == \A u \in Tables \ {t} : snapshot[u] = Null
\* A payload of the page of table t is stored, was refused or is empty.
SavedIn(s, t, p) == s = Null \/ Normalize(s) \in {Invalid, Normalize(PagePayload(p, Schema[t]))}
NoSnapshot == \A t \in Tables : snapshot[t] = Null
FirstPages == NoSnapshot => \A t \in Tables : FirstKeys(draft[t], row.perimeter)
SnapshotSaved(t) == \E s : snapshot[t] = <<s>> /\ SavedIn(s, t, row.perimeter)
SnapshotsSaved == \A t \in Tables : OnlyPage(t) /\ snapshot[t] # Null => SnapshotSaved(t)
DraftSaved(t) ==
  draft[t].items # Null /\ BuildPayload(draft[t]) # Invalid
    => SavedIn(BuildPayload(draft[t]), t, row.perimeter)
PageSaved ==
  /\ page = "perimeter" /\ listing.state = "stored" /\ Available # {}
  /\ OnlyPage(table) /\ snapshot[table] # Null
  => DraftSaved(table)
Saved == Served /\ KeysKept /\ Opened /\ FirstPages /\ SnapshotsSaved /\ PageSaved

\* The columns the session knows of a table are those it has.
LEMMA AvailableIs ==
  ASSUME Served, KeysKept, listing.state = "stored"
  PROVE  table \in Tables /\ Available = Schema[table] /\ listing = row
<1>1. listing = row BY DEF Served
<1>2. table \in Tables BY <1>1 DEF Served, table
<1> QED BY <1>1, <1>2 DEF Available, KeysKept, Served

\* The ways a rendering without failures ends (_autosave_perimeter), of the page of
\* table t with the keys f and the payload r.
RenderFails(keys, t, f, r) ==
  /\ r = Invalid /\ row' = row /\ snapshot' = snapshot
  /\ draft' = [draft EXCEPT ![t] = Broken(keys, f)]
RenderFills(t, f, r) == r # Invalid /\ draft' = [draft EXCEPT ![t] = f]
RenderFirst(t, r) ==
  snapshot[t] = Null /\ row' = row /\ snapshot' = [snapshot EXCEPT ![t] = <<r>>]
RenderSame(t, r) == snapshot[t] = <<r>> /\ row' = row /\ snapshot' = snapshot
RenderRefused(t, r) ==
  snapshot[t] # Null /\ Normalize(r) = Invalid /\ row' = row /\ snapshot' = snapshot
RenderSaved(t, r) ==
  /\ snapshot' = [snapshot EXCEPT ![t] = <<r>>] /\ Normalize(r) # Invalid
  /\ row'.perimeter = IF Normalize(r) = Null THEN row.perimeter ELSE Normalize(r)
Renders(keys, t, f, r) ==
  /\ known' = [known EXCEPT ![t] = Schema[t]]
  /\ row'.state = "stored" /\ row'.table = t /\ listing' = row'
  /\ \/ RenderFails(keys, t, f, r)
     \/ /\ RenderFills(t, f, r)
        /\ RenderFirst(t, r) \/ RenderSame(t, r) \/ RenderRefused(t, r) \/ RenderSaved(t, r)

\* An accepted update (Updated).
LEMMA UpdatedIs ==
  ASSUME NotFunctions, NormalRow, row.state = "stored", NEW t, NEW r,
         NEW new, new = Updated(t, r)
  PROVE  /\ new = Invalid => Normalize(r) = Invalid
         /\ new # Invalid =>
              /\ Normalize(r) # Invalid /\ new.state = "stored" /\ new.table = t
              /\ new.perimeter = IF Normalize(r) = Null THEN row.perimeter ELSE Normalize(r)
<1>1. PICK stored : stored = IF Normalize(r) = Null THEN row.perimeter ELSE Normalize(r) OBVIOUS
<1>2. PICK w : w = [row EXCEPT !.table = t, !.version = @ + 1, !.perimeter = stored] OBVIOUS
<1>3. w = [state |-> "stored", table |-> t, perimeter |-> stored, version |-> row.version + 1]
  BY <1>2 DEF NormalRow
<1>4. w.state = "stored" /\ w.table = t /\ w.perimeter = stored BY <1>3
<1>5. w = [x \in DOMAIN w |-> w[x]] BY <1>3
<1>6. w # Invalid BY <1>5 DEF NotFunctions
<1>7. new = IF Normalize(r) = Invalid THEN Invalid ELSE w
  BY <1>1, <1>2 DEF Updated, Written
<1> QED BY <1>1, <1>4, <1>6, <1>7

LEMMA RenderIs ==
  ASSUME NotFunctions, NormalRow, Served, KeysKept, listing.state = "stored",
         NEW keys, NEW cached, Render(keys, cached, "none"),
         NEW f, f = FilledOf(keys, row.perimeter, Schema[table]), NEW r, r = BuildPayload(f)
  PROVE  Renders(keys, table, f, r)
<1>1. /\ table \in Tables /\ Available = Schema[table] /\ listing = row
      /\ row.state = "stored" /\ row.table = table
  BY AvailableIs DEF table
<1>2. Filled(keys) = f BY <1>1 DEF Filled, FilledOf
<1>3. known' = [known EXCEPT ![table] = Schema[table]] BY <1>1 DEF Render
<1>4. CASE r = Invalid
  <2>1. /\ draft' = [draft EXCEPT ![table] = Broken(keys, f)]
        /\ row' = row /\ listing' = listing /\ snapshot' = snapshot
    BY <1>2, <1>4 DEF Render
  <2> QED BY <1>1, <1>3, <1>4, <2>1 DEF Renders, RenderFails
<1>5. CASE r # Invalid
  <2>1. PICK new : new = Updated(table, r) OBVIOUS
  <2>2. draft' = [draft EXCEPT ![table] = f] /\ Autosave(r, new, cached, "none")
    BY <1>2, <1>5, <2>1 DEF Render
  <2>3. /\ new = Invalid => Normalize(r) = Invalid
        /\ new # Invalid =>
             /\ Normalize(r) # Invalid /\ new.state = "stored" /\ new.table = table
             /\ new.perimeter = IF Normalize(r) = Null THEN row.perimeter ELSE Normalize(r)
    BY <1>1, <2>1, UpdatedIs
  <2>4. CASE snapshot[table] \in {Null, <<r>>} \/ new = Invalid
    <3>1. /\ row' = row /\ listing' = listing
          /\ snapshot' = IF snapshot[table] = Null
                         THEN [snapshot EXCEPT ![table] = <<r>>] ELSE snapshot
      BY <2>2, <2>4 DEF Autosave
    <3> QED
      BY <1>1, <1>3, <1>5, <2>2, <2>3, <2>4, <3>1
      DEF Renders, RenderFills, RenderFirst, RenderSame, RenderRefused
  <2>5. CASE snapshot[table] \notin {Null, <<r>>} /\ new # Invalid
    <3>1. /\ row' = new /\ listing' = new
          /\ snapshot' = [snapshot EXCEPT ![table] = <<r>>]
      BY <2>2, <2>5 DEF Autosave, Reloaded
    <3> QED BY <1>1, <1>3, <1>5, <2>2, <2>3, <2>5, <3>1 DEF Renders, RenderFills, RenderSaved
  <2> QED BY <2>4, <2>5
<1> QED BY <1>4, <1>5

\* A rendering keeps what a session saves: what the page shows afterwards is
\* stored, was refused, or is empty.
LEMMA RenderSaves ==
  ASSUME NotFunctions, NormalRow, Saved, listing.state = "stored", schema' = schema,
         NEW keys, KeysOf(keys, Schema[table]), NoSnapshot => FirstKeys(keys, row.perimeter),
         NEW cached, Render(keys, cached, "none")
  PROVE  Saved'
<1>0. Served /\ KeysKept /\ FirstPages /\ SnapshotsSaved BY DEF Saved
<1>1. PICK t : t = table OBVIOUS
<1>2. PICK p : p = row.perimeter OBVIOUS
<1>3. PICK c : c = Schema[t] OBVIOUS
<1>4. t \in Tables /\ Normal(p) /\ KeysOf(keys, c)
  BY <1>0, <1>1, <1>2, <1>3, AvailableIs DEF NormalRow
<1>5. PICK f : f = FilledOf(keys, p, c) OBVIOUS
<1>6. PICK r : r = BuildPayload(f) OBVIOUS
<1>7. Renders(keys, t, f, r) BY <1>0, <1>1, <1>2, <1>3, <1>5, <1>6, RenderIs
<1>8. known' = [known EXCEPT ![t] = c] /\ row'.state = "stored" /\ row'.table = t /\ listing' = row'
  BY <1>2, <1>3, <1>7 DEF Renders
<1> DEFINE Fails == RenderFails(keys, t, f, r)
           Fills == RenderFills(t, f, r)
           First == RenderFirst(t, r)
           Same == RenderSame(t, r)
           Refused == RenderRefused(t, r)
           Saves == RenderSaved(t, r)
<1>9. Fails \/ (Fills /\ (First \/ Same \/ Refused \/ Saves))
  BY <1>7 DEF Renders
<1>10. <<r>> # Null
  <2>1. PICK s : s = <<r>> OBVIOUS
  <2>2. s = [x \in DOMAIN s |-> s[x]] BY <2>1
  <2> QED BY <2>1, <2>2 DEF NotFunctions
<1> USE DEF RenderFails, RenderFills, RenderFirst, RenderSame, RenderRefused, RenderSaved
<1>11. PICK k : draft' = [draft EXCEPT ![t] = k] /\ k = IF r = Invalid THEN Broken(keys, f) ELSE f
  BY <1>9
<1>12. KeysOf(k, c) /\ k.columns # Null
  BY <1>4, <1>5, <1>6, <1>11, BrokenKeys, FilledKeys
<1>13. draft' = [u \in Tables |-> IF u = t THEN k ELSE draft[u]] BY <1>0, <1>11 DEF KeysKept
<1>14. /\ snapshot' = [u \in Tables |-> snapshot'[u]]
       /\ \A u \in Tables \ {t} : snapshot'[u] = snapshot[u]
       /\ snapshot'[t] \in {snapshot[t], <<r>>}
  <2>1. snapshot' = snapshot \/ snapshot' = [snapshot EXCEPT ![t] = <<r>>] BY <1>9
  <2>2. snapshot = [u \in Tables |-> snapshot[u]] BY <1>0 DEF KeysKept
  <2> QED BY <1>4, <2>1, <2>2
<1>15. known' = [u \in Tables |-> IF u = t THEN c ELSE known[u]] BY <1>0, <1>8 DEF KeysKept
<1>16. Served' BY <1>0, <1>4, <1>8 DEF Served
<1>17. KeysKept'
  <2>1. \A u \in Tables : known'[u] \in {Null, Schema[u]}
    BY <1>0, <1>3, <1>15 DEF KeysKept
  <2>2. \A u \in Tables : KeysOf(draft'[u], Schema[u])
    BY <1>0, <1>3, <1>12, <1>13 DEF KeysKept
  <2>3. draft' = [u \in Tables |-> draft'[u]] BY <1>13
  <2>4. known' = [u \in Tables |-> known'[u]] BY <1>15
  <2> QED BY <1>14, <2>1, <2>2, <2>3, <2>4 DEF KeysKept
<1>18. table' = t BY <1>8 DEF table
<1>19. Opened' BY <1>4, <1>12, <1>13, <1>18 DEF Opened
<1> HIDE DEF Fails, Fills, First, Same, Refused, Saves
<1>20. NoSnapshot' => Fails
  <2>1. SUFFICES ASSUME NoSnapshot' PROVE Fails OBVIOUS
  <2>2. snapshot'[t] = Null BY <1>4, <2>1 DEF NoSnapshot
  <2>3. ~First /\ ~Saves BY <1>0, <1>4, <1>10, <2>2 DEF First, Saves, KeysKept
  <2>4. ~Same /\ ~Refused BY <1>10, <2>2 DEF Same, Refused
  <2> QED BY <1>9, <2>3, <2>4
<1>21. FirstPages'
  <2>1. SUFFICES ASSUME NoSnapshot' PROVE \A u \in Tables : FirstKeys(draft[u], row.perimeter)'
    BY DEF FirstPages
  <2>2. r = Invalid /\ row' = row /\ snapshot' = snapshot BY <1>20, <2>1 DEF Fails
  <2>3. NoSnapshot BY <2>1, <2>2 DEF NoSnapshot
  <2>4. FirstKeys(keys, p) BY <1>2, <2>3
  <2>5. FirstKeys(k, p) BY <1>4, <1>5, <1>6, <1>11, <2>2, <2>4, FirstBroken
  <2>6. \A u \in Tables : FirstKeys(draft[u], p) BY <1>0, <1>2, <2>3 DEF FirstPages
  <2>7. row'.perimeter = p BY <1>2, <2>2
  <2>8. \A u \in Tables : draft'[u] = IF u = t THEN k ELSE draft[u] BY <1>13
  <2>9. \A u \in Tables : FirstKeys(draft'[u], p) BY <2>5, <2>6, <2>8
  <2> QED BY <2>7, <2>9
<1>22. ASSUME First, OnlyPage(t)', r # Invalid PROVE SavedIn(r, t, row'.perimeter)
  <2>1. NoSnapshot BY <1>14, <1>22 DEF First, OnlyPage, NoSnapshot
  <2>2. keys = NoKeys BY <1>2, <1>5, <1>6, <1>22, <2>1, FirstBreaks
  <2>3. FilledOf(NoKeys, p, c) = PageOf(p, c) BY DEF FilledOf, PageOf, OrElse, NoKeys
  <2>4. r = PagePayload(p, c) BY <1>5, <1>6, <2>2, <2>3 DEF PagePayload
  <2>5. row'.perimeter = p BY <1>2, <1>22 DEF First
  <2> QED BY <1>3, <2>4, <2>5 DEF SavedIn
<1>23. ASSUME Saves, r # Invalid PROVE SavedIn(r, t, row'.perimeter)
  <2>1. PICK n : n = Normalize(r) OBVIOUS
  <2>2. CASE n = Null
    <3>1. r = Null BY <1>6, <1>23, <2>1, <2>2, PayloadIsStored
    <3> QED BY <3>1 DEF SavedIn
  <2>3. CASE n # Null
    <3>1. row'.perimeter = n /\ n # Invalid BY <1>23, <2>1, <2>3 DEF Saves
    <3>2. PICK raw : ItemList(raw) /\ f.items = EditorItems(raw)
      BY <1>4, <1>5, <1>6, <1>23, FilledKeys
    <3>3. ToSet(f.columns) \subseteq c BY <1>4, <1>5, <1>6, <1>23, FilledKeys
    <3>4. Normalize(PagePayload(n, c)) = n
      BY <1>6, <1>23, <2>1, <2>3, <3>1, <3>2, <3>3, PayloadIsShown
    <3> QED BY <1>3, <2>1, <3>1, <3>4 DEF SavedIn
  <2> QED BY <2>2, <2>3
<1>24. ASSUME NEW u \in Tables, OnlyPage(u)', snapshot'[u] # Null PROVE SnapshotSaved(u)'
  <2>1. ASSUME row' = row, snapshot' = snapshot PROVE SnapshotSaved(u)'
    <3>1. OnlyPage(u) /\ snapshot[u] # Null BY <1>24, <2>1 DEF OnlyPage
    <3>2. SnapshotSaved(u) BY <1>0, <3>1 DEF SnapshotsSaved
    <3> QED BY <2>1, <3>2 DEF SnapshotSaved
  <2>2. CASE Fails \/ Same \/ Refused BY <2>1, <2>2 DEF Fails, Same, Refused
  <2>3. CASE Fills /\ (First \/ Saves)
    <3>1. r # Invalid BY <2>3 DEF Fills
    <3>2. snapshot'[t] = <<r>> BY <1>0, <1>4, <2>3 DEF First, Saves, KeysKept
    <3>3. u = t BY <1>4, <1>10, <1>24, <3>2 DEF OnlyPage
    <3>4. SavedIn(r, t, row'.perimeter) BY <1>22, <1>23, <1>24, <2>3, <3>1, <3>3
    <3> QED BY <3>2, <3>3, <3>4 DEF SnapshotSaved
  <2> QED BY <1>9, <2>2, <2>3
<1>25. SnapshotsSaved' BY <1>24 DEF SnapshotsSaved
<1>26. PageSaved'
  <2>1. SUFFICES ASSUME OnlyPage(t)', snapshot'[t] # Null, draft'[t].items # Null,
                        BuildPayload(draft'[t]) # Invalid
                 PROVE  SavedIn(BuildPayload(draft'[t]), t, row'.perimeter)
    BY <1>18 DEF PageSaved, DraftSaved
  <2>2. draft'[t] = k BY <1>4, <1>13
  <2>3. r # Invalid BY <1>4, <1>5, <1>6, <1>11, <2>1, <2>2, BrokenKeys
  <2>4. BuildPayload(draft'[t]) = r BY <1>6, <1>11, <2>2, <2>3
  <2>5. CASE Refused BY <2>4, <2>5 DEF Refused, SavedIn
  <2>6. CASE First \/ Same \/ Saves
    <3>1. snapshot'[t] = <<r>> BY <1>0, <1>4, <2>6 DEF First, Same, Saves, KeysKept
    <3>2. PICK s : snapshot'[t] = <<s>> /\ SavedIn(s, t, row'.perimeter)
      BY <1>4, <1>24, <2>1 DEF SnapshotSaved
    <3>3. s = r
      <4>1. PICK q : q = snapshot'[t] OBVIOUS
      <4>2. q[1] = r BY <3>1, <4>1
      <4>3. q[1] = s BY <3>2, <4>1
      <4> QED BY <4>2, <4>3
    <3> QED BY <2>4, <3>2, <3>3
  <2> QED BY <1>9, <2>3, <2>5, <2>6 DEF Fails
<1> QED BY <1>16, <1>17, <1>19, <1>21, <1>25, <1>26 DEF Saved

\* A step to the page of the datasets keeps what a session saves, with the rows and
\* items of its keys.
LEMMA ListSaves ==
  ASSUME Saved, Served', KeysKept', page' = "list", snapshot' = snapshot,
         row'.perimeter = row.perimeter,
         \A t \in Tables : FirstKeys(draft[t], row.perimeter) => FirstKeys(draft'[t], row.perimeter)
  PROVE  Saved'
<1>1. PICK p : p = row.perimeter /\ p = row'.perimeter OBVIOUS
<1>2. Opened' /\ PageSaved' BY DEF Opened, PageSaved
<1>3. FirstPages'
  <2>1. SUFFICES ASSUME NoSnapshot', NEW t \in Tables PROVE FirstKeys(draft'[t], row'.perimeter)
    BY DEF FirstPages
  <2>2. NoSnapshot BY <2>1 DEF NoSnapshot
  <2>3. FirstKeys(draft[t], p) BY <1>1, <2>2 DEF Saved, FirstPages
  <2> QED BY <1>1, <2>3
<1>4. SnapshotsSaved'
  <2>1. SUFFICES ASSUME NEW t \in Tables, OnlyPage(t)', snapshot'[t] # Null
                 PROVE  SnapshotSaved(t)'
    BY DEF SnapshotsSaved
  <2>2. OnlyPage(t) BY <2>1 DEF OnlyPage
  <2>3. SnapshotSaved(t) BY <2>1, <2>2 DEF Saved, SnapshotsSaved
  <2> QED BY <1>1, <2>3 DEF SnapshotSaved
<1> QED BY <1>2, <1>3, <1>4 DEF Saved

\* The clicks on the page of the datasets, without failures.
LEMMA ListClickSaves ==
  ASSUME NotFunctions, NormalRow, Saved, schema' = schema, NEW t \in Tables,
         \/ AddDataset(t, "none") \/ EditDataset(t, "none")
         \/ DeleteDataset("none") \/ TogglePreview("none")
  PROVE  Saved'
<1>0. Served /\ KeysKept BY DEF Saved
<1>1. /\ page' = "list" /\ draft' = draft /\ snapshot' = snapshot /\ known' = known
  BY DEF AddDataset, EditDataset, DeleteDataset, TogglePreview, RenderList, pageVars
<1>2. KeysKept' BY <1>0, <1>1 DEF KeysKept
<1>3. ASSUME Served', row'.perimeter = row.perimeter PROVE Saved'
  BY <1>1, <1>2, <1>3, ListSaves
<1>4. CASE row' = row /\ listing' = listing
  <2>1. Served' BY <1>0, <1>4 DEF Served
  <2> QED BY <1>3, <1>4, <2>1
<1>5. CASE AddDataset(t, "none")
  <2>1. PICK new : new = [NoRow EXCEPT !.state = "stored", !.table = t] OBVIOUS
  <2>2. row.state = "none" /\ row' = new /\ listing' = new
    BY <1>5, <2>1 DEF AddDataset, Reloaded, RenderList
  <2>3. new.state = "stored" /\ new.table = t /\ new.perimeter = Null BY <2>1 DEF NoRow
  <2>4. Served' BY <1>0, <2>2, <2>3 DEF Served
  <2> QED BY <1>0, <1>3, <2>2, <2>3, <2>4 DEF Served
<1>6. CASE EditDataset(t, "none")
  <2>1. PICK new : new = Updated(t, Null) OBVIOUS
  <2>2. \/ row' = row /\ listing' = listing
        \/ new # Invalid /\ row' = new /\ listing' = new
    BY <1>6, <2>1 DEF EditDataset, Reloaded, RenderList
  <2>3. ASSUME new # Invalid, row' = new, listing' = new PROVE Saved'
    <3>1. row.state = "stored" BY <2>1, <2>3 DEF Updated
    <3>2. Normalize(Null) = Null BY DEF Normalize
    <3>3. new.state = "stored" /\ new.table = t /\ new.perimeter = row.perimeter
      BY <2>1, <2>3, <3>1, <3>2, UpdatedIs
    <3>4. Served' BY <1>0, <2>3, <3>3 DEF Served
    <3> QED BY <1>3, <2>3, <3>3, <3>4
  <2> QED BY <1>4, <2>2, <2>3
<1>7. CASE DeleteDataset("none")
  <2>1. PICK new : new = [row EXCEPT !.state = "deleted"] OBVIOUS
  <2>2. \/ row' = row /\ listing' = listing
        \/ row.state = "stored" /\ row' = new /\ listing' = NoRow
    BY <1>7, <2>1 DEF DeleteDataset, RenderList
  <2>3. ASSUME row.state = "stored", row' = new, listing' = NoRow PROVE Saved'
    <3>1. new.state = "deleted" /\ new.table = row.table /\ new.perimeter = row.perimeter
      BY <2>1 DEF NormalRow
    <3>2. NoRow.state # "stored" BY DEF NoRow
    <3>3. Served' BY <1>0, <2>3, <3>1, <3>2 DEF Served
    <3> QED BY <1>3, <2>3, <3>1, <3>3
  <2> QED BY <1>4, <2>2, <2>3
<1>8. CASE TogglePreview("none") BY <1>4, <1>8 DEF TogglePreview, RenderList
<1> QED BY <1>5, <1>6, <1>7, <1>8

\* Leaving the page: it forgets the columns and the logic of every table.
LEMMA BackSaves ==
  ASSUME Saved, schema' = schema, NEW lost, Back(lost)
  PROVE  Saved'
<1>0. Served /\ KeysKept BY DEF Saved
<1>1. /\ page' = "list" /\ row' = row /\ listing' = listing /\ known' = known
      /\ snapshot' = snapshot
      /\ draft' = [t \in Tables |-> [draft[t] EXCEPT !.columns = Null, !.logic = Null]]
  BY DEF Back, RenderList
<1>2. Served' BY <1>0, <1>1 DEF Served
<1>3. ASSUME NEW t \in Tables
      PROVE  /\ KeysOf(draft'[t], Schema[t])
             /\ FirstKeys(draft[t], row.perimeter) => FirstKeys(draft'[t], row.perimeter)
  <2>1. PICK k : k = draft[t] OBVIOUS
  <2>2. PICK b : b = [k EXCEPT !.columns = Null, !.logic = Null] OBVIOUS
  <2>3. draft'[t] = b BY <1>1, <2>1, <2>2
  <2>4. KeysOf(k, Schema[t]) BY <1>0, <2>1 DEF KeysKept
  <2>5. /\ DOMAIN b = KeyNames /\ b.columns = Null
        /\ b.items = k.items /\ b.parameters = k.parameters
    BY <2>2, <2>4 DEF KeysOf, KeyNames
  <2>6. KeysOf(b, Schema[t]) BY <2>4, <2>5 DEF KeysOf
  <2>7. ASSUME k = NoKeys PROVE b = NoKeys
    <3>1. /\ k = [columns |-> k.columns, parameters |-> k.parameters, logic |-> k.logic,
                  items |-> k.items, sort |-> k.sort]
          /\ k.parameters = Null /\ k.items = Null /\ k.sort = Null
      BY <2>7 DEF NoKeys
    <3>2. b = [columns |-> Null, parameters |-> k.parameters, logic |-> Null,
               items |-> k.items, sort |-> k.sort]
      BY <2>2, <3>1
    <3> QED BY <3>1, <3>2 DEF NoKeys
  <2>8. ASSUME NEW p, FirstKeys(k, p) PROVE FirstKeys(b, p)
    BY <2>5, <2>7, <2>8 DEF FirstKeys
  <2> QED BY <2>1, <2>3, <2>6, <2>8
<1>4. KeysKept'
  <2>1. draft' = [t \in Tables |-> draft'[t]] BY <1>1
  <2> QED BY <1>0, <1>1, <1>3, <2>1 DEF KeysKept
<1> QED BY <1>1, <1>2, <1>3, <1>4, ListSaves

\* What does not render the page and keeps the keys (a table without columns, a step
\* that changes nothing).
LEMMA IdleSaves ==
  ASSUME Saved, UNCHANGED <<schema, row, listing, draft, snapshot>>,
         \/ page' = page /\ known' = known
         \/ Available = {} /\ listing.state = "stored" /\ known' = [known EXCEPT ![table] = {}]
  PROVE  Saved'
<1>0. Served /\ KeysKept /\ FirstPages /\ SnapshotsSaved BY DEF Saved
<1>1. Served' BY <1>0 DEF Served
<1>2. FirstPages' BY <1>0 DEF FirstPages, NoSnapshot
<1>3. SnapshotsSaved' BY <1>0 DEF SnapshotsSaved, OnlyPage, SnapshotSaved
<1>4. CASE page' = page /\ known' = known
  <2>1. Available' = Available /\ table' = table BY <1>4 DEF Available, table
  <2>2. KeysKept' BY <1>0, <1>4 DEF KeysKept
  <2>3. Opened' BY <1>4, <2>1 DEF Saved, Opened
  <2>4. PageSaved' BY <1>4, <2>1 DEF Saved, PageSaved, OnlyPage, DraftSaved
  <2> QED BY <1>1, <1>2, <1>3, <2>2, <2>3, <2>4 DEF Saved
<1>5. CASE Available = {} /\ listing.state = "stored" /\ known' = [known EXCEPT ![table] = {}]
  <2>1. table \in Tables /\ Schema[table] = {} BY <1>0, <1>5, AvailableIs
  <2>2. table' = table BY DEF table
  <2>3. known' = [t \in Tables |-> IF t = table THEN {} ELSE known[t]]
    BY <1>0, <1>5 DEF KeysKept
  <2>4. Available' = {} BY <1>0, <2>1, <2>2, <2>3 DEF Available, Served
  <2>5. KeysKept' BY <1>0, <2>1, <2>3 DEF KeysKept
  <2>6. Opened' /\ PageSaved' BY <2>4 DEF Opened, PageSaved
  <2> QED BY <1>1, <1>2, <1>3, <2>5, <2>6 DEF Saved
<1> QED BY <1>4, <1>5

\* The keys of a page after the user changed one of them.
LEMMA ChangedKeys ==
  ASSUME NEW keys, NEW columns, KeysOf(keys, columns), NEW new
  PROVE  /\ ToSet(new) \subseteq columns => KeysOf([keys EXCEPT !.columns = new], columns)
         /\ new # Null => KeysOf([keys EXCEPT !.parameters = new], columns)
         /\ KeysOf([keys EXCEPT !.logic = new], columns)
         /\ KeysOf([keys EXCEPT !.sort = new], columns)
         /\ keys.items # Null /\ ReadItems(new) => KeysOf([keys EXCEPT !.items = new], columns)
<1>1. ASSUME NEW k, DOMAIN k = KeyNames, k.parameters = keys.parameters, k.items = keys.items,
             k.columns # Null => ToSet(k.columns) \subseteq columns
      PROVE  KeysOf(k, columns)
  BY <1>1 DEF KeysOf
<1>2. DOMAIN keys = KeyNames /\ (keys.columns # Null => ToSet(keys.columns) \subseteq columns)
  BY DEF KeysOf
<1>3. ASSUME ToSet(new) \subseteq columns PROVE KeysOf([keys EXCEPT !.columns = new], columns)
  <2>1. PICK k : k = [keys EXCEPT !.columns = new] OBVIOUS
  <2>2. /\ DOMAIN k = KeyNames /\ k.columns = new
        /\ k.parameters = keys.parameters /\ k.items = keys.items
    BY <1>2, <2>1 DEF KeyNames
  <2> QED BY <1>1, <1>3, <2>1, <2>2
<1>4. ASSUME new # Null PROVE KeysOf([keys EXCEPT !.parameters = new], columns)
  <2>1. PICK k : k = [keys EXCEPT !.parameters = new] OBVIOUS
  <2>2. /\ DOMAIN k = KeyNames /\ k.parameters = new
        /\ k.columns = keys.columns /\ k.items = keys.items
    BY <1>2, <2>1 DEF KeyNames
  <2> QED BY <1>4, <2>1, <2>2 DEF KeysOf
<1>5. KeysOf([keys EXCEPT !.logic = new], columns)
  <2>1. PICK k : k = [keys EXCEPT !.logic = new] OBVIOUS
  <2>2. /\ DOMAIN k = KeyNames /\ k.columns = keys.columns
        /\ k.parameters = keys.parameters /\ k.items = keys.items
    BY <1>2, <2>1 DEF KeyNames
  <2> QED BY <1>1, <1>2, <2>1, <2>2
<1>6. KeysOf([keys EXCEPT !.sort = new], columns)
  <2>1. PICK k : k = [keys EXCEPT !.sort = new] OBVIOUS
  <2>2. /\ DOMAIN k = KeyNames /\ k.columns = keys.columns
        /\ k.parameters = keys.parameters /\ k.items = keys.items
    BY <1>2, <2>1 DEF KeyNames
  <2> QED BY <1>1, <1>2, <2>1, <2>2
<1>7. ASSUME keys.items # Null, ReadItems(new)
      PROVE  KeysOf([keys EXCEPT !.items = new], columns)
  <2>1. PICK k : k = [keys EXCEPT !.items = new] OBVIOUS
  <2>2. /\ DOMAIN k = KeyNames /\ k.items = new
        /\ k.columns = keys.columns /\ k.parameters = keys.parameters
    BY <1>2, <2>1 DEF KeyNames
  <2> QED BY <1>7, <2>1, <2>2 DEF KeysOf
<1> QED BY <1>3, <1>4, <1>5, <1>6, <1>7

\* The items of a draft after one was appended, removed or replaced.
LEMMA ChangedItems ==
  ASSUME NEW items, ReadItems(items)
  PROVE  /\ \A item : ReadItem(item) => ReadItems(Append(items, item))
         /\ \A i \in DOMAIN items : ReadItem(items[i]) /\ ReadItems(RemoveAt(items, i))
         /\ \A i \in DOMAIN items :
              \A item : ReadItem(item) => ReadItems([items EXCEPT ![i] = item])
<1>1. IsList(items) /\ \A item \in ToSet(items) : ReadItem(item) BY DEF ReadItems
<1>2. ASSUME NEW list, IsList(list), NEW item, ReadItem(item),
             ToSet(list) \subseteq ToSet(items) \cup {item}
      PROVE  ReadItems(list)
  BY <1>1, <1>2 DEF ReadItems
<1>3. ASSUME NEW item, ReadItem(item) PROVE ReadItems(Append(items, item))
  <2>1. PICK list : list = Append(items, item) OBVIOUS
  <2>2. IsList(list) /\ ToSet(list) \subseteq ToSet(items) \cup {item}
    BY <1>1, <2>1, AppendedIsList
  <2> QED BY <1>2, <1>3, <2>1, <2>2
<1>4. ASSUME NEW i \in DOMAIN items
      PROVE  ReadItem(items[i]) /\ ReadItems(RemoveAt(items, i))
  <2>1. PICK list : list = RemoveAt(items, i) OBVIOUS
  <2>2. IsList(list) /\ ToSet(list) \subseteq ToSet(items)
    BY <1>1, <2>1, RemovedIsList
  <2>3. items[i] \in ToSet(items) BY DEF ToSet
  <2> QED BY <1>1, <2>1, <2>2, <2>3 DEF ReadItems
<1>5. ASSUME NEW i \in DOMAIN items, NEW item, ReadItem(item)
      PROVE  ReadItems([items EXCEPT ![i] = item])
  <2>1. PICK list : list = [items EXCEPT ![i] = item] OBVIOUS
  <2>2. IsList(list) /\ ToSet(list) \subseteq ToSet(items) \cup {item}
    BY <1>1, <2>1, ReplacedIsList
  <2> QED BY <1>2, <1>5, <2>1, <2>2
<1> QED BY <1>3, <1>4, <1>5

\* An item whose conditions were changed.
LEMMA ChangedItem ==
  ASSUME NEW item, ReadItem(item), NEW cs, ReadConditions(cs)
  PROVE  ReadItem([item EXCEPT !.conditions = cs])
<1>1. PICK k : k = [item EXCEPT !.conditions = cs] OBVIOUS
<1>2. DOMAIN k = ItemKeys /\ k.conditions = cs BY <1>1 DEF ReadItem, ItemKeys
<1> QED BY <1>1, <1>2 DEF ReadItem

LEMMA NewItem ==
  ASSUME NEW kind, NEW logic, NEW cs, ReadConditions(cs)
  PROVE  ReadItem([kind |-> kind, logic |-> logic, conditions |-> cs])
BY DEF ReadItem, ItemKeys

LEMMA SingleIsRead == ASSUME NEW c, ReadCondition(c) PROVE ReadItem(Single(c))
<1>1. PICK cs : cs = <<c>> OBVIOUS
<1>2. cs \in Seq({c}) BY <1>1
<1>3. IsList(cs) /\ ToSet(cs) \subseteq {c} BY <1>2, SeqIsList
<1>4. ReadConditions(cs) BY <1>3 DEF ReadConditions
<1> QED BY <1>1, <1>4, NewItem DEF Single

\* What is typed into the dialogs is read before it becomes part of a draft.
LEMMA TypedIsRead ==
  ASSUME NotFunctions
  PROVE  /\ \A c \in TypedConditions : Accepted(c) => ReadCondition(EditorCondition(c))
         /\ \A cs \in TypedGroups :
              EditorConditions(cs) # Invalid => ReadConditions(EditorConditions(cs))
<1>1. ASSUME NEW c \in TypedConditions, Accepted(c) PROVE ReadCondition(EditorCondition(c))
  <2>1. DOMAIN c = ConditionKeys BY TypedAssumption DEF ConditionKeys
  <2>2. EditorCondition(c) \notin {Null, Invalid} BY <1>1 DEF Accepted
  <2> QED BY <2>1, <2>2, ConditionFrom, FromIsRead
<1>2. ASSUME NEW cs \in TypedGroups, EditorConditions(cs) # Invalid
      PROVE  ReadConditions(EditorConditions(cs))
  <2>1. IsList(cs) BY TypedAssumption
  <2>2. \A c \in ToSet(cs) : DOMAIN c = ConditionKeys BY TypedAssumption DEF ConditionKeys
  <2> QED BY <1>2, <2>1, <2>2, ConditionsAreRead DEF ConditionList
<1> QED BY <1>1, <1>2

\* The page a click edits: its table, its keys, and the items of a page whose tabs
\* did not fail.
LEMMA EditedPage ==
  ASSUME Saved, Editing("none")
  PROVE  /\ table \in Tables /\ Available = Schema[table] /\ schema' = schema
         /\ listing.state = "stored"
         /\ KeysOf(draft[table], Schema[table]) /\ draft[table].columns # Null
         /\ NoSnapshot => FirstKeys(draft[table], row.perimeter)
         /\ Unbroken => ~NoSnapshot /\ draft[table].items # Null /\ ReadItems(draft[table].items)
<1>0. Served /\ KeysKept /\ FirstPages /\ Opened BY DEF Saved
<1>1. listing.state = "stored" /\ page = "perimeter" /\ Available # {} /\ schema' = schema
  BY DEF Editing, Click
<1>2. table \in Tables /\ Available = Schema[table] BY <1>0, <1>1, AvailableIs
<1>3. KeysOf(draft[table], Schema[table]) BY <1>0, <1>2 DEF KeysKept
<1>4. draft[table].columns # Null BY <1>0, <1>1 DEF Opened
<1>5. NoSnapshot => FirstKeys(draft[table], row.perimeter) BY <1>0, <1>2 DEF FirstPages
<1>6. Unbroken => draft[table].items # Null BY DEF Unbroken
<1>7. draft[table].items # Null => ReadItems(draft[table].items) BY <1>3 DEF KeysOf
<1>8. draft[table].items # Null => ~NoSnapshot BY <1>5 DEF FirstKeys
<1> QED BY <1>1, <1>2, <1>3, <1>4, <1>5, <1>6, <1>7, <1>8

\* The tabs of the columns and of the parameters, which a broken page has too.
LEMMA FirstTabsSave ==
  ASSUME NotFunctions, NormalRow, Saved,
         \/ \E columns \in TypedColumns : SetColumns(columns, "none")
         \/ \E rows \in TypedRows : SetParameters(rows, "none")
  PROVE  Saved'
<1>1. Editing("none") BY DEF SetColumns, SetParameters
<1>2. PICK d : d = draft[table] OBVIOUS
<1>3. PICK p : p = row.perimeter OBVIOUS
<1>4. /\ Available = Schema[table] /\ schema' = schema /\ listing.state = "stored"
      /\ KeysOf(d, Schema[table]) /\ d.columns # Null /\ (NoSnapshot => FirstKeys(d, p))
  BY <1>1, <1>2, <1>3, EditedPage
<1>5. ASSUME NoSnapshot
      PROVE  /\ d.items = Null
             /\ \/ EditorItems(DefaultItems(p)) = Invalid
                \/ EditorRows(DefaultRows(p)) = Invalid /\ d.parameters = Null
  <2>1. NoKeys.columns = Null BY DEF NoKeys
  <2> QED BY <1>4, <1>5, <2>1 DEF FirstKeys
<1>6. ASSUME NEW columns \in TypedColumns, SetColumns(columns, "none") PROVE Saved'
  <2>1. PICK k : k = [d EXCEPT !.columns = columns] OBVIOUS
  <2>2. ToSet(columns) \subseteq Schema[table] /\ Render(k, preview, "none")
    BY <1>2, <1>4, <1>6, <2>1 DEF SetColumns
  <2>3. KeysOf(k, Schema[table]) BY <1>4, <2>1, <2>2, ChangedKeys
  <2>4. k.items = d.items /\ k.parameters = d.parameters BY <1>4, <2>1 DEF KeysOf, KeyNames
  <2>5. NoSnapshot => FirstKeys(k, p) BY <1>5, <2>4 DEF FirstKeys
  <2> QED BY <1>3, <1>4, <2>2, <2>3, <2>5, RenderSaves
<1>7. ASSUME NEW rows \in TypedRows, SetParameters(rows, "none") PROVE Saved'
  <2>1. PICK k : k = [d EXCEPT !.parameters = rows] OBVIOUS
  <2>2. d.parameters # Null /\ Render(k, preview, "none")
    BY <1>2, <1>7, <2>1 DEF SetParameters
  <2>3. rows # Null BY TypedAssumption, ListsDiffer
  <2>4. KeysOf(k, Schema[table]) BY <1>4, <2>1, <2>3, ChangedKeys
  <2>5. k.items = d.items BY <1>4, <2>1 DEF KeysOf, KeyNames
  <2>6. NoSnapshot => FirstKeys(k, p) BY <1>5, <2>2, <2>5 DEF FirstKeys
  <2> QED BY <1>3, <1>4, <2>2, <2>4, <2>6, RenderSaves
<1> QED BY <1>6, <1>7

\* Clicks that render the page with the keys it has.
LEMMA SameKeysSave ==
  ASSUME NotFunctions, NormalRow, Saved, Editing("none"), NEW cached,
         Render(draft[table], cached, "none")
  PROVE  Saved'
BY EditedPage, RenderSaves

\* The tabs of the filters and of the sort, of a page whose tabs did not fail.
LEMMA LaterTabsSave ==
  ASSUME NotFunctions, NormalRow, Saved, Editing("none"), Unbroken, NEW new,
         \/ Render([draft[table] EXCEPT !.logic = new], preview, "none")
         \/ Render([draft[table] EXCEPT !.sort = new], preview, "none")
         \/ ReadItems(new) /\ Render(WithItems(new), preview, "none")
  PROVE  Saved'
<1>1. PICK d : d = draft[table] OBVIOUS
<1>2. /\ schema' = schema /\ listing.state = "stored" /\ ~NoSnapshot
      /\ KeysOf(d, Schema[table]) /\ d.items # Null
  BY <1>1, EditedPage
<1>3. ASSUME NEW k, KeysOf(k, Schema[table]), Render(k, preview, "none") PROVE Saved'
  BY <1>2, <1>3, RenderSaves
<1>4. CASE Render([draft[table] EXCEPT !.logic = new], preview, "none")
  BY <1>1, <1>2, <1>3, <1>4, ChangedKeys
<1>5. CASE Render([draft[table] EXCEPT !.sort = new], preview, "none")
  BY <1>1, <1>2, <1>3, <1>5, ChangedKeys
<1>6. CASE ReadItems(new) /\ Render(WithItems(new), preview, "none")
  <2>1. Render([d EXCEPT !.items = new], preview, "none") BY <1>1, <1>6 DEF WithItems
  <2> QED BY <1>2, <1>3, <1>6, <2>1, ChangedKeys
<1> QED BY <1>4, <1>5, <1>6

\* The dialogs of the filters.
LEMMA FiltersSave ==
  ASSUME NotFunctions, NormalRow, Saved,
         \/ \E c \in TypedConditions : AddCondition(c, "none") \/ SaveEdit(c, "none")
         \/ \E conditions \in TypedGroups : AddGroup("OR", conditions, "none")
         \/ \E i \in 1..2 : DeleteItem(i, "none")
         \/ \E i \in 1..2, j \in 0..2 : DeleteGroupCondition(i, j, "none")
  PROVE  Saved'
<1>1. Editing("none") /\ Unbroken
  BY DEF AddCondition, SaveEdit, AddGroup, DeleteItem, DeleteGroupCondition
<1>2. PICK items : items = draft[table].items OBVIOUS
<1>3. ReadItems(items) BY <1>1, <1>2, EditedPage
<1>4. ASSUME NEW new, ReadItems(new), Render(WithItems(new), preview, "none") PROVE Saved'
  BY <1>1, <1>4, LaterTabsSave
<1>5. \A i \in DOMAIN items :
        /\ ReadItem(items[i]) /\ ReadItems(RemoveAt(items, i))
        /\ \A item : ReadItem(item) => ReadItems([items EXCEPT ![i] = item])
  BY <1>3, ChangedItems
<1>6. ASSUME NEW c \in TypedConditions, AddCondition(c, "none") PROVE Saved'
  <2>1. PICK item : item = Single(EditorCondition(c)) OBVIOUS
  <2>2. Render(WithItems(Append(items, item)), preview, "none") /\ Accepted(c)
    BY <1>2, <1>6, <2>1 DEF AddCondition
  <2>3. ReadItem(item) BY <2>1, <2>2, TypedIsRead, SingleIsRead
  <2> QED BY <1>3, <1>4, <2>2, <2>3, ChangedItems
<1>7. ASSUME NEW cs \in TypedGroups, AddGroup("OR", cs, "none") PROVE Saved'
  <2>1. PICK ks : ks = EditorConditions(cs) OBVIOUS
  <2>2. PICK item : item = Group("OR", ks) OBVIOUS
  <2>3. Render(WithItems(Append(items, item)), preview, "none") /\ ks # Invalid
    BY <1>2, <1>7, <2>1, <2>2 DEF AddGroup
  <2>4. ReadItem(item) BY <2>1, <2>2, <2>3, TypedIsRead, NewItem DEF Group
  <2> QED BY <1>3, <1>4, <2>3, <2>4, ChangedItems
<1>8. ASSUME NEW i \in 1..2, DeleteItem(i, "none") PROVE Saved'
  BY <1>2, <1>4, <1>5, <1>8 DEF DeleteItem
<1>9. ASSUME NEW i \in 1..2, NEW j \in 0..2, DeleteGroupCondition(i, j, "none") PROVE Saved'
  <2>1. PICK item : item = items[i] OBVIOUS
  <2>2. PICK cs : cs = RemoveAt(item.conditions, j) OBVIOUS
  <2>3. PICK left : left = [item EXCEPT !.conditions = cs] OBVIOUS
  <2>4. i \in DOMAIN items /\ j \in DOMAIN item.conditions
    BY <1>2, <1>9, <2>1 DEF DeleteGroupCondition
  <2>5. \/ Render(WithItems(RemoveAt(items, i)), preview, "none")
        \/ Render(WithItems([items EXCEPT ![i] = left]), preview, "none")
    BY <1>2, <1>9, <2>1, <2>2, <2>3 DEF DeleteGroupCondition
  <2>6. ReadItem(item) BY <1>5, <2>1, <2>4
  <2>7. IsList(cs) /\ ToSet(cs) \subseteq ToSet(item.conditions)
    BY <2>2, <2>4, <2>6, RemovedIsList DEF ReadItem, ReadConditions
  <2>8. ReadConditions(cs) BY <2>6, <2>7 DEF ReadItem, ReadConditions
  <2>9. ReadItem(left) BY <2>3, <2>6, <2>8, ChangedItem
  <2> QED BY <1>4, <1>5, <2>4, <2>5, <2>9
<1>10. ASSUME NEW b \in TypedConditions, SaveEdit(b, "none") PROVE Saved'
  <2>1. PICK c : c = EditorCondition(b) OBVIOUS
  <2>2. PICK new : new = WithCondition(items, dialog, c) OBVIOUS
  <2>3. Render(WithItems(new), preview, "none") /\ Accepted(b)
    BY <1>2, <1>10, <2>1, <2>2 DEF SaveEdit
  <2>4. ReadCondition(c) BY <2>1, <2>3, TypedIsRead
  <2>5. PICK i : i = dialog.item OBVIOUS
  <2>6. PICK item : item = items[i] OBVIOUS
  <2>7. PICK cs : cs = [item.conditions EXCEPT ![dialog.at] = c] OBVIOUS
  <2>8. \/ new = items
        \/ i \in DOMAIN items /\ new = [items EXCEPT ![i] = Single(c)]
        \/ /\ i \in DOMAIN items /\ dialog.at \in DOMAIN item.conditions
           /\ new = [items EXCEPT ![i] = [item EXCEPT !.conditions = cs]]
    BY <2>2, <2>5, <2>6, <2>7 DEF WithCondition
  <2>9. ReadItem(Single(c)) BY <2>4, SingleIsRead
  <2>10. ASSUME i \in DOMAIN items, dialog.at \in DOMAIN item.conditions
         PROVE  ReadItem([item EXCEPT !.conditions = cs])
    <3>1. ReadItem(item) BY <1>5, <2>6, <2>10
    <3>2. IsList(cs) /\ ToSet(cs) \subseteq ToSet(item.conditions) \cup {c}
      BY <2>7, <2>10, <3>1, ReplacedIsList DEF ReadItem, ReadConditions
    <3>3. ReadConditions(cs) BY <2>4, <3>1, <3>2 DEF ReadItem, ReadConditions
    <3> QED BY <3>1, <3>3, ChangedItem
  <2>11. ReadItems(new) BY <1>3, <1>5, <2>8, <2>9, <2>10
  <2> QED BY <1>4, <2>3, <2>11
<1> QED BY <1>6, <1>7, <1>8, <1>9, <1>10

\* Every step of a session that is alone and loses nothing keeps what it saves.
QuietSaved == others \in Nat /\ failures \in Nat /\ (Quiet => Saved)
LEMMA NextSaves ==
  ASSUME NotFunctions, NormalRow, QuietSaved, [DatasetNext]_datasetVars
  PROVE  QuietSaved'
<1>1. CASE UNCHANGED datasetVars
  <2>1. UNCHANGED <<schema, row, listing, draft, snapshot, page, known, others, failures>>
    BY <1>1 DEF datasetVars, serverVars, cacheVars, pageVars
  <2>2. Saved => Saved' BY <2>1, IdleSaves
  <2> QED BY <2>1, <2>2 DEF QuietSaved, Quiet
<1>2. ASSUME Other PROVE QuietSaved'
  <2>1. others' = others + 1 /\ failures' = failures BY <1>2 DEF Other
  <2> QED BY <2>1 DEF QuietSaved, Quiet
<1>3. ASSUME NEW lost \in Losses, DatasetClick(lost) PROVE QuietSaved'
  <2>1. Click(lost)
    BY <1>3 DEF DatasetClick, AddDataset, EditDataset, DeleteDataset, TogglePreview, OpenPerimeter,
       Back, SetColumns, SetParameters, SetLogic, AddCondition, AddGroup, DeleteItem,
       DeleteGroupCondition, OpenEdit, CancelEdit, SaveEdit, SaveSort, RemoveSort,
       RefreshPreview, Editing
  <2>2. /\ others' = others /\ schema' = schema
        /\ failures' = failures + (IF lost = "none" THEN 0 ELSE 1)
    BY <2>1 DEF Click
  <2>3. others' \in Nat /\ failures' \in Nat /\ (Quiet' => Quiet /\ lost = "none")
    BY <2>2 DEF QuietSaved, Quiet
  <2>4. SUFFICES ASSUME Saved, DatasetClick("none") PROVE Saved'
    BY <1>3, <2>3 DEF QuietSaved
  <2>5. ASSUME NEW t \in Tables,
               AddDataset(t, "none") \/ EditDataset(t, "none")
        PROVE  Saved'
    BY <2>2, <2>4, <2>5, ListClickSaves
  <2>6. ASSUME DeleteDataset("none") \/ TogglePreview("none") PROVE Saved'
    <3>1. table \in Tables BY <2>4, <2>6 DEF Saved, Served, table, DeleteDataset, TogglePreview
    <3> QED BY <2>2, <2>4, <2>6, <3>1, ListClickSaves
  <2>7. ASSUME OpenPerimeter("none") PROVE Saved'
    <3>1. CASE Available = {}
      BY <2>2, <2>4, <2>7, <3>1, IdleSaves DEF OpenPerimeter
    <3>2. CASE Available # {}
      <4>1. listing.state = "stored" /\ Render(draft[table], preview, "none")
        BY <2>7, <3>2 DEF OpenPerimeter
      <4>2. table \in Tables BY <2>4, <4>1, AvailableIs DEF Saved
      <4>3. /\ KeysOf(draft[table], Schema[table])
            /\ NoSnapshot => FirstKeys(draft[table], row.perimeter)
        BY <2>4, <4>2 DEF Saved, KeysKept, FirstPages
      <4> QED BY <2>2, <2>4, <4>1, <4>3, RenderSaves
    <3> QED BY <3>1, <3>2
  <2>8. ASSUME Back("none") PROVE Saved' BY <2>2, <2>4, <2>8, BackSaves
  <2>9. ASSUME \/ \E columns \in TypedColumns : SetColumns(columns, "none")
               \/ \E rows \in TypedRows : SetParameters(rows, "none")
        PROVE  Saved'
    BY <2>4, <2>9, FirstTabsSave
  <2>10. ASSUME \/ \E c \in TypedConditions : AddCondition(c, "none") \/ SaveEdit(c, "none")
                \/ \E conditions \in TypedGroups : AddGroup("OR", conditions, "none")
                \/ \E i \in 1..2 : DeleteItem(i, "none")
                \/ \E i \in 1..2, j \in 0..2 : DeleteGroupCondition(i, j, "none")
         PROVE  Saved'
    BY <2>4, <2>10, FiltersSave
  <2>11. ASSUME \/ \E logic \in Logics : SetLogic(logic, "none")
                \/ \E s \in TypedSorts : SaveSort(s, "none")
                \/ \E i \in 1..2 : RemoveSort(i, "none")
         PROVE  Saved'
    <3>1. Editing("none") /\ Unbroken BY <2>11 DEF SetLogic, SaveSort, RemoveSort
    <3>2. PICK new : \/ Render([draft[table] EXCEPT !.logic = new], preview, "none")
                     \/ Render([draft[table] EXCEPT !.sort = new], preview, "none")
      BY <2>11 DEF SetLogic, SaveSort, RemoveSort
    <3> QED BY <2>4, <3>1, <3>2, LaterTabsSave
  <2>12. ASSUME \/ \E i \in 1..2, j \in 0..2 : OpenEdit(i, j, "none")
                \/ CancelEdit("none") \/ RefreshPreview("none")
         PROVE  Saved'
    <3>1. Editing("none") /\ \E cached : Render(draft[table], cached, "none")
      BY <2>12 DEF OpenEdit, CancelEdit, RefreshPreview
    <3> QED BY <2>4, <3>1, SameKeysSave
  <2> QED BY <2>4, <2>5, <2>6, <2>7, <2>8, <2>9, <2>10, <2>11, <2>12 DEF DatasetClick
<1> QED BY <1>1, <1>2, <1>3 DEF DatasetNext, OtherUpdate, OtherDelete, DropColumn

\* A session that opens has no snapshot and no keys.
LEMMA InitSaved == DatasetInit => QuietSaved
<1> SUFFICES ASSUME DatasetInit PROVE QuietSaved OBVIOUS
<1>1. /\ schema = Schema /\ listing = row /\ page = "list"
      /\ known = [t \in Tables |-> Null] /\ draft = [t \in Tables |-> NoKeys]
      /\ snapshot = [t \in Tables |-> Null] /\ others = 0 /\ failures = 0
  BY DEF DatasetInit
<1>2. KeysOf(NoKeys, {}) /\ NoKeys.columns = Null /\ NoKeys.items = Null
  BY DEF KeysOf, NoKeys, KeyNames
<1>3. Served
  <2>1. NoRow.state = "none" /\ NoRow.perimeter = Null BY DEF NoRow
  <2>2. \/ row = NoRow
        \/ \E t \in Tables, p \in ApiPerimeters :
             row = [state |-> "stored", table |-> t, perimeter |-> Normalize(p), version |-> 0]
    BY DEF DatasetInit
  <2>3. row = NoRow \/ (row.state = "stored" /\ row.table \in Tables) BY <2>2
  <2> QED BY <1>1, <2>1, <2>3 DEF Served
<1>4. KeysKept
  <2>1. \A t \in Tables : KeysOf(NoKeys, Schema[t]) BY <1>2 DEF KeysOf
  <2> QED BY <1>1, <2>1 DEF KeysKept
<1>5. Opened /\ PageSaved BY <1>1 DEF Opened, PageSaved
<1>6. FirstPages BY <1>1, <1>2 DEF FirstPages, FirstKeys
<1>7. SnapshotsSaved BY <1>1 DEF SnapshotsSaved
<1> QED BY <1>1, <1>3, <1>4, <1>5, <1>6, <1>7 DEF QuietSaved, Saved

\* What a session alone shows is saved: a page shows the payload it would show if it
\* were opened anew (_autosave_perimeter), except one the server refuses and the
\* empty one (PageIsSaved).
THEOREM PageIsSavedCorrect ==
  ASSUME NotFunctions
  PROVE  DatasetSpec => []PageIsSaved
<1>1. QuietSaved => PageIsSaved
  <2>1. SUFFICES ASSUME QuietSaved, page = "perimeter", listing.state = "stored", Available # {},
                        others = 0, failures = 0, OnlyPage(table), snapshot[table] # Null, Unbroken
                 PROVE  \E p \in {BuildPayload(draft[table])} :
                          p = Null \/ Normalize(p) \in {Invalid, Normalize(FreshPayload)}
    BY DEF PageIsSaved, OnlyPage
  <2>2. Saved BY <2>1 DEF QuietSaved, Quiet
  <2>3. SavedIn(BuildPayload(draft[table]), table, row.perimeter)
    BY <2>1, <2>2 DEF Saved, PageSaved, DraftSaved, Unbroken
  <2>4. Available = Schema[table] /\ listing = row BY <2>1, <2>2, AvailableIs DEF Saved
  <2>5. FreshPayload = PagePayload(row.perimeter, Schema[table]) BY <2>4, FreshPayloadIs
  <2> QED BY <2>3, <2>5 DEF SavedIn
<1>2. QuietSaved /\ NormalRow /\ [DatasetNext]_datasetVars => QuietSaved'
  BY NextSaves
<1> QED BY <1>1, <1>2, InitSaved, NormalHolds, PTL DEF DatasetSpec
==============================================================================
