----------------------------- MODULE SuiteEditor -----------------------------
(***************************************************************************)
(* The editor of a test suite, and the API that stores what it sends.      *)
(*                                                                         *)
(* The API keeps references to constants by definition id; the editor      *)
(* shows them by path and finds the ids again when it saves.  Opening a    *)
(* suite hydrates the configurations (id -> path), saving serializes them  *)
(* (path -> id), and every save is followed by opening what was stored.    *)
(*                                                                         *)
(* A suite is a sequence of items, the four hooks and then the tests; an   *)
(* item is a list of rows [order, cfg], and a hook that is absent has no   *)
(* rows.  A path "$.scope.constants.name" is [root, leaf].  Definition ids *)
(* are numbers, so that a new uuid is one above those in use.  Hooks are   *)
(* read only: the page of the hooks looks for them under names the draft   *)
(* does not have.                                                          *)
(***************************************************************************)
EXTENDS ConstantPlanner

CONSTANTS Suites,     \* suites the API may hold when the editor opens
          Forms,      \* command forms a user may fill in
          JsonEdits,  \* configurations a user may type as JSON
          MaxEdits, MaxTests, MaxLosses

VARIABLES suite,      \* the rows in the database
          shown,      \* the draft in the session
          sent,       \* what a user saw of the draft it comes from, Null after an error
          edits, losses

editorVars == <<suite, shown, sent, edits, losses>>

HookSections == <<"beforeAll", "beforeEach", "afterEach", "afterAll">>
Section(i) == IF i \in DOMAIN HookSections THEN HookSections[i] ELSE "test"
Tests(s) == Len(HookSections) + 1..Len(s)
\* The item whose constants an item starts with; the first starts with none.
StartsFrom(i) == CASE i = 1 -> 0 [] i \in {2, 4} -> 1 [] OTHER -> 2
Path(scope, name) == [root |-> scope, leaf |-> name]
With(cfg, key, value) == (key :> value) @@ cfg
Without(cfg, key) == [k \in DOMAIN cfg \ {key} |-> cfg[k]]
SourceCodes == {"sendMessageQueue", "saveTable", "exportDataset"}

------------------------------------------------------------------------------
(* The draft mapper's definitions: a sequence, in the order of a dict.      *)

DefinitionFromInit(cfg, order) ==
  IF cfg.commandCode # "initConstant" \/ Get(cfg, "definitionId") = Null THEN <<>>
  ELSE <<[id |-> cfg.definitionId, name |-> cfg.name, scope |-> cfg.context,
          order |-> order, deletedAt |-> Null]>>
DefinitionFromResult(cfg, order) ==
  IF Get(cfg, "resultConstant") = Null THEN <<>>
  ELSE <<[id |-> cfg.resultConstant.definitionId, name |-> cfg.resultConstant.name,
          scope |-> "result", order |-> order, deletedAt |-> Null]>>

\* Mutant: the constants of a hook keep the orders they had in the hook.
KeepsOrders(defs) == SelectSeq(defs, Live)
CarryOverDefinitions(defs) ==
  LET live == SelectSeq(defs, Live)
  IN  [i \in DOMAIN live |-> [live[i] EXCEPT !.order = 0]]

\* Indices of the definitions a command may refer to.
VisibleDefinitions(defs, section, order) ==
  {i \in DOMAIN defs : /\ defs[i].scope \in ReadableScopes(section)
                       /\ defs[i].order < order
                       /\ Live(defs[i]) \/ defs[i].deletedAt > order}
\* The last of some definitions sorted by order; Null where there is none.
LastOf(defs, found) ==
  IF found = {} THEN Null
  ELSE defs[CHOOSE i \in found : \A j \in found \ {i} :
              defs[j].order < defs[i].order \/ (defs[j].order = defs[i].order /\ j < i)]
FindByPath(defs, section, order, path) ==
  IF path = Null THEN Null
  ELSE LastOf(defs, {i \in VisibleDefinitions(defs, section, order) :
                       defs[i].scope = path.root /\ defs[i].name = path.leaf})
FindById(defs, section, order, id) ==
  LastOf(defs, {i \in VisibleDefinitions(defs, section, order) : defs[i].id = id})
\* A name alone: the scopes in the order of _find_definition_by_name.
FindByName(defs, section, order, name) ==
  LET at(scope) == FindByPath(defs, section, order, Path(scope, name))
  IN  Or(Or(Or(at("local"), at("global")), at("runEnvelope")), at("result"))

DefinitionPath(def) == Path(def.scope, def.name)
RefTo(def) == [definitionId |-> def.id]
RefId(ref) == IF ref = Null THEN Null ELSE ref.definitionId

------------------------------------------------------------------------------
(* Hydration: from the stored configuration to the one that is shown.       *)

\* The keys a configuration gains; `found` is the definition of a reference.
NoNewKeys == [k \in {} |-> Null]
PathKey(cfg, ref, key, found) ==
  IF Get(cfg, ref) = Null \/ Get(cfg, key) # Null \/ found = Null THEN NoNewKeys
  ELSE key :> DefinitionPath(found)
TargetKeys(cfg, found) ==
  IF cfg.commandCode # "deleteConstant" \/ found = Null THEN NoNewKeys
  ELSE [k \in {"name", "context"} \ DOMAIN cfg |-> IF k = "name" THEN found.name ELSE found.scope]
NamesKey(cfg, found) ==
  IF found = {} \/ Get(cfg, "constants") # Null THEN NoNewKeys
  ELSE "constants" :> {d.name : d \in found}
\* Mutant: the name of the result constant is not shown.
HidesResult(cfg) == NoNewKeys
ResultKey(cfg) ==
  IF Get(cfg, "resultConstant") = Null \/ Get(cfg, "result_target") # Null THEN NoNewKeys
  ELSE "result_target" :> Path("result", cfg.resultConstant.name)
HydrateBinding(b, found) ==
  IF b.kind # "constant_ref" \/ found = Null THEN b
  ELSE [kind |-> "constant_path", path |-> DefinitionPath(found)]
HydrateCfg(cfg, defs, section, order) ==
  LET byId(id) == FindById(defs, section, order, id)
      byRef(ref) == byId(RefId(Get(cfg, ref)))
      parameters == Get(cfg, "parameters")
  IN  (IF parameters = Null THEN NoNewKeys
       ELSE "parameters" :> [p \in DOMAIN parameters |->
              HydrateBinding(parameters[p], byId(Get(parameters[p], "definitionId")))])
      @@ TargetKeys(cfg, byRef("targetConstantRef"))
      @@ PathKey(cfg, "sourceConstantRef", "source", byRef("sourceConstantRef"))
      @@ PathKey(cfg, "actualConstantRef", "actual", byRef("actualConstantRef"))
      @@ NamesKey(cfg, {byId(r.definitionId) : r \in Or(Get(cfg, "constantRefs"), {})} \ {Null})
      @@ ResultKey(cfg) @@ cfg

------------------------------------------------------------------------------
(* Serialization: from the shown configuration to the one that is sent.     *)

\* A reference that is shown by its path is looked up again, or dropped.
Rebind(cfg, ref, found) ==
  IF found = Null THEN Without(cfg, ref) ELSE With(cfg, ref, RefTo(found))
SerializeBinding(b, found) ==
  IF b.kind # "constant_path" \/ found = Null THEN b
  ELSE [kind |-> "constant_ref", definitionId |-> found.id]
SerializeInit(cfg, new, bindings) ==
  LET named == With(cfg, "definitionId", Or(Get(cfg, "definitionId"), new))
  IN  IF bindings = Null THEN named ELSE With(named, "parameters", bindings)
\* A result target outside "$.result.constants" declares nothing.
SerializeResult(cfg, new) ==
  LET target == Get(cfg, "result_target")
  IN  IF Get(cfg, "resultConstant") # Null \/ target = Null THEN cfg
      ELSE IF target.root # "result" THEN cfg
      ELSE With(cfg, "resultConstant",
                [definitionId |-> new, name |-> target.leaf, valueType |-> "json"])
SerializeCfg(cfg, defs, section, order, new) ==
  LET byPath(path) == FindByPath(defs, section, order, path)
      code == cfg.commandCode
      parameters == Get(cfg, "parameters")
      bindings == IF parameters = Null THEN Null
                  ELSE [p \in DOMAIN parameters |->
                          SerializeBinding(parameters[p], byPath(Get(parameters[p], "path")))]
      refs == {FindByName(defs, section, order, n) : n \in Or(Get(cfg, "constants"), {})} \ {Null}
      bound ==
        CASE code = "initConstant" -> SerializeInit(cfg, new, bindings)
          [] code = "deleteConstant" ->
               Rebind(cfg, "targetConstantRef", byPath(Path(Get(cfg, "context"), Get(cfg, "name"))))
          [] code \in SourceCodes -> Rebind(cfg, "sourceConstantRef", byPath(Get(cfg, "source")))
          [] code \in AssertCodes -> Rebind(cfg, "actualConstantRef", byPath(Get(cfg, "actual")))
          [] code = "runSuite" -> IF refs = {} THEN Without(cfg, "constantRefs")
                                  ELSE With(cfg, "constantRefs", {RefTo(d) : d \in refs})
          [] OTHER -> cfg
  IN  SerializeResult(bound, new)

\* What a command does to the definitions of the commands after it.
PutDefinition(defs, def) ==
  IF \E i \in DOMAIN defs : defs[i].id = def.id
  THEN [i \in DOMAIN defs |-> IF defs[i].id = def.id THEN def ELSE defs[i]]
  ELSE Append(defs, def)
AfterCommand(defs, cfg, order) ==
  IF cfg.commandCode = "deleteConstant"
  THEN [i \in DOMAIN defs |-> IF defs[i].id = RefId(Get(cfg, "targetConstantRef"))
                              THEN [defs[i] EXCEPT !.deletedAt = order] ELSE defs[i]]
  ELSE FoldLeft(PutDefinition, defs,
                DefinitionFromInit(cfg, order) \o DefinitionFromResult(cfg, order))

------------------------------------------------------------------------------
(* A whole suite, in either direction: `opens` says which; the items are    *)
(* walked as the planner does, and `new` is an id nobody has.               *)

MapCfg(opens, cfg, defs, section, order, new) ==
  IF opens THEN HydrateCfg(cfg, defs, section, order) ELSE SerializeCfg(cfg, defs, section, order, new)
Mapped(done, row, cfg) ==
  [rows |-> Append(done.rows, [row EXCEPT !.cfg = cfg]),
   defs |-> AfterCommand(done.defs, cfg, row.order)]
MapItem(opens, rows, section, initial, last) ==
  FoldLeftDomain(LAMBDA done, n : Mapped(done, rows[n],
                   MapCfg(opens, rows[n].cfg, done.defs, section, rows[n].order, last + n)),
                 [rows |-> <<>>, defs |-> CarryOverDefinitions(initial)], rows)
\* [rows, defs] of every item; an item comes after the one it starts from.
MapSuite(opens, s, last) ==
  FoldLeftDomain(LAMBDA done, i : Append(done,
                   MapItem(opens, s[i], Section(i),
                           IF i = 1 THEN <<>> ELSE done[StartsFrom(i)].defs, last + 10 * i)),
                 <<>>, s)
RowsOf(mapped) == [i \in DOMAIN mapped |-> mapped[i].rows]

\* build_test_suite_draft and draft_to_test_suite_payload.  A new id is above
\* all those in the draft.
Build(s) == RowsOf(MapSuite(TRUE, s, 0))
IdsOf(cfg) == {Get(cfg, "definitionId"), RefId(Get(cfg, "resultConstant"))} \ {Null}
LastId(s) == Max({0} \cup UNION {UNION {IdsOf(row.cfg) : row \in Range(s[i])} : i \in DOMAIN s})
PayloadAbove(s, last) == RowsOf(MapSuite(FALSE, s, last))
Payload(s) == PayloadAbove(s, LastId(s))

------------------------------------------------------------------------------
(* The API: PUT /test-suite validates the graph, replaces all the rows and  *)
(* plans the constants again from the rows.                                 *)

PlanItems(s) ==
  FoldLeftDomain(LAMBDA done, i : Append(done,
                   PlanRows(s[i], Section(i), IF i = 1 THEN NoDefinitions ELSE done[StartsFrom(i)].defs)),
                 <<>>, s)
AllOk(plans) == \A i \in DOMAIN plans : plans[i].ok
PlanOk(s) == AllOk(PlanItems(s))

ConvertRows(rows) == [n \in DOMAIN rows |-> [rows[n] EXCEPT !.cfg = Convert(@)]]
ConvertSuite(s) == [i \in DOMAIN s |-> ConvertRows(s[i])]
\* Rows come back sorted by their order alone, and the planner sorts those that
\* share an order by random ids: such rows come in any order.
Readings(rows) ==
  {[n \in DOMAIN rows |-> rows[p[n]]] :
     p \in {q \in [DOMAIN rows -> DOMAIN rows] :
              /\ IsInjective(q)
              /\ \A m, n \in DOMAIN rows : m < n => rows[q[m]].order <= rows[q[n]].order}}
SharesOrder(rows) == \E m, n \in DOMAIN rows : m # n /\ rows[m].order = rows[n].order
ReadRows(rows) == IF SharesOrder(rows) THEN Readings(rows)
                  ELSE {[n \in DOMAIN rows |-> rows[InOrder(rows)[n]]]}
Read(s) ==
  FoldLeft(LAMBDA read, rows : {Append(r[1], r[2]) : r \in read \X ReadRows(rows)}, {<<>>}, s)

------------------------------------------------------------------------------
(* The constants the forms offer.                                           *)

\* One command's effect on the list of a form; cfg is a shown configuration.
OfferAfter(offers, cfg) ==
  LET same == {i \in DOMAIN offers : /\ offers[i].path.leaf = Get(cfg, "name")
                                     /\ offers[i].path.root = Get(cfg, "context")}
      init == IF cfg.commandCode = "initConstant"
              THEN <<[path |-> Path(cfg.context, cfg.name), type |-> cfg.sourceType]>> ELSE <<>>
      target == Get(cfg, "result_target")
      result == IF Get(cfg, "resultConstant") # Null
                THEN <<[path |-> Path("result", cfg.resultConstant.name),
                        type |-> cfg.resultConstant.valueType]>>
                ELSE IF target = Null THEN <<>>
                ELSE IF target.root = "result" THEN <<[path |-> target, type |-> "json"]>> ELSE <<>>
  IN  IF cfg.commandCode = "deleteConstant"
      THEN IF same = {} THEN offers ELSE RemoveAt(offers, Max(same))
      ELSE offers \o init \o result
\* Mutant: the form of a test starts from the before-all hook alone.
SkipsBeforeEach(s, t, stop) ==
  FoldLeft(LAMBDA offers, row : OfferAfter(offers, row.cfg), <<>>,
           s[1] \o SubSeq(s[t], 1, stop))
Collected(s, t, stop) ==
  FoldLeft(LAMBDA offers, row : OfferAfter(offers, row.cfg), <<>>,
           s[1] \o s[2] \o SubSeq(s[t], 1, stop))

SourceCompatibility ==
  [c \in {"sendMessageQueue"} |-> {"raw", "json", "jsonArray", "dataset"}]
  @@ [c \in {"saveTable", "exportDataset"} |-> {"json", "jsonArray", "dataset"}]
  @@ [c \in {"jsonEquals", "jsonEmpty", "jsonNotEmpty", "jsonContains"} |-> {"json"}]
  @@ [c \in {"jsonArrayEquals", "jsonArrayEmpty", "jsonArrayNotEmpty", "jsonArrayContains"} |->
        {"jsonArray"}]
\* One option a path, the last; then those whose type suits the command.
Options(offers, code) ==
  {offers[i].path : i \in {j \in DOMAIN offers :
     /\ \A k \in j + 1..Len(offers) : offers[k].path # offers[j].path
     /\ offers[j].path.root \in ReadableScopes("test")
     /\ offers[j].type \in SourceCompatibility[code]}}
Offered(s, t, stop, code) == Options(Collected(s, t, stop), code)

------------------------------------------------------------------------------
(* Forms and saves.                                                         *)

\* What _build_test_command_draft insists on.
InitNeeds(type) ==
  CASE type = "jsonArray" -> {"json_array_id"} [] type = "dataset" -> {"dataset_id"}
    [] type = "sqsQueue" -> {"queue_id"} [] OTHER -> {}
AssertNeeds(code) ==
  CASE code = "jsonEquals" -> {"expected"} [] code = "jsonContains" -> {"expected", "compare_keys"}
    [] code \in {"jsonArrayEquals", "jsonArrayContains"} -> {"expected_json_array_id", "compare_keys"}
    [] OTHER -> {}
Needs(form) ==
  CASE form.commandCode = "initConstant" -> {"name"} \cup InitNeeds(form.sourceType)
    [] form.commandCode = "sendMessageQueue" -> {"queue_id", "source"}
    [] form.commandCode = "saveTable" -> {"table_name", "source"}
    [] form.commandCode = "exportDataset" -> {"connection_id", "table_name", "source"}
    [] form.commandCode \in {"dropTable", "cleanTable"} -> {"table_name"}
    [] form.commandCode \in {"dropDataset", "cleanDataset"} -> {"dataset_id"}
    [] OTHER -> {"actual"} \cup AssertNeeds(form.commandCode)
TypedCodes == {"initConstant", "dropTable", "cleanTable", "dropDataset", "cleanDataset"}
                \cup SourceCodes \cup AssertCodes
\* A variable is picked from a list: the command's own, and for the parameters
\* of a dataset those of type json.
Pickable(form, s, t, stop) ==
  /\ \A key \in {"source", "actual"} :
       Get(form, key) # Null => form[key] \in Offered(s, t, stop, form.commandCode)
  /\ Get(form, "parameters") # Null =>
       \A p \in DOMAIN form.parameters :
         form.parameters[p].kind = "constant_path" =>
           form.parameters[p].path \in Offered(s, t, stop, "jsonEquals")
Complete(form, s, t, stop) ==
  /\ form.commandCode \in TypedCodes
  /\ \A key \in Needs(form) : Get(form, key) # Null
  /\ Pickable(form, s, t, stop)

\* What a user sees of a command, and of a suite; a result target outside the
\* result scope declares nothing.
SeenRow(row) ==
  [order |-> row.order,
   result |-> IF Get(row.cfg, "result_target") = Null THEN Null
              ELSE IF row.cfg.result_target.root # "result" THEN Null ELSE row.cfg.result_target]
  @@ [key \in {"commandCode", "name", "context", "source", "actual", "parameters"} |->
        Get(row.cfg, key)]
SeenTests(s) == [t \in Tests(s) |-> {SeenRow(row) : row \in Range(s[t])}]

\* What the session is left with when a save raises: some handlers put the
\* draft back, the others leave the changed one.
LeaveDraft(d, restores) ==
  IF restores THEN UNCHANGED <<shown, sent>> ELSE shown' = d /\ sent' = Null
Lose == losses < MaxLosses /\ losses' = losses + 1

Refuse(d, restores) == LeaveDraft(d, restores) /\ UNCHANGED <<suite, losses>>
\* The rows are in place; the draft is loaded again, unless that call fails.
Reload(d, restores) ==
  \/ \E back \in Read(suite') : shown' = Build(back) /\ sent' = SeenTests(d) /\ UNCHANGED losses
  \/ Lose /\ shown' = (IF restores THEN shown ELSE d) /\ sent' = Null
Store(p, d, restores) ==
  \E rows \in Read(ConvertSuite(p)) :
    IF PlanOk(rows) THEN suite' = rows /\ Reload(d, restores) ELSE Refuse(d, restores)
\* _persist_current_draft.
Persist(d, restores) ==
  /\ edits < MaxEdits /\ edits' = edits + 1
  /\ \/ \E p \in Read(Payload(d)) : IF PlanOk(p) THEN Store(p, d, restores) ELSE Refuse(d, restores)
     \/ Lose /\ LeaveDraft(d, restores) /\ UNCHANGED suite

\* The handlers: the drafts each may send, and whether it puts the old one back.
Change(d, restores) == [draft |-> d, restores |-> restores]
AppendRow(rows, cfg) == Append(rows, [order |-> Len(rows) + 1, cfg |-> cfg])
AddCommand(t) ==
  {Change([shown EXCEPT ![t] = AppendRow(@, form)], FALSE) :
     form \in {f \in Forms : Complete(f, shown, t, Len(shown[t]))}}
\* Bindings are read from the keys of the dialog that adds a command: an
\* edited constant has none.
EditCommand(t, n) ==
  {Change([shown EXCEPT ![t][n].cfg = Without(form, "parameters")], TRUE) :
     form \in {f \in Forms : /\ f.commandCode = shown[t][n].cfg.commandCode
                             /\ Complete(f, shown, t, n - 1)}}
EditJson(t, n) ==
  {Change([shown EXCEPT ![t][n].cfg = cfg], TRUE) :
     cfg \in {c \in JsonEdits : shown[t][n].cfg.commandCode \notin TypedCodes}}
DeleteCommand(t, n) == Change([shown EXCEPT ![t] = RemoveAt(@, n)], FALSE)

Resequence(rows) == [n \in DOMAIN rows |-> [rows[n] EXCEPT !.order = n]]
Swap(rows, n) == [rows EXCEPT ![n] = rows[n + 1], ![n + 1] = rows[n]]
MoveDown(t, n) == Change([shown EXCEPT ![t] = Resequence(Swap(@, n))], TRUE)

AddTest == {Change(Append(shown, <<>>), TRUE) : k \in {j \in {1} : Cardinality(Tests(shown)) < MaxTests}}
DeleteTest(t) == Change(RemoveAt(shown, t), FALSE)

TestChanges(t) ==
  AddCommand(t) \cup {DeleteTest(t)}
    \cup UNION {EditCommand(t, n) \cup EditJson(t, n) \cup {DeleteCommand(t, n)} : n \in DOMAIN shown[t]}
    \cup {MoveDown(t, n) : n \in 1..Len(shown[t]) - 1}
Edit == \E change \in AddTest \cup UNION {TestChanges(t) : t \in Tests(shown)} :
          Persist(change.draft, change.restores)
\* Another suite is selected and this one again.
Reopen == /\ \E back \in Read(suite) : shown' = Build(back) /\ sent' = SeenTests(Build(back))
          /\ UNCHANGED <<suite, edits, losses>>

EditorInit ==
  /\ suite \in Suites
  /\ shown = Build(suite) /\ sent = SeenTests(shown)
  /\ edits = 0 /\ losses = 0
EditorNext == Edit \/ Reopen
EditorSpec == EditorInit /\ [][EditorNext]_editorVars

------------------------------------------------------------------------------
(* Properties.                                                              *)

\* A runSuite command is shown and sent by names alone: where two constants
\* share the name it may be sent with the other one.
ByName(cfg) == cfg.commandCode = "runSuite"
SameRows(before, after) ==
  \A n \in DOMAIN before : ByName(before[n].cfg) \/ after[n] = before[n]
KeepsAll(before, after) ==
  \A i \in {j \in DOMAIN before : before[j] # <<>> /\ ~SharesOrder(before[j])} :
    SameRows(before[i], after[i])
\* Opening a stored suite and saving it at once stores every command as it
\* was: the ids that become paths become the same ids again, whatever was
\* renamed, deleted or moved before (draft_mapper).  Not so for a test with
\* rows that share an order, which may come back in another order.
OpeningKeepsRefs == KeepsAll(suite, ConvertSuite(Payload(Build(suite))))

\* The orders of the rows are their positions.
InSequence(rows) == \A n \in DOMAIN rows : rows[n].order = n
\* What the mapper, and what the planner, know before row n of a test.
UpTo(s, t, n) == [s EXCEPT ![t] = SubSeq(@, 1, n - 1)]
EditorKnows(s, t, n) == MapSuite(TRUE, UpTo(s, t, n), 0)[t].defs
PlannerKnows(s, t, n) == PlanItems(UpTo(s, t, n))[t].defs
OfferHolds(path, code, n, known, planned) ==
  \E def \in {FindByPath(known, "test", n, path)} :
    /\ def # Null
    /\ def.id \in Active(planned, ReadableScopes("test"), n)
    /\ planned[def.id].type \in TypeCompatibility[code]
\* Every variable a form offers, for a new command or for one that is edited,
\* is found again when the command is saved and is accepted by the planner of
\* the API, in a test whose rows have no gaps: the three walks over the suite
\* (the form's, the mapper's, the planner's) agree.
OffersAccepted ==
  sent # Null =>
    \A t \in Tests(suite) : \A n \in 1..Len(suite[t]) + 1 :
      InSequence(suite[t]) =>
        \E offers \in {Collected(shown, t, n - 1)},
           known \in {EditorKnows(suite, t, n)}, planned \in {PlannerKnows(suite, t, n)} :
          \A code \in DOMAIN SourceCompatibility :
            \A path \in Options(offers, code) : OfferHolds(path, code, n, known, planned)

\* After a save that succeeded the editor shows the suite the user saved: every
\* variable under the name it was picked by, every result constant, every
\* binding.  Not covered: a result target outside the result scope, which is
\* dropped, the names of a runSuite command, and rows that share an order.
SavedIsShown ==
  sent # Null =>
    /\ DOMAIN sent = Tests(shown)
    /\ \A t \in Tests(shown) : SharesOrder(shown[t]) \/ sent[t] = SeenTests(shown)[t]
==============================================================================
