---------------------------- MODULE CommandRuntime ----------------------------
(***************************************************************************)
(* The life of a command: it is added to a suite or to a mock server, the  *)
(* owner is saved and its constant definitions are rebuilt, and the owner  *)
(* runs: every command is converted again, checked against the policy and  *)
(* executed on the run context and on the outside world.                   *)
(*                                                                         *)
(* A constant's value is the definition that wrote it, the iteration it    *)
(* was written in and its shape.  The order of the items, and what follows *)
(* a failed item, is that of SuiteExecution; items without commands are    *)
(* passed over.                                                            *)
(***************************************************************************)
EXTENDS ConstantPlanner

CONSTANTS TestItems,    \* the tests of the suite, in their order
          Offers,       \* the <<item, configuration>> pairs an editor may add
          MaxCommands,  \* bound: commands of an owner
          Foreign       \* definition ids another owner has stored

\* Tests are named apart from the hooks and from the sections of a mock server.
ASSUME TestsAssumption ==
  /\ TestItems \in Seq(Range(TestItems))
  /\ Range(TestItems) \cap (SuiteSections \cup MockSections) = {}
\* Where the API sends lists, none is None.
ListsGiven(c) ==
  /\ Get(c, "commandCode") = "runSuite" => Get(c, "constantRefs") # Null
  /\ Get(c, "message_template") # Null => Get(c, "message_template").constants # Null
ASSUME OffersAssumption ==
  \A offer \in Offers : Convert(offer[2]) # Invalid => ListsGiven(Convert(offer[2]))

VARIABLES
  owner,    \* "suite" or "mock"
  draft,    \* the mock server being composed: item -> configurations
  stored,   \* the saved commands: item -> configurations
  table,    \* command_constant_definitions: id -> definition with its owner
  at,       \* position in the run order, 0 when nothing runs
  next,     \* next command of the item
  cmd,      \* the command at hand, converted, or Null
  broken,   \* an item of this iteration failed
  scopes,   \* constants of runEnvelope, global and result
  local,    \* the local constants and the iteration they belong to
  data,     \* the data handed from command to command
  world,    \* tables, dataset, queue, started suites
  failed,   \* ghost: definitions whose declaration or deletion failed, was skipped
            \* or wrote nothing
  removed,  \* ghost: definitions removed by a deleteConstant, and at which position
  reads,    \* ghost: what the last command read, per definition
  verdict   \* ghost: outcome of the last command

editVars == <<owner, draft, stored, table>>
ctxVars == <<scopes, local, data>>
runVars == <<at, next, cmd, broken, ctxVars, world, failed, removed, reads, verdict>>
vars == <<editVars, runVars>>

------------------------------------------------------------------------------
(* Owners, items and the order of a run.                                   *)

SuiteItems == {"beforeAll", "beforeEach", "afterEach", "afterAll"} \cup Range(TestItems)
Items == IF owner = "suite" THEN SuiteItems ELSE MockSections
Section(item) == IF item \in Range(TestItems) THEN "test" ELSE item
Commands(owned) == FoldSet(LAMBDA i, n : n + Len(owned[i]), 0, DOMAIN owned)

Slot(item, iter) == [item |-> item, iter |-> iter]
\* before_all, three slots for every test, after_all.
SuiteOrder ==
  [n \in 1..3 * Len(TestItems) + 2 |->
     LET t == (n + 1) \div 3
     IN  CASE n = 1                       -> Slot("beforeAll", 0)
           [] n = 3 * Len(TestItems) + 2  -> Slot("afterAll", Len(TestItems) + 1)
           [] OTHER -> CASE n % 3 = 2 -> Slot("beforeEach", t)
                         [] n % 3 = 0 -> Slot(TestItems[t], t)
                         [] OTHER     -> Slot("afterEach", t)]
\* An API call runs the commands before and after its response; a message of a
\* bound queue those of the queue.
MockOrder == <<Slot("mock.preResponse", 0), Slot("mock.postResponse", 0)>>
QueueOrder == <<Slot("mock.queue", 0)>>
Order == IF owner = "suite" THEN SuiteOrder ELSE MockOrder \o QueueOrder
Here == Order[at]
Scope == ExecutionScope(Section(Here.item))

------------------------------------------------------------------------------
(* The run context.                                                        *)

NoConstants == [n \in {} |-> Null]
NoScopes == [s \in {"runEnvelope", "global", "result"} |-> NoConstants]
\* bind_suite_item_context: one dictionary per iteration.
Locals(iter) == IF local.iter = iter THEN local.constants ELSE NoConstants

Lookup(scope, name) ==
  LET constants == IF scope = "local" THEN Locals(Here.iter) ELSE scopes[scope]
  IN  IF name \in DOMAIN constants THEN constants[name] ELSE Null
\* Global and runEnvelope are immutable while a test runs.
Immutable(scope) == Section(Here.item) = "test" /\ scope \in {"global", "runEnvelope"}
Write(scope, name, value) ==
  IF scope = "local"
  THEN /\ local' = [iter |-> Here.iter, constants |-> (name :> value) @@ Locals(Here.iter)]
       /\ UNCHANGED scopes
  ELSE scopes' = [scopes EXCEPT ![scope] = (name :> value) @@ @] /\ UNCHANGED local
Without(constants, name) == [n \in DOMAIN constants \ {name} |-> constants[n]]
Erase(scope, name) ==
  IF scope = "local"
  THEN /\ local' = [iter |-> Here.iter, constants |-> Without(Locals(Here.iter), name)]
       /\ UNCHANGED scopes
  ELSE scopes' = [scopes EXCEPT ![scope] = Without(@, name)] /\ UNCHANGED local

\* resolve_definition_path and resolve_dynamic_value: an unresolved path stays
\* the text of the path, here Null.
Known(ids) == ids \subseteq DOMAIN table
Resolve(id) == Lookup(table[id].scope, table[id].name)
Val(v) == IF v = Null THEN "none" ELSE v.val
Rows(state) == IF state = "rows" THEN "list" ELSE "emptyList"
\* resolve_definition_input_data: a dataset constant stands for its rows.
InputData(id) ==
  IF Resolve(id) # Null /\ table[id].type = "dataset" THEN Rows(world.external)
  ELSE Val(Resolve(id))
InputLoads(id) ==
  Resolve(id) # Null /\ table[id].type = "dataset" =>
    Val(Resolve(id)) = "datasetId" /\ world.dataset /\ world.external # "absent"
\* coerce_rows yields at least one row.
HasRows(val) == val \in {"list", "object", "emptyObject"}

------------------------------------------------------------------------------
(* Saving.                                                                 *)

Owned(defs) == {d \in DOMAIN defs : defs[d].owner = "suite"}
\* Mutant: the definitions of the last save are not deleted.
KeepsOldRows(defs) == defs
\* delete_by_suite_id.
WithoutSuite(defs) == [d \in DOMAIN defs \ Owned(defs) |-> defs[d]]

Row(def, ownerKey) ==
  [owner |-> ownerKey, name |-> def.name, scope |-> def.scope, type |-> def.type]
\* Definitions are inserted under their definition id, the primary key.
Places(planned) == UNION {{i} \X DOMAIN planned[i] : i \in DOMAIN planned}
IdAt(planned, p) == planned[p[1]][p[2]].id
PlannedIds(planned) == {IdAt(planned, p) : p \in Places(planned)}
InsertsCleanly(defs, planned) ==
  /\ PlannedIds(planned) \cap DOMAIN defs = {}
  /\ \A p, q \in Places(planned) : IdAt(planned, p) = IdAt(planned, q) => p = q
Inserted(defs, planned, ownerKey) ==
  [d \in DOMAIN defs \cup PlannedIds(planned) |->
     IF d \in DOMAIN defs THEN defs[d]
     ELSE LET p == CHOOSE p \in Places(planned) : IdAt(planned, p) = d
          IN  Row(planned[p[1]][p[2]], ownerKey)]

SuiteAccepted(plan) == plan.ok /\ InsertsCleanly(WithoutSuite(table), plan.planned)
\* The new routes have new ids: rebuild_mock_constant_definitions deletes the
\* definitions of these, of which there are none.
MockAccepted(plan) == plan.ok /\ InsertsCleanly(table, plan.planned)

\* create or update of a test suite: the editor sends the suite with one more
\* command, and everything is replaced in one transaction or nothing is.  The
\* stored configuration is the dump of the converted one.
SaveSuite(item, raw) ==
  LET suite == [stored EXCEPT ![item] = Append(@, Convert(raw))]
  IN  /\ owner = "suite" /\ at = 0 /\ Commands(stored) < MaxCommands
      /\ Convert(raw) # Invalid
      /\ \E plan \in {PlanSuite(suite)} :
           /\ SuiteAccepted(plan)
           /\ table' = Inserted(WithoutSuite(table), plan.planned, "suite")
      /\ stored' = suite
      /\ UNCHANGED <<owner, draft, runVars>>

ComposeMock(item, raw) ==
  /\ owner = "mock" /\ at = 0 /\ Commands(draft) < MaxCommands
  /\ draft' = [draft EXCEPT ![item] = Append(@, raw)]
  /\ UNCHANGED <<owner, stored, table, runVars>>
ReloadMock ==
  /\ owner = "mock" /\ at = 0 /\ draft # stored
  /\ draft' = stored
  /\ UNCHANGED <<owner, stored, table, runVars>>
\* The editor reads back what it saved.
SaveMock ==
  /\ owner = "mock" /\ at = 0 /\ draft # stored
  /\ \E plan \in {PlanMock(draft)} :
       /\ MockAccepted(plan)
       /\ table' = Inserted(table, plan.planned, "mock")
  /\ stored' = Converted(draft) /\ draft' = stored'
  /\ UNCHANGED <<owner, runVars>>

------------------------------------------------------------------------------
(* Running.                                                                *)

Idle(n) == stored[Order[n].item] = <<>>
\* The next position from n on with commands to run, 0 at the end of the run.
Due(n, last) ==
  LET busy == {m \in n..last : ~Idle(m)} IN IF busy = {} THEN 0 ELSE Min(busy)
RunEnd == IF owner = "suite" \/ Here.item = "mock.queue" THEN Len(Order) ELSE Len(MockOrder)
NewWorld == [table |-> "absent", external |-> "rows", dataset |-> TRUE,
             queue |-> "ready", started |-> FALSE]
Fresh ==
  /\ next = 1 /\ cmd = Null /\ broken = FALSE /\ scopes = NoScopes
  /\ local = [iter |-> 0, constants |-> NoConstants] /\ data = "emptyList"
  /\ world = NewWorld /\ failed = {} /\ removed = {} /\ reads = {} /\ verdict = "none"
Reset ==
  /\ next' = 1 /\ cmd' = Null /\ broken' = FALSE /\ scopes' = NoScopes
  /\ local' = [iter |-> 0, constants |-> NoConstants] /\ data' = "emptyList"
  /\ world' = NewWorld /\ failed' = {} /\ removed' = {} /\ reads' = {} /\ verdict' = "none"

Init ==
  /\ owner \in {"suite", "mock"}
  /\ stored = [i \in Items |-> <<>>] /\ draft = stored
  /\ table = [d \in Foreign |-> [owner |-> "other", name |-> "n", scope |-> "global",
                                 type |-> "json"]]
  /\ at = 0 /\ Fresh

StartRun ==
  /\ at = 0
  /\ at' \in (IF owner = "suite" THEN {Due(1, Len(Order))}
              ELSE {Due(1, Len(MockOrder)), Due(Len(Order), Len(Order))}) \ {0}
  /\ Reset
  /\ UNCHANGED editVars

\* The item is over: what follows it.  A failed before_all leaves only
\* after_all, a failed pre-response command ends the request, and a failed
\* test may end the loop.
Following(fails) ==
  LET follower == Due(at + 1, RunEnd)
      end == Due(Len(Order), Len(Order))
      iterationOver == follower = 0 \/ Order[follower].iter # Here.iter
  IN  IF owner = "mock" THEN IF fails THEN {0} ELSE {follower}
      ELSE IF Here.item = "beforeAll" /\ fails THEN {end}
      ELSE IF iterationOver /\ (broken \/ fails) /\ at < Len(Order) THEN {follower, end}
      ELSE {follower}
Leave(fails) ==
  /\ at' \in Following(fails)
  /\ next' = 1 /\ cmd' = Null /\ data' = "emptyList"
  /\ broken' = (IF at' # 0 /\ Order[at'].iter = Here.iter THEN broken \/ fails ELSE FALSE)
Proceed(out) ==
  IF next < Len(stored[Here.item])
  THEN next' = next + 1 /\ cmd' = Null /\ data' = out /\ UNCHANGED <<at, broken>>
  ELSE Leave(FALSE)

DeclaredIds(cfg) == {n.id : n \in Declarations(cfg, Section(Here.item), next)}
PendingIds ==
  UNION {LET cfg == stored[Here.item][i] IN DeclaredIds(cfg) \cup TargetIds(cfg) :
           i \in next..Len(stored[Here.item])}

\* The command raises: the rest of the item is skipped.
Raise ==
  /\ failed' = failed \cup PendingIds
  /\ verdict' = "error"
  /\ Leave(TRUE)
  /\ UNCHANGED removed
\* The command returns with the data it hands on.
Return(out) ==
  /\ verdict' = "success"
  /\ Proceed(out)

Reading(ids) == reads' = {[id |-> d, got |-> Resolve(d)] : d \in ids}

\* execute_operations takes the next command and converts it.
TakeCommand ==
  /\ at # 0 /\ cmd = Null
  /\ cmd' = Convert(stored[Here.item][next])
  /\ reads' = {} /\ verdict' = "none"
  /\ UNCHANGED <<editVars, at, next, broken, ctxVars, world, failed, removed>>
Allowed == cmd # Null /\ PolicyAllows(cmd, Scope)
Running(code) == Allowed /\ cmd.commandCode = code
\* A refused command raises before it is executed.
Refused ==
  /\ cmd # Null /\ ~PolicyAllows(cmd, Scope)
  /\ Raise /\ reads' = {}
  /\ UNCHANGED <<editVars, scopes, local, world>>

\* _load_queue_messages polls until its retries are used up; what it received
\* is hidden from the next receiver.
Receives(cfg) == cfg.sourceType = "sqsQueue" /\ world.queue = "ready" /\ cfg.retry > 0
\* The outside world fails, or the definition of a reference is gone: nothing
\* has been done yet, except that messages with an unreadable body have been
\* received.
Fails ==
  /\ Allowed /\ cmd.commandCode \notin AssertCodes
  /\ Raise /\ reads' = {}
  /\ world' \in {world} \cup (IF cmd.commandCode = "initConstant" /\ Receives(cmd)
                              THEN {[world EXCEPT !.queue = "held"]} ELSE {})
  /\ UNCHANGED <<editVars, scopes, local>>

\* A write of `id`; afterwards its value is there again.
Store(id, scope, name, val) ==
  /\ Write(scope, name, [by |-> id, iter |-> Here.iter, val |-> val])
  /\ failed' = failed \ {id} /\ removed' = {r \in removed : r.id # id}
NoStore == UNCHANGED <<scopes, local, failed, removed>>
\* write_result_constant.
StoreResult(result) ==
  IF result = Null THEN NoStore
  ELSE /\ result.definitionId \in DOMAIN table
       /\ Store(result.definitionId, table[result.definitionId].scope,
                table[result.definitionId].name, "object")
\* saveTable and exportDataset without rows return before they write their
\* result constant.
ReturnsEarly(cfg, out) ==
  /\ failed' = failed \cup DeclaredIds(cfg)
  /\ UNCHANGED <<scopes, local, removed, world>>
  /\ Return(out)

ParameterRefs(cfg) ==
  IF cfg.parameters = Null THEN {}
  ELSE {cfg.parameters[p].definitionId :
          p \in {q \in DOMAIN cfg.parameters : cfg.parameters[q].kind = "constant_ref"}}
\* _load_value.
Loaded(cfg) ==
  CASE cfg.sourceType \in {"raw", "json"} -> {Or(cfg.value, "none")}
    [] cfg.sourceType = "jsonArray" -> {"list", "emptyList"}
    [] cfg.sourceType = "dataset" ->
         IF world.dataset /\ Known(ParameterRefs(cfg))
            /\ \A d \in ParameterRefs(cfg) : Resolve(d) # Null
         THEN {"datasetId"} ELSE {}
    [] cfg.sourceType = "sqsQueue" -> {IF Receives(cfg) THEN "list" ELSE "emptyList"}
InitConstant ==
  /\ Running("initConstant")
  /\ ~Immutable(cmd.context)
  /\ \E val \in Loaded(cmd) :
       /\ Store(cmd.definitionId, cmd.context, cmd.name, val)
       /\ Return(val)
  /\ world' = IF Receives(cmd) THEN [world EXCEPT !.queue = "held"] ELSE world
  /\ reads' = {} /\ UNCHANGED editVars

DeleteConstant ==
  LET id == cmd.targetConstantRef.definitionId
  IN  /\ Running("deleteConstant")
      /\ id \in DOMAIN table /\ ~Immutable(table[id].scope)
      /\ Erase(table[id].scope, table[id].name)
      /\ removed' = removed \cup {[id |-> id, at |-> at]}
      /\ Reading({id}) /\ Return(data)
      /\ UNCHANGED <<editVars, failed, world>>

Sleep ==
  /\ Running("sleep") /\ Return(data) /\ NoStore
  /\ reads' = {} /\ UNCHANGED <<editVars, world>>

\* build_send_message_payloads: whether there is a message to publish.
Publishes(template, val) ==
  IF template = Null THEN {val # "emptyList"}
  ELSE IF template.forEach # Null THEN BOOLEAN
  ELSE {val \notin {"emptyList"}}
SendMessageQueue ==
  LET id == cmd.sourceConstantRef.definitionId
  IN  /\ Running("sendMessageQueue")
      /\ id \in DOMAIN table /\ InputLoads(id)
      /\ \E some \in Publishes(cmd.message_template, InputData(id)) :
           world' = IF some THEN [world EXCEPT !.queue = "ready"] ELSE world
      /\ StoreResult(cmd.resultConstant)
      /\ Reading({id}) /\ Return(InputData(id))
      /\ UNCHANGED editVars

SaveTable ==
  LET id == cmd.sourceConstantRef.definitionId
  IN  /\ Running("saveTable")
      /\ id \in DOMAIN table /\ InputLoads(id)
      /\ Reading({id}) /\ UNCHANGED editVars
      /\ \/ /\ HasRows(InputData(id))
            /\ world' = [world EXCEPT !.table = "rows"]
            /\ StoreResult(cmd.resultConstant) /\ Return(InputData(id))
         \/ ~HasRows(InputData(id)) /\ ReturnsEarly(cmd, InputData(id))

DropTable ==
  /\ Running("dropTable")
  /\ world' = [world EXCEPT !.table = "absent"]
  /\ reads' = {} /\ Return(data) /\ NoStore /\ UNCHANGED editVars
\* DELETE FROM a table that is not there raises (Fails).
CleanTable ==
  /\ Running("cleanTable") /\ world.table # "absent"
  /\ world' = [world EXCEPT !.table = "empty"]
  /\ reads' = {} /\ Return(data) /\ NoStore /\ UNCHANGED editVars

ExportReady ==
  LET id == cmd.sourceConstantRef.definitionId
  IN  /\ Running("exportDataset")
      /\ id \in DOMAIN table /\ InputLoads(id)
      /\ cmd.connection_id # Null /\ cmd.table_name # Null
\* The table is written, and its dataset is updated (when it still exists) or
\* inserted.
ExportDataset ==
  LET id == cmd.sourceConstantRef.definitionId
  IN  /\ ExportReady
      /\ Reading({id}) /\ UNCHANGED editVars
      /\ \/ /\ HasRows(InputData(id))
            /\ world' = [world EXCEPT !.external = "rows",
                                      !.dataset = @ \/ cmd.dataset_id = Null]
            /\ StoreResult(cmd.resultConstant) /\ Return(InputData(id))
         \/ ~HasRows(InputData(id)) /\ ReturnsEarly(cmd, InputData(id))
\* The drop of drop-create is committed; the insert after it fails.
ExportBreaks ==
  /\ ExportReady /\ cmd.mode = "drop-create"
  /\ HasRows(InputData(cmd.sourceConstantRef.definitionId))
  /\ world' = [world EXCEPT !.external = "absent"]
  /\ Raise /\ reads' = {}
  /\ UNCHANGED <<editVars, scopes, local>>

DropDataset ==
  /\ Running("dropDataset") /\ world.dataset
  /\ world' = [world EXCEPT !.external = "absent", !.dataset = FALSE]
  /\ reads' = {} /\ Return(data) /\ NoStore /\ UNCHANGED editVars
CleanDataset ==
  /\ Running("cleanDataset") /\ world.dataset /\ world.external # "absent"
  /\ world' = [world EXCEPT !.external = "empty"]
  /\ reads' = {} /\ Return(data) /\ NoStore /\ UNCHANGED editVars

\* The started suite is handed the values of the references; an unresolved
\* reference is handed over as the text of its path.
RunSuite ==
  /\ Running("runSuite") /\ Known(Ids(cmd.constantRefs))
  /\ world' = [world EXCEPT !.started = TRUE]
  /\ StoreResult(cmd.resultConstant)
  /\ Reading(Ids(cmd.constantRefs)) /\ Return(data)
  /\ UNCHANGED editVars

IsEmpty(v) == v # Null /\ v.val \in EmptyValues
\* What an assert may conclude from the value its reference resolved to (Null:
\* the text of the path, which is not empty).  The array asserts compare rows
\* with a stored array.
Conclusions(cfg, v) ==
  LET code == cfg.commandCode
  IN  CASE code \in {"jsonEmpty", "jsonArrayEmpty"}       -> {IsEmpty(v)}
        [] code \in {"jsonNotEmpty", "jsonArrayNotEmpty"} -> {~IsEmpty(v)}
        [] code = "jsonEquals"   -> IF v = Null THEN {FALSE} ELSE BOOLEAN
        [] code = "jsonContains" ->
             IF v # Null /\ v.val = "object" THEN BOOLEAN ELSE {FALSE}
        [] OTHER                 -> BOOLEAN
AssertCommand ==
  LET id == cmd.actualConstantRef.definitionId
  IN  /\ Allowed /\ cmd.commandCode \in AssertCodes
      /\ id \in DOMAIN table
      /\ Reading({id})
      /\ \E passed \in Conclusions(cmd, Resolve(id)) :
           IF passed THEN Return(data) /\ UNCHANGED <<failed, removed>> ELSE Raise
      /\ UNCHANGED <<editVars, scopes, local, world>>

Next ==
  \/ \E offer \in Offers : offer[1] \in Items /\ (SaveSuite(offer[1], offer[2])
                                                  \/ ComposeMock(offer[1], offer[2]))
  \/ ReloadMock \/ SaveMock \/ StartRun
  \/ TakeCommand \/ Refused \/ Fails
  \/ InitConstant \/ DeleteConstant \/ Sleep \/ SendMessageQueue
  \/ SaveTable \/ DropTable \/ CleanTable \/ ExportDataset \/ ExportBreaks
  \/ DropDataset \/ CleanDataset \/ RunSuite \/ AssertCommand

Spec == Init /\ [][Next]_vars

------------------------------------------------------------------------------
(* Properties.                                                             *)

\* The iteration whose write of a definition a reader must see: constants of
\* before_all come from iteration 0, all others from the reader's own one.
Writer(id) == {i \in Items : \E n \in DOMAIN stored[i] :
                 id \in {d.id : d \in Declarations(stored[i][n], Section(i), n)}}
Fresher(id, iter) == IF Writer(id) = {"beforeAll"} THEN 0 ELSE iter
ReadsOwn(r, iter) == r.got # Null /\ r.got.by = r.id /\ r.got.iter = Fresher(r.id, iter)
\* The value of a reference that the planner accepted is the one its own
\* definition wrote, in before_all or in the reader's own iteration, however
\* items fail and whatever other items declare or delete under the same names,
\* unless the command that declares or deletes it failed, or another item
\* deleted it.
RefsReadOwnValue ==
  [][cmd # Null =>
       \A r \in reads' : \/ ReadsOwn(r, Here.iter) \/ r.id \in failed
                         \/ \E d \in removed : d.id = r.id /\ d.at # at]_vars
\* The same without the deletion, for every command that uses the value: "le
\* referenze devono essere sempre risolvibili", whatever item deleted the
\* constant.
RefsAlwaysResolve ==
  [][cmd # Null /\ Get(cmd, "targetConstantRef") = Null =>
       \A r \in reads' : ReadsOwn(r, Here.iter) \/ r.id \in failed]_vars

\* What is stored can be loaded and saved again: the suite the editor read
\* back is accepted, so that no edit can make every later edit fail.
StoredSuiteCanBeSavedAgain == owner = "suite" => SuiteAccepted(PlanSuite(stored))
\* The same of a mock server.
StoredMockCanBeSavedAgain == owner = "mock" => MockAccepted(PlanMock(stored))

\* Converting a stored configuration, as every load and every execution does,
\* gives the configuration back: no legacy spelling of a key, a code, a context
\* or a mode survives in a form that reads differently the second time.
ConversionStable ==
  \A i \in Items : \A n \in DOMAIN stored[i] : Convert(stored[i][n]) = stored[i][n]

\* A command that the planner accepted in a section where its contract allows
\* it is not refused by the policy or by the immutable scopes of the context,
\* unless it carries a target of its own: what the editor lets a user save is
\* not stopped by its own constants half-way through a run.
SavedWritesAreAllowed ==
  cmd # Null /\ Get(cmd, "target") = Null
    /\ ScopeAllowed(Contracts[cmd.commandCode], Scope)
  => /\ PolicyAllows(cmd, Scope)
     /\ \A d \in Declarations(cmd, Section(Here.item), next) : ~Immutable(d.scope)

==============================================================================
