---------------------------- MODULE CommandConfig ----------------------------
(***************************************************************************)
(* Command configurations, their contracts and the policy of the runtime.  *)
(*                                                                         *)
(* A configuration is a dictionary: a record whose missing or blank keys   *)
(* count as Null.  Convert is convert_to_config_command_type: the DTO      *)
(* class selected by the command code, with its validator, as the record   *)
(* of the DTO's fields, or Invalid where a ValueError is raised.  Text is  *)
(* abstracted to the tokens the code tells apart; a path "$.root.x.leaf"   *)
(* is the record [root, leaf], with leaf = Null below three tokens.        *)
(***************************************************************************)
EXTENDS Integers, Sequences, FiniteSets, FiniteSetsExt, TLC

CONSTANTS Null,      \* None, a missing key or a blank string
          Invalid    \* a ValueError

CommandTypes == {"context", "action", "assert"}
AssertCodes == {"jsonEquals", "jsonEmpty", "jsonNotEmpty", "jsonContains",
                "jsonArrayEquals", "jsonArrayEmpty", "jsonArrayNotEmpty",
                "jsonArrayContains"}
ConstantContexts == {"runEnvelope", "global", "local", "result"}
ExportModes == {"append", "drop-create", "insert-update"}
SourceTypes == {"raw", "json", "jsonArray", "dataset", "sqsQueue"}
\* The values Python sees as dict or list, and those of length 0.
Containers == {"object", "emptyObject", "list", "emptyList"}
Lists == {"list", "emptyList"}
EmptyValues == {"emptyObject", "emptyList", "none"}

CommandCodes == {"initConstant", "deleteConstant", "sleep", "sendMessageQueue", "saveTable",
                 "dropTable", "cleanTable", "exportDataset", "dropDataset", "cleanDataset",
                 "runSuite"} \cup AssertCodes
ASSUME NullAssumption ==
  /\ Null # Invalid
  /\ Null \notin CommandTypes \cup CommandCodes \cup ConstantContexts \cup SourceTypes
                  \cup ExportModes

Get(d, key) == IF key \in DOMAIN d THEN d[key] ELSE Null
Given(d, keys) == {i \in DOMAIN keys : Get(d, keys[i]) # Null}
FirstNonEmpty(d, keys) ==
  IF Given(d, keys) = {} THEN Null ELSE d[keys[Min(Given(d, keys))]]
Or(x, default) == IF x = Null THEN default ELSE x
\* int(x or default): zero is falsy too.
IntOr(x, default) == IF x = Null THEN default ELSE IF x = 0 THEN default ELSE x

------------------------------------------------------------------------------
(* Nested objects. *)

ConstantRef(raw) ==
  IF raw = Null THEN Null
  ELSE LET id == FirstNonEmpty(raw, <<"definitionId", "definition_id">>)
       IN  IF id = Null THEN Null ELSE [definitionId |-> id]

ResultConstant(raw) ==
  IF raw = Null THEN Null
  ELSE LET id == FirstNonEmpty(raw, <<"definitionId", "definition_id">>)
           name == FirstNonEmpty(raw, <<"name">>)
           type == Or(FirstNonEmpty(raw, <<"valueType", "value_type">>), "json")
       IN  IF id = Null /\ name = Null THEN Null
           ELSE IF id = Null \/ name = Null \/ type \notin SourceTypes THEN Invalid
           ELSE [definitionId |-> id, name |-> name, valueType |-> type]

TemplateKinds == {"string", "number", "date", "datetime", "boolean", "variable", "function"}
\* A constant of a message template: kind and value.
TemplateKind(kind) ==
  CASE kind = "str" -> "string" [] kind = "booleano" -> "boolean" [] OTHER -> kind
TemplateConstant(c) ==
  LET kind == TemplateKind(c.kind)
  IN  IF \/ kind \notin TemplateKinds
         \/ kind = "variable" /\ c.value = Null
         \/ kind = "function" /\ c.value \notin {"now", "today"}
      THEN Invalid ELSE [kind |-> kind, value |-> c.value]

\* Fields lose their duplicates (a set); a template needs a field or a constant.
MessageTemplate(raw) ==
  IF raw = Null THEN Null
  ELSE LET constants == {TemplateConstant(c) : c \in Or(Get(raw, "constants"), {})}
           fields == Or(Get(raw, "fields"), {})
       IN  IF Invalid \in constants \/ (fields = {} /\ constants = {}) THEN Invalid
           ELSE [forEach |-> FirstNonEmpty(raw, <<"forEach", "for_each">>),
                 fields |-> fields, constants |-> constants]

BuiltIns == {"$now", "$today"}
\* A dataset parameter bound to a constant, to a built-in or to a value.
Binding(b) ==
  CASE b.kind = "constant_ref" ->
         IF b.definitionId = Null THEN Invalid ELSE b
    [] b.kind = "built_in" ->
         IF b.resolver \notin BuiltIns THEN Invalid ELSE b
    [] OTHER -> b
ParameterBindings(raw) ==
  IF raw = Null THEN Null
  ELSE LET bound == [p \in DOMAIN raw |-> Binding(raw[p])]
       IN  IF \E p \in DOMAIN raw : bound[p] = Invalid THEN Invalid
           ELSE IF DOMAIN raw = {} THEN Null ELSE bound

------------------------------------------------------------------------------
(* Codes. *)

LegacyInits == {"data", "data-from-json-array", "data-from-db", "data-from-queue", "set-var"}
NormalizeCode(code) ==
  CASE code \in LegacyInits        -> "initConstant"
    [] code = "publish"            -> "sendMessageQueue"
    [] code = "save-internal-db"   -> "saveTable"
    [] code = "save-external-db"   -> "exportDataset"
    [] code = "run-suite"          -> "runSuite"
    [] OTHER                       -> code

\* A legacy "assert": its type and the presence of an expected array decide.
DeriveAssertCode(d) ==
  LET type == FirstNonEmpty(d, <<"assert_type", "assertType">>)
      array == FirstNonEmpty(d, <<"expected_json_array_id", "expectedJsonArrayId",
                                  "json_array_id">>) # Null
  IN  CASE type = "empty"     -> IF array THEN "jsonArrayEmpty" ELSE "jsonEmpty"
        [] type = "not-empty" -> IF array THEN "jsonArrayNotEmpty" ELSE "jsonNotEmpty"
        [] type = "contains"  -> IF array THEN "jsonArrayContains" ELSE "jsonContains"
        [] type = "json-array-equals" -> "jsonArrayEquals"
        [] OTHER              -> "jsonEquals"

------------------------------------------------------------------------------
(* The DTO classes.  Base adds code and type and rejects a wrong type.     *)

TypeOr(d, default) == Or(FirstNonEmpty(d, <<"commandType", "command_type">>), default)
Base(d, code, default, fields) ==
  IF TypeOr(d, default) \notin CommandTypes THEN Invalid
  ELSE [key \in {"commandCode", "commandType"} \cup DOMAIN fields |->
          CASE key = "commandCode" -> code
            [] key = "commandType" -> TypeOr(d, default)
            [] OTHER               -> fields[key]]

ContextName(context) ==
  CASE context = "run" -> "runEnvelope" [] context = "vars" -> "global"
    [] context = "auto" -> "local" [] OTHER -> context

LongTarget(target) == target # Null /\ Get(target, "leaf") # Null
ConstantName(d, target) ==
  Or(FirstNonEmpty(d, <<"name", "key">>), IF LongTarget(target) THEN target.leaf ELSE Null)
ConstantContext(d, target) ==
  ContextName(Or(Or(FirstNonEmpty(d, <<"context", "scope">>),
                    IF LongTarget(target) THEN target.root ELSE Null), "local"))

ExplicitType(d) == FirstNonEmpty(d, <<"sourceType", "source_type">>)
DatasetOf(d) == FirstNonEmpty(d, <<"dataset_id", "datasetId", "data_source_id">>)
QueueOf(d) == FirstNonEmpty(d, <<"queue_id", "queueId">>)
ArrayOf(d) == FirstNonEmpty(d, <<"json_array_id", "jsonArrayId">>)
DetectSourceType(d, payload) ==
  IF ExplicitType(d) # Null THEN ExplicitType(d)
  ELSE IF QueueOf(d) # Null THEN "sqsQueue"
  ELSE IF DatasetOf(d) # Null THEN "dataset"
  ELSE IF ArrayOf(d) # Null THEN "jsonArray"
  ELSE IF payload \in Containers THEN "json" ELSE "raw"

\* An untyped constant takes its value from `data`.
ConstantValue(d, value, data, type) ==
  IF ExplicitType(d) = Null /\ data # Null /\ type \in {"json", "raw"} THEN data ELSE value

InitConstantDto(d) ==
  LET id == FirstNonEmpty(d, <<"definitionId", "definition_id">>)
      target == FirstNonEmpty(d, <<"target">>)
      data == FirstNonEmpty(d, <<"data">>)
      value == FirstNonEmpty(d, <<"value", "data">>)
      parameters == ParameterBindings(FirstNonEmpty(d, <<"parameters">>))
      type == DetectSourceType(d, Or(data, value))
  IN  IF \/ Null \in {id, ConstantName(d, target)} \/ parameters = Invalid
         \/ ConstantContext(d, target) \notin ConstantContexts \/ type \notin SourceTypes
      THEN Invalid
      ELSE Base(d, "initConstant", "context",
        [definitionId |-> id, name |-> ConstantName(d, target),
         context |-> ConstantContext(d, target), sourceType |-> type,
         value |-> ConstantValue(d, value, data, type), data |-> data,
         json_array_id |-> ArrayOf(d), dataset_id |-> DatasetOf(d), queue_id |-> QueueOf(d),
         retry |-> IntOr(FirstNonEmpty(d, <<"retry">>), 3),
         max_messages |-> IntOr(FirstNonEmpty(d, <<"max_messages", "maxMessages">>), 1000),
         target |-> target, key |-> FirstNonEmpty(d, <<"key">>),
         scope |-> FirstNonEmpty(d, <<"scope">>), parameters |-> parameters])

DeleteConstantDto(d) ==
  LET ref == ConstantRef(FirstNonEmpty(d, <<"targetConstantRef", "target_constant_ref">>))
  IN  IF ref = Null THEN Invalid
      ELSE Base(d, "deleteConstant", "context", [targetConstantRef |-> ref])

SleepDto(d) ==
  Base(d, "sleep", "action", [duration |-> IntOr(FirstNonEmpty(d, <<"duration">>), 0)])

SourceRef(d) == ConstantRef(FirstNonEmpty(d, <<"sourceConstantRef", "source_constant_ref">>))
\* Mutant: the key that the dump of the DTO writes is not read.
SnakeOnly(d) == ResultConstant(FirstNonEmpty(d, <<"result_constant">>))
ResultOf(d) == ResultConstant(FirstNonEmpty(d, <<"resultConstant", "result_constant">>))

SendMessageQueueDto(d) ==
  LET template == MessageTemplate(FirstNonEmpty(d, <<"message_template", "messageTemplate">>))
  IN  IF Null \in {QueueOf(d), SourceRef(d)} \/ Invalid \in {template, ResultOf(d)} THEN Invalid
      ELSE Base(d, "sendMessageQueue", "action",
        [queue_id |-> QueueOf(d), sourceConstantRef |-> SourceRef(d),
         message_template |-> template, resultConstant |-> ResultOf(d)])

TableName(d) == FirstNonEmpty(d, <<"table_name", "tableName">>)
SaveTableDto(d) ==
  IF Null \in {TableName(d), SourceRef(d)} \/ ResultOf(d) = Invalid THEN Invalid
  ELSE Base(d, "saveTable", "action",
    [table_name |-> TableName(d), sourceConstantRef |-> SourceRef(d),
     resultConstant |-> ResultOf(d)])
TableDto(d, code) ==
  IF TableName(d) = Null THEN Invalid
  ELSE Base(d, code, "action", [table_name |-> TableName(d)])

ModeName(mode) ==
  CASE mode = "drop_create" -> "drop-create" [] mode = "insert_update" -> "insert-update"
    [] OTHER -> mode

\* Without a connection the dataset id stands in for it.
ExportDatasetDto(d) ==
  LET mode == ModeName(Or(FirstNonEmpty(d, <<"mode", "export_mode", "exportMode">>), "append"))
      keys == Or(FirstNonEmpty(d, <<"mapping_keys", "mappingKeys">>), {})
  IN  IF SourceRef(d) = Null \/ ResultOf(d) = Invalid \/ mode \notin ExportModes THEN Invalid
      ELSE Base(d, "exportDataset", "action",
        [connection_id |-> FirstNonEmpty(d, <<"connection_id", "connectionId",
                                              "dataset_id", "datasetId">>),
         table_name |-> TableName(d), sourceConstantRef |-> SourceRef(d), mode |-> mode,
         mapping_keys |-> IF keys = {} THEN Null ELSE keys,
         dataset_id |-> FirstNonEmpty(d, <<"dataset_id", "datasetId">>),
         resultConstant |-> ResultOf(d)])

DatasetDto(d, code) ==
  LET id == FirstNonEmpty(d, <<"dataset_id", "datasetId">>)
  IN  IF id = Null THEN Invalid ELSE Base(d, code, "action", [dataset_id |-> id])

\* References that coerce to None are dropped.
RunSuiteDto(d) ==
  LET id == FirstNonEmpty(d, <<"suite_id", "suiteId">>)
      refs == Or(FirstNonEmpty(d, <<"constantRefs", "constant_refs">>), {})
  IN  IF id = Null \/ ResultOf(d) = Invalid THEN Invalid
      ELSE Base(d, "runSuite", "action",
        [suite_id |-> id, constantRefs |-> {ConstantRef(r) : r \in refs} \ {Null},
         resultConstant |-> ResultOf(d)])

AssertComplete(code, expected, array, keys) ==
  /\ code \in {"jsonArrayEquals", "jsonArrayContains"} => array # Null /\ keys # {}
  /\ code = "jsonContains" => expected # Null /\ keys # {}
  /\ code = "jsonEquals" => expected # Null
AssertDto(d, code) ==
  LET actual == ConstantRef(FirstNonEmpty(d, <<"actualConstantRef", "actual_constant_ref">>))
      expected == FirstNonEmpty(d, <<"expected">>)
      array == FirstNonEmpty(d, <<"expected_json_array_id", "expectedJsonArrayId",
                                  "json_array_id">>)
      keys == Or(FirstNonEmpty(d, <<"compare_keys", "compareKeys">>), {})
  IN  IF actual = Null \/ ~AssertComplete(code, expected, array, keys) THEN Invalid
      ELSE Base(d, code, "assert",
        [actualConstantRef |-> actual, expected |-> expected,
         expected_json_array_id |-> array,
         compare_keys |-> IF keys = {} THEN Null ELSE keys])

CodeOf(d) ==
  LET named == NormalizeCode(FirstNonEmpty(d,
                 <<"commandCode", "command_code", "operationType", "operation_type", "type">>))
  IN  IF named = "assert" THEN DeriveAssertCode(d) ELSE named
\* convert_to_config_command_type.
Convert(d) ==
  LET code == CodeOf(d)
  IN  CASE code = "initConstant"     -> InitConstantDto(d)
        [] code = "deleteConstant"   -> DeleteConstantDto(d)
        [] code = "sleep"            -> SleepDto(d)
        [] code = "sendMessageQueue" -> SendMessageQueueDto(d)
        [] code = "saveTable"        -> SaveTableDto(d)
        [] code \in {"dropTable", "cleanTable"}     -> TableDto(d, code)
        [] code = "exportDataset"    -> ExportDatasetDto(d)
        [] code \in {"dropDataset", "cleanDataset"} -> DatasetDto(d, code)
        [] code = "runSuite"         -> RunSuiteDto(d)
        [] code \in AssertCodes      -> AssertDto(d, code)
        [] OTHER                     -> Invalid

------------------------------------------------------------------------------
(* command_contract_registry: where a command may run and what it may do.  *)

HookScopes == {"hook.beforeAll", "hook.beforeEach", "hook.afterEach", "hook.afterAll"}
Contract(family, scopes, effects) ==
  [family |-> family, scopes |-> scopes, sideEffects |-> effects, async |-> effects]
EffectCodes == CommandCodes \ (AssertCodes \cup {"initConstant", "deleteConstant", "sleep"})
Contracts ==
  [c \in CommandCodes |->
     CASE c \in AssertCodes -> Contract("assert", {"test", "mock.preResponse"}, FALSE)
       [] c \in EffectCodes ->
            Contract("action", {"test", "mock.postResponse"} \cup HookScopes, TRUE)
       [] c = "sleep"       -> Contract("action", {"test"} \cup HookScopes, FALSE)
       [] c = "initConstant" ->
            Contract("context", {"test", "mock.preResponse"} \cup HookScopes, FALSE)
       [] OTHER             -> Contract("context", {"test"} \cup HookScopes, FALSE)]

\* command_policy_validator.
TargetRoots(cfg) ==
  (IF Get(cfg, "target") # Null THEN {cfg.target.root} ELSE {})
    \cup (IF Get(cfg, "context") # Null THEN {cfg.context} ELSE {})
    \cup (IF Get(cfg, "resultConstant") # Null THEN {"result"} ELSE {})
ScopeAllowed(contract, scope) ==
  /\ scope \in contract.scopes
  /\ scope = "mock.preResponse" => ~contract.sideEffects /\ ~contract.async
\* extract_context_root; of a path its first token counts.
Root(token) ==
  IF token = "vars" THEN "global"
  ELSE IF token \in ConstantContexts \cup {"response"} THEN token ELSE Null
TargetsAllowed(roots, scope) ==
  \A token \in roots :
    Root(token) \notin {Null} \cup (IF scope = "test" THEN {"global", "runEnvelope"} ELSE {})
PolicyAllows(cfg, scope) ==
  /\ cfg.commandCode \in DOMAIN Contracts
  /\ ScopeAllowed(Contracts[cfg.commandCode], scope)
  /\ TargetsAllowed(TargetRoots(cfg), scope)
==============================================================================
