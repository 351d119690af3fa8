--------------------------- MODULE MCCommandRuntime ---------------------------
(***************************************************************************)
(* A catalogue of commands as an editor, an import or an old export sends  *)
(* them, with their legacy spellings, for a suite with two tests and for a *)
(* mock server with one route and one queue.                               *)
(***************************************************************************)
EXTENDS CommandRuntime

MCTestItems == <<"test1", "test2">>
Ref(id) == [definitionId |-> id]
Raw(code, fields) == ("commandCode" :> code) @@ fields
InitC(id, name, context, fields) ==
  Raw("initConstant", [definitionId |-> id, name |-> name, context |-> context] @@ fields)
Result(id, type) == [definition_id |-> id, name |-> "s", value_type |-> type]

ResultR == InitC("d1", "r", "result", [value |-> "object"])
GlobalG == Raw("data-from-db", [definition_id |-> "d2", key |-> "g", scope |-> "vars",
                                data_source_id |-> "ds"])
LocalX(id) == Raw("initConstant", [definitionId |-> id, target |-> [root |-> "local", leaf |-> "x"],
                                   json_array_id |-> "j"])
Queued(id, context) == InitC(id, "q", context, [queueId |-> "q1", sourceType |-> "json",
                                                value |-> "emptyObject"])
Received(id, context) == InitC(id, "q", context, [queueId |-> "q1", retry |-> 0])
Delete(id) == Raw("deleteConstant", [target_constant_ref |-> Ref(id)])
Send(id) == Raw("publish", [queueId |-> "q1", source_constant_ref |-> Ref(id),
              messageTemplate |-> [forEach |-> "$", constants |-> {[kind |-> "str", value |-> "v"]}]])
SaveT(id, result) == Raw("save-internal-db", [tableName |-> "t", sourceConstantRef |-> Ref(id),
                                              resultConstant |-> Result(result, "jsonArray")])
Export(id) == Raw("save-external-db", [dataset_id |-> "ds", table_name |-> "e", export_mode |-> "drop_create",
                                       sourceConstantRef |-> Ref(id)])
NotEmpty(id) == Raw("assert", [assert_type |-> "not-empty", actual_constant_ref |-> Ref(id)])
ArrayContains(id) == Raw("assert", [assertType |-> "contains", json_array_id |-> "j",
                                    compareKeys |-> {"k"}, actualConstantRef |-> Ref(id)])
Start(refs, result) == Raw("run-suite", [suiteId |-> "s", constant_refs |-> {Ref(r) : r \in refs},
                                         result_constant |-> Result(result, "json")])
Bound(id, on) == InitC(id, "p", "local", [dataset_id |-> "ds",
                   parameters |-> ("k" :> [kind |-> "constant_ref", definitionId |-> on])])

At(items, cfgs) == items \X cfgs
MCOffers ==
  At({"beforeAll"}, {ResultR, GlobalG})
  \cup At({"beforeEach"}, {Delete("d1"), LocalX("d3"), InitC("d4", "r", "result", [value |-> "list"])})
  \cup At({"test1", "test2"}, {NotEmpty("d1")})
  \cup At({"test1"}, {Delete("d1"), Send("d2"), InitC("d5", "r", "result", [data |-> "emptyObject"]), Export("d1"), ArrayContains("d3"),
                      InitC("d6", "g", "global", [value |-> "text"]), Bound("d6", "d2"),
                      SaveT("d1", "d4"), Start({"d1"}, "d5")})
  \cup At({"afterEach"}, {Send("d4"), Send("d3"), NotEmpty("d1")})
  \cup At({"afterAll"}, {Export("d2"), Raw("cleanDataset", [datasetId |-> "ds"])})
  \cup At({"test2"}, {Raw(c, [table_name |-> "t"]) : c \in {"dropTable", "cleanTable"}}
                       \cup {Raw("sleep", [duration |-> 0]), Raw("dropDataset", [dataset_id |-> "ds"])})
  \cup At({"mock.preResponse"}, {Received("d1", "run"), InitC("d1", "q", "run", [value |-> "object"]),
                                 NotEmpty("d1"), Start({"d1"}, "d5")})
  \cup At({"mock.postResponse"}, {Start({}, "d2"), Send("d2"), Queued("d3", "result")})
  \cup At({"mock.queue"}, {Start({}, "d4"), SaveT("d4", "d5")})
==============================================================================
