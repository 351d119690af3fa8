---------------------------- MODULE MCSuiteEditor ----------------------------
(***************************************************************************)
(* Suites with constants of every scope, deleted and shadowed ones, a      *)
(* result constant and a bound dataset, and forms that add, rename and use *)
(* such constants.                                                         *)
(***************************************************************************)
EXTENDS SuiteEditor

Row(order, code, fields) == [order |-> order, cfg |-> ("commandCode" :> code) @@ fields]
Form(code, fields) == ("commandCode" :> code) @@ fields
NewConstant(name, context, type, source) ==
  [name |-> name, context |-> context, sourceType |-> type] @@ source
Id(id) == [definitionId |-> id]

BeforeAll == <<Row(1, "initConstant", Id(1) @@ NewConstant("r", "result", "json", [value |-> "object"])),
               Row(2, "initConstant", Id(2) @@ NewConstant("x", "global", "dataset", [dataset_id |-> "ds"]))>>
LocalX == Row(1, "initConstant", Id(3) @@ NewConstant("x", "local", "json", [value |-> "object"]))
CopyR == Row(2, "saveTable", [table_name |-> "t", sourceConstantRef |-> Id(1),
                              resultConstant |-> [definitionId |-> 4, name |-> "s", valueType |-> "json"]])
DropR(order) == Row(order, "deleteConstant", [targetConstantRef |-> Id(1)])

Plain ==
  <<BeforeAll, <<LocalX, CopyR, DropR(3)>>,
    <<Row(1, "saveTable", [table_name |-> "t", sourceConstantRef |-> Id(3)])>>,
    <<Row(1, "exportDataset", [table_name |-> "e", connection_id |-> "c", sourceConstantRef |-> Id(2)])>>,
    <<Row(1, "initConstant", Id(5) @@ NewConstant("y", "local", "jsonArray", [json_array_id |-> "j"])),
      Row(2, "sleep", [duration |-> 1]),
      Row(3, "sendMessageQueue", [queue_id |-> "q", sourceConstantRef |-> Id(5)])>>>>
Gaps ==
  <<BeforeAll, <<LocalX>>, <<>>, <<>>,
    <<Row(2, "runSuite", [suite_id |-> "s", constantRefs |-> {Id(2)}]),
      Row(3, "jsonNotEmpty", [actualConstantRef |-> Id(1)])>>,
    <<Row(1, "initConstant", Id(6) @@ NewConstant("p", "local", "dataset",
        [dataset_id |-> "ds", parameters |-> ("k" :> [kind |-> "constant_ref", definitionId |-> 3])])),
      Row(2, "exportDataset", [table_name |-> "e", connection_id |-> "c", sourceConstantRef |-> Id(6)])>>>>
\* Left by a delete and an append: two rows share an order.
Doubled ==
  <<BeforeAll, <<>>, <<>>, <<>>,
    <<Row(1, "initConstant", Id(7) @@ NewConstant("y", "local", "json", [value |-> "object"])),
      Row(3, "jsonNotEmpty", [actualConstantRef |-> Id(7)]),
      Row(3, "sendMessageQueue", [queue_id |-> "q", sourceConstantRef |-> Id(7),
             resultConstant |-> [definitionId |-> 8, name |-> "w", valueType |-> "json"]])>>>>
NoItems == <<<<>>, <<>>, <<>>, <<>>>>
MCSuites == {NoItems, ConvertSuite(Plain), ConvertSuite(Gaps), ConvertSuite(Doubled)}
ASSUME SuitesAreStored == \A s \in MCSuites : PlanOk(s)

MCForms ==
  {Form("initConstant", NewConstant("z", "local", "json", [value |-> "object"])),
   Form("initConstant", NewConstant("p", "local", "dataset", [dataset_id |-> "ds",
          parameters |-> ("k" :> [kind |-> "constant_path", path |-> Path("local", "x")])])),
   Form("sendMessageQueue", [queue_id |-> "q", source |-> Path("local", "y"),
                             result_target |-> Path("result", "w")]),
   Form("sendMessageQueue", [queue_id |-> Null, source |-> Path("local", "y")]),
   Form("saveTable", [table_name |-> "t", source |-> Path("result", "s"), result_target |-> Path("s", Null)]),
   Form("jsonNotEmpty", [actual |-> Path("local", "z")])}
MCJsonEdits ==
  {Form("deleteConstant", [name |-> "x", context |-> "local"]),
   Form("runSuite", [suite_id |-> "s", constants |-> {"x", "y"}])}
==============================================================================
