--------------------------- MODULE MCDatasetEditor ---------------------------
(***************************************************************************)
(* Two tables, of which one lacks a column of the other; perimeters as a   *)
(* client of the API sends them; what a user types into the dialogs.       *)
(***************************************************************************)
EXTENDS DatasetEditor

MCSchema == [t1 |-> {"a", "b"}, t2 |-> {"a"}]
Is(field, operator, mode, arg) ==
  [field |-> field, operator |-> operator, mode |-> mode, arg |-> arg]
By(field, direction) == [field |-> field, direction |-> direction]
Typed(name, type, mode, default, function) ==
  [name |-> name, type |-> type, mode |-> mode, default |-> default, function |-> function,
   binding |-> Null]

MCConditions ==
  {Is("a", "contains", "literal", "quoted"), Is("b", "gt", "parameter", "p"),
   Is("a", "in", "literal", "manyText")}
MCGroups == {<<Is("b", "is_null", "literal", "text"), Is("a", "eq", "literal", "digits")>>}
MCRows ==
  {<<>>,
   <<Typed("p", "boolean", "Literal", "trueText", Null),
     Typed("p", "string", "Literal", "text", Null)>>,
   <<Typed("p", "date", "Function", Null, "$today")>>,
   <<Typed("p", "integer", "Function", Null, Null)>>}
MCColumns == {<<>>, <<"a">>}
MCSorts == {By("b", "asc")}
MCApiPerimeters ==
  {Null,
   [parameters |-> <<[name |-> "p", type |-> "date", default |-> "isoDatetime", binding |-> Null]>>,
    columns |-> <<"b", "a">>, logic |-> "OR", sort |-> <<By("b", "desc")>>,
    items |-> LegacyFilter("OR", <<Is("b", "gt", "parameter", "p"), Is("a", "eq", "literal", "int")>>)],
   [NoPerimeter EXCEPT
      !.parameters = <<[name |-> "q", type |-> "string", default |-> "null", binding |-> Null]>>,
      !.items = <<Single(Is("a", "eq", "literal", Null)),
                  Single(Is("a", "contains", "parameter", "q"))>>]}
==============================================================================
