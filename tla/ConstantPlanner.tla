--------------------------- MODULE ConstantPlanner ---------------------------
(***************************************************************************)
(* command_constant_definition_registry: which constants a suite or a mock *)
(* server declares, and which of them each command may refer to.           *)
(*                                                                         *)
(* The planner walks the commands of a section in order and keeps the      *)
(* definitions it has seen: a function from definition ids to planned      *)
(* definitions.  The order of a command is the one it was sent with; where *)
(* only a list of configurations is given, that is its position.           *)
(***************************************************************************)
EXTENDS CommandConfig, SequencesExt

SuiteSections == {"beforeAll", "beforeEach", "test", "afterEach", "afterAll"}
MockSections == {"mock.preResponse", "mock.postResponse", "mock.queue"}

TypeCompatibility ==
  [c \in {"sendMessageQueue"} |-> {"raw", "json", "jsonArray", "dataset"}]
  @@ [c \in {"saveTable", "exportDataset"} |-> {"json", "jsonArray", "dataset"}]
  @@ [c \in {"jsonEquals", "jsonEmpty", "jsonNotEmpty", "jsonContains"} |-> {"json", "raw"}]
  @@ [c \in {"jsonArrayEquals", "jsonArrayEmpty", "jsonArrayNotEmpty", "jsonArrayContains"} |->
        {"jsonArray"}]

ReadableScopes(section) ==
  CASE section \in {"test", "afterEach"}      -> {"runEnvelope", "global", "local", "result"}
    [] section \in {"beforeEach", "afterAll"} -> {"runEnvelope", "global", "result"}
    [] OTHER                                  -> {"runEnvelope", "result"}

\* Mutant: a test may declare a global constant.
TestWritesGlobal(section) ==
  CASE section \in {"beforeAll", "afterAll", "test"} -> {"global", "result"}
    [] section \in {"beforeEach", "afterEach"}       -> {"local", "result"}
    [] section = "mock.preResponse"                  -> {"runEnvelope", "result"}
    [] OTHER                                         -> {"result"}
WritableScopes(section) ==
  CASE section \in {"beforeAll", "afterAll"}          -> {"global", "result"}
    [] section \in {"beforeEach", "test", "afterEach"} -> {"local", "result"}
    [] section = "mock.preResponse"                   -> {"runEnvelope", "result"}
    [] OTHER                                          -> {"result"}

ExecutionScope(section) ==
  CASE section = "test" -> "test"
    [] section = "beforeAll" -> "hook.beforeAll" [] section = "beforeEach" -> "hook.beforeEach"
    [] section = "afterEach" -> "hook.afterEach" [] section = "afterAll" -> "hook.afterAll"
    [] section = "mock.queue" -> "mock.postResponse"
    [] OTHER -> section

NoDefinitions == [d \in {} |-> {}]
Live(def) == def.deletedAt = Null

\* What a later section starts from: nothing deleted, everything declared
\* before its first command.
CarryOver(defs) ==
  [d \in {i \in DOMAIN defs : Live(defs[i])} |-> [defs[d] EXCEPT !.order = 0]]

\* Mutant: a deleted constant stays visible in its section.
IgnoresDelete(defs, scopes, order) ==
  {d \in DOMAIN defs : defs[d].scope \in scopes /\ defs[d].order < order}
Active(defs, scopes, order) ==
  {d \in DOMAIN defs : /\ defs[d].scope \in scopes
                       /\ defs[d].order < order
                       /\ Live(defs[d]) \/ defs[d].deletedAt > order}

DuplicateName(defs, active, name, scope) ==
  \E d \in active : defs[d].name = name /\ defs[d].scope = scope

Ids(refs) == {r.definitionId : r \in refs \ {Null}}
TargetIds(cfg) == Ids({Get(cfg, "targetConstantRef")})
\* The references of a command; the constants bound to dataset parameters
\* are not among them.
DefinitionRefs(cfg) ==
  IF cfg.commandCode = "deleteConstant" THEN TargetIds(cfg)
  ELSE Ids({Get(cfg, "sourceConstantRef"), Get(cfg, "actualConstantRef")})
         \cup (IF cfg.commandCode = "runSuite" THEN Ids(cfg.constantRefs) ELSE {})

RefsVisible(cfg, section, order, defs) ==
  /\ DefinitionRefs(cfg) \subseteq Active(defs, ReadableScopes(section), order)
  /\ \A d \in DefinitionRefs(cfg) :
       /\ cfg.commandCode \in DOMAIN TypeCompatibility =>
            defs[d].type \in TypeCompatibility[cfg.commandCode]
       /\ d \in TargetIds(cfg) => defs[d].scope \in WritableScopes(section)

Planned(id, name, scope, type, section, order) ==
  [id |-> id, name |-> name, scope |-> scope, type |-> type,
   section |-> section, order |-> order, deletedAt |-> Null]
\* The value of initConstant, or the result constant of a command.
Declarations(cfg, section, order) ==
  (IF cfg.commandCode = "initConstant"
   THEN {Planned(cfg.definitionId, cfg.name, cfg.context, cfg.sourceType, section, order)}
   ELSE {})
  \cup (IF Get(cfg, "resultConstant") = Null THEN {}
        ELSE {Planned(cfg.resultConstant.definitionId, cfg.resultConstant.name, "result",
                      cfg.resultConstant.valueType, section, order)})

\* What the walk demands of a command whatever was declared before it.
Sound(cfg, section) ==
  /\ cfg # Invalid
  /\ \A n \in Declarations(cfg, section, 0) : n.scope \in WritableScopes(section)
NamesFree(cfg, section, order, defs) ==
  \A n \in Declarations(cfg, section, order) :
    ~DuplicateName(defs, Active(defs, ConstantContexts, order + 1), n.name, n.scope)

Declare(defs, news) ==
  [d \in {n.id : n \in news} |-> CHOOSE n \in news : n.id = d] @@ defs

\* One command of plan_definitions_for_commands; `plan` is the state of the
\* walk: the definitions in sight and those declared by this section.  A command
\* that is not sound fails like the others, wherever it stands.
PlanCommand(plan, cfg, section, order) ==
  IF ~plan.ok \/ ~RefsVisible(cfg, section, order, plan.defs) THEN [plan EXCEPT !.ok = FALSE]
  ELSE IF cfg.commandCode = "deleteConstant"
       THEN [plan EXCEPT !.defs[cfg.targetConstantRef.definitionId].deletedAt = order]
  ELSE IF ~NamesFree(cfg, section, order, plan.defs) THEN [plan EXCEPT !.ok = FALSE]
  ELSE LET news == Declarations(cfg, section, order)
       IN  [plan EXCEPT !.defs = Declare(@, news), !.planned = @ \o SetToSeq(news)]

\* Every command is converted before it is looked at.
Converted(owned) == [i \in DOMAIN owned |-> [n \in DOMAIN owned[i] |-> Convert(owned[i][n])]]
NewPlan(visible) == [ok |-> TRUE, defs |-> CarryOver(visible), planned |-> <<>>]
Failure == [ok |-> FALSE, defs |-> NoDefinitions, planned |-> <<>>]
PlanSection(cfgs, section, visible) ==
  IF \E i \in DOMAIN cfgs : ~Sound(cfgs[i], section) THEN Failure
  ELSE FoldLeftDomain(LAMBDA plan, i : PlanCommand(plan, cfgs[i], section, i),
                      NewPlan(visible), cfgs)
\* The same walk over commands [order, cfg], sorted by their orders.
InOrder(rows) ==
  SetToSortSeq(DOMAIN rows, LAMBDA i, j : \/ rows[i].order < rows[j].order
                                          \/ rows[i].order = rows[j].order /\ i < j)
PlanRows(rows, section, visible) ==
  IF \E i \in DOMAIN rows : ~Sound(Convert(rows[i].cfg), section) THEN Failure
  ELSE FoldLeft(LAMBDA plan, i : PlanCommand(plan, Convert(rows[i].cfg), section, rows[i].order),
                NewPlan(visible), InOrder(rows))

\* validate_suite_constant_graph and rebuild_suite_constant_definitions: the
\* tests and after_each start from before_each, after_all from before_all.
PlanSuite(commands) ==
  LET suite == Converted(commands)
      all == PlanSection(suite["beforeAll"], "beforeAll", NoDefinitions)
      each == PlanSection(suite["beforeEach"], "beforeEach", all.defs)
      plan == [i \in DOMAIN suite |->
                 CASE i = "beforeAll"  -> all
                   [] i = "beforeEach" -> each
                   [] i = "afterAll"   -> PlanSection(suite[i], "afterAll", all.defs)
                   [] i = "afterEach"  -> PlanSection(suite[i], "afterEach", each.defs)
                   [] OTHER            -> PlanSection(suite[i], "test", each.defs)]
  IN  [ok |-> \A i \in DOMAIN suite : plan[i].ok,
       planned |-> [i \in DOMAIN suite |-> plan[i].planned]]

\* validate_mock_server_constant_graph: every section on its own.
PlanMock(commands) ==
  LET mock == Converted(commands)
      plan == [s \in MockSections |-> PlanSection(mock[s], s, NoDefinitions)]
  IN  [ok |-> \A s \in MockSections : plan[s].ok,
       planned |-> [s \in MockSections |-> plan[s].planned]]
==============================================================================
