------------------------ MODULE CommandRuntimeProofs ------------------------
(***************************************************************************)
(* Theorems about commands: a converted configuration converts to itself,  *)
(* what was saved can be saved again, and the policy does not refuse what  *)
(* the planner let through.                                                *)
(***************************************************************************)
EXTENDS CommandRuntime, SequenceTheorems, WellFoundedInduction, TLAPS

-----------------------------------------------------------------------------
(* Keys and their aliases *)

\* The first of the keys that is given.
LEMMA FirstAt ==
  ASSUME NEW d, NEW keys, NEW n \in Nat, DOMAIN keys = 1..n,
         NEW i \in 1..n, Get(d, keys[i]) # Null,
         \A j \in 1..n : j < i => Get(d, keys[j]) = Null
  PROVE  FirstNonEmpty(d, keys) = Get(d, keys[i])
<1>1. i \in Given(d, keys) /\ Given(d, keys) \subseteq 1..n BY DEF Given
<1>2. \A j \in Given(d, keys) : i <= j BY <1>1 DEF Given
<1>3. Min(Given(d, keys)) = i BY <1>1, <1>2 DEF Min
<1>4. FirstNonEmpty(d, keys) = d[keys[i]] BY <1>1, <1>3 DEF FirstNonEmpty
<1> QED BY <1>4 DEF Get

LEMMA FirstNone ==
  ASSUME NEW d, NEW keys, \A i \in DOMAIN keys : Get(d, keys[i]) = Null
  PROVE  FirstNonEmpty(d, keys) = Null
BY DEF FirstNonEmpty, Given

\* The same for lists of one to five keys.
LEMMA First1 ==
  ASSUME NEW d, NEW a
  PROVE  FirstNonEmpty(d, <<a>>) =
    Get(d, a)
<1> DEFINE k == <<a>>
<1>0. 1 \in Nat /\ DOMAIN k = 1..1 /\ k[1] = a OBVIOUS
<1> HIDE DEF k
<1>1. ASSUME Get(d, a) # Null PROVE FirstNonEmpty(d, k) = Get(d, a)
  <2>1. \A j \in 1..1 : j < 1 => Get(d, k[j]) = Null BY <1>0, <1>1
  <2>2. 1 \in 1..1 /\ Get(d, k[1]) # Null BY <1>0, <1>1
  <2>3. FirstNonEmpty(d, k) = Get(d, k[1]) BY <1>0, <2>1, <2>2, FirstAt
  <2> QED BY <1>0, <2>3
<1>2. ASSUME Get(d, a) = Null PROVE FirstNonEmpty(d, k) = Null
  <2>1. \A j \in DOMAIN k : Get(d, k[j]) = Null BY <1>0, <1>2
  <2> QED BY <2>1, FirstNone
<1> QED BY <1>1, <1>2 DEF k
LEMMA First2 ==
  ASSUME NEW d, NEW a, NEW b
  PROVE  FirstNonEmpty(d, <<a, b>>) =
    IF Get(d, a) # Null THEN Get(d, a)
    ELSE Get(d, b)
<1> DEFINE k == <<a, b>>
<1>0. 2 \in Nat /\ DOMAIN k = 1..2 /\ k[1] = a /\ k[2] = b OBVIOUS
<1> HIDE DEF k
<1>1. ASSUME Get(d, a) # Null PROVE FirstNonEmpty(d, k) = Get(d, a)
  <2>1. \A j \in 1..2 : j < 1 => Get(d, k[j]) = Null BY <1>0, <1>1
  <2>2. 1 \in 1..2 /\ Get(d, k[1]) # Null BY <1>0, <1>1
  <2>3. FirstNonEmpty(d, k) = Get(d, k[1]) BY <1>0, <2>1, <2>2, FirstAt
  <2> QED BY <1>0, <2>3
<1>2. ASSUME Get(d, a) = Null, Get(d, b) # Null PROVE FirstNonEmpty(d, k) = Get(d, b)
  <2>1. \A j \in 1..2 : j < 2 => Get(d, k[j]) = Null BY <1>0, <1>2
  <2>2. 2 \in 1..2 /\ Get(d, k[2]) # Null BY <1>0, <1>2
  <2>3. FirstNonEmpty(d, k) = Get(d, k[2]) BY <1>0, <2>1, <2>2, FirstAt
  <2> QED BY <1>0, <2>3
<1>3. ASSUME Get(d, a) = Null, Get(d, b) = Null PROVE FirstNonEmpty(d, k) = Null
  <2>1. \A j \in DOMAIN k : Get(d, k[j]) = Null BY <1>0, <1>3
  <2> QED BY <2>1, FirstNone
<1> QED BY <1>1, <1>2, <1>3 DEF k
LEMMA First3 ==
  ASSUME NEW d, NEW a, NEW b, NEW c
  PROVE  FirstNonEmpty(d, <<a, b, c>>) =
    IF Get(d, a) # Null THEN Get(d, a)
    ELSE IF Get(d, b) # Null THEN Get(d, b)
    ELSE Get(d, c)
<1> DEFINE k == <<a, b, c>>
<1>0. 3 \in Nat /\ DOMAIN k = 1..3 /\ k[1] = a /\ k[2] = b /\ k[3] = c OBVIOUS
<1> HIDE DEF k
<1>1. ASSUME Get(d, a) # Null PROVE FirstNonEmpty(d, k) = Get(d, a)
  <2>1. \A j \in 1..3 : j < 1 => Get(d, k[j]) = Null BY <1>0, <1>1
  <2>2. 1 \in 1..3 /\ Get(d, k[1]) # Null BY <1>0, <1>1
  <2>3. FirstNonEmpty(d, k) = Get(d, k[1]) BY <1>0, <2>1, <2>2, FirstAt
  <2> QED BY <1>0, <2>3
<1>2. ASSUME Get(d, a) = Null, Get(d, b) # Null PROVE FirstNonEmpty(d, k) = Get(d, b)
  <2>1. \A j \in 1..3 : j < 2 => Get(d, k[j]) = Null BY <1>0, <1>2
  <2>2. 2 \in 1..3 /\ Get(d, k[2]) # Null BY <1>0, <1>2
  <2>3. FirstNonEmpty(d, k) = Get(d, k[2]) BY <1>0, <2>1, <2>2, FirstAt
  <2> QED BY <1>0, <2>3
<1>3. ASSUME Get(d, a) = Null, Get(d, b) = Null, Get(d, c) # Null
      PROVE  FirstNonEmpty(d, k) = Get(d, c)
  <2>1. \A j \in 1..3 : j < 3 => Get(d, k[j]) = Null BY <1>0, <1>3
  <2>2. 3 \in 1..3 /\ Get(d, k[3]) # Null BY <1>0, <1>3
  <2>3. FirstNonEmpty(d, k) = Get(d, k[3]) BY <1>0, <2>1, <2>2, FirstAt
  <2> QED BY <1>0, <2>3
<1>4. ASSUME Get(d, a) = Null, Get(d, b) = Null, Get(d, c) = Null PROVE FirstNonEmpty(d, k) = Null
  <2>1. \A j \in DOMAIN k : Get(d, k[j]) = Null BY <1>0, <1>4
  <2> QED BY <2>1, FirstNone
<1> QED BY <1>1, <1>2, <1>3, <1>4 DEF k
LEMMA First4 ==
  ASSUME NEW d, NEW a, NEW b, NEW c, NEW e
  PROVE  FirstNonEmpty(d, <<a, b, c, e>>) =
    IF Get(d, a) # Null THEN Get(d, a)
    ELSE IF Get(d, b) # Null THEN Get(d, b)
    ELSE IF Get(d, c) # Null THEN Get(d, c)
    ELSE Get(d, e)
<1> DEFINE k == <<a, b, c, e>>
<1>0. 4 \in Nat /\ DOMAIN k = 1..4 /\ k[1] = a /\ k[2] = b /\ k[3] = c /\ k[4] = e OBVIOUS
<1> HIDE DEF k
<1>1. ASSUME Get(d, a) # Null PROVE FirstNonEmpty(d, k) = Get(d, a)
  <2>1. \A j \in 1..4 : j < 1 => Get(d, k[j]) = Null BY <1>0, <1>1
  <2>2. 1 \in 1..4 /\ Get(d, k[1]) # Null BY <1>0, <1>1
  <2>3. FirstNonEmpty(d, k) = Get(d, k[1]) BY <1>0, <2>1, <2>2, FirstAt
  <2> QED BY <1>0, <2>3
<1>2. ASSUME Get(d, a) = Null, Get(d, b) # Null PROVE FirstNonEmpty(d, k) = Get(d, b)
  <2>1. \A j \in 1..4 : j < 2 => Get(d, k[j]) = Null BY <1>0, <1>2
  <2>2. 2 \in 1..4 /\ Get(d, k[2]) # Null BY <1>0, <1>2
  <2>3. FirstNonEmpty(d, k) = Get(d, k[2]) BY <1>0, <2>1, <2>2, FirstAt
  <2> QED BY <1>0, <2>3
<1>3. ASSUME Get(d, a) = Null, Get(d, b) = Null, Get(d, c) # Null
      PROVE  FirstNonEmpty(d, k) = Get(d, c)
  <2>1. \A j \in 1..4 : j < 3 => Get(d, k[j]) = Null BY <1>0, <1>3
  <2>2. 3 \in 1..4 /\ Get(d, k[3]) # Null BY <1>0, <1>3
  <2>3. FirstNonEmpty(d, k) = Get(d, k[3]) BY <1>0, <2>1, <2>2, FirstAt
  <2> QED BY <1>0, <2>3
<1>4. ASSUME Get(d, a) = Null, Get(d, b) = Null, Get(d, c) = Null, Get(d, e) # Null
      PROVE  FirstNonEmpty(d, k) = Get(d, e)
  <2>1. \A j \in 1..4 : j < 4 => Get(d, k[j]) = Null BY <1>0, <1>4
  <2>2. 4 \in 1..4 /\ Get(d, k[4]) # Null BY <1>0, <1>4
  <2>3. FirstNonEmpty(d, k) = Get(d, k[4]) BY <1>0, <2>1, <2>2, FirstAt
  <2> QED BY <1>0, <2>3
<1>5. ASSUME Get(d, a) = Null, Get(d, b) = Null, Get(d, c) = Null, Get(d, e) = Null
      PROVE  FirstNonEmpty(d, k) = Null
  <2>1. \A j \in DOMAIN k : Get(d, k[j]) = Null BY <1>0, <1>5
  <2> QED BY <2>1, FirstNone
<1> QED BY <1>1, <1>2, <1>3, <1>4, <1>5 DEF k
LEMMA FirstGiven5 ==
  ASSUME NEW d, NEW a, NEW b, NEW c, NEW e, NEW g, Get(d, a) # Null
  PROVE  FirstNonEmpty(d, <<a, b, c, e, g>>) = Get(d, a)
<1> DEFINE k == <<a, b, c, e, g>>
<1>0. 5 \in Nat /\ DOMAIN k = 1..5 /\ k[1] = a OBVIOUS
<1> HIDE DEF k
<1>1. \A j \in 1..5 : j < 1 => Get(d, k[j]) = Null OBVIOUS
<1>2. 1 \in 1..5 /\ Get(d, k[1]) # Null BY <1>0
<1>3. FirstNonEmpty(d, k) = Get(d, k[1]) BY <1>0, <1>1, <1>2, FirstAt
<1> QED BY <1>0, <1>3 DEF k

\* An alias that the dump does not write is not read.
LEMMA Canonical ==
  ASSUME NEW c, NEW a, NEW b, Get(c, b) = Null
  PROVE  FirstNonEmpty(c, <<a, b>>) = Get(c, a)
BY First2

-----------------------------------------------------------------------------
(* Nested objects convert to themselves *)

LEMMA RefIsStable ==
  ASSUME NEW raw
  PROVE  ConstantRef(ConstantRef(raw)) = ConstantRef(raw)
<1> DEFINE id == FirstNonEmpty(raw, <<"definitionId", "definition_id">>)
<1>1. CASE ConstantRef(raw) = Null BY <1>1 DEF ConstantRef
<1>2. CASE ConstantRef(raw) # Null
  <2>1. id # Null /\ ConstantRef(raw) = [definitionId |-> id] BY <1>2 DEF ConstantRef
  <2> HIDE DEF id
  <2> DEFINE r == [definitionId |-> id]
  <2>2. Get(r, "definitionId") = id /\ Get(r, "definition_id") = Null BY DEF Get
  <2>3. r # Null BY <1>2, <2>1
  <2> HIDE DEF r
  <2>4. FirstNonEmpty(r, <<"definitionId", "definition_id">>) = id BY <2>2, Canonical
  <2>5. ConstantRef(r) = [definitionId |-> id] BY <2>1, <2>3, <2>4 DEF ConstantRef
  <2> QED BY <2>1, <2>5 DEF r
<1> QED BY <1>1, <1>2

LEMMA ResultIsStable ==
  ASSUME NEW raw, ResultConstant(raw) # Invalid
  PROVE  ResultConstant(ResultConstant(raw)) = ResultConstant(raw)
<1> DEFINE id == FirstNonEmpty(raw, <<"definitionId", "definition_id">>)
           name == FirstNonEmpty(raw, <<"name">>)
           type == Or(FirstNonEmpty(raw, <<"valueType", "value_type">>), "json")
           r == [definitionId |-> id, name |-> name, valueType |-> type]
<1>1. CASE ResultConstant(raw) = Null BY <1>1 DEF ResultConstant
<1>2. CASE ResultConstant(raw) # Null
  <2>1. /\ id # Null /\ name # Null /\ type \in SourceTypes
        /\ ResultConstant(raw) = r
    BY <1>2 DEF ResultConstant
  <2> HIDE DEF id, name, type
  <2>2. /\ Get(r, "definitionId") = id /\ Get(r, "definition_id") = Null
        /\ Get(r, "name") = name /\ Get(r, "valueType") = type /\ Get(r, "value_type") = Null
    BY DEF Get
  <2>3. r # Null BY <1>2, <2>1
  <2> HIDE DEF r
  <2>4. type # Null BY <2>1, NullAssumption
  <2>5. FirstNonEmpty(r, <<"definitionId", "definition_id">>) = id BY <2>2, Canonical
  <2>6. FirstNonEmpty(r, <<"name">>) = name BY <2>2, First1
  <2>7. FirstNonEmpty(r, <<"valueType", "value_type">>) = type BY <2>2, Canonical
  <2>8. Or(FirstNonEmpty(r, <<"valueType", "value_type">>), "json") = type
    BY <2>4, <2>7 DEF Or
  <2>9. ResultConstant(r) = [definitionId |-> id, name |-> name, valueType |-> type]
    BY <2>1, <2>3, <2>5, <2>6, <2>8 DEF ResultConstant
  <2> QED BY <2>1, <2>9 DEF r
<1> QED BY <1>1, <1>2

LEMMA TemplateConstantIsStable ==
  ASSUME NEW c, TemplateConstant(c) # Invalid
  PROVE  TemplateConstant(TemplateConstant(c)) = TemplateConstant(c)
<1> DEFINE kind == TemplateKind(c.kind)
           t == [kind |-> kind, value |-> c.value]
<1>1. /\ kind \in TemplateKinds /\ TemplateConstant(c) = t
      /\ kind = "variable" => c.value # Null
      /\ kind = "function" => c.value \in {"now", "today"}
  BY DEF TemplateConstant
<1> HIDE DEF kind
<1>2. t.kind = kind /\ t.value = c.value OBVIOUS
<1>3. TemplateKind(kind) = kind BY <1>1 DEF TemplateKind, TemplateKinds
<1> HIDE DEF t
<1>4. TemplateConstant(t) = [kind |-> kind, value |-> c.value]
  BY <1>1, <1>2, <1>3 DEF TemplateConstant
<1> QED BY <1>1, <1>4 DEF t

\* A list of constants is no None.
LEMMA TemplateIsStable ==
  ASSUME NEW raw, MessageTemplate(raw) # Invalid,
         MessageTemplate(raw) # Null => MessageTemplate(raw).constants # Null
  PROVE  MessageTemplate(MessageTemplate(raw)) = MessageTemplate(raw)
<1> DEFINE consts == {TemplateConstant(c) : c \in Or(Get(raw, "constants"), {})}
           fields == Or(Get(raw, "fields"), {})
           each == FirstNonEmpty(raw, <<"forEach", "for_each">>)
           t == [forEach |-> each, fields |-> fields, constants |-> consts]
<1>1. CASE MessageTemplate(raw) = Null BY <1>1 DEF MessageTemplate
<1>2. CASE MessageTemplate(raw) # Null
  <2>1. /\ Invalid \notin consts /\ ~(fields = {} /\ consts = {})
        /\ MessageTemplate(raw) = t
    BY <1>2 DEF MessageTemplate
  <2>2. \A x \in consts : TemplateConstant(x) = x
    BY <2>1, TemplateConstantIsStable
  <2>3. fields = Null => fields = {} BY DEF Or
  <2> HIDE DEF consts, fields, each
  <2>4. /\ Get(t, "forEach") = each /\ Get(t, "for_each") = Null
        /\ Get(t, "fields") = fields /\ Get(t, "constants") = consts
        /\ t.constants = consts
    BY DEF Get
  <2>5. t # Null BY <1>2, <2>1
  <2> HIDE DEF t
  <2>6. consts # Null BY <1>2, <2>1, <2>4
  <2>7. Or(Get(t, "fields"), {}) = fields BY <2>3, <2>4 DEF Or
  <2>8. {TemplateConstant(x) : x \in Or(Get(t, "constants"), {})} = consts
    BY <2>2, <2>4, <2>6 DEF Or
  <2>9. FirstNonEmpty(t, <<"forEach", "for_each">>) = each BY <2>4, Canonical
  <2>10. MessageTemplate(t) = [forEach |-> each, fields |-> fields, constants |-> consts]
    BY <2>1, <2>5, <2>7, <2>8, <2>9 DEF MessageTemplate
  <2> QED BY <2>1, <2>10 DEF t
<1> QED BY <1>1, <1>2

LEMMA BindingsAreStable ==
  ASSUME NEW raw, ParameterBindings(raw) # Invalid
  PROVE  ParameterBindings(ParameterBindings(raw)) = ParameterBindings(raw)
<1> DEFINE bound == [p \in DOMAIN raw |-> Binding(raw[p])]
<1>1. CASE ParameterBindings(raw) = Null BY <1>1 DEF ParameterBindings
<1>2. CASE ParameterBindings(raw) # Null
  <2>1. /\ \A p \in DOMAIN raw : Binding(raw[p]) # Invalid
        /\ DOMAIN raw # {} /\ ParameterBindings(raw) = bound
    BY <1>2 DEF ParameterBindings
  <2>2. \A p \in DOMAIN raw : Binding(raw[p]) = raw[p] BY <2>1 DEF Binding
  <2>3. DOMAIN bound = DOMAIN raw /\ \A p \in DOMAIN raw : bound[p] = raw[p] BY <2>2
  <2>4. bound # Null /\ bound = [p \in DOMAIN raw |-> raw[p]] BY <1>2, <2>1, <2>2
  <2> HIDE DEF bound
  <2>5. [p \in DOMAIN bound |-> Binding(bound[p])] = [p \in DOMAIN raw |-> raw[p]]
    BY <2>2, <2>3
  <2>6. ParameterBindings(bound) = bound
    BY <2>1, <2>2, <2>3, <2>4, <2>5 DEF ParameterBindings
  <2> QED BY <2>1, <2>6
<1> QED BY <1>1, <1>2

-----------------------------------------------------------------------------
(* The DTO classes convert their dumps to themselves *)

\* A dump is a record of code, type and the fields of its class.
LEMMA BaseFields ==
  ASSUME NEW d, NEW code, NEW default, NEW fields, NEW c,
         "commandCode" \notin DOMAIN fields, "commandType" \notin DOMAIN fields,
         c = Base(d, code, default, fields), c # Invalid
  PROVE  /\ TypeOr(d, default) \in CommandTypes
         /\ Get(c, "commandCode") = code /\ Get(c, "commandType") = TypeOr(d, default)
         /\ \A key \in DOMAIN fields : Get(c, key) = fields[key]
         /\ \A key : key \notin {"commandCode", "commandType"} \cup DOMAIN fields
              => Get(c, key) = Null
<1>1. /\ TypeOr(d, default) \in CommandTypes
      /\ c = [key \in {"commandCode", "commandType"} \cup DOMAIN fields |->
                CASE key = "commandCode" -> code
                  [] key = "commandType" -> TypeOr(d, default)
                  [] OTHER               -> fields[key]]
  BY DEF Base
<1>2. DOMAIN c = {"commandCode", "commandType"} \cup DOMAIN fields BY <1>1
<1>3. c["commandCode"] = code /\ c["commandType"] = TypeOr(d, default) BY <1>1
<1>4. \A key \in DOMAIN fields : c[key] = fields[key] BY <1>1
<1>5. /\ Get(c, "commandCode") = code /\ Get(c, "commandType") = TypeOr(d, default)
      /\ \A key \in DOMAIN fields : Get(c, key) = fields[key]
      /\ \A key : key \notin {"commandCode", "commandType"} \cup DOMAIN fields
           => Get(c, key) = Null
  BY <1>2, <1>3, <1>4 DEF Get
<1> QED BY <1>1, <1>5

\* A dump that yields the same fields again yields the same dump.
LEMMA BaseAgain ==
  ASSUME NEW d, NEW code, NEW default, NEW fields, NEW c,
         "commandCode" \notin DOMAIN fields, "commandType" \notin DOMAIN fields,
         "command_type" \notin DOMAIN fields,
         c = Base(d, code, default, fields), c # Invalid
  PROVE  Base(c, code, default, fields) = c
<1>1. /\ TypeOr(d, default) \in CommandTypes
      /\ Get(c, "commandType") = TypeOr(d, default) /\ Get(c, "command_type") = Null
  BY BaseFields
<1>2. TypeOr(d, default) # Null BY <1>1, NullAssumption
<1>3. TypeOr(c, default) = TypeOr(d, default) BY <1>1, <1>2, Canonical DEF TypeOr, Or
<1> QED BY <1>1, <1>3 DEF Base

LEMMA SourceIsStable ==
  ASSUME NEW d, NEW c, Get(c, "sourceConstantRef") = SourceRef(d),
         Get(c, "source_constant_ref") = Null
  PROVE  SourceRef(c) = SourceRef(d)
<1>1. FirstNonEmpty(c, <<"sourceConstantRef", "source_constant_ref">>) = SourceRef(d)
  BY Canonical
<1> QED BY <1>1, RefIsStable DEF SourceRef

LEMMA ResultOfIsStable ==
  ASSUME NEW d, NEW c, Get(c, "resultConstant") = ResultOf(d),
         Get(c, "result_constant") = Null, ResultOf(d) # Invalid
  PROVE  ResultOf(c) = ResultOf(d)
<1>1. FirstNonEmpty(c, <<"resultConstant", "result_constant">>) = ResultOf(d) BY Canonical
<1> QED BY <1>1, ResultIsStable DEF ResultOf

LEMMA TableNameIsStable ==
  ASSUME NEW d, NEW c, Get(c, "table_name") = TableName(d), Get(c, "tableName") = Null
  PROVE  TableName(c) = TableName(d)
BY Canonical DEF TableName

LEMMA DeleteConstantIsStable ==
  ASSUME NEW d, NEW c, c = DeleteConstantDto(d), c # Invalid
  PROVE  DeleteConstantDto(c) = c
<1> DEFINE ref == ConstantRef(FirstNonEmpty(d, <<"targetConstantRef", "target_constant_ref">>))
           fields == [targetConstantRef |-> ref]
<1>1. ref # Null /\ c = Base(d, "deleteConstant", "context", fields) BY DEF DeleteConstantDto
<1>2. ConstantRef(ref) = ref BY RefIsStable
<1> HIDE DEF ref
<1>3. DOMAIN fields = {"targetConstantRef"} /\ fields["targetConstantRef"] = ref OBVIOUS
<1> HIDE DEF fields
<1>4. Get(c, "targetConstantRef") = ref /\ Get(c, "target_constant_ref") = Null
  BY <1>1, <1>3, BaseFields
<1>5. Base(c, "deleteConstant", "context", fields) = c BY <1>1, <1>3, BaseAgain
<1>6. FirstNonEmpty(c, <<"targetConstantRef", "target_constant_ref">>) = ref BY <1>4, Canonical
<1> QED BY <1>1, <1>2, <1>5, <1>6 DEF DeleteConstantDto, fields

LEMMA SleepIsStable ==
  ASSUME NEW d, NEW c, c = SleepDto(d), c # Invalid
  PROVE  SleepDto(c) = c
<1> DEFINE time == IntOr(FirstNonEmpty(d, <<"duration">>), 0)
           fields == [duration |-> time]
<1>1. c = Base(d, "sleep", "action", fields) BY DEF SleepDto
<1>2. IntOr(time, 0) = time BY DEF IntOr
<1> HIDE DEF time
<1>3. DOMAIN fields = {"duration"} /\ fields["duration"] = time OBVIOUS
<1> HIDE DEF fields
<1>4. Get(c, "duration") = time BY <1>1, <1>3, BaseFields
<1>5. Base(c, "sleep", "action", fields) = c BY <1>1, <1>3, BaseAgain
<1>6. FirstNonEmpty(c, <<"duration">>) = time BY <1>4, First1
<1> QED BY <1>2, <1>5, <1>6 DEF SleepDto, fields

LEMMA SendMessageQueueIsStable ==
  ASSUME NEW d, NEW c, c = SendMessageQueueDto(d), c # Invalid,
         Get(c, "message_template") # Null => Get(c, "message_template").constants # Null
  PROVE  SendMessageQueueDto(c) = c
<1> DEFINE raw == FirstNonEmpty(d, <<"message_template", "messageTemplate">>)
           template == MessageTemplate(raw)
           fields == [queue_id |-> QueueOf(d), sourceConstantRef |-> SourceRef(d),
                      message_template |-> template, resultConstant |-> ResultOf(d)]
<1>1. /\ QueueOf(d) # Null /\ SourceRef(d) # Null /\ template # Invalid /\ ResultOf(d) # Invalid
      /\ c = Base(d, "sendMessageQueue", "action", fields)
  BY DEF SendMessageQueueDto
<1> HIDE DEF raw, template
<1>2. /\ DOMAIN fields = {"queue_id", "sourceConstantRef", "message_template", "resultConstant"}
      /\ fields["queue_id"] = QueueOf(d) /\ fields["sourceConstantRef"] = SourceRef(d)
      /\ fields["message_template"] = template /\ fields["resultConstant"] = ResultOf(d)
  OBVIOUS
<1> HIDE DEF fields
<1>3. /\ Get(c, "queue_id") = QueueOf(d) /\ Get(c, "queueId") = Null
      /\ Get(c, "sourceConstantRef") = SourceRef(d) /\ Get(c, "source_constant_ref") = Null
      /\ Get(c, "message_template") = template /\ Get(c, "messageTemplate") = Null
      /\ Get(c, "resultConstant") = ResultOf(d) /\ Get(c, "result_constant") = Null
  BY <1>1, <1>2, BaseFields
<1>4. Base(c, "sendMessageQueue", "action", fields) = c BY <1>1, <1>2, BaseAgain
<1>5. MessageTemplate(template) = template BY <1>1, <1>3, TemplateIsStable DEF template
<1>6. FirstNonEmpty(c, <<"message_template", "messageTemplate">>) = template BY <1>3, Canonical
<1>7. QueueOf(c) = QueueOf(d) BY <1>3, Canonical DEF QueueOf
<1>8. SourceRef(c) = SourceRef(d) BY <1>3, SourceIsStable
<1>9. ResultOf(c) = ResultOf(d) BY <1>1, <1>3, ResultOfIsStable
<1> QED BY <1>1, <1>4, <1>5, <1>6, <1>7, <1>8, <1>9 DEF SendMessageQueueDto, fields

LEMMA SaveTableIsStable ==
  ASSUME NEW d, NEW c, c = SaveTableDto(d), c # Invalid
  PROVE  SaveTableDto(c) = c
<1> DEFINE fields == [table_name |-> TableName(d), sourceConstantRef |-> SourceRef(d),
                      resultConstant |-> ResultOf(d)]
<1>1. /\ TableName(d) # Null /\ SourceRef(d) # Null /\ ResultOf(d) # Invalid
      /\ c = Base(d, "saveTable", "action", fields)
  BY DEF SaveTableDto
<1>2. /\ DOMAIN fields = {"table_name", "sourceConstantRef", "resultConstant"}
      /\ fields["table_name"] = TableName(d) /\ fields["sourceConstantRef"] = SourceRef(d)
      /\ fields["resultConstant"] = ResultOf(d)
  OBVIOUS
<1> HIDE DEF fields
<1>3. /\ Get(c, "table_name") = TableName(d) /\ Get(c, "tableName") = Null
      /\ Get(c, "sourceConstantRef") = SourceRef(d) /\ Get(c, "source_constant_ref") = Null
      /\ Get(c, "resultConstant") = ResultOf(d) /\ Get(c, "result_constant") = Null
  BY <1>1, <1>2, BaseFields
<1>4. Base(c, "saveTable", "action", fields) = c BY <1>1, <1>2, BaseAgain
<1>5. TableName(c) = TableName(d) BY <1>3, TableNameIsStable
<1>6. SourceRef(c) = SourceRef(d) BY <1>3, SourceIsStable
<1>7. ResultOf(c) = ResultOf(d) BY <1>1, <1>3, ResultOfIsStable
<1> QED BY <1>1, <1>4, <1>5, <1>6, <1>7 DEF SaveTableDto, fields

LEMMA TableIsStable ==
  ASSUME NEW d, NEW code, NEW c, c = TableDto(d, code), c # Invalid
  PROVE  TableDto(c, code) = c
<1> DEFINE fields == [table_name |-> TableName(d)]
<1>1. TableName(d) # Null /\ c = Base(d, code, "action", fields) BY DEF TableDto
<1>2. DOMAIN fields = {"table_name"} /\ fields["table_name"] = TableName(d) OBVIOUS
<1> HIDE DEF fields
<1>3. Get(c, "table_name") = TableName(d) /\ Get(c, "tableName") = Null
  BY <1>1, <1>2, BaseFields
<1>4. Base(c, code, "action", fields) = c BY <1>1, <1>2, BaseAgain
<1>5. TableName(c) = TableName(d) BY <1>3, TableNameIsStable
<1> QED BY <1>1, <1>4, <1>5 DEF TableDto, fields

LEMMA DatasetIsStable ==
  ASSUME NEW d, NEW code, NEW c, c = DatasetDto(d, code), c # Invalid
  PROVE  DatasetDto(c, code) = c
<1> DEFINE id == FirstNonEmpty(d, <<"dataset_id", "datasetId">>)
           fields == [dataset_id |-> id]
<1>1. id # Null /\ c = Base(d, code, "action", fields) BY DEF DatasetDto
<1> HIDE DEF id
<1>2. DOMAIN fields = {"dataset_id"} /\ fields["dataset_id"] = id OBVIOUS
<1> HIDE DEF fields
<1>3. Get(c, "dataset_id") = id /\ Get(c, "datasetId") = Null BY <1>1, <1>2, BaseFields
<1>4. Base(c, code, "action", fields) = c BY <1>1, <1>2, BaseAgain
<1>5. FirstNonEmpty(c, <<"dataset_id", "datasetId">>) = id BY <1>3, Canonical
<1> QED BY <1>1, <1>4, <1>5 DEF DatasetDto, fields

\* Without a connection and without a dataset there is still neither.
LEMMA ExportDatasetIsStable ==
  ASSUME NEW d, NEW c, c = ExportDatasetDto(d), c # Invalid
  PROVE  ExportDatasetDto(c) = c
<1> DEFINE mode == ModeName(Or(FirstNonEmpty(d, <<"mode", "export_mode", "exportMode">>), "append"))
           given == Or(FirstNonEmpty(d, <<"mapping_keys", "mappingKeys">>), {})
           keys == IF given = {} THEN Null ELSE given
           connection == FirstNonEmpty(d, <<"connection_id", "connectionId",
                                            "dataset_id", "datasetId">>)
           dataset == FirstNonEmpty(d, <<"dataset_id", "datasetId">>)
           fields == [connection_id |-> connection, table_name |-> TableName(d),
                      sourceConstantRef |-> SourceRef(d), mode |-> mode,
                      mapping_keys |-> keys, dataset_id |-> dataset,
                      resultConstant |-> ResultOf(d)]
<1>1. /\ SourceRef(d) # Null /\ ResultOf(d) # Invalid /\ mode \in ExportModes
      /\ c = Base(d, "exportDataset", "action", fields)
  BY DEF ExportDatasetDto
<1>2. ModeName(mode) = mode BY <1>1 DEF ModeName, ExportModes
<1>3. mode # Null BY <1>1, NullAssumption
<1>4. (IF Or(keys, {}) = {} THEN Null ELSE Or(keys, {})) = keys BY DEF Or
<1>5. connection = Null => dataset = Null BY First2, First4
<1> HIDE DEF mode, given, keys, connection, dataset
<1>6. /\ DOMAIN fields = {"connection_id", "table_name", "sourceConstantRef", "mode",
                          "mapping_keys", "dataset_id", "resultConstant"}
      /\ fields["connection_id"] = connection /\ fields["table_name"] = TableName(d)
      /\ fields["sourceConstantRef"] = SourceRef(d) /\ fields["mode"] = mode
      /\ fields["mapping_keys"] = keys /\ fields["dataset_id"] = dataset
      /\ fields["resultConstant"] = ResultOf(d)
  OBVIOUS
<1> HIDE DEF fields
<1>7. /\ Get(c, "connection_id") = connection /\ Get(c, "connectionId") = Null
      /\ Get(c, "table_name") = TableName(d) /\ Get(c, "tableName") = Null
      /\ Get(c, "sourceConstantRef") = SourceRef(d) /\ Get(c, "source_constant_ref") = Null
      /\ Get(c, "mode") = mode /\ Get(c, "mapping_keys") = keys /\ Get(c, "mappingKeys") = Null
      /\ Get(c, "dataset_id") = dataset /\ Get(c, "datasetId") = Null
      /\ Get(c, "resultConstant") = ResultOf(d) /\ Get(c, "result_constant") = Null
  BY <1>1, <1>6, BaseFields
<1>8. Base(c, "exportDataset", "action", fields) = c BY <1>1, <1>6, BaseAgain
<1>9. FirstNonEmpty(c, <<"mode", "export_mode", "exportMode">>) = mode BY <1>3, <1>7, First3
<1>10. ModeName(Or(FirstNonEmpty(c, <<"mode", "export_mode", "exportMode">>), "append")) = mode
  BY <1>2, <1>3, <1>9 DEF Or
<1>11. FirstNonEmpty(c, <<"mapping_keys", "mappingKeys">>) = keys BY <1>7, Canonical
<1>12. FirstNonEmpty(c, <<"dataset_id", "datasetId">>) = dataset BY <1>7, Canonical
<1>13. FirstNonEmpty(c, <<"connection_id", "connectionId", "dataset_id", "datasetId">>)
         = connection
  BY <1>5, <1>7, First4
<1>14. TableName(c) = TableName(d) BY <1>7, TableNameIsStable
<1>15. SourceRef(c) = SourceRef(d) BY <1>7, SourceIsStable
<1>16. ResultOf(c) = ResultOf(d) BY <1>1, <1>7, ResultOfIsStable
<1> QED BY <1>1, <1>4, <1>8, <1>10, <1>11, <1>12, <1>13, <1>14, <1>15, <1>16
        DEF ExportDatasetDto, fields

\* A list of references is no None.
LEMMA RunSuiteIsStable ==
  ASSUME NEW d, NEW c, c = RunSuiteDto(d), c # Invalid, Get(c, "constantRefs") # Null
  PROVE  RunSuiteDto(c) = c
<1> DEFINE id == FirstNonEmpty(d, <<"suite_id", "suiteId">>)
           given == Or(FirstNonEmpty(d, <<"constantRefs", "constant_refs">>), {})
           refs == {ConstantRef(r) : r \in given} \ {Null}
           fields == [suite_id |-> id, constantRefs |-> refs, resultConstant |-> ResultOf(d)]
<1>1. /\ id # Null /\ ResultOf(d) # Invalid
      /\ c = Base(d, "runSuite", "action", fields)
  BY DEF RunSuiteDto
<1>2. {ConstantRef(r) : r \in refs} \ {Null} = refs
  <2>1. \A r \in refs : r # Null /\ ConstantRef(r) = r BY RefIsStable
  <2> HIDE DEF refs
  <2> QED BY <2>1
<1> HIDE DEF id, given, refs
<1>3. /\ DOMAIN fields = {"suite_id", "constantRefs", "resultConstant"}
      /\ fields["suite_id"] = id /\ fields["constantRefs"] = refs
      /\ fields["resultConstant"] = ResultOf(d)
  OBVIOUS
<1> HIDE DEF fields
<1>4. /\ Get(c, "suite_id") = id /\ Get(c, "suiteId") = Null
      /\ Get(c, "constantRefs") = refs /\ Get(c, "constant_refs") = Null
      /\ Get(c, "resultConstant") = ResultOf(d) /\ Get(c, "result_constant") = Null
  BY <1>1, <1>3, BaseFields
<1>5. Base(c, "runSuite", "action", fields) = c BY <1>1, <1>3, BaseAgain
<1>6. FirstNonEmpty(c, <<"suite_id", "suiteId">>) = id BY <1>4, Canonical
<1>7. FirstNonEmpty(c, <<"constantRefs", "constant_refs">>) = refs BY <1>4, Canonical
<1>8. Or(refs, {}) = refs BY <1>4 DEF Or
<1>9. ResultOf(c) = ResultOf(d) BY <1>1, <1>4, ResultOfIsStable
<1> QED BY <1>1, <1>2, <1>5, <1>6, <1>7, <1>8, <1>9 DEF RunSuiteDto, fields

LEMMA AssertIsStable ==
  ASSUME NEW d, NEW code, NEW c, c = AssertDto(d, code), c # Invalid
  PROVE  AssertDto(c, code) = c
<1> DEFINE actual == ConstantRef(FirstNonEmpty(d, <<"actualConstantRef", "actual_constant_ref">>))
           expected == FirstNonEmpty(d, <<"expected">>)
           array == FirstNonEmpty(d, <<"expected_json_array_id", "expectedJsonArrayId",
                                       "json_array_id">>)
           given == Or(FirstNonEmpty(d, <<"compare_keys", "compareKeys">>), {})
           keys == IF given = {} THEN Null ELSE given
           fields == [actualConstantRef |-> actual, expected |-> expected,
                      expected_json_array_id |-> array, compare_keys |-> keys]
<1>1. /\ actual # Null /\ AssertComplete(code, expected, array, given)
      /\ c = Base(d, code, "assert", fields)
  BY DEF AssertDto
<1>2. ConstantRef(actual) = actual BY RefIsStable
<1>3. Or(keys, {}) = given BY DEF Or
<1> HIDE DEF actual, expected, array, given
<1>4. /\ DOMAIN fields = {"actualConstantRef", "expected", "expected_json_array_id",
                          "compare_keys"}
      /\ fields["actualConstantRef"] = actual /\ fields["expected"] = expected
      /\ fields["expected_json_array_id"] = array /\ fields["compare_keys"] = keys
  OBVIOUS
<1> HIDE DEF fields
<1>5. /\ Get(c, "actualConstantRef") = actual /\ Get(c, "actual_constant_ref") = Null
      /\ Get(c, "expected") = expected /\ Get(c, "expected_json_array_id") = array
      /\ Get(c, "expectedJsonArrayId") = Null /\ Get(c, "json_array_id") = Null
      /\ Get(c, "compare_keys") = keys /\ Get(c, "compareKeys") = Null
  BY <1>1, <1>4, BaseFields
<1>6. Base(c, code, "assert", fields) = c BY <1>1, <1>4, BaseAgain
<1>7. FirstNonEmpty(c, <<"actualConstantRef", "actual_constant_ref">>) = actual
  BY <1>5, Canonical
<1>8. FirstNonEmpty(c, <<"expected">>) = expected BY <1>5, First1
<1>9. FirstNonEmpty(c, <<"expected_json_array_id", "expectedJsonArrayId", "json_array_id">>)
        = array
  BY <1>5, First3
<1>10. Or(FirstNonEmpty(c, <<"compare_keys", "compareKeys">>), {}) = given
  BY <1>3, <1>5, Canonical
<1> QED BY <1>1, <1>2, <1>6, <1>7, <1>8, <1>9, <1>10 DEF AssertDto, fields

\* A number that was filled in is not filled in again.
LEMMA NumberIsStable ==
  ASSUME NEW x, NEW default
  PROVE  IntOr(IntOr(x, default), default) = IntOr(x, default)
BY DEF IntOr

\* The dump has a name, a context and a type, and they come first.
LEMMA InitConstantIsStable ==
  ASSUME NEW d, NEW c, c = InitConstantDto(d), c # Invalid
  PROVE  InitConstantDto(c) = c
<1> DEFINE id == FirstNonEmpty(d, <<"definitionId", "definition_id">>)
           target == FirstNonEmpty(d, <<"target">>)
           datum == FirstNonEmpty(d, <<"data">>)
           value == FirstNonEmpty(d, <<"value", "data">>)
           parameters == ParameterBindings(FirstNonEmpty(d, <<"parameters">>))
           type == DetectSourceType(d, Or(datum, value))
           name == ConstantName(d, target)
           context == ConstantContext(d, target)
           chosen == ConstantValue(d, value, datum, type)
           array == ArrayOf(d)
           dataset == DatasetOf(d)
           queue == QueueOf(d)
           retry == IntOr(FirstNonEmpty(d, <<"retry">>), 3)
           most == IntOr(FirstNonEmpty(d, <<"max_messages", "maxMessages">>), 1000)
           key == FirstNonEmpty(d, <<"key">>)
           scope == FirstNonEmpty(d, <<"scope">>)
           fields == [definitionId |-> id, name |-> name, context |-> context,
                      sourceType |-> type, value |-> chosen, data |-> datum,
                      json_array_id |-> array, dataset_id |-> dataset, queue_id |-> queue,
                      retry |-> retry, max_messages |-> most, target |-> target,
                      key |-> key, scope |-> scope, parameters |-> parameters]
<1>1. /\ id # Null /\ name # Null /\ context \in ConstantContexts /\ type \in SourceTypes
      /\ parameters # Invalid
      /\ c = Base(d, "initConstant", "context", fields)
  BY DEF InitConstantDto
<1>2. chosen = Null => datum = Null /\ value = Null
  <2>1. value = Null => datum = Null BY First1, First2
  <2> HIDE DEF value, datum, type
  <2> QED BY <2>1 DEF ConstantValue
<1>3. context # Null /\ type # Null /\ ContextName(context) = context
  BY <1>1, NullAssumption DEF ContextName, ConstantContexts
<1>4. ParameterBindings(parameters) = parameters BY <1>1, BindingsAreStable
<1>5. IntOr(retry, 3) = retry /\ IntOr(most, 1000) = most BY NumberIsStable
<1> HIDE DEF id, target, datum, value, parameters, type, name, context, chosen, array, dataset,
             queue, retry, most, key, scope
<1>6. /\ DOMAIN fields = {"definitionId", "name", "context", "sourceType", "value", "data",
                          "json_array_id", "dataset_id", "queue_id", "retry", "max_messages",
                          "target", "key", "scope", "parameters"}
      /\ fields["definitionId"] = id /\ fields["name"] = name /\ fields["context"] = context
      /\ fields["sourceType"] = type /\ fields["value"] = chosen /\ fields["data"] = datum
      /\ fields["json_array_id"] = array /\ fields["dataset_id"] = dataset
      /\ fields["queue_id"] = queue /\ fields["retry"] = retry
      /\ fields["max_messages"] = most /\ fields["target"] = target
      /\ fields["key"] = key /\ fields["scope"] = scope /\ fields["parameters"] = parameters
  OBVIOUS
<1> HIDE DEF fields
<1>7. /\ Get(c, "definitionId") = id /\ Get(c, "name") = name /\ Get(c, "context") = context
      /\ Get(c, "sourceType") = type /\ Get(c, "value") = chosen /\ Get(c, "data") = datum
      /\ Get(c, "json_array_id") = array /\ Get(c, "dataset_id") = dataset
      /\ Get(c, "queue_id") = queue /\ Get(c, "retry") = retry /\ Get(c, "max_messages") = most
      /\ Get(c, "target") = target /\ Get(c, "key") = key /\ Get(c, "scope") = scope
      /\ Get(c, "parameters") = parameters
  BY <1>1, <1>6, BaseFields
<1>8. /\ Get(c, "definition_id") = Null /\ Get(c, "source_type") = Null
      /\ Get(c, "jsonArrayId") = Null /\ Get(c, "datasetId") = Null
      /\ Get(c, "data_source_id") = Null /\ Get(c, "queueId") = Null
      /\ Get(c, "maxMessages") = Null
  BY <1>1, <1>6, BaseFields
<1>9. Base(c, "initConstant", "context", fields) = c BY <1>1, <1>6, BaseAgain
<1>10. /\ FirstNonEmpty(c, <<"definitionId", "definition_id">>) = id
       /\ FirstNonEmpty(c, <<"target">>) = target /\ FirstNonEmpty(c, <<"data">>) = datum
       /\ FirstNonEmpty(c, <<"key">>) = key /\ FirstNonEmpty(c, <<"scope">>) = scope
       /\ FirstNonEmpty(c, <<"parameters">>) = parameters
       /\ FirstNonEmpty(c, <<"retry">>) = retry
       /\ FirstNonEmpty(c, <<"max_messages", "maxMessages">>) = most
  BY <1>7, <1>8, First1, Canonical
<1>11. FirstNonEmpty(c, <<"value", "data">>) = chosen BY <1>2, <1>7, First2
<1>12. QueueOf(c) = queue /\ ArrayOf(c) = array BY <1>7, <1>8, Canonical DEF QueueOf, ArrayOf
<1>13. DatasetOf(c) = dataset BY <1>7, <1>8, First3 DEF DatasetOf
<1>14. ConstantName(c, target) = name BY <1>1, <1>7, First2 DEF ConstantName, Or
<1>15. ConstantContext(c, target) = context
  <2>1. FirstNonEmpty(c, <<"context", "scope">>) = context BY <1>3, <1>7, First2
  <2> QED BY <1>3, <2>1 DEF ConstantContext, Or
<1>16. ExplicitType(c) = type BY <1>7, <1>8, Canonical DEF ExplicitType
<1>17. \A p : DetectSourceType(c, p) = type BY <1>3, <1>16 DEF DetectSourceType
<1>18. ConstantValue(c, chosen, datum, type) = chosen BY <1>3, <1>16 DEF ConstantValue
<1> QED BY <1>1, <1>4, <1>5, <1>9, <1>10, <1>11, <1>12, <1>13, <1>14, <1>15, <1>17, <1>18
        DEF InitConstantDto, fields

-----------------------------------------------------------------------------
(* convert_to_config_command_type *)

\* A configuration of another code is not converted.
LEMMA KnownCodes ==
  ASSUME NEW d, Convert(d) # Invalid
  PROVE  CodeOf(d) \in CommandCodes
BY DEF Convert, CommandCodes

\* The class that a code selects.
LEMMA ByCode ==
  ASSUME NEW d
  PROVE  /\ CodeOf(d) = "initConstant" => Convert(d) = InitConstantDto(d)
         /\ CodeOf(d) = "deleteConstant" => Convert(d) = DeleteConstantDto(d)
         /\ CodeOf(d) = "sleep" => Convert(d) = SleepDto(d)
         /\ CodeOf(d) = "sendMessageQueue" => Convert(d) = SendMessageQueueDto(d)
         /\ CodeOf(d) = "saveTable" => Convert(d) = SaveTableDto(d)
         /\ CodeOf(d) \in {"dropTable", "cleanTable"} => Convert(d) = TableDto(d, CodeOf(d))
         /\ CodeOf(d) = "exportDataset" => Convert(d) = ExportDatasetDto(d)
         /\ CodeOf(d) \in {"dropDataset", "cleanDataset"} => Convert(d) = DatasetDto(d, CodeOf(d))
         /\ CodeOf(d) = "runSuite" => Convert(d) = RunSuiteDto(d)
         /\ CodeOf(d) \in AssertCodes => Convert(d) = AssertDto(d, CodeOf(d))
BY DEF Convert, AssertCodes

LEMMA BaseCode ==
  ASSUME NEW d, NEW code, NEW default, NEW fields, Base(d, code, default, fields) # Invalid
  PROVE  Get(Base(d, code, default, fields), "commandCode") = code
<1> DEFINE c == [key \in {"commandCode", "commandType"} \cup DOMAIN fields |->
                   CASE key = "commandCode" -> code
                     [] key = "commandType" -> TypeOr(d, default)
                     [] OTHER               -> fields[key]]
<1>1. Base(d, code, default, fields) = c BY DEF Base
<1>2. Get(c, "commandCode") = code BY DEF Get
<1> HIDE DEF c
<1> QED BY <1>1, <1>2

\* The dump names its code.
LEMMA CodeIsKept ==
  ASSUME NEW d, Convert(d) # Invalid
  PROVE  Get(Convert(d), "commandCode") = CodeOf(d)
<1> DEFINE code == CodeOf(d)
<1> HIDE DEF code
<1>0. CodeOf(d) = code BY DEF code
<1>1. CASE code = "initConstant"
  <2>1. Convert(d) = InitConstantDto(d) BY <1>0, <1>1, ByCode
  <2> QED BY <1>0, <1>1, <2>1, BaseCode DEF InitConstantDto
<1>2. CASE code = "deleteConstant"
  <2>1. Convert(d) = DeleteConstantDto(d) BY <1>0, <1>2, ByCode
  <2> QED BY <1>0, <1>2, <2>1, BaseCode DEF DeleteConstantDto
<1>3. CASE code = "sleep"
  <2>1. Convert(d) = SleepDto(d) BY <1>0, <1>3, ByCode
  <2> QED BY <1>0, <1>3, <2>1, BaseCode DEF SleepDto
<1>4. CASE code = "sendMessageQueue"
  <2>1. Convert(d) = SendMessageQueueDto(d) BY <1>0, <1>4, ByCode
  <2> QED BY <1>0, <1>4, <2>1, BaseCode DEF SendMessageQueueDto
<1>5. CASE code = "saveTable"
  <2>1. Convert(d) = SaveTableDto(d) BY <1>0, <1>5, ByCode
  <2> QED BY <1>0, <1>5, <2>1, BaseCode DEF SaveTableDto
<1>6. CASE code \in {"dropTable", "cleanTable"}
  <2>1. Convert(d) = TableDto(d, code) BY <1>0, <1>6, ByCode
  <2> QED BY <1>0, <2>1, BaseCode DEF TableDto
<1>7. CASE code = "exportDataset"
  <2>1. Convert(d) = ExportDatasetDto(d) BY <1>0, <1>7, ByCode
  <2> QED BY <1>0, <1>7, <2>1, BaseCode DEF ExportDatasetDto
<1>8. CASE code \in {"dropDataset", "cleanDataset"}
  <2>1. Convert(d) = DatasetDto(d, code) BY <1>0, <1>8, ByCode
  <2> QED BY <1>0, <2>1, BaseCode DEF DatasetDto
<1>9. CASE code = "runSuite"
  <2>1. Convert(d) = RunSuiteDto(d) BY <1>0, <1>9, ByCode
  <2> QED BY <1>0, <1>9, <2>1, BaseCode DEF RunSuiteDto
<1>10. CASE code \in AssertCodes
  <2>1. Convert(d) = AssertDto(d, code) BY <1>0, <1>10, ByCode
  <2> QED BY <1>0, <2>1, BaseCode DEF AssertDto
<1> QED
  BY <1>0, <1>1, <1>2, <1>3, <1>4, <1>5, <1>6, <1>7, <1>8, <1>9, <1>10, KnownCodes
  DEF CommandCodes

\* No legacy spelling is among the codes of dumps.
LEMMA CodeIsStable ==
  ASSUME NEW c, Get(c, "commandCode") \in CommandCodes
  PROVE  CodeOf(c) = Get(c, "commandCode")
<1>1. Get(c, "commandCode") # Null BY NullAssumption
<1>2. FirstNonEmpty(c, <<"commandCode", "command_code", "operationType", "operation_type", "type">>)
        = Get(c, "commandCode")
  BY <1>1, FirstGiven5
<1>3. /\ NormalizeCode(Get(c, "commandCode")) = Get(c, "commandCode")
      /\ Get(c, "commandCode") # "assert"
  BY DEF NormalizeCode, LegacyInits, CommandCodes, AssertCodes
<1> QED BY <1>2, <1>3 DEF CodeOf

(***************************************************************************)
(* convert_to_config_command_type of a configuration it returned gives     *)
(* that configuration back, for every dictionary it accepts: whatever mix  *)
(* of legacy and current keys, codes, contexts and modes was sent, one     *)
(* conversion removes them all, and no default is applied twice.           *)
(***************************************************************************)
THEOREM ConvertIsStable ==
  ASSUME NEW d, Convert(d) # Invalid, ListsGiven(Convert(d))
  PROVE  Convert(Convert(d)) = Convert(d)
<1> DEFINE c == Convert(d)
           code == CodeOf(d)
<1>1. Get(c, "commandCode") = code BY CodeIsKept
<1>2. code \in CommandCodes BY KnownCodes
<1> HIDE DEF c, code
<1>3. CodeOf(c) = code BY <1>1, <1>2, CodeIsStable
<1>4. /\ CodeOf(d) = code /\ c = Convert(d) /\ c # Invalid
      /\ code = "runSuite" => Get(c, "constantRefs") # Null
      /\ Get(c, "message_template") # Null => Get(c, "message_template").constants # Null
  BY <1>1 DEF c, code, ListsGiven
<1>5. CASE code = "initConstant"
  <2>1. c = InitConstantDto(d) /\ Convert(c) = InitConstantDto(c)
    BY <1>3, <1>4, <1>5, ByCode
  <2> QED BY <1>4, <2>1, InitConstantIsStable
<1>6. CASE code = "deleteConstant"
  <2>1. c = DeleteConstantDto(d) /\ Convert(c) = DeleteConstantDto(c)
    BY <1>3, <1>4, <1>6, ByCode
  <2> QED BY <1>4, <2>1, DeleteConstantIsStable
<1>7. CASE code = "sleep"
  <2>1. c = SleepDto(d) /\ Convert(c) = SleepDto(c) BY <1>3, <1>4, <1>7, ByCode
  <2> QED BY <1>4, <2>1, SleepIsStable
<1>8. CASE code = "sendMessageQueue"
  <2>1. c = SendMessageQueueDto(d) /\ Convert(c) = SendMessageQueueDto(c)
    BY <1>3, <1>4, <1>8, ByCode
  <2> QED BY <1>4, <2>1, SendMessageQueueIsStable
<1>9. CASE code = "saveTable"
  <2>1. c = SaveTableDto(d) /\ Convert(c) = SaveTableDto(c) BY <1>3, <1>4, <1>9, ByCode
  <2> QED BY <1>4, <2>1, SaveTableIsStable
<1>10. CASE code \in {"dropTable", "cleanTable"}
  <2>1. c = TableDto(d, code) /\ Convert(c) = TableDto(c, code)
    BY <1>3, <1>4, <1>10, ByCode
  <2> QED BY <1>4, <2>1, TableIsStable
<1>11. CASE code = "exportDataset"
  <2>1. c = ExportDatasetDto(d) /\ Convert(c) = ExportDatasetDto(c)
    BY <1>3, <1>4, <1>11, ByCode
  <2> QED BY <1>4, <2>1, ExportDatasetIsStable
<1>12. CASE code \in {"dropDataset", "cleanDataset"}
  <2>1. c = DatasetDto(d, code) /\ Convert(c) = DatasetDto(c, code)
    BY <1>3, <1>4, <1>12, ByCode
  <2> QED BY <1>4, <2>1, DatasetIsStable
<1>13. CASE code = "runSuite"
  <2>1. c = RunSuiteDto(d) /\ Convert(c) = RunSuiteDto(c) BY <1>3, <1>4, <1>13, ByCode
  <2> QED BY <1>4, <1>13, <2>1, RunSuiteIsStable
<1>14. CASE code \in AssertCodes
  <2>1. c = AssertDto(d, code) /\ Convert(c) = AssertDto(c, code)
    BY <1>3, <1>4, <1>14, ByCode
  <2> QED BY <1>4, <2>1, AssertIsStable
<1> QED
  BY <1>2, <1>4, <1>5, <1>6, <1>7, <1>8, <1>9, <1>10, <1>11, <1>12, <1>13, <1>14
  DEF CommandCodes

-----------------------------------------------------------------------------
(* What a dump writes *)

\* No dump but that of an initConstant has a context, and that is a known one.
LEMMA NoContext ==
  ASSUME NEW d, NEW code, NEW default, NEW fields, NEW c,
         "commandCode" \notin DOMAIN fields, "commandType" \notin DOMAIN fields,
         "context" \notin DOMAIN fields,
         c = Base(d, code, default, fields), c # Invalid
  PROVE  Get(c, "context") = Null
<1>1. /\ c = [key \in {"commandCode", "commandType"} \cup DOMAIN fields |->
                CASE key = "commandCode" -> code
                  [] key = "commandType" -> TypeOr(d, default)
                  [] OTHER               -> fields[key]]
  BY DEF Base
<1>2. DOMAIN c = {"commandCode", "commandType"} \cup DOMAIN fields BY <1>1
<1>3. "context" \notin DOMAIN c BY <1>2
<1> QED BY <1>3 DEF Get

LEMMA InitContext ==
  ASSUME NEW d, NEW c, c = InitConstantDto(d), c # Invalid
  PROVE  Get(c, "context") \in ConstantContexts
<1> DEFINE context == ConstantContext(d, FirstNonEmpty(d, <<"target">>))
<1>1. PICK fields : /\ context \in ConstantContexts
                    /\ "commandCode" \notin DOMAIN fields /\ "commandType" \notin DOMAIN fields
                    /\ "context" \in DOMAIN fields /\ fields["context"] = context
                    /\ c = Base(d, "initConstant", "context", fields)
  BY DEF InitConstantDto
<1> HIDE DEF context
<1>2. Get(c, "context") = fields["context"] BY <1>1, BaseFields
<1> QED BY <1>1, <1>2

LEMMA ContextOf ==
  ASSUME NEW d, NEW c, c = Convert(d), c # Invalid
  PROVE  /\ Get(c, "commandCode") \in CommandCodes
         /\ Get(c, "commandCode") = "initConstant" => Get(c, "context") \in ConstantContexts
         /\ Get(c, "commandCode") # "initConstant" => Get(c, "context") = Null
<1> DEFINE code == CodeOf(d)
<1> HIDE DEF code
<1>0. CodeOf(d) = code /\ code \in CommandCodes /\ Get(c, "commandCode") = code
  BY CodeIsKept, KnownCodes DEF code
<1>1. CASE code = "initConstant"
  <2>1. c = InitConstantDto(d) BY <1>0, <1>1, ByCode
  <2> QED BY <1>0, <1>1, <2>1, InitContext
<1>2. CASE code = "deleteConstant"
  <2>1. c = DeleteConstantDto(d) BY <1>0, <1>2, ByCode
  <2>2. Get(c, "context") = Null BY <2>1, NoContext DEF DeleteConstantDto
  <2> QED BY <1>0, <1>2, <2>2
<1>3. CASE code = "sleep"
  <2>1. c = SleepDto(d) BY <1>0, <1>3, ByCode
  <2>2. Get(c, "context") = Null BY <2>1, NoContext DEF SleepDto
  <2> QED BY <1>0, <1>3, <2>2
<1>4. CASE code = "sendMessageQueue"
  <2>1. c = SendMessageQueueDto(d) BY <1>0, <1>4, ByCode
  <2>2. Get(c, "context") = Null BY <2>1, NoContext DEF SendMessageQueueDto
  <2> QED BY <1>0, <1>4, <2>2
<1>5. CASE code = "saveTable"
  <2>1. c = SaveTableDto(d) BY <1>0, <1>5, ByCode
  <2>2. Get(c, "context") = Null BY <2>1, NoContext DEF SaveTableDto
  <2> QED BY <1>0, <1>5, <2>2
<1>6. CASE code \in {"dropTable", "cleanTable"}
  <2>1. c = TableDto(d, code) BY <1>0, <1>6, ByCode
  <2>2. Get(c, "context") = Null BY <2>1, NoContext DEF TableDto
  <2> QED BY <1>0, <1>6, <2>2
<1>7. CASE code = "exportDataset"
  <2>1. c = ExportDatasetDto(d) BY <1>0, <1>7, ByCode
  <2>2. Get(c, "context") = Null BY <2>1, NoContext DEF ExportDatasetDto
  <2> QED BY <1>0, <1>7, <2>2
<1>8. CASE code \in {"dropDataset", "cleanDataset"}
  <2>1. c = DatasetDto(d, code) BY <1>0, <1>8, ByCode
  <2>2. Get(c, "context") = Null BY <2>1, NoContext DEF DatasetDto
  <2> QED BY <1>0, <1>8, <2>2
<1>9. CASE code = "runSuite"
  <2>1. c = RunSuiteDto(d) BY <1>0, <1>9, ByCode
  <2>2. Get(c, "context") = Null BY <2>1, NoContext DEF RunSuiteDto
  <2> QED BY <1>0, <1>9, <2>2
<1>10. CASE code \in AssertCodes
  <2>1. c = AssertDto(d, code) BY <1>0, <1>10, ByCode
  <2>2. Get(c, "context") = Null BY <2>1, NoContext DEF AssertDto
  <2> QED BY <1>0, <1>10, <2>2 DEF AssertCodes
<1> QED
  BY <1>0, <1>1, <1>2, <1>3, <1>4, <1>5, <1>6, <1>7, <1>8, <1>9, <1>10 DEF CommandCodes

-----------------------------------------------------------------------------
(* What is stored *)

\* The dumps of what an editor may send, and what a draft may hold.
Dumps == {Convert(offer[2]) : offer \in Offers} \ {Invalid}
Drafted == {offer[2] : offer \in Offers} \cup Dumps

LEMMA DumpIsStable ==
  ASSUME NEW c \in Dumps
  PROVE  Convert(c) = c /\ c # Invalid
<1>1. PICK offer \in Offers : c = Convert(offer[2]) BY DEF Dumps
<1>2. c # Invalid BY DEF Dumps
<1> DEFINE raw == offer[2]
<1>3. c = Convert(raw) /\ ListsGiven(Convert(raw)) BY <1>1, <1>2, OffersAssumption
<1> HIDE DEF raw
<1> QED BY <1>2, <1>3, ConvertIsStable

LEMMA DraftedIsDumped ==
  ASSUME NEW raw \in Drafted, Convert(raw) # Invalid
  PROVE  Convert(raw) \in Dumps
<1>1. CASE raw \in Dumps BY <1>1, DumpIsStable
<1>2. CASE raw \in {offer[2] : offer \in Offers}
  <2>1. PICK offer \in Offers : raw = offer[2] BY <1>2
  <2> QED BY <2>1 DEF Dumps
<1> QED BY <1>1, <1>2 DEF Drafted

\* The planner lets no section pass with an unsound command in it.
LEMMA PlannedIsSound ==
  ASSUME NEW cfgs, NEW section, NEW visible, PlanSection(cfgs, section, visible).ok
  PROVE  \A n \in DOMAIN cfgs : Sound(cfgs[n], section)
<1>1. Failure.ok = FALSE BY DEF Failure
<1>2. CASE \E n \in DOMAIN cfgs : ~Sound(cfgs[n], section)
  <2>1. PlanSection(cfgs, section, visible) = Failure BY <1>2 DEF PlanSection
  <2> QED BY <1>1, <2>1
<1> QED BY <1>2

LEMMA Sections ==
  /\ \A i \in SuiteItems :
       Section(i) = IF i \in {"beforeAll", "beforeEach", "afterEach", "afterAll"} THEN i ELSE "test"
  /\ \A i \in MockSections : Section(i) = i
BY TestsAssumption DEF Section, SuiteItems, SuiteSections, MockSections

\* A graph is accepted only when every command of it is sound.
LEMMA SuiteIsSound ==
  ASSUME NEW commands, DOMAIN commands = SuiteItems, PlanSuite(commands).ok
  PROVE  \A i \in SuiteItems : \A n \in DOMAIN commands[i] :
           Sound(Convert(commands[i][n]), Section(i))
<1> DEFINE suite == Converted(commands)
           all == PlanSection(suite["beforeAll"], "beforeAll", NoDefinitions)
           each == PlanSection(suite["beforeEach"], "beforeEach", all.defs)
           plan == [i \in DOMAIN suite |->
                      CASE i = "beforeAll"  -> all
                        [] i = "beforeEach" -> each
                        [] i = "afterAll"   -> PlanSection(suite[i], "afterAll", all.defs)
                        [] i = "afterEach"  -> PlanSection(suite[i], "afterEach", each.defs)
                        [] OTHER            -> PlanSection(suite[i], "test", each.defs)]
           ok == \A i \in DOMAIN suite : plan[i].ok
           planned == [i \in DOMAIN suite |-> plan[i].planned]
<1>1. /\ DOMAIN suite = SuiteItems
      /\ \A i \in SuiteItems : /\ DOMAIN suite[i] = DOMAIN commands[i]
                               /\ \A n \in DOMAIN commands[i] :
                                    suite[i][n] = Convert(commands[i][n])
  BY DEF Converted
<1>2. PlanSuite(commands) = [ok |-> ok, planned |-> planned] BY DEF PlanSuite
<1> SUFFICES ASSUME NEW i \in SuiteItems
             PROVE  \A n \in DOMAIN suite[i] : Sound(suite[i][n], Section(i))
  BY <1>1
<1> HIDE DEF planned
<1>3. plan[i].ok
  <2> HIDE DEF ok
  <2>1. [ok |-> ok, planned |-> planned].ok = ok OBVIOUS
  <2>2. ok BY <1>2, <2>1
  <2> QED BY <1>1, <2>2 DEF ok
<1> HIDE DEF suite, ok
<1>4. CASE i = "beforeAll"
  <2>1. PlanSection(suite[i], i, NoDefinitions).ok BY <1>1, <1>3, <1>4
  <2> QED BY <1>4, <2>1, PlannedIsSound, Sections
<1> HIDE DEF all
<1>5. CASE i = "beforeEach"
  <2>1. PlanSection(suite[i], i, all.defs).ok BY <1>1, <1>3, <1>5
  <2> QED BY <1>5, <2>1, PlannedIsSound, Sections
<1> HIDE DEF each
<1>6. CASE i = "afterAll"
  <2>1. PlanSection(suite[i], i, all.defs).ok BY <1>1, <1>3, <1>6
  <2> QED BY <1>6, <2>1, PlannedIsSound, Sections
<1>7. CASE i = "afterEach"
  <2>1. PlanSection(suite[i], i, each.defs).ok BY <1>1, <1>3, <1>7
  <2> QED BY <1>7, <2>1, PlannedIsSound, Sections
<1>8. CASE i \notin {"beforeAll", "beforeEach", "afterEach", "afterAll"}
  <2>1. PlanSection(suite[i], "test", each.defs).ok BY <1>1, <1>3, <1>8
  <2>2. Section(i) = "test" BY <1>8, Sections
  <2> QED BY <2>1, <2>2, PlannedIsSound
<1> QED BY <1>4, <1>5, <1>6, <1>7, <1>8

LEMMA MockIsSound ==
  ASSUME NEW commands, DOMAIN commands = MockSections, PlanMock(commands).ok
  PROVE  \A i \in MockSections : \A n \in DOMAIN commands[i] :
           Sound(Convert(commands[i][n]), Section(i))
<1> DEFINE mock == Converted(commands)
           plan == [s \in MockSections |-> PlanSection(mock[s], s, NoDefinitions)]
           ok == \A s \in MockSections : plan[s].ok
           planned == [s \in MockSections |-> plan[s].planned]
<1>1. \A i \in MockSections :
        /\ DOMAIN mock[i] = DOMAIN commands[i]
        /\ \A n \in DOMAIN commands[i] : mock[i][n] = Convert(commands[i][n])
  BY DEF Converted
<1>2. PlanMock(commands) = [ok |-> ok, planned |-> planned] BY DEF PlanMock
<1> SUFFICES ASSUME NEW i \in MockSections
             PROVE  \A n \in DOMAIN mock[i] : Sound(mock[i][n], i)
  BY <1>1, Sections
<1> HIDE DEF planned
<1>3. plan[i].ok
  <2> HIDE DEF ok
  <2>1. [ok |-> ok, planned |-> planned].ok = ok OBVIOUS
  <2>2. ok BY <1>2, <2>1
  <2> QED BY <2>2 DEF ok
<1> HIDE DEF mock, ok
<1>4. PlanSection(mock[i], i, NoDefinitions).ok BY <1>3
<1> QED BY <1>4, PlannedIsSound

-----------------------------------------------------------------------------
(* A saved command converts to itself *)

\* What is stored are dumps that the planner found sound.
Saved ==
  /\ owner \in {"suite", "mock"}
  /\ stored \in [Items -> Seq(Dumps)]
  /\ \A i \in Items : \A n \in DOMAIN stored[i] : Sound(stored[i][n], Section(i))
  /\ owner = "mock" => draft \in [Items -> Seq(Drafted)]

SuiteSaved == \E offer \in Offers : offer[1] \in Items /\ SaveSuite(offer[1], offer[2])
MockComposed == \E offer \in Offers : offer[1] \in Items /\ ComposeMock(offer[1], offer[2])

\* Only these four touch what is edited.
LEMMA EditSteps ==
  ASSUME [Next]_vars
  PROVE  SuiteSaved \/ MockComposed \/ ReloadMock \/ SaveMock \/ UNCHANGED editVars
<1>1. CASE StartRun BY <1>1 DEF StartRun
<1>2. CASE TakeCommand BY <1>2 DEF TakeCommand, editVars
<1>3. CASE Refused BY <1>3 DEF Refused, editVars
<1>4. CASE Fails BY <1>4 DEF Fails, editVars
<1>5. CASE InitConstant BY <1>5 DEF InitConstant
<1>6. CASE DeleteConstant BY <1>6 DEF DeleteConstant, editVars
<1>7. CASE Sleep BY <1>7 DEF Sleep, editVars
<1>8. CASE SendMessageQueue BY <1>8 DEF SendMessageQueue
<1>9. CASE SaveTable BY <1>9 DEF SaveTable
<1>10. CASE DropTable BY <1>10 DEF DropTable
<1>11. CASE CleanTable BY <1>11 DEF CleanTable
<1>12. CASE ExportDataset BY <1>12 DEF ExportDataset
<1>13. CASE ExportBreaks BY <1>13 DEF ExportBreaks, editVars
<1>14. CASE DropDataset BY <1>14 DEF DropDataset
<1>15. CASE CleanDataset BY <1>15 DEF CleanDataset
<1>16. CASE RunSuite BY <1>16 DEF RunSuite
<1>17. CASE AssertCommand BY <1>17 DEF AssertCommand, editVars
<1>18. CASE UNCHANGED vars BY <1>18 DEF vars
<1> QED
  BY <1>1, <1>2, <1>3, <1>4, <1>5, <1>6, <1>7, <1>8, <1>9, <1>10, <1>11, <1>12, <1>13,
     <1>14, <1>15, <1>16, <1>17, <1>18
  DEF Next, SuiteSaved, MockComposed

LEMMA SavedInit == Init => Saved
<1> SUFFICES ASSUME Init PROVE Saved OBVIOUS
<1>1. stored = [i \in Items |-> <<>>] /\ draft = stored /\ owner \in {"suite", "mock"} BY DEF Init
<1>2. stored \in [Items -> Seq(Dumps)] /\ draft \in [Items -> Seq(Drafted)] BY <1>1
<1>3. \A i \in Items : DOMAIN stored[i] = {} BY <1>1
<1> QED BY <1>1, <1>2, <1>3 DEF Saved

\* The suite that is saved is the stored one with one sound dump more.
LEMMA SaveSuiteKeeps ==
  ASSUME Saved, NEW item \in Items, NEW raw \in Drafted, SaveSuite(item, raw)
  PROVE  Saved' /\ owner = "suite" /\ owner' = owner
<1> DEFINE suite == [stored EXCEPT ![item] = Append(@, Convert(raw))]
<1>1. /\ owner = "suite" /\ owner' = owner /\ Convert(raw) # Invalid /\ stored' = suite
      /\ PlanSuite(suite).ok
  BY DEF SaveSuite, SuiteAccepted
<1>2. Items = SuiteItems /\ Items' = Items BY <1>1 DEF Items
<1>3. Convert(raw) \in Dumps BY <1>1, DraftedIsDumped
<1>4. suite \in [Items -> Seq(Dumps)] BY <1>3 DEF Saved
<1> HIDE DEF suite
<1>5. \A i \in Items : \A n \in DOMAIN suite[i] : Sound(Convert(suite[i][n]), Section(i))
  BY <1>1, <1>2, <1>4, SuiteIsSound
<1>6. \A i \in Items : \A n \in DOMAIN suite[i] : suite[i][n] \in Dumps BY <1>4
<1>7. \A i \in Items : \A n \in DOMAIN suite[i] : Sound(suite[i][n], Section(i))
  BY <1>5, <1>6, DumpIsStable
<1>8. owner' \in {"suite", "mock"} /\ owner' # "mock" BY <1>1
<1>9. stored' \in [Items' -> Seq(Dumps)] BY <1>1, <1>2, <1>4
<1>10. (\A i \in Items : \A n \in DOMAIN stored[i] : Sound(stored[i][n], Section(i)))'
  BY <1>1, <1>2, <1>7
<1> QED BY <1>1, <1>8, <1>9, <1>10 DEF Saved

\* What a mock server is saved as are the dumps of its draft.
LEMMA SaveMockKeeps ==
  ASSUME Saved, SaveMock
  PROVE  Saved' /\ owner = "mock" /\ owner' = owner
<1>1. /\ owner = "mock" /\ owner' = owner /\ PlanMock(draft).ok
      /\ stored' = Converted(draft) /\ draft' = stored'
  BY DEF SaveMock, MockAccepted
<1>2. Items = MockSections /\ Items' = Items BY <1>1 DEF Items
<1>3. draft \in [Items -> Seq(Drafted)] BY <1>1 DEF Saved
<1>4. \A i \in Items : \A n \in DOMAIN draft[i] :
        draft[i][n] \in Drafted /\ Sound(Convert(draft[i][n]), Section(i))
  BY <1>1, <1>2, <1>3, MockIsSound
<1>5. \A i \in Items : \A n \in DOMAIN draft[i] : Convert(draft[i][n]) \in Dumps
  BY <1>4, DraftedIsDumped DEF Sound
<1> DEFINE dumped == Converted(draft)
<1>6. /\ dumped = [i \in Items |-> [n \in DOMAIN draft[i] |-> Convert(draft[i][n])]]
  BY <1>3 DEF Converted
<1>7. \A i \in Items : Len(draft[i]) \in Nat /\ DOMAIN draft[i] = 1..Len(draft[i]) BY <1>3
<1>8. \A i \in Items : [n \in DOMAIN draft[i] |-> Convert(draft[i][n])] \in Seq(Dumps)
  BY <1>5, <1>7
<1>9. dumped \in [Items -> Seq(Dumps)] BY <1>6, <1>8
<1>10. \A i \in Items : \A n \in DOMAIN dumped[i] : Sound(dumped[i][n], Section(i))
  BY <1>4, <1>6
<1>11. \A s \in Seq(Dumps) : s \in Seq(Drafted)
  <2>1. Dumps \subseteq Drafted BY DEF Drafted
  <2> HIDE DEF Dumps, Drafted
  <2> QED BY <2>1
<1>12. dumped \in [Items -> Seq(Drafted)] BY <1>9, <1>11
<1> HIDE DEF dumped
<1>13. stored' = dumped /\ draft' = dumped BY <1>1 DEF dumped
<1>14. owner' \in {"suite", "mock"} BY <1>1
<1>15. stored' \in [Items' -> Seq(Dumps)] BY <1>2, <1>9, <1>13
<1>16. draft' \in [Items' -> Seq(Drafted)] BY <1>2, <1>12, <1>13
<1>17. (\A i \in Items : \A n \in DOMAIN stored[i] : Sound(stored[i][n], Section(i)))'
  BY <1>2, <1>10, <1>13
<1> QED BY <1>1, <1>14, <1>15, <1>16, <1>17 DEF Saved

LEMMA SavedStep == Saved /\ [Next]_vars => Saved'
<1> SUFFICES ASSUME Saved, [Next]_vars PROVE Saved' OBVIOUS
<1>1. CASE SuiteSaved
  <2>1. PICK offer \in Offers : offer[1] \in Items /\ SaveSuite(offer[1], offer[2])
    BY <1>1 DEF SuiteSaved
  <2>2. offer[2] \in Drafted BY DEF Drafted
  <2> QED BY <2>1, <2>2, SaveSuiteKeeps
<1>2. CASE MockComposed
  <2>1. PICK offer \in Offers : offer[1] \in Items /\ ComposeMock(offer[1], offer[2])
    BY <1>2 DEF MockComposed
  <2> DEFINE item == offer[1]
             raw == offer[2]
  <2>2. raw \in Drafted /\ item \in Items BY <2>1 DEF Drafted
  <2>3. /\ owner = "mock" /\ draft' = [draft EXCEPT ![item] = Append(@, raw)]
        /\ owner' = owner /\ stored' = stored
    BY <2>1 DEF ComposeMock
  <2> HIDE DEF item, raw
  <2>4. draft \in [Items -> Seq(Drafted)] BY <2>3 DEF Saved
  <2>5. draft' \in [Items -> Seq(Drafted)] BY <2>2, <2>3, <2>4
  <2>6. Items' = Items BY <2>3 DEF Items
  <2> QED BY <2>3, <2>5, <2>6 DEF Saved
<1>3. CASE ReloadMock
  <2>1. owner' = owner /\ stored' = stored /\ draft' = stored BY <1>3 DEF ReloadMock
  <2>2. Items' = Items BY <2>1 DEF Items
  <2>3. Dumps \subseteq Drafted BY DEF Drafted
  <2>4. stored \in [Items -> Seq(Drafted)] BY <2>3 DEF Saved
  <2> QED BY <2>1, <2>2, <2>4 DEF Saved
<1>4. CASE SaveMock BY <1>4, SaveMockKeeps
<1>5. CASE UNCHANGED editVars
  <2>1. owner' = owner /\ stored' = stored /\ draft' = draft BY <1>5 DEF editVars
  <2>2. Items' = Items BY <2>1 DEF Items
  <2> QED BY <2>1, <2>2 DEF Saved
<1> QED BY <1>1, <1>2, <1>3, <1>4, <1>5, EditSteps

THEOREM SpecSaved == Spec => []Saved
<1> QED BY SavedInit, SavedStep, PTL DEF Spec

(***************************************************************************)
(* Every stored command reads back, at the next load or execution, as the  *)
(* configuration that was stored.                                          *)
(***************************************************************************)
THEOREM SpecConversionStable == Spec => []ConversionStable
<1>1. Saved => ConversionStable
  <2> SUFFICES ASSUME Saved, NEW i \in Items, NEW n \in DOMAIN stored[i]
               PROVE  Convert(stored[i][n]) = stored[i][n]
    BY DEF ConversionStable
  <2>1. stored[i][n] \in Dumps BY DEF Saved
  <2> QED BY <2>1, DumpIsStable
<1> QED BY <1>1, SpecSaved, PTL

-----------------------------------------------------------------------------
(* A saved suite is accepted again *)

\* A section without commands declares nothing.
LEMMA EmptySection ==
  ASSUME NEW cfgs, DOMAIN cfgs = {}, NEW section, NEW visible
  PROVE  PlanSection(cfgs, section, visible) = NewPlan(visible)
<1> DEFINE e == [i \in DOMAIN cfgs |-> i]
           base == NewPlan(visible)
           Step(s, iter) == LET x == Max(s)
                            IN  PlanCommand(iter[s \ {x}], cfgs[e[x]], section, e[x])
           body(iter) == [s \in SUBSET (DOMAIN e) |-> IF s = {} THEN base ELSE Step(s, iter)]
           walk == CHOOSE iter : iter = body(iter)
<1>1. DOMAIN e = {} OBVIOUS
<1> HIDE DEF base
<1>2. PlanSection(cfgs, section, visible) = walk[DOMAIN e]
  BY DEF PlanSection, FoldLeftDomain, FoldLeft, MapThenFoldSet, base
<1> HIDE DEF Step, e
<1>3. \E iter : iter = body(iter)
  <2> DEFINE w == [s \in SUBSET (DOMAIN e) |-> base]
  <2>1. w = body(w) BY <1>1
  <2> HIDE DEF body, w
  <2> QED BY <2>1
<1>4. walk = body(walk)
  <2> HIDE DEF body
  <2> QED BY <1>3
<1> HIDE DEF walk
<1>5. walk[{}] = base BY <1>1, <1>4
<1> QED BY <1>1, <1>2, <1>5 DEF base

\* A suite without commands is accepted, with nothing to insert.
LEMMA EmptySuite ==
  ASSUME NEW commands, DOMAIN commands = SuiteItems,
         \A i \in SuiteItems : DOMAIN commands[i] = {}, NEW defs
  PROVE  PlanSuite(commands).ok /\ InsertsCleanly(defs, PlanSuite(commands).planned)
<1> DEFINE suite == Converted(commands)
           all == PlanSection(suite["beforeAll"], "beforeAll", NoDefinitions)
           each == PlanSection(suite["beforeEach"], "beforeEach", all.defs)
           plan == [i \in DOMAIN suite |->
                      CASE i = "beforeAll"  -> all
                        [] i = "beforeEach" -> each
                        [] i = "afterAll"   -> PlanSection(suite[i], "afterAll", all.defs)
                        [] i = "afterEach"  -> PlanSection(suite[i], "afterEach", each.defs)
                        [] OTHER            -> PlanSection(suite[i], "test", each.defs)]
           ok == \A i \in DOMAIN suite : plan[i].ok
           planned == [i \in DOMAIN suite |-> plan[i].planned]
           Blank(p) == p.ok = TRUE /\ p.planned = <<>>
<1>1. DOMAIN suite = SuiteItems /\ \A i \in SuiteItems : DOMAIN suite[i] = {} BY DEF Converted
<1>2. PlanSuite(commands) = [ok |-> ok, planned |-> planned] BY DEF PlanSuite
<1> HIDE DEF suite
<1>3. \A i \in SuiteItems : \A section, visible : Blank(PlanSection(suite[i], section, visible))
  <2> SUFFICES ASSUME NEW i \in SuiteItems, NEW section, NEW visible
               PROVE  Blank(PlanSection(suite[i], section, visible))
    OBVIOUS
  <2>1. PlanSection(suite[i], section, visible) = NewPlan(visible) BY <1>1, EmptySection
  <2> QED BY <2>1 DEF NewPlan
<1>4. \A i \in SuiteItems : Blank(plan[i])
  <2> SUFFICES ASSUME NEW i \in SuiteItems PROVE Blank(plan[i]) OBVIOUS
  <2>1. "beforeAll" \in SuiteItems /\ "beforeEach" \in SuiteItems BY DEF SuiteItems
  <2> HIDE DEF Blank
  <2>2. Blank(all) BY <1>3, <2>1
  <2>3. Blank(each) BY <1>3, <2>1
  <2> HIDE DEF all, each
  <2>4. /\ Blank(PlanSection(suite[i], "afterAll", all.defs))
        /\ Blank(PlanSection(suite[i], "afterEach", each.defs))
        /\ Blank(PlanSection(suite[i], "test", each.defs))
    BY <1>3
  <2> QED BY <1>1, <2>2, <2>3, <2>4
<1> HIDE DEF plan
<1>5. ok BY <1>1, <1>4
<1>6. DOMAIN planned = SuiteItems /\ \A i \in SuiteItems : planned[i] = <<>> BY <1>1, <1>4
<1>7. PlanSuite(commands).planned = planned
  <2> HIDE DEF ok, planned
  <2> QED BY <1>2
<1>8. PlanSuite(commands).ok
  <2> HIDE DEF ok, planned
  <2>1. ok = TRUE BY <1>5
  <2> QED BY <1>2, <2>1
<1> HIDE DEF planned
<1>9. Places(planned) = {} BY <1>6 DEF Places
<1>10. InsertsCleanly(defs, planned) BY <1>9 DEF InsertsCleanly, PlannedIds
<1> QED BY <1>7, <1>8, <1>10

\* The definitions of a save are the suite's, and the next save deletes them.
LEMMA OthersKeepTheirRows ==
  ASSUME NEW defs, NEW planned,
         PlannedIds(planned) \cap DOMAIN WithoutSuite(defs) = {}
  PROVE  DOMAIN WithoutSuite(Inserted(WithoutSuite(defs), planned, "suite"))
           \subseteq DOMAIN WithoutSuite(defs)
<1> DEFINE others == WithoutSuite(defs)
           after == Inserted(others, planned, "suite")
<1>1. DOMAIN others \cap PlannedIds(planned) = {} OBVIOUS
<1> HIDE DEF others
<1>2. DOMAIN after = DOMAIN others \cup PlannedIds(planned) BY DEF Inserted
<1>3. \A d \in PlannedIds(planned) : after[d].owner = "suite"
  <2> SUFFICES ASSUME NEW d \in PlannedIds(planned) PROVE after[d].owner = "suite" OBVIOUS
  <2>1. PICK def : after[d] = Row(def, "suite") BY <1>1 DEF Inserted
  <2> QED BY <2>1 DEF Row
<1> HIDE DEF after
<1>4. DOMAIN WithoutSuite(after) = DOMAIN after \ Owned(after) BY DEF WithoutSuite
<1>5. DOMAIN WithoutSuite(after) \subseteq DOMAIN others BY <1>2, <1>3, <1>4 DEF Owned
<1> QED BY <1>5 DEF after, others

LEMMA ResavableInit == Init => StoredSuiteCanBeSavedAgain
<1> SUFFICES ASSUME Init, owner = "suite" PROVE SuiteAccepted(PlanSuite(stored))
  BY DEF StoredSuiteCanBeSavedAgain
<1>1. Items = SuiteItems /\ stored = [i \in Items |-> <<>>] BY DEF Init, Items
<1>2. DOMAIN stored = SuiteItems /\ \A i \in SuiteItems : DOMAIN stored[i] = {} BY <1>1
<1>3. PlanSuite(stored).ok /\ InsertsCleanly(WithoutSuite(table), PlanSuite(stored).planned)
  BY <1>2, EmptySuite
<1> QED BY <1>3 DEF SuiteAccepted

\* What was planned from the suite just saved is planned again, and its rows
\* are no longer in the way.
LEMMA SaveSuiteIsResavable ==
  ASSUME NEW item, NEW raw, SaveSuite(item, raw)
  PROVE  StoredSuiteCanBeSavedAgain'
<1> DEFINE suite == [stored EXCEPT ![item] = Append(@, Convert(raw))]
           plan == PlanSuite(suite)
<1>1. /\ SuiteAccepted(plan) /\ stored' = suite
      /\ table' = Inserted(WithoutSuite(table), plan.planned, "suite")
  BY DEF SaveSuite
<1>2. PlanSuite(stored)' = plan BY <1>1
<1> HIDE DEF suite, plan
<1>3. plan.ok /\ InsertsCleanly(WithoutSuite(table), plan.planned) BY <1>1 DEF SuiteAccepted
<1>4. DOMAIN WithoutSuite(table') \subseteq DOMAIN WithoutSuite(table)
  BY <1>1, <1>3, OthersKeepTheirRows DEF InsertsCleanly
<1>5. InsertsCleanly(WithoutSuite(table'), plan.planned) BY <1>3, <1>4 DEF InsertsCleanly
<1>6. SuiteAccepted(PlanSuite(stored))' BY <1>2, <1>3, <1>5 DEF SuiteAccepted
<1> QED BY <1>6 DEF StoredSuiteCanBeSavedAgain

LEMMA ResavableStep ==
  StoredSuiteCanBeSavedAgain /\ [Next]_vars => StoredSuiteCanBeSavedAgain'
<1> SUFFICES ASSUME StoredSuiteCanBeSavedAgain, [Next]_vars
             PROVE  StoredSuiteCanBeSavedAgain'
  OBVIOUS
<1>1. CASE SuiteSaved BY <1>1, SaveSuiteIsResavable DEF SuiteSaved
<1>2. CASE MockComposed \/ ReloadMock \/ SaveMock
  <2>1. owner = "mock" /\ owner' = owner
    BY <1>2 DEF MockComposed, ComposeMock, ReloadMock, SaveMock
  <2> QED BY <2>1 DEF StoredSuiteCanBeSavedAgain
<1>3. CASE UNCHANGED editVars
  <2>1. owner' = owner /\ stored' = stored /\ table' = table BY <1>3 DEF editVars
  <2> QED BY <2>1 DEF StoredSuiteCanBeSavedAgain, SuiteAccepted
<1> QED BY <1>1, <1>2, <1>3, EditSteps

(***************************************************************************)
(* The suite that the editor reads back is accepted by the next save: the  *)
(* planner accepts its own output, and the definitions that                *)
(* rebuild_suite_constant_definitions inserted do not collide with         *)
(* themselves, however many saves came before.                             *)
(***************************************************************************)
THEOREM SpecResavable == Spec => []StoredSuiteCanBeSavedAgain
BY ResavableInit, ResavableStep, PTL DEF Spec

-----------------------------------------------------------------------------
(* Where a run stands *)

\* Every nonempty set of positions has a least one.
LEMMA LeastOf ==
  ASSUME NEW S, S \subseteq Nat, S # {}
  PROVE  Min(S) \in S
<1>1. PICK x \in S : \A y \in S : ~(<<y, x>> \in OpToRel(<, Nat))
  BY NatLessThanWellFounded, WFMin
<1>2. ASSUME NEW y \in S PROVE x <= y
  <2>1. <<y, x>> \in Nat \X Nat OBVIOUS
  <2>2. <<y, x>>[1] = y /\ <<y, x>>[2] = x OBVIOUS
  <2>3. ~(y < x) BY <1>1, <2>1, <2>2, Zenon DEF OpToRel
  <2> QED BY <2>3
<1> QED BY <1>2 DEF Min

\* Every slot of a run belongs to an item of its owner.
LEMMA Slots ==
  ASSUME owner \in {"suite", "mock"}
  PROVE  /\ Len(Order) \in Nat /\ 1 <= Len(Order)
         /\ \A n \in 1..Len(Order) : Order[n].item \in Items
         /\ RunEnd \in Nat /\ RunEnd <= Len(Order)
         /\ Len(MockOrder) \in Nat /\ owner = "mock" => Len(MockOrder) <= Len(Order)
<1> DEFINE k == Len(TestItems)
           size == 3 * k + 2
<1>0. k \in Nat /\ size \in Nat /\ TestItems \in [1..k -> Range(TestItems)] BY TestsAssumption
<1>1. Len(MockOrder) = 2 BY DEF MockOrder
<1>2. CASE owner = "mock"
  <2> DEFINE slots == {Slot("mock.preResponse", 0), Slot("mock.postResponse", 0),
                       Slot("mock.queue", 0)}
  <2>1. Order = MockOrder \o QueueOrder BY <1>2 DEF Order
  <2>2. MockOrder \in Seq(slots) /\ QueueOrder \in Seq(slots) /\ Len(QueueOrder) = 1
    BY DEF MockOrder, QueueOrder
  <2>3. \A slot \in slots : slot.item \in MockSections BY DEF Slot, MockSections
  <2> HIDE DEF slots
  <2>5. Order \in Seq(slots) /\ Len(Order) = Len(MockOrder) + Len(QueueOrder)
    BY <2>1, <2>2, ConcatProperties
  <2>6. Len(Order) = 3 BY <1>1, <2>2, <2>5
  <2>7. \A n \in 1..Len(Order) : Order[n] \in slots BY <2>5
  <2>8. \A n \in 1..Len(Order) : Order[n].item \in MockSections BY <2>3, <2>7
  <2>4. Items = MockSections BY <1>2 DEF Items
  <2> QED BY <1>1, <2>4, <2>6, <2>8 DEF RunEnd
<1>3. CASE owner = "suite"
  <2>1. Order = SuiteOrder /\ Items = SuiteItems BY <1>3 DEF Order, Items
  <2>2. \A n \in 1..size : SuiteOrder[n].item \in SuiteItems
    <3> SUFFICES ASSUME NEW n \in 1..size PROVE SuiteOrder[n].item \in SuiteItems OBVIOUS
    <3> DEFINE t == (n + 1) \div 3
    <3>1. CASE n = 1 BY <1>0, <3>1 DEF SuiteOrder, Slot, SuiteItems
    <3>2. CASE n = size BY <1>0, <3>2 DEF SuiteOrder, Slot, SuiteItems
    <3>3. CASE n \notin {1, size} /\ n % 3 = 2 BY <1>0, <3>3 DEF SuiteOrder, Slot, SuiteItems
    <3>4. CASE n \notin {1, size} /\ n % 3 = 0
      <4>1. SuiteOrder[n] = Slot(TestItems[t], t) BY <1>0, <3>4 DEF SuiteOrder
      <4>2. t \in 1..k BY <1>0, <3>4
      <4>3. TestItems[t] \in Range(TestItems) BY <1>0, <4>2
      <4> HIDE DEF t, k
      <4> QED BY <4>1, <4>3 DEF Slot, SuiteItems
    <3>5. CASE n \notin {1, size} /\ n % 3 \notin {0, 2}
      BY <1>0, <3>5 DEF SuiteOrder, Slot, SuiteItems
    <3> QED BY <3>1, <3>2, <3>3, <3>4, <3>5
  <2>3. Len(SuiteOrder) = size
    <3>1. DOMAIN SuiteOrder = 1..size BY DEF SuiteOrder
    <3>2. SuiteOrder = [n \in 1..size |-> SuiteOrder[n]] BY DEF SuiteOrder
    <3>3. SuiteOrder \in Seq({SuiteOrder[n] : n \in 1..size}) BY <1>0, <3>2
    <3> QED BY <1>0, <3>1, <3>3
  <2>4. RunEnd = Len(Order) BY <1>3 DEF RunEnd
  <2> QED BY <1>0, <1>1, <1>3, <2>1, <2>2, <2>3, <2>4
<1> QED BY <1>2, <1>3

\* The next position due is one with commands.
LEMMA DueHasCommands ==
  ASSUME NEW n \in Nat, 1 <= n, NEW last \in Nat, last <= Len(Order), Len(Order) \in Nat
  PROVE  \/ Due(n, last) = 0
         \/ Due(n, last) \in 1..Len(Order) /\ stored[Order[Due(n, last)].item] # <<>>
<1> DEFINE busy == {m \in n..last : ~Idle(m)}
<1>1. CASE busy = {} BY <1>1 DEF Due
<1>2. CASE busy # {}
  <2>1. Due(n, last) = Min(busy) BY <1>2 DEF Due
  <2>2. busy \subseteq Nat /\ \A m \in busy : m \in 1..Len(Order) /\ ~Idle(m) OBVIOUS
  <2> HIDE DEF busy
  <2>3. Min(busy) \in busy BY <1>2, <2>2, LeastOf
  <2> QED BY <2>1, <2>2, <2>3 DEF Idle
<1> QED BY <1>1, <1>2

\* A run stands at a command of a slot, and the command at hand is that one.
Placed ==
  /\ at # 0 => at \in 1..Len(Order) /\ next \in 1..Len(stored[Here.item])
  /\ cmd # Null => /\ at # 0 /\ cmd \in Dumps
                   /\ Sound(cmd, Section(Here.item))

\* How a command ends: with the next one of its item, or with another item.
Advanced == next < Len(stored[Here.item]) /\ at' = at /\ next' = next + 1 /\ cmd' = Null
Left == /\ at' \in {0, Due(at + 1, RunEnd), Due(Len(Order), Len(Order))}
        /\ next' = 1 /\ cmd' = Null
Ended == cmd # Null /\ (Advanced \/ Left)

LEMMA LeaveIsLeft == ASSUME NEW fails, Leave(fails) PROVE Left
BY DEF Leave, Following, Left
LEMMA ReturnEnds == ASSUME NEW out, Return(out) PROVE Advanced \/ Left
BY LeaveIsLeft DEF Return, Proceed, Advanced
LEMMA RaiseEnds == ASSUME Raise PROVE Left
BY LeaveIsLeft DEF Raise

\* Every step of a run starts it, takes a command or ends one.
LEMMA RunSteps ==
  ASSUME [Next]_vars
  PROVE  \/ at = 0 /\ UNCHANGED <<at, next, cmd>>
         \/ /\ UNCHANGED editVars
            /\ UNCHANGED <<at, next, cmd>> \/ StartRun \/ TakeCommand \/ Ended
<1>1. CASE SuiteSaved \/ MockComposed
  BY <1>1 DEF SuiteSaved, SaveSuite, MockComposed, ComposeMock, runVars
<1>2. CASE ReloadMock \/ SaveMock BY <1>2 DEF ReloadMock, SaveMock, runVars
<1>3. CASE StartRun BY <1>3 DEF StartRun
<1>4. CASE TakeCommand BY <1>4 DEF TakeCommand, editVars
<1>5. CASE Refused BY <1>5, RaiseEnds DEF Refused, Ended, editVars
<1>6. CASE Fails BY <1>6, RaiseEnds DEF Fails, Allowed, Ended, editVars
<1>7. CASE InitConstant BY <1>7, ReturnEnds DEF InitConstant, Running, Allowed, Ended
<1>8. CASE DeleteConstant BY <1>8, ReturnEnds DEF DeleteConstant, Running, Allowed, Ended, editVars
<1>9. CASE Sleep BY <1>9, ReturnEnds DEF Sleep, Running, Allowed, Ended, editVars
<1>10. CASE SendMessageQueue
  BY <1>10, ReturnEnds DEF SendMessageQueue, Running, Allowed, Ended
<1>11. CASE SaveTable
  BY <1>11, ReturnEnds DEF SaveTable, ReturnsEarly, Running, Allowed, Ended
<1>12. CASE DropTable BY <1>12, ReturnEnds DEF DropTable, Running, Allowed, Ended
<1>13. CASE CleanTable BY <1>13, ReturnEnds DEF CleanTable, Running, Allowed, Ended
<1>14. CASE ExportDataset
  BY <1>14, ReturnEnds DEF ExportDataset, ExportReady, ReturnsEarly, Running, Allowed, Ended
<1>15. CASE ExportBreaks
  BY <1>15, RaiseEnds DEF ExportBreaks, ExportReady, Running, Allowed, Ended, editVars
<1>16. CASE DropDataset BY <1>16, ReturnEnds DEF DropDataset, Running, Allowed, Ended
<1>17. CASE CleanDataset BY <1>17, ReturnEnds DEF CleanDataset, Running, Allowed, Ended
<1>18. CASE RunSuite BY <1>18, ReturnEnds DEF RunSuite, Running, Allowed, Ended
<1>19. CASE AssertCommand
  BY <1>19, ReturnEnds, RaiseEnds DEF AssertCommand, Allowed, Ended, editVars
<1>20. CASE UNCHANGED vars BY <1>20 DEF vars, runVars
<1> QED
  BY <1>1, <1>2, <1>3, <1>4, <1>5, <1>6, <1>7, <1>8, <1>9, <1>10, <1>11, <1>12, <1>13,
     <1>14, <1>15, <1>16, <1>17, <1>18, <1>19, <1>20
  DEF Next, SuiteSaved, MockComposed

LEMMA PlacedStep == Saved /\ Placed /\ [Next]_vars => Placed'
<1> SUFFICES ASSUME Saved, Placed, [Next]_vars PROVE Placed' OBVIOUS
<1>0. owner \in {"suite", "mock"} BY DEF Saved
<1>1. /\ Len(Order) \in Nat /\ 1 <= Len(Order)
      /\ \A n \in 1..Len(Order) : Order[n].item \in Items
      /\ RunEnd \in Nat /\ RunEnd <= Len(Order)
      /\ Len(MockOrder) \in Nat /\ owner = "mock" => Len(MockOrder) <= Len(Order)
  BY <1>0, Slots
<1>2. CASE at = 0 /\ UNCHANGED <<at, next, cmd>> BY <1>2 DEF Placed
<1>3. ASSUME UNCHANGED editVars PROVE Order' = Order /\ stored' = stored
  BY <1>3 DEF editVars, Order
\* A slot with commands is entered at its first one.
<1>4. ASSUME NEW n \in 1..Len(Order), stored[Order[n].item] # <<>>
      PROVE  1 \in 1..Len(stored[Order[n].item])
  BY <1>1, <1>4 DEF Saved
<1>5. ASSUME UNCHANGED editVars, next' = 1, cmd' = Null,
             \/ at' = 0
             \/ at' \in 1..Len(Order) /\ stored[Order[at'].item] # <<>>
      PROVE  Placed'
  BY <1>3, <1>4, <1>5 DEF Placed, Here
<1>6. CASE UNCHANGED editVars /\ UNCHANGED <<at, next, cmd>>
  BY <1>3, <1>6 DEF Placed, Here
<1>7. CASE UNCHANGED editVars /\ StartRun
  <2>1. next' = 1 /\ cmd' = Null BY <1>7 DEF StartRun, Reset
  <2>2. at' \in {Due(1, Len(Order)), Due(1, Len(MockOrder)), Due(Len(Order), Len(Order))}
        /\ (owner = "suite" => at' = Due(1, Len(Order))) /\ at' # 0
    BY <1>7 DEF StartRun
  <2>3. at' = Due(1, Len(Order)) \/ (owner = "mock" /\ at' = Due(1, Len(MockOrder)))
        \/ at' = Due(Len(Order), Len(Order))
    BY <1>0, <2>2
  <2>4. ASSUME NEW n \in Nat, 1 <= n, NEW last \in Nat, last <= Len(Order), at' = Due(n, last)
        PROVE  Placed'
    BY <1>1, <1>5, <1>7, <2>1, <2>2, <2>4, DueHasCommands
  <2> QED BY <1>1, <2>3, <2>4
<1>8. CASE UNCHANGED editVars /\ TakeCommand
  <2>1. /\ at # 0 /\ at' = at /\ next' = next /\ cmd' = Convert(stored[Here.item][next])
    BY <1>8 DEF TakeCommand
  <2>2. /\ at \in 1..Len(Order) /\ next \in 1..Len(stored[Here.item]) BY <2>1 DEF Placed
  <2>3. Here.item \in Items BY <1>1, <2>2 DEF Here
  <2>4. stored[Here.item][next] \in Dumps /\ Sound(stored[Here.item][next], Section(Here.item))
    BY <2>2, <2>3 DEF Saved
  <2>5. cmd' = stored[Here.item][next] BY <2>1, <2>4, DumpIsStable
  <2>6. Here' = Here BY <1>3, <1>8, <2>1 DEF Here
  <2> QED BY <1>3, <1>8, <2>1, <2>2, <2>4, <2>5, <2>6 DEF Placed
<1>9. CASE UNCHANGED editVars /\ Ended
  <2>1. at # 0 /\ at \in 1..Len(Order) /\ next \in 1..Len(stored[Here.item])
    BY <1>9 DEF Ended, Placed
  <2>2. CASE Advanced
    <3>1. Here' = Here BY <1>3, <1>9, <2>2 DEF Here, Advanced
    <3>2. Here.item \in Items BY <1>1, <2>1 DEF Here
    <3>3. Len(stored[Here.item]) \in Nat BY <3>2 DEF Saved
    <3>4. next + 1 \in 1..Len(stored[Here.item]) BY <2>1, <2>2, <3>3 DEF Advanced
    <3> QED BY <1>3, <1>9, <2>1, <2>2, <3>1, <3>4 DEF Advanced, Placed
  <2>3. CASE Left
    <3>1. at + 1 \in Nat /\ 1 <= at + 1 /\ 1 <= Len(Order) BY <1>1, <2>1
    <3>2. \/ Due(at + 1, RunEnd) = 0
          \/ /\ Due(at + 1, RunEnd) \in 1..Len(Order)
             /\ stored[Order[Due(at + 1, RunEnd)].item] # <<>>
      BY <1>1, <3>1, DueHasCommands
    <3>3. \/ Due(Len(Order), Len(Order)) = 0
          \/ /\ Due(Len(Order), Len(Order)) \in 1..Len(Order)
             /\ stored[Order[Due(Len(Order), Len(Order))].item] # <<>>
      BY <1>1, <3>1, DueHasCommands
    <3> QED BY <1>5, <1>9, <2>3, <3>2, <3>3 DEF Left
  <2> QED BY <1>9, <2>2, <2>3 DEF Ended
<1> QED BY <1>2, <1>6, <1>7, <1>8, <1>9, RunSteps

LEMMA PlacedInit == Init => Placed
BY DEF Init, Fresh, Placed

THEOREM SpecPlaced == Spec => [](Saved /\ Placed)
<1>1. Init => Saved /\ Placed BY SavedInit, PlacedInit
<1>2. Saved /\ Placed /\ [Next]_vars => (Saved /\ Placed)' BY SavedStep, PlacedStep
<1> QED BY <1>1, <1>2, PTL DEF Spec

-----------------------------------------------------------------------------
(* The policy lets planned writes through *)

\* A command is refused only for a scope outside its contract or for a target.
LEMMA SoundIsAllowed ==
  ASSUME NEW c \in Dumps, NEW section, Sound(c, section), Get(c, "target") = Null,
         ScopeAllowed(Contracts[c.commandCode], ExecutionScope(section))
  PROVE  PolicyAllows(c, ExecutionScope(section))
<1>1. PICK offer \in Offers : c = Convert(offer[2]) /\ c # Invalid BY DEF Dumps
<1> DEFINE raw == offer[2]
           code == Get(c, "commandCode")
<1>2. c = Convert(raw) BY <1>1
<1> HIDE DEF raw
<1>3. /\ code \in CommandCodes
      /\ code = "initConstant" => Get(c, "context") \in ConstantContexts
      /\ code # "initConstant" => Get(c, "context") = Null
  BY <1>1, <1>2, ContextOf
<1>4. code # Null BY <1>3, NullAssumption
<1>5. code = c.commandCode BY <1>4 DEF Get
<1> HIDE DEF code
<1>6. Null \notin ConstantContexts /\ "response" \notin ConstantContexts
  BY NullAssumption DEF ConstantContexts
<1>7. ASSUME NEW token \in ConstantContexts PROVE Root(token) = token
  BY DEF Root, ConstantContexts
<1>8. ASSUME NEW token \in TargetRoots(c)
      PROVE  \/ token = "result"
             \/ /\ code = "initConstant" /\ token = c.context /\ token \in ConstantContexts
  <2>1. Get(c, "context") # Null => Get(c, "context") = c.context BY DEF Get
  <2> QED BY <1>3, <1>8, <2>1 DEF TargetRoots
<1>9. ASSUME code = "initConstant", ExecutionScope(section) = "test"
      PROVE  c.context \notin {"global", "runEnvelope"}
  <2>1. section = "test" BY <1>9 DEF ExecutionScope
  <2> DEFINE own == Planned(c.definitionId, c.name, c.context, c.sourceType, section, 0)
  <2>2. own \in Declarations(c, section, 0) BY <1>5, <1>9 DEF Declarations
  <2>3. own.scope = c.context BY DEF Planned
  <2>4. c.context \in WritableScopes("test") BY <2>1, <2>2, <2>3 DEF Sound
  <2> QED BY <2>4 DEF WritableScopes
<1>10. TargetsAllowed(TargetRoots(c), ExecutionScope(section))
  <2> SUFFICES ASSUME NEW token \in TargetRoots(c)
               PROVE  /\ Root(token) # Null
                      /\ ExecutionScope(section) = "test" =>
                           Root(token) \notin {"global", "runEnvelope"}
    BY DEF TargetsAllowed
  <2>1. CASE token = "result"
    <3>1. "result" \in ConstantContexts BY DEF ConstantContexts
    <3>2. Root(token) = "result" BY <1>7, <2>1, <3>1
    <3> QED BY <1>6, <3>1, <3>2
  <2>2. CASE token \in ConstantContexts /\ code = "initConstant" /\ token = c.context
    <3>1. Root(token) = token BY <1>7, <2>2
    <3> QED BY <1>6, <1>9, <2>2, <3>1
  <2> QED BY <1>8, <2>1, <2>2
<1>11. DOMAIN Contracts = CommandCodes BY DEF Contracts
<1> QED BY <1>3, <1>5, <1>10, <1>11 DEF PolicyAllows

\* Where a command stands in its section changes the order of what it
\* declares, and nothing else.
LEMMA DeclaredScopes ==
  ASSUME NEW c, NEW section, Sound(c, section),
         NEW order, NEW def \in Declarations(c, section, order)
  PROVE  def.scope \in WritableScopes(section)
<1>1. PICK id, name, scope, type :
        /\ def = Planned(id, name, scope, type, section, order)
        /\ Planned(id, name, scope, type, section, 0) \in Declarations(c, section, 0)
  BY DEF Declarations
<1> DEFINE first == Planned(id, name, scope, type, section, 0)
<1>2. first.scope = scope /\ def.scope = scope BY <1>1 DEF Planned
<1>3. first \in Declarations(c, section, 0) BY <1>1
<1> HIDE DEF first
<1> QED BY <1>2, <1>3 DEF Sound

(***************************************************************************)
(* What the planner accepted is not refused half-way through a run: in a   *)
(* scope that its contract names, a saved command without a target of its  *)
(* own passes validate_command_policy, and none of its constants is one    *)
(* that the context of a test holds immutable.                             *)
(***************************************************************************)
THEOREM SpecSavedWritesAreAllowed == Spec => []SavedWritesAreAllowed
<1>1. Saved /\ Placed => SavedWritesAreAllowed
  <2> SUFFICES ASSUME Saved, Placed, cmd # Null, Get(cmd, "target") = Null,
                      ScopeAllowed(Contracts[cmd.commandCode], Scope)
               PROVE  /\ PolicyAllows(cmd, Scope)
                      /\ \A d \in Declarations(cmd, Section(Here.item), next) : ~Immutable(d.scope)
    BY DEF SavedWritesAreAllowed
  <2>1. cmd \in Dumps /\ Sound(cmd, Section(Here.item)) BY DEF Placed
  <2>2. PolicyAllows(cmd, Scope) BY <2>1, SoundIsAllowed DEF Scope
  <2>3. ASSUME NEW def \in Declarations(cmd, Section(Here.item), next), Section(Here.item) = "test"
        PROVE  def.scope \in {"local", "result"}
    <3>1. def.scope \in WritableScopes(Section(Here.item)) BY <2>1, DeclaredScopes
    <3> QED BY <2>3, <3>1 DEF WritableScopes
  <2>4. \A d \in Declarations(cmd, Section(Here.item), next) : ~Immutable(d.scope)
    BY <2>3 DEF Immutable
  <2> QED BY <2>2, <2>4
<1> QED BY <1>1, SpecPlaced, PTL
=============================================================================
