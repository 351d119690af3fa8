----------------------------- MODULE MockDispatch -----------------------------
(***************************************************************************)
(* The API side of one mock server: what a client saves, what the loader   *)
(* makes of it, which route answers a request, and the commands that run   *)
(* before and after the response.                                          *)
(*                                                                         *)
(* Handlers and the dispatcher run on the event loop without an await: a   *)
(* save, and a request up to its response, are one step each.  Commands    *)
(* after the response run in the thread pool, command by command, between  *)
(* steps of anybody else.                                                  *)
(*                                                                         *)
(* JSON values are records [tag, v]; strings and paths are sequences of    *)
(* tokens.  None is Null.                                                  *)
(***************************************************************************)
EXTENDS CommandConfig, SequencesExt

\* Null is None and Invalid a text where a number is expected.
CONSTANTS Ref,                  \* a reference to the context
          ApiDtos,              \* lists of API routes a client may send
          ApiRequests,          \* requests a caller may send
          BodyEquals(_, _),     \* a body of a route and one of a request (JsonBodies)
          BodyContains(_, _),
          MaxSaves, MaxRequests, MaxRestarts, MaxFaults

\* Routes and commands are sent as lists, with numbers to sort them by.
CommandList(cs, orders) ==
  cs \in Seq(ToSet(cs)) /\ \A i \in DOMAIN cs : cs[i].order \in orders
DtoList(dtos) ==
  /\ dtos \in Seq(ToSet(dtos))
  /\ \A dto \in ToSet(dtos) :
       /\ dto.path \in Seq(ToSet(dto.path)) /\ dto.priority \in Int /\ dto.order \in Int
       /\ CommandList(dto.commands, Int)
       /\ \A cs \in {dto.pre, dto.post} \ {Null} : CommandList(cs, Int \cup {Null})
ASSUME DtosAssumption == \A dtos \in ApiDtos : DtoList(dtos)

VARIABLES saved,        \* the rows of the server: Null, or [active, sent, routes]
          served,       \* the sorted routes of its entry in the registry, if any
          invocations,  \* requests whose invocation is committed
          answers,      \* number of a request -> what was answered
          tasks,        \* background tasks
          dicts,        \* what was written into the dicts of the contexts, as objects of the process
          effects,      \* commands that were executed, in order
          saves, restarts, faults

dispatchVars ==
  <<saved, served, invocations, answers, tasks, dicts, effects, saves, restarts, faults>>

------------------------------------------------------------------------------
(* Saving: the DTO, the rows.                                               *)

Methods == {"GET", "POST", "PUT", "DELETE", "PATCH", "HEAD", "OPTIONS"}
StripSlashes(p) ==
  SubSeq(p, 1, CHOOSE n \in 0..Len(p) : /\ \A i \in n + 1..Len(p) : p[i] = "/"
                                        /\ n = 0 \/ p[n] # "/")
\* _normalize_path, the same function in the DTO, the loader and the dispatcher.
NormalizePath(p) ==
  IF p = <<>> THEN <<"/">>
  ELSE IF p = <<"/">> THEN p
  ELSE StripSlashes(IF p[1] = "/" THEN p ELSE <<"/">> \o p)

\* response_status of the DTO, where `response` has no status of its own.
StatusSource(dto) == IF dto.response # Null /\ dto.response.has THEN dto.response.status
                     ELSE dto.status
StatusValid(dto) == StatusSource(dto) # Invalid
NormalStatus(s) ==
  IF s \in {Ref, Null, 0} THEN 200 ELSE IF s < 100 THEN 100 ELSE s
BodyMatch(dto) == IF dto.match = Null THEN "contains" ELSE dto.match
ValidDto(dto) ==
  dto.method \in Methods /\ BodyMatch(dto) \in {"contains", "equals"} /\ StatusValid(dto)
RouteRow(dto, id) ==
  [id |-> id, method |-> dto.method, path |-> NormalizePath(dto.path),
   params |-> dto.params, headers |-> dto.headers, body |-> dto.body, match |-> BodyMatch(dto),
   priority |-> dto.priority, order |-> dto.order, response |-> dto.response,
   status |-> NormalStatus(StatusSource(dto)),
   pre |-> dto.pre, post |-> dto.post, commands |-> dto.commands]

\* Ids of the new rows are random: they order routes that agree on the rest.
WithIds(dtos, ids) == [i \in DOMAIN dtos |-> RouteRow(dtos[i], ids[i])]
IdOrders(dtos) == {f \in [DOMAIN dtos -> 1..Len(dtos)] : IsInjective(f)}

------------------------------------------------------------------------------
(* Loading: the snapshot the registry serves.                               *)

\* Inline commands: an order that is missing or 0 is replaced by the position.
InlineOrder(cs, i) == IF cs[i].order \in {Null, 0} THEN i - 1 ELSE cs[i].order
Before(cs, i, j) ==
  \/ InlineOrder(cs, i) < InlineOrder(cs, j)
  \/ InlineOrder(cs, i) = InlineOrder(cs, j) /\ cs[i].id < cs[j].id
InlineCommands(cs) ==
  IF cs = Null THEN <<>>
  ELSE [k \in DOMAIN cs |->
          LET i == CHOOSE i \in DOMAIN cs :
                     Cardinality({j \in DOMAIN cs \ {i} : Before(cs, j, i)}) = k - 1
          IN cs[i].id]
\* The rows of the commands table are read by order alone: where orders are
\* equal, any of them comes first.
RowCommands(cs) ==
  {[k \in DOMAIN cs |-> cs[f[k]].id] :
     f \in {f \in [DOMAIN cs -> DOMAIN cs] :
            IsInjective(f) /\ \A i, j \in DOMAIN cs : i < j => cs[f[i]].order <= cs[f[j]].order}}

\* Mutant: the rows of the commands table are kept beside inline commands.
KeepsRows(r, rows) ==
  [id |-> r.id, method |-> r.method, path |-> NormalizePath(r.path),
   params |-> r.params, headers |-> r.headers, body |-> r.body, match |-> r.match,
   priority |-> r.priority, order |-> r.order, status |-> r.status,
   pre |-> InlineCommands(r.pre), post |-> InlineCommands(r.post),
   commands |-> rows]
RuntimeRoute(r, rows) ==
  [id |-> r.id, method |-> r.method, path |-> NormalizePath(r.path),
   params |-> r.params, headers |-> r.headers, body |-> r.body, match |-> r.match,
   priority |-> r.priority, order |-> r.order,
   status |-> IF r.response # Null /\ r.response.has THEN r.response.status ELSE r.status,
   pre |-> InlineCommands(r.pre),
   post |-> InlineCommands(r.post),
   commands |-> IF r.post = Null THEN rows ELSE <<>>]

\* Mutant: priorities are ignored.
OrderOnly(a, b) == a.order < b.order \/ (a.order = b.order /\ a.id < b.id)
Precedes(a, b) ==
  \/ a.priority < b.priority
  \/ a.priority = b.priority
       /\ (a.order < b.order \/ (a.order = b.order /\ a.id < b.id))
\* The sorted lists of the routes; as ids differ, there is one.
Sortings(routes) ==
  {f \in [DOMAIN routes -> DOMAIN routes] :
     \A i, j \in DOMAIN routes : i < j => Precedes(routes[f[i]], routes[f[j]])}
\* The orders in which the rows of each route may be read.
RowReads(routes) ==
  {g \in [DOMAIN routes -> UNION {RowCommands(routes[i].commands) : i \in DOMAIN routes}] :
     \A i \in DOMAIN routes : g[i] \in RowCommands(routes[i].commands)}
Loaded(routes) ==
  {[k \in DOMAIN routes |-> RuntimeRoute(routes[f[k]], rows[f[k]])] :
     f \in Sortings(routes), rows \in RowReads(routes)}

------------------------------------------------------------------------------
(* Matching.                                                                *)

\* str(value): the texts of the values a route may ask for.
AsText(v) == IF v.tag = "num" THEN <<ToString(v.v)>>
             ELSE IF v.tag = "bool" THEN <<IF v.v THEN "True" ELSE "False">> ELSE v.v
Lower(key) == IF key = "X-Key" THEN "x-key" ELSE key
\* A request comes with its header names in lower case.
ASSUME RequestsAssumption ==
  \A req \in ApiRequests :
    /\ req.path \in Seq(ToSet(req.path)) /\ req.query \in Seq(ToSet(req.query))
    /\ \A h \in DOMAIN req.headers : Lower(h) = h
LowerKeys(f) ==
  [k \in {Lower(key) : key \in DOMAIN f} |-> f[CHOOSE key \in DOMAIN f : Lower(key) = k]]
\* Parameters are looked up as they are spelled, headers in lower case.
MapMatches(expected, actual) ==
  expected # Null =>
    \A k \in DOMAIN expected : k \in DOMAIN actual /\ actual[k] = AsText(expected[k])
HeadersMatch(expected, actual) ==
  expected # Null =>
    \A k \in DOMAIN expected :
      Lower(k) \in DOMAIN actual /\ actual[Lower(k)] = AsText(expected[k])
\* A key that is sent twice keeps its first value.
QueryParams(query) ==
  [k \in {query[i][1] : i \in DOMAIN query} |->
     query[CHOOSE i \in DOMAIN query : query[i][1] = k /\ \A j \in 1..i - 1 : query[j][1] # k][2]]

\* The body as the dispatcher sees it: JSON where it parses, and not as null.
Seen(body) ==
  CASE body.kind = "json" /\ body.value.tag # "null" -> body.value
    [] body.kind = "json" -> [tag |-> "str", v |-> <<"null">>]
    [] body.kind = "text" -> [tag |-> "str", v |-> body.value]
    [] OTHER -> [tag |-> "str", v |-> <<>>]
AnyBody == [tag |-> "str", v |-> <<"ANY">>]
BodyMatches(route, seen) ==
  \/ route.body \in {Null, AnyBody}
  \/ IF route.match = "equals" THEN BodyEquals(route.body, seen)
     ELSE BodyContains(route.body, seen)
RouteMatches(route, req) ==
  /\ route.method = req.method
  /\ route.path = NormalizePath(req.path)
  /\ MapMatches(route.params, QueryParams(req.query))
  /\ HeadersMatch(route.headers, LowerKeys(req.headers))
  /\ BodyMatches(route, Seen(req.body))
Matching(routes, req) == {i \in DOMAIN routes : RouteMatches(routes[i], req)}
FindRoute(matching) == IF matching = {} THEN 0 ELSE Min(matching)

\* The response: a status that does not resolve to a number is 200.
ResponseStatus(route, resolved) ==
  IF route.status = Ref THEN resolved ELSE IF route.status \in {Null, 0} THEN 200 ELSE route.status

------------------------------------------------------------------------------
DispatchInit ==
  /\ saved = Null /\ served = <<>>
  /\ invocations = {} /\ answers = <<>> /\ tasks = {} /\ dicts = <<>> /\ effects = <<>>
  /\ saves = 0 /\ restarts = 0 /\ faults = 0

\* A server without an entry answers as one without routes: 404.
Registered(rows) == IF rows = Null \/ ~rows.active THEN {<<>>} ELSE Loaded(rows.routes)
SetRows(rows) == saved' = rows /\ served' \in Registered(rows)
Saving == saves < MaxSaves /\ saves' = saves + 1
             /\ UNCHANGED <<invocations, answers, tasks, dicts, effects, restarts, faults>>

\* create and update, both followed by the registry.  Saves that the graph of
\* the constants refuses are in CommandRuntime.
SaveServer(dtos, active) ==
  /\ Saving
  /\ IF \E i \in DOMAIN dtos : ~ValidDto(dtos[i])
     THEN UNCHANGED <<saved, served>>
     ELSE \E ids \in IdOrders(dtos) :
            SetRows([active |-> active, sent |-> dtos, routes |-> WithIds(dtos, ids)])
SetServerActive(active) ==
  /\ Saving /\ saved # Null /\ saved.active # active
  /\ SetRows([saved EXCEPT !.active = active])
DeleteServer == Saving /\ saved # Null /\ SetRows(Null)

\* The registry, the background tasks and every object of the process die; the
\* bootstrap loads what is active.
RestartServer ==
  /\ restarts < MaxRestarts /\ restarts' = restarts + 1
  /\ served' \in Registered(saved) /\ tasks' = {} /\ dicts' = <<>>
  /\ UNCHANGED <<saved, invocations, answers, effects, saves, faults>>

------------------------------------------------------------------------------
(* One request.  A context refers to the dict its constants are in; the     *)
(* scopes of a context are created and handed on alike, so one dict stands  *)
(* for them.                                                                *)

\* Mutant: the dict of a default argument, one object for every context.
SharedDict(heap) == 1
\* A new object.
NewDict(heap) == Len(heap) + 1
CreateRunContext(n) == [run |-> n, constants |-> NewDict(dicts)]
\* The background task gets a context of its own around the same dict.
Deserialized(context) == [run |-> context.run, constants |-> context.constants]

\* A command writes a constant of its run, named after it, from the event.
Constant(n, command) == <<command, n>>
Constants(n, commands) == {Constant(n, c) : c \in ToSet(commands)}
Contents(heap, d) == IF d \in DOMAIN heap THEN heap[d] ELSE {}
Write(heap, d, constants) ==
  [e \in DOMAIN heap \cup {d} |-> Contents(heap, e) \cup (IF e = d THEN constants ELSE {})]

\* A command is executed, and what its context holds at that time.
Effect(n, stage, command, seen) ==
  [request |-> n, stage |-> stage, command |-> command, constants |-> seen]
Performed(n, stage, commands, held) ==
  [i \in DOMAIN commands |->
     Effect(n, stage, commands[i], held \cup Constants(n, SubSeq(commands, 1, i - 1)))]
\* What was answered, by which of the routes that were saved last.
Sent == IF saved = Null \/ ~saved.active THEN <<>> ELSE saved.sent
Position(id) == CHOOSE i \in DOMAIN saved.routes : saved.routes[i].id = id
Answer(req, status, position) ==
  [request |-> req, status |-> status, position |-> position, sent |-> Sent]
Faults == {"none", "insert", "pre"}
Post(route) == IF route.post # <<>> THEN route.post ELSE route.commands

Received(lost) ==
  /\ Len(answers) < MaxRequests
  /\ lost # "none" => faults < MaxFaults
  /\ faults' = faults + (IF lost = "none" THEN 0 ELSE 1)
  /\ UNCHANGED <<saved, served, saves, restarts>>

Found(req) == FindRoute(Matching(served, req))
NotFound(req) ==
  /\ Received("none") /\ Found(req) = 0
  /\ answers' = Append(answers, Answer(req, 404, 0))
  /\ UNCHANGED <<invocations, tasks, dicts, effects>>

Invoked(n, lost) == IF lost = "insert" THEN {} ELSE {n}
\* The commands before the response that are executed.
Pre(route, lost) ==
  CASE lost = "insert" -> <<>> [] lost = "pre" -> Front(route.pre) [] OTHER -> route.pre
Dispatch(req, lost, resolved) ==
  /\ Received(lost) /\ Found(req) # 0
  /\ \E n \in {Len(answers) + 1}, route \in {served[Found(req)]} :
       /\ lost = "pre" => route.pre # <<>>
       /\ route.status # Ref => resolved = 200
       /\ invocations' = invocations \cup Invoked(n, lost)
       /\ LET status == IF lost = "none" THEN ResponseStatus(route, resolved) ELSE 500
          IN answers' = Append(answers, Answer(req, status, Position(route.id)))
       /\ LET d == CreateRunContext(n).constants
          IN /\ effects' = effects \o Performed(n, "pre", Pre(route, lost), Contents(dicts, d))
             /\ dicts' = IF lost = "insert" THEN dicts
                         ELSE Write(dicts, d, Constants(n, Pre(route, lost)))
       /\ tasks' = IF lost = "none" /\ Post(route) # <<>>
                   THEN tasks \cup {[request |-> n, commands |-> Post(route),
                                     context |-> Deserialized(CreateRunContext(n))]}
                   ELSE tasks

\* The next command of a task; one that fails ends its task, and is only logged.
Stepped(task) == [task EXCEPT !.commands = Tail(task.commands)]
PostCommand(task, fails) ==
  /\ fails => faults < MaxFaults
  /\ faults' = faults + (IF fails THEN 1 ELSE 0)
  /\ LET d == task.context.constants
         command == Head(task.commands)
     IN IF fails THEN UNCHANGED <<dicts, effects>>
        ELSE /\ effects' = Append(effects, Effect(task.request, "post", command, Contents(dicts, d)))
             /\ dicts' = Write(dicts, d, {Constant(task.request, command)})
  /\ tasks' = (tasks \ {task})
                \cup (IF fails \/ Len(task.commands) = 1 THEN {} ELSE {Stepped(task)})
  /\ UNCHANGED <<saved, served, invocations, answers, saves, restarts>>

DispatchNext ==
  \/ \E dtos \in ApiDtos, active \in BOOLEAN : SaveServer(dtos, active)
  \/ \E active \in BOOLEAN : SetServerActive(active)
  \/ DeleteServer
  \/ RestartServer
  \/ \E req \in ApiRequests : NotFound(req)
  \/ \E req \in ApiRequests, lost \in Faults, resolved \in {200, 404} :
       Dispatch(req, lost, resolved)
  \/ \E task \in tasks, fails \in BOOLEAN : PostCommand(task, fails)

DispatchSpec == DispatchInit /\ [][DispatchNext]_dispatchVars

------------------------------------------------------------------------------
(* Properties.                                                              *)

RelativePath(p) == StripSlashes(IF p # <<>> /\ p[1] = "/" THEN Tail(p) ELSE p)
OnlySlashes(p) == Len(p) > 1 /\ ToSet(p) = {"/"}
FirstValue(query, k) ==
  query[Min({i \in DOMAIN query : query[i][1] = k})][2]
Asks(dto, req) ==
  /\ dto.method = req.method
  /\ RelativePath(dto.path) = RelativePath(req.path) /\ ~OnlySlashes(req.path)
  /\ dto.params # Null =>
       \A k \in DOMAIN dto.params :
         /\ \E i \in DOMAIN req.query : req.query[i][1] = k
         /\ FirstValue(req.query, k) = AsText(dto.params[k])
  /\ dto.headers # Null =>
       \A k \in DOMAIN dto.headers :
         \E h \in DOMAIN req.headers :
           Lower(h) = Lower(k) /\ req.headers[h] = AsText(dto.headers[k])
  /\ BodyMatches([body |-> dto.body, match |-> BodyMatch(dto)], Seen(req.body))
Rank(dto) == <<dto.priority, dto.order>>
NotAbove(r, s) == r[1] < s[1] \/ (r[1] = s[1] /\ r[2] <= s[2])
(* The answer of _find_matching_api_route is the answer the saved routes    *)
(* ask for: of those that match the request, as the client wrote them, one  *)
(* of least priority and order; 404 when none does or the server is not     *)
(* active.  A request for several slashes is never found.                   *)
ServedAsSaved ==
  \A n \in DOMAIN answers :
    LET a == answers[n]
        asked == {i \in DOMAIN a.sent : Asks(a.sent[i], a.request)}
    IN IF asked = {} THEN a.status = 404 /\ a.position = 0
       ELSE /\ a.position \in asked
            /\ \A i \in asked : NotAbove(Rank(a.sent[a.position]), Rank(a.sent[i]))

(* A command runs for a request whose invocation is recorded, and in the    *)
(* context of that request: it sees the constants of the commands that ran  *)
(* for it before, before and after the response, and of no other request.   *)
ContextIsOwn ==
  \A i \in DOMAIN effects :
    /\ effects[i].request \in invocations
    /\ effects[i].constants =
         {Constant(effects[i].request, effects[j].command) :
            j \in {k \in 1..i - 1 : effects[k].request = effects[i].request}}

Ascending(cs) ==
  \/ \A i \in DOMAIN cs : cs[i].order = Null
  \/ \A i, j \in DOMAIN cs : cs[i].order # Null /\ cs[i].order > 0
                                /\ (i < j => cs[j].order > cs[i].order)
\* The sequences of commands a client may expect behind the response of a route.
Expected(dto) ==
  IF dto.post = Null THEN RowCommands(dto.commands)
  ELSE {[k \in DOMAIN dto.post |-> dto.post[k].id]}
PostEffects(n) == {j \in DOMAIN effects : effects[j].request = n /\ effects[j].stage = "post"}
SoFar(js, i) == {j \in js : j <= i}
(* Behind a response run the commands of the route that answered, as they   *)
(* were saved then, each once and in one order that their numbers allow,    *)
(* whatever was saved and loaded since: post_response_commands where they   *)
(* are given, be they empty, and the rows of the commands otherwise.        *)
RunsAsSaved ==
  \A n \in DOMAIN answers :
    LET a == answers[n]
        ran == PostEffects(n)
        dto == a.sent[a.position]
    IN IF a.position = 0 THEN ran = {}
       ELSE dto.post = Null \/ Ascending(dto.post) =>
              \E commands \in Expected(dto) :
                /\ \A i \in ran : /\ Cardinality(SoFar(ran, i)) <= Len(commands)
                                 /\ effects[i].command = commands[Cardinality(SoFar(ran, i))]
                /\ faults = 0 /\ restarts = 0 /\ (\A t \in tasks : t.request # n)
                     => Cardinality(ran) = Len(commands)
==============================================================================
