---------------------------- MODULE MCMockDispatch ----------------------------
(***************************************************************************)
(* Lists of routes that compete for the same requests, and the requests.   *)
(***************************************************************************)
EXTENDS MockDispatch, JsonBodies

Num(n) == [tag |-> "num", v |-> n]
Str(s) == [tag |-> "str", v |-> s]
Yes == [tag |-> "bool", v |-> TRUE]
Obj(f) == [tag |-> "obj", v |-> f]
Arr(s) == [tag |-> "list", v |-> s]
Cmd(id, order) == [id |-> id, order |-> order]
Slash == <<"/">>
Orders == <<"/", "orders">>

PlainDto ==
  [method |-> "POST", path |-> Orders, params |-> Null, headers |-> Null, body |-> Null,
   match |-> Null, priority |-> 0, order |-> 0, response |-> Null, status |-> 200,
   pre |-> Null, post |-> Null, commands |-> <<>>]

\* A catch-all saved first, a picky route of better priority behind it.
Competing ==
  <<[PlainDto EXCEPT !.priority = 5, !.body = AnyBody, !.path = <<"orders", "/">>,
                     !.commands = <<Cmd(1, 0), Cmd(2, 0)>>, !.pre = <<Cmd(7, Null)>>],
    [PlainDto EXCEPT !.order = 1, !.body = Obj([a |-> Num(1)]),
                     !.response = [has |-> TRUE, status |-> Ref],
                     !.pre = <<Cmd(4, 2), Cmd(3, 1)>>, !.post = <<>>, !.commands = <<Cmd(1, 1)>>]>>
\* Two routes that agree on priority and order, parameters and headers.
Tied ==
  <<[PlainDto EXCEPT !.params = [q |-> Num(1)], !.match = "equals", !.body = Str(<<"null">>),
                     !.response = [has |-> FALSE, status |-> Null]],
    [PlainDto EXCEPT !.headers = [h \in {"X-Key"} |-> Str(<<"k">>)],
                     !.response = [has |-> TRUE, status |-> 0],
                     !.post = <<Cmd(5, 1), Cmd(6, 3)>>]>>
Rooted == <<[PlainDto EXCEPT !.path = <<"/", "/">>, !.body = Arr(<<Str(<<"b">>), Num(1)>>), !.status = 42]>>
Refused == <<[PlainDto EXCEPT !.response = [has |-> TRUE, status |-> Invalid]]>>
MCApiDtos == {Competing, Tied, Rooted, Refused}

PlainRequest ==
  [method |-> "POST", path |-> <<"orders">>, query |-> <<>>, headers |-> <<>>,
   body |-> [kind |-> "none", value |-> Null]]
Json(v) == [kind |-> "json", value |-> v]
MCApiRequests ==
  {[PlainRequest EXCEPT !.body = Json(Obj([a |-> Yes, b |-> Num(2)]))],
   [PlainRequest EXCEPT !.body = Json([tag |-> "null", v |-> Null]),
                        !.query = <<<<"q", <<"1">>>>, <<"q", <<"2">>>>>>,
                        !.headers = [h \in {"x-key"} |-> <<"k">>]],
   [PlainRequest EXCEPT !.path = <<"orders", "/">>, !.query = <<<<"q", <<"2">>>>, <<"q", <<"1">>>>>>],
   [PlainRequest EXCEPT !.path = <<>>, !.body = Json(Arr(<<Num(1), Str(<<"a", "b">>)>>))],
   [PlainRequest EXCEPT !.path = <<"/", "/">>],
   [PlainRequest EXCEPT !.method = "GET"]}
==============================================================================
