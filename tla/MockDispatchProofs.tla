-------------------------- MODULE MockDispatchProofs --------------------------
(***************************************************************************)
(* A request is answered by the route that the saved rows ask for, its     *)
(* commands run in the context of that request, and behind the response    *)
(* run the commands that were saved for the route.                         *)
(***************************************************************************)
EXTENDS MockDispatch, FiniteSetTheorems, WellFoundedInduction, TLAPS

------------------------------------------------------------------------------
(* Lists.                                                                   *)

List(s) == s \in Seq(ToSet(s))

LEMMA ListOf ==
  ASSUME NEW n \in Nat, NEW f, DOMAIN f = 1..n, f = [i \in 1..n |-> f[i]]
  PROVE  List(f) /\ Len(f) = n
<1>1. f \in [1..n -> ToSet(f)] BY DEF ToSet
<1>2. f \in Seq(ToSet(f)) BY <1>1
<1> QED BY <1>1, <1>2 DEF List

LEMMA ListParts ==
  ASSUME NEW s, List(s)
  PROVE  Len(s) \in Nat /\ DOMAIN s = 1..Len(s) /\ s = [i \in 1..Len(s) |-> s[i]]
BY DEF List

LEMMA Listed ==
  ASSUME NEW S, NEW s \in Seq(S)
  PROVE  List(s) /\ Len(s) \in Nat /\ DOMAIN s = 1..Len(s) /\ \A i \in 1..Len(s) : s[i] \in S
<1>1. Len(s) \in Nat /\ s \in [1..Len(s) -> S] OBVIOUS
<1>2. DOMAIN s = 1..Len(s) /\ s = [i \in 1..Len(s) |-> s[i]] BY <1>1, Zenon
<1>3. List(s) BY <1>1, <1>2, ListOf
<1> QED BY <1>1, <1>2, <1>3

LEMMA Wider ==
  ASSUME NEW s, List(s), NEW S, ToSet(s) \subseteq S
  PROVE  s \in Seq(S)
<1>1. PICK n \in Nat : s \in [1..n -> ToSet(s)] BY ListParts DEF List
<1>2. s \in [1..n -> S] BY <1>1
<1> QED BY <1>2

Grows(t, s, e) ==
  List(t) /\ Len(t) = Len(s) + 1 /\ t[Len(s) + 1] = e /\ \A i \in 1..Len(s) : t[i] = s[i]
LEMMA Appended ==
  ASSUME NEW s, List(s), NEW e
  PROVE  Grows(Append(s, e), s, e)
<1> DEFINE t == Append(s, e)
<1> DEFINE S == ToSet(s) \cup {e}
<1>1. s \in Seq(S) BY Wider
<1> HIDE DEF S
<1>2. e \in S BY DEF S
<1>3. t \in Seq(S) /\ Len(t) = Len(s) + 1 /\ t[Len(s) + 1] = e /\ \A i \in 1..Len(s) : t[i] = s[i]
  BY <1>1, <1>2
<1> HIDE DEF t
<1>5. List(t) BY <1>3, Listed
<1> QED BY <1>3, <1>5 DEF Grows, t

Joins(u, s, t) ==
  /\ List(u) /\ Len(u) = Len(s) + Len(t)
  /\ \A i \in 1..Len(s) : u[i] = s[i]
  /\ \A i \in 1..Len(t) : u[Len(s) + i] = t[i]
LEMMA Joined ==
  ASSUME NEW s, NEW t, List(s), List(t)
  PROVE  Joins(s \o t, s, t)
<1> DEFINE u == s \o t
<1> DEFINE S == ToSet(s) \cup ToSet(t)
<1>1. s \in Seq(S) /\ t \in Seq(S) BY Wider
<1> HIDE DEF S
<1>2. /\ u \in Seq(S) /\ Len(u) = Len(s) + Len(t)
      /\ \A i \in 1..Len(u) : u[i] = IF i <= Len(s) THEN s[i] ELSE t[i - Len(s)]
  BY <1>1
<1> HIDE DEF u
<1>4. List(u) BY <1>2, Listed
<1>5. ASSUME NEW i \in 1..Len(s) PROVE u[i] = s[i] BY <1>2, ListParts
<1>6. ASSUME NEW i \in 1..Len(t) PROVE u[Len(s) + i] = t[i]
  <2>1. Len(s) \in Nat /\ Len(t) \in Nat BY ListParts
  <2>2. Len(s) + i \in 1..Len(u) /\ ~(Len(s) + i <= Len(s)) /\ Len(s) + i - Len(s) = i
    BY <1>2, <2>1
  <2> QED BY <1>2, <2>2
<1> QED BY <1>2, <1>4, <1>5, <1>6 DEF Joins, u

Begins(t, s, n) == List(t) /\ Len(t) = n /\ \A i \in 1..n : t[i] = s[i]
LEMMA Cut ==
  ASSUME NEW s, List(s), NEW n \in 0..Len(s)
  PROVE  Begins(SubSeq(s, 1, n), s, n)
<1> DEFINE t == SubSeq(s, 1, n)
<1>1. Len(s) \in Nat BY ListParts
<1>2. n \in Nat BY <1>1
<1>3. t = [i \in 1..n |-> s[i]] BY <1>1, <1>2 DEF List
<1> HIDE DEF t
<1>4. DOMAIN t = 1..n /\ t = [i \in 1..n |-> t[i]] BY <1>3
<1>5. List(t) /\ Len(t) = n BY <1>2, <1>4, ListOf
<1> QED BY <1>3, <1>5 DEF Begins, t

------------------------------------------------------------------------------
(* What is saved and what is served.                                        *)

\* Behind a position of commands in ascending order stand exactly the later ones.
InlineList(cs) == CommandList(cs, Int \cup {Null})
LEMMA AscendingOrder ==
  ASSUME NEW cs, InlineList(cs), Ascending(cs),
         NEW i \in DOMAIN cs, NEW j \in DOMAIN cs, i # j
  PROVE  Before(cs, j, i) <=> j < i
<1>1. i \in Int /\ j \in Int BY ListParts DEF InlineList, CommandList, List
<1>2. CASE \A k \in DOMAIN cs : cs[k].order = Null
  <2>1. InlineOrder(cs, i) = i - 1 /\ InlineOrder(cs, j) = j - 1 BY <1>2 DEF InlineOrder
  <2> QED BY <1>1, <2>1 DEF Before
<1>3. CASE \A k, l \in DOMAIN cs : cs[k].order # Null /\ cs[k].order > 0
                                     /\ (k < l => cs[l].order > cs[k].order)
  <2>1. cs[i].order \in Int /\ cs[j].order \in Int /\ cs[i].order > 0 /\ cs[j].order > 0
    BY <1>3 DEF InlineList, CommandList
  <2>2. InlineOrder(cs, i) = cs[i].order /\ InlineOrder(cs, j) = cs[j].order
    BY <1>3, <2>1 DEF InlineOrder
  <2>3. i < j => cs[j].order > cs[i].order BY <1>3
  <2>4. j < i => cs[i].order > cs[j].order BY <1>3
  <2> QED BY <1>1, <2>1, <2>2, <2>3, <2>4 DEF Before
<1> QED BY <1>2, <1>3 DEF Ascending

\* Commands in ascending order keep their order when they are loaded.
LEMMA AscendingInline ==
  ASSUME NEW cs, InlineList(cs), Ascending(cs), cs # Null
  PROVE  InlineCommands(cs) = [k \in DOMAIN cs |-> cs[k].id]
<1>1. Len(cs) \in Nat /\ DOMAIN cs = 1..Len(cs) BY ListParts DEF InlineList, CommandList, List
<1> DEFINE Earlier(i) == {j \in DOMAIN cs \ {i} : Before(cs, j, i)}
<1>2. ASSUME NEW i \in DOMAIN cs PROVE Cardinality(Earlier(i)) = i - 1
  <2> \A j \in DOMAIN cs \ {i} : Before(cs, j, i) <=> j < i BY AscendingOrder
  <2>1. Earlier(i) = 1..(i - 1) BY <1>1
  <2>2. Cardinality(1..(i - 1)) = i - 1 BY <1>1, FS_Interval
  <2> QED BY <2>1, <2>2
<1>3. ASSUME NEW k \in DOMAIN cs
      PROVE  (CHOOSE i \in DOMAIN cs : Cardinality(Earlier(i)) = k - 1) = k
  <2> HIDE DEF Earlier
  <2>1. \A i \in DOMAIN cs : Cardinality(Earlier(i)) = k - 1 <=> i = k BY <1>1, <1>2
  <2> QED BY <2>1
<1>4. InlineCommands(cs)
        = [k \in DOMAIN cs |-> LET i == CHOOSE i \in DOMAIN cs : Cardinality(Earlier(i)) = k - 1
                               IN cs[i].id]
  BY DEF InlineCommands
<1> HIDE DEF Earlier
<1> QED BY <1>3, <1>4

LEMMA RowLists ==
  ASSUME NEW cs, CommandList(cs, Int), NEW rows \in RowCommands(cs)
  PROVE  List(rows)
<1>1. Len(cs) \in Nat /\ DOMAIN cs = 1..Len(cs) BY ListParts DEF CommandList, List
<1>2. PICK f \in [DOMAIN cs -> DOMAIN cs] : rows = [k \in DOMAIN cs |-> cs[f[k]].id]
  BY DEF RowCommands
<1>3. DOMAIN rows = 1..Len(cs) /\ rows = [k \in 1..Len(cs) |-> rows[k]] BY <1>1, <1>2
<1> QED BY <1>1, <1>3, ListOf
LEMMA InlineLists ==
  ASSUME NEW cs, InlineList(cs) \/ cs = Null
  PROVE  /\ List(InlineCommands(cs))
         /\ cs # Null => Len(InlineCommands(cs)) = Len(cs)
<1>1. CASE cs = Null
  <2>1. InlineCommands(cs) = <<>> BY <1>1 DEF InlineCommands
  <2>2. <<>> \in Seq({}) OBVIOUS
  <2> QED BY <1>1, <2>1, <2>2, Listed
<1>2. CASE InlineList(cs) /\ cs # Null
  <2>1. Len(cs) \in Nat /\ DOMAIN cs = 1..Len(cs)
    BY <1>2, ListParts DEF InlineList, CommandList, List
  <2> QED BY <1>2, <2>1, ListOf DEF InlineCommands
<1> QED BY <1>1, <1>2

\* The rows of a server are routes that a client sent, under ids of their own,
\* and the registry serves them in their order.
Stored ==
  saved # Null =>
    \E dtos \in ApiDtos, active \in BOOLEAN :
      \E ids \in IdOrders(dtos) :
        saved = [active |-> active, sent |-> dtos, routes |-> WithIds(dtos, ids)]

LEMMA StoredRoutes ==
  ASSUME Stored, saved # Null
  PROVE  /\ saved.sent \in ApiDtos /\ DOMAIN saved.sent = 1..Len(saved.sent)
         /\ Len(saved.sent) \in Nat /\ DOMAIN saved.routes = DOMAIN saved.sent
         /\ \A i \in DOMAIN saved.sent :
              /\ saved.routes[i] = RouteRow(saved.sent[i], saved.routes[i].id)
              /\ Position(saved.routes[i].id) = i
<1>1. PICK dtos \in ApiDtos, active \in BOOLEAN :
        \E ids \in IdOrders(dtos) :
          saved = [active |-> active, sent |-> dtos, routes |-> WithIds(dtos, ids)]
  BY DEF Stored
<1> PICK ids \in IdOrders(dtos) :
      saved = [active |-> active, sent |-> dtos, routes |-> WithIds(dtos, ids)]
  BY <1>1
<1>2. saved.sent = dtos /\ saved.routes = WithIds(dtos, ids) OBVIOUS
<1>3. DOMAIN dtos = 1..Len(dtos) /\ Len(dtos) \in Nat
  BY DtosAssumption, ListParts DEF DtoList, List
<1>4. ids \in [DOMAIN dtos -> 1..Len(dtos)] /\ IsInjective(ids) BY DEF IdOrders
<1>5. ASSUME NEW i \in DOMAIN dtos
      PROVE  saved.routes[i] = RouteRow(dtos[i], ids[i]) /\ saved.routes[i].id = ids[i]
  BY <1>2 DEF WithIds, RouteRow
<1>6. ASSUME NEW i \in DOMAIN dtos PROVE Position(saved.routes[i].id) = i
  <2>1. DOMAIN saved.routes = DOMAIN dtos BY <1>2 DEF WithIds
  <2>2. \A j \in DOMAIN dtos : saved.routes[j].id = saved.routes[i].id <=> j = i
    BY <1>4, <1>5 DEF IsInjective
  <2> QED BY <2>1, <2>2 DEF Position
<1>7. DOMAIN saved.routes = DOMAIN dtos BY <1>2 DEF WithIds
<1> QED BY <1>2, <1>3, <1>5, <1>6, <1>7

LEMMA LeastOf ==
  ASSUME NEW S, S \subseteq Nat, S # {}
  PROVE  Min(S) \in S /\ \A y \in S : Min(S) <= y
<1>1. PICK x \in S : \A y \in S : ~(<<y, x>> \in OpToRel(<, Nat))
  BY NatLessThanWellFounded, WFMin
<1>2. ASSUME NEW y \in S PROVE x <= y
  <2>1. <<y, x>> \in Nat \X Nat OBVIOUS
  <2>2. <<y, x>>[1] = y /\ <<y, x>>[2] = x OBVIOUS
  <2>3. ~(y < x) BY <1>1, <2>1, <2>2, Zenon DEF OpToRel
  <2> QED BY <2>3
<1> QED BY <1>2 DEF Min

\* The route that answers is one of the routes of the server's rows.
LEMMA Serving ==
  ASSUME Stored, served \in Registered(saved), NEW req, Found(req) # 0
  PROVE  /\ saved # Null /\ saved.active
         /\ \E i \in DOMAIN saved.sent :
              \E rows \in RowCommands(saved.routes[i].commands) :
                served[Found(req)] = RuntimeRoute(saved.routes[i], rows)
<1>1. Found(req) = FindRoute(Matching(served, req)) BY DEF Found
<1>2. saved # Null /\ saved.active /\ served \in Loaded(saved.routes)
  <2>1. CASE served = <<>>
    <3>1. Matching(served, req) = {} BY <2>1 DEF Matching
    <3> QED BY <1>1, <3>1 DEF FindRoute
  <2> QED BY <2>1 DEF Registered
<1>3. PICK f \in Sortings(saved.routes), reads \in RowReads(saved.routes) :
        served = [k \in DOMAIN saved.routes |-> RuntimeRoute(saved.routes[f[k]], reads[f[k]])]
  BY <1>2 DEF Loaded
<1>4. DOMAIN served = 1..Len(saved.sent) /\ DOMAIN saved.routes = DOMAIN saved.sent
        /\ DOMAIN saved.sent = 1..Len(saved.sent) /\ Len(saved.sent) \in Nat
  BY <1>2, <1>3, StoredRoutes
<1>5. Matching(served, req) # {} BY <1>1 DEF FindRoute
<1>6. Matching(served, req) \subseteq DOMAIN served BY DEF Matching
<1>7. Found(req) \in DOMAIN served
  <2>1. Found(req) = Min(Matching(served, req)) BY <1>1, <1>5 DEF FindRoute
  <2>2. Matching(served, req) \subseteq Nat BY <1>4, <1>6
  <2> HIDE DEF Matching
  <2>3. Found(req) \in Matching(served, req) BY <2>1, <2>2, <1>5, LeastOf
  <2> QED BY <1>6, <2>3
<1> PICK i : i = f[Found(req)] OBVIOUS
<1>8. i \in DOMAIN saved.sent BY <1>3, <1>4, <1>7 DEF Sortings
<1>9. reads[i] \in RowCommands(saved.routes[i].commands) BY <1>4, <1>8 DEF RowReads
<1>10. served[Found(req)] = RuntimeRoute(saved.routes[i], reads[i]) BY <1>3, <1>4, <1>7
<1> QED BY <1>2, <1>8, <1>9, <1>10

\* The commands of a route that is served are commands it was saved with.
Promised(dto) == dto.post = Null \/ Ascending(dto.post)
MayRun(route, dto) == Promised(dto) => Post(route) \in Expected(dto)
LEMMA RouteCommands ==
  ASSUME NEW dtos \in ApiDtos, NEW i \in DOMAIN dtos, NEW id,
         NEW rows \in RowCommands(dtos[i].commands),
         NEW route, route = RuntimeRoute(RouteRow(dtos[i], id), rows)
  PROVE  route.id = id /\ List(route.pre) /\ List(Post(route)) /\ MayRun(route, dtos[i])
<1> DEFINE dto == dtos[i]
<1>1. dto \in ToSet(dtos) BY DEF ToSet
<1>2. CommandList(dto.commands, Int)
  BY <1>1, DtosAssumption DEF DtoList
<1>3. (InlineList(dto.pre) \/ dto.pre = Null) /\ (InlineList(dto.post) \/ dto.post = Null)
  BY <1>1, DtosAssumption DEF DtoList, InlineList
<1>4. /\ route.id = id /\ route.pre = InlineCommands(dto.pre)
      /\ route.post = InlineCommands(dto.post)
      /\ route.commands = IF dto.post = Null THEN rows ELSE <<>>
  BY DEF RuntimeRoute, RouteRow
<1>5. rows \in RowCommands(dto.commands) OBVIOUS
<1> HIDE DEF dto
<1>6. CASE dto.post = Null
  <2>1. route.post = <<>> BY <1>4, <1>6 DEF InlineCommands
  <2>2. Post(route) = rows BY <1>4, <1>6, <2>1 DEF Post
  <2>3. MayRun(route, dto) BY <1>5, <1>6, <2>2 DEF MayRun, Expected
  <2>4. List(rows) BY <1>2, <1>5, RowLists
  <2>5. List(route.pre) BY <1>3, <1>4, InlineLists
  <2> QED BY <1>4, <2>2, <2>3, <2>4, <2>5 DEF dto
<1>7. CASE dto.post # Null
  <2>1. Post(route) = route.post BY <1>4, <1>7 DEF Post
  <2>2. List(route.pre) /\ List(Post(route)) BY <1>3, <1>4, <1>7, <2>1, InlineLists
  <2>3. MayRun(route, dto)
    <3> SUFFICES ASSUME Ascending(dto.post) PROVE Post(route) \in Expected(dto)
      BY <1>7 DEF MayRun, Promised
    <3>1. Post(route) = [k \in DOMAIN dto.post |-> dto.post[k].id]
      BY <1>3, <1>4, <1>7, <2>1, AscendingInline
    <3> QED BY <1>7, <3>1 DEF Expected
  <2> QED BY <1>4, <2>2, <2>3 DEF dto
<1> QED BY <1>6, <1>7

------------------------------------------------------------------------------
(* The context of a request.                                                *)

\* The constants that the first m commands have written for a request.
Written(s, n, m) == {Constant(n, s[j].command) : j \in {k \in 1..m : s[k].request = n}}
Own(n) == Written(effects, n, Len(effects))

\* A task in the background belongs to a request, and knows its constants.
TaskIs(t) ==
  /\ t = [request |-> t.request, commands |-> t.commands, context |-> t.context]
  /\ t.request \in DOMAIN answers \cap invocations
  /\ List(t.commands) /\ t.commands # <<>>
  /\ t.context = [run |-> t.request, constants |-> t.context.constants]
  /\ t.context.constants \in DOMAIN dicts /\ dicts[t.context.constants] = Own(t.request)
\* Tasks are of different requests, and so are their dicts.
Apart(t, u) == t.request = u.request \/ t.context.constants = u.context.constants => t = u
Contexts ==
  /\ List(answers) /\ List(effects) /\ List(dicts)
  /\ \A i \in DOMAIN effects : effects[i].request \in DOMAIN answers
  /\ ContextIsOwn
  /\ \A t \in tasks : TaskIs(t)
  /\ \A t, u \in tasks : Apart(t, u)

\* A write reaches one dict, which may be a new one.
Wrote(w, heap, d, constants) ==
  /\ List(w) /\ DOMAIN heap \subseteq DOMAIN w /\ d \in DOMAIN w
  /\ w[d] = Contents(heap, d) \cup constants
  /\ \A e \in DOMAIN heap \ {d} : w[e] = heap[e]
LEMMA WriteIs ==
  ASSUME NEW heap, List(heap), NEW d \in 1..Len(heap) + 1, NEW constants
  PROVE  Wrote(Write(heap, d, constants), heap, d, constants)
<1> DEFINE w == Write(heap, d, constants)
           n == IF d = Len(heap) + 1 THEN Len(heap) + 1 ELSE Len(heap)
<1>1. Len(heap) \in Nat /\ DOMAIN heap = 1..Len(heap) BY ListParts
<1>2. n \in Nat /\ DOMAIN heap \cup {d} = 1..n BY <1>1
<1>3. w = [e \in 1..n |-> Contents(heap, e) \cup (IF e = d THEN constants ELSE {})]
  BY <1>2 DEF Write
<1> HIDE DEF n, w
<1>4. DOMAIN w = 1..n /\ w = [e \in 1..n |-> w[e]] BY <1>3
<1>5. List(w) BY <1>2, <1>4, ListOf
<1>6. d \in 1..n /\ w[d] = Contents(heap, d) \cup constants BY <1>2, <1>3
<1>7. ASSUME NEW e \in DOMAIN heap \ {d} PROVE w[e] = heap[e]
  <2>1. Contents(heap, e) = heap[e] BY DEF Contents
  <2>2. e \in 1..n BY <1>2
  <2>3. w[e] = Contents(heap, e) \cup {} BY <1>3, <2>2
  <2> QED BY <2>1, <2>3
<1> QED BY <1>2, <1>4, <1>5, <1>6, <1>7 DEF Wrote, w

Agree(s, t, m) == \A k \in 1..m : s[k] = t[k]
LEMMA WrittenAlike ==
  ASSUME NEW s, NEW t, NEW n, NEW m, Agree(s, t, m)
  PROVE  Written(t, n, m) = Written(s, n, m)
<1>1. {k \in 1..m : t[k].request = n} = {k \in 1..m : s[k].request = n} BY DEF Agree
<1>2. ASSUME NEW x PROVE x \in Written(t, n, m) <=> x \in Written(s, n, m)
  BY <1>1 DEF Written, Agree
<1> QED BY <1>2

WritesNext(s, n, m) ==
  Written(s, n, m + 1) = Written(s, n, m) \cup
    (IF s[m + 1].request = n THEN {Constant(n, s[m + 1].command)} ELSE {})
LEMMA WrittenNext ==
  ASSUME NEW s, NEW n, NEW m \in Nat
  PROVE  WritesNext(s, n, m)
<1>1. 1..m + 1 = (1..m) \cup {m + 1} OBVIOUS
<1>2. {k \in 1..m + 1 : s[k].request = n}
        = {k \in 1..m : s[k].request = n} \cup (IF s[m + 1].request = n THEN {m + 1} ELSE {})
  BY <1>1
<1>3. ASSUME NEW x
      PROVE  x \in Written(s, n, m + 1) <=>
               x \in Written(s, n, m) \/ (s[m + 1].request = n /\ x = Constant(n, s[m + 1].command))
  BY <1>2 DEF Written
<1> QED BY <1>3 DEF WritesNext

InContext(s, known) ==
  \A i \in DOMAIN s : /\ s[i].request \in known
                      /\ s[i].constants = Written(s, s[i].request, i - 1)
LEMMA ContextIs == ContextIsOwn <=> InContext(effects, invocations)
BY Zenon DEF ContextIsOwn, InContext, Written

LEMMA StoredInit == DispatchInit => Stored /\ served \in Registered(saved)
BY DEF DispatchInit, Stored, Registered

LEMMA StoredStep ==
  Stored /\ served \in Registered(saved) /\ [DispatchNext]_dispatchVars
    => Stored' /\ served' \in Registered(saved')
<1> SUFFICES ASSUME Stored, served \in Registered(saved), [DispatchNext]_dispatchVars
             PROVE  Stored' /\ served' \in Registered(saved')
  OBVIOUS
<1>0. CASE UNCHANGED <<saved, served>> BY <1>0 DEF Stored, Registered
<1>1. ASSUME NEW dtos \in ApiDtos, NEW active \in BOOLEAN, SaveServer(dtos, active)
      PROVE  Stored' /\ served' \in Registered(saved')
  <2>1. CASE \E ids \in IdOrders(dtos) :
               SetRows([active |-> active, sent |-> dtos, routes |-> WithIds(dtos, ids)])
    <3>1. PICK ids \in IdOrders(dtos) :
            SetRows([active |-> active, sent |-> dtos, routes |-> WithIds(dtos, ids)])
      BY <2>1
    <3> QED BY <3>1 DEF SetRows, Stored, Registered
  <2> QED BY <1>0, <1>1, <2>1 DEF SaveServer
<1>2. ASSUME NEW active \in BOOLEAN, SetServerActive(active)
      PROVE  Stored' /\ served' \in Registered(saved')
  <2>1. saved # Null /\ SetRows([saved EXCEPT !.active = active]) BY <1>2 DEF SetServerActive
  <2>2. PICK dtos \in ApiDtos, old \in BOOLEAN :
          \E ids \in IdOrders(dtos) :
            saved = [active |-> old, sent |-> dtos, routes |-> WithIds(dtos, ids)]
    BY <2>1 DEF Stored
  <2>3. PICK ids \in IdOrders(dtos) :
          saved = [active |-> old, sent |-> dtos, routes |-> WithIds(dtos, ids)]
    BY <2>2
  <2>4. saved' = [active |-> active, sent |-> dtos, routes |-> WithIds(dtos, ids)]
    BY <2>1, <2>3 DEF SetRows
  <2> QED BY <2>1, <2>4 DEF SetRows, Stored, Registered
<1>3. ASSUME DeleteServer PROVE Stored' /\ served' \in Registered(saved')
  BY <1>3 DEF DeleteServer, SetRows, Stored, Registered
<1>4. ASSUME RestartServer PROVE Stored' /\ served' \in Registered(saved')
  BY <1>4 DEF RestartServer, Stored, Registered
<1>5. ASSUME NEW req \in ApiRequests, NotFound(req) PROVE UNCHANGED <<saved, served>>
  BY <1>5 DEF NotFound, Received
<1>6. ASSUME NEW req \in ApiRequests, NEW lost \in Faults, NEW resolved \in {200, 404},
             Dispatch(req, lost, resolved)
      PROVE  UNCHANGED <<saved, served>>
  BY <1>6 DEF Dispatch, Received
<1>7. ASSUME NEW task \in tasks, NEW fails \in BOOLEAN, PostCommand(task, fails)
      PROVE  UNCHANGED <<saved, served>>
  BY <1>7 DEF PostCommand
<1>8. CASE UNCHANGED dispatchVars BY <1>0, <1>8 DEF dispatchVars
<1> QED BY <1>0, <1>1, <1>2, <1>3, <1>4, <1>5, <1>6, <1>7, <1>8 DEF DispatchNext

\* One route answers a request: what it leaves behind.
NewTask(n, route, d) ==
  [request |-> n, commands |-> Post(route), context |-> [run |-> n, constants |-> d]]
Dispatched(n, d, lost, i, route) ==
  LET cs == Pre(route, lost)
  IN /\ invocations' = invocations \cup Invoked(n, lost)
     /\ \E a : answers' = Append(answers, a) /\ a.position = i /\ a.sent = saved.sent
     /\ effects' = effects \o Performed(n, "pre", cs, {}) /\ List(cs)
     /\ dicts' = IF lost = "insert" THEN dicts ELSE Write(dicts, d, Constants(n, cs))
     /\ tasks' = IF lost = "none" /\ Post(route) # <<>>
                 THEN tasks \cup {NewTask(n, route, d)} ELSE tasks
     /\ List(Post(route)) /\ MayRun(route, saved.sent[i])

LEMMA DispatchIs ==
  ASSUME Stored, served \in Registered(saved), List(effects), List(dicts), NEW req,
         NEW lost \in Faults, NEW resolved, Dispatch(req, lost, resolved)
  PROVE  \E i \in DOMAIN saved.sent : \E route :
           Dispatched(Len(answers) + 1, Len(dicts) + 1, lost, i, route)
<1>1. Found(req) # 0 BY DEF Dispatch
<1>2. PICK i \in DOMAIN saved.sent : \E rows \in RowCommands(saved.routes[i].commands) :
        served[Found(req)] = RuntimeRoute(saved.routes[i], rows)
  BY <1>1, Serving
<1> PICK rows \in RowCommands(saved.routes[i].commands) :
      served[Found(req)] = RuntimeRoute(saved.routes[i], rows)
  BY <1>2
<1>3. saved # Null /\ saved.active BY <1>1, Serving
<1> PICK n : n = Len(answers) + 1 OBVIOUS
<1> PICK d : d = Len(dicts) + 1 OBVIOUS
<1> PICK route : route = RuntimeRoute(saved.routes[i], rows) OBVIOUS
<1> PICK cs : cs = Pre(route, lost) OBVIOUS
<1>4. /\ saved.sent \in ApiDtos /\ saved.routes[i] = RouteRow(saved.sent[i], saved.routes[i].id)
      /\ Position(saved.routes[i].id) = i
  BY <1>2, <1>3, StoredRoutes
<1>5. /\ route.id = saved.routes[i].id /\ List(route.pre) /\ List(Post(route))
      /\ MayRun(route, saved.sent[i])
  <2> PICK id : id = saved.routes[i].id OBVIOUS
  <2>1. RouteRow(saved.sent[i], id).commands = saved.sent[i].commands BY DEF RouteRow
  <2>2. rows \in RowCommands(saved.sent[i].commands) BY <1>4, <2>1
  <2> QED BY <1>4, <2>2, RouteCommands
<1>6. /\ CreateRunContext(n).constants = d
      /\ Deserialized(CreateRunContext(n)) = [run |-> n, constants |-> d]
  BY DEF CreateRunContext, Deserialized, NewDict
<1>7. Contents(dicts, d) = {}
  <2>1. Len(dicts) \in Nat /\ DOMAIN dicts = 1..Len(dicts) BY ListParts
  <2> QED BY <2>1 DEF Contents
<1>8. /\ lost = "pre" => route.pre # <<>>
      /\ invocations' = invocations \cup Invoked(n, lost)
      /\ \E status : answers' = Append(answers, Answer(req, status, Position(route.id)))
      /\ effects' = effects
           \o Performed(n, "pre", cs, Contents(dicts, CreateRunContext(n).constants))
      /\ dicts' = IF lost = "insert" THEN dicts
                  ELSE Write(dicts, CreateRunContext(n).constants, Constants(n, cs))
      /\ tasks' = IF lost = "none" /\ Post(route) # <<>>
                  THEN tasks \cup {[request |-> n, commands |-> Post(route),
                                    context |-> Deserialized(CreateRunContext(n))]}
                  ELSE tasks
  <2>1. served[Found(req)] = route BY <1>2
  <2> QED BY <2>1 DEF Dispatch
<1>9. List(cs)
  <2>1. CASE lost = "insert"
    <3>1. <<>> \in Seq({}) OBVIOUS
    <3> QED BY <2>1, <3>1, Listed DEF Pre
  <2>2. CASE lost = "pre"
    <3>1. Len(route.pre) \in Nat /\ Len(route.pre) # 0 BY <1>5, <1>8, <2>2 DEF List
    <3> DEFINE m == Len(route.pre) - 1
    <3>2. m \in 0..Len(route.pre) BY <3>1
    <3> HIDE DEF m
    <3>3. Begins(SubSeq(route.pre, 1, m), route.pre, m) BY <1>5, <3>2, Cut
    <3> QED BY <2>2, <3>3 DEF Pre, Front, Begins, m
  <2>3. CASE lost = "none" BY <1>5, <2>3 DEF Pre
  <2> QED BY <2>1, <2>2, <2>3 DEF Faults
<1>10. \E a : answers' = Append(answers, a) /\ a.position = i /\ a.sent = saved.sent
  <2>1. PICK status : answers' = Append(answers, Answer(req, status, Position(route.id))) BY <1>8
  <2> PICK a : a = Answer(req, status, Position(route.id)) OBVIOUS
  <2>2. a.position = i /\ a.sent = saved.sent BY <1>3, <1>4, <1>5 DEF Answer, Sent
  <2> QED BY <2>1, <2>2
<1>11. effects' = effects \o Performed(n, "pre", cs, {})
         /\ dicts' = IF lost = "insert" THEN dicts ELSE Write(dicts, d, Constants(n, cs))
  BY <1>6, <1>7, <1>8
<1>12. tasks' = IF lost = "none" /\ Post(route) # <<>>
                THEN tasks \cup {NewTask(n, route, d)} ELSE tasks
  BY <1>6, <1>8, Zenon DEF NewTask
<1>13. Dispatched(n, d, lost, i, route) BY <1>5, <1>8, <1>9, <1>10, <1>11, <1>12 DEF Dispatched
<1> QED BY <1>13

Extends(u, n, cs) ==
  /\ List(u) /\ Len(u) = Len(effects) + Len(cs)
  /\ \A i \in 1..Len(effects) : u[i] = effects[i]
  /\ \A i \in 1..Len(cs) :
       u[Len(effects) + i] = Effect(n, "pre", cs[i], Constants(n, SubSeq(cs, 1, i - 1)))
LEMMA PerformedEffects ==
  ASSUME List(effects), NEW n, NEW cs, List(cs), NEW u, u = effects \o Performed(n, "pre", cs, {})
  PROVE  Extends(u, n, cs)
<1> DEFINE p == Performed(n, "pre", cs, {})
<1>1. Len(cs) \in Nat /\ DOMAIN cs = 1..Len(cs) BY ListParts
<1>2. /\ DOMAIN p = 1..Len(cs)
      /\ \A i \in 1..Len(cs) :
           p[i] = Effect(n, "pre", cs[i], Constants(n, SubSeq(cs, 1, i - 1)))
  <2>1. \A X : {} \cup X = X OBVIOUS
  <2> QED BY <1>1, <2>1 DEF Performed
<1>3. p = [i \in 1..Len(cs) |-> p[i]] BY <1>1 DEF Performed
<1> HIDE DEF p
<1>4. List(p) /\ Len(p) = Len(cs) BY <1>1, <1>2, <1>3, ListOf
<1>5. u = effects \o p BY DEF p
<1>6. Joins(u, effects, p) BY <1>4, <1>5, Joined
<1> QED BY <1>2, <1>4, <1>6 DEF Extends, Joins

\* The constants of the commands before a position.
FirstConstants(cs, n, m) == {Constant(n, cs[q]) : q \in 1..m}
LEMMA WrittenBefore ==
  ASSUME NEW cs, List(cs), NEW n, NEW i \in 1..Len(cs) + 1
  PROVE  Constants(n, SubSeq(cs, 1, i - 1)) = FirstConstants(cs, n, i - 1)
<1>1. Len(cs) \in Nat BY ListParts
<1> DEFINE m == i - 1
           t == SubSeq(cs, 1, m)
<1>2. m \in 0..Len(cs) BY <1>1
<1> HIDE DEF m
<1>3. List(t) /\ Len(t) = m /\ \A q \in 1..m : t[q] = cs[q] BY <1>2, Cut DEF Begins
<1>4. DOMAIN t = 1..m BY <1>3, ListParts
<1> HIDE DEF t
<1>5. ToSet(t) = {cs[q] : q \in 1..m} BY <1>3, <1>4 DEF ToSet
<1>6. {Constant(n, c) : c \in ToSet(t)} = {Constant(n, cs[q]) : q \in 1..m} BY <1>5
<1> QED BY <1>6 DEF Constants, FirstConstants, m, t

Performs(u, n, cs, known) ==
  /\ InContext(u, known)
  /\ Written(u, n, Len(u)) = Constants(n, cs)
  /\ \A m \in DOMAIN answers : Written(u, m, Len(u)) = Own(m)
LEMMA PerformOwn ==
  ASSUME Contexts, NEW n, n \notin DOMAIN answers, NEW cs, List(cs),
         NEW u, u = effects \o Performed(n, "pre", cs, {}),
         NEW known, invocations \subseteq known, cs # <<>> => n \in known
  PROVE  Performs(u, n, cs, known)
<1> DEFINE L == Len(effects)
           K == Len(cs)
<1>1. L \in Nat /\ K \in Nat /\ DOMAIN effects = 1..L /\ DOMAIN cs = 1..K
  BY ListParts DEF Contexts
<1>2. /\ List(u) /\ Len(u) = L + K
      /\ \A i \in 1..L : u[i] = effects[i]
      /\ \A i \in 1..K :
           u[L + i] = Effect(n, "pre", cs[i], Constants(n, SubSeq(cs, 1, i - 1)))
  <2>1. List(effects) BY DEF Contexts
  <2>2. Extends(u, n, cs) BY <2>1, PerformedEffects
  <2> QED BY <2>2, Zenon DEF Extends, L, K
<1>3. DOMAIN u = 1..L + K BY <1>2, ListParts
<1> HIDE DEF L, K
<1>4. ASSUME NEW i \in 1..K
      PROVE  /\ u[L + i].request = n /\ u[L + i].command = cs[i]
             /\ u[L + i].constants = FirstConstants(cs, n, i - 1)
  <2>1. i \in 1..Len(cs) + 1 BY <1>1 DEF K
  <2> PICK before : before = Constants(n, SubSeq(cs, 1, i - 1)) OBVIOUS
  <2>2. before = FirstConstants(cs, n, i - 1) BY <2>1, WrittenBefore
  <2>3. u[L + i] = Effect(n, "pre", cs[i], before) BY <1>2
  <2>5. PICK r : r = u[L + i] OBVIOUS
  <2>6. r = [request |-> n, stage |-> "pre", command |-> cs[i], constants |-> before]
    BY <2>3, <2>5 DEF Effect
  <2>7. r.request = n /\ r.command = cs[i] /\ r.constants = before BY <2>6
  <2> QED BY <2>2, <2>5, <2>7, Zenon
<1>5. ASSUME NEW i \in 1..L PROVE effects[i].request # n
  BY <1>1 DEF Contexts
<1>6. ASSUME NEW p \in 1..K + 1
      PROVE  Written(u, n, L + p - 1) = FirstConstants(cs, n, p - 1)
  <2> DEFINE late == {k \in 1..L + p - 1 : u[k].request = n}
  <2>1. ASSUME NEW k \in late PROVE \E q \in 1..p - 1 : u[k].command = cs[q]
    <3>1. k \notin 1..L BY <1>2, <1>5
    <3>2. k - L \in 1..p - 1 /\ k - L \in 1..K /\ L + (k - L) = k BY <1>1, <3>1
    <3> QED BY <1>4, <3>2
  <2>2. ASSUME NEW q \in 1..p - 1 PROVE L + q \in late /\ u[L + q].command = cs[q]
    <3>1. q \in 1..K /\ L + q \in 1..L + p - 1 BY <1>1
    <3> QED BY <1>4, <3>1
  <2> HIDE DEF late
  <2>3. ASSUME NEW c
        PROVE  (\E j \in late : c = Constant(n, u[j].command))
                 <=> \E q \in 1..p - 1 : c = Constant(n, cs[q])
    <3>1. ASSUME NEW j \in late, c = Constant(n, u[j].command)
          PROVE  \E q \in 1..p - 1 : c = Constant(n, cs[q])
      BY <2>1, <3>1
    <3>2. ASSUME NEW q \in 1..p - 1, c = Constant(n, cs[q])
          PROVE  \E j \in late : c = Constant(n, u[j].command)
      BY <2>2, <3>2
    <3> QED BY <3>1, <3>2
  <2>4. {Constant(n, u[j].command) : j \in late} = {Constant(n, cs[q]) : q \in 1..p - 1}
    BY <2>3
  <2> QED BY <2>4 DEF late, Written, FirstConstants
<1>7. InContext(u, known)
  <2> SUFFICES ASSUME NEW i \in 1..L + K
               PROVE  /\ u[i].request \in known
                      /\ u[i].constants = Written(u, u[i].request, i - 1)
    BY <1>3 DEF InContext
  <2>1. CASE i \in 1..L
    <3>1. \A k \in 1..i : k \in 1..L /\ u[k] = effects[k] BY <1>1, <1>2, <2>1
    <3>2. u[i] = effects[i] BY <1>2, <2>1
    <3>3. Agree(effects, u, i - 1) BY <1>1, <2>1, <3>1 DEF Agree
    <3>4. effects[i].request \in invocations
            /\ effects[i].constants = Written(effects, effects[i].request, i - 1)
      BY <1>1, <2>1, ContextIs DEF Contexts, InContext
    <3>5. Written(u, effects[i].request, i - 1) = Written(effects, effects[i].request, i - 1)
      BY <3>3, WrittenAlike
    <3> QED BY <3>2, <3>4, <3>5
  <2>2. CASE i \notin 1..L
    <3> DEFINE p == i - L
    <3>1. p \in 1..K /\ L + p = i /\ L + p - 1 = i - 1 /\ p \in 1..K + 1 BY <1>1, <2>2
    <3> HIDE DEF p
    <3>2. u[i].request = n /\ u[i].constants = FirstConstants(cs, n, p - 1)
      BY <1>4, <3>1
    <3>3. cs # <<>> BY <1>1, <3>1
    <3> QED BY <1>6, <3>1, <3>2, <3>3
  <2> QED BY <2>1, <2>2
<1>8. Written(u, n, Len(u)) = Constants(n, cs)
  <2> DEFINE p == K + 1
  <2>1. p \in 1..K + 1 /\ p \in 1..Len(cs) + 1 /\ L + p - 1 = L + K /\ p - 1 = K BY <1>1 DEF K
  <2> HIDE DEF p
  <2>2. Written(u, n, Len(u)) = FirstConstants(cs, n, K)
    BY <1>2, <1>6, <2>1
  <2>3. SubSeq(cs, 1, K) = cs
    <3>1. SubSeq(cs, 1, K) = [i \in 1..K |-> cs[i]] BY <1>1 DEF List, K
    <3> QED BY <3>1, ListParts DEF K
  <2>4. Constants(n, SubSeq(cs, 1, p - 1)) = FirstConstants(cs, n, p - 1)
    BY <2>1, WrittenBefore
  <2> QED BY <2>1, <2>2, <2>3, <2>4
<1>9. ASSUME NEW m \in DOMAIN answers PROVE Written(u, m, Len(u)) = Own(m)
  <2>1. \A k \in 1..L + K : u[k].request = m => k \in 1..L
    <3>1. ASSUME NEW k \in 1..L + K, k \notin 1..L PROVE u[k].request = n
      <4>1. k - L \in 1..K /\ L + (k - L) = k BY <1>1, <3>1
      <4> QED BY <1>4, <4>1
    <3> QED BY <1>1, <1>3, <3>1
  <2>2. \A k \in 1..L : k \in 1..L + K /\ u[k] = effects[k] BY <1>1, <1>2
  <2>3. {k \in 1..L + K : u[k].request = m} = {k \in 1..L : u[k].request = m}
    BY <2>1, <2>2
  <2>4. Written(u, m, L + K) = Written(u, m, L) BY <2>3 DEF Written
  <2>5. Agree(effects, u, L) BY <2>2 DEF Agree
  <2>6. Written(u, m, L) = Written(effects, m, L) BY <2>5, WrittenAlike
  <2> QED BY <1>2, <2>4, <2>6 DEF Own, L
<1> QED BY <1>7, <1>8, <1>9 DEF Performs

Tails(t, s) == List(t) /\ Len(t) = Len(s) - 1 /\ \A i \in 1..Len(s) - 1 : t[i] = s[i + 1]
LEMMA TailParts ==
  ASSUME NEW s, List(s), s # <<>>
  PROVE  Tails(Tail(s), s) /\ Head(s) = s[1] /\ Len(s) \in Nat \ {0}
           /\ (Len(s) # 1 => Tail(s) # <<>>)
<1> DEFINE t == Tail(s)
<1>1. Len(s) \in Nat \ {0} /\ s \in Seq(ToSet(s)) BY DEF List
<1>2. t \in Seq(ToSet(s)) /\ Len(t) = Len(s) - 1 /\ \A i \in 1..Len(s) - 1 : t[i] = s[i + 1]
  BY <1>1
<1>3. Head(s) = s[1] BY <1>1
<1>4. Len(s) # 1 => t # <<>>
  <2>1. Len(<<>>) = 0 OBVIOUS
  <2> HIDE DEF t
  <2> QED BY <1>1, <1>2, <2>1
<1> HIDE DEF t
<1>5. List(t) BY <1>2, Listed
<1> QED BY <1>1, <1>2, <1>3, <1>4, <1>5 DEF Tails, t

Posts(u, t, c) ==
  /\ InContext(u, invocations)
  /\ Written(u, t.request, Len(u)) = Own(t.request) \cup {Constant(t.request, c)}
  /\ \A m : m # t.request => Written(u, m, Len(u)) = Own(m)
LEMMA PostOwn ==
  ASSUME Contexts, NEW t \in tasks, NEW c,
         NEW u, u = Append(effects, Effect(t.request, "post", c, Own(t.request)))
  PROVE  Posts(u, t, c)
<1> DEFINE L == Len(effects)
           e == Effect(t.request, "post", c, Own(t.request))
<1>1. L \in Nat /\ DOMAIN effects = 1..L /\ List(effects) BY ListParts DEF Contexts
<1>2. e.request = t.request /\ e.command = c /\ e.constants = Own(t.request)
        /\ t.request \in invocations
  <2>1. TaskIs(t) BY DEF Contexts
  <2>3. t.request \in invocations BY <2>1 DEF TaskIs
  <2> QED BY <2>3 DEF Effect
<1>3. Grows(u, effects, e) BY <1>1, Appended
<1> HIDE DEF e, L
<1>4. List(u) /\ Len(u) = L + 1 /\ u[L + 1] = e /\ \A i \in 1..L : u[i] = effects[i]
  BY <1>3 DEF Grows, L
<1>5. DOMAIN u = 1..L + 1 BY <1>4, ListParts
<1>6. \A i \in 1..L + 1 : Agree(effects, u, i - 1) BY <1>1, <1>4 DEF Agree
<1>7. \A m : Written(u, m, L) = Own(m)
  <2>1. Agree(effects, u, L) BY <1>1, <1>4 DEF Agree
  <2> QED BY <2>1, WrittenAlike DEF Own, L
<1>8. ASSUME NEW i \in 1..L + 1
      PROVE  u[i].request \in invocations /\ u[i].constants = Written(u, u[i].request, i - 1)
  <2>1. CASE i = L + 1
    <3>1. i - 1 = L BY <1>1, <2>1
    <3> QED BY <1>2, <1>4, <1>7, <2>1, <3>1
  <2>2. CASE i \in 1..L
    <3>1. u[i] = effects[i] BY <1>4, <2>2
    <3>2. effects[i].request \in invocations
            /\ effects[i].constants = Written(effects, effects[i].request, i - 1)
      BY <1>1, <2>2, ContextIs DEF Contexts, InContext
    <3>3. Written(u, effects[i].request, i - 1) = Written(effects, effects[i].request, i - 1)
      BY <1>6, WrittenAlike
    <3> QED BY <3>1, <3>2, <3>3
  <2> QED BY <1>1, <2>1, <2>2
<1>9. \A m : Written(u, m, L + 1) = Written(u, m, L) \cup
                (IF e.request = m THEN {Constant(m, e.command)} ELSE {})
  <2> SUFFICES ASSUME NEW m
               PROVE  Written(u, m, L + 1) = Written(u, m, L) \cup
                        (IF e.request = m THEN {Constant(m, e.command)} ELSE {})
    OBVIOUS
  <2>1. Written(u, m, L + 1) = Written(u, m, L) \cup
          (IF u[L + 1].request = m THEN {Constant(m, u[L + 1].command)} ELSE {})
    <3> PICK l : l = L OBVIOUS
    <3>1. l \in Nat BY <1>1
    <3> HIDE DEF L
    <3>2. Written(u, m, l + 1) = Written(u, m, l) \cup
            (IF u[l + 1].request = m THEN {Constant(m, u[l + 1].command)} ELSE {})
      <4>1. WritesNext(u, m, l) BY <3>1, WrittenNext
      <4> QED BY <4>1, Zenon DEF WritesNext
    <3> QED BY <3>2
  <2> QED BY <1>4, <2>1
<1>10. Written(u, t.request, Len(u)) = Own(t.request) \cup {Constant(t.request, c)}
  BY <1>2, <1>4, <1>7, <1>9
<1>11. ASSUME NEW m, m # t.request PROVE Written(u, m, Len(u)) = Own(m)
  <2>1. Written(u, m, L + 1) = Written(u, m, L) \cup {} BY <1>2, <1>9, <1>11
  <2> QED BY <1>4, <1>7, <2>1
<1>12. InContext(u, invocations) BY <1>5, <1>8 DEF InContext
<1> QED BY <1>10, <1>11, <1>12 DEF Posts

\* What is left of the context of the commands, whichever step changes them.
LEMMA ContextsKept ==
  ASSUME List(answers'), List(effects'), List(dicts'), DOMAIN answers \subseteq DOMAIN answers',
         \A i \in DOMAIN effects' : effects'[i].request \in DOMAIN answers',
         InContext(effects', invocations'),
         \A t \in tasks' : TaskIs(t)',
         \A t, u \in tasks' : Apart(t, u)
  PROVE  Contexts'
<1>1. ContextIsOwn' BY Zenon DEF ContextIsOwn, InContext, Written
<1> QED BY <1>1 DEF Contexts

DictStays(d) == d \in DOMAIN dicts' /\ dicts'[d] = dicts[d]
LEMMA TaskStays ==
  ASSUME NEW t, TaskIs(t), DOMAIN answers \subseteq DOMAIN answers',
         invocations \subseteq invocations', Own(t.request)' = Own(t.request),
         DictStays(t.context.constants)
  PROVE  TaskIs(t)'
BY DEF TaskIs, DictStays

LEMMA NotFoundContexts ==
  ASSUME Contexts, NEW req, NotFound(req) PROVE Contexts'
<1>1. UNCHANGED <<invocations, tasks, dicts, effects>> /\ \E a : answers' = Append(answers, a)
  BY DEF NotFound
<1>2. List(answers) /\ List(effects) /\ List(dicts) BY DEF Contexts
<1>3. PICK a : Grows(answers', answers, a) BY <1>1, <1>2, Appended
<1>4. List(answers') /\ DOMAIN answers \subseteq DOMAIN answers' BY <1>2, <1>3, ListParts DEF Grows
<1>5. \A m : Own(m)' = Own(m) BY <1>1 DEF Own
<1>6. ASSUME NEW t \in tasks' PROVE TaskIs(t)'
  <2>1. TaskIs(t) BY <1>1 DEF Contexts
  <2>2. DictStays(t.context.constants) BY <1>1, <2>1 DEF TaskIs, DictStays
  <2> QED BY <1>1, <1>4, <1>5, <2>1, <2>2, TaskStays
<1>7. InContext(effects, invocations) BY ContextIs DEF Contexts
<1> QED BY <1>1, <1>2, <1>4, <1>6, <1>7, ContextsKept DEF Contexts

LEMMA DispatchContexts ==
  ASSUME Stored, served \in Registered(saved), Contexts, NEW req, NEW lost \in Faults,
         NEW resolved, Dispatch(req, lost, resolved)
  PROVE  Contexts'
<1>1. List(answers) /\ List(effects) /\ List(dicts) BY DEF Contexts
<1> PICK n : n = Len(answers) + 1 OBVIOUS
<1> PICK d : d = Len(dicts) + 1 OBVIOUS
<1>0. PICK i \in DOMAIN saved.sent : \E route : Dispatched(n, d, lost, i, route)
  BY <1>1, DispatchIs
<1>2. PICK route : Dispatched(n, d, lost, i, route) BY <1>0
<1> PICK cs : cs = Pre(route, lost) OBVIOUS
<1>3. /\ invocations' = invocations \cup Invoked(n, lost)
      /\ \E a : answers' = Append(answers, a)
      /\ effects' = effects \o Performed(n, "pre", cs, {}) /\ List(cs)
      /\ dicts' = IF lost = "insert" THEN dicts ELSE Write(dicts, d, Constants(n, cs))
      /\ tasks' = IF lost = "none" /\ Post(route) # <<>>
                  THEN tasks \cup {NewTask(n, route, d)} ELSE tasks
      /\ List(Post(route))
  BY <1>2 DEF Dispatched
<1>4. lost = "insert" => cs = <<>> BY DEF Pre
<1>5. /\ List(dicts') /\ \A e \in DOMAIN dicts : DictStays(e)
      /\ d \notin DOMAIN dicts
      /\ lost = "none" => d \in DOMAIN dicts' /\ dicts'[d] = Constants(n, cs)
  <2>1. DOMAIN dicts = 1..Len(dicts) /\ Len(dicts) \in Nat BY <1>1, ListParts
  <2>2. d \notin DOMAIN dicts /\ d \in 1..Len(dicts) + 1 BY <2>1
  <2>3. CASE lost = "insert" BY <1>1, <1>3, <2>2, <2>3 DEF DictStays
  <2>4. CASE lost # "insert"
    <3>1. Wrote(dicts', dicts, d, Constants(n, cs)) BY <1>1, <1>3, <2>2, <2>4, WriteIs
    <3>2. Contents(dicts, d) = {} BY <2>2 DEF Contents
    <3>3. dicts'[d] = {} \cup Constants(n, cs) BY <3>1, <3>2 DEF Wrote
    <3> QED BY <2>2, <3>1, <3>3 DEF Wrote, DictStays
  <2> QED BY <2>3, <2>4
<1>6. invocations \subseteq invocations' /\ (cs # <<>> => n \in invocations')
        /\ (lost = "none" => n \in invocations')
  BY <1>3, <1>4 DEF Invoked
<1>7. PICK a : Grows(answers', answers, a) BY <1>1, <1>3, Appended
<1>8. /\ List(answers') /\ DOMAIN answers' = 1..n /\ DOMAIN answers = 1..Len(answers)
      /\ Len(answers) \in Nat
  BY <1>1, <1>7, ListParts DEF Grows
<1>9. n \notin DOMAIN answers /\ n \in DOMAIN answers' /\ DOMAIN answers \subseteq DOMAIN answers'
  BY <1>8
<1>10. /\ InContext(effects', invocations')
       /\ Own(n)' = Constants(n, cs)
       /\ \A m \in DOMAIN answers : Own(m)' = Own(m)
  <2>1. PICK u : u = effects' OBVIOUS
  <2>2. PICK known : known = invocations' OBVIOUS
  <2>3. u = effects \o Performed(n, "pre", cs, {}) /\ List(cs) /\ invocations \subseteq known
          /\ (cs # <<>> => n \in known)
    BY <1>3, <1>6, <2>1, <2>2
  <2>4. Performs(u, n, cs, known) BY <1>9, <2>3, PerformOwn
  <2>5. \A m : Own(m)' = Written(u, m, Len(u)) BY <2>1 DEF Own
  <2> QED BY <2>1, <2>2, <2>4, <2>5 DEF Performs
<1>11. List(effects') /\ \A k \in DOMAIN effects' : effects'[k].request \in DOMAIN answers'
  <2>1. PICK u : u = effects' OBVIOUS
  <2>2. Extends(u, n, cs) BY <1>1, <1>3, <2>1, PerformedEffects
  <2>3. List(u) /\ DOMAIN u = 1..Len(effects) + Len(cs) /\ DOMAIN effects = 1..Len(effects)
          /\ Len(effects) \in Nat /\ Len(cs) \in Nat
    BY <1>1, <1>3, <2>2, ListParts DEF Extends
  <2>4. ASSUME NEW k \in DOMAIN u PROVE u[k].request \in DOMAIN answers'
    <3>1. CASE k \in 1..Len(effects)
      <4>1. u[k] = effects[k] /\ effects[k].request \in DOMAIN answers
        BY <2>2, <2>3, <3>1 DEF Extends, Contexts
      <4> QED BY <1>9, <4>1
    <3>2. CASE k \notin 1..Len(effects)
      <4> DEFINE q == k - Len(effects)
      <4>1. q \in 1..Len(cs) /\ Len(effects) + q = k BY <2>3, <3>2
      <4> HIDE DEF q
      <4>2. PICK before : u[k] = Effect(n, "pre", cs[q], before) BY <2>2, <4>1 DEF Extends
      <4>3. u[k].request = n BY <4>2 DEF Effect
      <4> QED BY <1>9, <4>3
    <3> QED BY <3>1, <3>2
  <2> QED BY <2>1, <2>3, <2>4
<1>12. ASSUME NEW t \in tasks PROVE TaskIs(t)' /\ t.request # n /\ t.context.constants # d
  <2>1. TaskIs(t) BY DEF Contexts
  <2>2. t.request \in DOMAIN answers /\ t.context.constants \in DOMAIN dicts BY <2>1 DEF TaskIs
  <2> QED BY <1>5, <1>6, <1>9, <1>10, <2>1, <2>2, TaskStays
<1> PICK new : new = NewTask(n, route, d) OBVIOUS
<1>13. CASE lost = "none" /\ Post(route) # <<>>
  <2>1. tasks' = tasks \cup {new} BY <1>3, <1>13, Zenon
  <2>2. /\ new.request = n /\ new.commands = Post(route)
        /\ new.context = [run |-> n, constants |-> d] /\ new.context.constants = d
        /\ new = [request |-> new.request, commands |-> new.commands, context |-> new.context]
    BY DEF NewTask
  <2>3. TaskIs(new)'
    <3>1. new.context.constants \in DOMAIN dicts'
            /\ dicts'[new.context.constants] = Own(new.request)'
      BY <1>5, <1>10, <1>13, <2>2
    <3>2. new.context = [run |-> new.request, constants |-> new.context.constants] BY <2>2
    <3>3. List(new.commands) /\ new.commands # <<>> BY <1>3, <1>13, <2>2
    <3>4. new.request \in DOMAIN answers' \cap invocations' BY <1>6, <1>9, <1>13, <2>2
    <3>5. new = [request |-> new.request, commands |-> new.commands, context |-> new.context]
      BY <2>2
    <3> QED BY <3>1, <3>2, <3>3, <3>4, <3>5, Zenon DEF TaskIs
  <2>4. \A t \in tasks' : TaskIs(t)' BY <1>12, <2>1, <2>3
  <2>5. \A t, u \in tasks' : Apart(t, u) BY <1>12, <2>1, <2>2 DEF Contexts, Apart
  <2> QED BY <1>5, <1>8, <1>9, <1>10, <1>11, <2>4, <2>5, ContextsKept
<1>14. CASE ~(lost = "none" /\ Post(route) # <<>>)
  <2>1. tasks' = tasks BY <1>3, <1>14
  <2>2. \A t \in tasks' : TaskIs(t)' BY <1>12, <2>1
  <2>3. \A t, u \in tasks' : Apart(t, u) BY <2>1 DEF Contexts
  <2> QED BY <1>5, <1>8, <1>9, <1>10, <1>11, <2>2, <2>3, ContextsKept
<1> QED BY <1>13, <1>14

LEMMA PostContexts ==
  ASSUME Contexts, NEW t \in tasks, NEW fails \in BOOLEAN, PostCommand(t, fails)
  PROVE  Contexts'
<1>1. UNCHANGED <<invocations, answers>> BY DEF PostCommand
<1>2. List(answers) /\ List(effects) /\ List(dicts) /\ TaskIs(t)
        /\ \A v, w \in tasks : Apart(v, w)
  BY DEF Contexts
<1>3. ASSUME fails, UNCHANGED <<dicts, effects>>, tasks' = tasks \ {t} PROVE Contexts'
  <2>1. \A m : Own(m)' = Own(m) BY <1>3 DEF Own
  <2>2. ASSUME NEW v \in tasks' PROVE TaskIs(v)'
    <3>1. TaskIs(v) BY <1>3 DEF Contexts
    <3>2. DictStays(v.context.constants) BY <1>3, <3>1 DEF TaskIs, DictStays
    <3> QED BY <1>1, <2>1, <3>1, <3>2, TaskStays
  <2>3. InContext(effects, invocations) BY ContextIs DEF Contexts
  <2>4. \A v, w \in tasks' : Apart(v, w) BY <1>2, <1>3
  <2> QED BY <1>1, <1>2, <1>3, <2>2, <2>3, <2>4, ContextsKept DEF Contexts
<1>4. CASE fails BY <1>3, <1>4 DEF PostCommand
<1>5. CASE ~fails
  <2> PICK c : c = Head(t.commands) OBVIOUS
  <2> PICK u : u = effects' OBVIOUS
  <2> PICK d : d = t.context.constants OBVIOUS
  <2>0. d \in DOMAIN dicts /\ Contents(dicts, d) = Own(t.request) BY <1>2 DEF TaskIs, Contents
  <2>1. /\ u = Append(effects, Effect(t.request, "post", c, Own(t.request)))
        /\ dicts' = Write(dicts, d, {Constant(t.request, c)})
        /\ tasks' = (tasks \ {t}) \cup (IF Len(t.commands) = 1 THEN {} ELSE {Stepped(t)})
    BY <1>5, <2>0 DEF PostCommand
  <2>w. /\ List(dicts') /\ d \in DOMAIN dicts'
        /\ dicts'[d] = Own(t.request) \cup {Constant(t.request, c)}
        /\ \A e \in DOMAIN dicts \ {d} : DictStays(e)
    <3>1. d \in 1..Len(dicts) + 1 BY <1>2, <2>0, ListParts
    <3>2. Wrote(dicts', dicts, d, {Constant(t.request, c)}) BY <1>2, <2>1, <3>1, WriteIs
    <3> QED BY <2>0, <3>2 DEF Wrote, DictStays
  <2>2. /\ InContext(u, invocations)
        /\ Written(u, t.request, Len(u)) = Own(t.request) \cup {Constant(t.request, c)}
        /\ \A m : m # t.request => Written(u, m, Len(u)) = Own(m)
    <3>1. Posts(u, t, c) BY <2>1, PostOwn
    <3> QED BY <3>1 DEF Posts
  <2>3. \A m : Own(m)' = Written(u, m, Len(u)) BY DEF Own
  <2>4. List(u) /\ \A i \in DOMAIN u : u[i].request \in DOMAIN answers
    <3> PICK e : e = Effect(t.request, "post", c, Own(t.request)) OBVIOUS
    <3>1. Grows(u, effects, e) BY <1>2, <2>1, Appended
    <3>2. e.request \in DOMAIN answers BY <1>2 DEF Effect, TaskIs
    <3>3. List(u) /\ DOMAIN u = 1..Len(effects) + 1 /\ DOMAIN effects = 1..Len(effects)
            /\ Len(effects) \in Nat
      BY <1>2, <3>1, ListParts DEF Grows
    <3>4. ASSUME NEW i \in DOMAIN u PROVE u[i].request \in DOMAIN answers
      <4>1. CASE i = Len(effects) + 1 BY <3>1, <3>2, <4>1 DEF Grows
      <4>2. CASE i \in 1..Len(effects)
        <5>1. u[i] = effects[i] BY <3>1, <4>2 DEF Grows
        <5> QED BY <3>3, <4>2, <5>1 DEF Contexts
      <4> QED BY <3>3, <4>1, <4>2
    <3> QED BY <3>3, <3>4
  <2>5. ASSUME NEW v \in tasks, v # t
        PROVE  TaskIs(v)' /\ v.request # t.request /\ v.context.constants # d
    <3>1. TaskIs(v) /\ v.request # t.request /\ v.context.constants # d
      BY <1>2, <2>5 DEF Contexts, Apart
    <3>2. Own(v.request)' = Own(v.request) BY <2>2, <2>3, <3>1
    <3>3. DictStays(v.context.constants) BY <2>w, <3>1 DEF TaskIs
    <3> QED BY <1>1, <3>1, <3>2, <3>3, TaskStays
  <2> PICK new : new = Stepped(t) OBVIOUS
  <2>6. new = [request |-> t.request, commands |-> Tail(t.commands), context |-> t.context]
    <3>1. t = [request |-> t.request, commands |-> t.commands, context |-> t.context]
      BY <1>2 DEF TaskIs
    <3> QED BY <3>1 DEF Stepped
  <2>7. new.request = t.request /\ new.commands = Tail(t.commands) /\ new.context = t.context
    BY <2>6
  <2>8. Len(t.commands) # 1 => TaskIs(new)'
    <3> SUFFICES ASSUME Len(t.commands) # 1 PROVE TaskIs(new)' OBVIOUS
    <3>1. Tail(t.commands) # <<>> /\ List(Tail(t.commands))
      BY <1>2, TailParts DEF TaskIs, Tails
    <3>2. new.request \in DOMAIN answers' \cap invocations' BY <1>1, <1>2, <2>7 DEF TaskIs
    <3>3. Own(new.request)' = Own(t.request) \cup {Constant(t.request, c)} BY <2>2, <2>3, <2>7
    <3>4. new.context.constants = d /\ new.context = [run |-> new.request, constants |-> d]
      BY <1>2, <2>7 DEF TaskIs
    <3>5. new = [request |-> new.request, commands |-> new.commands, context |-> new.context]
      BY <2>6
    <3>6. new.context.constants \in DOMAIN dicts'
            /\ dicts'[new.context.constants] = Own(new.request)'
      BY <2>w, <3>3, <3>4
    <3> QED BY <2>7, <3>1, <3>2, <3>4, <3>5, <3>6, Zenon DEF TaskIs
  <2>9. \A v \in tasks' : (v \in tasks /\ v # t) \/ (v = new /\ Len(t.commands) # 1) BY <2>1
  <2>10. ASSUME NEW v \in tasks' PROVE TaskIs(v)' BY <2>5, <2>8, <2>9
  <2>11. ASSUME NEW v \in tasks', NEW w \in tasks' PROVE Apart(v, w)
    BY <1>2, <2>5, <2>7, <2>9 DEF Apart
  <2> QED BY <1>1, <1>2, <2>w, <2>2, <2>4, <2>10, <2>11, ContextsKept
<1> QED BY <1>4, <1>5

LEMMA ContextsInit == DispatchInit => Contexts
<1> SUFFICES ASSUME DispatchInit PROVE Contexts OBVIOUS
<1>1. answers = <<>> /\ effects = <<>> /\ dicts = <<>> /\ tasks = {} BY DEF DispatchInit
<1>2. <<>> \in Seq({}) /\ DOMAIN <<>> = {} OBVIOUS
<1>3. List(<<>>) BY <1>2, Listed
<1> QED BY <1>1, <1>2, <1>3 DEF Contexts, ContextIsOwn

LEMMA ContextsStep ==
  Stored /\ served \in Registered(saved) /\ Contexts /\ [DispatchNext]_dispatchVars => Contexts'
<1> SUFFICES ASSUME Stored, served \in Registered(saved), Contexts, [DispatchNext]_dispatchVars
             PROVE  Contexts'
  OBVIOUS
<1>0. ASSUME UNCHANGED <<invocations, answers, effects>>, tasks' \subseteq tasks,
             List(dicts'), tasks' = {} \/ dicts' = dicts
      PROVE  Contexts'
  <2>1. \A m : Own(m)' = Own(m) BY <1>0 DEF Own
  <2>2. ASSUME NEW v \in tasks' PROVE TaskIs(v)'
    <3>1. TaskIs(v) BY <1>0 DEF Contexts
    <3>2. DictStays(v.context.constants) BY <1>0, <3>1 DEF TaskIs, DictStays
    <3> QED BY <1>0, <2>1, <3>1, <3>2, TaskStays
  <2>3. InContext(effects, invocations) BY ContextIs DEF Contexts
  <2> QED BY <1>0, <2>2, <2>3, ContextsKept DEF Contexts
<1>a. ASSUME UNCHANGED <<invocations, answers, tasks, dicts, effects>> PROVE Contexts'
  BY <1>0, <1>a DEF Contexts
<1>1. ASSUME NEW dtos \in ApiDtos, NEW active \in BOOLEAN, SaveServer(dtos, active)
      PROVE  Contexts'
  BY <1>a, <1>1 DEF SaveServer, Saving
<1>2. ASSUME NEW active \in BOOLEAN, SetServerActive(active) PROVE Contexts'
  BY <1>a, <1>2 DEF SetServerActive, Saving
<1>3. ASSUME DeleteServer PROVE Contexts' BY <1>a, <1>3 DEF DeleteServer, Saving
<1>4. ASSUME RestartServer PROVE Contexts'
  <2>1. <<>> \in Seq({}) OBVIOUS
  <2>2. List(dicts') BY <1>4, <2>1, Listed DEF RestartServer
  <2> QED BY <1>0, <1>4, <2>2 DEF RestartServer
<1>5. ASSUME NEW req \in ApiRequests, NotFound(req) PROVE Contexts' BY <1>5, NotFoundContexts
<1>6. ASSUME NEW req \in ApiRequests, NEW lost \in Faults, NEW resolved \in {200, 404},
             Dispatch(req, lost, resolved)
      PROVE  Contexts'
  BY <1>6, DispatchContexts
<1>7. ASSUME NEW task \in tasks, NEW fails \in BOOLEAN, PostCommand(task, fails)
      PROVE  Contexts'
  BY <1>7, PostContexts
<1>8. CASE UNCHANGED dispatchVars BY <1>a, <1>8 DEF dispatchVars
<1> QED BY <1>1, <1>2, <1>3, <1>4, <1>5, <1>6, <1>7, <1>8 DEF DispatchNext

(* Every command of the mock API runs for a request whose invocation is     *)
(* recorded and sees exactly what the commands of that request wrote before *)
(* it: mock_runtime_dispatcher and the background tasks of its router.      *)
THEOREM SpecContextIsOwn == DispatchSpec => []ContextIsOwn
<1> DEFINE IInv == Stored /\ served \in Registered(saved) /\ Contexts
<1>1. DispatchInit => IInv BY StoredInit, ContextsInit
<1>2. IInv /\ [DispatchNext]_dispatchVars => IInv' BY StoredStep, ContextsStep
<1>3. IInv => ContextIsOwn BY DEF Contexts
<1> QED BY <1>1, <1>2, <1>3, PTL DEF DispatchSpec

------------------------------------------------------------------------------
(* The commands behind a response.                                          *)

PostOf(s, n) == {j \in DOMAIN s : s[j].request = n /\ s[j].stage = "post"}
Behind(a) == a.sent[a.position]
Settled(n) == faults = 0 /\ restarts = 0 /\ \A t \in tasks : t.request # n

\* What ran is a beginning of a list, ...
InOrder(all, ran, s) ==
  \A i \in ran : /\ Cardinality(SoFar(ran, i)) <= Len(all)
                 /\ s[i].command = all[Cardinality(SoFar(ran, i))]
\* ... and what a task has left is the rest of it.
Remains(rest, all, k) ==
  Len(all) = k + Len(rest) /\ \A i \in 1..Len(rest) : rest[i] = all[k + i]
Follows(n, all) ==
  /\ InOrder(all, PostOf(effects, n), effects)
  /\ Settled(n) => Cardinality(PostOf(effects, n)) = Len(all)
  /\ \A t \in tasks :
       t.request = n => Remains(t.commands, all, Cardinality(PostOf(effects, n)))
Answered(n, a) ==
  IF a.position = 0
  THEN PostOf(effects, n) = {} /\ \A t \in tasks : t.request # n
  ELSE Promised(Behind(a)) => \E all \in Expected(Behind(a)) : Follows(n, all)
RunsOf(n) == \A a : a = answers[n] => Answered(n, a)
Runs ==
  /\ faults \in Nat /\ restarts \in Nat
  /\ \A n \in DOMAIN answers : RunsOf(n)

LEMMA RunsGive == Runs => RunsAsSaved
<1> SUFFICES ASSUME Runs, NEW n \in DOMAIN answers
             PROVE  LET a == answers[n]
                        ran == PostEffects(n)
                        dto == a.sent[a.position]
                    IN IF a.position = 0 THEN ran = {}
                       ELSE dto.post = Null \/ Ascending(dto.post) =>
                              \E commands \in Expected(dto) :
                                /\ \A i \in ran :
                                     /\ Cardinality(SoFar(ran, i)) <= Len(commands)
                                     /\ effects[i].command = commands[Cardinality(SoFar(ran, i))]
                                /\ faults = 0 /\ restarts = 0 /\ (\A t \in tasks : t.request # n)
                                     => Cardinality(ran) = Len(commands)
  BY Zenon DEF RunsAsSaved
<1>1. Answered(n, answers[n]) BY DEF Runs, RunsOf
<1>2. PostEffects(n) = PostOf(effects, n) BY DEF PostEffects, PostOf
<1>3. CASE answers[n].position = 0 BY <1>1, <1>2, <1>3 DEF Answered
<1>4. CASE answers[n].position # 0
  <2> PICK dto : dto = Behind(answers[n]) OBVIOUS
  <2>1. SUFFICES ASSUME Promised(dto)
                 PROVE  \E commands \in Expected(dto) :
                          /\ InOrder(commands, PostEffects(n), effects)
                          /\ Settled(n) => Cardinality(PostEffects(n)) = Len(commands)
    BY <1>4, Zenon DEF Behind, Promised, InOrder, Settled
  <2>2. PICK all \in Expected(dto) : Follows(n, all) BY <1>1, <1>4, <2>1 DEF Answered
  <2> QED BY <1>2, <2>2 DEF Follows
<1> QED BY <1>3, <1>4

LEMMA PostFinite ==
  ASSUME NEW s, List(s), NEW n
  PROVE  /\ PostOf(s, n) \subseteq 1..Len(s) /\ IsFiniteSet(PostOf(s, n))
         /\ Cardinality(PostOf(s, n)) \in Nat
<1>1. Len(s) \in Nat /\ DOMAIN s = 1..Len(s) BY ListParts
<1>2. PostOf(s, n) \subseteq 1..Len(s) BY <1>1 DEF PostOf
<1>3. IsFiniteSet(1..Len(s)) BY <1>1, FS_Interval
<1>4. IsFiniteSet(PostOf(s, n)) BY <1>2, <1>3, FS_Subset
<1> QED BY <1>2, <1>4, FS_CardinalityType

\* Commands before a response leave the commands behind one alone.
LEMMA PreKeepsPost ==
  ASSUME List(effects), NEW n, NEW cs, List(cs), NEW u, Extends(u, n, cs)
  PROVE  \A m : PostOf(u, m) = PostOf(effects, m)
<1>1. /\ DOMAIN effects = 1..Len(effects) /\ DOMAIN u = 1..Len(effects) + Len(cs)
      /\ Len(effects) \in Nat /\ Len(cs) \in Nat
  BY ListParts DEF Extends
<1>2. ASSUME NEW k \in DOMAIN u, k \notin 1..Len(effects) PROVE u[k].stage # "post"
  <2> PICK q : q = k - Len(effects) OBVIOUS
  <2>1. q \in 1..Len(cs) /\ Len(effects) + q = k BY <1>1, <1>2
  <2>2. PICK before : u[k] = Effect(n, "pre", cs[q], before) BY <2>1 DEF Extends
  <2>3. u[k].stage = "pre" BY <2>2 DEF Effect
  <2> QED BY <2>3
<1>3. \A k \in 1..Len(effects) : k \in DOMAIN u /\ u[k] = effects[k] BY <1>1 DEF Extends
<1> SUFFICES ASSUME NEW m PROVE PostOf(u, m) = PostOf(effects, m) OBVIOUS
<1>4. \A k : k \in PostOf(u, m) <=> k \in PostOf(effects, m) BY <1>1, <1>2, <1>3 DEF PostOf
<1> QED BY <1>4

LEMMA PostAdds ==
  ASSUME List(effects), NEW e, e.stage = "post", NEW u, Grows(u, effects, e)
  PROVE  /\ PostOf(u, e.request) = PostOf(effects, e.request) \cup {Len(effects) + 1}
         /\ Cardinality(PostOf(u, e.request)) = Cardinality(PostOf(effects, e.request)) + 1
         /\ \A m : m # e.request => PostOf(u, m) = PostOf(effects, m)
<1>1. /\ DOMAIN effects = 1..Len(effects) /\ DOMAIN u = 1..Len(effects) + 1
      /\ Len(effects) \in Nat
  BY ListParts DEF Grows
<1>2. /\ \A k \in 1..Len(effects) : u[k] = effects[k]
      /\ u[Len(effects) + 1] = e
  BY DEF Grows
<1>3. PostOf(u, e.request) = PostOf(effects, e.request) \cup {Len(effects) + 1}
  <2>1. \A k : k \in PostOf(u, e.request) <=>
                 k \in PostOf(effects, e.request) \/ k = Len(effects) + 1
    BY <1>1, <1>2 DEF PostOf
  <2> QED BY <2>1
<1>4. Len(effects) + 1 \notin PostOf(effects, e.request) BY <1>1 DEF PostOf
<1>5. Cardinality(PostOf(u, e.request)) = Cardinality(PostOf(effects, e.request)) + 1
  BY <1>3, <1>4, PostFinite, FS_AddElement
<1>6. ASSUME NEW m, m # e.request PROVE PostOf(u, m) = PostOf(effects, m)
  <2>1. \A k : k \in PostOf(u, m) <=> k \in PostOf(effects, m) BY <1>1, <1>2, <1>6 DEF PostOf
  <2> QED BY <2>1
<1> QED BY <1>3, <1>5, <1>6

Alike(s, u, ran) == \A i \in ran : u[i] = s[i]
\* A request whose commands a step leaves alone.
LEMMA RunsOfStays ==
  ASSUME NEW m, RunsOf(m), answers'[m] = answers[m],
         PostOf(effects', m) = PostOf(effects, m),
         Alike(effects, effects', PostOf(effects, m)),
         \A t \in tasks' : t.request = m => t \in tasks,
         Settled(m)' => Settled(m)
  PROVE  RunsOf(m)'
<1> PICK a : a = answers[m] OBVIOUS
<1>0. Answered(m, a) BY DEF RunsOf
<1> SUFFICES Answered(m, a)' BY DEF RunsOf
<1>1. CASE a.position = 0 BY <1>0, <1>1 DEF Answered
<1>2. CASE a.position # 0
  <2> SUFFICES ASSUME Promised(Behind(a))
               PROVE  \E all \in Expected(Behind(a)) : Follows(m, all)'
    BY <1>2 DEF Answered
  <2>1. PICK all \in Expected(Behind(a)) : Follows(m, all) BY <1>0, <1>2 DEF Answered
  <2>2. InOrder(all, PostOf(effects', m), effects') BY <2>1 DEF Follows, InOrder, Alike
  <2>3. Follows(m, all)' BY <2>1, <2>2 DEF Follows
  <2> QED BY <2>3
<1> QED BY <1>1, <1>2

LEMMA NotFoundRuns ==
  ASSUME Contexts, Runs, NEW req, NotFound(req) PROVE Runs'
<1>1. /\ UNCHANGED <<tasks, effects, restarts>> /\ faults' = faults
      /\ answers' = Append(answers, Answer(req, 404, 0))
  BY DEF NotFound, Received, Runs
<1>2. List(answers) /\ List(effects) BY DEF Contexts
<1> PICK a : a = Answer(req, 404, 0) OBVIOUS
<1>3. Grows(answers', answers, a) BY <1>1, <1>2, Appended
<1> PICK n : n = Len(answers) + 1 OBVIOUS
<1>4. /\ DOMAIN answers = 1..Len(answers) /\ DOMAIN answers' = 1..n /\ Len(answers) \in Nat
      /\ answers'[n] = a /\ \A m \in 1..Len(answers) : answers'[m] = answers[m]
  BY <1>2, <1>3, ListParts DEF Grows
<1>5. a.position = 0 BY DEF Answer
<1>6. PostOf(effects, n) = {} /\ \A t \in tasks : t.request # n
  <2>1. n \notin DOMAIN answers BY <1>4
  <2> QED BY <2>1 DEF PostOf, Contexts, TaskIs
<1>7. RunsOf(n)' BY <1>1, <1>4, <1>5, <1>6 DEF RunsOf, Answered
<1>8. ASSUME NEW m \in DOMAIN answers PROVE RunsOf(m)'
  <2>1. RunsOf(m) BY DEF Runs
  <2>2. answers'[m] = answers[m] BY <1>4
  <2>3. Settled(m)' <=> Settled(m) BY <1>1 DEF Settled
  <2>4. PostOf(effects', m) = PostOf(effects, m) /\ Alike(effects, effects', PostOf(effects, m))
    BY <1>1 DEF Alike
  <2> QED BY <1>1, <2>1, <2>2, <2>3, <2>4, RunsOfStays
<1>9. ASSUME NEW m \in DOMAIN answers' PROVE RunsOf(m)'
  <2>1. m = n \/ m \in DOMAIN answers BY <1>4
  <2> QED BY <1>7, <1>8, <2>1
<1> QED BY <1>1, <1>9 DEF Runs

LEMMA DispatchRuns ==
  ASSUME Stored, served \in Registered(saved), Contexts, Runs, NEW req, NEW lost \in Faults,
         NEW resolved, Dispatch(req, lost, resolved)
  PROVE  Runs'
<1>1. List(answers) /\ List(effects) /\ List(dicts) BY DEF Contexts
<1> PICK n : n = Len(answers) + 1 OBVIOUS
<1> PICK d : d = Len(dicts) + 1 OBVIOUS
<1>0. PICK i \in DOMAIN saved.sent : \E route : Dispatched(n, d, lost, i, route)
  BY <1>1, DispatchIs
<1>2. PICK route : Dispatched(n, d, lost, i, route) BY <1>0
<1> PICK cs : cs = Pre(route, lost) OBVIOUS
<1> PICK new : new = NewTask(n, route, d) OBVIOUS
<1> PICK all : all = Post(route) OBVIOUS
<1>3. /\ \E a : answers' = Append(answers, a) /\ a.position = i /\ a.sent = saved.sent
      /\ effects' = effects \o Performed(n, "pre", cs, {}) /\ List(cs)
      /\ tasks' = IF lost = "none" /\ Post(route) # <<>> THEN tasks \cup {new} ELSE tasks
      /\ List(all) /\ MayRun(route, saved.sent[i])
  BY <1>2, Zenon DEF Dispatched
<1>4. /\ restarts' = restarts /\ restarts \in Nat /\ faults \in Nat /\ faults' \in Nat
      /\ lost = "none" => faults' = faults
      /\ lost # "none" => faults' # 0
  BY DEF Dispatch, Received, Runs
<1>5. PICK a : answers' = Append(answers, a) /\ a.position = i /\ a.sent = saved.sent BY <1>3
<1>6. Grows(answers', answers, a) BY <1>1, <1>5, Appended
<1>7. /\ DOMAIN answers = 1..Len(answers) /\ DOMAIN answers' = 1..n /\ Len(answers) \in Nat
      /\ answers'[n] = a /\ \A m \in 1..Len(answers) : answers'[m] = answers[m]
  BY <1>1, <1>6, ListParts DEF Grows
<1>8. a.position # 0 /\ (Promised(Behind(a)) => all \in Expected(Behind(a)))
  <2>1. saved # Null BY Serving DEF Dispatch
  <2>2. DOMAIN saved.sent = 1..Len(saved.sent) /\ Len(saved.sent) \in Nat
    BY <2>1, StoredRoutes
  <2>3. i # 0 BY <2>2
  <2>4. Behind(a) = saved.sent[i] BY <1>5 DEF Behind
  <2> QED BY <1>3, <1>5, <2>3, <2>4 DEF MayRun
<1>9. PICK u : u = effects' OBVIOUS
<1>10. Extends(u, n, cs) BY <1>1, <1>3, <1>9, PerformedEffects
<1>11. \A m : PostOf(u, m) = PostOf(effects, m) BY <1>1, <1>3, <1>10, PreKeepsPost
<1>12. \A m : Alike(effects, u, PostOf(effects, m))
  <2>1. DOMAIN effects = 1..Len(effects) BY <1>1, ListParts
  <2> QED BY <1>10, <2>1 DEF Alike, Extends, PostOf
<1>13. n \notin DOMAIN answers /\ PostOf(u, n) = {} /\ \A t \in tasks : t.request # n
  <2>1. n \notin DOMAIN answers BY <1>7
  <2>2. PostOf(effects, n) = {} /\ \A t \in tasks : t.request # n
    BY <2>1 DEF PostOf, Contexts, TaskIs
  <2> QED BY <1>11, <2>1, <2>2
<1>14. new.request = n /\ new.commands = all BY DEF NewTask
<1>15. Follows(n, all)'
  <2>1. PostOf(effects', n) = {} BY <1>9, <1>13
  <2>2. Cardinality(PostOf(effects', n)) = 0 BY <2>1, FS_EmptySet
  <2>3. InOrder(all, PostOf(effects', n), effects') BY <2>1 DEF InOrder
  <2>4. ASSUME Settled(n)' PROVE Len(all) = 0
    <3>1. lost = "none" BY <1>4, <2>4 DEF Settled
    <3>2. all = <<>> BY <1>3, <1>14, <2>4, <3>1 DEF Settled
    <3> QED BY <3>2
  <2>5. ASSUME NEW t \in tasks', t.request = n PROVE Remains(t.commands, all, 0)
    <3>1. t = new BY <1>3, <1>13, <2>5
    <3>2. Len(all) \in Nat BY <1>3, ListParts
    <3> QED BY <1>14, <3>1, <3>2 DEF Remains
  <2> QED BY <2>2, <2>3, <2>4, <2>5 DEF Follows
<1>16. RunsOf(n)'
  <2>1. Promised(Behind(a)) => \E l \in Expected(Behind(a)) : Follows(n, l)' BY <1>8, <1>15
  <2>2. Answered(n, a)' BY <1>8, <2>1 DEF Answered
  <2> QED BY <1>7, <2>2 DEF RunsOf
<1>17. ASSUME NEW m \in DOMAIN answers PROVE RunsOf(m)'
  <2>1. RunsOf(m) BY DEF Runs
  <2>2. answers'[m] = answers[m] BY <1>7
  <2>3. m # n BY <1>13
  <2>4. \A t \in tasks' : t.request = m => t \in tasks BY <1>3, <1>14, <2>3
  <2>5. ASSUME Settled(m)' PROVE Settled(m)
    <3>1. lost = "none" BY <1>4, <2>5 DEF Settled
    <3> QED BY <1>3, <1>4, <2>5, <3>1 DEF Settled
  <2>6. PostOf(effects', m) = PostOf(effects, m) /\ Alike(effects, effects', PostOf(effects, m))
    BY <1>9, <1>11, <1>12
  <2> QED BY <2>1, <2>2, <2>4, <2>5, <2>6, RunsOfStays
<1>18. ASSUME NEW m \in DOMAIN answers' PROVE RunsOf(m)'
  <2>1. m = n \/ m \in DOMAIN answers BY <1>7
  <2> QED BY <1>16, <1>17, <2>1
<1> QED BY <1>4, <1>18 DEF Runs

\* One more command of the request ran: the next of the list.
LEMMA InOrderGrows ==
  ASSUME List(effects), NEW all, NEW e, e.stage = "post", NEW u, Grows(u, effects, e),
         InOrder(all, PostOf(effects, e.request), effects),
         NEW rest, List(rest), rest # <<>>, e.command = Head(rest),
         Remains(rest, all, Cardinality(PostOf(effects, e.request)))
  PROVE  InOrder(all, PostOf(u, e.request), u)
<1> PICK L : L = Len(effects) OBVIOUS
<1> PICK ran : ran = PostOf(effects, e.request) OBVIOUS
<1> PICK more : more = PostOf(u, e.request) OBVIOUS
<1>1. L \in Nat /\ ran \subseteq 1..L /\ Cardinality(ran) \in Nat BY ListParts, PostFinite
<1>2. more = ran \cup {L + 1} /\ Cardinality(more) = Cardinality(ran) + 1 BY PostAdds
<1>3. u[L + 1] = e /\ \A i \in 1..L : u[i] = effects[i] BY DEF Grows
<1>4. Len(rest) \in Nat \ {0} /\ Head(rest) = rest[1] BY TailParts
<1> SUFFICES ASSUME NEW i \in more
             PROVE  /\ Cardinality(SoFar(more, i)) <= Len(all)
                    /\ u[i].command = all[Cardinality(SoFar(more, i))]
  BY DEF InOrder
<1>5. CASE i = L + 1
  <2>1. SoFar(more, i) = more BY <1>1, <1>2, <1>5 DEF SoFar
  <2>2. Remains(rest, all, Cardinality(ran)) OBVIOUS
  <2>3. /\ Len(all) = Cardinality(ran) + Len(rest) /\ rest[1] = all[Cardinality(ran) + 1]
    BY <1>4, <2>2 DEF Remains
  <2>4. u[i].command = rest[1] BY <1>3, <1>4, <1>5
  <2>5. Cardinality(SoFar(more, i)) = Cardinality(ran) + 1 BY <1>2, <2>1
  <2>6. Cardinality(ran) + 1 <= Len(all) BY <1>1, <1>4, <2>3
  <2> QED BY <2>3, <2>4, <2>5, <2>6
<1>6. CASE i \in ran
  <2>1. SoFar(more, i) = SoFar(ran, i) BY <1>1, <1>2, <1>6 DEF SoFar
  <2>2. u[i] = effects[i] BY <1>1, <1>3, <1>6
  <2>3. /\ Cardinality(SoFar(ran, i)) <= Len(all)
        /\ effects[i].command = all[Cardinality(SoFar(ran, i))]
    BY <1>6 DEF InOrder
  <2> QED BY <2>1, <2>2, <2>3
<1> QED BY <1>2, <1>5, <1>6

\* The rest of a list, when its first command has run.
LEMMA RemainsNext ==
  ASSUME NEW cs, List(cs), cs # <<>>, NEW all, NEW k \in Nat, Remains(cs, all, k)
  PROVE  Remains(Tail(cs), all, k + 1)
<1> PICK rest : rest = Tail(cs) OBVIOUS
<1>1. Len(all) = k + Len(cs) /\ \A i \in 1..Len(cs) : cs[i] = all[k + i] BY DEF Remains
<1>2. /\ Len(rest) = Len(cs) - 1 /\ Len(cs) \in Nat \ {0}
      /\ \A i \in 1..Len(cs) - 1 : rest[i] = cs[i + 1]
  BY TailParts DEF Tails
<1>3. Len(all) = (k + 1) + Len(rest) BY <1>1, <1>2
<1>4. ASSUME NEW i \in 1..Len(rest) PROVE rest[i] = all[(k + 1) + i]
  <2>1. Len(rest) = Len(cs) - 1 /\ Len(cs) \in Nat BY <1>2
  <2>2. i \in Nat /\ i \in 1..Len(cs) - 1 /\ i + 1 \in 1..Len(cs) BY <2>1
  <2>3. k + (i + 1) = (k + 1) + i BY <2>2
  <2>4. rest[i] = cs[i + 1] /\ cs[i + 1] = all[k + (i + 1)] BY <1>1, <1>2, <2>2
  <2> QED BY <2>3, <2>4
<1> QED BY <1>3, <1>4 DEF Remains

LEMMA PostRuns ==
  ASSUME Contexts, Runs, NEW t \in tasks, NEW fails \in BOOLEAN, PostCommand(t, fails)
  PROVE  Runs'
<1>1. /\ UNCHANGED <<answers, restarts>> /\ faults \in Nat /\ restarts \in Nat
      /\ fails => faults' = faults + 1 /\ UNCHANGED effects
      /\ ~fails => faults' = faults
  BY DEF PostCommand, Runs
<1>2. List(answers) /\ List(effects) /\ TaskIs(t) /\ \A v, w \in tasks : Apart(v, w)
  BY DEF Contexts
<1>3. CASE fails
  <2>1. tasks' = tasks \ {t} BY <1>3 DEF PostCommand
  <2>2. \A m : ~Settled(m)' BY <1>1, <1>3 DEF Settled
  <2>3. ASSUME NEW m \in DOMAIN answers' PROVE RunsOf(m)'
    <3>1. RunsOf(m) BY <1>1 DEF Runs
    <3>2. Alike(effects, effects', PostOf(effects, m)) BY <1>1, <1>3 DEF Alike
    <3> QED BY <1>1, <1>3, <2>1, <2>2, <3>1, <3>2, RunsOfStays
  <2> QED BY <1>1, <1>3, <2>3 DEF Runs
<1>4. CASE ~fails
  <2> PICK seen : seen = Contents(dicts, t.context.constants) OBVIOUS
  <2> PICK e : e = Effect(t.request, "post", Head(t.commands), seen) OBVIOUS
  <2> PICK u : u = effects' OBVIOUS
  <2> PICK n : n = t.request OBVIOUS
  <2> PICK new : new = Stepped(t) OBVIOUS
  <2>1. u = Append(effects, e)
          /\ tasks' = (tasks \ {t}) \cup (IF Len(t.commands) = 1 THEN {} ELSE {new})
    BY <1>4 DEF PostCommand
  <2>2. e.stage = "post" /\ e.request = n /\ e.command = Head(t.commands) BY DEF Effect
  <2>3. Grows(u, effects, e) BY <1>2, <2>1, Appended
  <2>4. n \in DOMAIN answers /\ List(t.commands) /\ t.commands # <<>> BY <1>2 DEF TaskIs
  <2>5. new.request = n /\ new.commands = Tail(t.commands)
    <3>1. t = [request |-> t.request, commands |-> t.commands, context |-> t.context]
      BY <1>2 DEF TaskIs
    <3>2. new = [request |-> t.request, commands |-> Tail(t.commands), context |-> t.context]
      BY <3>1 DEF Stepped
    <3> QED BY <3>2
  <2>6. /\ Cardinality(PostOf(u, n)) = Cardinality(PostOf(effects, n)) + 1
        /\ \A m : m # n => PostOf(u, m) = PostOf(effects, m)
    BY <1>2, <2>2, <2>3, PostAdds
  <2>7. Cardinality(PostOf(effects, n)) \in Nat BY <1>2, PostFinite
  <2>8. \A v \in tasks' : (v \in tasks /\ v # t) \/ (v = new /\ Len(t.commands) # 1) BY <2>1
  <2>9. \A v \in tasks : v # t => v.request # n BY <1>2 DEF Apart
  <2>10. ASSUME NEW all, Follows(n, all) PROVE Follows(n, all)'
    <3>1. /\ InOrder(all, PostOf(effects, n), effects)
          /\ Remains(t.commands, all, Cardinality(PostOf(effects, n)))
      BY <2>10 DEF Follows
    <3>2. InOrder(all, PostOf(u, n), u) BY <1>2, <2>2, <2>3, <2>4, <3>1, InOrderGrows
    <3>3. Remains(Tail(t.commands), all, Cardinality(PostOf(u, n)))
      BY <2>4, <2>6, <2>7, <3>1, RemainsNext
    <3>4. ASSUME Settled(n)' PROVE Cardinality(PostOf(u, n)) = Len(all)
      <4>1. Len(t.commands) = 1 BY <2>1, <2>5, <3>4 DEF Settled
      <4> QED BY <2>6, <3>1, <4>1 DEF Remains
    <3>5. ASSUME NEW v \in tasks', v.request = n
          PROVE  Remains(v.commands, all, Cardinality(PostOf(u, n)))
      BY <2>5, <2>8, <2>9, <3>3, <3>5
    <3> QED BY <3>2, <3>4, <3>5 DEF Follows
  <2>11. RunsOf(n)'
    <3> PICK a : a = answers[n] OBVIOUS
    <3>1. Answered(n, a) /\ answers' = answers BY <1>1, <2>4 DEF Runs, RunsOf
    <3>2. a.position # 0 BY <3>1 DEF Answered
    <3>3. Promised(Behind(a)) => \E all \in Expected(Behind(a)) : Follows(n, all)
      BY <3>1, <3>2 DEF Answered
    <3>4. Promised(Behind(a)) => \E all \in Expected(Behind(a)) : Follows(n, all)'
      BY <2>10, <3>3
    <3>5. Answered(n, a)' BY <3>2, <3>4 DEF Answered
    <3> QED BY <3>1, <3>5 DEF RunsOf
  <2>12. ASSUME NEW m \in DOMAIN answers, m # n PROVE RunsOf(m)'
    <3>1. RunsOf(m) BY DEF Runs
    <3>2. Alike(effects, effects', PostOf(effects, m))
      <4>1. DOMAIN effects = 1..Len(effects) BY <1>2, ListParts
      <4> QED BY <2>3, <4>1 DEF Alike, Grows, PostOf
    <3>3. \A v \in tasks' : v.request = m => v \in tasks BY <2>5, <2>8, <2>12
    <3>4. ASSUME Settled(m)' PROVE Settled(m)
      <4>1. \A v \in tasks : v = t \/ v \in tasks' BY <2>1
      <4> QED BY <1>1, <1>4, <2>12, <3>4, <4>1 DEF Settled
    <3>5. PostOf(effects', m) = PostOf(effects, m) BY <2>6, <2>12
    <3> QED BY <1>1, <3>1, <3>2, <3>3, <3>4, <3>5, RunsOfStays
  <2> QED BY <1>1, <1>4, <2>11, <2>12 DEF Runs
<1> QED BY <1>3, <1>4

LEMMA RunsInit == DispatchInit => Runs
<1> SUFFICES ASSUME DispatchInit PROVE Runs OBVIOUS
<1>1. answers = <<>> /\ faults = 0 /\ restarts = 0 BY DEF DispatchInit
<1>2. DOMAIN <<>> = {} OBVIOUS
<1> QED BY <1>1, <1>2 DEF Runs

LEMMA RunsStep ==
  Stored /\ served \in Registered(saved) /\ Contexts /\ Runs /\ [DispatchNext]_dispatchVars => Runs'
<1> SUFFICES ASSUME Stored, served \in Registered(saved), Contexts, Runs,
                    [DispatchNext]_dispatchVars
             PROVE  Runs'
  OBVIOUS
<1>0. ASSUME UNCHANGED <<answers, effects>>, faults' = faults, restarts' \in Nat,
             (tasks' = tasks /\ restarts' = restarts) \/ (tasks' = {} /\ restarts' # 0)
      PROVE  Runs'
  <2>1. \A m : Settled(m)' => Settled(m) BY <1>0 DEF Settled
  <2>2. ASSUME NEW m \in DOMAIN answers' PROVE RunsOf(m)'
    <3>1. RunsOf(m) BY <1>0 DEF Runs
    <3>2. Alike(effects, effects', PostOf(effects, m)) BY <1>0 DEF Alike
    <3> QED BY <1>0, <2>1, <3>1, <3>2, RunsOfStays
  <2> QED BY <1>0, <2>2 DEF Runs
<1>a. ASSUME UNCHANGED <<answers, tasks, effects, restarts, faults>> PROVE Runs'
  <2>1. restarts \in Nat BY DEF Runs
  <2> QED BY <1>0, <1>a, <2>1
<1>1. ASSUME NEW dtos \in ApiDtos, NEW active \in BOOLEAN, SaveServer(dtos, active) PROVE Runs'
  BY <1>a, <1>1 DEF SaveServer, Saving
<1>2. ASSUME NEW active \in BOOLEAN, SetServerActive(active) PROVE Runs'
  BY <1>a, <1>2 DEF SetServerActive, Saving
<1>3. ASSUME DeleteServer PROVE Runs' BY <1>a, <1>3 DEF DeleteServer, Saving
<1>4. ASSUME RestartServer PROVE Runs'
  <2>1. UNCHANGED <<answers, effects, faults>> /\ restarts' = restarts + 1 /\ tasks' = {}
    BY <1>4 DEF RestartServer
  <2>2. restarts' \in Nat /\ restarts' # 0 BY <2>1 DEF Runs
  <2> QED BY <1>0, <2>1, <2>2
<1>5. ASSUME NEW req \in ApiRequests, NotFound(req) PROVE Runs' BY <1>5, NotFoundRuns
<1>6. ASSUME NEW req \in ApiRequests, NEW lost \in Faults, NEW resolved \in {200, 404},
             Dispatch(req, lost, resolved)
      PROVE  Runs'
  BY <1>6, DispatchRuns
<1>7. ASSUME NEW task \in tasks, NEW fails \in BOOLEAN, PostCommand(task, fails) PROVE Runs'
  BY <1>7, PostRuns
<1>8. CASE UNCHANGED dispatchVars BY <1>a, <1>8 DEF dispatchVars
<1> QED BY <1>1, <1>2, <1>3, <1>4, <1>5, <1>6, <1>7, <1>8 DEF DispatchNext

(* Behind a response run the commands that the client saved for the route   *)
(* that answered, in their order and each once, whatever is saved, deleted  *)
(* or restarted in between; all of them run when nothing failed: the loader *)
(* and the background tasks of mock_runtime_dispatcher.                     *)
THEOREM SpecRunsAsSaved == DispatchSpec => []RunsAsSaved
<1> DEFINE IInv == Stored /\ served \in Registered(saved) /\ Contexts /\ Runs
<1>1. DispatchInit => IInv BY StoredInit, ContextsInit, RunsInit
<1>2. IInv /\ [DispatchNext]_dispatchVars => IInv' BY StoredStep, ContextsStep, RunsStep
<1>3. IInv => RunsAsSaved BY RunsGive
<1> QED BY <1>1, <1>2, <1>3, PTL DEF DispatchSpec

------------------------------------------------------------------------------
(* Paths.                                                                   *)

\* A path without the slashes at its end.
Stripped(t, p) ==
  /\ List(t) /\ Len(t) <= Len(p)
  /\ \A i \in 1..Len(t) : t[i] = p[i]
  /\ \A i \in Len(t) + 1..Len(p) : p[i] = "/"
  /\ Len(t) = 0 \/ t[Len(t)] # "/"
Ends(p, n) == (\A i \in n + 1..Len(p) : p[i] = "/") /\ (n = 0 \/ p[n] # "/")

LEMMA EndIs ==
  ASSUME NEW p, List(p)
  PROVE  \E n \in 0..Len(p) : Ends(p, n)
<1> DEFINE S == {n \in 0..Len(p) : \A i \in n + 1..Len(p) : p[i] = "/"}
<1>1. Len(p) \in Nat BY ListParts
<1>2. Len(p) \in S /\ S \subseteq Nat BY <1>1
<1> DEFINE n == Min(S)
<1>3. n \in S /\ \A y \in S : n <= y
  <2> HIDE DEF S
  <2> QED BY <1>2, LeastOf
<1> HIDE DEF n
<1>4. n \in 0..Len(p) /\ \A i \in n + 1..Len(p) : p[i] = "/" BY <1>3
<1>5. ASSUME n # 0, p[n] = "/" PROVE FALSE
  <2> DEFINE m == n - 1
  <2>1. m \in 0..Len(p) /\ m < n BY <1>1, <1>4, <1>5
  <2>2. ASSUME NEW i \in m + 1..Len(p) PROVE p[i] = "/"
    <3>1. i = n \/ i \in n + 1..Len(p) BY <1>1, <1>4, <2>2
    <3> QED BY <1>4, <1>5, <3>1
  <2>3. m \in S BY <2>1, <2>2
  <2> HIDE DEF S
  <2>4. n <= m BY <1>3, <2>3
  <2> QED BY <1>1, <1>4, <2>1, <2>4
<1> QED BY <1>4, <1>5 DEF Ends

LEMMA EndUnique ==
  ASSUME NEW p, List(p), NEW n \in 0..Len(p), NEW m \in 0..Len(p), Ends(p, n), Ends(p, m)
  PROVE  n = m
<1>1. Len(p) \in Nat BY ListParts
<1>2. n < m => m \in n + 1..Len(p) /\ m # 0 BY <1>1
<1>3. m < n => n \in m + 1..Len(p) /\ n # 0 BY <1>1
<1>4. ~(n < m) BY <1>2 DEF Ends
<1>5. ~(m < n) BY <1>3 DEF Ends
<1> QED BY <1>1, <1>4, <1>5

LEMMA StripIs ==
  ASSUME NEW p, List(p)
  PROVE  Stripped(StripSlashes(p), p)
<1>1. Len(p) \in Nat BY ListParts
<1> DEFINE n == CHOOSE n \in 0..Len(p) : Ends(p, n)
<1>2. n \in 0..Len(p) /\ Ends(p, n) BY EndIs
<1>3. StripSlashes(p) = SubSeq(p, 1, n) BY Zenon DEF StripSlashes, Ends
<1> HIDE DEF n
<1> DEFINE t == StripSlashes(p)
<1>4. Begins(t, p, n) BY <1>2, <1>3, Cut
<1> HIDE DEF t
<1>5. List(t) /\ Len(t) = n /\ \A i \in 1..n : t[i] = p[i] BY <1>4 DEF Begins
<1>6. n # 0 => t[n] = p[n] BY <1>1, <1>2, <1>5
<1>7. n <= Len(p) BY <1>1, <1>2
<1>8. Stripped(t, p) BY <1>2, <1>5, <1>6, <1>7 DEF Stripped, Ends
<1> QED BY <1>8 DEF t

LEMMA SameList ==
  ASSUME NEW s, NEW t, List(s), List(t), Len(s) = Len(t), Agree(s, t, Len(s))
  PROVE  s = t
<1>1. s = [i \in 1..Len(s) |-> s[i]] /\ t = [i \in 1..Len(s) |-> t[i]] BY ListParts, Zenon
<1>2. [i \in 1..Len(s) |-> s[i]] = [i \in 1..Len(s) |-> t[i]] BY DEF Agree
<1> QED BY <1>1, <1>2, Zenon

LEMMA StrippedUnique ==
  ASSUME NEW p, List(p), NEW t, NEW u, Stripped(t, p), Stripped(u, p)
  PROVE  t = u
<1>1. Len(p) \in Nat /\ Len(t) \in Nat /\ Len(u) \in Nat BY ListParts DEF Stripped
<1>2. ASSUME NEW s, Stripped(s, p), Len(s) \in Nat PROVE Len(s) \in 0..Len(p) /\ Ends(p, Len(s))
  <2>1. Len(s) \in 0..Len(p) BY <1>1, <1>2 DEF Stripped
  <2>2. Len(s) # 0 => Len(s) \in 1..Len(s) BY <1>2
  <2>3. Len(s) # 0 => p[Len(s)] # "/" BY <1>2, <2>2 DEF Stripped
  <2> QED BY <1>2, <2>1, <2>3 DEF Stripped, Ends
<1>3. Len(t) = Len(u) BY <1>1, <1>2, EndUnique
<1>4. Agree(t, u, Len(t)) BY <1>1, <1>3 DEF Stripped, Agree
<1> QED BY <1>3, <1>4, SameList DEF Stripped

\* A path behind a slash.
Slashed(u, t) ==
  /\ List(u) /\ Len(u) = Len(t) + 1
  /\ u[1] = "/" /\ \A i \in 1..Len(t) : u[i + 1] = t[i]
LEMMA RootedIs ==
  ASSUME NEW t, List(t)
  PROVE  Slashed(<<"/">> \o t, t)
<1>1. <<"/">> \in Seq({"/"}) /\ Len(<<"/">>) = 1 /\ <<"/">>[1] = "/" OBVIOUS
<1> DEFINE o == <<"/">>
<1>2. List(o) /\ Len(o) = 1 /\ o[1] = "/" BY <1>1, Listed
<1> HIDE DEF o
<1>3. Joins(o \o t, o, t) BY <1>2, Joined
<1> DEFINE u == o \o t
<1>4. List(u) /\ Len(u) = 1 + Len(t) /\ u[1] = "/" /\ \A i \in 1..Len(t) : u[1 + i] = t[i]
  BY <1>2, <1>3 DEF Joins
<1> HIDE DEF u
<1>5. Len(t) \in Nat BY ListParts
<1>6. \A i \in 1..Len(t) : 1 + i = i + 1 BY <1>5
<1>7. Slashed(u, t) BY <1>4, <1>5, <1>6 DEF Slashed
<1> QED BY <1>7 DEF u, o

\* Two paths behind a slash are the same only when they were.
LEMMA RootedSame ==
  ASSUME NEW s, NEW t, List(s), List(t), <<"/">> \o s = <<"/">> \o t
  PROVE  s = t
<1> PICK u : u = <<"/">> \o s OBVIOUS
<1>1. Slashed(u, s) /\ Slashed(u, t) BY RootedIs
<1>2. Len(s) \in Nat /\ Len(t) \in Nat BY ListParts
<1>3. Len(s) = Len(t) BY <1>1, <1>2 DEF Slashed
<1>4. Agree(s, t, Len(s)) BY <1>1, <1>3 DEF Slashed, Agree
<1> QED BY <1>3, <1>4, SameList

LEMMA Unrooted ==
  ASSUME NEW p, List(p), p # <<>>, p[1] = "/"
  PROVE  List(Tail(p)) /\ Len(Tail(p)) = Len(p) - 1 /\ p = <<"/">> \o Tail(p)
<1>1. Len(p) \in Nat /\ Len(p) # 0 BY DEF List
<1> DEFINE t == Tail(p)
<1>2. /\ t \in Seq(ToSet(p)) /\ Len(t) = Len(p) - 1
      /\ \A i \in 1..Len(t) : t[i] = p[i + 1]
  BY <1>1 DEF List
<1> HIDE DEF t
<1>3. List(t) BY <1>2, Listed
<1> PICK u : u = <<"/">> \o t OBVIOUS
<1>4. Slashed(u, t) BY <1>3, RootedIs
<1>5. Len(u) = Len(p) BY <1>1, <1>2, <1>4 DEF Slashed
<1>6. ASSUME NEW i \in 1..Len(p) PROVE p[i] = u[i]
  <2>1. CASE i = 1 BY <1>4, <2>1 DEF Slashed
  <2>2. CASE i # 1
    <3>1. i - 1 \in 1..Len(t) /\ (i - 1) + 1 = i BY <1>1, <1>2, <2>2
    <3> QED BY <1>2, <1>4, <3>1 DEF Slashed
  <2> QED BY <2>1, <2>2
<1>7. Agree(p, u, Len(p)) BY <1>6 DEF Agree
<1>8. p = u BY <1>4, <1>5, <1>7, SameList DEF Slashed
<1> QED BY <1>2, <1>3, <1>8 DEF t

AllSlashes(p) == \A i \in 1..Len(p) : p[i] = "/"
\* What is behind the first slash decides what is left of a path.
LEMMA StripRooted ==
  ASSUME NEW t, List(t)
  PROVE  StripSlashes(<<"/">> \o t) =
           IF AllSlashes(t) THEN <<>> ELSE <<"/">> \o StripSlashes(t)
<1> PICK u : u = <<"/">> \o t OBVIOUS
<1> PICK s : s = StripSlashes(t) OBVIOUS
<1> PICK v : v = <<"/">> \o s OBVIOUS
<1>1. Slashed(u, t) BY RootedIs
<1>2. Stripped(s, t) BY StripIs
<1>3. Slashed(v, s) BY <1>2, RootedIs DEF Stripped
<1>4. Len(t) \in Nat /\ Len(s) \in Nat BY <1>2, ListParts DEF Stripped
<1>5. List(u) /\ Len(u) = Len(t) + 1 BY <1>1 DEF Slashed
<1>6. ASSUME NEW i \in 2..Len(u) PROVE i - 1 \in 1..Len(t) /\ u[i] = t[i - 1]
  <2>1. i - 1 \in 1..Len(t) /\ (i - 1) + 1 = i BY <1>4, <1>5
  <2> QED BY <1>1, <2>1 DEF Slashed
<1>7. CASE AllSlashes(t)
  <2>1. \A i \in 1..Len(u) : u[i] = "/"
    <3>1. ASSUME NEW i \in 1..Len(u) PROVE u[i] = "/"
      <4>1. CASE i = 1 BY <1>1, <4>1 DEF Slashed
      <4>2. CASE i # 1
        <5>1. i \in 2..Len(u) BY <1>4, <1>5, <4>2
        <5> QED BY <1>6, <1>7, <5>1 DEF AllSlashes
      <4> QED BY <4>1, <4>2
    <3> QED BY <3>1
  <2>2. <<>> \in Seq({}) /\ Len(<<>>) = 0 OBVIOUS
  <2>3. List(<<>>) BY <2>2, Listed
  <2>4. Stripped(<<>>, u) BY <1>4, <1>5, <2>1, <2>2, <2>3 DEF Stripped
  <2>5. StripSlashes(u) = <<>> BY <1>5, <2>4, StripIs, StrippedUnique
  <2> QED BY <1>7, <2>5
<1>8. CASE ~AllSlashes(t)
  <2>1. Len(s) # 0 BY <1>2, <1>4, <1>8 DEF Stripped, AllSlashes
  <2>2. List(v) /\ Len(v) = Len(s) + 1 BY <1>3 DEF Slashed
  <2>3. ASSUME NEW i \in 1..Len(v) PROVE v[i] = u[i]
    <3>1. CASE i = 1 BY <1>1, <1>3, <3>1 DEF Slashed
    <3>2. CASE i # 1
      <4>1. i - 1 \in 1..Len(s) /\ (i - 1) + 1 = i /\ i \in 2..Len(u)
        BY <1>2, <1>4, <1>5, <2>2, <3>2 DEF Stripped
      <4>2. v[i] = s[i - 1] BY <1>3, <4>1 DEF Slashed
      <4>3. s[i - 1] = t[i - 1] BY <1>2, <4>1 DEF Stripped
      <4> QED BY <1>6, <4>1, <4>2, <4>3
    <3> QED BY <3>1, <3>2
  <2>4. ASSUME NEW i \in Len(v) + 1..Len(u) PROVE u[i] = "/"
    <3>1. i \in 2..Len(u) /\ i - 1 \in Len(s) + 1..Len(t) BY <1>4, <1>5, <2>2
    <3> QED BY <1>2, <1>6, <3>1 DEF Stripped
  <2>5. v[Len(v)] # "/"
    <3>1. Len(s) \in 1..Len(s) BY <1>4, <2>1
    <3>2. v[Len(v)] = s[Len(s)] BY <1>3, <2>2, <3>1 DEF Slashed
    <3> QED BY <1>2, <2>1, <3>2 DEF Stripped
  <2>6. Len(v) <= Len(u) BY <1>2, <1>4, <1>5, <2>2 DEF Stripped
  <2>7. Stripped(v, u) BY <2>2, <2>3, <2>4, <2>5, <2>6 DEF Stripped
  <2>8. StripSlashes(u) = v BY <1>5, <2>7, StripIs, StrippedUnique
  <2> QED BY <1>8, <2>8
<1> QED BY <1>7, <1>8

LEMMA NoTokens ==
  /\ List(<<>>) /\ Len(<<>>) = 0 /\ StripSlashes(<<>>) = <<>> /\ <<"/">> \o <<>> = <<"/">>
  /\ \A p : List(p) /\ Len(p) = 0 => p = <<>>
<1>1. <<>> \in Seq({}) /\ Len(<<>>) = 0 OBVIOUS
<1>2. List(<<>>) BY <1>1, Listed
<1>3. ASSUME NEW p, List(p), Len(p) = 0 PROVE p = <<>>
  <2>1. Agree(p, <<>>, Len(p)) BY <1>3 DEF Agree
  <2> QED BY <1>1, <1>2, <1>3, <2>1, SameList
<1>4. Stripped(<<>>, <<>>) BY <1>1, <1>2 DEF Stripped
<1>5. StripSlashes(<<>>) = <<>> BY <1>2, <1>4, StripIs, StrippedUnique
<1>6. <<"/">> \o <<>> = <<"/">> BY <1>1
<1> QED BY <1>1, <1>2, <1>3, <1>5, <1>6

LEMMA StripAll ==
  ASSUME NEW t, List(t), AllSlashes(t)
  PROVE  StripSlashes(t) = <<>>
<1>1. Len(t) \in Nat BY ListParts
<1>2. Stripped(<<>>, t) BY <1>1, NoTokens DEF Stripped, AllSlashes
<1> QED BY <1>2, StripIs, StrippedUnique

\* A path as it is sent, and what NormalizePath makes of it.
LEMMA NormalIs ==
  ASSUME NEW p, List(p)
  PROVE  /\ List(RelativePath(p)) /\ Stripped(RelativePath(p), RelativePath(p))
         /\ NormalizePath(p) = IF OnlySlashes(p) THEN <<>> ELSE <<"/">> \o RelativePath(p)
         /\ OnlySlashes(p) => RelativePath(p) = <<>>
<1>1. Len(p) \in Nat /\ DOMAIN p = 1..Len(p) BY ListParts
<1>2. \A i \in 1..Len(p) : p[i] \in ToSet(p) BY <1>1 DEF ToSet
<1>3. ASSUME NEW x, List(x)
      PROVE  List(StripSlashes(x)) /\ Stripped(StripSlashes(x), StripSlashes(x))
  <2>1. Stripped(StripSlashes(x), x) BY <1>3, StripIs
  <2> PICK s : s = StripSlashes(x) OBVIOUS
  <2>2. List(s) /\ Len(s) \in Nat /\ (Len(s) = 0 \/ s[Len(s)] # "/")
    BY <2>1, ListParts DEF Stripped
  <2>3. Stripped(s, s) BY <2>2 DEF Stripped
  <2> QED BY <2>2, <2>3
<1>4. CASE p = <<>>
  <2>1. RelativePath(p) = <<>> BY <1>4, NoTokens DEF RelativePath
  <2>2. ~OnlySlashes(p) BY <1>4, NoTokens DEF OnlySlashes
  <2>3. NormalizePath(p) = <<"/">> BY <1>4 DEF NormalizePath
  <2>4. <<"/">> \o RelativePath(p) = <<"/">> BY <2>1, NoTokens
  <2>5. List(StripSlashes(<<>>)) /\ Stripped(StripSlashes(<<>>), StripSlashes(<<>>))
    BY <1>3, NoTokens
  <2> QED BY <2>1, <2>2, <2>3, <2>4, <2>5, NoTokens
<1>5. CASE p # <<>> /\ p[1] = "/"
  <2> PICK t : t = Tail(p) OBVIOUS
  <2>1. List(t) /\ Len(t) = Len(p) - 1 /\ p = <<"/">> \o t BY <1>5, Unrooted
  <2>2. RelativePath(p) = StripSlashes(t) BY <1>5 DEF RelativePath
  <2>3. Slashed(p, t) BY <2>1, RootedIs
  <2>4. CASE t = <<>>
    <3>1. Len(t) = 0 BY <2>4, NoTokens
    <3>5. p = <<"/">> BY <2>1, <2>4, NoTokens
    <3>6. Len(p) = 1 BY <1>1, <2>1, <3>1
    <3>2. NormalizePath(p) = <<"/">> BY <1>5, <3>5 DEF NormalizePath
    <3>3. ~OnlySlashes(p) BY <3>6 DEF OnlySlashes
    <3>4. RelativePath(p) = <<>> BY <2>2, <2>4, NoTokens
    <3> QED BY <1>3, <2>1, <2>2, <3>2, <3>3, <3>4, NoTokens
  <2>5. CASE t # <<>>
    <3>1. Len(t) # 0 BY <2>1, <2>5, NoTokens
    <3>2. Len(p) > 1
      <4>1. Len(t) \in Nat /\ Len(t) = Len(p) - 1 /\ Len(t) # 0 BY <2>1, <3>1, ListParts
      <4> QED BY <1>1, <4>1
    <3>7. p # <<"/">> BY <3>2
    <3>3. NormalizePath(p) = StripSlashes(p) BY <1>5, <3>7 DEF NormalizePath
    <3>4. OnlySlashes(p) <=> AllSlashes(t)
      <4>1. ASSUME OnlySlashes(p), NEW i \in 1..Len(t) PROVE t[i] = "/"
        <5>1. i + 1 \in 1..Len(p) /\ p[i + 1] = t[i] BY <1>1, <2>1, <2>3 DEF Slashed
        <5> QED BY <1>2, <4>1, <5>1 DEF OnlySlashes
      <4>2. ASSUME AllSlashes(t) PROVE ToSet(p) = {"/"}
        <5>1. ASSUME NEW i \in 1..Len(p) PROVE p[i] = "/"
          <6>1. CASE i = 1 BY <1>5, <6>1
          <6>2. CASE i # 1
            <7>1. i - 1 \in 1..Len(t) /\ (i - 1) + 1 = i BY <1>1, <2>1, <6>2
            <7> QED BY <2>3, <4>2, <7>1 DEF AllSlashes, Slashed
          <6> QED BY <6>1, <6>2
        <5>2. 1 \in 1..Len(p) BY <1>1, <3>2
        <5> QED BY <1>1, <5>1, <5>2 DEF ToSet
      <4> QED BY <3>2, <4>1, <4>2 DEF OnlySlashes, AllSlashes
    <3>5. StripSlashes(p) = IF AllSlashes(t) THEN <<>> ELSE <<"/">> \o StripSlashes(t)
      BY <2>1, StripRooted
    <3>6. AllSlashes(t) => StripSlashes(t) = <<>> BY <2>1, StripAll
    <3> QED BY <1>3, <2>1, <2>2, <3>3, <3>4, <3>5, <3>6
  <2> QED BY <2>4, <2>5
<1>6. CASE p # <<>> /\ p[1] # "/"
  <2>1. Len(p) # 0 /\ 1 \in 1..Len(p) BY <1>1, <1>6, NoTokens
  <2>2. p # <<"/">> BY <1>6
  <2>3. NormalizePath(p) = StripSlashes(<<"/">> \o p) BY <1>6, <2>2 DEF NormalizePath
  <2>4. ~AllSlashes(p) /\ ~OnlySlashes(p) BY <1>2, <1>6, <2>1 DEF AllSlashes, OnlySlashes
  <2>5. RelativePath(p) = StripSlashes(p) BY <1>6 DEF RelativePath
  <2>6. StripSlashes(<<"/">> \o p) = IF AllSlashes(p) THEN <<>> ELSE <<"/">> \o StripSlashes(p)
    BY StripRooted
  <2> QED BY <1>3, <2>3, <2>4, <2>5, <2>6
<1> QED BY <1>4, <1>5, <1>6

\* The path of a route is normalised when it is saved, and again when it is loaded.
LEMMA NormalTwice ==
  ASSUME NEW p, List(p)
  PROVE  NormalizePath(NormalizePath(p)) = <<"/">> \o RelativePath(p)
<1> PICK s : s = RelativePath(p) OBVIOUS
<1>1. List(s) /\ Stripped(s, s) BY NormalIs
<1>2. CASE OnlySlashes(p)
  <2>1. NormalizePath(p) = <<>> /\ s = <<>> BY <1>2, NormalIs
  <2>2. NormalizePath(<<>>) = <<"/">> BY DEF NormalizePath
  <2> QED BY <2>1, <2>2, NoTokens
<1>3. CASE ~OnlySlashes(p)
  <2> PICK r : r = <<"/">> \o s OBVIOUS
  <2>1. NormalizePath(p) = r BY <1>3, NormalIs
  <2>2. Slashed(r, s) BY <1>1, RootedIs
  <2>3. List(r) /\ Len(r) = Len(s) + 1 /\ r[1] = "/" /\ Len(s) \in Nat
    BY <1>1, <2>2, ListParts DEF Slashed
  <2>4. r # <<>> BY <2>3, NoTokens
  <2>5. Tail(r) = s
    <3>1. List(Tail(r)) /\ r = <<"/">> \o Tail(r) BY <2>3, <2>4, Unrooted
    <3> QED BY <1>1, <3>1, RootedSame
  <2>6. RelativePath(r) = s
    <3>1. RelativePath(r) = StripSlashes(s) BY <2>3, <2>4, <2>5 DEF RelativePath
    <3> QED BY <1>1, <3>1, StripIs, StrippedUnique
  <2>7. ~OnlySlashes(r)
    <3>1. CASE Len(s) = 0 BY <2>3, <3>1 DEF OnlySlashes
    <3>2. CASE Len(s) # 0
      <4>1. Len(s) \in 1..Len(s) /\ Len(s) + 1 \in 1..Len(r) BY <2>3, <3>2
      <4>2. s[Len(s)] # "/" BY <1>1, <3>2 DEF Stripped
      <4>3. r[Len(s) + 1] # "/" BY <2>2, <4>1, <4>2 DEF Slashed
      <4>4. DOMAIN r = 1..Len(r) BY <2>3, ListParts
      <4> QED BY <4>1, <4>3, <4>4 DEF OnlySlashes, ToSet
    <3> QED BY <3>1, <3>2
  <2> QED BY <2>1, <2>3, <2>6, <2>7, NormalIs
<1> QED BY <1>2, <1>3

LEMMA PathMatches ==
  ASSUME NEW p, List(p), NEW q, List(q)
  PROVE  NormalizePath(NormalizePath(p)) = NormalizePath(q)
           <=> RelativePath(p) = RelativePath(q) /\ ~OnlySlashes(q)
<1> PICK s, t : s = RelativePath(p) /\ t = RelativePath(q) OBVIOUS
<1>1. List(s) /\ List(t) BY NormalIs
<1>2. NormalizePath(NormalizePath(p)) = <<"/">> \o s BY NormalTwice
<1>3. NormalizePath(q) = IF OnlySlashes(q) THEN <<>> ELSE <<"/">> \o t BY NormalIs
<1>4. <<"/">> \o s # <<>>
  <2>1. Len(s) \in Nat BY <1>1, ListParts
  <2>2. Len(<<"/">> \o s) = Len(s) + 1 BY <1>1, RootedIs DEF Slashed
  <2> QED BY <2>1, <2>2, NoTokens
<1>5. <<"/">> \o s = <<"/">> \o t <=> s = t BY <1>1, RootedSame
<1> QED BY <1>2, <1>3, <1>4, <1>5

------------------------------------------------------------------------------
(* What a route asks for, and what it is matched by.                        *)

LEMMA QueryIs ==
  ASSUME NEW query, List(query), NEW k
  PROVE  /\ k \in DOMAIN QueryParams(query) <=> \E i \in DOMAIN query : query[i][1] = k
         /\ k \in DOMAIN QueryParams(query) => QueryParams(query)[k] = FirstValue(query, k)
<1> DEFINE Named == {i \in DOMAIN query : query[i][1] = k}
           first == CHOOSE i \in DOMAIN query :
                      query[i][1] = k /\ \A j \in 1..i - 1 : query[j][1] # k
<1>1. Len(query) \in Nat /\ DOMAIN query = 1..Len(query) BY ListParts
<1>2. DOMAIN QueryParams(query) = {query[i][1] : i \in DOMAIN query} BY DEF QueryParams
<1>3. ASSUME k \in DOMAIN QueryParams(query) PROVE QueryParams(query)[k] = query[first][2]
  BY <1>3 DEF QueryParams
<1>4. ASSUME Named # {} PROVE first = Min(Named)
  <2>1. Named \subseteq Nat BY <1>1
  <2>2. Min(Named) \in Named /\ \A y \in Named : Min(Named) <= y
    <3> HIDE DEF Named
    <3> QED BY <1>4, <2>1, LeastOf
  <2> PICK m : m = Min(Named) OBVIOUS
  <2>3. m \in DOMAIN query /\ query[m][1] = k /\ m \in 1..Len(query) BY <1>1, <2>2
  <2>4. ASSUME NEW j \in 1..m - 1 PROVE query[j][1] # k
    <3>1. j \in DOMAIN query /\ j < m BY <1>1, <2>3
    <3>2. j \in Named => m <= j BY <2>2
    <3> QED BY <2>3, <3>1, <3>2
  <2>5. ASSUME NEW i \in DOMAIN query, query[i][1] = k, \A j \in 1..i - 1 : query[j][1] # k
        PROVE  i = m
    <3>1. m <= i BY <2>2, <2>5
    <3>2. m \notin 1..i - 1 BY <2>3, <2>5
    <3> QED BY <1>1, <2>3, <3>1, <3>2
  <2>6. first = m BY <2>3, <2>4, <2>5
  <2> QED BY <2>6
<1>5. k \in DOMAIN QueryParams(query) <=> Named # {} BY <1>2
<1>6. FirstValue(query, k) = query[Min(Named)][2] BY DEF FirstValue
<1> HIDE DEF first
<1> QED BY <1>3, <1>4, <1>5, <1>6

ParamsAsked(expected, query) ==
  expected # Null =>
    \A k \in DOMAIN expected :
      /\ \E i \in DOMAIN query : query[i][1] = k
      /\ FirstValue(query, k) = AsText(expected[k])
LEMMA ParamsMatch ==
  ASSUME NEW expected, NEW query, List(query)
  PROVE  MapMatches(expected, QueryParams(query)) <=> ParamsAsked(expected, query)
<1>1. ASSUME NEW k
      PROVE  k \in DOMAIN QueryParams(query) /\ QueryParams(query)[k] = AsText(expected[k])
               <=> /\ \E i \in DOMAIN query : query[i][1] = k
                   /\ FirstValue(query, k) = AsText(expected[k])
  BY QueryIs
<1> QED BY <1>1, Zenon DEF MapMatches, ParamsAsked

HeadersAsked(expected, headers) ==
  expected # Null =>
    \A k \in DOMAIN expected :
      \E h \in DOMAIN headers : Lower(h) = Lower(k) /\ headers[h] = AsText(expected[k])
LEMMA HeadersFound ==
  ASSUME NEW expected, NEW headers, \A h \in DOMAIN headers : Lower(h) = h
  PROVE  HeadersMatch(expected, LowerKeys(headers)) <=> HeadersAsked(expected, headers)
<1>1. ASSUME NEW k
      PROVE  /\ k \in DOMAIN LowerKeys(headers) <=> k \in DOMAIN headers
             /\ k \in DOMAIN headers => LowerKeys(headers)[k] = headers[k]
  <2>1. DOMAIN LowerKeys(headers) = {Lower(h) : h \in DOMAIN headers} BY DEF LowerKeys
  <2>2. k \in DOMAIN LowerKeys(headers) <=> k \in DOMAIN headers BY <2>1
  <2>3. ASSUME k \in DOMAIN headers PROVE LowerKeys(headers)[k] = headers[k]
    <3> DEFINE c == CHOOSE key \in DOMAIN headers : Lower(key) = k
    <3>1. c = k BY <2>3
    <3>2. LowerKeys(headers)[k] = headers[c] BY <2>1, <2>2, <2>3 DEF LowerKeys
    <3> QED BY <3>1, <3>2
  <2> QED BY <2>2, <2>3
<1>2. ASSUME NEW k, NEW v
      PROVE  Lower(k) \in DOMAIN LowerKeys(headers) /\ LowerKeys(headers)[Lower(k)] = v
               <=> \E h \in DOMAIN headers : Lower(h) = Lower(k) /\ headers[h] = v
  <2> PICK l : l = Lower(k) OBVIOUS
  <2>1. \A h \in DOMAIN headers : Lower(h) = l <=> h = l OBVIOUS
  <2> QED BY <1>1, <2>1
<1> QED BY <1>2, Zenon DEF HeadersMatch, HeadersAsked

LEMMA BodyAlike ==
  ASSUME NEW r, NEW s, NEW seen, r.body = s.body, r.match = s.match
  PROVE  BodyMatches(r, seen) <=> BodyMatches(s, seen)
BY Zenon DEF BodyMatches

\* A route that is served matches the requests that its row, as sent, asks for.
LEMMA MatchesAsked ==
  ASSUME NEW dtos \in ApiDtos, NEW i \in DOMAIN dtos, NEW id, NEW rows, NEW req \in ApiRequests
  PROVE  RouteMatches(RuntimeRoute(RouteRow(dtos[i], id), rows), req) <=> Asks(dtos[i], req)
<1> PICK dto : dto = dtos[i] OBVIOUS
<1> PICK route : route = RuntimeRoute(RouteRow(dto, id), rows) OBVIOUS
<1>0. dto \in ToSet(dtos) BY DEF ToSet
<1>1. List(dto.path) BY <1>0, DtosAssumption, Zenon DEF DtoList, List
<1>2. List(req.path) /\ List(req.query) /\ \A h \in DOMAIN req.headers : Lower(h) = h
  BY RequestsAssumption DEF List
<1>3. /\ route.method = dto.method /\ route.path = NormalizePath(NormalizePath(dto.path))
      /\ route.params = dto.params /\ route.headers = dto.headers
      /\ route.body = dto.body /\ route.match = BodyMatch(dto)
  BY DEF RuntimeRoute, RouteRow
<1>4. route.path = NormalizePath(req.path)
        <=> RelativePath(dto.path) = RelativePath(req.path) /\ ~OnlySlashes(req.path)
  BY <1>1, <1>2, <1>3, PathMatches
<1>5. MapMatches(route.params, QueryParams(req.query)) <=> ParamsAsked(dto.params, req.query)
  BY <1>2, <1>3, ParamsMatch
<1>6. HeadersMatch(route.headers, LowerKeys(req.headers)) <=> HeadersAsked(dto.headers, req.headers)
  BY <1>2, <1>3, HeadersFound
<1> PICK s : s = [body |-> dto.body, match |-> BodyMatch(dto)] OBVIOUS
<1>7. BodyMatches(route, Seen(req.body)) <=> BodyMatches(s, Seen(req.body))
  <2>1. s.body = dto.body /\ s.match = BodyMatch(dto) OBVIOUS
  <2> QED BY <1>3, <2>1, BodyAlike
<1>8. RouteMatches(route, req) <=>
        /\ route.method = req.method /\ route.path = NormalizePath(req.path)
        /\ MapMatches(route.params, QueryParams(req.query))
        /\ HeadersMatch(route.headers, LowerKeys(req.headers))
        /\ BodyMatches(route, Seen(req.body))
  BY Zenon DEF RouteMatches
<1>9. Asks(dto, req) <=>
        /\ dto.method = req.method
        /\ RelativePath(dto.path) = RelativePath(req.path) /\ ~OnlySlashes(req.path)
        /\ ParamsAsked(dto.params, req.query) /\ HeadersAsked(dto.headers, req.headers)
        /\ BodyMatches(s, Seen(req.body))
  BY Zenon DEF Asks, ParamsAsked, HeadersAsked
<1> QED BY <1>3, <1>4, <1>5, <1>6, <1>7, <1>8, <1>9

\* Every row has its place in the registry: the routes are sorted, and none is lost.
LEMMA SortedAll ==
  ASSUME Stored, saved # Null, NEW f \in Sortings(saved.routes)
  PROVE  /\ f \in [DOMAIN saved.sent -> DOMAIN saved.sent]
         /\ \A i \in DOMAIN saved.sent : \E k \in DOMAIN saved.sent : f[k] = i
         /\ \A k, l \in DOMAIN saved.sent :
              k < l => NotAbove(Rank(saved.sent[f[k]]), Rank(saved.sent[f[l]]))
<1> DEFINE D == DOMAIN saved.sent
<1>1. /\ saved.sent \in ApiDtos /\ D = 1..Len(saved.sent)
      /\ Len(saved.sent) \in Nat /\ DOMAIN saved.routes = D
      /\ \A i \in D : saved.routes[i] = RouteRow(saved.sent[i], saved.routes[i].id)
  BY StoredRoutes
<1>2. /\ f \in [D -> D]
      /\ \A i, j \in D : i < j => Precedes(saved.routes[f[i]], saved.routes[f[j]])
  BY <1>1 DEF Sortings
<1> HIDE DEF D
<1>3. ASSUME NEW i \in D
      PROVE  /\ saved.routes[i].priority = saved.sent[i].priority
             /\ saved.routes[i].order = saved.sent[i].order
             /\ saved.sent[i].priority \in Int /\ saved.sent[i].order \in Int
  <2>1. saved.sent[i] \in ToSet(saved.sent) BY DEF D, ToSet
  <2>2. saved.sent[i].priority \in Int /\ saved.sent[i].order \in Int
    BY <1>1, <2>1, DtosAssumption DEF DtoList
  <2>3. saved.routes[i] = RouteRow(saved.sent[i], saved.routes[i].id) BY <1>1
  <2>4. RouteRow(saved.sent[i], saved.routes[i].id).priority = saved.sent[i].priority
          /\ RouteRow(saved.sent[i], saved.routes[i].id).order = saved.sent[i].order
    BY DEF RouteRow
  <2> QED BY <2>2, <2>3, <2>4
<1>4. ASSUME NEW i \in D PROVE saved.routes[i].id \in Nat
  <2>1. PICK dtos \in ApiDtos, active \in BOOLEAN :
          \E ids \in IdOrders(dtos) :
            saved = [active |-> active, sent |-> dtos, routes |-> WithIds(dtos, ids)]
    BY DEF Stored
  <2>2. PICK ids \in IdOrders(dtos) :
          saved = [active |-> active, sent |-> dtos, routes |-> WithIds(dtos, ids)]
    BY <2>1
  <2>3. saved.sent = dtos /\ saved.routes = WithIds(dtos, ids) BY <2>2
  <2>4. saved.routes[i] = RouteRow(dtos[i], ids[i]) BY <2>3 DEF WithIds, D
  <2>5. RouteRow(dtos[i], ids[i]).id = ids[i] BY DEF RouteRow
  <2>6. ids[i] \in 1..Len(dtos) BY <2>3 DEF IdOrders, D
  <2>7. Len(dtos) \in Nat BY <1>1, <2>3
  <2> QED BY <2>4, <2>5, <2>6, <2>7
<1>5. ASSUME NEW i \in D PROVE ~Precedes(saved.routes[i], saved.routes[i])
  BY <1>3, <1>4 DEF Precedes
<1>6. D \subseteq Nat /\ IsFiniteSet(D) BY <1>1, FS_Interval
<1>7. IsInjective(f)
  <2>1. ASSUME NEW i \in D, NEW j \in D, f[i] = f[j] PROVE i = j
    <3>1. f[i] \in D BY <1>2
    <3>2. ~(i < j) /\ ~(j < i) BY <1>2, <1>5, <2>1, <3>1
    <3> QED BY <1>6, <3>2
  <2> QED BY <1>2, <2>1 DEF IsInjective
<1>8. f \in Surjection(D, D)
  <2>1. f \in Injection(D, D) BY <1>2, <1>7 DEF Injection
  <2> QED BY <1>6, <2>1, FS_Injection
<1>9. ASSUME NEW k \in D, NEW l \in D, k < l
      PROVE  NotAbove(Rank(saved.sent[f[k]]), Rank(saved.sent[f[l]]))
  <2> PICK i \in D, j \in D : i = f[k] /\ j = f[l] BY <1>2
  <2>1. Precedes(saved.routes[i], saved.routes[j]) BY <1>2, <1>9
  <2>2. \/ saved.sent[i].priority < saved.sent[j].priority
        \/ /\ saved.sent[i].priority = saved.sent[j].priority
           /\ saved.sent[i].order < saved.sent[j].order
                \/ saved.sent[i].order = saved.sent[j].order
    BY <1>3, <2>1 DEF Precedes
  <2>3. NotAbove(Rank(saved.sent[i]), Rank(saved.sent[j])) BY <1>3, <2>2 DEF NotAbove, Rank
  <2> QED BY <2>3
<1> QED BY <1>2, <1>8, <1>9 DEF Surjection, D

\* The routes of the rows that a request asks for, and whether one of least rank was found.
AskedOf(sent, req) == {i \in DOMAIN sent : Asks(sent[i], req)}
LeastAsked(sent, req, i) ==
  /\ i \in AskedOf(sent, req)
  /\ \A j \in AskedOf(sent, req) : NotAbove(Rank(sent[i]), Rank(sent[j]))

LEMMA FoundIsAsked ==
  ASSUME Stored, served \in Registered(saved), NEW req \in ApiRequests
  PROVE  /\ Found(req) = 0 => AskedOf(Sent, req) = {}
         /\ Found(req) # 0 => LeastAsked(Sent, req, Position(served[Found(req)].id))
<1>1. Found(req) = FindRoute(Matching(served, req)) BY DEF Found
<1>2. CASE saved = Null \/ ~saved.active
  <2>1. served = <<>> /\ Sent = <<>> BY <1>2 DEF Registered, Sent
  <2>2. Matching(served, req) = {} BY <2>1 DEF Matching
  <2>3. AskedOf(Sent, req) = {} BY <2>1 DEF AskedOf
  <2> QED BY <1>1, <2>2, <2>3 DEF FindRoute
<1>3. CASE saved # Null /\ saved.active
  <2>1. Sent = saved.sent BY <1>3 DEF Sent
  <2>2. PICK f \in Sortings(saved.routes), reads \in RowReads(saved.routes) :
          served = [k \in DOMAIN saved.routes |-> RuntimeRoute(saved.routes[f[k]], reads[f[k]])]
    BY <1>3 DEF Registered, Loaded
  <2> DEFINE D == DOMAIN saved.sent
  <2>3. /\ saved.sent \in ApiDtos /\ D = 1..Len(saved.sent)
        /\ Len(saved.sent) \in Nat /\ DOMAIN saved.routes = D
        /\ \A i \in D : /\ saved.routes[i] = RouteRow(saved.sent[i], saved.routes[i].id)
                        /\ Position(saved.routes[i].id) = i
    BY <1>3, StoredRoutes
  <2>4. /\ f \in [D -> D] /\ \A i \in D : \E k \in D : f[k] = i
        /\ \A k, l \in D : k < l => NotAbove(Rank(saved.sent[f[k]]), Rank(saved.sent[f[l]]))
    BY <1>3, SortedAll
  <2> HIDE DEF D
  <2>5. ASSUME NEW k \in D
        PROVE  /\ RouteMatches(served[k], req) <=> Asks(saved.sent[f[k]], req)
               /\ Position(served[k].id) = f[k]
    <3> PICK i \in D : i = f[k] BY <2>4
    <3>1. served[k] = RuntimeRoute(saved.routes[i], reads[i]) BY <2>2, <2>3
    <3>2. saved.routes[i] = RouteRow(saved.sent[i], saved.routes[i].id) BY <2>3
    <3> PICK id : id = saved.routes[i].id OBVIOUS
    <3>3. served[k] = RuntimeRoute(RouteRow(saved.sent[i], id), reads[i]) BY <3>1, <3>2
    <3>4. RouteMatches(served[k], req) <=> Asks(saved.sent[i], req)
      BY <2>3, <3>3, MatchesAsked DEF D
    <3>5. served[k].id = id BY <3>3 DEF RuntimeRoute, RouteRow
    <3> QED BY <2>3, <3>4, <3>5
  <2>6. Matching(served, req) = {k \in D : Asks(saved.sent[f[k]], req)}
    <3>1. DOMAIN served = D BY <2>2, <2>3
    <3> QED BY <2>5, <3>1 DEF Matching
  <2>7. D \subseteq Nat /\ 0 \notin D BY <2>3
  <2>8. CASE Matching(served, req) = {}
    <3>1. Found(req) = 0 BY <1>1, <2>8 DEF FindRoute
    <3>2. AskedOf(saved.sent, req) = {} BY <2>4, <2>6, <2>8 DEF AskedOf, D
    <3> QED BY <2>1, <3>1, <3>2
  <2>9. CASE Matching(served, req) # {}
    <3> PICK k : k = Found(req) OBVIOUS
    <3> PICK M : M = Matching(served, req) OBVIOUS
    <3>1. k = Min(M) /\ M \subseteq D BY <1>1, <2>6, <2>9 DEF FindRoute
    <3>2. k \in M /\ \A l \in M : k <= l BY <2>7, <2>9, <3>1, LeastOf
    <3>3. k \in D /\ k # 0 /\ Asks(saved.sent[f[k]], req) BY <2>6, <2>7, <3>2
    <3>4. Position(served[k].id) = f[k] /\ f[k] \in D BY <2>4, <2>5, <3>3
    <3>5. f[k] \in AskedOf(saved.sent, req) BY <3>3, <3>4 DEF AskedOf, D
    <3>6. ASSUME NEW j \in AskedOf(saved.sent, req)
          PROVE  NotAbove(Rank(saved.sent[f[k]]), Rank(saved.sent[j]))
      <4>1. j \in D /\ Asks(saved.sent[j], req) BY <3>6 DEF AskedOf, D
      <4>2. PICK l \in D : f[l] = j BY <2>4, <4>1
      <4>3. l \in M /\ k <= l BY <2>6, <3>2, <4>1, <4>2
      <4>4. CASE k < l BY <2>4, <3>3, <4>2, <4>4
      <4>5. CASE k = l
        <5>1. saved.sent[j] \in ToSet(saved.sent) BY <4>1 DEF ToSet, D
        <5>2. saved.sent[j].priority \in Int /\ saved.sent[j].order \in Int
          BY <2>3, <5>1, DtosAssumption DEF DtoList
        <5>3. NotAbove(Rank(saved.sent[j]), Rank(saved.sent[j])) BY <5>2 DEF NotAbove, Rank
        <5> QED BY <4>2, <4>5, <5>3
      <4> QED BY <2>7, <3>3, <4>2, <4>3, <4>4, <4>5
    <3>7. LeastAsked(saved.sent, req, f[k]) BY <3>5, <3>6 DEF LeastAsked
    <3> QED BY <2>1, <3>3, <3>4, <3>7
  <2> QED BY <2>8, <2>9
<1> QED BY <1>2, <1>3

AnsweredAsSaved(a) ==
  IF AskedOf(a.sent, a.request) = {} THEN a.status = 404 /\ a.position = 0
  ELSE LeastAsked(a.sent, a.request, a.position)
LEMMA ServedIs == ServedAsSaved <=> \A n \in DOMAIN answers : AnsweredAsSaved(answers[n])
BY Zenon DEF ServedAsSaved, AnsweredAsSaved, LeastAsked, AskedOf

LEMMA ServedMore ==
  ASSUME List(answers), ServedAsSaved, NEW a, AnsweredAsSaved(a), answers' = Append(answers, a)
  PROVE  List(answers)' /\ ServedAsSaved'
<1>1. \A n \in DOMAIN answers : AnsweredAsSaved(answers[n]) BY ServedIs
<1> PICK u : u = answers' OBVIOUS
<1>2. Grows(u, answers, a) BY Appended
<1>3. List(u) /\ DOMAIN u = 1..Len(answers) + 1 /\ DOMAIN answers = 1..Len(answers)
        /\ Len(answers) \in Nat
  BY <1>2, ListParts DEF Grows
<1>4. ASSUME NEW n \in DOMAIN u PROVE AnsweredAsSaved(u[n])
  <2>1. CASE n = Len(answers) + 1 BY <1>2, <2>1 DEF Grows
  <2>2. CASE n \in 1..Len(answers) BY <1>1, <1>2, <1>3, <2>2 DEF Grows
  <2> QED BY <1>3, <2>1, <2>2
<1>5. List(answers') /\ \A n \in DOMAIN answers' : AnsweredAsSaved(answers'[n]) BY <1>3, <1>4
<1> QED BY <1>5, Zenon DEF ServedAsSaved, AnsweredAsSaved, LeastAsked, AskedOf, List

LEMMA ServedStep ==
  Stored /\ served \in Registered(saved) /\ List(answers) /\ ServedAsSaved
    /\ [DispatchNext]_dispatchVars
    => List(answers)' /\ ServedAsSaved'
<1> SUFFICES ASSUME Stored, served \in Registered(saved), List(answers), ServedAsSaved,
                    [DispatchNext]_dispatchVars
             PROVE  List(answers)' /\ ServedAsSaved'
  OBVIOUS
<1>0. CASE answers' = answers BY <1>0 DEF List, ServedAsSaved
<1>1. ASSUME NEW dtos \in ApiDtos, NEW active \in BOOLEAN, SaveServer(dtos, active)
      PROVE  answers' = answers
  BY <1>1 DEF SaveServer, Saving
<1>2. ASSUME NEW active \in BOOLEAN, SetServerActive(active) PROVE answers' = answers
  BY <1>2 DEF SetServerActive, Saving
<1>3. ASSUME DeleteServer PROVE answers' = answers BY <1>3 DEF DeleteServer, Saving
<1>4. ASSUME RestartServer PROVE answers' = answers BY <1>4 DEF RestartServer
<1>5. ASSUME NEW req \in ApiRequests, NotFound(req) PROVE List(answers)' /\ ServedAsSaved'
  <2> PICK a : a = Answer(req, 404, 0) OBVIOUS
  <2>1. Found(req) = 0 /\ answers' = Append(answers, a) BY <1>5 DEF NotFound
  <2>2. AskedOf(Sent, req) = {} BY <2>1, FoundIsAsked
  <2>3. a.sent = Sent /\ a.request = req /\ a.status = 404 /\ a.position = 0 BY DEF Answer
  <2>4. AnsweredAsSaved(a) BY <2>2, <2>3 DEF AnsweredAsSaved
  <2> QED BY <2>1, <2>4, ServedMore
<1>6. ASSUME NEW req \in ApiRequests, NEW lost \in Faults, NEW resolved \in {200, 404},
             Dispatch(req, lost, resolved)
      PROVE  List(answers)' /\ ServedAsSaved'
  <2> PICK p : p = Position(served[Found(req)].id) OBVIOUS
  <2>1. Found(req) # 0 BY <1>6 DEF Dispatch
  <2>2. \E status : answers' = Append(answers, Answer(req, status, p)) BY <1>6 DEF Dispatch
  <2>3. PICK a, status : a = Answer(req, status, p) /\ answers' = Append(answers, a) BY <2>2
  <2>4. a.sent = Sent /\ a.request = req /\ a.position = p BY <2>3 DEF Answer
  <2>5. LeastAsked(Sent, req, p) BY <2>1, FoundIsAsked
  <2>6. AskedOf(Sent, req) # {} BY <2>5 DEF LeastAsked
  <2>7. AnsweredAsSaved(a) BY <2>4, <2>5, <2>6 DEF AnsweredAsSaved
  <2> QED BY <2>3, <2>7, ServedMore
<1>7. ASSUME NEW task \in tasks, NEW fails \in BOOLEAN, PostCommand(task, fails)
      PROVE  answers' = answers
  BY <1>7 DEF PostCommand
<1>8. CASE UNCHANGED dispatchVars BY <1>0, <1>8 DEF dispatchVars
<1> QED BY <1>0, <1>1, <1>2, <1>3, <1>4, <1>5, <1>6, <1>7, <1>8 DEF DispatchNext

(* Whatever was saved, whatever was saved since: a request is answered by   *)
(* a route of least priority and order among those that the saved rows ask  *)
(* for, and with 404 when there is none.                                    *)
THEOREM SpecServedAsSaved == DispatchSpec => []ServedAsSaved
<1> DEFINE Inv == Stored /\ served \in Registered(saved) /\ List(answers) /\ ServedAsSaved
<1>1. DispatchInit => Inv
  <2>1. ASSUME DispatchInit PROVE List(answers) /\ ServedAsSaved
    BY <2>1, NoTokens DEF DispatchInit, ServedAsSaved
  <2> QED BY <2>1, StoredInit
<1>2. Inv /\ [DispatchNext]_dispatchVars => Inv' BY StoredStep, ServedStep
<1> QED BY <1>1, <1>2, PTL DEF DispatchSpec
================================================================================
