-------------------------- MODULE MockServersProofs --------------------------
(* Proofs about MockServers for any servers, queues, messages and bounds.  *)
EXTENDS MockServers, FiniteSetTheorems, TLAPS

-----------------------------------------------------------------------------
(* Types *)

\* The types in parts, one per group of variables.
ApiTypes == row \in [Servers -> RowType] /\ edits \in 0..MaxEdits /\ settled \subseteq Servers
RegistryTypes ==
  /\ runtime \in [Servers -> RuntimeType] /\ route \in [Endpoints -> Servers \cup {None}]
  /\ threads \in [Servers -> SUBSET Listeners]
HandlerTypes == handler \in HandlerType /\ (Busy => handler.server \in Servers)
ListenerTypes == listener \in [Listeners -> ListenerType]
QueueTypes ==
  /\ message \in [Messages -> MessageType] /\ recorded \subseteq Messages
  /\ runs \in [Messages -> Nat] /\ expiries \in [Messages -> 0..MaxExpiries]
CountTypes == failures \in 0..MaxFailures /\ crashes \in 0..MaxCrashes

\* The types, and that a handler under way works on a server.
Typed ==
  ApiTypes /\ RegistryTypes /\ HandlerTypes /\ ListenerTypes /\ QueueTypes /\ CountTypes

\* The parts are the type invariant.
LEMMA TypedIsTypeOK == Typed => TypeOK
BY DEF Typed, TypeOK, ApiTypes, RegistryTypes, HandlerTypes, ListenerTypes, QueueTypes, CountTypes

\* What the new state owes to variables that a step leaves alone.
LEMMA KeptTypes ==
  ASSUME Typed
  PROVE  /\ UNCHANGED apiVars => ApiTypes'
         /\ UNCHANGED registryVars => RegistryTypes'
         /\ UNCHANGED handler => HandlerTypes'
         /\ UNCHANGED listener => ListenerTypes'
         /\ UNCHANGED queueVars => QueueTypes'
         /\ UNCHANGED <<failures, crashes>> => CountTypes'
         /\ Fail /\ UNCHANGED crashes => CountTypes'
<1>1. UNCHANGED apiVars => ApiTypes' BY DEF Typed, ApiTypes, apiVars
<1>2. UNCHANGED registryVars => RegistryTypes' BY DEF Typed, RegistryTypes, registryVars
<1>3. UNCHANGED handler => HandlerTypes' BY DEF Typed, HandlerTypes, Busy
<1>4. UNCHANGED listener => ListenerTypes' BY DEF Typed, ListenerTypes
<1>5. UNCHANGED queueVars => QueueTypes' BY DEF Typed, QueueTypes, queueVars
<1>6. UNCHANGED <<failures, crashes>> => CountTypes' BY DEF Typed, CountTypes
<1>7. Fail /\ UNCHANGED crashes => CountTypes'
  BY LimitsAssumption DEF Typed, CountTypes, Fail
<1> QED BY <1>1, <1>2, <1>3, <1>4, <1>5, <1>6, <1>7

\* The values of things that are not there.
LEMMA EmptyTypes ==
  /\ NoRow \in RowType /\ NoRuntime \in RuntimeType /\ Off \in ListenerType
  /\ Unsent \in MessageType /\ Idle \in HandlerType
  /\ [NoRow EXCEPT !.state = "deleted"] \in RowType
<1>0. 0 \in 0..MaxEdits BY LimitsAssumption
<1>1. NoRow \in RowType BY <1>0 DEF NoRow, RowType
<1>2. NoRuntime \in RuntimeType BY <1>0 DEF NoRuntime, RuntimeType
<1>3. Off \in ListenerType BY <1>0 DEF Off, ListenerType
<1>4. Unsent \in MessageType BY DEF Unsent, MessageType
<1>5. Idle \in HandlerType BY DEF Idle, HandlerType
<1>6. [NoRow EXCEPT !.state = "deleted"] \in RowType BY <1>0 DEF NoRow, RowType
<1> QED BY <1>1, <1>2, <1>3, <1>4, <1>5, <1>6

\* A call makes the handler busy with its server (Call).
LEMMA CallTypes ==
  ASSUME Typed, NEW op \in {"start", "stop", "delete"}, NEW s \in Servers, Call(op, s)
  PROVE  HandlerTypes' /\ settled' \subseteq Servers
<1>1. handler' = [Idle EXCEPT !.op = op, !.server = s, !.at = "begin"] BY DEF Call
<1>2. handler' \in HandlerType /\ handler'.server = s BY <1>1 DEF Idle, HandlerType
<1>3. settled' \subseteq Servers BY DEF Call, Typed, ApiTypes
<1> QED BY <1>2, <1>3 DEF HandlerTypes, Busy

\* A handler that goes on keeps its server (Goto).
LEMMA GotoTypes ==
  ASSUME Typed, Busy, NEW at \in {"join", "listen", "failed"}, Goto(at)
  PROVE  HandlerTypes'
<1>1. handler \in HandlerType /\ handler.server \in Servers BY DEF Typed, HandlerTypes
<1>2. handler' = [handler EXCEPT !.at = at] BY DEF Goto
<1>3. handler' \in HandlerType /\ handler'.server = handler.server BY <1>1, <1>2 DEF HandlerType
<1> QED BY <1>1, <1>3 DEF HandlerTypes

\* A handler that returns is idle, or turns to the next server (Return).
LEMMA ReturnTypes ==
  ASSUME Typed, Busy, NEW ok \in BOOLEAN, Return(ok)
  PROVE  HandlerTypes' /\ settled' \subseteq Servers
<1>1. handler \in HandlerType /\ handler.server \in Servers BY DEF Typed, HandlerTypes
<1>2. settled' \subseteq Servers BY <1>1 DEF Return, Typed, ApiTypes
<1>3. handler.todo \subseteq Servers BY <1>1 DEF HandlerType
<1>4. \/ handler' = Idle
      \/ handler' = [Idle EXCEPT !.op = "boot", !.at = "boot", !.todo = handler.todo]
  BY DEF Return
<1>5. handler' \in HandlerType /\ handler'.at \in {"idle", "boot"}
  BY <1>3, <1>4, EmptyTypes DEF Idle, HandlerType
<1> QED BY <1>2, <1>5 DEF HandlerTypes, Busy

\* The row a store writes (Store).
LEMMA StoreTypes ==
  ASSUME Typed, NEW s \in Servers, NEW c \in Configs, NEW active \in BOOLEAN,
         Store(s, c, active)
  PROVE  row' \in [Servers -> RowType] /\ edits' \in 0..MaxEdits
<1>1. c \in [endpoint : Endpoints, queues : SUBSET Queues] BY ConfigsAssumption
<1>2. c.endpoint \in Endpoints /\ c.queues \subseteq Queues BY <1>1
<1>3. edits + 1 \in 0..MaxEdits /\ edits' = edits + 1
  BY LimitsAssumption DEF Store, Typed, ApiTypes
<1>4. [state |-> "stored", active |-> active, endpoint |-> c.endpoint, queues |-> c.queues,
       version |-> edits + 1] \in RowType
  BY <1>2, <1>3 DEF RowType
<1> QED BY <1>3, <1>4 DEF Store, Typed, ApiTypes

\* The steps of the management API keep the types.
LEMMA ManageTyped == ASSUME Typed, NEW s \in Servers, Manage(s) PROVE Typed'
<1>1. ASSUME NEW c \in Configs, NEW active \in BOOLEAN, Create(s, c, active) PROVE Typed'
  <2>1. row' \in [Servers -> RowType] /\ edits' \in 0..MaxEdits BY <1>1, StoreTypes DEF Create
  <2>2. HandlerTypes' /\ settled' \subseteq Servers
    <3>1. CASE active BY <1>1, <3>1, CallTypes DEF Create
    <3>2. CASE ~active BY <1>1, <3>2, KeptTypes DEF Create, Typed, ApiTypes
    <3> QED BY <3>1, <3>2
  <2> QED BY <1>1, <2>1, <2>2, KeptTypes DEF Create, Typed, ApiTypes
<1>2. ASSUME NEW c \in Configs, NEW active \in BOOLEAN, Update(s, c, active) PROVE Typed'
  <2>1. row' \in [Servers -> RowType] /\ edits' \in 0..MaxEdits BY <1>2, StoreTypes DEF Update
  <2>2. (IF active THEN "start" ELSE "stop") \in {"start", "stop", "delete"} OBVIOUS
  <2>3. HandlerTypes' /\ settled' \subseteq Servers BY <1>2, <2>2, CallTypes DEF Update
  <2> QED BY <1>2, <2>1, <2>3, KeptTypes DEF Update, Typed, ApiTypes
<1>3. ASSUME NEW active \in BOOLEAN, SetActive(s, active) PROVE Typed'
  <2>1. row' \in [Servers -> RowType]
    <3>1. row \in [Servers -> RowType] /\ row' = [row EXCEPT ![s].active = active]
      BY <1>3 DEF SetActive, Typed, ApiTypes
    <3>2. [row[s] EXCEPT !.active = active] \in RowType BY <3>1 DEF RowType
    <3> QED BY <3>1, <3>2
  <2>2. (IF active THEN "start" ELSE "stop") \in {"start", "stop", "delete"} OBVIOUS
  <2>3. HandlerTypes' /\ settled' \subseteq Servers BY <1>3, <2>2, CallTypes DEF SetActive
  <2> QED BY <1>3, <2>1, <2>3, KeptTypes DEF SetActive, Typed, ApiTypes
<1>4. ASSUME Delete(s) PROVE Typed'
  <2>1. HandlerTypes' /\ settled' \subseteq Servers BY <1>4, CallTypes DEF Delete
  <2> QED BY <1>4, <2>1, KeptTypes DEF Delete, Typed, ApiTypes
<1> QED BY <1>1, <1>2, <1>3, <1>4 DEF Manage, Activate, Deactivate

\* The steps of a handler keep the types.
LEMMA HandlerTyped == ASSUME Typed, HandlerStep PROVE Typed'
<1>0. /\ handler \in HandlerType /\ (Busy => handler.server \in Servers)
      /\ runtime \in [Servers -> RuntimeType] /\ route \in [Endpoints -> Servers \cup {None}]
      /\ threads \in [Servers -> SUBSET Listeners] /\ row \in [Servers -> RowType]
      /\ listener \in [Listeners -> ListenerType] /\ settled \subseteq Servers
  BY DEF Typed, HandlerTypes, RegistryTypes, ApiTypes, ListenerTypes
<1>1. CASE StopServer
  <2>1. Busy BY <1>1 DEF StopServer, Busy
  <2>2. RegistryTypes'
    <3>1. Unrouted(handler.server) \in [Endpoints -> Servers \cup {None}] BY <1>0 DEF Unrouted
    <3> QED BY <1>0, <1>1, <3>1, EmptyTypes DEF StopServer, RegistryTypes
  <2>3. ListenerTypes'
    <3>1. \A l \in Listeners : [listener[l] EXCEPT !.stop = TRUE] \in ListenerType
      BY <1>0 DEF ListenerType
    <3> QED BY <1>0, <1>1, <3>1 DEF StopServer, ListenerTypes
  <2>4. HandlerTypes' BY <1>1, <2>1, GotoTypes DEF StopServer
  <2> QED BY <1>1, <2>2, <2>3, <2>4, KeptTypes DEF StopServer, Typed
<1>2. CASE LoadFails \/ ListenerFails
  <2>1. Busy BY <1>2 DEF LoadFails, ListenerFails, Busy
  <2>2. HandlerTypes' BY <1>2, <2>1, GotoTypes DEF LoadFails, ListenerFails
  <2> QED BY <1>2, <2>2, KeptTypes DEF LoadFails, ListenerFails, Typed
<1>3. CASE Register
  <2>1. handler.server \in Servers BY <1>0, <1>3 DEF Register, Busy
  <2>2. row[handler.server] \in RowType BY <1>0, <2>1
  <2>3. Snapshot(handler.server) \in RuntimeType /\ row[handler.server].queues \subseteq Queues
    BY <2>2 DEF Snapshot, RuntimeType, RowType
  <2>4. RegistryTypes'
    <3>1. runtime' \in [Servers -> RuntimeType] BY <1>0, <1>3, <2>3 DEF Register
    <3>2. route' \in [Endpoints -> Servers \cup {None}] BY <1>0, <1>3, <2>1 DEF Register
    <3> QED BY <1>0, <1>3, <3>1, <3>2 DEF Register, RegistryTypes
  <2>5. HandlerTypes'
    <3>1. handler' = [handler EXCEPT !.at = "listen", !.pending = row[handler.server].queues]
      BY <1>3 DEF Register
    <3>2. handler' \in HandlerType /\ handler'.server = handler.server
      BY <1>0, <2>3, <3>1 DEF HandlerType
    <3> QED BY <2>1, <3>2 DEF HandlerTypes
  <2> QED BY <1>3, <2>4, <2>5, KeptTypes DEF Register, Typed
<1>4. ASSUME NEW q \in Queues, StartListener(q) PROVE Typed'
  <2>1. handler.server \in Servers BY <1>0, <1>4 DEF StartListener, Busy
  <2>2. PICK l \in Free :
          /\ listener' = [listener EXCEPT ![l] =
               [Off EXCEPT !.at = "head", !.server = handler.server, !.queue = q,
                           !.version = runtime[handler.server].version]]
          /\ handler' = [handler EXCEPT !.started = @ \cup {l}, !.pending = @ \ {q}]
    BY <1>4 DEF StartListener
  <2>3. runtime[handler.server].version \in 0..MaxEdits
    <3>1. runtime[handler.server] \in RuntimeType BY <1>0, <2>1
    <3> QED BY <3>1 DEF RuntimeType
  <2>4. ListenerTypes'
    <3> DEFINE v == runtime[handler.server].version
    <3> HIDE DEF v
    <3>1. [Off EXCEPT !.at = "head", !.server = handler.server, !.queue = q, !.version = v]
            \in ListenerType
      BY <2>1, <2>3 DEF Off, ListenerType, v
    <3> QED BY <1>0, <2>2, <3>1 DEF ListenerTypes, v
  <2>5. HandlerTypes'
    <3>1. l \in Listeners BY <2>2 DEF Free
    <3>2. handler' \in HandlerType /\ handler'.server = handler.server
      BY <1>0, <2>2, <3>1 DEF HandlerType
    <3> QED BY <2>1, <3>2 DEF HandlerTypes
  <2> QED BY <1>4, <2>4, <2>5, KeptTypes DEF StartListener, Typed
<1>5. CASE Started
  <2>1. Busy /\ handler.started \subseteq Listeners
    BY <1>0, <1>5 DEF Started, Busy, HandlerType
  <2>2. RegistryTypes'
    <3>1. threads' \in [Servers -> SUBSET Listeners] BY <1>0, <1>5, <2>1 DEF Started
    <3> QED BY <1>0, <1>5, <3>1 DEF Started, RegistryTypes
  <2>3. HandlerTypes' /\ settled' \subseteq Servers
    BY <1>0, <1>5, <2>1, ReturnTypes, GotoTypes DEF Started
  <2>4. CountTypes' BY <1>5, KeptTypes DEF Started, NoFailure
  <2>5. ApiTypes' BY <1>5, <2>3 DEF Started, ApiTypes, Typed
  <2> QED BY <1>5, <2>2, <2>3, <2>4, <2>5, KeptTypes DEF Started, Typed
<1>6. CASE Recover
  <2>1. Busy BY <1>6 DEF Recover, Busy
  <2>2. HandlerTypes' /\ settled' \subseteq Servers BY <1>6, <2>1, ReturnTypes DEF Recover
  <2>3. row' \in [Servers -> RowType]
    <3>1. [row[handler.server] EXCEPT !.active = FALSE] \in RowType BY <1>0, <2>1 DEF RowType
    <3>2. row' = row \/ row' = [row EXCEPT ![handler.server].active = FALSE] BY <1>6 DEF Recover
    <3> QED BY <1>0, <3>1, <3>2
  <2>4. CountTypes' BY <1>6, KeptTypes DEF Recover, NoFailure
  <2>5. ApiTypes' BY <1>6, <2>2, <2>3 DEF Recover, ApiTypes, Typed
  <2> QED BY <1>6, <2>2, <2>4, <2>5, KeptTypes DEF Recover, Typed
<1>7. CASE Stopped
  <2>1. Busy BY <1>7 DEF Stopped, Busy
  <2>2. HandlerTypes' /\ settled' \subseteq Servers BY <1>7, <2>1, ReturnTypes DEF Stopped
  <2>3. row' \in [Servers -> RowType]
    <3>1. \/ row' = row
          \/ row' = [row EXCEPT ![handler.server] = [NoRow EXCEPT !.state = "deleted"]]
      BY <1>7 DEF Stopped
    <3> QED BY <1>0, <3>1, EmptyTypes
  <2>4. CountTypes' BY <1>7, KeptTypes DEF Stopped, NoFailure
  <2>5. ApiTypes' BY <1>7, <2>2, <2>3 DEF Stopped, ApiTypes, Typed
  <2> QED BY <1>7, <2>2, <2>4, <2>5, KeptTypes DEF Stopped, Typed
<1>8. CASE Bootstrap
  <2>1. HandlerTypes'
    <3>1. CASE handler' = Idle BY <3>1, EmptyTypes DEF HandlerTypes, Busy, Idle
    <3>2. ASSUME NEW s \in handler.todo,
                 handler' = [handler EXCEPT !.at = "begin", !.server = s, !.todo = @ \ {s}]
          PROVE  HandlerTypes'
      <4>1. s \in Servers BY <1>0, <3>2 DEF HandlerType
      <4>2. handler' \in HandlerType /\ handler'.server = s BY <1>0, <3>2, <4>1 DEF HandlerType
      <4> QED BY <4>1, <4>2 DEF HandlerTypes
    <3> QED BY <1>8, <3>1, <3>2 DEF Bootstrap
  <2> QED BY <1>8, <2>1, KeptTypes DEF Bootstrap, Typed
<1> QED BY <1>1, <1>2, <1>3, <1>4, <1>5, <1>6, <1>7, <1>8 DEF HandlerStep

\* A listener that moves keeps its batch (Move, Rest).
LEMMA MoveTypes ==
  ASSUME Typed, NEW l \in Listeners, NEW at \in {"head", "receive", "execute", "ack", "dead"},
         Move(l, at)
  PROVE  ListenerTypes'
<1>1. listener \in [Listeners -> ListenerType] BY DEF Typed, ListenerTypes
<1>2. [listener[l] EXCEPT !.at = at] \in ListenerType BY <1>1 DEF ListenerType
<1> QED BY <1>1, <1>2 DEF Move, ListenerTypes

\* What the broker makes of messages keeps their type (Received, Deleted).
LEMMA BrokerTypes ==
  ASSUME Typed, NEW B, NEW l \in Listeners \cup {None}
  PROVE  /\ Received(B, l) \in [Messages -> MessageType]
         /\ Deleted(B) \in [Messages -> MessageType]
<1>1. \A m \in Messages : message[m] \in MessageType BY DEF Typed, QueueTypes
<1>2. \A m \in Messages : [message[m] EXCEPT !.at = "inflight", !.receipt = l] \in MessageType
  BY <1>1 DEF MessageType
<1>3. \A m \in Messages : [message[m] EXCEPT !.at = "deleted"] \in MessageType
  BY <1>1 DEF MessageType
<1> QED BY <1>1, <1>2, <1>3 DEF Received, Deleted

\* The steps of a listener keep the types.
LEMMA ListenerTyped == ASSUME Typed, NEW l \in Listeners, ListenerStep(l) PROVE Typed'
<1>0. /\ listener \in [Listeners -> ListenerType] /\ message \in [Messages -> MessageType]
      /\ recorded \subseteq Messages /\ runs \in [Messages -> Nat]
      /\ expiries \in [Messages -> 0..MaxExpiries] /\ listener[l].batch \subseteq Messages
  <2>1. listener \in [Listeners -> ListenerType] BY DEF Typed, ListenerTypes
  <2>2. listener[l].batch \subseteq Messages BY <2>1 DEF ListenerType
  <2> QED BY <2>1, <2>2 DEF Typed, QueueTypes
<1>1. CASE LoopHead(l)
  <2>1. ListenerTypes'
    <3>1. CASE listener[l].stop BY <1>0, <1>1, <3>1, EmptyTypes DEF LoopHead, ListenerTypes
    <3>2. CASE ~listener[l].stop BY <1>1, <3>2, MoveTypes DEF LoopHead
    <3> QED BY <3>1, <3>2
  <2> QED BY <1>1, <2>1, KeptTypes DEF LoopHead, Typed
<1>2. CASE ReceiveNone(l)
  BY <1>2, MoveTypes, KeptTypes DEF ReceiveNone, Typed
<1>3. CASE ReceiveSome(l)
  <2>1. PICK B \in Batches(l) :
          /\ message' = Received(B, l)
          /\ listener' = [listener EXCEPT ![l].at = "record", ![l].batch = B]
    BY <1>3 DEF ReceiveSome
  <2>2. B \subseteq Messages BY DEF Batches
  <2>3. ListenerTypes'
    <3>1. [listener[l] EXCEPT !.at = "record", !.batch = B] \in ListenerType
      BY <1>0, <2>2 DEF ListenerType
    <3>2. listener' = [listener EXCEPT ![l] = [listener[l] EXCEPT !.at = "record", !.batch = B]]
      BY <2>1
    <3> QED BY <1>0, <3>1, <3>2 DEF ListenerTypes
  <2>4. QueueTypes' BY <1>0, <1>3, <2>1, BrokerTypes DEF ReceiveSome, QueueTypes
  <2> QED BY <1>3, <2>3, <2>4, KeptTypes DEF ReceiveSome, Typed
<1>4. CASE ReceiveFails(l)
  <2>1. ListenerTypes' BY <1>4, MoveTypes DEF ReceiveFails
  <2>2. QueueTypes' BY <1>0, <1>4, BrokerTypes DEF ReceiveFails, QueueTypes
  <2> QED BY <1>4, <2>1, <2>2, KeptTypes DEF ReceiveFails, Typed
<1>5. CASE Record(l)
  <2>1. ListenerTypes' BY <1>5, MoveTypes DEF Record
  <2>2. QueueTypes' BY <1>0, <1>5 DEF Record, QueueTypes
  <2> QED BY <1>5, <2>1, <2>2, KeptTypes DEF Record, Typed
<1>6. CASE Execute(l)
  <2>1. ListenerTypes' BY <1>6, MoveTypes DEF Execute
  <2>2. QueueTypes' BY <1>0, <1>6 DEF Execute, QueueTypes
  <2> QED BY <1>6, <2>1, <2>2, KeptTypes DEF Execute, Typed
<1>7. CASE Ack(l)
  <2>1. ListenerTypes'
    <3>1. [listener[l] EXCEPT !.at = "head", !.batch = {}] \in ListenerType
      BY <1>0 DEF ListenerType
    <3>2. listener' = [listener EXCEPT ![l] = [listener[l] EXCEPT !.at = "head", !.batch = {}]]
      BY <1>7 DEF Ack, Rest
    <3> QED BY <1>0, <3>1, <3>2 DEF ListenerTypes
  <2>2. \E D : message' = Deleted(D) BY <1>7 DEF Ack
  <2>3. message' \in [Messages -> MessageType] BY <2>2, BrokerTypes
  <2>4. QueueTypes' BY <1>0, <1>7, <2>3 DEF Ack, QueueTypes
  <2>5. CountTypes' BY <1>7, KeptTypes DEF Ack, NoFailure
  <2> QED BY <1>7, <2>1, <2>4, <2>5, KeptTypes DEF Ack, Typed
<1>8. CASE ListenerDies(l)
  BY <1>8, MoveTypes, KeptTypes DEF ListenerDies, Typed
<1> QED BY <1>1, <1>2, <1>3, <1>4, <1>5, <1>6, <1>7, <1>8 DEF ListenerStep

\* Every step keeps the types.
LEMMA NextTyped == ASSUME Typed, [Next]_vars PROVE Typed'
<1>0. /\ message \in [Messages -> MessageType] /\ recorded \subseteq Messages
      /\ runs \in [Messages -> Nat] /\ expiries \in [Messages -> 0..MaxExpiries]
  BY DEF Typed, QueueTypes
<1>1. ASSUME NEW m \in Messages, Expire(m) PROVE Typed'
  <2>1. [message[m] EXCEPT !.at = "visible"] \in MessageType BY <1>0 DEF MessageType
  <2>2. message' \in [Messages -> MessageType] BY <1>0, <1>1, <2>1 DEF Expire
  <2>3. expiries' \in [Messages -> 0..MaxExpiries]
    <3>1. expiries[m] + 1 \in 0..MaxExpiries BY <1>0, <1>1, LimitsAssumption DEF Expire
    <3> QED BY <1>0, <1>1, <3>1 DEF Expire
  <2>4. QueueTypes' BY <1>0, <1>1, <2>2, <2>3 DEF Expire, QueueTypes
  <2> QED BY <1>1, <2>4, KeptTypes DEF Expire, Typed
<1>2. ASSUME NEW m \in Messages, NEW q \in Queues, Send(m, q) PROVE Typed'
  <2>1. [Unsent EXCEPT !.at = "visible", !.queue = q] \in MessageType
    BY DEF Unsent, MessageType
  <2>2. QueueTypes' BY <1>0, <1>2, <2>1 DEF Send, QueueTypes
  <2> QED BY <1>2, <2>2, KeptTypes DEF Send, Typed
<1>3. CASE Crash
  <2>1. RegistryTypes' BY <1>3, EmptyTypes DEF Crash, RegistryTypes
  <2>2. ListenerTypes' BY <1>3, EmptyTypes DEF Crash, ListenerTypes
  <2>3. HandlerTypes'
    <3> DEFINE T == {s \in Servers : Active(s)}
    <3>1. T \subseteq Servers OBVIOUS
    <3>2. handler' = [Idle EXCEPT !.op = "boot", !.at = "boot", !.todo = T] BY <1>3 DEF Crash
    <3> HIDE DEF T
    <3>3. handler' \in HandlerType /\ handler'.at = "boot" BY <3>1, <3>2 DEF Idle, HandlerType
    <3> QED BY <3>3 DEF HandlerTypes, Busy
  <2>4. ApiTypes' BY <1>3 DEF Crash, ApiTypes, Typed
  <2>5. CountTypes' BY <1>3, LimitsAssumption DEF Crash, CountTypes, Typed
  <2> QED BY <1>3, <2>1, <2>2, <2>3, <2>4, <2>5, KeptTypes DEF Crash, Typed
<1>4. CASE UNCHANGED vars
  BY <1>4, KeptTypes DEF vars, apiVars, registryVars, queueVars, Typed
<1> QED
  BY <1>1, <1>2, <1>3, <1>4, ManageTyped, HandlerTyped, ListenerTyped DEF Next

\* The types hold at the start.
LEMMA InitTyped == ASSUME Init PROVE Typed
<1>1. ApiTypes /\ RegistryTypes /\ ListenerTypes
  BY LimitsAssumption, EmptyTypes DEF Init, ApiTypes, RegistryTypes, ListenerTypes
<1>2. HandlerTypes BY EmptyTypes DEF Init, HandlerTypes, Busy, Idle
<1>3. QueueTypes /\ CountTypes
  BY LimitsAssumption, EmptyTypes DEF Init, QueueTypes, CountTypes
<1> QED BY <1>1, <1>2, <1>3 DEF Typed

\* The rows, the registry, the handler, the threads and the messages are well
\* formed in every state.
THEOREM MockServersTypeCorrect == Spec => []TypeOK
BY InitTyped, NextTyped, TypedIsTypeOK, PTL DEF Spec

-----------------------------------------------------------------------------
(* A message is handled before it is acknowledged *)

\* What is accounted for one message.
AccountedFor(m) ==
  /\ IsFiniteSet(Pending(m))
  /\ runs[m] + Cardinality(Pending(m)) + Offered(m) <= 1 + expiries[m]

\* The numbers in the account.
LEMMA AccountNumbers ==
  ASSUME Typed, NEW m \in Messages
  PROVE  /\ runs[m] \in Nat /\ expiries[m] \in Nat /\ Offered(m) \in {0, 1}
         /\ message[m] \in MessageType
<1>1. runs[m] \in Nat /\ expiries[m] \in Nat /\ message[m] \in MessageType
  BY LimitsAssumption DEF Typed, QueueTypes
<1> QED BY <1>1 DEF Offered

\* Nothing new is owed when no listener takes the message and it is not
\* offered anew.
LEMMA AccountKept ==
  ASSUME Typed, NEW m \in Messages, AccountedFor(m), Pending(m)' \subseteq Pending(m),
         Offered(m)' \in {0, 1}, Offered(m)' <= Offered(m), runs'[m] = runs[m],
         expiries'[m] = expiries[m]
  PROVE  AccountedFor(m)'
<1>1. /\ IsFiniteSet(Pending(m)') /\ Cardinality(Pending(m)') <= Cardinality(Pending(m))
      /\ Cardinality(Pending(m)') \in Nat /\ Cardinality(Pending(m)) \in Nat
  BY FS_Subset, FS_CardinalityType DEF AccountedFor
<1>2. runs[m] \in Nat /\ expiries[m] \in Nat /\ Offered(m) \in {0, 1} BY AccountNumbers
<1> QED BY <1>1, <1>2 DEF AccountedFor

\* A step of a handler or of a listener that has no batch in its hands leaves
\* the work of the others alone.
Calm(l) ==
  \/ listener'[l].at \notin {"record", "execute", "ack"}
  \/ listener'[l].at = listener[l].at /\ listener'[l].batch = listener[l].batch

Handled == HandledFirst /\ Accounted /\ HandledBeforeAck

\* Calm steps keep the account.
LEMMA CalmHandled ==
  ASSUME Typed, Handled, \A l \in Listeners : Calm(l), UNCHANGED queueVars
  PROVE  Handled'
<1>0. UNCHANGED <<message, recorded, runs, expiries>> BY DEF queueVars
<1>1. HandledFirst' BY <1>0 DEF Handled, HandledFirst, Calm
<1>2. HandledBeforeAck' BY <1>0 DEF Handled, HandledBeforeAck
<1>3. ASSUME NEW m \in Messages PROVE AccountedFor(m)'
  <2>1. Pending(m)' \subseteq Pending(m) BY DEF Pending, Calm
  <2>2. Offered(m)' = Offered(m) BY <1>0 DEF Offered
  <2>3. Offered(m) \in {0, 1} BY AccountNumbers
  <2>4. AccountedFor(m) BY DEF Handled, Accounted, AccountedFor
  <2> QED BY <1>0, <2>1, <2>2, <2>3, <2>4, AccountKept
<1> QED BY <1>1, <1>2, <1>3 DEF Handled, Accounted, AccountedFor

\* Which steps are calm.
LEMMA CalmSteps ==
  ASSUME Typed, \/ \E s \in Servers : Manage(s)
                \/ HandlerStep \/ Crash \/ UNCHANGED vars
                \/ \E l \in Listeners : LoopHead(l) \/ ReceiveNone(l) \/ ListenerDies(l)
  PROVE  UNCHANGED queueVars /\ \A l \in Listeners : Calm(l)
<1>0. listener \in [Listeners -> ListenerType] BY DEF Typed, ListenerTypes
<1>1. ASSUME UNCHANGED listener PROVE \A l \in Listeners : Calm(l) BY <1>1 DEF Calm
<1>2. CASE \E s \in Servers : Manage(s)
  BY <1>1, <1>2 DEF Manage, Create, Update, Activate, Deactivate, SetActive, Delete
<1>3. CASE StopServer
  <2>1. \A l \in Listeners : /\ [listener[l] EXCEPT !.stop = TRUE].at = listener[l].at
                             /\ [listener[l] EXCEPT !.stop = TRUE].batch = listener[l].batch
    BY <1>0 DEF ListenerType
  <2> QED BY <1>3, <2>1 DEF StopServer, Calm
<1>4. ASSUME NEW q \in Queues, StartListener(q)
      PROVE  UNCHANGED queueVars /\ \A l \in Listeners : Calm(l)
  <2>1. PICK k \in Free : listener' = [listener EXCEPT ![k] =
               [Off EXCEPT !.at = "head", !.server = handler.server, !.queue = q,
                           !.version = runtime[handler.server].version]]
    BY <1>4 DEF StartListener
  <2> DEFINE v == runtime[handler.server].version
             new == [Off EXCEPT !.at = "head", !.server = handler.server, !.queue = q,
                                !.version = v]
  <2> HIDE DEF v
  <2>2. new.at = "head" BY DEF Off
  <2>3. listener' = [listener EXCEPT ![k] = new] BY <2>1 DEF v
  <2> HIDE DEF new
  <2>4. ASSUME NEW l \in Listeners PROVE Calm(l)
    <3>1. listener'[l] = new \/ listener'[l] = listener[l] BY <1>0, <2>3
    <3> QED BY <2>2, <3>1 DEF Calm
  <2> QED BY <1>4, <2>4 DEF StartListener
<1>5. CASE HandlerStep
  <2>1. CASE LoadFails \/ Register \/ ListenerFails \/ Started \/ Recover \/ Stopped \/ Bootstrap
    BY <1>1, <2>1 DEF LoadFails, Register, ListenerFails, Started, Recover, Stopped, Bootstrap
  <2> QED BY <1>3, <1>4, <1>5, <2>1 DEF HandlerStep
<1>6. CASE Crash BY <1>6 DEF Crash, Calm, Off
<1>7. ASSUME NEW k \in Listeners, NEW at \in {"head", "receive", "dead"}, Move(k, at)
      PROVE  \A l \in Listeners : Calm(l)
  <2>1. [listener[k] EXCEPT !.at = at].at = at BY <1>0 DEF ListenerType
  <2>2. \A l \in Listeners : listener'[l] = [listener[k] EXCEPT !.at = at] \/ listener'[l] = listener[l]
    BY <1>0, <1>7 DEF Move
  <2> QED BY <2>1, <2>2 DEF Calm
<1>8. ASSUME NEW k \in Listeners, LoopHead(k) \/ ReceiveNone(k) \/ ListenerDies(k)
      PROVE  UNCHANGED queueVars /\ \A l \in Listeners : Calm(l)
  <2>1. UNCHANGED queueVars BY <1>8 DEF LoopHead, ReceiveNone, ListenerDies
  <2>2. CASE listener' = [listener EXCEPT ![k] = Off]
    <3>1. \A l \in Listeners : listener'[l] = Off \/ listener'[l] = listener[l] BY <1>0, <2>2
    <3> QED BY <2>1, <3>1 DEF Calm, Off
  <2>3. CASE Move(k, "receive") \/ Move(k, "head") \/ Move(k, "dead") BY <1>7, <2>1, <2>3
  <2> QED BY <1>8, <2>2, <2>3 DEF LoopHead, ReceiveNone, ListenerDies
<1>9. CASE UNCHANGED vars BY <1>1, <1>9 DEF vars, queueVars
<1> QED BY <1>2, <1>5, <1>6, <1>8, <1>9

\* What a listener's move does to it and to the others (Move).
LEMMA MoveFacts ==
  ASSUME Typed, NEW l \in Listeners, NEW at, Move(l, at)
  PROVE  /\ listener'[l].at = at /\ listener'[l].batch = listener[l].batch
         /\ \A k \in Listeners \ {l} : listener'[k] = listener[k]
<1>0. listener \in [Listeners -> ListenerType] BY DEF Typed, ListenerTypes
<1>1. /\ [listener[l] EXCEPT !.at = at].at = at
      /\ [listener[l] EXCEPT !.at = at].batch = listener[l].batch
  BY <1>0 DEF ListenerType
<1>2. listener'[l] = [listener[l] EXCEPT !.at = at] BY <1>0 DEF Move
<1> QED BY <1>0, <1>1, <1>2 DEF Move

\* A send offers what was on offer, an expiry offers again and is counted.
LEMMA OfferHandled ==
  ASSUME Typed, Handled, NEW m \in Messages, Expire(m) \/ \E q \in Queues : Send(m, q)
  PROVE  Handled'
<1>0. /\ UNCHANGED <<listener, recorded, runs>> /\ message \in [Messages -> MessageType]
      /\ expiries \in [Messages -> 0..MaxExpiries]
  BY DEF Expire, Send, Typed, QueueTypes
<1>1. /\ message'[m].at = "visible" /\ message[m].at # "deleted"
      /\ \A n \in Messages \ {m} : message'[n] = message[n]
  <2>1. CASE Expire(m)
    <3>1. [message[m] EXCEPT !.at = "visible"].at = "visible" BY <1>0 DEF MessageType
    <3> QED BY <1>0, <2>1, <3>1 DEF Expire
  <2>2. ASSUME NEW q \in Queues, Send(m, q)
        PROVE  /\ message'[m].at = "visible" /\ message[m].at # "deleted"
               /\ \A n \in Messages \ {m} : message'[n] = message[n]
    <3>1. [Unsent EXCEPT !.at = "visible", !.queue = q].at = "visible" BY DEF Unsent
    <3> QED BY <1>0, <2>2, <3>1 DEF Send
  <2> QED BY <2>1, <2>2
<1>2. \/ expiries' = expiries /\ Offered(m) = 1
      \/ expiries'[m] = expiries[m] + 1 /\ \A n \in Messages \ {m} : expiries'[n] = expiries[n]
  BY <1>0 DEF Expire, Send, Offered
<1>3. HandledFirst' BY <1>0 DEF Handled, HandledFirst
<1>4. \A n \in Messages : expiries[n] \in Nat /\ runs[n] \in Nat BY AccountNumbers
<1>5. HandledBeforeAck'
  <2>1. ASSUME NEW n \in Messages
        PROVE  /\ message'[n].at = "deleted" => n \in recorded' /\ runs'[n] > 0
               /\ runs'[n] <= 1 + expiries'[n]
    <3>1. /\ message[n].at = "deleted" => n \in recorded /\ runs[n] > 0
          /\ runs[n] <= 1 + expiries[n]
      BY DEF Handled, HandledBeforeAck
    <3> QED BY <1>0, <1>1, <1>2, <1>4, <3>1
  <2> QED BY <2>1 DEF HandledBeforeAck
<1>6. ASSUME NEW n \in Messages PROVE AccountedFor(n)'
  <2>1. Pending(n)' = Pending(n) BY <1>0 DEF Pending
  <2>2. AccountedFor(n) /\ Cardinality(Pending(n)) \in Nat
    BY FS_CardinalityType DEF Handled, Accounted, AccountedFor
  <2>3. CASE n = m
    <3>1. Offered(m)' = 1 BY <1>1 DEF Offered
    <3>2. Offered(m) \in {0, 1} BY AccountNumbers
    <3> QED BY <1>0, <1>2, <1>4, <2>1, <2>2, <2>3, <3>1, <3>2 DEF AccountedFor
  <2>4. CASE n # m
    <3>1. Offered(n)' = Offered(n) BY <1>1, <2>4 DEF Offered
    <3> QED BY <1>0, <1>2, <2>1, <2>2, <2>4, <3>1 DEF AccountedFor
  <2> QED BY <2>3, <2>4
<1> QED BY <1>3, <1>5, <1>6 DEF Handled, Accounted, AccountedFor

\* What one receive call makes of the messages (Received).
LEMMA ReceivedFacts ==
  ASSUME Typed, NEW l \in Listeners, NEW B \in Batches(l), NEW holder \in Listeners \cup {None},
         message' = Received(B, holder)
  PROVE  /\ B \subseteq Messages
         /\ \A m \in B : message[m].at = "visible" /\ Offered(m) = 1 /\ Offered(m)' = 0
         /\ \A m \in Messages \ B : Offered(m)' = Offered(m)
         /\ \A m \in Messages : message'[m].at = "deleted" => message[m].at = "deleted"
<1>1. \A m \in Messages : message[m] \in MessageType BY AccountNumbers
<1>2. B \subseteq Messages /\ \A m \in B : message[m].at = "visible" BY DEF Batches
<1>3. \A m \in B : message'[m] = [message[m] EXCEPT !.at = "inflight", !.receipt = holder]
  BY <1>2 DEF Received
<1>4. \A m \in B : message'[m].at = "inflight" BY <1>1, <1>2, <1>3 DEF MessageType
<1>5. \A m \in Messages \ B : message'[m] = message[m] BY DEF Received
<1> QED BY <1>2, <1>4, <1>5 DEF Offered

\* A received batch takes up the offer of each of its messages.
LEMMA ReceiveHandled ==
  ASSUME Typed, Handled, NEW l \in Listeners, ReceiveSome(l) PROVE Handled'
<1>0. /\ UNCHANGED <<recorded, runs, expiries>> /\ listener[l].at = "receive"
      /\ listener \in [Listeners -> ListenerType]
  BY DEF ReceiveSome, Typed, ListenerTypes
<1>1. PICK B \in Batches(l) :
        /\ message' = Received(B, l)
        /\ listener' = [listener EXCEPT ![l].at = "record", ![l].batch = B]
  BY DEF ReceiveSome
<1>2. /\ B \subseteq Messages
      /\ \A m \in B : Offered(m) = 1 /\ Offered(m)' = 0
      /\ \A m \in Messages \ B : Offered(m)' = Offered(m)
      /\ \A m \in Messages : message'[m].at = "deleted" => message[m].at = "deleted"
  BY <1>1, ReceivedFacts
<1>3. /\ listener'[l].at = "record" /\ listener'[l].batch = B
      /\ \A k \in Listeners \ {l} : listener'[k] = listener[k]
  <2>1. /\ [listener[l] EXCEPT !.at = "record", !.batch = B].at = "record"
        /\ [listener[l] EXCEPT !.at = "record", !.batch = B].batch = B
    BY <1>0 DEF ListenerType
  <2>2. listener' = [listener EXCEPT ![l] = [listener[l] EXCEPT !.at = "record", !.batch = B]]
    BY <1>1
  <2> QED BY <1>0, <2>1, <2>2
<1>4. HandledFirst' BY <1>0, <1>3 DEF Handled, HandledFirst
<1>5. HandledBeforeAck' BY <1>0, <1>2 DEF Handled, HandledBeforeAck
<1>6. ASSUME NEW m \in Messages PROVE AccountedFor(m)'
  <2>1. AccountedFor(m) /\ l \notin Pending(m)
    BY <1>0 DEF Handled, Accounted, AccountedFor, Pending
  <2>2. CASE m \in B
    <3>1. Pending(m)' = Pending(m) \cup {l} BY <1>3, <2>2 DEF Pending
    <3>2. /\ IsFiniteSet(Pending(m) \cup {l})
          /\ Cardinality(Pending(m) \cup {l}) = Cardinality(Pending(m)) + 1
          /\ Cardinality(Pending(m)) \in Nat
      BY <2>1, FS_AddElement, FS_CardinalityType DEF AccountedFor
    <3>3. runs[m] \in Nat /\ expiries[m] \in Nat BY AccountNumbers
    <3> QED BY <1>0, <1>2, <2>1, <2>2, <3>1, <3>2, <3>3 DEF AccountedFor
  <2>3. CASE m \notin B
    <3>1. Pending(m)' = Pending(m)
      BY <1>0, <1>3, <2>3 DEF Pending
    <3>2. Offered(m)' = Offered(m) BY <1>2, <2>3
    <3> QED BY <1>0, <2>1, <3>1, <3>2 DEF AccountedFor
  <2> QED BY <2>2, <2>3
<1> QED BY <1>4, <1>5, <1>6 DEF Handled, Accounted, AccountedFor

\* A batch that is dropped uses up the offers.
LEMMA ReceiveFailsHandled ==
  ASSUME Typed, Handled, NEW l \in Listeners, ReceiveFails(l) PROVE Handled'
<1>0. UNCHANGED <<recorded, runs, expiries>> /\ Move(l, "head") BY DEF ReceiveFails
<1>1. PICK B \in Batches(l) : message' = Received(B, None) BY DEF ReceiveFails
<1>2. /\ B \subseteq Messages
      /\ \A m \in B : Offered(m) = 1 /\ Offered(m)' = 0
      /\ \A m \in Messages \ B : Offered(m)' = Offered(m)
      /\ \A m \in Messages : message'[m].at = "deleted" => message[m].at = "deleted"
  BY <1>1, ReceivedFacts
<1>3. listener'[l].at = "head" /\ \A k \in Listeners \ {l} : listener'[k] = listener[k]
  BY <1>0, MoveFacts
<1>4. HandledFirst' BY <1>0, <1>3 DEF Handled, HandledFirst
<1>5. HandledBeforeAck' BY <1>0, <1>2 DEF Handled, HandledBeforeAck
<1>6. ASSUME NEW m \in Messages PROVE AccountedFor(m)'
  <2>1. AccountedFor(m) BY DEF Handled, Accounted, AccountedFor
  <2>2. Pending(m)' \subseteq Pending(m) BY <1>3 DEF Pending
  <2>3. Offered(m) \in {0, 1} BY AccountNumbers
  <2>4. Offered(m)' \in {0, 1} /\ Offered(m)' <= Offered(m) BY <1>2, <2>3
  <2> QED BY <1>0, <2>1, <2>2, <2>4, AccountKept
<1> QED BY <1>4, <1>5, <1>6 DEF Handled, Accounted, AccountedFor

\* A batch is recorded, or its listener dies.
LEMMA RecordHandled ==
  ASSUME Typed, Handled, NEW l \in Listeners, Record(l) PROVE Handled'
<1>0. UNCHANGED <<message, runs, expiries>> /\ listener[l].at = "record" BY DEF Record
<1>1. \/ recorded' = recorded \cup listener[l].batch /\ Move(l, "execute")
      \/ recorded' = recorded /\ Move(l, "dead")
  BY DEF Record
<1>2. /\ listener'[l].at \in {"execute", "dead"} /\ listener'[l].batch = listener[l].batch
      /\ listener'[l].at = "execute" => listener[l].batch \subseteq recorded'
      /\ recorded \subseteq recorded'
      /\ \A k \in Listeners \ {l} : listener'[k] = listener[k]
  BY <1>1, MoveFacts
<1>3. HandledFirst'
  <2>1. ASSUME NEW k \in Listeners
        PROVE  /\ listener'[k].at \in {"execute", "ack"} => listener'[k].batch \subseteq recorded'
               /\ listener'[k].at = "ack" => \A m \in listener'[k].batch : runs'[m] > 0
    <3>1. CASE k = l BY <1>2, <3>1
    <3>2. CASE k # l BY <1>0, <1>2, <3>2 DEF Handled, HandledFirst
    <3> QED BY <3>1, <3>2
  <2> QED BY <2>1 DEF HandledFirst
<1>4. HandledBeforeAck' BY <1>0, <1>2 DEF Handled, HandledBeforeAck
<1>5. ASSUME NEW m \in Messages PROVE AccountedFor(m)'
  <2>1. AccountedFor(m) BY DEF Handled, Accounted, AccountedFor
  <2>2. Pending(m)' \subseteq Pending(m) BY <1>0, <1>2 DEF Pending
  <2>3. Offered(m)' = Offered(m) /\ Offered(m) \in {0, 1} BY <1>0, AccountNumbers DEF Offered
  <2> QED BY <1>0, <2>1, <2>2, <2>3, AccountKept
<1> QED BY <1>3, <1>4, <1>5 DEF Handled, Accounted, AccountedFor

\* An execution turns a pending one into one that was done.
LEMMA ExecuteHandled ==
  ASSUME Typed, Handled, NEW l \in Listeners, Execute(l) PROVE Handled'
<1>0. /\ UNCHANGED <<message, recorded, expiries>> /\ listener[l].at = "execute"
      /\ Move(l, "ack")
      /\ runs' = [m \in Messages |-> IF m \in listener[l].batch THEN runs[m] + 1 ELSE runs[m]]
  BY DEF Execute
<1>1. /\ listener'[l].at = "ack" /\ listener'[l].batch = listener[l].batch
      /\ \A k \in Listeners \ {l} : listener'[k] = listener[k]
  BY <1>0, MoveFacts
<1>2. \A m \in Messages : /\ runs[m] \in Nat /\ expiries[m] \in Nat
                          /\ Offered(m)' = Offered(m) /\ Offered(m) \in {0, 1}
  BY <1>0, AccountNumbers DEF Offered
<1>3. \A k \in Listeners : listener[k].batch \subseteq Messages
  <2>1. \A k \in Listeners : listener[k] \in ListenerType BY DEF Typed, ListenerTypes
  <2> QED BY <2>1 DEF ListenerType
<1>4. \A m \in Messages : runs'[m] >= runs[m] /\ runs'[m] \in Nat BY <1>0, <1>2
<1>5. HandledFirst'
  <2>1. ASSUME NEW k \in Listeners
        PROVE  /\ listener'[k].at \in {"execute", "ack"} => listener'[k].batch \subseteq recorded'
               /\ listener'[k].at = "ack" => \A m \in listener'[k].batch : runs'[m] > 0
    <3>1. CASE k = l
      <4>1. listener[l].batch \subseteq recorded BY <1>0 DEF Handled, HandledFirst
      <4>2. ASSUME NEW m \in listener[l].batch PROVE runs'[m] > 0
        BY <1>0, <1>2, <1>3
      <4> QED BY <1>0, <1>1, <3>1, <4>1, <4>2
    <3>2. CASE k # l
      <4>1. /\ listener[k].at \in {"execute", "ack"} => listener[k].batch \subseteq recorded
            /\ listener[k].at = "ack" => \A m \in listener[k].batch : runs[m] > 0
        BY DEF Handled, HandledFirst
      <4>2. ASSUME NEW m \in listener[k].batch, runs[m] > 0 PROVE runs'[m] > 0
        BY <1>2, <1>3, <1>4, <4>2
      <4> QED BY <1>0, <1>1, <3>2, <4>1, <4>2
    <3> QED BY <3>1, <3>2
  <2> QED BY <2>1 DEF HandledFirst
<1>6. ASSUME NEW m \in Messages PROVE AccountedFor(m)'
  <2>1. AccountedFor(m) BY DEF Handled, Accounted, AccountedFor
  <2>2. CASE m \in listener[l].batch
    <3>1. Pending(m)' = Pending(m) \ {l} /\ l \in Pending(m)
      BY <1>0, <1>1, <2>2 DEF Pending
    <3>2. /\ IsFiniteSet(Pending(m) \ {l})
          /\ Cardinality(Pending(m) \ {l}) = Cardinality(Pending(m)) - 1
          /\ Cardinality(Pending(m)) \in Nat
      BY <2>1, <3>1, FS_RemoveElement, FS_CardinalityType DEF AccountedFor
    <3>3. runs'[m] = runs[m] + 1 BY <1>0, <2>2
    <3> QED BY <1>0, <1>2, <2>1, <3>1, <3>2, <3>3 DEF AccountedFor
  <2>3. CASE m \notin listener[l].batch
    <3>1. Pending(m)' = Pending(m) /\ runs'[m] = runs[m]
      BY <1>0, <1>1, <2>3 DEF Pending
    <3> QED BY <1>0, <1>2, <2>1, <3>1 DEF AccountedFor
  <2> QED BY <2>2, <2>3
<1>7. HandledBeforeAck'
  <2>1. ASSUME NEW m \in Messages
        PROVE  /\ message'[m].at = "deleted" => m \in recorded' /\ runs'[m] > 0
               /\ runs'[m] <= 1 + expiries'[m]
    <3>1. message[m].at = "deleted" => m \in recorded /\ runs[m] > 0
      BY DEF Handled, HandledBeforeAck
    <3>2. /\ runs'[m] + Cardinality(Pending(m)') + Offered(m)' <= 1 + expiries'[m]
          /\ Cardinality(Pending(m)') \in Nat
      BY <1>6, FS_CardinalityType DEF AccountedFor
    <3> QED BY <1>0, <1>2, <1>4, <3>1, <3>2
  <2> QED BY <2>1 DEF HandledBeforeAck
<1> QED BY <1>5, <1>6, <1>7 DEF Handled, Accounted, AccountedFor

\* Only a batch that was recorded and executed is acknowledged.
LEMMA AckHandled ==
  ASSUME Typed, Handled, NEW l \in Listeners, Ack(l) PROVE Handled'
<1>0. /\ UNCHANGED <<recorded, runs, expiries>> /\ listener[l].at = "ack"
      /\ listener \in [Listeners -> ListenerType]
  BY DEF Ack, Typed, ListenerTypes
<1>1. PICK D \in SUBSET listener[l].batch : message' = Deleted(D) BY DEF Ack, Deletable
<1>2. listener'[l].at = "head" /\ \A k \in Listeners \ {l} : listener'[k] = listener[k]
  <2>1. [listener[l] EXCEPT !.at = "head", !.batch = {}].at = "head" BY <1>0 DEF ListenerType
  <2>2. listener' = [listener EXCEPT ![l] = [listener[l] EXCEPT !.at = "head", !.batch = {}]]
    BY DEF Ack, Rest
  <2> QED BY <1>0, <2>1, <2>2
<1>3. \A m \in Messages : /\ m \in D => message'[m].at = "deleted"
                          /\ m \notin D => message'[m] = message[m]
  <2>1. \A m \in Messages : [message[m] EXCEPT !.at = "deleted"].at = "deleted"
    BY AccountNumbers DEF MessageType
  <2> QED BY <1>1, <2>1 DEF Deleted
<1>4. \A m \in D : m \in recorded /\ runs[m] > 0 BY <1>0, <1>1 DEF Handled, HandledFirst
<1>5. HandledFirst' BY <1>0, <1>2 DEF Handled, HandledFirst
<1>6. HandledBeforeAck' BY <1>0, <1>3, <1>4 DEF Handled, HandledBeforeAck
<1>7. ASSUME NEW m \in Messages PROVE AccountedFor(m)'
  <2>1. AccountedFor(m) BY DEF Handled, Accounted, AccountedFor
  <2>2. Pending(m)' \subseteq Pending(m) BY <1>0, <1>2 DEF Pending
  <2>3. Offered(m) \in {0, 1} BY AccountNumbers
  <2>4. Offered(m)' \in {0, 1} /\ Offered(m)' <= Offered(m) BY <1>3, <2>3 DEF Offered
  <2> QED BY <1>0, <2>1, <2>2, <2>4, AccountKept
<1> QED BY <1>5, <1>6, <1>7 DEF Handled, Accounted, AccountedFor

\* A message leaves its queue only after its invocation was committed and its
\* commands were executed, and they are executed again only when the
\* visibility timeout passed in between.
THEOREM HandledBeforeAckCorrect == Spec => []HandledBeforeAck
<1> DEFINE Inv == Typed /\ Handled
<1>1. ASSUME Init PROVE Inv
  <2>1. Typed BY <1>1, InitTyped
  <2>2. HandledFirst BY <1>1 DEF Init, HandledFirst, Off
  <2>3. ASSUME NEW m \in Messages PROVE AccountedFor(m) /\ message[m].at = "unsent" /\ runs[m] = 0
    <3>1. message[m].at = "unsent" /\ runs[m] = 0 /\ expiries[m] = 0
      BY <1>1 DEF Init, Unsent
    <3>2. Pending(m) = {} BY <1>1 DEF Init, Off, Pending
    <3>3. Offered(m) = 1 BY <3>1 DEF Offered
    <3> QED BY <3>1, <3>2, <3>3, FS_EmptySet DEF AccountedFor
  <2>4. Accounted BY <2>3 DEF Accounted, AccountedFor
  <2>5. HandledBeforeAck
    <3>1. \A m \in Messages : expiries[m] \in Nat BY <2>1, AccountNumbers
    <3> QED BY <2>3, <3>1 DEF HandledBeforeAck
  <2> QED BY <2>1, <2>2, <2>4, <2>5 DEF Handled
<1>2. ASSUME Inv, [Next]_vars PROVE Inv'
  <2>1. Typed' BY <1>2, NextTyped
  <2>2. CASE \/ \E s \in Servers : Manage(s)
             \/ HandlerStep \/ Crash \/ UNCHANGED vars
             \/ \E l \in Listeners : LoopHead(l) \/ ReceiveNone(l) \/ ListenerDies(l)
    <3>1. UNCHANGED queueVars /\ \A l \in Listeners : Calm(l) BY <1>2, <2>2, CalmSteps
    <3> QED BY <1>2, <2>1, <3>1, CalmHandled
  <2>3. CASE \E l \in Listeners : ReceiveSome(l) \/ ReceiveFails(l) \/ Record(l) \/ Execute(l) \/ Ack(l)
    BY <1>2, <2>1, <2>3, ReceiveHandled, ReceiveFailsHandled, RecordHandled, ExecuteHandled,
       AckHandled
  <2>4. CASE \E m \in Messages : Expire(m) \/ \E q \in Queues : Send(m, q)
    BY <1>2, <2>1, <2>4, OfferHandled
  <2> QED BY <1>2, <2>2, <2>3, <2>4 DEF Next, ListenerStep
<1>3. Inv => HandledBeforeAck BY DEF Handled
<1> HIDE DEF Inv
<1> QED BY <1>1, <1>2, <1>3, PTL DEF Spec

-----------------------------------------------------------------------------
(* Settled servers are served *)

\* The inductive invariant: what the handlers, the registry and the stages of
\* a start or a stop keep, and the settled servers.
Serving == UniqueEndpoints /\ HandlerKnown /\ RegistryKnown /\ Stages /\ AllServed

\* The types of what the proofs below reason about.
LEMMA ServingTypes ==
  ASSUME Typed
  PROVE  /\ row \in [Servers -> RowType] /\ settled \subseteq Servers
         /\ runtime \in [Servers -> RuntimeType]
         /\ route \in [Endpoints -> Servers \cup {None}]
         /\ threads \in [Servers -> SUBSET Listeners]
         /\ handler \in HandlerType /\ listener \in [Listeners -> ListenerType]
         /\ None \notin Servers
BY ConfigsAssumption DEF Typed, ApiTypes, RegistryTypes, HandlerTypes, ListenerTypes

\* A listener that goes on polling keeps its server, queue and version.
Keeps(l) ==
  listener[l].at # "off" /\ ~listener[l].stop =>
    /\ listener'[l].server = listener[l].server /\ listener'[l].queue = listener[l].queue
    /\ listener'[l].version = listener[l].version
    /\ ~listener'[l].stop /\ listener'[l].at # "off"

\* A server is served as before when neither its row nor its part of the
\* registry changes and its listeners keep what they are.
LEMMA ServedKept ==
  ASSUME Typed, UniqueEndpoints, RegistryKnown, NEW s \in Servers, Served(s),
         row'[s] = row[s], runtime'[s] = runtime[s], threads'[s] = threads[s],
         \A e \in Endpoints : route'[e] = s <=> route[e] = s,
         \A l \in threads[s] : Keeps(l)
  PROVE  Served(s)'
<1>1. ASSUME Active(s) PROVE Served(s)'
  <2>1. /\ runtime[s] = Snapshot(s) /\ route[row[s].endpoint] = s
        /\ \A l \in threads[s] : listener[l].server = s /\ listener[l].version = row[s].version
        /\ \A q \in row[s].queues : \E l \in threads[s] : listener[l].queue = q
        /\ Cardinality(threads[s]) = Cardinality(row[s].queues)
    BY <1>1 DEF Served
  <2>2. row[s].endpoint \in Endpoints BY <1>1 DEF UniqueEndpoints, Active
  <2>3. Snapshot(s)' = Snapshot(s) BY DEF Snapshot
  <2>4. \A l \in threads[s] :
          /\ listener'[l].server = listener[l].server /\ listener'[l].queue = listener[l].queue
          /\ listener'[l].version = listener[l].version
    BY DEF RegistryKnown, Keeps
  <2>5. Active(s)' BY <1>1 DEF Active, Stored
  <2> QED BY <2>1, <2>2, <2>3, <2>4, <2>5 DEF Served
<1>2. ASSUME ~Active(s) PROVE Served(s)'
  <2>1. Unserved(s) BY <1>2 DEF Served
  <2>2. Unserved(s)' BY <2>1 DEF Unserved
  <2>3. ~Active(s)' BY <1>2 DEF Active, Stored
  <2> QED BY <2>2, <2>3 DEF Served
<1> QED BY <1>1, <1>2

\* Threads keep listening for their server as long as they go on.
LEMMA RegistryKept ==
  ASSUME Typed, RegistryKnown, UNCHANGED registryVars, \A l \in Listeners : Keeps(l)
  PROVE  RegistryKnown'
<1>1. UNCHANGED <<runtime, route, threads>> /\ \A s \in Servers : threads[s] \subseteq Listeners
  BY ServingTypes DEF registryVars
<1>2. \A e \in Endpoints : route'[e] # None => runtime'[route'[e]].endpoint = e
  BY <1>1 DEF RegistryKnown
<1>3. ASSUME NEW s \in Servers, NEW l \in threads[s]
      PROVE  listener'[l].server = s /\ ~listener'[l].stop /\ listener'[l].at # "off"
  <2>1. listener[l].server = s /\ ~listener[l].stop /\ listener[l].at # "off"
    BY DEF RegistryKnown
  <2> QED BY <1>1, <2>1 DEF Keeps
<1> QED BY <1>1, <1>2, <1>3 DEF RegistryKnown

\* Steps of the listeners and of the broker leave the servers as they are.
LEMMA QuietServing ==
  ASSUME Typed, Serving, UNCHANGED <<row, settled, handler>>, UNCHANGED registryVars,
         \A l \in Listeners : Keeps(l)
  PROVE  Serving'
<1>0. /\ UNCHANGED <<runtime, route, threads>> /\ settled \subseteq Servers
      /\ \A s \in Servers : threads[s] \subseteq Listeners
      /\ handler.started \subseteq Listeners
  <2>1. handler \in HandlerType BY ServingTypes
  <2>2. handler.started \subseteq Listeners BY <2>1 DEF HandlerType
  <2> QED BY <2>2, ServingTypes DEF registryVars
<1>1. UniqueEndpoints' BY DEF Serving, UniqueEndpoints, Stored
<1>2. HandlerKnown' BY DEF Serving, HandlerKnown, Busy, Starting, Active, Stored
<1>3. RegistryKnown' BY RegistryKept DEF Serving
<1>4. Stages'
  <2> DEFINE s == handler.server
  <2>1. (handler.at = "join")' => Unserved(s)' BY <1>0 DEF Serving, Stages, Unserved
  <2>2. ASSUME handler.at = "listen"
        PROVE  /\ runtime'[s] = Snapshot(s)' /\ route'[row'[s].endpoint] = s /\ threads'[s] = {}
               /\ handler'.pending \subseteq row'[s].queues
               /\ \A l \in handler'.started :
                    /\ listener'[l].server = s /\ listener'[l].version = row'[s].version
                    /\ ~listener'[l].stop /\ listener'[l].at # "off"
               /\ \A q \in row'[s].queues \ handler'.pending :
                    \E l \in handler'.started : listener'[l].queue = q
               /\ IsFiniteSet(handler'.started)
               /\ Cardinality(handler'.started) + Cardinality(handler'.pending)
                    = Cardinality(row'[s].queues)
    <3>1. /\ runtime[s] = Snapshot(s) /\ route[row[s].endpoint] = s /\ threads[s] = {}
          /\ handler.pending \subseteq row[s].queues
          /\ \A l \in handler.started :
               /\ listener[l].server = s /\ listener[l].version = row[s].version
               /\ ~listener[l].stop /\ listener[l].at # "off"
          /\ \A q \in row[s].queues \ handler.pending :
               \E l \in handler.started : listener[l].queue = q
          /\ IsFiniteSet(handler.started)
          /\ Cardinality(handler.started) + Cardinality(handler.pending)
               = Cardinality(row[s].queues)
      BY <2>2 DEF Serving, Stages
    <3>2. Snapshot(s)' = Snapshot(s) BY DEF Snapshot
    <3>3. \A l \in handler.started :
            /\ listener'[l].server = listener[l].server /\ listener'[l].queue = listener[l].queue
            /\ listener'[l].version = listener[l].version
            /\ ~listener'[l].stop /\ listener'[l].at # "off"
      BY <1>0, <3>1 DEF Keeps
    <3> QED BY <1>0, <3>1, <3>2, <3>3
  <2> QED BY <2>1, <2>2 DEF Stages
<1>5. AllServed'
  <2>1. ASSUME NEW t \in settled PROVE Served(t)'
    <3>1. t \in Servers /\ Served(t) BY <1>0 DEF Serving, AllServed
    <3>2. \A l \in threads[t] : Keeps(l) BY <1>0, <3>1
    <3> QED BY <1>0, <3>1, <3>2, ServedKept DEF Serving
  <2> QED BY <2>1 DEF AllServed
<1> QED BY <1>1, <1>2, <1>3, <1>4, <1>5 DEF Serving

\* A listener's steps keep what it is; it ends only when it was told to.
LEMMA ListenerKeeps ==
  ASSUME Typed, NEW l \in Listeners, ListenerStep(l)
  PROVE  \A k \in Listeners : Keeps(k)
<1>0. listener \in [Listeners -> ListenerType] BY ServingTypes
<1>1. ASSUME NEW at, at # "off", Move(l, at) PROVE \A k \in Listeners : Keeps(k)
  <2> DEFINE new == [listener[l] EXCEPT !.at = at]
  <2>1. /\ new.server = listener[l].server /\ new.queue = listener[l].queue
        /\ new.version = listener[l].version /\ new.stop = listener[l].stop /\ new.at = at
    BY <1>0 DEF ListenerType
  <2>2. listener' = [listener EXCEPT ![l] = new] BY <1>1 DEF Move
  <2> HIDE DEF new
  <2> QED BY <1>0, <1>1, <2>1, <2>2 DEF Keeps
<1>2. ASSUME NEW at, at # "off", NEW b,
             listener' = [listener EXCEPT ![l].at = at, ![l].batch = b]
      PROVE  \A k \in Listeners : Keeps(k)
  <2> DEFINE new == [listener[l] EXCEPT !.at = at, !.batch = b]
  <2>1. /\ new.server = listener[l].server /\ new.queue = listener[l].queue
        /\ new.version = listener[l].version /\ new.stop = listener[l].stop /\ new.at = at
    BY <1>0 DEF ListenerType
  <2>2. listener' = [listener EXCEPT ![l] = new] BY <1>2
  <2> HIDE DEF new
  <2> QED BY <1>0, <1>2, <2>1, <2>2 DEF Keeps
<1>3. CASE LoopHead(l)
  <2>1. CASE listener[l].stop
    <3>1. listener' = [listener EXCEPT ![l] = Off] BY <1>3, <2>1 DEF LoopHead
    <3> QED BY <1>0, <2>1, <3>1 DEF Keeps
  <2>2. CASE ~listener[l].stop BY <1>1, <1>3, <2>2 DEF LoopHead
  <2> QED BY <2>1, <2>2
<1>4. CASE ReceiveNone(l) \/ ReceiveFails(l) BY <1>1, <1>4 DEF ReceiveNone, ReceiveFails
<1>5. CASE ReceiveSome(l) BY <1>2, <1>5 DEF ReceiveSome
<1>6. CASE Record(l) BY <1>1, <1>6 DEF Record
<1>7. CASE Execute(l) \/ ListenerDies(l) BY <1>1, <1>7 DEF Execute, ListenerDies
<1>8. CASE Ack(l) BY <1>2, <1>8 DEF Ack, Rest
<1> QED BY <1>3, <1>4, <1>5, <1>6, <1>7, <1>8 DEF ListenerStep

\* A step that touches the row and the registry of one server only leaves the
\* others served.
LEMMA OthersServed ==
  ASSUME Typed, Serving, NEW s \in Servers,
         \A t \in Servers \ {s} :
           row'[t] = row[t] /\ runtime'[t] = runtime[t] /\ threads'[t] = threads[t],
         \A t \in Servers \ {s} : \A e \in Endpoints : route'[e] = t <=> route[e] = t,
         \A t \in Servers \ {s} : \A l \in threads[t] : Keeps(l)
  PROVE  \A t \in settled \ {s} : Served(t)'
<1> SUFFICES ASSUME NEW t \in settled \ {s} PROVE Served(t)' OBVIOUS
<1>1. t \in Servers \ {s} /\ Served(t) BY ServingTypes DEF Serving, AllServed
<1> QED BY <1>1, ServedKept DEF Serving

\* A call starts with nothing done and takes its server from the settled.
LEMMA CallFacts ==
  ASSUME NEW op, NEW s, Call(op, s)
  PROVE  /\ handler'.op = op /\ handler'.server = s /\ handler'.at = "begin"
         /\ handler'.started = {} /\ handler'.todo = {} /\ settled' = settled \ {s}
BY DEF Call, Idle

\* What a call keeps, given the row it was made for: a start is called for an
\* active server, a stop for an inactive one.
LEMMA CallServing ==
  ASSUME Typed, Serving, NEW s \in Servers, NEW op \in {"start", "stop", "delete"}, Call(op, s),
         UNCHANGED registryVars, UNCHANGED listener, UniqueEndpoints',
         \A t \in Servers \ {s} : row'[t] = row[t],
         op = "start" => row'[s].state = "stored" /\ row'[s].active,
         op = "stop" => ~row'[s].active
  PROVE  Serving'
<1>0. UNCHANGED <<runtime, route, threads>> /\ \A l \in Listeners : Keeps(l)
  BY DEF registryVars, Keeps
<1>1. /\ handler'.op = op /\ handler'.server = s /\ handler'.at = "begin"
      /\ handler'.started = {} /\ handler'.todo = {} /\ settled' = settled \ {s}
  BY CallFacts
<1>2. HandlerKnown' BY <1>1 DEF HandlerKnown, Busy, Starting, Active, Stored
<1>3. RegistryKnown' BY <1>0, RegistryKept DEF Serving
<1>4. Stages' BY <1>1 DEF Stages
<1>5. \A t \in Servers : \A l \in threads[t] : Keeps(l) BY <1>0, ServingTypes
<1>6. \A t \in settled \ {s} : Served(t)' BY <1>0, <1>5, OthersServed
<1>7. AllServed' BY <1>1, <1>6 DEF AllServed
<1> QED BY <1>2, <1>3, <1>4, <1>7 DEF Serving

\* A stored row has an endpoint of its own (Store).
LEMMA StoreFacts ==
  ASSUME Typed, UniqueEndpoints, NEW s \in Servers, NEW c \in Configs, NEW active \in BOOLEAN,
         Store(s, c, active)
  PROVE  /\ UniqueEndpoints' /\ \A t \in Servers \ {s} : row'[t] = row[t]
         /\ row'[s].state = "stored" /\ row'[s].active = active
<1> DEFINE new == [state |-> "stored", active |-> active, endpoint |-> c.endpoint,
                   queues |-> c.queues, version |-> edits + 1]
<1>1. row' = [row EXCEPT ![s] = new] BY DEF Store
<1>2. /\ new.state = "stored" /\ new.active = active /\ new.endpoint = c.endpoint
      /\ new.queues = c.queues
  OBVIOUS
<1>3. c.endpoint \in Endpoints /\ IsFiniteSet(c.queues)
  <2>1. c \in [endpoint : Endpoints, queues : SUBSET Queues] /\ IsFiniteSet(c.queues)
    BY ConfigsAssumption
  <2> QED BY <2>1
<1> HIDE DEF new
<1>4. row'[s] = new /\ \A t \in Servers \ {s} : row'[t] = row[t] BY <1>1, ServingTypes
<1>5. \A t \in Servers \ {s} : Stored(t) => row[t].endpoint # c.endpoint
  BY DEF Store, EndpointFree
<1>6. UniqueEndpoints' BY <1>2, <1>3, <1>4, <1>5 DEF UniqueEndpoints, Stored
<1> QED BY <1>2, <1>4, <1>6

\* The management API keeps the settled servers served.
LEMMA ManageServing == ASSUME Typed, Serving, NEW s \in Servers, Manage(s) PROVE Serving'
<1>0. row \in [Servers -> RowType] BY ServingTypes
<1>1. ASSUME NEW c \in Configs, NEW active \in BOOLEAN, Create(s, c, active) PROVE Serving'
  <2>1. /\ UniqueEndpoints' /\ \A t \in Servers \ {s} : row'[t] = row[t]
        /\ row'[s].state = "stored" /\ row'[s].active = active
    BY <1>1, StoreFacts DEF Create, Serving
  <2>2. UNCHANGED registryVars /\ UNCHANGED listener BY <1>1 DEF Create
  <2>3. CASE active
    <3>1. Call("start", s) BY <1>1, <2>3 DEF Create
    <3> QED BY <2>1, <2>2, <2>3, <3>1, CallServing
  <2>4. CASE ~active
    <3>1. /\ UNCHANGED <<handler, settled>> /\ handler = Idle /\ row[s].state = "none"
          /\ UNCHANGED <<runtime, route, threads>> /\ \A l \in Listeners : Keeps(l)
      BY <1>1, <2>2, <2>4 DEF Create, registryVars, Keeps
    <3>2. handler.at = "idle" /\ handler.op = "none" /\ handler.todo = {} BY <3>1 DEF Idle
    <3>3. HandlerKnown' BY <3>1, <3>2 DEF HandlerKnown, Busy
    <3>4. RegistryKnown' BY <2>2, <3>1, RegistryKept DEF Serving
    <3>5. Stages' BY <3>1, <3>2 DEF Stages
    <3>6. \A t \in Servers : \A l \in threads[t] : Keeps(l) BY <3>1, ServingTypes
    <3>7. \A t \in settled \ {s} : Served(t)' BY <2>1, <3>1, <3>6, OthersServed
    <3>8. ASSUME s \in settled PROVE Served(s)'
      <4>1. Served(s) /\ ~Active(s) BY <3>1, <3>8 DEF Serving, AllServed, Active, Stored
      <4>2. Unserved(s)' BY <3>1, <4>1 DEF Served, Unserved
      <4>3. ~Active(s)' BY <2>1, <2>4 DEF Active
      <4> QED BY <4>2, <4>3 DEF Served
    <3>9. AllServed' BY <3>1, <3>7, <3>8 DEF AllServed
    <3> QED BY <2>1, <3>3, <3>4, <3>5, <3>9 DEF Serving
  <2> QED BY <2>3, <2>4
<1>2. ASSUME NEW c \in Configs, NEW active \in BOOLEAN, Update(s, c, active) PROVE Serving'
  <2>1. /\ UniqueEndpoints' /\ \A t \in Servers \ {s} : row'[t] = row[t]
        /\ row'[s].state = "stored" /\ row'[s].active = active
    BY <1>2, StoreFacts DEF Update, Serving
  <2>2. UNCHANGED registryVars /\ UNCHANGED listener BY <1>2 DEF Update
  <2>3. CASE active
    <3>1. Call("start", s) BY <1>2, <2>3 DEF Update
    <3> QED BY <2>1, <2>2, <2>3, <3>1, CallServing
  <2>4. CASE ~active
    <3>1. Call("stop", s) BY <1>2, <2>4 DEF Update
    <3> QED BY <2>1, <2>2, <2>4, <3>1, CallServing
  <2> QED BY <2>3, <2>4
<1>3. ASSUME NEW active \in BOOLEAN, SetActive(s, active) PROVE Serving'
  <2> DEFINE new == [row[s] EXCEPT !.active = active]
  <2>1. /\ new.state = row[s].state /\ new.active = active
        /\ new.endpoint = row[s].endpoint /\ new.queues = row[s].queues
    BY <1>0 DEF RowType
  <2>2. row' = [row EXCEPT ![s] = new] /\ row[s].state = "stored" BY <1>3 DEF SetActive, Stored
  <2> HIDE DEF new
  <2>3. /\ \A t \in Servers \ {s} : row'[t] = row[t]
        /\ row'[s].state = "stored" /\ row'[s].active = active
        /\ row'[s].endpoint = row[s].endpoint /\ row'[s].queues = row[s].queues
    BY <1>0, <2>1, <2>2
  <2>4. UniqueEndpoints' BY <2>2, <2>3 DEF Serving, UniqueEndpoints, Stored
  <2>5. UNCHANGED registryVars /\ UNCHANGED listener BY <1>3 DEF SetActive
  <2>6. CASE active
    <3>1. Call("start", s) BY <1>3, <2>6 DEF SetActive
    <3> QED BY <2>3, <2>4, <2>5, <2>6, <3>1, CallServing
  <2>7. CASE ~active
    <3>1. Call("stop", s) BY <1>3, <2>7 DEF SetActive
    <3> QED BY <2>3, <2>4, <2>5, <2>7, <3>1, CallServing
  <2> QED BY <2>6, <2>7
<1>4. ASSUME Delete(s) PROVE Serving'
  <2>1. UNCHANGED row /\ UNCHANGED registryVars /\ UNCHANGED listener /\ Call("delete", s)
    BY <1>4 DEF Delete
  <2>2. UniqueEndpoints' BY <2>1 DEF Serving, UniqueEndpoints, Stored
  <2> QED BY <2>1, <2>2, CallServing
<1> QED BY <1>1, <1>2, <1>3, <1>4 DEF Manage, Activate, Deactivate

\* A restart leaves nothing of the registry and settles the inactive servers.
LEMMA CrashServing == ASSUME Typed, Serving, Crash PROVE Serving'
<1>1. /\ handler'.op = "boot" /\ handler'.at = "boot" /\ handler'.started = {}
      /\ handler'.todo = {s \in Servers : Active(s)}
  BY DEF Crash, Idle
<1>2. /\ UNCHANGED row /\ runtime' = [s \in Servers |-> NoRuntime]
      /\ route' = [e \in Endpoints |-> None] /\ threads' = [s \in Servers |-> {}]
      /\ settled' = {s \in Servers : ~Active(s)} /\ None \notin Servers
  BY ServingTypes DEF Crash
<1>3. \A s \in Servers : Active(s)' = Active(s) BY <1>2 DEF Active, Stored
<1>4. UniqueEndpoints' BY <1>2 DEF Serving, UniqueEndpoints, Stored
<1>5. HandlerKnown' BY <1>1, <1>2, <1>3 DEF HandlerKnown, Busy
<1>6. RegistryKnown' BY <1>2 DEF RegistryKnown
<1>7. Stages' BY <1>1 DEF Stages
<1>8. AllServed' BY <1>2, <1>3 DEF AllServed, Served, Unserved
<1> QED BY <1>4, <1>5, <1>6, <1>7, <1>8 DEF Serving

\* What the invariant says of the server a handler works on.
LEMMA BusyFacts ==
  ASSUME Typed, Serving, Busy
  PROVE  /\ handler.server \in Servers
         /\ handler.server \notin settled /\ handler.server \notin handler.todo
         /\ handler.op # "boot" => handler.todo = {}
         /\ \A s \in handler.todo : Active(s) /\ s \notin settled
BY DEF Serving, HandlerKnown

\* A handler that only goes on keeps what is known of it (Goto).
LEMMA GotoKnown ==
  ASSUME Typed, Serving, Busy, NEW at \in {"join", "failed"}, Goto(at), UNCHANGED <<row, settled>>,
         at = "join" => handler.at = "begin"
  PROVE  HandlerKnown' /\ handler'.at = at /\ handler'.server = handler.server
<1>1. handler \in HandlerType BY ServingTypes
<1>2. /\ handler'.at = at /\ handler'.op = handler.op /\ handler'.server = handler.server
      /\ handler'.todo = handler.todo /\ handler'.started = handler.started
  BY <1>1 DEF Goto, HandlerType
<1> QED BY <1>2 DEF Serving, HandlerKnown, Busy, Starting, Active, Stored

\* A handler that returns may settle its server (Return).
LEMMA ReturnKnown ==
  ASSUME Typed, Serving, Busy, NEW ok \in BOOLEAN, Return(ok),
         \A t \in Servers \ {handler.server} : row'[t] = row[t]
  PROVE  /\ HandlerKnown' /\ handler'.at \in {"idle", "boot"}
         /\ settled' = IF ok THEN settled \cup {handler.server} ELSE settled
<1>0. handler.todo \subseteq Servers
  <2>1. handler \in HandlerType BY ServingTypes
  <2> QED BY <2>1 DEF HandlerType
<1>1. settled' = IF ok THEN settled \cup {handler.server} ELSE settled BY DEF Return
<1>2. \/ handler'.at = "idle" /\ handler'.op = "none" /\ handler'.todo = {}
      \/ /\ handler'.at = "boot" /\ handler'.op = "boot" /\ handler'.todo = handler.todo
         /\ handler'.started = {}
  BY DEF Return, Idle
<1>3. \A s \in handler'.todo : Active(s)' /\ s \notin settled'
  <2>1. ASSUME NEW s \in handler.todo PROVE Active(s)' /\ s \notin settled'
    <3>1. s \in Servers \ {handler.server} /\ Active(s) /\ s \notin settled
      BY <1>0, BusyFacts
    <3> QED BY <1>1, <3>1 DEF Active, Stored
  <2> QED BY <1>2, <2>1
<1> QED BY <1>1, <1>2, <1>3 DEF HandlerKnown, Busy

\* What is left of a server when it was stopped: nothing.
LEMMA StopServing == ASSUME Typed, Serving, StopServer PROVE Serving'
<1> DEFINE s == handler.server
<1>0. /\ Busy /\ handler.at = "begin" /\ UNCHANGED <<row, settled>> /\ Goto("join")
      /\ runtime' = [runtime EXCEPT ![s] = NoRuntime] /\ route' = Unrouted(s)
      /\ threads' = [threads EXCEPT ![s] = {}]
      /\ listener' = [l \in Listeners |->
           IF l \in threads[s] THEN [listener[l] EXCEPT !.stop = TRUE] ELSE listener[l]]
  BY DEF StopServer, Busy, apiVars
<1>1. s \in Servers /\ s \notin settled BY <1>0, BusyFacts
<1>2. HandlerKnown' /\ handler'.at = "join" /\ handler'.server = s BY <1>0, GotoKnown
<1> HIDE DEF s
<1>3. /\ runtime'[s] = NoRuntime /\ threads'[s] = {}
      /\ \A t \in Servers \ {s} : runtime'[t] = runtime[t] /\ threads'[t] = threads[t]
  BY <1>0, <1>1, ServingTypes
<1>4. \A e \in Endpoints : route[e] # None => runtime[route[e]].endpoint = e
  BY DEF Serving, RegistryKnown
<1>5. \A e \in Endpoints : /\ route'[e] # s
                           /\ route'[e] \in {None, route[e]} /\ (route[e] # s => route'[e] = route[e])
  BY <1>0, <1>1, <1>4, ServingTypes DEF Unrouted
<1>6. \A t \in Servers : \A l \in threads[t] :
        /\ l \in Listeners
        /\ listener[l].server = t /\ ~listener[l].stop /\ listener[l].at # "off"
  BY ServingTypes DEF Serving, RegistryKnown
<1>7. \A t \in Servers \ {s} : \A l \in threads[t] : listener'[l] = listener[l]
  BY <1>0, <1>1, <1>6
<1>8. UniqueEndpoints' BY <1>0 DEF Serving, UniqueEndpoints, Stored
<1>9. RegistryKnown'
  <2>1. ASSUME NEW e \in Endpoints, route'[e] # None PROVE runtime'[route'[e]].endpoint = e
    <3>1. route'[e] = route[e] /\ route[e] \in Servers \ {s} BY <1>5, <2>1, ServingTypes
    <3> QED BY <1>3, <1>4, <2>1, <3>1
  <2>2. ASSUME NEW t \in Servers, NEW l \in threads'[t]
        PROVE  listener'[l].server = t /\ ~listener'[l].stop /\ listener'[l].at # "off"
    <3>1. t # s /\ l \in threads[t] BY <1>3
    <3> QED BY <1>6, <1>7, <3>1
  <2> QED BY <2>1, <2>2 DEF RegistryKnown
<1>10. Stages' BY <1>2, <1>3, <1>5 DEF Stages, Unserved
<1>11. AllServed'
  <2>1. \A t \in Servers \ {s} : \A l \in threads[t] : Keeps(l) BY <1>7 DEF Keeps
  <2>2. \A t \in Servers \ {s} : \A e \in Endpoints : route'[e] = t <=> route[e] = t
    <3>1. ASSUME NEW t \in Servers \ {s}, NEW e \in Endpoints PROVE route'[e] = t <=> route[e] = t
      BY <1>1, <1>5, ServingTypes
    <3> QED BY <3>1
  <2>3. \A t \in settled \ {s} : Served(t)' BY <1>0, <1>1, <1>3, <2>1, <2>2, OthersServed
  <2> QED BY <1>0, <1>1, <2>3 DEF AllServed
<1> QED BY <1>2, <1>8, <1>9, <1>10, <1>11 DEF Serving

\* A start that fails leaves the server unsettled.
LEMMA FailsServing == ASSUME Typed, Serving, LoadFails \/ ListenerFails PROVE Serving'
<1>0. /\ Busy /\ UNCHANGED <<row, settled>> /\ Goto("failed") /\ UNCHANGED registryVars
      /\ UNCHANGED listener
  BY DEF LoadFails, ListenerFails, Busy, apiVars
<1>1. HandlerKnown' /\ handler'.at = "failed" BY <1>0, GotoKnown
<1>2. UNCHANGED <<runtime, route, threads>> /\ \A l \in Listeners : Keeps(l)
  BY <1>0 DEF registryVars, Keeps
<1>3. UniqueEndpoints' BY <1>0 DEF Serving, UniqueEndpoints, Stored
<1>4. RegistryKnown' BY <1>0, <1>2, RegistryKept DEF Serving
<1>5. Stages' BY <1>1 DEF Stages
<1>6. AllServed'
  <2>1. handler.server \in Servers /\ handler.server \notin settled BY <1>0, BusyFacts
  <2>2. \A t \in Servers : \A l \in threads[t] : Keeps(l) BY <1>2, ServingTypes
  <2>3. \A t \in settled \ {handler.server} : Served(t)' BY <1>0, <1>2, <2>1, <2>2, OthersServed
  <2> QED BY <1>0, <2>1, <2>3 DEF AllServed
<1> QED BY <1>1, <1>3, <1>4, <1>5, <1>6 DEF Serving

\* The runtime and the route are those of the row; the endpoint is the
\* server's own, so that no other loses its route.
LEMMA RegisterServing == ASSUME Typed, Serving, Register PROVE Serving'
<1>s. Busy BY DEF Register, Busy
<1>1. PICK s \in Servers : s = handler.server /\ s \notin settled BY <1>s, BusyFacts
<1>0. /\ Busy /\ handler.at = "join" /\ Starting /\ UNCHANGED <<row, settled, threads, listener>>
      /\ runtime' = [runtime EXCEPT ![s] = Snapshot(s)]
      /\ route' = [route EXCEPT ![row[s].endpoint] = s]
      /\ handler' = [handler EXCEPT !.at = "listen", !.pending = row[s].queues]
  BY <1>1 DEF Register, Busy, apiVars
<1>2. Active(s) /\ row[s].endpoint \in Endpoints /\ IsFiniteSet(row[s].queues)
  BY <1>0, <1>1 DEF Serving, HandlerKnown, UniqueEndpoints, Active
<1>3. /\ handler'.at = "listen" /\ handler'.op = handler.op /\ handler'.server = s
      /\ handler'.todo = handler.todo /\ handler'.started = {} /\ handler'.pending = row[s].queues
  <2>1. handler \in HandlerType BY ServingTypes
  <2>2. handler.started = {} BY <1>0 DEF Serving, HandlerKnown
  <2> QED BY <1>0, <1>1, <2>1, <2>2 DEF HandlerType
<1>4. HandlerKnown'
  <2>1. (handler'.op # "boot") => handler'.todo = {}
    BY <1>3 DEF Serving, HandlerKnown
  <2> QED BY <1>0, <1>1, <1>2, <1>3, BusyFacts DEF HandlerKnown, Busy, Starting, Active, Stored
<1>5. Unserved(s) BY <1>0, <1>1 DEF Serving, Stages
<1>6. /\ runtime'[s] = Snapshot(s) /\ Snapshot(s)' = Snapshot(s)
      /\ Snapshot(s).endpoint = row[s].endpoint
      /\ \A t \in Servers \ {s} : runtime'[t] = runtime[t]
      /\ route'[row[s].endpoint] = s
      /\ \A e \in Endpoints \ {row[s].endpoint} : route'[e] = route[e]
  BY <1>0, <1>1, <1>2, ServingTypes DEF Snapshot
<1>7. UniqueEndpoints' BY <1>0 DEF Serving, UniqueEndpoints, Stored
<1>8. RegistryKnown'
  <2>1. ASSUME NEW e \in Endpoints, route'[e] # None PROVE runtime'[route'[e]].endpoint = e
    <3>1. CASE e = row[s].endpoint BY <1>6, <3>1
    <3>2. CASE e # row[s].endpoint
      <4>1. route'[e] = route[e] /\ route[e] \in Servers \ {s}
        BY <1>5, <1>6, <2>1, <3>2, ServingTypes DEF Unserved
      <4> QED BY <1>6, <2>1, <4>1 DEF Serving, RegistryKnown
    <3> QED BY <3>1, <3>2
  <2> QED BY <1>0, <2>1 DEF Serving, RegistryKnown
<1>9. Stages'
  <2>1. threads'[s] = {} BY <1>0, <1>5 DEF Unserved
  <2>2. IsFiniteSet({}) /\ Cardinality({}) = 0 /\ Cardinality(row[s].queues) \in Nat
    BY <1>2, FS_EmptySet, FS_CardinalityType
  <2>3. Cardinality({}) + Cardinality(row[s].queues) = Cardinality(row[s].queues) BY <2>2
  <2> QED BY <1>0, <1>3, <1>6, <2>1, <2>2, <2>3 DEF Stages
<1>10. AllServed'
  <2>1. \A t \in Servers : \A l \in threads[t] : Keeps(l) BY <1>0 DEF Keeps
  <2>2. ASSUME NEW t \in settled PROVE Served(t)'
    <3>1. t \in Servers \ {s} /\ Served(t) BY <1>1, ServingTypes DEF Serving, AllServed
    <3>2. CASE Active(t)
      <4>1. row[t].endpoint # row[s].endpoint /\ row[t].endpoint \in Endpoints
        BY <1>1, <1>2, <3>1, <3>2 DEF Serving, UniqueEndpoints, Active
      <4>2. route'[row[t].endpoint] = t BY <1>6, <3>1, <3>2, <4>1 DEF Served
      <4> QED BY <1>0, <1>6, <3>1, <3>2, <4>2 DEF Served, Snapshot, Active, Stored
    <3>3. CASE ~Active(t)
      <4>1. Unserved(t)' BY <1>0, <1>6, <3>1, <3>3 DEF Served, Unserved
      <4> QED BY <1>0, <3>3, <4>1 DEF Served, Active, Stored
    <3> QED BY <3>2, <3>3
  <2> QED BY <1>0, <2>2 DEF AllServed
<1> QED BY <1>4, <1>7, <1>8, <1>9, <1>10 DEF Serving

\* A listener is started on a free thread: the started and the pending ones
\* together stay as many as the bindings.
LEMMA StartServing ==
  ASSUME Typed, Serving, NEW q \in Queues, StartListener(q) PROVE Serving'
<1>s. Busy BY DEF StartListener, Busy
<1>1. PICK s \in Servers : s = handler.server /\ s \notin settled BY <1>s, BusyFacts
<1>2. /\ handler.at = "listen" /\ q \in handler.pending
      /\ UNCHANGED <<row, settled, runtime, route, threads>> /\ UNCHANGED registryVars
  BY DEF StartListener, apiVars, registryVars
<1>3. PICK l \in Free :
        /\ listener' = [listener EXCEPT ![l] =
             [Off EXCEPT !.at = "head", !.server = s, !.queue = q, !.version = runtime[s].version]]
        /\ handler' = [handler EXCEPT !.started = @ \cup {l}, !.pending = @ \ {q}]
  BY <1>1 DEF StartListener
<1>4. /\ handler'.at = "listen" /\ handler'.op = handler.op /\ handler'.server = s
      /\ handler'.todo = handler.todo /\ handler'.started = handler.started \cup {l}
      /\ handler'.pending = handler.pending \ {q}
  <2>1. handler \in HandlerType BY ServingTypes
  <2> QED BY <1>1, <1>2, <1>3, <2>1 DEF HandlerType
<1>5. /\ l \in Listeners /\ listener[l].at = "off" /\ \A t \in Servers : l \notin threads[t]
  BY <1>3 DEF Free
<1>6. /\ listener'[l].at = "head" /\ listener'[l].server = s /\ listener'[l].queue = q
      /\ listener'[l].version = runtime[s].version /\ ~listener'[l].stop
      /\ \A k \in Listeners \ {l} : listener'[k] = listener[k]
  <2> DEFINE new == [Off EXCEPT !.at = "head", !.server = s, !.queue = q,
                                !.version = runtime[s].version]
  <2>1. /\ new.at = "head" /\ new.server = s /\ new.queue = q /\ new.version = runtime[s].version
        /\ new.stop = FALSE
    BY DEF Off
  <2>2. listener' = [listener EXCEPT ![l] = new] BY <1>3
  <2> HIDE DEF new
  <2> QED BY <1>5, <2>1, <2>2, ServingTypes
<1>7. \A k \in Listeners : Keeps(k) BY <1>5, <1>6 DEF Keeps
<1>8. UniqueEndpoints' BY <1>2 DEF Serving, UniqueEndpoints, Stored
<1>9. HandlerKnown'
  BY <1>1, <1>2, <1>4 DEF Serving, HandlerKnown, Busy, Starting, Active, Stored
<1>10. RegistryKnown' BY <1>2, <1>7, RegistryKept DEF Serving
<1>11. AllServed'
  <2>1. \A t \in Servers : \A k \in threads[t] : Keeps(k) BY <1>7, ServingTypes
  <2>2. \A t \in settled \ {s} : Served(t)' BY <1>1, <1>2, <2>1, OthersServed
  <2> QED BY <1>1, <1>2, <2>2 DEF AllServed
<1>12. Stages'
  <2>1. /\ runtime[s] = Snapshot(s) /\ route[row[s].endpoint] = s /\ threads[s] = {}
        /\ handler.pending \subseteq row[s].queues
        /\ \A k \in handler.started :
             /\ listener[k].server = s /\ listener[k].version = row[s].version
             /\ ~listener[k].stop /\ listener[k].at # "off"
        /\ \A r \in row[s].queues \ handler.pending :
             \E k \in handler.started : listener[k].queue = r
        /\ IsFiniteSet(handler.started)
        /\ Cardinality(handler.started) + Cardinality(handler.pending)
             = Cardinality(row[s].queues)
    BY <1>1, <1>2 DEF Serving, Stages
  <2>2. Snapshot(s)' = Snapshot(s) /\ runtime[s].version = row[s].version
    BY <1>2, <2>1 DEF Snapshot
  <2>3. l \notin handler.started /\ handler.started \subseteq Listeners
    <3>1. handler \in HandlerType BY ServingTypes
    <3> QED BY <1>5, <2>1, <3>1 DEF HandlerType
  <2>4. \A k \in handler'.started :
          /\ listener'[k].server = s /\ listener'[k].version = row'[s].version
          /\ ~listener'[k].stop /\ listener'[k].at # "off"
    BY <1>2, <1>4, <1>6, <2>1, <2>2, <2>3
  <2>5. ASSUME NEW r \in row'[s].queues \ handler'.pending
        PROVE  \E k \in handler'.started : listener'[k].queue = r
    <3>1. CASE r = q BY <1>4, <1>6, <3>1
    <3>2. CASE r # q
      <4>1. PICK k \in handler.started : listener[k].queue = r BY <1>2, <1>4, <2>1, <2>5, <3>2
      <4> QED BY <1>4, <1>6, <2>3, <4>1
    <3> QED BY <3>1, <3>2
  <2>6. /\ IsFiniteSet(handler'.started)
        /\ Cardinality(handler'.started) + Cardinality(handler'.pending)
             = Cardinality(row'[s].queues)
    <3>1. IsFiniteSet(row[s].queues)
      <4>1. Active(s) BY <1>1, <1>2, <1>s DEF Serving, HandlerKnown
      <4> QED BY <4>1 DEF Serving, UniqueEndpoints, Active
    <3>2. IsFiniteSet(handler.pending) BY <2>1, <3>1, FS_Subset
    <3>3. /\ IsFiniteSet(handler.started \cup {l})
          /\ Cardinality(handler.started \cup {l}) = Cardinality(handler.started) + 1
      BY <2>1, <2>3, FS_AddElement
    <3>4. Cardinality(handler.pending \ {q}) = Cardinality(handler.pending) - 1
      BY <1>2, <3>2, FS_RemoveElement
    <3>5. Cardinality(handler.started) \in Nat /\ Cardinality(handler.pending) \in Nat
      BY <2>1, <3>2, FS_CardinalityType
    <3> QED BY <1>2, <1>4, <2>1, <3>3, <3>4, <3>5
  <2> QED BY <1>2, <1>4, <2>1, <2>2, <2>4, <2>5, <2>6 DEF Stages
<1> QED BY <1>8, <1>9, <1>10, <1>11, <1>12 DEF Serving

\* When all listeners are started, the server is served; only then its
\* handler returns without an error.
LEMMA StartedServing == ASSUME Typed, Serving, Started PROVE Serving'
<1>s. Busy BY DEF Started, Busy
<1>1. PICK s \in Servers : s = handler.server /\ s \notin settled BY <1>s, BusyFacts
<1>2. /\ handler.at = "listen" /\ handler.pending = {}
      /\ UNCHANGED <<row, runtime, route, listener>>
      /\ threads' = [threads EXCEPT ![s] = handler.started]
  BY <1>1 DEF Started
<1>3. threads'[s] = handler.started /\ \A t \in Servers \ {s} : threads'[t] = threads[t]
  BY <1>1, <1>2, ServingTypes
<1>4. /\ runtime[s] = Snapshot(s) /\ route[row[s].endpoint] = s
      /\ \A k \in handler.started :
           /\ listener[k].server = s /\ listener[k].version = row[s].version
           /\ ~listener[k].stop /\ listener[k].at # "off"
      /\ \A r \in row[s].queues \ handler.pending :
           \E k \in handler.started : listener[k].queue = r
      /\ IsFiniteSet(handler.started)
      /\ Cardinality(handler.started) + Cardinality(handler.pending) = Cardinality(row[s].queues)
  BY <1>1, <1>2 DEF Serving, Stages
<1>5. Active(s)' BY <1>s, <1>1, <1>2 DEF Serving, HandlerKnown, Active, Stored
<1>6. Served(s)'
  <2>1. Cardinality(handler.started) = Cardinality(row[s].queues)
    BY <1>2, <1>4, FS_EmptySet, FS_CardinalityType
  <2>2. Snapshot(s)' = Snapshot(s) BY <1>2 DEF Snapshot
  <2>3. \A r \in row[s].queues : \E k \in handler.started : listener[k].queue = r BY <1>2, <1>4
  <2> QED BY <1>2, <1>3, <1>4, <1>5, <2>1, <2>2, <2>3 DEF Served
<1>7. \A t \in settled \ {s} : Served(t)'
  <2>1. \A t \in Servers \ {s} : \A k \in threads[t] : Keeps(k) BY <1>2 DEF Keeps
  <2> QED BY <1>2, <1>3, <2>1, OthersServed
<1>8. UniqueEndpoints' BY <1>2 DEF Serving, UniqueEndpoints, Stored
<1>9. RegistryKnown' BY <1>2, <1>3, <1>4 DEF Serving, RegistryKnown
<1>10. /\ HandlerKnown' /\ handler'.at \in {"idle", "boot", "failed"}
       /\ settled' \subseteq settled \cup {s}
  <2>1. CASE Return(TRUE) BY <1>s, <1>1, <1>2, <2>1, ReturnKnown
  <2>2. CASE Goto("failed") /\ UNCHANGED settled BY <1>s, <1>2, <2>2, GotoKnown
  <2> QED BY <2>1, <2>2 DEF Started
<1>11. Stages' BY <1>10 DEF Stages
<1>12. AllServed' BY <1>6, <1>7, <1>10 DEF AllServed
<1> QED BY <1>8, <1>9, <1>10, <1>11, <1>12 DEF Serving

\* A handler that failed returns and settles nothing.
LEMMA RecoverServing == ASSUME Typed, Serving, Recover PROVE Serving'
<1>s. Busy BY DEF Recover, Busy
<1>1. PICK s \in Servers : s = handler.server /\ s \notin settled BY <1>s, BusyFacts
<1>2. /\ Return(FALSE) /\ UNCHANGED registryVars /\ UNCHANGED listener
      /\ UNCHANGED <<runtime, route, threads>>
      /\ row' = row \/ row' = [row EXCEPT ![s].active = FALSE]
  BY <1>1 DEF Recover, registryVars
<1>3. /\ \A t \in Servers \ {s} : row'[t] = row[t]
      /\ row'[s].state = row[s].state /\ row'[s].endpoint = row[s].endpoint
      /\ row'[s].queues = row[s].queues
  <2> DEFINE new == [row[s] EXCEPT !.active = FALSE]
  <2>1. row \in [Servers -> RowType] BY ServingTypes
  <2>2. new.state = row[s].state /\ new.endpoint = row[s].endpoint /\ new.queues = row[s].queues
    BY <2>1 DEF RowType
  <2>3. row' = row \/ row' = [row EXCEPT ![s] = new] BY <1>2
  <2> HIDE DEF new
  <2> QED BY <2>1, <2>2, <2>3
<1>4. HandlerKnown' /\ handler'.at \in {"idle", "boot"} /\ settled' = settled
  BY <1>s, <1>1, <1>2, <1>3, ReturnKnown
<1>5. \A l \in Listeners : Keeps(l) BY <1>2 DEF Keeps
<1>6. UniqueEndpoints'
  <2>1. \A t \in Servers : Stored(t)' = Stored(t) /\ row'[t].endpoint = row[t].endpoint
                           /\ row'[t].queues = row[t].queues
    BY <1>3 DEF Stored
  <2> QED BY <2>1 DEF Serving, UniqueEndpoints
<1>7. RegistryKnown' BY <1>2, <1>5, RegistryKept DEF Serving
<1>8. Stages' BY <1>4 DEF Stages
<1>9. AllServed'
  <2>1. \A t \in Servers : \A k \in threads[t] : Keeps(k) BY <1>5, ServingTypes
  <2>2. \A t \in settled \ {s} : Served(t)' BY <1>2, <1>3, <2>1, OthersServed
  <2> QED BY <1>1, <1>4, <2>2 DEF AllServed
<1> QED BY <1>4, <1>6, <1>7, <1>8, <1>9 DEF Serving

\* A server that was stopped or deleted is not served, and its row says so.
LEMMA StoppedServing == ASSUME Typed, Serving, Stopped PROVE Serving'
<1>s. Busy BY DEF Stopped, Busy
<1>1. PICK s \in Servers : s = handler.server /\ s \notin settled BY <1>s, BusyFacts
<1>2. /\ handler.at = "join" /\ ~Starting /\ UNCHANGED registryVars /\ UNCHANGED listener
      /\ UNCHANGED <<runtime, route, threads>>
  BY DEF Stopped, registryVars
<1>3. PICK ok \in BOOLEAN : Return(ok)
        /\ row' = IF ok /\ handler.op = "delete"
                    THEN [row EXCEPT ![s] = [NoRow EXCEPT !.state = "deleted"]] ELSE row
  BY <1>1 DEF Stopped
<1>4. /\ \A t \in Servers \ {s} : row'[t] = row[t]
      /\ ok /\ handler.op = "delete" => row'[s].state = "deleted"
      /\ ~(ok /\ handler.op = "delete") => row' = row
  <2>1. [NoRow EXCEPT !.state = "deleted"].state = "deleted" BY DEF NoRow
  <2> QED BY <1>3, <2>1, ServingTypes
<1>5. /\ HandlerKnown' /\ handler'.at \in {"idle", "boot"}
      /\ settled' = IF ok THEN settled \cup {s} ELSE settled
  BY <1>s, <1>1, <1>3, <1>4, ReturnKnown
<1>6. \A l \in Listeners : Keeps(l) BY <1>2 DEF Keeps
<1>7. UniqueEndpoints' BY <1>4 DEF Serving, UniqueEndpoints, Stored
<1>8. RegistryKnown' BY <1>2, <1>6, RegistryKept DEF Serving
<1>9. Stages' BY <1>5 DEF Stages
<1>10. AllServed'
  <2>1. \A t \in Servers : \A k \in threads[t] : Keeps(k) BY <1>6, ServingTypes
  <2>2. \A t \in settled \ {s} : Served(t)' BY <1>2, <1>4, <2>1, OthersServed
  <2>3. ASSUME ok PROVE Served(s)'
    <3>1. Unserved(s)' BY <1>1, <1>2 DEF Serving, Stages, Unserved
    <3>2. ~Active(s)'
      <4>1. CASE handler.op = "delete" BY <1>4, <2>3, <4>1 DEF Active, Stored
      <4>2. CASE handler.op # "delete"
        <5>1. handler.op = "stop"
          <6>1. handler \in HandlerType BY ServingTypes
          <6> QED BY <1>s, <1>2, <4>2, <6>1 DEF Serving, HandlerKnown, HandlerType, Starting
        <5>2. ~row[s].active BY <1>s, <1>1, <5>1 DEF Serving, HandlerKnown
        <5> QED BY <1>4, <4>2, <5>2 DEF Active
      <4> QED BY <4>1, <4>2
    <3> QED BY <3>1, <3>2 DEF Served
  <2> QED BY <1>1, <1>5, <2>2, <2>3 DEF AllServed
<1> QED BY <1>5, <1>7, <1>8, <1>9, <1>10 DEF Serving

\* The bootstrap turns to a server it has not started yet, or ends.
LEMMA BootstrapServing == ASSUME Typed, Serving, Bootstrap PROVE Serving'
<1>0. /\ handler.at = "boot" /\ UNCHANGED <<row, settled, runtime, route, threads, listener>>
      /\ UNCHANGED registryVars /\ handler \in HandlerType
  BY ServingTypes DEF Bootstrap, apiVars, registryVars
<1>1. HandlerKnown' /\ handler'.at \in {"idle", "begin"}
  <2>1. CASE handler' = Idle
    <3>1. handler'.at = "idle" /\ handler'.op = "none" /\ handler'.todo = {} BY <2>1 DEF Idle
    <3> QED BY <3>1 DEF HandlerKnown, Busy
  <2>2. ASSUME NEW s \in handler.todo,
               handler' = [handler EXCEPT !.at = "begin", !.server = s, !.todo = @ \ {s}]
        PROVE  HandlerKnown' /\ handler'.at \in {"idle", "begin"}
    <3>1. /\ handler'.at = "begin" /\ handler'.op = handler.op /\ handler'.server = s
          /\ handler'.todo = handler.todo \ {s} /\ handler'.started = handler.started
      BY <1>0, <2>2 DEF HandlerType
    <3>2. s \in Servers BY <1>0 DEF HandlerType
    <3>3. /\ handler.op = "boot" /\ handler.started = {}
          /\ \A t \in handler.todo : Active(t) /\ t \notin settled
      BY <1>0, <2>2 DEF Serving, HandlerKnown
    <3> QED BY <1>0, <3>1, <3>2, <3>3 DEF HandlerKnown, Busy, Starting, Active, Stored
  <2> QED BY <2>1, <2>2 DEF Bootstrap
<1>2. \A l \in Listeners : Keeps(l) BY <1>0 DEF Keeps
<1>3. UniqueEndpoints' BY <1>0 DEF Serving, UniqueEndpoints, Stored
<1>4. RegistryKnown' BY <1>0, <1>2, RegistryKept DEF Serving
<1>5. Stages' BY <1>1 DEF Stages
<1>6. AllServed'
  <2>1. ASSUME NEW t \in settled PROVE Served(t)'
    <3>1. t \in Servers /\ Served(t) BY ServingTypes DEF Serving, AllServed
    <3>2. \A l \in threads[t] : Keeps(l) BY <1>2, <3>1, ServingTypes
    <3> QED BY <1>0, <3>1, <3>2, ServedKept DEF Serving
  <2> QED BY <1>0, <2>1 DEF AllServed
<1> QED BY <1>1, <1>3, <1>4, <1>5, <1>6 DEF Serving

\* Between handlers, a server whose last handler returned without an error is
\* served as its committed row says: under its endpoint, with that
\* configuration and one listener per binding, or not at all.
THEOREM SettledIsServedCorrect == Spec => []SettledIsServed
<1> DEFINE Inv == Typed /\ Serving
<1>1. ASSUME Init PROVE Inv
  <2>1. Typed /\ None \notin Servers BY <1>1, InitTyped, ServingTypes
  <2>2. /\ row = [s \in Servers |-> NoRow] /\ runtime = [s \in Servers |-> NoRuntime]
        /\ route = [e \in Endpoints |-> None] /\ threads = [s \in Servers |-> {}]
        /\ handler = Idle /\ settled = Servers
    BY <1>1 DEF Init
  <2>3. \A s \in Servers : ~Stored(s) BY <2>2 DEF Stored, NoRow
  <2>4. handler.at = "idle" /\ handler.op = "none" /\ handler.todo = {} BY <2>2 DEF Idle
  <2>5. UniqueEndpoints BY <2>3 DEF UniqueEndpoints
  <2>6. HandlerKnown BY <2>4 DEF HandlerKnown, Busy
  <2>7. RegistryKnown BY <2>2 DEF RegistryKnown
  <2>8. Stages BY <2>4 DEF Stages
  <2>9. AllServed BY <2>1, <2>2, <2>3 DEF AllServed, Served, Active, Unserved
  <2> QED BY <2>1, <2>5, <2>6, <2>7, <2>8, <2>9 DEF Serving
<1>2. ASSUME Inv, [Next]_vars PROVE Inv'
  <2>1. Typed' BY <1>2, NextTyped
  <2>2. CASE \E s \in Servers : Manage(s) BY <1>2, <2>1, <2>2, ManageServing
  <2>3. CASE HandlerStep
    <3>1. Serving'
      BY <1>2, <2>3, StopServing, FailsServing, RegisterServing, StartServing, StartedServing,
         RecoverServing, StoppedServing, BootstrapServing DEF HandlerStep
    <3> QED BY <2>1, <3>1
  <2>4. CASE \E l \in Listeners : ListenerStep(l)
    <3>1. \A l \in Listeners : Keeps(l) BY <1>2, <2>4, ListenerKeeps
    <3>2. UNCHANGED <<row, settled, handler>> /\ UNCHANGED registryVars
      BY <2>4 DEF ListenerStep, LoopHead, ReceiveNone, ReceiveSome, ReceiveFails, Record, Execute,
                  Ack, ListenerDies, apiVars
    <3> QED BY <1>2, <2>1, <3>1, <3>2, QuietServing
  <2>5. CASE (\E m \in Messages : Expire(m) \/ \E q \in Queues : Send(m, q)) \/ UNCHANGED vars
    <3>1. UNCHANGED <<row, settled, handler, listener>> /\ UNCHANGED registryVars
      BY <2>5 DEF Expire, Send, vars, apiVars, registryVars
    <3>2. \A l \in Listeners : Keeps(l) BY <3>1 DEF Keeps
    <3> QED BY <1>2, <2>1, <3>1, <3>2, QuietServing
  <2>6. CASE Crash BY <1>2, <2>1, <2>6, CrashServing
  <2> QED BY <1>2, <2>2, <2>3, <2>4, <2>5, <2>6 DEF Next
<1>3. Inv => SettledIsServed BY DEF Serving, AllServed, SettledIsServed
<1> HIDE DEF Inv
<1> QED BY <1>1, <1>2, <1>3, PTL DEF Spec
=============================================================================
