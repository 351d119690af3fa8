---------------------------- MODULE MockServers ----------------------------
(***************************************************************************)
(* The mock servers: the rows the management API writes, the runtime       *)
(* registry that publishes a server under its endpoint and starts one      *)
(* listener thread per queue binding, the listeners, and the messages they *)
(* take from the queues.                                                   *)
(*                                                                         *)
(* The API handlers have no await and block the event loop, so at most one *)
(* of them is under way and no other code writes rows or registry; the     *)
(* listeners run between any two of its steps.  Time is left out: a join   *)
(* with a timeout may return at any moment, a visibility timeout may pass  *)
(* at any moment.                                                          *)
(***************************************************************************)
EXTENDS Integers, FiniteSets

CONSTANTS
  Servers,       \* ids of mock servers
  Endpoints,     \* their endpoints, normalised
  Queues,        \* ids of queues
  Configs,       \* endpoint and queue bindings the API may store
  Listeners,     \* threads that can be alive at a time, as numbers
  Messages,      \* messages that may be sent
  None,          \* no server, endpoint, queue or listener
  MaxBatch,      \* max_messages of the bindings
  MaxEdits,      \* bound on creations and updates
  MaxExpiries,   \* bound, per message, on visibility timeouts
  MaxFailures,   \* bound on exceptions
  MaxCrashes     \* bound on restarts of the process

ASSUME ConfigsAssumption ==
  /\ Configs \subseteq [endpoint : Endpoints, queues : SUBSET Queues]
  /\ \A c \in Configs : IsFiniteSet(c.queues)
  /\ None \notin Servers \cup Endpoints \cup Queues \cup Listeners
  /\ Listeners \subseteq Nat
ASSUME LimitsAssumption ==
  /\ MaxBatch \in Nat \ {0} /\ MaxEdits \in Nat /\ MaxExpiries \in Nat
  /\ MaxFailures \in Nat /\ MaxCrashes \in Nat

VARIABLES
  row,        \* table mock_servers with its bindings, as committed
  edits,      \* creations and updates so far; names the configurations
  runtime,    \* _servers_by_id
  route,      \* _server_ids_by_endpoint
  threads,    \* _queue_threads_by_server_id
  handler,    \* the API handler or bootstrap under way
  settled,    \* servers whose last handler returned without an error
  listener,   \* the listener threads
  message,    \* the messages in the queues
  recorded,   \* messages of a committed invocation row
  runs,       \* per message, how often commands were executed for it
  expiries,   \* per message, visibility timeouts that passed
  failures, crashes

apiVars == <<row, edits, settled>>
registryVars == <<runtime, route, threads>>
queueVars == <<message, recorded, runs, expiries>>
vars == <<row, edits, runtime, route, threads, handler, settled, listener,
          message, recorded, runs, expiries, failures, crashes>>

---------------------------------------------------------------------------
(* Rows, snapshots, threads.                                               *)

\* A server is stored once and its id is never used again.
NoRow == [state |-> "none", active |-> FALSE,
          endpoint |-> None, queues |-> {}, version |-> 0]

\* No MockRuntimeServer; of its routes, bindings and commands one has the queues
\* and the version.
NoRuntime == [endpoint |-> None, queues |-> {}, version |-> 0]

\* load_runtime_server: the row and its bindings as an object of their own.
\* The version stands for routes and commands.
Snapshot(s) ==
  [endpoint |-> row[s].endpoint, queues |-> row[s].queues, version |-> row[s].version]

Off == [at |-> "off", server |-> None, queue |-> None, version |-> 0,
        stop |-> FALSE, batch |-> {}]

Unsent == [at |-> "unsent", queue |-> None, receipt |-> None]

Idle == [op |-> "none", at |-> "idle", server |-> None,
         started |-> {}, pending |-> {}, todo |-> {}]

Stored(s) == row[s].state = "stored"
Active(s) == Stored(s) /\ row[s].active
Running(l) == listener[l].at \notin {"off", "dead"}

\* get_by_endpoint, and the unique column behind it.
EndpointFree(s, endpoint) ==
  \A t \in Servers \ {s} : Stored(t) => row[t].endpoint # endpoint

Init ==
  /\ row = [s \in Servers |-> NoRow]
  /\ edits = 0
  /\ runtime = [s \in Servers |-> NoRuntime]
  /\ route = [e \in Endpoints |-> None]
  /\ threads = [s \in Servers |-> {}]
  /\ handler = Idle
  /\ settled = Servers
  /\ listener = [l \in Listeners |-> Off]
  /\ message = [m \in Messages |-> Unsent]
  /\ recorded = {}
  /\ runs = [m \in Messages |-> 0]
  /\ expiries = [m \in Messages |-> 0]
  /\ failures = 0 /\ crashes = 0

Fail == failures < MaxFailures /\ failures' = failures + 1
NoFailure == UNCHANGED failures

---------------------------------------------------------------------------
(* The API handlers: each commits its row, then turns to the registry.     *)

Call(op, s) ==
  /\ handler' = [Idle EXCEPT !.op = op, !.server = s, !.at = "begin"]
  /\ settled' = settled \ {s}

\* What create_mock_server and update_mock_server commit, or refuse.
Store(s, c, active) ==
  /\ edits < MaxEdits /\ edits' = edits + 1
  /\ EndpointFree(s, c.endpoint)
  /\ row' = [row EXCEPT ![s] = [state |-> "stored", active |-> active,
               endpoint |-> c.endpoint, queues |-> c.queues, version |-> edits + 1]]

\* create_mock_server_api: only an active server is started.
Create(s, c, active) ==
  /\ handler = Idle /\ row[s].state = "none"
  /\ Store(s, c, active)
  /\ IF active THEN Call("start", s) ELSE UNCHANGED <<handler, settled>>
  /\ UNCHANGED <<registryVars, listener, queueVars, failures, crashes>>

\* update_mock_server_api: bindings and commands are deleted and inserted
\* again, then the runtime is restarted or stopped.
Update(s, c, active) ==
  /\ handler = Idle /\ Stored(s)
  /\ Store(s, c, active)
  /\ Call(IF active THEN "start" ELSE "stop", s)
  /\ UNCHANGED <<registryVars, listener, queueVars, failures, crashes>>

SetActive(s, active) ==
  /\ handler = Idle /\ Stored(s)
  /\ row' = [row EXCEPT ![s].active = active]
  /\ Call(IF active THEN "start" ELSE "stop", s)
  /\ UNCHANGED <<edits, registryVars, listener, queueVars, failures, crashes>>

\* activate_mock_server_api
Activate(s) == SetActive(s, TRUE)

\* deactivate_mock_server_api
Deactivate(s) == SetActive(s, FALSE)

\* delete_mock_server_api: the runtime goes first, the row follows.
Delete(s) ==
  /\ handler = Idle /\ Stored(s)
  /\ Call("delete", s)
  /\ UNCHANGED <<row, edits, registryVars, listener, queueVars, failures, crashes>>

---------------------------------------------------------------------------
(* The registry.                                                           *)

Starting == handler.op \in {"start", "boot"}

Goto(at) == handler' = [handler EXCEPT !.at = at]

\* The handler returns, or the bootstrap turns to its next server.
Return(ok) ==
  /\ settled' = IF ok THEN settled \cup {handler.server} ELSE settled
  /\ handler' = IF handler.op = "boot"
                  THEN [Idle EXCEPT !.op = "boot", !.at = "boot", !.todo = handler.todo]
                  ELSE Idle

\* Mutant: whatever the endpoint leads to is removed.
UnroutesOthers(s) ==
  [e \in Endpoints |-> IF e = runtime[s].endpoint THEN None ELSE route[e]]

\* The endpoint is given up only by the server it leads to.
Unrouted(s) ==
  [e \in Endpoints |->
     IF e = runtime[s].endpoint /\ route[e] = s THEN None ELSE route[e]]

\* Mutant: the threads are forgotten and not told to stop.
ForgetsThreads ==
  /\ handler.at = "begin"
  /\ LET s == handler.server
     IN /\ runtime' = [runtime EXCEPT ![s] = NoRuntime]
        /\ route' = Unrouted(s)
        /\ threads' = [threads EXCEPT ![s] = {}]
        /\ Goto("join")
  /\ UNCHANGED <<apiVars, listener, queueVars, failures, crashes>>

\* _stop_server_locked up to its joins; for a start, also the load before it.
StopServer ==
  /\ handler.at = "begin"
  /\ LET s == handler.server
     IN /\ runtime' = [runtime EXCEPT ![s] = NoRuntime]
        /\ route' = Unrouted(s)
        /\ threads' = [threads EXCEPT ![s] = {}]
        /\ listener' = [l \in Listeners |->
             IF l \in threads[s] THEN [listener[l] EXCEPT !.stop = TRUE] ELSE listener[l]]
        /\ Goto("join")
  /\ UNCHANGED <<apiVars, queueVars, failures, crashes>>

\* The load raises before anything was stopped.
LoadFails ==
  /\ handler.at = "begin" /\ Starting
  /\ Fail /\ Goto("failed")
  /\ UNCHANGED <<apiVars, registryVars, listener, queueVars, crashes>>

\* The joins are over, each by the end of its thread or after five seconds;
\* the new runtime and its route are published.
Register ==
  /\ handler.at = "join" /\ Starting
  /\ LET s == handler.server
     IN /\ runtime' = [runtime EXCEPT ![s] = Snapshot(s)]
        /\ route' = [route EXCEPT ![row[s].endpoint] = s]
        /\ handler' = [handler EXCEPT !.at = "listen", !.pending = row[s].queues]
  /\ UNCHANGED <<apiVars, threads, listener, queueVars, failures, crashes>>

Free == {l \in Listeners : listener[l].at = "off"
                           /\ \A s \in Servers : l \notin threads[s]}

\* One turn of the loop over the bindings, whose order is the user's.
StartListener(q) ==
  /\ handler.at = "listen" /\ q \in handler.pending
  /\ \E l \in Free :
       /\ \A k \in Free : l <= k
       /\ listener' = [listener EXCEPT ![l] =
            [Off EXCEPT !.at = "head", !.server = handler.server, !.queue = q,
                        !.version = runtime[handler.server].version]]
       /\ handler' = [handler EXCEPT !.started = @ \cup {l}, !.pending = @ \ {q}]
  /\ UNCHANGED <<apiVars, registryVars, queueVars, failures, crashes>>

\* The constructor raises, for a broker connection that is gone for instance.
ListenerFails ==
  /\ handler.at = "listen" /\ handler.pending # {}
  /\ Fail /\ Goto("failed")
  /\ UNCHANGED <<apiVars, registryVars, listener, queueVars, crashes>>

Started ==
  /\ handler.at = "listen" /\ handler.pending = {}
  /\ threads' = [threads EXCEPT ![handler.server] = handler.started]
  /\ \/ NoFailure /\ Return(TRUE)
     \/ Fail /\ Goto("failed") /\ UNCHANGED settled      \* its log record
  /\ UNCHANGED <<row, edits, runtime, route, listener, queueVars, crashes>>

\* The except branch of the handlers; the bootstrap only logs.
Recover ==
  /\ handler.at = "failed"
  /\ \/ /\ handler.op = "start" /\ NoFailure
        /\ row' = [row EXCEPT ![handler.server].active = FALSE]
     \/ handler.op = "start" /\ Fail /\ UNCHANGED row
     \/ handler.op = "boot" /\ NoFailure /\ UNCHANGED row
  /\ Return(FALSE)
  /\ UNCHANGED <<edits, registryVars, listener, queueVars, crashes>>

\* stop_server and, in a deletion, the row with its bindings and invocations;
\* or the log record of the stop fails.
Stopped ==
  /\ handler.at = "join" /\ ~Starting
  /\ \/ /\ NoFailure /\ Return(TRUE)
        /\ row' = IF handler.op = "delete"
                    THEN [row EXCEPT ![handler.server] = [NoRow EXCEPT !.state = "deleted"]]
                    ELSE row
     \/ Fail /\ Return(FALSE) /\ UNCHANGED row
  /\ UNCHANGED <<edits, registryVars, listener, queueVars, crashes>>

\* bootstrap_active_servers, one server after the other.
Bootstrap ==
  /\ handler.at = "boot"
  /\ \/ handler.todo = {} /\ handler' = Idle
     \/ \E s \in handler.todo :
          handler' = [handler EXCEPT !.at = "begin", !.server = s, !.todo = @ \ {s}]
  /\ UNCHANGED <<apiVars, registryVars, listener, queueVars, failures, crashes>>

\* The process ends, its daemon threads with it, and is started again.
Crash ==
  /\ crashes < MaxCrashes /\ crashes' = crashes + 1
  /\ runtime' = [s \in Servers |-> NoRuntime]
  /\ route' = [e \in Endpoints |-> None]
  /\ threads' = [s \in Servers |-> {}]
  /\ listener' = [l \in Listeners |-> Off]
  /\ handler' = [Idle EXCEPT !.op = "boot", !.at = "boot",
                             !.todo = {s \in Servers : Active(s)}]
  /\ settled' = {s \in Servers : ~Active(s)}
  /\ UNCHANGED <<row, edits, queueVars, failures>>

---------------------------------------------------------------------------
(* The queues: an external broker with receipts and visibility timeouts.   *)

\* Someone sends a message.
Send(m, q) ==
  /\ message[m].at = "unsent"
  /\ message' = [message EXCEPT ![m] = [Unsent EXCEPT !.at = "visible", !.queue = q]]
  /\ UNCHANGED <<apiVars, registryVars, handler, listener, recorded, runs, expiries,
                 failures, crashes>>

\* A message that was received and not deleted is offered again.
Expire(m) ==
  /\ message[m].at = "inflight" /\ expiries[m] < MaxExpiries
  /\ message' = [message EXCEPT ![m].at = "visible"]
  /\ expiries' = [expiries EXCEPT ![m] = @ + 1]
  /\ UNCHANGED <<apiVars, registryVars, handler, listener, recorded, runs, failures, crashes>>

\* What one receive call of a listener may return.
Batches(l) ==
  {B \in SUBSET {m \in Messages : message[m].at = "visible"
                                  /\ message[m].queue = listener[l].queue} :
     B # {} /\ Cardinality(B) <= MaxBatch}

Received(B, l) ==
  [m \in Messages |->
     IF m \in B THEN [message[m] EXCEPT !.at = "inflight", !.receipt = l] ELSE message[m]]

Deleted(B) ==
  [m \in Messages |-> IF m \in B THEN [message[m] EXCEPT !.at = "deleted"] ELSE message[m]]

\* Mutant: the receipts are not sent along and nothing is deleted.
DeletesNothing(l) == {{}}

\* delete_message works with the newest receipt; with an older one it may or
\* may not.
Deletable(l) ==
  {D \in SUBSET listener[l].batch :
     {m \in listener[l].batch : message[m].receipt = l} \subseteq D}

---------------------------------------------------------------------------
(* MockQueueListenerThread.run                                             *)

Move(l, at) == listener' = [listener EXCEPT ![l].at = at]

\* The test of the loop.
LoopHead(l) ==
  /\ listener[l].at = "head"
  /\ IF listener[l].stop THEN listener' = [listener EXCEPT ![l] = Off] ELSE Move(l, "receive")
  /\ UNCHANGED <<apiVars, registryVars, handler, queueVars, failures, crashes>>

\* Nothing came, and the listener sleeps and starts over.
ReceiveNone(l) ==
  /\ listener[l].at = "receive"
  /\ Move(l, "head")
  /\ UNCHANGED <<apiVars, registryVars, handler, queueVars, failures, crashes>>

\* Mutant: the batch is acknowledged when it comes, before it is recorded.
AcksFirst(l) ==
  /\ listener[l].at = "receive"
  /\ \E B \in Batches(l) :
       /\ message' = Deleted(B)
       /\ listener' = [listener EXCEPT ![l].at = "record", ![l].batch = B]
  /\ UNCHANGED <<apiVars, registryVars, handler, recorded, runs, expiries, failures, crashes>>

ReceiveSome(l) ==
  /\ listener[l].at = "receive"
  /\ \E B \in Batches(l) :
       /\ message' = Received(B, l)
       /\ listener' = [listener EXCEPT ![l].at = "record", ![l].batch = B]
  /\ UNCHANGED <<apiVars, registryVars, handler, recorded, runs, expiries, failures, crashes>>

\* Messages came, but the call raises when it extends their visibility: they
\* are dropped, the error is logged.
ReceiveFails(l) ==
  /\ listener[l].at = "receive" /\ Fail
  /\ \E B \in Batches(l) : message' = Received(B, None)
  /\ Move(l, "head")
  /\ UNCHANGED <<apiVars, registryVars, handler, recorded, runs, expiries, crashes>>

\* The invocation is inserted; its foreign key needs the row of the server,
\* and without it the insert raises outside of any try.
Record(l) ==
  /\ listener[l].at = "record"
  /\ IF Stored(listener[l].server)
       THEN recorded' = recorded \cup listener[l].batch /\ Move(l, "execute")
       ELSE Move(l, "dead") /\ UNCHANGED recorded
  /\ UNCHANGED <<apiVars, registryVars, handler, message, runs, expiries, failures, crashes>>

\* execute_mock_operations: a command that fails is logged and swallowed.
Execute(l) ==
  /\ listener[l].at = "execute"
  /\ runs' = [m \in Messages |-> IF m \in listener[l].batch THEN runs[m] + 1 ELSE runs[m]]
  /\ Move(l, "ack")
  /\ UNCHANGED <<apiVars, registryVars, handler, message, recorded, expiries, failures, crashes>>

Rest(l) == listener' = [listener EXCEPT ![l].at = "head", ![l].batch = {}]

\* ack_messages; what it cannot delete is logged and left to the broker.
Ack(l) ==
  /\ listener[l].at = "ack"
  /\ \/ NoFailure /\ \E D \in Deletable(l) : message' = Deleted(D)
     \/ Fail /\ \E D \in SUBSET listener[l].batch : message' = Deleted(D)
  /\ Rest(l)
  /\ UNCHANGED <<apiVars, registryVars, handler, recorded, runs, expiries, crashes>>

\* An exception that no try catches, of the insert or of a log record, ends
\* the thread.
ListenerDies(l) ==
  /\ listener[l].at \in {"receive", "record", "execute", "ack"} /\ Fail
  /\ Move(l, "dead")
  /\ UNCHANGED <<apiVars, registryVars, handler, queueVars, crashes>>

---------------------------------------------------------------------------
HandlerStep ==
  \/ StopServer \/ LoadFails \/ Register \/ ListenerFails \/ Started
  \/ Recover \/ Stopped \/ Bootstrap
  \/ \E q \in Queues : StartListener(q)

ListenerStep(l) ==
  \/ LoopHead(l) \/ ReceiveNone(l) \/ ReceiveSome(l) \/ ReceiveFails(l)
  \/ Record(l) \/ Execute(l) \/ Ack(l) \/ ListenerDies(l)

Manage(s) ==
  \/ \E c \in Configs, active \in BOOLEAN : Create(s, c, active) \/ Update(s, c, active)
  \/ Activate(s) \/ Deactivate(s) \/ Delete(s)

Next ==
  \/ \E s \in Servers : Manage(s)
  \/ HandlerStep
  \/ \E l \in Listeners : ListenerStep(l)
  \/ \E m \in Messages : Expire(m) \/ \E q \in Queues : Send(m, q)
  \/ Crash

Spec == Init /\ [][Next]_vars

\* A handler that was called goes on, a thread that can step does, and the
\* broker offers again what nobody deleted.  A poll may come back empty while
\* messages wait, but not for ever.
FairSpec ==
  /\ Spec
  /\ WF_vars(HandlerStep)
  /\ \A l \in Listeners : WF_vars(ListenerStep(l)) /\ SF_vars(ReceiveSome(l))
  /\ \A m \in Messages : WF_vars(Expire(m))

---------------------------------------------------------------------------
(* Properties.                                                             *)

RowType == [state : {"none", "stored", "deleted"}, active : BOOLEAN,
            endpoint : Endpoints \cup {None}, queues : SUBSET Queues, version : 0..MaxEdits]
RuntimeType == [endpoint : Endpoints \cup {None}, queues : SUBSET Queues, version : 0..MaxEdits]
HandlerType == [op : {"none", "start", "stop", "delete", "boot"},
                at : {"idle", "begin", "join", "listen", "failed", "boot"},
                server : Servers \cup {None}, started : SUBSET Listeners,
                pending : SUBSET Queues, todo : SUBSET Servers]
ListenerType == [at : {"off", "head", "receive", "record", "execute", "ack", "dead"},
                 server : Servers \cup {None}, queue : Queues \cup {None},
                 version : 0..MaxEdits, stop : BOOLEAN, batch : SUBSET Messages]
MessageType == [at : {"unsent", "visible", "inflight", "deleted"},
                queue : Queues \cup {None}, receipt : Listeners \cup {None}]

\* The rows, the registry, the handler and the threads are well formed.
TypeOK ==
  /\ row \in [Servers -> RowType] /\ edits \in 0..MaxEdits /\ settled \subseteq Servers
  /\ runtime \in [Servers -> RuntimeType] /\ route \in [Endpoints -> Servers \cup {None}]
  /\ threads \in [Servers -> SUBSET Listeners]
  /\ handler \in HandlerType /\ listener \in [Listeners -> ListenerType]
  /\ message \in [Messages -> MessageType] /\ recorded \subseteq Messages
  /\ runs \in [Messages -> Nat] /\ expiries \in [Messages -> 0..MaxExpiries]
  /\ failures \in 0..MaxFailures /\ crashes \in 0..MaxCrashes

Unserved(s) ==
  /\ runtime[s] = NoRuntime /\ threads[s] = {}
  /\ \A e \in Endpoints : route[e] # s

\* Requests and queues are served as the committed row says.
Served(s) ==
  IF Active(s)
    THEN /\ runtime[s] = Snapshot(s) /\ route[row[s].endpoint] = s
         /\ \A l \in threads[s] :
              listener[l].server = s /\ listener[l].version = row[s].version
         /\ \A q \in row[s].queues : \E l \in threads[s] : listener[l].queue = q
         /\ Cardinality(threads[s]) = Cardinality(row[s].queues)
    ELSE Unserved(s)

\* When the last handler of a server returned without an error, requests and
\* queues are served as its committed row says: an active server is reached
\* under its endpoint, with that configuration and one recorded listener per
\* binding; an inactive or deleted one is reached under none and records no
\* listener.  Failed handlers of other servers, which leave stale runtimes
\* behind, and restarts do not change that.
SettledIsServed == handler = Idle => \A s \in settled : Served(s)

\* A message leaves the queue only after its invocation was committed and its
\* commands were executed, and they are executed again only when the
\* visibility timeout passed in between, whatever fails and however many
\* generations of listeners poll the queue.
HandledBeforeAck ==
  \A m \in Messages :
    /\ message[m].at = "deleted" => m \in recorded /\ runs[m] > 0
    /\ runs[m] <= 1 + expiries[m]

\* A thread that its server does not hold any more ends (or is still being
\* recorded), unless a handler failed: no listener of an earlier configuration
\* goes on polling, although the joins give up.
OldListenersEnd ==
  \A l \in Listeners :
    []<>(~Running(l) \/ failures > 0 \/ \E s \in Servers : l \in threads[s])

Waiting(m) == message[m].at \in {"visible", "inflight"}

Attended(m) ==
  /\ handler = Idle
  /\ \E l \in Listeners : Running(l) /\ ~listener[l].stop /\ listener[l].queue = message[m].queue

\* Unless something fails, a message does not wait for ever while somebody
\* listens to its queue.
Consumed ==
  \A m \in Messages : []<>(failures > 0 \/ ~(Waiting(m) /\ Attended(m)))

\* "Listener queue avviati solo quando il server e attivo": between handlers,
\* only active servers have listeners that go on polling.
ListenersOnlyWhenActive ==
  handler = Idle =>
    \A l \in Listeners : Running(l) /\ ~listener[l].stop => Active(listener[l].server)

---------------------------------------------------------------------------
(* The parts of the inductive invariants of MockServersProofs.             *)

\* The listeners that received a message and did not yet execute for it.
Pending(m) ==
  {l \in Listeners : m \in listener[l].batch /\ listener[l].at \in {"record", "execute"}}

\* Whether a message can be received.
Offered(m) == IF message[m].at \in {"unsent", "visible"} THEN 1 ELSE 0

\* Every execution, past, pending or possible, is one of the first offer or
\* of an expiry.
Accounted ==
  \A m \in Messages :
    /\ IsFiniteSet(Pending(m))
    /\ runs[m] + Cardinality(Pending(m)) + Offered(m) <= 1 + expiries[m]

\* A batch was recorded before it is executed and executed before it is
\* acknowledged.
HandledFirst ==
  \A l \in Listeners :
    /\ listener[l].at \in {"execute", "ack"} => listener[l].batch \subseteq recorded
    /\ listener[l].at = "ack" => \A m \in listener[l].batch : runs[m] > 0

\* Two stored servers have two endpoints.
UniqueEndpoints ==
  /\ \A s, t \in Servers : s # t /\ Stored(s) /\ Stored(t) => row[s].endpoint # row[t].endpoint
  /\ \A s \in Servers : Stored(s) => row[s].endpoint \in Endpoints /\ IsFiniteSet(row[s].queues)

Busy == handler.at \notin {"idle", "boot"}

\* The server a handler works on is not settled, nor is one the bootstrap has
\* yet to start; a start is for an active server and a stop for an inactive,
\* and no listener is started before the joins.
HandlerKnown ==
  /\ handler.op # "boot" => handler.todo = {}
  /\ \A s \in handler.todo : Active(s) /\ s \notin settled
  /\ Busy => /\ handler.op # "none" /\ handler.server \in Servers
             /\ handler.server \notin settled \cup handler.todo
             /\ Starting => Active(handler.server)
             /\ handler.op = "stop" => ~row[handler.server].active
  /\ handler.at = "listen" => Starting
  /\ handler.at \in {"boot", "begin", "join"} => handler.started = {}

\* A route leads to a server that was published under it, and a recorded
\* thread listens for its server and was not told to stop.
RegistryKnown ==
  /\ \A e \in Endpoints : route[e] # None => runtime[route[e]].endpoint = e
  /\ \A s \in Servers : \A l \in threads[s] :
       listener[l].server = s /\ ~listener[l].stop /\ listener[l].at # "off"

\* After the joins nothing is left of the server; then its runtime is
\* published and its listeners started, one per binding.
Stages ==
  LET s == handler.server
  IN /\ handler.at = "join" => Unserved(s)
     /\ handler.at = "listen" =>
          /\ runtime[s] = Snapshot(s) /\ route[row[s].endpoint] = s /\ threads[s] = {}
          /\ handler.pending \subseteq row[s].queues
          /\ \A l \in handler.started :
               /\ listener[l].server = s /\ listener[l].version = row[s].version
               /\ ~listener[l].stop /\ listener[l].at # "off"
          /\ \A q \in row[s].queues \ handler.pending :
               \E l \in handler.started : listener[l].queue = q
          /\ IsFiniteSet(handler.started)
          /\ Cardinality(handler.started) + Cardinality(handler.pending)
               = Cardinality(row[s].queues)

\* Whatever the handler under way is at, the settled servers are served.
AllServed == \A s \in settled : Served(s)
===========================================================================
