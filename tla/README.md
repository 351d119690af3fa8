# Qsmith: specifications, model checking and proofs

Qsmith runs *test suites* against queues, databases and mock servers. Suites are
stored in Postgres, edited in a Streamlit console, executed by daemon threads,
started by hand, by a scheduler or by a command of another suite, and watched
live through a server-sent event stream. Beside them it serves mock APIs, listens
to queues and exports queues to tables. This directory holds TLA+ models of these
parts, the TLC configurations that check them, and proofs that TLAPS checks.

    tlc -workers 2 -config SuiteExecution.cfg MCSuiteExecution
    tlapm SuiteExecutionProofs.tla       # likewise the other *Proofs modules

`PROJECT.json` lists the components, the runs, the hazards behind the
properties, the findings, the theorems, and for each definition the source lines
it models.

## 1. The system

The API is one FastAPI process; the console is a client of it that keeps drafts
and caches per browser session. What matters for concurrency:

* API handlers are `async def` without an `await` in their bodies, so the event
  loop runs one handler at a time (a handler that joins a thread blocks all).
* Every `with managed_session()` is one READ COMMITTED transaction that commits
  at the end of the block and is rolled back by an exception. A change of an
  attribute is flushed as an UPDATE of the columns whose values changed.
* Concurrent with the handlers are the scheduler thread, one
  `TestSuiteExecutorThread` per run, the generators of the open event streams
  and the background tasks of mock responses (in a thread pool), the listeners
  of mock servers, and queue readers and writers.
* All these threads are daemons; nothing cancels them.

| component | state | operations | interacts with | hard about it |
|---|---|---|---|---|
| test suite executor | row of the run, rows of items and commands, locals of `_execute` | load, run an item, loop, finalize | event bus, run context, suites API | private transaction for a whole run, suite replaced under it, abort/teardown bookkeeping |
| run context | global, local, result, run-envelope constants, `last`, kind of the running item | bind item, write, remove, reset | commands | one mutable dict rebound around every item |
| commands | configurations, command rows | convert, check policy, execute | run context, brokers, databases | legacy spellings, contracts in three places, error paths that leave state behind |
| constant planner | table of definitions | validate declarations and uses, rebuild, resolve | suites API, mock servers, suite editor | scoping over hooks and tests that run again and again |
| event bus | history and subscribers per execution, one queue per stream | publish, subscribe, stream, unsubscribe | executor, UI | puts outside the lock, bounded queues and history |
| UI listener | status shown per execution | apply event, stop at `suite_finished` | event bus | lost terminal event |
| scheduler | table `test_suite_schedules`, due list of a poll | poll, trigger, refresh states | executor, schedules API | read-decide-write across transactions, overlap, missed dates, failures |
| schedules API | the same table | insert, update, (de)activate, delete, run-now | scheduler | edits during a poll |
| test suites API | suites, items, commands | insert, update, delete, execute | executor, planner | update replaces all items |
| suite editor | draft, what was opened | add, edit, move, delete, save, reopen | suites API | shows ids as paths and must find the ids again |
| mock servers | rows, registry by id and endpoint, listener threads, invocations | activate, deactivate, update, listen, acknowledge | brokers, commands | listeners that outlive a stop, unacknowledged batches |
| mock API dispatch | snapshot of the routes, invocations, background tasks | save, load, match, run commands before and after the response | commands | a snapshot and a context that outlive their rows |
| broker queues | dict of reader threads, export table, page of the queue | start, stop, receive, save, hide, publish, acknowledge | SQS/ElasticMQ | registry keyed inconsistently, blocking stop, batches lost or exported twice |
| datasets | row with its perimeter, caches, keys of the page | normalise, compile, resolve, edit, autosave, preview | databases | the same rules in server and editor, caches, a save behind every click |
| other (logs, JSON payloads, connections, migrations) | rows | create, read, update, delete | - | little |

Correct means, in one line each: a run's verdict is what its items justify;
setup, teardown and abort follow the suite's rules whatever fails; tests are
isolated; what others see of a run is all or nothing and agrees with what was
announced; a stream loses frames only where it must; a schedule is neither
forgotten nor served twice; stale reads do not undo a user's change; what a user
could save can be run, shown and saved again; a mock server answers as it was
saved; no message leaves a queue before it was handled or exported.

## 2. The modules

### RunLifecycle: what a run promises

Abstract specification of one run for readers of the table and listeners of the
stream: `created -> running -> announced -> committed`, or `lost` at any point
before the commit. The row is invisible until `Commit` and then already carries
the announced verdict; `Erase` is the cascade of a deleted suite.

### SuiteExecution: the executor

`_execute` as one thread with a program counter (`pc`), interleaved with
`UpdateSuite` and `DeleteSuite`.

* **Suites** (`suite`, `version`) are records of four optional hooks and a
  sequence of tests, each with a number of commands. `update_test_suite_api`
  deletes all items and inserts new ones, so every item the run holds carries
  the version it was read from, and `StoredCommands` finds nothing for an item of
  an older version. `version = 0` is a deleted suite.
* **Start**: `LoadDescription` (a session of its own), `OpenExecution` (inserts
  the private row), `LoadHook` four times and `LoadTests`: each is a query that
  sees the latest commit.
* **Items**: `StartItem`, `RunCommand`, `ItemSucceeds`, `CommandFails`,
  `ConvertFails`, `SkipHook`. `EndItem` is the common tail of `_execute_item`
  together with what its caller does with the result: row, event,
  `any_error`, `test_failed`, `first_error_message`, progress and next phase
  (`AfterItem`). A command is reduced to the scope it writes; an item fails
  with a text or with an exception whose text is empty, because
  `if not first_error_message` tells them apart.
* **Context**: `bound` says which dict `local_scope["constants"]` refers to, and
  `dict` holds, per dict, the iterations whose constants are in it. A deleted
  local constant keeps its tag, so `dict` is an upper bound. `kind` is
  `current_item_kind`; `StartItem` remembers both in `saved`, and `Unbind`, the
  `finally` of `bind_suite_item_context`, restores them when the item ends or the
  run is rolled back in the middle of it.
* **End**: `EndTest` (reset, break or next iteration), `Finalize` (row flushed,
  `suite_finished` published), `CommitRun`, and `RollBack` at any point.
* `DeleteSuite` waits while a run's transaction is open: the uncommitted
  execution row holds a key lock on the suite it references. An update of the
  suite does not touch the key and is not delayed.

### CommandConfig, ConstantPlanner, CommandRuntime: commands and constants

`CommandConfig` is `convert_to_config_command_type` with the validators of the
DTO classes (`Convert`: a dictionary in any of its legacy spellings to the record
of the DTO, or `Invalid`), the contract registry (`Contracts`) and the target
policy (`PolicyAllows`). `ConstantPlanner` is the walk of
`command_constant_definition_registry` over the sections of a suite or a mock
server: what each command declares, deletes and may refer to (`PlanSuite`,
`PlanMock`). What it demands of a command whatever came before it is `Sound`:
it converts, and it declares only into scopes its section may write. Both are
operators only.

`CommandRuntime` gives them a life: a suite is saved with one more command
(`SaveSuite`), a mock server is composed, saved and read back (`ComposeMock`,
`SaveMock`, `ReloadMock`), both through the planner and the table of definitions;
and a run in which every command is
converted again, checked and executed on the scopes of the run context; items
fail, stop their iteration and are skipped as in `SuiteExecution`. The value of a
constant is the definition that wrote it, the iteration and its shape (object,
list, empty, text), so that a reader can tell whose value it got. Tables,
datasets, queues and started suites outside are the record `world`.

### ExecutionEventBus: one execution, its publisher, its streams

`Publish` is the locked part of `publish_execution_event`, `Put` one
`put_nowait`. `Subscribe` is atomic (both statements are under the lock).
`Replay`, `EndReplay`, `Deliver` are the generator; `Disconnect` runs its
`finally`. `Applied`/`Listening` are the UI's listener, which reads until
`suite_finished`; the server ends a stream at `execution_finished`, which only
the older `SuiteExecutorThread` publishes (`SuitePublishes` and
`ExecutionPublishes` are the frames of the two kinds of run). `EndPublisher`
covers a thread that dies without announcing anything.

### Scheduler: schedules, poll, triggers, edits, runs

Two callers, the scheduler thread and the API, each with the row it read
(`held`), the row it wants (`new`) and its clock. `Commit` writes the columns
that differ (`Merged`) into whatever the row is by then; a row deleted meanwhile
raises. `StartRun` starts the thread before the schedule is written, as the code
does. A run goes through the phases of `RunLifecycle`, with two identities:
`ThreadId`, which the schedule remembers, and `RowId`, which the refresh looks up.
An exception in a trigger ends the poll (`Raise`); the loop then polls again.
`listed` (what a poll read), `log` (how each run was started) and `saved` (the
starts whose commit succeeded) are history for `NoBurst`; no action reads them.

### MockServers: rows, registry, listeners, queues

One management handler at a time (`handler`, with the operation and where it
is): it commits its `row`, then walks through `start_server` or `stop_server`.
`StopServer` pops runtime, route and threads and sets the stop events;
`Register` and `Stopped` follow the joins, which may return with threads alive;
`StartListener` is one turn of the loop over the bindings; `Started` records the
threads. `LoadFails`, `ListenerFails` and the second disjuncts of `Started`,
`Recover` and `Stopped` are the exceptions of the code (every log record is a
transaction of its own and may raise). `Crash` ends the process at any point;
`Bootstrap` then starts the active rows. Routes, commands and response of a
configuration are one `version` number; bindings are a set of distinct queues.

A listener goes `head -> receive -> record -> execute -> ack`; it is `dead` after
an exception no `try` catches, with the `batch` it held. A message is `visible`,
`inflight` with the `receipt` of its last receiver, or `deleted`; the broker
itself is external. The id of a deleted server is not used again, so a listener
of a deleted server finds no row for its invocation.

### MockDispatch: the routes of one mock server

`SaveServer`, `SetServerActive`, `DeleteServer` store rows (`RouteRow`) and set
the snapshot the registry serves (`Loaded`: normalised again and sorted by
priority, order and a random id; the rows of the commands table are read by their
order alone, so rows of equal order come in any order, `RowReads`). A server
without an entry in the registry is one
without routes: both answer 404. A request is one step up to its response:
`NotFound` or `Dispatch`, with the failures of the invocation's insert and of a
command before the response. Matching is `RouteMatches` (method, path, first
value of a query key, headers without case, body by `contains` or `equals` with
Python's `==`). Commands behind the response are a background task that runs
command by command (`PostCommand`); `RestartServer` loses the tasks. Contexts refer to dicts,
which are objects: `dicts` is the heap of the process, `CreateRunContext` makes a
new dict, and the background task gets a context of its own around the same dict,
as `serialize_run_context` and `deserialize_run_context` pass it on without a copy
(`Deserialized`). What a command reads and writes, it does through the dict its
context refers to. One dict stands for the scopes of a context, which are
created and passed on alike; the values of constants are opaque, so a value that
two contexts share and a command changes in place is out of the model. JSON values are tagged records, strings and paths sequences of
tokens, a command is its id and writes one constant. The two comparisons of bodies
are parameters; `JsonBodies` defines them for the runs (`PyEqual`, `JsonContains`,
which recurse over the values).

### DatasetPerimeter and DatasetEditor: perimeters and the pages that edit them

`DatasetPerimeter` has the server's rules as operators (`Normalize`,
`Compile`, parameter resolution, `ReachesDatabase`) and beside them the editor's
(`perimeter_service`: what a stored perimeter becomes on the page, and back).
`DatasetEditor` has the row and the schema of the tables, the session's caches
(list, columns, preview) and the keys of the perimeter page. Every click reruns
the page: an action is the click and the rendering behind it, which fills missing
keys, autosaves a draft that differs from the snapshot, and loads the preview;
each API call in it may fail (`lost`). `OtherUpdate`, `OtherDelete` and
`DropColumn` are the other clients and the database. Values are tokens for what
coercions and `json.loads` tell apart. A perimeter is followed up to the statement
that is handed to the database (`ReachesDatabase`): whether the database accepts
a literal for a column is not modelled. Streamlit's own handling of the table of
parameters is left out.

### SuiteEditor: drafts, paths and ids

The rows of a suite, the draft of a session, and what the user saw when the draft
was sent. `Build` is `draft_mapper`'s hydration (definition id to path),
`Payload` the way back; the API converts, plans and stores (`ConvertSuite`,
`PlanItems`, from `ConstantPlanner`). Actions add, edit, retype as JSON, move and
delete commands and tests; each one saves, and a save that succeeds reopens what
was stored; `Refuse` and `Lose` are saves that fail. Definition ids are numbers. A
user picks sources out of the list the form offers (`Collected`, `Options`).
Message templates are left out, and hooks are read-only: their page looks for
them under names that drafts do not have.

### QueueReaders: readers of a queue, its page and its writer

A message is unsent, visible, taken by a reader or by the page, hidden by a
reader after its save, or deleted; the broker is external. A reader is the loop
of `QueueReaderThread`: rounds that receive or do not (`Receive`,
`ReceiveRaises`, `ReceiveNothing`), `Save` of the batch, `Hide` of what was
saved, giving up after `MaxEmpty` empty rounds. `StartReceiving` looks for the
broker's id in a dict that is keyed by queue id, and so never refuses;
`StopReceiving` sets the event and `Joined` is the return of its join, until
which no other handler runs. The page sends, receives, receives and
acknowledges, acknowledges what it shows, and cleans. `Mishap` counts every call
that raises, every message that becomes visible again, and every body that is not
JSON. The stop event is tested and the poll made in one step.

### Compositions

`MCConsole` puts the dataset editor, the mock API, the suite editor and the queue
readers side by side (`part`).
These parts keep disjoint state and no step of one reads another's, so a behaviour
follows one of them while the others keep their initial state: their states add
up instead of multiplying, and nothing is lost. Where components do interact they
share a module or an operator: runs and schedules through `RunLifecycle`, the
suite editor and the runtime through the planner and the converter.

## 3. The runs

| run | module / cfg | states | shows |
|---|---|---|---|
| `suite_execution` | `MCSuiteExecution` / `SuiteExecution.cfg` | 932,876 | `TypeOK`, `VerdictSound`, `AbortIsFinal`, `TornDown`, `NoVacuousSuccess`, `LocalIsolation`, `GlobalsFrozenInTests`, `SettledWhenVisible`, and that the executor implements `RunLifecycle` |
| `event_bus` | `MCExecutionEventBus` / `ExecutionEventBus.cfg` | 329,620 | `FaithfulStream`, `OpenIsRegistered`, `StreamsEnd`, `ListenerLearns` |
| `scheduler` | `MCScheduler` / `Scheduler.cfg` | 589,149 | `NoBurst`, `NoSelfActivation`, `DueIsServed` |
| `scheduler_overlap` | `MCScheduler` / `SchedulerOverlap.cfg` | violation | `NoOverlap` does not hold |
| `mock_servers` | `MCMockServers` / `MockServers.cfg` | 532,103 | `SettledIsServed`, with failures and restarts |
| `mock_servers_queue` | `MCMockServers` / `MockServersQueue.cfg` | 347,036 | `HandledBeforeAck`, `OldListenersEnd`, `Consumed` |
| `mock_servers_orphan` | `MCMockServers` / `MockServersOrphan.cfg` | violation | `ListenersOnlyWhenActive` does not hold |
| `commands` | `MCCommandRuntime` / `Commands.cfg` | 130,480 | `RefsReadOwnValue`, `StoredSuiteCanBeSavedAgain`, `ConversionStable`, `SavedWritesAreAllowed` |
| `constants_resolvable` | `MCCommandRuntime` / `ConstantsResolvable.cfg` | violation | `RefsAlwaysResolve` does not hold |
| `mock_resave` | `MCCommandRuntime` / `MockResave.cfg` | violation | `StoredMockCanBeSavedAgain` does not hold |
| `console` | `MCConsole` / `Console.cfg` | 372,753 | datasets: `StoredIsNormal`, `AcceptedCompiles`, `OpeningShowsStored`, `PageIsSaved`; mock API: `ServedAsSaved`, `ContextIsOwn`, `RunsAsSaved`; suites: `OpeningKeepsRefs`, `OffersAccepted`, `SavedIsShown`; queue readers: `HiddenIsSaved`, `ExportedOnce`, `LatestIsStoppable`, `StopReturns` |
| `dataset_save` | `MCDatasetEditor` / `DatasetSave.cfg` | violation | `SaveStores` does not hold |

Each property of a passing run has a mutant in `PROJECT.json`: a variant of one
definition, written next to it and marked "Mutant", under which TLC finds the
property violated.

The type invariants of `ExecutionEventBus`, `Scheduler`, `MockServers` and
`QueueReaders` are proved (section 4) and in no run.

### Disagreements with the documentation

* **Overlap** (`scheduler_overlap`). `docs/stories/QSM-037-SCHEDULER.md:17`
  promises that a schedule is skipped while its suite is running. The row of a
  run is committed only when the run is over, so `has_running_execution` never
  finds one.
* **Listeners** (`mock_servers_orphan`). `docs/SPEC.md:178` says that queue
  listeners run only while their server is active. `start_server` records its
  threads after the loop that builds them, so a listener that cannot be built
  leaves the earlier ones running for an inactive server, out of reach of every
  later stop.
* **Deleted constants** (`constants_resolvable`).
  `docs/stories/QSM-039-DRIVEN-CONSTANTS.md:254` and `:257` say that a deleted
  constant cannot be used and that references always resolve. The planner checks
  every test against the hooks alone: a test may delete a result constant that a
  later test, or a hook of the next iteration, uses.
* **Saving a mock server again** (`mock_resave`). `docs/SPEC.md:164` lists the
  update of mock servers. Its definitions are inserted without deleting the old
  ones first, so a server that declares a constant cannot be saved twice.
* **Emptied perimeters** (`dataset_save`).
  `docs/stories/QSM-040-REFACTOR-UI-DATASET.md:36` says that the page saves the
  perimeter. An emptied one is sent as `None`, which `update_entity` skips.

### What the properties leave out

* `SettledIsServed` speaks about servers whose last handler returned without an
  error. A handler that fails twice (in `start_server`, and again when it sets
  `is_active` to false) leaves an active row beside an old runtime. The property
  says that this touches no other server.
* `NoVacuousSuccess`: an item recorded as success executed all of its commands
  *or* the suite was replaced while the run held the item. The second
  alternative is real: without it the property fails after one `UpdateSuite`
  between `LoadTests` and `StartItem`.
* `RefsReadOwnValue` excepts a constant whose declaration or deletion failed, and
  one that another item deleted; the second exception is the finding above.
* `NoBurst` is about dates: a run the scheduler starts is for a date after every
  earlier run of the schedule. It excepts two orders that do serve a date twice. A
  start whose commit is lost (`trigger_schedule` starts the thread before the
  schedule is written) is repeated by the next poll. And a run-now that commits
  while a list is worked off does not keep the trigger from starting the run it
  has listed.
* `DueIsServed` lets a trigger raise as often as `MaxFailures` says. A trigger that
  raised for ever would starve every schedule behind it in the list.
* `AcceptedCompiles` is about the way to the statement and not about the statement:
  a stored perimeter whose table exists is compiled and handed to the database, or
  it names a column the table has lost, or it is one that the validation lets
  through and the compiler does not: a built-in default for a parameter of a type
  that is no date; an order, or a part of a text, compared with null, a truth
  value, or a parameter without a value. The database may still refuse the
  statement, for a literal that does not fit the column.
* `ContextIsOwn` covers the dicts of a context and not what is inside of a value.
* `OpeningShowsStored` excepts perimeters that the editor cannot show: columns the
  table no longer has, a condition whose literal is missing, a list of several
  values or a text that reads as JSON (the text `12`, a quoted text, `true`, a
  list), and a default that is such a text (`12` excepted, which the server turns
  back into the text). `PageIsSaved` is about one session alone, without failures.
* `OffersAccepted` is about tests whose rows have no gap in their orders: the
  editor counts positions and the planner orders. `OpeningKeepsRefs` and
  `SavedIsShown` except `runSuite` commands, which are shown by names alone, and
  rows that share an order.
* `ExportedOnce` holds without a mishap: after any, a message may be exported
  again, which is at-least-once delivery.

### Bounds

* `SuiteExecution.cfg`: three suites: `Full` (the four hooks, an ABORT and a
  CONTINUE test), `Plain` (only `before_each`, two tests) and `Empty` (only the
  two `all` hooks, no test). At most two commands per item, `MaxVersion` 2.
  Two tests show every effect of one cycle on the next, one update makes every
  held item stale, a deletion can follow. Targets range over the whole suite,
  each test, and one test that does not exist.
* `ExecutionEventBus.cfg`: history and queues of 2, 5 frames, two
  streams: both limits are exceeded, a stream can join with the history
  overflowing, and terminal frames are dropped. Constants of the code are 500
  and 1000.
* `Scheduler.cfg`: two schedules with a window that starts late and ends, three
  runs, two failures, run-now for the first two runs, time 0..3. `MCScheduler`
  divides the run into three scenarios: one schedule that users edit, run and
  delete at any time; two schedules in one poll, of which the first may raise
  twice, or be deleted, before the second is reached; and one schedule whose runs
  go on. So a date is served, missed and served again, a start whose commit failed
  is repeated, a schedule falls behind its window, and a schedule stands behind one
  whose trigger raises. The runs need a scenario of their own only because they
  change nothing for the schedules: no row is visible while its run is under way,
  and no row has the id of a thread. When all three runs were started the instance
  is used up (`RunsUsedUp`); otherwise deadlock is checked. That an edit stores
  another plan during a trigger, and both schedules under edits, are left to the
  theorems, which hold for any set of schedules and plans. One unit of time is the
  shortest period, a minute; `Tick` waits for both callers to be idle, that is, a
  poll or a handler of a few statements takes less than a minute.
* `Commands.cfg`: about forty offers in legacy and current spellings for a suite
  of two tests and four hooks and for a mock server with a route and a queue, up
  to four commands of them at a time: declaration, deletion, use and a command
  that fails in between fit in. Seven definition ids, one of which another owner
  holds.
* `Console.cfg`: datasets: two tables, four clicks, and one mishap, a failing call
  or a step of another client (`OneMishap`); the dataset is absent or on the first
  table at the start. Four clicks open a page, edit it twice and open it again; a
  mishap comes before, between or after any of them. `OpeningShowsStored` and
  `StoredIsNormal` are proved for any number of clicks and mishaps (section 4). Mock
  API: two saves, two requests, one restart, one fault; up to two routes at a
  time, so that priorities, orders and ids all decide somewhere, and a route with two
  command rows of one order. Suites: three
  stored suites (an ordinary one, one with gaps in its orders, one with an order
  twice), two edits, one lost save, two tests.
  Queues: three messages of which one is not JSON, two readers, two empty rounds
  before giving up, one mishap of any kind. The export table takes another batch
  only while it has at most one row.
* `MockServers.cfg`: two servers, two endpoints, of which one configuration has a
  queue, three edits, two failures, one restart: a failed move to the other
  endpoint, its reuse by the other server, and a stop of the first fit in.
* `MockServersQueue.cfg`: one server, one queue, two messages in batches of up to
  two, two threads (the old and the new listener), one timeout per message, one
  failure. Restarts are in `MockServers.cfg`.
* Deadlock is not checked where a system stops by itself (a run that ended, a bus
  whose publisher is gone, a queue nobody reads) and where a bound stops it.

### Fairness

* `ExecutionEventBus`: a publisher that began to put finishes, a stream is
  iterated, and a listener that saw `suite_finished` closes its connection. No
  fairness on publishing, subscribing or failing.
* `Scheduler`: the loop polls for ever. No fairness on the clock, the users, the
  runs or failures: `DueIsServed` depends on none of them.
* `MockServers`: a handler under way goes on, every listener thread steps, the
  broker's visibility timeouts pass. A poll may return nothing while messages are
  visible (short polling samples the broker), so `Consumed` needs strong fairness
  of a poll that returns messages. No fairness on users, restarts or failures.
  `OldListenersEnd` and `Consumed` promise nothing after a failure: nothing
  restarts a listener that died.
* `QueueReaders`: every reader thread steps, and a handler goes on when its join
  returns. `StopReturns` rests on that alone; the broker owes nothing.

`OldListenersEnd`, `DueIsServed` and `StopReturns` say that something does not
last, `P ~> ~P`. They are written as `[]<>~P`, which is the same and cheaper for TLC.

The editors, the commands and the mock API have no liveness of their own: their
steps are clicks and requests, which nothing obliges anybody to make.

## 4. The proofs

Each proof module EXTENDS the module it is about and holds for every value of
the constants that satisfies the named assumptions.

| module | theorem | states |
|---|---|---|
| `SuiteExecutionProofs` | `TypeCorrect`, `VerdictCorrect`, `AbortCorrect`, `IsolationCorrect` | `Spec => []` of `TypeOK`, `VerdictSound`, `AbortIsFinal`, `LocalIsolation` |
| | `SettledCorrect`, `TornDownCorrect`, `SuccessCorrect` | `Spec => []` of `SettledWhenVisible`, `TornDown`, `NoVacuousSuccess` |
| | `GlobalsCorrect`, `LifecycleCorrect` | `Spec => GlobalsFrozenInTests`; `Spec => LifecycleRefined` (refinement of `RunLifecycle`) |
| `ExecutionEventBusProofs` | `BusTypeCorrect`, `RegisteredCorrect`, `FaithfulStreamCorrect` | `Spec => []` of `TypeOK`, `OpenIsRegistered`, `FaithfulStream` |
| `SchedulerProofs` | `SchedulerTypeCorrect`, `NoBurstCorrect` | `Spec => []` of `TypeOK`, `NoBurst` |
| | `NoSelfActivationCorrect` | `Spec => NoSelfActivation`, the action property |
| `MockServersProofs` | `MockServersTypeCorrect`, `HandledBeforeAckCorrect`, `SettledIsServedCorrect` | `Spec => []` of `TypeOK`, `HandledBeforeAck`, `SettledIsServed` |
| `QueueReadersProofs` | `QueueTypeCorrect`, `HiddenCorrect`, `StoppableCorrect`, `ExportedOnceCorrect` | `QueueSpec => []` of `QueueTypeOK`, `HiddenIsSaved`, `LatestIsStoppable`, `ExportedOnce` |
| `DatasetEditorProofs` | `NormalizeIsStable` | `Normalize(p) # Invalid => Normalize(Normalize(p)) = Normalize(p)` |
| | `StoredIsNormalCorrect`, `AcceptedCompilesCorrect` | `DatasetSpec => []` of `StoredIsNormal`, `AcceptedCompiles` |
| | `OpeningShowsStoredCorrect`, `PageIsSavedCorrect` | `NotFunctions` implies `DatasetSpec => []` of `OpeningShowsStored`, `PageIsSaved` |
| `CommandRuntimeProofs` | `ConvertIsStable` | `Convert(d) # Invalid => Convert(Convert(d)) = Convert(d)` |
| | `SpecConversionStable`, `SpecResavable` | `Spec => []` of `ConversionStable`, `StoredSuiteCanBeSavedAgain` |
| | `SpecSavedWritesAreAllowed` | `Spec => []SavedWritesAreAllowed` |
| `MockDispatchProofs` | `SpecServedAsSaved`, `SpecContextIsOwn`, `SpecRunsAsSaved` | `DispatchSpec => []` of `ServedAsSaved`, `ContextIsOwn`, `RunsAsSaved` |

### Assumptions

* `SuitesAssumption`: suites are well formed and there is one;
  `VersionAssumption`: the bound on updates is a positive number.
* `SizesAssumption`: history and queues hold at least one frame (the code has 500
  and 1000).
* `PlansAssumption`: finitely many schedules, and a window starts before it ends,
  which the API validates; `BoundsAssumption`: the bounds are numbers.
* `ConfigsAssumption`: a configuration names an endpoint and finitely many
  queues, and no id is the null value; `LimitsAssumption`: batches are not empty.
* `QueueAssumption`: the id of a queue is not that of its broker (both are
  generated), and a reader tries at least once.
* `TokensAssumption`: `None` and a raised exception differ and are no value,
  operator or mode. `TypedAssumption`: selected columns, the table of parameters and
  the contents of a group are lists, and a condition has its four parts, as the
  widgets return them.
* `NotFunctions`, a hypothesis of the two theorems about pages: `None` and an
  exception are neither dicts nor lists, which are functions here. It quantifies
  over all functions, so TLC cannot evaluate it, and it is stated where it is used.
* `NullAssumption`: `None` and a raised exception differ, and `None` is no code,
  type, context or mode; `TestsAssumption`: tests are a list, named apart from
  hooks and mock sections; `OffersAssumption`: where a DTO has a list, what was
  sent is a list and not `None` (`ListsGiven`).

* `DtosAssumption`: routes, their paths and their commands are lists, priorities
  and orders numbers, which the DTOs demand (the order of a command given inline
  may be missing); `RequestsAssumption`: the path and the query of a request are
  lists, and the names of its headers in lower case, as the ASGI server gives them.
  Nothing is assumed of the comparisons of bodies.

TLC evaluates the named ASSUMEs on the instances of section 3.

### The executor

The inductive invariant is built in layers, each proved from the ones before it.

1. `Typed == TypeOK /\ RunningRow /\ Positioned`. Types alone are not
   inductive: closing a row needs to know that there is one, and that it is the
   row of the item at `pc` (`RunningRow`); `tests[k]` needs `k` inside the list
   while the loop runs (`Positioned`).
2. `StepKinds` sums every action up by what it does to rows and verdict: append
   a running row, count a command, decide the last row, give up, or leave them
   alone. The theorems about rows use it and not the sixteen actions.
3. `Bookkept`: `any_error` and `first_error_message` describe the decided rows,
   at every point of the run and not only at its end.
4. `Aborting`: a past failure is in the current cycle and flagged in
   `test_failed`, or belongs to a test that does not abort; no row is ahead of
   `k`. When the loop goes on, `LoopStops` is false, so a flagged failure is not
   of an ABORT test.
5. `Isolated`: the base dict is empty, the iteration's dict holds constants of
   `k` only, the dict of an all-hook those of iteration 0, and `last` stems from
   the current iteration.
6. `Published`: what was announced and what is visible at each stage. Together
   with `StageSteps` every step maps to a step of `RunLifecycle` or to a stutter
   (`LifecycleStep`), which is the refinement.
7. `GlobalsFrozenInTests` rests on the first layer. `RunningRow` also says what is
   bound at each point: outside an item the kind and the dict of a new context
   (`Unbound`), inside those of the item at `pc`, with `Unbound` remembered in
   `saved`. So an item that ends, or is rolled back, leaves nothing of its kind
   behind, and the guards of the context, which read the kind, ban what they
   should.
8. `SettledWhenVisible` needs that only the last row is running and only while an
   item is executed; `TornDown` follows which rows the cycle under way has
   appended so far; `NoVacuousSuccess` relates the commands counted in the row to
   the position in the list that was read, and the list to the version it was
   read from.

### The event bus

`FaithfulStream` speaks of the frames a client got, that is yielded, is about to
replay or has in its queue. Inductive is `Streamed`, which also follows the frame
in flight between the locked part of a publication and its puts: it is newer than
all its targets got (`InFlight`); an open stream got or dropped every frame since
its first, but for the one in flight (`Covered`), so no gap opens behind it
(`NoGap`); a stream without frames waits for the first of all (`Begun`); and the
oldest frame a client got was in the history when it subscribed (`OldestGot`).
That `Subscribe` copies the history and registers the queue under one lock is what
makes `Covered` start out true.

### The scheduler

`WellFormed` says which row a caller holds at each of its steps.
`NoSelfActivation` is about the columns a caller will write: `Merged` writes only
those that differ, so it is enough that no row a trigger wants to write is active
where the row it read is not (`TriggersDoNotActivate`).

`NoBurst` compares the date of one run with the time of another, so it needs the
history of both, in three layers beside the types (`Typed`). `Timed`: the clock of a
caller at work is the present (`InTime`), and whoever moves a date, a caller or the
other one between its read and its write, moves it to one to come
(`DatesToCome`). `Planned`: every start is recorded, and a list knows of runs saved
before it (`Recorded`); the run of a transaction under way is its caller's last, of
this moment, and the transaction will move the date to one to come (`OpenStarts`);
the date of a schedule is after every run saved for it (`SavedAhead`); so is a date
listed and not yet triggered, for the runs saved before the list was read and for
those the scheduler saved since, as it has each schedule once in its list
(`ListAhead`). A start then takes its date out of the list, and whichever columns of
two rows meet in the table, the date there is after the runs that are saved.

### Mock servers

`HandledBeforeAck` needs what a listener has done of its batch at each stage
(`HandledFirst`), and an account per message: executions so far, those still to
come from batches in hand, and an offer that is open are at most one more than
the timeouts (`Accounted`, with `FiniteSetTheorems` for the cardinalities).
`Serving` describes the registry while a handler is half-way. The server it works
on is not settled, a start is for an active row and a stop for an inactive one
(`HandlerKnown`); a route leads to the server published under it and recorded
threads listen for their server (`RegistryKnown`); after the joins nothing is left
of the server, then its runtime is published and its listeners are started one per
binding (`Stages`). `AllServed`, the claim for every settled server, is disturbed
by other servers only through the endpoint they share, hence `UniqueEndpoints`.

### Queue readers

`HiddenIsSaved` needs that a reader at its hide step has its batch in the table
(`SavedFirst`); `LatestIsStoppable` that readers start in order and the dict holds
the last one started (`StartedInOrder`); `ExportedOnce` that without a mishap a message is
held by one reader at most and not yet in the table (`HeldByOne`).

### Perimeters

`NormalizeIsStable` is a lemma per level: a value coerced twice, a default, a
parameter, a condition, an item, and then the lists. Names that must not repeat
and references into the parameters go through `Named` and `IndexOf`, of which the
proof uses that they depend on the names alone, which `Normalize` keeps.
`StoredIsNormal` is inductive with the shape of the row (`NormalRow`): the editor
and the other client both store results of `Normalize`, and a failed call stores
nothing. `AcceptedCompiles` follows from it: in a perimeter that is stored, an
operator has the arguments it takes, a condition's parameter is one of the table's
and has a default of its type or a binding, so each step to the statement is taken
or one of the named cases stops it.

The pages filter lists (`Only`), by a recursive function. What it returns is proved
by induction over the positions, as the least one at which the claim would fail
(`LeastOf`), from the equation of each step (`OnlyWalks`): a list of elements that
are all kept is unchanged (`OnlyAll`), and no other element is kept (`OnlyIn`). On these rest the round trips: a condition, an item and a row of a
stored perimeter become what the page shows and then the same again
(`ConditionIsShown`, `ItemsAreShown`, `RowsAreShown`), so the page of a stored
perimeter builds that perimeter (`PageShowsStored`). With `VersionsKnown`, that no
cache holds a version newer than the row and no preview one older than its list,
this is `OpeningShowsStored`.

`PageIsSaved` needs to know what a page may hold at any time. `Saved`, inductive
while nobody else acts and nothing fails, says: the list and the columns in the
caches are those of the server (`Served`, `KeysKept`); a page that is open has
rendered (`Opened`); before the first snapshot a page has no keys, or those of a
page that failed when it was opened and that nothing the user reaches repairs
(`FirstPages`); and the payload in the snapshot, like the one the page shows, is
stored, was refused, or is empty (`SnapshotsSaved`, `PageSaved`). All renderings go through
one lemma (`RenderSaves`): the first one takes a snapshot of what is stored, a later one
stores what it takes. It needs that what was stored out of a draft is shown as that
draft (`PayloadIsShown`), and hence that what the editor has read once reads as
itself (`ReadOnce`, `RowsSettle`).

### Commands

A DTO reads each field under several keys and writes it under one. `FirstAt` and
its instances say which key wins, `BaseFields` what a dump holds, and one lemma per
DTO class (`InitConstantIsStable` and so on) that the dump, read again, yields the
same fields: the canonical key comes first, a default that was filled in is given
the second time, references, results, templates and bindings are stable in turn.
With `CodeIsStable`, no code of a dump is a legacy spelling, this is
`ConvertIsStable`.

`Saved` is inductive: what is stored are dumps, each `Sound` in its section,
because a plan with an unsound command fails in whatever section it stands
(`SuiteIsSound`, `MockIsSound`), and a draft holds offers and dumps.
`ConversionStable` follows. `StoredSuiteCanBeSavedAgain` is inductive by itself:
the suite that was saved is planned as it was then, and the definitions left to
collide with are no more than before (`OthersKeepTheirRows`); a suite without
commands is planned to nothing (`EmptySection`, by the defining equation of the
fold). `SavedWritesAreAllowed` needs to know where a run stands (`Placed`): at a
position of the order and a command of its item, the command at hand being that
one, stored and hence sound. Positions are found as the least busy one, which
exists by well-founded order (`LeastOf`). `Sound` then speaks of the scopes the
planner let it write, and `SoundIsAllowed` compares these with what
`command_policy_validator` forbids to a test.

### Mock API

`Stored` says what the rows are: routes that a client sent, each under an id of its
own; with it `served \in Registered(saved)`, the registry holds what the rows load
to. `ServedAsSaved` is inductive beside them. Its lemmas are about one route and
one request: a route's path, normalised twice, is a slash before the relative path,
while a request's path of several slashes, normalised once, is empty (`NormalIs`,
`NormalTwice`, `PathMatches`, from what `rstrip` leaves, `Stripped`); the lookups see the first value of a
parameter and the one header of a name (`QueryIs`, `HeadersFound`). So a loaded
route matches what its row asks for (`MatchesAsked`). As ids differ a sorting is
injective, hence onto (`SortedAll`): no row is lost, and the first match is of
least rank.

`ContextIsOwn` needs to know the tasks (`TaskIs`): a task belongs to a request with
an invocation, and the dict its context refers to holds what this request has
written so far. That another step keeps it so is the point: the dict of a new
request is a new object, and tasks are of different requests and refer to
different dicts (`Apart`), so a write through one (`Wrote`, `WriteIs`) leaves the
others as they are (`DictStays`). `RunsAsSaved` adds how far each request is
(`Runs`): for one of the orders in which the route's commands may come, what ran
behind the response is the first part and the task holds the rest (`Follows`).
Commands saved in ascending order keep it when they are loaded (`AscendingInline`).

### Only model-checked

* All liveness properties (`StreamsEnd`, `ListenerLearns`,
  `DueIsServed`, `OldListenersEnd`, `Consumed`, `StopReturns`): fairness is out of
  the prover's reach.
* The suite editor's `OpeningKeepsRefs`, `OffersAccepted` and `SavedIsShown`: the
  planner folds over the commands of a section with an operator of the library.
  An induction by a least counterexample, as in "Perimeters", needs the equation of
  each step. A recursive function has it; of the library's fold, whose argument is
  an operator, the provers see no more than its value for an empty section.
* `RefsReadOwnValue`: who wrote the value that a reference reads depends on what
  the planner's fold has seen of each section, command by command, and on which of
  the commands ran since: an induction over the fold as in the item above.
* That every list of routes has a sorting, so that a save is never blocked in the
  model, and what `JsonContains` computes: inductions over data, the second with
  RECURSIVE operators, beside which the prover cannot work.

## 5. What is not modelled

* The inside of other systems: SQL of tables and connections, SQS, HTTP. What a
  command does to them is one effect.
* The comparisons of rows in asserts: a comparison holds or does not; which
  constants an assert reads, and the not-empty tests, are modelled.
* Descriptions, logs, timestamps, message templates, nested assignments below a
  constant, and all layout of the console.
* In the console: the mock server pages, and those of brokers, connections, logs
  and executions, which send what a form holds.
* A command that starts another suite starts an independent run, which is an
  instance of the same model.
* Crash of the process during a run: the run leaves no row (its transaction is
  lost) and the event bus is empty after a restart, which are the initial states
  again.
* A restart of the scheduler inside one process, which only tests do.
* The suite executions API (queries and the deletion of finished executions),
  JSON payloads, migrations: no concurrency and little state of their own.

Hazards that were met while reading and have no property here:

* `execution_event_bus.py:49`: the history of every execution is kept for the
  life of the process.
* `test_suite_scheduler_service.py:164`: a trigger computes the next date from
  the window it read, and may write it over that of an edit; `:37`: it compares
  the thread's id that the schedule remembers with ids of executions.
* `scheduler_runtime.py:64`: a poll that outlives the two-second join shares the
  stop event with the thread of a restart.
* `mock_queue_listener_thread.py:109`: a failing insert of an invocation kills
  the listener, and the invocation with it (`Consumed` promises nothing then).
* `mock_runtime_dispatcher.py:210`: commands behind a response are lost in a crash.
* `command_constant_definition_registry.py:597`: definitions are rebuilt under
  runs that use the old ones.
* The exporters of tables: drop-create and insert-update are several statements
  on a table that others may read.
* `suite_editor_component.py:3756`: a failed save keeps its change in the draft;
  `:1279`: a variable that is no longer offered is replaced by the first one that
  is; `:2426`: editing a dataset constant may drop its bindings.
* The pages of the hooks and of the mock servers: the first finds no hook, the
  edit dialogs of the second raise.

## 6. Plan

Done: executor and lifecycle, event bus, scheduler, mock servers; commands,
planner and their runtime; perimeters and the dataset pages; mock API; suite
editor; queue readers.

Proved: the safety properties of the executor, the event bus, the scheduler, the
mock servers, the queue readers, the datasets and their pages, and the mock API,
the refinement of the run's lifecycle, and of commands the stability of conversion and the agreement of
planner and policy.

Open: the planner with a recursive function in place of the library's
fold, and on it the properties of the suite editor.
