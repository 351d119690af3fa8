--------------------------- MODULE SuiteExecution ---------------------------
(***************************************************************************)
(* One run of a test suite by a TestSuiteExecutorThread, interleaved with  *)
(* the API handlers that replace or delete the suite while it runs.        *)
(*                                                                         *)
(* The run is a single transaction (managed_session in _execute): its rows *)
(* are private until Commit and vanish when the thread dies.  Events leave *)
(* the process at once.  Suite items are read at the start of the run,     *)
(* the commands of an item only when the item starts; a suite update       *)
(* deletes the items the run holds and inserts new ones under new ids, so  *)
(* every item carries the version of the suite it was read from.           *)
(***************************************************************************)
EXTENDS Naturals, Sequences, FiniteSets

CONSTANTS
  Suites,      \* the suite definitions the API may store
  MaxVersion   \* how many definitions of the suite are stored at most

HookPhases == {"before_all", "before_each", "after_each", "after_all"}
HookOrder == <<"before_all", "before_each", "after_each", "after_all">>
ItemPhases == HookPhases \cup {"test"}
SuiteHooks == {"before_all", "after_all"}

\* A hook or test as stored: a hook may be absent, a test has on_failure.
HookDef == [present : BOOLEAN, commands : Nat]
TestDef == [on_failure : {"ABORT", "CONTINUE"}, commands : Nat]
SuiteDef == [hooks : [HookPhases -> HookDef], tests : Seq(TestDef)]

Dicts == {"base", "iteration", "hook"}
NoHook == [present |-> FALSE, commands |-> 0, version |-> 0]
\* The kind and the dict of a RunContext to which no item is bound.
Unbound == [kind |-> "hook", bound |-> "base"]

ASSUME SuitesAssumption == Suites \subseteq SuiteDef /\ Suites # {}
ASSUME VersionAssumption == MaxVersion \in Nat \ {0}

\* Scopes a command may write; "none" is a command that writes no constant.
\* Result constants live as long as the run, so nothing is kept of them here.
Scopes == {"none", "global", "local", "result", "runEnvelope"}

VARIABLES
  suite,       \* the stored definition of the suite
  version,     \* counts the definitions; 0 when the suite is deleted
  target,      \* the requested test (and version); test 0: the whole suite
  pc,          \* where the executor thread is
  hooks,       \* the hooks this run holds, by phase
  loaded,      \* how many of them were read, in the order of HookPhase
  tests,       \* the tests this run executes
  k,           \* the test of the current iteration
  busy,        \* an item is being executed
  todo,        \* commands of that item not yet executed
  rows,        \* suite_item_executions of the open transaction
  anyError, firstError, testFailed, executed, \* locals of _execute
  kind,        \* RunContext.current_item_kind
  bound,       \* the dict local_scope["constants"] refers to
  saved,       \* previous_kind and previous_local_vars of bind_suite_item_context
  dict,        \* per dict, the iterations whose constants it holds
  globals,     \* the items that changed global or runEnvelope constants
  last,        \* the iteration RunContext.last stems from, 0 if none
  events,      \* published for this execution, in order
  visible      \* status of the committed row, "none" if there is none

dbVars == <<suite, version, target>>
planVars == <<hooks, loaded, tests>>
loopVars == <<k, anyError, firstError, testFailed, executed>>
itemVars == <<busy, todo, kind, bound, saved>>
ctxVars == <<dict, globals, last>>
vars == <<dbVars, pc, planVars, loopVars, itemVars, ctxVars,
          rows, events, visible>>

-----------------------------------------------------------------------------
(* The items the run holds *)

Iteration(p) == IF p \in SuiteHooks THEN 0 ELSE k
Planned(p) == IF p = "test" THEN tests[k] ELSE hooks[p]
Present(p) == p \in HookPhases => hooks[p].present

\* Mutant: the last command of an item is not read.
LosesLastCommand(p) ==
  IF Planned(p).version = version /\ Planned(p).commands > 0
  THEN Planned(p).commands - 1 ELSE 0
\* get_all_by_suite_item_id: nothing is left of an item that was replaced.
StoredCommands(p) ==
  IF Planned(p).version = version THEN Planned(p).commands ELSE 0

Stamped(def, v) ==
  [i \in DOMAIN def |-> [on_failure |-> def[i].on_failure,
                         commands |-> def[i].commands, version |-> v]]

\* _resolve_tests_to_execute, for a target that exists.
Resolved(def, v) ==
  IF target.test = 0 THEN Stamped(def, v) ELSE <<Stamped(def, v)[target.test]>>

TargetExists ==
  \/ target.test = 0
  \/ target.version = version /\ target.test \in 1..Len(suite.tests)

\* hook_* and test_* events are told apart by the phase they carry.
Event(name, phase, arg, status) ==
  [name |-> name, phase |-> phase, arg |-> arg, status |-> status]
ItemEvent(name, p, status) == Event(name, p, Iteration(p), status)
\* Mutant: the progress counter starts one too low.
ProgressOffByOne(n) == Event("suite_progress", "suite", n - 1, "running")
Progress(n) == Event("suite_progress", "suite", n, "running")

OpenTransaction ==
  pc \in ItemPhases \cup {"load_hooks", "end_test", "finalize", "announced"}

-----------------------------------------------------------------------------
(* From the start of the thread to the first item *)

Init ==
  /\ suite \in Suites
  /\ version = 1
  /\ \E i \in 0..(Len(suite.tests) + 1) : target = [test |-> i, version |-> 1]
  /\ pc = "created"
  /\ hooks = [p \in HookPhases |-> NoHook]
  /\ loaded = 0 /\ tests = <<>>
  /\ k = 1 /\ anyError = FALSE /\ firstError = 0
  /\ testFailed = FALSE /\ executed = 0
  /\ busy = FALSE /\ todo = 0 /\ kind = Unbound.kind /\ bound = Unbound.bound
  /\ saved = Unbound
  /\ dict = [d \in Dicts |-> {}]
  /\ globals = {} /\ last = 0
  /\ rows = <<>> /\ events = <<>> /\ visible = "none"

\* run() reads the description in a session of its own, then _execute opens
\* the transaction of the run and looks the suite up again.
FindSuite(from, to) ==
  /\ pc = from
  /\ pc' = IF version = 0 THEN "lost" ELSE to
  /\ UNCHANGED <<dbVars, planVars, loopVars, itemVars, ctxVars,
                 rows, events, visible>>

LoadDescription == FindSuite("created", "described")

\* Inserts the row "running" (private to the transaction), creates the context.
OpenExecution == FindSuite("described", "load_hooks")

\* get_hook_by_phase, one query per phase: each sees the latest commit.
LoadHook ==
  /\ pc = "load_hooks"
  /\ loaded < Len(HookOrder)
  /\ LET p == HookOrder[loaded + 1]
         h == suite.hooks[p]
     IN hooks' = [hooks EXCEPT ![p] = [present |-> h.present,
                                       commands |-> h.commands,
                                       version |-> version]]
  /\ loaded' = loaded + 1
  /\ UNCHANGED <<dbVars, pc, tests, loopVars, itemVars, ctxVars,
                 rows, events, visible>>

\* get_all_tests_by_suite_id, _resolve_tests_to_execute, suite_started.
LoadTests ==
  /\ pc = "load_hooks"
  /\ loaded = Len(HookOrder)
  /\ IF TargetExists
     THEN /\ tests' = Resolved(suite.tests, version)
          /\ pc' = "before_all"
          /\ events' = <<Event("suite_started", "suite", 0, "running"), Progress(0)>>
     ELSE /\ pc' = "lost"
          /\ UNCHANGED <<tests, events>>
  /\ UNCHANGED <<dbVars, hooks, loaded, loopVars, itemVars, ctxVars, rows, visible>>

-----------------------------------------------------------------------------
(* _execute_item and execute_operations *)

\* Mutant: what an item changed stays changed for a test.
KeepsKind == UNCHANGED kind /\ bound' = saved.bound
\* The finally of bind_suite_item_context.
Unbind == kind' = saved.kind /\ bound' = saved.bound

\* _create_item_execution, *_started, bind_suite_item_context; the dict of an
\* all-hook is a fresh {}, the others share local_context.
StartItem(p) ==
  /\ pc = p /\ ~busy /\ Present(p)
  /\ busy' = TRUE
  /\ todo' = StoredCommands(p)
  /\ rows' = Append(rows, [phase |-> p, test |-> Iteration(p), status |-> "running",
                           done |-> 0, stuck |-> 0, blank |-> FALSE])
  /\ events' = Append(events, ItemEvent("item_started", p, "running"))
  /\ saved' = [kind |-> kind, bound |-> bound]
  /\ kind' = IF p = "test" THEN "test" ELSE "hook"
  /\ bound' = IF p \in SuiteHooks THEN "hook" ELSE "iteration"
  /\ dict' = IF p \in SuiteHooks THEN [dict EXCEPT !["hook"] = {}] ELSE dict
  /\ UNCHANGED <<dbVars, pc, planVars, loopVars, globals, last, visible>>

\* write_context_path, remove_context_path and the command policy: what a test
\* may not change.
Writable(c) == kind = "test" => c \notin {"global", "runEnvelope"}

\* What a successful write leaves behind, tagged with its writer.  A deleted
\* global constant is a change as well; deleting a local one leaves the tag.
WriteConstant(c) ==
  /\ dict' = IF c = "local" THEN [dict EXCEPT ![bound] = @ \cup {Iteration(pc)}] ELSE dict
  /\ globals' = IF c \in {"global", "runEnvelope"} THEN globals \cup {pc} ELSE globals

\* One more command row with status success.
CountCommand ==
  LET r == rows[Len(rows)]
  IN [rows EXCEPT ![Len(rows)] = [r EXCEPT !.done = r.done + 1]]

RunCommand(c) ==
  /\ busy /\ todo > 0
  /\ Writable(c)
  /\ WriteConstant(c)
  /\ todo' = todo - 1
  /\ rows' = CountCommand
  /\ events' = Append(events, ItemEvent("command_finished", pc, "success"))
  /\ UNCHANGED <<dbVars, pc, planVars, loopVars, busy, kind, bound, saved, last, visible>>

\* Mutant: a failed test skips its after_each hook.
SkipsTeardown(p, failed) ==
  CASE p = "before_all"  -> IF failed \/ tests = <<>> THEN "after_all" ELSE "before_each"
    [] p = "before_each" -> "test"
    [] p = "test"        -> IF failed THEN "end_test" ELSE "after_each"
    [] p = "after_each"  -> "end_test"
    [] p = "after_all"   -> "finalize"
\* The order of _execute; the loop over no test is left at once.
AfterItem(p, failed) ==
  CASE p = "before_all"  -> IF failed \/ tests = <<>> THEN "after_all" ELSE "before_each"
    [] p = "before_each" -> "test"
    [] p = "test"        -> "after_each"
    [] p = "after_each"  -> "end_test"
    [] p = "after_all"   -> "finalize"

\* Mutant: the message of the last failure wins.
LastErrorWins(failed, blank) ==
  IF failed /\ ~blank THEN Len(rows) ELSE firstError
\* first_error_message, as the position of the item it stems from; an
\* exception without text leaves it falsy.
FirstError(failed, blank) ==
  IF failed /\ ~blank /\ firstError = 0 THEN Len(rows) ELSE firstError

ItemStatus(failed) == IF failed THEN "error" ELSE "success"

\* *_finished, and suite_progress after a test.
EndEvents(failed, published) ==
  events \o published
    \o <<ItemEvent("item_finished", pc, ItemStatus(failed))>>
    \o (IF pc = "test" THEN <<Progress(executed + 1)>> ELSE <<>>)

\* Mutant: an exception leaves the row of the item as it was.
KeepsRow(failed, blank, stuck) ==
  [rows EXCEPT ![Len(rows)].status = IF failed THEN @ ELSE "success"]
\* The row of the item gets its status.
CloseRow(failed, blank, stuck) ==
  [rows EXCEPT ![Len(rows)] = [@ EXCEPT !.status = ItemStatus(failed),
                                        !.blank = blank, !.stuck = stuck]]

\* The end of _execute_item and the caller's bookkeeping: `failed` is its
\* status, `blank` an exception whose text is empty, `stuck` the command rows
\* left running, `published` the events of the failing command.
EndItem(failed, blank, stuck, published) ==
  /\ busy' = FALSE /\ todo' = 0 /\ Unbind
  /\ rows' = CloseRow(failed, blank, stuck)
  /\ anyError' = (anyError \/ failed)
  /\ testFailed' = (testFailed \/ (failed /\ pc \notin SuiteHooks))
  /\ firstError' = FirstError(failed, blank)
  /\ executed' = IF pc = "test" THEN executed + 1 ELSE executed
  /\ events' = EndEvents(failed, published)
  /\ pc' = AfterItem(pc, failed)
  /\ UNCHANGED <<dbVars, planVars, k, saved, visible>>

\* All commands done: set_context_last and status success.
ItemSucceeds ==
  /\ busy /\ todo = 0
  /\ last' = Iteration(pc)
  /\ EndItem(FALSE, FALSE, 0, <<>>)
  /\ UNCHANGED <<dict, globals>>

\* A command raises, before or after its write: the rest is not executed.
CommandFails(c) ==
  /\ busy /\ todo > 0
  /\ \/ UNCHANGED <<dict, globals>>
     \/ Writable(c) /\ WriteConstant(c)
  /\ \E blank \in BOOLEAN :
       EndItem(TRUE, blank, 0, <<ItemEvent("command_finished", pc, "error")>>)
  /\ UNCHANGED last

\* convert_to_config_command_type raises outside the try: the row of the
\* command stays "running" and no command_finished is published.
ConvertFails ==
  /\ busy /\ todo > 0
  /\ EndItem(TRUE, FALSE, 1, <<>>)
  /\ UNCHANGED ctxVars

\* A phase without a hook.
SkipHook(p) ==
  /\ pc = p /\ ~busy /\ ~Present(p)
  /\ pc' = AfterItem(p, FALSE)
  /\ UNCHANGED <<dbVars, planVars, loopVars, itemVars, ctxVars,
                 rows, events, visible>>

-----------------------------------------------------------------------------
(* The loop and the end of _execute *)

\* Mutant: only the outcome of the last item of the cycle aborts.
AbortsOnLastItem ==
  \/ rows[Len(rows)].status = "error" /\ tests[k].on_failure = "ABORT"
  \/ k = Len(tests)
\* The break of the loop, or its end.
LoopStops ==
  \/ testFailed /\ tests[k].on_failure = "ABORT"
  \/ k = Len(tests)

\* Mutant: one local_context for all tests.
SharesLocals == [dict EXCEPT !["base"] = {}]
\* reset_local_context and the local_context of the next iteration.
FreshLocals == [dict EXCEPT !["base"] = {}, !["iteration"] = {}]

\* Breaks or starts the next iteration, with its own context and test_failed.
EndTest ==
  /\ pc = "end_test"
  /\ IF LoopStops
     THEN pc' = "after_all" /\ UNCHANGED k
     ELSE pc' = "before_each" /\ k' = k + 1
  /\ testFailed' = FALSE
  /\ dict' = FreshLocals
  /\ last' = 0
  /\ UNCHANGED <<dbVars, planVars, anyError, firstError, executed, itemVars,
                 globals, rows, events, visible>>

Verdict == IF anyError THEN "error" ELSE "success"

\* Mutant: the transaction commits before suite_finished goes out.
CommitsFirst ==
  /\ pc = "finalize"
  /\ pc' = "announced"
  /\ visible' = Verdict
  /\ events' = Append(events, Event("suite_finished", "suite", firstError, Verdict))
  /\ UNCHANGED <<dbVars, planVars, loopVars, itemVars, ctxVars, rows>>
\* The row gets its status and is flushed; suite_finished goes out.
Finalize ==
  /\ pc = "finalize"
  /\ pc' = "announced"
  /\ events' = Append(events, Event("suite_finished", "suite", firstError, Verdict))
  /\ UNCHANGED <<dbVars, planVars, loopVars, itemVars, ctxVars, rows, visible>>

\* The log entry is written by a session of its own, then the transaction commits.
CommitRun ==
  /\ pc = "announced"
  /\ pc' = "committed"
  /\ visible' = Verdict
  /\ UNCHANGED <<dbVars, planVars, loopVars, itemVars, ctxVars, rows, events>>

\* An exception that leaves _execute (a failed flush, a session that needs a
\* rollback, a log entry or a commit that fails): everything is rolled back.
RollBack ==
  /\ pc \notin {"committed", "lost"}
  /\ pc' = "lost"
  /\ busy' = FALSE /\ todo' = 0 /\ Unbind
  /\ rows' = <<>>
  /\ UNCHANGED <<dbVars, planVars, loopVars, saved, ctxVars, events, visible>>

-----------------------------------------------------------------------------
(* The API handlers that race with the run *)

\* update_test_suite_api: all items are deleted and inserted under new ids.
UpdateSuite(s) ==
  /\ version \in 1..(MaxVersion - 1)
  /\ suite' = s
  /\ version' = version + 1
  /\ UNCHANGED <<target, pc, planVars, loopVars, itemVars, ctxVars,
                 rows, events, visible>>

\* delete_test_suite_api: waits for the key lock that the uncommitted row of a
\* run holds on the suite; the executions of the suite are deleted with it.
DeleteSuite ==
  /\ version > 0
  /\ ~OpenTransaction
  /\ version' = 0
  /\ visible' = "none"
  /\ UNCHANGED <<suite, target, pc, planVars, loopVars, itemVars, ctxVars,
                 rows, events>>

Executor ==
  \/ LoadDescription \/ OpenExecution \/ LoadHook \/ LoadTests
  \/ \E p \in ItemPhases : StartItem(p)
  \/ \E c \in Scopes : RunCommand(c)
  \/ \E c \in Scopes : CommandFails(c)
  \/ ConvertFails \/ ItemSucceeds
  \/ \E p \in HookPhases : SkipHook(p)
  \/ EndTest \/ Finalize \/ CommitRun

Next ==
  \/ Executor
  \/ RollBack
  \/ \E s \in Suites : UpdateSuite(s)
  \/ DeleteSuite

Spec == Init /\ [][Next]_vars

-----------------------------------------------------------------------------
(* Properties *)

Row == [phase : ItemPhases, test : Nat, status : {"running", "success", "error"},
        done : Nat, stuck : {0, 1}, blank : BOOLEAN]
HeldHook == [present : BOOLEAN, commands : Nat, version : Nat]
HeldTest == [on_failure : {"ABORT", "CONTINUE"}, commands : Nat, version : Nat]
EventNames == {"suite_started", "suite_progress", "item_started", "item_finished",
               "command_finished", "suite_finished"}
Events == [name : EventNames, phase : ItemPhases \cup {"suite"}, arg : Nat,
           status : {"running", "success", "error"}]
Locations == ItemPhases \cup {"created", "described", "load_hooks", "end_test",
                              "finalize", "announced", "committed", "lost"}

FlagTypes == anyError \in BOOLEAN /\ testFailed \in BOOLEAN /\ busy \in BOOLEAN

DataTypes ==
  /\ suite \in Suites /\ version \in Nat
  /\ target \in [test : Nat, version : Nat]
  /\ pc \in Locations
  /\ hooks \in [HookPhases -> HeldHook] /\ loaded \in 0..4
  /\ tests \in Seq(HeldTest)
  /\ k \in Nat \ {0}
  /\ firstError \in Nat /\ executed \in Nat /\ todo \in Nat
  /\ kind \in {"hook", "test"} /\ bound \in Dicts
  /\ saved \in [kind : {"hook", "test"}, bound : Dicts]
  /\ dict \in [Dicts -> SUBSET Nat] /\ globals \in SUBSET ItemPhases
  /\ last \in Nat
  /\ rows \in Seq(Row)
  /\ events \in Seq(Events)
  /\ visible \in {"none", "success", "error"}

\* The types of the executor's state: the rows, the RunContext and the locals
\* of _execute.
TypeOK == FlagTypes /\ DataTypes

\* The row of the item that is running is the last one, and only while an item
\* runs do the context's kind and local dict differ from their defaults.
RunningRow ==
  /\ saved = Unbound
  /\ IF busy
     THEN /\ pc \in ItemPhases
          /\ rows # <<>>
          /\ rows[Len(rows)].phase = pc /\ rows[Len(rows)].test = Iteration(pc)
          /\ rows[Len(rows)].status = "running" /\ rows[Len(rows)].stuck = 0
          /\ kind = (IF pc = "test" THEN "test" ELSE "hook")
          /\ bound = (IF pc \in SuiteHooks THEN "hook" ELSE "iteration")
     ELSE bound = Unbound.bound /\ kind = Unbound.kind

Failed(i) == rows[i].status = "error"
Telling(i) == Failed(i) /\ ~rows[i].blank
Finishing == pc \in {"finalize", "announced", "committed"}

JustVerdict ==
  /\ anyError <=> \E i \in DOMAIN rows : Failed(i)
  /\ \/ firstError = 0 /\ \A i \in DOMAIN rows : ~Telling(i)
     \/ /\ firstError \in DOMAIN rows /\ Telling(firstError)
        /\ \A i \in DOMAIN rows : i < firstError => ~Telling(i)

\* The verdict of a finished run is "error" exactly when one of its items
\* failed, and its error message is the one of the first failure that has a
\* text (the any_error / first_error_message bookkeeping spread over _execute).
VerdictSound == Finishing => JustVerdict

\* After a failure in the cycle of a test whose on_failure is ABORT, in its
\* hooks as well as in the test itself, no other test is started.
AbortIsFinal ==
  \A i, j \in DOMAIN rows :
    /\ i < j /\ Failed(i) /\ rows[i].test > 0
    /\ tests[rows[i].test].on_failure = "ABORT"
    => rows[j].test \in {0, rows[i].test}

\* The after_each hook of the test at row i follows it, if there is such a hook.
TearDownFollows(i) ==
  hooks["after_each"].present =>
    /\ i + 1 \in DOMAIN rows
    /\ rows[i + 1].phase = "after_each" /\ rows[i + 1].test = rows[i].test

\* Whatever failed, a finished run executed the after_each hook right after
\* every test it executed and the after_all hook last.
TornDown ==
  Finishing =>
    /\ \A i \in DOMAIN rows : rows[i].phase = "test" => TearDownFollows(i)
    /\ hooks["after_all"].present =>
         rows # <<>> /\ rows[Len(rows)].phase = "after_all"

HeldItem(r) == IF r.phase = "test" THEN tests[r.test] ELSE hooks[r.phase]

\* An item is recorded as success only if each of its commands was executed,
\* unless the suite was replaced under the run: then the commands of an item
\* the run still holds are gone and the item succeeds without executing them.
NoVacuousSuccess ==
  \A i \in DOMAIN rows :
    rows[i].status = "success" =>
      \/ rows[i].done = HeldItem(rows[i]).commands
      \/ HeldItem(rows[i]).version # version

\* While an item runs, the local constants it reads come from its own test
\* (its before_each, itself, its after_each), and so does `last`, except
\* that the first test still sees the `last` of before_all.
LocalIsolation ==
  busy => /\ dict[bound] \subseteq {Iteration(pc)}
          /\ last \in {0, Iteration(pc)}

\* While a test executes no global or runEnvelope constant changes, and the ban
\* ends with the test: nothing of its kind is left for the item after it, nor
\* after a roll back in the middle of it (current_item_kind is one field of one
\* RunContext, bound and restored around every item).
GlobalsFrozenInTests ==
  [][/\ busy /\ pc = "test" => UNCHANGED globals
     /\ kind = "test" => busy /\ pc = "test"]_vars

\* Readers of a committed run find no item still running, and a command still
\* running only where the item is an error (its configuration did not convert).
SettledWhenVisible ==
  visible # "none" =>
    \A i \in DOMAIN rows : /\ rows[i].status # "running"
                           /\ rows[i].stuck > 0 => Failed(i)

LastEvent == events[Len(events)]

Lifecycle == INSTANCE RunLifecycle WITH
  phase <- CASE pc \in {"created", "described"}            -> "created"
             [] pc \in {"announced", "committed", "lost"} -> pc
             [] OTHER                                      -> "running",
  announced <- IF events # <<>> /\ LastEvent.name = "suite_finished"
               THEN LastEvent.status ELSE "none"

\* The executor implements the lifecycle the rest of the system relies on:
\* no row before the end, then a finished row that agrees with suite_finished.
LifecycleRefined == Lifecycle!LifecycleSpec

-----------------------------------------------------------------------------
(* The parts of the inductive invariant of SuiteExecutionProofs *)

InLoop == pc \in {"before_each", "test", "after_each", "end_test"}
Looping == InLoop \/ pc = "before_all"

\* The loop index: at the first test until the loop, inside the list within it.
Positioned ==
  /\ pc \in {"created", "described", "load_hooks", "before_all"} => k = 1
  /\ InLoop => k <= Len(tests)

\* Nothing is recorded or published before the items are loaded.
Fresh == pc \in {"created", "described", "load_hooks"} => rows = <<>> /\ events = <<>>

Bookkept == pc # "lost" => JustVerdict

\* Whose constants the three dicts hold at any time.
Isolated ==
  /\ dict["base"] = {}
  /\ dict["iteration"] \subseteq {k}
  /\ dict["hook"] \subseteq {0}
  /\ pc \in ItemPhases => last \in {0, Iteration(pc)}
  /\ pc \in {"created", "described", "load_hooks"} => last = 0

\* A failure so far is either in the current cycle, and flagged, or in the
\* cycle of a test that does not abort.
Aborting ==
  /\ \A i \in DOMAIN rows : rows[i].test <= k
  /\ Looping =>
       \A i \in DOMAIN rows : Failed(i) /\ rows[i].test > 0 =>
         \/ rows[i].test = k /\ testFailed
         \/ tests[rows[i].test].on_failure # "ABORT"
  /\ AbortIsFinal

\* What the outside has seen at each point of the run.
Published ==
  /\ pc \notin {"announced", "committed", "lost"} =>
       events = <<>> \/ LastEvent.name # "suite_finished"
  /\ pc \in {"announced", "committed"} =>
       /\ events # <<>> /\ LastEvent.name = "suite_finished"
       /\ LastEvent.status = Verdict
  /\ pc # "committed" => visible = "none"

\* Only the item that is running has an open row; a stuck command is a failure.
Settled ==
  \A i \in DOMAIN rows :
    /\ rows[i].status = "running" => busy /\ i = Len(rows)
    /\ rows[i].stuck > 0 => Failed(i)

\* Every test but the one that is running or has just ended was torn down.
TearingDown ==
  /\ \A i \in DOMAIN rows : rows[i].phase = "test" =>
       \/ TearDownFollows(i)
       \/ /\ i = Len(rows) /\ rows[i].test = k
          /\ pc = (IF busy THEN "test" ELSE "after_each")
  /\ Finishing /\ hooks["after_all"].present =>
       rows # <<>> /\ rows[Len(rows)].phase = "after_all"

\* A version the suite has or had; a deleted suite has version 0 for good.
Known(v) == v > 0 /\ (version = 0 \/ v <= version)

\* The run holds, and has rows of, only items it read from a stored suite.
Held ==
  /\ OpenTransaction => version > 0
  /\ \A p \in HookPhases : hooks[p].present => Known(hooks[p].version)
  /\ \A i \in DOMAIN tests : Known(tests[i].version)
  /\ \A i \in DOMAIN rows :
       IF rows[i].phase = "test" THEN rows[i].test \in DOMAIN tests
       ELSE hooks[rows[i].phase].present

\* The commands executed and the ones still to do are those of the held item,
\* as long as the suite is the one it was read from.
Counted ==
  \A i \in DOMAIN rows : HeldItem(rows[i]).version = version =>
    /\ rows[i].status = "success" => rows[i].done = HeldItem(rows[i]).commands
    /\ rows[i].status = "running" => rows[i].done + todo = HeldItem(rows[i]).commands
=============================================================================
