----------------------------- MODULE Scheduler -----------------------------
(***************************************************************************)
(* The schedules of the test suites: the scheduler thread that polls them, *)
(* the API handlers that change them or run one at once, and the runs they *)
(* start.                                                                  *)
(*                                                                         *)
(* A caller reads a schedule in its transaction, decides, and writes the   *)
(* columns it changed when the transaction commits; between the two the    *)
(* other caller may commit.  API handlers have no await, so the event loop *)
(* runs one at a time: all of them are the caller "api".                   *)
(*                                                                         *)
(* A run follows RunLifecycle.  It has two identities: the id of its       *)
(* thread, which execute_test_suite_by_id returns, and the id of its row   *)
(* in test_suite_executions, which the executor draws for itself.          *)
(***************************************************************************)
EXTENDS Integers, Sequences, FiniteSets

CONSTANTS
  Schedules,    \* ids of schedules, as numbers; all of one suite
  Plans,        \* the frequencies and windows the API may store
  MaxTime,      \* bound on the clock
  MaxRuns,      \* threads the process can start
  MaxManual,    \* bound: run-now is used while fewer runs were started
  MaxFailures   \* bound on failing thread starts and commits

Never == -1     \* an empty timestamp column
Time == 0..MaxTime

\* Frequency and the optional window.
PlanType == [delta : Nat \ {0}, start : Nat \cup {Never}, end : Nat \cup {Never}]

ASSUME PlansAssumption ==
  /\ Schedules \subseteq Nat /\ IsFiniteSet(Schedules)
  /\ Plans \subseteq PlanType /\ Plans # {}
  /\ \A p \in Plans : p.start # Never /\ p.end # Never => p.start < p.end
ASSUME BoundsAssumption ==
  MaxTime \in Nat /\ MaxRuns \in Nat /\ MaxManual \in Nat /\ MaxFailures \in Nat

Callers == {"scheduler", "api"}
Runs == 1..MaxRuns

ThreadId(r) == <<"thread", r>>
RowId(r) == <<"row", r>>
NoId == <<"none", 0>>

VARIABLES
  now,        \* utc_now
  schedule,   \* table test_suite_schedules
  at,         \* per caller, where it is
  subject,    \* per caller, the schedule it works on
  clock,      \* per caller, its current_time
  held,       \* per caller, the row it read
  new,        \* per caller, the row it wants
  began,      \* per caller, the run its transaction started (execution_id), 0 if none
  due,        \* due_schedule_ids still to be triggered in this poll
  failures,   \* failures so far
  threads,    \* the runs whose thread was started
  phase, announced, visible, \* per run, its lifecycle
  \* Kept for the properties, read by no action:
  listed,     \* what this poll listed: the date of every schedule, the runs saved before
  log,        \* per run, its start
  saved       \* the runs whose start was committed to their schedule

callVars == <<at, subject, clock, held, new, began, due>>
runVars == <<phase, announced, visible>>
historyVars == <<listed, log, saved>>
vars == <<now, schedule, callVars, failures, threads, runVars, historyVars>>

Absent == [exists |-> FALSE, active |-> FALSE, plan |-> CHOOSE p \in Plans : TRUE,
           next |-> Never, lastRun |-> Never, status |-> "idle", execution |-> NoId]
Columns == DOMAIN Absent

\* No poll is under way; a run that was not started.
NoList == [date |-> [s \in Schedules |-> Never], saved |-> {}]
NoStart == [schedule |-> 0, by |-> "nobody", time |-> Never, date |-> Never, after |-> {}]

-----------------------------------------------------------------------------
(* compute_next_run_at and the queries *)

\* The next date after t, or the start of a window still to come when the
\* schedule was just stored; none once it falls behind the window.
NextRunAt(active, p, t, stored) ==
  LET first == IF (stored /\ p.start > t) \/ t + p.delta < p.start
               THEN p.start ELSE t + p.delta
  IN IF active /\ (p.end = Never \/ first <= p.end) THEN first ELSE Never

IsDue(s, t) ==
  /\ schedule[s].exists /\ schedule[s].active
  /\ schedule[s].next # Never /\ schedule[s].next <= t

Before(s, u) ==
  \/ schedule[s].next < schedule[u].next
  \/ schedule[s].next = schedule[u].next /\ s < u

\* get_due_schedules: the list of the due ones ordered by next_run_at and id.
DueSchedules(t) ==
  LET D == {s \in Schedules : IsDue(s, t)}
  IN {q \in [1..Cardinality(D) -> D] :
        \A i, j \in DOMAIN q : i < j => Before(q[i], q[j])}

\* has_running_execution: a row that other sessions see as "running".
HasRunningExecution == \E r \in Runs : visible[r] = "running"

\* The rows an execution id finds (get_by_id).
Found(id) == {r \in Runs : RowId(r) = id /\ visible[r] # "none"}

\* _refresh_running_schedule_states.
Refreshed(table) ==
  [s \in Schedules |->
     LET row == table[s]
         hit == Found(row.execution)
     IN IF row.exists /\ row.status = "running" /\ hit # {}
        THEN [row EXCEPT !.status = visible[CHOOSE r \in hit : TRUE]]
        ELSE row]

-----------------------------------------------------------------------------
(* Transactions *)

Init ==
  /\ now = 0
  /\ schedule = [s \in Schedules |-> Absent]
  /\ at = [c \in Callers |-> "idle"]
  /\ subject = [c \in Callers |-> 0] /\ clock = [c \in Callers |-> 0]
  /\ held = [c \in Callers |-> Absent] /\ new = [c \in Callers |-> Absent]
  /\ began = [c \in Callers |-> 0]
  /\ due = <<>> /\ failures = 0 /\ threads = {}
  /\ phase = [r \in Runs |-> "created"]
  /\ announced = [r \in Runs |-> "none"]
  /\ visible = [r \in Runs |-> "none"]
  /\ listed = NoList /\ log = [r \in Runs |-> NoStart] /\ saved = {}

\* Mutant: the whole row is written back.
WritesWholeRow(row, read, wanted) == wanted
\* update_fields flushes the columns whose value differs from the one read.
Merged(row, read, wanted) ==
  [f \in Columns |-> IF wanted[f] # read[f] THEN wanted[f] ELSE row[f]]

\* Where a caller is after its transaction: the scheduler goes on with the poll.
Home(c) == IF c = "scheduler" THEN "loop" ELSE "idle"

Forget(c) ==
  /\ held' = [held EXCEPT ![c] = Absent] /\ new' = [new EXCEPT ![c] = Absent]
  /\ subject' = [subject EXCEPT ![c] = 0] /\ began' = [began EXCEPT ![c] = 0]

\* Mutant: the exception also ends the loop of the scheduler thread.
EndsLoop(c) ==
  /\ at' = [at EXCEPT ![c] = IF c = "scheduler" THEN "ended" ELSE "idle"]
  /\ due' = IF c = "scheduler" THEN <<>> ELSE due
  /\ listed' = IF c = "scheduler" THEN NoList ELSE listed
  /\ clock' = [clock EXCEPT ![c] = 0]
  /\ Forget(c)
\* An exception: one that leaves process_due_schedules ends the whole poll,
\* the loop logs it and polls again.
Raise(c) ==
  /\ at' = [at EXCEPT ![c] = "idle"]
  /\ due' = IF c = "scheduler" THEN <<>> ELSE due
  /\ listed' = IF c = "scheduler" THEN NoList ELSE listed
  /\ clock' = [clock EXCEPT ![c] = 0]
  /\ Forget(c)

\* The commit of a trigger also carries the refresh it began with.
Commit(c) ==
  /\ at[c] \in {"commit", "store"}
  /\ LET s == subject[c]
         table == IF at[c] = "commit" THEN Refreshed(schedule) ELSE schedule
     IN IF schedule[s].exists
        THEN /\ schedule' = [table EXCEPT ![s] = Merged(@, held[c], new[c])]
             /\ at' = [at EXCEPT ![c] = Home(c)]
             /\ clock' = IF c = "api" THEN [clock EXCEPT ![c] = 0] ELSE clock
             /\ saved' = saved \cup ({began[c]} \ {0})
             /\ Forget(c)
             /\ UNCHANGED <<due, listed>>
        ELSE Raise(c) /\ UNCHANGED <<schedule, saved>>
  /\ UNCHANGED <<now, failures, threads, runVars, log>>

\* A transaction that fails to commit changes nothing.
CommitFails(c) ==
  /\ at[c] \in {"commit", "store"} /\ failures < MaxFailures
  /\ failures' = failures + 1
  /\ Raise(c)
  /\ UNCHANGED <<now, schedule, threads, runVars, log, saved>>

-----------------------------------------------------------------------------
(* trigger_schedule *)

TriggerRead(c) ==
  /\ at[c] = "read"
  /\ IF schedule[subject[c]].exists
     THEN /\ held' = [held EXCEPT ![c] = schedule[subject[c]]]
          /\ at' = [at EXCEPT ![c] = "decide"]
          /\ UNCHANGED <<subject, clock, new, began, due, listed>>
     ELSE Raise(c)
  /\ UNCHANGED <<now, schedule, failures, threads, runVars, log, saved>>

\* The early returns; run-now is bound by neither activity nor window.
Outcome(c) ==
  LET row == held[c]
      t == clock[c]
      p == row.plan
  IN CASE c = "scheduler" /\ ~row.active                     -> "inactive"
       [] c = "scheduler" /\ row.active /\ t < p.start       -> "not_due"
       [] c = "scheduler" /\ row.active /\ t >= p.start
            /\ p.end # Never /\ t > p.end                    -> "expired"
       [] OTHER -> IF HasRunningExecution THEN "skipped" ELSE "started"

\* Mutant: a missed date is made up for, one period after the other.
CatchesUp(row, t) == IF row.active THEN row.next + row.plan.delta ELSE Never
\* The date that follows a trigger at time t.
Following(row, t) == NextRunAt(row.active, row.plan, t, FALSE)

\* What a trigger that starts no run leaves behind.
Decided(c, outcome) ==
  LET row == held[c]
  IN CASE outcome = "expired" ->
            [row EXCEPT !.active = FALSE, !.next = Never, !.status = "idle"]
       [] outcome = "skipped" ->
            [row EXCEPT !.status = "skipped",
                        !.next = IF row.active THEN Following(row, clock[c]) ELSE row.next]
       [] OTHER -> row

\* The checks without a start.
Decline(c) ==
  /\ at[c] = "decide" /\ Outcome(c) # "started"
  /\ new' = [new EXCEPT ![c] = Decided(c, Outcome(c))]
  /\ at' = [at EXCEPT ![c] = "commit"]
  /\ UNCHANGED <<now, schedule, subject, clock, held, began, due, failures, threads, runVars,
                 historyVars>>

\* The start of a run by c: when, and for which date of which list.
Start(c) ==
  LET s == subject[c]
  IN [schedule |-> s, by |-> c, time |-> clock[c],
      date |-> IF c = "scheduler" THEN listed.date[s] ELSE Never,
      after |-> IF c = "scheduler" THEN listed.saved ELSE {}]

\* The thread of the run is started before the schedule is written.
StartRun(c) ==
  /\ at[c] = "decide" /\ Outcome(c) = "started"
  /\ threads # Runs
  /\ LET r == Cardinality(threads) + 1
     IN /\ threads' = threads \cup {r}
        /\ began' = [began EXCEPT ![c] = r]
        /\ log' = [log EXCEPT ![r] = Start(c)]
        /\ new' = [new EXCEPT ![c] =
             [held[c] EXCEPT !.next = Following(held[c], clock[c]), !.lastRun = clock[c],
                             !.status = "running", !.execution = ThreadId(r)]]
  /\ at' = [at EXCEPT ![c] = "commit"]
  /\ UNCHANGED <<now, schedule, subject, clock, held, due, failures, runVars, listed, saved>>

\* The thread cannot be started: the row is marked "error", but the exception
\* is raised again and takes that mark with it.
StartFails(c) ==
  /\ at[c] = "decide" /\ Outcome(c) = "started"
  /\ failures < MaxFailures
  /\ failures' = failures + 1
  /\ Raise(c)
  /\ UNCHANGED <<now, schedule, threads, runVars, log, saved>>

-----------------------------------------------------------------------------
(* The scheduler thread *)

\* process_due_schedules: the clock of the poll is read once, then the states
\* are refreshed in a transaction of their own.
PollSync ==
  /\ at["scheduler"] = "idle"
  /\ clock' = [clock EXCEPT !["scheduler"] = now]
  /\ schedule' = Refreshed(schedule)
  /\ at' = [at EXCEPT !["scheduler"] = "list"]
  /\ UNCHANGED <<now, subject, held, new, began, due, failures, threads, runVars, historyVars>>

PollList ==
  /\ at["scheduler"] = "list"
  /\ due' \in DueSchedules(clock["scheduler"])
  /\ listed' = [date |-> [s \in Schedules |-> schedule[s].next], saved |-> saved]
  /\ at' = [at EXCEPT !["scheduler"] = "loop"]
  /\ UNCHANGED <<now, schedule, subject, clock, held, new, began, failures, threads, runVars,
                 log, saved>>

PollNext ==
  /\ at["scheduler"] = "loop"
  /\ IF due = <<>>
     THEN /\ at' = [at EXCEPT !["scheduler"] = "idle"]
          /\ clock' = [clock EXCEPT !["scheduler"] = 0]
          /\ listed' = NoList
          /\ UNCHANGED <<subject, due>>
     ELSE /\ subject' = [subject EXCEPT !["scheduler"] = Head(due)]
          /\ due' = Tail(due)
          /\ at' = [at EXCEPT !["scheduler"] = "read"]
          /\ UNCHANGED <<clock, listed>>
  /\ UNCHANGED <<now, schedule, held, new, began, failures, threads, runVars, log, saved>>

-----------------------------------------------------------------------------
(* The API handlers *)

\* insert_test_suite_schedule_api.
Insert(s, p, active) ==
  /\ at["api"] = "idle" /\ ~schedule[s].exists
  /\ schedule' = [schedule EXCEPT ![s] =
       [Absent EXCEPT !.exists = TRUE, !.active = active, !.plan = p,
                      !.next = NextRunAt(active, p, now, TRUE)]]
  /\ UNCHANGED <<now, callVars, failures, threads, runVars, historyVars>>

\* A handler that reads the row, changes it to `row` and stores it.
Edit(s, row) ==
  /\ at["api"] = "idle" /\ schedule[s].exists
  /\ at' = [at EXCEPT !["api"] = "store"]
  /\ subject' = [subject EXCEPT !["api"] = s]
  /\ held' = [held EXCEPT !["api"] = schedule[s]]
  /\ new' = [new EXCEPT !["api"] = row]
  /\ UNCHANGED <<now, schedule, clock, began, due, failures, threads, runVars, historyVars>>

Update(s, p, active) ==
  Edit(s, [schedule[s] EXCEPT !.plan = p, !.active = active,
                              !.next = NextRunAt(active, p, now, TRUE)])
Activate(s) ==
  Edit(s, [schedule[s] EXCEPT !.active = TRUE,
                              !.next = NextRunAt(TRUE, schedule[s].plan, now, TRUE)])
Deactivate(s) == Edit(s, [schedule[s] EXCEPT !.active = FALSE, !.next = Never])

Delete(s) ==
  /\ at["api"] = "idle" /\ schedule[s].exists
  /\ schedule' = [schedule EXCEPT ![s] = Absent]
  /\ UNCHANGED <<now, callVars, failures, threads, runVars, historyVars>>

\* run_test_suite_schedule_now_api.
RunNow(s) ==
  /\ at["api"] = "idle"
  /\ Cardinality(threads) < MaxManual
  /\ at' = [at EXCEPT !["api"] = "read"]
  /\ subject' = [subject EXCEPT !["api"] = s]
  /\ clock' = [clock EXCEPT !["api"] = now]
  /\ UNCHANGED <<now, schedule, held, new, began, due, failures, threads, runVars, historyVars>>

-----------------------------------------------------------------------------
(* The runs, as RunLifecycle describes them *)

BeginRun(r) ==
  /\ r \in threads /\ phase[r] = "created"
  /\ phase' = [phase EXCEPT ![r] = "running"]
  /\ UNCHANGED <<now, schedule, callVars, failures, threads, announced, visible, historyVars>>

FinishRun(r) ==
  /\ phase[r] = "running"
  /\ phase' = [phase EXCEPT ![r] = "announced"]
  /\ \E status \in {"success", "error"} : announced' = [announced EXCEPT ![r] = status]
  /\ UNCHANGED <<now, schedule, callVars, failures, threads, visible, historyVars>>

CommitRun(r) ==
  /\ phase[r] = "announced"
  /\ phase' = [phase EXCEPT ![r] = "committed"]
  /\ visible' = [visible EXCEPT ![r] = announced[r]]
  /\ UNCHANGED <<now, schedule, callVars, failures, threads, announced, historyVars>>

LoseRun(r) ==
  /\ r \in threads /\ phase[r] \in {"created", "running", "announced"}
  /\ phase' = [phase EXCEPT ![r] = "lost"]
  /\ UNCHANGED <<now, schedule, callVars, failures, threads, announced, visible, historyVars>>

-----------------------------------------------------------------------------
\* One unit is the shortest period, a minute: a poll or a handler, a few
\* statements on one table, is over within it.
Tick ==
  /\ now < MaxTime
  /\ \A c \in Callers : at[c] = "idle"
  /\ now' = now + 1
  /\ UNCHANGED <<schedule, callVars, failures, threads, runVars, historyVars>>

Trigger(c) == TriggerRead(c) \/ Decline(c) \/ StartRun(c) \/ Commit(c)
Poll == PollSync \/ PollList \/ PollNext \/ Trigger("scheduler")
Progress(r) == BeginRun(r) \/ FinishRun(r) \/ CommitRun(r)

Next ==
  \/ Tick
  \/ PollSync \/ PollList \/ PollNext
  \/ \E c \in Callers : Trigger(c) \/ StartFails(c) \/ CommitFails(c)
  \/ \E s \in Schedules, p \in Plans, active \in BOOLEAN :
       Insert(s, p, active) \/ Update(s, p, active)
  \/ \E s \in Schedules : Activate(s) \/ Deactivate(s) \/ Delete(s) \/ RunNow(s)
  \/ \E r \in Runs : Progress(r) \/ LoseRun(r)

Spec == Init /\ [][Next]_vars

\* The scheduler thread loops for ever; nothing makes the clock, the users, the
\* runs or a failure move.
Fairness == WF_vars(Poll)
FairSpec == Spec /\ Fairness

-----------------------------------------------------------------------------
(* Properties *)

ScheduleRow ==
  [exists : BOOLEAN, active : BOOLEAN, plan : Plans, next : Nat \cup {Never},
   lastRun : Nat \cup {Never}, status : {"idle", "running", "skipped", "success", "error"},
   execution : {NoId} \cup {ThreadId(r) : r \in Runs}]
Starts == [schedule : Schedules \cup {0}, by : Callers \cup {"nobody"},
           time : Time \cup {Never}, date : Nat \cup {Never}, after : SUBSET Runs]

\* The types of the schedules, of the callers and of the runs.
TypeOK ==
  /\ now \in Time /\ failures \in 0..MaxFailures
  /\ schedule \in [Schedules -> ScheduleRow]
  /\ at \in [Callers -> {"idle", "list", "loop", "read", "decide", "commit", "store"}]
  /\ subject \in [Callers -> Schedules \cup {0}] /\ clock \in [Callers -> Time]
  /\ held \in [Callers -> ScheduleRow] /\ new \in [Callers -> ScheduleRow]
  /\ began \in [Callers -> Runs \cup {0}]
  /\ due \in Seq(Schedules) /\ threads \subseteq Runs
  /\ phase \in [Runs -> {"created", "running", "announced", "committed", "lost"}]
  /\ announced \in [Runs -> {"none", "success", "error"}]
  /\ visible \in [Runs -> {"none", "success", "error"}]
  /\ listed \in [date : [Schedules -> Nat \cup {Never}], saved : SUBSET Runs]
  /\ log \in [Runs -> Starts] /\ saved \subseteq Runs

\* Run r was started before the list that run q was started from was read: it is
\* the scheduler's own, or a run-now that was committed when the list was read.
Preceded(r, q) == r < q /\ (log[r].by = "scheduler" \/ r \in log[q].after)

\* The scheduler starts a run only for a date that lies after every earlier run
\* of the schedule whose start was saved: missed dates are not made up for one
\* by one, and no date is served twice unless the commit of its first start was
\* lost, in which case it is (StartRun before Commit in trigger_schedule).  A
\* run-now that commits while a list is being worked off is excepted: the
\* trigger does not look at the date again.
NoBurst ==
  \A q \in threads, r \in saved :
    /\ log[q].by = "scheduler"
    /\ log[r].schedule = log[q].schedule /\ Preceded(r, q)
    => log[q].date > log[r].time

\* A schedule becomes active by an edit that asks for it and never because a
\* trigger writes back what it read before a deactivation.
NoSelfActivation ==
  [][\A s \in Schedules :
       schedule[s].exists /\ ~schedule[s].active /\ schedule'[s].active =>
         /\ at["api"] = "store" /\ subject["api"] = s
         /\ new["api"].active /\ ~held["api"].active]_vars

\* A schedule that is due does not stay due: it is triggered, moved or
\* switched off, even when the trigger of a schedule before it in the list
\* raises and ends the poll, as long as triggers do not raise for ever (or all
\* the runs the instance has were started).
DueIsServed ==
  \A s \in Schedules : []<>(~IsDue(s, now) \/ threads = Runs)

\* "Policy overlap skip if running per evitare esecuzioni parallele della
\* stessa suite": two runs of the suite are never executing at the same time.
NoOverlap ==
  \A r, q \in Runs :
    phase[r] \in {"running", "announced"} /\ phase[q] \in {"running", "announced"}
      => r = q

-----------------------------------------------------------------------------
(* The parts of the inductive invariants of SchedulerProofs *)

\* Runs are numbered in the order of their start, and a caller that works on a
\* schedule has one.
WellFormed ==
  /\ \E n \in 0..MaxRuns : threads = 1..n
  /\ \A c \in Callers : at[c] \in {"read", "decide", "commit", "store"} => subject[c] \in Schedules
  /\ at["scheduler"] # "store"

\* No time passes during a poll or a run-now.
InTime == \A c \in Callers : at[c] \notin {"idle", "store"} => clock[c] = now

\* A date that was set at this time: none, or one to come.
ToCome(next) == next = Never \/ next > now

\* While a caller works on a schedule, whoever moves its date moves it to one
\* to come.
DatesToCome ==
  \A c \in Callers :
    /\ at[c] \in {"decide", "commit", "store"} =>
         schedule[subject[c]].next = held[c].next \/ ToCome(schedule[subject[c]].next)
    /\ at[c] \in {"commit", "store"} => new[c].next = held[c].next \/ ToCome(new[c].next)

\* A trigger switches no schedule on.
TriggersDoNotActivate ==
  \A c \in Callers : at[c] = "commit" /\ new[c].active => held[c].active

\* Every start is recorded, no later than now; a list and a start know of runs
\* that were saved when they were made.
Recorded ==
  /\ saved \subseteq threads /\ listed.saved \subseteq saved
  /\ \A r \in threads :
       /\ log[r].schedule \in Schedules /\ log[r].time \in 0..now
       /\ log[r].after \subseteq saved

\* The run of an open transaction is the last its caller started, for the
\* schedule it is about to move to a date to come.
OpenStarts ==
  \A c \in Callers : began[c] # 0 =>
    /\ at[c] = "commit" /\ began[c] \in threads \ saved
    /\ log[began[c]].by = c
    /\ log[began[c]].schedule = subject[c] /\ log[began[c]].time = now
    /\ ToCome(new[c].next)
    /\ \A q \in threads : log[q].by = c => q <= began[c]

\* A schedule waits for a date after every run that was saved for it.
SavedAhead ==
  \A r \in saved :
    LET next == schedule[log[r].schedule].next
    IN next = Never \/ next > log[r].time

\* The schedules this poll has still to trigger, the one at hand included.
Pending ==
  {due[i] : i \in DOMAIN due}
    \cup {s \in {subject["scheduler"]} : at["scheduler"] \in {"read", "decide", "commit"}}

\* A listed date lies after the runs saved before the list was read and after
\* those the scheduler saved since: it has each schedule once in its list.
ListAhead ==
  /\ at["scheduler"] \in {"idle", "list"} => due = <<>>
  /\ \A i, j \in DOMAIN due : due[i] = due[j] => i = j
  /\ at["scheduler"] \in {"read", "decide", "commit"} =>
       \A i \in DOMAIN due : due[i] # subject["scheduler"]
  /\ at["scheduler"] # "commit" => began["scheduler"] = 0
  /\ \A s \in Pending, r \in saved :
       log[r].schedule = s /\ (log[r].by = "scheduler" \/ r \in listed.saved) =>
         listed.date[s] > log[r].time
=============================================================================
