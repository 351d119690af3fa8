--------------------------- MODULE SchedulerProofs ---------------------------
(* Proofs about Scheduler for any schedules, plans, runs and bounds.       *)
EXTENDS Scheduler, FiniteSetTheorems, TLAPS

-----------------------------------------------------------------------------
(* Lemmas about the operators of the model *)

\* The next date is none or one after t, whatever the window (NextRunAt).
LEMMA NextRunAtLemma ==
  ASSUME NEW active, NEW p \in Plans, NEW t \in Nat, NEW stored
  PROVE  /\ NextRunAt(active, p, t, stored) \in Nat \cup {Never}
         /\ NextRunAt(active, p, t, stored) = Never \/ NextRunAt(active, p, t, stored) > t
<1>1. p \in PlanType BY PlansAssumption
<1>2. p.delta \in Nat \ {0} /\ p.start \in Int /\ p.start >= -1
  BY <1>1 DEF PlanType, Never
<1> DEFINE first == IF (stored /\ p.start > t) \/ t + p.delta < p.start
                    THEN p.start ELSE t + p.delta
<1>3. first \in Nat /\ first > t BY <1>2
<1> HIDE DEF first
<1>4. NextRunAt(active, p, t, stored) \in {first, Never} BY DEF NextRunAt, first
<1> QED BY <1>3, <1>4

\* The columns of an absent row.
LEMMA AbsentType ==
  /\ Absent \in ScheduleRow
  /\ Absent.exists = FALSE /\ Absent.active = FALSE /\ Absent.next = Never
  /\ Columns = {"exists", "active", "plan", "next", "lastRun", "status", "execution"}
<1>1. (CHOOSE p \in Plans : TRUE) \in Plans BY PlansAssumption
<1> QED BY <1>1 DEF Absent, ScheduleRow, Columns

\* What a commit leaves in each column (Merged).
LEMMA MergedLemma ==
  ASSUME NEW row \in ScheduleRow, NEW read \in ScheduleRow, NEW wanted \in ScheduleRow
  PROVE  LET m == Merged(row, read, wanted)
         IN  /\ m \in ScheduleRow
             /\ m.next = IF wanted.next # read.next THEN wanted.next ELSE row.next
             /\ m.active = IF wanted.active # read.active THEN wanted.active ELSE row.active
             /\ m.exists = IF wanted.exists # read.exists THEN wanted.exists ELSE row.exists
<1> DEFINE Col(f) == IF wanted[f] # read[f] THEN wanted[f] ELSE row[f]
           m == [f \in Columns |-> Col(f)]
<1>1. m = Merged(row, read, wanted) BY DEF Merged
<1>2. /\ Col("exists") \in BOOLEAN /\ Col("active") \in BOOLEAN /\ Col("plan") \in Plans
      /\ Col("next") \in Nat \cup {Never} /\ Col("lastRun") \in Nat \cup {Never}
      /\ Col("status") \in {"idle", "running", "skipped", "success", "error"}
      /\ Col("execution") \in {NoId} \cup {ThreadId(r) : r \in Runs}
  BY DEF ScheduleRow
<1> HIDE DEF Col
<1>3. m = [exists |-> Col("exists"), active |-> Col("active"), plan |-> Col("plan"),
           next |-> Col("next"), lastRun |-> Col("lastRun"), status |-> Col("status"),
           execution |-> Col("execution")]
  BY AbsentType
<1>4. m \in ScheduleRow BY <1>2, <1>3 DEF ScheduleRow
<1>5. /\ m.next = Col("next")
      /\ m.active = Col("active") /\ m.exists = Col("exists")
  BY <1>3
<1> QED BY <1>1, <1>4, <1>5 DEF Col

\* A refresh changes nothing but the status of a schedule (Refreshed).
LEMMA RefreshedLemma ==
  ASSUME TypeOK
  PROVE  /\ Refreshed(schedule) \in [Schedules -> ScheduleRow]
         /\ \A s \in Schedules :
              /\ Refreshed(schedule)[s].exists = schedule[s].exists
              /\ Refreshed(schedule)[s].active = schedule[s].active
              /\ Refreshed(schedule)[s].next = schedule[s].next
<1> DEFINE Fresh(s) ==
             LET row == schedule[s]
                 hit == Found(row.execution)
             IN IF row.exists /\ row.status = "running" /\ hit # {}
                THEN [row EXCEPT !.status = visible[CHOOSE r \in hit : TRUE]]
                ELSE row
<1>1. Refreshed(schedule) = [s \in Schedules |-> Fresh(s)] BY DEF Refreshed
<1>2. ASSUME NEW s \in Schedules
      PROVE  /\ Fresh(s) \in ScheduleRow
             /\ Fresh(s).exists = schedule[s].exists /\ Fresh(s).active = schedule[s].active
             /\ Fresh(s).next = schedule[s].next
  <2> DEFINE row == schedule[s]
             hit == Found(row.execution)
             v == visible[CHOOSE r \in hit : TRUE]
  <2>1. row \in ScheduleRow BY DEF TypeOK
  <2>2. ASSUME hit # {} PROVE v \in {"success", "error"}
    <3>1. (CHOOSE r \in hit : TRUE) \in hit BY <2>2
    <3> QED BY <3>1 DEF Found, TypeOK
  <2>3. CASE row.exists /\ row.status = "running" /\ hit # {}
    <3>1. Fresh(s) = [row EXCEPT !.status = v] BY <2>3
    <3>2. v \in {"success", "error"} BY <2>2, <2>3
    <3> HIDE DEF Fresh, row, v
    <3> QED BY <2>1, <3>1, <3>2 DEF ScheduleRow, row
  <2>4. CASE ~(row.exists /\ row.status = "running" /\ hit # {})
    <3>1. Fresh(s) = row BY <2>4
    <3> HIDE DEF Fresh
    <3> QED BY <2>1, <3>1
  <2> QED BY <2>3, <2>4
<1> HIDE DEF Fresh
<1> QED BY <1>1, <1>2

\* The dates a trigger sets are none or to come (Following).
LEMMA FollowingLemma ==
  ASSUME NEW row \in ScheduleRow, NEW t \in Nat
  PROVE  /\ Following(row, t) \in Nat \cup {Never}
         /\ Following(row, t) = Never \/ Following(row, t) > t
<1>1. row.plan \in Plans BY DEF ScheduleRow
<1> QED BY <1>1, NextRunAtLemma DEF Following

\* A trigger that starts no run keeps the types, switches nothing on,
\* and moves the date only to one to come (Decided).
LEMMA DecidedLemma ==
  ASSUME TypeOK, NEW c \in Callers, NEW outcome, clock[c] \in Nat
  PROVE  LET d == Decided(c, outcome)
         IN  /\ d \in ScheduleRow
             /\ d.active => held[c].active
             /\ d.next = held[c].next \/ d.next = Never \/ d.next > clock[c]
             /\ d.exists = held[c].exists
<1> DEFINE row == held[c]
           f == IF row.active THEN Following(row, clock[c]) ELSE row.next
<1>1. row \in ScheduleRow BY DEF TypeOK
<1>2. f \in Nat \cup {Never} /\ (f = row.next \/ f = Never \/ f > clock[c])
  BY <1>1, FollowingLemma DEF ScheduleRow
<1> HIDE DEF f
<1>3. CASE outcome = "expired"
  <2>1. Decided(c, outcome) = [row EXCEPT !.active = FALSE, !.next = Never, !.status = "idle"]
    BY <1>3 DEF Decided
  <2> HIDE DEF row
  <2> QED BY <1>1, <2>1 DEF ScheduleRow, row
<1>4. CASE outcome = "skipped"
  <2>1. Decided(c, outcome) = [row EXCEPT !.status = "skipped", !.next = f]
    BY <1>4 DEF Decided, f
  <2> HIDE DEF row
  <2> QED BY <1>1, <1>2, <2>1 DEF ScheduleRow, row
<1>5. CASE outcome \notin {"expired", "skipped"}
  <2>1. Decided(c, outcome) = row BY <1>5 DEF Decided
  <2> QED BY <1>1, <2>1
<1> QED BY <1>3, <1>4, <1>5

-----------------------------------------------------------------------------
(* Types *)

Typed == TypeOK /\ WellFormed
Spots == {"idle", "list", "loop", "read", "decide", "commit", "store"}
Working == {"read", "decide", "commit", "store"}

\* The types of the callers.
CallTypes ==
  /\ at \in [Callers -> Spots]
  /\ subject \in [Callers -> Schedules \cup {0}] /\ clock \in [Callers -> Time]
  /\ held \in [Callers -> ScheduleRow] /\ new \in [Callers -> ScheduleRow]
  /\ due \in Seq(Schedules)
  /\ \A c \in Callers : at[c] \in Working => subject[c] \in Schedules
  /\ at["scheduler"] # "store"

\* The types of the runs.
RunTypes ==
  /\ threads \subseteq Runs /\ \E n \in 0..MaxRuns : threads = 1..n
  /\ phase \in [Runs -> {"created", "running", "announced", "committed", "lost"}]
  /\ announced \in [Runs -> {"none", "success", "error"}]
  /\ visible \in [Runs -> {"none", "success", "error"}]

\* The types of what is kept for the properties.
HistoryTypes ==
  /\ began \in [Callers -> Runs \cup {0}]
  /\ listed \in [date : [Schedules -> Nat \cup {Never}], saved : SUBSET Runs]
  /\ log \in [Runs -> Starts] /\ saved \subseteq Runs

\* The types in four parts.
LEMMA TypedParts ==
  Typed <=> /\ now \in Time /\ failures \in 0..MaxFailures
            /\ schedule \in [Schedules -> ScheduleRow]
            /\ CallTypes /\ RunTypes /\ HistoryTypes
BY DEF Typed, TypeOK, WellFormed, CallTypes, RunTypes, HistoryTypes, Spots, Working

\* The number of the next run (StartRun).
LEMMA StartedNumber ==
  ASSUME Typed, NEW c \in Callers, StartRun(c), NEW r, r = Cardinality(threads) + 1
  PROVE  /\ r \in Runs \ threads /\ threads' = threads \cup {r}
         /\ \E n \in 0..MaxRuns : threads' = 1..n
         /\ \A q \in threads' : q <= r
<1>1. PICK n \in 0..MaxRuns : threads = 1..n BY DEF Typed, WellFormed
<1>2. n # MaxRuns BY <1>1 DEF StartRun, Runs
<1>3. r = n + 1
  <2>1. Cardinality(1..n) = n BY <1>1, FS_Interval
  <2> QED BY <1>1, <2>1
<1>4. threads' = threads \cup {r} BY DEF StartRun
<1>5. threads' = 1..(n + 1) /\ n + 1 \in 0..MaxRuns
  BY <1>1, <1>2, <1>3, <1>4, BoundsAssumption
<1>6. r \in Runs \ threads BY <1>1, <1>2, <1>3, BoundsAssumption DEF Runs
<1> QED BY <1>3, <1>4, <1>5, <1>6

\* Every step keeps the types of what is kept for the properties.
LEMMA NextHistoryTypes == ASSUME Typed, [Next]_vars PROVE HistoryTypes'
<1>0. HistoryTypes /\ CallTypes BY TypedParts
<1>1. CASE UNCHANGED <<began, historyVars>> BY <1>0, <1>1 DEF HistoryTypes, historyVars
<1>2. NoList \in [date : [Schedules -> Nat \cup {Never}], saved : SUBSET Runs] BY DEF NoList
<1>3. ASSUME NEW c \in Callers, Raise(c), UNCHANGED <<log, saved>> PROVE HistoryTypes'
  BY <1>0, <1>2, <1>3 DEF Raise, Forget, HistoryTypes
<1>4. CASE PollList
  <2>1. \A s \in Schedules : schedule[s].next \in Nat \cup {Never}
    BY DEF Typed, TypeOK, ScheduleRow
  <2>2. listed' = [date |-> [s \in Schedules |-> schedule[s].next], saved |-> saved]
    BY <1>4 DEF PollList
  <2>3. listed' \in [date : [Schedules -> Nat \cup {Never}], saved : SUBSET Runs]
    BY <1>0, <2>1, <2>2 DEF HistoryTypes
  <2> QED BY <1>0, <1>4, <2>3 DEF PollList, HistoryTypes
<1>5. CASE PollNext BY <1>0, <1>2, <1>5 DEF PollNext, HistoryTypes
<1>6. ASSUME NEW c \in Callers, StartRun(c) PROVE HistoryTypes'
  <2>1. PICK r : r = Cardinality(threads) + 1 OBVIOUS
  <2>2. r \in Runs BY <1>6, <2>1, StartedNumber
  <2>3. began' = [began EXCEPT ![c] = r] /\ log' = [log EXCEPT ![r] = Start(c)]
    BY <1>6, <2>1 DEF StartRun
  <2>4. subject[c] \in Schedules /\ clock[c] \in Time
    BY <1>0, <1>6 DEF StartRun, CallTypes, Working
  <2>5. Start(c) \in Starts BY <1>0, <2>4 DEF Start, Starts, HistoryTypes
  <2> QED BY <1>0, <1>6, <2>2, <2>3, <2>5 DEF StartRun, HistoryTypes
<1>7. ASSUME NEW c \in Callers, Commit(c) PROVE HistoryTypes'
  <2>1. CASE schedule[subject[c]].exists
    BY <1>0, <1>7, <2>1 DEF Commit, Forget, HistoryTypes
  <2>2. CASE ~schedule[subject[c]].exists BY <1>3, <1>7, <2>2 DEF Commit
  <2> QED BY <2>1, <2>2
<1>8. ASSUME NEW c \in Callers, TriggerRead(c) PROVE HistoryTypes'
  <2>1. CASE schedule[subject[c]].exists BY <1>1, <1>8, <2>1 DEF TriggerRead, historyVars
  <2>2. CASE ~schedule[subject[c]].exists BY <1>3, <1>8, <2>2 DEF TriggerRead
  <2> QED BY <2>1, <2>2
<1>9. ASSUME NEW c \in Callers, Decline(c) \/ StartFails(c) \/ CommitFails(c)
      PROVE  HistoryTypes'
  BY <1>1, <1>3, <1>9 DEF Decline, StartFails, CommitFails
<1>10. ASSUME NEW s \in Schedules,
              \/ \E p \in Plans, active \in BOOLEAN : Insert(s, p, active) \/ Update(s, p, active)
              \/ Activate(s) \/ Deactivate(s) \/ Delete(s) \/ RunNow(s)
       PROVE  HistoryTypes'
  BY <1>1, <1>10 DEF Insert, Update, Activate, Deactivate, Edit, Delete, RunNow, callVars
<1>11. ASSUME NEW r \in Runs, Progress(r) \/ LoseRun(r) PROVE HistoryTypes'
  BY <1>1, <1>11 DEF Progress, BeginRun, FinishRun, CommitRun, LoseRun, callVars
<1>12. CASE Tick \/ PollSync \/ UNCHANGED vars
  BY <1>1, <1>12 DEF Tick, PollSync, vars, callVars
<1> QED
  BY <1>4, <1>5, <1>6, <1>7, <1>8, <1>9, <1>10, <1>11, <1>12 DEF Next, Trigger

\* The new state is well typed when its parts are.
LEMMA TypedPartsNext ==
  ASSUME Typed, [Next]_vars, now' \in Time, failures' \in 0..MaxFailures,
         schedule' \in [Schedules -> ScheduleRow], CallTypes', RunTypes'
  PROVE  Typed'
<1>1. HistoryTypes' BY NextHistoryTypes
<1> QED
  BY <1>1 DEF Typed, TypeOK, WellFormed, CallTypes, RunTypes, HistoryTypes, Spots, Working

\* An exception leaves the caller idle (Raise).
LEMMA RaiseTyped ==
  ASSUME Typed, NEW c \in Callers, Raise(c)
  PROVE  CallTypes'
<1>1. CallTypes BY TypedParts
<1>2. at' = [at EXCEPT ![c] = "idle"] /\ at' \in [Callers -> Spots]
  BY <1>1 DEF Raise, CallTypes, Spots
<1>3. clock' \in [Callers -> Time] BY <1>1, BoundsAssumption DEF Raise, CallTypes, Time
<1>4. held' \in [Callers -> ScheduleRow] /\ new' \in [Callers -> ScheduleRow]
  BY <1>1, AbsentType DEF Raise, Forget, CallTypes
<1>5. subject' = [subject EXCEPT ![c] = 0] BY DEF Raise, Forget
<1>6. due' \in Seq(Schedules) BY <1>1 DEF Raise, CallTypes
<1>7. /\ \A d \in Callers : at'[d] \in Working => subject'[d] \in Schedules
      /\ at'["scheduler"] # "store"
  BY <1>1, <1>2, <1>5 DEF CallTypes, Working, Callers
<1>8. subject' \in [Callers -> Schedules \cup {0}] BY <1>1, <1>5 DEF CallTypes
<1> QED BY <1>2, <1>3, <1>4, <1>6, <1>7, <1>8 DEF CallTypes

\* The row and the table a commit writes (Commit).
LEMMA CommitTable ==
  ASSUME Typed, NEW c \in Callers, Commit(c), schedule[subject[c]].exists
  PROVE  /\ schedule' \in [Schedules -> ScheduleRow]
         /\ subject[c] \in Schedules
         /\ \A s \in Schedules :
              \/ /\ s # subject[c]
                 /\ schedule'[s].next = schedule[s].next
                 /\ schedule'[s].active = schedule[s].active
              \/ /\ s = subject[c]
                 /\ schedule'[s].next = IF new[c].next # held[c].next
                                        THEN new[c].next ELSE schedule[s].next
                 /\ schedule'[s].active = IF new[c].active # held[c].active
                                          THEN new[c].active ELSE schedule[s].active
<1> DEFINE s0 == subject[c]
           table == IF at[c] = "commit" THEN Refreshed(schedule) ELSE schedule
<1>1. /\ s0 \in Schedules /\ held[c] \in ScheduleRow /\ new[c] \in ScheduleRow
      /\ schedule \in [Schedules -> ScheduleRow]
  BY DEF Typed, TypeOK, WellFormed, Commit
<1>2. /\ table \in [Schedules -> ScheduleRow]
      /\ \A s \in Schedules :
           /\ table[s].next = schedule[s].next
           /\ table[s].active = schedule[s].active
  BY <1>1, RefreshedLemma DEF Typed
<1>3. schedule' = [table EXCEPT ![s0] = Merged(table[s0], held[c], new[c])]
  BY DEF Commit
<1> DEFINE m == Merged(table[s0], held[c], new[c])
<1>4. /\ m \in ScheduleRow
      /\ m.next = IF new[c].next # held[c].next THEN new[c].next ELSE table[s0].next
      /\ m.active = IF new[c].active # held[c].active THEN new[c].active ELSE table[s0].active
  <2>1. table[s0] \in ScheduleRow BY <1>1, <1>2
  <2> HIDE DEF table
  <2> QED BY <1>1, <2>1, MergedLemma
<1> HIDE DEF m, table
<1>5. schedule' = [table EXCEPT ![s0] = m] BY <1>3 DEF m
<1>6. schedule'[s0] = m /\ \A s \in Schedules \ {s0} : schedule'[s] = table[s]
  BY <1>1, <1>2, <1>5
<1>7. schedule' \in [Schedules -> ScheduleRow] BY <1>1, <1>2, <1>4, <1>5
<1> QED BY <1>1, <1>2, <1>4, <1>6, <1>7

\* The list of the due schedules is a sequence of schedules (DueSchedules).
LEMMA DueSchedulesType ==
  ASSUME NEW t, NEW q \in DueSchedules(t) PROVE q \in Seq(Schedules)
<1> DEFINE D == {s \in Schedules : IsDue(s, t)}
<1>1. IsFiniteSet(D) BY PlansAssumption, FS_Subset
<1>2. Cardinality(D) \in Nat BY <1>1, FS_CardinalityType
<1>3. q \in [1..Cardinality(D) -> Schedules] BY DEF DueSchedules
<1> HIDE DEF D
<1>4. PICK n \in Nat : q \in [1..n -> Schedules] BY <1>2, <1>3
<1> QED BY <1>4

\* Every step keeps the types.
LEMMA NextTyped == ASSUME Typed, [Next]_vars PROVE Typed'
<1>0. /\ now \in Time /\ failures \in 0..MaxFailures /\ schedule \in [Schedules -> ScheduleRow]
      /\ CallTypes /\ RunTypes
  BY TypedParts
<1>1. UNCHANGED callVars => CallTypes' BY <1>0 DEF CallTypes, callVars
<1>2. UNCHANGED <<threads, runVars>> => RunTypes' BY <1>0 DEF RunTypes, runVars
<1>3. ASSUME failures < MaxFailures, failures' = failures + 1 PROVE failures' \in 0..MaxFailures
  BY <1>0, <1>3, BoundsAssumption
<1>4. CASE Tick
  <2>1. now' \in Time BY <1>0, <1>4, BoundsAssumption DEF Tick, Time
  <2> QED BY <1>0, <1>1, <1>2, <1>4, <2>1, TypedPartsNext DEF Tick
<1>5. CASE PollSync
  <2>1. CallTypes'
    BY <1>0, <1>5 DEF PollSync, CallTypes, Callers, Spots, Working
  <2>2. schedule' \in [Schedules -> ScheduleRow]
    BY <1>5, RefreshedLemma DEF PollSync, Typed
  <2> QED BY <1>0, <1>2, <1>5, <2>1, <2>2, TypedPartsNext DEF PollSync
<1>6. CASE PollList
  <2>1. due' \in Seq(Schedules) BY <1>6, DueSchedulesType DEF PollList
  <2>2. CallTypes'
    BY <1>0, <1>6, <2>1 DEF PollList, CallTypes, Callers, Spots, Working
  <2> QED BY <1>0, <1>2, <1>6, <2>2, TypedPartsNext DEF PollList
<1>7. CASE PollNext
  <2>1. CASE due = <<>>
    <3>1. 0 \in Time BY BoundsAssumption DEF Time
    <3>2. CallTypes'
      BY <1>0, <1>7, <2>1, <3>1 DEF PollNext, CallTypes, Callers, Spots, Working
    <3> QED BY <1>0, <1>2, <1>7, <3>2, TypedPartsNext DEF PollNext
  <2>2. CASE due # <<>>
    <3>1. Head(due) \in Schedules /\ Tail(due) \in Seq(Schedules)
      BY <1>0, <2>2 DEF CallTypes
    <3>2. CallTypes'
      BY <1>0, <1>7, <2>2, <3>1 DEF PollNext, CallTypes, Callers, Spots, Working
    <3> QED BY <1>0, <1>2, <1>7, <3>2, TypedPartsNext DEF PollNext
  <2> QED BY <2>1, <2>2
<1>8. ASSUME NEW c \in Callers, TriggerRead(c) PROVE Typed'
  <2>1. CASE schedule[subject[c]].exists
    <3>1. subject[c] \in Schedules BY <1>0, <1>8 DEF TriggerRead, CallTypes, Working
    <3>2. CallTypes'
      BY <1>0, <1>8, <2>1, <3>1 DEF TriggerRead, CallTypes, Callers, Spots, Working
    <3> QED BY <1>0, <1>2, <1>8, <3>2, TypedPartsNext DEF TriggerRead
  <2>2. CASE ~schedule[subject[c]].exists
    BY <1>0, <1>2, <1>8, <2>2, RaiseTyped, TypedPartsNext DEF TriggerRead
  <2> QED BY <2>1, <2>2
<1>9. ASSUME NEW c \in Callers, Decline(c) PROVE Typed'
  <2>1. clock[c] \in Nat BY <1>0 DEF CallTypes, Time
  <2>2. Decided(c, Outcome(c)) \in ScheduleRow BY <2>1, DecidedLemma DEF Typed
  <2>3. CallTypes'
    BY <1>0, <1>9, <2>2 DEF Decline, CallTypes, Callers, Spots, Working
  <2> QED BY <1>0, <1>2, <1>9, <2>3, TypedPartsNext DEF Decline
<1>10. ASSUME NEW c \in Callers, StartRun(c) PROVE Typed'
  <2> DEFINE r == Cardinality(threads) + 1
             row == [held[c] EXCEPT !.next = Following(held[c], clock[c]), !.lastRun = clock[c],
                                    !.status = "running", !.execution = ThreadId(r)]
  <2>3. r \in Runs /\ threads' = threads \cup {r} /\ \E n \in 0..MaxRuns : threads' = 1..n
    BY <1>10, StartedNumber
  <2> HIDE DEF r
  <2>5. RunTypes' BY <1>0, <1>10, <2>3 DEF StartRun, RunTypes, runVars
  <2>6. row \in ScheduleRow
    <3>1. held[c] \in ScheduleRow /\ clock[c] \in Nat BY <1>0 DEF CallTypes, Time
    <3>2. Following(held[c], clock[c]) \in Nat \cup {Never} BY <3>1, FollowingLemma
    <3>3. ThreadId(r) \in {NoId} \cup {ThreadId(q) : q \in Runs} BY <2>3
    <3> QED BY <3>1, <3>2, <3>3 DEF ScheduleRow
  <2>7. new' = [new EXCEPT ![c] = row] BY <1>10 DEF StartRun, r
  <2> HIDE DEF row
  <2>8. CallTypes'
    BY <1>0, <1>10, <2>6, <2>7 DEF StartRun, CallTypes, Callers, Spots, Working
  <2> QED BY <1>0, <1>10, <2>5, <2>8, TypedPartsNext DEF StartRun
<1>11. ASSUME NEW c \in Callers, StartFails(c) \/ CommitFails(c) PROVE Typed'
  <2>1. failures' \in 0..MaxFailures BY <1>3, <1>11 DEF StartFails, CommitFails
  <2>2. CallTypes' BY <1>11, RaiseTyped DEF StartFails, CommitFails
  <2> QED BY <1>0, <1>2, <1>11, <2>1, <2>2, TypedPartsNext DEF StartFails, CommitFails
<1>12. ASSUME NEW c \in Callers, Commit(c) PROVE Typed'
  <2>1. CASE schedule[subject[c]].exists
    <3>1. schedule' \in [Schedules -> ScheduleRow] BY <1>12, <2>1, CommitTable
    <3>2. /\ at' = [at EXCEPT ![c] = Home(c)] /\ due' = due
          /\ clock' = IF c = "api" THEN [clock EXCEPT ![c] = 0] ELSE clock
          /\ held' = [held EXCEPT ![c] = Absent] /\ new' = [new EXCEPT ![c] = Absent]
          /\ subject' = [subject EXCEPT ![c] = 0]
      BY <1>12, <2>1 DEF Commit, Forget
    <3>3. Home(c) \in {"loop", "idle"} BY DEF Home
    <3>4. clock' \in [Callers -> Time] BY <1>0, <3>2, BoundsAssumption DEF CallTypes, Time
    <3>5. held' \in [Callers -> ScheduleRow] /\ new' \in [Callers -> ScheduleRow]
      BY <1>0, <3>2, AbsentType DEF CallTypes
    <3>6. CallTypes'
      BY <1>0, <3>2, <3>3, <3>4, <3>5 DEF CallTypes, Callers, Spots, Working
    <3> QED BY <1>0, <1>2, <1>12, <3>1, <3>6, TypedPartsNext DEF Commit
  <2>2. CASE ~schedule[subject[c]].exists
    BY <1>0, <1>2, <1>12, <2>2, RaiseTyped, TypedPartsNext DEF Commit
  <2> QED BY <2>1, <2>2
<1>13. ASSUME NEW s \in Schedules, NEW p \in Plans, NEW active \in BOOLEAN, Insert(s, p, active)
       PROVE  Typed'
  <2> DEFINE next == NextRunAt(active, p, now, TRUE)
             row == [Absent EXCEPT !.exists = TRUE, !.active = active, !.plan = p, !.next = next]
  <2>0. now \in Nat BY <1>0 DEF Time
  <2>1. next \in Nat \cup {Never} BY <2>0, NextRunAtLemma
  <2> HIDE DEF next
  <2>2. row \in ScheduleRow BY <2>1, AbsentType DEF ScheduleRow
  <2>3. schedule' = [schedule EXCEPT ![s] = row] BY <1>13 DEF Insert, next
  <2> HIDE DEF row
  <2>4. schedule' \in [Schedules -> ScheduleRow] BY <1>0, <2>2, <2>3
  <2> QED BY <1>0, <1>1, <1>2, <1>13, <2>4, TypedPartsNext DEF Insert
<1>14. ASSUME NEW s \in Schedules, NEW row \in ScheduleRow, Edit(s, row) PROVE Typed'
  <2>1. CallTypes'
    BY <1>0, <1>14 DEF Edit, CallTypes, Callers, Spots, Working
  <2> QED BY <1>0, <1>2, <1>14, <2>1, TypedPartsNext DEF Edit
<1>15. ASSUME NEW s \in Schedules, NEW p \in Plans, NEW active \in BOOLEAN, Update(s, p, active)
       PROVE  Typed'
  <2> DEFINE next == NextRunAt(active, p, now, TRUE)
  <2>0. now \in Nat BY <1>0 DEF Time
  <2>1. next \in Nat \cup {Never} BY <2>0, NextRunAtLemma
  <2>2. Edit(s, [schedule[s] EXCEPT !.plan = p, !.active = active, !.next = next])
    BY <1>15 DEF Update
  <2>3. schedule[s] \in ScheduleRow BY <1>0
  <2> HIDE DEF next
  <2>4. [schedule[s] EXCEPT !.plan = p, !.active = active, !.next = next] \in ScheduleRow
    BY <2>1, <2>3 DEF ScheduleRow
  <2> QED BY <1>14, <2>2, <2>4
<1>16. ASSUME NEW s \in Schedules, Activate(s) PROVE Typed'
  <2> DEFINE next == NextRunAt(TRUE, schedule[s].plan, now, TRUE)
  <2>1. schedule[s] \in ScheduleRow BY <1>0
  <2>2. schedule[s].plan \in Plans BY <2>1 DEF ScheduleRow
  <2>0. now \in Nat BY <1>0 DEF Time
  <2>3. next \in Nat \cup {Never} BY <2>0, <2>2, NextRunAtLemma
  <2>4. Edit(s, [schedule[s] EXCEPT !.active = TRUE, !.next = next]) BY <1>16 DEF Activate
  <2> HIDE DEF next
  <2>5. [schedule[s] EXCEPT !.active = TRUE, !.next = next] \in ScheduleRow
    BY <2>1, <2>3 DEF ScheduleRow
  <2> QED BY <1>14, <2>4, <2>5
<1>17. ASSUME NEW s \in Schedules, Deactivate(s) PROVE Typed'
  <2>1. schedule[s] \in ScheduleRow BY <1>0
  <2>2. [schedule[s] EXCEPT !.active = FALSE, !.next = Never] \in ScheduleRow
    BY <2>1 DEF ScheduleRow
  <2> QED BY <1>14, <1>17, <2>2 DEF Deactivate
<1>18. ASSUME NEW s \in Schedules, Delete(s) PROVE Typed'
  <2>1. schedule' \in [Schedules -> ScheduleRow] BY <1>0, <1>18, AbsentType DEF Delete
  <2> QED BY <1>0, <1>1, <1>2, <1>18, <2>1, TypedPartsNext DEF Delete
<1>19. ASSUME NEW s \in Schedules, RunNow(s) PROVE Typed'
  <2>1. CallTypes'
    BY <1>0, <1>19 DEF RunNow, CallTypes, Callers, Spots, Working
  <2> QED BY <1>0, <1>2, <1>19, <2>1, TypedPartsNext DEF RunNow
<1>20. ASSUME NEW r \in Runs, Progress(r) \/ LoseRun(r) PROVE Typed'
  <2>1. RunTypes'
    BY <1>0, <1>20 DEF Progress, BeginRun, FinishRun, CommitRun, LoseRun, RunTypes
  <2>2. UNCHANGED <<now, schedule, callVars, failures>>
    BY <1>20 DEF Progress, BeginRun, FinishRun, CommitRun, LoseRun
  <2> QED BY <1>0, <1>1, <2>1, <2>2, TypedPartsNext
<1>21. CASE UNCHANGED vars
  BY <1>0, <1>1, <1>2, <1>21, TypedPartsNext DEF vars
<1> QED
  BY <1>4, <1>5, <1>6, <1>7, <1>8, <1>9, <1>10, <1>11, <1>12, <1>13, <1>15, <1>16, <1>17,
     <1>18, <1>19, <1>20, <1>21 DEF Next, Trigger

\* The types hold at the start.
LEMMA InitTyped == ASSUME Init PROVE Typed
<1>1. now \in Time /\ failures \in 0..MaxFailures /\ schedule \in [Schedules -> ScheduleRow]
  BY AbsentType, BoundsAssumption DEF Init, Time
<1>2. CallTypes
  <2>1. 0 \in Time BY BoundsAssumption DEF Time
  <2> QED BY <2>1, AbsentType DEF Init, CallTypes, Callers, Spots, Working
<1>3. RunTypes
  <2>1. 0 \in 0..MaxRuns /\ {} = 1..0 BY BoundsAssumption
  <2> QED BY <2>1 DEF Init, RunTypes
<1>4. HistoryTypes
  <2>1. NoStart \in Starts BY DEF NoStart, Starts
  <2> QED BY <2>1 DEF Init, HistoryTypes, NoList
<1> QED BY <1>1, <1>2, <1>3, <1>4, TypedParts

\* The types, and that runs are numbered in the order of their start.
LEMMA TypedHolds == Spec => []Typed
BY InitTyped, NextTyped, PTL DEF Spec

\* The types of the schedules, the callers and the runs hold in every state.
THEOREM SchedulerTypeCorrect == Spec => []TypeOK
<1>1. Typed => TypeOK BY DEF Typed
<1> QED BY <1>1, TypedHolds, PTL

-----------------------------------------------------------------------------
(* What a step does to a caller *)

\* What an API edit stores: a date that is none or to come.
EditRows == {row \in ScheduleRow : ToCome(row.next)}

\* Update, Activate and Deactivate are such edits.
LEMMA EditsToCome ==
  ASSUME Typed, NEW s \in Schedules,
         \/ \E p \in Plans, active \in BOOLEAN : Update(s, p, active)
         \/ Activate(s) \/ Deactivate(s)
  PROVE  \E row \in EditRows : Edit(s, row)
<1>0. now \in Nat /\ schedule[s] \in ScheduleRow BY DEF Typed, TypeOK, Time
<1>1. ASSUME NEW p \in Plans, NEW active \in BOOLEAN, Update(s, p, active)
      PROVE  \E row \in EditRows : Edit(s, row)
  <2> DEFINE next == NextRunAt(active, p, now, TRUE)
             row == [schedule[s] EXCEPT !.plan = p, !.active = active, !.next = next]
  <2>1. next \in Nat \cup {Never} /\ ToCome(next) BY <1>0, NextRunAtLemma DEF ToCome
  <2>2. Edit(s, row) BY <1>1 DEF Update
  <2> HIDE DEF next
  <2>3. row \in ScheduleRow /\ row.next = next
    BY <1>0, <2>1 DEF ScheduleRow
  <2> HIDE DEF row
  <2> QED BY <2>1, <2>2, <2>3 DEF EditRows
<1>2. ASSUME Activate(s) PROVE \E row \in EditRows : Edit(s, row)
  <2> DEFINE next == NextRunAt(TRUE, schedule[s].plan, now, TRUE)
             row == [schedule[s] EXCEPT !.active = TRUE, !.next = next]
  <2>1. schedule[s].plan \in Plans BY <1>0 DEF ScheduleRow
  <2>2. next \in Nat \cup {Never} /\ ToCome(next) BY <1>0, <2>1, NextRunAtLemma DEF ToCome
  <2>3. Edit(s, row) BY <1>2 DEF Activate
  <2> HIDE DEF next
  <2>4. row \in ScheduleRow /\ row.next = next
    BY <1>0, <2>2 DEF ScheduleRow
  <2> HIDE DEF row
  <2> QED BY <2>2, <2>3, <2>4 DEF EditRows
<1>3. ASSUME Deactivate(s) PROVE \E row \in EditRows : Edit(s, row)
  <2> DEFINE row == [schedule[s] EXCEPT !.active = FALSE, !.next = Never]
  <2>1. Edit(s, row) BY <1>3 DEF Deactivate
  <2>2. row \in ScheduleRow /\ row.next = Never
    BY <1>0 DEF ScheduleRow
  <2> HIDE DEF row
  <2> QED BY <2>1, <2>2 DEF EditRows, ToCome
<1> QED BY <1>1, <1>2, <1>3

\* A caller that this step leaves alone.
Untouched(c) ==
  /\ at'[c] = at[c] /\ subject'[c] = subject[c] /\ clock'[c] = clock[c]
  /\ held'[c] = held[c] /\ new'[c] = new[c]

\* In a step a caller ends, goes on between two schedules, is left alone, or
\* takes the one step of a trigger or of an edit; time passes only while it
\* is idle.
CallerStep(c) ==
  \/ at'[c] = "idle"
  \/ /\ now' = now
     /\ \/ /\ at'[c] \in {"list", "loop", "read"}
           /\ clock'[c] = now \/ (clock'[c] = clock[c] /\ at[c] \notin {"idle", "store"})
        \/ Untouched(c)
        \/ TriggerRead(c) /\ schedule[subject[c]].exists
        \/ Decline(c) \/ StartRun(c)
        \/ c = "api" /\ \E s \in Schedules : \E row \in EditRows : Edit(s, row)

\* Every step is such a step for every caller.
LEMMA CallerSteps == ASSUME Typed, [Next]_vars, NEW c \in Callers PROVE CallerStep(c)
<1>0. /\ at \in [Callers -> Spots] /\ subject \in [Callers -> Schedules \cup {0}]
      /\ clock \in [Callers -> Time] /\ held \in [Callers -> ScheduleRow]
      /\ new \in [Callers -> ScheduleRow] /\ at["scheduler"] # "store"
  BY TypedParts DEF CallTypes
<1>1. ASSUME now' = now, UNCHANGED callVars PROVE CallerStep(c)
  BY <1>1 DEF callVars, CallerStep, Untouched
<1>2. CASE Tick BY <1>2 DEF Tick, callVars, CallerStep
<1>3. CASE PollSync \/ PollList \/ PollNext
  <2>1. CASE c = "scheduler"
    BY <1>0, <1>3, <2>1 DEF PollSync, PollList, PollNext, CallerStep, Callers
  <2>2. CASE c # "scheduler"
    BY <1>0, <1>3, <2>2 DEF PollSync, PollList, PollNext, CallerStep, Untouched
  <2> QED BY <2>1, <2>2
<1>4. ASSUME NEW d \in Callers, Raise(d), now' = now PROVE CallerStep(c)
  BY <1>0, <1>4 DEF Raise, Forget, CallerStep, Untouched
<1>5. ASSUME NEW d \in Callers, TriggerRead(d) PROVE CallerStep(c)
  <2>1. CASE ~schedule[subject[d]].exists BY <1>4, <1>5, <2>1 DEF TriggerRead
  <2>2. CASE schedule[subject[d]].exists /\ c = d BY <1>5, <2>2 DEF TriggerRead, CallerStep
  <2>3. CASE schedule[subject[d]].exists /\ c # d
    BY <1>0, <1>5, <2>3 DEF TriggerRead, CallerStep, Untouched
  <2> QED BY <2>1, <2>2, <2>3
<1>6. ASSUME NEW d \in Callers, Decline(d) PROVE CallerStep(c)
  <2>1. CASE c = d BY <1>6, <2>1 DEF Decline, CallerStep
  <2>2. CASE c # d BY <1>0, <1>6, <2>2 DEF Decline, CallerStep, Untouched
  <2> QED BY <2>1, <2>2
<1>7. ASSUME NEW d \in Callers, StartRun(d) PROVE CallerStep(c)
  <2>1. CASE c = d BY <1>7, <2>1 DEF StartRun, CallerStep
  <2>2. CASE c # d BY <1>0, <1>7, <2>2 DEF StartRun, CallerStep, Untouched
  <2> QED BY <2>1, <2>2
<1>8. ASSUME NEW d \in Callers, StartFails(d) \/ CommitFails(d) PROVE CallerStep(c)
  BY <1>4, <1>8 DEF StartFails, CommitFails
<1>9. ASSUME NEW d \in Callers, Commit(d) PROVE CallerStep(c)
  <2>1. CASE ~schedule[subject[d]].exists BY <1>4, <1>9, <2>1 DEF Commit
  <2>2. CASE schedule[subject[d]].exists
    <3>1. /\ at' = [at EXCEPT ![d] = Home(d)] /\ now' = now /\ at[d] \in {"commit", "store"}
          /\ clock' = IF d = "api" THEN [clock EXCEPT ![d] = 0] ELSE clock
          /\ held' = [held EXCEPT ![d] = Absent] /\ new' = [new EXCEPT ![d] = Absent]
          /\ subject' = [subject EXCEPT ![d] = 0]
      BY <1>9, <2>2 DEF Commit, Forget
    <3>2. CASE c # d BY <1>0, <3>1, <3>2 DEF CallerStep, Untouched
    <3>3. CASE c = d /\ d = "api" BY <1>0, <3>1, <3>3 DEF CallerStep, Home
    <3>4. CASE c = d /\ d = "scheduler" BY <1>0, <3>1, <3>4 DEF CallerStep, Home
    <3> QED BY <3>2, <3>3, <3>4 DEF Callers
  <2> QED BY <2>1, <2>2
<1>10. ASSUME NEW s \in Schedules, \E row \in EditRows : Edit(s, row) PROVE CallerStep(c)
  <2>1. PICK row \in EditRows : Edit(s, row) BY <1>10
  <2>2. CASE c = "api" BY <1>10, <2>1, <2>2 DEF Edit, CallerStep
  <2>3. CASE c # "api" BY <1>0, <2>1, <2>3 DEF Edit, CallerStep, Untouched
  <2> QED BY <2>2, <2>3
<1>11. ASSUME NEW s \in Schedules, RunNow(s) PROVE CallerStep(c)
  BY <1>0, <1>11 DEF RunNow, CallerStep, Untouched
<1>12. ASSUME NEW s \in Schedules,
              \/ \E p \in Plans, active \in BOOLEAN : Insert(s, p, active)
              \/ Delete(s)
       PROVE  CallerStep(c)
  BY <1>1, <1>12 DEF Insert, Delete
<1>13. ASSUME NEW r \in Runs, Progress(r) \/ LoseRun(r) PROVE CallerStep(c)
  BY <1>1, <1>13 DEF Progress, BeginRun, FinishRun, CommitRun, LoseRun
<1>14. CASE UNCHANGED vars BY <1>1, <1>14 DEF vars
<1> QED
  BY <1>2, <1>3, <1>5, <1>6, <1>7, <1>8, <1>9, <1>10, <1>11, <1>12, <1>13, <1>14, EditsToCome
     DEF Next, Trigger

-----------------------------------------------------------------------------
(* A trigger does not switch a schedule on *)

\* What a start writes (StartRun).
LEMMA StartedRow ==
  ASSUME Typed, NEW c \in Callers, StartRun(c)
  PROVE  /\ new'[c].active = held[c].active
         /\ new'[c].next = Following(held[c], clock[c])
         /\ held' = held /\ subject' = subject /\ clock' = clock /\ schedule' = schedule
<1> DEFINE next == Following(held[c], clock[c])
           id == ThreadId(Cardinality(threads) + 1)
<1>1. held[c] \in ScheduleRow /\ new \in [Callers -> ScheduleRow] BY DEF Typed, TypeOK
<1>2. new' = [new EXCEPT ![c] = [held[c] EXCEPT !.next = next, !.lastRun = clock[c],
                                                !.status = "running", !.execution = id]]
  BY DEF StartRun
<1> HIDE DEF next, id
<1>3. new'[c].active = held[c].active /\ new'[c].next = next
  BY <1>1, <1>2 DEF ScheduleRow
<1> QED BY <1>3 DEF StartRun, next

\* What a declined trigger writes (Decline).
LEMMA DeclinedRow ==
  ASSUME Typed, NEW c \in Callers, Decline(c)
  PROVE  /\ new'[c].active => held[c].active
         /\ new'[c].next = held[c].next \/ new'[c].next = Never \/ new'[c].next > clock[c]
         /\ held' = held /\ subject' = subject /\ clock' = clock /\ schedule' = schedule
<1> DEFINE d == Decided(c, Outcome(c))
<1>1. clock[c] \in Nat /\ new \in [Callers -> ScheduleRow] BY DEF Typed, TypeOK, Time
<1>2. /\ d.active => held[c].active
      /\ d.next = held[c].next \/ d.next = Never \/ d.next > clock[c]
  BY <1>1, DecidedLemma DEF Typed
<1>3. new'[c] = d BY <1>1 DEF Decline
<1> HIDE DEF d
<1> QED BY <1>2, <1>3 DEF Decline

\* No step makes a trigger ask for an active schedule it read as inactive.
LEMMA NextDoNotActivate ==
  ASSUME Typed, TriggersDoNotActivate, [Next]_vars
  PROVE  TriggersDoNotActivate'
<1> SUFFICES ASSUME NEW c \in Callers, at'[c] = "commit", new'[c].active
             PROVE  held'[c].active
  BY DEF TriggersDoNotActivate
<1>0. CallerStep(c) /\ at \in [Callers -> Spots] /\ held \in [Callers -> ScheduleRow]
  BY CallerSteps, TypedParts DEF CallTypes
<1>1. CASE Untouched(c) BY <1>1 DEF Untouched, TriggersDoNotActivate
<1>2. CASE TriggerRead(c) /\ schedule[subject[c]].exists BY <1>0, <1>2 DEF TriggerRead
<1>3. CASE Decline(c) BY <1>3, DeclinedRow
<1>4. CASE StartRun(c) BY <1>4, StartedRow
<1>5. ASSUME c = "api", NEW s \in Schedules, NEW row, Edit(s, row) PROVE FALSE
  BY <1>0, <1>5 DEF Edit
<1> QED BY <1>0, <1>1, <1>2, <1>3, <1>4, <1>5 DEF CallerStep

\* The steps that change who is active: an insert, a delete and a commit.
LEMMA ActiveSteps ==
  ASSUME Typed, [Next]_vars, NEW s \in Schedules
  PROVE  \/ schedule'[s].active = schedule[s].active
         \/ ~schedule[s].exists \/ ~schedule'[s].active
         \/ \E c \in Callers : Commit(c) /\ schedule[subject[c]].exists /\ s = subject[c]
<1>0. schedule \in [Schedules -> ScheduleRow] BY DEF Typed, TypeOK
<1>1. CASE UNCHANGED schedule BY <1>1
<1>2. CASE PollSync BY <1>2, RefreshedLemma DEF PollSync, Typed
<1>3. ASSUME NEW c \in Callers, Commit(c)
      PROVE  \/ schedule'[s].active = schedule[s].active
             \/ schedule[subject[c]].exists /\ s = subject[c]
  <2>1. CASE schedule[subject[c]].exists BY <1>3, <2>1, CommitTable
  <2>2. CASE ~schedule[subject[c]].exists BY <1>3, <2>2 DEF Commit
  <2> QED BY <2>1, <2>2
<1>4. ASSUME NEW u \in Schedules, NEW p \in Plans, NEW active \in BOOLEAN, Insert(u, p, active)
      PROVE  schedule'[s].active = schedule[s].active \/ ~schedule[s].exists
  BY <1>0, <1>4 DEF Insert
<1>5. ASSUME NEW u \in Schedules, Delete(u)
      PROVE  schedule'[s].active = schedule[s].active \/ ~schedule'[s].active
  BY <1>0, <1>5, AbsentType DEF Delete
<1>6. ASSUME NEW u \in Schedules, NEW row, Edit(u, row) PROVE UNCHANGED schedule
  BY <1>6 DEF Edit
<1>7. ASSUME NEW u \in Schedules, NEW p \in Plans, NEW active \in BOOLEAN, Update(u, p, active)
      PROVE  UNCHANGED schedule
  BY <1>6, <1>7 DEF Update
<1>8. ASSUME NEW u \in Schedules, Activate(u) \/ Deactivate(u) \/ RunNow(u)
      PROVE  UNCHANGED schedule
  BY <1>6, <1>8 DEF Activate, Deactivate, RunNow
<1>9. ASSUME NEW c \in Callers,
             TriggerRead(c) \/ Decline(c) \/ StartRun(c) \/ StartFails(c) \/ CommitFails(c)
      PROVE  UNCHANGED schedule
  BY <1>9 DEF TriggerRead, Decline, StartRun, StartFails, CommitFails
<1>10. ASSUME NEW r \in Runs, Progress(r) \/ LoseRun(r) PROVE UNCHANGED schedule
  BY <1>10 DEF Progress, BeginRun, FinishRun, CommitRun, LoseRun
<1>11. CASE Tick \/ PollList \/ PollNext \/ UNCHANGED vars
  BY <1>1, <1>11 DEF Tick, PollList, PollNext, vars
<1> QED
  BY <1>1, <1>2, <1>3, <1>4, <1>5, <1>7, <1>8, <1>9, <1>10, <1>11 DEF Next, Trigger

\* A schedule becomes active by an edit that asks for it, never because a
\* trigger writes back what it read before a deactivation.
THEOREM NoSelfActivationCorrect == Spec => NoSelfActivation
<1> DEFINE Inv == Typed /\ TriggersDoNotActivate
<1>1. Init => Inv
  <2>1. Init => TriggersDoNotActivate BY DEF Init, TriggersDoNotActivate
  <2> QED BY <2>1, InitTyped
<1>2. Inv /\ [Next]_vars => Inv' BY NextTyped, NextDoNotActivate
<1>3. ASSUME Inv, [Next]_vars, NEW s \in Schedules,
             schedule[s].exists, ~schedule[s].active, schedule'[s].active
      PROVE  /\ at["api"] = "store" /\ subject["api"] = s
             /\ new["api"].active /\ ~held["api"].active
  <2>1. PICK c \in Callers : Commit(c) /\ schedule[subject[c]].exists /\ s = subject[c]
    BY <1>3, ActiveSteps
  <2>2. new[c].active /\ ~held[c].active
    <3>1. schedule'[s].active = IF new[c].active # held[c].active
                                THEN new[c].active ELSE schedule[s].active
      BY <1>3, <2>1, CommitTable
    <3>2. new[c] \in ScheduleRow /\ held[c] \in ScheduleRow BY <1>3 DEF Typed, TypeOK
    <3>3. new[c].active \in BOOLEAN /\ held[c].active \in BOOLEAN BY <3>2 DEF ScheduleRow
    <3> QED BY <1>3, <3>1, <3>3
  <2>3. at[c] = "store"
    <3>1. at[c] # "commit" BY <1>3, <2>2 DEF TriggersDoNotActivate
    <3> QED BY <2>1, <3>1 DEF Commit
  <2>4. c = "api" BY <1>3, <2>3 DEF Typed, WellFormed, Callers
  <2> QED BY <2>1, <2>2, <2>3, <2>4
<1>4. Inv /\ [Next]_vars =>
        [\A s \in Schedules :
           schedule[s].exists /\ ~schedule[s].active /\ schedule'[s].active =>
             /\ at["api"] = "store" /\ subject["api"] = s
             /\ new["api"].active /\ ~held["api"].active]_vars
  BY <1>3
<1> HIDE DEF Inv
<1> QED BY <1>1, <1>2, <1>4, PTL DEF Spec, NoSelfActivation

-----------------------------------------------------------------------------
(* Dates *)

\* The clocks and the dates are numbers.
LEMMA DatesAreNumbers ==
  ASSUME Typed
  PROVE  /\ now \in Nat /\ \A c \in Callers : clock[c] \in Nat
         /\ \A s \in Schedules : schedule[s].next \in Int
         /\ \A c \in Callers : held[c].next \in Int /\ new[c].next \in Int
<1>1. ASSUME NEW row \in ScheduleRow PROVE row.next \in Int BY DEF ScheduleRow, Never
<1>2. /\ \A s \in Schedules : schedule[s] \in ScheduleRow
      /\ \A c \in Callers : held[c] \in ScheduleRow /\ new[c] \in ScheduleRow
  BY DEF Typed, TypeOK
<1>3. now \in Nat /\ \A c \in Callers : clock[c] \in Nat BY DEF Typed, TypeOK, Time
<1> QED BY <1>1, <1>2, <1>3

\* The parts that keep the dates ahead.
Timed == InTime /\ DatesToCome

\* A step keeps the date of a schedule or moves it to one to come.
LEMMA DateSteps ==
  ASSUME Typed, Timed, [Next]_vars, NEW s \in Schedules
  PROVE  schedule'[s].next = schedule[s].next \/ ToCome(schedule'[s].next)
<1> DEFINE Keeps == schedule'[s].next = schedule[s].next
           Moves == ToCome(schedule'[s].next)
<1> SUFFICES Keeps \/ Moves OBVIOUS
<1>0. schedule \in [Schedules -> ScheduleRow] BY DEF Typed, TypeOK
<1>1. CASE UNCHANGED schedule BY <1>1
<1>2. CASE PollSync BY <1>2, RefreshedLemma DEF PollSync, Typed
<1>3. ASSUME NEW c \in Callers, Commit(c) PROVE Keeps \/ Moves
  <2>1. CASE ~schedule[subject[c]].exists BY <1>3, <2>1 DEF Commit
  <2>2. CASE schedule[subject[c]].exists /\ s # subject[c] BY <1>3, <2>2, CommitTable
  <2>3. CASE schedule[subject[c]].exists /\ s = subject[c]
    <3>1. schedule'[s].next = IF new[c].next # held[c].next
                              THEN new[c].next ELSE schedule[s].next
      BY <1>3, <2>3, CommitTable
    <3>2. new[c].next = held[c].next \/ ToCome(new[c].next)
      BY <1>3 DEF Timed, DatesToCome, Commit
    <3> QED BY <3>1, <3>2
  <2> QED BY <2>1, <2>2, <2>3
<1>4. ASSUME NEW u \in Schedules, NEW p \in Plans, NEW active \in BOOLEAN, Insert(u, p, active)
      PROVE  Keeps \/ Moves
  <2> DEFINE next == NextRunAt(active, p, now, TRUE)
             row == [Absent EXCEPT !.exists = TRUE, !.active = active, !.plan = p, !.next = next]
  <2>1. now \in Nat BY DatesAreNumbers
  <2>2. ToCome(next) BY <2>1, NextRunAtLemma DEF ToCome
  <2>3. schedule' = [schedule EXCEPT ![u] = row] BY <1>4 DEF Insert
  <2> HIDE DEF next
  <2>4. row.next = next BY AbsentType DEF ScheduleRow
  <2> HIDE DEF row
  <2>5. schedule'[s] = row \/ schedule'[s] = schedule[s] BY <1>0, <2>3
  <2> QED BY <2>2, <2>4, <2>5
<1>5. ASSUME NEW u \in Schedules, Delete(u) PROVE Keeps \/ Moves
  <2>1. schedule'[s] = Absent \/ schedule'[s] = schedule[s] BY <1>0, <1>5 DEF Delete
  <2> QED BY <2>1, AbsentType DEF ToCome
<1>6. ASSUME NEW u \in Schedules, NEW row, Edit(u, row) PROVE UNCHANGED schedule
  BY <1>6 DEF Edit
<1>7. ASSUME NEW u \in Schedules, NEW p \in Plans, NEW active \in BOOLEAN, Update(u, p, active)
      PROVE  UNCHANGED schedule
  BY <1>6, <1>7 DEF Update
<1>8. ASSUME NEW u \in Schedules, Activate(u) \/ Deactivate(u) \/ RunNow(u)
      PROVE  UNCHANGED schedule
  BY <1>6, <1>8 DEF Activate, Deactivate, RunNow
<1>9. ASSUME NEW c \in Callers,
             TriggerRead(c) \/ Decline(c) \/ StartRun(c) \/ StartFails(c) \/ CommitFails(c)
      PROVE  UNCHANGED schedule
  BY <1>9 DEF TriggerRead, Decline, StartRun, StartFails, CommitFails
<1>10. ASSUME NEW r \in Runs, Progress(r) \/ LoseRun(r) PROVE UNCHANGED schedule
  BY <1>10 DEF Progress, BeginRun, FinishRun, CommitRun, LoseRun
<1>11. CASE Tick \/ PollList \/ PollNext \/ UNCHANGED vars
  BY <1>1, <1>11 DEF Tick, PollList, PollNext, vars
<1> HIDE DEF Keeps, Moves
<1> QED
  BY <1>1, <1>2, <1>3, <1>4, <1>5, <1>7, <1>8, <1>9, <1>10, <1>11 DEF Next, Trigger

\* Time stands still or goes on by one while everybody is idle.
LEMMA ClockSteps ==
  ASSUME Typed, [Next]_vars
  PROVE  now' = now \/ now' = now + 1
BY DEF Next, vars, Tick, PollSync, PollList, PollNext, Trigger, TriggerRead, Decline, StartRun,
       Commit, StartFails, CommitFails, Insert, Update, Activate, Deactivate, Edit, Delete,
       RunNow, Progress, BeginRun, FinishRun, CommitRun, LoseRun

\* No step lets a poll or a run-now fall behind the clock.
LEMMA NextInTime == ASSUME Typed, InTime, [Next]_vars PROVE InTime'
<1> SUFFICES ASSUME NEW c \in Callers, at'[c] \notin {"idle", "store"} PROVE clock'[c] = now'
  BY DEF InTime
<1>0. CallerStep(c) /\ at \in [Callers -> Spots] BY CallerSteps, TypedParts DEF CallTypes
<1>1. CASE Untouched(c) /\ now' = now BY <1>1 DEF Untouched, InTime
<1>2. CASE now' = now /\ TriggerRead(c) /\ schedule[subject[c]].exists
  BY <1>2 DEF TriggerRead, InTime
<1>3. CASE now' = now /\ (Decline(c) \/ StartRun(c)) BY <1>3 DEF Decline, StartRun, InTime
<1>4. ASSUME c = "api", NEW s \in Schedules, NEW row, Edit(s, row) PROVE FALSE
  BY <1>0, <1>4 DEF Edit
<1>5. CASE /\ now' = now
           /\ clock'[c] = now \/ (clock'[c] = clock[c] /\ at[c] \notin {"idle", "store"})
  BY <1>5 DEF InTime
<1> QED BY <1>0, <1>1, <1>2, <1>3, <1>4, <1>5 DEF CallerStep

\* No step lets a date that a caller does not know of fall behind.
LEMMA NextDatesToCome == ASSUME Typed, Timed, [Next]_vars PROVE DatesToCome'
<1>0. Typed' BY NextTyped
<1> SUFFICES ASSUME NEW c \in Callers, at'[c] \in {"decide", "commit", "store"}
             PROVE  /\ \/ schedule'[subject'[c]].next = held'[c].next
                       \/ ToCome(schedule[subject[c]].next)'
                    /\ at'[c] \in {"commit", "store"} =>
                         new'[c].next = held'[c].next \/ ToCome(new[c].next)'
  BY DEF DatesToCome
<1>1. /\ CallerStep(c) /\ at \in [Callers -> Spots] /\ held \in [Callers -> ScheduleRow]
      /\ new \in [Callers -> ScheduleRow] /\ subject \in [Callers -> Schedules \cup {0}]
  BY CallerSteps, TypedParts DEF CallTypes
<1>2. CASE now' = now /\ Untouched(c)
  <2>1. at[c] \in {"decide", "commit", "store"} /\ subject[c] \in Schedules
    BY <1>2 DEF Untouched, Typed, WellFormed
  <2>2. \/ schedule'[subject[c]].next = schedule[subject[c]].next
        \/ ToCome(schedule'[subject[c]].next)
    BY <2>1, DateSteps
  <2>3. /\ schedule[subject[c]].next = held[c].next \/ ToCome(schedule[subject[c]].next)
        /\ at[c] \in {"commit", "store"} => new[c].next = held[c].next \/ ToCome(new[c].next)
    BY <2>1 DEF Timed, DatesToCome
  <2> QED BY <1>2, <2>1, <2>2, <2>3 DEF Untouched, ToCome
<1>3. CASE now' = now /\ TriggerRead(c) /\ schedule[subject[c]].exists
  <2>1. at'[c] = "decide" /\ held'[c] = schedule[subject[c]] BY <1>1, <1>3 DEF TriggerRead
  <2> QED BY <1>3, <2>1 DEF TriggerRead
<1>4. ASSUME now' = now, Decline(c) \/ StartRun(c)
      PROVE  /\ clock[c] = now /\ schedule' = schedule /\ subject' = subject /\ held' = held
             /\ schedule[subject[c]].next = held[c].next \/ ToCome(schedule[subject[c]].next)
  <2>1. at[c] = "decide" BY <1>4 DEF Decline, StartRun
  <2>2. clock[c] = now BY <2>1 DEF Timed, InTime
  <2>3. schedule[subject[c]].next = held[c].next \/ ToCome(schedule[subject[c]].next)
    BY <2>1 DEF Timed, DatesToCome
  <2> QED BY <1>4, <2>2, <2>3 DEF Decline, StartRun
<1>5. CASE now' = now /\ Decline(c)
  <2>1. new'[c].next = held[c].next \/ new'[c].next = Never \/ new'[c].next > clock[c]
    BY <1>5, DeclinedRow
  <2> QED BY <1>4, <1>5, <2>1 DEF ToCome
<1>6. CASE now' = now /\ StartRun(c)
  <2>1. new'[c].next = Following(held[c], clock[c])
    BY <1>6, StartedRow
  <2>2. held[c] \in ScheduleRow /\ clock[c] \in Nat BY <1>1, DatesAreNumbers
  <2>3. new'[c].next = Never \/ new'[c].next > clock[c] BY <2>1, <2>2, FollowingLemma
  <2> QED BY <1>4, <1>6, <2>1, <2>3 DEF ToCome
<1>7. ASSUME now' = now, c = "api", NEW s \in Schedules, NEW row \in EditRows, Edit(s, row)
      PROVE  schedule'[subject'[c]].next = held'[c].next /\ ToCome(new[c].next)'
  <2>1. /\ schedule' = schedule /\ subject'[c] = s /\ held'[c] = schedule[s] /\ new'[c] = row
    BY <1>1, <1>7 DEF Edit
  <2>2. ToCome(row.next) BY DEF EditRows
  <2> QED BY <1>7, <2>1, <2>2 DEF ToCome
<1>8. CASE at'[c] \in {"idle", "list", "loop", "read"} BY <1>8
<1> QED BY <1>1, <1>2, <1>3, <1>5, <1>6, <1>7, <1>8 DEF CallerStep

-----------------------------------------------------------------------------
(* The dates of the runs *)

Planned == Recorded /\ OpenStarts /\ SavedAhead /\ ListAhead
Triggering == {"read", "decide", "commit"}

\* A step that neither starts a run nor saves one nor moves the poll: an open
\* transaction stays as it is, and the poll is at the schedule it was at.
QuietStep ==
  /\ UNCHANGED <<began, due, threads, historyVars>>
  /\ subject'["scheduler"] = subject["scheduler"]
  /\ \/ at'["scheduler"] = at["scheduler"]
     \/ at["scheduler"] = "idle" /\ at'["scheduler"] = "list"
     \/ at["scheduler"] \in Triggering \ {"commit"} /\ at'["scheduler"] \in Triggering
  /\ \A c \in Callers : at[c] = "commit" =>
       now' = now /\ at'[c] = "commit" /\ subject'[c] = subject[c] /\ new'[c] = new[c]

\* An exception that changes no row.
RaiseStep(c) == Raise(c) /\ UNCHANGED <<now, schedule, threads, log, saved>>

\* A commit that finds its schedule.
SaveStep(c) == Commit(c) /\ schedule[subject[c]].exists

\* Every step is one of these.
LEMMA HistorySteps ==
  ASSUME Typed, [Next]_vars
  PROVE  \/ QuietStep \/ PollList \/ PollNext
         \/ \E c \in Callers : RaiseStep(c) \/ StartRun(c) \/ SaveStep(c)
<1>0. CallTypes BY TypedParts
<1>1. ASSUME UNCHANGED <<callVars, threads, historyVars>>, now' = now PROVE QuietStep
  BY <1>1 DEF QuietStep, callVars
<1>2. CASE Tick BY <1>2 DEF Tick, QuietStep, callVars
<1>3. CASE PollSync BY <1>0, <1>3 DEF PollSync, QuietStep, CallTypes, Callers
<1>4. ASSUME NEW c \in Callers, TriggerRead(c) PROVE QuietStep \/ RaiseStep(c)
  <2>1. CASE schedule[subject[c]].exists
    BY <1>0, <1>4, <2>1 DEF TriggerRead, QuietStep, CallTypes, Callers, Triggering, historyVars
  <2>2. CASE ~schedule[subject[c]].exists BY <1>4, <2>2 DEF TriggerRead, RaiseStep
  <2> QED BY <2>1, <2>2
<1>5. ASSUME NEW c \in Callers, Decline(c) PROVE QuietStep
  BY <1>0, <1>5 DEF Decline, QuietStep, CallTypes, Callers, Triggering
<1>6. ASSUME NEW c \in Callers, StartFails(c) \/ CommitFails(c) PROVE RaiseStep(c)
  BY <1>6 DEF StartFails, CommitFails, RaiseStep
<1>7. ASSUME NEW c \in Callers, Commit(c) PROVE RaiseStep(c) \/ SaveStep(c)
  BY <1>7 DEF Commit, RaiseStep, SaveStep
<1>8. ASSUME NEW s \in Schedules, NEW row, Edit(s, row) PROVE QuietStep
  BY <1>0, <1>8 DEF Edit, QuietStep, CallTypes, Callers
<1>9. ASSUME NEW s \in Schedules, RunNow(s) PROVE QuietStep
  BY <1>0, <1>9 DEF RunNow, QuietStep, CallTypes, Callers
<1>10. ASSUME NEW s \in Schedules, NEW p \in Plans, NEW active \in BOOLEAN,
              Insert(s, p, active) \/ Update(s, p, active)
       PROVE  QuietStep
  <2>1. CASE Insert(s, p, active) BY <1>1, <2>1 DEF Insert
  <2>2. CASE Update(s, p, active) BY <1>8, <2>2 DEF Update
  <2> QED BY <1>10, <2>1, <2>2
<1>11. ASSUME NEW s \in Schedules, Activate(s) \/ Deactivate(s) \/ Delete(s) PROVE QuietStep
  <2>1. CASE Activate(s) BY <1>8, <2>1 DEF Activate
  <2>2. CASE Deactivate(s) BY <1>8, <2>2 DEF Deactivate
  <2>3. CASE Delete(s) BY <1>1, <2>3 DEF Delete
  <2> QED BY <1>11, <2>1, <2>2, <2>3
<1>12. ASSUME NEW r \in Runs, Progress(r) \/ LoseRun(r) PROVE QuietStep
  <2>1. UNCHANGED <<now, callVars, threads, historyVars>>
    BY <1>12 DEF Progress, BeginRun, FinishRun, CommitRun, LoseRun
  <2> QED BY <1>1, <2>1
<1>13. CASE UNCHANGED vars BY <1>1, <1>13 DEF vars
<1> QED
  BY <1>2, <1>3, <1>4, <1>5, <1>6, <1>7, <1>9, <1>10, <1>11, <1>12, <1>13
     DEF Next, Trigger

\* The record of a start, at the place of a run that was not saved (StartRun).
LEMMA StartedLog ==
  ASSUME Typed, Timed, Planned, NEW c \in Callers, StartRun(c),
         NEW r, r = Cardinality(threads) + 1
  PROVE  /\ r \in Runs \ threads /\ threads' = threads \cup {r} /\ \A q \in threads' : q <= r
         /\ log'[r].schedule = subject[c] /\ subject[c] \in Schedules
         /\ log'[r].by = c /\ log'[r].time = now
         /\ log'[r].date = IF c = "scheduler" THEN listed.date[subject[c]] ELSE Never
         /\ log'[r].after = IF c = "scheduler" THEN listed.saved ELSE {}
         /\ \A q \in Runs \ {r} : log'[q] = log[q]
         /\ began'[c] = r /\ \A d \in Callers \ {c} : began'[d] = began[d]
         /\ now' = now /\ saved' = saved /\ listed' = listed /\ r \notin saved
<1>1. /\ r \in Runs \ threads /\ threads' = threads \cup {r} /\ \A q \in threads' : q <= r
  BY StartedNumber
<1>2. HistoryTypes BY TypedParts
<1>3. log' = [log EXCEPT ![r] = Start(c)] /\ began' = [began EXCEPT ![c] = r]
  BY DEF StartRun
<1>4. log'[r] = Start(c) /\ \A q \in Runs \ {r} : log'[q] = log[q]
  BY <1>1, <1>2, <1>3 DEF HistoryTypes
<1>5. began'[c] = r /\ \A d \in Callers \ {c} : began'[d] = began[d]
  BY <1>2, <1>3 DEF HistoryTypes
<1>6. subject[c] \in Schedules /\ clock[c] = now
  BY DEF StartRun, Typed, WellFormed, Timed, InTime
<1>7. now' = now /\ saved' = saved /\ listed' = listed BY DEF StartRun
<1>8. r \notin saved BY <1>1 DEF Planned, Recorded
<1> QED BY <1>1, <1>4, <1>5, <1>6, <1>7, <1>8 DEF Start

\* What a commit saves: the run of the transaction, if it started one.
LEMMA SavedRuns ==
  ASSUME Typed, Planned, NEW c \in Callers, SaveStep(c)
  PROVE  /\ UNCHANGED <<now, threads, log, listed, due>>
         /\ saved' = saved \cup ({began[c]} \ {0})
         /\ \A r \in saved' \ saved :
              /\ r = began[c] /\ r # 0 /\ r \in threads
              /\ log[r].by = c /\ log[r].schedule = subject[c]
         /\ at' = [at EXCEPT ![c] = Home(c)]
         /\ subject' = [subject EXCEPT ![c] = 0] /\ new' = [new EXCEPT ![c] = Absent]
         /\ began' = [began EXCEPT ![c] = 0]
<1>1. /\ UNCHANGED <<now, threads, log, listed, due>>
      /\ saved' = saved \cup ({began[c]} \ {0})
      /\ at' = [at EXCEPT ![c] = Home(c)]
      /\ subject' = [subject EXCEPT ![c] = 0] /\ new' = [new EXCEPT ![c] = Absent]
      /\ began' = [began EXCEPT ![c] = 0]
  BY DEF SaveStep, Commit, Forget
<1> QED BY <1>1 DEF Planned, OpenStarts

\* Every step keeps the records of the runs.
LEMMA NextRecorded == ASSUME Typed, Timed, Planned, [Next]_vars PROVE Recorded'
<1>0. /\ saved \subseteq threads /\ listed.saved \subseteq saved
      /\ \A r \in threads : /\ log[r].schedule \in Schedules /\ log[r].time \in 0..now
                            /\ log[r].after \subseteq saved
  BY DEF Planned, Recorded
<1>1. now \in Nat /\ (now' = now \/ now' = now + 1) BY ClockSteps, DatesAreNumbers
<1>2. \A t \in 0..now : t \in 0..now' BY <1>1
<1>3. CASE UNCHANGED <<threads, log, saved>> /\ listed'.saved \subseteq saved
  BY <1>0, <1>2, <1>3 DEF Recorded
<1>4. NoList.saved = {} BY DEF NoList
<1>5. CASE QuietStep BY <1>0, <1>3, <1>5 DEF QuietStep, historyVars
<1>6. CASE PollList BY <1>3, <1>6 DEF PollList
<1>7. CASE PollNext BY <1>0, <1>3, <1>4, <1>7 DEF PollNext
<1>8. ASSUME NEW c \in Callers, RaiseStep(c) PROVE Recorded'
  BY <1>0, <1>3, <1>4, <1>8 DEF RaiseStep, Raise
<1>9. ASSUME NEW c \in Callers, StartRun(c) PROVE Recorded'
  <2>1. PICK r : r = Cardinality(threads) + 1 OBVIOUS
  <2>2. /\ r \in Runs \ threads /\ threads' = threads \cup {r} /\ threads \subseteq Runs
        /\ log'[r].schedule \in Schedules /\ log'[r].time = now
        /\ log'[r].after \subseteq listed.saved
        /\ \A q \in Runs \ {r} : log'[q] = log[q]
        /\ now' = now /\ saved' = saved /\ listed' = listed
    BY <1>9, <2>1, StartedLog DEF Typed, TypeOK
  <2> QED BY <1>0, <1>1, <2>2 DEF Recorded
<1>10. ASSUME NEW c \in Callers, SaveStep(c) PROVE Recorded'
  <2>1. /\ UNCHANGED <<now, threads, log, listed>> /\ saved \subseteq saved'
        /\ saved' \subseteq threads
    BY <1>0, <1>10, SavedRuns
  <2> QED BY <1>0, <2>1 DEF Recorded
<1> QED BY <1>5, <1>6, <1>7, <1>8, <1>9, <1>10, HistorySteps

\* Every step keeps what is known of the open transactions.
LEMMA NextOpenStarts == ASSUME Typed, Timed, Planned, [Next]_vars PROVE OpenStarts'
<1>0. CallTypes /\ HistoryTypes BY TypedParts
<1> DEFINE Open(d) ==
      /\ at[d] = "commit" /\ began[d] \in threads \ saved
      /\ log[began[d]].by = d
      /\ log[began[d]].schedule = subject[d] /\ log[began[d]].time = now
      /\ ToCome(new[d].next)
      /\ \A q \in threads : log[q].by = d => q <= began[d]
<1>1. ASSUME NEW d \in Callers, began[d] # 0 PROVE Open(d)
  BY <1>1 DEF Planned, OpenStarts
<1> SUFFICES ASSUME NEW d \in Callers, began'[d] # 0 PROVE Open(d)'
  BY DEF OpenStarts
<1>2. ASSUME began'[d] = began[d], at'[d] = at[d], subject'[d] = subject[d], new'[d] = new[d],
             now' = now, UNCHANGED <<threads, log, saved>>
      PROVE  Open(d)'
  <2>1. Open(d) BY <1>1, <1>2
  <2> QED BY <1>2, <2>1 DEF ToCome
<1>3. CASE QuietStep
  <2>1. at[d] = "commit" BY <1>1, <1>3 DEF QuietStep
  <2> QED BY <1>2, <1>3, <2>1 DEF QuietStep, historyVars
<1>4. CASE PollList \/ PollNext
  <2>1. began' = began BY <1>4 DEF PollList, PollNext
  <2>2. at[d] = "commit" BY <1>1, <2>1
  <2>3. d # "scheduler" BY <1>4, <2>2 DEF PollList, PollNext
  <2> QED BY <1>0, <1>2, <1>4, <2>3 DEF PollList, PollNext, CallTypes
<1>5. ASSUME NEW c \in Callers, RaiseStep(c) PROVE Open(d)'
  <2>1. d # c BY <1>0, <1>5 DEF RaiseStep, Raise, Forget, HistoryTypes
  <2> QED BY <1>0, <1>2, <1>5, <2>1 DEF RaiseStep, Raise, Forget, CallTypes, HistoryTypes
<1>6. ASSUME NEW c \in Callers, StartRun(c) PROVE Open(d)'
  <2>1. PICK r : r = Cardinality(threads) + 1 OBVIOUS
  <2>2. /\ r \in Runs \ threads /\ threads' = threads \cup {r} /\ \A q \in threads' : q <= r
        /\ log'[r].schedule = subject[c] /\ log'[r].by = c /\ log'[r].time = now
        /\ \A q \in Runs \ {r} : log'[q] = log[q]
        /\ began'[c] = r /\ \A e \in Callers \ {c} : began'[e] = began[e]
        /\ now' = now /\ saved' = saved /\ r \notin saved
    BY <1>6, <2>1, StartedLog
  <2>3. threads \subseteq Runs /\ subject' = subject /\ at' = [at EXCEPT ![c] = "commit"]
    BY <1>6 DEF StartRun, Typed, TypeOK
  <2>4. CASE d = c
    <3>1. new'[c].next = Following(held[c], clock[c]) BY <1>6, StartedRow
    <3>2. clock[c] = now BY <1>6 DEF StartRun, Timed, InTime
    <3>3. held[c] \in ScheduleRow /\ now \in Nat BY <1>0, DatesAreNumbers DEF CallTypes
    <3>4. ToCome(new'[c].next) BY <3>1, <3>2, <3>3, FollowingLemma DEF ToCome
    <3>5. ToCome(new[c].next)' BY <2>2, <3>4 DEF ToCome
    <3> QED BY <1>0, <2>2, <2>3, <2>4, <3>5 DEF CallTypes
  <2>5. CASE d # c
    <3>1. began'[d] = began[d] /\ Open(d) BY <1>1, <2>2, <2>5
    <3>2. /\ at'[d] = at[d] /\ new'[d] = new[d]
      BY <1>0, <1>6, <2>5 DEF StartRun, CallTypes
    <3>3. \A q \in threads' : log'[q].by = d => q <= began[d] BY <2>2, <2>3, <2>5, <3>1
    <3>4. began[d] \in Runs \ {r} BY <2>2, <2>3, <3>1
    <3>5. log'[began[d]] = log[began[d]] BY <2>2, <3>4
    <3> QED BY <2>2, <2>3, <3>1, <3>2, <3>3, <3>5 DEF ToCome
  <2> QED BY <2>4, <2>5
<1>7. ASSUME NEW c \in Callers, SaveStep(c) PROVE Open(d)'
  <2>1. /\ UNCHANGED <<now, threads, log>>
        /\ \A r \in saved' \ saved : log[r].by = c
        /\ at' = [at EXCEPT ![c] = Home(c)]
        /\ subject' = [subject EXCEPT ![c] = 0] /\ new' = [new EXCEPT ![c] = Absent]
        /\ began' = [began EXCEPT ![c] = 0]
    BY <1>7, SavedRuns
  <2>2. d # c BY <1>0, <2>1 DEF HistoryTypes
  <2>3. /\ began'[d] = began[d] /\ at'[d] = at[d] /\ subject'[d] = subject[d] /\ new'[d] = new[d]
    BY <1>0, <2>1, <2>2 DEF CallTypes, HistoryTypes
  <2>4. Open(d) BY <1>1, <2>3
  <2>5. began[d] \notin saved' BY <2>1, <2>2, <2>4
  <2> QED BY <2>1, <2>3, <2>4, <2>5 DEF ToCome
<1> HIDE DEF Open
<1> QED BY <1>3, <1>4, <1>5, <1>6, <1>7, HistorySteps

\* Every step leaves a schedule with a date after the runs saved for it.
LEMMA NextSavedAhead == ASSUME Typed, Timed, Planned, [Next]_vars PROVE SavedAhead'
<1> DEFINE Beyond(s, t) == schedule'[s].next = Never \/ schedule'[s].next > t
<1>0. /\ now \in Nat /\ saved \subseteq threads /\ threads \subseteq Runs
      /\ \A s \in Schedules : schedule[s].next \in Int /\ schedule'[s].next \in Int
      /\ \A r \in threads : log[r].schedule \in Schedules /\ log[r].time \in 0..now
  <2>1. Typed' BY NextTyped
  <2>2. \A s \in Schedules : schedule'[s] \in ScheduleRow BY <2>1 DEF Typed, TypeOK
  <2>3. \A s \in Schedules : schedule'[s].next \in Int BY <2>2 DEF ScheduleRow, Never
  <2> QED BY <2>3, DatesAreNumbers DEF Planned, Recorded, Typed, TypeOK
<1>1. ASSUME NEW r \in saved PROVE Beyond(log[r].schedule, log[r].time)
  <2>1. PICK s \in Schedules : s = log[r].schedule BY <1>0
  <2>2. PICK t \in 0..now : t = log[r].time BY <1>0
  <2>3. schedule[s].next = Never \/ schedule[s].next > t
    BY <2>1, <2>2 DEF Planned, SavedAhead
  <2>4. schedule'[s].next = schedule[s].next \/ ToCome(schedule'[s].next) BY DateSteps
  <2>5. schedule'[s].next = Never \/ schedule'[s].next > t
    BY <1>0, <2>3, <2>4 DEF ToCome
  <2> QED BY <2>1, <2>2, <2>5
<1>2. CASE UNCHANGED <<log, saved>> BY <1>1, <1>2 DEF SavedAhead
<1>3. CASE QuietStep \/ PollList \/ PollNext \/ \E c \in Callers : RaiseStep(c)
  BY <1>2, <1>3 DEF QuietStep, PollList, PollNext, RaiseStep, historyVars
<1>4. ASSUME NEW c \in Callers, StartRun(c) PROVE SavedAhead'
  <2>1. PICK r : r = Cardinality(threads) + 1 OBVIOUS
  <2>2. (\A q \in Runs \ {r} : log'[q] = log[q]) /\ saved' = saved /\ r \notin saved
    BY <1>4, <2>1, StartedLog
  <2>3. \A q \in saved : log'[q] = log[q] BY <1>0, <2>2
  <2> QED BY <1>1, <2>2, <2>3 DEF SavedAhead
<1>5. ASSUME NEW c \in Callers, SaveStep(c) PROVE SavedAhead'
  <2>1. log' = log /\ \A r \in saved' \ saved : r = began[c] /\ r # 0 BY <1>5, SavedRuns
  <2>2. ASSUME began[c] # 0 PROVE Beyond(log[began[c]].schedule, log[began[c]].time)
    <3>1. /\ at[c] = "commit" /\ log[began[c]].schedule = subject[c] /\ ToCome(new[c].next)
          /\ log[began[c]].time = now
      BY <2>2 DEF Planned, OpenStarts
    <3>2. /\ subject[c] \in Schedules
          /\ schedule'[subject[c]].next = IF new[c].next # held[c].next
                                          THEN new[c].next ELSE schedule[subject[c]].next
      BY <1>5, CommitTable DEF SaveStep
    <3>3. schedule[subject[c]].next = held[c].next \/ ToCome(schedule[subject[c]].next)
      BY <3>1 DEF Timed, DatesToCome
    <3>4. ToCome(schedule'[subject[c]].next) BY <3>1, <3>2, <3>3
    <3> QED BY <2>1, <3>1, <3>4 DEF ToCome
  <2>3. \A r \in saved' : Beyond(log[r].schedule, log[r].time) BY <1>1, <2>1, <2>2
  <2> QED BY <2>1, <2>3 DEF SavedAhead
<1> QED BY <1>3, <1>4, <1>5, HistorySteps

\* Every schedule is listed once, with a date that is due (DueSchedules).
LEMMA DueSchedulesDistinct ==
  ASSUME Typed, NEW t, NEW q \in DueSchedules(t)
  PROVE  /\ \A i, j \in DOMAIN q : q[i] = q[j] => i = j
         /\ \A i \in DOMAIN q : q[i] \in Schedules /\ IsDue(q[i], t)
<1> DEFINE D == {s \in Schedules : IsDue(s, t)}
<1>1. IsFiniteSet(D) BY PlansAssumption, FS_Subset
<1>2. Cardinality(D) \in Nat BY <1>1, FS_CardinalityType
<1>3. PICK n \in Nat : n = Cardinality(D) BY <1>2
<1>4. q \in [1..n -> D] /\ \A i, j \in 1..n : i < j => Before(q[i], q[j])
  BY <1>3 DEF DueSchedules
<1>5. ASSUME NEW s \in Schedules PROVE ~Before(s, s)
  <2>1. s \in Nat /\ schedule[s].next \in Int BY PlansAssumption, DatesAreNumbers
  <2> QED BY <2>1 DEF Before
<1>6. \A i \in 1..n : q[i] \in Schedules /\ IsDue(q[i], t) BY <1>4
<1>7. ASSUME NEW i \in 1..n, NEW j \in 1..n, q[i] = q[j] PROVE i = j
  <2>1. ~Before(q[i], q[j]) /\ ~Before(q[j], q[i]) BY <1>5, <1>6, <1>7
  <2>2. ~(i < j) /\ ~(j < i) BY <1>4, <2>1
  <2> QED BY <2>2
<1>8. DOMAIN q = 1..n BY <1>4
<1> QED BY <1>6, <1>7, <1>8

\* The dates of what is pending lie after the runs that count.
Counts(r, s) ==
  log[r].schedule = s /\ (log[r].by = "scheduler" \/ r \in listed.saved)

\* Every step keeps the listed dates of the pending schedules ahead.
LEMMA NextListAhead == ASSUME Typed, Timed, Planned, [Next]_vars PROVE ListAhead'
<1>0. /\ CallTypes /\ HistoryTypes /\ due \in Seq(Schedules)
      /\ saved \subseteq threads /\ threads \subseteq Runs /\ listed.saved \subseteq saved
  BY TypedParts DEF Planned, Recorded, Typed, TypeOK
<1>1. /\ at["scheduler"] \in {"idle", "list"} => due = <<>>
      /\ \A i, j \in DOMAIN due : due[i] = due[j] => i = j
      /\ at["scheduler"] \in Triggering => \A i \in DOMAIN due : due[i] # subject["scheduler"]
      /\ at["scheduler"] # "commit" => began["scheduler"] = 0
      /\ \A s \in Pending, r \in saved : Counts(r, s) => listed.date[s] > log[r].time
  BY DEF Planned, ListAhead, Counts, Triggering
<1>2. ASSUME due' = <<>>, at'["scheduler"] \notin Triggering, began'["scheduler"] = 0
      PROVE  ListAhead'
  <2>1. Pending' = {} BY <1>2 DEF Pending, Triggering
  <2> QED BY <1>2, <2>1 DEF ListAhead, Triggering
<1>3. ASSUME due' = due, listed' = listed,
             at'["scheduler"] \in {"idle", "list"} => at["scheduler"] \in {"idle", "list"},
             at'["scheduler"] \in Triggering =>
               at["scheduler"] \in Triggering /\ subject'["scheduler"] = subject["scheduler"],
             at'["scheduler"] # "commit" => began'["scheduler"] = 0,
             \A s \in Pending', r \in saved' : Counts(r, s)' => r \in saved /\ log'[r] = log[r]
      PROVE  ListAhead'
  <2>1. Pending' \subseteq Pending BY <1>3 DEF Pending, Triggering
  <2>2. ASSUME NEW s \in Pending', NEW r \in saved', Counts(r, s)'
        PROVE  listed'.date[s] > log'[r].time
    <3>1. r \in saved /\ log'[r] = log[r] /\ s \in Pending BY <1>3, <2>1, <2>2
    <3>2. Counts(r, s) BY <1>3, <2>2, <3>1 DEF Counts
    <3>3. listed.date[s] > log[r].time BY <1>1, <3>1, <3>2
    <3> QED BY <1>3, <3>1, <3>3
  <2>3. /\ at'["scheduler"] \in {"idle", "list"} => due' = <<>>
        /\ \A i, j \in DOMAIN due' : due'[i] = due'[j] => i = j
        /\ at'["scheduler"] \in Triggering =>
             \A i \in DOMAIN due' : due'[i] # subject'["scheduler"]
    BY <1>1, <1>3
  <2> QED BY <1>3, <2>2, <2>3 DEF ListAhead, Counts, Triggering
<1>4. CASE QuietStep
  <2>1. /\ UNCHANGED <<began, due, listed, log, saved>>
        /\ subject'["scheduler"] = subject["scheduler"]
        /\ \/ at'["scheduler"] = at["scheduler"]
           \/ at["scheduler"] = "idle" /\ at'["scheduler"] = "list"
           \/ at["scheduler"] \in Triggering \ {"commit"} /\ at'["scheduler"] \in Triggering
    BY <1>4 DEF QuietStep, historyVars
  <2>2. at'["scheduler"] # "commit" => began'["scheduler"] = 0
    BY <1>1, <2>1 DEF Triggering
  <2> QED BY <1>3, <2>1, <2>2 DEF Triggering
<1>5. ASSUME NEW c \in Callers, RaiseStep(c) PROVE ListAhead'
  <2>1. CASE c = "scheduler"
    BY <1>0, <1>2, <1>5, <2>1
       DEF RaiseStep, Raise, Forget, CallTypes, HistoryTypes, Triggering, Callers
  <2>2. CASE c # "scheduler"
    <3>1. /\ at'["scheduler"] = at["scheduler"] /\ subject'["scheduler"] = subject["scheduler"]
          /\ began'["scheduler"] = began["scheduler"] /\ UNCHANGED <<due, listed, log, saved>>
      BY <1>0, <1>5, <2>2 DEF RaiseStep, Raise, Forget, CallTypes, HistoryTypes
    <3> QED BY <1>1, <1>3, <3>1
  <2> QED BY <2>1, <2>2
<1>6. ASSUME NEW c \in Callers, StartRun(c) PROVE ListAhead'
  <2>1. PICK r : r = Cardinality(threads) + 1 OBVIOUS
  <2>2. /\ \A q \in Runs \ {r} : log'[q] = log[q]
        /\ began'[c] = r /\ \A e \in Callers \ {c} : began'[e] = began[e]
        /\ saved' = saved /\ listed' = listed /\ r \notin saved
    BY <1>6, <2>1, StartedLog
  <2>3. \A q \in saved' : q \in saved /\ log'[q] = log[q] BY <1>0, <2>2
  <2>4. /\ due' = due /\ subject' = subject /\ at' = [at EXCEPT ![c] = "commit"]
        /\ at[c] = "decide"
    BY <1>6 DEF StartRun
  <2>5. CASE c = "scheduler"
    BY <1>0, <1>3, <2>2, <2>3, <2>4, <2>5 DEF CallTypes, Triggering
  <2>6. CASE c # "scheduler"
    <3>1. at'["scheduler"] = at["scheduler"] /\ began'["scheduler"] = began["scheduler"]
      BY <1>0, <2>2, <2>4, <2>6 DEF CallTypes, Callers
    <3> QED BY <1>1, <1>3, <2>2, <2>3, <2>4, <3>1
  <2> QED BY <2>5, <2>6
<1>7. ASSUME NEW c \in Callers, SaveStep(c) PROVE ListAhead'
  <2>1. /\ UNCHANGED <<now, threads, log, listed, due>>
        /\ \A r \in saved' \ saved : /\ r = began[c] /\ r # 0 /\ r \in threads
                                     /\ log[r].by = c /\ log[r].schedule = subject[c]
        /\ at' = [at EXCEPT ![c] = Home(c)]
        /\ subject' = [subject EXCEPT ![c] = 0] /\ began' = [began EXCEPT ![c] = 0]
    BY <1>7, SavedRuns
  <2>2. CASE c = "scheduler"
    <3>1. at'["scheduler"] = "loop" /\ began'["scheduler"] = 0
      BY <1>0, <2>1, <2>2 DEF Home, CallTypes, HistoryTypes
    <3>2. at["scheduler"] \in Triggering
      BY <1>0, <1>7, <2>2 DEF SaveStep, Commit, CallTypes, Triggering, Typed, WellFormed
    <3>3. subject["scheduler"] \notin Pending'
      BY <1>1, <2>1, <3>1, <3>2 DEF Pending
    <3>4. \A s \in Pending', r \in saved' : Counts(r, s)' => r \in saved /\ log'[r] = log[r]
      BY <2>1, <2>2, <3>3 DEF Counts
    <3> QED BY <1>3, <2>1, <3>1, <3>4 DEF Triggering
  <2>3. CASE c # "scheduler"
    <3>1. /\ at'["scheduler"] = at["scheduler"] /\ subject'["scheduler"] = subject["scheduler"]
          /\ began'["scheduler"] = began["scheduler"]
      BY <1>0, <2>1, <2>3 DEF CallTypes, HistoryTypes, Callers
    <3>2. \A s \in Pending', r \in saved' : Counts(r, s)' => r \in saved /\ log'[r] = log[r]
      BY <1>0, <2>1, <2>3 DEF Counts
    <3> QED BY <1>1, <1>3, <2>1, <3>1, <3>2
  <2> QED BY <2>2, <2>3
<1>8. CASE PollList
  <2>1. /\ at["scheduler"] = "list" /\ due' \in DueSchedules(clock["scheduler"])
        /\ listed' = [date |-> [s \in Schedules |-> schedule[s].next], saved |-> saved]
        /\ at'["scheduler"] = "loop" /\ UNCHANGED <<began, log, saved>>
    BY <1>0, <1>8 DEF PollList, CallTypes, Callers
  <2>2. /\ \A i, j \in DOMAIN due' : due'[i] = due'[j] => i = j
        /\ \A i \in DOMAIN due' : due'[i] \in Schedules /\ IsDue(due'[i], clock["scheduler"])
    BY <2>1, DueSchedulesDistinct
  <2>3. Pending' = {due'[i] : i \in DOMAIN due'} BY <2>1 DEF Pending
  <2>4. ASSUME NEW s \in Pending', NEW r \in saved', Counts(r, s)'
        PROVE  listed'.date[s] > log'[r].time
    <3>1. s \in Schedules /\ schedule[s].next # Never BY <2>2, <2>3 DEF IsDue
    <3>2. schedule[s].next > log[r].time
      BY <2>1, <2>4, <3>1 DEF Planned, SavedAhead, Counts
    <3> QED BY <2>1, <3>1, <3>2
  <2>5. began'["scheduler"] = 0 BY <1>1, <2>1
  <2> QED BY <2>1, <2>2, <2>4, <2>5 DEF ListAhead, Counts
<1>9. CASE PollNext
  <2>1. CASE due = <<>>
    <3>1. at'["scheduler"] = "idle" /\ due' = <<>> /\ began' = began /\ at["scheduler"] = "loop"
      BY <1>0, <1>9, <2>1 DEF PollNext, CallTypes, Callers
    <3> QED BY <1>1, <1>2, <3>1 DEF Triggering
  <2>2. CASE due # <<>>
    <3>1. /\ at'["scheduler"] = "read" /\ at["scheduler"] = "loop"
          /\ subject'["scheduler"] = due[1] /\ due' = Tail(due)
          /\ UNCHANGED <<began, listed, log, saved>>
      BY <1>0, <1>9, <2>2 DEF PollNext, CallTypes, Callers
    <3>2. /\ 1 \in DOMAIN due
          /\ \A i \in DOMAIN due' : i + 1 \in DOMAIN due /\ due'[i] = due[i + 1] /\ i + 1 # 1
      BY <1>0, <2>2, <3>1
    <3>3. \A i, j \in DOMAIN due' : due'[i] = due'[j] => i = j
      <4>1. \A i, j \in DOMAIN due' : due'[i] = due'[j] => i + 1 = j + 1 BY <1>1, <3>2
      <4>2. \A i \in DOMAIN due' : i \in Nat BY <1>0, <2>2, <3>1
      <4> QED BY <4>1, <4>2
    <3>4. \A i \in DOMAIN due' : due'[i] # subject'["scheduler"] BY <1>1, <3>1, <3>2
    <3>5. Pending' \subseteq Pending BY <3>1, <3>2 DEF Pending
    <3>6. ASSUME NEW s \in Pending', NEW r \in saved', Counts(r, s)'
          PROVE  listed'.date[s] > log'[r].time
      <4>1. Counts(r, s) BY <3>1, <3>6 DEF Counts
      <4> QED BY <1>1, <3>1, <3>5, <4>1
    <3>7. began'["scheduler"] = 0 BY <1>1, <3>1
    <3> QED BY <3>1, <3>3, <3>4, <3>6, <3>7 DEF ListAhead, Counts
  <2> QED BY <2>1, <2>2
<1> QED BY <1>4, <1>5, <1>6, <1>7, <1>8, <1>9, HistorySteps

\* Every step keeps the dates of the scheduler's runs ahead of the runs that
\* preceded them.
LEMMA NextNoBurst == ASSUME Typed, Timed, Planned, NoBurst, [Next]_vars PROVE NoBurst'
<1>0. /\ saved \subseteq threads /\ threads \subseteq Runs /\ listed.saved \subseteq saved
      /\ \A r \in threads : log[r].after \subseteq saved
  BY DEF Planned, Recorded, Typed, TypeOK
<1>1. CASE UNCHANGED <<threads, log, saved>> BY <1>1 DEF NoBurst, Preceded
<1>2. CASE QuietStep \/ PollList \/ PollNext \/ \E c \in Callers : RaiseStep(c)
  BY <1>1, <1>2 DEF QuietStep, PollList, PollNext, RaiseStep, historyVars
<1>3. ASSUME NEW c \in Callers, StartRun(c) PROVE NoBurst'
  <2> SUFFICES ASSUME NEW q \in threads', NEW p \in saved', log'[q].by = "scheduler",
                      log'[p].schedule = log'[q].schedule, Preceded(p, q)'
               PROVE  log'[q].date > log'[p].time
    BY DEF NoBurst
  <2>1. PICK r : r = Cardinality(threads) + 1 OBVIOUS
  <2>2. /\ r \in Runs \ threads /\ threads' = threads \cup {r}
        /\ log'[r].schedule = subject[c] /\ subject[c] \in Schedules /\ log'[r].by = c
        /\ log'[r].date = IF c = "scheduler" THEN listed.date[subject[c]] ELSE Never
        /\ log'[r].after = IF c = "scheduler" THEN listed.saved ELSE {}
        /\ \A m \in Runs \ {r} : log'[m] = log[m]
        /\ saved' = saved
    BY <1>3, <2>1, StartedLog
  <2>3. p \in saved /\ p \in threads /\ log'[p] = log[p] BY <1>0, <2>2
  <2>4. CASE q # r
    <3>1. q \in threads /\ log'[q] = log[q] BY <1>0, <2>2, <2>4
    <3> QED BY <2>3, <3>1 DEF NoBurst, Preceded
  <2>5. CASE q = r
    <3>1. c = "scheduler" BY <2>2, <2>5
    <3>2. subject[c] \in Pending BY <1>3, <3>1 DEF StartRun, Pending
    <3>3. Counts(p, subject[c]) BY <2>2, <2>3, <2>5, <3>1 DEF Preceded, Counts
    <3>4. listed.date[subject[c]] > log[p].time
      BY <2>3, <3>2, <3>3 DEF Planned, ListAhead, Counts
    <3> QED BY <2>2, <2>3, <2>5, <3>1, <3>4
  <2> QED BY <2>4, <2>5
<1>4. ASSUME NEW c \in Callers, SaveStep(c) PROVE NoBurst'
  <2>1. /\ UNCHANGED <<threads, log>>
        /\ \A r \in saved' \ saved : r = began[c] /\ r # 0 /\ r \in threads /\ log[r].by = c
    BY <1>4, SavedRuns
  <2>2. ASSUME NEW q \in threads, NEW p \in saved' \ saved, log[q].by = "scheduler"
        PROVE  ~Preceded(p, q)
    <3>1. p = began[c] /\ p \in Runs /\ q \in Runs /\ log[p].by = c /\ p # 0 BY <1>0, <2>1
    <3>2. CASE c = "scheduler"
      <4>1. q <= p BY <2>2, <3>1, <3>2 DEF Planned, OpenStarts
      <4> QED BY <3>1, <4>1 DEF Preceded, Runs
    <3>3. CASE c # "scheduler"
      <4>1. p \notin log[q].after BY <1>0
      <4> QED BY <3>1, <3>3, <4>1 DEF Preceded
    <3> QED BY <3>2, <3>3
  <2> QED BY <2>1, <2>2 DEF NoBurst, Preceded
<1> QED BY <1>2, <1>3, <1>4, HistorySteps

\* The scheduler starts a run only for a date after every earlier run that was
\* saved for the schedule: StartRun and Commit of trigger_schedule and the list
\* of process_due_schedules, whatever commits between them.
THEOREM NoBurstCorrect == Spec => []NoBurst
<1> DEFINE Inv == Typed /\ Timed /\ Planned /\ NoBurst
<1>1. Init => Inv
  <2>1. Init => InTime /\ DatesToCome BY DEF Init, InTime, DatesToCome
  <2>2. ASSUME Init PROVE Recorded /\ OpenStarts /\ SavedAhead /\ NoBurst
    BY <2>2 DEF Init, Recorded, OpenStarts, SavedAhead, NoBurst, NoList
  <2>3. ASSUME Init PROVE ListAhead BY <2>3 DEF Init, ListAhead, Callers
  <2> QED BY <2>1, <2>2, <2>3, InitTyped DEF Timed, Planned
<1>2. Inv /\ [Next]_vars => Inv'
  <2>1. ASSUME Inv, [Next]_vars
        PROVE  /\ Typed' /\ InTime' /\ DatesToCome'
               /\ Recorded' /\ OpenStarts' /\ SavedAhead' /\ ListAhead' /\ NoBurst'
    BY <2>1, NextTyped, NextInTime, NextDatesToCome, NextRecorded, NextOpenStarts,
       NextSavedAhead, NextListAhead, NextNoBurst
       DEF Timed
  <2> QED BY <2>1 DEF Timed, Planned
<1>3. Inv => NoBurst OBVIOUS
<1> HIDE DEF Inv
<1> QED BY <1>1, <1>2, <1>3, PTL DEF Spec
=============================================================================
