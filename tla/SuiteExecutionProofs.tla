------------------------ MODULE SuiteExecutionProofs ------------------------
(* Proofs about SuiteExecution for all suites and any number of updates.   *)
EXTENDS SuiteExecution, SequenceTheorems, TLAPS

-----------------------------------------------------------------------------
(* Lemmas about the operators of the model *)

\* Closing the row of an item changes that row only, and only its status,
\* its error text and its stuck command (CloseRow).
LEMMA CloseRowLemma ==
  ASSUME rows \in Seq(Row), rows # <<>>, NEW failed \in BOOLEAN,
         NEW blank \in BOOLEAN, NEW stuck \in {0, 1}
  PROVE  LET c == CloseRow(failed, blank, stuck)
             n == Len(rows)
         IN  /\ c \in Seq(Row)
             /\ Len(c) = n
             /\ \A j \in 1..(n - 1) : c[j] = rows[j]
             /\ c[n].status = ItemStatus(failed) /\ c[n].blank = blank
             /\ c[n].test = rows[n].test /\ c[n].phase = rows[n].phase
             /\ c[n].stuck = stuck /\ c[n].done = rows[n].done
<1> DEFINE n == Len(rows)
           new == [rows[n] EXCEPT !.status = ItemStatus(failed),
                                  !.blank = blank, !.stuck = stuck]
<1>0. CloseRow(failed, blank, stuck) = [rows EXCEPT ![n] = new]
  BY DEF CloseRow
<1>1. rows[n] \in Row /\ n \in 1..n
  OBVIOUS
<1>2. new \in Row BY <1>1 DEF Row, ItemStatus
<1> HIDE DEF new
<1>3. /\ [rows EXCEPT ![n] = new] \in Seq(Row)
      /\ Len([rows EXCEPT ![n] = new]) = Len(rows)
      /\ \A j \in 1..Len(rows) : [rows EXCEPT ![n] = new][j] = IF j = n THEN new ELSE rows[j]
  BY <1>1, <1>2, ExceptSeq
<1>4. CloseRow(failed, blank, stuck)[n] = new
  BY <1>0, <1>1, <1>3
<1>5. /\ new.status = ItemStatus(failed) /\ new.blank = blank
      /\ new.test = rows[n].test /\ new.phase = rows[n].phase
      /\ new.stuck = stuck /\ new.done = rows[n].done
  BY <1>1 DEF new, Row
<1>6. n \in Nat /\ \A j \in 1..(n - 1) : j \in 1..n /\ j # n
  OBVIOUS
<1> DEFINE c == CloseRow(failed, blank, stuck)
<1>7. c = [rows EXCEPT ![n] = new] /\ c[n] = new BY <1>0, <1>4
<1> HIDE DEF c, n
<1>8. /\ c \in Seq(Row) /\ Len(c) = n
      /\ \A j \in 1..n : c[j] = IF j = n THEN new ELSE rows[j]
  BY <1>3, <1>7 DEF n
<1>9. \A j \in 1..(n - 1) : c[j] = rows[j]
  BY <1>6, <1>8
<1> QED BY <1>5, <1>7, <1>8, <1>9 DEF c, n

\* Counting a command changes the last row only (CountCommand).
LEMMA CountCommandLemma ==
  ASSUME rows \in Seq(Row), rows # <<>>
  PROVE  LET n == Len(rows)
         IN  /\ CountCommand \in Seq(Row)
             /\ Len(CountCommand) = n
             /\ \A j \in 1..(n - 1) : CountCommand[j] = rows[j]
             /\ CountCommand[n] = [rows[n] EXCEPT !.done = rows[n].done + 1]
<1> DEFINE n == Len(rows)
           r == rows[n]
           new == [r EXCEPT !.done = r.done + 1]
<1>0. CountCommand = [rows EXCEPT ![n] = new]
  BY DEF CountCommand
<1>1. r \in Row /\ n \in 1..n
  OBVIOUS
<1>2. new \in Row
  <2> HIDE DEF r
  <2> QED BY <1>1, SMTT(20) DEF Row
<1> HIDE DEF new
<1>3. /\ [rows EXCEPT ![n] = new] \in Seq(Row)
      /\ Len([rows EXCEPT ![n] = new]) = Len(rows)
      /\ \A j \in 1..Len(rows) : [rows EXCEPT ![n] = new][j] = IF j = n THEN new ELSE rows[j]
  BY <1>1, <1>2, ExceptSeq
<1> QED BY <1>0, <1>1, <1>3 DEF new

\* The order of the phases never leaves the executor's locations (AfterItem).
LEMMA AfterItemType ==
  ASSUME NEW p \in ItemPhases, NEW failed \in BOOLEAN
  PROVE  AfterItem(p, failed) \in Locations
BY DEF AfterItem, ItemPhases, HookPhases, Locations

\* Every published event is well-formed (ItemEvent, Progress, EndEvents).
LEMMA EventTypes ==
  ASSUME TypeOK, NEW p \in ItemPhases
  PROVE  /\ \A name \in EventNames, st \in {"running", "success", "error"} :
              ItemEvent(name, p, st) \in Events
         /\ \A n \in Nat : Progress(n) \in Events
BY DEF TypeOK, DataTypes, ItemEvent, Progress, Event, Events, EventNames, Iteration

\* The events at the end of an item are well-formed (EndEvents).
LEMMA EndEventsType ==
  ASSUME TypeOK, pc \in ItemPhases, NEW failed \in BOOLEAN,
         NEW published \in Seq(Events)
  PROVE  EndEvents(failed, published) \in Seq(Events)
<1> DEFINE e == ItemEvent("item_finished", pc, ItemStatus(failed))
           g == Progress(executed + 1)
           t == IF pc = "test" THEN <<g>> ELSE <<>>
<1>1. e \in Events BY EventTypes DEF ItemStatus, EventNames
<1>2. g \in Events BY EventTypes DEF TypeOK, DataTypes
<1>3. events \in Seq(Events) BY DEF TypeOK, DataTypes
<1> HIDE DEF e, g
<1>4. t \in Seq(Events) BY <1>2
<1>5. <<e>> \in Seq(Events) BY <1>1
<1> HIDE DEF t
<1>6. (events \o published) \o <<e>> \in Seq(Events)
  BY <1>3, <1>5, ConcatProperties
<1>7. ((events \o published) \o <<e>>) \o t \in Seq(Events)
  BY <1>4, <1>6, ConcatProperties
<1> QED BY <1>7 DEF EndEvents, e, g, t

-----------------------------------------------------------------------------
(* Types *)

Typed == TypeOK /\ RunningRow /\ Positioned

\* A new thread is well typed (Init).
LEMMA InitTyped == Init => Typed
<1> SUFFICES ASSUME Init PROVE Typed
  OBVIOUS
<1>1. target \in [test : Nat, version : Nat]
  <2>1. Len(suite.tests) \in Nat BY SuitesAssumption DEF Init, SuiteDef
  <2> QED BY <2>1 DEF Init
<1>2. hooks \in [HookPhases -> HeldHook] BY DEF Init, NoHook, HeldHook
<1>3. dict \in [Dicts -> SUBSET Nat] BY DEF Init
<1>4. rows \in Seq(Row) /\ events \in Seq(Events) /\ tests \in Seq(HeldTest)
  BY EmptySeq DEF Init
<1>5. FlagTypes BY DEF Init, FlagTypes
<1>6. DataTypes
  BY <1>1, <1>2, <1>3, <1>4 DEF Init, DataTypes, Locations, Dicts, Unbound
<1> QED BY <1>5, <1>6 DEF Init, Typed, TypeOK, RunningRow, Positioned, InLoop, Unbound

\* The end of an item keeps the types, whatever became of the context.
LEMMA EndItemTyped ==
  ASSUME Typed, busy, NEW failed \in BOOLEAN, NEW blank \in BOOLEAN,
         NEW stuck \in {0, 1}, NEW published \in Seq(Events),
         EndItem(failed, blank, stuck, published),
         dict' \in [Dicts -> SUBSET Nat], globals' \in SUBSET ItemPhases,
         last' \in Nat
  PROVE  Typed'
<1>1. pc \in ItemPhases /\ rows # <<>> BY DEF Typed, RunningRow
<1>2. rows' \in Seq(Row) BY <1>1, CloseRowLemma DEF Typed, TypeOK, DataTypes, EndItem
<1>3. events' \in Seq(Events) BY <1>1, EndEventsType DEF Typed, EndItem
<1>4. pc' \in Locations BY <1>1, AfterItemType DEF EndItem
<1>5. firstError' \in Nat BY DEF Typed, TypeOK, DataTypes, EndItem, FirstError
<1>6. FlagTypes' BY DEF Typed, TypeOK, FlagTypes, EndItem
<1>10. kind' = Unbound.kind /\ bound' = Unbound.bound /\ saved' = Unbound /\ ~busy'
  BY DEF Typed, RunningRow, EndItem, Unbind
<1>11. kind' \in {"hook", "test"} /\ bound' \in Dicts
       /\ saved' \in [kind : {"hook", "test"}, bound : Dicts]
  BY <1>10 DEF Unbound, Dicts
<1>7. DataTypes'
  BY <1>2, <1>3, <1>4, <1>5, <1>11
     DEF Typed, TypeOK, DataTypes, EndItem, dbVars, planVars, Dicts
<1>8. RunningRow' BY <1>10 DEF RunningRow
<1>9. Positioned'
  BY <1>1 DEF Typed, TypeOK, DataTypes, EndItem, AfterItem, Positioned, InLoop, planVars,
              ItemPhases, HookPhases
<1> QED BY <1>6, <1>7, <1>8, <1>9 DEF Typed, TypeOK

\* A write keeps the dicts and the writers well typed (WriteConstant).
LEMMA WriteConstantTyped ==
  ASSUME Typed, busy, NEW c \in Scopes, WriteConstant(c)
  PROVE  dict' \in [Dicts -> SUBSET Nat] /\ globals' \in SUBSET ItemPhases
BY DEF Typed, TypeOK, DataTypes, RunningRow, WriteConstant, Iteration

\* Every step of the executor and of the API handlers keeps the types.
LEMMA NextTyped == Typed /\ [Next]_vars => Typed'
<1> SUFFICES ASSUME Typed, [Next]_vars PROVE Typed'
  OBVIOUS
<1> USE DEF Typed, TypeOK
<1>1. ASSUME NEW from \in {"created", "described"}, NEW to \in {"described", "load_hooks"},
             FindSuite(from, to), ~busy
      PROVE  Typed'
  <2>1. FlagTypes' BY <1>1 DEF FindSuite, FlagTypes, loopVars, itemVars
  <2>2. DataTypes'
    BY <1>1 DEF FindSuite, DataTypes, dbVars, planVars, loopVars, itemVars, ctxVars, Locations
  <2>3. RunningRow' BY <1>1 DEF FindSuite, RunningRow, itemVars
  <2>4. Positioned'
    BY <1>1 DEF FindSuite, Positioned, InLoop, loopVars
  <2> QED BY <2>1, <2>2, <2>3, <2>4
<1>2. ASSUME pc \notin ItemPhases PROVE ~busy
  BY <1>2 DEF RunningRow
<1>3. CASE LoadDescription \/ OpenExecution
  <2>1. ~busy
    BY <1>2, <1>3 DEF LoadDescription, OpenExecution, FindSuite, ItemPhases, HookPhases
  <2> QED BY <1>1, <1>3, <2>1 DEF LoadDescription, OpenExecution, Locations
<1>4. CASE LoadHook
  <2>1. ~busy BY <1>2, <1>4 DEF LoadHook, ItemPhases, HookPhases
  <2>2. FlagTypes' BY <1>4 DEF LoadHook, FlagTypes, loopVars, itemVars
  <2>3. Len(HookOrder) = 4 /\ \A i \in 1..4 : HookOrder[i] \in HookPhases
    BY DEF HookOrder, HookPhases
  <2>4. \A p \in HookPhases : suite.hooks[p] \in HookDef
    BY SuitesAssumption DEF DataTypes, SuiteDef
  <2>5. /\ hooks' \in [HookPhases -> HeldHook]
        /\ loaded' \in 0..4
    <3> DEFINE p == HookOrder[loaded + 1]
               h == suite.hooks[p]
               new == [present |-> h.present, commands |-> h.commands, version |-> version]
    <3>1. loaded' \in 0..4 /\ p \in HookPhases BY <1>4, <2>3 DEF LoadHook, DataTypes
    <3>2. new \in HeldHook
      <4>1. h \in HookDef /\ version \in Nat BY <2>4, <3>1 DEF DataTypes
      <4> HIDE DEF h
      <4> QED BY <4>1 DEF HookDef, HeldHook
    <3>3. hooks' = [hooks EXCEPT ![p] = new] BY <1>4 DEF LoadHook
    <3> HIDE DEF p, new
    <3> QED BY <3>1, <3>2, <3>3 DEF DataTypes
  <2>6. DataTypes'
    BY <1>4, <2>5 DEF LoadHook, DataTypes, dbVars, loopVars, itemVars, ctxVars, Locations
  <2>7. RunningRow' BY <1>4, <2>1 DEF LoadHook, RunningRow, itemVars
  <2>8. Positioned' BY <1>4 DEF LoadHook, Positioned, InLoop, loopVars
  <2> QED BY <2>2, <2>6, <2>7, <2>8
<1>5. CASE LoadTests
  <2>1. ~busy BY <1>2, <1>5 DEF LoadTests, ItemPhases, HookPhases
  <2>2. FlagTypes' BY <1>5 DEF LoadTests, FlagTypes, loopVars, itemVars
  <2>3. suite.tests \in Seq(TestDef)
    BY SuitesAssumption DEF DataTypes, SuiteDef
  <2>4. /\ Stamped(suite.tests, version) \in Seq(HeldTest)
        /\ Len(Stamped(suite.tests, version)) = Len(suite.tests)
    <3> DEFINE t == suite.tests
               e(i) == [on_failure |-> t[i].on_failure,
                        commands |-> t[i].commands, version |-> version]
    <3>1. \A i \in 1..Len(t) : e(i) \in HeldTest
      <4> SUFFICES ASSUME NEW i \in 1..Len(t) PROVE e(i) \in HeldTest
        OBVIOUS
      <4>1. t[i] \in TestDef BY <2>3
      <4>2. version \in Nat BY DEF DataTypes
      <4> HIDE DEF t
      <4> QED BY <4>1, <4>2 DEF TestDef, HeldTest
    <3>2. Stamped(t, version) = [i \in 1..Len(t) |-> e(i)]
      BY <2>3 DEF Stamped
    <3> HIDE DEF e
    <3> QED BY <2>3, <3>1, <3>2
  <2>5. TargetExists => Resolved(suite.tests, version) \in Seq(HeldTest)
    BY <2>4 DEF TargetExists, Resolved, DataTypes
  <2>6. <<Event("suite_started", "suite", 0, "running"), Progress(0)>> \in Seq(Events)
    <3>1. Event("suite_started", "suite", 0, "running") \in Events /\ Progress(0) \in Events
      BY DEF Event, Progress, Events, EventNames
    <3> QED BY <3>1
  <2>7. tests' \in Seq(HeldTest) /\ events' \in Seq(Events) /\ pc' \in Locations
    BY <1>5, <2>5, <2>6 DEF LoadTests, DataTypes, Locations, ItemPhases, HookPhases
  <2>8. DataTypes'
    BY <1>5, <2>7 DEF LoadTests, DataTypes, dbVars, loopVars, itemVars, ctxVars
  <2>9. RunningRow' BY <1>5, <2>1 DEF LoadTests, RunningRow, itemVars
  <2>10. Positioned' BY <1>5 DEF LoadTests, Positioned, InLoop, loopVars
  <2> QED BY <2>2, <2>8, <2>9, <2>10
<1>6. ASSUME NEW p \in ItemPhases, StartItem(p) PROVE Typed'
  <2>1. FlagTypes' BY <1>6 DEF StartItem, FlagTypes, loopVars
  <2>2. Planned(p).commands \in Nat
    <3>1. CASE p = "test"
      <4>1. tests[k] \in HeldTest
        BY <1>6, <3>1 DEF StartItem, Positioned, InLoop, DataTypes
      <4> QED BY <3>1, <4>1 DEF Planned, HeldTest
    <3>2. CASE p # "test"
      <4>1. hooks[p] \in HeldHook BY <3>2 DEF ItemPhases, DataTypes
      <4> QED BY <3>2, <4>1 DEF Planned, HeldHook
    <3> QED BY <3>1, <3>2
  <2>3. todo' \in Nat BY <1>6, <2>2 DEF StartItem, StoredCommands
  <2> DEFINE r == [phase |-> p, test |-> Iteration(p), status |-> "running",
                   done |-> 0, stuck |-> 0, blank |-> FALSE]
  <2>4. r \in Row BY DEF Row, DataTypes, Iteration
  <2>5. /\ rows' \in Seq(Row) /\ rows' # <<>>
        /\ Len(rows') = Len(rows) + 1 /\ rows'[Len(rows')] = r
    <3> HIDE DEF r
    <3>1. rows' = Append(rows, r) BY <1>6 DEF StartItem, r
    <3> QED BY <2>4, <3>1 DEF DataTypes
  <2>6. events' \in Seq(Events)
    <3>1. ItemEvent("item_started", p, "running") \in Events
      BY EventTypes DEF EventNames
    <3> QED BY <1>6, <3>1, AppendProperties DEF StartItem, DataTypes
  <2>7. dict' \in [Dicts -> SUBSET Nat] BY <1>6 DEF StartItem, DataTypes
  <2>8. DataTypes'
    BY <1>6, <2>3, <2>5, <2>6, <2>7
       DEF StartItem, DataTypes, dbVars, planVars, loopVars, Dicts
  <2>9. RunningRow'
    <3>1. saved' = Unbound BY <1>6 DEF StartItem, RunningRow, Unbound
    <3> QED BY <1>6, <2>5, <3>1 DEF StartItem, RunningRow, loopVars, Iteration
  <2>10. Positioned' BY <1>6 DEF StartItem, Positioned, InLoop, loopVars, planVars
  <2> QED BY <2>1, <2>8, <2>9, <2>10
<1>7. ASSUME NEW c \in Scopes, RunCommand(c) PROVE Typed'
  <2>0. pc \in ItemPhases /\ rows # <<>> /\ rows \in Seq(Row)
    BY <1>7 DEF RunCommand, RunningRow, DataTypes
  <2>1. FlagTypes' BY <1>7 DEF RunCommand, FlagTypes, loopVars
  <2>2. dict' \in [Dicts -> SUBSET Nat] /\ globals' \in SUBSET ItemPhases
    BY <1>7, WriteConstantTyped DEF RunCommand
  <2>3. events' \in Seq(Events)
    <3>1. ItemEvent("command_finished", pc, "success") \in Events
      BY <2>0, EventTypes DEF EventNames
    <3> QED BY <1>7, <3>1, AppendProperties DEF RunCommand, DataTypes
  <2>4. rows' \in Seq(Row) BY <1>7, <2>0, CountCommandLemma DEF RunCommand
  <2>5. todo' \in Nat BY <1>7 DEF RunCommand, DataTypes
  <2>6. DataTypes'
    BY <1>7, <2>2, <2>3, <2>4, <2>5 DEF RunCommand, DataTypes, dbVars, planVars, loopVars
  <2>7. RunningRow'
    <3> DEFINE n == Len(rows)
    <3>1. /\ Len(rows') = n /\ rows' # <<>>
          /\ rows'[n] = [rows[n] EXCEPT !.done = rows[n].done + 1]
      BY <1>7, <2>0, CountCommandLemma DEF RunCommand
    <3>2. rows[n] \in Row BY <2>0
    <3>3. /\ rows'[n].phase = rows[n].phase /\ rows'[n].test = rows[n].test
          /\ rows'[n].status = rows[n].status /\ rows'[n].stuck = rows[n].stuck
      BY <3>1, <3>2 DEF Row
    <3> QED BY <1>7, <3>1, <3>3 DEF RunCommand, RunningRow, loopVars, Iteration
  <2>8. Positioned' BY <1>7 DEF RunCommand, Positioned, InLoop, loopVars, planVars
  <2> QED BY <2>1, <2>6, <2>7, <2>8
<1>8. ASSUME NEW c \in Scopes, CommandFails(c) PROVE Typed'
  <2>1. busy BY <1>8 DEF CommandFails
  <2>2. dict' \in [Dicts -> SUBSET Nat] /\ globals' \in SUBSET ItemPhases /\ last' \in Nat
    BY <1>8, <2>1, WriteConstantTyped DEF CommandFails, DataTypes
  <2>3. PICK blank \in BOOLEAN :
          EndItem(TRUE, blank, 0, <<ItemEvent("command_finished", pc, "error")>>)
    BY <1>8 DEF CommandFails
  <2>4. <<ItemEvent("command_finished", pc, "error")>> \in Seq(Events)
    <3>1. ItemEvent("command_finished", pc, "error") \in Events
      BY <2>1, EventTypes DEF RunningRow, EventNames
    <3> QED BY <3>1
  <2> QED BY <2>1, <2>2, <2>3, <2>4, EndItemTyped
<1>9. CASE ConvertFails
  <2>1. dict' \in [Dicts -> SUBSET Nat] /\ globals' \in SUBSET ItemPhases /\ last' \in Nat
    BY <1>9 DEF ConvertFails, DataTypes, ctxVars
  <2> QED BY <1>9, <2>1, EndItemTyped, EmptySeq DEF ConvertFails
<1>10. CASE ItemSucceeds
  <2>1. dict' \in [Dicts -> SUBSET Nat] /\ globals' \in SUBSET ItemPhases /\ last' \in Nat
    BY <1>10 DEF ItemSucceeds, DataTypes, Iteration
  <2> QED BY <1>10, <2>1, EndItemTyped, EmptySeq DEF ItemSucceeds
<1>11. ASSUME NEW p \in HookPhases, SkipHook(p) PROVE Typed'
  <2>0. p \in ItemPhases /\ pc = p BY <1>11 DEF ItemPhases, SkipHook
  <2>1. FlagTypes' BY <1>11 DEF SkipHook, FlagTypes, loopVars, itemVars
  <2>2. pc' \in Locations BY <1>11, <2>0, AfterItemType DEF SkipHook
  <2>3. DataTypes'
    BY <1>11, <2>2 DEF SkipHook, DataTypes, dbVars, planVars, loopVars, itemVars, ctxVars
  <2>4. RunningRow' BY <1>11 DEF SkipHook, RunningRow, itemVars
  <2>5. Positioned'
    BY <1>11, <2>0 DEF SkipHook, AfterItem, Positioned, InLoop, planVars, loopVars,
                       HookPhases, DataTypes
  <2> QED BY <2>1, <2>3, <2>4, <2>5
<1>12. CASE EndTest
  <2>0. ~busy BY <1>2, <1>12 DEF EndTest, ItemPhases, HookPhases
  <2>1. FlagTypes' BY <1>12 DEF EndTest, FlagTypes, itemVars
  <2>2. k' \in Nat \ {0} /\ pc' \in Locations
    BY <1>12 DEF EndTest, DataTypes, Locations, ItemPhases, HookPhases
  <2>3. dict' \in [Dicts -> SUBSET Nat] BY <1>12 DEF EndTest, FreshLocals, DataTypes
  <2>4. DataTypes'
    BY <1>12, <2>2, <2>3 DEF EndTest, DataTypes, dbVars, planVars, itemVars
  <2>5. RunningRow' BY <1>12, <2>0 DEF EndTest, RunningRow, itemVars
  <2>6. Positioned'
    BY <1>12 DEF EndTest, LoopStops, Positioned, InLoop, planVars, DataTypes
  <2> QED BY <2>1, <2>4, <2>5, <2>6
<1>13. CASE Finalize
  <2>0. ~busy BY <1>2, <1>13 DEF Finalize, ItemPhases, HookPhases
  <2>1. FlagTypes' BY <1>13 DEF Finalize, FlagTypes, itemVars, loopVars
  <2>2. events' \in Seq(Events)
    <3>1. Event("suite_finished", "suite", firstError, Verdict) \in Events
      BY DEF Event, Events, EventNames, Verdict, DataTypes
    <3> QED BY <1>13, <3>1, AppendProperties DEF Finalize, DataTypes
  <2>3. DataTypes'
    BY <1>13, <2>2
       DEF Finalize, DataTypes, dbVars, planVars, loopVars, itemVars, ctxVars, Locations
  <2>4. RunningRow' BY <1>13, <2>0 DEF Finalize, RunningRow, itemVars
  <2>5. Positioned' BY <1>13 DEF Finalize, Positioned, InLoop
  <2> QED BY <2>1, <2>3, <2>4, <2>5
<1>14. CASE CommitRun
  <2>0. ~busy BY <1>2, <1>14 DEF CommitRun, ItemPhases, HookPhases
  <2>1. FlagTypes' BY <1>14 DEF CommitRun, FlagTypes, itemVars, loopVars
  <2>2. DataTypes'
    BY <1>14 DEF CommitRun, Verdict, DataTypes, dbVars, planVars, loopVars, itemVars,
                 ctxVars, Locations
  <2>3. RunningRow' BY <1>14, <2>0 DEF CommitRun, RunningRow, itemVars
  <2>4. Positioned' BY <1>14 DEF CommitRun, Positioned, InLoop
  <2> QED BY <2>1, <2>2, <2>3, <2>4
<1>15. CASE RollBack
  <2>1. FlagTypes' BY <1>15 DEF RollBack, FlagTypes, loopVars
  <2>2. rows' \in Seq(Row) BY <1>15, EmptySeq DEF RollBack
  <2>6. kind' = Unbound.kind /\ bound' = Unbound.bound /\ saved' = Unbound /\ ~busy'
    BY <1>15 DEF RollBack, RunningRow, Unbind
  <2>7. kind' \in {"hook", "test"} /\ bound' \in Dicts
        /\ saved' \in [kind : {"hook", "test"}, bound : Dicts]
    BY <2>6 DEF Unbound, Dicts
  <2>3. DataTypes'
    BY <1>15, <2>2, <2>7
       DEF RollBack, DataTypes, dbVars, planVars, loopVars, ctxVars, Locations
  <2>4. RunningRow' BY <2>6 DEF RunningRow
  <2>5. Positioned' BY <1>15 DEF RollBack, Positioned, InLoop
  <2> QED BY <2>1, <2>3, <2>4, <2>5
<1>16. ASSUME NEW s \in Suites, UpdateSuite(s) PROVE Typed'
  <2>1. FlagTypes' BY <1>16 DEF UpdateSuite, FlagTypes, loopVars, itemVars
  <2>2. DataTypes'
    BY <1>16 DEF UpdateSuite, DataTypes, planVars, loopVars, itemVars, ctxVars
  <2>3. RunningRow'
    BY <1>16 DEF UpdateSuite, RunningRow, itemVars, loopVars, Iteration
  <2>4. Positioned' BY <1>16 DEF UpdateSuite, Positioned, InLoop, planVars, loopVars
  <2> QED BY <2>1, <2>2, <2>3, <2>4
<1>17. CASE DeleteSuite
  <2>1. FlagTypes' BY <1>17 DEF DeleteSuite, FlagTypes, loopVars, itemVars
  <2>2. DataTypes'
    BY <1>17 DEF DeleteSuite, DataTypes, planVars, loopVars, itemVars, ctxVars
  <2>3. RunningRow'
    BY <1>17 DEF DeleteSuite, RunningRow, itemVars, loopVars, Iteration
  <2>4. Positioned' BY <1>17 DEF DeleteSuite, Positioned, InLoop, planVars, loopVars
  <2> QED BY <2>1, <2>2, <2>3, <2>4
<1>18. CASE UNCHANGED vars
  <2> USE DEF vars, dbVars, planVars, loopVars, itemVars, ctxVars
  <2>1. FlagTypes' BY <1>18 DEF FlagTypes
  <2>2. DataTypes' BY <1>18 DEF DataTypes
  <2>3. RunningRow' BY <1>18 DEF RunningRow, Iteration
  <2>4. Positioned' BY <1>18 DEF Positioned, InLoop
  <2> QED BY <2>1, <2>2, <2>3, <2>4
<1> QED
  BY <1>3, <1>4, <1>5, <1>6, <1>7, <1>8, <1>9, <1>10, <1>11, <1>12, <1>13,
     <1>14, <1>15, <1>16, <1>17, <1>18 DEF Next, Executor

\* Every state the executor reaches is well typed, for every set of suites and
\* every number of concurrent updates (TypeOK).
THEOREM TypeCorrect == Spec => []TypeOK
<1>1. Typed => TypeOK BY DEF Typed
<1> QED BY InitTyped, NextTyped, <1>1, PTL DEF Spec

-----------------------------------------------------------------------------
(* What the steps of the executor do to the rows *)

\* Starting an item appends one row that is no failure (StartItem).
LEMMA StartItemRows ==
  ASSUME Typed, NEW p \in ItemPhases, StartItem(p)
  PROVE  /\ rows \in Seq(Row) /\ rows' \in Seq(Row)
         /\ Len(rows') = Len(rows) + 1
         /\ \A i \in 1..Len(rows) : rows'[i] = rows[i]
         /\ rows'[Len(rows) + 1].test = Iteration(p)
         /\ rows'[Len(rows) + 1].status = "running"
         /\ rows'[Len(rows) + 1].phase = p
         /\ rows'[Len(rows) + 1].stuck = 0 /\ rows'[Len(rows) + 1].done = 0
<1> DEFINE r == [phase |-> p, test |-> Iteration(p), status |-> "running",
                 done |-> 0, stuck |-> 0, blank |-> FALSE]
<1>1. rows \in Seq(Row) BY DEF Typed, TypeOK, DataTypes
<1>2. r \in Row BY DEF Row, Typed, TypeOK, DataTypes, Iteration
<1>3. rows' = Append(rows, r) BY DEF StartItem
<1>4. r.test = Iteration(p) /\ r.status = "running" /\ r.phase = p
      /\ r.stuck = 0 /\ r.done = 0
  OBVIOUS
<1> HIDE DEF r
<1> QED BY <1>1, <1>2, <1>3, <1>4

\* A command changes nothing but the count of the last row (RunCommand).
LEMMA RunCommandRows ==
  ASSUME Typed, NEW c \in Scopes, RunCommand(c)
  PROVE  /\ rows \in Seq(Row) /\ rows' \in Seq(Row)
         /\ Len(rows') = Len(rows)
         /\ \A i \in 1..Len(rows) :
              /\ rows'[i].status = rows[i].status /\ rows'[i].blank = rows[i].blank
              /\ rows'[i].test = rows[i].test /\ rows'[i].phase = rows[i].phase
              /\ rows'[i].stuck = rows[i].stuck
              /\ rows'[i].done = IF i = Len(rows) THEN rows[i].done + 1 ELSE rows[i].done
<1> DEFINE n == Len(rows)
<1>1. rows \in Seq(Row) /\ rows # <<>>
  BY DEF Typed, TypeOK, DataTypes, RunCommand, RunningRow
<1>2. /\ rows' \in Seq(Row) /\ Len(rows') = n
      /\ \A j \in 1..(n - 1) : rows'[j] = rows[j]
      /\ rows'[n] = [rows[n] EXCEPT !.done = rows[n].done + 1]
  BY <1>1, CountCommandLemma DEF RunCommand
<1>3. rows[n] \in Row BY <1>1
<1>4. /\ rows'[n].status = rows[n].status /\ rows'[n].blank = rows[n].blank
      /\ rows'[n].test = rows[n].test /\ rows'[n].phase = rows[n].phase
      /\ rows'[n].stuck = rows[n].stuck /\ rows'[n].done = rows[n].done + 1
  BY <1>2, <1>3 DEF Row
<1>5. n \in Nat \ {0} /\ \A i \in 1..n : i \in 1..(n - 1) \/ i = n BY <1>1
<1> HIDE DEF n
<1>6. \A i \in 1..n :
        /\ rows'[i].status = rows[i].status /\ rows'[i].blank = rows[i].blank
        /\ rows'[i].test = rows[i].test /\ rows'[i].phase = rows[i].phase
        /\ rows'[i].stuck = rows[i].stuck
        /\ rows'[i].done = IF i = n THEN rows[i].done + 1 ELSE rows[i].done
  BY <1>2, <1>4, <1>5
<1> QED BY <1>1, <1>2, <1>6 DEF n

\* The end of an item decides the last row, which was running (EndItem).
LEMMA EndItemRows ==
  ASSUME Typed, busy, NEW failed \in BOOLEAN, NEW blank \in BOOLEAN,
         NEW stuck \in {0, 1}, NEW published, EndItem(failed, blank, stuck, published)
  PROVE  /\ rows \in Seq(Row) /\ rows' \in Seq(Row)
         /\ Len(rows) \in Nat \ {0} /\ Len(rows') = Len(rows)
         /\ \A i \in 1..(Len(rows) - 1) : rows'[i] = rows[i]
         /\ rows[Len(rows)].status = "running"
         /\ rows[Len(rows)].test = Iteration(pc) /\ rows[Len(rows)].phase = pc
         /\ rows'[Len(rows)].status = ItemStatus(failed)
         /\ rows'[Len(rows)].blank = blank
         /\ rows'[Len(rows)].test = Iteration(pc) /\ rows'[Len(rows)].phase = pc
         /\ rows'[Len(rows)].stuck = stuck /\ rows'[Len(rows)].done = rows[Len(rows)].done
<1> DEFINE n == Len(rows)
<1>1. rows \in Seq(Row) /\ rows # <<>>
  BY DEF Typed, TypeOK, DataTypes, RunningRow
<1>2. rows' = CloseRow(failed, blank, stuck) BY DEF EndItem
<1>3. /\ rows' \in Seq(Row) /\ Len(rows') = n
      /\ \A j \in 1..(n - 1) : rows'[j] = rows[j]
      /\ rows'[n].status = ItemStatus(failed) /\ rows'[n].blank = blank
      /\ rows'[n].test = rows[n].test /\ rows'[n].phase = rows[n].phase
      /\ rows'[n].stuck = stuck /\ rows'[n].done = rows[n].done
  BY <1>1, <1>2, CloseRowLemma
<1>5. /\ rows[n].status = "running"
      /\ rows[n].test = Iteration(pc) /\ rows[n].phase = pc
  BY DEF Typed, RunningRow
<1> QED BY <1>1, <1>3, <1>5

\* Every step starts, advances or ends an item, gives up the run, or leaves
\* the rows and the verdict alone.
LEMMA StepKinds ==
  ASSUME Typed, [Next]_vars
  PROVE  \/ \E p \in ItemPhases : StartItem(p)
         \/ \E c \in Scopes : RunCommand(c)
         \/ /\ busy /\ pc \in ItemPhases
            /\ \E failed, blank \in BOOLEAN, stuck \in {0, 1}, published \in Seq(Events) :
                 /\ EndItem(failed, blank, stuck, published)
                 /\ failed \/ (todo = 0 /\ stuck = 0)
         \/ RollBack
         \/ /\ UNCHANGED <<rows, anyError, firstError, tests, k, testFailed, busy, todo>>
            /\ pc = "lost" => pc' = "lost"
            /\ Looping' => Looping
         \/ LoadTests
         \/ EndTest
<1> USE DEF dbVars, planVars, loopVars, itemVars, ctxVars
<1>1. ASSUME busy PROVE pc \in ItemPhases BY <1>1 DEF Typed, RunningRow
<1>2. CASE \E p \in ItemPhases : StartItem(p) BY <1>2
<1>3. CASE \E c \in Scopes : RunCommand(c) BY <1>3
<1>4. ASSUME NEW c \in Scopes, CommandFails(c)
      PROVE  /\ busy
             /\ \E failed, blank \in BOOLEAN, stuck \in {0, 1}, published \in Seq(Events) :
                  /\ EndItem(failed, blank, stuck, published)
                  /\ failed \/ (todo = 0 /\ stuck = 0)
  <2>1. <<ItemEvent("command_finished", pc, "error")>> \in Seq(Events)
    <3>1. ItemEvent("command_finished", pc, "error") \in Events
      BY <1>1, <1>4, EventTypes DEF CommandFails, EventNames, Typed
    <3> QED BY <3>1
  <2> QED BY <1>4, <2>1 DEF CommandFails
<1>5. ASSUME ConvertFails \/ ItemSucceeds
      PROVE  /\ busy
             /\ \E failed, blank \in BOOLEAN, stuck \in {0, 1}, published \in Seq(Events) :
                  /\ EndItem(failed, blank, stuck, published)
                  /\ failed \/ (todo = 0 /\ stuck = 0)
  <2>1. CASE ConvertFails BY <2>1, EmptySeq DEF ConvertFails
  <2>2. CASE ItemSucceeds BY <2>2, EmptySeq DEF ItemSucceeds
  <2> QED BY <1>5, <2>1, <2>2
<1>6. CASE LoadDescription \/ OpenExecution
  BY <1>6 DEF LoadDescription, OpenExecution, FindSuite, Looping, InLoop
<1>7. CASE LoadHook BY <1>7 DEF LoadHook, Looping, InLoop
<1>8. CASE LoadTests BY <1>8
<1>9. CASE \E p \in HookPhases : SkipHook(p) 
  BY <1>9 DEF SkipHook, HookPhases, AfterItem, Looping, InLoop
<1>10. CASE EndTest BY <1>10
<1>11. CASE Finalize \/ CommitRun BY <1>11 DEF Finalize, CommitRun, Looping, InLoop
<1>12. CASE \E s \in Suites : UpdateSuite(s) BY <1>12 DEF UpdateSuite, Looping, InLoop
<1>13. CASE DeleteSuite BY <1>13 DEF DeleteSuite, Looping, InLoop
<1>14. CASE UNCHANGED vars BY <1>14 DEF vars, Looping, InLoop
<1> QED
  BY <1>1, <1>2, <1>3, <1>4, <1>5, <1>6, <1>7, <1>8, <1>9, <1>10, <1>11, <1>12,
     <1>13, <1>14 DEF Next, Executor

-----------------------------------------------------------------------------
(* The verdict *)

\* The bookkeeping at the end of an item follows its row (EndItem).
LEMMA EndItemVerdict ==
  ASSUME Typed, busy, JustVerdict, NEW failed \in BOOLEAN, NEW blank \in BOOLEAN,
         NEW stuck \in {0, 1}, NEW published, EndItem(failed, blank, stuck, published)
  PROVE  JustVerdict'
<1> DEFINE n == Len(rows)
<1>1. n \in Nat \ {0} /\ DOMAIN rows = 1..n /\ DOMAIN rows' = 1..n
  BY EndItemRows
<1>2. /\ \A i \in 1..(n - 1) : rows'[i] = rows[i]
      /\ rows[n].status = "running"
      /\ rows'[n].status = ItemStatus(failed) /\ rows'[n].blank = blank
  BY EndItemRows
<1>3. (\E i \in DOMAIN rows' : rows'[i].status = "error")
        <=> failed \/ \E i \in DOMAIN rows : rows[i].status = "error"
  BY <1>1, <1>2 DEF ItemStatus
<1>4. anyError' <=> \E i \in DOMAIN rows' : rows'[i].status = "error"
  BY <1>3 DEF EndItem, JustVerdict, Failed
<1>5. firstError' = IF failed /\ ~blank /\ firstError = 0 THEN n ELSE firstError
  BY DEF EndItem, FirstError
<1>6. \/ /\ firstError' = 0
         /\ \A i \in DOMAIN rows' : ~(rows'[i].status = "error" /\ ~rows'[i].blank)
      \/ /\ firstError' \in DOMAIN rows'
         /\ rows'[firstError'].status = "error" /\ ~rows'[firstError'].blank
         /\ \A i \in DOMAIN rows' :
              i < firstError' => ~(rows'[i].status = "error" /\ ~rows'[i].blank)
  BY <1>1, <1>2, <1>5 DEF JustVerdict, Telling, Failed, ItemStatus
<1> QED BY <1>4, <1>6 DEF JustVerdict, Telling, Failed

\* Every step keeps any_error and first_error_message in line with the rows.
LEMMA NextBookkept ==
  ASSUME Typed, Bookkept, [Next]_vars PROVE Bookkept'
<1>1. ASSUME NEW p \in ItemPhases, StartItem(p) PROVE Bookkept'
  <2> DEFINE n == Len(rows)
  <2>1. pc # "lost" BY <1>1 DEF StartItem, ItemPhases, HookPhases
  <2>2. /\ n \in Nat /\ DOMAIN rows = 1..n /\ DOMAIN rows' = 1..(n + 1)
        /\ \A i \in 1..n : rows'[i] = rows[i]
        /\ rows'[n + 1].status = "running"
    BY <1>1, StartItemRows
  <2>3. UNCHANGED <<anyError, firstError>> BY <1>1 DEF StartItem, loopVars
  <2> HIDE DEF n
  <2>4. anyError' <=> \E i \in DOMAIN rows' : rows'[i].status = "error"
    BY <2>1, <2>2, <2>3 DEF Bookkept, JustVerdict, Failed
  <2>5. \/ /\ firstError' = 0
           /\ \A i \in DOMAIN rows' : ~(rows'[i].status = "error" /\ ~rows'[i].blank)
        \/ /\ firstError' \in DOMAIN rows'
           /\ rows'[firstError'].status = "error" /\ ~rows'[firstError'].blank
           /\ \A i \in DOMAIN rows' :
                i < firstError' => ~(rows'[i].status = "error" /\ ~rows'[i].blank)
    BY <2>1, <2>2, <2>3 DEF Bookkept, JustVerdict, Telling, Failed
  <2> QED BY <2>4, <2>5 DEF Bookkept, JustVerdict, Telling, Failed
<1>2. ASSUME NEW c \in Scopes, RunCommand(c) PROVE Bookkept'
  <2> DEFINE n == Len(rows)
  <2>1. pc # "lost" BY <1>2 DEF RunCommand, Typed, RunningRow, ItemPhases, HookPhases
  <2>2. /\ n \in Nat /\ DOMAIN rows = 1..n /\ DOMAIN rows' = 1..n
        /\ \A i \in 1..n : rows'[i].status = rows[i].status /\ rows'[i].blank = rows[i].blank
    BY <1>2, RunCommandRows
  <2>3. UNCHANGED <<anyError, firstError>> BY <1>2 DEF RunCommand, loopVars
  <2> HIDE DEF n
  <2> QED BY <2>1, <2>2, <2>3 DEF Bookkept, JustVerdict, Telling, Failed
<1>3. ASSUME busy, pc \in ItemPhases,
             NEW failed \in BOOLEAN, NEW blank \in BOOLEAN, NEW stuck \in {0, 1},
             NEW published, EndItem(failed, blank, stuck, published)
      PROVE  Bookkept'
  <2>1. JustVerdict BY <1>3 DEF Bookkept, ItemPhases, HookPhases
  <2> QED BY <1>3, <2>1, EndItemVerdict DEF Bookkept
<1>4. CASE RollBack BY <1>4 DEF RollBack, Bookkept
<1>5. CASE UNCHANGED <<rows, anyError, firstError>> /\ (pc = "lost" => pc' = "lost")
  BY <1>5 DEF Bookkept, JustVerdict, Telling, Failed
<1>6. CASE LoadTests
  BY <1>6 DEF LoadTests, Bookkept, JustVerdict, Telling, Failed, loopVars
<1>7. CASE EndTest
  BY <1>7 DEF EndTest, Bookkept, JustVerdict, Telling, Failed
<1> QED BY <1>1, <1>2, <1>3, <1>4, <1>5, <1>6, <1>7, StepKinds

\* The verdict of a run is the one its items justify, whatever the suite, the
\* failures and the concurrent updates (VerdictSound).
THEOREM VerdictCorrect == Spec => []VerdictSound
<1> DEFINE Inv == Typed /\ Bookkept
<1>1. Init => Inv
  <2>1. Init => Bookkept BY DEF Init, Bookkept, JustVerdict, Failed, Telling
  <2> QED BY <2>1, InitTyped
<1>2. Inv /\ [Next]_vars => Inv'
  BY NextTyped, NextBookkept
<1>3. Inv => VerdictSound BY DEF Bookkept, VerdictSound, Finishing
<1> QED BY <1>1, <1>2, <1>3, PTL DEF Spec

-----------------------------------------------------------------------------
(* The abort *)

\* Nothing is recorded before LoadTests.
LEMMA NextFresh == ASSUME Typed, Fresh, [Next]_vars PROVE Fresh'
<1> USE DEF dbVars, planVars, loopVars, itemVars, ctxVars
<1>1. CASE LoadDescription \/ OpenExecution
  BY <1>1 DEF LoadDescription, OpenExecution, FindSuite, Fresh
<1>2. CASE LoadHook \/ LoadTests BY <1>2 DEF LoadHook, LoadTests, Fresh
<1>3. ASSUME NEW p \in ItemPhases, StartItem(p) PROVE Fresh'
  BY <1>3 DEF StartItem, Fresh, ItemPhases, HookPhases
<1>4. ASSUME busy PROVE pc \in ItemPhases BY <1>4 DEF Typed, RunningRow
<1>5. ASSUME NEW c \in Scopes, RunCommand(c) PROVE Fresh'
  BY <1>4, <1>5 DEF RunCommand, Fresh, ItemPhases, HookPhases
<1>6. ASSUME busy, NEW failed, NEW blank, NEW stuck, NEW published,
             EndItem(failed, blank, stuck, published)
      PROVE  Fresh'
  BY <1>4, <1>6 DEF EndItem, Fresh, AfterItem, ItemPhases, HookPhases
<1>7. CASE \E c \in Scopes : CommandFails(c)
  BY <1>6, <1>7 DEF CommandFails
<1>8. CASE ConvertFails \/ ItemSucceeds BY <1>6, <1>8 DEF ConvertFails, ItemSucceeds
<1>9. CASE \E p \in HookPhases : SkipHook(p)
  BY <1>9 DEF SkipHook, HookPhases, AfterItem, Fresh
<1>10. CASE EndTest \/ Finalize \/ CommitRun \/ RollBack
  BY <1>10 DEF EndTest, Finalize, CommitRun, RollBack, Fresh
<1>11. CASE (\E s \in Suites : UpdateSuite(s)) \/ DeleteSuite
  BY <1>11 DEF UpdateSuite, DeleteSuite, Fresh
<1>12. CASE UNCHANGED vars BY <1>12 DEF vars, Fresh
<1> QED
  BY <1>1, <1>2, <1>3, <1>5, <1>7, <1>8, <1>9, <1>10, <1>11, <1>12 DEF Next, Executor

\* Every step keeps the failures of the past out of reach of the abort: they are
\* in the current cycle, and flagged, or in the cycle of a test that goes on.
LEMMA NextAborting ==
  ASSUME Typed, Fresh, Aborting, [Next]_vars PROVE Aborting'
<1> USE DEF Aborting, AbortIsFinal, Failed
<1>0. rows \in Seq(Row) /\ k \in Nat \ {0}
      /\ \A i \in DOMAIN rows : rows[i].test \in Nat
  <2>1. rows \in Seq(Row) /\ k \in Nat \ {0} BY DEF Typed, TypeOK, DataTypes
  <2>2. \A i \in DOMAIN rows : rows[i] \in Row BY <2>1
  <2> QED BY <2>1, <2>2 DEF Row
<1>1. ASSUME NEW p \in ItemPhases, StartItem(p) PROVE Aborting'
  <2> DEFINE n == Len(rows)
  <2>1. /\ n \in Nat /\ DOMAIN rows = 1..n /\ DOMAIN rows' = 1..(n + 1)
        /\ \A i \in 1..n : rows'[i] = rows[i]
        /\ rows'[n + 1].status = "running" /\ rows'[n + 1].test = Iteration(p)
    BY <1>1, StartItemRows
  <2>2. UNCHANGED <<pc, tests, k, testFailed>> /\ pc = p
    BY <1>1 DEF StartItem, planVars, loopVars
  <2>3. Iteration(p) \in {0, k} /\ (Iteration(p) # 0 => InLoop)
    BY <2>2 DEF Iteration, InLoop, SuiteHooks, ItemPhases, HookPhases
  <2> HIDE DEF n
  <2>4. \A i \in DOMAIN rows' : rows'[i].test <= k'
    BY <1>0, <2>1, <2>2, <2>3
  <2>5. Looping' =>
          \A i \in DOMAIN rows' : rows'[i].status = "error" /\ rows'[i].test > 0 =>
            \/ rows'[i].test = k' /\ testFailed'
            \/ tests'[rows'[i].test].on_failure # "ABORT"
    BY <2>1, <2>2 DEF Looping, InLoop
  <2>6. ASSUME NEW i \in DOMAIN rows', NEW j \in DOMAIN rows',
               i < j, rows'[i].status = "error", rows'[i].test > 0,
               tests'[rows'[i].test].on_failure = "ABORT"
        PROVE  rows'[j].test \in {0, rows'[i].test}
    <3>1. i \in 1..n /\ rows'[i] = rows[i] BY <2>1, <2>6
    <3>2. CASE j = n + 1
      BY <2>1, <2>2, <2>3, <2>6, <3>1, <3>2 DEF Looping
    <3>3. CASE j # n + 1
      <4>1. j \in 1..n /\ rows'[j] = rows[j] BY <2>1, <3>3
      <4> QED BY <2>1, <2>2, <2>6, <3>1, <4>1
    <3> QED BY <3>2, <3>3
  <2> QED BY <2>4, <2>5, <2>6
<1>2. ASSUME NEW c \in Scopes, RunCommand(c) PROVE Aborting'
  <2>1. /\ DOMAIN rows' = DOMAIN rows
        /\ \A i \in DOMAIN rows : rows'[i].status = rows[i].status /\ rows'[i].test = rows[i].test
    BY <1>2, RunCommandRows
  <2>2. UNCHANGED <<pc, tests, k, testFailed>>
    BY <1>2 DEF RunCommand, planVars, loopVars
  <2> QED BY <2>1, <2>2 DEF Looping, InLoop
<1>3. ASSUME busy, pc \in ItemPhases,
             NEW failed \in BOOLEAN, NEW blank \in BOOLEAN, NEW stuck \in {0, 1},
             NEW published, EndItem(failed, blank, stuck, published)
      PROVE  Aborting'
  <2> DEFINE n == Len(rows)
  <2>1. /\ n \in Nat \ {0} /\ DOMAIN rows = 1..n /\ DOMAIN rows' = 1..n
        /\ \A i \in 1..(n - 1) : rows'[i] = rows[i]
        /\ rows'[n].status = ItemStatus(failed)
        /\ rows[n].test = Iteration(pc) /\ rows'[n].test = Iteration(pc)
    BY <1>3, EndItemRows
  <2>2. /\ UNCHANGED <<tests, k>> /\ pc' = AfterItem(pc, failed)
        /\ testFailed' = (testFailed \/ (failed /\ pc \notin SuiteHooks))
    BY <1>3 DEF EndItem, planVars
  <2>3. \A i \in 1..n : rows'[i].test = rows[i].test /\ (i # n => rows'[i] = rows[i])
    BY <2>1
  <2>4. Looping' => Looping
    BY <1>3, <2>2 DEF AfterItem, Looping, InLoop, ItemPhases, HookPhases
  <2> HIDE DEF n
  <2>5. \A i \in DOMAIN rows' : rows'[i].test <= k' BY <2>1, <2>2, <2>3
  <2>6. ASSUME Looping', NEW i \in DOMAIN rows', rows'[i].status = "error", rows'[i].test > 0
        PROVE  \/ rows'[i].test = k' /\ testFailed'
               \/ tests'[rows'[i].test].on_failure # "ABORT"
    <3>1. CASE i = n
      <4>1. failed /\ pc \notin SuiteHooks /\ rows'[i].test = k
        BY <2>1, <2>6, <3>1 DEF Iteration, ItemStatus
      <4> QED BY <2>2, <4>1
    <3>2. CASE i # n
      BY <2>1, <2>2, <2>3, <2>4, <2>6, <3>2
    <3> QED BY <3>1, <3>2
  <2>7. ASSUME NEW i \in DOMAIN rows', NEW j \in DOMAIN rows',
               i < j, rows'[i].status = "error", rows'[i].test > 0,
               tests'[rows'[i].test].on_failure = "ABORT"
        PROVE  rows'[j].test \in {0, rows'[i].test}
    BY <2>1, <2>2, <2>3, <2>7
  <2> QED BY <2>5, <2>6, <2>7
<1>4. CASE RollBack BY <1>4 DEF RollBack
<1>5. CASE UNCHANGED <<rows, tests, k, testFailed>> /\ (Looping' => Looping)
  BY <1>5
<1>6. CASE LoadTests
  <2>1. rows = <<>> /\ rows' = rows BY <1>6 DEF LoadTests, Fresh
  <2> QED BY <2>1
<1>7. CASE EndTest
  <2>1. UNCHANGED <<rows, tests>> /\ pc = "end_test" BY <1>7 DEF EndTest, planVars
  <2>2. CASE LoopStops
    <3>1. k' = k /\ pc' = "after_all" BY <1>7, <2>2 DEF EndTest
    <3> QED BY <2>1, <3>1 DEF Looping, InLoop
  <2>3. CASE ~LoopStops
    <3>1. k' = k + 1 /\ pc' = "before_each" BY <1>7, <2>3 DEF EndTest
    <3>2. testFailed => tests[k].on_failure # "ABORT" BY <2>3 DEF LoopStops
    <3>3. \A i \in DOMAIN rows : rows[i].test <= k + 1 BY <1>0
    <3>4. \A i \in DOMAIN rows : Failed(i) /\ rows[i].test > 0 =>
            tests[rows[i].test].on_failure # "ABORT"
      BY <2>1, <3>2 DEF Looping, InLoop
    <3> QED BY <2>1, <3>1, <3>3, <3>4
  <2> QED BY <2>2, <2>3
<1> QED BY <1>1, <1>2, <1>3, <1>4, <1>5, <1>6, <1>7, StepKinds

\* No test starts after a failure in the cycle of an aborting test, however
\* many tests the suite has and whatever its hooks do (AbortIsFinal).
THEOREM AbortCorrect == Spec => []AbortIsFinal
<1> DEFINE Inv == Typed /\ Fresh /\ Aborting
<1>1. Init => Inv
  <2>1. Init => Fresh /\ Aborting
    BY DEF Init, Fresh, Aborting, AbortIsFinal, Failed
  <2> QED BY <2>1, InitTyped
<1>2. Inv /\ [Next]_vars => Inv'
  BY NextTyped, NextFresh, NextAborting
<1>3. Inv => AbortIsFinal BY DEF Aborting
<1> QED BY <1>1, <1>2, <1>3, PTL DEF Spec

-----------------------------------------------------------------------------
(* Isolation of the constants *)

\* A write of the running item goes to the dict of its own iteration.
LEMMA WriteIsolated ==
  ASSUME Typed, Isolated, busy, NEW c \in Scopes, WriteConstant(c)
  PROVE  /\ dict'["base"] = {} /\ dict'["iteration"] \subseteq {k}
         /\ dict'["hook"] \subseteq {0}
<1>1. dict \in [Dicts -> SUBSET Nat] /\ pc \in ItemPhases
  BY DEF Typed, TypeOK, DataTypes, RunningRow
<1>2. CASE pc \in SuiteHooks
  <2>1. bound = "hook" /\ Iteration(pc) = 0 BY <1>2 DEF Typed, RunningRow, Iteration
  <2> QED BY <1>1, <2>1 DEF WriteConstant, Isolated, Dicts
<1>3. CASE pc \notin SuiteHooks
  <2>1. bound = "iteration" /\ Iteration(pc) = k BY <1>3 DEF Typed, RunningRow, Iteration
  <2> QED BY <1>1, <2>1 DEF WriteConstant, Isolated, Dicts
<1> QED BY <1>2, <1>3

\* The end of an item keeps the constants of the iterations apart (EndItem).
LEMMA EndItemIsolated ==
  ASSUME Typed, Isolated, busy, NEW failed, NEW blank, NEW stuck, NEW published,
         EndItem(failed, blank, stuck, published),
         dict'["base"] = {}, dict'["iteration"] \subseteq {k}, dict'["hook"] \subseteq {0},
         last' \in {last, Iteration(pc)}
  PROVE  Isolated'
<1>1. pc \in ItemPhases /\ last \in {0, Iteration(pc)}
  BY DEF Typed, RunningRow, Isolated
<1>2. k' = k /\ pc' = AfterItem(pc, failed) BY DEF EndItem
<1>3. /\ pc' \in ItemPhases => last' \in {0, IF pc' \in SuiteHooks THEN 0 ELSE k'}
      /\ pc' \notin {"created", "described", "load_hooks"}
  BY <1>1, <1>2 DEF AfterItem, ItemPhases, HookPhases, Iteration, SuiteHooks
<1> QED BY <1>2, <1>3 DEF Isolated, Iteration

\* Every step keeps the constants of the iterations apart.
LEMMA NextIsolated == ASSUME Typed, Isolated, [Next]_vars PROVE Isolated'
<1> USE DEF dbVars, planVars, loopVars, itemVars, ctxVars
<1>0. dict \in [Dicts -> SUBSET Nat] BY DEF Typed, TypeOK, DataTypes
<1>1. CASE LoadDescription \/ OpenExecution
  BY <1>1 DEF LoadDescription, OpenExecution, FindSuite, Isolated, ItemPhases, HookPhases
<1>2. CASE LoadHook \/ LoadTests
  BY <1>2 DEF LoadHook, LoadTests, Isolated, ItemPhases, HookPhases
<1>3. ASSUME NEW p \in ItemPhases, StartItem(p) PROVE Isolated'
  BY <1>0, <1>3 DEF StartItem, Isolated, Iteration, Dicts
<1>4. ASSUME NEW c \in Scopes, RunCommand(c) PROVE Isolated'
  <2>1. busy /\ WriteConstant(c) /\ UNCHANGED <<pc, k, last>> BY <1>4 DEF RunCommand
  <2> QED BY <2>1, WriteIsolated DEF Isolated, Iteration
<1>5. ASSUME NEW c \in Scopes, CommandFails(c) PROVE Isolated'
  <2>1. busy /\ last' = last BY <1>5 DEF CommandFails
  <2>2. /\ dict'["base"] = {} /\ dict'["iteration"] \subseteq {k}
        /\ dict'["hook"] \subseteq {0}
    BY <1>5, <2>1, WriteIsolated DEF CommandFails, Isolated
  <2>3. PICK blank \in BOOLEAN :
          EndItem(TRUE, blank, 0, <<ItemEvent("command_finished", pc, "error")>>)
    BY <1>5 DEF CommandFails
  <2> QED BY <2>1, <2>2, <2>3, EndItemIsolated
<1>6. CASE ConvertFails
  <2>1. busy /\ EndItem(TRUE, FALSE, 1, <<>>) /\ last' = last /\ dict' = dict
    BY <1>6 DEF ConvertFails
  <2> QED BY <2>1, EndItemIsolated DEF Isolated
<1>7. CASE ItemSucceeds
  <2>1. busy /\ EndItem(FALSE, FALSE, 0, <<>>) /\ last' = Iteration(pc) /\ dict' = dict
    BY <1>7 DEF ItemSucceeds
  <2> QED BY <2>1, EndItemIsolated DEF Isolated
<1>8. ASSUME NEW p \in HookPhases, SkipHook(p) PROVE Isolated'
  BY <1>8 DEF SkipHook, Isolated, HookPhases, ItemPhases, AfterItem, Iteration, SuiteHooks
<1>9. CASE EndTest
  BY <1>0, <1>9 DEF EndTest, FreshLocals, Isolated, Dicts
<1>10. CASE Finalize \/ CommitRun \/ RollBack
  BY <1>10 DEF Finalize, CommitRun, RollBack, Isolated, ItemPhases, HookPhases
<1>11. CASE (\E s \in Suites : UpdateSuite(s)) \/ DeleteSuite
  BY <1>11 DEF UpdateSuite, DeleteSuite, Isolated, Iteration
<1>12. CASE UNCHANGED vars BY <1>12 DEF vars, Isolated, Iteration
<1> QED
  BY <1>1, <1>2, <1>3, <1>4, <1>5, <1>6, <1>7, <1>8, <1>9, <1>10, <1>11, <1>12
     DEF Next, Executor

\* An item never reads a local constant, or the `last` result, of another test
\* (LocalIsolation).
THEOREM IsolationCorrect == Spec => []LocalIsolation
<1> DEFINE Inv == Typed /\ Isolated
<1>1. Init => Inv
  <2>1. Init => Isolated BY DEF Init, Isolated, Dicts
  <2> QED BY <2>1, InitTyped
<1>2. Inv /\ [Next]_vars => Inv'
  BY NextTyped, NextIsolated
<1>3. Inv => LocalIsolation
  BY DEF Typed, RunningRow, Isolated, LocalIsolation, Iteration
<1> QED BY <1>1, <1>2, <1>3, PTL DEF Spec

\* No step of a test changes a global or runEnvelope constant, and the kind that
\* forbids it is bound exactly as long as the test executes
\* (GlobalsFrozenInTests).  The guards of the context read the bound kind; that
\* it is the one of the item at hand is what Typed carries through every bind
\* and every restore.
THEOREM GlobalsCorrect == Spec => GlobalsFrozenInTests
<1>1. ASSUME Typed PROVE kind = "test" <=> busy /\ pc = "test"
  BY <1>1 DEF Typed, RunningRow, Unbound
<1>2. ASSUME Typed, [Next]_vars, busy, pc = "test" PROVE UNCHANGED globals
  <2> USE DEF dbVars, planVars, loopVars, itemVars, ctxVars
  <2>0. kind = "test" BY <1>1, <1>2
  <2>1. ASSUME NEW c \in Scopes, RunCommand(c) \/ CommandFails(c) PROVE UNCHANGED globals
    BY <2>0, <2>1 DEF RunCommand, CommandFails, Writable, WriteConstant
  <2>2. CASE LoadDescription \/ OpenExecution \/ LoadHook \/ LoadTests
    BY <2>2 DEF LoadDescription, OpenExecution, FindSuite, LoadHook, LoadTests
  <2>3. CASE \E p \in ItemPhases : StartItem(p) BY <2>3 DEF StartItem
  <2>4. CASE ConvertFails \/ ItemSucceeds BY <2>4 DEF ConvertFails, ItemSucceeds
  <2>5. CASE \E p \in HookPhases : SkipHook(p) BY <2>5 DEF SkipHook
  <2>6. CASE EndTest \/ Finalize \/ CommitRun \/ RollBack
    BY <2>6 DEF EndTest, Finalize, CommitRun, RollBack
  <2>7. CASE (\E s \in Suites : UpdateSuite(s)) \/ DeleteSuite
    BY <2>7 DEF UpdateSuite, DeleteSuite
  <2>8. CASE UNCHANGED vars BY <2>8 DEF vars
  <2> QED BY <1>2, <2>1, <2>2, <2>3, <2>4, <2>5, <2>6, <2>7, <2>8 DEF Next, Executor
<1>3. Typed /\ [Next]_vars => [/\ busy /\ pc = "test" => UNCHANGED globals
                               /\ kind = "test" => busy /\ pc = "test"]_vars
  BY <1>1, <1>2
<1> QED BY InitTyped, NextTyped, <1>3, PTL DEF Spec, GlobalsFrozenInTests

-----------------------------------------------------------------------------
(* The executor implements the lifecycle *)

Unfinished == ItemPhases \cup {"load_hooks", "end_test", "finalize"}

\* The last event at the end of an item is never suite_finished (EndEvents).
LEMMA EndEventsLast ==
  ASSUME TypeOK, pc \in ItemPhases, NEW failed \in BOOLEAN,
         NEW published \in Seq(Events)
  PROVE  LET e == EndEvents(failed, published)
         IN  e # <<>> /\ e[Len(e)].name # "suite_finished"
<1> DEFINE f == ItemEvent("item_finished", pc, ItemStatus(failed))
           g == Progress(executed + 1)
           head == events \o published
<1>1. f \in Events /\ f.name = "item_finished"
  BY EventTypes DEF ItemStatus, EventNames, ItemEvent, Event
<1>2. g \in Events /\ g.name = "suite_progress"
  BY EventTypes DEF TypeOK, DataTypes, Progress, Event
<1>3. head \in Seq(Events) BY ConcatProperties DEF TypeOK, DataTypes
<1>4. EndEvents(failed, published)
        = (head \o <<f>>) \o (IF pc = "test" THEN <<g>> ELSE <<>>)
  BY DEF EndEvents
<1> HIDE DEF f, g, head
<1>5. CASE pc = "test"
  <2>1. EndEvents(failed, published) = (head \o <<f>>) \o <<g>> BY <1>4, <1>5
  <2> QED BY <1>1, <1>2, <1>3, <2>1
<1>6. CASE pc # "test"
  <2>1. EndEvents(failed, published) = (head \o <<f>>) \o <<>> BY <1>4, <1>6
  <2>2. EndEvents(failed, published) = head \o <<f>> BY <1>1, <1>3, <2>1
  <2> QED BY <1>1, <1>3, <2>2
<1> QED BY <1>5, <1>6

\* Every step moves the run from one stage of its life to the next, or leaves
\* what the outside sees alone.
LEMMA StageSteps ==
  ASSUME Typed, [Next]_vars
  PROVE  \/ pc = "created" /\ pc' = "described" /\ UNCHANGED <<events, visible>>
         \/ pc = "described" /\ pc' = "load_hooks" /\ UNCHANGED <<events, visible>>
         \/ /\ pc \in Unfinished /\ pc' \in Unfinished /\ UNCHANGED visible
            /\ \/ UNCHANGED events
               \/ events' # <<>> /\ events'[Len(events')].name # "suite_finished"
         \/ /\ pc \notin {"committed", "lost"} /\ pc' = "lost"
            /\ UNCHANGED <<events, visible>>
         \/ Finalize
         \/ CommitRun
         \/ DeleteSuite
         \/ UNCHANGED <<pc, events, visible, anyError>>
<1> USE DEF dbVars, planVars, loopVars, itemVars, ctxVars
<1>0. events \in Seq(Events) BY DEF Typed, TypeOK, DataTypes
<1>1. ASSUME busy PROVE pc \in ItemPhases BY <1>1 DEF Typed, RunningRow
<1>2. CASE LoadDescription \/ OpenExecution
  BY <1>2 DEF LoadDescription, OpenExecution, FindSuite
<1>3. CASE LoadHook BY <1>3 DEF LoadHook, Unfinished
<1>4. CASE LoadTests
  <2>1. CASE TargetExists
    <3>1. /\ pc \in Unfinished /\ pc' \in Unfinished /\ UNCHANGED visible
          /\ events' = <<Event("suite_started", "suite", 0, "running"), Progress(0)>>
      BY <1>4, <2>1 DEF LoadTests, Unfinished, ItemPhases, HookPhases
    <3>2. events' # <<>> /\ events'[Len(events')].name = "suite_progress"
      BY <3>1 DEF Event, Progress
    <3> QED BY <3>1, <3>2
  <2>2. CASE ~TargetExists BY <1>4, <2>2 DEF LoadTests
  <2> QED BY <2>1, <2>2
<1>5. ASSUME NEW p \in ItemPhases, StartItem(p)
      PROVE  /\ pc \in Unfinished /\ pc' \in Unfinished /\ UNCHANGED visible
             /\ events' # <<>> /\ events'[Len(events')].name # "suite_finished"
  <2> DEFINE e == ItemEvent("item_started", p, "running")
  <2>1. e \in Events /\ e.name = "item_started"
    BY EventTypes DEF EventNames, Typed, ItemEvent, Event
  <2>2. events' = Append(events, e) /\ pc = p /\ UNCHANGED <<pc, visible>>
    BY <1>5 DEF StartItem
  <2> HIDE DEF e
  <2> QED BY <1>0, <2>1, <2>2 DEF Unfinished
<1>6. ASSUME NEW c \in Scopes, RunCommand(c)
      PROVE  /\ pc \in Unfinished /\ pc' \in Unfinished /\ UNCHANGED visible
             /\ events' # <<>> /\ events'[Len(events')].name # "suite_finished"
  <2> DEFINE e == ItemEvent("command_finished", pc, "success")
  <2>0. pc \in ItemPhases BY <1>1, <1>6 DEF RunCommand
  <2>1. e \in Events /\ e.name = "command_finished"
    BY <2>0, EventTypes DEF EventNames, Typed, ItemEvent, Event
  <2>2. events' = Append(events, e) /\ UNCHANGED <<pc, visible>>
    BY <1>6 DEF RunCommand
  <2> HIDE DEF e
  <2> QED BY <1>0, <2>0, <2>1, <2>2 DEF Unfinished
<1>7. ASSUME busy, NEW failed \in BOOLEAN, NEW blank, NEW stuck,
             NEW published \in Seq(Events), EndItem(failed, blank, stuck, published)
      PROVE  /\ pc \in Unfinished /\ pc' \in Unfinished /\ UNCHANGED visible
             /\ events' # <<>> /\ events'[Len(events')].name # "suite_finished"
  <2>1. events' = EndEvents(failed, published) BY <1>7 DEF EndItem
  <2>2. events' # <<>> /\ events'[Len(events')].name # "suite_finished"
    BY <1>1, <1>7, <2>1, EndEventsLast DEF Typed
  <2>3. pc' \in Unfinished /\ UNCHANGED visible
    BY <1>1, <1>7 DEF EndItem, AfterItem, Unfinished, ItemPhases, HookPhases
  <2> QED BY <1>1, <1>7, <2>2, <2>3 DEF Unfinished
<1>8. ASSUME NEW c \in Scopes, CommandFails(c)
      PROVE  /\ pc \in Unfinished /\ pc' \in Unfinished /\ UNCHANGED visible
             /\ events' # <<>> /\ events'[Len(events')].name # "suite_finished"
  <2>1. busy BY <1>8 DEF CommandFails
  <2>2. <<ItemEvent("command_finished", pc, "error")>> \in Seq(Events)
    <3>1. ItemEvent("command_finished", pc, "error") \in Events
      BY <1>1, <2>1, EventTypes DEF EventNames, Typed
    <3> QED BY <3>1
  <2>3. PICK blank \in BOOLEAN :
          EndItem(TRUE, blank, 0, <<ItemEvent("command_finished", pc, "error")>>)
    BY <1>8 DEF CommandFails
  <2> QED BY <1>7, <2>1, <2>2, <2>3
<1>9. CASE ConvertFails \/ ItemSucceeds
  BY <1>7, <1>9, EmptySeq DEF ConvertFails, ItemSucceeds
<1>10. CASE \E p \in HookPhases : SkipHook(p)
  BY <1>10 DEF SkipHook, AfterItem, Unfinished, ItemPhases, HookPhases
<1>11. CASE EndTest
  BY <1>11 DEF EndTest, Unfinished, ItemPhases, HookPhases
<1>12. CASE Finalize \/ CommitRun \/ DeleteSuite BY <1>12
<1>13. CASE RollBack BY <1>13 DEF RollBack
<1>14. CASE \E s \in Suites : UpdateSuite(s) BY <1>14 DEF UpdateSuite
<1>15. CASE UNCHANGED vars BY <1>15 DEF vars
<1> QED
  BY <1>2, <1>3, <1>4, <1>5, <1>6, <1>8, <1>9, <1>10, <1>11, <1>12, <1>13, <1>14, <1>15
     DEF Next, Executor

\* Finalize publishes suite_finished with the verdict as the last event.
LEMMA FinalizeEvent ==
  ASSUME Typed, Finalize
  PROVE  /\ events' # <<>> /\ events'[Len(events')].name = "suite_finished"
         /\ events'[Len(events')].status = Verdict
<1> DEFINE e == Event("suite_finished", "suite", firstError, Verdict)
<1>1. e \in Events /\ e.name = "suite_finished" /\ e.status = Verdict
  BY DEF Event, Events, EventNames, Verdict, Typed, TypeOK, DataTypes
<1>2. events \in Seq(Events) /\ events' = Append(events, e)
  BY DEF Finalize, Typed, TypeOK, DataTypes
<1> HIDE DEF e
<1> QED BY <1>1, <1>2

\* Every step keeps what was published in line with the stage of the run.
LEMMA NextPublished == ASSUME Typed, Published, [Next]_vars PROVE Published'
<1> USE DEF Published, LastEvent
<1>1. CASE /\ pc \in {"created", "described"} /\ pc' \in {"described", "load_hooks"}
           /\ UNCHANGED <<events, visible>>
  BY <1>1
<1>2. CASE /\ pc \in Unfinished /\ pc' \in Unfinished /\ UNCHANGED visible
           /\ \/ UNCHANGED events
              \/ events' # <<>> /\ events'[Len(events')].name # "suite_finished"
  BY <1>2 DEF Unfinished, ItemPhases, HookPhases
<1>3. CASE /\ pc \notin {"committed", "lost"} /\ pc' = "lost"
           /\ UNCHANGED <<events, visible>>
  BY <1>3
<1>4. CASE Finalize
  <2>1. /\ pc = "finalize" /\ pc' = "announced" /\ UNCHANGED visible /\ Verdict' = Verdict
    BY <1>4 DEF Finalize, loopVars, Verdict
  <2> QED BY <1>4, <2>1, FinalizeEvent
<1>5. CASE CommitRun
  <2>1. pc = "announced" /\ pc' = "committed" /\ UNCHANGED events /\ Verdict' = Verdict
    BY <1>5 DEF CommitRun, loopVars, Verdict
  <2> QED BY <2>1
<1>6. CASE DeleteSuite
  <2>1. UNCHANGED <<pc, events>> /\ visible' = "none" /\ Verdict' = Verdict
    BY <1>6 DEF DeleteSuite, loopVars, Verdict
  <2> QED BY <2>1
<1>7. CASE UNCHANGED <<pc, events, visible, anyError>> BY <1>7 DEF Verdict
<1> QED BY <1>1, <1>2, <1>3, <1>4, <1>5, <1>6, <1>7, StageSteps

\* The status the listeners were told, as the refinement mapping defines it.
Told == IF events # <<>> /\ LastEvent.name = "suite_finished"
        THEN LastEvent.status ELSE "none"
Stage == CASE pc \in {"created", "described"}            -> "created"
           [] pc \in {"announced", "committed", "lost"} -> pc
           [] OTHER                                      -> "running"

\* Every step of the executor is a step of the lifecycle, or a stutter.
LEMMA LifecycleStep ==
  ASSUME Typed, Published, Published', [Next]_vars
  PROVE  [Lifecycle!LifecycleNext]_(Lifecycle!lifecycleVars)
<1> USE DEF Lifecycle!LifecycleNext, Lifecycle!lifecycleVars
<1>0. /\ pc \notin {"announced", "committed", "lost"} => Told = "none"
      /\ pc \in {"announced", "committed"} => Told = Verdict
      /\ pc # "committed" => visible = "none"
  BY DEF Published, Told
<1>1. CASE pc = "created" /\ pc' = "described" /\ UNCHANGED <<events, visible>>
  <2>1. Stage' = Stage /\ Told' = Told BY <1>1 DEF Stage, Told, LastEvent
  <2> QED BY <1>1, <2>1 DEF Stage, Told
<1>2. CASE pc = "described" /\ pc' = "load_hooks" /\ UNCHANGED <<events, visible>>
  <2>1. Stage = "created" /\ Stage' = "running" /\ Told' = Told
    BY <1>2 DEF Stage, Told, LastEvent
  <2>2. Lifecycle!Begin BY <1>2, <2>1 DEF Lifecycle!Begin, Stage, Told
  <2> QED BY <2>2
<1>3. CASE /\ pc \in Unfinished /\ pc' \in Unfinished /\ UNCHANGED visible
           /\ \/ UNCHANGED events
              \/ events' # <<>> /\ events'[Len(events')].name # "suite_finished"
  <2>1. Stage = "running" /\ Stage' = "running"
    BY <1>3 DEF Stage, Unfinished, ItemPhases, HookPhases
  <2>2. Told = "none" /\ Told' = "none"
    BY <1>0, <1>3 DEF Told, LastEvent, Unfinished, ItemPhases, HookPhases
  <2> QED BY <1>3, <2>1, <2>2 DEF Stage, Told
<1>4. CASE /\ pc \notin {"committed", "lost"} /\ pc' = "lost"
           /\ UNCHANGED <<events, visible>>
  <2>1. Stage \in {"created", "running", "announced"} /\ Stage' = "lost" /\ Told' = Told
    BY <1>4 DEF Stage, Told, LastEvent
  <2>2. Lifecycle!Lose BY <1>4, <2>1 DEF Lifecycle!Lose, Stage, Told
  <2> QED BY <2>2
<1>5. CASE Finalize
  <2>1. Stage = "running" /\ Stage' = "announced" /\ UNCHANGED visible
    BY <1>5 DEF Finalize, Stage
  <2>2. Told' = Verdict /\ Verdict \in Lifecycle!Status
    BY <1>5, FinalizeEvent DEF Told, LastEvent, Verdict, Lifecycle!Status
  <2>3. Lifecycle!Announce(Verdict)
    BY <2>1, <2>2 DEF Lifecycle!Announce, Stage, Told
  <2> QED BY <2>2, <2>3
<1>6. CASE CommitRun
  <2>1. /\ Stage = "announced" /\ Stage' = "committed"
        /\ Told = Verdict /\ Told' = Told /\ visible' = Verdict
    BY <1>0, <1>6 DEF CommitRun, Stage, Told, LastEvent
  <2>2. Lifecycle!Commit BY <2>1 DEF Lifecycle!Commit, Stage, Told
  <2> QED BY <2>2
<1>7. CASE DeleteSuite
  <2>1. Stage' = Stage /\ Told' = Told /\ visible' = "none"
    BY <1>7 DEF DeleteSuite, Stage, Told, LastEvent
  <2>2. CASE pc = "committed"
    <3>1. Stage = "committed" BY <2>2 DEF Stage
    <3>2. Lifecycle!Erase BY <2>1, <3>1 DEF Lifecycle!Erase, Stage, Told
    <3> QED BY <3>2
  <2>3. CASE pc # "committed"
    BY <1>0, <2>1, <2>3 DEF Stage, Told
  <2> QED BY <2>2, <2>3
<1>8. CASE UNCHANGED <<pc, events, visible, anyError>>
  <2>1. Stage' = Stage /\ Told' = Told BY <1>8 DEF Stage, Told, LastEvent
  <2> QED BY <1>8, <2>1 DEF Stage, Told
<1> QED BY <1>1, <1>2, <1>3, <1>4, <1>5, <1>6, <1>7, <1>8, StageSteps

\* Every behaviour of the executor is a behaviour of the abstract lifecycle:
\* no row is visible before the verdict was announced, and a visible row
\* carries the announced verdict (LifecycleRefined).
THEOREM LifecycleCorrect == Spec => LifecycleRefined
<1> DEFINE Inv == Typed /\ Published
<1>1. Init => Inv
  <2>1. Init => Published BY DEF Init, Published
  <2> QED BY <2>1, InitTyped
<1>2. Inv /\ [Next]_vars => Inv'
  BY NextTyped, NextPublished
<1>3. Init => Lifecycle!LifecycleInit
  BY DEF Init, Lifecycle!LifecycleInit
<1>4. Inv /\ Inv' /\ [Next]_vars => [Lifecycle!LifecycleNext]_(Lifecycle!lifecycleVars)
  BY LifecycleStep
<1> QED BY <1>1, <1>2, <1>3, <1>4, PTL DEF Spec, LifecycleRefined, Lifecycle!LifecycleSpec

-----------------------------------------------------------------------------
(* What readers of a committed run find *)

\* Every step leaves at most the row of the running item open (Settled).
LEMMA NextSettled == ASSUME Typed, Settled, [Next]_vars PROVE Settled'
<1> USE DEF Settled, Failed
<1>0. rows \in Seq(Row) BY DEF Typed, TypeOK, DataTypes
<1>1. ASSUME NEW p \in ItemPhases, StartItem(p) PROVE Settled'
  <2> DEFINE n == Len(rows)
  <2>1. /\ n \in Nat /\ DOMAIN rows = 1..n /\ DOMAIN rows' = 1..(n + 1)
        /\ Len(rows') = n + 1
        /\ \A i \in 1..n : rows'[i] = rows[i]
        /\ rows'[n + 1].stuck = 0
    BY <1>1, StartItemRows
  <2>2. ~busy /\ busy' BY <1>1 DEF StartItem
  <2> HIDE DEF n
  <2> QED BY <2>1, <2>2
<1>2. ASSUME NEW c \in Scopes, RunCommand(c) PROVE Settled'
  <2>1. /\ DOMAIN rows' = DOMAIN rows /\ Len(rows') = Len(rows)
        /\ \A i \in DOMAIN rows : rows'[i].status = rows[i].status /\ rows'[i].stuck = rows[i].stuck
    BY <1>2, RunCommandRows
  <2>2. busy' = busy BY <1>2 DEF RunCommand
  <2> QED BY <2>1, <2>2
<1>3. ASSUME busy, NEW failed \in BOOLEAN, NEW blank \in BOOLEAN, NEW stuck \in {0, 1},
             NEW published, EndItem(failed, blank, stuck, published),
             failed \/ (todo = 0 /\ stuck = 0)
      PROVE  Settled'
  <2> DEFINE n == Len(rows)
  <2>1. /\ n \in Nat \ {0} /\ DOMAIN rows = 1..n /\ DOMAIN rows' = 1..n
        /\ \A i \in 1..(n - 1) : rows'[i] = rows[i]
        /\ rows'[n].status = ItemStatus(failed) /\ rows'[n].stuck = stuck
    BY <1>3, EndItemRows
  <2> HIDE DEF n
  <2>2. \A i \in 1..(n - 1) : i \in DOMAIN rows /\ i # n BY <2>1
  <2>3. ItemStatus(failed) # "running" /\ (stuck > 0 => ItemStatus(failed) = "error")
    BY <1>3 DEF ItemStatus
  <2>4. ASSUME NEW i \in DOMAIN rows'
        PROVE  rows'[i].status # "running" /\ (rows'[i].stuck > 0 => rows'[i].status = "error")
    <3>1. CASE i = n BY <2>1, <2>3, <3>1
    <3>2. CASE i # n
      <4>1. i \in 1..(n - 1) BY <2>1, <3>2
      <4> QED BY <2>1, <2>2, <4>1 DEF n
    <3> QED BY <3>1, <3>2
  <2> QED BY <2>4
<1>4. CASE RollBack BY <1>4 DEF RollBack
<1>5. CASE UNCHANGED <<rows, busy>> BY <1>5
<1>6. CASE LoadTests BY <1>5, <1>6 DEF LoadTests, itemVars
<1>7. CASE EndTest BY <1>5, <1>7 DEF EndTest, itemVars
<1> QED BY <1>1, <1>2, <1>3, <1>4, <1>5, <1>6, <1>7, StepKinds

\* A run whose verdict is visible has no item still running, and a command
\* still running only in an item that failed (SettledWhenVisible).
THEOREM SettledCorrect == Spec => []SettledWhenVisible
<1> DEFINE Inv == Typed /\ Published /\ Settled
<1>1. Init => Inv
  <2>1. Init => Published /\ Settled BY DEF Init, Published, Settled
  <2> QED BY <2>1, InitTyped
<1>2. Inv /\ [Next]_vars => Inv'
  BY NextTyped, NextPublished, NextSettled
<1>3. Inv => SettledWhenVisible
  BY DEF Typed, RunningRow, Published, Settled, SettledWhenVisible, ItemPhases, HookPhases
<1> QED BY <1>1, <1>2, <1>3, PTL DEF Spec

-----------------------------------------------------------------------------
(* The teardown hooks *)

\* Every step keeps each test followed by its after_each hook, or about to be
\* (TearingDown).
LEMMA NextTearingDown ==
  ASSUME Typed, Fresh, Fresh', TearingDown, [Next]_vars PROVE TearingDown'
<1> USE DEF dbVars, planVars, loopVars, itemVars, ctxVars
<1>0. rows \in Seq(Row) BY DEF Typed, TypeOK, DataTypes
<1>1. ASSUME rows' = <<>>, ~Finishing' PROVE TearingDown'
  BY <1>1 DEF TearingDown
<1>2. CASE LoadDescription \/ OpenExecution
  <2>1. rows' = <<>> /\ ~Finishing'
    BY <1>2 DEF LoadDescription, OpenExecution, FindSuite, Fresh, Finishing
  <2> QED BY <1>1, <2>1
<1>3. CASE LoadHook \/ LoadTests
  <2>1. rows' = <<>> /\ ~Finishing'
    BY <1>3 DEF LoadHook, LoadTests, Fresh, Finishing
  <2> QED BY <1>1, <2>1
<1>4. ASSUME NEW p \in ItemPhases, StartItem(p) PROVE TearingDown'
  <2> DEFINE n == Len(rows)
  <2>1. /\ n \in Nat /\ DOMAIN rows = 1..n /\ DOMAIN rows' = 1..(n + 1)
        /\ Len(rows') = n + 1
        /\ \A i \in 1..n : rows'[i] = rows[i]
        /\ rows'[n + 1].phase = p /\ rows'[n + 1].test = Iteration(p)
    BY <1>4, StartItemRows
  <2>2. /\ pc = p /\ pc' = p /\ ~busy /\ busy' /\ UNCHANGED <<hooks, k>>
    BY <1>4 DEF StartItem
  <2>3. ~Finishing' BY <2>2 DEF Finishing, ItemPhases, HookPhases
  <2> HIDE DEF n
  <2>4. ASSUME NEW i \in DOMAIN rows', rows'[i].phase = "test"
        PROVE  \/ TearDownFollows(i)'
               \/ /\ i = Len(rows') /\ rows'[i].test = k'
                  /\ pc' = (IF busy' THEN "test" ELSE "after_each")
    <3>1. CASE i = n + 1
      BY <2>1, <2>2, <2>4, <3>1 DEF Iteration, SuiteHooks
    <3>2. CASE i # n + 1
      <4>1. i \in DOMAIN rows /\ rows'[i] = rows[i] BY <2>1, <3>2
      <4>2. CASE TearDownFollows(i)
        <5>1. TearDownFollows(i)'
          BY <2>1, <2>2, <4>1, <4>2 DEF TearDownFollows
        <5> QED BY <5>1
      <4>3. CASE i = n /\ rows[i].test = k /\ pc = "after_each"
        <5>1. TearDownFollows(i)'
          BY <2>1, <2>2, <4>1, <4>3 DEF TearDownFollows, Iteration, SuiteHooks
        <5> QED BY <5>1
      <4> QED BY <2>2, <2>4, <4>1, <4>2, <4>3 DEF TearingDown, n
    <3> QED BY <3>1, <3>2
  <2> QED BY <2>3, <2>4 DEF TearingDown
<1>5. ASSUME NEW c \in Scopes, RunCommand(c) PROVE TearingDown'
  <2>1. /\ DOMAIN rows' = DOMAIN rows /\ Len(rows') = Len(rows)
        /\ \A i \in DOMAIN rows : rows'[i].phase = rows[i].phase /\ rows'[i].test = rows[i].test
    BY <1>5, RunCommandRows
  <2>2. UNCHANGED <<pc, hooks, k, busy>> BY <1>5 DEF RunCommand
  <2>3. ~Finishing'
    BY <1>5, <2>2 DEF Finishing, RunCommand, Typed, RunningRow, ItemPhases, HookPhases
  <2>4. \A i \in DOMAIN rows : TearDownFollows(i) => TearDownFollows(i)'
    BY <2>1, <2>2 DEF TearDownFollows
  <2> QED BY <2>1, <2>2, <2>3, <2>4 DEF TearingDown
<1>6. ASSUME busy, NEW failed \in BOOLEAN, NEW blank \in BOOLEAN, NEW stuck \in {0, 1},
             NEW published, EndItem(failed, blank, stuck, published)
      PROVE  TearingDown'
  <2> DEFINE n == Len(rows)
  <2>1. /\ n \in Nat \ {0} /\ DOMAIN rows = 1..n /\ DOMAIN rows' = 1..n /\ Len(rows') = n
        /\ \A i \in 1..(n - 1) : rows'[i] = rows[i]
        /\ rows[n].test = Iteration(pc) /\ rows[n].phase = pc
        /\ rows'[n].test = Iteration(pc) /\ rows'[n].phase = pc
    BY <1>6, EndItemRows
  <2>2. UNCHANGED <<hooks, k>> /\ pc' = AfterItem(pc, failed) /\ ~busy'
    BY <1>6 DEF EndItem
  <2>3. pc \in ItemPhases BY <1>6 DEF Typed, RunningRow
  <2> HIDE DEF n
  <2>4. \A i \in 1..n : rows'[i].phase = rows[i].phase /\ rows'[i].test = rows[i].test
    BY <2>1
  <2>5. \A i \in DOMAIN rows : TearDownFollows(i) => TearDownFollows(i)'
    BY <2>1, <2>2, <2>4 DEF TearDownFollows
  <2>6. pc = "test" => pc' = "after_each"
    BY <2>2 DEF AfterItem
  <2>7. Finishing' => pc = "after_all"
    BY <2>2, <2>3 DEF AfterItem, Finishing, ItemPhases, HookPhases
  <2>8. ASSUME NEW i \in DOMAIN rows', rows'[i].phase = "test"
        PROVE  \/ TearDownFollows(i)'
               \/ /\ i = Len(rows') /\ rows'[i].test = k'
                  /\ pc' = (IF busy' THEN "test" ELSE "after_each")
    BY <1>6, <2>1, <2>2, <2>4, <2>5, <2>6, <2>8 DEF TearingDown, n
  <2>9. Finishing' => rows' # <<>> /\ rows'[Len(rows')].phase = "after_all"
    BY <2>1, <2>7
  <2> QED BY <2>8, <2>9 DEF TearingDown
<1>7. CASE \E c \in Scopes : CommandFails(c) BY <1>6, <1>7 DEF CommandFails
<1>8. CASE ConvertFails \/ ItemSucceeds
  <2>1. CASE ConvertFails BY <1>6, <2>1 DEF ConvertFails
  <2>2. CASE ItemSucceeds BY <1>6, <2>2 DEF ItemSucceeds
  <2> QED BY <1>8, <2>1, <2>2
<1>9. ASSUME NEW p \in HookPhases, SkipHook(p) PROVE TearingDown'
  <2>1. /\ pc = p /\ pc' = AfterItem(p, FALSE) /\ ~busy /\ ~hooks[p].present
        /\ UNCHANGED <<rows, hooks, k, busy>>
    BY <1>9 DEF SkipHook, Present
  <2>2. \A i \in DOMAIN rows :
          /\ TearDownFollows(i) => TearDownFollows(i)'
          /\ p = "after_each" => TearDownFollows(i)'
    BY <2>1 DEF TearDownFollows
  <2>3. Finishing' => p = "after_all"
    BY <2>1 DEF AfterItem, Finishing, HookPhases
  <2> QED BY <2>1, <2>2, <2>3 DEF TearingDown
<1>10. CASE EndTest \/ Finalize \/ CommitRun
  <2>1. /\ UNCHANGED <<rows, hooks, busy>> /\ pc \in {"end_test", "finalize", "announced"}
        /\ Finishing' => Finishing
    BY <1>10 DEF EndTest, Finalize, CommitRun, Finishing
  <2>2. \A i \in DOMAIN rows : TearDownFollows(i) => TearDownFollows(i)'
    BY <2>1 DEF TearDownFollows
  <2> QED BY <2>1, <2>2 DEF TearingDown
<1>11. CASE RollBack
  <2>1. rows' = <<>> /\ ~Finishing' BY <1>11 DEF RollBack, Finishing
  <2> QED BY <1>1, <2>1
<1>12. CASE UNCHANGED <<rows, hooks, k, busy, pc>>
  BY <1>12 DEF TearingDown, TearDownFollows, Finishing
<1>13. CASE (\E s \in Suites : UpdateSuite(s)) \/ DeleteSuite
  BY <1>12, <1>13 DEF UpdateSuite, DeleteSuite
<1>14. CASE UNCHANGED vars BY <1>12, <1>14 DEF vars
<1> QED
  BY <1>2, <1>3, <1>4, <1>5, <1>7, <1>8, <1>9, <1>10, <1>11, <1>13, <1>14
     DEF Next, Executor

\* Whatever fails, a run that finishes executed the after_each hook right after
\* every test and the after_all hook last (TornDown).
THEOREM TornDownCorrect == Spec => []TornDown
<1> DEFINE Inv == Typed /\ Fresh /\ TearingDown
<1>1. Init => Inv
  <2>1. Init => Fresh /\ TearingDown BY DEF Init, Fresh, TearingDown, Finishing
  <2> QED BY <2>1, InitTyped
<1>2. Inv /\ [Next]_vars => Inv'
  BY NextTyped, NextFresh, NextTearingDown
<1>3. Inv => TornDown BY DEF TearingDown, TornDown, Finishing
<1> QED BY <1>1, <1>2, <1>3, PTL DEF Spec

-----------------------------------------------------------------------------
(* The commands of the items *)

\* The tests a run resolves carry the version they were read with (Resolved).
LEMMA ResolvedVersions ==
  ASSUME Typed, TargetExists
  PROVE  \A i \in DOMAIN Resolved(suite.tests, version) :
           Resolved(suite.tests, version)[i].version = version
<1>1. suite.tests \in Seq(TestDef)
  BY SuitesAssumption DEF Typed, TypeOK, DataTypes, SuiteDef
<1> DEFINE s == Stamped(suite.tests, version)
<1>2. /\ DOMAIN s = 1..Len(suite.tests)
      /\ \A i \in 1..Len(suite.tests) : s[i].version = version
  BY <1>1 DEF Stamped
<1> HIDE DEF s
<1>3. CASE target.test = 0 BY <1>2, <1>3 DEF Resolved, s
<1>4. CASE target.test # 0
  <2>1. Resolved(suite.tests, version) = <<s[target.test]>>
        /\ target.test \in 1..Len(suite.tests)
    BY <1>4 DEF Resolved, TargetExists, s
  <2> QED BY <1>2, <2>1
<1> QED BY <1>3, <1>4

\* Every step keeps the items of the run among those it read from a stored
\* suite (Held).
LEMMA NextHeld == ASSUME Typed, Fresh, Fresh', Held, [Next]_vars PROVE Held'
<1> USE DEF dbVars, planVars, loopVars, itemVars, ctxVars
<1> DEFINE RowsHeld == \A i \in DOMAIN rows :
             IF rows[i].phase = "test" THEN rows[i].test \in DOMAIN tests
             ELSE hooks[rows[i].phase].present
           PlanKnown == /\ \A p \in HookPhases : hooks[p].present => Known(hooks[p].version)
                        /\ \A i \in DOMAIN tests : Known(tests[i].version)
<1>0. /\ rows \in Seq(Row) /\ version \in Nat /\ tests \in Seq(HeldTest)
      /\ hooks \in [HookPhases -> HeldHook]
      /\ (OpenTransaction => version > 0) /\ RowsHeld /\ PlanKnown
  BY DEF Typed, TypeOK, DataTypes, Held
<1>1. ASSUME UNCHANGED <<version, hooks, tests>>, RowsHeld', OpenTransaction' => version > 0
      PROVE  Held'
  BY <1>0, <1>1 DEF Held, Known
<1>2. CASE LoadDescription \/ OpenExecution
  <2>1. UNCHANGED <<version, hooks, tests, rows>> /\ (OpenTransaction' => version > 0)
    BY <1>0, <1>2 DEF LoadDescription, OpenExecution, FindSuite, OpenTransaction,
                      ItemPhases, HookPhases
  <2> QED BY <1>0, <1>1, <2>1
<1>3. CASE LoadHook
  <2>1. /\ version > 0 /\ UNCHANGED <<version, tests, pc>> /\ rows' = <<>>
    BY <1>0, <1>3 DEF LoadHook, OpenTransaction, Fresh
  <2>2. PICK q \in HookPhases, new \in [present : BOOLEAN, commands : Nat, version : {version}] :
          hooks' = [hooks EXCEPT ![q] = new]
    <3>1. HookOrder[loaded + 1] \in HookPhases
      BY <1>3 DEF LoadHook, Typed, TypeOK, DataTypes, HookOrder, HookPhases
    <3>2. suite.hooks[HookOrder[loaded + 1]] \in HookDef
      BY <3>1, SuitesAssumption DEF Typed, TypeOK, DataTypes, SuiteDef
    <3> QED BY <1>3, <3>1, <3>2 DEF LoadHook, HookDef
  <2>3. \A p \in HookPhases : hooks'[p].present => hooks'[p] = hooks[p] \/ hooks'[p].version = version
    BY <1>0, <2>2
  <2>4. \A p \in HookPhases : hooks'[p].present => Known(hooks'[p].version)
    BY <1>0, <2>1, <2>3 DEF Known
  <2> QED BY <1>0, <2>1, <2>4 DEF Held, Known
<1>4. CASE LoadTests
  <2>1. /\ version > 0 /\ UNCHANGED <<version, hooks>> /\ rows' = <<>>
    BY <1>0, <1>4 DEF LoadTests, OpenTransaction, Fresh
  <2>2. CASE TargetExists
    <3>1. tests' = Resolved(suite.tests, version) BY <1>4, <2>2 DEF LoadTests
    <3>2. \A i \in DOMAIN tests' : Known(tests'[i].version)
      BY <1>0, <2>1, <2>2, <3>1, ResolvedVersions DEF Known
    <3> QED BY <1>0, <2>1, <3>2 DEF Held, Known
  <2>3. CASE ~TargetExists
    <3>1. tests' = tests BY <1>4, <2>3 DEF LoadTests
    <3> QED BY <1>1, <2>1, <3>1
  <2> QED BY <2>2, <2>3
<1>5. ASSUME NEW p \in ItemPhases, StartItem(p) PROVE Held'
  <2> DEFINE n == Len(rows)
  <2>1. /\ n \in Nat /\ DOMAIN rows = 1..n /\ DOMAIN rows' = 1..(n + 1)
        /\ \A i \in 1..n : rows'[i] = rows[i]
        /\ rows'[n + 1].phase = p /\ rows'[n + 1].test = Iteration(p)
    BY <1>5, StartItemRows
  <2>2. UNCHANGED <<pc, version, hooks, tests>> /\ pc = p /\ Present(p)
    BY <1>5 DEF StartItem
  <2>3. p = "test" => Iteration(p) \in DOMAIN tests
    BY <1>0, <2>2 DEF Iteration, SuiteHooks, Typed, TypeOK, DataTypes, Positioned, InLoop
  <2>4. p # "test" => hooks[p].present
    BY <2>2 DEF Present, ItemPhases
  <2> HIDE DEF n
  <2>5. RowsHeld' BY <1>0, <2>1, <2>2, <2>3, <2>4
  <2> QED BY <1>0, <1>1, <2>2, <2>5 DEF OpenTransaction
<1>6. ASSUME NEW c \in Scopes, RunCommand(c) PROVE Held'
  <2>1. /\ DOMAIN rows' = DOMAIN rows
        /\ \A i \in DOMAIN rows : rows'[i].phase = rows[i].phase /\ rows'[i].test = rows[i].test
    BY <1>6, RunCommandRows
  <2>2. UNCHANGED <<pc, version, hooks, tests>> BY <1>6 DEF RunCommand
  <2>3. RowsHeld' BY <1>0, <2>1, <2>2
  <2> QED BY <1>0, <1>1, <2>2, <2>3 DEF OpenTransaction
<1>7. ASSUME busy, NEW failed \in BOOLEAN, NEW blank \in BOOLEAN, NEW stuck \in {0, 1},
             NEW published, EndItem(failed, blank, stuck, published)
      PROVE  Held'
  <2>1. /\ DOMAIN rows' = DOMAIN rows
        /\ \A i \in DOMAIN rows : rows'[i].phase = rows[i].phase /\ rows'[i].test = rows[i].test
    BY <1>7, EndItemRows
  <2>2. UNCHANGED <<version, hooks, tests>> /\ pc \in ItemPhases
    BY <1>7 DEF EndItem, Typed, RunningRow
  <2>3. RowsHeld' BY <1>0, <2>1, <2>2
  <2> QED BY <1>0, <1>1, <2>2, <2>3 DEF OpenTransaction
<1>8. CASE \E c \in Scopes : CommandFails(c) BY <1>7, <1>8 DEF CommandFails
<1>9. CASE ConvertFails \/ ItemSucceeds
  <2>1. CASE ConvertFails BY <1>7, <2>1 DEF ConvertFails
  <2>2. CASE ItemSucceeds BY <1>7, <2>2 DEF ItemSucceeds
  <2> QED BY <1>9, <2>1, <2>2
<1>10. CASE (\E p \in HookPhases : SkipHook(p)) \/ EndTest \/ Finalize \/ CommitRun
  <2>1. UNCHANGED <<version, hooks, tests, rows>> /\ (OpenTransaction' => OpenTransaction)
    BY <1>10 DEF SkipHook, EndTest, Finalize, CommitRun, OpenTransaction, ItemPhases
  <2> QED BY <1>0, <1>1, <2>1
<1>11. CASE RollBack
  <2>1. UNCHANGED <<version, hooks, tests>> /\ rows' = <<>> /\ ~OpenTransaction'
    BY <1>11 DEF RollBack, OpenTransaction, ItemPhases, HookPhases
  <2> QED BY <1>1, <2>1
<1>12. ASSUME NEW s \in Suites, UpdateSuite(s) PROVE Held'
  <2>1. UNCHANGED <<pc, hooks, tests, rows>> /\ version > 0 /\ version' = version + 1
    BY <1>0, <1>12, VersionAssumption DEF UpdateSuite
  <2>2. ASSUME NEW v \in Nat, Known(v) PROVE Known(v)'
    BY <1>0, <2>1, <2>2 DEF Known
  <2>3. /\ \A p \in HookPhases : hooks[p].version \in Nat
        /\ \A i \in DOMAIN tests : tests[i].version \in Nat
    <3>1. /\ \A p \in HookPhases : hooks[p] \in HeldHook
          /\ \A i \in DOMAIN tests : tests[i] \in HeldTest
      BY <1>0
    <3> QED BY <3>1 DEF HeldHook, HeldTest
  <2> QED BY <1>0, <2>1, <2>2, <2>3 DEF Held, OpenTransaction
<1>13. CASE DeleteSuite
  <2>1. UNCHANGED <<pc, hooks, tests, rows>> /\ version' = 0 /\ ~OpenTransaction
    BY <1>13 DEF DeleteSuite
  <2> QED BY <1>0, <2>1 DEF Held, OpenTransaction, Known
<1>14. CASE UNCHANGED vars
  BY <1>0, <1>1, <1>14 DEF vars, OpenTransaction
<1> QED
  BY <1>2, <1>3, <1>4, <1>5, <1>6, <1>8, <1>9, <1>10, <1>11, <1>12, <1>13, <1>14
     DEF Next, Executor

\* Every step keeps the executed and the outstanding commands in line with the
\* held item (Counted).
LEMMA NextCounted ==
  ASSUME Typed, Fresh, Fresh', Held, Settled, Counted, [Next]_vars PROVE Counted'
<1> USE DEF dbVars, planVars, loopVars, itemVars, ctxVars
<1>0. /\ rows \in Seq(Row) /\ version \in Nat /\ tests \in Seq(HeldTest) /\ todo \in Nat
      /\ hooks \in [HookPhases -> HeldHook] /\ k \in Nat
  BY DEF Typed, TypeOK, DataTypes
<1>1. ASSUME rows' = <<>> PROVE Counted'
  BY <1>1 DEF Counted
<1>2. CASE UNCHANGED <<rows, version, tests, hooks, todo>>
  BY <1>2 DEF Counted, HeldItem
<1>3. ASSUME NEW i \in DOMAIN rows
      PROVE  /\ rows[i] \in Row /\ HeldItem(rows[i]).version \in Nat
             /\ HeldItem(rows[i]).commands \in Nat /\ Known(HeldItem(rows[i]).version)
  <2>1. rows[i] \in Row BY <1>0
  <2>2. CASE rows[i].phase = "test"
    <3>1. HeldItem(rows[i]) = tests[rows[i].test] /\ rows[i].test \in DOMAIN tests
      BY <2>2 DEF HeldItem, Held
    <3>2. tests[rows[i].test] \in HeldTest BY <1>0, <3>1
    <3> QED BY <2>1, <3>1, <3>2 DEF HeldTest, Held
  <2>3. CASE rows[i].phase # "test"
    <3>1. /\ HeldItem(rows[i]) = hooks[rows[i].phase] /\ rows[i].phase \in HookPhases
          /\ hooks[rows[i].phase].present
      BY <2>1, <2>3 DEF HeldItem, Held, Row, ItemPhases
    <3>2. hooks[rows[i].phase] \in HeldHook BY <1>0, <3>1
    <3> QED BY <2>1, <3>1, <3>2 DEF HeldHook, Held
  <2> QED BY <2>2, <2>3
<1>4. CASE LoadHook \/ LoadTests
  <2>1. rows' = <<>> BY <1>4 DEF LoadHook, LoadTests, Fresh
  <2> QED BY <1>1, <2>1
<1>5. ASSUME NEW p \in ItemPhases, StartItem(p) PROVE Counted'
  <2> DEFINE n == Len(rows)
  <2>1. /\ n \in Nat /\ DOMAIN rows = 1..n /\ DOMAIN rows' = 1..(n + 1)
        /\ \A i \in 1..n : rows'[i] = rows[i]
        /\ rows'[n + 1].phase = p /\ rows'[n + 1].test = Iteration(p)
        /\ rows'[n + 1].status = "running" /\ rows'[n + 1].done = 0
    BY <1>5, StartItemRows
  <2>2. /\ UNCHANGED <<version, tests, hooks>> /\ todo' = StoredCommands(p) /\ ~busy
    BY <1>5 DEF StartItem
  <2>3. \A i \in DOMAIN rows' :
          HeldItem(rows[i])' = IF i = n + 1 THEN Planned(p) ELSE HeldItem(rows[i])
    BY <2>1, <2>2 DEF HeldItem, Planned, Iteration, SuiteHooks
  <2>4. Planned(p).commands \in Nat
    <3>1. CASE p = "test"
      <4>1. tests[k] \in HeldTest
        BY <1>0, <1>5, <3>1 DEF StartItem, Typed, Positioned, InLoop, TypeOK, DataTypes
      <4> QED BY <3>1, <4>1 DEF Planned, HeldTest
    <3>2. CASE p # "test"
      <4>1. hooks[p] \in HeldHook BY <1>0, <3>2 DEF ItemPhases
      <4> QED BY <3>2, <4>1 DEF Planned, HeldHook
    <3> QED BY <3>1, <3>2
  <2>5. Planned(p).version = version => todo' = Planned(p).commands
    BY <2>2 DEF StoredCommands
  <2> HIDE DEF n
  <2>6. ASSUME NEW i \in DOMAIN rows', HeldItem(rows[i])'.version = version'
        PROVE  /\ rows'[i].status = "success" => rows'[i].done = HeldItem(rows[i])'.commands
               /\ rows'[i].status = "running" => rows'[i].done + todo' = HeldItem(rows[i])'.commands
    <3>1. CASE i = n + 1 BY <2>1, <2>2, <2>3, <2>4, <2>5, <2>6, <3>1
    <3>2. CASE i # n + 1
      <4>1. i \in DOMAIN rows /\ rows'[i] = rows[i] /\ HeldItem(rows[i])' = HeldItem(rows[i])
        BY <2>1, <2>3, <3>2
      <4> QED BY <2>2, <2>6, <4>1 DEF Counted, Settled
    <3> QED BY <3>1, <3>2
  <2> QED BY <2>6 DEF Counted
<1>6. ASSUME NEW c \in Scopes, RunCommand(c) PROVE Counted'
  <2> DEFINE n == Len(rows)
  <2>1. /\ DOMAIN rows = 1..n /\ DOMAIN rows' = 1..n
        /\ \A i \in 1..n :
             /\ rows'[i].phase = rows[i].phase /\ rows'[i].test = rows[i].test
             /\ rows'[i].status = rows[i].status
             /\ rows'[i].done = IF i = n THEN rows[i].done + 1 ELSE rows[i].done
    BY <1>6, RunCommandRows
  <2>2. /\ UNCHANGED <<version, tests, hooks>> /\ todo' = todo - 1 /\ busy /\ todo > 0
    BY <1>6 DEF RunCommand
  <2>3. \A i \in 1..n : HeldItem(rows[i])' = HeldItem(rows[i])
    BY <2>1, <2>2 DEF HeldItem
  <2>4. rows[n].status = "running" /\ n \in DOMAIN rows
    BY <1>0, <2>2 DEF Typed, RunningRow
  <2> HIDE DEF n
  <2>5. ASSUME NEW i \in DOMAIN rows', HeldItem(rows[i])'.version = version'
        PROVE  /\ rows'[i].status = "success" => rows'[i].done = HeldItem(rows[i])'.commands
               /\ rows'[i].status = "running" => rows'[i].done + todo' = HeldItem(rows[i])'.commands
    <3>1. /\ i \in DOMAIN rows /\ HeldItem(rows[i]).version = version
          /\ rows'[i].status = rows[i].status
          /\ HeldItem(rows[i])' = HeldItem(rows[i])
      BY <2>1, <2>2, <2>3, <2>5
    <3>2. rows[i].done \in Nat BY <1>3, <3>1 DEF Row
    <3>3. /\ rows[i].status = "success" => rows[i].done = HeldItem(rows[i]).commands
          /\ rows[i].status = "running" => rows[i].done + todo = HeldItem(rows[i]).commands
      BY <3>1 DEF Counted
    <3>4. CASE i = n
      <4>1. rows'[i].done = rows[i].done + 1 BY <2>1, <3>1, <3>4
      <4>2. \A d, t \in Nat : (d + 1) + (t - 1) = d + t OBVIOUS
      <4> QED BY <1>0, <2>2, <2>4, <3>1, <3>2, <3>3, <3>4, <4>1, <4>2
    <3>5. CASE i # n
      <4>1. rows[i].status # "running" BY <3>1, <3>5 DEF Settled, n
      <4> QED BY <2>1, <3>1, <3>3, <3>5, <4>1
    <3> QED BY <3>4, <3>5
  <2> QED BY <2>5 DEF Counted
<1>7. ASSUME busy, NEW failed \in BOOLEAN, NEW blank \in BOOLEAN, NEW stuck \in {0, 1},
             NEW published, EndItem(failed, blank, stuck, published),
             failed \/ todo = 0
      PROVE  Counted'
  <2> DEFINE n == Len(rows)
  <2>1. /\ n \in Nat \ {0} /\ DOMAIN rows = 1..n /\ DOMAIN rows' = 1..n
        /\ \A i \in 1..(n - 1) : rows'[i] = rows[i]
        /\ rows[n].status = "running" /\ rows'[n].status = ItemStatus(failed)
        /\ rows[n].test = Iteration(pc) /\ rows[n].phase = pc
        /\ rows'[n].test = Iteration(pc) /\ rows'[n].phase = pc
        /\ rows'[n].done = rows[n].done
    BY <1>7, EndItemRows
  <2>2. UNCHANGED <<version, tests, hooks>>
    BY <1>7 DEF EndItem
  <2> HIDE DEF n
  <2>3. \A i \in 1..n : HeldItem(rows[i])' = HeldItem(rows[i])
    BY <2>1, <2>2 DEF HeldItem
  <2>4. ASSUME NEW i \in DOMAIN rows', HeldItem(rows[i])'.version = version'
        PROVE  /\ rows'[i].status = "success" => rows'[i].done = HeldItem(rows[i])'.commands
               /\ rows'[i].status = "running" => rows'[i].done + todo' = HeldItem(rows[i])'.commands
    <3>1. /\ i \in DOMAIN rows /\ HeldItem(rows[i]).version = version
          /\ HeldItem(rows[i])' = HeldItem(rows[i])
      BY <2>1, <2>2, <2>3, <2>4
    <3>2. /\ rows[i].status = "success" => rows[i].done = HeldItem(rows[i]).commands
          /\ rows[i].status = "running" => rows[i].done + todo = HeldItem(rows[i]).commands
      BY <3>1 DEF Counted
    <3>3. CASE i = n
      <4>1. rows'[i].status # "running" BY <2>1, <3>3 DEF ItemStatus
      <4>2. rows'[i].status = "success" => todo = 0
        BY <1>7, <2>1, <3>3 DEF ItemStatus
      <4>3. rows[i].done \in Nat BY <1>3, <3>1 DEF Row
      <4>4. todo = 0 => rows[i].done = HeldItem(rows[i]).commands
        BY <2>1, <3>2, <3>3, <4>3
      <4> QED BY <2>1, <3>1, <3>3, <4>1, <4>2, <4>4
    <3>4. CASE i # n
      <4>1. rows[i].status # "running" BY <3>1, <3>4 DEF Settled, n
      <4>2. rows'[i] = rows[i] BY <2>1, <3>4
      <4> QED BY <3>1, <3>2, <4>1, <4>2
    <3> QED BY <3>3, <3>4
  <2> QED BY <2>4 DEF Counted
<1>8. CASE \E c \in Scopes : CommandFails(c) BY <1>7, <1>8 DEF CommandFails
<1>9. CASE ConvertFails \/ ItemSucceeds
  <2>1. CASE ConvertFails BY <1>7, <2>1 DEF ConvertFails
  <2>2. CASE ItemSucceeds BY <1>7, <2>2 DEF ItemSucceeds
  <2> QED BY <1>9, <2>1, <2>2
<1>10. CASE RollBack BY <1>1, <1>10 DEF RollBack
<1>11. CASE (\E s \in Suites : UpdateSuite(s)) \/ DeleteSuite
  <2>1. /\ UNCHANGED <<rows, tests, hooks>>
        /\ version' = version + 1 \/ version' = 0
        /\ version > 0
    BY <1>0, <1>11, VersionAssumption DEF UpdateSuite, DeleteSuite
  <2>2. ASSUME NEW i \in DOMAIN rows PROVE HeldItem(rows[i]).version # version'
    BY <1>0, <1>3, <2>1 DEF Known
  <2> QED BY <2>1, <2>2 DEF Counted, HeldItem
<1>12. CASE LoadDescription \/ OpenExecution
  BY <1>2, <1>12 DEF LoadDescription, OpenExecution, FindSuite
<1>13. CASE (\E p \in HookPhases : SkipHook(p)) \/ EndTest \/ Finalize \/ CommitRun
  BY <1>2, <1>13 DEF SkipHook, EndTest, Finalize, CommitRun
<1>14. CASE UNCHANGED vars BY <1>2, <1>14 DEF vars
<1> QED
  BY <1>4, <1>5, <1>6, <1>8, <1>9, <1>10, <1>11, <1>12, <1>13, <1>14
     DEF Next, Executor

\* An item that is recorded as success executed each of its commands, unless
\* the suite was replaced or deleted after the item was read (NoVacuousSuccess).
THEOREM SuccessCorrect == Spec => []NoVacuousSuccess
<1> DEFINE Inv == Typed /\ Fresh /\ Held /\ Settled /\ Counted
<1>1. Init => Inv
  <2>1. Init => Fresh /\ Held /\ Settled /\ Counted
    BY DEF Init, Fresh, Held, Settled, Counted, OpenTransaction, NoHook, ItemPhases, HookPhases
  <2> QED BY <2>1, InitTyped
<1>2. Inv /\ [Next]_vars => Inv'
  BY NextTyped, NextFresh, NextHeld, NextSettled, NextCounted
<1>3. Inv => NoVacuousSuccess BY DEF Counted, NoVacuousSuccess
<1> QED BY <1>1, <1>2, <1>3, PTL DEF Spec
=============================================================================
