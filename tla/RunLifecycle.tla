---------------------------- MODULE RunLifecycle ----------------------------
(***************************************************************************)
(* What one run of a test suite promises to the rest of Qsmith: to the     *)
(* readers of table test_suite_executions (scheduler, executions API) and  *)
(* to the listeners of its event stream.  The whole run is one database    *)
(* transaction, so its row appears once, at the end, with its verdict; the *)
(* verdict is published as suite_finished before that commit.              *)
(***************************************************************************)
VARIABLES
  phase,      \* where the run is, from its thread's start to its end
  announced,  \* status carried by the suite_finished event, "none" before
  visible     \* status of the row that other sessions read, "none" if none

lifecycleVars == <<phase, announced, visible>>

Status == {"success", "error"}

LifecycleInit ==
  /\ phase = "created"
  /\ announced = "none"
  /\ visible = "none"

\* The executor opens its transaction and inserts a row nobody else sees.
Begin ==
  /\ phase = "created"
  /\ phase' = "running"
  /\ UNCHANGED <<announced, visible>>

\* suite_finished is published inside the still open transaction.
Announce(s) ==
  /\ phase = "running"
  /\ phase' = "announced"
  /\ announced' = s
  /\ UNCHANGED visible

\* The transaction commits: the row becomes visible, already finished.
Commit ==
  /\ phase = "announced"
  /\ phase' = "committed"
  /\ visible' = announced
  /\ UNCHANGED announced

\* The thread dies and its transaction is rolled back.
Lose ==
  /\ phase \in {"created", "running", "announced"}
  /\ phase' = "lost"
  /\ UNCHANGED <<announced, visible>>

\* The suite is deleted and its executions with it (ON DELETE CASCADE).
Erase ==
  /\ phase = "committed"
  /\ visible' = "none"
  /\ UNCHANGED <<phase, announced>>

LifecycleNext ==
  \/ Begin
  \/ \E s \in Status : Announce(s)
  \/ Commit
  \/ Lose
  \/ Erase

LifecycleSpec == LifecycleInit /\ [][LifecycleNext]_lifecycleVars
=============================================================================
