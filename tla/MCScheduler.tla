---------------------------- MODULE MCScheduler ----------------------------
(* Small schedules: a plain one, and one with a window in which it is due.  *)
(* Three scenarios share a run: what users and failures can do to a single  *)
(* schedule, two schedules in one poll, of which the first may be deleted   *)
(* or its trigger may raise before the second is reached, and the runs of a *)
(* schedule nobody edits.  Runs go on only in the last: no row is ever      *)
(* visible as running and no row has the id of a thread, so a run that goes *)
(* on changes nothing for the schedules.                                    *)
EXTENDS Scheduler

Always == [delta |-> 1, start |-> Never, end |-> Never]
Window == [delta |-> 1, start |-> 1, end |-> 2]

OnePlan == {Always}
OneWindow == {Window}
OneSchedule == {1}
TwoSchedules == {1, 2}

VARIABLE scenario

OneOnly ==
  /\ \A s \in Schedules : s > 1 => ~schedule'[s].exists
  /\ subject'["api"] <= 1
\* An active schedule may be inserted or deleted, but not edited or run at once.
Unedited ==
  /\ at'["api"] = "idle"
  /\ \A s \in Schedules : schedule'[s].exists => schedule'[s].active \/ schedule[s].exists
RunsStand == phase' = phase

MCInit == Init /\ scenario \in {"edits", "polls", "runs"}
\* All the runs the instance has were started: it ends here, the system does not.
RunsUsedUp == threads = Runs /\ UNCHANGED vars
MCNext ==
  /\ Next \/ RunsUsedUp
  /\ scenario = "edits" => OneOnly /\ RunsStand
  /\ scenario = "polls" => Unedited /\ RunsStand
  /\ scenario = "runs" => OneOnly /\ Unedited /\ failures' <= 1
  /\ UNCHANGED scenario

MCSpec == MCInit /\ [][MCNext]_<<vars, scenario>> /\ Fairness
=============================================================================
