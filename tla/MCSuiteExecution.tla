-------------------------- MODULE MCSuiteExecution --------------------------
(* Small suites for TLC: every phase, both values of on_failure.           *)
EXTENDS SuiteExecution

Hook(n) == [present |-> TRUE, commands |-> n]
Absent == [present |-> FALSE, commands |-> 0]
Test(f, n) == [on_failure |-> f, commands |-> n]

Full == [hooks |-> [p \in HookPhases |-> Hook(1)],
         tests |-> <<Test("ABORT", 1), Test("CONTINUE", 1)>>]
Plain == [hooks |-> [p \in HookPhases |-> IF p = "before_each" THEN Hook(1) ELSE Absent],
          tests |-> <<Test("CONTINUE", 2), Test("ABORT", 1)>>]
Empty == [hooks |-> [p \in HookPhases |-> IF p \in SuiteHooks THEN Hook(1) ELSE Absent],
          tests |-> <<>>]

MCSuites == {Full, Plain, Empty}
=============================================================================
