------------------------------ MODULE MCConsole ------------------------------
(***************************************************************************)
(* The dataset editor, the suite editor, the mock API and the queues with  *)
(* their readers side by side.  They keep disjoint tables and no step of   *)
(* one reads the state of another, so a behaviour follows one of them      *)
(* while the others stay in their initial state.                           *)
(***************************************************************************)
EXTENDS MCDatasetEditor, MCMockDispatch, MCSuiteEditor, QueueReaders

VARIABLE part
consoleVars == <<part, datasetVars, dispatchVars, editorVars, readerVars>>

\* Bound: a failed request or a step of another client, not both.
OneMishap == others + failures <= 1

ConsoleInit ==
  /\ DatasetInit /\ DispatchInit /\ EditorInit /\ QueueInit
  /\ part \in {"datasets", "mockApi", "suites", "queues"}
  /\ IF part = "datasets" THEN row.table # "t2" ELSE row = NoRow
  /\ (part = "suites") = (suite # NoItems)
ConsoleNext ==
  \/ /\ part = "datasets" /\ DatasetNext /\ OneMishap'
     /\ UNCHANGED <<part, dispatchVars, editorVars, readerVars>>
  \/ part = "mockApi" /\ DispatchNext /\ UNCHANGED <<part, datasetVars, editorVars, readerVars>>
  \/ part = "suites" /\ EditorNext /\ UNCHANGED <<part, datasetVars, dispatchVars, readerVars>>
  \/ part = "queues" /\ QueueNext /\ UNCHANGED <<part, datasetVars, dispatchVars, editorVars>>
ConsoleSpec == ConsoleInit /\ [][ConsoleNext]_consoleVars /\ QueueFairness
==============================================================================
