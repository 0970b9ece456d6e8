--------------------------- MODULE RootEvaluation ---------------------------
(***************************************************************************)
(* What evaluateAllRoots promises, however it is executed: one result per  *)
(* root, in the order of the roots, and the archive that recording the     *)
(* executions of all jobs in that order leaves.  "This method must always  *)
(* the same results as the evaluateAllRoots for a sequential execution.    *)
(* The Archive should also be updated in the exact same manner."           *)
(***************************************************************************)
EXTENDS EvaluationOps, SequencesExt

VARIABLES input,     \* the situation, chosen once
          archive,   \* recordings of LearningAgent::archive
          results,   \* what the call returns, in the order of insertion
          returned   \* has the call returned?

vars == <<input, archive, results, returned>>

Init == /\ input \in Inputs
        /\ archive = OldArchive(input)
        /\ results = <<>>
        /\ returned = FALSE

EvaluateAllRoots ==
    /\ ~ returned
    /\ returned' = TRUE
    /\ results' = [i \in Job |-> [result |-> JobResult(input, i), root |-> i]]
    /\ archive' = RecordAll(archive, FlattenSeq([i \in Job |-> JobRecordings(input, i)]))
    /\ UNCHANGED input

Spec == Init /\ [][EvaluateAllRoots]_vars
=============================================================================
