------------------------- MODULE SequentialEvaluation -------------------------
(***************************************************************************)
(* LearningAgent::evaluateAllRoots, and the sequential branch of           *)
(* ParallelLearningAgent::evaluateAllRoots: the roots one after the other, *)
(* on the environment and the archive of the agent.                        *)
(***************************************************************************)
EXTENDS EvaluationOps

VARIABLES input,     \* the situation, chosen once
          env,       \* LearningAgent::learningEnvironment
          archive,   \* LearningAgent::archive
          results,   \* the multimap result, in the order of insertion
          current,   \* loop counter: the job under evaluation
          scores,    \* evaluateJob: the scores of the finished iterations
          pc         \* "root", "reset", "act", "emplace", "returned"

vars == <<input, env, archive, results, current, scores, pc>>

Init == /\ input \in Inputs
        /\ env = ResetFor(0)
        /\ archive = OldArchive(input)
        /\ results = <<>>
        /\ current = 1
        /\ scores = <<>>
        /\ pc = "root"

Training == input.mode = "TRAINING"

(* The head of the loop over the roots: makeJob, setRandomSeed, and the test at the start
   of evaluateJob that skips a root evaluated often enough. *)
StartRoot ==
    /\ pc = "root"
    /\ current <= NbJobs
    /\ pc' = IF Training /\ current \in input.skipped THEN "emplace" ELSE "reset"
    /\ scores' = <<>>
    /\ UNCHANGED <<input, env, archive, results, current>>

(* Start of an iteration of evaluateJob: le.reset(hash, mode, iteration, generation) *)
ResetStep_None(e, iter) == [e EXCEPT !.iter = iter]
ResetStep(e, iter) == ResetFor(iter)

ResetEnvironment ==
    /\ pc = "reset"
    /\ env' = ResetStep(env, Len(scores) + 1)
    /\ pc' = "act"
    /\ UNCHANGED <<input, archive, results, current, scores>>

(* executeFromRoot, which offers the execution to the archive, and doAction *)
Act ==
    /\ pc = "act"
    /\ Len(env.trace) < EpisodeLength
    /\ LET n == Len(scores) * EpisodeLength + Len(env.trace) + 1
       IN  archive' = IF Training /\ n \in input.kept[current]
                      THEN RecordIn(archive, <<current, n>>) ELSE archive
    /\ env' = DoAction(env, current)
    /\ UNCHANGED <<input, results, current, scores, pc>>

(* End of an iteration: getScore *)
GetScore ==
    /\ pc = "act"
    /\ Len(env.trace) >= EpisodeLength
    /\ scores' = Append(scores, env)
    /\ pc' = IF Len(scores) + 1 < NbIter THEN "reset" ELSE "emplace"
    /\ UNCHANGED <<input, env, archive, results, current>>

(* evaluateJob returns the stored result of a skipped root, else the new one combined
   with the stored one, and the loop inserts it. *)
EmplaceResult ==
    /\ pc = "emplace"
    /\ results' = Append(results,
          [result |-> [combined |-> Training /\ current \in input.previous,
                       scores |-> scores],
           root |-> current])
    /\ current' = current + 1
    /\ pc' = "root"
    /\ UNCHANGED <<input, env, archive, scores>>

Return ==
    /\ pc = "root"
    /\ current > NbJobs
    /\ pc' = "returned"
    /\ UNCHANGED <<input, env, archive, results, current, scores>>

Next == StartRoot \/ ResetEnvironment \/ Act \/ GetScore \/ EmplaceResult \/ Return

Spec == Init /\ [][Next]_vars /\ WF_vars(Next)
=============================================================================
