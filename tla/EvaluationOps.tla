---------------------------- MODULE EvaluationOps ----------------------------
(***************************************************************************)
(* What the evaluation of the roots of a TPGGraph is about, shared by the  *)
(* sequential and the parallel agents.                                     *)
(*                                                                         *)
(* Job i evaluates the i-th root.  The state of a LearningEnvironment is   *)
(* the iteration it was last reset for and the jobs that acted on it since *)
(* then: two evaluations give the same score when they find the            *)
(* environment in the same state, and a score is that state.  The n-th     *)
(* execution of a program by job i is the pair <<i, n>>; whether the       *)
(* archive keeps it is drawn by an engine seeded for the job.              *)
(***************************************************************************)
EXTENDS Integers, Sequences, FiniteSets

CONSTANTS NbJobs,         \* number of roots
          NbIter,         \* nbIterationsPerPolicyEvaluation
          EpisodeLength,  \* actions until isTerminal or maxNbActionsPerEval
          ArchiveSize,    \* params.archiveSize
          MaxThreads,     \* bound: largest params.maxNbThreads
          Inputs          \* the situations in which the roots are evaluated

Job == 1 .. NbJobs

Draw == 1 .. NbIter * EpisodeLength

(* A situation: the mode, the roots with a stored result, those evaluated often enough
   already, what the seeded draws of each job keep, the size of the archive, and
   params.maxNbThreads. *)
InputType ==
    [mode : {"TRAINING", "VALIDATION"}, previous : SUBSET Job, skipped : SUBSET Job,
     kept : [Job -> SUBSET Draw], old : 0 .. ArchiveSize, threads : 1 .. MaxThreads]

ASSUME EvaluationAssumption ==
    /\ NbJobs \in Nat /\ NbIter \in Nat \ {0}
    /\ EpisodeLength \in Nat /\ ArchiveSize \in Nat /\ MaxThreads \in Nat \ {0}
    /\ Inputs \subseteq InputType
    /\ \A in \in Inputs : in.skipped \subseteq in.previous

-----------------------------------------------------------------------------
(* LearningEnvironment::reset, doAction *)
ResetFor(iter) == [iter |-> iter, trace |-> <<>>]

DoAction(env, i) == [env EXCEPT !.trace = Append(@, i)]

(* The state in which iteration k of job i leaves an environment of its own. *)
Episode(i, k) == [iter |-> k, trace |-> [n \in 1 .. EpisodeLength |-> i]]

(* The result of a job, as evaluateJob combines it with the stored one. *)
JobResult(in, i) ==
    [combined |-> in.mode = "TRAINING" /\ i \in in.previous,
     scores |-> IF in.mode = "TRAINING" /\ i \in in.skipped THEN <<>>
                ELSE [k \in 1 .. NbIter |-> Episode(i, k)]]

(* The executions of job i up to the n-th one that its draws keep. *)
KeptUpTo(in, i, n) ==
    LET kept[m \in 0 .. NbIter * EpisodeLength] ==
            IF m = 0 THEN <<>>
            ELSE IF m \in in.kept[i] THEN Append(kept[m - 1], <<i, m>>) ELSE kept[m - 1]
    IN  kept[n]

(* All executions that job i offers to the archive and that are kept. *)
JobRecordings(in, i) ==
    IF in.mode = "VALIDATION" \/ i \in in.skipped THEN <<>>
    ELSE KeptUpTo(in, i, NbIter * EpisodeLength)

-----------------------------------------------------------------------------
(* The archive is used through what it promises (RecordingWindow): the last size
   executions recorded. *)
LastOf(s, n) == IF Len(s) <= n THEN s ELSE SubSeq(s, Len(s) - n + 1, Len(s))

RecordIn(archive, x) == LastOf(Append(archive, x), ArchiveSize)

RecordAll(archive, xs) == LastOf(archive \o xs, ArchiveSize)

(* The archive before the evaluation. *)
OldArchive(in) == [n \in 1 .. in.old |-> <<0, n>>]
=============================================================================
