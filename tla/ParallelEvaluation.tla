-------------------------- MODULE ParallelEvaluation --------------------------
(***************************************************************************)
(* ParallelLearningAgent::evaluateAllRootsInParallel: maxNbThreads - 1     *)
(* threads and the main thread run slaveEvalJobThread over a shared queue  *)
(* of jobs, then the main thread joins them and compiles the results and   *)
(* the archives.                                                           *)
(*                                                                         *)
(* Each section guarded by a mutex is one action.  The test of             *)
(* jobsToProcess.empty() that guards the loop is outside the mutex and     *)
(* races with pop(): a thread that has not synchronised since the queue    *)
(* ran empty may still read the older, non-empty value.                    *)
(***************************************************************************)
EXTENDS EvaluationOps, FiniteSetsExt

CONSTANT NoJob   \* absence of a job

ASSUME NoJobAssumption == NoJob \notin Job

(* The threads, of which the first is the main one, and the first input.threads run. *)
Thread == 1 .. MaxThreads

Main == 1

VARIABLES input,          \* the situation, chosen once
          jobsToProcess,  \* queue of jobs
          pc,             \* where each thread is
          job,            \* jobToProcess of each thread
          env,            \* learning environments; that of Main is the agent's
          scores,         \* evaluateJob: scores of the finished iterations
          temporary,      \* recordings of the temporary archive of each thread
          resultsPerJob,  \* map from job index to result
          archiveMap,     \* map from job index to recordings
          archive,        \* recordings of LearningAgent::archive
          results         \* what the call returns

vars == <<input, jobsToProcess, pc, job, env, scores, temporary, resultsPerJob,
          archiveMap, archive, results>>

Location == {"clone", "check", "pop", "drained", "start", "reset", "act",
             "storeResult", "storeArchive", "done", "returned"}

(* An environment copied while it was being modified: its content is no state that any
   job leaves. *)
Torn == [iter |-> 0, trace |-> <<0>>]

Training == input.mode = "TRAINING"

(* The function f with x mapped to y, unless x is mapped already (map::emplace). *)
Emplace(f, x, y) ==
    IF x \in DOMAIN f THEN f ELSE [z \in DOMAIN f \cup {x} |-> IF z = x THEN y ELSE f[z]]

Go(t, from, to) == pc[t] = from /\ pc' = [pc EXCEPT ![t] = to]

-----------------------------------------------------------------------------
(* evaluateAllRootsInParallelExecute: makeJobs, then the threads start. *)
Init == /\ input \in Inputs
        /\ jobsToProcess = [i \in Job |-> i]
        /\ pc = [t \in Thread |-> IF t = Main THEN "check"
                               ELSE IF t <= input.threads THEN "clone" ELSE "done"]
        /\ job = [t \in Thread |-> NoJob]
        /\ env = [t \in Thread |-> ResetFor(0)]
        /\ scores = [t \in Thread |-> <<>>]
        /\ temporary = [t \in Thread |-> <<>>]
        /\ resultsPerJob = <<>>
        /\ archiveMap = <<>>
        /\ archive = OldArchive(input)
        /\ results = <<>>

(* The environment a thread works on: the agent's for the main thread, a clone for the
   others. *)
EnvOf_SharesMain(t) == Main
EnvOf(t) == t

(* learningEnvironment.clone(), executed by the new thread while the main thread may be
   using the environment. *)
CloneEnvironment(t) ==
    /\ Go(t, "clone", "check")
    /\ \/ env' = [env EXCEPT ![EnvOf(t)] = env[Main]]
       \/ /\ pc[Main] \in {"reset", "act"}
          /\ env' = [env EXCEPT ![EnvOf(t)] = Torn]
    /\ UNCHANGED <<input, jobsToProcess, job, scores, temporary, resultsPerJob,
                   archiveMap, archive, results>>

(* while (!jobsToProcess.empty()): leave the loop, *)
LeaveLoop(t) ==
    /\ jobsToProcess = <<>>
    /\ \/ Go(t, "check", "done")
       \/ Go(t, "drained", "done")
    /\ UNCHANGED <<input, jobsToProcess, job, env, scores, temporary, resultsPerJob,
                   archiveMap, archive, results>>

(* or enter it, on a value that may be stale. *)
EnterLoop(t) ==
    /\ Go(t, "check", "pop")
    /\ UNCHANGED <<input, jobsToProcess, job, env, scores, temporary, resultsPerJob,
                   archiveMap, archive, results>>

(* The exclusion zone of rootsToProcessMutex: the test is repeated before pop(). *)
QueueAfterPop_NotPopped(q) == q
QueueAfterPop(q) == Tail(q)

PopJob(t) ==
    /\ jobsToProcess # <<>>
    /\ Go(t, "pop", "start")
    /\ job' = [job EXCEPT ![t] = Head(jobsToProcess)]
    /\ jobsToProcess' = QueueAfterPop(jobsToProcess)
    /\ UNCHANGED <<input, env, scores, temporary, resultsPerJob, archiveMap, archive, results>>

(* A thread that found the queue empty under the mutex sees it empty from then on. *)
AfterEmptyPop_Retries(t) == "pop"
AfterEmptyPop(t) == "drained"

FindEmpty(t) ==
    /\ jobsToProcess = <<>>
    /\ Go(t, "pop", AfterEmptyPop(t))
    /\ UNCHANGED <<input, jobsToProcess, job, env, scores, temporary, resultsPerJob,
                   archiveMap, archive, results>>

-----------------------------------------------------------------------------
(* evaluateJob on the environment of the thread, with a temporary archive in training. *)

StartJob(t) ==
    /\ Go(t, "start", IF Training /\ job[t] \in input.skipped THEN "storeResult" ELSE "reset")
    /\ scores' = [scores EXCEPT ![t] = <<>>]
    /\ temporary' = [temporary EXCEPT ![t] = <<>>]
    /\ UNCHANGED <<input, jobsToProcess, job, env, resultsPerJob, archiveMap, archive, results>>

(* le.reset(hash, mode, iterationNumber, generationNumber) *)
ResetStep(e, iter) == ResetFor(iter)

ResetEnvironment(t) ==
    /\ Go(t, "reset", "act")
    /\ env' = [env EXCEPT ![EnvOf(t)] = ResetStep(@, Len(scores[t]) + 1)]
    /\ UNCHANGED <<input, jobsToProcess, job, scores, temporary, resultsPerJob, archiveMap,
                   archive, results>>

Act(t) ==
    /\ pc[t] = "act"
    /\ Len(env[EnvOf(t)].trace) < EpisodeLength
    /\ LET n == Len(scores[t]) * EpisodeLength + Len(env[EnvOf(t)].trace) + 1
       IN  temporary' = IF Training /\ n \in input.kept[job[t]]
                        THEN [temporary EXCEPT ![t] = RecordIn(@, <<job[t], n>>)]
                        ELSE temporary
    /\ env' = [env EXCEPT ![EnvOf(t)] = DoAction(@, job[t])]
    /\ UNCHANGED <<input, jobsToProcess, pc, job, scores, resultsPerJob, archiveMap, archive,
                   results>>

GetScore(t) ==
    /\ pc[t] = "act"
    /\ Len(env[EnvOf(t)].trace) >= EpisodeLength
    /\ Go(t, "act", IF Len(scores[t]) + 1 < NbIter THEN "reset" ELSE "storeResult")
    /\ scores' = [scores EXCEPT ![t] = Append(@, env[EnvOf(t)])]
    /\ UNCHANGED <<input, jobsToProcess, job, env, temporary, resultsPerJob, archiveMap,
                   archive, results>>

(* The exclusion zone of resultsPerRootMapMutex *)
StoreResult(t) ==
    /\ Go(t, "storeResult", IF Training THEN "storeArchive" ELSE "check")
    /\ resultsPerJob' =
          Emplace(resultsPerJob, job[t],
                  [combined |-> Training /\ job[t] \in input.previous, scores |-> scores[t]])
    /\ job' = IF Training THEN job ELSE [job EXCEPT ![t] = NoJob]
    /\ UNCHANGED <<input, jobsToProcess, env, scores, temporary, archiveMap, archive, results>>

(* The exclusion zone of archiveMapMutex *)
StoreArchive(t) ==
    /\ Go(t, "storeArchive", "check")
    /\ archiveMap' = Emplace(archiveMap, job[t], temporary[t])
    /\ job' = [job EXCEPT ![t] = NoJob]
    /\ UNCHANGED <<input, jobsToProcess, env, scores, temporary, resultsPerJob, archive, results>>

-----------------------------------------------------------------------------
(* The n-th smallest key of the map m. *)
KeyOfRank(m, n) ==
    CHOOSE k \in DOMAIN m : Cardinality({j \in DOMAIN m : j <= k}) = n

(* evaluateAllRootsInParallelCompileResults: results.emplace for the entries of the map,
   which iterates in the order of its keys. *)
CompileResults(m) ==
    [n \in 1 .. Cardinality(DOMAIN m) |->
        [result |-> m[KeyOfRank(m, n)], root |-> KeyOfRank(m, n)]]

(* mergeArchiveMap: nbRecordings when the scan, backward from the last job, reaches the
   archive of job k.  An archive is taken while the archives after it hold fewer than
   archiveSize recordings, ... *)
RecordingsAfter(m, k) ==
    LET scanned[n \in 0 .. NbJobs] ==
            IF n = 0 THEN 0
            ELSE LET j == NbJobs - n + 1
                 IN  scanned[n - 1] + (IF j \in DOMAIN m THEN Len(m[j]) ELSE 0)
    IN  scanned[NbJobs - k]

Taken(m) == {k \in DOMAIN m : RecordingsAfter(m, k) < ArchiveSize}

(* ... of the first archive taken the excess is skipped, ... *)
Excess(m) ==
    LET total == RecordingsAfter(m, Min(Taken(m)) - 1)
    IN  IF total > ArchiveSize THEN total - ArchiveSize ELSE 0

Inserted(m, k) ==
    IF k \notin Taken(m) THEN <<>>
    ELSE IF k = Min(Taken(m)) THEN SubSeq(m[k], Excess(m) + 1, Len(m[k])) ELSE m[k]

(* ... and the other recordings are inserted in order in the archive of the agent. *)
MergeArchiveMap(old, m) ==
    LET merged[k \in 0 .. NbJobs] ==
            IF k = 0 THEN old ELSE RecordAll(merged[k - 1], Inserted(m, k))
    IN  merged[NbJobs]

(* The threads are joined, then the main thread compiles results and archives. *)
JoinAndCompile ==
    /\ \A t \in Thread : pc[t] = "done"
    /\ Go(Main, "done", "returned")
    /\ results' = CompileResults(resultsPerJob)
    /\ archive' = MergeArchiveMap(archive, archiveMap)
    /\ UNCHANGED <<input, jobsToProcess, job, env, scores, temporary, resultsPerJob, archiveMap>>

Done == pc[Main] = "returned" /\ UNCHANGED vars

-----------------------------------------------------------------------------
Step(t) ==
    \/ CloneEnvironment(t) \/ LeaveLoop(t) \/ EnterLoop(t) \/ PopJob(t) \/ FindEmpty(t)
    \/ StartJob(t) \/ ResetEnvironment(t) \/ Act(t) \/ GetScore(t)
    \/ StoreResult(t) \/ StoreArchive(t)

Next == (\E t \in Thread : Step(t)) \/ JoinAndCompile \/ Done

(* The operating system runs every thread that can run. *)
Fairness == (\A t \in Thread : WF_vars(Step(t))) /\ WF_vars(JoinAndCompile)

Spec == Init /\ [][Next]_vars /\ Fairness

-----------------------------------------------------------------------------
(* No job is lost and none is processed twice: a job is in the queue, in the hands of one
   thread, or has its result in the map, and in exactly one of these places. *)
Holder(i) == {t \in Thread : job[t] = i /\ pc[t] # "storeArchive"}

Queued(i) == {n \in DOMAIN jobsToProcess : jobsToProcess[n] = i}

EveryJobProcessedOnce ==
    \A i \in Job :
        Cardinality(Queued(i)) + Cardinality(Holder(i))
          + (IF i \in DOMAIN resultsPerJob THEN 1 ELSE 0) = 1

(* Every result stored is the one a sequential evaluation of that job gives: no action of
   another thread, and nothing of the state that the environment was cloned in, has
   reached it. *)
ResultsAsSequential ==
    \A i \in DOMAIN resultsPerJob : resultsPerJob[i] = JobResult(input, i)
=============================================================================
