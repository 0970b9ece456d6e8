----------------------- MODULE TrainingThreads_proofs -----------------------
(***************************************************************************)
(* Whatever the number of threads, of new programs and of jobs, a          *)
(* generation makes of the new programs what the sequential loop makes of  *)
(* them, no job is lost or processed twice, every result stored is the one *)
(* that a sequential evaluation of its job gives, and the generation       *)
(* returns the results and leaves the archive that evaluateAllRoots        *)
(* promises.                                                               *)
(***************************************************************************)
EXTENDS TrainingThreads, SequenceTheorems, FiniteSetTheorems, WellFoundedInduction, TLAPS

(***************************************************************************)
(* The parallel evaluation alone.                                          *)
(***************************************************************************)
(* Where a thread has a job that has no result yet. *)
Evaluating == {"start", "reset", "act", "storeResult"}

(* Jobs are popped in order: the queue holds the last ones. *)
Popped == NbJobs - Len(jobsToProcess)

QueueIsSuffix ==
    /\ jobsToProcess \in Seq(Job)
    /\ Len(jobsToProcess) <= NbJobs
    /\ \A n \in 1 .. Len(jobsToProcess) : jobsToProcess[n] = Popped + n

Types ==
    /\ pc \in [Thread -> Location]
    /\ job \in [Thread -> Job \cup {NoJob}]

(* A thread has a job from pop() to the end of its exclusion zones. *)
JobsAtWork == \A t \in Thread : job[t] # NoJob <=> pc[t] \in Evaluating \cup {"storeArchive"}

(* A job at work was popped and has no result, and no two threads have the same. *)
JobsAreOwn ==
    /\ \A t \in Thread :
          pc[t] \in Evaluating => job[t] <= Popped /\ job[t] \notin DOMAIN resultsPerJob
    /\ \A t, u \in Thread :
          t # u /\ pc[t] \in Evaluating /\ pc[u] \in Evaluating => job[t] # job[u]

(* A job that was popped is at work or has its result. *)
NoJobLost ==
    /\ DOMAIN resultsPerJob \subseteq 1 .. Popped
    /\ \A i \in 1 .. Popped :
          i \in DOMAIN resultsPerJob \/ \E t \in Thread : pc[t] \in Evaluating /\ job[t] = i

JobInv == QueueIsSuffix /\ Types /\ JobsAtWork /\ JobsAreOwn /\ NoJobLost

-----------------------------------------------------------------------------
(* pop() takes the next job of the order. *)
LEMMA PopTakesNext ==
    ASSUME QueueIsSuffix, jobsToProcess # <<>>
    PROVE  /\ Head(jobsToProcess) = Popped + 1
           /\ Head(jobsToProcess) \in Job
           /\ Tail(jobsToProcess) \in Seq(Job)
           /\ Len(Tail(jobsToProcess)) = Len(jobsToProcess) - 1
           /\ Len(jobsToProcess) \in Nat
           /\ \A n \in 1 .. Len(jobsToProcess) - 1 : Tail(jobsToProcess)[n] = jobsToProcess[n + 1]
<1>1. Len(jobsToProcess) \in Nat \ {0}
  BY EmptySeq DEF QueueIsSuffix
<1> QED BY <1>1, HeadTailProperties DEF QueueIsSuffix

LEMMA JobInvInit == Init => JobInv
<1> SUFFICES ASSUME Init PROVE JobInv
  OBVIOUS
<1> USE EvaluationAssumption, NoJobAssumption
<1>1. /\ jobsToProcess \in Seq(Job) /\ Len(jobsToProcess) = NbJobs
      /\ \A n \in 1 .. NbJobs : jobsToProcess[n] = n
  BY DEF Init, Job
<1>2. QueueIsSuffix /\ Popped = 0
  BY <1>1 DEF QueueIsSuffix, Popped
<1>3. Types /\ JobsAtWork
  BY DEF Init, Types, JobsAtWork, Location, Evaluating, Main
<1>4. DOMAIN resultsPerJob = {}
  BY DEF Init
<1>5. \A t \in Thread : pc[t] \notin Evaluating
  BY DEF Init, Evaluating, Main
<1> QED BY <1>2, <1>3, <1>4, <1>5 DEF JobInv, JobsAreOwn, NoJobLost

(* A step of a thread that takes no job and stores none. *)
LEMMA JobInvQuiet ==
    ASSUME JobInv, NEW t \in Thread, NEW l \in Location, pc' = [pc EXCEPT ![t] = l],
           UNCHANGED <<jobsToProcess, job, resultsPerJob>>,
           pc[t] \in Evaluating <=> l \in Evaluating,
           pc[t] # "storeArchive", l # "storeArchive"
    PROVE  JobInv'
<1>1. \A u \in Thread : /\ pc'[u] \in Evaluating <=> pc[u] \in Evaluating
                        /\ pc'[u] = "storeArchive" <=> pc[u] = "storeArchive"
  BY DEF JobInv, Types
<1>2. QueueIsSuffix' /\ Popped' = Popped
  BY DEF JobInv, QueueIsSuffix, Popped
<1>3. Types'
  BY DEF JobInv, Types
<1>4. JobsAtWork'
  BY <1>1 DEF JobInv, JobsAtWork
<1>5. JobsAreOwn'
  BY <1>1, <1>2 DEF JobInv, JobsAreOwn
<1>6. NoJobLost'
  BY <1>1, <1>2 DEF JobInv, NoJobLost
<1> QED BY <1>2, <1>3, <1>4, <1>5, <1>6 DEF JobInv

(* The exclusion zone of rootsToProcessMutex *)
LEMMA JobInvPop == ASSUME JobInv, NEW t \in Thread, PopJob(t) PROVE JobInv'
<1> DEFINE h == Head(jobsToProcess)
<1>1. /\ h = Popped + 1 /\ h \in Job /\ Popped' = Popped + 1 /\ Popped \in Nat
      /\ QueueIsSuffix'
  <2>1. jobsToProcess # <<>> /\ jobsToProcess' = Tail(jobsToProcess)
    BY DEF PopJob, QueueAfterPop
  <2>2. /\ h = Popped + 1 /\ h \in Job /\ jobsToProcess' \in Seq(Job)
        /\ Len(jobsToProcess') = Len(jobsToProcess) - 1 /\ Len(jobsToProcess) \in Nat
        /\ \A n \in 1 .. Len(jobsToProcess) - 1 : jobsToProcess'[n] = jobsToProcess[n + 1]
    BY <2>1, PopTakesNext DEF JobInv
  <2> HIDE DEF h
  <2>3. Popped' = Popped + 1 /\ Popped \in Nat
    BY <2>2, EvaluationAssumption DEF JobInv, QueueIsSuffix, Popped
  <2>4. \A n \in 1 .. Len(jobsToProcess) - 1 : jobsToProcess'[n] = Popped + (n + 1)
    BY <2>2 DEF JobInv, QueueIsSuffix
  <2>5. QueueIsSuffix'
    BY <2>2, <2>3, <2>4, EvaluationAssumption DEF JobInv, QueueIsSuffix
  <2> QED BY <2>2, <2>3, <2>5
<1>2. /\ pc' = [pc EXCEPT ![t] = "start"] /\ job' = [job EXCEPT ![t] = h] /\ pc[t] = "pop"
      /\ resultsPerJob' = resultsPerJob
  BY DEF PopJob, Go
<1> HIDE DEF h
<1>3. Types'
  BY <1>1, <1>2 DEF JobInv, Types, Location
<1>4. JobsAtWork'
  BY <1>1, <1>2, NoJobAssumption DEF JobInv, Types, JobsAtWork, Evaluating
<1>5. \A u \in Thread \ {t} : job'[u] = job[u] /\ pc'[u] = pc[u]
  BY <1>2 DEF JobInv, Types
<1>6. job'[t] = h /\ pc'[t] = "start" /\ h \notin 1 .. Popped
  BY <1>1, <1>2 DEF JobInv, Types
<1>7. \A u \in Thread \ {t} : pc[u] \in Evaluating => job[u] <= Popped /\ job[u] \in Job
  BY DEF JobInv, JobsAreOwn, JobsAtWork, Types
<1>8. JobsAreOwn'
  <2>1. \A u \in Thread : pc'[u] \in Evaluating =>
                             job'[u] <= Popped' /\ job'[u] \notin DOMAIN resultsPerJob'
    BY <1>1, <1>2, <1>5, <1>6, <1>7 DEF JobInv, JobsAreOwn, NoJobLost, Job
  <2>2. \A u \in Thread \ {t} : pc'[u] \in Evaluating => job'[u] # job'[t]
    BY <1>1, <1>5, <1>6, <1>7 DEF Job
  <2>3. \A u, w \in Thread :
          u # w /\ pc'[u] \in Evaluating /\ pc'[w] \in Evaluating => job'[u] # job'[w]
    BY <1>5, <2>2 DEF JobInv, JobsAreOwn
  <2> QED BY <2>1, <2>3 DEF JobsAreOwn
<1>9. NoJobLost'
  <2>1. DOMAIN resultsPerJob' \subseteq 1 .. Popped'
    BY <1>1, <1>2 DEF JobInv, NoJobLost
  <2>2. ASSUME NEW i \in 1 .. Popped'
        PROVE  i \in DOMAIN resultsPerJob' \/ \E u \in Thread : pc'[u] \in Evaluating /\ job'[u] = i
    <3>1. CASE i = h
      BY <3>1, <1>6 DEF Evaluating
    <3>2. CASE i # h
      <4>1. i \in 1 .. Popped
        BY <3>2, <1>1
      <4>2. CASE i \in DOMAIN resultsPerJob
        BY <4>2, <1>2
      <4>3. CASE i \notin DOMAIN resultsPerJob
        <5>1. PICK u \in Thread : pc[u] \in Evaluating /\ job[u] = i
          BY <4>1, <4>3 DEF JobInv, NoJobLost
        <5>2. u # t
          BY <5>1, <1>2 DEF Evaluating
        <5> QED BY <5>1, <5>2, <1>5
      <4> QED BY <4>2, <4>3
    <3> QED BY <3>1, <3>2
  <2> QED BY <2>1, <2>2 DEF NoJobLost
<1> QED BY <1>1, <1>3, <1>4, <1>8, <1>9 DEF JobInv

(* The exclusion zone of resultsPerRootMapMutex *)
LEMMA JobInvStoreResult == ASSUME JobInv, NEW t \in Thread, StoreResult(t) PROVE JobInv'
<1> DEFINE next == IF Training THEN "storeArchive" ELSE "check"
           left == IF Training THEN job[t] ELSE NoJob
<1>1. /\ pc' = [pc EXCEPT ![t] = next] /\ pc[t] = "storeResult"
      /\ jobsToProcess' = jobsToProcess
  BY DEF StoreResult, Go
<1>2. job' = [job EXCEPT ![t] = left]
  BY DEF StoreResult, JobInv, Types
<1>3. next \in Location /\ next \notin Evaluating /\ left \in Job \cup {NoJob}
  BY DEF Location, Evaluating, JobInv, Types
<1>4. job[t] \in Job /\ job[t] <= Popped /\ job[t] \notin DOMAIN resultsPerJob
  BY <1>1 DEF JobInv, JobsAtWork, JobsAreOwn, Types, Evaluating
<1>5. DOMAIN resultsPerJob' = DOMAIN resultsPerJob \cup {job[t]}
  BY <1>4 DEF StoreResult, Emplace
<1>6. QueueIsSuffix' /\ Popped' = Popped
  BY <1>1 DEF JobInv, QueueIsSuffix, Popped
<1>7. left # NoJob <=> next \in Evaluating \cup {"storeArchive"}
  BY <1>4, NoJobAssumption DEF Evaluating
<1> HIDE DEF next, left
<1>8. \A u \in Thread \ {t} : job'[u] = job[u] /\ pc'[u] = pc[u]
  BY <1>1, <1>2 DEF JobInv, Types
<1>9. job'[t] = left /\ pc'[t] = next
  BY <1>1, <1>2 DEF JobInv, Types
<1>10. Types'
  BY <1>1, <1>2, <1>3 DEF JobInv, Types
<1>11. JobsAtWork'
  BY <1>7, <1>8, <1>9 DEF JobInv, JobsAtWork
<1>12. JobsAreOwn'
  <2>1. \A u \in Thread : pc'[u] \in Evaluating => u # t /\ pc[u] \in Evaluating /\ job'[u] = job[u]
    BY <1>3, <1>8, <1>9
  <2>2. pc[t] \in Evaluating
    BY <1>1 DEF Evaluating
  <2> QED BY <2>1, <2>2, <1>5, <1>6 DEF JobInv, JobsAreOwn
<1>13. NoJobLost'
  <2>1. job[t] \in 1 .. Popped
    BY <1>4, EvaluationAssumption DEF JobInv, QueueIsSuffix, Popped, Job
  <2>2. DOMAIN resultsPerJob' \subseteq 1 .. Popped'
    BY <2>1, <1>5, <1>6 DEF JobInv, NoJobLost
  <2>3. ASSUME NEW i \in 1 .. Popped', i \notin DOMAIN resultsPerJob'
        PROVE  \E u \in Thread : pc'[u] \in Evaluating /\ job'[u] = i
    <3>1. i \in 1 .. Popped /\ i \notin DOMAIN resultsPerJob /\ i # job[t]
      BY <2>3, <1>5, <1>6
    <3>2. PICK u \in Thread : pc[u] \in Evaluating /\ job[u] = i
      BY <3>1 DEF JobInv, NoJobLost
    <3> QED BY <3>1, <3>2, <1>8
  <2> QED BY <2>2, <2>3 DEF NoJobLost
<1> QED BY <1>6, <1>10, <1>11, <1>12, <1>13 DEF JobInv

(* The exclusion zone of archiveMapMutex *)
LEMMA JobInvStoreArchive == ASSUME JobInv, NEW t \in Thread, StoreArchive(t) PROVE JobInv'
<1>1. /\ pc' = [pc EXCEPT ![t] = "check"] /\ pc[t] = "storeArchive"
      /\ job' = [job EXCEPT ![t] = NoJob]
      /\ UNCHANGED <<jobsToProcess, resultsPerJob>>
  BY DEF StoreArchive, Go
<1>2. QueueIsSuffix' /\ Popped' = Popped
  BY <1>1 DEF JobInv, QueueIsSuffix, Popped
<1>3. \A u \in Thread \ {t} : job'[u] = job[u] /\ pc'[u] = pc[u]
  BY <1>1 DEF JobInv, Types
<1>4. job'[t] = NoJob /\ pc'[t] = "check"
  BY <1>1 DEF JobInv, Types
<1>5. Types'
  BY <1>1 DEF JobInv, Types, Location
<1>6. JobsAtWork'
  BY <1>3, <1>4 DEF JobInv, JobsAtWork, Evaluating
<1>7. \A u \in Thread : /\ pc'[u] \in Evaluating <=> pc[u] \in Evaluating
                        /\ pc[u] \in Evaluating => job'[u] = job[u]
  BY <1>1, <1>3, <1>4 DEF Evaluating
<1>8. JobsAreOwn'
  BY <1>1, <1>2, <1>7 DEF JobInv, JobsAreOwn
<1>9. NoJobLost'
  BY <1>1, <1>2, <1>7 DEF JobInv, NoJobLost
<1> QED BY <1>2, <1>5, <1>6, <1>8, <1>9 DEF JobInv

(* Every step keeps the invariant. *)
LEMMA JobInvNext == ASSUME JobInv, [Next]_vars PROVE JobInv'
<1>1. CASE UNCHANGED <<jobsToProcess, pc, job, resultsPerJob>>
  BY <1>1 DEF JobInv, QueueIsSuffix, Popped, Types, JobsAtWork, JobsAreOwn, NoJobLost
<1>2. ASSUME NEW t \in Thread, Step(t) PROVE JobInv'
  <2>1. CASE CloneEnvironment(t)
    <3> DEFINE l == "check"
    <3>1. l \in Location /\ l \notin Evaluating /\ l # "storeArchive"
      BY DEF Location, Evaluating
    <3>2. pc[t] = "clone" /\ pc' = [pc EXCEPT ![t] = l] /\ UNCHANGED <<jobsToProcess, job, resultsPerJob>>
      BY <2>1 DEF CloneEnvironment, Go
    <3> QED BY <3>1, <3>2, JobInvQuiet DEF Evaluating
  <2>2. CASE LeaveLoop(t)
    <3>1. /\ "done" \in Location /\ pc[t] \in {"check", "drained"} /\ pc' = [pc EXCEPT ![t] = "done"]
          /\ UNCHANGED <<jobsToProcess, job, resultsPerJob>>
      BY <2>2 DEF LeaveLoop, Go, Location
    <3> QED BY <3>1, JobInvQuiet DEF Evaluating
  <2>3. CASE EnterLoop(t)
    <3>1. /\ "pop" \in Location /\ pc[t] = "check" /\ pc' = [pc EXCEPT ![t] = "pop"]
          /\ UNCHANGED <<jobsToProcess, job, resultsPerJob>>
      BY <2>3 DEF EnterLoop, Go, Location
    <3> QED BY <3>1, JobInvQuiet DEF Evaluating
  <2>4. CASE PopJob(t)
    BY <2>4, JobInvPop
  <2>5. CASE FindEmpty(t)
    <3>1. /\ "drained" \in Location /\ pc[t] = "pop" /\ pc' = [pc EXCEPT ![t] = "drained"]
          /\ UNCHANGED <<jobsToProcess, job, resultsPerJob>>
      BY <2>5 DEF FindEmpty, AfterEmptyPop, Go, Location
    <3> QED BY <3>1, JobInvQuiet DEF Evaluating
  <2>6. CASE StartJob(t)
    <3> DEFINE l == IF Training /\ job[t] \in input.skipped THEN "storeResult" ELSE "reset"
    <3>1. /\ l \in Location /\ l \in Evaluating /\ l # "storeArchive"
          /\ pc[t] = "start" /\ pc' = [pc EXCEPT ![t] = l]
          /\ UNCHANGED <<jobsToProcess, job, resultsPerJob>>
      BY <2>6 DEF StartJob, Go, Location, Evaluating
    <3> HIDE DEF l
    <3> QED BY <3>1, JobInvQuiet DEF Evaluating
  <2>7. CASE ResetEnvironment(t)
    <3>1. /\ "act" \in Location /\ pc[t] = "reset" /\ pc' = [pc EXCEPT ![t] = "act"]
          /\ UNCHANGED <<jobsToProcess, job, resultsPerJob>>
      BY <2>7 DEF ResetEnvironment, Go, Location
    <3> QED BY <3>1, JobInvQuiet DEF Evaluating
  <2>8. CASE Act(t)
    BY <2>8, <1>1 DEF Act
  <2>9. CASE GetScore(t)
    <3> DEFINE l == IF Len(scores[t]) + 1 < NbIter THEN "reset" ELSE "storeResult"
    <3>1. /\ l \in Location /\ l \in Evaluating /\ l # "storeArchive"
          /\ pc[t] = "act" /\ pc' = [pc EXCEPT ![t] = l]
          /\ UNCHANGED <<jobsToProcess, job, resultsPerJob>>
      BY <2>9 DEF GetScore, Go, Location, Evaluating
    <3> HIDE DEF l
    <3> QED BY <3>1, JobInvQuiet DEF Evaluating
  <2>10. CASE StoreResult(t)
    BY <2>10, JobInvStoreResult
  <2>11. CASE StoreArchive(t)
    BY <2>11, JobInvStoreArchive
  <2> QED BY <1>2, <2>1, <2>2, <2>3, <2>4, <2>5, <2>6, <2>7, <2>8, <2>9, <2>10, <2>11 DEF Step
<1>3. CASE JoinAndCompile
  <2>1. /\ "returned" \in Location /\ Main \in Thread
        /\ pc[Main] = "done" /\ pc' = [pc EXCEPT ![Main] = "returned"]
        /\ UNCHANGED <<jobsToProcess, job, resultsPerJob>>
    BY <1>3, EvaluationAssumption DEF JoinAndCompile, Go, Location, Main, Thread
  <2> QED BY <2>1, JobInvQuiet DEF Evaluating
<1>4. CASE Done
  BY <1>4, <1>1 DEF Done, vars
<1>5. CASE UNCHANGED vars
  BY <1>5, <1>1 DEF vars
<1> QED BY <1>2, <1>3, <1>4, <1>5 DEF Next

LEMMA JobInvAlways == Spec => []JobInv
<1>1. Init => JobInv
  BY JobInvInit
<1>2. JobInv /\ [Next]_vars => JobInv'
  BY JobInvNext
<1> QED BY <1>1, <1>2, PTL DEF Spec

-----------------------------------------------------------------------------
(* The three places of a job exclude one another. *)
LEMMA JobInvImpliesOnce == JobInv => EveryJobProcessedOnce
<1> SUFFICES ASSUME JobInv, NEW i \in Job
             PROVE  Cardinality(Queued(i)) + Cardinality(Holder(i))
                       + (IF i \in DOMAIN resultsPerJob THEN 1 ELSE 0) = 1
  BY DEF EveryJobProcessedOnce
<1>1. /\ i \in Nat /\ 1 <= i /\ i <= NbJobs /\ Popped \in Nat
      /\ Len(jobsToProcess) \in Nat /\ DOMAIN jobsToProcess = 1 .. Len(jobsToProcess)
      /\ Popped = NbJobs - Len(jobsToProcess)
  BY EvaluationAssumption DEF Job, JobInv, QueueIsSuffix, Popped
<1>2. Holder(i) = {t \in Thread : pc[t] \in Evaluating /\ job[t] = i}
  BY NoJobAssumption DEF Holder, JobInv, JobsAtWork, Evaluating
<1>3. CASE i > Popped
  <2>1. Queued(i) = {i - Popped}
    <3>1. \A n \in 1 .. Len(jobsToProcess) : jobsToProcess[n] = Popped + n
      BY DEF JobInv, QueueIsSuffix
    <3>2. i - Popped \in 1 .. Len(jobsToProcess)
      BY <1>1, <1>3, EvaluationAssumption
    <3>3. \A n \in 1 .. Len(jobsToProcess) : Popped + n = i <=> n = i - Popped
      BY <1>1
    <3>4. Queued(i) = {n \in 1 .. Len(jobsToProcess) : jobsToProcess[n] = i}
      BY <1>1 DEF Queued
    <3> QED BY <3>1, <3>2, <3>3, <3>4
  <2>2. Holder(i) = {}
    BY <1>1, <1>2, <1>3 DEF JobInv, JobsAreOwn
  <2>3. i \notin DOMAIN resultsPerJob
    BY <1>1, <1>3 DEF JobInv, NoJobLost
  <2>4. Cardinality(Queued(i)) = 1 /\ Cardinality(Holder(i)) = 0
    BY <2>1, <2>2, FS_EmptySet, FS_Singleton
  <2> QED BY <2>3, <2>4
<1>4. CASE ~ (i > Popped)
  <2>1. Queued(i) = {} /\ i \in 1 .. Popped
    BY <1>1, <1>4 DEF Queued, JobInv, QueueIsSuffix
  <2>2. CASE i \in DOMAIN resultsPerJob
    <3>1. Holder(i) = {}
      BY <1>2, <2>2 DEF JobInv, JobsAreOwn
    <3> QED BY <2>1, <2>2, <3>1, FS_EmptySet
  <2>3. CASE i \notin DOMAIN resultsPerJob
    <3>1. PICK t \in Thread : pc[t] \in Evaluating /\ job[t] = i
      BY <2>1, <2>3 DEF JobInv, NoJobLost
    <3>2. Holder(i) = {t}
      BY <1>2, <3>1 DEF JobInv, JobsAreOwn
    <3>3. Cardinality(Holder(i)) = 1 /\ Cardinality(Queued(i)) = 0
      BY <2>1, <3>2, FS_EmptySet, FS_Singleton
    <3> QED BY <2>3, <3>3
  <2> QED BY <2>2, <2>3
<1> QED BY <1>3, <1>4

(* evaluateAllRootsInParallelExecute: whatever the interleaving of the threads, a job is in
   the queue, in the hands of one thread or has its result, and in only one of these
   places, although the test that guards the loop is outside the mutex. *)
THEOREM EveryJobAlwaysProcessedOnce == Spec => []EveryJobProcessedOnce
<1>1. Spec => []JobInv
  BY JobInvAlways
<1> QED BY <1>1, JobInvImpliesOnce, PTL

-----------------------------------------------------------------------------
(* Every thread evaluates its job as if it were alone. *)

ScoresUpTo(i, n) == [k \in 1 .. n |-> Episode(i, k)]

TraceUpTo(i, n) == [m \in 1 .. n |-> i]

(* What evaluateJob has done for the job of thread t. *)
WorkOf(t) ==
    /\ pc[t] \in {"reset", "act"} =>
          /\ Len(scores[t]) \in 0 .. NbIter - 1
          /\ scores[t] = ScoresUpTo(job[t], Len(scores[t]))
          /\ ~ (Training /\ job[t] \in input.skipped)
    /\ pc[t] = "act" =>
          /\ Len(env[t].trace) \in 0 .. EpisodeLength
          /\ env[t] = [iter |-> Len(scores[t]) + 1, trace |-> TraceUpTo(job[t], Len(env[t].trace))]
    /\ pc[t] = "storeResult" => scores[t] = JobResult(input, job[t]).scores

WorkInv ==
    /\ DOMAIN env = Thread /\ DOMAIN scores = Thread
    /\ \A t \in Thread : WorkOf(t)
    /\ ResultsAsSequential

LEMMA FunctionIsSeq ==
    ASSUME NEW S, NEW n \in Nat, NEW f \in [1 .. n -> S]
    PROVE  f \in Seq(S) /\ Len(f) = n
<1>1. f \in Seq(S)
  BY SeqDef
<1>2. Len(f) \in Nat /\ 1 .. n = 1 .. Len(f)
  BY <1>1, LenProperties
<1> QED BY <1>1, <1>2

(* Append lengthens a function on 1 .. n by one. *)
LEMMA AppendExtends ==
    ASSUME NEW S, NEW n \in Nat, NEW g \in [1 .. n + 1 -> S], NEW f \in [1 .. n -> S],
           \A k \in 1 .. n : f[k] = g[k]
    PROVE  Append(f, g[n + 1]) = g
<1>1. g[n + 1] \in S
  OBVIOUS
<1>2. f \in Seq(S) /\ Len(f) = n /\ g \in Seq(S) /\ Len(g) = n + 1
  BY FunctionIsSeq
<1>3. /\ Append(f, g[n + 1]) \in Seq(S)
      /\ Len(Append(f, g[n + 1])) = n + 1
      /\ \A k \in 1 .. n : Append(f, g[n + 1])[k] = f[k]
      /\ Append(f, g[n + 1])[n + 1] = g[n + 1]
  BY <1>1, <1>2, AppendProperties
<1>4. \A k \in 1 .. n + 1 : Append(f, g[n + 1])[k] = g[k]
  BY <1>3
<1> QED BY <1>2, <1>3, <1>4, SeqEqual

(* One more action, one more score *)
LEMMA OneMore ==
    ASSUME NEW i, NEW n \in Nat
    PROVE  /\ Append(TraceUpTo(i, n), i) = TraceUpTo(i, n + 1)
           /\ Append(ScoresUpTo(i, n), Episode(i, n + 1)) = ScoresUpTo(i, n + 1)
           /\ Len(TraceUpTo(i, n)) = n /\ Len(ScoresUpTo(i, n)) = n
           /\ TraceUpTo(i, 0) = <<>> /\ ScoresUpTo(i, 0) = <<>>
<1> DEFINE S == {Episode(i, k) : k \in Nat}
<1>1. \A m \in Nat : TraceUpTo(i, m) \in [1 .. m -> {i}] /\ ScoresUpTo(i, m) \in [1 .. m -> S]
  BY DEF TraceUpTo, ScoresUpTo
<1>2. \A k \in 1 .. n + 1 : TraceUpTo(i, n + 1)[k] = i /\ ScoresUpTo(i, n + 1)[k] = Episode(i, k)
  BY DEF TraceUpTo, ScoresUpTo
<1>3. \A k \in 1 .. n : TraceUpTo(i, n)[k] = i /\ ScoresUpTo(i, n)[k] = Episode(i, k)
  BY DEF TraceUpTo, ScoresUpTo
<1> HIDE DEF S
<1>4. n + 1 \in Nat /\ n + 1 \in 1 .. n + 1 /\ 1 .. n \subseteq 1 .. n + 1
  OBVIOUS
<1>5. Append(TraceUpTo(i, n), TraceUpTo(i, n + 1)[n + 1]) = TraceUpTo(i, n + 1)
  BY <1>1, <1>2, <1>3, <1>4, AppendExtends
<1>6. Append(ScoresUpTo(i, n), ScoresUpTo(i, n + 1)[n + 1]) = ScoresUpTo(i, n + 1)
  BY <1>1, <1>2, <1>3, <1>4, AppendExtends
<1>7. Len(TraceUpTo(i, n)) = n /\ Len(ScoresUpTo(i, n)) = n
  BY <1>1, FunctionIsSeq
<1>8. TraceUpTo(i, 0) = <<>> /\ ScoresUpTo(i, 0) = <<>>
  <2>1. /\ TraceUpTo(i, 0) \in Seq({i}) /\ Len(TraceUpTo(i, 0)) = 0
        /\ ScoresUpTo(i, 0) \in Seq(S) /\ Len(ScoresUpTo(i, 0)) = 0
    BY <1>1, FunctionIsSeq
  <2> QED BY <2>1, EmptySeq
<1> QED BY <1>2, <1>4, <1>5, <1>6, <1>7, <1>8

Untouched(u) == /\ pc'[u] = pc[u] /\ job'[u] = job[u]
                /\ env'[u] = env[u] /\ scores'[u] = scores[u]

(* A step of thread t that stores no result. *)
LEMMA WorkInvStep ==
    ASSUME WorkInv, NEW t \in Thread, UNCHANGED <<input, resultsPerJob>>,
           DOMAIN env' = Thread, DOMAIN scores' = Thread,
           \A u \in Thread \ {t} : Untouched(u), WorkOf(t)'
    PROVE  WorkInv'
<1>1. ASSUME NEW u \in Thread \ {t} PROVE WorkOf(u)'
  <2>1. WorkOf(u) /\ Untouched(u)
    BY DEF WorkInv
  <2>2. Training' = Training /\ JobResult(input, job[u])' = JobResult(input, job[u])
    BY <2>1 DEF Training, JobResult, Untouched
  <2> QED BY <2>1, <2>2 DEF WorkOf, Untouched
<1>2. ResultsAsSequential'
  BY DEF WorkInv, ResultsAsSequential
<1> QED BY <1>1, <1>2 DEF WorkInv

(* A step of thread t that neither reads nor writes the scores. *)
LEMMA WorkInvElsewhere ==
    ASSUME WorkInv, Types, NEW t \in Thread, NEW l, l \notin {"reset", "act", "storeResult"},
           pc' = [pc EXCEPT ![t] = l], UNCHANGED <<input, resultsPerJob, scores>>,
           DOMAIN env' = Thread,
           \A u \in Thread \ {t} : env'[u] = env[u] /\ job'[u] = job[u]
    PROVE  WorkInv'
<1>1. \A u \in Thread \ {t} : Untouched(u)
  BY DEF WorkInv, Types, Untouched
<1>2. WorkOf(t)'
  BY DEF WorkOf, Types
<1> QED BY <1>1, <1>2, WorkInvStep DEF WorkInv

LEMMA WorkInvStartJob == ASSUME WorkInv, Types, NEW t \in Thread, StartJob(t) PROVE WorkInv'
<1> DEFINE skips == Training /\ job[t] \in input.skipped
<1>1. /\ pc' = [pc EXCEPT ![t] = IF skips THEN "storeResult" ELSE "reset"]
      /\ scores' = [scores EXCEPT ![t] = <<>>]
      /\ UNCHANGED <<input, job, env, resultsPerJob>>
  BY DEF StartJob, Go
<1>2. \A u \in Thread \ {t} : Untouched(u)
  BY <1>1 DEF WorkInv, Types, Untouched
<1>3. /\ scores'[t] = <<>> /\ job'[t] = job[t]
      /\ pc'[t] = IF skips THEN "storeResult" ELSE "reset"
  BY <1>1 DEF WorkInv, Types
<1>4. skips => JobResult(input, job[t]).scores = <<>>
  BY DEF JobResult, Training
<1>5. Len(<<>>) = 0 /\ 0 \in 0 .. NbIter - 1 /\ ScoresUpTo(job[t], 0) = <<>>
  BY OneMore, EmptySeq, EvaluationAssumption
<1>6. (Training /\ job[t] \in input.skipped)' <=> skips
  BY <1>1 DEF Training
<1>7. JobResult(input, job[t])' = JobResult(input, job[t])
  BY <1>1 DEF JobResult
<1> HIDE DEF skips
<1>8. WorkOf(t)'
  BY <1>3, <1>4, <1>5, <1>6, <1>7 DEF WorkOf
<1> QED BY <1>1, <1>2, <1>8, WorkInvStep DEF WorkInv

(* Whatever state the environment was in, reset forgets it. *)
LEMMA WorkInvReset == ASSUME WorkInv, Types, NEW t \in Thread, ResetEnvironment(t) PROVE WorkInv'
<1>1. /\ pc[t] = "reset" /\ pc' = [pc EXCEPT ![t] = "act"]
      /\ env' = [env EXCEPT ![t] = ResetFor(Len(scores[t]) + 1)]
      /\ UNCHANGED <<input, job, scores, resultsPerJob>>
  BY DEF ResetEnvironment, ResetStep, EnvOf, Go
<1>2. \A u \in Thread \ {t} : Untouched(u)
  BY <1>1 DEF WorkInv, Types, Untouched
<1>3. pc'[t] = "act" /\ env'[t] = [iter |-> Len(scores[t]) + 1, trace |-> <<>>]
  BY <1>1 DEF WorkInv, Types, ResetFor
<1>4. Len(<<>>) = 0 /\ 0 \in 0 .. EpisodeLength /\ TraceUpTo(job[t], 0) = <<>>
  BY OneMore, EmptySeq, EvaluationAssumption
<1>5. Training' = Training /\ WorkOf(t)
  BY <1>1 DEF Training, WorkInv
<1>6. WorkOf(t)'
  BY <1>1, <1>3, <1>4, <1>5 DEF WorkOf
<1> QED BY <1>1, <1>2, <1>6, WorkInvStep DEF WorkInv

LEMMA WorkInvAct == ASSUME WorkInv, Types, NEW t \in Thread, Act(t) PROVE WorkInv'
<1> DEFINE n == Len(env[t].trace)
<1>1. /\ pc[t] = "act" /\ n < EpisodeLength
      /\ env' = [env EXCEPT ![t] = DoAction(env[t], job[t])]
      /\ UNCHANGED <<input, pc, job, scores, resultsPerJob>>
  BY DEF Act, EnvOf
<1>2. \A u \in Thread \ {t} : Untouched(u)
  BY <1>1 DEF WorkInv, Types, Untouched
<1>3. /\ WorkOf(t) /\ Training' = Training
      /\ n \in 0 .. EpisodeLength
      /\ env[t] = [iter |-> Len(scores[t]) + 1, trace |-> TraceUpTo(job[t], n)]
  BY <1>1 DEF WorkInv, WorkOf, Training
<1> HIDE DEF n
<1>4. n \in Nat /\ n + 1 \in 0 .. EpisodeLength
  BY <1>1, <1>3, EvaluationAssumption
<1>5. env'[t] = [iter |-> Len(scores[t]) + 1, trace |-> TraceUpTo(job[t], n + 1)]
  <2>1. Append(TraceUpTo(job[t], n), job[t]) = TraceUpTo(job[t], n + 1)
    BY <1>4, OneMore
  <2>2. env'[t] = DoAction(env[t], job[t])
    BY <1>1 DEF WorkInv
  <2>3. env[t].trace = TraceUpTo(job[t], n)
    BY <1>3
  <2>4. DoAction(env[t], job[t]) = [env[t] EXCEPT !.trace = TraceUpTo(job[t], n + 1)]
    BY <2>1, <2>3 DEF DoAction
  <2>5. DoAction(env[t], job[t]) = [iter |-> Len(scores[t]) + 1, trace |-> TraceUpTo(job[t], n + 1)]
    BY <1>3, <2>4
  <2> QED BY <2>2, <2>5
<1>6. Len(TraceUpTo(job[t], n + 1)) = n + 1
  BY <1>4, OneMore
<1>7. WorkOf(t)'
  BY <1>1, <1>3, <1>4, <1>5, <1>6 DEF WorkOf
<1> QED BY <1>1, <1>2, <1>7, WorkInvStep DEF WorkInv

LEMMA WorkInvGetScore == ASSUME WorkInv, Types, NEW t \in Thread, GetScore(t) PROVE WorkInv'
<1> DEFINE n == Len(scores[t])
           next == IF n + 1 < NbIter THEN "reset" ELSE "storeResult"
<1>1. /\ pc[t] = "act" /\ Len(env[t].trace) >= EpisodeLength
      /\ pc' = [pc EXCEPT ![t] = next]
      /\ scores' = [scores EXCEPT ![t] = Append(scores[t], env[t])]
      /\ UNCHANGED <<input, job, env, resultsPerJob>>
  BY DEF GetScore, EnvOf, Go
<1>2. \A u \in Thread \ {t} : Untouched(u)
  BY <1>1 DEF WorkInv, Types, Untouched
<1>3. /\ Training' = Training /\ JobResult(input, job[t])' = JobResult(input, job[t])
      /\ n \in 0 .. NbIter - 1 /\ scores[t] = ScoresUpTo(job[t], n)
      /\ ~ (Training /\ job[t] \in input.skipped)
      /\ Len(env[t].trace) \in 0 .. EpisodeLength
      /\ env[t] = [iter |-> n + 1, trace |-> TraceUpTo(job[t], Len(env[t].trace))]
  BY <1>1 DEF WorkInv, WorkOf, Training, JobResult
<1>4. pc'[t] = next /\ scores'[t] = Append(scores[t], env[t])
  BY <1>1 DEF WorkInv, Types
<1>5. Len(env[t].trace) = EpisodeLength
  BY <1>1, <1>3, EvaluationAssumption
<1>6. env[t] = Episode(job[t], n + 1)
  BY <1>3, <1>5 DEF Episode, TraceUpTo
<1>7. n \in Nat /\ n + 1 \in Nat /\ (n + 1 < NbIter => n + 1 \in 0 .. NbIter - 1)
      /\ (~ (n + 1 < NbIter) => n + 1 = NbIter)
  BY <1>3, EvaluationAssumption
<1>8. JobResult(input, job[t]).scores = ScoresUpTo(job[t], NbIter)
  BY <1>3 DEF JobResult, ScoresUpTo, Training
<1> HIDE DEF n
<1>9. scores'[t] = ScoresUpTo(job[t], n + 1) /\ Len(scores'[t]) = n + 1
  <2>1. /\ Append(ScoresUpTo(job[t], n), Episode(job[t], n + 1)) = ScoresUpTo(job[t], n + 1)
        /\ Len(ScoresUpTo(job[t], n + 1)) = n + 1
    BY <1>7, OneMore
  <2> QED BY <1>3, <1>4, <1>6, <2>1
<1>10. WorkOf(t)'
  BY <1>1, <1>3, <1>4, <1>7, <1>8, <1>9 DEF WorkOf
<1> QED BY <1>1, <1>2, <1>10, WorkInvStep DEF WorkInv

(* A thread stores the result that its job has in a sequential evaluation. *)
LEMMA WorkInvStoreResult ==
    ASSUME WorkInv, JobInv, NEW t \in Thread, StoreResult(t)
    PROVE  WorkInv'
<1> DEFINE next == IF Training THEN "storeArchive" ELSE "check"
           left == IF Training THEN job[t] ELSE NoJob
           r == [combined |-> Training /\ job[t] \in input.previous, scores |-> scores[t]]
<1>1. /\ pc[t] = "storeResult" /\ pc' = [pc EXCEPT ![t] = next]
      /\ resultsPerJob' = Emplace(resultsPerJob, job[t], r)
      /\ UNCHANGED <<input, env, scores>>
  BY DEF StoreResult, Go
<1>2. job' = [job EXCEPT ![t] = left]
  BY DEF StoreResult, JobInv, Types
<1>3. r = JobResult(input, job[t])
  BY <1>1 DEF WorkInv, WorkOf, JobResult, Training
<1>4. job[t] \notin DOMAIN resultsPerJob
  BY <1>1 DEF JobInv, JobsAreOwn, Evaluating
<1>5. next \notin {"reset", "act", "storeResult"}
  OBVIOUS
<1> HIDE DEF next, left, r
<1>6. resultsPerJob' = [i \in DOMAIN resultsPerJob \cup {job[t]} |->
                           IF i = job[t] THEN r ELSE resultsPerJob[i]]
  BY <1>1, <1>4 DEF Emplace
<1>7. ResultsAsSequential'
  <2>1. ASSUME NEW i \in DOMAIN resultsPerJob' PROVE resultsPerJob'[i] = JobResult(input, i)
    BY <1>3, <1>6 DEF WorkInv, ResultsAsSequential
  <2>2. \A i : JobResult(input, i)' = JobResult(input, i)
    BY <1>1 DEF JobResult
  <2> QED BY <1>1, <2>1 DEF ResultsAsSequential
<1>8. ASSUME NEW u \in Thread PROVE WorkOf(u)'
  <2>1. CASE u = t
    BY <2>1, <1>1, <1>5 DEF WorkOf, JobInv, Types
  <2>2. CASE u # t
    <3>1. WorkOf(u) /\ Untouched(u)
      BY <2>2, <1>1, <1>2 DEF WorkInv, JobInv, Types, Untouched
    <3>2. Training' = Training /\ JobResult(input, job[u])' = JobResult(input, job[u])
      BY <1>1, <3>1 DEF Training, JobResult, Untouched
    <3> QED BY <3>1, <3>2, <1>1 DEF WorkOf, Untouched
  <2> QED BY <2>1, <2>2
<1> QED BY <1>1, <1>7, <1>8 DEF WorkInv

LEMMA WorkInvInit == Init => WorkInv
<1> SUFFICES ASSUME Init PROVE WorkInv
  OBVIOUS
<1>1. \A t \in Thread : pc[t] \in {"check", "clone", "done"}
  BY DEF Init, Main
<1>2. DOMAIN env = Thread /\ DOMAIN scores = Thread /\ DOMAIN resultsPerJob = {}
  BY DEF Init
<1> QED BY <1>1, <1>2 DEF WorkInv, WorkOf, ResultsAsSequential

LEMMA WorkInvNext == ASSUME WorkInv, JobInv, [Next]_vars PROVE WorkInv'
<1> USE DEF EnvOf
<1>0. Types
  BY DEF JobInv
<1>1. CASE UNCHANGED vars
  BY <1>1 DEF vars, WorkInv, WorkOf, ResultsAsSequential, Training, JobResult
<1>2. ASSUME NEW t \in Thread, Step(t) PROVE WorkInv'
  <2>0. DOMAIN env = Thread /\ DOMAIN job = Thread
    BY <1>0 DEF WorkInv, Types
  <2>1. CASE CloneEnvironment(t)
    <3>1. PICK e : env' = [env EXCEPT ![t] = e]
      BY <2>1 DEF CloneEnvironment
    <3>2. pc' = [pc EXCEPT ![t] = "check"] /\ UNCHANGED <<input, resultsPerJob, scores, job>>
      BY <2>1 DEF CloneEnvironment, Go
    <3> QED BY <3>1, <3>2, <1>0, <2>0, WorkInvElsewhere
  <2>2. CASE LeaveLoop(t)
    <3>1. pc' = [pc EXCEPT ![t] = "done"] /\ UNCHANGED <<input, resultsPerJob, scores, job, env>>
      BY <2>2 DEF LeaveLoop, Go
    <3> QED BY <3>1, <1>0, <2>0, WorkInvElsewhere
  <2>3. CASE EnterLoop(t)
    <3>1. pc' = [pc EXCEPT ![t] = "pop"] /\ UNCHANGED <<input, resultsPerJob, scores, job, env>>
      BY <2>3 DEF EnterLoop, Go
    <3> QED BY <3>1, <1>0, <2>0, WorkInvElsewhere
  <2>4. CASE PopJob(t)
    <3>1. /\ pc' = [pc EXCEPT ![t] = "start"] /\ UNCHANGED <<input, resultsPerJob, scores, env>>
          /\ job' = [job EXCEPT ![t] = Head(jobsToProcess)]
      BY <2>4 DEF PopJob, Go
    <3> QED BY <3>1, <1>0, <2>0, WorkInvElsewhere
  <2>5. CASE FindEmpty(t)
    <3>1. pc' = [pc EXCEPT ![t] = "drained"] /\ UNCHANGED <<input, resultsPerJob, scores, job, env>>
      BY <2>5 DEF FindEmpty, AfterEmptyPop, Go
    <3> QED BY <3>1, <1>0, <2>0, WorkInvElsewhere
  <2>6. CASE StartJob(t)
    BY <2>6, <1>0, WorkInvStartJob
  <2>7. CASE ResetEnvironment(t)
    BY <2>7, <1>0, WorkInvReset
  <2>8. CASE Act(t)
    BY <2>8, <1>0, WorkInvAct
  <2>9. CASE GetScore(t)
    BY <2>9, <1>0, WorkInvGetScore
  <2>10. CASE StoreResult(t)
    BY <2>10, WorkInvStoreResult
  <2>11. CASE StoreArchive(t)
    <3>1. /\ pc' = [pc EXCEPT ![t] = "check"] /\ UNCHANGED <<input, resultsPerJob, scores, env>>
          /\ job' = [job EXCEPT ![t] = NoJob]
      BY <2>11 DEF StoreArchive, Go
    <3> QED BY <3>1, <1>0, <2>0, WorkInvElsewhere
  <2> QED BY <1>2, <2>1, <2>2, <2>3, <2>4, <2>5, <2>6, <2>7, <2>8, <2>9, <2>10, <2>11 DEF Step
<1>3. CASE JoinAndCompile
  <2>1. /\ pc' = [pc EXCEPT ![Main] = "returned"] /\ Main \in Thread
        /\ UNCHANGED <<input, resultsPerJob, scores, job, env>>
    BY <1>3, EvaluationAssumption DEF JoinAndCompile, Go, Main, Thread
  <2>2. DOMAIN env = Thread
    BY DEF WorkInv
  <2> QED BY <2>1, <2>2, <1>0, WorkInvElsewhere
<1>4. CASE Done
  BY <1>4, <1>1 DEF Done
<1> QED BY <1>1, <1>2, <1>3, <1>4 DEF Next

(* slaveEvalJobThread: no action of another thread, no torn copy of the environment and no
   state that an earlier job left in it reaches a result; every thread stores for a root what
   evaluateJob gives in a sequential execution. *)
THEOREM ResultsAlwaysAsSequential == Spec => []ResultsAsSequential
<1>1. Spec => []JobInv
  BY JobInvAlways
<1>2. Init => WorkInv
  BY WorkInvInit
<1>3. JobInv /\ WorkInv /\ [Next]_vars => WorkInv'
  BY WorkInvNext
<1>4. WorkInv => ResultsAsSequential
  BY DEF WorkInv
<1> QED BY <1>1, <1>2, <1>3, <1>4, PTL DEF Spec

(***************************************************************************)
(* A whole generation.                                                     *)
(***************************************************************************)
NewProgram == 1 .. NbNew

Same(p) == [prog |-> p, seed |-> p]

MutationsUpTo(p, k) == [n \in 1 .. k |-> <<p, n>>]

(* The programs that were taken for mutation are the first ones. *)
Given == drawn - Len(programsToMutate)

WorkerLocation == {"create", "idle", "get", "mutate", "done", "returned"}

WorkerTypes ==
    /\ input.threads \in Thread
    /\ drawn \in 0 .. NbNew
    /\ workerPc \in [Thread -> WorkerLocation]
    /\ DOMAIN workerJob = Thread /\ DOMAIN privateRNG = Thread /\ DOMAIN body = NewProgram

(* The queue holds the last programs, each with its own seed. *)
ProgramQueue ==
    /\ programsToMutate \in Seq([prog : NewProgram, seed : NewProgram])
    /\ Len(programsToMutate) <= drawn
    /\ \A n \in 1 .. Len(programsToMutate) : programsToMutate[n] = Same(Given + n)

(* One thread works in the sequential loop; the others start after the jobs exist. *)
WorkerPhases ==
    /\ input.threads <= 1 =>
          /\ programsToMutate = <<>>
          /\ workerPc[Main] \in {"create", "mutate", "returned"}
          /\ \A t \in Thread \ {Main} : workerPc[t] \in {"idle", "returned"}
    /\ input.threads > 1 =>
          IF workerPc[Main] = "create"
          THEN drawn = 0 /\ \A t \in Thread \ {Main} : workerPc[t] = "idle"
          ELSE drawn = NbNew /\ \A t \in Thread : workerPc[t] \notin {"create", "idle"}
    /\ workerPc[Main] \in {"done", "returned"} => programsToMutate = <<>>
    /\ workerPc[Main] = "returned" => drawn = NbNew /\ \A t \in Thread : workerPc[t] = "returned"

(* A thread draws from the generator seeded for its program, and from no other. *)
WorkingOn(t, p) ==
    /\ workerPc[t] = "mutate" /\ workerJob[t] = Same(p)
    /\ privateRNG[t] = [seed |-> p, used |-> Len(body[p])]
    /\ Len(body[p]) \in Nat /\ Len(body[p]) < Passes[p]
    /\ body[p] = MutationsUpTo(p, Len(body[p]))

ProgramsAreOwn ==
    /\ \A t \in Thread : workerPc[t] = "mutate" => \E p \in 1 .. Given : WorkingOn(t, p)
    /\ \A t, u \in Thread :
          workerPc[t] = "mutate" /\ workerPc[u] = "mutate" /\ t # u => workerJob[t] # workerJob[u]

ProgramsAreMutated ==
    \A p \in NewProgram :
        IF p > Given THEN body[p] = <<>>
        ELSE \/ body[p] = MutationsUpTo(p, Passes[p])
             \/ \E t \in Thread : WorkingOn(t, p)

WorkersInv ==
    WorkerTypes /\ ProgramQueue /\ WorkerPhases /\ ProgramsAreOwn /\ ProgramsAreMutated

-----------------------------------------------------------------------------
LEMMA SameThreads == Workers!Thread = Thread /\ Workers!Main = Main /\ Workers!NewProgram = NewProgram
BY DEF Workers!Thread, Workers!Main, Workers!NewProgram, Thread, Main, NewProgram

LEMMA Parameters == NbNew \in Nat /\ MaxThreads \in Nat \ {0} /\ Passes \in [NewProgram -> Nat \ {0}]
BY WorkersAssumption DEF Workers!WorkersParameters, Workers!Seed, NewProgram

LEMMA GivenFacts ==
    ASSUME WorkersInv
    PROVE  /\ Given \in 0 .. NbNew /\ drawn \in Nat /\ drawn <= NbNew
           /\ Len(programsToMutate) \in Nat
           /\ programsToMutate = <<>> => Given = drawn
<1>1. programsToMutate \in Seq([prog : NewProgram, seed : NewProgram])
  BY DEF WorkersInv, ProgramQueue
<1> DEFINE n == Len(programsToMutate)
<1>2. n \in Nat /\ (programsToMutate = <<>> => n = 0)
  BY <1>1, EmptySeq, LenProperties
<1>3. n <= drawn /\ drawn \in 0 .. NbNew
  BY DEF WorkersInv, ProgramQueue, WorkerTypes
<1> HIDE DEF n
<1> QED BY <1>2, <1>3, Parameters DEF Given, n

LEMMA WorkersInvInit == TInit => WorkersInv
<1> SUFFICES ASSUME TInit PROVE WorkersInv
  OBVIOUS
<1>1. /\ input.threads \in Thread /\ drawn = 0 /\ programsToMutate = <<>>
      /\ workerPc = [t \in Thread |-> IF t = Main THEN "create" ELSE "idle"]
      /\ DOMAIN workerJob = Thread /\ DOMAIN privateRNG = Thread
      /\ body = [p \in NewProgram |-> <<>>]
  BY SameThreads DEF TInit, Workers!Init
<1>2. Main \in Thread
  BY Parameters DEF Main, Thread
<1>3. Given = 0 /\ ProgramQueue /\ Len(programsToMutate) = 0
  <2> DEFINE E == [prog : NewProgram, seed : NewProgram]
  <2>1. programsToMutate \in Seq(E) /\ Len(programsToMutate) = 0
    BY <1>1, EmptySeq
  <2> HIDE DEF E
  <2>2. \A n \in 1 .. 0 : programsToMutate[n] = Same(Given + n)
    OBVIOUS
  <2>3. drawn = 0 /\ Len(programsToMutate) = 0
    BY <1>1, <2>1
  <2>4. Given = 0
    BY <2>3 DEF Given
  <2> QED BY <2>1, <2>2, <2>3, <2>4 DEF ProgramQueue, E
<1>4. WorkerTypes
  BY <1>1, Parameters DEF WorkerTypes, WorkerLocation
<1>5. WorkerPhases
  BY <1>1, <1>2, Parameters DEF WorkerPhases, Thread
<1>6. ProgramsAreOwn /\ ProgramsAreMutated
  BY <1>1, <1>2, <1>3, Parameters DEF ProgramsAreOwn, ProgramsAreMutated, NewProgram
<1> QED BY <1>3, <1>4, <1>5, <1>6 DEF WorkersInv

(* A thread takes the next program: *)
LEMMA TakesProgram ==
    ASSUME WorkersInv, NEW t \in Thread, NEW p \in NewProgram, p = Given + 1,
           workerPc[t] # "mutate", Given' = Given + 1, body' = body, input' = input,
           workerPc' = [workerPc EXCEPT ![t] = "mutate"],
           workerJob' = [workerJob EXCEPT ![t] = Same(p)],
           privateRNG' = [privateRNG EXCEPT ![t] = [seed |-> p, used |-> 0]]
    PROVE  ProgramsAreOwn' /\ ProgramsAreMutated'
<1>1. /\ DOMAIN workerPc = Thread /\ DOMAIN workerJob = Thread /\ DOMAIN privateRNG = Thread
  BY DEF WorkersInv, WorkerTypes
<1>2. /\ Given \in Nat /\ Given <= NbNew /\ NbNew \in Nat
      /\ Passes[p] \in Nat \ {0}
  BY GivenFacts, Parameters
<1>3. body[p] = <<>>
  BY <1>2 DEF WorkersInv, ProgramsAreMutated
<1>4. WorkingOn(t, p)'
  <2>1. MutationsUpTo(p, 0) = <<>> /\ Len(body[p]) = 0
    BY <1>3 DEF MutationsUpTo
  <2> QED BY <1>1, <1>2, <1>3, <2>1 DEF WorkingOn
<1>5. ASSUME NEW u \in Thread, u # t, NEW q PROVE WorkingOn(u, q) <=> WorkingOn(u, q)'
  BY <1>1, <1>5 DEF WorkingOn
<1>6. \A u \in Thread : workerPc'[u] = "mutate" => \E q \in 1 .. Given' : WorkingOn(u, q)'
  <2> SUFFICES ASSUME NEW u \in Thread, workerPc'[u] = "mutate"
               PROVE  \E q \in 1 .. Given + 1 : WorkingOn(u, q)'
    OBVIOUS
  <2>1. CASE u = t
    BY <1>2, <1>4, <2>1
  <2>2. CASE u # t
    <3>1. PICK q \in 1 .. Given : WorkingOn(u, q)
      BY <1>1, <2>2 DEF WorkersInv, ProgramsAreOwn
    <3> QED BY <1>2, <1>5, <2>2, <3>1
  <2> QED BY <2>1, <2>2
<1>7. \A u \in Thread \ {t} : workerPc[u] = "mutate" => workerJob[u] # Same(p)
  <2> SUFFICES ASSUME NEW u \in Thread \ {t}, workerPc[u] = "mutate", workerJob[u] = Same(p)
               PROVE  FALSE
    OBVIOUS
  <2>1. PICK q \in 1 .. Given : workerJob[u] = Same(q)
    BY DEF WorkersInv, ProgramsAreOwn, WorkingOn
  <2> QED BY <1>2, <2>1 DEF Same
<1>8. ProgramsAreOwn'
  BY <1>1, <1>6, <1>7 DEF WorkersInv, ProgramsAreOwn
<1>9. ASSUME NEW q \in NewProgram
      PROVE  IF q > Given + 1 THEN body[q] = <<>>
             ELSE \/ body[q] = MutationsUpTo(q, Passes[q])
                  \/ \E u \in Thread : WorkingOn(u, q)'
  <2>1. CASE q = p
    BY <1>2, <1>4, <2>1
  <2>2. CASE q > Given + 1
    BY <1>2, <2>2 DEF WorkersInv, ProgramsAreMutated, NewProgram
  <2>3. CASE q # p /\ ~ (q > Given + 1)
    <3>1. ~ (q > Given)
      BY <1>2, <2>3 DEF NewProgram
    <3>2. CASE \E u \in Thread : WorkingOn(u, q)
      <4>1. PICK u \in Thread : WorkingOn(u, q)
        BY <3>2
      <4>2. u # t
        BY <4>1 DEF WorkingOn
      <4> QED BY <1>5, <2>3, <4>1, <4>2
    <3> QED BY <2>3, <3>1, <3>2 DEF WorkersInv, ProgramsAreMutated
  <2> QED BY <2>1, <2>2, <2>3
<1>10. ProgramsAreMutated'
  BY <1>9 DEF ProgramsAreMutated
<1> QED BY <1>8, <1>10

(* and mutates it with its own generator. *)
LEMMA MutationsExtend ==
    ASSUME NEW p, NEW k \in Nat
    PROVE  /\ Append(MutationsUpTo(p, k), <<p, k + 1>>) = MutationsUpTo(p, k + 1)
           /\ Len(MutationsUpTo(p, k)) = k
<1> DEFINE S == {<<p, n>> : n \in Nat}
           f == MutationsUpTo(p, k)
           g == MutationsUpTo(p, k + 1)
<1>1. f \in [1 .. k -> S] /\ g \in [1 .. k + 1 -> S]
  BY DEF MutationsUpTo
<1>2. /\ \A n \in 1 .. k : f[n] = g[n]
      /\ g[k + 1] = <<p, k + 1>>
  BY DEF MutationsUpTo
<1> HIDE DEF S, f, g
<1>3. Append(f, g[k + 1]) = g
  BY <1>1, <1>2, AppendExtends
<1>4. Len(f) = k
  BY <1>1, FunctionIsSeq
<1> QED BY <1>2, <1>3, <1>4 DEF f, g

LEMMA MutateBehaviorEffect ==
    ASSUME WorkersInv, NEW t \in Thread, Workers!MutateBehavior(t)
    PROVE  \E p \in 1 .. Given : \E k \in Nat :
              /\ WorkingOn(t, p) /\ k = Len(body[p]) /\ k < Passes[p]
              /\ privateRNG' = [privateRNG EXCEPT ![t] = [seed |-> p, used |-> k + 1]]
              /\ body' = [body EXCEPT ![p] = MutationsUpTo(p, k + 1)]
              /\ IF k + 1 = Passes[p]
                 THEN /\ workerPc' = [workerPc EXCEPT ![t] = IF input.threads <= 1 THEN "create" ELSE "get"]
                      /\ workerJob' = [workerJob EXCEPT ![t] = Workers!NoWork]
                 ELSE workerPc' = workerPc /\ workerJob' = workerJob
              /\ UNCHANGED <<drawn, programsToMutate>>
<1>1. workerPc[t] = "mutate"
  BY DEF Workers!MutateBehavior
<1>2. PICK p \in 1 .. Given : WorkingOn(t, p)
  BY <1>1 DEF WorkersInv, ProgramsAreOwn
<1> DEFINE k == Len(body[p])
<1>3. /\ workerJob[t] = Same(p) /\ privateRNG[t] = [seed |-> p, used |-> k]
      /\ k \in Nat /\ k < Passes[p] /\ body[p] = MutationsUpTo(p, k)
  BY <1>2 DEF WorkingOn
<1>4. p \in NewProgram /\ Passes[p] \in Nat
  BY GivenFacts, Parameters DEF NewProgram
<1>5. /\ DOMAIN workerPc = Thread /\ DOMAIN workerJob = Thread /\ DOMAIN privateRNG = Thread
      /\ DOMAIN body = NewProgram
  BY DEF WorkersInv, WorkerTypes
<1> HIDE DEF k
<1>6. privateRNG' = [privateRNG EXCEPT ![t] = [seed |-> p, used |-> k + 1]]
  <2>1. privateRNG' = [privateRNG EXCEPT ![t] = [privateRNG[t] EXCEPT !.used = privateRNG[t].used + 1]]
    BY DEF Workers!MutateBehavior
  <2> DEFINE u == k + 1
  <2>2. privateRNG[t].used + 1 = u
    BY <1>3
  <2> HIDE DEF u
  <2>3. [privateRNG[t] EXCEPT !.used = u] = [seed |-> p, used |-> u]
    BY <1>3
  <2> QED BY <2>1, <2>2, <2>3 DEF u
<1>7. privateRNG'[t] = [seed |-> p, used |-> k + 1]
  BY <1>5, <1>6
<1>8. privateRNG'[t].seed = p /\ privateRNG'[t].used = k + 1 /\ workerJob[t].prog = p
  BY <1>3, <1>7 DEF Same
<1>9. body' = [body EXCEPT ![p] = MutationsUpTo(p, k + 1)]
  <2>1. body' = [body EXCEPT ![workerJob[t].prog] =
                    Append(body[workerJob[t].prog], <<privateRNG'[t].seed, privateRNG'[t].used>>)]
    BY DEF Workers!MutateBehavior
  <2>2. body' = [body EXCEPT ![p] = Append(MutationsUpTo(p, k), <<p, k + 1>>)]
    BY <1>3, <1>8, <2>1
  <2> QED BY <1>3, <2>2, MutationsExtend
<1>10. Workers!Unique(privateRNG'[t]) <=> k + 1 = Passes[p]
  BY <1>3, <1>4, <1>8 DEF Workers!Unique
<1>11. workerPc[t] = "mutate" => [workerPc EXCEPT ![t] = "mutate"] = workerPc
  BY DEF WorkersInv, WorkerTypes
<1>12. /\ workerPc' = [workerPc EXCEPT ![t] = IF ~ Workers!Unique(privateRNG'[t]) THEN "mutate"
                                             ELSE IF Workers!Sequential THEN "create" ELSE "get"]
       /\ workerJob' = IF Workers!Unique(privateRNG'[t]) THEN [workerJob EXCEPT ![t] = Workers!NoWork]
                       ELSE workerJob
       /\ UNCHANGED <<drawn, programsToMutate>>
  BY DEF Workers!MutateBehavior
<1>13. IF k + 1 = Passes[p]
       THEN /\ workerPc' = [workerPc EXCEPT ![t] = IF input.threads <= 1 THEN "create" ELSE "get"]
            /\ workerJob' = [workerJob EXCEPT ![t] = Workers!NoWork]
       ELSE workerPc' = workerPc /\ workerJob' = workerJob
  BY <1>1, <1>10, <1>11, <1>12 DEF Workers!Sequential
<1> QED BY <1>2, <1>3, <1>6, <1>9, <1>12, <1>13 DEF k

LEMMA MutatesProgram ==
    ASSUME WorkersInv, NEW t \in Thread, Workers!MutateBehavior(t), input' = input
    PROVE  ProgramsAreOwn' /\ ProgramsAreMutated'
<1>1. PICK p \in 1 .. Given, k \in Nat :
         /\ WorkingOn(t, p) /\ k = Len(body[p]) /\ k < Passes[p]
         /\ privateRNG' = [privateRNG EXCEPT ![t] = [seed |-> p, used |-> k + 1]]
         /\ body' = [body EXCEPT ![p] = MutationsUpTo(p, k + 1)]
         /\ IF k + 1 = Passes[p]
            THEN /\ workerPc' = [workerPc EXCEPT ![t] = IF input.threads <= 1 THEN "create" ELSE "get"]
                 /\ workerJob' = [workerJob EXCEPT ![t] = Workers!NoWork]
            ELSE workerPc' = workerPc /\ workerJob' = workerJob
         /\ UNCHANGED <<drawn, programsToMutate>>
  BY MutateBehaviorEffect
<1>2. /\ DOMAIN workerPc = Thread /\ DOMAIN workerJob = Thread /\ DOMAIN privateRNG = Thread
      /\ DOMAIN body = NewProgram
  BY DEF WorkersInv, WorkerTypes
<1>3. p \in NewProgram /\ Passes[p] \in Nat /\ Given' = Given
  BY <1>1, GivenFacts, Parameters DEF NewProgram, Given
<1>4. workerPc[t] = "mutate" /\ workerJob[t] = Same(p)
  BY <1>1 DEF WorkingOn
<1>5. \A u \in Thread \ {t} : workerPc'[u] = workerPc[u] /\ workerJob'[u] = workerJob[u]
                              /\ privateRNG'[u] = privateRNG[u]
  BY <1>1, <1>2
<1>6. \A u \in Thread \ {t} : workerPc[u] = "mutate" => workerJob[u] # Same(p)
  BY <1>4 DEF WorkersInv, ProgramsAreOwn
<1>7. ASSUME NEW u \in Thread \ {t}, NEW q \in NewProgram, WorkingOn(u, q) PROVE WorkingOn(u, q)'
  <2>1. q # p
    BY <1>6, <1>7 DEF WorkingOn
  <2>2. body'[q] = body[q]
    BY <1>1, <1>2, <2>1
  <2> QED BY <1>5, <1>7, <2>2 DEF WorkingOn
<1>8. \A u \in Thread \ {t} : workerPc[u] = "mutate" => \E q \in 1 .. Given : WorkingOn(u, q)'
  <2> SUFFICES ASSUME NEW u \in Thread \ {t}, workerPc[u] = "mutate"
               PROVE  \E q \in 1 .. Given : WorkingOn(u, q)'
    OBVIOUS
  <2>1. PICK q \in 1 .. Given : WorkingOn(u, q)
    BY DEF WorkersInv, ProgramsAreOwn
  <2>2. q \in NewProgram
    BY GivenFacts, Parameters DEF NewProgram
  <2> QED BY <1>7, <2>1, <2>2
<1>9. body'[p] = MutationsUpTo(p, k + 1) /\ Len(body'[p]) = k + 1
  BY <1>1, <1>2, <1>3, MutationsExtend
<1>10. k + 1 # Passes[p] => WorkingOn(t, p)'
  BY <1>1, <1>2, <1>3, <1>4, <1>9 DEF WorkingOn
<1>11. workerPc'[t] = "mutate" => k + 1 # Passes[p]
  BY <1>1, <1>2
<1>12. ProgramsAreOwn'
  <2>1. \A u \in Thread : workerPc'[u] = "mutate" => \E q \in 1 .. Given : WorkingOn(u, q)'
    BY <1>5, <1>8, <1>10, <1>11
  <2>2. \A u, v \in Thread :
           workerPc'[u] = "mutate" /\ workerPc'[v] = "mutate" /\ u # v => workerJob'[u] # workerJob'[v]
    <3>1. workerPc'[t] = "mutate" => workerJob' = workerJob /\ workerPc' = workerPc
      BY <1>1, <1>11
    <3>2. \A u \in Thread : workerPc'[u] = "mutate" => workerPc[u] = "mutate" /\ workerJob'[u] = workerJob[u]
      BY <1>4, <1>5, <3>1
    <3> QED BY <3>2 DEF WorkersInv, ProgramsAreOwn
  <2> QED BY <1>3, <2>1, <2>2 DEF ProgramsAreOwn
<1>13. ASSUME NEW q \in NewProgram
       PROVE  IF q > Given THEN body'[q] = <<>>
              ELSE \/ body'[q] = MutationsUpTo(q, Passes[q])
                   \/ \E u \in Thread : WorkingOn(u, q)'
  <2>1. CASE q = p
    <3>1. ~ (q > Given)
      BY <2>1, GivenFacts
    <3>2. k + 1 = Passes[p] => body'[q] = MutationsUpTo(q, Passes[q])
      BY <1>9, <2>1
    <3> QED BY <1>10, <2>1, <3>1, <3>2
  <2>2. CASE q # p
    <3>1. body'[q] = body[q]
      BY <1>1, <1>2, <2>2
    <3>2. CASE \E u \in Thread : WorkingOn(u, q)
      <4>1. PICK u \in Thread : WorkingOn(u, q)
        BY <3>2
      <4>2. u # t
        BY <1>4, <2>2, <4>1 DEF WorkingOn, Same
      <4>3. WorkingOn(u, q)'
        BY <1>7, <4>1, <4>2
      <4> QED BY <3>1, <4>3 DEF WorkersInv, ProgramsAreMutated
    <3> QED BY <3>1, <3>2 DEF WorkersInv, ProgramsAreMutated
  <2> QED BY <2>1, <2>2
<1>14. ProgramsAreMutated'
  BY <1>3, <1>13 DEF ProgramsAreMutated
<1> QED BY <1>12, <1>14

-----------------------------------------------------------------------------
LEMMA WorkersNextProgram ==
    ASSUME WorkersInv, Workers!NextProgram, input' = input PROVE WorkersInv'
<1>1. /\ input.threads <= 1 /\ workerPc[Main] = "create" /\ drawn < NbNew /\ drawn' = drawn + 1
      /\ workerJob' = [workerJob EXCEPT ![Main] = Same(drawn')]
      /\ privateRNG' = [privateRNG EXCEPT ![Main] = [seed |-> drawn', used |-> 0]]
      /\ workerPc' = [workerPc EXCEPT ![Main] = "mutate"]
      /\ programsToMutate' = programsToMutate /\ body' = body
  BY DEF Workers!NextProgram, Workers!Sequential, Workers!Main, Workers!SeededWith, Main, Same
<1>2. programsToMutate = <<>> /\ Given = drawn /\ drawn \in Nat /\ NbNew \in Nat
  BY <1>1, GivenFacts, Parameters DEF WorkersInv, WorkerPhases
<1>3. /\ DOMAIN workerPc = Thread /\ Main \in Thread /\ drawn' \in NewProgram /\ drawn' = Given + 1
  BY <1>1, <1>2, Parameters DEF WorkersInv, WorkerTypes, NewProgram, Main, Thread
<1>4. Given' = Given + 1
  <2>1. Len(programsToMutate) \in Nat
    BY GivenFacts
  <2> QED BY <1>1, <1>2, <2>1 DEF Given
<1>5. ProgramsAreOwn' /\ ProgramsAreMutated'
  BY <1>1, <1>3, <1>4, TakesProgram
<1>6. WorkerTypes'
  <2>1. drawn' \in 0 .. NbNew
    BY <1>1, <1>2
  <2> QED BY <1>1, <1>3, <2>1 DEF WorkersInv, WorkerTypes, WorkerLocation
<1>7. ProgramQueue'
  <2>1. Len(programsToMutate) = 0
    BY <1>2, EmptySeq
  <2> QED BY <1>1, <1>2, <2>1 DEF WorkersInv, ProgramQueue
<1>8. WorkerPhases'
  <2>1. \A t \in Thread \ {Main} : workerPc'[t] = workerPc[t]
    BY <1>1, <1>3
  <2>2. ~ (input.threads > 1)
    BY <1>1 DEF WorkersInv, WorkerTypes, Thread
  <2> QED BY <1>1, <1>2, <1>3, <2>1, <2>2 DEF WorkersInv, WorkerPhases
<1> QED BY <1>5, <1>6, <1>7, <1>8 DEF WorkersInv

LEMMA WorkersCreateJobs ==
    ASSUME WorkersInv, Workers!CreateJobs, input' = input PROVE WorkersInv'
<1>1. /\ ~ (input.threads <= 1) /\ workerPc[Main] = "create" /\ drawn' = NbNew
      /\ programsToMutate' = [i \in 1 .. NbNew |-> Same(i)]
      /\ workerPc' = [t \in Thread |-> IF t <= input.threads THEN "get" ELSE "done"]
      /\ UNCHANGED <<workerJob, privateRNG, body>>
  BY SameThreads DEF Workers!CreateJobs, Workers!Sequential, Same
<1>2. input.threads \in Nat /\ input.threads > 1 /\ Main \in Thread /\ NbNew \in Nat
  BY <1>1, Parameters DEF WorkersInv, WorkerTypes, Thread, Main
<1>3. drawn = 0 /\ \A t \in Thread : workerPc[t] # "mutate"
  BY <1>1, <1>2 DEF WorkersInv, WorkerPhases
<1>4. Given = 0
  <2>1. Len(programsToMutate) \in Nat /\ Len(programsToMutate) <= drawn
    BY GivenFacts DEF WorkersInv, ProgramQueue
  <2> QED BY <1>3, <2>1 DEF Given
<1> DEFINE E == [prog : NewProgram, seed : NewProgram]
           q == [i \in 1 .. NbNew |-> Same(i)]
<1>5. q \in [1 .. NbNew -> E] /\ \A n \in 1 .. NbNew : q[n] = Same(n)
  BY DEF Same, NewProgram
<1>6. q \in Seq(E) /\ Len(q) = NbNew
  <2> HIDE DEF q, E
  <2> QED BY <1>2, <1>5, FunctionIsSeq
<1> HIDE DEF q, E
<1>7. programsToMutate' = q
  BY <1>1 DEF q
<1>8. Given' = 0
  BY <1>1, <1>2, <1>6, <1>7 DEF Given
<1>9. ProgramQueue'
  <2>1. \A n \in 1 .. NbNew : q[n] = Same(0 + n)
    BY <1>5
  <2>2. /\ programsToMutate' \in Seq([prog : NewProgram, seed : NewProgram])
        /\ Len(programsToMutate') = NbNew
    BY <1>6, <1>7 DEF E
  <2>3. Len(programsToMutate') <= drawn'
    BY <1>1, <1>2, <2>2
  <2>4. \A n \in 1 .. Len(programsToMutate') : programsToMutate'[n] = Same(Given' + n)
    BY <1>7, <1>8, <2>1, <2>2
  <2> QED BY <2>2, <2>3, <2>4 DEF ProgramQueue
<1>10. WorkerTypes'
  BY <1>1, <1>2 DEF WorkersInv, WorkerTypes, WorkerLocation
<1>11. WorkerPhases'
  BY <1>1, <1>2 DEF WorkerPhases, Main
<1>12. ProgramsAreOwn'
  BY <1>1 DEF ProgramsAreOwn
<1>13. ProgramsAreMutated'
  <2>1. \A p \in NewProgram : p > 0 /\ body[p] = <<>>
    BY <1>4, Parameters DEF WorkersInv, ProgramsAreMutated, NewProgram
  <2> QED BY <1>1, <1>8, <2>1 DEF ProgramsAreMutated
<1> QED BY <1>9, <1>10, <1>11, <1>12, <1>13 DEF WorkersInv

(* Only the parallel threads are ever looking for a job. *)
LEMMA GettingIsParallel ==
    ASSUME WorkersInv, NEW t \in Thread, workerPc[t] = "get"
    PROVE  input.threads > 1 /\ workerPc[Main] # "create" /\ workerPc[Main] # "returned"
<1>1. input.threads \in Nat
  BY DEF WorkersInv, WorkerTypes, Thread
<1> QED BY <1>1 DEF WorkersInv, WorkerPhases

LEMMA WorkersGetJob ==
    ASSUME WorkersInv, NEW t \in Thread, Workers!GetJob(t), input' = input PROVE WorkersInv'
<1> DEFINE q == programsToMutate
           E == [prog : NewProgram, seed : NewProgram]
           p == Given + 1
<1>1. /\ workerPc[t] = "get" /\ q # <<>>
      /\ workerJob' = [workerJob EXCEPT ![t] = Head(q)] /\ q' = Tail(q)
      /\ privateRNG' = [privateRNG EXCEPT ![t] = [seed |-> Head(q).seed, used |-> 0]]
      /\ workerPc' = [workerPc EXCEPT ![t] = "mutate"]
      /\ UNCHANGED <<drawn, body>>
  BY DEF Workers!GetJob, Workers!SeedOf, Workers!SeededWith
<1>2. /\ q \in Seq(E) /\ Len(q) \in Nat /\ Len(q) <= drawn /\ drawn \in Nat /\ drawn <= NbNew
      /\ NbNew \in Nat
      /\ \A n \in 1 .. Len(q) : q[n] = Same(Given + n)
  BY GivenFacts, Parameters DEF WorkersInv, ProgramQueue
<1>3. Len(q) > 0
  <2> HIDE DEF q, E
  <2> QED BY <1>1, <1>2, EmptySeq
<1>4. /\ Head(q) = q[1] /\ Tail(q) \in Seq(E) /\ Len(Tail(q)) = Len(q) - 1
      /\ \A n \in 1 .. Len(q) - 1 : Tail(q)[n] = q[n + 1]
  <2> HIDE DEF q, E
  <2> QED BY <1>1, <1>2, HeadTailProperties
<1>5. Head(q) = Same(p) /\ Head(q).seed = p
  BY <1>2, <1>3, <1>4 DEF Same
<1>6. Given' = p /\ Given \in Nat /\ p \in NewProgram
  <2>1. Len(q') = Len(q) - 1
    BY <1>1, <1>4
  <2>2. Given = drawn - Len(q) /\ Given' = drawn - Len(q')
    BY <1>1 DEF Given
  <2> HIDE DEF q
  <2> QED BY <1>2, <1>3, <2>1, <2>2 DEF NewProgram
<1>7. DOMAIN workerPc = Thread
  BY DEF WorkersInv, WorkerTypes
<1>8. ProgramsAreOwn' /\ ProgramsAreMutated'
  BY <1>1, <1>5, <1>6, TakesProgram
<1>9. ProgramQueue'
  <2>1. Len(q') = Len(q) - 1 /\ q' \in Seq(E)
    BY <1>1, <1>4
  <2>2. ASSUME NEW n \in 1 .. Len(q) - 1 PROVE q'[n] = Same(Given' + n)
    <3>1. n + 1 \in 1 .. Len(q) /\ q'[n] = q[n + 1]
      BY <1>1, <1>2, <1>4
    <3>2. Given + (n + 1) = Given' + n
      BY <1>6
    <3> QED BY <1>2, <3>1, <3>2
  <2> HIDE DEF p
  <2> QED BY <1>1, <1>2, <2>1, <2>2 DEF ProgramQueue
<1>10. WorkerTypes'
  BY <1>1 DEF WorkersInv, WorkerTypes, WorkerLocation
<1>11. WorkerPhases'
  <2>1. input.threads > 1 /\ ~ (input.threads <= 1) /\ workerPc[Main] # "create" /\ workerPc[Main] # "returned"
    BY <1>1, GettingIsParallel DEF WorkersInv, WorkerTypes, Thread
  <2>2. workerPc[Main] # "done"
    BY <1>1 DEF WorkersInv, WorkerPhases
  <2>3. workerPc'[Main] \in {workerPc[Main], "mutate"} /\ \A u \in Thread : workerPc'[u] \in {workerPc[u], "mutate"}
    BY <1>1, <1>7, Parameters DEF Main, Thread
  <2> HIDE DEF q
  <2> QED BY <1>1, <2>1, <2>2, <2>3 DEF WorkersInv, WorkerPhases
<1> QED BY <1>8, <1>9, <1>10, <1>11 DEF WorkersInv

(* A thread that mutates no program before and after the step *)
LEMMA WorkersElsewhere ==
    ASSUME WorkersInv, UNCHANGED <<input, drawn, programsToMutate, body>>,
           DOMAIN workerJob' = Thread, DOMAIN privateRNG' = Thread,
           \A t \in Thread : workerPc'[t] = "mutate" <=> workerPc[t] = "mutate",
           \A t \in Thread :
              workerPc[t] = "mutate" => workerJob'[t] = workerJob[t] /\ privateRNG'[t] = privateRNG[t]
    PROVE  ProgramQueue' /\ ProgramsAreOwn' /\ ProgramsAreMutated'
<1>1. Given' = Given
  BY DEF Given
<1>2. \A t \in Thread, p \in NewProgram : WorkingOn(t, p) => WorkingOn(t, p)'
  BY DEF WorkingOn
<1>3. 1 .. Given \subseteq NewProgram
  BY GivenFacts, Parameters DEF NewProgram
<1>4. ProgramQueue'
  BY <1>1 DEF WorkersInv, ProgramQueue
<1>5. ProgramsAreOwn'
  BY <1>1, <1>2, <1>3 DEF WorkersInv, ProgramsAreOwn
<1>6. ProgramsAreMutated'
  BY <1>1, <1>2 DEF WorkersInv, ProgramsAreMutated
<1> QED BY <1>4, <1>5, <1>6

LEMMA WorkersFindNoJob ==
    ASSUME WorkersInv, NEW t \in Thread, Workers!FindNoJob(t), input' = input PROVE WorkersInv'
<1>1. /\ workerPc[t] = "get" /\ programsToMutate = <<>>
      /\ workerPc' = [workerPc EXCEPT ![t] = "done"]
      /\ UNCHANGED <<drawn, programsToMutate, workerJob, privateRNG, body>>
  BY DEF Workers!FindNoJob
<1>2. /\ DOMAIN workerPc = Thread /\ DOMAIN workerJob = Thread /\ DOMAIN privateRNG = Thread
  BY DEF WorkersInv, WorkerTypes
<1>3. ProgramQueue' /\ ProgramsAreOwn' /\ ProgramsAreMutated'
  BY <1>1, <1>2, WorkersElsewhere
<1>4. WorkerTypes'
  BY <1>1 DEF WorkersInv, WorkerTypes, WorkerLocation
<1>5. WorkerPhases'
  <2>1. input.threads > 1 /\ ~ (input.threads <= 1) /\ workerPc[Main] # "create" /\ workerPc[Main] # "returned"
    BY <1>1, GettingIsParallel DEF WorkersInv, WorkerTypes, Thread
  <2>2. workerPc'[Main] \in {workerPc[Main], "done"} /\ \A u \in Thread : workerPc'[u] \in {workerPc[u], "done"}
    BY <1>1, <1>2, Parameters DEF Main, Thread
  <2> QED BY <1>1, <2>1, <2>2 DEF WorkersInv, WorkerPhases
<1> QED BY <1>3, <1>4, <1>5 DEF WorkersInv

LEMMA WorkersMutateBehavior ==
    ASSUME WorkersInv, NEW t \in Thread, Workers!MutateBehavior(t), input' = input PROVE WorkersInv'
<1>1. PICK p \in 1 .. Given, k \in Nat :
         /\ WorkingOn(t, p)
         /\ privateRNG' = [privateRNG EXCEPT ![t] = [seed |-> p, used |-> k + 1]]
         /\ body' = [body EXCEPT ![p] = MutationsUpTo(p, k + 1)]
         /\ IF k + 1 = Passes[p]
            THEN /\ workerPc' = [workerPc EXCEPT ![t] = IF input.threads <= 1 THEN "create" ELSE "get"]
                 /\ workerJob' = [workerJob EXCEPT ![t] = Workers!NoWork]
            ELSE workerPc' = workerPc /\ workerJob' = workerJob
         /\ UNCHANGED <<drawn, programsToMutate>>
  BY MutateBehaviorEffect
<1>2. DOMAIN workerPc = Thread /\ workerPc[t] = "mutate" /\ input.threads \in Nat
  BY <1>1 DEF WorkersInv, WorkerTypes, WorkingOn, Thread
<1>3. ProgramsAreOwn' /\ ProgramsAreMutated'
  BY MutatesProgram
<1>4. Given' = Given /\ ProgramQueue'
  BY <1>1 DEF WorkersInv, ProgramQueue, Given
<1>5. \A u \in Thread \ {t} : workerPc'[u] = workerPc[u]
  BY <1>1, <1>2
<1>6. workerPc'[t] \in {"mutate", IF input.threads <= 1 THEN "create" ELSE "get"}
  BY <1>1, <1>2
<1>7. WorkerTypes'
  <2>1. workerPc' \in [Thread -> WorkerLocation]
    BY <1>1 DEF WorkersInv, WorkerTypes, WorkerLocation
  <2>2. DOMAIN workerJob' = Thread /\ DOMAIN privateRNG' = Thread /\ DOMAIN body' = NewProgram
    BY <1>1 DEF WorkersInv, WorkerTypes
  <2> QED BY <1>1, <2>1, <2>2 DEF WorkersInv, WorkerTypes
<1>8. WorkerPhases'
  <2>1. input.threads <= 1 => t = Main
    BY <1>2 DEF WorkersInv, WorkerPhases
  <2>2. workerPc[Main] # "returned"
    BY <1>2 DEF WorkersInv, WorkerPhases
  <2>3. Main \in Thread
    BY Parameters DEF Main, Thread
  <2>4. input.threads > 1 => workerPc[Main] # "create"
    BY <1>2 DEF WorkersInv, WorkerPhases
  <2>5. workerPc'[Main] \in {workerPc[Main], "mutate", IF input.threads <= 1 THEN "create" ELSE "get"}
    BY <1>5, <1>6, <2>3
  <2>6. /\ input.threads <= 1 =>
             /\ programsToMutate' = <<>>
             /\ workerPc'[Main] \in {"create", "mutate", "returned"}
             /\ \A u \in Thread \ {Main} : workerPc'[u] \in {"idle", "returned"}
    BY <1>1, <1>5, <1>6, <2>1 DEF WorkersInv, WorkerPhases
  <2>7. input.threads > 1 =>
             workerPc'[Main] # "create" /\ drawn' = NbNew
                /\ \A u \in Thread : workerPc'[u] \notin {"create", "idle"}
    BY <1>1, <1>2, <1>5, <1>6, <2>3, <2>4 DEF WorkersInv, WorkerPhases
  <2>8. workerPc'[Main] # "returned" /\ (workerPc'[Main] = "done" => programsToMutate' = <<>>)
    BY <1>1, <1>2, <2>2, <2>5 DEF WorkersInv, WorkerPhases
  <2> QED BY <2>6, <2>7, <2>8 DEF WorkerPhases
<1> QED BY <1>3, <1>4, <1>7, <1>8 DEF WorkersInv

LEMMA WorkersJoinThreads ==
    ASSUME WorkersInv, Workers!JoinThreads, input' = input PROVE WorkersInv'
<1>1. /\ \/ input.threads <= 1 /\ workerPc[Main] = "create" /\ drawn = NbNew
         \/ \A t \in Thread : workerPc[t] = "done"
      /\ workerPc' = [t \in Thread |-> "returned"]
      /\ DOMAIN privateRNG' = Thread
      /\ UNCHANGED <<drawn, programsToMutate, workerJob, body>>
  BY SameThreads DEF Workers!JoinThreads, Workers!Sequential
<1>2. Main \in Thread /\ DOMAIN workerJob = Thread
  BY Parameters DEF Main, Thread, WorkersInv, WorkerTypes
<1>3. \A t \in Thread : workerPc[t] # "mutate"
  BY <1>1 DEF WorkersInv, WorkerPhases
<1>4. programsToMutate = <<>> /\ drawn = NbNew
  <2>1. CASE input.threads <= 1 /\ workerPc[Main] = "create" /\ drawn = NbNew
    BY <2>1 DEF WorkersInv, WorkerPhases
  <2>2. CASE \A t \in Thread : workerPc[t] = "done"
    BY <1>2, <2>2, Parameters DEF WorkersInv, WorkerPhases, WorkerTypes, Thread
  <2> QED BY <1>1, <2>1, <2>2
<1>5. ProgramQueue' /\ ProgramsAreOwn' /\ ProgramsAreMutated'
  BY <1>1, <1>2, <1>3, WorkersElsewhere
<1>6. WorkerTypes'
  BY <1>1 DEF WorkersInv, WorkerTypes, WorkerLocation
<1>7. WorkerPhases'
  BY <1>1, <1>2, <1>4 DEF WorkerPhases
<1> QED BY <1>5, <1>6, <1>7 DEF WorkersInv

(* What the evaluation does not change *)
LEMMA SituationIsFixed ==
    ASSUME TNext PROVE input' = input /\ copyable' = copyable
<1>1. CASE \/ ByWorkers(Workers!NextProgram) \/ ByWorkers(Workers!CreateJobs)
           \/ (\E t \in Thread : ByWorkers(Workers!Work(t))) \/ ByWorkers(Workers!JoinThreads)
           \/ TDone
  BY <1>1 DEF ByWorkers, TDone, allVars, vars
<1>2. CASE \/ InOrder(OneByOne!StartRoot) \/ InOrder(OneByOne!ResetEnvironment)
           \/ InOrder(OneByOne!Act) \/ InOrder(OneByOne!GetScore)
           \/ InOrder(OneByOne!EmplaceResult) \/ InOrder(OneByOne!Return)
  BY <1>2 DEF InOrder, OneByOne!StartRoot, OneByOne!ResetEnvironment, OneByOne!Act, OneByOne!GetScore,
     OneByOne!EmplaceResult, OneByOne!Return
<1>3. CASE \E t \in Thread : InParallel(Step(t))
  BY <1>3 DEF InParallel, Step, CloneEnvironment, LeaveLoop, EnterLoop, PopJob, FindEmpty, StartJob,
     ResetEnvironment, Act, GetScore, StoreResult, StoreArchive
<1>4. CASE InParallel(JoinAndCompile)
  BY <1>4 DEF InParallel, JoinAndCompile
<1> QED BY <1>1, <1>2, <1>3, <1>4 DEF TNext

LEMMA WorkersInvNext == ASSUME WorkersInv, [TNext]_allVars PROVE WorkersInv'
<1>1. CASE UNCHANGED <<input, workerVars>>
  BY <1>1 DEF workerVars, WorkersInv, WorkerTypes, ProgramQueue, WorkerPhases, ProgramsAreOwn,
     ProgramsAreMutated, WorkingOn, Given
<1>2. CASE UNCHANGED allVars
  BY <1>1, <1>2 DEF allVars, vars
<1>3. CASE TNext
  <2>1. input' = input
    BY <1>3, SituationIsFixed
  <2>2. CASE ByWorkers(Workers!NextProgram)
    BY <2>1, <2>2, WorkersNextProgram DEF ByWorkers
  <2>3. CASE ByWorkers(Workers!CreateJobs)
    BY <2>1, <2>3, WorkersCreateJobs DEF ByWorkers
  <2>4. ASSUME NEW t \in Thread, ByWorkers(Workers!Work(t)) PROVE WorkersInv'
    BY <2>1, <2>4, WorkersGetJob, WorkersFindNoJob, WorkersMutateBehavior DEF ByWorkers, Workers!Work
  <2>5. CASE ByWorkers(Workers!JoinThreads)
    BY <2>1, <2>5, WorkersJoinThreads DEF ByWorkers
  <2>6. CASE \/ InOrder(OneByOne!StartRoot) \/ InOrder(OneByOne!ResetEnvironment)
             \/ InOrder(OneByOne!Act) \/ InOrder(OneByOne!GetScore)
             \/ InOrder(OneByOne!EmplaceResult) \/ InOrder(OneByOne!Return)
             \/ (\E t \in Thread : InParallel(Step(t))) \/ InParallel(JoinAndCompile) \/ TDone
    BY <1>1, <2>1, <2>6 DEF InOrder, InParallel, TDone, allVars
  <2> QED BY <1>3, <2>2, <2>3, <2>4, <2>5, <2>6 DEF TNext
<1> QED BY <1>2, <1>3

(* mutateNewProgramBehaviors: whatever the number of threads, and whichever thread takes which
   program, a program ends as the sequential loop, which gives it the same seed, leaves it. *)
THEOREM MutationsAlwaysAsSequential == TSpec => []MutationsAsSequential
<1>1. ASSUME WorkersInv PROVE MutationsAsSequential
  <2> SUFFICES ASSUME Workers!Returned
               PROVE  /\ \A p \in NewProgram : body[p] = Workers!SequentialBody(p)
                      /\ drawn = NbNew
    BY DEF MutationsAsSequential, Workers!MutationsAsSequential, NewProgram, Workers!NewProgram
  <2>1. /\ drawn = NbNew /\ programsToMutate = <<>>
        /\ \A t \in Thread : workerPc[t] # "mutate"
    BY <1>1 DEF Workers!Returned, Workers!Main, Main, WorkersInv, WorkerPhases
  <2>2. Given = NbNew
    BY <1>1, <2>1, GivenFacts
  <2>3. \A p \in NewProgram : body[p] = MutationsUpTo(p, Passes[p])
    <3>1. \A p \in NewProgram : ~ (p > Given)
      BY <2>2, Parameters DEF NewProgram
    <3> QED BY <1>1, <2>1, <3>1 DEF WorkersInv, ProgramsAreMutated, WorkingOn
  <2> QED BY <2>1, <2>3 DEF Workers!SequentialBody, MutationsUpTo
<1> QED BY <1>1, WorkersInvInit, WorkersInvNext, PTL DEF TSpec

-----------------------------------------------------------------------------
(* The evaluation of the roots, by one thread or by several. *)

(* What evaluateAllRoots returns for the first n roots *)
ResultsUpTo(n) == [i \in 1 .. n |-> [result |-> JobResult(input, i), root |-> i]]

ResultsInOrder == Returned => results = ResultsUpTo(NbJobs)

(* What evaluateJob has done for the current job of the sequential loop *)
CurrentWork ==
    /\ sequentialPc \in {"reset", "act"} =>
          /\ Len(sequentialScores) \in 0 .. NbIter - 1
          /\ sequentialScores = ScoresUpTo(current, Len(sequentialScores))
          /\ ~ (Training /\ current \in input.skipped)
    /\ sequentialPc = "act" =>
          /\ Len(sequentialEnv.trace) \in 0 .. EpisodeLength
          /\ sequentialEnv = [iter |-> Len(sequentialScores) + 1,
                              trace |-> TraceUpTo(current, Len(sequentialEnv.trace))]
    /\ sequentialPc = "emplace" => sequentialScores = JobResult(input, current).scores

LoopInv ==
    /\ current \in 1 .. NbJobs + 1
    /\ sequentialPc \in {"reset", "act", "emplace"} => current <= NbJobs
    /\ sequentialPc = "returned" => current = NbJobs + 1
    /\ CurrentWork
    /\ InSequence => results = ResultsUpTo(current - 1)

(* The main thread leaves its loop when the queue is empty. *)
CompileInv ==
    /\ pc[Main] \in {"done", "returned"} => jobsToProcess = <<>>
    /\ ~ InSequence /\ pc[Main] = "returned" => results = ResultsUpTo(NbJobs)

AgentInv == JobInv /\ WorkInv /\ LoopInv /\ CompileInv

-----------------------------------------------------------------------------
LEMMA AgentInvInit == TInit => AgentInv
<1> SUFFICES ASSUME TInit PROVE AgentInv
  OBVIOUS
<1>1. JobInv /\ WorkInv
  BY JobInvInit, WorkInvInit DEF TInit
<1>2. current = 1 /\ sequentialPc = "root" /\ results = <<>>
  BY DEF TInit, OneByOne!Init
<1>3. pc[Main] = "check"
  BY Parameters DEF TInit, Init, Main, Thread
<1>4. ResultsUpTo(0) = <<>>
  BY DEF ResultsUpTo
<1>5. current \in 1 .. NbJobs + 1 /\ current - 1 = 0
  BY <1>2, EvaluationAssumption
<1>6. LoopInv
  BY <1>2, <1>4, <1>5 DEF LoopInv, CurrentWork
<1> QED BY <1>1, <1>3, <1>6 DEF AgentInv, CompileInv

(* The invariants of the threads depend on nothing that the others change. *)
LEMMA ThreadsUntouched ==
    ASSUME JobInv, WorkInv, UNCHANGED <<input, parallelVars>> PROVE JobInv' /\ WorkInv'
<1>1. UNCHANGED <<jobsToProcess, pc, job, env, scores, resultsPerJob>>
  BY DEF parallelVars
<1>2. JobInv'
  BY <1>1 DEF JobInv, QueueIsSuffix, Popped, Types, JobsAtWork, JobsAreOwn, NoJobLost
<1>3. WorkInv'
  BY <1>1 DEF WorkInv, WorkOf, ResultsAsSequential, Training, JobResult
<1> QED BY <1>2, <1>3

LEMMA LoopUntouched ==
    ASSUME LoopInv, UNCHANGED <<input, copyable, sequentialVars>>,
           InSequence => results' = results
    PROVE  LoopInv'
<1>1. InSequence' = InSequence /\ CurrentWork'
  BY DEF InSequence, CurrentWork, sequentialVars, LoopInv, Training, JobResult
<1> QED BY <1>1 DEF LoopInv, sequentialVars, ResultsUpTo, JobResult

LEMMA CompileUntouched ==
    ASSUME CompileInv, UNCHANGED <<input, copyable, jobsToProcess, pc>>,
           ~ InSequence => results' = results
    PROVE  CompileInv'
<1>1. InSequence' = InSequence
  BY DEF InSequence
<1> QED BY <1>1 DEF CompileInv, ResultsUpTo, JobResult

(* A step of the sequential loop *)
LEMMA LoopSteps ==
    ASSUME LoopInv, UNCHANGED <<input, copyable>>,
           \/ OneByOne!StartRoot \/ OneByOne!ResetEnvironment \/ OneByOne!Act \/ OneByOne!GetScore
           \/ OneByOne!EmplaceResult \/ OneByOne!Return
    PROVE  LoopInv'
<1>1. /\ InSequence' = InSequence /\ Training' = Training /\ OneByOne!Training = Training
      /\ \A i : JobResult(input, i)' = JobResult(input, i)
      /\ \A n : ResultsUpTo(n)' = ResultsUpTo(n)
  BY DEF InSequence, Training, OneByOne!Training, JobResult, ResultsUpTo
<1>2. /\ NbJobs \in Nat /\ NbIter \in Nat \ {0} /\ EpisodeLength \in Nat
      /\ current \in 1 .. NbJobs + 1
  BY EvaluationAssumption DEF LoopInv
<1>3. CASE OneByOne!StartRoot
  <2> DEFINE skips == Training /\ current \in input.skipped
  <2>1. /\ current <= NbJobs /\ sequentialPc' = IF skips THEN "emplace" ELSE "reset"
        /\ sequentialScores' = <<>> /\ UNCHANGED <<input, results, current>>
    BY <1>1, <1>3 DEF OneByOne!StartRoot
  <2>2. skips => JobResult(input, current).scores = <<>>
    BY DEF JobResult, Training
  <2>3. (Training /\ current \in input.skipped)' <=> skips
    BY <1>1, <2>1
  <2>4. Len(<<>>) = 0 /\ 0 \in 0 .. NbIter - 1 /\ ScoresUpTo(current, 0) = <<>>
    BY <1>2, OneMore, EmptySeq
  <2> HIDE DEF skips
  <2>5. CurrentWork'
    BY <1>1, <2>1, <2>2, <2>3, <2>4 DEF CurrentWork
  <2> QED BY <1>1, <2>1, <2>5 DEF LoopInv
<1>4. CASE OneByOne!ResetEnvironment
  <2>1. /\ sequentialPc = "reset" /\ sequentialPc' = "act"
        /\ sequentialEnv' = [iter |-> Len(sequentialScores) + 1, trace |-> <<>>]
        /\ UNCHANGED <<input, results, current, sequentialScores>>
    BY <1>4 DEF OneByOne!ResetEnvironment, OneByOne!ResetStep, OneByOne!ResetFor
  <2>2. Len(<<>>) = 0 /\ 0 \in 0 .. EpisodeLength /\ TraceUpTo(current, 0) = <<>>
    BY <1>2, OneMore, EmptySeq
  <2>3. CurrentWork'
    BY <1>1, <2>1, <2>2 DEF LoopInv, CurrentWork
  <2> QED BY <1>1, <2>1, <2>3 DEF LoopInv
<1>5. CASE OneByOne!Act
  <2> DEFINE n == Len(sequentialEnv.trace)
  <2>1. /\ sequentialPc = "act" /\ n < EpisodeLength
        /\ sequentialEnv' = [sequentialEnv EXCEPT !.trace = Append(sequentialEnv.trace, current)]
        /\ UNCHANGED <<input, results, current, sequentialScores, sequentialPc>>
    BY <1>5 DEF OneByOne!Act, OneByOne!DoAction
  <2>2. /\ n \in 0 .. EpisodeLength
        /\ sequentialEnv = [iter |-> Len(sequentialScores) + 1, trace |-> TraceUpTo(current, n)]
    BY <2>1 DEF LoopInv, CurrentWork
  <2> HIDE DEF n
  <2>3. n \in Nat /\ n + 1 \in Nat /\ n + 1 \in 0 .. EpisodeLength
    BY <1>2, <2>1, <2>2
  <2> DEFINE trace == TraceUpTo(current, n + 1)
  <2>4. Append(TraceUpTo(current, n), current) = trace /\ Len(trace) = n + 1
    <3>1. Append(TraceUpTo(current, n), current) = trace
      BY <2>3, OneMore
    <3>2. Len(trace) = n + 1
      BY <2>3, OneMore
    <3> QED BY <3>1, <3>2
  <2>5. /\ sequentialEnv' = [iter |-> Len(sequentialScores) + 1, trace |-> trace]
        /\ trace = TraceUpTo(current, Len(trace))
    BY <2>1, <2>2, <2>4
  <2> HIDE DEF trace
  <2>6. /\ sequentialEnv'.trace = trace
        /\ sequentialEnv' = [iter |-> Len(sequentialScores') + 1,
                             trace |-> TraceUpTo(current', Len(sequentialEnv'.trace))]
        /\ Len(sequentialEnv'.trace) \in 0 .. EpisodeLength
    <3>1. sequentialEnv'.trace = trace
      BY <2>5
    <3>2. sequentialScores' = sequentialScores /\ current' = current
      BY <2>1
    <3> QED BY <2>3, <2>4, <2>5, <3>1, <3>2
  <2>7. CurrentWork'
    BY <1>1, <2>1, <2>6 DEF LoopInv, CurrentWork
  <2> QED BY <1>1, <2>1, <2>7 DEF LoopInv
<1>6. CASE OneByOne!GetScore
  <2> DEFINE n == Len(sequentialScores)
  <2>1. /\ sequentialPc = "act" /\ Len(sequentialEnv.trace) >= EpisodeLength
        /\ sequentialScores' = Append(sequentialScores, sequentialEnv)
        /\ sequentialPc' = IF n + 1 < NbIter THEN "reset" ELSE "emplace"
        /\ UNCHANGED <<input, results, current>>
    BY <1>6 DEF OneByOne!GetScore
  <2>2. /\ n \in 0 .. NbIter - 1 /\ sequentialScores = ScoresUpTo(current, n)
        /\ ~ (Training /\ current \in input.skipped)
        /\ Len(sequentialEnv.trace) \in 0 .. EpisodeLength
        /\ sequentialEnv = [iter |-> n + 1, trace |-> TraceUpTo(current, Len(sequentialEnv.trace))]
    BY <2>1 DEF LoopInv, CurrentWork
  <2>3. Len(sequentialEnv.trace) = EpisodeLength
    BY <1>2, <2>1, <2>2
  <2>4. sequentialEnv = Episode(current, n + 1)
    BY <2>2, <2>3 DEF Episode, TraceUpTo
  <2>5. /\ n \in Nat /\ n + 1 \in Nat /\ (n + 1 < NbIter => n + 1 \in 0 .. NbIter - 1)
        /\ (~ (n + 1 < NbIter) => n + 1 = NbIter)
    BY <1>2, <2>2
  <2>6. JobResult(input, current).scores = ScoresUpTo(current, NbIter)
    BY <2>2 DEF JobResult, ScoresUpTo, Training
  <2> HIDE DEF n
  <2>7. sequentialScores' = ScoresUpTo(current, n + 1) /\ Len(sequentialScores') = n + 1
    <3>1. /\ Append(ScoresUpTo(current, n), Episode(current, n + 1)) = ScoresUpTo(current, n + 1)
          /\ Len(ScoresUpTo(current, n + 1)) = n + 1
      BY <2>5, OneMore
    <3> QED BY <2>1, <2>2, <2>4, <3>1
  <2>8. CurrentWork'
    BY <1>1, <2>1, <2>2, <2>5, <2>6, <2>7 DEF CurrentWork
  <2>9. current <= NbJobs
    BY <2>1 DEF LoopInv
  <2> QED BY <1>1, <2>1, <2>8, <2>9 DEF LoopInv
<1>7. CASE OneByOne!EmplaceResult
  <2> DEFINE r == [result |-> JobResult(input, current), root |-> current]
             n == current - 1
  <2>1. /\ sequentialPc = "emplace" /\ sequentialPc' = "root" /\ current' = current + 1
        /\ results' = Append(results,
              [result |-> [combined |-> Training /\ current \in input.previous,
                           scores |-> sequentialScores], root |-> current])
    BY <1>1, <1>7 DEF OneByOne!EmplaceResult
  <2>2. current <= NbJobs /\ sequentialScores = JobResult(input, current).scores
    BY <2>1 DEF LoopInv, CurrentWork
  <2>3. results' = Append(results, r)
    BY <2>1, <2>2 DEF JobResult, Training
  <2>4. InSequence => results' = ResultsUpTo(current)
    <3> DEFINE S == {[result |-> JobResult(input, i), root |-> i] : i \in Nat}
               f == ResultsUpTo(n)
               g == ResultsUpTo(n + 1)
    <3>1. n \in Nat /\ n + 1 = current
      BY <1>2
    <3>2. f \in [1 .. n -> S] /\ g \in [1 .. n + 1 -> S] /\ \A k \in 1 .. n : f[k] = g[k]
      BY <3>1 DEF ResultsUpTo
    <3>3. g[n + 1] = r
      BY <3>1 DEF ResultsUpTo
    <3> HIDE DEF S, f, g, r, n
    <3>4. Append(f, g[n + 1]) = g
      BY <3>1, <3>2, AppendExtends
    <3>5. InSequence => results = f
      BY DEF LoopInv, f, n
    <3> QED BY <2>3, <3>1, <3>3, <3>4, <3>5 DEF g
  <2>5. current' \in 1 .. NbJobs + 1 /\ current' - 1 = current
    BY <1>2, <2>1, <2>2
  <2>6. CurrentWork'
    BY <2>1 DEF CurrentWork
  <2> QED BY <1>1, <2>1, <2>4, <2>5, <2>6 DEF LoopInv
<1>8. CASE OneByOne!Return
  <2>1. /\ sequentialPc' = "returned" /\ current > NbJobs /\ UNCHANGED <<results, current>>
    BY <1>8 DEF OneByOne!Return
  <2>2. current' = NbJobs + 1
    BY <1>2, <2>1
  <2>3. CurrentWork'
    BY <2>1 DEF CurrentWork
  <2> QED BY <1>1, <1>2, <2>1, <2>2, <2>3 DEF LoopInv
<1> QED BY <1>3, <1>4, <1>5, <1>6, <1>7, <1>8

(* The keys 1 .. n of a map, in order *)
LEMMA RankOfKey ==
    ASSUME NEW m, NEW n \in Nat, DOMAIN m = 1 .. n, NEW k \in 1 .. n PROVE KeyOfRank(m, k) = k
<1>1. \A l \in 1 .. n : Cardinality({j \in 1 .. n : j <= l}) = l
  <2> SUFFICES ASSUME NEW l \in 1 .. n PROVE Cardinality({j \in 1 .. n : j <= l}) = l
    OBVIOUS
  <2>1. {j \in 1 .. n : j <= l} = 1 .. l
    OBVIOUS
  <2>2. l \in Nat /\ Cardinality(1 .. l) = l
    BY FS_Interval
  <2> QED BY <2>1, <2>2
<1>2. KeyOfRank(m, k) = CHOOSE l \in 1 .. n : Cardinality({j \in 1 .. n : j <= l}) = k
  BY DEF KeyOfRank
<1>3. \A l \in 1 .. n : Cardinality({j \in 1 .. n : j <= l}) = k <=> l = k
  BY <1>1
<1> QED BY <1>2, <1>3

LEMMA CompileInParallel ==
    ASSUME AgentInv, JoinAndCompile PROVE results' = ResultsUpTo(NbJobs)
<1>1. /\ \A t \in Thread : pc[t] = "done"
      /\ results' = CompileResults(resultsPerJob)
  BY DEF JoinAndCompile
<1>2. Main \in Thread /\ NbJobs \in Nat
  BY Parameters, EvaluationAssumption DEF Main, Thread
<1>3. jobsToProcess = <<>>
  BY <1>1, <1>2 DEF AgentInv, CompileInv
<1>4. Popped = NbJobs
  <2>1. Len(jobsToProcess) = 0
    BY <1>3
  <2> QED BY <1>2, <2>1 DEF Popped
<1>5. DOMAIN resultsPerJob = 1 .. NbJobs
  <2>1. \A t \in Thread : pc[t] \notin Evaluating
    BY <1>1 DEF Evaluating
  <2> QED BY <1>4, <2>1 DEF AgentInv, JobInv, NoJobLost
<1>6. Cardinality(1 .. NbJobs) = NbJobs
  BY <1>2, FS_Interval
<1>7. \A n \in 1 .. NbJobs : KeyOfRank(resultsPerJob, n) = n
  BY <1>2, <1>5, RankOfKey
<1>8. \A n \in 1 .. NbJobs : resultsPerJob[n] = JobResult(input, n)
  BY <1>5 DEF AgentInv, WorkInv, ResultsAsSequential
<1> QED BY <1>1, <1>5, <1>6, <1>7, <1>8 DEF CompileResults, ResultsUpTo

(* A step of a thread *)
LEMMA CompileStep ==
    ASSUME AgentInv, NEW t \in Thread, Step(t), ~ InSequence, UNCHANGED <<input, copyable>>
    PROVE  CompileInv'
<1>1. DOMAIN pc = Thread /\ Main \in Thread
  BY Parameters DEF AgentInv, JobInv, Types, Main, Thread
<1>2. results' = results /\ InSequence' = InSequence
  BY DEF Step, CloneEnvironment, LeaveLoop, EnterLoop, PopJob, FindEmpty, StartJob, ResetEnvironment,
     Act, GetScore, StoreResult, StoreArchive, InSequence
<1>3. jobsToProcess = <<>> => jobsToProcess' = <<>>
  BY DEF Step, CloneEnvironment, LeaveLoop, EnterLoop, PopJob, FindEmpty, StartJob, ResetEnvironment,
     Act, GetScore, StoreResult, StoreArchive
<1>4. /\ pc'[Main] = "returned" => pc[Main] = "returned"
      /\ pc'[Main] = "done" => pc[Main] = "done" \/ jobsToProcess = <<>>
  BY <1>1 DEF Step, CloneEnvironment, LeaveLoop, EnterLoop, PopJob, FindEmpty, StartJob,
     ResetEnvironment, Act, GetScore, StoreResult, StoreArchive, Go, AfterEmptyPop
<1>5. ResultsUpTo(NbJobs)' = ResultsUpTo(NbJobs)
  BY DEF ResultsUpTo, JobResult
<1> QED BY <1>2, <1>3, <1>4, <1>5 DEF AgentInv, CompileInv

LEMMA AgentInvNext == ASSUME AgentInv, [TNext]_allVars PROVE AgentInv'
<1>1. CASE UNCHANGED <<vars, copyable, sequentialVars>>
  <2>1. UNCHANGED <<input, copyable, sequentialVars, parallelVars, results>>
    BY <1>1 DEF vars, parallelVars
  <2>2. UNCHANGED <<jobsToProcess, pc>>
    BY <1>1 DEF vars
  <2> QED BY <2>1, <2>2, ThreadsUntouched, LoopUntouched, CompileUntouched DEF AgentInv
<1>2. CASE UNCHANGED allVars
  BY <1>1, <1>2 DEF allVars
<1>3. CASE TNext
  <2>1. UNCHANGED <<input, copyable>>
    BY <1>3, SituationIsFixed
  <2>2. CASE \/ ByWorkers(Workers!NextProgram) \/ ByWorkers(Workers!CreateJobs)
             \/ (\E t \in Thread : ByWorkers(Workers!Work(t))) \/ ByWorkers(Workers!JoinThreads)
             \/ TDone
    BY <1>1, <2>2 DEF ByWorkers, TDone, allVars
  <2>3. CASE \/ InOrder(OneByOne!StartRoot) \/ InOrder(OneByOne!ResetEnvironment)
             \/ InOrder(OneByOne!Act) \/ InOrder(OneByOne!GetScore)
             \/ InOrder(OneByOne!EmplaceResult) \/ InOrder(OneByOne!Return)
    <3>1. InSequence /\ UNCHANGED <<parallelVars, jobsToProcess, pc>>
      BY <2>3 DEF InOrder, parallelVars
    <3>2. \/ OneByOne!StartRoot \/ OneByOne!ResetEnvironment \/ OneByOne!Act \/ OneByOne!GetScore
          \/ OneByOne!EmplaceResult \/ OneByOne!Return
      BY <2>3 DEF InOrder
    <3>3. LoopInv'
      BY <2>1, <3>2, LoopSteps DEF AgentInv
    <3> QED BY <2>1, <3>1, <3>3, ThreadsUntouched, CompileUntouched DEF AgentInv
  <2>4. ASSUME NEW t \in Thread, InParallel(Step(t)) PROVE AgentInv'
    <3>1. ~ InSequence /\ Step(t) /\ UNCHANGED sequentialVars
      BY <2>4 DEF InParallel
    <3>2. JobInv' /\ WorkInv'
      BY <3>1, JobInvNext, WorkInvNext DEF AgentInv, Next
    <3>3. LoopInv'
      BY <2>1, <3>1, LoopUntouched DEF AgentInv
    <3>4. CompileInv'
      BY <2>1, <3>1, CompileStep
    <3> QED BY <3>2, <3>3, <3>4 DEF AgentInv
  <2>5. CASE InParallel(JoinAndCompile)
    <3>1. ~ InSequence /\ JoinAndCompile /\ UNCHANGED sequentialVars
      BY <2>5 DEF InParallel
    <3>2. JobInv' /\ WorkInv'
      BY <3>1, JobInvNext, WorkInvNext DEF AgentInv, Next
    <3>3. LoopInv'
      BY <2>1, <3>1, LoopUntouched DEF AgentInv
    <3>4. CompileInv'
      <4>1. results' = ResultsUpTo(NbJobs)' /\ jobsToProcess' = jobsToProcess
        BY <2>1, <3>1, CompileInParallel DEF ResultsUpTo, JobResult, JoinAndCompile
      <4>2. pc[Main] = "done"
        BY <3>1 DEF JoinAndCompile, Go
      <4> QED BY <4>1, <4>2 DEF AgentInv, CompileInv
    <3> QED BY <3>2, <3>3, <3>4 DEF AgentInv
  <2> QED BY <1>3, <2>2, <2>3, <2>4, <2>5 DEF TNext
<1> QED BY <1>2, <1>3

(* In the agent, with populateTPG before it and the sequential evaluation as an alternative, a job
   is still in the queue, in the hands of one thread or has its result, and in only one of
   these places. *)
THEOREM GenerationProcessesJobsOnce == TSpec => []EveryJobProcessedOnce
<1>1. AgentInv => EveryJobProcessedOnce
  BY JobInvImpliesOnce DEF AgentInv
<1> QED BY <1>1, AgentInvInit, AgentInvNext, PTL DEF TSpec

(* In the agent as well, every result a thread stores is that of a sequential evaluation. *)
THEOREM GenerationResultsAsSequential == TSpec => []ResultsAsSequential
<1>1. AgentInv => ResultsAsSequential
  BY DEF AgentInv, WorkInv
<1> QED BY <1>1, AgentInvInit, AgentInvNext, PTL DEF TSpec

(* "This method must always the same results as the evaluateAllRoots for a sequential execution":
   whichever evaluation the agent chooses, and whatever its threads do, it returns one result
   for each root, in the order of the roots, and the one that the job of that root has. *)
THEOREM GenerationReturnsInOrder == TSpec => []ResultsInOrder
<1>1. ASSUME AgentInv PROVE ResultsInOrder
  <2>1. sequentialPc = "returned" => current - 1 = NbJobs
    BY <1>1, EvaluationAssumption DEF AgentInv, LoopInv
  <2>2. InSequence /\ sequentialPc = "returned" => results = ResultsUpTo(NbJobs)
    BY <1>1, <2>1 DEF AgentInv, LoopInv
  <2> QED BY <1>1, <2>2 DEF ResultsInOrder, Returned, AgentInv, CompileInv
<1> QED BY <1>1, AgentInvInit, AgentInvNext, PTL DEF TSpec

-----------------------------------------------------------------------------
(* The archive of recordings *)

(* A set of natural numbers has a least element. *)
LEMMA LeastNatural ==
    ASSUME NEW T \in SUBSET Nat, T # {}
    PROVE  \E x \in T : \A y \in T : x <= y
<1> DEFINE R == OpToRel(<, Nat)
<1>1. IsWellFoundedOn(R, Nat)
  BY NatLessThanWellFounded
<1>2. \A x, y \in Nat : y < x => <<y, x>> \in R
  BY DEF OpToRel
<1> HIDE DEF R
<1>3. PICK x \in T : \A y \in T : ~ (<<y, x>> \in R)
  BY <1>1, WFMin
<1>4. ASSUME NEW y \in T PROVE x <= y
  <2>1. x \in Nat /\ y \in Nat /\ ~ (y < x)
    BY <1>2, <1>3
  <2> QED BY <2>1
<1> QED BY <1>4

(* Nothing fails if it fails neither at 0 nor first at a successor. *)
LEMMA NoFirstFailure ==
    ASSUME NEW n \in Nat, NEW T \in SUBSET (0 .. n), 0 \notin T,
           \A k \in 1 .. n : k \in T => k - 1 \in T
    PROVE  T = {}
<1> SUFFICES ASSUME T # {} PROVE FALSE
  OBVIOUS
<1>1. PICK x \in T : \A y \in T : x <= y
  <2>1. T \in SUBSET Nat
    OBVIOUS
  <2> QED BY <2>1, LeastNatural
<1>2. x \in 1 .. n
  OBVIOUS
<1>3. x - 1 \in T
  BY <1>2
<1> QED BY <1>1, <1>2, <1>3

(* The archive is the end of the sequence of the executions recorded: of s, the last n. *)
LEMMA LastOfProperties ==
    ASSUME NEW E, NEW s \in Seq(E), NEW n \in Nat
    PROVE  /\ LastOf(s, n) \in Seq(E)
           /\ Len(LastOf(s, n)) = IF Len(s) <= n THEN Len(s) ELSE n
           /\ \A i \in 1 .. Len(LastOf(s, n)) :
                 LastOf(s, n)[i] = s[i + (Len(s) - Len(LastOf(s, n)))]
<1>1. Len(s) \in Nat /\ \A i \in 1 .. Len(s) : s[i] \in E
  BY LenProperties, ElementOfSeq
<1>2. CASE Len(s) <= n
  <2>1. LastOf(s, n) = s
    BY <1>2 DEF LastOf
  <2>2. \A i \in 1 .. Len(s) : i + (Len(s) - Len(s)) = i
    BY <1>1
  <2> QED BY <1>1, <1>2, <2>1, <2>2
<1>3. CASE ~ (Len(s) <= n)
  <2> DEFINE a == Len(s) - n + 1
             b == Len(s)
             t == SubSeq(s, a, b)
  <2>1. a \in Int /\ b \in Int /\ a <= b + 1 /\ b - a + 1 = n /\ a .. b \subseteq 1 .. Len(s)
    BY <1>1, <1>3
  <2>2. \A i \in a .. b : s[i] \in E
    BY <1>1, <2>1
  <2>3. LastOf(s, n) = t
    BY <1>3 DEF LastOf
  <2> HIDE DEF a, b
  <2>4. /\ t \in Seq(E) /\ Len(t) = (IF a <= b THEN b - a + 1 ELSE 0)
        /\ \A i \in 1 .. b - a + 1 : t[i] = s[a + i - 1]
    BY <2>1, <2>2, SubSeqProperties
  <2>5. Len(t) = n
    BY <2>1, <2>4
  <2>6. ASSUME NEW i \in 1 .. n PROVE a + i - 1 = i + (Len(s) - n)
    BY <1>1, <2>6 DEF a
  <2> HIDE DEF t
  <2>7. \A i \in 1 .. n : t[i] = s[i + (Len(s) - n)]
    BY <2>1, <2>4, <2>6
  <2> QED BY <1>3, <2>3, <2>4, <2>5, <2>7
<1> QED BY <1>2, <1>3

(* An archive that is cut twice is cut to the smaller size. *)
LEMMA LastOfLast ==
    ASSUME NEW E, NEW s \in Seq(E), NEW n \in Nat, NEW r \in Nat, r <= n
    PROVE  LastOf(LastOf(s, n), r) = LastOf(s, r)
<1> DEFINE t == LastOf(s, n)
           u == LastOf(t, r)
           v == LastOf(s, r)
<1>1. /\ t \in Seq(E) /\ Len(t) = (IF Len(s) <= n THEN Len(s) ELSE n)
      /\ \A i \in 1 .. Len(t) : t[i] = s[i + (Len(s) - Len(t))]
  BY LastOfProperties
<1>2. /\ v \in Seq(E) /\ Len(v) = (IF Len(s) <= r THEN Len(s) ELSE r)
      /\ \A i \in 1 .. Len(v) : v[i] = s[i + (Len(s) - Len(v))]
  BY LastOfProperties
<1> HIDE DEF t
<1>3. /\ u \in Seq(E) /\ Len(u) = (IF Len(t) <= r THEN Len(t) ELSE r)
      /\ \A i \in 1 .. Len(u) : u[i] = t[i + (Len(t) - Len(u))]
  BY <1>1, LastOfProperties
<1>4. Len(s) \in Nat /\ Len(t) \in Nat
  BY <1>1, LenProperties
<1> HIDE DEF u, v
<1>5. Len(u) = Len(v) /\ Len(u) \in Nat /\ Len(u) <= Len(t)
  BY <1>1, <1>2, <1>3, <1>4
<1>6. ASSUME NEW i \in 1 .. Len(u) PROVE u[i] = v[i]
  <2> DEFINE j == i + (Len(t) - Len(u))
  <2>1. j \in 1 .. Len(t) /\ j + (Len(s) - Len(t)) = i + (Len(s) - Len(v))
    BY <1>4, <1>5
  <2>2. u[i] = t[j] /\ t[j] = s[j + (Len(s) - Len(t))]
    BY <1>1, <1>3, <2>1
  <2> QED BY <1>2, <1>5, <2>1, <2>2
<1>7. u = v
  BY <1>2, <1>3, <1>5, <1>6, SeqEqual
<1> QED BY <1>7 DEF t, u, v

(* The last of a concatenation come from its second part, ... *)
LEMMA LastOfSecond ==
    ASSUME NEW E, NEW a \in Seq(E), NEW b \in Seq(E), NEW n \in Nat, n <= Len(b)
    PROVE  LastOf(a \o b, n) = LastOf(b, n)
<1> DEFINE c == a \o b
           u == LastOf(c, n)
           v == LastOf(b, n)
<1>1. /\ c \in Seq(E) /\ Len(c) = Len(a) + Len(b)
      /\ \A i \in 1 .. Len(a) + Len(b) : c[i] = IF i <= Len(a) THEN a[i] ELSE b[i - Len(a)]
  BY ConcatProperties
<1>2. /\ v \in Seq(E) /\ Len(v) = (IF Len(b) <= n THEN Len(b) ELSE n)
      /\ \A i \in 1 .. Len(v) : v[i] = b[i + (Len(b) - Len(v))]
  BY LastOfProperties
<1> HIDE DEF c
<1>3. /\ u \in Seq(E) /\ Len(u) = (IF Len(c) <= n THEN Len(c) ELSE n)
      /\ \A i \in 1 .. Len(u) : u[i] = c[i + (Len(c) - Len(u))]
  BY <1>1, LastOfProperties
<1>4. Len(a) \in Nat /\ Len(b) \in Nat
  BY LenProperties
<1> HIDE DEF u, v
<1>5. Len(u) = n /\ Len(v) = n
  BY <1>1, <1>2, <1>3, <1>4
<1>6. ASSUME NEW i \in 1 .. n PROVE u[i] = v[i]
  <2> DEFINE j == i + (Len(c) - n)
  <2>1. j \in 1 .. Len(a) + Len(b) /\ ~ (j <= Len(a)) /\ j - Len(a) = i + (Len(b) - n)
    BY <1>1, <1>4
  <2>2. u[i] = c[j] /\ c[j] = b[j - Len(a)]
    BY <1>1, <1>3, <1>5, <2>1
  <2> QED BY <1>2, <1>5, <2>1, <2>2
<1>7. u = v
  BY <1>2, <1>3, <1>5, <1>6, SeqEqual
<1> QED BY <1>7 DEF c, u, v

(* ... and from its first part when there is room left. *)
LEMMA LastOfBoth ==
    ASSUME NEW E, NEW a \in Seq(E), NEW b \in Seq(E), NEW r \in Nat
    PROVE  LastOf(a \o b, r + Len(b)) = LastOf(a, r) \o b
<1> DEFINE c == a \o b
           n == r + Len(b)
           u == LastOf(c, n)
           w == LastOf(a, r)
           v == w \o b
<1>0. Len(a) \in Nat /\ Len(b) \in Nat /\ n \in Nat
  BY LenProperties
<1>1. /\ c \in Seq(E) /\ Len(c) = Len(a) + Len(b)
      /\ \A i \in 1 .. Len(a) + Len(b) : c[i] = IF i <= Len(a) THEN a[i] ELSE b[i - Len(a)]
  BY ConcatProperties
<1>2. /\ w \in Seq(E) /\ Len(w) = (IF Len(a) <= r THEN Len(a) ELSE r)
      /\ \A i \in 1 .. Len(w) : w[i] = a[i + (Len(a) - Len(w))]
  BY LastOfProperties
<1> HIDE DEF c, w, n
<1>3. /\ u \in Seq(E) /\ Len(u) = (IF Len(c) <= n THEN Len(c) ELSE n)
      /\ \A i \in 1 .. Len(u) : u[i] = c[i + (Len(c) - Len(u))]
  BY <1>0, <1>1, LastOfProperties
<1>4. /\ v \in Seq(E) /\ Len(v) = Len(w) + Len(b)
      /\ \A i \in 1 .. Len(w) + Len(b) : v[i] = IF i <= Len(w) THEN w[i] ELSE b[i - Len(w)]
  BY <1>2, ConcatProperties
<1> HIDE DEF u, v
<1>5. Len(u) = Len(w) + Len(b) /\ Len(v) = Len(u) /\ Len(w) \in Nat /\ Len(w) <= Len(a)
  BY <1>0, <1>1, <1>2, <1>3, <1>4 DEF n
<1>6. ASSUME NEW i \in 1 .. Len(u) PROVE u[i] = v[i]
  <2> DEFINE j == i + (Len(c) - Len(u))
  <2>1. j \in 1 .. Len(a) + Len(b) /\ j = i + (Len(a) - Len(w))
    BY <1>0, <1>1, <1>5
  <2>2. u[i] = c[j] /\ c[j] = IF j <= Len(a) THEN a[j] ELSE b[j - Len(a)]
    BY <1>1, <1>3, <2>1
  <2>3. v[i] = IF i <= Len(w) THEN w[i] ELSE b[i - Len(w)]
    BY <1>4, <1>5
  <2> HIDE DEF j
  <2>4. CASE i <= Len(w)
    <3>1. j <= Len(a) /\ i \in 1 .. Len(w)
      BY <1>0, <1>5, <2>1, <2>4
    <3> QED BY <1>2, <2>1, <2>2, <2>3, <2>4, <3>1
  <2>5. CASE ~ (i <= Len(w))
    <3>1. ~ (j <= Len(a)) /\ j - Len(a) = i - Len(w)
      BY <1>0, <1>5, <2>1, <2>5
    <3> QED BY <2>2, <2>3, <2>5, <3>1
  <2> QED BY <2>4, <2>5
<1>7. u = v
  BY <1>3, <1>4, <1>5, <1>6, SeqEqual
<1> QED BY <1>7 DEF c, u, v, w, n

(* Recording in an archive of size n what follows, or what another archive of that size kept
   of it, is the same as cutting the whole sequence. *)
LEMMA LastOfConcat ==
    ASSUME NEW E, NEW a \in Seq(E), NEW b \in Seq(E), NEW n \in Nat
    PROVE  /\ LastOf(LastOf(a, n) \o b, n) = LastOf(a \o b, n)
           /\ LastOf(a \o LastOf(b, n), n) = LastOf(a \o b, n)
<1>1. /\ LastOf(a, n) \in Seq(E) /\ LastOf(b, n) \in Seq(E)
      /\ Len(LastOf(b, n)) = (IF Len(b) <= n THEN Len(b) ELSE n) /\ Len(b) \in Nat
  BY LastOfProperties, LenProperties
<1>2. LastOf(LastOf(a, n) \o b, n) = LastOf(a \o b, n)
  <2>1. CASE n <= Len(b)
    BY <1>1, <2>1, LastOfSecond
  <2>2. CASE ~ (n <= Len(b))
    <3> DEFINE r == n - Len(b)
    <3>1. r \in Nat /\ r + Len(b) = n /\ r <= n
      BY <1>1, <2>2
    <3> HIDE DEF r
    <3>2. LastOf(LastOf(a, n) \o b, r + Len(b)) = LastOf(LastOf(a, n), r) \o b
      BY <1>1, <3>1, LastOfBoth
    <3>3. LastOf(a \o b, r + Len(b)) = LastOf(a, r) \o b
      BY <3>1, LastOfBoth
    <3>4. LastOf(LastOf(a, n), r) = LastOf(a, r)
      BY <3>1, LastOfLast
    <3> QED BY <3>1, <3>2, <3>3, <3>4
  <2> QED BY <2>1, <2>2
<1>3. LastOf(a \o LastOf(b, n), n) = LastOf(a \o b, n)
  <2>1. CASE Len(b) <= n
    BY <2>1 DEF LastOf
  <2>2. CASE ~ (Len(b) <= n)
    <3>1. n <= Len(b) /\ n <= Len(LastOf(b, n)) /\ n <= n
      BY <1>1, <2>2
    <3>2. LastOf(a \o LastOf(b, n), n) = LastOf(LastOf(b, n), n)
      BY <1>1, <3>1, LastOfSecond
    <3>3. LastOf(LastOf(b, n), n) = LastOf(b, n)
      BY <3>1, LastOfLast
    <3>4. LastOf(a \o b, n) = LastOf(b, n)
      BY <3>1, LastOfSecond
    <3> QED BY <3>2, <3>3, <3>4
  <2> QED BY <2>1, <2>2
<1> QED BY <1>2, <1>3

-----------------------------------------------------------------------------
(* Functions defined by recursion on 0 .. n exist. *)
IsRecursion(f, n, base, H) == f = [k \in 0 .. n |-> IF k = 0 THEN base ELSE H[k][f[k - 1]]]

LEMMA RecursionExists ==
    ASSUME NEW n \in Nat, NEW X, NEW base \in X, NEW H \in [1 .. n -> [X -> X]]
    PROVE  \E f \in [0 .. n -> X] : IsRecursion(f, n, base, H)
<1> DEFINE Up(f, k) == f[0] = base /\ \A j \in 1 .. k : f[j] = H[j][f[j - 1]]
           Reached(k) == \E f \in [0 .. n -> X] : Up(f, k)
           T == {k \in 0 .. n : ~ Reached(k)}
<1>1. Reached(0)
  <2> DEFINE f == [k \in 0 .. n |-> base]
  <2>1. f \in [0 .. n -> X] /\ f[0] = base
    OBVIOUS
  <2> HIDE DEF f
  <2>2. Up(f, 0)
    BY <2>1
  <2> QED BY <2>1, <2>2
<1>2. ASSUME NEW k \in 1 .. n, Reached(k - 1) PROVE Reached(k)
  <2>1. PICK f \in [0 .. n -> X] : Up(f, k - 1)
    BY <1>2
  <2> DEFINE g == [f EXCEPT ![k] = H[k][f[k - 1]]]
  <2>2. k - 1 \in 0 .. n /\ k \in 0 .. n /\ k # 0 /\ k - 1 # k
    OBVIOUS
  <2>3. H[k][f[k - 1]] \in X
    BY <2>1, <2>2
  <2>4. g \in [0 .. n -> X] /\ g[k] = H[k][f[k - 1]] /\ \A j \in 0 .. n : j # k => g[j] = f[j]
    BY <2>2, <2>3
  <2> HIDE DEF g
  <2>5. ASSUME NEW j \in 1 .. k PROVE g[j] = H[j][g[j - 1]]
    <3>1. j \in 0 .. n /\ j - 1 \in 0 .. n /\ j - 1 # k
      OBVIOUS
    <3>2. g[j - 1] = f[j - 1]
      BY <2>4, <3>1
    <3>3. CASE j = k
      BY <2>4, <3>2, <3>3
    <3>4. CASE j # k
      <4>1. j \in 1 .. k - 1
        BY <3>4
      <4> QED BY <2>1, <2>4, <3>1, <3>2, <3>4, <4>1
    <3> QED BY <3>3, <3>4
  <2>6. g[0] = base
    BY <2>1, <2>2, <2>4
  <2> QED BY <2>4, <2>5, <2>6
<1>3. T = {}
  <2> HIDE DEF Reached
  <2>1. T \in SUBSET (0 .. n) /\ 0 \notin T
    BY <1>1
  <2>2. ASSUME NEW k \in 1 .. n, k \in T PROVE k - 1 \in T
    <3>1. k - 1 \in 0 .. n
      OBVIOUS
    <3> QED BY <1>2, <2>2, <3>1
  <2> HIDE DEF T
  <2> QED BY <2>1, <2>2, NoFirstFailure
<1>4. Reached(n)
  <2> HIDE DEF Reached
  <2>1. n \in 0 .. n
    OBVIOUS
  <2> QED BY <1>3, <2>1
<1>5. PICK f \in [0 .. n -> X] : Up(f, n)
  BY <1>4
<1>6. ASSUME NEW k \in 0 .. n PROVE f[k] = IF k = 0 THEN base ELSE H[k][f[k - 1]]
  <2>1. k # 0 => k \in 1 .. n
    OBVIOUS
  <2> QED BY <1>5, <2>1
<1>7. f = [k \in 0 .. n |-> IF k = 0 THEN base ELSE H[k][f[k - 1]]]
  BY <1>6
<1> QED BY <1>7 DEF IsRecursion

-----------------------------------------------------------------------------
(* The number of executions of a job *)
NbDraws == NbIter * EpisodeLength

LEMMA DrawsAreNatural == NbDraws \in Nat
BY EvaluationAssumption DEF NbDraws

Recording == Nat \X Nat

(* KeptUpTo follows the executions one by one. *)
LEMMA KeptFacts ==
    ASSUME NEW in, NEW i \in Nat
    PROVE  /\ \A n \in 0 .. NbDraws : KeptUpTo(in, i, n) \in Seq(Recording)
           /\ KeptUpTo(in, i, 0) = <<>>
           /\ \A n \in 1 .. NbDraws :
                 KeptUpTo(in, i, n) = IF n \in in.kept[i]
                                      THEN Append(KeptUpTo(in, i, n - 1), <<i, n>>)
                                      ELSE KeptUpTo(in, i, n - 1)
<1> DEFINE X == Seq(Recording)
           kept == CHOOSE f : f = [m \in 0 .. NbIter * EpisodeLength |->
                        IF m = 0 THEN <<>>
                        ELSE IF m \in in.kept[i] THEN Append(f[m - 1], <<i, m>>) ELSE f[m - 1]]
           H == [m \in 1 .. NbDraws |->
                    [x \in X |-> IF m \in in.kept[i] THEN Append(x, <<i, m>>) ELSE x]]
<1>1. NbDraws \in Nat /\ <<>> \in X
  BY DrawsAreNatural, EmptySeq
<1>2. H \in [1 .. NbDraws -> [X -> X]]
  <2>1. ASSUME NEW m \in 1 .. NbDraws, NEW x \in X PROVE Append(x, <<i, m>>) \in X
    <3>1. <<i, m>> \in Recording
      BY <1>1 DEF Recording
    <3> QED BY <3>1, AppendProperties
  <2> HIDE DEF X
  <2> QED BY <2>1
<1> HIDE DEF X, H
<1>3. PICK f \in [0 .. NbDraws -> X] : IsRecursion(f, NbDraws, <<>>, H)
  BY <1>1, <1>2, RecursionExists
<1>4. ASSUME NEW m \in 0 .. NbDraws
      PROVE  f[m] = IF m = 0 THEN <<>>
                    ELSE IF m \in in.kept[i] THEN Append(f[m - 1], <<i, m>>) ELSE f[m - 1]
  <2>1. f[m] = IF m = 0 THEN <<>> ELSE H[m][f[m - 1]]
    BY <1>3 DEF IsRecursion
  <2>2. CASE m # 0
    <3>1. m \in 1 .. NbDraws /\ m - 1 \in 0 .. NbDraws
      BY <1>1, <2>2
    <3>2. f[m - 1] \in X
      BY <3>1
    <3>3. H[m][f[m - 1]] = IF m \in in.kept[i] THEN Append(f[m - 1], <<i, m>>) ELSE f[m - 1]
      BY <3>1, <3>2 DEF H
    <3> QED BY <2>1, <2>2, <3>3
  <2> QED BY <2>1, <2>2
<1>5. f = [m \in 0 .. NbIter * EpisodeLength |->
              IF m = 0 THEN <<>>
              ELSE IF m \in in.kept[i] THEN Append(f[m - 1], <<i, m>>) ELSE f[m - 1]]
  BY <1>4 DEF NbDraws
<1>6. kept = [m \in 0 .. NbIter * EpisodeLength |->
                IF m = 0 THEN <<>>
                ELSE IF m \in in.kept[i] THEN Append(kept[m - 1], <<i, m>>) ELSE kept[m - 1]]
  BY <1>5
<1>7. \A n : KeptUpTo(in, i, n) = kept[n]
  BY DEF KeptUpTo
<1> HIDE DEF kept
<1>8. ASSUME NEW m \in 0 .. NbDraws
      PROVE  kept[m] = IF m = 0 THEN <<>>
                       ELSE IF m \in in.kept[i] THEN Append(kept[m - 1], <<i, m>>) ELSE kept[m - 1]
  BY <1>6 DEF NbDraws
<1> DEFINE T == {m \in 0 .. NbDraws : kept[m] \notin X}
<1>9. T = {}
  <2>1. T \in SUBSET (0 .. NbDraws)
    OBVIOUS
  <2>2. 0 \notin T
    BY <1>1, <1>8
  <2>3. ASSUME NEW m \in 1 .. NbDraws, m \in T PROVE m - 1 \in T
    <3>1. m \in 0 .. NbDraws /\ m - 1 \in 0 .. NbDraws /\ m # 0
      BY <1>1
    <3>2. ASSUME kept[m - 1] \in X PROVE kept[m] \in X
      <4>1. <<i, m>> \in Recording
        BY <1>1 DEF Recording
      <4>2. Append(kept[m - 1], <<i, m>>) \in X
        BY <3>2, <4>1, AppendProperties DEF X
      <4> QED BY <1>8, <3>1, <3>2, <4>2
    <3> QED BY <2>3, <3>1, <3>2
  <2> HIDE DEF T
  <2> QED BY <1>1, <2>1, <2>2, <2>3, NoFirstFailure
<1>10. \A n \in 1 .. NbDraws : n \in 0 .. NbDraws /\ n # 0
  BY <1>1
<1>11. 0 \in 0 .. NbDraws
  BY <1>1
<1>12. \A n \in 0 .. NbDraws : kept[n] \in Seq(Recording)
  BY <1>9 DEF X
<1>13. \A n \in 1 .. NbDraws : kept[n] = IF n \in in.kept[i] THEN Append(kept[n - 1], <<i, n>>) ELSE kept[n - 1]
  BY <1>8, <1>10
<1> QED BY <1>7, <1>8, <1>11, <1>12, <1>13

LEMMA JobRecordingsType ==
    ASSUME NEW in, NEW i \in Nat PROVE JobRecordings(in, i) \in Seq(Recording)
<1>1. NbDraws \in 0 .. NbDraws
  BY DrawsAreNatural
<1>2. KeptUpTo(in, i, NbDraws) \in Seq(Recording)
  BY <1>1, KeptFacts
<1>3. <<>> \in Seq(Recording)
  BY EmptySeq
<1> QED BY <1>2, <1>3 DEF JobRecordings, NbDraws

(* The recordings of the first k jobs, in their order *)
RecordedBy(in, k) ==
    LET upTo[j \in 0 .. NbJobs] ==
            IF j = 0 THEN <<>> ELSE upTo[j - 1] \o JobRecordings(in, j)
    IN  upTo[k]

LEMMA RecordedByFacts ==
    ASSUME NEW in
    PROVE  /\ \A k \in 0 .. NbJobs : RecordedBy(in, k) \in Seq(Recording)
           /\ RecordedBy(in, 0) = <<>>
           /\ \A k \in 1 .. NbJobs :
                 RecordedBy(in, k) = RecordedBy(in, k - 1) \o JobRecordings(in, k)
<1> DEFINE X == Seq(Recording)
           upTo == CHOOSE f : f = [j \in 0 .. NbJobs |->
                        IF j = 0 THEN <<>> ELSE f[j - 1] \o JobRecordings(in, j)]
           H == [j \in 1 .. NbJobs |-> [x \in X |-> x \o JobRecordings(in, j)]]
<1>1. NbJobs \in Nat /\ <<>> \in X
  BY EvaluationAssumption, EmptySeq
<1>0. \A j \in 1 .. NbJobs, x \in X : x \o JobRecordings(in, j) \in X
  <2> SUFFICES ASSUME NEW j \in 1 .. NbJobs, NEW x \in X PROVE x \o JobRecordings(in, j) \in X
    OBVIOUS
  <2>1. JobRecordings(in, j) \in X
    BY JobRecordingsType
  <2> QED BY <2>1, ConcatProperties
<1>2. H \in [1 .. NbJobs -> [X -> X]]
  <2> HIDE DEF X
  <2> QED BY <1>0
<1> HIDE DEF X, H
<1>3. PICK f \in [0 .. NbJobs -> X] : IsRecursion(f, NbJobs, <<>>, H)
  BY <1>1, <1>2, RecursionExists
<1>4. ASSUME NEW m \in 0 .. NbJobs
      PROVE  f[m] = IF m = 0 THEN <<>> ELSE f[m - 1] \o JobRecordings(in, m)
  <2>1. f[m] = IF m = 0 THEN <<>> ELSE H[m][f[m - 1]]
    BY <1>3 DEF IsRecursion
  <2>2. CASE m # 0
    <3>1. m \in 1 .. NbJobs /\ m - 1 \in 0 .. NbJobs
      BY <1>1, <2>2
    <3>2. f[m - 1] \in X
      BY <3>1
    <3>3. H[m][f[m - 1]] = f[m - 1] \o JobRecordings(in, m)
      BY <3>1, <3>2 DEF H
    <3> QED BY <2>1, <2>2, <3>3
  <2> QED BY <2>1, <2>2
<1>5. f = [m \in 0 .. NbJobs |-> IF m = 0 THEN <<>> ELSE f[m - 1] \o JobRecordings(in, m)]
  BY <1>4
<1>6. upTo = [m \in 0 .. NbJobs |-> IF m = 0 THEN <<>> ELSE upTo[m - 1] \o JobRecordings(in, m)]
  BY <1>5
<1>7. \A n : RecordedBy(in, n) = upTo[n]
  BY DEF RecordedBy
<1> HIDE DEF upTo
<1>8. ASSUME NEW m \in 0 .. NbJobs
      PROVE  upTo[m] = IF m = 0 THEN <<>> ELSE upTo[m - 1] \o JobRecordings(in, m)
  BY <1>6
<1> DEFINE T == {m \in 0 .. NbJobs : upTo[m] \notin X}
<1>9. T = {}
  <2>1. T \in SUBSET (0 .. NbJobs)
    OBVIOUS
  <2>2. 0 \notin T
    BY <1>1, <1>8
  <2>3. ASSUME NEW m \in 1 .. NbJobs, m \in T PROVE m - 1 \in T
    <3>1. m \in 0 .. NbJobs /\ m - 1 \in 0 .. NbJobs /\ m # 0
      BY <1>1
    <3> QED BY <1>0, <1>8, <2>3, <3>1
  <2> HIDE DEF T
  <2> QED BY <1>1, <2>1, <2>2, <2>3, NoFirstFailure
<1>10. \A n \in 1 .. NbJobs : n \in 0 .. NbJobs /\ n # 0
  BY <1>1
<1>11. 0 \in 0 .. NbJobs
  BY <1>1
<1>12. \A n \in 0 .. NbJobs : upTo[n] \in Seq(Recording)
  BY <1>9 DEF X
<1>13. \A n \in 1 .. NbJobs : upTo[n] = upTo[n - 1] \o JobRecordings(in, n)
  BY <1>8, <1>10
<1> QED BY <1>7, <1>8, <1>11, <1>12, <1>13

-----------------------------------------------------------------------------
(* The archive after the first k jobs *)
ArchiveAfter(in, k) == LastOf(OldArchive(in) \o RecordedBy(in, k), ArchiveSize)

LEMMA OldArchiveFits ==
    ASSUME NEW in \in Inputs
    PROVE  /\ OldArchive(in) \in Seq(Recording) /\ Len(OldArchive(in)) \in Nat
           /\ Len(OldArchive(in)) <= ArchiveSize /\ ArchiveSize \in Nat
<1>1. ArchiveSize \in Nat /\ in.old \in 0 .. ArchiveSize
  BY EvaluationAssumption DEF InputType
<1>2. OldArchive(in) \in [1 .. in.old -> Recording] /\ in.old \in Nat
  <2>1. \A n \in 1 .. in.old : <<0, n>> \in Recording
    BY <1>1 DEF Recording
  <2> QED BY <1>1, <2>1 DEF OldArchive
<1>3. OldArchive(in) \in Seq(Recording) /\ Len(OldArchive(in)) = in.old
  BY <1>2, FunctionIsSeq
<1> QED BY <1>1, <1>3

(* A job adds its recordings to what the jobs before it left. *)
LEMMA ArchiveAfterFacts ==
    ASSUME NEW in \in Inputs
    PROVE  /\ \A k \in 0 .. NbJobs : /\ ArchiveAfter(in, k) \in Seq(Recording)
                                     /\ Len(ArchiveAfter(in, k)) \in Nat
                                     /\ Len(ArchiveAfter(in, k)) <= ArchiveSize
           /\ ArchiveAfter(in, 0) = OldArchive(in)
           /\ \A k \in 1 .. NbJobs :
                 ArchiveAfter(in, k)
                    = LastOf(ArchiveAfter(in, k - 1) \o JobRecordings(in, k), ArchiveSize)
<1> DEFINE old == OldArchive(in)
           S == ArchiveSize
<1>0. old \in Seq(Recording) /\ Len(old) <= S /\ S \in Nat /\ NbJobs \in Nat
  BY OldArchiveFits, EvaluationAssumption
<1> HIDE DEF old, S
<1>1. ASSUME NEW k \in 0 .. NbJobs
      PROVE  /\ RecordedBy(in, k) \in Seq(Recording) /\ old \o RecordedBy(in, k) \in Seq(Recording)
             /\ ArchiveAfter(in, k) \in Seq(Recording) /\ Len(ArchiveAfter(in, k)) \in Nat
             /\ Len(ArchiveAfter(in, k)) <= S
  <2>1. RecordedBy(in, k) \in Seq(Recording)
    BY RecordedByFacts
  <2>2. old \o RecordedBy(in, k) \in Seq(Recording)
    BY <1>0, <2>1, ConcatProperties
  <2> DEFINE s == old \o RecordedBy(in, k)
  <2>3. ArchiveAfter(in, k) = LastOf(s, S)
    BY DEF ArchiveAfter, old, S
  <2> HIDE DEF s
  <2>4. s \in Seq(Recording) /\ Len(s) \in Nat
    BY <2>2, LenProperties DEF s
  <2>5. LastOf(s, S) \in Seq(Recording) /\ Len(LastOf(s, S)) = IF Len(s) <= S THEN Len(s) ELSE S
    BY <1>0, <2>4, LastOfProperties
  <2> QED BY <1>0, <2>1, <2>2, <2>3, <2>4, <2>5
<1>2. ArchiveAfter(in, 0) = old
  <2>1. old \o RecordedBy(in, 0) = old
    BY <1>0, RecordedByFacts, ConcatEmptySeq
  <2> QED BY <1>0, <2>1 DEF ArchiveAfter, LastOf, old, S
<1>3. ASSUME NEW k \in 1 .. NbJobs
      PROVE  ArchiveAfter(in, k) = LastOf(ArchiveAfter(in, k - 1) \o JobRecordings(in, k), S)
  <2> DEFINE a == RecordedBy(in, k - 1)
             b == JobRecordings(in, k)
  <2>1. k - 1 \in 0 .. NbJobs /\ k \in Nat
    BY <1>0
  <2>2. a \in Seq(Recording) /\ b \in Seq(Recording) /\ old \o a \in Seq(Recording)
    BY <1>1, <2>1, JobRecordingsType
  <2>3. RecordedBy(in, k) = a \o b
    BY RecordedByFacts
  <2>4. ArchiveAfter(in, k) = LastOf(old \o (a \o b), S) /\ ArchiveAfter(in, k - 1) = LastOf(old \o a, S)
    BY <2>3 DEF ArchiveAfter, old, S
  <2> HIDE DEF a, b
  <2>5. (old \o a) \o b = old \o (a \o b)
    BY <1>0, <2>2, ConcatAssociative
  <2>6. LastOf(LastOf(old \o a, S) \o b, S) = LastOf((old \o a) \o b, S)
    BY <1>0, <2>2, LastOfConcat
  <2> QED BY <2>4, <2>5, <2>6 DEF b
<1> QED BY <1>1, <1>2, <1>3 DEF old, S

-----------------------------------------------------------------------------
(* mergeArchiveMap *)

(* What is skipped of an archive is its start. *)
LEMMA SkipKeepsLast ==
    ASSUME NEW E, NEW b \in Seq(E), NEW r \in Nat, r <= Len(b)
    PROVE  SubSeq(b, (Len(b) - r) + 1, Len(b)) = LastOf(b, r)
<1>1. Len(b) \in Nat
  BY LenProperties
<1>2. CASE Len(b) <= r
  <2>1. (Len(b) - r) + 1 = 1
    BY <1>1, <1>2
  <2> QED BY <1>2, <2>1, SubSeqFull DEF LastOf
<1>3. CASE ~ (Len(b) <= r)
  <2>1. (Len(b) - r) + 1 = Len(b) - r + 1
    BY <1>1
  <2> QED BY <1>3 DEF LastOf
<1> QED BY <1>2, <1>3

(* The end of the archive does not depend on what was before the first recordings kept, ... *)
LEMMA MergeFirst ==
    ASSUME NEW E, NEW a \in Seq(E), NEW c \in Seq(E), NEW b \in Seq(E),
           NEW n \in Nat, NEW r \in Nat, r <= n, r <= Len(b)
    PROVE  LastOf(LastOf(a \o LastOf(b, r), n), r) = LastOf(LastOf(c \o b, n), r)
<1> DEFINE t == LastOf(b, r)
<1>1. t \in Seq(E) /\ Len(t) = (IF Len(b) <= r THEN Len(b) ELSE r) /\ Len(b) \in Nat
  BY LastOfProperties, LenProperties
<1>2. LastOf(t, r) = t
  BY LastOfLast
<1> HIDE DEF t
<1>3. r <= Len(t)
  BY <1>1
<1>4. a \o t \in Seq(E) /\ c \o b \in Seq(E)
  BY <1>1, ConcatProperties
<1>5. LastOf(LastOf(a \o t, n), r) = LastOf(a \o t, r)
  BY <1>4, LastOfLast
<1>6. LastOf(LastOf(c \o b, n), r) = LastOf(c \o b, r)
  BY <1>4, LastOfLast
<1>7. LastOf(a \o t, r) = LastOf(t, r)
  BY <1>1, <1>3, LastOfSecond
<1>8. LastOf(c \o b, r) = t
  BY LastOfSecond DEF t
<1> QED BY <1>2, <1>5, <1>6, <1>7, <1>8 DEF t

(* ... and the archives inserted after them lengthen it. *)
LEMMA MergeStep ==
    ASSUME NEW E, NEW a \in Seq(E), NEW c \in Seq(E), NEW b \in Seq(E),
           NEW n \in Nat, NEW r \in Nat, r + Len(b) <= n, LastOf(a, r) = LastOf(c, r)
    PROVE  LastOf(LastOf(a \o b, n), r + Len(b)) = LastOf(LastOf(c \o b, n), r + Len(b))
<1>1. Len(b) \in Nat /\ r + Len(b) \in Nat
  BY LenProperties
<1>2. a \o b \in Seq(E) /\ c \o b \in Seq(E)
  BY ConcatProperties
<1>3. LastOf(LastOf(a \o b, n), r + Len(b)) = LastOf(a \o b, r + Len(b))
  BY <1>1, <1>2, LastOfLast
<1>4. LastOf(LastOf(c \o b, n), r + Len(b)) = LastOf(c \o b, r + Len(b))
  BY <1>1, <1>2, LastOfLast
<1>5. LastOf(a \o b, r + Len(b)) = LastOf(a, r) \o b /\ LastOf(c \o b, r + Len(b)) = LastOf(c, r) \o b
  BY LastOfBoth
<1> QED BY <1>3, <1>4, <1>5

(* The scan backward counts the recordings of the archives it has passed. *)
LEMMA RecordingsAfterFacts ==
    ASSUME NEW m, \A k \in Job : k \in DOMAIN m => m[k] \in Seq(Recording)
    PROVE  /\ \A k \in 0 .. NbJobs : RecordingsAfter(m, k) \in Nat
           /\ RecordingsAfter(m, NbJobs) = 0
           /\ \A k \in 1 .. NbJobs :
                 RecordingsAfter(m, k - 1)
                    = RecordingsAfter(m, k) + (IF k \in DOMAIN m THEN Len(m[k]) ELSE 0)
<1> DEFINE size == [j \in 1 .. NbJobs |-> IF j \in DOMAIN m THEN Len(m[j]) ELSE 0]
           scanned == CHOOSE f : f = [n \in 0 .. NbJobs |->
               IF n = 0 THEN 0
               ELSE f[n - 1] + (IF (NbJobs - n + 1) \in DOMAIN m THEN Len(m[NbJobs - n + 1]) ELSE 0)]
           H == [n \in 1 .. NbJobs |-> [x \in Nat |-> x + size[NbJobs - n + 1]]]
<1>1. NbJobs \in Nat
  BY EvaluationAssumption
<1>2. size \in [1 .. NbJobs -> Nat]
  <2>1. ASSUME NEW j \in 1 .. NbJobs PROVE size[j] \in Nat
    <3>1. j \in DOMAIN m => Len(m[j]) \in Nat
      BY LenProperties DEF Job
    <3> QED BY <3>1
  <2> QED BY <2>1
<1>3. \A n \in 1 .. NbJobs : NbJobs - n + 1 \in 1 .. NbJobs /\ n - 1 \in 0 .. NbJobs /\ n \in 0 .. NbJobs
  BY <1>1
<1>4. \A n \in 1 .. NbJobs :
         size[NbJobs - n + 1] = IF (NbJobs - n + 1) \in DOMAIN m THEN Len(m[NbJobs - n + 1]) ELSE 0
  BY <1>3
<1> HIDE DEF size
<1>5. H \in [1 .. NbJobs -> [Nat -> Nat]]
  <2>1. \A n \in 1 .. NbJobs, x \in Nat : x + size[NbJobs - n + 1] \in Nat
    BY <1>2, <1>3
  <2> QED BY <2>1
<1> HIDE DEF H
<1>6. PICK f \in [0 .. NbJobs -> Nat] : IsRecursion(f, NbJobs, 0, H)
  <2>1. 0 \in Nat
    OBVIOUS
  <2> QED BY <1>1, <1>5, <2>1, RecursionExists
<1>7. ASSUME NEW n \in 0 .. NbJobs
      PROVE  f[n] = IF n = 0 THEN 0
                    ELSE f[n - 1] + (IF (NbJobs - n + 1) \in DOMAIN m THEN Len(m[NbJobs - n + 1]) ELSE 0)
  <2>1. f[n] = IF n = 0 THEN 0 ELSE H[n][f[n - 1]]
    BY <1>6 DEF IsRecursion
  <2>2. CASE n # 0
    <3>1. n \in 1 .. NbJobs
      BY <1>1, <2>2
    <3>2. f[n - 1] \in Nat
      BY <1>3, <3>1
    <3>3. H[n][f[n - 1]] = f[n - 1] + size[NbJobs - n + 1]
      BY <3>1, <3>2 DEF H
    <3> QED BY <1>4, <2>1, <2>2, <3>1, <3>3
  <2> QED BY <2>1, <2>2
<1>8. f = [n \in 0 .. NbJobs |->
              IF n = 0 THEN 0
              ELSE f[n - 1] + (IF (NbJobs - n + 1) \in DOMAIN m THEN Len(m[NbJobs - n + 1]) ELSE 0)]
  BY <1>7
<1>9. scanned = [n \in 0 .. NbJobs |->
              IF n = 0 THEN 0
              ELSE scanned[n - 1] + (IF (NbJobs - n + 1) \in DOMAIN m THEN Len(m[NbJobs - n + 1]) ELSE 0)]
  BY <1>8
<1>10. \A k : RecordingsAfter(m, k) = scanned[NbJobs - k]
  BY DEF RecordingsAfter
<1> HIDE DEF scanned
<1>11. scanned[0] = 0 /\ \A n \in 1 .. NbJobs : scanned[n] = scanned[n - 1] + size[NbJobs - n + 1]
  <2>1. scanned[0] = 0
    BY <1>1, <1>9
  <2>2. ASSUME NEW n \in 1 .. NbJobs PROVE scanned[n] = scanned[n - 1] + size[NbJobs - n + 1]
    <3>1. n \in 0 .. NbJobs /\ n # 0
      BY <1>1
    <3> QED BY <1>4, <1>9, <3>1
  <2> QED BY <2>1, <2>2
<1> DEFINE T == {n \in 0 .. NbJobs : scanned[n] \notin Nat}
<1>12. T = {}
  <2>1. T \in SUBSET (0 .. NbJobs)
    OBVIOUS
  <2>2. 0 \notin T
    BY <1>11
  <2>3. ASSUME NEW n \in 1 .. NbJobs, n \in T PROVE n - 1 \in T
    BY <1>2, <1>3, <1>11, <2>3
  <2> HIDE DEF T
  <2> QED BY <1>1, <2>1, <2>2, <2>3, NoFirstFailure
<1>13. ASSUME NEW k \in 0 .. NbJobs PROVE RecordingsAfter(m, k) \in Nat
  <2>1. NbJobs - k \in 0 .. NbJobs
    BY <1>1
  <2> QED BY <1>10, <1>12, <2>1
<1>14. RecordingsAfter(m, NbJobs) = 0
  <2>1. NbJobs - NbJobs = 0
    BY <1>1
  <2> QED BY <1>10, <1>11, <2>1
<1>15. ASSUME NEW k \in 1 .. NbJobs
       PROVE  RecordingsAfter(m, k - 1)
                 = RecordingsAfter(m, k) + (IF k \in DOMAIN m THEN Len(m[k]) ELSE 0)
  <2> DEFINE n == NbJobs - (k - 1)
  <2>1. n \in 1 .. NbJobs /\ n - 1 = NbJobs - k /\ NbJobs - n + 1 = k
    BY <1>1
  <2>2. RecordingsAfter(m, k - 1) = scanned[n] /\ RecordingsAfter(m, k) = scanned[NbJobs - k]
    BY <1>10
  <2>3. scanned[n] = scanned[n - 1] + size[NbJobs - n + 1]
    BY <1>11, <2>1
  <2>4. size[k] = IF k \in DOMAIN m THEN Len(m[k]) ELSE 0
    BY DEF size
  <2> HIDE DEF n
  <2> QED BY <2>1, <2>2, <2>3, <2>4
<1> QED BY <1>13, <1>14, <1>15

(* The archives are inserted one by one. *)
IsMerged(g, old, m) ==
    /\ \A k \in 0 .. NbJobs : g[k] \in Seq(Recording)
    /\ g[0] = old
    /\ \A k \in 1 .. NbJobs : g[k] = LastOf(g[k - 1] \o Inserted(m, k), ArchiveSize)
    /\ MergeArchiveMap(old, m) = g[NbJobs]

LEMMA MergedExists ==
    ASSUME NEW old \in Seq(Recording), NEW m, \A k \in Job : Inserted(m, k) \in Seq(Recording)
    PROVE  \E g : IsMerged(g, old, m)
<1> DEFINE X == Seq(Recording)
           g == CHOOSE f : f = [k \in 0 .. NbJobs |->
                                   IF k = 0 THEN old ELSE RecordAll(f[k - 1], Inserted(m, k))]
           H == [k \in 1 .. NbJobs |-> [x \in X |-> RecordAll(x, Inserted(m, k))]]
<1>1. NbJobs \in Nat /\ ArchiveSize \in Nat
  BY EvaluationAssumption
<1>2. ASSUME NEW k \in 1 .. NbJobs, NEW x \in X PROVE RecordAll(x, Inserted(m, k)) \in X
  <2>1. Inserted(m, k) \in X
    BY DEF Job
  <2>2. x \o Inserted(m, k) \in X
    BY <2>1, ConcatProperties
  <2> QED BY <1>1, <2>2, LastOfProperties DEF RecordAll
<1>3. H \in [1 .. NbJobs -> [X -> X]]
  <2> HIDE DEF X
  <2> QED BY <1>2
<1> HIDE DEF X, H
<1>4. PICK f \in [0 .. NbJobs -> X] : IsRecursion(f, NbJobs, old, H)
  <2>1. old \in X
    BY DEF X
  <2> QED BY <1>1, <1>3, <2>1, RecursionExists
<1>5. ASSUME NEW k \in 0 .. NbJobs
      PROVE  f[k] = IF k = 0 THEN old ELSE RecordAll(f[k - 1], Inserted(m, k))
  <2>1. f[k] = IF k = 0 THEN old ELSE H[k][f[k - 1]]
    BY <1>4 DEF IsRecursion
  <2>2. CASE k # 0
    <3>1. k \in 1 .. NbJobs /\ k - 1 \in 0 .. NbJobs
      BY <1>1, <2>2
    <3>2. f[k - 1] \in X
      BY <3>1
    <3>3. H[k][f[k - 1]] = RecordAll(f[k - 1], Inserted(m, k))
      BY <3>1, <3>2 DEF H
    <3> QED BY <2>1, <2>2, <3>3
  <2> QED BY <2>1, <2>2
<1>6. f = [k \in 0 .. NbJobs |-> IF k = 0 THEN old ELSE RecordAll(f[k - 1], Inserted(m, k))]
  BY <1>5
<1>7. g = [k \in 0 .. NbJobs |-> IF k = 0 THEN old ELSE RecordAll(g[k - 1], Inserted(m, k))]
  BY <1>6
<1>8. MergeArchiveMap(old, m) = g[NbJobs]
  BY DEF MergeArchiveMap
<1> HIDE DEF g
<1>9. ASSUME NEW k \in 0 .. NbJobs
      PROVE  g[k] = IF k = 0 THEN old ELSE RecordAll(g[k - 1], Inserted(m, k))
  BY <1>7
<1> DEFINE T == {k \in 0 .. NbJobs : g[k] \notin X}
<1>10. T = {}
  <2>1. T \in SUBSET (0 .. NbJobs)
    OBVIOUS
  <2>2. 0 \notin T
    BY <1>1, <1>9 DEF X
  <2>3. ASSUME NEW k \in 1 .. NbJobs, k \in T PROVE k - 1 \in T
    <3>1. k \in 0 .. NbJobs /\ k - 1 \in 0 .. NbJobs /\ k # 0
      BY <1>1
    <3> QED BY <1>2, <1>9, <2>3, <3>1
  <2> HIDE DEF T
  <2> QED BY <1>1, <2>1, <2>2, <2>3, NoFirstFailure
<1>11. \A k \in 0 .. NbJobs : g[k] \in Seq(Recording)
  BY <1>10 DEF X
<1>12. g[0] = old
  BY <1>1, <1>9
<1>13. \A k \in 1 .. NbJobs : g[k] = LastOf(g[k - 1] \o Inserted(m, k), ArchiveSize)
  <2>1. \A k \in 1 .. NbJobs : k \in 0 .. NbJobs /\ k # 0
    BY <1>1
  <2> QED BY <1>9, <2>1 DEF RecordAll
<1>14. IsMerged(g, old, m)
  BY <1>8, <1>11, <1>12, <1>13 DEF IsMerged
<1> QED BY <1>14

(* Nothing recorded, nothing changed *)
LEMMA RecordsNothing ==
    ASSUME NEW E, NEW a \in Seq(E), NEW n \in Nat, Len(a) <= n
    PROVE  LastOf(a \o <<>>, n) = a
BY ConcatEmptySeq DEF LastOf

(* In a validation there is no archive to merge. *)
LEMMA MergeNothing ==
    ASSUME NEW m, DOMAIN m = {}, NEW old \in Seq(Recording), Len(old) <= ArchiveSize
    PROVE  MergeArchiveMap(old, m) = old
<1>1. NbJobs \in Nat /\ ArchiveSize \in Nat
  BY EvaluationAssumption
<1>2. \A k : Inserted(m, k) = <<>>
  BY DEF Inserted, Taken
<1>3. \A k \in Job : Inserted(m, k) \in Seq(Recording)
  BY <1>2, EmptySeq
<1>4. PICK g : IsMerged(g, old, m)
  BY <1>3, MergedExists
<1> DEFINE T == {k \in 0 .. NbJobs : g[k] # old}
<1>5. T = {}
  <2>1. T \in SUBSET (0 .. NbJobs) /\ 0 \notin T
    BY <1>4 DEF IsMerged
  <2>2. ASSUME NEW k \in 1 .. NbJobs, k \in T PROVE k - 1 \in T
    <3>1. k - 1 \in 0 .. NbJobs
      BY <1>1
    <3>2. g[k] = LastOf(g[k - 1] \o <<>>, ArchiveSize)
      <4>1. g[k] = LastOf(g[k - 1] \o Inserted(m, k), ArchiveSize)
        BY <1>4 DEF IsMerged
      <4>2. Inserted(m, k) = <<>>
        BY <1>2
      <4> QED BY <4>1, <4>2
    <3>3. LastOf(old \o <<>>, ArchiveSize) = old
      BY <1>1, RecordsNothing
    <3> QED BY <2>2, <3>1, <3>2, <3>3
  <2> HIDE DEF T
  <2> QED BY <1>1, <2>1, <2>2, NoFirstFailure
<1>6. NbJobs \in 0 .. NbJobs
  BY <1>1
<1> QED BY <1>4, <1>5, <1>6 DEF IsMerged

(* The map that the threads leave in training: of each job, what an archive of its own keeps *)
IsArchiveMap(in, m) ==
    /\ DOMAIN m = Job
    /\ \A k \in Job : m[k] = LastOf(JobRecordings(in, k), ArchiveSize)

LEMMA ArchiveMapFacts ==
    ASSUME NEW in \in Inputs, NEW m, IsArchiveMap(in, m)
    PROVE  /\ \A k \in Job : /\ m[k] \in Seq(Recording) /\ Len(m[k]) \in Nat
                             /\ Inserted(m, k) \in Seq(Recording)
           /\ \A k \in 1 .. NbJobs :
                 ArchiveAfter(in, k) = LastOf(ArchiveAfter(in, k - 1) \o m[k], ArchiveSize)
           /\ \A k \in 0 .. NbJobs : RecordingsAfter(m, k) \in Nat
           /\ RecordingsAfter(m, NbJobs) = 0
           /\ \A k \in 1 .. NbJobs : RecordingsAfter(m, k - 1) = RecordingsAfter(m, k) + Len(m[k])
<1>0. ArchiveSize \in Nat /\ NbJobs \in Nat
  BY EvaluationAssumption
<1>1. ASSUME NEW k \in Job
      PROVE  /\ JobRecordings(in, k) \in Seq(Recording)
             /\ m[k] \in Seq(Recording) /\ Len(m[k]) \in Nat
  <2>1. k \in Nat
    BY DEF Job
  <2>2. JobRecordings(in, k) \in Seq(Recording)
    BY <2>1, JobRecordingsType
  <2>3. m[k] = LastOf(JobRecordings(in, k), ArchiveSize)
    BY DEF IsArchiveMap
  <2>4. m[k] \in Seq(Recording)
    BY <1>0, <2>2, <2>3, LastOfProperties
  <2> QED BY <2>2, <2>4, LenProperties
<1>2. /\ \A k \in 0 .. NbJobs : RecordingsAfter(m, k) \in Nat
      /\ RecordingsAfter(m, NbJobs) = 0
      /\ \A k \in 1 .. NbJobs : RecordingsAfter(m, k - 1)
            = RecordingsAfter(m, k) + (IF k \in DOMAIN m THEN Len(m[k]) ELSE 0)
  BY <1>1, RecordingsAfterFacts
<1>3. \A k \in 1 .. NbJobs : RecordingsAfter(m, k - 1) = RecordingsAfter(m, k) + Len(m[k])
  BY <1>2 DEF IsArchiveMap, Job
<1>4. ASSUME NEW k \in Job PROVE Inserted(m, k) \in Seq(Recording)
  <2>1. CASE k \notin Taken(m)
    BY <2>1, EmptySeq DEF Inserted
  <2>2. CASE k \in Taken(m) /\ k # Min(Taken(m))
    BY <1>1, <2>2 DEF Inserted
  <2>3. CASE k \in Taken(m) /\ k = Min(Taken(m))
    <3> DEFINE x == Excess(m)
    <3>1. x \in Nat
      <4> DEFINE total == RecordingsAfter(m, Min(Taken(m)) - 1)
      <4>1. k - 1 \in 0 .. NbJobs
        BY <1>0 DEF Job
      <4>2. total \in Nat
        BY <1>2, <2>3, <4>1
      <4>3. x = IF total > ArchiveSize THEN total - ArchiveSize ELSE 0
        BY DEF Excess
      <4> HIDE DEF x, total
      <4> QED BY <1>0, <4>2, <4>3
    <3>2. Inserted(m, k) = SubSeq(m[k], x + 1, Len(m[k]))
      BY <2>3 DEF Inserted
    <3> HIDE DEF x
    <3>3. \A i \in x + 1 .. Len(m[k]) : m[k][i] \in Recording
      <4>1. \A i \in x + 1 .. Len(m[k]) : i \in 1 .. Len(m[k])
        BY <1>1, <3>1
      <4> QED BY <1>1, <4>1, ElementOfSeq
    <3>4. x + 1 \in Int /\ Len(m[k]) \in Int
      BY <1>1, <3>1
    <3>5. SubSeq(m[k], x + 1, Len(m[k])) \in Seq(Recording)
      BY <3>3, <3>4, SubSeqProperties
    <3> QED BY <3>2, <3>5
  <2> QED BY <2>1, <2>2, <2>3
<1>5. ASSUME NEW k \in 1 .. NbJobs
      PROVE  ArchiveAfter(in, k) = LastOf(ArchiveAfter(in, k - 1) \o m[k], ArchiveSize)
  <2>1. k \in Job /\ k - 1 \in 0 .. NbJobs
    BY <1>0 DEF Job
  <2>2. ArchiveAfter(in, k - 1) \in Seq(Recording)
    BY <2>1, ArchiveAfterFacts
  <2>3. ArchiveAfter(in, k) = LastOf(ArchiveAfter(in, k - 1) \o JobRecordings(in, k), ArchiveSize)
    BY ArchiveAfterFacts
  <2>4. m[k] = LastOf(JobRecordings(in, k), ArchiveSize)
    BY <2>1 DEF IsArchiveMap
  <2> DEFINE a == ArchiveAfter(in, k - 1)
             b == JobRecordings(in, k)
  <2>5. a \in Seq(Recording) /\ b \in Seq(Recording)
    BY <1>1, <2>1, <2>2
  <2> HIDE DEF a, b
  <2>6. LastOf(a \o LastOf(b, ArchiveSize), ArchiveSize) = LastOf(a \o b, ArchiveSize)
    BY <1>0, <2>5, LastOfConcat
  <2> QED BY <2>3, <2>4, <2>6 DEF a, b
<1> QED BY <1>1, <1>2, <1>3, <1>4, <1>5

(* The first archive taken *)
LEMMA FirstTaken ==
    ASSUME NEW m, DOMAIN m = Job, Taken(m) # {}
    PROVE  /\ Min(Taken(m)) \in 1 .. NbJobs
           /\ RecordingsAfter(m, Min(Taken(m))) < ArchiveSize
           /\ \A k \in 1 .. NbJobs :
                 RecordingsAfter(m, k) < ArchiveSize => k \in Taken(m) /\ Min(Taken(m)) <= k
<1>1. Taken(m) \in SUBSET Nat
  BY DEF Taken, Job
<1>2. PICK x \in Taken(m) : \A y \in Taken(m) : x <= y
  BY <1>1, LeastNatural
<1>3. Min(Taken(m)) \in Taken(m) /\ \A y \in Taken(m) : Min(Taken(m)) <= y
  BY <1>2 DEF Min
<1>4. \A k \in 1 .. NbJobs : RecordingsAfter(m, k) < ArchiveSize => k \in Taken(m)
  BY DEF Taken, Job
<1>5. Min(Taken(m)) \in 1 .. NbJobs /\ RecordingsAfter(m, Min(Taken(m))) < ArchiveSize
  BY <1>3 DEF Taken, Job
<1> QED BY <1>3, <1>4, <1>5

(* What is inserted of the first archive taken: its end, that fills the archive with the
   recordings after it; or all of it, and then there is no archive before. *)
LEMMA InsertedFirst ==
    ASSUME NEW in \in Inputs, NEW m, IsArchiveMap(in, m), Taken(m) # {},
           NEW first, first = Min(Taken(m)),
           NEW r, r = ArchiveSize - RecordingsAfter(m, first)
    PROVE  /\ r \in Nat /\ r <= ArchiveSize
           /\ \/ r <= Len(m[first]) /\ Inserted(m, first) = LastOf(m[first], r)
              \/ first = 1 /\ Inserted(m, first) = m[first]
<1> DEFINE n == Len(m[first])
           total == RecordingsAfter(m, first - 1)
           after == RecordingsAfter(m, first)
<1>1. /\ first \in 1 .. NbJobs /\ after < ArchiveSize
      /\ \A k \in 1 .. NbJobs : RecordingsAfter(m, k) < ArchiveSize => k \in Taken(m) /\ first <= k
  BY FirstTaken DEF IsArchiveMap
<1>2. first \in Job /\ first \in 0 .. NbJobs /\ NbJobs \in Nat /\ ArchiveSize \in Nat /\ first \in Nat
  BY <1>1, EvaluationAssumption DEF Job
<1>3. m[first] \in Seq(Recording) /\ n \in Nat /\ after \in Nat /\ total = after + n
  BY <1>1, <1>2, ArchiveMapFacts
<1>4. r \in Nat /\ r <= ArchiveSize /\ r + after = ArchiveSize
  <2> HIDE DEF after
  <2>1. r = ArchiveSize - after
    BY DEF after
  <2> QED BY <1>1, <1>2, <1>3, <2>1
<1>5. Inserted(m, first) = SubSeq(m[first], Excess(m) + 1, Len(m[first]))
  <2>1. first \in Taken(m)
    BY <1>1
  <2> QED BY <2>1 DEF Inserted
<1>6. Excess(m) = IF total > ArchiveSize THEN total - ArchiveSize ELSE 0
  BY DEF Excess
<1> HIDE DEF n, total, after
<1>7. CASE total > ArchiveSize
  <2>1. Excess(m) = n - r /\ r <= n
    BY <1>2, <1>3, <1>4, <1>6, <1>7
  <2>2. SubSeq(m[first], (Len(m[first]) - r) + 1, Len(m[first])) = LastOf(m[first], r)
    BY <1>3, <1>4, <2>1, SkipKeepsLast DEF n
  <2> QED BY <1>4, <1>5, <2>1, <2>2 DEF n
<1>8. CASE ~ (total > ArchiveSize)
  <2>1. Excess(m) + 1 = 1
    BY <1>6, <1>8
  <2>2. Inserted(m, first) = m[first]
    BY <1>3, <1>5, <2>1, SubSeqFull
  <2>3. CASE total = ArchiveSize
    <3>1. r = n
      BY <1>2, <1>3, <1>4, <2>3
    <3>2. LastOf(m[first], r) = m[first]
      BY <1>3, <3>1 DEF LastOf, n
    <3> QED BY <1>3, <1>4, <2>2, <3>1, <3>2 DEF n
  <2>4. CASE total # ArchiveSize
    <3>1. total < ArchiveSize
      BY <1>2, <1>3, <1>8, <2>4
    <3>2. first = 1
      <4> SUFFICES ASSUME first # 1 PROVE FALSE
        OBVIOUS
      <4>1. first - 1 \in 1 .. NbJobs /\ ~ (first <= first - 1)
        BY <1>1, <1>2
      <4>2. RecordingsAfter(m, first - 1) < ArchiveSize
        BY <3>1 DEF total
      <4> QED BY <1>1, <4>1, <4>2
    <3> QED BY <1>4, <2>2, <3>2
  <2> QED BY <2>3, <2>4
<1> QED BY <1>7, <1>8

(* Inserting, of the archives of the jobs, only the end that fits leaves the archive as the
   sequential evaluation does. *)
LEMMA MergeKeepsLast ==
    ASSUME NEW in \in Inputs, NEW m, IsArchiveMap(in, m)
    PROVE  MergeArchiveMap(OldArchive(in), m) = ArchiveAfter(in, NbJobs)
<1> DEFINE old == OldArchive(in)
           n == ArchiveSize
           E(k) == ArchiveAfter(in, k)
           after(k) == RecordingsAfter(m, k)
           first == Min(Taken(m))
<1>1. /\ old \in Seq(Recording) /\ Len(old) \in Nat /\ Len(old) <= n /\ n \in Nat /\ NbJobs \in Nat
      /\ \A k \in 0 .. NbJobs : E(k) \in Seq(Recording) /\ Len(E(k)) \in Nat /\ Len(E(k)) <= n
      /\ E(0) = old
  BY OldArchiveFits, ArchiveAfterFacts, EvaluationAssumption
<1>2. /\ \A k \in 1 .. NbJobs :
            /\ m[k] \in Seq(Recording) /\ Len(m[k]) \in Nat /\ Inserted(m, k) \in Seq(Recording)
            /\ E(k) = LastOf(E(k - 1) \o m[k], n)
            /\ after(k - 1) = after(k) + Len(m[k])
      /\ \A k \in 0 .. NbJobs : after(k) \in Nat
      /\ after(NbJobs) = 0
  BY ArchiveMapFacts DEF Job
<1>3. PICK g : IsMerged(g, old, m)
  BY <1>1, <1>2, MergedExists DEF Job
<1>4. /\ \A k \in 0 .. NbJobs : g[k] \in Seq(Recording)
      /\ g[0] = old
      /\ \A k \in 1 .. NbJobs : g[k] = LastOf(g[k - 1] \o Inserted(m, k), n)
      /\ MergeArchiveMap(old, m) = g[NbJobs]
  BY <1>3 DEF IsMerged
<1>5. DOMAIN m = Job /\ \A k \in Nat : k - 1 \in 0 .. NbJobs <=> k \in 1 .. NbJobs + 1
  BY <1>1 DEF IsArchiveMap
<1> HIDE DEF old, n, E, after, first
<1>6. \A k \in 1 .. NbJobs : k \in 0 .. NbJobs /\ k - 1 \in 0 .. NbJobs
  BY <1>1
<1>7. CASE Taken(m) = {}
  <2> DEFINE T == {k \in 0 .. NbJobs : g[k] # old}
  <2>1. T = {}
    <3>1. T \in SUBSET (0 .. NbJobs) /\ 0 \notin T
      BY <1>4
    <3>2. ASSUME NEW k \in 1 .. NbJobs, k \in T PROVE k - 1 \in T
      <4>1. Inserted(m, k) = <<>>
        BY <1>7 DEF Inserted
      <4>2. g[k] = LastOf(g[k - 1] \o <<>>, n)
        BY <1>4, <4>1
      <4>3. LastOf(old \o <<>>, n) = old
        BY <1>1, RecordsNothing
      <4> QED BY <1>6, <3>2, <4>2, <4>3
    <3> HIDE DEF T
    <3> QED BY <1>1, <3>1, <3>2, NoFirstFailure
  <2>2. NbJobs \in 0 .. NbJobs
    BY <1>1
  <2>3. g[NbJobs] = old
    BY <2>1, <2>2
  <2>4. CASE NbJobs = 0
    BY <1>1, <1>4, <2>3, <2>4 DEF E, old
  <2>5. CASE NbJobs # 0
    <3>1. NbJobs \in 1 .. NbJobs
      BY <1>1, <2>5
    <3>2. ~ (after(NbJobs) < n)
      BY <1>5, <1>7, <3>1 DEF Taken, Job, after, n
    <3>3. n = 0
      BY <1>1, <1>2, <3>2
    <3>4. Len(old) = 0 /\ Len(E(NbJobs)) = 0 /\ E(NbJobs) \in Seq(Recording)
      BY <1>1, <2>2, <3>3
    <3>5. old = <<>> /\ E(NbJobs) = <<>>
      BY <1>1, <3>4, EmptySeq
    <3> QED BY <1>4, <2>3, <3>5 DEF E, old
  <2> QED BY <2>4, <2>5
<1>8. CASE Taken(m) # {}
  <2>1. /\ first \in 1 .. NbJobs /\ after(first) < n
        /\ \A k \in 1 .. NbJobs : after(k) < n => k \in Taken(m) /\ first <= k
    BY <1>5, <1>8, FirstTaken DEF first, after, n
  <2> DEFINE r(k) == n - after(k)
             Before(k) == g[k] = old
             Since(k) == after(k) < n /\ LastOf(g[k], r(k)) = LastOf(E(k), r(k))
             T == {k \in 0 .. NbJobs : ~ (IF k < first THEN Before(k) ELSE Since(k))}
  <2>2. ASSUME NEW k \in 1 .. NbJobs, k < first, Before(k - 1) PROVE Before(k)
    <3>1. k \notin Taken(m)
      <4>1. k \in Taken(m) => after(k) < n
        BY DEF Taken, after, n
      <4>2. first \in Nat /\ k \in Nat /\ ~ (first <= k)
        BY <1>1, <2>1, <2>2
      <4> QED BY <2>1, <4>1, <4>2
    <3>2. Inserted(m, k) = <<>>
      BY <3>1 DEF Inserted
    <3>3. g[k] = LastOf(old \o <<>>, n)
      BY <1>4, <2>2, <3>2
    <3> QED BY <1>1, <3>3, RecordsNothing
  <2>3. ASSUME NEW k \in 1 .. NbJobs, k = first, Before(k - 1) PROVE Since(k)
    <3>0. g[k - 1] = old /\ k \in 0 .. NbJobs /\ k - 1 \in 0 .. NbJobs
      BY <1>6, <2>3
    <3>1. /\ r(k) \in Nat /\ r(k) <= n
          /\ \/ r(k) <= Len(m[k]) /\ Inserted(m, k) = LastOf(m[k], r(k))
             \/ k = 1 /\ Inserted(m, k) = m[k]
      BY <1>8, <2>3, InsertedFirst DEF first, after, n
    <3>2. g[k] = LastOf(old \o Inserted(m, k), n) /\ E(k) = LastOf(E(k - 1) \o m[k], n)
      BY <1>2, <1>4, <3>0
    <3>3. CASE r(k) <= Len(m[k]) /\ Inserted(m, k) = LastOf(m[k], r(k))
      <4> DEFINE q == r(k)
                 b == m[k]
                 c == E(k - 1)
      <4>1. q \in Nat /\ q <= n /\ q <= Len(b) /\ b \in Seq(Recording) /\ c \in Seq(Recording)
        BY <1>1, <1>2, <3>0, <3>1, <3>3
      <4>2. g[k] = LastOf(old \o LastOf(b, q), n) /\ E(k) = LastOf(c \o b, n)
        BY <3>2, <3>3
      <4> HIDE DEF q, b, c
      <4>3. LastOf(g[k], q) = LastOf(E(k), q)
        BY <1>1, <4>1, <4>2, MergeFirst
      <4> QED BY <2>1, <2>3, <4>3 DEF q
    <3>4. CASE k = 1 /\ Inserted(m, k) = m[k]
      <4>1. E(k - 1) = old
        BY <1>1, <3>4
      <4>2. g[k] = E(k)
        BY <3>2, <3>4, <4>1
      <4> QED BY <2>1, <2>3, <4>2
    <3> QED BY <3>1, <3>3, <3>4
  <2>4. ASSUME NEW k \in 1 .. NbJobs, first < k, Since(k - 1) PROVE Since(k)
    <3> DEFINE q == r(k - 1)
               a == g[k - 1]
               b == m[k]
               c == E(k - 1)
    <3>1. k \in 0 .. NbJobs /\ k - 1 \in 0 .. NbJobs
      BY <1>6
    <3>2. /\ after(k - 1) \in Nat /\ after(k) \in Nat /\ Len(b) \in Nat
          /\ after(k - 1) = after(k) + Len(b) /\ after(k - 1) < n
      BY <1>2, <2>4, <3>1
    <3>3. q \in Nat /\ q + Len(b) = r(k) /\ q + Len(b) <= n /\ after(k) < n
      <4> HIDE DEF b
      <4> QED BY <1>1, <3>2
    <3>4. k \in Taken(m) /\ k # first
      BY <2>1, <2>4, <3>3
    <3>5. Inserted(m, k) = b
      BY <3>4 DEF Inserted, first
    <3>6. a \in Seq(Recording) /\ b \in Seq(Recording) /\ c \in Seq(Recording)
      BY <1>1, <1>2, <1>4, <3>1
    <3>7. g[k] = LastOf(a \o b, n) /\ E(k) = LastOf(c \o b, n)
      BY <1>2, <1>4, <3>5
    <3>8. LastOf(a, q) = LastOf(c, q)
      BY <2>4
    <3> HIDE DEF q, a, b, c
    <3>9. LastOf(g[k], q + Len(b)) = LastOf(E(k), q + Len(b))
      BY <1>1, <3>3, <3>6, <3>7, <3>8, MergeStep
    <3> QED BY <3>3, <3>9
  <2> HIDE DEF Before, Since
  <2>5. T = {}
    <3>1. T \in SUBSET (0 .. NbJobs)
      OBVIOUS
    <3>2. 0 \notin T
      <4>1. 0 < first
        BY <2>1
      <4>2. Before(0)
        BY <1>4 DEF Before
      <4> QED BY <4>1, <4>2
    <3>3. ASSUME NEW k \in 1 .. NbJobs, k \in T PROVE k - 1 \in T
      <4>1. k - 1 \in 0 .. NbJobs
        BY <1>6
      <4>2. CASE k < first
        <5>1. k - 1 < first
          BY <1>1, <2>1, <4>2
        <5> QED BY <2>2, <3>3, <4>1, <4>2, <5>1
      <4>3. CASE k = first
        <5>1. k - 1 < first
          BY <1>1, <2>1, <4>3
        <5> QED BY <2>3, <3>3, <4>1, <4>3, <5>1
      <4>4. CASE first < k
        <5>1. ~ (k - 1 < first) /\ ~ (k < first)
          BY <1>1, <2>1, <4>4
        <5> QED BY <2>4, <3>3, <4>1, <4>4, <5>1
      <4> QED BY <1>1, <2>1, <4>2, <4>3, <4>4
    <3> HIDE DEF T
    <3> QED BY <1>1, <3>1, <3>2, <3>3, NoFirstFailure
  <2>6. NbJobs \in 0 .. NbJobs /\ ~ (NbJobs < first)
    BY <1>1, <2>1
  <2>7. Since(NbJobs)
    BY <2>5, <2>6
  <2>8. LastOf(g[NbJobs], n) = LastOf(E(NbJobs), n)
    <3>1. r(NbJobs) = n
      BY <1>1, <1>2
    <3>2. LastOf(g[NbJobs], r(NbJobs)) = LastOf(E(NbJobs), r(NbJobs))
      BY <2>7 DEF Since
    <3> HIDE DEF r
    <3> QED BY <3>1, <3>2
  <2>9. LastOf(E(NbJobs), n) = E(NbJobs)
    BY <1>1, <2>6 DEF LastOf
  <2>10. LastOf(g[NbJobs], n) = g[NbJobs]
    <3>1. NbJobs \in 1 .. NbJobs /\ NbJobs - 1 \in 0 .. NbJobs
      BY <1>1, <2>1
    <3> DEFINE s == g[NbJobs - 1] \o Inserted(m, NbJobs)
    <3>2. s \in Seq(Recording)
      BY <1>2, <1>4, <3>1, ConcatProperties
    <3>3. g[NbJobs] = LastOf(s, n)
      BY <1>4, <3>1
    <3> HIDE DEF s
    <3> QED BY <1>1, <3>2, <3>3, LastOfLast
  <2> QED BY <1>4, <2>8, <2>9, <2>10 DEF E, old
<1> QED BY <1>7, <1>8

-----------------------------------------------------------------------------
(* The executions of a job that were offered to the archive, and those that it kept *)
KeptSoFar(in, i, n) == IF in.mode = "TRAINING" THEN KeptUpTo(in, i, n) ELSE <<>>

(* What the current job of the sequential loop has added to the archive of the agent *)
LoopArchive ==
    InSequence =>
       /\ sequentialPc \in {"root", "returned"} => archive = ArchiveAfter(input, current - 1)
       /\ sequentialPc = "reset" =>
             archive = LastOf(ArchiveAfter(input, current - 1)
                                 \o KeptSoFar(input, current, Len(sequentialScores) * EpisodeLength),
                              ArchiveSize)
       /\ sequentialPc = "act" =>
             archive = LastOf(ArchiveAfter(input, current - 1)
                                 \o KeptSoFar(input, current, Len(sequentialScores) * EpisodeLength
                                                                 + Len(sequentialEnv.trace)),
                              ArchiveSize)
       /\ sequentialPc = "emplace" => archive = ArchiveAfter(input, current)

(* What the job of a thread has put in its temporary archive *)
TemporaryOf(t) ==
    Training =>
       /\ pc[t] = "reset" =>
             temporary[t] = LastOf(KeptUpTo(input, job[t], Len(scores[t]) * EpisodeLength),
                                   ArchiveSize)
       /\ pc[t] = "act" =>
             temporary[t] = LastOf(KeptUpTo(input, job[t], Len(scores[t]) * EpisodeLength
                                                              + Len(env[t].trace)),
                                   ArchiveSize)
       /\ pc[t] \in {"storeResult", "storeArchive"} =>
             temporary[t] = LastOf(JobRecordings(input, job[t]), ArchiveSize)

(* In training the archive of a job follows its result in the maps; in a validation there is
   none. *)
StoredArchives ==
    /\ DOMAIN archiveMap \subseteq Job
    /\ \A i \in DOMAIN archiveMap : archiveMap[i] = LastOf(JobRecordings(input, i), ArchiveSize)
    /\ Training => \A i \in DOMAIN resultsPerJob :
                      i \in DOMAIN archiveMap \/ \E t \in Thread : pc[t] = "storeArchive" /\ job[t] = i
    /\ ~ Training => DOMAIN archiveMap = {} /\ \A t \in Thread : pc[t] # "storeArchive"

ThreadArchives ==
    /\ DOMAIN temporary = Thread
    /\ \A t \in Thread : TemporaryOf(t)
    /\ StoredArchives

(* The archive of the agent is left alone until the threads are joined. *)
MergedArchive ==
    ~ InSequence => archive = IF pc[Main] = "returned" THEN ArchiveAfter(input, NbJobs)
                              ELSE OldArchive(input)

ArchiveInv == input \in Inputs /\ LoopArchive /\ ThreadArchives /\ MergedArchive

-----------------------------------------------------------------------------
(* The executions of a job are numbered through its iterations. *)
LEMMA DrawNumbers ==
    ASSUME NEW l \in 0 .. NbIter - 1, NEW e \in 0 .. EpisodeLength
    PROVE  /\ l * EpisodeLength + e \in 0 .. NbDraws
           /\ l * EpisodeLength \in 0 .. NbDraws
           /\ e < EpisodeLength => l * EpisodeLength + e + 1 \in 1 .. NbDraws
           /\ (l + 1) * EpisodeLength = l * EpisodeLength + EpisodeLength
           /\ l + 1 = NbIter => l * EpisodeLength + EpisodeLength = NbDraws
           /\ 0 * EpisodeLength = 0
<1>1. NbIter \in Nat /\ EpisodeLength \in Nat /\ NbDraws = NbIter * EpisodeLength /\ l \in Nat /\ e \in Nat
  BY EvaluationAssumption DEF NbDraws
<1>2. (l + 1) * EpisodeLength = l * EpisodeLength + EpisodeLength
  BY <1>1
<1> DEFINE rest == NbIter - (l + 1)
<1>3. rest \in Nat
  BY <1>1
<1>4. rest * EpisodeLength \in Nat /\ l * EpisodeLength \in Nat /\ NbDraws \in Nat
  <2> HIDE DEF rest
  <2> QED BY <1>1, <1>3
<1>5. NbDraws = (l + 1) * EpisodeLength + rest * EpisodeLength
  <2>1. NbIter = (l + 1) + rest
    BY <1>1
  <2> HIDE DEF rest
  <2>2. ((l + 1) + rest) * EpisodeLength = (l + 1) * EpisodeLength + rest * EpisodeLength
    BY <1>1, <1>3
  <2> QED BY <1>1, <2>1, <2>2
<1>6. l + 1 = NbIter => (l + 1) * EpisodeLength = NbDraws
  BY <1>1
<1>7. 0 * EpisodeLength = 0
  BY <1>1
<1> DEFINE p == l * EpisodeLength
           q == rest * EpisodeLength
<1>8. /\ p \in Nat /\ q \in Nat /\ NbDraws = p + EpisodeLength + q
      /\ (l + 1 = NbIter => p + EpisodeLength = NbDraws)
  BY <1>2, <1>4, <1>5, <1>6
<1>9. /\ p + e \in 0 .. NbDraws /\ p \in 0 .. NbDraws
      /\ e < EpisodeLength => p + e + 1 \in 1 .. NbDraws
  <2> HIDE DEF p, q, rest
  <2> QED BY <1>1, <1>8
<1> QED BY <1>2, <1>7, <1>8, <1>9

(* addRecording of one execution *)
LEMMA RecordOne ==
    ASSUME NEW E, NEW a \in Seq(E), NEW b \in Seq(E), NEW x \in E, NEW n \in Nat
    PROVE  LastOf(Append(LastOf(a \o b, n), x), n) = LastOf(a \o Append(b, x), n)
<1> DEFINE s == a \o b
           t == LastOf(s, n)
           one == <<x>>
<1>1. s \in Seq(E) /\ one \in Seq(E)
  BY ConcatProperties
<1>2. Append(b, x) = b \o one /\ a \o (b \o one) = s \o one
  <2>1. Append(b, x) = b \o one
    BY AppendIsConcat
  <2>2. s \o one = a \o (b \o one)
    BY <1>1, ConcatAssociative
  <2> QED BY <2>1, <2>2
<1> HIDE DEF s, one
<1>3. t \in Seq(E)
  BY <1>1, LastOfProperties
<1>4. LastOf(t \o one, n) = LastOf(s \o one, n)
  BY <1>1, LastOfConcat
<1> HIDE DEF t
<1>5. Append(t, x) = t \o one
  BY <1>3, AppendIsConcat DEF one
<1> QED BY <1>2, <1>4, <1>5 DEF s, t

LEMMA RecordOneAlone ==
    ASSUME NEW E, NEW b \in Seq(E), NEW x \in E, NEW n \in Nat
    PROVE  LastOf(Append(LastOf(b, n), x), n) = LastOf(Append(b, x), n)
<1> DEFINE none == <<>>
<1>1. none \in Seq(E)
  BY EmptySeq
<1>2. Append(b, x) \in Seq(E)
  BY AppendProperties
<1>3. none \o b = b /\ none \o Append(b, x) = Append(b, x)
  BY <1>2, ConcatEmptySeq
<1> HIDE DEF none
<1>4. LastOf(Append(LastOf(none \o b, n), x), n) = LastOf(none \o Append(b, x), n)
  BY <1>1, RecordOne
<1> QED BY <1>3, <1>4

LEMMA LastOfNothing == ASSUME NEW n \in Nat PROVE LastOf(<<>>, n) = <<>>
<1>1. Len(<<>>) = 0
  BY EmptySeq
<1> QED BY <1>1 DEF LastOf

(* What a job has recorded when it ends *)
LEMMA JobRecordingsAre ==
    ASSUME NEW in \in Inputs, NEW i
    PROVE  /\ in.mode = "TRAINING" /\ i \in in.skipped => JobRecordings(in, i) = <<>>
           /\ ~ (in.mode = "TRAINING" /\ i \in in.skipped) =>
                 JobRecordings(in, i) = KeptSoFar(in, i, NbDraws)
<1>1. in.mode \in {"TRAINING", "VALIDATION"}
  BY EvaluationAssumption DEF InputType
<1> QED BY <1>1 DEF JobRecordings, KeptSoFar, NbDraws

-----------------------------------------------------------------------------
(* The sequential loop *)

(* One more execution of the current job *)
LEMMA KeptSoFarStep ==
    ASSUME NEW in, NEW i \in Nat, NEW n \in 0 .. NbDraws, n + 1 \in 1 .. NbDraws
    PROVE  /\ KeptSoFar(in, i, n) \in Seq(Recording)
           /\ KeptSoFar(in, i, n + 1) =
                 IF in.mode = "TRAINING" /\ n + 1 \in in.kept[i]
                 THEN Append(KeptSoFar(in, i, n), <<i, n + 1>>) ELSE KeptSoFar(in, i, n)
           /\ <<i, n + 1>> \in Recording
<1>1. KeptUpTo(in, i, n) \in Seq(Recording)
  BY KeptFacts
<1>2. <<>> \in Seq(Recording)
  BY EmptySeq
<1>3. KeptUpTo(in, i, n + 1) = IF n + 1 \in in.kept[i]
                               THEN Append(KeptUpTo(in, i, (n + 1) - 1), <<i, n + 1>>)
                               ELSE KeptUpTo(in, i, (n + 1) - 1)
  BY KeptFacts
<1>4. (n + 1) - 1 = n
  BY DrawsAreNatural
<1>5. <<i, n + 1>> \in Recording
  BY DrawsAreNatural DEF Recording
<1> QED BY <1>1, <1>2, <1>3, <1>4, <1>5 DEF KeptSoFar

LEMMA LoopArchiveSteps ==
    ASSUME AgentInv, ArchiveInv, InSequence, UNCHANGED <<input, copyable>>,
           \/ OneByOne!StartRoot \/ OneByOne!ResetEnvironment \/ OneByOne!Act \/ OneByOne!GetScore
           \/ OneByOne!EmplaceResult \/ OneByOne!Return
    PROVE  LoopArchive'
<1> DEFINE S == ArchiveSize
           before == ArchiveAfter(input, current - 1)
           l == Len(sequentialScores)
           e == Len(sequentialEnv.trace)
<1>1. /\ InSequence' /\ OneByOne!Training = Training /\ Training = (input.mode = "TRAINING")
      /\ input' = input
  BY DEF InSequence, Training, OneByOne!Training
<1>2. /\ NbJobs \in Nat /\ EpisodeLength \in Nat /\ NbIter \in Nat \ {0} /\ S \in Nat
      /\ input \in Inputs /\ current \in 1 .. NbJobs + 1
  BY EvaluationAssumption DEF AgentInv, LoopInv, ArchiveInv
<1>3. /\ current \in Nat /\ current - 1 \in 0 .. NbJobs
      /\ before \in Seq(Recording) /\ Len(before) <= S
  <2>1. current \in Nat /\ current - 1 \in 0 .. NbJobs
    BY <1>2
  <2> QED BY <1>2, <2>1, ArchiveAfterFacts
<1>4. current <= NbJobs =>
         ArchiveAfter(input, current) = LastOf(before \o JobRecordings(input, current), S)
  <2>1. current <= NbJobs => current \in 1 .. NbJobs
    BY <1>2
  <2> QED BY <1>2, <2>1, ArchiveAfterFacts
<1>5. CurrentWork /\ LoopInv /\ LoopArchive
  BY DEF AgentInv, LoopInv, ArchiveInv
<1>6. LastOf(before \o <<>>, S) = before
  BY <1>2, <1>3, RecordsNothing
<1> HIDE DEF before, S
<1>7. CASE OneByOne!StartRoot
  <2> DEFINE skips == Training /\ current \in input.skipped
  <2>1. /\ sequentialPc = "root" /\ current <= NbJobs
        /\ sequentialPc' = IF skips THEN "emplace" ELSE "reset"
        /\ sequentialScores' = <<>> /\ UNCHANGED <<archive, current>>
    BY <1>1, <1>7 DEF OneByOne!StartRoot
  <2>2. archive = before
    BY <1>5, <2>1 DEF LoopArchive, before
  <2>3. CASE skips
    <3>1. JobRecordings(input, current) = <<>>
      BY <1>1, <1>2, <2>3, JobRecordingsAre
    <3>2. archive' = ArchiveAfter(input, current)
      BY <1>4, <1>6, <2>1, <2>2, <3>1
    <3> QED BY <1>1, <2>1, <2>3, <3>2 DEF LoopArchive
  <2>4. CASE ~ skips
    <3>1. Len(sequentialScores') * EpisodeLength = 0
      BY <1>2, <2>1, EmptySeq
    <3>2. KeptSoFar(input, current, 0) = <<>>
      BY <1>3, KeptFacts DEF KeptSoFar
    <3>3. archive' = LastOf(before \o KeptSoFar(input, current, Len(sequentialScores') * EpisodeLength), S)
      <4> DEFINE n == Len(sequentialScores') * EpisodeLength
      <4>1. n = 0
        BY <3>1
      <4> HIDE DEF n
      <4>2. KeptSoFar(input, current, n) = <<>>
        BY <3>2, <4>1
      <4>3. archive' = before
        BY <2>1, <2>2
      <4>4. archive' = LastOf(before \o KeptSoFar(input, current, n), S)
        BY <1>6, <4>2, <4>3
      <4> QED BY <4>4 DEF n
    <3> QED BY <1>1, <2>1, <2>4, <3>3 DEF LoopArchive, before, S
  <2> QED BY <2>3, <2>4
<1>8. CASE OneByOne!ResetEnvironment
  <2>1. /\ sequentialPc = "reset" /\ sequentialPc' = "act"
        /\ sequentialEnv' = [iter |-> Len(sequentialScores) + 1, trace |-> <<>>]
        /\ UNCHANGED <<archive, current, sequentialScores>>
    BY <1>8 DEF OneByOne!ResetEnvironment, OneByOne!ResetStep, OneByOne!ResetFor
  <2>2. Len(sequentialEnv'.trace) = 0
    BY <2>1, EmptySeq
  <2>3. l \in 0 .. NbIter - 1 /\ 0 \in 0 .. EpisodeLength
    BY <1>2, <1>5, <2>1 DEF CurrentWork
  <2> HIDE DEF l
  <2>4. l * EpisodeLength + 0 = l * EpisodeLength
    <3>1. l * EpisodeLength \in 0 .. NbDraws
      BY <2>3, DrawNumbers
    <3> QED BY <3>1, DrawsAreNatural
  <2>5. archive = LastOf(before \o KeptSoFar(input, current, l * EpisodeLength), S)
    BY <1>5, <2>1 DEF LoopArchive, before, S, l
  <2>6. l' = l
    BY <2>1 DEF l
  <2>7. Len(sequentialScores') * EpisodeLength + Len(sequentialEnv'.trace) = l * EpisodeLength
    BY <2>2, <2>4, <2>6 DEF l
  <2> QED BY <1>1, <2>1, <2>5, <2>7 DEF LoopArchive, before, S
<1>9. CASE OneByOne!Act
  <2> DEFINE n == l * EpisodeLength + e
             b == KeptSoFar(input, current, n)
             x == <<current, n + 1>>
  <2>1. /\ sequentialPc = "act" /\ sequentialPc' = "act" /\ e < EpisodeLength
        /\ sequentialEnv' = [sequentialEnv EXCEPT !.trace = Append(sequentialEnv.trace, current)]
        /\ UNCHANGED <<current, sequentialScores>>
        /\ archive' = IF Training /\ n + 1 \in input.kept[current]
                      THEN LastOf(Append(archive, x), S) ELSE archive
    BY <1>1, <1>9 DEF OneByOne!Act, OneByOne!DoAction, OneByOne!RecordIn, OneByOne!LastOf, LastOf, S
  <2>2. /\ l \in 0 .. NbIter - 1 /\ e \in 0 .. EpisodeLength
        /\ sequentialEnv.trace = TraceUpTo(current, e)
    <3>1. sequentialEnv = [iter |-> Len(sequentialScores) + 1, trace |-> TraceUpTo(current, Len(sequentialEnv.trace))]
      BY <1>5, <2>1 DEF CurrentWork
    <3> QED BY <1>5, <2>1, <3>1 DEF CurrentWork
  <2>3. Len(sequentialEnv'.trace) = e + 1
    <3>1. e \in Nat
      BY <1>2, <2>2
    <3>2. Append(TraceUpTo(current, e), current) = TraceUpTo(current, e + 1) /\ Len(TraceUpTo(current, e + 1)) = e + 1
      <4> HIDE DEF e
      <4>1. e + 1 \in Nat
        BY <3>1
      <4> QED BY <3>1, <4>1, OneMore
    <3>3. sequentialEnv'.trace = Append(sequentialEnv.trace, current)
      <4>1. sequentialEnv = [iter |-> Len(sequentialScores) + 1, trace |-> TraceUpTo(current, Len(sequentialEnv.trace))]
        BY <1>5, <2>1 DEF CurrentWork
      <4> QED BY <2>1, <4>1
    <3> QED BY <2>2, <3>2, <3>3
  <2> HIDE DEF l, e
  <2>4. n \in 0 .. NbDraws /\ n + 1 \in 1 .. NbDraws /\ l * EpisodeLength + (e + 1) = n + 1
    <3>1. /\ l * EpisodeLength + e \in 0 .. NbDraws
          /\ l * EpisodeLength + e + 1 \in 1 .. NbDraws
          /\ l * EpisodeLength \in 0 .. NbDraws
      BY <2>1, <2>2, DrawNumbers
    <3> DEFINE p == l * EpisodeLength
    <3>2. p \in Nat /\ e \in Nat
      BY <1>2, <2>2, <3>1, DrawsAreNatural
    <3> HIDE DEF p
    <3>3. p + (e + 1) = p + e + 1
      BY <3>2
    <3> QED BY <3>1, <3>3 DEF p
  <2>5. archive = LastOf(before \o b, S)
    BY <1>5, <2>1 DEF LoopArchive, before, S, l, e
  <2> HIDE DEF n
  <2>6. /\ b \in Seq(Recording) /\ x \in Recording
        /\ KeptSoFar(input, current, n + 1) =
              IF Training /\ n + 1 \in input.kept[current] THEN Append(b, x) ELSE b
    BY <1>1, <1>3, <2>4, KeptSoFarStep
  <2> HIDE DEF b, x
  <2>7. archive' = LastOf(before \o KeptSoFar(input, current, n + 1), S)
    <3>1. LastOf(Append(LastOf(before \o b, S), x), S) = LastOf(before \o Append(b, x), S)
      BY <1>2, <1>3, <2>6, RecordOne
    <3> QED BY <2>1, <2>5, <2>6, <3>1
  <2>8. Len(sequentialScores') * EpisodeLength + Len(sequentialEnv'.trace) = n + 1
    <3>1. Len(sequentialScores') = l
      BY <2>1 DEF l
    <3> QED BY <2>3, <2>4, <3>1
  <2> QED BY <1>1, <2>1, <2>7, <2>8 DEF LoopArchive, before, S
<1>10. CASE OneByOne!GetScore
  <2>1. /\ sequentialPc = "act" /\ e >= EpisodeLength
        /\ sequentialScores' = Append(sequentialScores, sequentialEnv)
        /\ sequentialPc' = IF l + 1 < NbIter THEN "reset" ELSE "emplace"
        /\ UNCHANGED <<archive, current>>
    BY <1>10 DEF OneByOne!GetScore
  <2>2. /\ l \in 0 .. NbIter - 1 /\ sequentialScores = ScoresUpTo(current, l)
        /\ ~ (Training /\ current \in input.skipped)
        /\ e \in 0 .. EpisodeLength
        /\ sequentialEnv = [iter |-> l + 1, trace |-> TraceUpTo(current, e)]
    BY <1>5, <2>1 DEF CurrentWork
  <2>3. e = EpisodeLength
    <3> HIDE DEF e
    <3> QED BY <1>2, <2>1, <2>2
  <2>4. sequentialEnv = Episode(current, l + 1)
    BY <2>2, <2>3 DEF Episode, TraceUpTo
  <2>5. archive = LastOf(before \o KeptSoFar(input, current, l * EpisodeLength + EpisodeLength), S)
    BY <1>5, <2>1, <2>3 DEF LoopArchive, before, S
  <2> HIDE DEF l, e
  <2>6. Len(sequentialScores') = l + 1
    <3>1. l \in Nat /\ l + 1 \in Nat
      BY <1>2, <2>2
    <3>2. /\ Append(ScoresUpTo(current, l), Episode(current, l + 1)) = ScoresUpTo(current, l + 1)
          /\ Len(ScoresUpTo(current, l + 1)) = l + 1
      BY <3>1, OneMore
    <3> QED BY <2>1, <2>2, <2>4, <3>2
  <2>7. /\ (l + 1) * EpisodeLength = l * EpisodeLength + EpisodeLength
        /\ l + 1 = NbIter => l * EpisodeLength + EpisodeLength = NbDraws
    <3>1. 0 \in 0 .. EpisodeLength
      BY <1>2
    <3> QED BY <2>2, <3>1, DrawNumbers
  <2>8. CASE l + 1 < NbIter
    BY <1>1, <2>1, <2>5, <2>6, <2>7, <2>8 DEF LoopArchive, before, S
  <2>9. CASE ~ (l + 1 < NbIter)
    <3>1. l + 1 = NbIter
      BY <1>2, <2>2, <2>9
    <3>2. KeptSoFar(input, current, l * EpisodeLength + EpisodeLength) = JobRecordings(input, current)
      BY <1>1, <1>2, <2>2, <2>7, <3>1, JobRecordingsAre
    <3>3. current <= NbJobs
      BY <1>5, <2>1 DEF LoopInv
    <3>4. archive' = ArchiveAfter(input, current)
      BY <1>4, <2>1, <2>5, <3>2, <3>3
    <3> QED BY <1>1, <2>1, <2>9, <3>4 DEF LoopArchive
  <2> QED BY <2>8, <2>9
<1>11. CASE OneByOne!EmplaceResult
  <2>1. /\ sequentialPc = "emplace" /\ sequentialPc' = "root" /\ current' = current + 1
        /\ archive' = archive
    BY <1>11 DEF OneByOne!EmplaceResult
  <2>2. archive = ArchiveAfter(input, current)
    BY <1>5, <2>1 DEF LoopArchive
  <2>3. current' - 1 = current
    BY <1>3, <2>1
  <2> QED BY <1>1, <2>1, <2>2, <2>3 DEF LoopArchive
<1>12. CASE OneByOne!Return
  <2>1. sequentialPc = "root" /\ sequentialPc' = "returned" /\ UNCHANGED <<archive, current>>
    BY <1>12 DEF OneByOne!Return
  <2> QED BY <1>1, <1>5, <2>1 DEF LoopArchive
<1> QED BY <1>7, <1>8, <1>9, <1>10, <1>11, <1>12

-----------------------------------------------------------------------------
(* The temporary archives of the threads *)

(* A step of thread t that stores nothing *)
LEMMA ArchivesStep ==
    ASSUME ThreadArchives, NEW t \in Thread, UNCHANGED <<input, resultsPerJob, archiveMap>>,
           pc[t] # "storeArchive", pc'[t] # "storeArchive", DOMAIN temporary' = Thread,
           \A u \in Thread \ {t} : Untouched(u) /\ temporary'[u] = temporary[u], TemporaryOf(t)'
    PROVE  ThreadArchives'
<1>1. ASSUME NEW u \in Thread \ {t} PROVE TemporaryOf(u)'
  <2>1. TemporaryOf(u) /\ Untouched(u) /\ temporary'[u] = temporary[u]
    BY DEF ThreadArchives
  <2> QED BY <2>1 DEF TemporaryOf, Untouched, Training
<1>2. StoredArchives'
  <2>1. Training' = Training /\ StoredArchives
    BY DEF Training, ThreadArchives
  <2>2. \A u \in Thread : pc'[u] = "storeArchive" <=> pc[u] = "storeArchive"
    BY DEF Untouched
  <2>3. \A u \in Thread : pc[u] = "storeArchive" => job'[u] = job[u]
    BY DEF Untouched
  <2> QED BY <2>1, <2>2, <2>3 DEF StoredArchives
<1> QED BY <1>1, <1>2 DEF ThreadArchives

(* A step of thread t that neither evaluates nor stores *)
LEMMA ArchivesElsewhere ==
    ASSUME ThreadArchives, Types, NEW t \in Thread,
           UNCHANGED <<input, resultsPerJob, archiveMap, temporary>>,
           NEW l, pc' = [pc EXCEPT ![t] = l],
           l \notin {"reset", "act", "storeResult", "storeArchive"}, pc[t] # "storeArchive",
           \A u \in Thread \ {t} : Untouched(u)
    PROVE  ThreadArchives'
<1>1. pc'[t] = l
  BY DEF Types
<1>2. TemporaryOf(t)'
  BY <1>1 DEF TemporaryOf
<1> QED BY <1>1, <1>2, ArchivesStep DEF ThreadArchives

LEMMA ArchivesStartJob ==
    ASSUME ThreadArchives, WorkInv, JobInv, input \in Inputs, NEW t \in Thread, StartJob(t)
    PROVE  ThreadArchives'
<1> DEFINE skips == Training /\ job[t] \in input.skipped
<1>1. /\ pc' = [pc EXCEPT ![t] = IF skips THEN "storeResult" ELSE "reset"] /\ pc[t] = "start"
      /\ scores' = [scores EXCEPT ![t] = <<>>]
      /\ temporary' = [temporary EXCEPT ![t] = <<>>]
      /\ UNCHANGED <<input, job, env, resultsPerJob, archiveMap>>
  BY DEF StartJob, Go
<1>2. \A u \in Thread \ {t} : Untouched(u) /\ temporary'[u] = temporary[u]
  BY <1>1 DEF WorkInv, JobInv, Types, Untouched, ThreadArchives
<1>3. /\ scores'[t] = <<>> /\ temporary'[t] = <<>> /\ DOMAIN temporary' = Thread
      /\ pc'[t] = IF skips THEN "storeResult" ELSE "reset"
  BY <1>1 DEF WorkInv, JobInv, Types, ThreadArchives
<1>4. job[t] \in Nat /\ ArchiveSize \in Nat /\ EpisodeLength \in Nat
  BY <1>1, EvaluationAssumption DEF JobInv, JobsAtWork, Types, Evaluating, Job
<1>5. skips => JobRecordings(input, job[t]) = <<>>
  BY JobRecordingsAre DEF Training
<1>6. Len(scores'[t]) * EpisodeLength = 0
  <2>1. Len(scores'[t]) = 0
    BY <1>3, EmptySeq
  <2> QED BY <1>4, <2>1
<1>7. KeptUpTo(input, job[t], 0) = <<>>
  BY <1>4, KeptFacts
<1>8. LastOf(<<>>, ArchiveSize) = <<>>
  BY <1>4, LastOfNothing
<1> HIDE DEF skips
<1>9. TemporaryOf(t)'
  <2>1. input' = input /\ job'[t] = job[t]
    BY <1>1
  <2>2. CASE skips
    BY <1>3, <1>5, <1>8, <2>1, <2>2 DEF TemporaryOf
  <2>3. CASE ~ skips
    <3> DEFINE n == Len(scores'[t]) * EpisodeLength
    <3>1. n = 0
      BY <1>6
    <3> HIDE DEF n
    <3>2. temporary'[t] = LastOf(KeptUpTo(input', job'[t], n), ArchiveSize)
      BY <1>3, <1>7, <1>8, <2>1, <3>1
    <3> QED BY <1>3, <2>3, <3>2 DEF TemporaryOf, n
  <2> QED BY <2>2, <2>3
<1>10. pc'[t] # "storeArchive"
  BY <1>3
<1> QED BY <1>1, <1>2, <1>3, <1>9, <1>10, ArchivesStep

LEMMA ArchivesReset ==
    ASSUME ThreadArchives, WorkInv, JobInv, NEW t \in Thread, ResetEnvironment(t)
    PROVE  ThreadArchives'
<1> DEFINE n == Len(scores[t]) * EpisodeLength
<1>1. /\ pc[t] = "reset" /\ pc' = [pc EXCEPT ![t] = "act"]
      /\ env' = [env EXCEPT ![t] = ResetFor(Len(scores[t]) + 1)]
      /\ UNCHANGED <<input, job, scores, resultsPerJob, archiveMap, temporary>>
  BY DEF ResetEnvironment, ResetStep, EnvOf, Go
<1>2. \A u \in Thread \ {t} : Untouched(u) /\ temporary'[u] = temporary[u]
  BY <1>1 DEF WorkInv, JobInv, Types, Untouched
<1>3. pc'[t] = "act" /\ env'[t].trace = <<>>
  BY <1>1 DEF WorkInv, JobInv, Types, ResetFor
<1>4. Len(scores[t]) \in 0 .. NbIter - 1 /\ 0 \in 0 .. EpisodeLength
  BY <1>1, EvaluationAssumption DEF WorkInv, WorkOf
<1>5. n + 0 = n
  <2>1. n \in 0 .. NbDraws
    BY <1>4, DrawNumbers
  <2> QED BY <2>1, DrawsAreNatural
<1>6. Len(env'[t].trace) = 0
  BY <1>3, EmptySeq
<1>7. TemporaryOf(t)'
  <2>1. Training => temporary[t] = LastOf(KeptUpTo(input, job[t], n), ArchiveSize)
    BY <1>1 DEF ThreadArchives, TemporaryOf
  <2>2. Len(scores'[t]) * EpisodeLength + Len(env'[t].trace) = n
    BY <1>1, <1>5, <1>6
  <2> HIDE DEF n
  <2> QED BY <1>1, <1>3, <2>1, <2>2 DEF TemporaryOf, Training
<1> QED BY <1>1, <1>2, <1>3, <1>7, ArchivesStep DEF ThreadArchives

LEMMA ArchivesAct ==
    ASSUME ThreadArchives, WorkInv, JobInv, input \in Inputs, NEW t \in Thread, Act(t)
    PROVE  ThreadArchives'
<1> DEFINE l == Len(scores[t])
           e == Len(env[t].trace)
           n == l * EpisodeLength + e
           i == job[t]
           b == KeptUpTo(input, i, n)
           x == <<i, n + 1>>
           after == IF Training /\ n + 1 \in input.kept[i]
                    THEN LastOf(Append(temporary[t], x), ArchiveSize) ELSE temporary[t]
<1>1. /\ pc[t] = "act" /\ e < EpisodeLength
      /\ env' = [env EXCEPT ![t] = DoAction(env[t], i)]
      /\ UNCHANGED <<input, pc, job, scores, resultsPerJob, archiveMap>>
  BY DEF Act, EnvOf
<1>2. /\ temporary'[t] = after /\ DOMAIN temporary' = Thread
      /\ \A u \in Thread \ {t} : temporary'[u] = temporary[u]
  <2>1. temporary' = IF Training /\ n + 1 \in input.kept[i]
                     THEN [temporary EXCEPT ![t] = LastOf(Append(temporary[t], x), ArchiveSize)]
                     ELSE temporary
    BY DEF Act, EnvOf, RecordIn
  <2> HIDE DEF n, i, x
  <2> QED BY <2>1 DEF ThreadArchives
<1>3. \A u \in Thread \ {t} : Untouched(u) /\ temporary'[u] = temporary[u]
  <2> HIDE DEF after
  <2> QED BY <1>1, <1>2 DEF WorkInv, JobInv, Types, Untouched
<1>5. /\ l \in 0 .. NbIter - 1 /\ e \in 0 .. EpisodeLength
      /\ env[t] = [iter |-> l + 1, trace |-> TraceUpTo(i, e)]
  BY <1>1 DEF WorkInv, WorkOf
<1>6. i \in Nat /\ ArchiveSize \in Nat /\ EpisodeLength \in Nat
  BY <1>1, EvaluationAssumption DEF JobInv, JobsAtWork, Types, Evaluating, Job
<1>7. env'[t].trace = Append(TraceUpTo(i, e), i)
  <2>1. env'[t] = DoAction(env[t], i)
    BY <1>1 DEF WorkInv
  <2> HIDE DEF e, l, i
  <2> QED BY <1>5, <2>1 DEF DoAction
<1> HIDE DEF l, e, i
<1>8. Len(env'[t].trace) = e + 1
  <2>1. e \in Nat /\ e + 1 \in Nat
    BY <1>5, <1>6
  <2>2. Append(TraceUpTo(i, e), i) = TraceUpTo(i, e + 1) /\ Len(TraceUpTo(i, e + 1)) = e + 1
    BY <2>1, OneMore
  <2> QED BY <1>7, <2>2
<1>9. n \in 0 .. NbDraws /\ n + 1 \in 1 .. NbDraws /\ l * EpisodeLength + (e + 1) = n + 1
  <2> DEFINE p == l * EpisodeLength
  <2>1. p + e \in 0 .. NbDraws /\ p \in 0 .. NbDraws /\ p + e + 1 \in 1 .. NbDraws
    BY <1>1, <1>5, DrawNumbers
  <2> HIDE DEF p
  <2>2. p + (e + 1) = p + e + 1
    BY <1>5, <1>6, <2>1, DrawsAreNatural
  <2> QED BY <2>1, <2>2 DEF p
<1>10. Training => temporary[t] = LastOf(b, ArchiveSize)
  BY <1>1 DEF ThreadArchives, TemporaryOf, l, e, i
<1> HIDE DEF n
<1>11. /\ b \in Seq(Recording) /\ x \in Recording
       /\ KeptUpTo(input, i, n + 1) = IF n + 1 \in input.kept[i] THEN Append(b, x) ELSE b
  <2>1. /\ KeptUpTo(input, i, n) \in Seq(Recording)
        /\ KeptUpTo(input, i, n + 1) = IF n + 1 \in input.kept[i]
                                       THEN Append(KeptUpTo(input, i, (n + 1) - 1), <<i, n + 1>>)
                                       ELSE KeptUpTo(input, i, (n + 1) - 1)
    BY <1>6, <1>9, KeptFacts
  <2>2. (n + 1) - 1 = n /\ <<i, n + 1>> \in Recording
    BY <1>6, <1>9, DrawsAreNatural DEF Recording
  <2> QED BY <2>1, <2>2
<1> HIDE DEF b, x
<1>12. Training => temporary'[t] = LastOf(KeptUpTo(input, i, n + 1), ArchiveSize)
  <2>1. LastOf(Append(LastOf(b, ArchiveSize), x), ArchiveSize) = LastOf(Append(b, x), ArchiveSize)
    BY <1>6, <1>11, RecordOneAlone
  <2> QED BY <1>2, <1>10, <1>11, <2>1
<1>13. TemporaryOf(t)'
  <2>1. Len(scores'[t]) * EpisodeLength + Len(env'[t].trace) = n + 1
    BY <1>1, <1>8, <1>9 DEF l
  <2>2. input' = input /\ job'[t] = i /\ pc'[t] = "act"
    BY <1>1 DEF i
  <2>3. Training => temporary'[t] = LastOf(KeptUpTo(input', job'[t], Len(scores'[t]) * EpisodeLength
                                                              + Len(env'[t].trace)), ArchiveSize)
    BY <1>12, <2>1, <2>2
  <2>4. Training' = Training
    BY <2>2 DEF Training
  <2> QED BY <2>2, <2>3, <2>4 DEF TemporaryOf
<1> QED BY <1>1, <1>2, <1>3, <1>13, ArchivesStep

LEMMA ArchivesGetScore ==
    ASSUME ThreadArchives, WorkInv, JobInv, input \in Inputs, NEW t \in Thread, GetScore(t)
    PROVE  ThreadArchives'
<1> DEFINE l == Len(scores[t])
           e == Len(env[t].trace)
           i == job[t]
           next == IF l + 1 < NbIter THEN "reset" ELSE "storeResult"
           n == l * EpisodeLength + EpisodeLength
<1>1. /\ pc[t] = "act" /\ e >= EpisodeLength
      /\ pc' = [pc EXCEPT ![t] = next]
      /\ scores' = [scores EXCEPT ![t] = Append(scores[t], env[t])]
      /\ UNCHANGED <<input, job, env, resultsPerJob, archiveMap, temporary>>
  BY DEF GetScore, EnvOf, Go
<1>2. \A u \in Thread \ {t} : Untouched(u) /\ temporary'[u] = temporary[u]
  <2> HIDE DEF next
  <2> QED BY <1>1 DEF WorkInv, JobInv, Types, Untouched
<1>3. /\ l \in 0 .. NbIter - 1 /\ scores[t] = ScoresUpTo(i, l)
      /\ ~ (Training /\ i \in input.skipped)
      /\ e \in 0 .. EpisodeLength
      /\ env[t] = [iter |-> l + 1, trace |-> TraceUpTo(i, e)]
  BY <1>1 DEF WorkInv, WorkOf
<1>4. pc'[t] = next /\ scores'[t] = Append(scores[t], env[t])
  <2> HIDE DEF next
  <2> QED BY <1>1 DEF WorkInv, JobInv, Types
<1>5. NbIter \in Nat \ {0} /\ EpisodeLength \in Nat
  BY EvaluationAssumption
<1>6. e = EpisodeLength
  <2> HIDE DEF e
  <2> QED BY <1>1, <1>3, <1>5
<1>7. env[t] = Episode(i, l + 1)
  <2> HIDE DEF e
  <2> QED BY <1>3, <1>6 DEF Episode, TraceUpTo
<1>8. Training => temporary[t] = LastOf(KeptUpTo(input, i, n), ArchiveSize)
  <2>1. Training => temporary[t] = LastOf(KeptUpTo(input, i, l * EpisodeLength + e), ArchiveSize)
    BY <1>1 DEF ThreadArchives, TemporaryOf
  <2> QED BY <1>6, <2>1
<1> HIDE DEF l, e, i
<1>9. Len(scores'[t]) = l + 1
  <2>1. l \in Nat /\ l + 1 \in Nat
    BY <1>3, <1>5
  <2>2. /\ Append(ScoresUpTo(i, l), Episode(i, l + 1)) = ScoresUpTo(i, l + 1)
        /\ Len(ScoresUpTo(i, l + 1)) = l + 1
    BY <2>1, OneMore
  <2> QED BY <1>3, <1>4, <1>7, <2>2
<1>10. (l + 1) * EpisodeLength = n /\ (l + 1 = NbIter => n = NbDraws)
  <2>1. 0 \in 0 .. EpisodeLength
    BY <1>5
  <2> QED BY <1>3, <2>1, DrawNumbers
<1>11. ~ (l + 1 < NbIter) => l + 1 = NbIter
  BY <1>3, <1>5
<1>12. Training => KeptUpTo(input, i, NbDraws) = JobRecordings(input, i)
  BY <1>3, JobRecordingsAre DEF KeptSoFar, Training
<1> HIDE DEF n
<1>13. TemporaryOf(t)'
  <2>1. input' = input /\ job'[t] = i /\ temporary' = temporary /\ Training' = Training
    BY <1>1 DEF i, Training
  <2>2. CASE l + 1 < NbIter
    <3>1. Len(scores'[t]) * EpisodeLength = n /\ pc'[t] = "reset"
      BY <1>4, <1>9, <1>10, <2>2
    <3> QED BY <1>8, <2>1, <3>1 DEF TemporaryOf
  <2>3. CASE ~ (l + 1 < NbIter)
    <3>1. pc'[t] = "storeResult"
      BY <1>4, <2>3
    <3>2. Training => temporary[t] = LastOf(JobRecordings(input, i), ArchiveSize)
      BY <1>8, <1>10, <1>11, <1>12, <2>3
    <3> QED BY <2>1, <3>1, <3>2 DEF TemporaryOf
  <2> QED BY <2>2, <2>3
<1>14. pc'[t] # "storeArchive"
  BY <1>4
<1> QED BY <1>1, <1>2, <1>13, <1>14, ArchivesStep DEF ThreadArchives

(* The result is in its map before the archive is. *)
LEMMA ArchivesStoreResult ==
    ASSUME ThreadArchives, WorkInv, JobInv, NEW t \in Thread, StoreResult(t)
    PROVE  ThreadArchives'
<1> DEFINE next == IF Training THEN "storeArchive" ELSE "check"
           left == IF Training THEN job[t] ELSE NoJob
<1>1. /\ pc' = [pc EXCEPT ![t] = next] /\ pc[t] = "storeResult"
      /\ UNCHANGED <<input, env, scores, archiveMap, temporary>>
  BY DEF StoreResult, Go
<1>2. job' = [job EXCEPT ![t] = left]
  BY DEF StoreResult, JobInv, Types
<1>3. job[t] \notin DOMAIN resultsPerJob
  BY <1>1 DEF JobInv, JobsAreOwn, Evaluating
<1>4. DOMAIN resultsPerJob' = DOMAIN resultsPerJob \cup {job[t]}
  BY <1>3 DEF StoreResult, Emplace
<1>5. Training' = Training
  BY <1>1 DEF Training
<1> HIDE DEF next, left
<1>6. \A u \in Thread \ {t} : Untouched(u) /\ temporary'[u] = temporary[u]
  BY <1>1, <1>2 DEF JobInv, Types, Untouched
<1>7. pc'[t] = next /\ job'[t] = left
  BY <1>1, <1>2 DEF JobInv, Types
<1>8. ASSUME NEW u \in Thread PROVE TemporaryOf(u)'
  <2>1. CASE u = t
    <3>1. Training => /\ pc'[t] = "storeArchive" /\ job'[t] = job[t]
                      /\ temporary[t] = LastOf(JobRecordings(input, job[t]), ArchiveSize)
      BY <1>1, <1>7 DEF ThreadArchives, TemporaryOf, next, left
    <3>2. TemporaryOf(t)'
      BY <1>1, <1>5, <3>1 DEF TemporaryOf
    <3> QED BY <2>1, <3>2
  <2>2. CASE u # t
    <3>1. TemporaryOf(u) /\ Untouched(u) /\ temporary'[u] = temporary[u]
      BY <1>6, <2>2 DEF ThreadArchives
    <3> QED BY <1>1, <1>5, <3>1 DEF TemporaryOf, Untouched
  <2> QED BY <2>1, <2>2
<1>9. StoredArchives'
  <2>1. StoredArchives
    BY DEF ThreadArchives
  <2>2. ASSUME Training, NEW i \in DOMAIN resultsPerJob', i \notin DOMAIN archiveMap
        PROVE  \E u \in Thread : pc'[u] = "storeArchive" /\ job'[u] = i
    <3>1. CASE i = job[t]
      BY <1>7, <2>2, <3>1 DEF next, left
    <3>2. CASE i # job[t]
      <4>1. PICK u \in Thread : pc[u] = "storeArchive" /\ job[u] = i
        BY <1>4, <2>1, <2>2, <3>2 DEF StoredArchives
      <4>2. u # t
        BY <1>1, <4>1
      <4> QED BY <1>6, <4>1, <4>2 DEF Untouched
    <3> QED BY <3>1, <3>2
  <2>3. ~ Training => \A u \in Thread : pc'[u] # "storeArchive"
    BY <1>6, <1>7, <2>1 DEF StoredArchives, Untouched, next
  <2> QED BY <1>1, <1>5, <2>1, <2>2, <2>3 DEF StoredArchives
<1> QED BY <1>1, <1>8, <1>9 DEF ThreadArchives

LEMMA ArchivesStoreArchive ==
    ASSUME ThreadArchives, WorkInv, JobInv, NEW t \in Thread, StoreArchive(t)
    PROVE  ThreadArchives'
<1>1. /\ pc' = [pc EXCEPT ![t] = "check"] /\ pc[t] = "storeArchive"
      /\ job' = [job EXCEPT ![t] = NoJob]
      /\ archiveMap' = Emplace(archiveMap, job[t], temporary[t])
      /\ UNCHANGED <<input, env, scores, temporary, resultsPerJob>>
  BY DEF StoreArchive, Go
<1>2. Training' = Training
  BY <1>1 DEF Training
<1>3. \A u \in Thread \ {t} : Untouched(u) /\ temporary'[u] = temporary[u]
  BY <1>1 DEF JobInv, Types, Untouched
<1>4. pc'[t] = "check"
  BY <1>1 DEF JobInv, Types
<1>5. ASSUME NEW u \in Thread PROVE TemporaryOf(u)'
  <2>1. CASE u = t
    BY <1>4, <2>1 DEF TemporaryOf
  <2>2. CASE u # t
    <3>1. TemporaryOf(u) /\ Untouched(u) /\ temporary'[u] = temporary[u]
      BY <1>3, <2>2 DEF ThreadArchives
    <3> QED BY <1>1, <1>2, <3>1 DEF TemporaryOf, Untouched
  <2> QED BY <2>1, <2>2
<1>6. StoredArchives /\ Training
  BY <1>1 DEF ThreadArchives, StoredArchives
<1>7. temporary[t] = LastOf(JobRecordings(input, job[t]), ArchiveSize) /\ job[t] \in Job
  <2>1. job[t] \in Job
    BY <1>1, NoJobAssumption DEF JobInv, JobsAtWork, Types
  <2> QED BY <1>1, <1>6, <2>1 DEF ThreadArchives, TemporaryOf
<1>8. /\ DOMAIN archiveMap' = DOMAIN archiveMap \cup {job[t]}
      /\ \A i \in DOMAIN archiveMap : archiveMap'[i] = archiveMap[i]
      /\ job[t] \notin DOMAIN archiveMap => archiveMap'[job[t]] = temporary[t]
  BY <1>1 DEF Emplace
<1>9. StoredArchives'
  <2>1. \A i \in DOMAIN archiveMap' : archiveMap'[i] = LastOf(JobRecordings(input, i), ArchiveSize)
    BY <1>6, <1>7, <1>8 DEF StoredArchives
  <2>2. ASSUME NEW i \in DOMAIN resultsPerJob, i \notin DOMAIN archiveMap'
        PROVE  \E u \in Thread : pc'[u] = "storeArchive" /\ job'[u] = i
    <3>1. i # job[t] /\ i \notin DOMAIN archiveMap
      BY <1>8, <2>2
    <3>2. PICK u \in Thread : pc[u] = "storeArchive" /\ job[u] = i
      BY <1>6, <3>1 DEF StoredArchives
    <3> QED BY <1>3, <3>1, <3>2 DEF Untouched
  <2>3. DOMAIN archiveMap' \subseteq Job
    BY <1>6, <1>7, <1>8 DEF StoredArchives
  <2> QED BY <1>1, <1>2, <1>6, <2>1, <2>2, <2>3 DEF StoredArchives
<1> QED BY <1>1, <1>5, <1>9 DEF ThreadArchives

(* Every step of a thread keeps the archives of the jobs apart. *)
LEMMA ThreadArchivesNext ==
    ASSUME AgentInv, ArchiveInv, NEW t \in Thread, Step(t) PROVE ThreadArchives'
<1>1. /\ ThreadArchives /\ WorkInv /\ JobInv /\ Types /\ input \in Inputs
      /\ DOMAIN env = Thread /\ DOMAIN job = Thread
  BY DEF AgentInv, ArchiveInv, WorkInv, JobInv, Types
<1>2. CASE CloneEnvironment(t)
  <2>1. PICK e : env' = [env EXCEPT ![t] = e]
    BY <1>2 DEF CloneEnvironment, EnvOf
  <2>2. /\ pc' = [pc EXCEPT ![t] = "check"] /\ pc[t] = "clone"
        /\ UNCHANGED <<input, resultsPerJob, archiveMap, temporary, job, scores>>
    BY <1>2 DEF CloneEnvironment, Go
  <2>3. \A u \in Thread \ {t} : Untouched(u)
    BY <1>1, <2>1, <2>2 DEF Types, Untouched
  <2> QED BY <1>1, <2>2, <2>3, ArchivesElsewhere
<1>3. CASE LeaveLoop(t)
  <2>1. /\ pc' = [pc EXCEPT ![t] = "done"] /\ pc[t] \in {"check", "drained"}
        /\ UNCHANGED <<input, resultsPerJob, archiveMap, temporary, job, env, scores>>
    BY <1>3 DEF LeaveLoop, Go
  <2>2. \A u \in Thread \ {t} : Untouched(u)
    BY <1>1, <2>1 DEF Types, Untouched
  <2> QED BY <1>1, <2>1, <2>2, ArchivesElsewhere
<1>4. CASE EnterLoop(t)
  <2>1. /\ pc' = [pc EXCEPT ![t] = "pop"] /\ pc[t] = "check"
        /\ UNCHANGED <<input, resultsPerJob, archiveMap, temporary, job, env, scores>>
    BY <1>4 DEF EnterLoop, Go
  <2>2. \A u \in Thread \ {t} : Untouched(u)
    BY <1>1, <2>1 DEF Types, Untouched
  <2> QED BY <1>1, <2>1, <2>2, ArchivesElsewhere
<1>5. CASE PopJob(t)
  <2>1. /\ pc' = [pc EXCEPT ![t] = "start"] /\ pc[t] = "pop"
        /\ job' = [job EXCEPT ![t] = Head(jobsToProcess)]
        /\ UNCHANGED <<input, resultsPerJob, archiveMap, temporary, env, scores>>
    BY <1>5 DEF PopJob, Go
  <2>2. \A u \in Thread \ {t} : Untouched(u)
    BY <1>1, <2>1 DEF Types, Untouched
  <2> QED BY <1>1, <2>1, <2>2, ArchivesElsewhere
<1>6. CASE FindEmpty(t)
  <2>1. /\ pc' = [pc EXCEPT ![t] = "drained"] /\ pc[t] = "pop"
        /\ UNCHANGED <<input, resultsPerJob, archiveMap, temporary, job, env, scores>>
    BY <1>6 DEF FindEmpty, AfterEmptyPop, Go
  <2>2. \A u \in Thread \ {t} : Untouched(u)
    BY <1>1, <2>1 DEF Types, Untouched
  <2> QED BY <1>1, <2>1, <2>2, ArchivesElsewhere
<1>7. CASE StartJob(t)
  BY <1>1, <1>7, ArchivesStartJob
<1>8. CASE ResetEnvironment(t)
  BY <1>1, <1>8, ArchivesReset
<1>9. CASE Act(t)
  BY <1>1, <1>9, ArchivesAct
<1>10. CASE GetScore(t)
  BY <1>1, <1>10, ArchivesGetScore
<1>11. CASE StoreResult(t)
  BY <1>1, <1>11, ArchivesStoreResult
<1>12. CASE StoreArchive(t)
  BY <1>1, <1>12, ArchivesStoreArchive
<1> QED BY <1>2, <1>3, <1>4, <1>5, <1>6, <1>7, <1>8, <1>9, <1>10, <1>11, <1>12 DEF Step

(* A validation records nothing. *)
LEMMA ValidationRecordsNothing ==
    ASSUME NEW in \in Inputs, in.mode # "TRAINING"
    PROVE  ArchiveAfter(in, NbJobs) = OldArchive(in)
<1> DEFINE T == {k \in 0 .. NbJobs : ArchiveAfter(in, k) # OldArchive(in)}
<1>1. NbJobs \in Nat /\ ArchiveSize \in Nat
  BY EvaluationAssumption
<1>2. in.mode = "VALIDATION"
  BY EvaluationAssumption DEF InputType
<1>3. T \in SUBSET (0 .. NbJobs) /\ 0 \notin T
  BY ArchiveAfterFacts
<1>4. ASSUME NEW k \in 1 .. NbJobs, k \in T PROVE k - 1 \in T
  <2>1. k - 1 \in 0 .. NbJobs
    BY <1>1
  <2>2. JobRecordings(in, k) = <<>>
    BY <1>2 DEF JobRecordings
  <2>3. ArchiveAfter(in, k) = LastOf(ArchiveAfter(in, k - 1) \o <<>>, ArchiveSize)
    BY <2>2, ArchiveAfterFacts
  <2> DEFINE a == ArchiveAfter(in, k - 1)
  <2>4. a \in Seq(Recording) /\ Len(a) <= ArchiveSize
    BY <2>1, ArchiveAfterFacts
  <2> HIDE DEF a
  <2>5. LastOf(a \o <<>>, ArchiveSize) = a
    BY <1>1, <2>4, RecordsNothing
  <2> QED BY <1>4, <2>1, <2>3, <2>5 DEF a
<1> HIDE DEF T
<1>5. T = {}
  BY <1>1, <1>3, <1>4, NoFirstFailure
<1> QED BY <1>1, <1>5 DEF T

(* The threads have all left when the main thread compiles: every job has its archive. *)
LEMMA MergedInParallel ==
    ASSUME AgentInv, ArchiveInv, ~ InSequence, JoinAndCompile
    PROVE  archive' = ArchiveAfter(input, NbJobs)
<1>1. /\ \A t \in Thread : pc[t] = "done"
      /\ archive' = MergeArchiveMap(archive, archiveMap)
      /\ pc[Main] = "done"
  BY DEF JoinAndCompile, Go
<1>2. /\ NbJobs \in Nat /\ input \in Inputs /\ StoredArchives
      /\ archive = OldArchive(input)
  BY <1>1, EvaluationAssumption DEF ArchiveInv, ThreadArchives, MergedArchive
<1>3. CASE Training
  <2>1. jobsToProcess = <<>>
    BY <1>1 DEF AgentInv, CompileInv
  <2>2. Popped = NbJobs
    <3>1. Len(jobsToProcess) = 0
      BY <2>1
    <3> QED BY <1>2, <3>1 DEF Popped
  <2>3. DOMAIN resultsPerJob = Job
    <3>1. \A t \in Thread : pc[t] \notin Evaluating
      BY <1>1 DEF Evaluating
    <3> QED BY <2>2, <3>1 DEF AgentInv, JobInv, NoJobLost, Job
  <2>4. \A t \in Thread : pc[t] # "storeArchive"
    BY <1>1
  <2>5. IsArchiveMap(input, archiveMap)
    BY <1>2, <1>3, <2>3, <2>4 DEF StoredArchives, IsArchiveMap
  <2> QED BY <1>1, <1>2, <2>5, MergeKeepsLast
<1>4. CASE ~ Training
  <2>1. DOMAIN archiveMap = {}
    BY <1>2, <1>4 DEF StoredArchives
  <2> DEFINE old == OldArchive(input)
  <2>2. old \in Seq(Recording) /\ Len(old) <= ArchiveSize
    BY <1>2, OldArchiveFits
  <2>3. ArchiveAfter(input, NbJobs) = old
    BY <1>2, <1>4, ValidationRecordsNothing DEF Training
  <2>4. archive' = MergeArchiveMap(old, archiveMap)
    BY <1>1, <1>2
  <2> HIDE DEF old
  <2> QED BY <2>1, <2>2, <2>3, <2>4, MergeNothing
<1> QED BY <1>3, <1>4

-----------------------------------------------------------------------------
LEMMA ArchiveInvInit == TInit => ArchiveInv
<1> SUFFICES ASSUME TInit PROVE ArchiveInv
  OBVIOUS
<1>1. /\ input \in Inputs /\ archive = OldArchive(input)
      /\ current = 1 /\ sequentialPc = "root"
      /\ DOMAIN temporary = Thread /\ DOMAIN resultsPerJob = {} /\ DOMAIN archiveMap = {}
      /\ \A t \in Thread : pc[t] \in {"check", "clone", "done"}
      /\ pc[Main] = "check"
  BY Parameters DEF TInit, Init, OneByOne!Init, Main, Thread
<1>2. LoopArchive
  <2>1. current - 1 = 0
    BY <1>1
  <2>2. archive = ArchiveAfter(input, current - 1)
    BY <1>1, <2>1, ArchiveAfterFacts
  <2> QED BY <1>1, <2>2 DEF LoopArchive
<1>3. ThreadArchives
  <2>1. \A t \in Thread : TemporaryOf(t)
    BY <1>1 DEF TemporaryOf
  <2>2. StoredArchives
    BY <1>1 DEF StoredArchives
  <2> QED BY <1>1, <2>1, <2>2 DEF ThreadArchives
<1>4. MergedArchive
  BY <1>1 DEF MergedArchive
<1> QED BY <1>1, <1>2, <1>3, <1>4 DEF ArchiveInv

(* The archives depend on nothing that the others change. *)
LEMMA ArchivesUntouched ==
    ASSUME ThreadArchives, UNCHANGED <<input, parallelVars>> PROVE ThreadArchives'
<1>1. UNCHANGED <<input, pc, job, env, scores, temporary, resultsPerJob, archiveMap>>
  BY DEF parallelVars
<1>2. \A t \in Thread : TemporaryOf(t)'
  BY <1>1 DEF ThreadArchives, TemporaryOf, Training
<1>3. StoredArchives'
  BY <1>1 DEF ThreadArchives, StoredArchives, Training
<1> QED BY <1>1, <1>2, <1>3 DEF ThreadArchives

LEMMA LoopArchiveUntouched ==
    ASSUME LoopArchive, UNCHANGED <<input, copyable, sequentialVars>>,
           InSequence => archive' = archive
    PROVE  LoopArchive'
<1>1. InSequence' = InSequence /\ UNCHANGED <<current, sequentialEnv, sequentialScores, sequentialPc>>
  BY DEF InSequence, sequentialVars
<1> QED BY <1>1 DEF LoopArchive

LEMMA MergedUntouched ==
    ASSUME MergedArchive, UNCHANGED <<input, copyable>>,
           ~ InSequence => /\ archive' = archive
                           /\ pc'[Main] = "returned" <=> pc[Main] = "returned"
    PROVE  MergedArchive'
<1>1. InSequence' = InSequence
  BY DEF InSequence
<1> QED BY <1>1 DEF MergedArchive

LEMMA ArchiveInvNext == ASSUME AgentInv, ArchiveInv, [TNext]_allVars PROVE ArchiveInv'
<1>0. input \in Inputs /\ LoopArchive /\ ThreadArchives /\ MergedArchive
  BY DEF ArchiveInv
<1>1. CASE UNCHANGED <<vars, copyable, sequentialVars>>
  <2>1. UNCHANGED <<input, copyable, sequentialVars, parallelVars, archive, pc>>
    BY <1>1 DEF vars, parallelVars
  <2> QED BY <1>0, <2>1, ArchivesUntouched, LoopArchiveUntouched, MergedUntouched DEF ArchiveInv
<1>2. CASE UNCHANGED allVars
  BY <1>1, <1>2 DEF allVars
<1>3. CASE TNext
  <2>1. UNCHANGED <<input, copyable>>
    BY <1>3, SituationIsFixed
  <2>2. CASE \/ ByWorkers(Workers!NextProgram) \/ ByWorkers(Workers!CreateJobs)
             \/ (\E t \in Thread : ByWorkers(Workers!Work(t))) \/ ByWorkers(Workers!JoinThreads)
             \/ TDone
    BY <1>1, <2>2 DEF ByWorkers, TDone, allVars
  <2>3. CASE \/ InOrder(OneByOne!StartRoot) \/ InOrder(OneByOne!ResetEnvironment)
             \/ InOrder(OneByOne!Act) \/ InOrder(OneByOne!GetScore)
             \/ InOrder(OneByOne!EmplaceResult) \/ InOrder(OneByOne!Return)
    <3>1. InSequence /\ UNCHANGED parallelVars
      BY <2>3 DEF InOrder
    <3>2. \/ OneByOne!StartRoot \/ OneByOne!ResetEnvironment \/ OneByOne!Act \/ OneByOne!GetScore
          \/ OneByOne!EmplaceResult \/ OneByOne!Return
      BY <2>3 DEF InOrder
    <3>3. LoopArchive'
      BY <2>1, <3>1, <3>2, LoopArchiveSteps
    <3>4. ThreadArchives'
      BY <1>0, <2>1, <3>1, ArchivesUntouched
    <3>5. MergedArchive'
      BY <1>0, <2>1, <3>1, MergedUntouched
    <3> QED BY <1>0, <2>1, <3>3, <3>4, <3>5 DEF ArchiveInv
  <2>4. ASSUME NEW t \in Thread, InParallel(Step(t)) PROVE ArchiveInv'
    <3>1. ~ InSequence /\ Step(t) /\ UNCHANGED sequentialVars
      BY <2>4 DEF InParallel
    <3>2. LoopArchive'
      BY <1>0, <2>1, <3>1, LoopArchiveUntouched
    <3>3. ThreadArchives'
      BY <3>1, ThreadArchivesNext
    <3>4. archive' = archive /\ (pc'[Main] = "returned" <=> pc[Main] = "returned")
      <4>1. DOMAIN pc = Thread /\ Main \in Thread
        BY Parameters DEF AgentInv, JobInv, Types, Main, Thread
      <4> QED BY <3>1, <4>1 DEF Step, CloneEnvironment, LeaveLoop, EnterLoop, PopJob, FindEmpty, StartJob,
             ResetEnvironment, Act, GetScore, StoreResult, StoreArchive, Go, AfterEmptyPop
    <3>5. MergedArchive'
      BY <1>0, <2>1, <3>4, MergedUntouched
    <3> QED BY <1>0, <2>1, <3>2, <3>3, <3>5 DEF ArchiveInv
  <2>5. CASE InParallel(JoinAndCompile)
    <3>1. ~ InSequence /\ JoinAndCompile /\ UNCHANGED sequentialVars
      BY <2>5 DEF InParallel
    <3>2. LoopArchive'
      BY <1>0, <2>1, <3>1, LoopArchiveUntouched
    <3>3. ThreadArchives'
      <4>1. /\ pc' = [pc EXCEPT ![Main] = "returned"] /\ pc[Main] = "done" /\ Main \in Thread
            /\ UNCHANGED <<input, resultsPerJob, archiveMap, temporary, job, env, scores>>
        BY <3>1, Parameters DEF JoinAndCompile, Go, Main, Thread
      <4>2. Types
        BY DEF AgentInv, JobInv
      <4>3. \A u \in Thread \ {Main} : Untouched(u)
        BY <4>1, <4>2 DEF Types, Untouched
      <4> QED BY <1>0, <4>1, <4>2, <4>3, ArchivesElsewhere
    <3>4. MergedArchive'
      <4>1. archive' = ArchiveAfter(input, NbJobs)
        BY <3>1, MergedInParallel
      <4>2. pc'[Main] = "returned"
        BY <3>1, Parameters DEF JoinAndCompile, Go, AgentInv, JobInv, Types, Main, Thread
      <4> QED BY <2>1, <4>1, <4>2 DEF MergedArchive
    <3> QED BY <1>0, <2>1, <3>2, <3>3, <3>4 DEF ArchiveInv
  <2> QED BY <1>3, <2>2, <2>3, <2>4, <2>5 DEF TNext
<1> QED BY <1>2, <1>3

-----------------------------------------------------------------------------
(* The recordings of all jobs, one after the other *)
LEMMA FlattenJobs ==
    ASSUME NEW in, NEW seqs, seqs = [i \in Job |-> JobRecordings(in, i)]
    PROVE  AgentPromise!FlattenSeq(seqs) = RecordedBy(in, NbJobs)
<1>1. NbJobs \in Nat
  BY EvaluationAssumption
<1>2. /\ \A k \in 1 .. NbJobs : /\ seqs[k] \in Seq(Recording) /\ seqs[k] = JobRecordings(in, k)
      /\ seqs \in [1 .. NbJobs -> Seq(Recording)]
  <2>1. \A k \in 1 .. NbJobs : JobRecordings(in, k) \in Seq(Recording)
    BY JobRecordingsType
  <2> QED BY <2>1 DEF Job
<1>3. seqs \in Seq(Seq(Recording)) /\ Len(seqs) = NbJobs
  BY <1>1, <1>2, FunctionIsSeq
<1>4. /\ \A k \in 0 .. NbJobs : RecordedBy(in, k) \in Seq(Recording)
      /\ RecordedBy(in, 0) = <<>>
      /\ \A k \in 1 .. NbJobs : RecordedBy(in, k) = RecordedBy(in, k - 1) \o seqs[k]
  BY <1>2, RecordedByFacts
<1>5. CASE NbJobs = 0
  <2>1. seqs = <<>>
    BY <1>3, <1>5, EmptySeq
  <2> QED BY <1>3, <1>4, <1>5, <2>1 DEF AgentPromise!FlattenSeq
<1>6. CASE NbJobs # 0
  <2> DEFINE flatten == CHOOSE f : f = [i \in 1 .. Len(seqs) |->
                           IF i = 1 THEN seqs[i] ELSE f[i - 1] \o seqs[i]]
             g == [k \in 1 .. NbJobs |-> RecordedBy(in, k)]
  <2>1. AgentPromise!FlattenSeq(seqs) = flatten[NbJobs]
    BY <1>3, <1>6 DEF AgentPromise!FlattenSeq
  <2>2. 1 \in 1 .. NbJobs /\ RecordedBy(in, 1) = seqs[1]
    <3>1. 1 \in 1 .. NbJobs
      BY <1>1, <1>6
    <3>2. RecordedBy(in, 1) = RecordedBy(in, 0) \o seqs[1]
      <4>1. 1 - 1 = 0
        OBVIOUS
      <4> QED BY <1>4, <3>1, <4>1
    <3>3. RecordedBy(in, 0) \o seqs[1] = seqs[1]
      BY <1>2, <1>4, <3>1, ConcatEmptySeq
    <3> QED BY <3>1, <3>2, <3>3
  <2>3. ASSUME NEW k \in 1 .. NbJobs PROVE g[k] = IF k = 1 THEN seqs[k] ELSE g[k - 1] \o seqs[k]
    <3>1. k # 1 => k - 1 \in 1 .. NbJobs
      BY <1>1
    <3> QED BY <1>4, <2>2, <3>1
  <2>4. g = [i \in 1 .. Len(seqs) |-> IF i = 1 THEN seqs[i] ELSE g[i - 1] \o seqs[i]]
    <3>1. g = [i \in 1 .. NbJobs |-> IF i = 1 THEN seqs[i] ELSE g[i - 1] \o seqs[i]]
      BY <2>3
    <3> HIDE DEF g
    <3> QED BY <1>3, <3>1
  <2>5. flatten = [i \in 1 .. Len(seqs) |-> IF i = 1 THEN seqs[i] ELSE flatten[i - 1] \o seqs[i]]
    <3> HIDE DEF g
    <3> QED BY <2>4
  <2> HIDE DEF flatten, g
  <2>6. \A k \in 1 .. NbJobs : flatten[k] = IF k = 1 THEN seqs[k] ELSE flatten[k - 1] \o seqs[k]
    BY <1>3, <2>5
  <2> DEFINE T == {k \in 0 .. NbJobs : k # 0 /\ flatten[k] # RecordedBy(in, k)}
  <2>7. T \in SUBSET (0 .. NbJobs) /\ 0 \notin T
    OBVIOUS
  <2>8. ASSUME NEW k \in 1 .. NbJobs, k \in T PROVE k - 1 \in T
    <3>1. k # 1
      BY <2>2, <2>6, <2>8
    <3>2. k - 1 \in 0 .. NbJobs /\ k - 1 # 0
      BY <1>1, <3>1
    <3>3. flatten[k] = flatten[k - 1] \o seqs[k]
      BY <2>6, <3>1
    <3>4. RecordedBy(in, k) = RecordedBy(in, k - 1) \o seqs[k]
      BY <1>4
    <3> QED BY <2>8, <3>2, <3>3, <3>4
  <2> HIDE DEF T
  <2>9. T = {}
    BY <1>1, <2>7, <2>8, NoFirstFailure
  <2>10. NbJobs \in 0 .. NbJobs
    BY <1>1
  <2> QED BY <1>6, <2>1, <2>9, <2>10 DEF T
<1> QED BY <1>5, <1>6

(* What the invariants say of an evaluation that has returned *)
KeepsPromise ==
    Returned => results = ResultsUpTo(NbJobs) /\ archive = ArchiveAfter(input, NbJobs)

LEMMA InvariantsKeepPromise == ASSUME AgentInv, ArchiveInv PROVE KeepsPromise
<1>1. CASE InSequence /\ sequentialPc = "returned"
  <2>1. current - 1 = NbJobs
    BY <1>1, EvaluationAssumption DEF AgentInv, LoopInv
  <2>2. results = ResultsUpTo(NbJobs) /\ archive = ArchiveAfter(input, NbJobs)
    BY <1>1, <2>1 DEF AgentInv, LoopInv, ArchiveInv, LoopArchive
  <2> QED BY <2>2 DEF KeepsPromise
<1>2. CASE ~ InSequence /\ pc[Main] = "returned"
  BY <1>2 DEF AgentInv, CompileInv, ArchiveInv, MergedArchive, KeepsPromise
<1> QED BY <1>1, <1>2 DEF KeepsPromise, Returned

(* Nothing happens after evaluateAllRoots has returned. *)
LEMMA ReturnedIsFinal ==
    ASSUME AgentInv, Returned, [TNext]_allVars
    PROVE  Returned' /\ archive' = archive /\ results' = results
<1>1. CASE UNCHANGED <<vars, copyable, sequentialVars>>
  BY <1>1 DEF Returned, InSequence, vars, sequentialVars
<1>2. CASE UNCHANGED allVars
  BY <1>1, <1>2 DEF allVars
<1>3. CASE TNext
  <2>1. UNCHANGED <<input, copyable>>
    BY <1>3, SituationIsFixed
  <2>2. CASE \/ ByWorkers(Workers!NextProgram) \/ ByWorkers(Workers!CreateJobs)
             \/ (\E t \in Thread : ByWorkers(Workers!Work(t))) \/ ByWorkers(Workers!JoinThreads)
             \/ TDone
    BY <1>1, <2>2 DEF ByWorkers, TDone, allVars
  <2>3. CASE \/ InOrder(OneByOne!StartRoot) \/ InOrder(OneByOne!ResetEnvironment)
             \/ InOrder(OneByOne!Act) \/ InOrder(OneByOne!GetScore)
             \/ InOrder(OneByOne!EmplaceResult) \/ InOrder(OneByOne!Return)
    <3>1. InSequence /\ sequentialPc # "returned"
      BY <2>3 DEF InOrder, OneByOne!StartRoot, OneByOne!ResetEnvironment, OneByOne!Act,
         OneByOne!GetScore, OneByOne!EmplaceResult, OneByOne!Return
    <3> QED BY <3>1 DEF Returned
  <2>4. ASSUME NEW t \in Thread, InParallel(Step(t))
        PROVE  Returned' /\ archive' = archive /\ results' = results
    <3>1. ~ InSequence /\ Step(t) /\ pc[Main] = "returned"
      BY <2>4 DEF InParallel, Returned
    <3>2. DOMAIN pc = Thread /\ Main \in Thread
      BY Parameters DEF AgentInv, JobInv, Types, Main, Thread
    <3>3. pc'[Main] = "returned" /\ archive' = archive /\ results' = results
      BY <3>1, <3>2 DEF Step, CloneEnvironment, LeaveLoop, EnterLoop, PopJob, FindEmpty, StartJob,
         ResetEnvironment, Act, GetScore, StoreResult, StoreArchive, Go, AfterEmptyPop
    <3>4. InSequence' = InSequence
      BY <2>1 DEF InSequence
    <3> QED BY <3>1, <3>3, <3>4 DEF Returned
  <2>5. CASE InParallel(JoinAndCompile)
    BY <2>5 DEF InParallel, JoinAndCompile, Go, Returned
  <2> QED BY <1>3, <2>2, <2>3, <2>4, <2>5 DEF TNext
<1> QED BY <1>2, <1>3

LEMMA PromiseStep ==
    ASSUME AgentInv, KeepsPromise', [TNext]_allVars
    PROVE  [AgentPromise!EvaluateAllRoots]_(AgentPromise!vars)
<1>1. UNCHANGED <<input, copyable>> /\ OldArchive(input)' = OldArchive(input)
  <2>1. UNCHANGED <<input, copyable>>
    BY SituationIsFixed DEF allVars, vars
  <2> QED BY <2>1
<1>2. CASE Returned
  <2>1. Returned' /\ archive' = archive /\ results' = results
    BY <1>2, ReturnedIsFinal
  <2> QED BY <1>1, <1>2, <2>1 DEF AgentPromise!vars
<1>3. CASE ~ Returned /\ ~ Returned'
  <2>1. (IF Returned THEN archive ELSE OldArchive(input))' = OldArchive(input)
    BY <1>1, <1>3
  <2>2. (IF Returned THEN results ELSE <<>>)' = <<>>
    BY <1>3
  <2>3. Returned' = Returned
    <3>1. Returned \in BOOLEAN /\ Returned' \in BOOLEAN
      BY DEF Returned
    <3> QED BY <1>3, <3>1
  <2> QED BY <1>1, <1>3, <2>1, <2>2, <2>3 DEF AgentPromise!vars
<1>4. CASE ~ Returned /\ Returned'
  <2> DEFINE seqs == [i \in Job |-> JobRecordings(input, i)]
  <2>1. results' = ResultsUpTo(NbJobs) /\ archive' = ArchiveAfter(input, NbJobs)
    BY <1>1, <1>4 DEF KeepsPromise, ResultsUpTo
  <2>2. results' = [i \in AgentPromise!Job |-> [result |-> AgentPromise!JobResult(input, i), root |-> i]]
    BY <2>1 DEF ResultsUpTo, JobResult, Episode, AgentPromise!Job, AgentPromise!JobResult, AgentPromise!Episode
  <2>3. \A i : AgentPromise!JobRecordings(input, i) = JobRecordings(input, i)
    BY DEF AgentPromise!JobRecordings, JobRecordings, AgentPromise!KeptUpTo, KeptUpTo
  <2>4. [i \in AgentPromise!Job |-> AgentPromise!JobRecordings(input, i)] = seqs
    BY <2>3 DEF AgentPromise!Job, Job
  <2>5. AgentPromise!FlattenSeq(seqs) = RecordedBy(input, NbJobs)
    BY FlattenJobs
  <2> HIDE DEF seqs
  <2>6. archive' = AgentPromise!RecordAll(OldArchive(input), AgentPromise!FlattenSeq(seqs))
    BY <2>1, <2>5 DEF ArchiveAfter, AgentPromise!RecordAll, AgentPromise!LastOf, LastOf
  <2>7. AgentPromise!EvaluateAllRoots
    BY <1>1, <1>4, <2>2, <2>4, <2>6 DEF AgentPromise!EvaluateAllRoots
  <2> QED BY <2>7
<1> QED BY <1>2, <1>3, <1>4

(* "This method must always the same results as the evaluateAllRoots for a sequential execution.
   The Archive should also be updated in the exact same manner.": with one thread or several,
   whatever their interleaving, whatever each job records and however little of it the archive
   has room for, the generation returns once, with the result of every root in the order of the
   roots, and with the archive that recording the jobs in that order leaves. *)
THEOREM AgentEvaluates == TSpec => AgentEvaluatesAsPromised
<1>1. TInit => AgentPromise!Init
  <2> SUFFICES ASSUME TInit PROVE AgentPromise!Init
    OBVIOUS
  <2>1. /\ input \in Inputs /\ sequentialPc = "root" /\ pc[Main] = "check"
    BY Parameters DEF TInit, Init, OneByOne!Init, Main, Thread
  <2>2. ~ Returned
    BY <2>1 DEF Returned
  <2> QED BY <2>1, <2>2 DEF AgentPromise!Init, AgentPromise!OldArchive, OldArchive
<1>2. TInit => AgentInv /\ ArchiveInv
  BY AgentInvInit, ArchiveInvInit
<1>3. AgentInv /\ ArchiveInv /\ [TNext]_allVars => AgentInv' /\ ArchiveInv'
  BY AgentInvNext, ArchiveInvNext
<1>4. AgentInv /\ ArchiveInv => KeepsPromise
  BY InvariantsKeepPromise
<1>5. AgentInv /\ KeepsPromise' /\ [TNext]_allVars => [AgentPromise!EvaluateAllRoots]_(AgentPromise!vars)
  BY PromiseStep
<1> QED BY <1>1, <1>2, <1>3, <1>4, <1>5, PTL DEF TSpec, AgentEvaluatesAsPromised, AgentPromise!Spec
=============================================================================
