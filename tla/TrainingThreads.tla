--------------------------- MODULE TrainingThreads ---------------------------
(***************************************************************************)
(* The threads of a generation of a ParallelLearningAgent: those of        *)
(* populateTPG, which mutate the new programs, then those of               *)
(* evaluateAllRoots, if the environment can be copied and the parameters   *)
(* ask for more than one; otherwise the sequential evaluation, which is    *)
(* all that LearningAgent has.                                             *)
(***************************************************************************)
EXTENDS ParallelEvaluation

CONSTANTS NbNew,    \* programs to mutate
          Passes    \* mutations each needs

VARIABLES copyable,          \* LearningEnvironment::isCopyable
          drawn, programsToMutate, workerPc, workerJob, privateRNG, body,
          current, sequentialEnv, sequentialScores, sequentialPc

workerVars == <<drawn, programsToMutate, workerPc, workerJob, privateRNG, body>>
sequentialVars == <<current, sequentialEnv, sequentialScores, sequentialPc>>
parallelVars == <<jobsToProcess, pc, job, env, scores, temporary, resultsPerJob, archiveMap>>

allVars == <<vars, copyable, workerVars, sequentialVars>>

Workers ==
    INSTANCE MutationWorkers
    WITH threads <- input.threads, pc <- workerPc, job <- workerJob

OneByOne ==
    INSTANCE SequentialEvaluation
    WITH env <- sequentialEnv, scores <- sequentialScores, pc <- sequentialPc

ASSUME WorkersAssumption == Workers!WorkersParameters

(* Are the roots evaluated one after the other? *)
InSequence == input.threads <= 1 \/ ~ copyable

TInit == /\ Init
         /\ copyable \in BOOLEAN
         /\ Workers!Init
         /\ OneByOne!Init

-----------------------------------------------------------------------------
(* populateTPG *)
ByWorkers(A) == UNCHANGED <<vars, copyable, sequentialVars>> /\ A

(* evaluateAllRoots *)
InOrder(A) ==
    Workers!Returned /\ InSequence /\ A /\ UNCHANGED <<copyable, workerVars, parallelVars>>

InParallel(A) ==
    Workers!Returned /\ ~ InSequence /\ A /\ UNCHANGED <<copyable, workerVars, sequentialVars>>

Returned == IF InSequence THEN sequentialPc = "returned" ELSE pc[Main] = "returned"

TDone == Returned /\ UNCHANGED allVars

TNext ==
    \/ ByWorkers(Workers!NextProgram) \/ ByWorkers(Workers!CreateJobs)
    \/ \E t \in Thread : ByWorkers(Workers!Work(t))
    \/ ByWorkers(Workers!JoinThreads)
    \/ InOrder(OneByOne!StartRoot) \/ InOrder(OneByOne!ResetEnvironment)
    \/ InOrder(OneByOne!Act) \/ InOrder(OneByOne!GetScore)
    \/ InOrder(OneByOne!EmplaceResult) \/ InOrder(OneByOne!Return)
    \/ \E t \in Thread : InParallel(Step(t))
    \/ InParallel(JoinAndCompile)
    \/ TDone

(* The operating system runs every thread that can run. *)
TFairness ==
    /\ \A t \in Thread : /\ WF_allVars(ByWorkers(Workers!Work(t)))
                         /\ WF_allVars(InParallel(Step(t)))
    /\ WF_allVars(ByWorkers(Workers!NextProgram \/ Workers!CreateJobs \/ Workers!JoinThreads))
    /\ WF_allVars(InOrder(OneByOne!Next))
    /\ WF_allVars(InParallel(JoinAndCompile))

TSpec == TInit /\ [][TNext]_allVars /\ TFairness

-----------------------------------------------------------------------------
(* Whatever the number of threads and whichever thread takes which program, the new
   programs end as the sequential loop leaves them, and so does the generator of the agent,
   from which the jobs of the evaluation draw. *)
MutationsAsSequential == Workers!MutationsAsSequential

AgentPromise ==
    INSTANCE RootEvaluation
    WITH archive <- IF Returned THEN archive ELSE OldArchive(input), returned <- Returned,
         results <- IF Returned THEN results ELSE <<>>

(* "This method must always the same results as the evaluateAllRoots for a sequential
   execution. The Archive should also be updated in the exact same manner.": both
   evaluations, whichever the agent chooses, keep the promise of evaluateAllRoots; the
   environment that the sequential jobs share never lets one see the actions of another. *)
AgentEvaluatesAsPromised == AgentPromise!Spec

(* A generation ends: no thread waits for a program or a job that will not come, and none
   loops on the unsynchronised test of the queue. *)
GenerationReturns == <>Returned
=============================================================================
