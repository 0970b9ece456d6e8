--------------------------- MODULE MutationWorkers ---------------------------
(***************************************************************************)
(* TPGMutator::mutateNewProgramBehaviors: the new programs of populateTPG  *)
(* are mutated in place, each with a generator of its own, by one thread   *)
(* or by several that share a queue.                                       *)
(*                                                                         *)
(* The body of a program is the list of the mutations it went through, and *)
(* a mutation is the draw that decided it: the seed of a generator and how *)
(* often it was used since.  Whether the result is unique in the archive,  *)
(* which nobody changes here, is decided by these draws.                   *)
(***************************************************************************)
EXTENDS Integers, Sequences

CONSTANTS NbNew,        \* number of new programs
          MaxThreads,   \* bound: largest params.maxNbThreads
          Passes        \* Passes[s]: mutations with seed s until the program is unique

NewProgram == 1 .. NbNew

(* A seed is a draw of the generator of the agent: its rank. *)
Seed == 1 .. NbNew

Thread == 1 .. MaxThreads

Main == 1

(* What the parameters are (assumed by the modules that use this one) *)
WorkersParameters ==
    /\ NbNew \in Nat
    /\ MaxThreads \in Nat \ {0}
    /\ Passes \in [Seed -> Nat \ {0}]

VARIABLES threads,           \* maxNbThreads
          drawn,             \* draws from the generator of the agent
          programsToMutate,  \* the queue of programs and seeds
          pc,                \* where each thread is
          job,               \* the program and the seed each thread works on
          privateRNG,        \* the generator of each thread
          body               \* the mutations of each program

vars == <<threads, drawn, programsToMutate, pc, job, privateRNG, body>>

Sequential == threads <= 1

NoWork == [prog |-> 0, seed |-> 0]

SeededWith(s) == [seed |-> s, used |-> 0]

Init == /\ threads \in Thread
        /\ drawn = 0
        /\ programsToMutate = <<>>
        /\ pc = [t \in Thread |-> IF t = Main THEN "create" ELSE "idle"]
        /\ job = [t \in Thread |-> NoWork]
        /\ privateRNG = [t \in Thread |-> SeededWith(0)]
        /\ body = [p \in NewProgram |-> <<>>]

-----------------------------------------------------------------------------
(* Sequential: the seed of a program is drawn when its turn comes. *)
NextProgram ==
    /\ Sequential
    /\ pc[Main] = "create"
    /\ drawn < NbNew
    /\ drawn' = drawn + 1
    /\ job' = [job EXCEPT ![Main] = [prog |-> drawn', seed |-> drawn']]
    /\ privateRNG' = [privateRNG EXCEPT ![Main] = SeededWith(drawn')]
    /\ pc' = [pc EXCEPT ![Main] = "mutate"]
    /\ UNCHANGED <<threads, programsToMutate, body>>

(* Parallel: all seeds are drawn with the jobs, before the threads start. *)
CreateJobs ==
    /\ ~ Sequential
    /\ pc[Main] = "create"
    /\ drawn' = NbNew
    /\ programsToMutate' = [i \in 1 .. NbNew |-> [prog |-> i, seed |-> i]]
    /\ pc' = [t \in Thread |-> IF t <= threads THEN "get" ELSE "done"]
    /\ UNCHANGED <<threads, job, privateRNG, body>>

(* parallelWorker: the critical section takes a job and its seed, *)
SeedOf_AlreadySeeded(t, s) == IF privateRNG[t].seed = 0 THEN SeededWith(s) ELSE privateRNG[t]
SeedOf(t, s) == SeededWith(s)

GetJob(t) ==
    /\ pc[t] = "get"
    /\ programsToMutate # <<>>
    /\ job' = [job EXCEPT ![t] = Head(programsToMutate)]
    /\ programsToMutate' = Tail(programsToMutate)
    /\ privateRNG' = [privateRNG EXCEPT ![t] = SeedOf(t, Head(programsToMutate).seed)]
    /\ pc' = [pc EXCEPT ![t] = "mutate"]
    /\ UNCHANGED <<threads, drawn, body>>

(* or finds none. *)
FindNoJob(t) ==
    /\ pc[t] = "get"
    /\ programsToMutate = <<>>
    /\ pc' = [pc EXCEPT ![t] = "done"]
    /\ UNCHANGED <<threads, drawn, programsToMutate, job, privateRNG, body>>

(* mutateProgramBehaviorAgainstArchive: a pass of its loop, until the program is unique. *)
Unique(rng) == rng.used >= Passes[rng.seed]

MutateBehavior(t) ==
    /\ pc[t] = "mutate"
    /\ privateRNG' = [privateRNG EXCEPT ![t].used = @ + 1]
    /\ body' = [body EXCEPT ![job[t].prog] =
                    Append(@, <<privateRNG'[t].seed, privateRNG'[t].used>>)]
    /\ pc' = [pc EXCEPT ![t] = IF ~ Unique(privateRNG'[t]) THEN "mutate"
                               ELSE IF Sequential THEN "create" ELSE "get"]
    /\ job' = IF Unique(privateRNG'[t]) THEN [job EXCEPT ![t] = NoWork] ELSE job
    /\ UNCHANGED <<threads, drawn, programsToMutate>>

(* The threads are joined, and the call returns. *)
JoinThreads ==
    /\ \/ Sequential /\ pc[Main] = "create" /\ drawn = NbNew
       \/ \A t \in Thread : pc[t] = "done"
    /\ pc' = [t \in Thread |-> "returned"]
    /\ privateRNG' = [t \in Thread |-> SeededWith(0)]
    /\ UNCHANGED <<threads, drawn, programsToMutate, job, body>>

Work(t) == GetJob(t) \/ FindNoJob(t) \/ MutateBehavior(t)

Next == NextProgram \/ CreateJobs \/ (\E t \in Thread : Work(t)) \/ JoinThreads

Fairness == (\A t \in Thread : WF_vars(Work(t))) /\ WF_vars(NextProgram \/ CreateJobs \/ JoinThreads)

Spec == Init /\ [][Next]_vars /\ Fairness

-----------------------------------------------------------------------------
Returned == pc[Main] = "returned"

(* What the sequential loop makes of program p: the mutations decided by the p-th seed. *)
SequentialBody(p) == [n \in 1 .. Passes[p] |-> <<p, n>>]

(* Whatever the number of threads and whichever thread takes which program, the programs
   end as the sequential loop leaves them, and so does the generator of the agent. *)
MutationsAsSequential ==
    Returned => /\ \A p \in NewProgram : body[p] = SequentialBody(p)
                /\ drawn = NbNew
=============================================================================
