# TLA+ model of GEGELATI

GEGELATI trains Tangled Program Graphs (TPG): graphs whose inner vertices are
*teams* and whose leaves are *actions*. The edges of a team carry *Programs*;
executing a team runs the Programs of its edges and follows the edge with the
highest bid, until an action is reached. A learning agent repeats generations:
populate the graph by mutation, evaluate every root, remove the worst roots.

This directory specifies the parts of `src/gegelatilib` where such a training
can go wrong without a unit test noticing, checks them with TLC on small
instances and proves part of the results with TLAPS for every instance.

## Inventory

| Component | Source (under `src/gegelatilib`) | State | Operations |
| --- | --- | --- | --- |
| Graph | `src/tpg/tpgGraph.cpp`, `tpgVertex.cpp`, `tpgAction.cpp` | list of vertices, list of edges, and in each vertex the lists of its incoming and outgoing edges | add, remove, clone, move vertices and edges |
| Archive | `src/archive.cpp` | queue of recordings, recordings per Program, copies of data sources by hash | `addRecording`, `clear`, `areProgramResultsUnique` |
| Data handlers | `src/data`, `include/data` | content, cached hash | `setDataAt`, `getHash`, `getDataAt`, `scaleLocation`, `clone` |
| Execution engine | `src/tpg/tpgExecutionEngine.cpp` | none (writes to the archive) | `executeFromRoot` |
| Sequential evaluation | `src/learn/learningAgent.cpp` | one environment, one archive | `evaluateAllRoots`, `evaluateJob` |
| Parallel evaluation | `src/learn/parallelLearningAgent.cpp` | job queue, result map, archive map, three mutexes, an environment per thread | `slaveEvalJobThread`, `mergeArchiveMap` |
| TPG mutator | `src/mutator/tpgMutator.cpp` | copies of what existed before a `populateTPG`, list of new Programs; a queue and a generator per thread | `initRandomTPG`, `populateTPG`, `mutateNewProgramBehaviors` |
| Learning agent | `src/learn/learningAgent.cpp` | stored results by address, best root | `init`, `trainOneGeneration`, `keepBestPolicy`, `forgetPreviousResults` |
| Adversarial agent | `src/learn/adversarialLearningAgent.cpp` | champions | jobs of several roots |
| Classification agent | `include/learn/classificationLearningAgent.h` | scores per class | decimation by class |
| Program, Line, mutators of both | `src/program`, `src/mutator` | lines, intron marks | mutations, intron marking, execution |
| Instrumented TPG, statistics | `src/tpg/instrumented`, `src/tpg/policyStats.cpp` | atomic counters of visits and traversals | execution, reset, removal of what is unused, analysis |
| Code generation | `src/codeGen`, `src/tpg/tpgAbstractEngine.cpp` | numbers of vertices and Programs | `generateTPGGraph`, `generateProgram` |
| Dot files | `src/file` | numbers of vertices and Programs on both sides | `print`, `printSubGraph`, `importGraph` |
| Loggers | `src/log` | times, statistics | cycle detection; text |
| Instructions, parameters | `src/instructions`, `src/file/parametersParser.cpp` | none | type checks; copies of fields |

How they interact: the agent owns the graph, the archive and the environment.
`trainOneGeneration` calls `populateTPG` (graph and archive; threads mutate the new
Programs), then `evaluateAllRoots` (which executes the graph, writes the archive and
uses the environment, on several threads in the parallel agent), then
`decimateWorstRoots` (graph and stored results), then
`updateEvaluationRecords` (stored results and best root). Everything that
refers to a vertex across these calls is a raw pointer: the stored results, the
best root, the champions, the traces of executions, the numbers of the exporter.
Nothing is persisted during a training and there is no timeout: crashes and lost
messages do not arise. What is hard is the interleaving of threads, addresses that are
used again, failures in the middle of an update of two lists, caches, the archive at
its limit, and long sequences of legal calls.

What makes each part correct, and where it is stated:

- **Graph**: the edges kept in the graph and in the vertices are the same
  graph, every edge has both its ends in it, a call that fails changes nothing, but for
  `setEdgeSource` to an action (`TPGGraph`); the cycle detection logs a cycle when there is
  one and only then (`CycleDetection`).
- **Archive, data handlers**: the archive is the window of the last executions, each with
  the data it was made on, and the uniqueness test means what its documentation says
  (`Archive`).
- **Threads**: whatever their interleaving, new Programs, results and archive are those
  of one thread, and every generation returns (`TrainingThreads`).
- **TPG mutator**: no cycle, every team executable, no team that exists changed
  (`TPGMutator`).
- **Learning agent**: a root is ranked by its own evaluations, but for results that calls
  between generations leave behind; the best root is the best and is alive (`LearningAgent`).
- **Classification agent**: the decimation removes no root that is among the best of a
  class or in general, and as many as the ratio says (`ClassificationAgent`).
- **Adversarial agent**: all roots are evaluated alike, champions are alive
  (`AdversarialAgent`).
- **Programs**: every line can be executed, introns do not matter to the result, the C
  code generated for a Program computes the same (`ProgramMutator`).
- **Execution**: counters, statistics and traces agree, removing what was never used
  changes no execution, the generated C code takes the same decisions
  (`InstrumentedTPG`).
- **Dot files**: what is exported and imported again is the same graph, but for Programs
  shared by edges with different destinations (`DotFiles`).

`PROJECT.json` lists every component, modelled or not, and the hazards, each
at the line of the code where it bites.

## Modules

```
GraphOps ---- TPGGraph ---- CycleDetection
    \-------- TPGMutator --(implements)--> Population ---- PopulationOps
                                                               |
       ClassificationAgent, AdversarialAgent --(extend)--> LearningAgent

EvaluationOps -- SequentialEvaluation ------\
            \--- ParallelEvaluation ---------- TrainingThreads --(implements)--> RootEvaluation
            MutationWorkers ----------------/

ArchiveOps -- Archive --(implements)--> RecordingWindow
DataHandlers -- ProgramOps -- GeneratedProgram -- ProgramMutator
OrderedGraph -- ExecutionOps -- GeneratedCode -- InstrumentedTPG
           \--- DotFiles

Proofs: TPGGraph_proofs -- TPGMutator_proofs
        TrainingThreads_proofs
        LearningAgent_proofs (of all three agents)
        Archive_proofs
        ProgramMutator_proofs
        InstrumentedTPG_proofs -- DotFiles_proofs
```

**GraphOps, TPGGraph.** A graph is a record: the type of each vertex, source,
destination and Program of each edge, and the two lists of each vertex. Vertices
and edges are addresses, which a removed object gives back. Lists are sets: no
method depends on their order, only the choice of an edge in the execution does
(`OrderedGraph` keeps it). Each method is an operator of `GraphOps` that makes the updates
of both representations one by one as the code does, the failing paths too
(`RejectNewEdge` pushes the edge and takes it back, `RejectEdgeSource` takes it from its old
source and leaves it). `TPGGraph` has one action per
method and records how the call ended: it returned, refused, threw, or crashed because it
dereferenced what `findVertex` did not find, after which nothing runs. The address of a graph
method's argument may be that of a vertex that was removed, as callers hold raw pointers.
`unlisted` is a history variable: the edges that a `setEdgeSource` that threw took out of
the list of their source.

**CycleDetection.** The search of `CycleDetectionLALogger`, which extends `TPGGraph`: a
stack with markers, one path, one set of visited vertices, and the comparison of the
number of visited vertices at the end, which finds the cycles no root leads to. It is
checked and proved on every graph that `TPGGraph` reaches without losing an edge, with the list of the roots and
the list of the edges of each team in every order, against the definition of a cycle.

**ArchiveOps, Archive, RecordingWindow.** `addRecording` with its combined hash,
its three containers and the eviction from each. The hash of a data source is
modelled with what matters: it is cached until the source says that its data changed, and
the combined hash is an exclusive or, sensitive to content and shape, not to which source of a
shape holds a content. `RecordingWindow` is a list of the last executions, those on data of one hash
sharing a copy.
`RecordingWindow` is the abstract specification, a bounded queue of (Program, data,
result); `IsRecordingWindow` relates the two through the stored copies.

**EvaluationOps, RootEvaluation, SequentialEvaluation, ParallelEvaluation.** The
state of a learning environment is what was done to it since its last reset; a
score is that state, so that an environment shared by mistake shows in the
result. One step of a thread is one access to something shared: the test of the
queue outside the mutex, the locked pop, each call on the environment, each
exclusion zone. A thread that clones the environment may find the main thread in
the middle of a job. `RootEvaluation` is the promise in the documentation of
`parallelLearningAgent.h`: sequential order of results, sequential archive.
`mergeArchiveMap` is translated with its backward scan.

**MutationWorkers, TrainingThreads.** The threads that mutate new Programs share a queue;
each job carries a seed drawn before. A Program is the list of the draws that made it, so
that a generator used across jobs, or a Program mutated twice, shows. `TrainingThreads`
composes a generation: first these threads, then the parallel evaluation, or the
sequential one when there is one thread or the environment cannot be copied.
It implements `RootEvaluation` whichever way is taken.

**TPGMutator, Population, PopulationOps.** `initRandomTPG` and `populateTPG`, each
pass of each loop a step, every draw a choice. `before` is a history variable: the
vertices that were in the graph when a vertex was added. `Population` is the graph
as an agent sees it, where complete teams appear at once and disappear;
`TPGMutator` is shown to implement it, and `LearningAgent` is built on it.
`newPrograms` holds the Programs that are mutated in place at the end.

**LearningAgent.** `trainOneGeneration` step by step: populate, evaluate, decimate,
update the records; between generations `init`, `keepBestPolicy` and
`forgetPreviousResults` in any order. Addresses are used again as soon as they are free. `own` is
a history field of a result: was it obtained by the vertex that lives at the
address now? `stale` is a history variable: the addresses whose stored result outlived its
vertex, as `init`, `keepBestPolicy` and a `populateTPG` without root teams leave it.

**ClassificationAgent.** Extends `LearningAgent` with scores per class and replaces the
evaluation and the decimation: the roots are sorted for each class, the best of each are
kept, then the best in general until the number to keep is reached, actions always.
`ClassGeneration` calls `init` once, `ClassTraining` makes the other calls too, in any order. The
table of guesses and the F1 scores are abstract: an evaluation gives each class any score.

**AdversarialAgent.** Extends `LearningAgent` with `champions` and replaces the
evaluation. `MakeJobs` puts every root at every seat among teams of champions (`Job`),
`CompileResults` gathers the score of the studied seat. The environment is
abstract: policies have a skill, `skill` is a history variable. `AdvGeneration` and
`AdvTraining` as above.

**DataHandlers, ProgramOps, ProgramMutator, GeneratedProgram.** Lines with their intron
marks; marking by the backward scan over useful registers; execution with symbolic
values, so that two executions are equal only when they compute the same expression.
Marks are stale between the steps of a mutation, as in the code. Operands keep their raw
location, scaled to the source when used; an operand may be a number, or a block of
registers or of a two-dimensional array, whose elements `DataHandlers` computes from its
address. The instructions are those that the environment keeps because some source
provides each of their operands. `GeneratedProgram` is the C function of a Program: named
variables, addresses of their elements as the printer computes them, and what C does with
them.

**OrderedGraph, ExecutionOps, InstrumentedTPG, GeneratedCode.** A graph whose lists have
an order. Several engines execute it, an evaluation of an edge at a time, and increment the
counters of its vertices and edges; between executions the counters are reset, or the
elements never visited removed. `since` is a history variable: the traces that the counters
should sum up. `ExecutionOps` has the analyses of `ExecutionStats` and `PolicyStats`, and
the reference definition of an execution. `GeneratedCode` is what the two generators print,
with three different ways of numbering, and a run of it.

**DotFiles.** The exporter writes lines (records with a shape) and keeps the numbers of
vertices for the next export, while the graph changes and addresses are used again; the
importer reads one line per step, and may fail on a line longer than its buffer.
`printSubGraph` is included. `Rerouted` gives the edges of a file as they can be read, each leading
where the first edge of its Program leads: that is what `ImportIsPrefix` and `RoundTrip` compare
the import with, and `ImportKeepsDestinations` asks for more.

The modules MC... give the constants their values. In `PROJECT.json`, "map" gives
the lines that each definition translates.

## Runs

| Run | Question | Result |
| --- | --- | --- |
| `graph` | do the two representations of edges agree after any calls, but for what a refused `setEdgeSource` leaves, and does the logger find cycles exactly? | holds |
| `graph_refused` | is every edge connected to vertices of the graph? | violated |
| `archive` | is the archive the window of the last executions, while hashes are cached? | holds |
| `threads` | does a generation give what one thread gives, in every interleaving, and return? | holds |
| `mutator` | do mutations keep the graph executable and existing teams as they are? | holds |
| `agents` | are records right over any number of generations and the calls between them? are roots evaluated alike in games, champions among the roots kept? | holds |
| `classification` | does the decimation keep the best of each class and as many as it should? | holds |
| `adversarial_dangling` | are champions always in the graph? | violated |
| `program` | are introns exact, lines executable, generated functions right? | holds |
| `execution` | do counters, statistics, generated code and executions agree? | holds |
| `dot` | is a graph that is exported and imported the same, but that edges sharing a Program lead to the destination of the first? | holds |
| `dot_shared` | do the edges keep their destinations when a Program is shared? | violated |

Bounds, and why they are enough to meet the interesting cases:

- `graph`: four vertices, three edges, one Program (no method looks at it). Removing a vertex with several
  edges, parallel edges, self-loops, a clone of a vertex with a self-loop, cycles of one to
  three teams with and without a root, the reuse of every address, and every way a call may
  end happen. The proofs
  remove the bound for the properties of the graph, and likewise for most of the runs below
  (see "What is proved").
- `archive`: three recordings, two Programs, two sources of one shape and two contents: an
  eviction may free a copy or not, twice in a row, and the same Program is
  recorded on the same data repeatedly; a source changes between any two executions.
  Programs return 0 or minus infinity, compared with {0, 1, 3} and minus infinity, tau being 1:
  equal, close, far, and unlike itself. The contents that the two sources exchange or both hold collide.
- `threads`: the inputs cover both modes, stored results, skipped roots, draws that keep
  all, some or no recordings, an empty and a full archive. Three threads with three jobs let
  a thread be idle, and let two race for the last job; an archive of three recordings lets
  whole job archives be dropped and one be cut in the middle. Episodes have one action: a
  second would interleave no differently, since only one thread uses an environment. One
  of the three new Programs needs two mutations, so that threads finish in another order
  than they started.
- `mutator`: three actions and three initial teams, two calls of `populateTPG` with
  any removal of roots between. Fresh addresses are taken lowest first, since
  nothing compares addresses; Programs likewise. The bound of seven edges stops
  some behaviours before the end of a call (`CHECK_DEADLOCK FALSE`), it removes
  none before.
- `agents`: five addresses, three roots of which two are removed, two actions. When an action is
  a root, two removals are all the root teams there are, so that both cases of
  `BestScoreSurvives` happen, and so does a graph without root teams, which `populateTPG` makes anew;
  with teams only, one stays. Teams are reused at the address of one just removed, and `init`,
  `keepBestPolicy` and `forgetPreviousResults` come between any two generations. No bound on
  generations: the sums of scores are bounded by `maxNbEvaluationPerPolicy`. A root is evaluated twice
  before it is skipped. Each behaviour has an agent of either class; games are of three agents,
  so that a root has champions on both sides, and an adversarial agent only makes generations: it stores
  results as the other does. The view leaves out the best score of a
  generation where nothing reads it.
- `classification`: six roots of which two are removed, two classes, one root kept per
  class: a root may be best of both, of one, or in general. The module says which
  of two symmetric choices it takes, and ends the training when two roots have had all
  their evaluations.
- `program`: programs of three lines over two registers, two constants, a 2x2 and a 3x2 image,
  with instructions on two elements, on a constant and a number, on two constants, and one that the
  environment drops. Three lines make a chain (a line whose result is overwritten, one that reads it,
  one that does not). The locations that are drawn are the first and the last (`DrawnLocation`).
- `execution`: three graphs (parallel edges and a shared Program, shared teams below two
  roots, a chain beside a root action), Programs that tie, bid NaN or minus infinity on
  two states of the data; two engines, three executions between resets: all pairs of
  executions overlap in every way.
- `dot`: all graphs of two teams, two actions and three edges up to renaming, Programs shared by
  edges that lead elsewhere included, two exports with a change between: a Program that is
  too long, a team exported by another name, a cycle. `dot_shared`: those of them that
  `initRandomTPG` makes, with edges to actions only.

`CHECK_DEADLOCK FALSE` is used where the instance may run out of addresses or calls, which
the program does not, or where it may crash.

Fairness: `TrainingThreads` assumes weak fairness of each thread, for its steps on Programs
and for those on roots, of the main thread before and after them, and of the sequential
call: the operating system schedules threads that can run, and critical sections contain no
wait. A program becomes unique after finitely many mutations (`Passes`), which the code
leaves to chance. No other module is run with fairness: how many generations are run, which
calls are made and what is drawn is up to the user and to the generator of random numbers.

## What is proved

Every theorem holds for all values of the constants that satisfy the assumptions of
the modules and the hypotheses named below, where the runs check one instance.

### The graph

`TPGGraph_proofs` proves for every number of vertices, edges and Programs:

- `EdgeListsAlwaysConsistent`, `EdgesAlwaysEndInGraph`: both properties are
  invariants of `GraphSpec`, in which any call may be made, those that throw included.
- `FailuresChangeOnlyList`: a call that throws or returns false leaves the graph
  unchanged, but for the list from which `setEdgeSource` to an action takes the edge.
- `CyclesAreAlwaysDetected`: the search of the `CycleDetectionLALogger` ends, and a cycle is
  logged if and only if there is one, in whatever order the roots and edges come.

Neither property is inductive alone: removing a vertex finds its edges through the
lists of the vertex, moving an edge updates the lists of both ends unchecked. The
inductive invariant `IndInv` is `WellFormedBut(tpg, unlisted)`: the type, the agreement of the lists
with the edges, both ends of each edge in the graph, and actions without outgoing
edges (without which `cloneEdge` might fail half way), the edges of `unlisted` excepted from what is
said of their source. `WellFormed` is the case without such edges, which the mutator never leaves. The module proves first, for
each operator of `GraphOps`, that it preserves this; removing a set of edges with a set of
vertices (`RemovalWellFormed`) is the lemma that `removeVertex`, `removeEdge` and
`clear` share. The invariant has then one step per action. The proofs assume
`GraphAssumption` only: the null pointers are no vertex and no Program; the theorem about cycles
also assumes `AddressAssumption`, that there are finitely many addresses, without which a chain of
teams might never end.

The argument for `CyclesAreAlwaysDetected` has three parts. (1) What a vertex leads to is defined
by adding one edge at a time; `LedToChain` shows that this adds nothing more after as many edges
as there are addresses, and `LedToSplit` that it is the destinations and what they lead to. (2) The
loop of the search is a recursive function on an infinite set: `LoopExists` gives it whatever a
step does, also when the steps would not end, and `LoopSteps` follows it. (3) The search of one
vertex is a claim about any stack below it: if nothing it leads to leads back, it ends with
the stack and path that were below, all it leads to visited; otherwise with a cycle found. It is
proved by induction on the number of vertices that are not on the path (`VertexExplored`), inside
which the list of destinations of a team is explored from its end (`ListExplored`). The
hypotheses tie the stack to the path: the path leads to what lies on top of the stack
(`Ready`), so that a hit is a cycle, and nothing explored leads back to it (`Clean`). A vertex
that is not visited in the end has a predecessor that is not visited either, and a finite set of
such vertices holds a cycle (`CycleWithoutStart`): the comparison of sizes is right to report one.

### The mutator

`TPGMutator_proofs` proves all properties of the run `mutator`, and its refinement, for all
parameters that `MutatorAssumption` allows and for any allocation of addresses. The run takes
the lowest free address and bounds the edges; the proofs do neither. The invariant is
a stack of layers, each proved with those below it:

- `TypeInv`: the graph is `WellFormed` (by the lemmas about `GraphOps`) and finite, the
  vectors of `initRandomTPG` are filled one after the other, and what `populateTPG` copied
  still exists and is not touched by the team under mutation.
- `OrderInv` for `EdgesAlwaysLeadToOlder` and `CyclesNeverEverAppear`: "was in the graph when
  it was added" is a transitive order in which any set of vertices has a first one, and the
  team under mutation comes after everything. A set of vertices that each lead into the set
  would have a first one, whose edge leads to an older vertex of the set.
- `CountInv` for `TeamsAlwaysKeepTwoEdges`: what each team of `initRandomTPG` has after the
  m-th edge, and that a team being copied has the edges copied plus those to do.
- `PickInv` for `PickableEdgesAreNeverEmpty`: there is an edge to clone whenever there was a
  root to start from.
- `ProgramInv` for `NewProgramsAreAlwaysPrivate`: an edge that was not visited yet has no new
  Program.
- `TargetInv` for `PopulateAlwaysReachesTarget`: an edge of the new team that is
  removed or moved shares its destination with an edge that existed, so that no vertex
  becomes a root meanwhile.
- `SeenInv` for `MutatorEvolvesAsPromised`: the first teams lead to every action. The mapping
  hides the team under construction; the completion of a team is the step of `Population`,
  all others stutter. This covers initial states, every step, and removal of roots.

### A generation on several threads

`TrainingThreads_proofs` proves for every number of threads, roots, iterations and
actions, every situation and every interleaving:

- `EveryJobAlwaysProcessedOnce`: a job is in the queue, in the hands of one thread or has
  its result, and only one of the three.
- `ResultsAlwaysAsSequential`: the result stored for a root is the one `evaluateJob`
  gives in a sequential execution.

For the first, `JobInv` adds what makes the property inductive: jobs are popped in order
(the queue is a suffix of the list of jobs), a thread has a job exactly between `pop()`
and the end of its exclusion zones, two threads at work have different jobs, and a job
that was popped is at work or has its result. For the second, `WorkInv` says of each
thread how far `evaluateJob` has come: the scores are those of the iterations done, and
once `reset` was called the environment holds only the actions of the job. Before `reset`
nothing is said of it, which is why a torn clone does no harm. `WorkInv` rests on
`JobInv`: a thread's result is the one stored under its job because no other thread
stored one before. The proofs assume `EvaluationAssumption` (there is a thread and an iteration) and
`NoJobAssumption`.

Of a whole generation it proves:

- `MutationsAlwaysAsSequential`: the new Programs are those of the sequential loop. In
  `WorkersInv` the queue is a suffix of the jobs, a Program that was taken is finished or in the hands
  of one thread, and that thread's generator was seeded for it and used for its mutations only.
- `GenerationProcessesJobsOnce`, `GenerationResultsAsSequential`: the two theorems above,
  for the composition with the mutation threads and with the sequential evaluation.
- `GenerationReturnsInOrder`: whichever evaluation is chosen, `evaluateAllRoots` returns one
  result per root, in order, and the same. `LoopInv` says how far the sequential loop has
  come, `CompileInv` that the main thread only leaves its loop when all jobs have been taken.
- `AgentEvaluates`: the whole of `AgentEvaluatesAsPromised`, the refinement of
  `RootEvaluation`, with the archive. The sequential loop records
  in the archive of the agent, and `LoopArchive` says which executions it has recorded; a
  thread records in a temporary archive as large (`TemporaryOf`), stored after the result of its job
  (`StoredArchives`), and `mergeArchiveMap` takes from the last archives what fits. An archive is
  the end of the sequence recorded (`LastOf`), and the argument is about such ends: cutting what is
  recorded before recording it changes nothing (`LastOfConcat`); what is skipped of the
  first archive taken is what the ones after it push out (`InsertedFirst`), after
  which the merged archive and the sequential one agree on their last recordings, as many
  as were inserted (`MergeKeepsLast`), which in the end is the whole archive.

### The archive

`Archive_proofs` proves for any Programs, data sources, contents and maximum size:

- `IndexesAlwaysMatch`, with no hypothesis: `Indexed` is inductive once
  the queue of a Program is known to be the archive restricted to it, in order, so that the
  first one evicted from the archive is the first of its Program's queue.
- `ArchiveIsAlwaysTheWindow`, for sources of any types and sizes. The invariant adds that the copy
  under a hash is the one the window has for it, and that its data have that hash.
  `BitOfContent` tells which contents are left in an exclusive or, those that an odd number of
  sources of the shape hold, and `HashTellsData` follows: data of one hash are `Confusable`.
  `OwnDataOfUnlikeSources` adds that with sources of different shapes nothing can be confused.
- `UniqueAlwaysMeansUnlike`, for any results: the loop agrees with the documentation but for
  infinite results, which are unlike themselves (see the disagreements).

Neither has a hypothesis.

### The agents

`LearningAgent_proofs` proves for any number of roots, actions, iterations and addresses:

- `BestPolicyAlwaysSurvives`, with no hypothesis. `GraphInv` says that teams lead somewhere
  in the graph and that the graph has layers: every vertex has a rank, bounded, that grows along
  edges. `keepBestPolicy` removes root after root; a vertex of lowest rank among those not
  below the best root would be a root, so that it ends with the one root.
- `ResultsAreAlwaysOwn`, `BestRootIsAlwaysBest`, `BestScoreAlwaysSurvives`, with no hypothesis: for
  any ratio of deleted roots and any order of the calls. In `AgentInv`, `OwnInv` says that what is
  stored outlives its vertex at the addresses of `stale` only, `PlaceInv` what
  each place of `trainOneGeneration` relies on. If all roots were teams and
  were removed, `updateEvaluationRecords` reads `*--end()` of an empty map: there the model stops, and
  nothing is claimed of what follows. `RootTeamsSuffice` says when the first case of
  `BestScoreSurvives` is the only one: if the roots to remove and the actions are together no more than
  the roots asked for.

For the decimation of a classification agent it proves both properties of the run
`classification`, `RatioIsAlwaysKept` and `RemovedAreAlwaysBeaten`, for `ClassSpec` (calls in any order; the run
makes generations only, and restricts which of the roots that are alike is removed) with no hypothesis. The invariant is that of
the graph, and that a decimation finds one result per root. `MarkedRoots` bounds the roots marked
for all classes, which may overlap: they are at most `NbActions * NbKeptPerClass`, so that two
divisions leave room for the roots that are good in general.

For an adversarial agent it proves the three properties of the run `agents` about games for any number of agents in a game, of
iterations and of roots, and any order of calls, with no hypothesis. `ChampionsAreAlwaysKept`: the champions and the
roots removed are each a floor of a share of the roots, and the two floors sum to at most all.
`RootsAreAlwaysEvaluatedAlike`: the games of a root correspond one to one to the teams and
seats. `SkillAlwaysDecides`: every game that the weaker root wins is one that the
stronger wins from the same seat, against the same champions.

### Programs

`ProgramMutator_proofs` proves all properties of the run `program`, for `Spec` (the run
restricts the operands that are drawn), for any registers, constants, instructions, data and
length of programs that `EnvironmentAssumption` allows:

- `LinesAlwaysCorrect`: lines are drawn and altered within `GoodLine`, and inserted, removed and
  swapped whole.
- `IntronsAlwaysExact`, `IntronsNeverMatter`: `MarksAreRight` is the inductive invariant. There
  are sets `need[i]`, the registers that the result depends on when line i was executed, that
  the marks agree with, unless a mutation has changed a line and has not marked the lines
  again. Between the result and the forward `Dependencies` stands an
  argument backward over the lines: what the registers needed depend on, and the lines
  passed that are no introns, make up the dependencies of the result. Between the two
  executions stands one forward: the registers needed hold the same in both. Clearing the introns
  keeps the marks right because `need` may be restricted to the lines that stay.
- `IdenticalAlwaysSameResult`: the constant that `hasIdenticalBehavior` compares is all that an operand
  reads, unless it is an array of constants (`ComparedConstants`). Programs that differ in such
  an array are excepted by the property itself, not by a hypothesis on the instructions.
- `GeneratedCodeAlwaysComputesResult`: the variable declared for a
  source is the one that the code names, and the elements printed are those that
  `getDataAt` gives, unless the operand is a row of data that are not as high as wide
  (`ElementsPrinted`). Any data and instructions may be there; programs that execute such a line are
  excepted by the property.

### The counters of executions

`InstrumentedTPG_proofs` proves `CountersAlwaysMatchTraces` for any graphs without cycles,
inputs, traces and number of engines: whatever the engines do between two resets, and also after
`clearUnusedTPGGraphElements`, the counters are those that the executions ended since the reset,
and the parts of those that run, make up. The proofs assume `InputAssumption` and
`ExecutionAssumption`: what `TPGMutator` guarantees of graphs, and that Programs return numbers.

The property holds between executions only, and not of each counter alone. The invariant `Inv`
holds at any moment: the graph is proper (its lists go together, its teams have edges, and a rank
grows along edges, so that a walk meets no vertex twice); each engine is at some place of a walk;
and each counter is what the executions that ended and the engines at work make up
(`VisitsOf`, `EntriesOf`, `ExitsOf`, `EdgesOf`). A visit is counted before the edges are evaluated, and its
traversal after them: the engines between the two are counted apart. `ClearUnused` keeps the invariant
because the edges at a vertex without visits have no traversals, and the selections from the lists keep
what was executed. The sums over edges are folds in an arbitrary order: `AnyOrder` and `TotalRec`
prove that the order does not matter.

It also proves `PoliciesAreAlwaysKept`. An edge `Wins` among those that leave its team if each of
them bids less, or as much and comes first in the list of the edges. In `PolicyInv` every
ended execution and every engine so far followed edges that win and whose traversals are not 0, and the
best edge of a team being evaluated wins among those evaluated. `ClearUnused` keeps what has traversals,
and what wins among all edges wins among those left, whose order is the same
(`SelectKeepsOrder`). That such a trace is `Path` needs the function that defines `Path` to exist:
it is built upward along the ranks of the graph (`PathExists`). `PolicyInv` rests on `Inv`: a vertex of a
trace is in the graph because its counter of visits is not 0.

`GeneratedCodeAlwaysAgrees` is about the graphs that this leaves: what both generation engines print for
them takes the action in which `Path` ends. Numbers are given once each (`IDsFacts`), so that the names of
vertices are distinct and the number of the program of any edge leads back to it (`ProgramsFound`, over
the concatenation of the lists of edges); the loop of the generated code keeps the last of the
best scores (`BestProgramIs`), which is the winner (`TakesWinner`). What the generated
functions compute is one recursion over distinct names, of which the ends of paths are the only solution
(`RunFollowsPath`), because a graph without cycles has no set of vertices that each lead back into it
(`NoEndlessWalk`).

`StatsAlwaysMatch` compares the totals that `ExecutionStats` computes from the counters with those it
computes from the traces. Both count the same pairs of an execution and an element of the
graph, once by element and once by execution (`DoubleCount`): a root starts as many executions as entered it,
a team is visited as often as it is in a trace, and an edge is evaluated whenever its source is
visited unless it leads back (`UsesOfEdges`). The edges that the analysis of a trace collects by concatenation are each
collected once (`FlattenDistinct`). `RootInv` adds that every execution started at a root: for a
vertex that is none, `inferences` would not count it.

`PolicyStatsAlwaysCountPolicy` follows the breadth-first scan of `PolicyStats` vertex by vertex. In
`StageInv`, what a vertex was used, plus its places in what is left of the stage, plus its
places in the next one, is the number of edges to it from the teams already met, plus one for the root:
a team met for the first time adds as much to the next stage as to these edges, one met again adds to
neither. Between stages this says what the next stage can hold (`NextReached`), so that after k stages the
vertices used are those within k - 1 edges (`Scanning`). A stage that is not the last meets a new team, so that
there are no more stages than vertices, and none of the stages is lost to the bound of the fold
(`WholePolicyAnalyzed`).

### Dot files

`DotFiles_proofs` proves `ImportIsAlwaysPrefix` and `FilesRoundTrip` for any graphs to start from, any number
of files of one exporter, whole graphs and policies, with roots replaced between them, and any Programs too
long to read. Neither has a hypothesis about the graphs. Of the edges that share a Program a file holds only
the destination of the first, which is the disagreement that the run `dot_shared` shows: the
theorems compare the import with `Rerouted` edges, each of which leads where the first edge of its Program
leads. `FileAsRead` is why: the lines that describe a list of edges are also those of the rerouted list, since
a line without destination is written exactly when an edge before has the Program.
`DotAssumption` says what a `TPGGraph` is: lists that go together, without repetition.

The invariant `DotInv` has three parts.

- `GraphOK` of the graph of the exporter, whatever its roots became.
- `ExporterOK`: the exporter has numbered some vertices and Programs, each differently, and the next number is
  free. Vertices keep their numbers from one file to the next and may be gone from the graph; Programs
  lose theirs.
- `FileInv`: the last file is that of some witness w, made of the teams, rerouted edges and root actions printed, the
  numbers of the teams, and the state of the exporter before each edge. `IsFile` says which line is at each
  position, those that define the Program of an edge included if the edge is the first to use it; a
  Program has a number exactly if an edge before used it (`ProgramsNumbered`). `FileSense` says what makes
  the file readable: teams are listed once, and those at the ends of an edge are listed.

While the file is read, `Progress` relates the importer to a place r in the file: how many teams, edges and root
actions it has read, and which of the lines of the next edge. It knows a vertex for each number read so
far (`VerticesKnown`), the Programs used by the edges read with all their lines (`ProgramsKnown`), and its own
edges are those read, one by one (`EdgesKnown`). For each shape of line one step shows that the place moves to the
next line. A line that only says that a team uses a Program again takes its destination from the
first edge of the importer with this Program, which is that of the rerouted edge.

`PrintGraph` and `PrintSubGraph` are folds, followed by chains of exporters (`FoldExists`). For the
policy of a vertex, the breadth-first search has met exactly what `Policy` collects, each team once, so
that the edges collected team by team are those of the policy without repetition. At the footer r is the
end of the file, and `FilesRoundTrip` counts what the importer knows there.

### How induction is done

The library's induction theorems take an operator as parameter, which the provers cannot
instantiate. Where a number needs induction, the proofs take the least element of the
numbers at which the claim fails (`LeastNatural`, from the well-foundedness of `<`), and a function defined
by recursion is replaced by any function that satisfies its equation. This is enough for
counting and for queues; for a finite set it is the smallest subset at which a claim fails
(`SmallestSet`). A fold of the community modules is defined by a choice among the functions
that satisfy a recursive equation on sets of indexes: the proofs first build one such
function on larger and larger sets (`FoldExists`, `RunExists`), then read off the chain of values that
the fold goes through (`SelectScan`, `IntronScan`, `DependencyScan`, `ExecutionRun`), and
argue about the chains.

### Only model-checked

- Liveness: `GenerationReturns` (fairness is out of reach of the prover).
  It is the only property of the runs that no theorem states.

## Disagreements found

Three runs show that the code does not do what it, or its documentation, says; they are
quoted in "findings" of `PROJECT.json`.

- `setEdgeSource` to an action (`tpgGraph.cpp:296`): the edge leaves the list of its
  old source, then the action refuses it. Removing the old source then leaves the edge in the
  graph, starting at a destroyed vertex, in spite of the comment at `tpgGraph.cpp:291`. No
  caller in the repository does it.
- Champions may be removed (`adversarialLearningAgent.cpp:113`): with a root action in
  the results, decimation reaches the roots that were made champions.
- Programs shared by edges with different destinations are exported with one
  (`tpgGraphDotExporter.cpp:87`). `initRandomTPG` shares them so as soon as there are more
  initial roots than actions.

Of the code generator: `printDataAt` (`dataHandlerPrinter.cpp:77`) takes the first of the
sizes, the height, for the width when an operand of one dimension is taken from a source of
two; `getDimensionsSize` is documented as "the height and the width". For a source that is
not square the generated code then reads other elements than the program. The tests use
sources of 5x5. `GeneratedCodeComputesResult` excepts the programs that execute such a line,
and only those; without the exception TLC violates it.

Read but not kept as runs:

- `abs(x - y) <= tau` for infinite bids (`archive.cpp:176`): NaN bids are stored as
  minus infinity, and a Program that bids so is unlike its own copy.
  `UniqueMeansUnlikeAllRecorded` says so, and is violated without it.
- `init`, `keepBestPolicy` and a `populateTPG` that finds no root team leave the results of the vertices
  they destroy (`learningAgent.cpp:70`, `:427`, `tpgMutator.cpp:470`), in spite of `learningAgent.h:92`,
  "Whenever a TPGVertex is removed from the TPGGraph, its EvaluationResult should also be removed from
  this map": a root that takes such an address is ranked with the evaluations of another one, or
  never evaluated, if training goes on without `forgetPreviousResults`. `LearningAgent` makes these
  calls; `ResultsAreOwn` says that nothing else leaves a result behind, and is
  violated without the exception of `stale`.
- `decimateWorstRoots` passes over actions and removes as many teams as ever
  (`learningAgent.cpp:285`): when actions are roots it may remove all root teams, the best root
  among them, after which `populateTPG` makes the graph anew and `bestRoot` is another one.
  `BestScoreSurvives` says when.
- `initRandomTPG` promises "at least 2 distinct TPGAction" per team
  (`tpgMutator.h:59`): both edges of a team beyond the first ones may be drawn to the
  same action.
- `keepBestPolicy` keeps a graph whose root is not the best root if the best root is
  no longer a root (`learningAgent.h:392`).
- `updateEvaluationRecords` decrements `end()` of the results, which is empty if all
  roots are teams and all are removed (`learningAgent.cpp:376`), as with a `ratioDeletedRoots` of 1.
- `computeLineSize` exchanges the bits of instruction and destination
  (`environment.cpp:153`): with one register the instruction of a line is never
  altered. `ProgramOps` has it.
- `maxInitOutgoingEdges` below 2 wraps around (`tpgMutator.cpp:116`), and the loop at
  `tpgMutator.cpp:311` does not end when `pProgramMutation` is 0.
- With `ratioDeletedRoots` 0, `makeJobs` of the adversarial agent reads past the end of
  the roots (`adversarialLearningAgent.cpp:194`).
- `addRecording` does not check for duplicates: the comment at `archive.h:200`, "the existing recording
  is left identical, and this one is not added", describes another behaviour. `IsRecordingWindow`
  is of every execution recorded.
- Two data sources of the same type and size that exchange contents, or hold the same content and
  then another same content, have the same combined hash (`archive.cpp:57`, announced at
  `archive.h:103`), and a recording is then kept with the copy of the other data.
  `IsRecordingWindow` says which data may be confused, and is violated if none is.
- `PrimitiveTypeArray::operator=` does not invalidate the cached hash, which
  `dataHandler.h:84` asks for; the library does not use it on a data source.
- The stack generator prints the root as a team even if it is an action, and a function for
  each action: two actions with the same identifier give the same function twice.
  `Compiles` excludes both.
- `analyzeInstrumentedGraph` raises `std::bad_cast` if a root is an action
  (`CanBeAnalyzed`); introns are counted in its lines per inference.
- Traces of executions point to vertices that `clearUnusedTPGGraphElements` destroys only
  if they were recorded before the last reset of the counters.
- `nbUsePerTPGTeam` of `PolicyStats` counts the root of the policy once although no edge
  leads to it.
- `CycleDetectionLALogger` with `logOnSuccess` logs "No cycle detected" after it logged the
  cycle that no root leads to.
- `hasIdenticalBehavior` (`program.cpp:262`) compares the constant at the location of an operand;
  an operand of several constants reads others too. `IdenticalProgramsGiveSameResult` excepts
  the programs that differ in those, and is violated by them otherwise; the loop
  at `tpgMutator.cpp:354` then mutates a program again that already behaves otherwise. No instruction of the tests takes several.
- Two evaluations of a classification agent in which a class was never seen give it the score
  0/0 (`classificationEvaluationResult.cpp:74`); actions that are kept take places of
  the roots to keep in general.

## Not modelled

- The text of dot files, of generated C code, of logs and of JSON parameters; the counters
  of `PolicyStats` per instruction and per operand, and the JSON of `ExecutionStats`.
- The parameters file (a table of names and fields), instructions (wrappers of functions,
  without state), JsonCpp and the generator of random numbers in `deterministicRandom.h`
  (both third-party, a quarter and a fiftieth of the lines of the repository), and the
  wrappers whose work is done by the type system of C++ (`untypedSharedPtr.h`).
- The arithmetic of instructions and scores in floating point: bids and scores are
  abstract values, sums of scores are exact; infinities and NaN only where bids are
  compared.
- Data races that are not on the model's shared state (the static counter of
  `dataHandler.cpp:45`, the map of cached addresses of a wrapper): nothing relies on them.
- Random draws are choices: probabilities are not modelled.

Of the statements in `src/gegelatilib/src`, about two thirds are mapped; what is left is
mostly the text output above, accessors and constructors. Headers are mapped where
they hold code or the state of a class; most of their lines are documentation.

## Plan

Everything of the plan is built: the models, their runs, and a theorem for each property that the runs check, but
for liveness.
