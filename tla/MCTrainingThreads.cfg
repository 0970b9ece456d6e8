CONSTANTS
    NbJobs = 3
    NbIter = 2
    EpisodeLength = 1
    ArchiveSize = 3
    MaxThreads = 3
    Inputs <- AllInputs
    NoJob = NoJob
    NbNew = 3
    Passes <- TwoThenOne
SPECIFICATION TSpec
INVARIANTS
    EveryJobProcessedOnce
    ResultsAsSequential
    MutationsAsSequential
PROPERTIES
    AgentEvaluatesAsPromised
    GenerationReturns
