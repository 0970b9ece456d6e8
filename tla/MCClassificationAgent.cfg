CONSTANTS
    Vertex <- Addresses
    NoVertex = NoVertex
    NbActions = 2
    NbRoots = 6
    InitNbRoots = 2
    Score = {0, 1}
    NbIter = 2
    MaxNbEval = 3
    DeletedRatio <- OneOfThree
SPECIFICATION MCSpec
PROPERTIES
    RemovedAreBeaten
    RatioIsKept
CHECK_DEADLOCK FALSE
