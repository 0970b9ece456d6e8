CONSTANTS
    Vertex = {v1, v2, v3, v4, v5}
    NoVertex = NoVertex
    NbActions = 2
    NbRoots = 3
    InitNbRoots = 2
    Score = {0, 1}
    NbIter = 2
    MaxNbEval = 3
    DeletedRatio <- TwoOfThree
    NbAgents = 3
    NbIterPerJob = 1
    Skill = {0, 1}
SYMMETRY Addresses
SPECIFICATION MCAdversarial
INVARIANT ChampionsAreAlive
CHECK_DEADLOCK FALSE
