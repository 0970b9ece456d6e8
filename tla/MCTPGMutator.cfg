CONSTANTS
    a1 = a1
    a2 = a2
    a3 = a3
    Vertex = {v1, v2, v3, v4, v5, v6}
    Edge = {e1, e2, e3, e4, e5, e6, e7}
    Program = {p1, p2, p3, p4, p5, p6, p7}
    ActionID = {a1, a2, a3}
    Actions <- ThreeActions
    NoVertex = NoVertex
    NoProgram = NoProgram
    NbRoots = 2
    InitNbRoots = 3
    MaxInitOutgoingEdges = 3
    MaxOutgoingEdges = 3
    Allocate <- LowestFree
    MaxPopulates = 2
SPECIFICATION MCSpec
INVARIANTS
    CyclesNeverAppear
    EdgesLeadToOlder
    TeamsKeepTwoEdges
    PickableEdgesNeverEmpty
    NewProgramsArePrivate
    PopulateReachesTarget
PROPERTIES
    EvolvesAsPromised
CHECK_DEADLOCK FALSE
