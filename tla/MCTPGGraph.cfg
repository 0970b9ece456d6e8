CONSTANTS
    Vertex = {v1, v2, v3, v4}
    Edge = {e1, e2, e3}
    Program = {p1}
    ActionID = {a1}
    NoVertex = NoVertex
    NoProgram = NoProgram
SYMMETRY Addresses
SPECIFICATION GraphSpec
INVARIANTS
    EdgeListsConsistent
    EdgesEndInGraph
    CyclesAreDetected
PROPERTY FailedCallChangesOnlyList
CHECK_DEADLOCK FALSE
