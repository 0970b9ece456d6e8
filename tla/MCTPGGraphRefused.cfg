CONSTANTS
    Vertex = {v1, v2}
    Edge = {e1}
    Program = {p1}
    ActionID = {a1}
    NoVertex = NoVertex
    NoProgram = NoProgram
SPECIFICATION GraphSpec
INVARIANT NoEdgeDangles
CHECK_DEADLOCK FALSE
