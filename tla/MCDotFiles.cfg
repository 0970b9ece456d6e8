CONSTANTS
    ActionID = {0, 1}
    Program = {"p", "q", "r"}
    TooLong = {"r"}
    FirstGraphs <- Graphs
    MaxPrints = 2
SPECIFICATION DotSpec
INVARIANTS
    ImportIsPrefix
    RoundTrip
CHECK_DEADLOCK FALSE
