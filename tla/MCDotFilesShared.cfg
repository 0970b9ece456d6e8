CONSTANTS
    ActionID = {0, 1}
    Program = {"p", "q", "r"}
    TooLong = {"r"}
    FirstGraphs <- SharingGraphs
    MaxPrints = 1
SPECIFICATION DotSpec
INVARIANT
    ImportKeepsDestinations
CHECK_DEADLOCK FALSE
