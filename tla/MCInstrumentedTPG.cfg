CONSTANTS
    ActionID = {0, 1}
    Program = {"p", "q", "r"}
    Data = {"x", "y"}
    Bid <- Bids
    NbLines <- Lines
    Engine = {e1, e2}
    Inputs <- Graphs
    MaxInferences = 3
SPECIFICATION Spec
INVARIANTS
    CountersMatchTraces
    PoliciesAreKept
    GeneratedCodeAgrees
    StatsMatch
    PolicyStatsCountPolicy
