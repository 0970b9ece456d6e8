CONSTANTS
    Prog = {p1, p2}
    Content = {1, 2}
    NbSources = 2
    Shape <- Alike
    FiniteResult = {0, 1, 3}
    InfiniteResult = {MinusInfinity}
    Tau = 1
    MaxSize = 3
    AlwaysArchive = FALSE
SYMMETRY Programs
SPECIFICATION MCSpec
INVARIANTS
    IsRecordingWindow
    IndexesMatchRecordings
    UniqueMeansUnlikeAllRecorded
