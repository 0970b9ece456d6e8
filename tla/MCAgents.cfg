CONSTANTS
    Vertex = {v1, v2, v3, v4, v5}
    NoVertex = NoVertex
    NbActions = 2
    NbRoots = 3
    InitNbRoots = 2
    Score = {0, 1}
    NbIter = 2
    MaxNbEval = 3
    DeletedRatio <- TwoOfThree
    NbAgents = 3
    NbIterPerJob = 1
    Skill = {0, 1}
SYMMETRY Addresses
VIEW WithoutOldScores
SPECIFICATION MCSpec
INVARIANTS
    ResultsAreOwn
    BestRootIsBest
    BestPolicySurvives
    ChampionsAreKept
    RootsEvaluatedAlike
    SkillDecides
PROPERTY BestScoreSurvives
CHECK_DEADLOCK FALSE
