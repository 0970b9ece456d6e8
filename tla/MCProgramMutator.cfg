CONSTANTS
    NbRegisters = 2
    NbConstants = 2
    InstructionSet <- FourInstructions
    EnvironmentData <- TwoImages
    ConstantValue = {0, 1}
    MaxProgramSize = 3
    DrawnLocation <- Ends
SPECIFICATION MCSpec
INVARIANTS
    LinesStayCorrect
    IntronsAreExact
    IntronsDoNotMatter
    GeneratedCodeComputesResult
    IdenticalProgramsGiveSameResult
