SPECIFICATION SuiteSpec
CONSTANTS
    Words = {0, 1, 2}
    Rates = {60}
    FailureLimit = 2
    Cells = {"a", "b", "c"}
    Width = 10
    MaxCandidates = 2
    Starts = {0, 900, 1020}
    Steps = {0, 13, 15, 17}
    Frames = {0, 60, 390}
    Pauses = {1, 10, 29}
    Page = 2
    Trees <- MCTrees
    MaxSize = 6
INVARIANTS
    SelectionInv
    SamplerInv
    ReadInv
PROPERTIES
    LeakIsReported
    SteadyWordIsRead
    SteadyCounterWins
