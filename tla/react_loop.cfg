SPECIFICATION FairSpec
CONSTANTS
    RecursionLimit = 4
    MaxPairs = 2
    MaxTruncations = 2
    CapEnabled = TRUE
INVARIANTS TypeOK WindowAligned LlmCallsAccounted ToolRoundsTraced SweptBeforeCommitAndExit
PROPERTY VisitEnds
