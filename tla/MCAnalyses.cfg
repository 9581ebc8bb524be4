CONSTANTS
    Null = Null
    Malformed = Malformed
    NotText = NotText
    Floor = 2
    AtomNames = {"a", "r"}
    TupleSizes = {1, 2}
    IntegerValues = {0, 1, 2, 3}
    MaxIncludeDepth = 2
    MaxNesting = 3
    WordSize = 32
    Slack = 2
    WrapWidth = 4
SPECIFICATION Spec
INVARIANTS
    PatchesReadBack
    ForecastsHold
    SourceIsRead
    MismatchesAreProof
    ReferencesAreAnswered
    DriftIsReported
    XrefAnswersHold
    PlanAccountsForEverything
    FilesReadBack
    TargetAnswersHold
    
    LookupsHold
\* A question has no successor.
CHECK_DEADLOCK FALSE
