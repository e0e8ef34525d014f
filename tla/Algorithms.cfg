SPECIFICATION AllSpec
CONSTANTS
    PieceLength = 2
    MaxFiles = 3
    MaxSize = 3
    Manifests <- MCManifests
    Reports = {0, 2}
    Policies <- MCPolicies
    None = None
    NoExtension = NoExtension
    Rows = 3
    SourceColumns = 2
    Weights = {0, 1, 2}
    Infinity = 1000
INVARIANTS
    SafeIsExact
    ResumedDataIsPresent
    MissingIsNotUnderstated
    AssignmentIsUniqueBest
    DecisionIsSound
    QueriesKeepMatches
    SelectionIsOptimal
CHECK_DEADLOCK FALSE
