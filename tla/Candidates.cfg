SPECIFICATION AllSpec
CONSTANTS
    None = None
    Policy = "live"
    OtherPolicies = {"dry"}
    DryRun = {"dry"}
    Deadline = 2
    Interval = 1
    Sources = {"good", "poor", "twin"}
    VerdictOf <- MCVerdictOf
    InitialSources <- MCInitialSources
    FileBudget = 1
    FilesOf = 1
    MaxAge = 2
    MaxSubmissions = 2
    MaxFaults = 2
    MaxContent = 3
    Count <- MCCount
    Fingerprint <- MCFingerprint
    MaxManifestFaults = 2
INVARIANTS
    WholeListings
    LoadedAfterLastChange
    TimeoutIsHonest
    InjectedPlanIsPlanned
PROPERTIES
    CompleteSourceIsJudged
    CandidateIsDecided
CHECK_DEADLOCK FALSE
