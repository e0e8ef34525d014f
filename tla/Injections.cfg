SPECIFICATION AllSpec
CONSTANTS
    a = a
    b = b
    Files = {a, b}
    Plans <- MCPlans
    MaxRuns = 1
    MaxAttempts = 2
    MaxFaults = 3
INVARIANTS NothingUnsafeStartsInEither VerdictIsTrue
PROPERTIES DecidedOnce SingleInjectionEnds
CHECK_DEADLOCK FALSE
