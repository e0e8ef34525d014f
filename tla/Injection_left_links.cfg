SPECIFICATION ShrinkingSpec
CONSTANTS
    a = a
    b = b
    Files = {a, b}
    Plans <- MCPlans
    MaxRuns = 2
    MaxAttempts = 2
    MaxFaults = 0
INVARIANT NothingUnsafeStarts
CHECK_DEADLOCK FALSE
