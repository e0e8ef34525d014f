SPECIFICATION Spec
CONSTANTS
    Tasks = {t1}
    MaxGen = 9
    MaxCancels = 1
    MaxRetries = 1
    MaxCrashes = 0
INVARIANTS
    EventLogTracksGeneration
    CurrentInstanceHasItsStart
    CancelledOnlyAfterConfirmation
PROPERTY
    TerminalLeftOnlyByRetry
    StartsFollowContract
CHECK_DEADLOCK FALSE
