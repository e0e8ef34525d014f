SPECIFICATION AllSpec
CONSTANTS
    None = None
    Attempts = {a1}
    Indexers = {i1}
    IndexerOf <- MCIndexerOf
    SourceOf <- MCSourceOf
    Catalogues <- MCCatalogues
    TagPolicy <- MCTagPolicy
    Results <- MCResults
    MaxResults = 1
    RetryAfters = {None, 3}
    RetryMax = 2
    MaxOthers = 1
    ActivityTries = 2
    MaxAge = 1
    MaxFaults = 2
    Backfills = {"b1"}
    Completions = {"c1"}
    Torrents = {1, 2, 3}
    BackfillIndexers = {"i1", "i2"}
    CompletedOf <- MCCompletedOf
    LabelsOf <- MCLabelsOf
    Selections <- MCSelections
    PageSize = 2
    MaxId = 3
    MaxInventoryChanges = 2
    MaxCrashes = 1
INVARIANTS
    TerminalStateIsTerminal
    CountedCandidatesAreLinked
    BackfillCovers
PROPERTIES
    EarlyByWaitAtMost
    SearchesEnd
CHECK_DEADLOCK FALSE
