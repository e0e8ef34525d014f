SPECIFICATION AllSpec
CONSTANTS
    Torrents = {1, 2}
    PageSize = 1
    MaxChanges = 2
    MaxFaults = 1
    None = None
    Scans = {"s1"}
    KindOf <- MCKindOf
    InitialDisks <- MCInitialDisks
    ScanPageSize = 2
    MaxDepth = 1
    MaxFiles = 1
    MaxReleases = 2
    MaxName = 3
    MaxDiskChanges = 2
    MaxCrashes = 1
INVARIANTS
    PartialRecordHasRow
PROPERTIES
    InventoryConverges
    CompletionIsQueued
    CompletedScanIsExact
    ScanEnds
