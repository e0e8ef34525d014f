SPECIFICATION AllSpec
CONSTANTS
    None = None
    Processes = {"old", "new", "fork"}
    MigrationsOf <- MCMigrationsOf
    MaxStarts = 3
    LinkPlans = {"p", "q"}
    LinksOf <- MCLinksOf
    Sources = {"s1", "s2", "s3"}
    Inodes = {"n1", "n2", "n3", "other", "symlink"}
    InodeOf <- MCInodeOf
    InitialFiles <- MCInitialFiles
    LinkDevice = "disk"
    MaxLinkRuns = 2
    MaxLinkChanges = 1
    MaxLinkCrashes = 1
INVARIANTS
    OneWriter
    ServesItsOwnSchema
    LinksAreExact

    
CHECK_DEADLOCK FALSE
