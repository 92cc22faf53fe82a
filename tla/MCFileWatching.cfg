SPECIFICATION Spec
CONSTANTS
    Root = "/"
    Paths <- MCPaths
    Parent <- MCParent
    InitialDirs = {"logs"}
    RulesPass = {"app", "old", "deep", "link"}
    Lookback = "start"
    SmallFile = 1
    Inodes = {1, 2, 3, 4, 5, 6}
    Scenarios <- MCScenarios
    BatchSize = 2
    MaxRead = 1
    RetryLimit = 0
    MaxLines = 2
    MaxRestarts = 1
CHECK_DEADLOCK FALSE
INVARIANTS CacheAgreesWithDisk EveryLineRead RepeatsHaveCauses
PROPERTY SettlesDown
