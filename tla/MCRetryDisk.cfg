SPECIFICATION FairSpec
CONSTANTS
    b1 = b1
    b2 = b2
    b3 = b3
    Batches = {b1, b2, b3}
    Size <- MCSize
    Limit = 3
    MaxAttempts = 1
    MaxErrors = 1
    MaxRestarts = 1
CHECK_DEADLOCK FALSE
INVARIANTS UsageAccounted StoredWithinLimit OnlyWholeFilesRead HandedOnce
PROPERTY StoredIsHandedOver
