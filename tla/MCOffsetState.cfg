SPECIFICATION FairStoreSpec
CONSTANTS
    f1 = f1
    b1 = b1
    b2 = b2
    t1 = t1
    t2 = t2
    Files = {f1}
    Tasks = {t1, t2}
    Batches = {b1, b2}
    NoBatch = NoBatch
    NoSpans <- EmptyList
    SpanVecs <- MCSpanVecs
    Absorb <- MCAbsorb
    BytesOf <- MCBytesOf
    Content <- MCContent
    MaxQueued = 2
    MaxKeys = 2
    MaxRestarts = 1
    MaxFailures = 1
INVARIANTS PersistedOnlyAccepted MemoryCoversDisk
PROPERTY ConfirmedIsPersisted
