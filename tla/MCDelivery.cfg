SPECIFICATION FairSpec
CONSTANTS
    s1 = s1
    s2 = s2
    Slots = {s1, s2}
    LineCount = 3
    MaxFailures = 1
    MaxReloads = 1
    MaxRestarts = 1
CHECK_DEADLOCK FALSE
INVARIANTS DuplicatesHaveCauses
PROPERTIES PromiseKept EveryLineSettled
