SPECIFICATION FairLimiterSpec
CONSTANTS
    Tasks = {t1, t2, t3}
    MaxSlots = 2
    MaxAsks = 2
INVARIANTS SlotsCountHolders
PROPERTY EveryAskServed
CHECK_DEADLOCK FALSE
