SPECIFICATION ListSpec
CONSTANT MaxOffset = 9
INVARIANTS StartsAscend CoversWhatWasInserted
