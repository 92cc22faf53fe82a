SPECIFICATION Spec
CONSTANTS
    MaxLines = 4
    Tries = 2
    ReadLimit = 2
    Excluded = {2}
    Delays = {0, 1}
    MaxFlips = 2
    MaxFaults = 1
CONSTRAINTS InStep FewerLines
INVARIANTS LinesWhole NothingLost RepeatsHaveCauses
CHECK_DEADLOCK FALSE
