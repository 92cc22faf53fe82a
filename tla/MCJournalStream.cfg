SPECIFICATION Spec
CONSTANTS
  Mute = {2}
  Capacity = 1
  MaxRecords = 4
  MaxFailures = 2
INVARIANTS InOrder PassedOverHaveCauses
PROPERTIES StreamGoesOn DropEnds
CHECK_DEADLOCK FALSE
