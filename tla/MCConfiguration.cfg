SPECIFICATION Spec
CONSTANTS
  Offered <- MCOffered
  Bases <- MCBases
  Escaped <- MCEscaped
  MaxGiven = 3
INVARIANTS FirstSourceCounts ListsAddUp
