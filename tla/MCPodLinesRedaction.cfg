SPECIFICATION Spec
CONSTANTS
  Pods = {"p", "q"}
  IdentMaps <- MCIdents
  Containers <- MCContainers
  Sidecars <- MCSidecars
  MaxGens = 2
  MaxFiles = 2
  MaxChanges = 4
  MaxErrors = 1
  AllSettings <- MCSettings
  Texts <- MCTexts
  PodFacts <- MCPodFacts
  Tries = 1
  LineCost = 4
INVARIANT RedactionKeepsOrder
CHECK_DEADLOCK FALSE
