SPECIFICATION Spec
CONSTANTS
  Pods = {"p", "q"}
  IdentMaps <- MCIdents
  Containers <- MCContainers
  Sidecars <- MCSidecars
  MaxGens = 2
  MaxFiles = 2
  MaxChanges = 6
  MaxErrors = 2
  AllSettings <- MCSettings
  Texts <- MCTexts
  PodFacts <- MCPodFacts
  Tries = 1
  LineCost = 4
INVARIANTS KeptWhileLogged LivePodsKnown RulesApplied PanicsHaveCauses ExcludedPodsSilent
CONSTRAINT FewerChanges
CHECK_DEADLOCK FALSE
PROPERTY WatchComesBack
