SPECIFICATION Spec
CONSTANTS
  r1 = r1  r2 = r2  l1 = l1  l2 = l2
  Releasers <- TwoReleasers
  Lists <- TwoLists
  Policies <- ThreeTerms
  Version <- PurposesOfFirst
  Manifests <- FourManifests
  NoRelease <- Nothing
  MaxRequests = 4
  MaxTrouble = 1
SYMMETRY Symmetric
CHECK_DEADLOCK FALSE
INVARIANTS
  ConsentInForceWasGiven
  StatusTellsActive
PROPERTIES
  RemovalWasSeen
