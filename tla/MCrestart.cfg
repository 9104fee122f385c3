SPECIFICATION Spec
CONSTANTS
  PlanQuantity = 1
  Staged = FALSE
  SelfEnding = {"STOP", "ENTRY"}
  RefusesWhenFlat = TRUE
  Events = {"expired"}
  MaxFaults = 1
  MaxCrashes = 1
INVARIANTS
  TypeOK
  NeverResent
  EvidenceIsConservative
  StopsIntactUntilFlat
  PositionCovered
PROPERTIES
  EvidenceOnlyGrows
  ImplementsOwnedTrade
