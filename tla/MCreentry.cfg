SPECIFICATION Spec
CONSTANTS
  PlanQuantity = 1
  Staged = FALSE
  SelfEnding = {}
  RefusesWhenFlat = FALSE
  Events = {"expired"}
  MaxFaults = 0
  MaxCrashes = 1
INVARIANTS
  ExposureIsOwned
