SPECIFICATION Spec
CONSTANTS
  PlanQuantity = 2
  Staged = TRUE
  SelfEnding = {}
  RefusesWhenFlat = FALSE
  Events = {"invalidation"}
  MaxFaults = 0
  MaxCrashes = 0
INVARIANTS
  TargetsWithinFill
  FlattenNeverDuplicated
  ExposureIsOwned
