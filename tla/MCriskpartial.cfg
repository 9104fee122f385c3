SPECIFICATION FairSpec
CONSTANTS
  PlanQuantity = 2
  Staged = FALSE
  SelfEnding = {}
  RefusesWhenFlat = FALSE
  Events = {"external"}
  MaxFaults = 0
  MaxCrashes = 0
PROPERTIES
  RiskEventFlattens
