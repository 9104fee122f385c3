SPECIFICATION FairSpec
CONSTANTS
  PlanQuantity = 1
  Staged = FALSE
  SelfEnding = {}
  RefusesWhenFlat = TRUE
  Events = {"daily", "newDay"}
  MaxFaults = 0
  MaxCrashes = 0
PROPERTIES
  BreachFlattens
