SPECIFICATION FairSpec
CONSTANTS
  PlanQuantity = 1
  Staged = FALSE
  SelfEnding = {"ENTRY", "TP1"}
  RefusesWhenFlat = FALSE
  Events = {"external", "expired", "holdOver"}
  MaxFaults = 0
  MaxCrashes = 0
PROPERTIES
  RiskEventStopsEntries
  TradeCloses
