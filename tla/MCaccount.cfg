CONSTANTS
  StartWallet = 4
  PnLs <- MCPnLs
  Transfers <- MCTransfers
  Upnls <- MCUpnls
  LimitPct = 25
  Day = 2
  Grace = 0
  Overlap = 2
  MayCrash = TRUE
  MaxDelay = 2
  MaxTime = 3
  MaxRows = 1
SPECIFICATION Spec
INVARIANTS TypeOK NothingForgotten SnapshotIsBacked ExactVerdictsHideNothing
PROPERTIES BreachIsFinal OneBaseline
