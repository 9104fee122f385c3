SPECIFICATION FairSpec
CONSTANTS
  Kinds = {"ACCOUNT_UPDATE", "MARGIN_CALL", "listenKeyExpired"}
  MaxChanges = 2
  MaxDrops = 1
INVARIANTS
  TypeOK
  NoBlindSpot
  RiskKeepsBlock
PROPERTIES
  GapCloses
