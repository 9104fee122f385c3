SPECIFICATION Spec
CONSTANTS
  Kinds = {"ACCOUNT_UPDATE"}
  MaxChanges = 1
  MaxDrops = 1
PROPERTIES
  EntriesSeeEverything
