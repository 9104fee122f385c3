SPECIFICATION FairSpec
CONSTANTS
  Symbols = {s1}
  MaxTrade = 3
  Capacity = 2
  MaxFaults = 2
INVARIANTS
  TypeOK
  EvidenceIsLive
  FitIsOfThisSequence
  SamplesAreWhole
  EntriesOnUnbrokenFeed
PROPERTIES
  FeedReturns
