SPECIFICATION Spec
CONSTANTS
  Processes = {p1, p2, p3}
  Commands = {c1, c2}
  MaxFiles = 3
  MaxDeaths = 3
SYMMETRY Alike
INVARIANTS
  TypeOK
  OneAuthority
  HandoverResendsNothing
  NoRecordLost
  LateAtMostOnce
CHECK_DEADLOCK FALSE
PROPERTY ImplementsAuthority
