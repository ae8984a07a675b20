SPECIFICATION FairSpec
CONSTANTS
  Tests = {t1, t2}
  MaxRevision = 3
  WireMax = 2
  HostMayMiss = TRUE
  StartMayFail = TRUE
  DiskMayFail = TRUE
INVARIANTS
  TypeOK
  UiAgrees
  TestButtonRight
  MenuIsCurrent
PROPERTIES
  TestEnds
CHECK_DEADLOCK FALSE
