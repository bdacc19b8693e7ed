SPECIFICATION FairSpec
CONSTANTS
  Producers = {p1, p2}
  Nodes = {n1, n2, n3, n4}
  NULL = NULL
  MaxPushes = 2
INVARIANTS NoUseAfterFree OnlyPendingHides
PROPERTIES RefinesAbstractMPSC
\* After the destructor nothing can happen any more.
CHECK_DEADLOCK FALSE
