SPECIFICATION SSpec
CONSTANTS
  Capacities = {1, 2, 4, 5}
  MaxCalls = 2
  MaxMessages = 9
  Thresholds = {0, 3, 4, 5, 6}
  Keeps = {0, 1, 2}
INVARIANTS RecentKept OrphansOldest NothingLost RecentVerbatim
