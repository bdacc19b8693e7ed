SPECIFICATION FairSpec
CONSTANTS
  Creators = {c1, c2}
  MaxSessions = 1
  NumStripes = 2
  MaxIds = 2
  MayThrow = {1}
  MayHang = {2}
INVARIANTS RoomWhenInserting ManagerOutlivesUsers OrderlyShutdown
PROPERTIES ReapsOnlyTerminal ShutdownEnds SlotsRecovered
