CONSTANTS
  Manifest <- MCManifest
  AccessionOf <- MCAccessionOf
  GenreOf <- MCGenreOf
  DayOf <- MCDayOf
  FirstScraped <- MCFirst
  Lookback = 2
  FlushRows = 2
  LastDay = 2
  MaxScrapes = 1
  MaxTroubles = 2
SPECIFICATION FairSpec
INVARIANT ScannedIsStored
PROPERTIES
  SuccessLeavesNothing
  EverythingReachesReaders
CHECK_DEADLOCK FALSE
