CONSTANTS
  Manifest <- MCManifest
  AccessionOf <- MCAccessionOf
  GenreOf <- MCGenreOf
  DayOf <- MCDayOf
  FirstScraped <- MCFirst
  Lookback = 2
  FlushRows = 2
  LastDay = 2
  MaxScrapes = 2
  MaxTroubles = 0
SPECIFICATION Spec
INVARIANT RepairedIsPickedUp
CHECK_DEADLOCK FALSE
