CONSTANTS
  f1 = f1
  f2 = f2
  f3 = f3
  Filing <- MCFiling
  DayOf <- MCDayOf
  MonthOf <- MCMonthOf
  Gated = {2}
  CasAttempts = 2
  MaxRewrites = 1
  MaxTroubles = 3
CONSTRAINT FirstMonthChanges
SPECIFICATION FairSpec
INVARIANTS
  CompleteIsCurrent
  DoneFilingsHaveVerdicts
  FailedFilingsAreListed
PROPERTIES
  OtherRunsEntriesSurvive
  EverythingIsTriaged
CHECK_DEADLOCK FALSE
