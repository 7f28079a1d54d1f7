CONSTANTS
  a = a
  b = b
  Partition <- MCPartition
  MonthOf <- MCMonthOf
  Item <- MCItem
  Home <- MCHome
  Outcomes <- MCOutcomes
  ContentVersions = FALSE
  MaxRows = 1
  MaxRewrites = 1
  MaxForces = 1
  MaxResets = 1
  MaxCrashes = 1
  MaxDefers = 0
  MentionIds <- MCMentionIds
  MaxRuns = 3
CONSTRAINT OneRewrite
SPECIFICATION ReplaySpec
INVARIANTS
  DoneIsOnRecordLive
  SkippedMeansDecided
  SkippedPublishesNothingGone
  RecordNamesStored
PROPERTIES
  NoStaleOverwrite
CHECK_DEADLOCK FALSE
