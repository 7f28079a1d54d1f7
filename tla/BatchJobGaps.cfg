CONSTANTS
  i1 = i1
  i2 = i2
  Item <- MCOne
  AnswersUsed <- MCAnswers
  MaxResends = 0
  MaxAttempts = 1
  MaxResubmissions = 2
  MaxInfraRounds = 2
  MaxDownloadTicks = 2
  AdoptionMayFail = TRUE
  MaxCrashes = 2
SPECIFICATION FairSpec
INVARIANTS
  FinalizesOnlyDecidedRows
PROPERTIES
  JobEnds
CHECK_DEADLOCK FALSE
