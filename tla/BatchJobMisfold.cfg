CONSTANTS
  i1 = i1
  i2 = i2
  Item <- MCOne
  AnswersUsed <- MCAnswers
  MaxResends = 0
  MaxAttempts = 2
  MaxResubmissions = 2
  MaxInfraRounds = 2
  MaxDownloadTicks = 2
  AdoptionMayFail = FALSE
  MaxCrashes = 2
SPECIFICATION Spec
INVARIANTS
  AnswersFitTheirRequests
CHECK_DEADLOCK FALSE
