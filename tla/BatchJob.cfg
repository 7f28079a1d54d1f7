CONSTANTS
  i1 = i1
  i2 = i2
  Item <- MCTwo
  AnswersUsed <- MCAnswers
  MaxResends = 0
  MaxAttempts = 2
  MaxResubmissions = 2
  MaxInfraRounds = 1
  MaxDownloadTicks = 1
  AdoptionMayFail = FALSE
  MaxCrashes = 2
SPECIFICATION Spec
INVARIANT
  OneDeathMixesNoAnswers
PROPERTY
  PaidWorkSpec
SYMMETRY MCSymmetry
CHECK_DEADLOCK FALSE
