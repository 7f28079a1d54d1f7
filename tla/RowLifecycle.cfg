CONSTANTS
  MaxResends = 6
  Budgets <- MCBudgets
SPECIFICATION FairSpec
INVARIANTS
  CallsAreBounded
  SuccessIsEarned
  NoGiveUp
  NothingFoundIsThrownAway
PROPERTIES
  EveryRowEnds
CHECK_DEADLOCK FALSE
