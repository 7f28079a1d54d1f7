CONSTANTS
  a = a
  b = b
  c = c
  Partition <- MCPartition
  MonthOf <- MCOneMonth
  Item <- MCItem
  Home <- MCHome
  Outcomes <- MCOutcomes
  ContentVersions = FALSE
  MaxRows = 2
  MaxRewrites = 1
  MaxForces = 1
  MaxResets = 1
  MaxCrashes = 1
  MaxDefers = 1
SPECIFICATION FairSpec
INVARIANTS
  TypeOK
PROPERTIES
  ForceIsKept
  EverythingExtracted
CHECK_DEADLOCK FALSE
