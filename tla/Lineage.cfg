CONSTANTS
  Instrument <- MCInstrument
  Named <- MCNamed
  Seen <- MCSeen
  Day <- MCDay
  Names <- MCNames
  OtherLinks <- MCOtherLinks
SPECIFICATION Spec
INVARIANTS
  FamiliesHaveHeads
  OnlyCyclesLosePointers
CHECK_DEADLOCK FALSE
