CONSTANTS
  poll = poll
  daily = daily
  Run <- MCRun
  Patient <- MCPatient
  Deadline <- MCDeadline
  NoHolder = NoHolder
  TTL = 2
  LeaseWait = 1
  LeasePoll = 1
  Interval = 1
  LastStart = 3
  MaxTime = 9
SPECIFICATION FairSpec
INVARIANTS
  UnexpiredHoldersAgree
  ShortRunsOwnTheirLease
  OverlappingWriterIsStale
PROPERTIES
  ExclusiveLeaseSpec
  OnlyTheHolderReleases
  LeaseComesFree
CHECK_DEADLOCK FALSE
