CONSTANTS
  MaxFile = 2
  Keep = 1
  KeepReports = 1
  Capacity = 3
  Size = 2
  MaxFaults = 2
SPECIFICATION FairSpec
INVARIANT TypeOK
INVARIANT ParsedIsKept
INVARIANT KnownWasRead
PROPERTY ExpiredIsDeleted
PROPERTY OldReportGoes
PROPERTY FullDiskClears
CHECK_DEADLOCK FALSE
