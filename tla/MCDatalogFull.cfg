\* A session begins on a card that an earlier one has filled.
SPECIFICATION Spec
CONSTANTS
  SS = 2
  CSIZE = 1
  NCLST = 5
  MaxName = 5
  Names <- MCNames
  OldFiles <- NoOldFiles
  MaxFaults = 0
  DATALOG_SYNC_ROWS = 2
  HdrLen = 1
  RowLen = 2
  MaxResets = 1
INVARIANTS
  OpenFileHasHeader
