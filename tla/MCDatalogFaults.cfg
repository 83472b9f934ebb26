\* Two accesses to the card fail and power is lost once, on a card with two
\* sectors to the cluster.
SPECIFICATION LiveSpec
CONSTANTS
  SS = 2
  CSIZE = 2
  NCLST = 4
  MaxName = 5
  Names <- MCNames
  OldFiles <- NoOldFiles
  MaxFaults = 2
  DATALOG_SYNC_ROWS = 2
  HdrLen = 1
  RowLen = 2
  MaxResets = 1
INVARIANTS
  ShortWriteMeansFull
  LossIsBounded
PROPERTIES
  SyncMakesDurable
  DurableLogSpec
  OpensInTheEnd
