\* Two losses of power; the sessions fill the card and its directory grows.
SPECIFICATION Spec
CONSTANTS
  SS = 2
  CSIZE = 1
  NCLST = 5
  MaxName = 5
  Names <- MCNames
  OldFiles <- MCOldFiles
  MaxFaults = 0
  DATALOG_SYNC_ROWS = 2
  HdrLen = 1
  RowLen = 2
  MaxResets = 2
INVARIANTS
  
  
  NoInternalError

  
