\* Two faults on the bus, three hold-ups of the driver: enough for a register
\* number that is refused unnoticed.
SPECIFICATION FairSpec
CONSTANTS
  MaxFaults = 2
  MaxLate = 3
  CALIB_LEN = 4
  DATA_LEN = 3
INVARIANTS
  ReadIsExact
  SampleIsFresh
PROPERTIES
  CalibratedBeforeUse
  OnlyFaultsFail
  EveryCallEnds
CHECK_DEADLOCK FALSE
