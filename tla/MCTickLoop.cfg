\* The schedule across the wrap of a 3-bit millisecond counter.
SPECIFICATION FairSpec
CONSTANTS
  WordMod = 8
  SECOND = 4
  RATE_HZ_DEFAULT = 2
  RATE_HZ_MIN = 1
  RATE_HZ_MAX = 3
  RateArg <- MCRateArg
  StartTime = {0, 6}
  MaxLag = 3
  MaxOverruns = 1
INVARIANTS
  TypeOK
  LagIsMeasured
  BarometerKeepsItsBeat
  RowIsOfThisTick
PROPERTIES
  OnSchedule
  BarometerIsReadForEver
