\* Three resets anywhere, oscillators that die, and a calendar that passes
\* midnight.
SPECIFICATION FairSpec
CONSTANTS
  PREDIV_S = 1
  SECS_PER_DAY = 2
  MaxTicks = 12
  MaxResets = 3
  MaxFaults = 2
INVARIANTS
  MarkedIsSeeded
  SourceIsLive
PROPERTIES
  NowIsOneInstant
  KeptThroughResets
  StartRecovers
