\* Two faults, a reset and an exchange of the card.
SPECIFICATION FairSpec
CONSTANTS
  WordMod = 8
  SD_BLOCK_SIZE = 2
  NBLOCK = 3
  Content = {"a", "b"}
  CMD0_TRIES = 2
  MaxCount = 2
  MaxFaults = 2
  MaxResets = 1
  MaxSwaps = 1
INVARIANTS
  ReadyForTheFileSystem
  NothingInFlight
PROPERTIES
  OnlyFaultsFail
  EveryCallEnds
  ImplementsBlockDevice
CHECK_DEADLOCK FALSE
