\* A loss between the message and the reset of rx_dropped.
SPECIFICATION Spec
CONSTANTS
  Keyword <- MCKeyword
  WordMod = 16
  RXBUF_SIZE = 4
  LINE_MAX = 2
  Byte = {13, 115}
  MaxTyped = 3
  MaxLost = 2
INVARIANTS
  LossesAccounted
CHECK_DEADLOCK FALSE
