\* Interrupt against poll and the line editor: a ring of three slots, lines of two
\* characters, a fair main loop.
SPECIFICATION FairSpec
CONSTANTS
  Keyword <- MCKeyword
  WordMod = 16
  RXBUF_SIZE = 3
  LINE_MAX = 3
  Byte = {8, 13, 115}
  MaxTyped = 4
  MaxLost = 1
INVARIANTS
  TypeOK
  LineIsTheEditedInput
  NeverOverReports
PROPERTIES
  ImplementsFifo
  BytesAreDrained
  
CHECK_DEADLOCK FALSE
