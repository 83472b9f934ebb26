SPECIFICATION Spec
CONSTANTS
  Keyword <- MCKeyword
  WordMod = 64
  Char = {32, 49, 54, 114, 115, 116}
  MaxLen = 6
  RateMax = 20
INVARIANTS
  AcceptsTheLanguage
CHECK_DEADLOCK FALSE
