\* Four clusters of two sectors of two bytes or entries.
SPECIFICATION Spec
CONSTANTS
  SS = 2
  CSIZE = 2
  NCLST = 4
  MAX_DIR = 64
  BODY = 2
  EXT = 1
  Callers <- MCCallers
INVARIANTS
  VolumeIsSound
PROPERTIES
  RefusedOnlyWhenFull
  FileTreeSpec
