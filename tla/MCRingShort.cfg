SPECIFICATION Spec
CONSTANTS
  Capacity = 4
  Word = 8
  Chunk = 3
  Length = {1, 4, 9, 11}
  MAX_BODY_LEN = 10
  Patience = 2
INVARIANTS
  ShortMeansShort
CHECK_DEADLOCK FALSE
