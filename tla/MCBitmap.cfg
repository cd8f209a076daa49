CONSTANTS
  Base = 10  LongBits = 8  IntBits = 8
  Decimals = 1  BufferLen = 9
  Offsets <- Interesting
  BitArgs = {0, 1, 2}
  BITS_PER_WORD = 2
  OFFSET_MAX = 5
  MaxWords = 3
  NULL = NULL  Plain = Plain
SPECIFICATION Spec
INVARIANTS TypeOK UndefinedOnlyAfterFailure
PROPERTIES ImplementsBitSet
