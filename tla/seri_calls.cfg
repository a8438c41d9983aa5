SPECIFICATION FairSpec
CONSTANTS
  Procs = {rd, wr}
  Readers = {rd}
  Writers = {wr}
  Counts = {3}
  FIFO_SIZE = 3
  CharBits = 2
  MaxIn = 2
  Signals = TRUE
  SameCpu = FALSE
INVARIANTS Inv HandlerUndisturbed
PROPERTIES OutputExact ReadReturnsLine
