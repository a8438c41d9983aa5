SPECIFICATION Spec
CONSTANTS
  Procs = {wr}
  Readers = {}
  Writers = {wr}
  Counts = {2}
  FIFO_SIZE = 4
  CharBits = 3
  MaxIn = 0
  Signals = FALSE
  SameCpu = FALSE
PROPERTY OutputInOrder
