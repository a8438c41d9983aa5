SPECIFICATION Spec
CONSTANTS
  Procs = {p1, p2}
  PageSize = 4
  Counts = {1, 3}
  Modulus = 4
  Missed = TRUE
  Signalled = {}
  Removable = FALSE
SYMMETRY Symmetry
INVARIANTS Inv OutputNeverStalls StoredIsActive SleepersWaitForOutput
PROPERTIES StrobeWhenReady ImplementsChannel
