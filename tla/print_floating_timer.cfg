SPECIFICATION Spec
CONSTANTS
  Procs = {p1}
  PageSize = 4
  Counts = {1}
  Modulus = 4
  Missed = TRUE
  Signalled = {p1}
  Removable = TRUE
INVARIANT NoFloatingTimer
