SPECIFICATION FairSpec
CONSTANTS
  Procs = {p1}
  PageSize = 4
  Counts = {2, 5}
  Modulus = 1
  Missed = FALSE
  Signalled = {p1}
  Removable = TRUE
PROPERTIES WriteCompletes
