SPECIFICATION FairSpec
CONSTANTS
  Procs = {rd, wr}
  Readers = {rd}
  Writers = {wr}
  NonBlock = {rd}
  Counts = {0, 2}
  FullAtLoad = {TRUE, FALSE}
  NULL = NULL
INVARIANT Inv
PROPERTY ReadsEnd
