SPECIFICATION Spec
CONSTANTS
  Procs = {wr}
  Readers = {}
  Writers = {wr}
  NonBlock = {}
  Counts = {2}
  FullAtLoad = {FALSE}
  NULL = NULL
PROPERTY WriteSendsAll
