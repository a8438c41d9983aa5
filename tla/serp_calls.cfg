SPECIFICATION Spec
CONSTANTS
  Procs = {p1, p2}
  Readers = {p1, p2}
  Writers = {p1, p2}
  NonBlock = {p1}
  Counts = {0, 2}
  FullAtLoad = {FALSE}
  NULL = NULL
INVARIANT BufferOwned
PROPERTY NoOverwrite
