SPECIFICATION Spec
CONSTANTS
  Procs = {r1, w1, n1}
  Readers = {r1, n1}
  Writers = {w1, n1}
  NonBlock = {n1}
  Pollers = {}
  Asyncs = {}
  Signalled = {}
  Sizes = {2, 3}
  Counts = {2}
  Modulus = 3
INVARIANTS Inv PointersInRange BufferLifetime ReaderWakeup
PROPERTIES WakeupLostOnlyByOpen ImplementsChannel
