SPECIFICATION FairSpec
CONSTANTS
  Procs = {r1, w1}
  Readers = {r1}
  Writers = {w1}
  NonBlock = {}
  Pollers = {r1}
  Asyncs = {r1}
  Signalled = {w1}
  Sizes = {3}
  Counts = {0, 2}
  Modulus = 3
PROPERTIES CloseCompletes SleepersServed
