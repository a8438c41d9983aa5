SPECIFICATION Spec
CONSTANTS
  Drivers = {"snull", "short", "jiq", "jit", "tiny_tty", "tiny_serial", "usb", "sleepy", "scullp", "scullv", "sculld", "scullc", "sbull", "echo", "usocat"}
  Procs = {"a", "b"}
  PoolSize = 2
  Quota = 1
  Modes <- MCModes
  Record = 2
  Page = 6
  NrTimeval = 3
  Setups <- MCSetups
  Lines = 2
  Loops = 2
  Tinys = {1, 2}
  MaxCount = 3
  XmitSize = 4
  MaxChars = 4
  Skels = {1, 2}
  MaxUrbs = 1
  MaxWrites = 2
  ScullpShape <- Shape01
  ScullpWorkloads <- MCWorkloads
  ScullvShape <- Shape11
  ScullvWorkloads <- OneMapper
  SculldShape <- Shape01
  SculldWorkloads <- OneMapper
  Positions = {1}
  Shapes <- MCShapes
  Size = 4
  Writes <- MCWrites
  BS = 2
  MaxBc = 4
  BUF_LEN = 2
  Inputs = {0, 3}
INVARIANTS
  PacketsKept FramesHandled RingRead StampsPrinted WakeupsCome PagesKept
  TtyTimers SkelLives VariantsSound MappingsSound DiskKept EchoFresh UsocatSession
CHECK_DEADLOCK FALSE
