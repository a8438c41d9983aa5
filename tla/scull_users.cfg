SPECIFICATION Spec
CONSTANTS
  p1 = p1
  p2 = p2
  p3 = p3
  root = root
  d1 = d1
  Procs = {p1, p2, p3, root}
  Clients <- MCClients
  Users <- MCUsers
  Devs = {d1}
  Capable = {root}
  MaxPos = 3
  Counts = {2}
  Params <- MCParams
  Default <- MCDefault
  Kinds = {"plain", "single", "uid", "wuid", "priv"}
  Uid <- MCUid
  Euid <- MCEuid
  Tty <- MCTty
CONSTRAINT FewHits
INVARIANTS Inv Faithful MemorySafe OpenersWoken
CHECK_DEADLOCK FALSE
