\* One ring slot, two processes, a queue of two entries.
SPECIFICATION Spec
CONSTANTS
  NumProcs = 2
  NumRings = 1
  Entries = 2
  IndexMod = 6
  NumSlots = 1
  NumSubs = 2
  Cookies = {c1, c2}
  Listeners = {0}
  DiskUsers = {0, 1}
  MaxRegs = 2
  MaxEvents = 3
  None = None
SYMMETRY CookieSymmetry
INVARIANTS TypeOK ParkedOnEmpty NoneInherited RequestsAccounted StreamsTellLosses
CHECK_DEADLOCK FALSE
