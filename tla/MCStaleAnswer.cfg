\* One ring slot that is released with a request in flight and registered again.
SPECIFICATION Spec
CONSTANTS
  NumProcs = 2
  NumRings = 1
  Entries = 2
  IndexMod = 6
  NumSlots = 1
  NumSubs = 2
  Cookies = {c1}
  Listeners = {}
  DiskUsers = {0, 1}
  MaxRegs = 2
  MaxEvents = 0
  None = None

INVARIANT AnswersOwnRequests
CHECK_DEADLOCK FALSE
