CONSTANTS
  None = None
  NumProcs = 3
  MaxCaps = 4
  NumEndpoints = 2
  NumFrames = 0
  VAs = {}
  MaxUserMaps = 1
  MaxFbMaps = 1
  CpuBudget = 0
  BootGrants <- DiskOwner
  LendKinds = {"BlockRange"}
  ReleaseKinds = {"BlockRange", "CpuTime"}

SPECIFICATION Spec
CHECK_DEADLOCK FALSE

INVARIANTS
  LoansSound
  ReservedEmpty
  HomesHeldOpen

PROPERTIES
  ImplementsLoans
