CONSTANTS
  None = None
  NumProcs = 3
  MaxCaps = 4
  NumEndpoints = 2
  NumFrames = 1
  VAs = {}
  MaxUserMaps = 1
  MaxFbMaps = 1
  CpuBudget = 0
  BootGrants <- OwnerAndPair
  LendKinds = {"BlockRange", "Frame"}
  ReleaseKinds = {}

SPECIFICATION Spec
CHECK_DEADLOCK FALSE

INVARIANTS
  HomesHeldOpen

