CONSTANTS
  None = None
  NumProcs = 3
  MaxCaps = 3
  NumEndpoints = 2
  NumFrames = 0
  VAs = {}
  MaxUserMaps = 1
  MaxFbMaps = 1
  CpuBudget = 0
  BootGrants <- TwoClients
  LendKinds = {"Endpoint", "Reply"}
  ReleaseKinds = {}

SPECIFICATION Spec
CHECK_DEADLOCK FALSE

INVARIANTS
  NoneStranded
  ReplyPinned

PROPERTIES
  OnlyStrandedWoken
