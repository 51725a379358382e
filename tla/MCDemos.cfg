CONSTANTS
  None = None
  NumProcs = 4
  MaxCaps = 9
  NumEndpoints = 4
  NumFrames = 9
  VAs = {1, 2, 3, 4, 5, 6}
  MaxUserMaps = 6
  MaxFbMaps = 1
  CpuBudget = 2
  Rounds = 10
  NumRings = 3
  BootGrants <- NobodyYet
  LendKinds <- Kinds
  ReleaseKinds <- Kinds

SPECIFICATION DemoSpec
CHECK_DEADLOCK FALSE

INVARIANT DemosSucceed
PROPERTY DemosComplete
