CONSTANTS
  None = None
  NumProcs = 4
  MaxCaps = 5
  NumEndpoints = 1
  NumFrames = 0
  VAs = {}
  MaxUserMaps = 1
  MaxFbMaps = 1
  CpuBudget = 0
  BootGrants <- ThreeClients
  LendKinds = {}
  ReleaseKinds = {}

SPECIFICATION FairSpec
CHECK_DEADLOCK FALSE

INVARIANTS
  CallersAnswerable

PROPERTIES
  BlockedResumes
