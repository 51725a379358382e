CONSTANTS
  None = None
  NumProcs = 2
  MaxCaps = 4
  NumEndpoints = 1
  NumFrames = 1
  VAs = {1}
  MaxUserMaps = 1
  MaxFbMaps = 1
  CpuBudget = 1
  BootGrants <- PairAndScreen
  LendKinds = {"Frame", "Framebuffer", "Endpoint"}
  ReleaseKinds = {"Frame", "Framebuffer", "Endpoint"}

SPECIFICATION Spec
CHECK_DEADLOCK FALSE

INVARIANTS
  FramesOwned
  MapAuthority
  EndpointsSound
