\* Two cores: a preemption on one and a steal by the other.
SPECIFICATION Spec
CONSTANTS
  NumCores = 2
  Online <- TwoOfTwo
  NumSlots = 3
  MaxRuns = 1
  MaxSpawns = 0
  Ringers = {}
  None = None
INVARIANT KernelStackOwned
CHECK_DEADLOCK FALSE
