\* Two cores online of three, fairness, one spawned child, one program with rings.
SPECIFICATION FairSpec
CONSTANTS
  NumCores = 3
  Online <- TwoOfThree
  NumSlots = 3
  MaxRuns = 1
  MaxSpawns = 1
  Ringers = {1}
  None = None
INVARIANTS QueuesSound WaitAnchored RunReturnsClean
PROPERTIES ReadyRuns LauncherReturns
CHECK_DEADLOCK FALSE
