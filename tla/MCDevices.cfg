CONSTANTS
  NoEntry = NoEntry
  TableFrames = {t1, t2, t3, t4, t5}
  Levels = 3
  Indices = {0, 1}
  DataFrames = {d1}
  IovaPages = 5
  FreeListLen = 2
  NoReq = NoReq
  BlkFrames = {"f1"}
  BlkClients = {"c1", "c2"}
  QSize = 6
  IdxMod = 6
  MaxBlkReqs = 6
  NoVal = NoVal
  Chains = 2
  MaxBatch = 3
  MaxReads = 4
  NoDomain = NoDomain
  BlockDevs = {"blk0"}
  BoundDev = "bind"
  IoPages = {1, 2}
  CmdRing = 7
  MaxWaits = 3
  RingCap = 5
  EventCap = 4
  Modifiers = {"shift"}
  PlainKeys = {}
  ExtendedKeys = {"up"}
  OutLen = 4
  Connected = 2
  HeartbeatOn = TRUE
  MaxPortEvents = 1
  MaxKeyChanges = 2
  MaxRepeats = 1

SPECIFICATION DevicesSpec
CHECK_DEADLOCK FALSE

INVARIANTS
  HardwareAgrees
  SpaceConserved
  CompletionsRight
  OverlapDelivers
  CachesCoherent
  RingsInStep
  AnswersMatch
PROPERTIES
  BlockOnReturns
  KeysReachReader
