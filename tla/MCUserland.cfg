CONSTANTS
  Streams = {1, 2}
  CqLen = 2
  TableLen = 2
  PoolLen = 1
  MaxUd = 4
  MaxInput = 3
  NoFile = NoFile
  Names = {"a", "b", "c"}
  DataSectors = 4
  BitmapBits = 5
  DirSlots = {0, 1}
  MaxSectors = 2
  MaxVersions = 5
  NoTrap = NoTrap
  Pagers = {"p1", "p2"}
  PagerCores = {"c1"}
  LazyPages = {"z1", "z2"}
  Outside = {"null"}
  PageFrames = 2
  ScreenW = 3
  ScreenH = 5
  IconSide = 1
  IconGap = 1
  TitleOffset = 1
  ShellCq = 2
  ShellTable = 2
  MaxLate = 2

SPECIFICATION UserlandSpec
CHECK_DEADLOCK FALSE

INVARIANTS
  StreamHeardInOrder
  FilesystemSound
  PictureIntact
  BacklogKept
PROPERTIES
  ReadsReturnOrCounted
  FaultServed
