INIT RecoveryInit
NEXT RecoveryNext
CHECK_DEADLOCK FALSE
CONSTANTS
  Commands = {"row"}
  Media <- MCMedia
  Requests <- MCRequests
  AUUnits = 2
  ExtentAUs = 2
  InodeFile = 2
  NoCopy = NoCopy
  Bad = Bad
  Snapshots <- MCSnapshots
  Refused = Refused
  Worlds <- MCWorlds
  Here = "here"
  Directories = {"here", "live", "other"}
  Moves = 1
  NoPlace = NoPlace
  RowPages <- MCRowPages
  RowAreaStart = 6
  MinSlotOffset = 3
  BoundaryKeys = {4}
  MaxSlots = 6
  HeadSize = 3
  Sectors = 2
  RowCases <- MCRowCases
  LobStores <- MCRowLobs
  Null = Null
  LobWorlds <- MCLobWorlds
  NoPage = NoPage
  ReadSize = 2
  WalkFactor = 4
  HugeTables <- MCHugeTables
  SectionRows = 2
  NullOffset = NullOffset
  Undecodable = Undecodable
  SystemFiles0 <- MCFiles0
  Reads <- MCReads
  Required <- MCRequired
  ChunkPages = 2
  LookaheadPages = 2
  ProbedFiles <- MCProbed
  PageSizes = {1, 2, 4}
  PrefixPages = 3
  SpreadPages = 4
  OldKey = "old"
  CheckWorlds <- MCCheckWorlds
  CheckMode = 1
  MaxReported = 1
  NoObject = "none"
  RawWorlds <- MCRawWorlds
  VotePages = 3
  SampleRows = 2
  RescueRuns = 2
  Intruders = 1
  CopySources <- MCSources
  Intrusions = 2
  OutTables = {"t1", "t2", "t3"}
  MaxOpen = 2
  BufferSize = 3
  PhaseLimit = 4
  Width = 2
  RowBound = 4
INVARIANT
  RowsExact
