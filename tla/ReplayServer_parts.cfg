SPECIFICATION Spec
CONSTANTS
  Client = {c1}
  Delays <- OffOrOnOrTwo
  CHUNK_SIZE = 1
  MaxBytesPerUserPerSecond = 2
  MaxSize = 3
  MaxDrops = 1
  MaxRestarts = 1
  ResumeDelays <- OffOrOnOrTwo
  ResumeChunk = 2
  ResumeBytes = 3
  ResumeSize = 4
  ResumeDrops = 2
  Player = {h, p}
  Host = h
  GAME_EXPIRY_TICKS = 2
  MinMoves = 2
  MaxMoves = 2
  MaxQueue = 2
  MaxSocketDrops = 2
  Base = 3
  MaxRecordLength = 6
  Sizes = {0, 1, 4, 5}
  NumPlayers = 2
  MaxPackets = 2
  Packet <- Lobby
  Observer = {g1, g2}
  SY_UNIT_ID = 9
INVARIANTS
  
  NumbersKept
  HandledAsWritten
  SameFingerprint
PROPERTIES
  EscrowRespected
  RecordingOnlyGrows
  WatcherCatchesUp
  
CHECK_DEADLOCK FALSE
