SPECIFICATION Spec
CONSTANTS
  Maps = {"m1", "m2"}
  KeepAlive = 2
  MaxLaunches = 2
  Humans = {1, 2}
  AIs = {8, 9}
  Host = 1
  Local = 1
  NumSlots = 4
  Movers = {1, 2}
  MaxMoves = 1
  MaxChat = 1
  LowerLimit = 250
  OwnLimit = 500
  PeerLimit = 400
  PathLimit = 600
  PingSize = 16
  Timeout = 4
  PingInterval = 2
  MessageLength = {1, 250, 251, 353, 354, 707, 1058, 1061}
  MaxHellos = 2
  Radix = 3
  IntBytes = 2
  MaxRecordSize = 2
  MaxNumArgs = 2
  Commands <- SomeCommands
  ParserSurvives = TRUE
  MaxSends = 2
  MaxBreaks = 1
INVARIANTS
  ToldTruly
  
  RosterTold
  CommandsArrive
  
  LostOnlyIfSilent
PROPERTIES
  
  GameOverEndsSession
  
  DeadPeerIsLost
  SpammingStops
  DoorOpens
CHECK_DEADLOCK FALSE
