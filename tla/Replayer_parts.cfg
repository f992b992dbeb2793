SPECIFICATION Spec
CONSTANTS
  None = None
  Watchers = {1, 2}
  DemoPlayers = 2
  Units = 3
  UnitsPerTick = 2
  ReceivePolls = 1
  AckPolls = 1
  MaxSent = 9
  MaxJoins = 3
  ResyncSent = 16
  ResyncJoins = 1
  PlayDemos <- MixedDemos
  TalkDemos <- ChatDemos
  Audience = {1}
  Senders = {1, 2}
  Preload = 4
  ChatWindow = 2
  FollowTicks = 2
  SonarTick = 2
  RateMax = 2
  Speeds = {1, 2}
  NoChat = FALSE
  MaxTicks = 2
  MaxUser = 1
INVARIANTS
  ReadyAtLaunch
  IndexInRange
  DemoFed
PROPERTIES
  
  AllPlayed
CHECK_DEADLOCK FALSE
