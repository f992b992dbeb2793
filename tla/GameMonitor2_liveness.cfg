SPECIFICATION FairSpec
CONSTANTS
  DplayId = {1, 2}
  NameOf <- Names
  HostPlayerName = 1
  Side = {0}
  BattleroomTeam = {1}
  Settings <- OneMap
  UninitialisedMaxUnits = {10}
  UnitId = {11}
  GameStartsAfterTickCount = 1
  DrawGameTicks = 1
  TickMod = 64
  TickSource = {1, 2}
  MaxTick = 4
  MaxChanges = 2
PROPERTY
  DeferredResultIsLatched
