SPECIFICATION Spec
CONSTANTS
  DplayId = {1, 2, 3}
  NameOf <- Names
  HostPlayerName = 1
  Side = {0}
  BattleroomTeam = {1, 5}
  Settings <- OneMap
  UninitialisedMaxUnits = {10}
  UnitId = {11}
  GameStartsAfterTickCount = 0
  DrawGameTicks = 1
  TickMod = 64
  TickSource = {1}
  MaxTick = 2
  MaxChanges = 3
INVARIANTS
  TypeOK
  LookupsSucceed
  FinishedStaysFinished
PROPERTY
  ScoresMatchSurvivors
