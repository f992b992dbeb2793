SPECIFICATION Spec
CONSTANTS
  Client = {c1}
  Delays <- OffOrOn
  CHUNK_SIZE = 1
  MaxBytesPerUserPerSecond = 2
  MaxSize = 2
  MaxDrops = 0
  MaxRestarts = 0
  MayRaiseDelay = TRUE
  MaySubscribeEarly = TRUE
PROPERTIES
  DisabledSendsNothing
