SPECIFICATION PartsSpec
CONSTANTS
  Packet = {1, 2, 3, 5, 7}
  CrcOf <- Checksums
  Buckets = 2
  EXPIRY_QUEUE_LENGTH = 2
  MaxPassed = 7
  Node = {a, b, c}
  NoOne = NoOne
  MaxPorts = 2
  MaxMessages = 3
  Peer = {1, 2}
  Address = {11, 12, 21}
  Ports = {a, b, c, d}
  EnumPort = 100
  GamePort = {2300}
  MaxEvents = 4
  MaxKnocks = 1
  DoorAddress = {11, 21}
  DoorPorts = {101, 102}
  MaxDoorKnocks = 3
SYMMETRY Symmetry
INVARIANTS
  DuplicateIffRecent
  TablesMatch
  AdmittedInOrder
  AddressesLeadHome
CHECK_DEADLOCK FALSE
