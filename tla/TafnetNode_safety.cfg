SPECIFICATION Spec
CONSTANTS
  alice = alice
  bob = bob
  Node = {alice, bob}
  GameAction = {"TCP_DATA"}
  MAX_RESEND_AT_ONCE = 1
  MAX_RESEND_REQ = 2
  MaxFragments = 2
  MaxMsgs <- OneWay
  MaxConnects = 1
INVARIANTS
  TypeOK
  InOrderDelivery
  NothingLost
PROPERTY
  Refinement
