SPECIFICATION FairSpec
CONSTANTS
  alice = alice
  bob = bob
  Node = {alice, bob}
  GameAction = {"TCP_DATA"}
  MAX_RESEND_AT_ONCE = 1
  MAX_RESEND_REQ = 2
  MaxFragments = 1
  MaxMsgs <- OneWay
  MaxConnects = 1
PROPERTIES
  EventuallyDelivered
  EventuallyAcked
