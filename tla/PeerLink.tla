------------------------------ MODULE PeerLink ------------------------------
(***************************************************************************)
(* TafnetNode's knowledge of the way to one peer: the packet size that     *)
(* gets through, found with test packets of growing size, and whether the  *)
(* peer still answers, found with the smallest of them as a ping.          *)
(*                                                                         *)
(* Datagrams are lost, duplicated and reordered; a datagram larger than    *)
(* the path allows never arrives.  Time is counted in units since an       *)
(* event, up to one beyond the timeout.                                    *)
(***************************************************************************)
EXTENDS Integers

CONSTANTS
  LowerLimit,     \* MAX_PACKET_SIZE_LOWER_LIMIT, 250
  OwnLimit,       \* m_maxPacketSize
  PeerLimit,      \* m_maxPacketSize of the peer
  PathLimit,      \* the largest datagram the network carries
  PingSize,       \* PING_PACKET_SIZE, 16
  Timeout,        \* DEAD_PEER_TIMEOUT
  PingInterval,   \* interval of TaLobby's ping timer
  MessageLength,  \* lengths of messages of the game
  MaxHellos       \* bound: HELLO messages of the peer

ConstantsOK ==
  /\ {LowerLimit, OwnLimit, PeerLimit, PathLimit, PingSize} \subseteq Nat \ {0}
  /\ 3 <= LowerLimit /\ LowerLimit <= PathLimit /\ PingSize < LowerLimit  \* smaller tests do not grow
  /\ Timeout \in Nat /\ PingInterval \in 1..Timeout /\ MessageLength \subseteq Nat /\ MaxHellos \in Nat

VARIABLES
  connected,      \* the peer is in m_peerPlayerIds
  maxPacketSize,  \* ResendRate::maxPacketSize
  sinceAck,       \* time since timestampLastPingAck, or Never
  sinceFirst,     \* time since timestampFirstPing, or Never
  sinceTimer,     \* time since sendPingToPeers was called
  net,            \* datagrams under way: [action, size]
  alive,          \* the peer's node is running
  unanswered,     \* pings since the last acknowledgement
  hellos

vars == <<connected, maxPacketSize, sinceAck, sinceFirst, sinceTimer, net, alive, unanswered, hellos>>

Never == -1

Min2(a, b) == IF a < b THEN a ELSE b
Max2(a, b) == IF a > b THEN a ELSE b

-----------------------------------------------------------------------------
(* forwardGameData: the fragments of a message. *)

NumFragments(len) == len \div (maxPacketSize + 1) + 1

FragmentSize(len) ==
  LET n == NumFragments(len)
  IN Max2(Min2((len + n - 1) \div n, OwnLimit), LowerLimit)

FragmentCount(len) == (len + FragmentSize(len) - 1) \div FragmentSize(len)

-----------------------------------------------------------------------------
(* The sizes sendPacksizeTests tries, from the lower limit on, until one   *)
(* of them reaches its own limit.                                          *)
TestSize[k \in 0..OwnLimit] ==
  IF k = 0 THEN LowerLimit ELSE Min2((1412 * TestSize[k - 1]) \div 1000, OwnLimit)

LastTest == CHOOSE k \in 0..OwnLimit : /\ TestSize[k] >= OwnLimit
                                       /\ \A j \in 0..(k - 1) : TestSize[j] < OwnLimit

TestSizes == {TestSize[k] : k \in 0..LastTest}

Datagram(action, size) == [action |-> action, size |-> size]

Init ==
  /\ connected = TRUE
  /\ maxPacketSize = LowerLimit
  /\ sinceAck = Never /\ sinceFirst = Never
  /\ sinceTimer = 0
  /\ net = {}
  /\ alive = TRUE
  /\ unanswered = 0
  /\ hellos = 0

(* The peer's HELLO is handled: sendPacksizeTests. *)
Hello ==
  /\ connected /\ alive /\ hellos < MaxHellos
  /\ maxPacketSize' = LowerLimit
  /\ net' = net \union {Datagram("PACKSIZE_TEST", n) : n \in TestSizes}
  /\ hellos' = hellos + 1
  /\ UNCHANGED <<connected, sinceAck, sinceFirst, sinceTimer, alive, unanswered>>

(* Mutant: the peer acknowledges tests beyond its own limit. *)
AcknowledgesAny(size) == TRUE

(* PACKSIZE_TEST at the peer. *)
Acknowledges(size) == size <= PeerLimit

TestArrives(size) ==
  /\ Datagram("PACKSIZE_TEST", size) \in net /\ alive
  /\ size <= PathLimit
  /\ Acknowledges(size)
  /\ net' = net \union {Datagram("PACKSIZE_ACK", size)}
  /\ UNCHANGED <<connected, maxPacketSize, sinceAck, sinceFirst, sinceTimer, alive, unanswered,
                 hellos>>

(* An acknowledgement raises the maximum. *)
Acked(size) == Max2(maxPacketSize, size)

(* PACKSIZE_ACK: registerAck, and a new maximum. *)
AckArrives(size) ==
  /\ Datagram("PACKSIZE_ACK", size) \in net /\ connected
  /\ net' = net \ {Datagram("PACKSIZE_ACK", size)}
  /\ sinceAck' = 0
  /\ unanswered' = 0
  /\ maxPacketSize' = Acked(size)
  /\ UNCHANGED <<connected, sinceFirst, sinceTimer, alive, hellos>>

Drop(d) ==
  /\ net' = net \ {d}
  /\ UNCHANGED <<connected, maxPacketSize, sinceAck, sinceFirst, sinceTimer, alive, unanswered,
                 hellos>>

(* Mutant: a peer is lost that long after the first ping. *)
LostSinceFirst == sinceFirst > Timeout

(* Mutant: a peer that never answered is not given up. *)
LostAfterAnswers == sinceAck > Timeout

(* The two conditions of sendPingToPeers. *)
Lost ==
  \/ sinceAck # Never /\ sinceAck > Timeout
  \/ sinceAck = Never /\ sinceFirst # Never /\ sinceFirst > Timeout

SendPingToPeers ==
  /\ connected
  /\ sinceTimer' = 0
  /\ IF Lost
     THEN /\ connected' = FALSE
          /\ UNCHANGED <<sinceFirst, net, unanswered>>
     ELSE /\ sinceFirst' = IF sinceFirst = Never THEN 0 ELSE sinceFirst
          /\ net' = net \union {Datagram("PACKSIZE_TEST", PingSize)}
          /\ unanswered' = Min2(unanswered + 1, Timeout)
          /\ UNCHANGED connected
  /\ UNCHANGED <<maxPacketSize, sinceAck, alive, hellos>>

Later(age) == IF age = Never THEN Never ELSE Min2(age + 1, Timeout + 1)

(* Time passes; the ping timer is never late. *)
Clock ==
  /\ connected /\ sinceTimer < PingInterval
  /\ sinceTimer' = sinceTimer + 1
  /\ sinceAck' = Later(sinceAck) /\ sinceFirst' = Later(sinceFirst)
  /\ UNCHANGED <<connected, maxPacketSize, net, alive, unanswered, hellos>>

PingTimer == sinceTimer = PingInterval /\ SendPingToPeers

PeerDies ==
  /\ alive
  /\ alive' = FALSE
  /\ UNCHANGED <<connected, maxPacketSize, sinceAck, sinceFirst, sinceTimer, net, unanswered, hellos>>

Next ==
  \/ Hello
  \/ \E size \in TestSizes \union {PingSize} : TestArrives(size) \/ AckArrives(size)
  \/ \E d \in net : Drop(d)
  \/ PingTimer \/ Clock \/ PeerDies

Spec == Init /\ [][Next]_vars

(* Time passes and the timer fires. *)
FairSpec == Spec /\ WF_vars(Clock) /\ WF_vars(PingTimer)

-----------------------------------------------------------------------------
TypeOK ==
  /\ maxPacketSize \in LowerLimit..Max2(LowerLimit, OwnLimit)
  /\ {sinceAck, sinceFirst} \subseteq Never..(Timeout + 1)
  /\ sinceTimer \in 0..PingInterval
  /\ {connected, alive} \subseteq BOOLEAN

(* The packet size that is used is the lower limit or one that got through *)
(* the network and that both ends accept, whatever acknowledgements come   *)
(* late or twice.                                                          *)
MaximumIsProven ==
  maxPacketSize > LowerLimit => maxPacketSize <= Min2(PathLimit, Min2(OwnLimit, PeerLimit))

(* A message is cut into packets that exceed the discovered size by one    *)
(* byte at most, and into at most one packet more than planned, unless it  *)
(* is of a length beyond the square of that size (forwardGameData).        *)
FragmentsFit ==
  \A len \in MessageLength :
    /\ FragmentSize(len) <= maxPacketSize + 1
    /\ len <= maxPacketSize * maxPacketSize => FragmentCount(len) <= NumFragments(len) + 1

(* A peer is given up only when every ping of a whole timeout was left     *)
(* without an answer.                                                      *)
LostOnlyIfSilent == ~connected => unanswered >= Timeout \div PingInterval

(* A peer that is gone is given up. *)
DeadPeerIsLost == ~alive ~> ~connected

=============================================================================
