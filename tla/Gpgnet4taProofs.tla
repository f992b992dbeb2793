-------------------------- MODULE Gpgnet4taProofs --------------------------
(***************************************************************************)
(* The parts of the gpgnet4ta process for every value of their constants:  *)
(* the link to a peer (PeerLink), the launch of the game (Launch), the     *)
(* roster told to GpgNet (GameEvents) and the stream of its commands       *)
(* (GpgNetParse).                                                          *)
(***************************************************************************)
EXTENDS MCGpgnet4ta, NatLemmas, SequenceTheorems, TLAPS

-----------------------------------------------------------------------------
(* PeerLink: the test sizes. *)

LEMMA LinkConstants ==
  /\ LowerLimit \in Nat /\ OwnLimit \in Nat /\ PeerLimit \in Nat /\ PathLimit \in Nat /\ PingSize \in Nat
  /\ 3 <= LowerLimit /\ 1 <= OwnLimit /\ LowerLimit <= PathLimit /\ PingSize < LowerLimit
  /\ Timeout \in Nat /\ PingInterval \in Nat /\ 1 <= PingInterval /\ PingInterval <= Timeout
  /\ MessageLength \subseteq Nat /\ MaxHellos \in Nat
<1>1. /\ {LowerLimit, OwnLimit, PeerLimit, PathLimit, PingSize} \subseteq Nat \ {0}
      /\ 3 <= LowerLimit /\ LowerLimit <= PathLimit /\ PingSize < LowerLimit
      /\ Timeout \in Nat /\ PingInterval \in 1..Timeout /\ MessageLength \subseteq Nat /\ MaxHellos \in Nat
  BY ConstantsAssumption DEF Link!ConstantsOK
<1> QED
  BY <1>1

(* A test is larger than the one before it, up to the limit. *)
NextSize(x) == Link!Min2((1412 * x) \div 1000, OwnLimit)

LEMMA NextSizeGrows ==
  ASSUME NEW x \in Nat
  PROVE  /\ NextSize(x) \in Nat /\ NextSize(x) <= OwnLimit
         /\ 3 <= x => NextSize(x) >= x + 1 \/ NextSize(x) = OwnLimit
<1>1. (1412 * x) \div 1000 \in Nat /\ (3 <= x => (1412 * x) \div 1000 >= x + 1)
  OBVIOUS
<1> QED
  BY <1>1, LinkConstants DEF NextSize, Link!Min2

LEMMA TestSizeDef ==
  /\ Link!TestSize[0] = LowerLimit
  /\ \A k \in 1..OwnLimit : Link!TestSize[k] = NextSize(Link!TestSize[k - 1])
<1> DEFINE step == [x \in (1..OwnLimit) \X Nat |-> NextSize(x[2])]
           Is(f) == f = [k \in 0..OwnLimit |-> IF k = 0 THEN LowerLimit ELSE NextSize(f[k - 1])]
<1>1. step \in [(1..OwnLimit) \X Nat -> Nat]
  BY NextSizeGrows
<1>2. OwnLimit \in Nat /\ LowerLimit \in Nat
  BY LinkConstants
<1>3. PICK f \in [0..OwnLimit -> Nat] : IsRecursion(f, LowerLimit, OwnLimit, step)
  <2> HIDE DEF step
  <2> QED
    BY <1>1, <1>2, RecursionExists
<1>4. ASSUME NEW k \in 1..OwnLimit PROVE f[k] = NextSize(f[k - 1])
  <2>1. <<k, f[k - 1]>> \in (1..OwnLimit) \X Nat
    BY <1>2
  <2>2. step[<<k, f[k - 1]>>] = NextSize(f[k - 1])
    BY <2>1
  <2> HIDE DEF step
  <2> QED
    BY <1>3, <2>2 DEF IsRecursion
<1>5. Is(f)
  <2> DEFINE g == [k \in 0..OwnLimit |-> IF k = 0 THEN LowerLimit ELSE NextSize(f[k - 1])]
  <2>1. ASSUME NEW k \in 0..OwnLimit PROVE f[k] = g[k]
    BY <1>2, <1>3, <1>4 DEF IsRecursion
  <2> HIDE DEF g
  <2>2. DOMAIN g = 0..OwnLimit /\ g = [k \in 0..OwnLimit |-> g[k]]
    BY DEF g
  <2>3. f = g
    BY <2>1, <2>2
  <2> QED
    BY <2>3 DEF g
<1>6. Link!TestSize = CHOOSE g : Is(g)
  BY DEF Link!TestSize, NextSize
<1>7. Is(Link!TestSize)
  <2> HIDE DEF Is
  <2> QED
    BY <1>5, <1>6
<1> DEFINE h == Link!TestSize
<1>8. h = [k \in 0..OwnLimit |-> IF k = 0 THEN LowerLimit ELSE NextSize(h[k - 1])]
  BY <1>7
<1> HIDE DEF h
<1>9. \A k \in 0..OwnLimit : h[k] = IF k = 0 THEN LowerLimit ELSE NextSize(h[k - 1])
  BY <1>8
<1> QED
  BY <1>2, <1>9 DEF h

LEMMA TestSizeGrows ==
  \A k \in 0..OwnLimit : /\ Link!TestSize[k] \in Nat
                         /\ Link!TestSize[k] >= LowerLimit + k \/ Link!TestSize[k] >= OwnLimit
                         /\ k > 0 => Link!TestSize[k] <= OwnLimit
<1> DEFINE S == {k \in 0..OwnLimit : /\ Link!TestSize[k] \in Nat
                                     /\ Link!TestSize[k] >= LowerLimit + k \/ Link!TestSize[k] >= OwnLimit
                                     /\ k > 0 => Link!TestSize[k] <= OwnLimit}
<1>1. 0 \in S
  BY LinkConstants, TestSizeDef
<1>2. ASSUME NEW k \in 0..OwnLimit, k \in S, k < OwnLimit PROVE k + 1 \in S
  <2>1. k + 1 \in 1..OwnLimit /\ Link!TestSize[k + 1] = NextSize(Link!TestSize[k])
    BY <1>2, LinkConstants, TestSizeDef
  <2>2. /\ NextSize(Link!TestSize[k]) \in Nat /\ NextSize(Link!TestSize[k]) <= OwnLimit
        /\ 3 <= Link!TestSize[k] =>
             NextSize(Link!TestSize[k]) >= Link!TestSize[k] + 1 \/ NextSize(Link!TestSize[k]) = OwnLimit
    BY <1>2, NextSizeGrows
  <2>3. CASE Link!TestSize[k] >= LowerLimit + k
    BY <1>2, <2>1, <2>2, <2>3, LinkConstants
  <2>4. CASE Link!TestSize[k] >= OwnLimit
    <3>1. Link!TestSize[k] \in Nat /\ (1412 * Link!TestSize[k]) \div 1000 >= Link!TestSize[k]
      BY <1>2
    <3>2. NextSize(Link!TestSize[k]) = OwnLimit
      BY <2>4, <3>1, LinkConstants DEF NextSize, Link!Min2
    <3> QED
      BY <1>2, <2>1, <3>2, LinkConstants
  <2> QED
    BY <1>2, <2>3, <2>4
<1>3. 0..OwnLimit \subseteq S
  <2> HIDE DEF S
  <2> QED
    BY <1>1, <1>2, UpTo, LinkConstants
<1> QED
  BY <1>3

(* The tests end: one of them reaches the limit. *)
LEMMA LastTestOK ==
  Link!LastTest \in 0..OwnLimit
<1> DEFINE S == {k \in 0..OwnLimit : Link!TestSize[k] >= OwnLimit}
<1>1. OwnLimit \in S
  BY TestSizeGrows, LinkConstants
<1>2. S \in SUBSET Nat
  BY LinkConstants
<1>3. PICK k \in S : \A j \in S : k <= j
  BY <1>1, <1>2, SmallestOf
<1>4. \A j \in 0..(k - 1) : Link!TestSize[j] < OwnLimit
  BY <1>2, <1>3, TestSizeGrows, LinkConstants
<1> QED
  BY <1>3, <1>4 DEF Link!LastTest

(* No test but the first is beyond the limit. *)
LEMMA TestSizesOK ==
  ASSUME NEW size \in Link!TestSizes \union {PingSize}
  PROVE  size \in Nat /\ (size > LowerLimit => size <= OwnLimit)
<1>1. CASE size = PingSize
  BY <1>1, LinkConstants
<1>2. CASE size \in Link!TestSizes
  <2>1. PICK k \in 0..Link!LastTest : size = Link!TestSize[k]
    BY <1>2 DEF Link!TestSizes
  <2>2. k \in 0..OwnLimit
    BY LastTestOK, LinkConstants
  <2> QED
    BY <2>1, <2>2, TestSizeGrows, TestSizeDef, LinkConstants
<1> QED
  BY <1>1, <1>2

-----------------------------------------------------------------------------
(* Division with a remainder. *)
LEMMA DivisionOK ==
  ASSUME NEW x \in Nat, NEW y \in Nat, 1 <= y
  PROVE  /\ x \div y \in Nat
         /\ (x \div y) * y <= x
         /\ x < (x \div y + 1) * y
  OBVIOUS

LEMMA QuotientAtMost ==
  ASSUME NEW x \in Nat, NEW y \in Nat, 1 <= y, NEW u \in Nat, x < (u + 1) * y
  PROVE  x \div y <= u
<1> DEFINE q == x \div y
<1>1. q \in Nat /\ q * y <= x
  BY DivisionOK
<1> HIDE DEF q
<1>2. SUFFICES ASSUME u + 1 <= q PROVE FALSE
  BY <1>1 DEF q
<1>3. (u + 1) * y <= q * y
  BY <1>1, <1>2
<1>4. (u + 1) * y \in Nat /\ q * y \in Nat
  BY <1>1
<1> QED
  BY <1>1, <1>3, <1>4

(* forwardGameData: the number of packets planned is enough for packets    *)
(* that exceed the discovered size m by one byte.                          *)
LEMMA FragmentsOK ==
  ASSUME maxPacketSize \in Nat, LowerLimit <= maxPacketSize,
         maxPacketSize > LowerLimit => maxPacketSize <= OwnLimit
  PROVE  Link!FragmentsFit
<1> SUFFICES ASSUME NEW len \in MessageLength
             PROVE  /\ Link!FragmentSize(len) <= maxPacketSize + 1
                    /\ len <= maxPacketSize * maxPacketSize =>
                         Link!FragmentCount(len) <= Link!NumFragments(len) + 1
  BY DEF Link!FragmentsFit
<1> DEFINE m == maxPacketSize
           n == Link!NumFragments(len)
           c == (len + n - 1) \div n
           f == Link!FragmentSize(len)
<1>0. len \in Nat /\ m \in Nat /\ 1 <= m
  BY LinkConstants
<1>1. n \in Nat /\ 1 <= n /\ (n - 1) * (m + 1) <= len /\ len < n * (m + 1)
  <2> DEFINE q == len \div (m + 1)
  <2>1. q \in Nat /\ q * (m + 1) <= len /\ len < (q + 1) * (m + 1)
    BY <1>0, DivisionOK
  <2>2. n = q + 1
    BY DEF Link!NumFragments
  <2> HIDE DEF q, n, m
  <2> QED
    BY <1>0, <2>1, <2>2
<1> HIDE DEF n
<1>2. c \in Nat /\ c * n <= len + n - 1 /\ len + n - 1 < (c + 1) * n
  <2>1. len + n - 1 \in Nat
    BY <1>0, <1>1
  <2> QED
    BY <1>1, <2>1, DivisionOK
<1>3. c <= m + 1
  <2>1. len + n - 1 \in Nat /\ m + 1 \in Nat /\ len + n - 1 < ((m + 1) + 1) * n
    <3> HIDE DEF m
    <3>1. ((m + 1) + 1) * n = n * (m + 1) + n
      BY <1>0, <1>1
    <3>2. n * (m + 1) \in Nat
      BY <1>0, <1>1
    <3> QED
      BY <1>0, <1>1, <3>1, <3>2
  <2> HIDE DEF m
  <2> QED
    BY <1>1, <2>1, QuotientAtMost
<1>4. len <= c * n
  <2> HIDE DEF c
  <2>1. (c + 1) * n = c * n + n /\ c * n \in Nat
    BY <1>1, <1>2
  <2> QED
    BY <1>0, <1>1, <1>2, <2>1
<1>5. f = Link!Max2(Link!Min2(c, OwnLimit), LowerLimit)
  BY DEF Link!FragmentSize, n
<1> HIDE DEF c, f
<1>6. f \in Nat /\ 1 <= f /\ f <= m + 1 /\ (f < c => m <= f)
  BY <1>0, <1>2, <1>3, <1>5, LinkConstants DEF Link!Max2, Link!Min2
<1>7. ASSUME len <= m * m PROVE len <= (n + 1) * f
  <2> HIDE DEF m
  <2>0. n * f \in Nat /\ c * n \in Nat /\ n * m \in Nat /\ (n + 1) * f = n * f + f /\ n * (m + 1) = n * m + n
    BY <1>0, <1>1, <1>2, <1>6
  <2>1. CASE c <= f
    <3>1. c * n <= n * f
      BY <1>1, <1>2, <1>6, <2>1
    <3> QED
      BY <1>0, <1>4, <1>6, <2>0, <3>1
  <2>2. CASE f < c
    <3>1. n <= m
      <4>1. SUFFICES ASSUME m + 1 <= n PROVE FALSE
        BY <1>0, <1>1
      <4>2. m * (m + 1) <= (n - 1) * (m + 1)
        BY <1>0, <1>1, <4>1
      <4>3. m * (m + 1) = m * m + m /\ m * m \in Nat /\ (n - 1) * (m + 1) \in Nat
        BY <1>0, <1>1
      <4> QED
        BY <1>0, <1>1, <1>7, <4>2, <4>3
    <3>2. n * m <= n * f
      BY <1>0, <1>1, <1>6, <2>2
    <3> QED
      BY <1>0, <1>1, <1>6, <2>0, <2>2, <3>1, <3>2
  <2> QED
    BY <1>2, <1>6, <2>1, <2>2
<1>8. ASSUME len <= m * m PROVE Link!FragmentCount(len) <= n + 1
  <2>1. Link!FragmentCount(len) = (len + f - 1) \div f
    BY DEF Link!FragmentCount, f
  <2>2. len + f - 1 \in Nat /\ n + 1 \in Nat /\ len + f - 1 < ((n + 1) + 1) * f
    <3>1. ((n + 1) + 1) * f = (n + 1) * f + f /\ (n + 1) * f \in Nat
      BY <1>1, <1>6
    <3> QED
      BY <1>0, <1>1, <1>6, <1>7, <1>8, <3>1
  <2> QED
    BY <1>6, <2>1, <2>2, QuotientAtMost
<1> QED
  BY <1>6, <1>8 DEF f, n

-----------------------------------------------------------------------------
(* PeerLink: the inductive invariant. *)

(* What the peer acknowledged got through, and it accepts it. *)
SizesOK ==
  /\ maxPacketSize \in Nat /\ LowerLimit <= maxPacketSize
  /\ maxPacketSize > LowerLimit =>
       maxPacketSize <= OwnLimit /\ maxPacketSize <= PathLimit /\ maxPacketSize <= PeerLimit
  /\ \A size : Link!Datagram("PACKSIZE_ACK", size) \in net => size <= PathLimit /\ size <= PeerLimit

(* A peer that has been silent for a time was asked that often. *)
Asked(since) == unanswered = Timeout \/ since <= sinceTimer + unanswered * PingInterval

PingsOK ==
  /\ sinceAck \in -1..(Timeout + 1) /\ sinceFirst \in -1..(Timeout + 1)
  /\ sinceTimer \in 0..PingInterval /\ unanswered \in 0..Timeout
  /\ connected \in BOOLEAN /\ alive \in BOOLEAN
  /\ connected /\ sinceAck # -1 => Asked(sinceAck)
  /\ connected /\ sinceAck = -1 /\ sinceFirst # -1 => Asked(sinceFirst)
  /\ ~connected => unanswered >= Timeout \div PingInterval

LinkInv == SizesOK /\ PingsOK

LEMMA LinkInit ==
  ASSUME Link!Init
  PROVE  LinkInv
<1>1. SizesOK
  BY LinkConstants DEF Link!Init, SizesOK
<1>2. PingsOK
  BY LinkConstants DEF Link!Init, PingsOK, Link!Never
<1> QED
  BY <1>1, <1>2 DEF LinkInv

LEMMA SizesKept ==
  ASSUME LinkInv, Link!Next
  PROVE  SizesOK'
<1> USE DEF LinkInv
<1>0. /\ \A size, k : Link!Datagram("PACKSIZE_ACK", size) # Link!Datagram("PACKSIZE_TEST", k)
      /\ \A size, k : Link!Datagram("PACKSIZE_ACK", size) = Link!Datagram("PACKSIZE_ACK", k) => size = k
  <2>1. ASSUME NEW size, NEW k
        PROVE  /\ Link!Datagram("PACKSIZE_ACK", size).action # Link!Datagram("PACKSIZE_TEST", k).action
               /\ Link!Datagram("PACKSIZE_ACK", size).size = size
               /\ Link!Datagram("PACKSIZE_ACK", k).size = k
    BY DEF Link!Datagram
  <2> QED
    BY <2>1
<1>1. CASE Link!Hello
  <2>1. maxPacketSize' = LowerLimit /\ net' = net \union {Link!Datagram("PACKSIZE_TEST", n) : n \in Link!TestSizes}
    BY <1>1 DEF Link!Hello
  <2> QED
    BY <1>0, <2>1, LinkConstants DEF SizesOK
<1>2. ASSUME NEW size \in Link!TestSizes \union {PingSize}, Link!TestArrives(size) PROVE SizesOK'
  <2>1. /\ size <= PathLimit /\ size <= PeerLimit /\ maxPacketSize' = maxPacketSize
        /\ net' = net \union {Link!Datagram("PACKSIZE_ACK", size)}
    BY <1>2 DEF Link!TestArrives, Link!Acknowledges
  <2> QED
    BY <1>0, <2>1 DEF SizesOK
<1>3. ASSUME NEW size \in Link!TestSizes \union {PingSize}, Link!AckArrives(size) PROVE SizesOK'
  <2>1. /\ Link!Datagram("PACKSIZE_ACK", size) \in net /\ net' \subseteq net
        /\ maxPacketSize' = IF maxPacketSize > size THEN maxPacketSize ELSE size
    BY <1>3 DEF Link!AckArrives, Link!Acked, Link!Max2
  <2>2. size \in Nat /\ (size > LowerLimit => size <= OwnLimit) /\ size <= PathLimit /\ size <= PeerLimit
    BY <2>1, TestSizesOK DEF SizesOK
  <2> QED
    BY <2>1, <2>2, LinkConstants DEF SizesOK
<1>4. ASSUME NEW d \in net, Link!Drop(d) PROVE SizesOK'
  BY <1>4 DEF Link!Drop, SizesOK
<1>5. CASE Link!PingTimer
  <2>1. /\ maxPacketSize' = maxPacketSize
        /\ net' \subseteq net \union {Link!Datagram("PACKSIZE_TEST", PingSize)}
    BY <1>5 DEF Link!PingTimer, Link!SendPingToPeers
  <2> QED
    BY <1>0, <2>1 DEF SizesOK
<1>6. CASE Link!Clock \/ Link!PeerDies
  BY <1>6 DEF Link!Clock, Link!PeerDies, SizesOK
<1> QED
  BY <1>1, <1>2, <1>3, <1>4, <1>5, <1>6 DEF Link!Next

LEMMA PingsKept ==
  ASSUME LinkInv, Link!Next
  PROVE  PingsOK'
<1> USE DEF LinkInv
<1>0. unanswered * PingInterval \in Nat /\ (unanswered + 1) * PingInterval = unanswered * PingInterval + PingInterval
  BY LinkConstants DEF PingsOK
<1>1. CASE UNCHANGED <<connected, sinceAck, sinceFirst, sinceTimer, unanswered>> /\ alive' \in BOOLEAN
  BY <1>1 DEF PingsOK, Asked
<1>2. CASE Link!Hello
  BY <1>1, <1>2 DEF Link!Hello, PingsOK
<1>3. ASSUME NEW size \in Link!TestSizes \union {PingSize}, Link!TestArrives(size) PROVE PingsOK'
  BY <1>1, <1>3 DEF Link!TestArrives, PingsOK
<1>4. ASSUME NEW size \in Link!TestSizes \union {PingSize}, Link!AckArrives(size) PROVE PingsOK'
  <2>1. /\ sinceAck' = 0 /\ unanswered' = 0 /\ connected /\ connected' = connected
        /\ UNCHANGED <<sinceFirst, sinceTimer, alive>>
    BY <1>4 DEF Link!AckArrives
  <2>2. 0 * PingInterval = 0
    BY LinkConstants
  <2> QED
    BY <2>1, <2>2, LinkConstants DEF PingsOK, Asked
<1>5. ASSUME NEW d \in net, Link!Drop(d) PROVE PingsOK'
  BY <1>1, <1>5 DEF Link!Drop, PingsOK
<1>6. CASE Link!PingTimer
  <2>1. /\ sinceTimer = PingInterval /\ sinceTimer' = 0 /\ connected
        /\ UNCHANGED <<sinceAck, alive>>
    BY <1>6 DEF Link!PingTimer, Link!SendPingToPeers
  <2>2. CASE Link!Lost
    <3>1. connected' = FALSE /\ UNCHANGED <<sinceFirst, unanswered>>
      BY <1>6, <2>2 DEF Link!PingTimer, Link!SendPingToPeers
    <3>2. unanswered = Timeout \/ Timeout < (unanswered + 1) * PingInterval
      BY <1>0, <2>1, <2>2, LinkConstants DEF PingsOK, Asked, Link!Lost, Link!Never
    <3>3. Timeout < (Timeout + 1) * PingInterval
      <4>1. Timeout + 1 <= (Timeout + 1) * PingInterval /\ (Timeout + 1) * PingInterval \in Nat
        BY LinkConstants
      <4> QED
        BY <4>1, LinkConstants
    <3>4. unanswered \in Nat /\ unanswered >= Timeout \div PingInterval
      BY <3>2, <3>3, QuotientAtMost, LinkConstants, DivisionOK DEF PingsOK
    <3>5. connected' \in BOOLEAN /\ alive' \in BOOLEAN /\ ~connected'
      BY <2>1, <3>1, Zenon DEF PingsOK
    <3>6. /\ sinceAck' \in -1..(Timeout + 1) /\ sinceFirst' \in -1..(Timeout + 1)
          /\ sinceTimer' \in 0..PingInterval /\ unanswered' \in 0..Timeout
          /\ unanswered' >= Timeout \div PingInterval
      BY <2>1, <3>1, <3>4, LinkConstants DEF PingsOK
    <3> QED
      BY <3>5, <3>6 DEF PingsOK
  <2>3. CASE ~Link!Lost
    <3>1. /\ sinceFirst' = (IF sinceFirst = -1 THEN 0 ELSE sinceFirst)
          /\ unanswered' = (IF unanswered + 1 < Timeout THEN unanswered + 1 ELSE Timeout)
          /\ connected' = connected
      BY <1>6, <2>3 DEF Link!PingTimer, Link!SendPingToPeers, Link!Min2, Link!Never
    <3> QED
      BY <1>0, <2>1, <3>1, LinkConstants DEF PingsOK, Asked
  <2> QED
    BY <2>2, <2>3
<1>7. CASE Link!Clock
  <2>1. /\ sinceTimer < PingInterval /\ sinceTimer' = sinceTimer + 1
        /\ UNCHANGED <<connected, alive, unanswered>>
    BY <1>7 DEF Link!Clock
  <2>2. /\ sinceAck' = (IF sinceAck = -1 THEN -1 ELSE IF sinceAck + 1 < Timeout + 1 THEN sinceAck + 1 ELSE Timeout + 1)
        /\ sinceFirst' = (IF sinceFirst = -1 THEN -1
                          ELSE IF sinceFirst + 1 < Timeout + 1 THEN sinceFirst + 1 ELSE Timeout + 1)
    BY <1>7 DEF Link!Clock, Link!Later, Link!Min2, Link!Never
  <2> QED
    BY <1>0, <2>1, <2>2, LinkConstants DEF PingsOK, Asked
<1>8. CASE Link!PeerDies
  BY <1>1, <1>8 DEF Link!PeerDies
<1> QED
  BY <1>2, <1>3, <1>4, <1>5, <1>6, <1>7, <1>8 DEF Link!Next

LEMMA LinkUnchanged ==
  ASSUME LinkInv, UNCHANGED linkVars
  PROVE  LinkInv'
<1>1. SizesOK'
  BY DEF LinkInv, SizesOK, linkVars
<1>2. PingsOK'
  BY DEF LinkInv, PingsOK, Asked, linkVars
<1> QED
  BY <1>1, <1>2 DEF LinkInv

LinkPart == part = "link" => LinkInv

LEMMA LinkPartKeeps ==
  ASSUME LinkPart, [Next]_vars
  PROVE  LinkPart'
<1> SUFFICES ASSUME part' = "link" PROVE LinkInv'
  BY DEF LinkPart
<1>1. part = "link"
  BY DEF Next, LaunchNext, EventsNext, StreamNext, LinkNext, ResendNext, DoorNext, vars
<1>2. CASE Link!Next
  BY <1>1, <1>2, SizesKept, PingsKept DEF LinkPart, LinkInv
<1>3. CASE UNCHANGED linkVars
  BY <1>1, <1>3, LinkUnchanged DEF LinkPart
<1> QED
  BY <1>1, <1>2, <1>3 DEF Next, LaunchNext, EventsNext, StreamNext, LinkNext, ResendNext, DoorNext, vars

(* Whatever the limits of the two ends and of the network, and whatever    *)
(* test packets and acknowledgements are lost, late or double: the packet  *)
(* size in use is the lower limit or one that got through and that both    *)
(* ends accept, and forwardGameData cuts messages into packets that exceed *)
(* it by one byte at most (sendPacksizeTests, PACKSIZE_ACK).               *)
THEOREM PacketsAlwaysFit == Spec => []PacketsFit
<1>1. Init => LinkPart
  BY LinkInit DEF Init, LinkPart
<1>2. LinkPart /\ [Next]_vars => LinkPart'
  BY LinkPartKeeps
<1>3. LinkPart => PacketsFit
  <2> SUFFICES ASSUME LinkInv PROVE Link!TypeOK /\ Link!MaximumIsProven /\ Link!FragmentsFit
    BY DEF LinkPart, PacketsFit
  <2>1. Link!TypeOK
    BY LinkConstants DEF LinkInv, SizesOK, PingsOK, Link!TypeOK, Link!Never, Link!Max2
  <2>2. Link!MaximumIsProven
    BY LinkConstants DEF LinkInv, SizesOK, Link!MaximumIsProven, Link!Min2
  <2>3. Link!FragmentsFit
    BY FragmentsOK DEF LinkInv, SizesOK
  <2> QED
    BY <2>1, <2>2, <2>3
<1> QED
  BY <1>1, <1>2, <1>3, PTL DEF Spec

(* Whatever the timeout and the interval of the ping timer, sendPingToPeers *)
(* gives a peer up only when all pings of a whole timeout were left without *)
(* an answer.                                                               *)
THEOREM LostMeansSilent == Spec => []LostOnlyIfSilent
<1>1. Init => LinkPart
  BY LinkInit DEF Init, LinkPart
<1>2. LinkPart /\ [Next]_vars => LinkPart'
  BY LinkPartKeeps
<1>3. LinkPart => LostOnlyIfSilent
  BY DEF LinkPart, LinkInv, PingsOK, LostOnlyIfSilent, Link!LostOnlyIfSilent
<1> QED
  BY <1>1, <1>2, <1>3, PTL DEF Spec

-----------------------------------------------------------------------------
(* Launch: the inductive invariant of the host's session.  At most one     *)
(* request is under way, the server holds a game only after it took one,   *)
(* and what the client was told lags behind the server, never ahead of it. *)

Running == {"RUNNING", "LAUNCHED"}

Statuses == {"IDLE", "RUNNING", "LAUNCHED", "FAIL"}

Launcher == [up : BOOLEAN, autoStart : BOOLEAN, readyToStart : BOOLEAN, alreadyStarted : BOOLEAN,
             alreadyLaunched : BOOLEAN, isHost : BOOLEAN, quitCount : 0..2, verify : BOOLEAN,
             polling : BOOLEAN, calls : 0..2, waiting : {"no", "start", "failversion"},
             map : Maps \union {"none"}, ini : Maps \union {"none"}]

Client == [state : Statuses \union {"CONNECTING"}, connected : BOOLEAN]

Server == [up : BOOLEAN, jdPlay : BOOLEAN, hosting : BOOLEAN, joinDisabled : BOOLEAN,
           closed : BOOLEAN, validated : BOOLEAN, counter : 0..KeepAlive]

Game == [run : {"none", "room", "playing", "exit", "crash"}, map : Maps \union {"none"}]

LaunchTypes ==
  /\ launcher \in Launcher
  /\ client \in Client /\ server \in Server /\ game \in Game
  /\ toServer \in Seq({"start", "failversion"}) /\ toClient \in Seq(Statuses)
  /\ stray \in BOOLEAN /\ seen \in {"nothing", "started", "frozen", "ended"}
  /\ told \in {"Idle", "Staging", "Battleroom", "Launching", "Live", "Ended", "GameEnded"}
  /\ toldMap \in Maps \union {"none"}

(* The two processes and their connection. *)
ProcessesOK ==
  /\ launcher.calls > 0 => launcher.up
  /\ launcher.up => launcher.quitCount <= 1
  /\ server.up => server.counter >= 1 /\ client.connected
  /\ server.jdPlay => server.up
  /\ game.run \in {"room", "playing"} => server.jdPlay
  /\ ~client.connected => client.state # "IDLE" /\ toClient = <<>>

(* The end of the game is known to the client only when it is over. *)
OverIfTold(status) == status \notin Running => ~server.jdPlay

AllTrue(statuses) == \A i \in DOMAIN statuses : OverIfTold(statuses[i])

(* A request that waits: not yet taken, refused, or granted. *)
WaitingOK ==
  /\ launcher.calls > 0 /\ launcher.readyToStart /\ ~launcher.alreadyStarted
  /\ \/ toServer = <<launcher.waiting>> /\ toClient = <<>> /\ ~server.jdPlay
     \/ toServer = <<>> /\ toClient = <<"FAIL">> /\ ~server.jdPlay
     \/ /\ launcher.waiting = "start" /\ toServer = <<>>
        /\ toClient # <<>> /\ toClient[1] = "RUNNING" /\ AllTrue(toClient)

ExchangeOK ==
  /\ launcher.waiting = "no" /\ ~launcher.alreadyStarted =>
       toClient = <<>> /\ ~server.jdPlay /\ (server.up => toServer = <<>>)
  /\ launcher.waiting # "no" => WaitingOK
  /\ launcher.alreadyStarted =>
       /\ launcher.readyToStart /\ toServer = <<>>
       /\ OverIfTold(client.state) /\ AllTrue(toClient)
  /\ launcher.polling => launcher.alreadyStarted

(* What GpgNet and the user were promised. *)
PromisesOK ==
  /\ launcher.isHost => toldMap = launcher.map
  /\ launcher.waiting = "start" => launcher.ini = launcher.map
  /\ game.run \in {"room", "playing"} => game.map = launcher.map
  /\ launcher.autoStart /\ launcher.readyToStart /\ client.state = "IDLE" /\ ~launcher.alreadyStarted =>
       launcher.calls > 0
  /\ told = "GameEnded" => ~launcher.up /\ launcher.alreadyStarted /\ client.state \notin Running

LaunchInv == LaunchTypes /\ ProcessesOK /\ ExchangeOK /\ PromisesOK

(* Where the host's GpgNet stands, by what was seen of the game. *)
OrderOK ==
  /\ ~stray
  /\ launcher.readyToStart => launcher.isHost /\ told # "Idle"
  /\ ~launcher.alreadyStarted => seen = "nothing" /\ told \in {"Idle", "Staging"}
  /\ launcher.alreadyStarted /\ launcher.up =>
       CASE seen = "nothing" -> told \in {"Battleroom", "Launching"}
         [] seen = "started" -> told = "Launching"
         [] seen = "frozen" -> told = "Live" /\ launcher.alreadyLaunched
         [] OTHER -> told = "Ended" /\ launcher.alreadyLaunched

(* A player who joins asks again when an answer is late: there is no       *)
(* second game, as the server takes no request while it holds one.         *)
JoinedInv ==
  /\ stray = FALSE
  /\ DOMAIN server = {"up", "jdPlay", "hosting", "joinDisabled", "closed", "validated", "counter"}
  /\ DOMAIN game = {"run", "map"}
  /\ game.run \in {"room", "playing"} => server.jdPlay
  /\ toServer \in Seq({"start"})

LEMMA LaunchConstants == KeepAlive \in Nat \ {0} /\ MaxLaunches \in Nat
BY ConstantsAssumption DEF Hosted!ConstantsOK


LEMMA RestOf ==
  ASSUME NEW S, NEW s \in Seq(S), NEW n \in 1..Len(s)
  PROVE  /\ SubSeq(s, n + 1, Len(s)) \in Seq(S)
         /\ \A i \in DOMAIN SubSeq(s, n + 1, Len(s)) :
              \E j \in DOMAIN s : SubSeq(s, n + 1, Len(s))[i] = s[j]
<1>1. n + 1 \in 1..(Len(s) + 1) /\ Len(s) \in n..Len(s) /\ Len(s) \in Nat
  OBVIOUS
<1>2. /\ SubSeq(s, n + 1, Len(s)) \in Seq(S)
      /\ Len(SubSeq(s, n + 1, Len(s))) = Len(s) - n
      /\ \A i \in 1..(Len(s) - n) : SubSeq(s, n + 1, Len(s))[i] = s[n + i]
  BY <1>1, SubSeqProperties
<1> QED
  BY <1>1, <1>2

LEMMA HostTypes ==
  ASSUME LaunchInv, Hosted!Next
  PROVE  LaunchTypes'
<1> USE DEF LaunchInv, LaunchTypes
<1>1. CASE Hosted!CreateLobby
  BY <1>1 DEF Hosted!CreateLobby
<1>2. CASE Hosted!JoinGame
  BY <1>2 DEF Hosted!JoinGame
<1>3. CASE Hosted!LaunchMessage
  <2>1. launcher' \in Launcher
    BY <1>3 DEF Hosted!LaunchMessage, Launcher
  <2> QED
    BY <1>3, <2>1 DEF Hosted!LaunchMessage
<1>4. CASE Hosted!VerifyMessage
  <2>1. launcher' \in Launcher
    BY <1>4 DEF Hosted!VerifyMessage, Launcher
  <2> QED
    BY <1>4, <2>1 DEF Hosted!VerifyMessage
<1>5. CASE Hosted!QuitMessage
  <2> DEFINE on == client.state \in Running
             count == IF on THEN launcher.quitCount + 1 ELSE launcher.quitCount
             stays == on /\ count # 2
  <2>1. launcher' = [launcher EXCEPT !.quitCount = count, !.up = stays]
    BY <1>5 DEF Hosted!QuitMessage, Hosted!IsApplicationRunning, Running
  <2>2. launcher.quitCount \in 0..1
    BY <1>5 DEF Hosted!QuitMessage, Hosted!Free, ProcessesOK, Launcher
  <2>3. count \in 0..2 /\ stays \in BOOLEAN
    BY <2>2
  <2> HIDE DEF count, stays
  <2>4. launcher' \in Launcher
    BY <2>1, <2>3 DEF Launcher
  <2> QED
    BY <1>5, <2>4 DEF Hosted!QuitMessage
<1>6. CASE Hosted!ResetQuitCount
  <2>1. launcher' \in Launcher
    BY <1>6 DEF Hosted!ResetQuitCount, Launcher
  <2> QED
    BY <1>6, <2>1 DEF Hosted!ResetQuitCount
<1>7. CASE Hosted!StartIgnored
  <2> DEFINE auto == launcher.autoStart \/ ~launcher.alreadyStarted
             less == launcher.calls - 1
  <2>1. launcher' = [launcher EXCEPT !.calls = less, !.autoStart = auto]
    BY <1>7 DEF Hosted!StartIgnored
  <2>2. auto \in BOOLEAN
    OBVIOUS
  <2>3. less \in 0..2
    BY <1>7 DEF Hosted!StartIgnored, Hosted!Busy, Launcher
  <2> HIDE DEF auto, less
  <2>4. launcher' \in Launcher
    BY <2>1, <2>2, <2>3 DEF Launcher
  <2> QED
    BY <1>7, <2>4 DEF Hosted!StartIgnored
<1>8. CASE Hosted!StartApplication
  <2> DEFINE again == launcher.alreadyLaunched /\ Hosted!Refused
             what == IF Hosted!Refused THEN "failversion" ELSE "start"
             state == IF Hosted!Refused /\ ~client.connected THEN client.state ELSE "CONNECTING"
             prepared == [[launcher EXCEPT !.ini = launcher.map] EXCEPT !.alreadyLaunched = again]
  <2>1. /\ again \in BOOLEAN /\ what \in {"start", "failversion"} /\ launcher.calls - 1 \in 0..2
        /\ client.state \in Statuses \union {"CONNECTING"}
    BY <1>8 DEF Hosted!StartApplication, Hosted!Busy, Launcher, Client
  <2>2. state \in Statuses \union {"CONNECTING"}
    BY <2>1
  <2>3. prepared \in Launcher /\ prepared.calls = launcher.calls
    BY <2>1 DEF Launcher
  <2>4. CASE server.up
    <3>1. /\ launcher' = [prepared EXCEPT !.waiting = what] /\ client' = [client EXCEPT !.connected = TRUE]
          /\ toServer' = Append(toServer, what)
      BY <1>8, <2>4 DEF Hosted!StartApplication, Hosted!IniWritten
    <3> HIDE DEF what, prepared
    <3>2. launcher' \in Launcher
      BY <2>1, <2>3, <3>1 DEF Launcher
    <3>3. client' \in Client
      BY <3>1 DEF Client
    <3>4. toServer' \in Seq({"start", "failversion"})
      BY <2>1, <3>1
    <3> QED
      BY <1>8, <3>2, <3>3, <3>4 DEF Hosted!StartApplication
  <2>5. CASE ~server.up
    <3> DEFINE less == launcher.calls - 1
    <3>1. /\ launcher' = [prepared EXCEPT !.calls = less] /\ client' = [state |-> state, connected |-> FALSE]
          /\ toServer' = <<>>
      BY <1>8, <2>3, <2>5 DEF Hosted!StartApplication, Hosted!IniWritten
    <3> HIDE DEF state, prepared, less
    <3>2. launcher' \in Launcher
      BY <2>1, <2>3, <3>1 DEF Launcher, less
    <3>3. client' \in Client /\ toServer' \in Seq({"start", "failversion"})
      BY <2>2, <3>1 DEF Client
    <3> QED
      BY <1>8, <3>2, <3>3 DEF Hosted!StartApplication
  <2> QED
    BY <2>4, <2>5
<1>9. ASSUME NEW state \in Statuses, Hosted!Started(state), launcher.waiting # "no"
      PROVE  launcher' \in Launcher /\ client' \in Client /\ told' \in {told, "Battleroom"}
  <2> DEFINE yes == launcher.waiting = "start" /\ Hosted!IsApplicationRunning(state)
             started == launcher.alreadyStarted \/ yes
             polls == launcher.polling \/ yes
             less == launcher.calls - 1
  <2>1. launcher' = [launcher EXCEPT !.waiting = "no", !.calls = less, !.alreadyStarted = started,
                                     !.polling = polls]
    BY <1>9 DEF Hosted!Started
  <2>2. started \in BOOLEAN /\ polls \in BOOLEAN
    OBVIOUS
  <2>3. less \in 0..2
    BY <1>9 DEF ExchangeOK, WaitingOK, Launcher
  <2>4. client' \in Client /\ told' \in {told, "Battleroom"}
    BY <1>9 DEF Hosted!Started, Client
  <2> HIDE DEF started, polls, less
  <2>5. launcher' \in Launcher
    BY <2>1, <2>2, <2>3 DEF Launcher
  <2> QED
    BY <2>4, <2>5
<1>10. CASE Hosted!Answered
  <2>1. toClient[1] \in Statuses
    BY <1>10 DEF Hosted!Answered
  <2>2. PICK n \in 1..Len(toClient) : toClient' = SubSeq(toClient, n + 1, Len(toClient))
    BY <1>10 DEF Hosted!Answered, Hosted!Readable
  <2>3. launcher' \in Launcher /\ client' \in Client /\ told' \in {told, "Battleroom"}
    BY <1>9, <1>10, <2>1 DEF Hosted!Answered, Hosted!Taken
  <2>4. toClient' \in Seq(Statuses)
    BY <2>2, RestOf
  <2> QED
    BY <1>10, <2>3, <2>4 DEF Hosted!Answered
<1>11. CASE Hosted!NotAnswered
  <2>1. launcher' \in Launcher /\ client' \in Client /\ told' \in {told, "Battleroom"}
    BY <1>9, <1>11 DEF Hosted!NotAnswered, Statuses
  <2> QED
    BY <1>11, <2>1 DEF Hosted!NotAnswered
<1>12. CASE Hosted!OnReadyReadTcp
  <2>1. PICK n \in 1..Len(toClient) :
          /\ client' = [client EXCEPT !.state = toClient[1]]
          /\ toClient' = SubSeq(toClient, n + 1, Len(toClient))
    BY <1>12 DEF Hosted!OnReadyReadTcp, Hosted!Readable, Hosted!Taken
  <2>2. toClient[1] \in Statuses
    BY <1>12 DEF Hosted!OnReadyReadTcp
  <2>3. client' \in Client
    BY <2>1, <2>2 DEF Client
  <2>4. toClient' \in Seq(Statuses)
    BY <2>1, RestOf
  <2> QED
    BY <1>12, <2>3, <2>4 DEF Hosted!OnReadyReadTcp
<1>13. CASE Hosted!Disconnected
  BY <1>13 DEF Hosted!Disconnected, Client
<1>14. CASE Hosted!Poll
  <2>1. launcher' \in Launcher
    <3>1. \/ launcher' = [launcher EXCEPT !.polling = FALSE, !.up = FALSE]
          \/ launcher' = [launcher EXCEPT !.alreadyLaunched = TRUE]
      BY <1>14 DEF Hosted!Poll
    <3> QED
      BY <3>1, ZenonT(30) DEF Launcher
  <2>2. told' \in {"GameEnded", "Launching"}
    BY <1>14 DEF Hosted!Poll
  <2> QED
    BY <1>14, <2>1, <2>2 DEF Hosted!Poll
<1>15. ASSUME NEW status \in Statuses, Hosted!Notify(status) PROVE toClient' \in Seq(Statuses)
  BY <1>15 DEF Hosted!Notify
<1>16. ASSUME toServer # <<>>, toServer' = Tail(toServer) PROVE toServer' \in Seq({"start", "failversion"})
  BY <1>16, HeadTailProperties
<1>17. CASE Hosted!LaunchGame
  <2>1. toServer' \in Seq({"start", "failversion"})
    BY <1>16, <1>17 DEF Hosted!LaunchGame
  <2>2. toClient' \in Seq(Statuses)
    <3>1. Hosted!Notify("RUNNING") \/ Hosted!Notify("FAIL") \/ toClient' = toClient
      BY <1>17, Zenon DEF Hosted!LaunchGame
    <3> QED
      BY <1>15, <3>1 DEF Statuses
  <2>3. server' \in Server
    <3>1. \/ server' = server
          \/ server' = [server EXCEPT !.jdPlay = TRUE, !.hosting = launcher.isHost,
                          !.joinDisabled = FALSE, !.closed = FALSE, !.validated = FALSE]
      BY <1>17, Zenon DEF Hosted!LaunchGame
    <3>2. launcher.isHost \in BOOLEAN
      BY DEF Launcher
    <3> QED
      BY <3>1, <3>2 DEF Server
  <2>4. game' \in Game
    <3>1. game' = game \/ game' = [run |-> "room", map |-> launcher.ini]
      BY <1>17, Zenon DEF Hosted!LaunchGame
    <3> QED
      BY <3>1 DEF Game, Launcher
  <2>5. stray' \in BOOLEAN
    <3>1. \/ stray' = stray \/ stray' = (stray \/ Hosted!GameRunning)
          \/ \E initialized, result : stray' = (stray \/ (initialized /\ result = "orphaned"))
      BY <1>17, Zenon DEF Hosted!LaunchGame
    <3> QED
      BY <3>1
  <2> QED
    BY <1>17, <2>1, <2>2, <2>3, <2>4, <2>5 DEF Hosted!LaunchGame
<1>18. CASE Hosted!FailVersion
  <2>1. toServer' \in Seq({"start", "failversion"})
    BY <1>16, <1>18 DEF Hosted!FailVersion
  <2>2. toClient' \in Seq(Statuses)
    BY <1>15, <1>18 DEF Hosted!FailVersion, Statuses
  <2>3. server' \in Server
    BY <1>18 DEF Hosted!FailVersion, Server
  <2>4. game' \in Game
    BY <1>18 DEF Hosted!FailVersion, Hosted!NoMap, Game
  <2>5. stray' \in BOOLEAN
    BY <1>18 DEF Hosted!FailVersion
  <2> QED
    BY <1>18, <2>1, <2>2, <2>3, <2>4, <2>5 DEF Hosted!FailVersion
<1>19. CASE Hosted!KeepAliveMessage
  <2>1. server' \in Server
    BY <1>19, LaunchConstants DEF Hosted!KeepAliveMessage, Server
  <2> QED
    BY <1>19, <2>1 DEF Hosted!KeepAliveMessage
<1>20. CASE Hosted!GameLaunches
  <2>1. game' \in Game
    BY <1>20 DEF Hosted!GameLaunches, Game
  <2> QED
    BY <1>20, <2>1 DEF Hosted!GameLaunches
<1>21. CASE Hosted!StrayExits
  <2>1. stray' \in BOOLEAN
    BY <1>21 DEF Hosted!StrayExits
  <2> QED
    BY <1>21, <2>1 DEF Hosted!StrayExits
<1>22. ASSUME NEW m \in Maps, Hosted!HostGame(m) PROVE LaunchTypes'
  <2>1. Hosted!DeferredCalls \in 0..2
    BY DEF Hosted!DeferredCalls
  <2>2. launcher' \in Launcher
    BY <1>22, <2>1 DEF Launcher, Hosted!HostGame
  <2> QED
    BY <1>22, <2>2 DEF Hosted!HostGame
<1>23. ASSUME NEW m \in Maps, Hosted!MapMessage(m) PROVE LaunchTypes'
  <2>1. launcher' \in Launcher
    BY <1>23 DEF Hosted!MapMessage, Launcher
  <2> QED
    BY <1>23, <2>1 DEF Hosted!MapMessage
<1>24. ASSUME NEW e \in {"started", "frozen", "ended"}, Hosted!GameEvent(e) PROVE LaunchTypes'
  <2>1. told' \in {"Launching", "Live", "Ended", told}
    BY <1>24 DEF Hosted!GameEvent
  <2> QED
    BY <1>24, <2>1 DEF Hosted!GameEvent
<1>25. ASSUME NEW answered \in BOOLEAN, Hosted!TimerEvent(answered) PROVE LaunchTypes'
  <2>1. ASSUME NEW s \in Server, s.counter > 0 PROVE Hosted!CountDown(s) \in Server
    <3> DEFINE on == s.counter > 1
               less == s.counter - 1
    <3>1. on \in BOOLEAN /\ less \in 0..KeepAlive
      BY <2>1, LaunchConstants DEF Server
    <3>2. Hosted!CountDown(s) = [s EXCEPT !.counter = less, !.up = on]
      BY DEF Hosted!CountDown
    <3> HIDE DEF on, less
    <3> QED
      BY <3>1, <3>2 DEF Server
  <2>2. ASSUME NEW open \in BOOLEAN PROVE Hosted!EnumSessions(open) \in Server
    <3> DEFINE closed == ~open
    <3>1. closed \in BOOLEAN
      OBVIOUS
    <3>2. Hosted!EnumSessions(open) \in
            {server, [server EXCEPT !.closed = closed, !.validated = TRUE], [server EXCEPT !.validated = FALSE]}
      BY DEF Hosted!EnumSessions
    <3> HIDE DEF closed
    <3> QED
      BY <3>1, <3>2 DEF Server
  <2>3. server.counter > 0
    BY <1>25, LaunchConstants DEF Hosted!TimerEvent, ProcessesOK, Server
  <2>4. server' \in Server
    <3>1. CASE server' = Hosted!CountDown([server EXCEPT !.jdPlay = FALSE])
      <4>1. [server EXCEPT !.jdPlay = FALSE] \in Server /\ [server EXCEPT !.jdPlay = FALSE].counter > 0
        BY <2>3 DEF Server
      <4> QED
        BY <2>1, <3>1, <4>1
    <3>2. CASE server' = Hosted!CountDown(server)
      BY <2>1, <2>3, <3>2
    <3>3. ASSUME NEW found \in Server, server' = [found EXCEPT !.joinDisabled = found.closed]
          PROVE  server' \in Server
      BY <3>3 DEF Server
    <3>4. (game.run = "room") \in BOOLEAN
      OBVIOUS
    <3> DEFINE found == Hosted!EnumSessions(game.run = "room")
    <3>5. \/ server' = Hosted!CountDown([server EXCEPT !.jdPlay = FALSE])
          \/ server' = Hosted!CountDown(server)
          \/ server' = [found EXCEPT !.joinDisabled = found.closed]
      BY <1>25, Zenon DEF Hosted!TimerEvent
    <3>6. found \in Server
      BY <2>2, <3>4
    <3> HIDE DEF found
    <3> QED
      BY <3>1, <3>2, <3>3, <3>5, <3>6
  <2>5. toClient' \in Seq(Statuses)
    <3>1. Hosted!Notify("IDLE") \/ Hosted!Notify("FAIL") \/ Hosted!Notify("LAUNCHED") \/ toClient' = toClient
      BY <1>25 DEF Hosted!TimerEvent
    <3> QED
      BY <1>15, <3>1 DEF Statuses
  <2> QED
    BY <1>25, <2>4, <2>5 DEF Hosted!TimerEvent
<1>26. ASSUME NEW how \in {"exit", "crash"}, Hosted!GameExits(how) PROVE LaunchTypes'
  <2>1. game' \in Game
    BY <1>26 DEF Hosted!GameExits, Game
  <2> QED
    BY <1>26, <2>1 DEF Hosted!GameExits
<1> QED
  BY <1>1, <1>2, <1>3, <1>4, <1>5, <1>6, <1>7, <1>8, <1>10, <1>11, <1>12, <1>13, <1>14, <1>17, <1>18,
     <1>19, <1>20, <1>21, <1>22, <1>23, <1>24, <1>25, <1>26 DEF Hosted!Next

LEMMA Appended ==
  ASSUME NEW status \in Statuses, toClient \in Seq(Statuses)
  PROVE  /\ Append(toClient, status) # <<>>
         /\ toClient # <<>> => Append(toClient, status)[1] = toClient[1]
         /\ \A i \in DOMAIN Append(toClient, status) :
              Append(toClient, status)[i] = status \/
              (i \in DOMAIN toClient /\ Append(toClient, status)[i] = toClient[i])
<1>1. toClient # <<>> => 1 \in 1..Len(toClient)
  OBVIOUS
<1>2. DOMAIN toClient = 1..Len(toClient) /\ Len(toClient) \in Nat
      /\ DOMAIN Append(toClient, status) = 1..(Len(toClient) + 1)
  OBVIOUS
<1> QED
  BY <1>1, <1>2, AppendProperties

(* What onStartApplication leaves alone. *)
StartKeeps ==
  /\ launcher'.up = launcher.up /\ launcher'.quitCount = launcher.quitCount
  /\ launcher'.autoStart = launcher.autoStart /\ launcher'.readyToStart = launcher.readyToStart
  /\ launcher'.alreadyStarted = launcher.alreadyStarted /\ launcher'.polling = launcher.polling
  /\ launcher'.isHost = launcher.isHost /\ launcher'.map = launcher.map
  /\ UNCHANGED <<server, toClient, game, stray, seen, told, toldMap>>

LEMMA StartEffect ==
  ASSUME LaunchTypes, Hosted!StartApplication
  PROVE  /\ StartKeeps /\ launcher'.ini = launcher.map
         /\ launcher.calls > 0 /\ launcher.waiting = "no"
         /\ ~launcher.alreadyStarted /\ launcher.readyToStart
         /\ server.up =>
              /\ launcher'.waiting \in {"start", "failversion"} /\ launcher'.calls = launcher.calls
              /\ client' = [client EXCEPT !.connected = TRUE]
              /\ toServer' = Append(toServer, launcher'.waiting)
         /\ ~server.up =>
              /\ launcher'.waiting = "no" /\ launcher'.calls = launcher.calls - 1
              /\ client'.state = "CONNECTING" \/ (client'.state = client.state /\ ~client.connected)
              /\ client'.connected = FALSE /\ toServer' = <<>> /\ toClient = <<>>
<1> DEFINE again == launcher.alreadyLaunched /\ Hosted!Refused
           what == IF Hosted!Refused THEN "failversion" ELSE "start"
           prepared == [[launcher EXCEPT !.ini = launcher.map] EXCEPT !.alreadyLaunched = again]
<1>1. /\ launcher.calls > 0 /\ launcher.waiting = "no" /\ ~launcher.alreadyStarted /\ launcher.readyToStart
      /\ UNCHANGED <<server, toClient, game, stray, seen, told, toldMap>>
      /\ what \in {"start", "failversion"}
  BY DEF Hosted!StartApplication, Hosted!Busy
<1>2. CASE server.up
  <2>1. /\ launcher' = [prepared EXCEPT !.waiting = what] /\ client' = [client EXCEPT !.connected = TRUE]
        /\ toServer' = Append(toServer, what)
    BY <1>2 DEF Hosted!StartApplication, Hosted!IniWritten
  <2> HIDE DEF what, again
  <2> QED
    BY <1>1, <1>2, <2>1 DEF StartKeeps, LaunchTypes, Launcher
<1>3. CASE ~server.up
  <2>1. /\ launcher' = [prepared EXCEPT !.calls = prepared.calls - 1] /\ toServer' = <<>> /\ toClient = <<>>
    BY <1>3 DEF Hosted!StartApplication, Hosted!IniWritten
  <2>2. /\ client'.state = "CONNECTING" \/ (client'.state = client.state /\ ~client.connected)
        /\ client'.connected = FALSE
    BY <1>3 DEF Hosted!StartApplication
  <2> HIDE DEF again
  <2> QED
    BY <1>1, <1>3, <2>1, <2>2 DEF StartKeeps, LaunchTypes, Launcher
<1> QED
  BY <1>2, <1>3

LEMMA HostProcesses ==
  ASSUME LaunchInv, LaunchTypes', Hosted!Next
  PROVE  ProcessesOK'
<1> USE LaunchConstants DEF LaunchInv, LaunchTypes, Launcher, Client, Server, Game, Statuses
<1>1. CASE Hosted!CreateLobby
  BY <1>1 DEF Hosted!CreateLobby, Hosted!Free, Hosted!Busy, ProcessesOK, ExchangeOK, WaitingOK
<1>2. CASE Hosted!JoinGame
  BY <1>2 DEF Hosted!JoinGame, Hosted!Free, Hosted!Busy, ProcessesOK, ExchangeOK, WaitingOK
<1>3. CASE Hosted!LaunchMessage
  BY <1>3 DEF Hosted!LaunchMessage, Hosted!Free, Hosted!Busy, ProcessesOK, ExchangeOK, WaitingOK
<1>4. CASE Hosted!VerifyMessage
  BY <1>4 DEF Hosted!VerifyMessage, Hosted!Free, Hosted!Busy, ProcessesOK, ExchangeOK, WaitingOK
<1>5. CASE Hosted!QuitMessage
  <2>1. CASE client.state \in {"RUNNING", "LAUNCHED"}
    <3>1. (launcher'.up => launcher'.quitCount # 2) /\ launcher'.calls = launcher.calls
      BY <1>5, <2>1 DEF Hosted!QuitMessage, Hosted!IsApplicationRunning
    <3>2. launcher'.quitCount \in 0..2
      OBVIOUS
    <3>3. launcher.calls = 0
      BY <1>5 DEF Hosted!QuitMessage, Hosted!Free, Hosted!Busy
    <3> QED
      BY <1>5, <3>1, <3>2, <3>3 DEF Hosted!QuitMessage, ProcessesOK
  <2>2. CASE client.state \notin {"RUNNING", "LAUNCHED"}
    <3>1. ~launcher'.up
      BY <1>5, <2>2 DEF Hosted!QuitMessage, Hosted!IsApplicationRunning
    <3> QED
      BY <1>5, <3>1 DEF Hosted!QuitMessage, Hosted!Free, Hosted!Busy, ProcessesOK
  <2> QED
    BY <2>1, <2>2
<1>6. CASE Hosted!ResetQuitCount
  BY <1>6 DEF Hosted!ResetQuitCount, Hosted!Free, Hosted!Busy, ProcessesOK, ExchangeOK, WaitingOK
<1>7. CASE Hosted!StartIgnored
  BY <1>7 DEF Hosted!StartIgnored, Hosted!Busy, ProcessesOK, ExchangeOK, WaitingOK
<1>8. CASE Hosted!StartApplication
  <2>0. /\ StartKeeps /\ launcher'.ini = launcher.map
        /\ launcher.calls > 0 /\ launcher.waiting = "no"
        /\ ~launcher.alreadyStarted /\ launcher.readyToStart
    BY <1>8, StartEffect
  <2>1. CASE server.up
    <3>1. /\ launcher'.waiting \in {"start", "failversion"} /\ launcher'.calls = launcher.calls
          /\ client'.state = client.state /\ client'.connected
          /\ toServer' = Append(toServer, launcher'.waiting)
      BY <1>8, <2>1, StartEffect
    <3> QED
      BY <2>0, <2>1, <3>1 DEF StartKeeps, ProcessesOK, ExchangeOK, WaitingOK
  <2>2. CASE ~server.up
    <3>1. /\ launcher'.waiting = "no" /\ launcher'.calls = launcher.calls - 1
          /\ client'.state = "CONNECTING" \/ (client'.state = client.state /\ ~client.connected)
          /\ client'.connected = FALSE /\ toServer' = <<>> /\ toClient = <<>>
      BY <1>8, <2>2, StartEffect
    <3> QED
      BY <2>0, <2>2, <3>1 DEF StartKeeps, ProcessesOK, ExchangeOK, WaitingOK
  <2> QED
    BY <2>1, <2>2
<1>9. CASE Hosted!Answered
  BY <1>9 DEF Hosted!Answered, Hosted!Started, Hosted!Taken, Hosted!Readable,
       Hosted!IsApplicationRunning, ProcessesOK, ExchangeOK, WaitingOK
<1>10. CASE Hosted!NotAnswered
  BY <1>10 DEF Hosted!NotAnswered, Hosted!Started, Hosted!IsApplicationRunning, ProcessesOK,
       ExchangeOK, WaitingOK
<1>11. CASE Hosted!OnReadyReadTcp
  BY <1>11 DEF Hosted!OnReadyReadTcp, Hosted!Free, Hosted!Busy, Hosted!Taken, Hosted!Readable,
       ProcessesOK, ExchangeOK, WaitingOK
<1>12. CASE Hosted!Disconnected
  BY <1>12 DEF Hosted!Disconnected, Hosted!Free, Hosted!Busy, ProcessesOK, ExchangeOK, WaitingOK
<1>13. CASE Hosted!Poll
  <2>1. CASE client.state \notin {"RUNNING", "LAUNCHED"}
    <3>1. launcher' = [launcher EXCEPT !.polling = FALSE, !.up = FALSE] /\ told' = "GameEnded"
      BY <1>13, <2>1 DEF Hosted!Poll, Hosted!GameStopped, Hosted!IsApplicationRunning
    <3> QED
      BY <1>13, <2>1, <3>1 DEF Hosted!Poll, Hosted!Free, Hosted!Busy, ProcessesOK, ExchangeOK, WaitingOK
  <2>2. CASE client.state \in {"RUNNING", "LAUNCHED"}
    <3>1. launcher' = [launcher EXCEPT !.alreadyLaunched = TRUE] /\ told' = "Launching"
      BY <1>13, <2>2 DEF Hosted!Poll, Hosted!GameStopped, Hosted!IsApplicationRunning
    <3> QED
      BY <1>13, <3>1 DEF Hosted!Poll, Hosted!Free, Hosted!Busy, ProcessesOK, ExchangeOK, WaitingOK
  <2> QED
    BY <2>1, <2>2
<1>14. CASE Hosted!LaunchGame
  <2>0. server.up /\ toServer # <<>> /\ toServer' = Tail(toServer) /\ UNCHANGED <<launcher, client, seen, told, toldMap>>
    BY <1>14 DEF Hosted!LaunchGame
  <2>1. CASE server' = server /\ game' = game
    BY <2>0, <2>1 DEF Hosted!LaunchGame, ProcessesOK, ExchangeOK, WaitingOK
  <2>2. CASE server'.jdPlay /\ server'.up = server.up /\ server'.counter = server.counter
    BY <2>0, <2>2 DEF ProcessesOK, ExchangeOK, WaitingOK
  <2>3. CASE server' = [server EXCEPT !.jdPlay = TRUE, !.hosting = launcher.isHost,
                          !.joinDisabled = FALSE, !.closed = FALSE, !.validated = FALSE]
    BY <2>0, <2>2, <2>3, ZenonT(30)
  <2>4. \/ server' = server /\ game' = game
        \/ server' = [server EXCEPT !.jdPlay = TRUE, !.hosting = launcher.isHost,
                        !.joinDisabled = FALSE, !.closed = FALSE, !.validated = FALSE]
    BY <1>14, Zenon DEF Hosted!LaunchGame
  <2> QED
    BY <2>1, <2>3, <2>4
<1>15. CASE Hosted!FailVersion
  BY <1>15 DEF Hosted!FailVersion, Hosted!Notify, Hosted!GameRunning, Hosted!NoMap, ProcessesOK,
       ExchangeOK, WaitingOK
<1>16. CASE Hosted!KeepAliveMessage
  BY <1>16 DEF Hosted!KeepAliveMessage, ProcessesOK, ExchangeOK, WaitingOK
<1>17. CASE Hosted!GameLaunches
  BY <1>17 DEF Hosted!GameLaunches, ProcessesOK, ExchangeOK, WaitingOK
<1>18. CASE Hosted!StrayExits
  BY <1>18 DEF Hosted!StrayExits, ProcessesOK, ExchangeOK, WaitingOK
<1>19. ASSUME NEW m \in Maps, Hosted!HostGame(m) PROVE ProcessesOK'
  BY <1>19 DEF Hosted!HostGame, Hosted!Free, Hosted!Busy, Hosted!DeferredCalls, ProcessesOK,
       ExchangeOK, WaitingOK
<1>20. ASSUME NEW m \in Maps, Hosted!MapMessage(m) PROVE ProcessesOK'
  BY <1>20 DEF Hosted!MapMessage, Hosted!Free, Hosted!Busy, Hosted!MaySetOptions, ProcessesOK,
       ExchangeOK, WaitingOK
<1>21. ASSUME NEW e \in {"started", "frozen", "ended"}, Hosted!GameEvent(e) PROVE ProcessesOK'
  BY <1>21 DEF Hosted!GameEvent, Hosted!Free, Hosted!Busy, Hosted!Events, ProcessesOK, ExchangeOK, WaitingOK
<1>22. ASSUME NEW answered \in BOOLEAN, Hosted!TimerEvent(answered) PROVE ProcessesOK'
  <2>0. server.up /\ client.connected /\ UNCHANGED <<launcher, client, toServer, game, stray, seen, told, toldMap>>
    BY <1>22 DEF Hosted!TimerEvent, ProcessesOK
  <2>1. CASE server.jdPlay /\ ~Hosted!GameRunning
    <3>1. server' = Hosted!CountDown([server EXCEPT !.jdPlay = FALSE])
      BY <1>22, <2>1 DEF Hosted!TimerEvent
    <3>2. ~server'.jdPlay /\ server'.counter = server.counter - 1 /\ server'.up = (server.counter > 1)
      BY <3>1 DEF Hosted!CountDown
    <3>3. \E status \in {"IDLE", "FAIL"} : Hosted!Notify(status)
      BY <1>22, <2>1 DEF Hosted!TimerEvent
    <3>4. toClient' = toClient \/ \E status \in {"IDLE", "FAIL"} : toClient' = Append(toClient, status)
      BY <3>3 DEF Hosted!Notify
    <3> QED
      BY <2>0, <2>1, <3>2, <3>4 DEF Hosted!GameRunning, ProcessesOK, ExchangeOK, WaitingOK
  <2>2. CASE server.jdPlay /\ Hosted!GameRunning
    <3> DEFINE found == Hosted!EnumSessions(game.run = "room")
    <3>1. found.jdPlay = server.jdPlay /\ found.up = server.up /\ found.counter = server.counter
      BY DEF Hosted!EnumSessions
    <3>2. DOMAIN found = {"up", "jdPlay", "hosting", "joinDisabled", "closed", "validated", "counter"}
      BY DEF Hosted!EnumSessions
    <3>3. server' = [found EXCEPT !.joinDisabled = found.closed]
      BY <1>22, <2>2 DEF Hosted!TimerEvent
    <3> HIDE DEF found
    <3>4. server'.jdPlay = server.jdPlay /\ server'.up = server.up /\ server'.counter = server.counter
      BY <2>0, <3>1, <3>2, <3>3
    <3>5. toClient' = toClient \/ toClient' = Append(toClient, "LAUNCHED")
      BY <1>22, <2>2 DEF Hosted!TimerEvent, Hosted!Notify
    <3> QED
      BY <2>0, <2>2, <3>4, <3>5 DEF Hosted!GameRunning, ProcessesOK, ExchangeOK, WaitingOK
  <2>3. CASE ~server.jdPlay
    <3>1. server' = Hosted!CountDown(server) /\ toClient' = toClient
      BY <1>22, <2>3 DEF Hosted!TimerEvent
    <3>2. server'.jdPlay = server.jdPlay /\ server'.counter = server.counter - 1 /\ server'.up = (server.counter > 1)
      BY <3>1 DEF Hosted!CountDown
    <3> QED
      BY <2>0, <2>3, <3>1, <3>2 DEF ProcessesOK, ExchangeOK, WaitingOK
  <2> QED
    BY <2>1, <2>2, <2>3
<1>23. ASSUME NEW how \in {"exit", "crash"}, Hosted!GameExits(how) PROVE ProcessesOK'
  BY <1>23 DEF Hosted!GameExits, Hosted!GameRunning, ProcessesOK, ExchangeOK, WaitingOK
<1> QED
  BY <1>1, <1>2, <1>3, <1>4, <1>5, <1>6, <1>7, <1>8, <1>9, <1>10, <1>11, <1>12, <1>13, <1>14,
     <1>15, <1>16, <1>17, <1>18, <1>19, <1>20, <1>21, <1>22, <1>23 DEF Hosted!Next

LEMMA HostExchange ==
  ASSUME LaunchInv, LaunchTypes', Hosted!Next
  PROVE  ExchangeOK'
<1> USE LaunchConstants DEF LaunchInv, LaunchTypes, Launcher, Client, Server, Game, Statuses
<1>1. CASE Hosted!CreateLobby
  BY <1>1 DEF Hosted!CreateLobby, Hosted!Free, Hosted!Busy, ProcessesOK, ExchangeOK, WaitingOK,
       OverIfTold, AllTrue, Running
<1>2. CASE Hosted!JoinGame
  BY <1>2 DEF Hosted!JoinGame, Hosted!Free, Hosted!Busy, ProcessesOK, ExchangeOK, WaitingOK,
       OverIfTold, AllTrue, Running
<1>3. CASE Hosted!LaunchMessage
  BY <1>3 DEF Hosted!LaunchMessage, Hosted!Free, Hosted!Busy, ProcessesOK, ExchangeOK, WaitingOK,
       OverIfTold, AllTrue, Running
<1>4. CASE Hosted!VerifyMessage
  BY <1>4 DEF Hosted!VerifyMessage, Hosted!Free, Hosted!Busy, ProcessesOK, ExchangeOK, WaitingOK,
       OverIfTold, AllTrue, Running
<1>5. CASE Hosted!QuitMessage
  BY <1>5 DEF Hosted!QuitMessage, Hosted!Free, Hosted!Busy, Hosted!IsApplicationRunning, ProcessesOK,
       ExchangeOK, WaitingOK, OverIfTold, AllTrue, Running
<1>6. CASE Hosted!ResetQuitCount
  BY <1>6 DEF Hosted!ResetQuitCount, Hosted!Free, Hosted!Busy, ProcessesOK, ExchangeOK, WaitingOK,
       OverIfTold, AllTrue, Running
<1>7. CASE Hosted!StartIgnored
  BY <1>7 DEF Hosted!StartIgnored, Hosted!Busy, ProcessesOK, ExchangeOK, WaitingOK, OverIfTold,
       AllTrue, Running
<1>8. CASE Hosted!StartApplication
  <2>0. /\ StartKeeps /\ launcher'.ini = launcher.map
        /\ launcher.calls > 0 /\ launcher.waiting = "no"
        /\ ~launcher.alreadyStarted /\ launcher.readyToStart
    BY <1>8, StartEffect
  <2>1. CASE server.up
    <3>1. /\ launcher'.waiting \in {"start", "failversion"} /\ launcher'.calls = launcher.calls
          /\ client'.state = client.state /\ client'.connected
          /\ toServer' = Append(toServer, launcher'.waiting)
      BY <1>8, <2>1, StartEffect
    <3> QED
      BY <2>0, <2>1, <3>1 DEF StartKeeps, ProcessesOK, ExchangeOK, WaitingOK, OverIfTold, AllTrue, Running
  <2>2. CASE ~server.up
    <3>1. /\ launcher'.waiting = "no" /\ launcher'.calls = launcher.calls - 1
          /\ client'.state = "CONNECTING" \/ (client'.state = client.state /\ ~client.connected)
          /\ client'.connected = FALSE /\ toServer' = <<>> /\ toClient = <<>>
      BY <1>8, <2>2, StartEffect
    <3> QED
      BY <2>0, <2>2, <3>1 DEF StartKeeps, ProcessesOK, ExchangeOK, WaitingOK, OverIfTold, AllTrue, Running
  <2> QED
    BY <2>1, <2>2
<1>9. CASE Hosted!Answered
  <2>1. PICK n \in 1..Len(toClient) : toClient' = SubSeq(toClient, n + 1, Len(toClient))
    BY <1>9 DEF Hosted!Answered, Hosted!Readable
  <2>2. \A i \in DOMAIN toClient' : \E j \in DOMAIN toClient : toClient'[i] = toClient[j]
    BY <2>1, RestOf
  <2>3. /\ launcher.waiting # "no" /\ toClient # <<>> /\ server' = server /\ toServer' = toServer
        /\ client'.state = toClient[1] /\ Hosted!Started(toClient[1])
    BY <1>9 DEF Hosted!Answered, Hosted!Started, Hosted!Taken
  <2>4. WaitingOK
    BY <2>3 DEF ExchangeOK
  <2>5. CASE toClient = <<"FAIL">>
    <3>1. /\ launcher'.waiting = "no" /\ launcher'.alreadyStarted = FALSE /\ launcher'.polling = launcher.polling
          /\ toClient' = <<>>
      BY <2>1, <2>3, <2>4, <2>5 DEF Hosted!Started, Hosted!IsApplicationRunning, WaitingOK
    <3> QED
      BY <2>3, <2>4, <2>5, <3>1 DEF WaitingOK, ExchangeOK
  <2>6. CASE launcher.waiting = "start" /\ toServer = <<>> /\ toClient[1] = "RUNNING" /\ AllTrue(toClient)
    <3>0. launcher.waiting = "start" /\ Hosted!IsApplicationRunning(toClient[1])
      BY <2>6 DEF Hosted!IsApplicationRunning
    <3>1. launcher'.waiting = "no" /\ launcher'.alreadyStarted /\ launcher'.readyToStart = launcher.readyToStart
      <4> DEFINE started == launcher.alreadyStarted \/ (launcher.waiting = "start" /\ Hosted!IsApplicationRunning(toClient[1]))
                 polls == launcher.polling \/ (launcher.waiting = "start" /\ Hosted!IsApplicationRunning(toClient[1]))
      <4>1. launcher' = [launcher EXCEPT !.waiting = "no", !.calls = launcher.calls - 1,
                                         !.alreadyStarted = started, !.polling = polls]
        BY <2>3 DEF Hosted!Started
      <4>2. started = TRUE
        BY <3>0
      <4> HIDE DEF started, polls
      <4> QED
        BY <4>1, <4>2
    <3>2. AllTrue(toClient)'
      BY <2>2, <2>3, <2>6 DEF AllTrue, OverIfTold
    <3> QED
      BY <2>3, <2>4, <2>6, <3>1, <3>2 DEF WaitingOK, ExchangeOK, OverIfTold, Running
  <2> QED
    BY <2>3, <2>4, <2>5, <2>6 DEF WaitingOK
<1>10. CASE Hosted!NotAnswered
  BY <1>10 DEF Hosted!NotAnswered, Hosted!Started, Hosted!IsApplicationRunning, ProcessesOK,
       ExchangeOK, WaitingOK, OverIfTold, AllTrue, Running
<1>11. CASE Hosted!OnReadyReadTcp
  <2>1. PICK n \in 1..Len(toClient) :
          /\ client' = [client EXCEPT !.state = toClient[1]]
          /\ toClient' = SubSeq(toClient, n + 1, Len(toClient))
    BY <1>11 DEF Hosted!OnReadyReadTcp, Hosted!Readable, Hosted!Taken
  <2>2. \A i \in DOMAIN toClient' : \E j \in DOMAIN toClient : toClient'[i] = toClient[j]
    <3>1. toClient \in Seq(Statuses) /\ toClient' = SubSeq(toClient, n + 1, Len(toClient))
      BY <2>1
    <3> QED
      BY <3>1, RestOf
  <2>3. /\ launcher.calls = 0 /\ toClient # <<>> /\ UNCHANGED <<launcher, server, toServer>>
        /\ 1 \in DOMAIN toClient /\ client'.state = toClient[1]
    BY <1>11, <2>1 DEF Hosted!OnReadyReadTcp, Hosted!Free, Hosted!Busy
  <2>4. launcher.alreadyStarted /\ AllTrue(toClient) /\ launcher.waiting = "no"
    BY <2>3 DEF ExchangeOK, WaitingOK
  <2>5. AllTrue(toClient)' /\ OverIfTold(client.state)'
    BY <2>2, <2>3, <2>4 DEF AllTrue, OverIfTold
  <2> QED
    BY <2>3, <2>4, <2>5 DEF ExchangeOK
<1>12. CASE Hosted!Disconnected
  BY <1>12 DEF Hosted!Disconnected, Hosted!Free, Hosted!Busy, ProcessesOK, ExchangeOK, WaitingOK,
       OverIfTold, AllTrue, Running
<1>13. CASE Hosted!Poll
  <2>1. CASE client.state \notin {"RUNNING", "LAUNCHED"}
    <3>1. launcher' = [launcher EXCEPT !.polling = FALSE, !.up = FALSE] /\ told' = "GameEnded"
      BY <1>13, <2>1 DEF Hosted!Poll, Hosted!GameStopped, Hosted!IsApplicationRunning
    <3> QED
      BY <1>13, <2>1, <3>1 DEF Hosted!Poll, Hosted!Free, Hosted!Busy, ProcessesOK, ExchangeOK,
           WaitingOK, OverIfTold, AllTrue, Running
  <2>2. CASE client.state \in {"RUNNING", "LAUNCHED"}
    <3>1. launcher' = [launcher EXCEPT !.alreadyLaunched = TRUE] /\ told' = "Launching"
      BY <1>13, <2>2 DEF Hosted!Poll, Hosted!GameStopped, Hosted!IsApplicationRunning
    <3> QED
      BY <1>13, <3>1 DEF Hosted!Poll, Hosted!Free, Hosted!Busy, ProcessesOK, ExchangeOK, WaitingOK,
           OverIfTold, AllTrue, Running
  <2> QED
    BY <2>1, <2>2
<1>14. CASE Hosted!LaunchGame
  <2>1. /\ server.up /\ toServer # <<>> /\ Head(toServer) = "start" /\ toServer' = Tail(toServer)
        /\ UNCHANGED <<launcher, client>>
    BY <1>14 DEF Hosted!LaunchGame
  <2>2. launcher.waiting # "no" /\ WaitingOK
    BY <2>1 DEF ExchangeOK
  <2>3. /\ toServer = <<launcher.waiting>> /\ toClient = <<>> /\ launcher.up /\ launcher.waiting = "start"
        /\ ~server.jdPlay
    BY <2>1, <2>2 DEF WaitingOK, ProcessesOK
  <2>4. toServer' = <<>>
    BY <2>1, <2>3
  <2>5. \/ toClient' = <<"RUNNING">>
        \/ toClient' = <<"FAIL">> /\ server' = server
    <3>1. \/ Hosted!Notify("RUNNING")
          \/ Hosted!Notify("FAIL") /\ server' = server
      BY <1>14, <2>3, Zenon DEF Hosted!LaunchGame, Hosted!MayLaunch
    <3>2. launcher.up /\ client.connected
      BY <2>1, <2>3 DEF ProcessesOK
    <3> QED
      BY <2>3, <3>1, <3>2 DEF Hosted!Notify
  <2>6. CASE toClient' = <<"RUNNING">>
    BY <2>1, <2>2, <2>4, <2>6 DEF ExchangeOK, WaitingOK, AllTrue, OverIfTold, Running
  <2>7. CASE toClient' = <<"FAIL">> /\ server' = server
    BY <2>1, <2>2, <2>3, <2>4, <2>7 DEF ExchangeOK, WaitingOK
  <2> QED
    BY <2>5, <2>6, <2>7
<1>15. CASE Hosted!FailVersion
  <2>1. /\ server.up /\ toServer # <<>> /\ Head(toServer) = "failversion" /\ toServer' = Tail(toServer)
        /\ server'.jdPlay = FALSE /\ server'.up = server.up /\ UNCHANGED <<launcher, client>>
    BY <1>15 DEF Hosted!FailVersion
  <2>2. launcher.waiting # "no" /\ WaitingOK
    BY <2>1 DEF ExchangeOK
  <2>3. toServer = <<launcher.waiting>> /\ toClient = <<>> /\ launcher.up
    BY <2>1, <2>2 DEF WaitingOK, ProcessesOK
  <2>4. toServer' = <<>> /\ toClient' = <<"FAIL">>
    BY <1>15, <2>1, <2>3 DEF Hosted!FailVersion, Hosted!Notify, ProcessesOK
  <2> QED
    BY <2>1, <2>2, <2>4 DEF ExchangeOK, WaitingOK
<1>16. CASE Hosted!KeepAliveMessage
  BY <1>16 DEF Hosted!KeepAliveMessage, ProcessesOK, ExchangeOK, WaitingOK, OverIfTold, AllTrue, Running
<1>17. CASE Hosted!GameLaunches
  BY <1>17 DEF Hosted!GameLaunches, ProcessesOK, ExchangeOK, WaitingOK, OverIfTold, AllTrue, Running
<1>18. CASE Hosted!StrayExits
  BY <1>18 DEF Hosted!StrayExits, ProcessesOK, ExchangeOK, WaitingOK, OverIfTold, AllTrue, Running
<1>19. ASSUME NEW m \in Maps, Hosted!HostGame(m) PROVE ExchangeOK'
  BY <1>19 DEF Hosted!HostGame, Hosted!Free, Hosted!Busy, Hosted!DeferredCalls, ProcessesOK,
       ExchangeOK, WaitingOK, OverIfTold, AllTrue, Running
<1>20. ASSUME NEW m \in Maps, Hosted!MapMessage(m) PROVE ExchangeOK'
  BY <1>20 DEF Hosted!MapMessage, Hosted!Free, Hosted!Busy, Hosted!MaySetOptions, ProcessesOK,
       ExchangeOK, WaitingOK, OverIfTold, AllTrue, Running
<1>21. ASSUME NEW e \in {"started", "frozen", "ended"}, Hosted!GameEvent(e) PROVE ExchangeOK'
  BY <1>21 DEF Hosted!GameEvent, Hosted!Free, Hosted!Busy, Hosted!Events, ProcessesOK, ExchangeOK,
       WaitingOK, OverIfTold, AllTrue, Running
<1>22. ASSUME NEW answered \in BOOLEAN, Hosted!TimerEvent(answered) PROVE ExchangeOK'
  <2>0. server.up /\ client.connected /\ UNCHANGED <<launcher, client, toServer, game, stray, seen, told, toldMap>>
    BY <1>22 DEF Hosted!TimerEvent, ProcessesOK
  <2>1. CASE server.jdPlay /\ ~Hosted!GameRunning
    <3>1. server' = Hosted!CountDown([server EXCEPT !.jdPlay = FALSE])
      BY <1>22, <2>1 DEF Hosted!TimerEvent
    <3>2. ~server'.jdPlay /\ server'.counter = server.counter - 1 /\ server'.up = (server.counter > 1)
      BY <3>1 DEF Hosted!CountDown
    <3>3. \E status \in {"IDLE", "FAIL"} : Hosted!Notify(status)
      BY <1>22, <2>1 DEF Hosted!TimerEvent
    <3>4. toClient' = toClient \/ \E status \in {"IDLE", "FAIL"} : toClient' = Append(toClient, status)
      BY <3>3 DEF Hosted!Notify
    <3>5. launcher.alreadyStarted \/ (launcher.waiting = "start" /\ toClient # <<>> /\ toClient[1] = "RUNNING")
      BY <2>1 DEF ExchangeOK, WaitingOK
    <3>6. AllTrue(toClient)' /\ OverIfTold(client.state)'
      BY <3>2 DEF AllTrue, OverIfTold
    <3>7. toClient # <<>> => toClient' # <<>> /\ toClient'[1] = toClient[1]
      <4>1. CASE toClient' = toClient
        BY <4>1
      <4>2. ASSUME NEW status \in {"IDLE", "FAIL"}, toClient' = Append(toClient, status)
            PROVE  toClient # <<>> => toClient' # <<>> /\ toClient'[1] = toClient[1]
        BY <4>2, Appended
      <4> QED
        BY <3>4, <4>1, <4>2
    <3> QED
      BY <2>0, <2>1, <3>2, <3>5, <3>6, <3>7 DEF ExchangeOK, WaitingOK
  <2>2. CASE server.jdPlay /\ Hosted!GameRunning
    <3> DEFINE found == Hosted!EnumSessions(game.run = "room")
    <3>1. found.jdPlay = server.jdPlay /\ found.up = server.up /\ found.counter = server.counter
      BY DEF Hosted!EnumSessions
    <3>2. DOMAIN found = {"up", "jdPlay", "hosting", "joinDisabled", "closed", "validated", "counter"}
      BY DEF Hosted!EnumSessions
    <3>3. server' = [found EXCEPT !.joinDisabled = found.closed]
      BY <1>22, <2>2 DEF Hosted!TimerEvent
    <3> HIDE DEF found
    <3>4. server'.jdPlay = server.jdPlay /\ server'.up = server.up /\ server'.counter = server.counter
      BY <2>0, <3>1, <3>2, <3>3
    <3>5. toClient' = toClient \/ toClient' = Append(toClient, "LAUNCHED")
      BY <1>22, <2>2 DEF Hosted!TimerEvent, Hosted!Notify
    <3>6. launcher.alreadyStarted \/ (launcher.waiting = "start" /\ toClient # <<>> /\ toClient[1] = "RUNNING")
      BY <2>2 DEF ExchangeOK, WaitingOK
    <3>7. AllTrue(toClient)
      BY <2>2 DEF ExchangeOK, WaitingOK
    <3>8. AllTrue(toClient)'
      <4>1. CASE toClient' = toClient
        BY <3>4, <3>7, <4>1 DEF AllTrue, OverIfTold
      <4>2. CASE toClient' = Append(toClient, "LAUNCHED")
        <5>1. \A i \in DOMAIN toClient' :
                toClient'[i] = "LAUNCHED" \/ (i \in DOMAIN toClient /\ toClient'[i] = toClient[i])
          BY <4>2, Appended
        <5> QED
          BY <3>4, <3>7, <5>1 DEF AllTrue, OverIfTold, Running
      <4> QED
        BY <3>5, <4>1, <4>2
    <3>9. toClient # <<>> => toClient' # <<>> /\ toClient'[1] = toClient[1]
      BY <3>5, Appended, ZenonT(30) DEF Statuses
    <3> QED
      BY <2>0, <2>2, <3>4, <3>6, <3>8, <3>9 DEF ExchangeOK, WaitingOK, OverIfTold
  <2>3. CASE ~server.jdPlay
    <3>1. server' = Hosted!CountDown(server) /\ toClient' = toClient
      BY <1>22, <2>3 DEF Hosted!TimerEvent
    <3>2. server'.jdPlay = server.jdPlay /\ server'.counter = server.counter - 1 /\ server'.up = (server.counter > 1)
      BY <3>1 DEF Hosted!CountDown
    <3> QED
      BY <2>0, <2>3, <3>1, <3>2 DEF ProcessesOK, ExchangeOK, WaitingOK, OverIfTold, AllTrue, Running
  <2> QED
    BY <2>1, <2>2, <2>3
<1>23. ASSUME NEW how \in {"exit", "crash"}, Hosted!GameExits(how) PROVE ExchangeOK'
  BY <1>23 DEF Hosted!GameExits, Hosted!GameRunning, ProcessesOK, ExchangeOK, WaitingOK, OverIfTold,
       AllTrue, Running
<1> QED
  BY <1>1, <1>2, <1>3, <1>4, <1>5, <1>6, <1>7, <1>8, <1>9, <1>10, <1>11, <1>12, <1>13, <1>14,
     <1>15, <1>16, <1>17, <1>18, <1>19, <1>20, <1>21, <1>22, <1>23 DEF Hosted!Next

LEMMA HostPromises ==
  ASSUME LaunchInv, LaunchTypes', Hosted!Next
  PROVE  PromisesOK'
<1> USE LaunchConstants DEF LaunchInv, LaunchTypes, Launcher, Client, Server, Game, Statuses
<1>1. CASE Hosted!CreateLobby
  BY <1>1 DEF Hosted!CreateLobby, Hosted!Free, Hosted!Busy, ProcessesOK, ExchangeOK, WaitingOK,
       OverIfTold, PromisesOK, Running
<1>2. CASE Hosted!JoinGame
  BY <1>2 DEF Hosted!JoinGame, Hosted!Free, Hosted!Busy, ProcessesOK, ExchangeOK, WaitingOK,
       OverIfTold, PromisesOK, Running
<1>3. CASE Hosted!LaunchMessage
  BY <1>3 DEF Hosted!LaunchMessage, Hosted!Free, Hosted!Busy, ProcessesOK, ExchangeOK, WaitingOK,
       OverIfTold, PromisesOK, Running
<1>4. CASE Hosted!VerifyMessage
  BY <1>4 DEF Hosted!VerifyMessage, Hosted!Free, Hosted!Busy, ProcessesOK, ExchangeOK, WaitingOK,
       OverIfTold, PromisesOK, Running
<1>5. CASE Hosted!QuitMessage
  BY <1>5 DEF Hosted!QuitMessage, Hosted!Free, Hosted!Busy, Hosted!IsApplicationRunning, ProcessesOK,
       ExchangeOK, WaitingOK, OverIfTold, PromisesOK, Running
<1>6. CASE Hosted!ResetQuitCount
  BY <1>6 DEF Hosted!ResetQuitCount, Hosted!Free, Hosted!Busy, ProcessesOK, ExchangeOK, WaitingOK,
       OverIfTold, PromisesOK, Running
<1>7. CASE Hosted!StartIgnored
  BY <1>7 DEF Hosted!StartIgnored, Hosted!Busy, ProcessesOK, ExchangeOK, WaitingOK, OverIfTold,
       PromisesOK, Running
<1>8. CASE Hosted!StartApplication
  <2>0. /\ StartKeeps /\ launcher'.ini = launcher.map
        /\ launcher.calls > 0 /\ launcher.waiting = "no"
        /\ ~launcher.alreadyStarted /\ launcher.readyToStart
    BY <1>8, StartEffect
  <2>1. CASE server.up
    <3>1. /\ launcher'.waiting \in {"start", "failversion"} /\ launcher'.calls = launcher.calls
          /\ client'.state = client.state /\ client'.connected
          /\ toServer' = Append(toServer, launcher'.waiting)
      BY <1>8, <2>1, StartEffect
    <3> QED
      BY <2>0, <2>1, <3>1 DEF StartKeeps, ProcessesOK, ExchangeOK, WaitingOK, OverIfTold, PromisesOK,
           Running
  <2>2. CASE ~server.up
    <3>1. /\ launcher'.waiting = "no" /\ launcher'.calls = launcher.calls - 1
          /\ client'.state = "CONNECTING" \/ (client'.state = client.state /\ ~client.connected)
          /\ client'.connected = FALSE /\ toServer' = <<>> /\ toClient = <<>>
      BY <1>8, <2>2, StartEffect
    <3> QED
      BY <2>0, <2>2, <3>1 DEF StartKeeps, ProcessesOK, ExchangeOK, WaitingOK, OverIfTold, PromisesOK,
           Running
  <2> QED
    BY <2>1, <2>2
<1>9. CASE Hosted!Answered
  BY <1>9 DEF Hosted!Answered, Hosted!Started, Hosted!Taken, Hosted!Readable,
       Hosted!IsApplicationRunning, ProcessesOK, ExchangeOK, WaitingOK, OverIfTold, PromisesOK, Running
<1>10. CASE Hosted!NotAnswered
  BY <1>10 DEF Hosted!NotAnswered, Hosted!Started, Hosted!IsApplicationRunning, ProcessesOK,
       ExchangeOK, WaitingOK, OverIfTold, PromisesOK, Running
<1>11. CASE Hosted!OnReadyReadTcp
  BY <1>11 DEF Hosted!OnReadyReadTcp, Hosted!Free, Hosted!Busy, Hosted!Taken, Hosted!Readable,
       ProcessesOK, ExchangeOK, WaitingOK, OverIfTold, PromisesOK, Running
<1>12. CASE Hosted!Disconnected
  BY <1>12 DEF Hosted!Disconnected, Hosted!Free, Hosted!Busy, ProcessesOK, ExchangeOK, WaitingOK,
       OverIfTold, PromisesOK, Running
<1>13. CASE Hosted!Poll
  <2>1. CASE client.state \notin {"RUNNING", "LAUNCHED"}
    <3>1. launcher' = [launcher EXCEPT !.polling = FALSE, !.up = FALSE] /\ told' = "GameEnded"
      BY <1>13, <2>1 DEF Hosted!Poll, Hosted!GameStopped, Hosted!IsApplicationRunning
    <3> QED
      BY <1>13, <2>1, <3>1 DEF Hosted!Poll, Hosted!Free, Hosted!Busy, ProcessesOK, ExchangeOK,
           WaitingOK, OverIfTold, PromisesOK, Running
  <2>2. CASE client.state \in {"RUNNING", "LAUNCHED"}
    <3>1. launcher' = [launcher EXCEPT !.alreadyLaunched = TRUE] /\ told' = "Launching"
      BY <1>13, <2>2 DEF Hosted!Poll, Hosted!GameStopped, Hosted!IsApplicationRunning
    <3> QED
      BY <1>13, <3>1 DEF Hosted!Poll, Hosted!Free, Hosted!Busy, ProcessesOK, ExchangeOK, WaitingOK,
           OverIfTold, PromisesOK, Running
  <2> QED
    BY <2>1, <2>2
<1>14. CASE Hosted!LaunchGame
  BY <1>14 DEF Hosted!LaunchGame, Hosted!MayLaunch, Hosted!Notify, Hosted!GameRunning,
       Hosted!LaunchResults, Hosted!InitializeResults, ProcessesOK, ExchangeOK, WaitingOK, OverIfTold,
       PromisesOK, Running
<1>15. CASE Hosted!FailVersion
  BY <1>15 DEF Hosted!FailVersion, Hosted!Notify, Hosted!GameRunning, Hosted!NoMap, ProcessesOK,
       ExchangeOK, WaitingOK, OverIfTold, PromisesOK, Running
<1>16. CASE Hosted!KeepAliveMessage
  BY <1>16 DEF Hosted!KeepAliveMessage, ProcessesOK, ExchangeOK, WaitingOK, OverIfTold, PromisesOK, Running
<1>17. CASE Hosted!GameLaunches
  BY <1>17 DEF Hosted!GameLaunches, ProcessesOK, ExchangeOK, WaitingOK, OverIfTold, PromisesOK, Running
<1>18. CASE Hosted!StrayExits
  BY <1>18 DEF Hosted!StrayExits, ProcessesOK, ExchangeOK, WaitingOK, OverIfTold, PromisesOK, Running
<1>19. ASSUME NEW m \in Maps, Hosted!HostGame(m) PROVE PromisesOK'
  BY <1>19 DEF Hosted!HostGame, Hosted!Free, Hosted!Busy, Hosted!DeferredCalls, ProcessesOK,
       ExchangeOK, WaitingOK, OverIfTold, PromisesOK, Running
<1>20. ASSUME NEW m \in Maps, Hosted!MapMessage(m) PROVE PromisesOK'
  BY <1>20 DEF Hosted!MapMessage, Hosted!Free, Hosted!Busy, Hosted!MaySetOptions, ProcessesOK,
       ExchangeOK, WaitingOK, OverIfTold, PromisesOK, Running
<1>21. ASSUME NEW e \in {"started", "frozen", "ended"}, Hosted!GameEvent(e) PROVE PromisesOK'
  BY <1>21 DEF Hosted!GameEvent, Hosted!Free, Hosted!Busy, Hosted!Events, ProcessesOK, ExchangeOK,
       WaitingOK, OverIfTold, PromisesOK, Running
<1>22. ASSUME NEW answered \in BOOLEAN, Hosted!TimerEvent(answered) PROVE PromisesOK'
  BY <1>22 DEF Hosted!TimerEvent, Hosted!Notify, Hosted!GameRunning, Hosted!CountDown,
       Hosted!EnumSessions, ProcessesOK, ExchangeOK, WaitingOK, OverIfTold, PromisesOK, Running
<1>23. ASSUME NEW how \in {"exit", "crash"}, Hosted!GameExits(how) PROVE PromisesOK'
  BY <1>23 DEF Hosted!GameExits, Hosted!GameRunning, ProcessesOK, ExchangeOK, WaitingOK, OverIfTold,
       PromisesOK, Running
<1> QED
  BY <1>1, <1>2, <1>3, <1>4, <1>5, <1>6, <1>7, <1>8, <1>9, <1>10, <1>11, <1>12, <1>13, <1>14,
     <1>15, <1>16, <1>17, <1>18, <1>19, <1>20, <1>21, <1>22, <1>23 DEF Hosted!Next

LEMMA HostKeeps ==
  ASSUME LaunchInv, Hosted!Next
  PROVE  LaunchInv'
<1>1. LaunchTypes'
  BY HostTypes
<1> QED
  BY <1>1, HostProcesses, HostExchange, HostPromises DEF LaunchInv

LEMMA LaunchInit ==
  ASSUME Hosted!Init \/ Told!Init
  PROVE  LaunchInv /\ OrderOK
<1>0. /\ launcher = [up |-> TRUE, autoStart |-> FALSE, readyToStart |-> FALSE, alreadyStarted |-> FALSE,
                    alreadyLaunched |-> FALSE, isHost |-> FALSE, quitCount |-> 0, verify |-> FALSE,
                    polling |-> FALSE, calls |-> 0, waiting |-> "no", map |-> "none", ini |-> "none"]
      /\ client = [state |-> "IDLE", connected |-> TRUE]
      /\ server = [up |-> TRUE, jdPlay |-> FALSE, hosting |-> FALSE, joinDisabled |-> FALSE,
                  closed |-> FALSE, validated |-> FALSE, counter |-> KeepAlive]
      /\ toServer = <<>> /\ toClient = <<>> /\ game = [run |-> "none", map |-> "none"]
      /\ stray = FALSE /\ seen = "nothing" /\ told = "Idle" /\ toldMap = "none"
  <2>1. CASE Hosted!Init
    BY <2>1 DEF Hosted!Init, Hosted!NoMap
  <2>2. CASE Told!Init
    BY <2>2 DEF Told!Init, Told!NoMap
  <2> QED
    BY <2>1, <2>2
<1>1. LaunchTypes
  <2>1. launcher \in Launcher
    BY <1>0 DEF Launcher
  <2>2. client \in Client /\ game \in Game
    BY <1>0 DEF Client, Game, Statuses
  <2>3. server \in Server
    BY <1>0, LaunchConstants DEF Server
  <2>4. toServer \in Seq({"start", "failversion"}) /\ toClient \in Seq(Statuses)
    BY <1>0
  <2>5. stray \in BOOLEAN
    BY <1>0
  <2> QED
    BY <1>0, <2>1, <2>2, <2>3, <2>4, <2>5 DEF LaunchTypes
<1>2. ProcessesOK /\ PromisesOK
  BY <1>0, LaunchConstants DEF ProcessesOK, PromisesOK
<1>3. ExchangeOK
  BY <1>0 DEF ExchangeOK
<1>4. OrderOK
  BY <1>0 DEF OrderOK
<1> QED
  BY <1>1, <1>2, <1>3, <1>4 DEF LaunchInv

LEMMA LaunchUnchanged ==
  ASSUME UNCHANGED launchVars
  PROVE  /\ LaunchInv => LaunchInv'
         /\ OrderOK => OrderOK'
         /\ JoinedInv => JoinedInv'
<1>1. LaunchTypes => LaunchTypes'
  BY DEF launchVars, LaunchTypes
<1>2. ProcessesOK => ProcessesOK'
  BY DEF launchVars, ProcessesOK
<1>3. ExchangeOK => ExchangeOK'
  BY DEF launchVars, ExchangeOK, WaitingOK, OverIfTold, AllTrue
<1>4. PromisesOK => PromisesOK'
  BY DEF launchVars, PromisesOK
<1>5. OrderOK => OrderOK'
  BY DEF launchVars, OrderOK
<1>6. JoinedInv => JoinedInv'
  BY DEF launchVars, JoinedInv
<1> QED
  BY <1>1, <1>2, <1>3, <1>4, <1>5, <1>6 DEF LaunchInv

LEMMA TypesSayTypeOK ==
  ASSUME LaunchInv
  PROVE  Hosted!TypeOK
<1> USE DEF LaunchInv, LaunchTypes
<1>1. \E i \in DOMAIN Hosted!Ladder : Hosted!Ladder[i] = told
  <2>1. /\ DOMAIN Hosted!Ladder = 1..7
        /\ Hosted!Ladder[1] = "Idle" /\ Hosted!Ladder[2] = "Staging" /\ Hosted!Ladder[3] = "Battleroom"
        /\ Hosted!Ladder[4] = "Launching" /\ Hosted!Ladder[5] = "Live" /\ Hosted!Ladder[6] = "Ended"
        /\ Hosted!Ladder[7] = "GameEnded"
    BY DEF Hosted!Ladder
  <2> QED
    BY <2>1
<1>2. client.state \in Hosted!States /\ \A i \in DOMAIN toClient : toClient[i] \in Hosted!States \ {"CONNECTING"}
  BY DEF Hosted!States, Statuses, Client
<1>3. /\ launcher.calls \in 0..2 /\ launcher.quitCount \in 0..2
      /\ launcher.waiting \in {"no", "start", "failversion"}
      /\ {launcher.map, launcher.ini, toldMap, game.map} \subseteq Maps \union {"none"}
      /\ server.counter \in 0..KeepAlive /\ game.run \in {"none", "room", "playing", "exit", "crash"}
  BY DEF Launcher, Server, Game
<1>4. \A i \in DOMAIN toServer : toServer[i] \in {"start", "failversion"}
  OBVIOUS
<1> QED
  BY <1>1, <1>2, <1>3, <1>4 DEF Hosted!TypeOK, Hosted!NoMap

HostedPart == part = "hosted" => LaunchInv

LEMMA HostedPartKeeps ==
  ASSUME HostedPart, [Next]_vars
  PROVE  HostedPart'
<1> SUFFICES ASSUME part' = "hosted" PROVE LaunchInv'
  BY DEF HostedPart
<1>1. part = "hosted"
  BY DEF Next, LaunchNext, EventsNext, StreamNext, LinkNext, ResendNext, DoorNext, vars
<1>2. CASE Hosted!Next
  BY <1>1, <1>2, HostKeeps DEF HostedPart
<1>3. CASE UNCHANGED launchVars
  BY <1>1, <1>3, LaunchUnchanged DEF HostedPart
<1> QED
  BY <1>1, <1>2, <1>3 DEF Next, LaunchNext, EventsNext, StreamNext, LinkNext, ResendNext, DoorNext, vars

(* Whatever maps there are, however often the user types /launch, /map,    *)
(* /verify and /quit, and whatever the order in which the two processes,   *)
(* the game and the merged status messages move: GpgNet is told the map    *)
(* the game runs with, hears of the end of a game only when the launch     *)
(* server holds none, and an early /launch is carried out (onHostGame,     *)
(* onStartApplication, pollJdplayStillActive, LaunchServer::timerEvent).   *)
THEOREM WhatIsToldIsTrue == Spec => []ToldTruly
<1>1. Init => HostedPart
  BY LaunchInit DEF Init, HostedPart
<1>2. HostedPart /\ [Next]_vars => HostedPart'
  BY HostedPartKeeps
<1>3. HostedPart => ToldTruly
  <2> SUFFICES ASSUME LaunchInv
               PROVE  Hosted!TypeOK /\ Hosted!MapAsTold /\ Hosted!EndedMeansOver /\ Hosted!DeferredLaunchDone
    BY DEF HostedPart, ToldTruly
  <2>1. Hosted!MapAsTold
    BY DEF LaunchInv, PromisesOK, Hosted!MapAsTold, Hosted!GameRunning
  <2>2. Hosted!EndedMeansOver
    BY DEF LaunchInv, PromisesOK, ExchangeOK, OverIfTold, Hosted!EndedMeansOver
  <2>3. Hosted!DeferredLaunchDone
    BY DEF LaunchInv, PromisesOK, Hosted!DeferredLaunchDone, Hosted!Busy
  <2> QED
    BY <2>1, <2>2, <2>3, TypesSayTypeOK
<1> QED
  BY <1>1, <1>2, <1>3, PTL DEF Spec

-----------------------------------------------------------------------------
(* Launch: the host without orphans.  It differs from the other host in    *)
(* what it starts at once and in what a launch can end with.               *)

LEMMA ToldIsHosted ==
  ASSUME Told!Next
  PROVE  Hosted!Next \/ \E m \in Maps : Told!HostGame(m)
<1>1. Told!CreateLobby => Hosted!CreateLobby
  BY DEF Told!CreateLobby, Hosted!CreateLobby, Told!Free, Hosted!Free, Told!Busy, Hosted!Busy
<1>2. Told!JoinGame => Hosted!JoinGame
  BY DEF Told!JoinGame, Hosted!JoinGame, Told!Free, Hosted!Free, Told!Busy, Hosted!Busy
<1>3. Told!LaunchMessage => Hosted!LaunchMessage
  BY DEF Told!LaunchMessage, Hosted!LaunchMessage, Told!Free, Hosted!Free, Told!Busy, Hosted!Busy
<1>4. Told!VerifyMessage => Hosted!VerifyMessage
  BY DEF Told!VerifyMessage, Hosted!VerifyMessage, Told!Free, Hosted!Free, Told!Busy, Hosted!Busy
<1>5. Told!QuitMessage => Hosted!QuitMessage
  BY DEF Told!QuitMessage, Hosted!QuitMessage, Told!Free, Hosted!Free, Told!Busy, Hosted!Busy, Told!IsApplicationRunning, Hosted!IsApplicationRunning
<1>6. Told!ResetQuitCount => Hosted!ResetQuitCount
  BY DEF Told!ResetQuitCount, Hosted!ResetQuitCount, Told!Free, Hosted!Free, Told!Busy, Hosted!Busy
<1>7. Told!StartIgnored => Hosted!StartIgnored
  BY DEF Told!StartIgnored, Hosted!StartIgnored, Told!Busy, Hosted!Busy
<1>8. Told!StartApplication => Hosted!StartApplication
  BY DEF Told!StartApplication, Hosted!StartApplication, Told!Busy, Hosted!Busy, Told!Refused, Hosted!Refused, Told!IniWritten, Hosted!IniWritten
<1>9. Told!Answered => Hosted!Answered
  BY DEF Told!Answered, Hosted!Answered, Told!Started, Hosted!Started, Told!Taken, Hosted!Taken, Told!Readable, Hosted!Readable, Told!IsApplicationRunning, Hosted!IsApplicationRunning
<1>10. Told!NotAnswered => Hosted!NotAnswered
  BY DEF Told!NotAnswered, Hosted!NotAnswered, Told!Started, Hosted!Started, Told!IsApplicationRunning, Hosted!IsApplicationRunning
<1>11. Told!OnReadyReadTcp => Hosted!OnReadyReadTcp
  BY DEF Told!OnReadyReadTcp, Hosted!OnReadyReadTcp, Told!Free, Hosted!Free, Told!Busy, Hosted!Busy, Told!Taken, Hosted!Taken, Told!Readable, Hosted!Readable
<1>12. Told!Disconnected => Hosted!Disconnected
  BY DEF Told!Disconnected, Hosted!Disconnected, Told!Free, Hosted!Free, Told!Busy, Hosted!Busy
<1>13. Told!Poll => Hosted!Poll
  BY DEF Told!Poll, Hosted!Poll, Told!Free, Hosted!Free, Told!Busy, Hosted!Busy, Told!GameStopped, Hosted!GameStopped, Told!IsApplicationRunning, Hosted!IsApplicationRunning
<1>14. Told!FailVersion => Hosted!FailVersion
  BY DEF Told!FailVersion, Hosted!FailVersion, Told!Notify, Hosted!Notify, Told!GameRunning, Hosted!GameRunning, Told!NoMap, Hosted!NoMap
<1>15. Told!KeepAliveMessage => Hosted!KeepAliveMessage
  BY DEF Told!KeepAliveMessage, Hosted!KeepAliveMessage
<1>16. Told!GameLaunches => Hosted!GameLaunches
  BY DEF Told!GameLaunches, Hosted!GameLaunches
<1>17. Told!StrayExits => Hosted!StrayExits
  BY DEF Told!StrayExits, Hosted!StrayExits
<1>18. ASSUME NEW m \in Maps, Told!MapMessage(m) PROVE Hosted!MapMessage(m)
  BY <1>18 DEF Told!MapMessage, Hosted!MapMessage, Told!Free, Hosted!Free, Told!Busy, Hosted!Busy,
       Told!MaySetOptions, Hosted!MaySetOptions
<1>19. ASSUME NEW e \in {"started", "frozen", "ended"}, Told!GameEvent(e) PROVE Hosted!GameEvent(e)
  BY <1>19 DEF Told!GameEvent, Hosted!GameEvent, Told!Playing, Hosted!Playing, Told!Free, Hosted!Free,
       Told!Busy, Hosted!Busy, Told!Events, Hosted!Events
<1>20. ASSUME NEW answered \in BOOLEAN, Told!TimerEvent(answered) PROVE Hosted!TimerEvent(answered)
  BY <1>20 DEF Told!TimerEvent, Hosted!TimerEvent, Told!Notify, Hosted!Notify, Told!GameRunning,
       Hosted!GameRunning, Told!CountDown, Hosted!CountDown, Told!EnumSessions, Hosted!EnumSessions
<1>21. ASSUME NEW how \in {"exit", "crash"}, Told!GameExits(how) PROVE Hosted!GameExits(how)
  BY <1>21 DEF Told!GameExits, Hosted!GameExits, Told!GameRunning, Hosted!GameRunning
<1>22. Told!LaunchGame => Hosted!LaunchGame
  <2>1. Told!LaunchResults \subseteq Hosted!LaunchResults /\ Told!InitializeResults = Hosted!InitializeResults
    BY DEF Told!LaunchResults, Hosted!LaunchResults, Told!InitializeResults, Hosted!InitializeResults
  <2>2. /\ Told!MayLaunch <=> Hosted!MayLaunch
        /\ Told!GameRunning <=> Hosted!GameRunning
        /\ \A status : Told!Notify(status) <=> Hosted!Notify(status)
    BY DEF Told!MayLaunch, Hosted!MayLaunch, Told!GameRunning, Hosted!GameRunning, Told!Notify, Hosted!Notify
  <2> QED
    BY <2>1, <2>2 DEF Told!LaunchGame, Hosted!LaunchGame
<1> QED
  BY <1>1, <1>2, <1>3, <1>4, <1>5, <1>6, <1>7, <1>8, <1>9, <1>10, <1>11, <1>12, <1>13, <1>14, <1>15, <1>16, <1>17, <1>18, <1>19, <1>20, <1>21, <1>22
  DEF Told!Next, Hosted!Next

LEMMA ToldStartIsHosted ==
  ASSUME Told!StartApplication
  PROVE  Hosted!StartApplication
BY DEF Told!StartApplication, Hosted!StartApplication, Told!Busy, Hosted!Busy, Told!Refused,
       Hosted!Refused, Told!IniWritten, Hosted!IniWritten

LEMMA ToldHostGameKeeps ==
  ASSUME LaunchInv, NEW m \in Maps, Told!HostGame(m)
  PROVE  LaunchInv'
<1> USE DEF LaunchInv
<1>1. Told!DeferredCalls \in 0..2 /\ (launcher.autoStart => Told!DeferredCalls > 0)
  BY DEF Told!DeferredCalls
<1>2. /\ launcher' = [launcher EXCEPT !.map = m, !.readyToStart = TRUE, !.isHost = TRUE,
                                    !.calls = Told!DeferredCalls]
      /\ toldMap' = m /\ UNCHANGED <<client, server, toServer, toClient, game, stray, seen, told>>
      /\ launcher.up /\ launcher.calls = 0 /\ ~launcher.readyToStart
  BY DEF Told!HostGame, Told!Free, Told!Busy, LaunchTypes, Launcher
<1>3. LaunchTypes'
  <2>1. launcher' \in Launcher
    BY <1>1, <1>2 DEF LaunchTypes, Launcher
  <2> QED
    BY <1>2, <2>1 DEF LaunchTypes
<1>4. /\ launcher'.calls = Told!DeferredCalls /\ launcher'.map = m /\ launcher'.readyToStart
      /\ launcher'.up = launcher.up /\ launcher'.quitCount = launcher.quitCount
      /\ launcher'.waiting = launcher.waiting /\ launcher'.alreadyStarted = launcher.alreadyStarted
      /\ launcher'.polling = launcher.polling /\ launcher'.autoStart = launcher.autoStart
  BY <1>2 DEF LaunchTypes, Launcher
<1>5. launcher.waiting = "no" /\ ~launcher.alreadyStarted /\ ~server.jdPlay
  BY <1>2 DEF ExchangeOK, WaitingOK
<1>6. ProcessesOK'
  BY <1>2, <1>4 DEF ProcessesOK
<1>7. ExchangeOK'
  BY <1>2, <1>4, <1>5 DEF ExchangeOK
<1>8. PromisesOK'
  BY <1>1, <1>2, <1>4, <1>5 DEF PromisesOK, ProcessesOK
<1> QED
  BY <1>3, <1>6, <1>7, <1>8

LEMMA OrderKeeps ==
  ASSUME LaunchInv, OrderOK, LaunchTypes', Told!Next
  PROVE  OrderOK'
<1> USE DEF LaunchInv, LaunchTypes, Launcher, Client, Server, Game, OrderOK
<1>1. CASE Told!CreateLobby
  BY <1>1 DEF Told!CreateLobby, Told!Free, Told!Busy, ProcessesOK, ExchangeOK, WaitingOK
<1>2. CASE Told!JoinGame
  BY <1>2 DEF Told!JoinGame, Told!Free, Told!Busy, ProcessesOK, ExchangeOK, WaitingOK
<1>3. CASE Told!LaunchMessage
  BY <1>3 DEF Told!LaunchMessage, Told!Free, Told!Busy, ProcessesOK, ExchangeOK, WaitingOK
<1>4. CASE Told!VerifyMessage
  BY <1>4 DEF Told!VerifyMessage, Told!Free, Told!Busy, ProcessesOK, ExchangeOK, WaitingOK
<1>5. CASE Told!QuitMessage
  BY <1>5 DEF Told!QuitMessage, Told!Free, Told!Busy, Told!IsApplicationRunning, ProcessesOK,
       ExchangeOK, WaitingOK
<1>6. CASE Told!ResetQuitCount
  BY <1>6 DEF Told!ResetQuitCount, Told!Free, Told!Busy, ProcessesOK, ExchangeOK, WaitingOK
<1>7. CASE Told!StartIgnored
  BY <1>7 DEF Told!StartIgnored, Told!Busy, ProcessesOK, ExchangeOK, WaitingOK
<1>8. CASE Told!StartApplication
  <2>1. /\ StartKeeps /\ ~launcher.alreadyStarted
    BY <1>8, StartEffect, ToldStartIsHosted
  <2> QED
    BY <2>1 DEF StartKeeps
<1>9. CASE Told!Answered
  BY <1>9 DEF Told!Answered, Told!Started, Told!Taken, Told!Readable, Told!IsApplicationRunning,
       ProcessesOK, ExchangeOK, WaitingOK
<1>10. CASE Told!NotAnswered
  BY <1>10 DEF Told!NotAnswered, Told!Started, Told!IsApplicationRunning, ProcessesOK, ExchangeOK, WaitingOK
<1>11. CASE Told!OnReadyReadTcp
  BY <1>11 DEF Told!OnReadyReadTcp, Told!Free, Told!Busy, Told!Taken, Told!Readable, ProcessesOK,
       ExchangeOK, WaitingOK
<1>12. CASE Told!Disconnected
  BY <1>12 DEF Told!Disconnected, Told!Free, Told!Busy, ProcessesOK, ExchangeOK, WaitingOK
<1>13. CASE Told!Poll
  <2>1. launcher.polling /\ launcher.alreadyStarted /\ launcher.up /\ UNCHANGED <<stray, seen>>
    BY <1>13 DEF Told!Poll, Told!Free, ExchangeOK
  <2>2. CASE launcher' = [launcher EXCEPT !.polling = FALSE, !.up = FALSE] /\ told' = "GameEnded"
    BY <2>1, <2>2
  <2>3. CASE /\ launcher' = [launcher EXCEPT !.alreadyLaunched = TRUE] /\ told' = "Launching"
             /\ ~launcher.alreadyLaunched
    BY <2>1, <2>3
  <2> QED
    BY <1>13, <2>2, <2>3 DEF Told!Poll
<1>14. CASE Told!LaunchGame
  BY <1>14 DEF Told!LaunchGame, Told!MayLaunch, Told!Notify, Told!GameRunning, Told!LaunchResults,
       Told!InitializeResults, ProcessesOK, ExchangeOK, WaitingOK
<1>15. CASE Told!FailVersion
  BY <1>15 DEF Told!FailVersion, Told!Notify, Told!GameRunning, Told!NoMap, ProcessesOK, ExchangeOK,
       WaitingOK
<1>16. CASE Told!KeepAliveMessage
  BY <1>16 DEF Told!KeepAliveMessage, ProcessesOK, ExchangeOK, WaitingOK
<1>17. CASE Told!GameLaunches
  BY <1>17 DEF Told!GameLaunches, ProcessesOK, ExchangeOK, WaitingOK
<1>18. CASE Told!StrayExits
  BY <1>18 DEF Told!StrayExits, ProcessesOK, ExchangeOK, WaitingOK
<1>19. ASSUME NEW m \in Maps, Told!HostGame(m) PROVE OrderOK'
  BY <1>19 DEF Told!HostGame, Told!Free, Told!Busy, Told!DeferredCalls, ProcessesOK, ExchangeOK, WaitingOK
<1>20. ASSUME NEW m \in Maps, Told!MapMessage(m) PROVE OrderOK'
  BY <1>20 DEF Told!MapMessage, Told!Free, Told!Busy, Told!MaySetOptions, ProcessesOK, ExchangeOK, WaitingOK
<1>21. ASSUME NEW e \in {"started", "frozen", "ended"}, Told!GameEvent(e) PROVE OrderOK'
  <2>1. launcher.up /\ launcher.calls = 0 /\ game.run = "playing" /\ UNCHANGED <<launcher, stray>>
    BY <1>21 DEF Told!GameEvent, Told!Free, Told!Busy, Told!Playing
  <2>2. launcher.alreadyStarted /\ launcher.isHost
    BY <2>1 DEF ProcessesOK, ExchangeOK, WaitingOK
  <2>3. \/ e = "started" /\ seen = "nothing" /\ told' = "Launching"
        \/ e = "frozen" /\ seen = "started" /\ told' = "Live" /\ launcher.alreadyLaunched
        \/ e = "ended" /\ seen = "frozen" /\ told' = "Ended"
    BY <1>21, <2>2 DEF Told!GameEvent, Told!Events
  <2>4. seen' = e
    BY <1>21 DEF Told!GameEvent
  <2> QED
    BY <2>1, <2>2, <2>3, <2>4
<1>22. ASSUME NEW answered \in BOOLEAN, Told!TimerEvent(answered) PROVE OrderOK'
  BY <1>22 DEF Told!TimerEvent, Told!Notify, Told!GameRunning, Told!CountDown, Told!EnumSessions,
       ProcessesOK, ExchangeOK, WaitingOK
<1>23. ASSUME NEW how \in {"exit", "crash"}, Told!GameExits(how) PROVE OrderOK'
  BY <1>23 DEF Told!GameExits, Told!GameRunning, ProcessesOK, ExchangeOK, WaitingOK
<1> QED
  BY <1>1, <1>2, <1>3, <1>4, <1>5, <1>6, <1>7, <1>8, <1>9, <1>10, <1>11, <1>12, <1>13, <1>14,
     <1>15, <1>16, <1>17, <1>18, <1>19, <1>20, <1>21, <1>22, <1>23 DEF Told!Next

LEMMA RankOf ==
  /\ Told!Rank("Idle") = 1 /\ Told!Rank("Staging") = 2 /\ Told!Rank("Battleroom") = 3
  /\ Told!Rank("Launching") = 4 /\ Told!Rank("Live") = 5 /\ Told!Rank("Ended") = 6
  /\ Told!Rank("GameEnded") = 7
<1>1. /\ DOMAIN Told!Ladder = 1..7
      /\ Told!Ladder[1] = "Idle" /\ Told!Ladder[2] = "Staging" /\ Told!Ladder[3] = "Battleroom"
      /\ Told!Ladder[4] = "Launching" /\ Told!Ladder[5] = "Live" /\ Told!Ladder[6] = "Ended"
      /\ Told!Ladder[7] = "GameEnded"
  BY DEF Told!Ladder
<1>2. \A i \in 1..7 : i = 1 \/ i = 2 \/ i = 3 \/ i = 4 \/ i = 5 \/ i = 6 \/ i = 7
  OBVIOUS
<1>3. ASSUME NEW k \in 1..7 PROVE Told!Rank(Told!Ladder[k]) = k
  <2>1. \A i \in DOMAIN Told!Ladder : Told!Ladder[i] = Told!Ladder[k] => i = k
    BY <1>1, <1>2
  <2>2. k \in DOMAIN Told!Ladder
    BY <1>1
  <2> HIDE DEF Told!Ladder
  <2> QED
    BY <2>1, <2>2 DEF Told!Rank
<1> QED
  BY <1>1, <1>3

LEMMA ToldRises ==
  ASSUME LaunchInv, OrderOK, Told!Next
  PROVE  Told!Rank(told) <= Told!Rank(told')
<1> USE RankOf DEF LaunchInv, LaunchTypes
<1>1. CASE told' = told
  BY <1>1
<1>2. CASE told' = "GameEnded"
  BY <1>2
<1>3. CASE Told!CreateLobby
  BY <1>3 DEF Told!CreateLobby
<1>4. CASE Told!Answered \/ Told!NotAnswered
  <2>1. launcher.waiting # "no" /\ told' \in {told, "Battleroom"}
    BY <1>4 DEF Told!Answered, Told!NotAnswered, Told!Started
  <2>2. told \in {"Idle", "Staging"}
    BY <2>1 DEF ExchangeOK, WaitingOK, OrderOK
  <2> QED
    BY <1>1, <2>1, <2>2
<1>5. CASE Told!Poll
  <2>1. CASE told' = "Launching" /\ ~launcher.alreadyLaunched
    BY <1>5, <2>1 DEF Told!Poll, Told!Free, ExchangeOK, OrderOK
  <2> QED
    BY <1>2, <1>5, <2>1 DEF Told!Poll
<1>6. ASSUME NEW e \in {"started", "frozen", "ended"}, Told!GameEvent(e) PROVE Told!Rank(told) <= Told!Rank(told')
  <2>1. launcher.up /\ launcher.calls = 0 /\ game.run = "playing"
    BY <1>6 DEF Told!GameEvent, Told!Free, Told!Busy, Told!Playing, OrderOK, Launcher
  <2>2. launcher.alreadyStarted /\ launcher.isHost
    BY <2>1 DEF ProcessesOK, ExchangeOK, WaitingOK, OrderOK
  <2>3. \/ e = "started" /\ seen = "nothing" /\ told' = "Launching"
        \/ e = "frozen" /\ seen = "started" /\ told' = "Live" /\ launcher.alreadyLaunched
        \/ e = "ended" /\ seen = "frozen" /\ told' = "Ended"
    BY <1>6, <2>2 DEF Told!GameEvent, Told!Events
  <2> QED
    BY <2>1, <2>2, <2>3 DEF OrderOK
<1>7. CASE \/ Told!JoinGame \/ Told!LaunchMessage \/ Told!VerifyMessage \/ Told!QuitMessage
           \/ Told!ResetQuitCount \/ Told!StartIgnored \/ Told!StartApplication \/ Told!OnReadyReadTcp
           \/ Told!Disconnected \/ Told!KeepAliveMessage \/ Told!GameLaunches \/ Told!StrayExits
  BY <1>1, <1>7 DEF Told!JoinGame, Told!LaunchMessage, Told!VerifyMessage, Told!QuitMessage,
         Told!ResetQuitCount, Told!StartIgnored, Told!StartApplication, Told!OnReadyReadTcp,
         Told!Disconnected, Told!KeepAliveMessage, Told!GameLaunches, Told!StrayExits
<1>8. CASE Told!LaunchGame \/ Told!FailVersion
  BY <1>1, <1>8 DEF Told!LaunchGame, Told!FailVersion
<1>9. CASE \/ \E m \in Maps : Told!HostGame(m) \/ Told!MapMessage(m)
           \/ \E answered \in BOOLEAN : Told!TimerEvent(answered)
           \/ \E how \in {"exit", "crash"} : Told!GameExits(how)
  <2>1. told' = told
    BY <1>9, Zenon DEF Told!HostGame, Told!MapMessage, Told!TimerEvent, Told!GameExits
  <2> QED
    BY <1>1, <2>1
<1> QED
  BY <1>3, <1>4, <1>5, <1>6, <1>7, <1>8, <1>9 DEF Told!Next

ToldPart == part = "told" => LaunchInv /\ OrderOK

LEMMA ToldPartKeeps ==
  ASSUME ToldPart, [Next]_vars
  PROVE  ToldPart' /\ (part = "told" => Told!Rank(told) <= Told!Rank(told'))
<1>1. part' = part
  BY DEF Next, LaunchNext, EventsNext, StreamNext, LinkNext, ResendNext, DoorNext, vars
<1> SUFFICES ASSUME part = "told", LaunchInv, OrderOK
             PROVE  LaunchInv' /\ OrderOK' /\ Told!Rank(told) <= Told!Rank(told')
  BY <1>1 DEF ToldPart
<1>2. CASE Told!Next
  <2>1. LaunchInv'
    BY <1>2, ToldIsHosted, HostKeeps, ToldHostGameKeeps
  <2>2. OrderOK'
    BY <1>2, <2>1, OrderKeeps DEF LaunchInv
  <2> QED
    BY <1>2, <2>1, <2>2, ToldRises
<1>3. CASE UNCHANGED launchVars
  <2>1. told' = told
    BY <1>3 DEF launchVars
  <2>2. Told!Rank(told) \in Nat
    BY RankOf DEF LaunchInv, LaunchTypes
  <2> QED
    BY <1>3, <2>1, <2>2, LaunchUnchanged
<1> QED
  BY <1>2, <1>3 DEF Next, LaunchNext, EventsNext, StreamNext, LinkNext, ResendNext, DoorNext, vars

(* GpgNet never hears of a state of the game that lies behind one it has   *)
(* already heard of, though pollJdplayStillActive and GameMonitor2 tell it *)
(* of the launch independently of each other (ForwardGameEventsToGpgNet).  *)
THEOREM StatesAreToldInOrder == Spec => ToldInOrder
<1>1. Init => ToldPart
  BY LaunchInit DEF Init, ToldPart
<1>2. ToldPart /\ [Next]_vars => ToldPart'
  BY ToldPartKeeps
<1>3. ToldPart /\ [Next]_vars => [part = "told" => Told!Rank(told) <= Told!Rank(told')]_vars
  BY ToldPartKeeps
<1> QED
  BY <1>1, <1>2, <1>3, PTL DEF Spec, ToldInOrder

-----------------------------------------------------------------------------
(* Launch: a player who joins. *)

LEMMA JoinedInit ==
  ASSUME Joined!Init
  PROVE  JoinedInv
BY LaunchConstants DEF Joined!Init, JoinedInv, Joined!NoMap

LEMMA JoinedKeeps ==
  ASSUME JoinedInv, Joined!Next
  PROVE  JoinedInv'
<1> USE LaunchConstants DEF JoinedInv
<1>1. CASE UNCHANGED <<server, toServer, game, stray>>
  BY <1>1
<1>2. CASE Joined!StartApplication
  <2>1. UNCHANGED <<server, game, stray>> /\ (toServer' = Append(toServer, "start") \/ toServer' = <<>>)
    BY <1>2 DEF Joined!StartApplication, Joined!Refused
  <2>2. toServer' \in Seq({"start"})
    <3>1. toServer \in Seq({"start"}) /\ "start" \in {"start"}
      OBVIOUS
    <3>2. Append(toServer, "start") \in Seq({"start"}) /\ <<>> \in Seq({"start"})
      BY <3>1, AppendProperties, EmptySeq
    <3> QED
      BY <2>1, <3>2
  <2> QED
    BY <2>1, <2>2
<1>3. CASE Joined!LaunchGame
  <2>1. toServer' \in Seq({"start"})
    BY <1>3, HeadTailProperties DEF Joined!LaunchGame
  <2>2. CASE UNCHANGED <<server, game, stray>>
    BY <2>1, <2>2
  <2>3. CASE /\ server' = [server EXCEPT !.jdPlay = TRUE, !.hosting = launcher.isHost,
                              !.joinDisabled = FALSE, !.closed = FALSE, !.validated = FALSE]
             /\ stray' = (stray \/ Joined!GameRunning) /\ ~server.jdPlay
             /\ game' = [run |-> "room", map |-> launcher.ini]
    <3>1. stray' = FALSE
      BY <2>3 DEF Joined!GameRunning
    <3>2. /\ server'.jdPlay /\ DOMAIN game' = {"run", "map"}
          /\ DOMAIN server' = {"up", "jdPlay", "hosting", "joinDisabled", "closed", "validated", "counter"}
      BY <2>3
    <3> QED
      BY <2>1, <3>1, <3>2
  <2>4. Joined!LaunchResults = {"failed", "started"}
    BY DEF Joined!LaunchResults
  <2> QED
    BY <1>3, <2>2, <2>3, <2>4 DEF Joined!LaunchGame, Joined!MayLaunch
<1>4. ASSUME Joined!FailVersion PROVE FALSE
  BY <1>4, HeadTailProperties DEF Joined!FailVersion
<1>5. CASE Joined!KeepAliveMessage
  BY <1>5 DEF Joined!KeepAliveMessage
<1>6. ASSUME NEW answered \in BOOLEAN, Joined!TimerEvent(answered) PROVE JoinedInv'
  <2>0. UNCHANGED <<toServer, game, stray>>
    BY <1>6 DEF Joined!TimerEvent
  <2>1. CASE server.jdPlay /\ Joined!GameRunning
    <3> DEFINE found == Joined!EnumSessions(game.run = "room")
    <3>1. found.jdPlay = server.jdPlay /\ DOMAIN found = DOMAIN server
      BY DEF Joined!EnumSessions
    <3>2. server' = [found EXCEPT !.joinDisabled = found.closed]
      BY <1>6, <2>1 DEF Joined!TimerEvent
    <3> HIDE DEF found
    <3>3. server'.jdPlay = server.jdPlay /\ DOMAIN server' = DOMAIN server
      BY <3>1, <3>2
    <3> QED
      BY <2>0, <3>3
  <2>2. CASE ~(server.jdPlay /\ Joined!GameRunning)
    <3>1. game.run \notin {"room", "playing"}
      BY <2>2 DEF Joined!GameRunning
    <3>2. DOMAIN server' = DOMAIN server
      BY <1>6, <2>2 DEF Joined!TimerEvent, Joined!CountDown
    <3> QED
      BY <2>0, <3>1, <3>2
  <2> QED
    BY <2>1, <2>2
<1>7. CASE Joined!GameLaunches
  BY <1>7 DEF Joined!GameLaunches
<1>8. ASSUME NEW how \in {"exit", "crash"}, Joined!GameExits(how) PROVE JoinedInv'
  BY <1>8 DEF Joined!GameExits, Joined!GameRunning
<1>9. ASSUME Joined!StrayExits PROVE FALSE
  BY <1>9 DEF Joined!StrayExits
<1>10. \/ UNCHANGED <<server, toServer, game, stray>>
       \/ Joined!StartApplication \/ Joined!LaunchGame \/ Joined!FailVersion \/ Joined!KeepAliveMessage
       \/ \E answered \in BOOLEAN : Joined!TimerEvent(answered)
       \/ Joined!GameLaunches \/ Joined!StrayExits
       \/ \E how \in {"exit", "crash"} : Joined!GameExits(how)
  BY DEF Joined!Next, Joined!CreateLobby, Joined!JoinGame, Joined!LaunchMessage, Joined!VerifyMessage,
         Joined!QuitMessage, Joined!ResetQuitCount, Joined!HostGame, Joined!MapMessage,
         Joined!StartIgnored, Joined!Answered, Joined!NotAnswered, Joined!OnReadyReadTcp,
         Joined!Disconnected, Joined!Poll, Joined!GameEvent
<1> QED
  BY <1>1, <1>2, <1>3, <1>4, <1>5, <1>6, <1>7, <1>8, <1>9, <1>10

JoinedPart == part = "joined" => JoinedInv

LEMMA JoinedPartKeeps ==
  ASSUME JoinedPart, [Next]_vars
  PROVE  JoinedPart'
<1> SUFFICES ASSUME part' = "joined" PROVE JoinedInv'
  BY DEF JoinedPart
<1>1. part = "joined"
  BY DEF Next, LaunchNext, EventsNext, StreamNext, LinkNext, ResendNext, DoorNext, vars
<1>2. CASE Joined!Next
  BY <1>1, <1>2, JoinedKeeps DEF JoinedPart
<1>3. CASE UNCHANGED launchVars
  BY <1>1, <1>3, LaunchUnchanged DEF JoinedPart
<1> QED
  BY <1>1, <1>2, <1>3 DEF Next, LaunchNext, EventsNext, StreamNext, LinkNext, ResendNext, DoorNext, vars

(* However many requests are sent again because an answer took more than   *)
(* 30 seconds, and however late they are taken: no second game is started, *)
(* as launchGame takes none while the LaunchServer holds a game.           *)
THEOREM NoSecondGame == Spec => []OneGame
<1>1. Init => JoinedPart
  BY JoinedInit DEF Init, JoinedPart
<1>2. JoinedPart /\ [Next]_vars => JoinedPart'
  BY JoinedPartKeeps
<1>3. JoinedPart => OneGame
  BY DEF JoinedPart, JoinedInv, OneGame, Joined!OneGame
<1> QED
  BY <1>1, <1>2, <1>3, PTL DEF Spec

-----------------------------------------------------------------------------
(* GameEvents: the roster of GpgNet and the table of HandleGameStatus. *)

(* What GpgNet should know of p, and the players it should know of, with   *)
(* sl the slots of the players.                                            *)
Entry(p, sl) == [key |-> Events!Key(p, sl[p]), slot |-> sl[p]]
Entries(sl) == {Entry(p, sl) : p \in Events!Present(sl)}

SlotTable == [Events!Players -> Events!Slots \union {Events!NoSlot}]

(* No two players have the same slot. *)
OneEach(sl) == \A p, q \in Events!Present(sl) : sl[p] = sl[q] => p = q

(* The line of a slot in the table of HandleGameStatus. *)
Line(s, line) ==
  IF s \in Events!Used(slot)
  THEN \E p \in Events!Present(slot) : slot[p] = s /\ line = <<p, Events!Kind(p)>>
  ELSE line = Events!Empty

EventsInv ==
  /\ slot \in SlotTable /\ OneEach(slot)
  /\ watcher \subseteq Humans
  /\ phase \in {"room", "launched", "started"} /\ isHost \in BOOLEAN /\ settings \in BOOLEAN
  /\ moves \in Nat /\ moves <= 1
  /\ \A s \in Events!Slots : names[s] = Events!Empty \/ names[s][1] \in Events!Players
  /\ phase # "room" => settings
  /\ settings => (isHost <=> Host = Local)
  /\ phase = "started" \/ moves = 0 => \A s \in Events!Slots : Line(s, names[s])

(* Every entry is one of a player who is there, by its key; one that names *)
(* another slot than the player's names a slot that nobody has.            *)
Traced(e, sl, m) ==
  \E p \in Events!Present(sl) :
    /\ e.key = Events!Key(p, sl[p])
    /\ e.slot = sl[p] \/ (m > 0 /\ e.slot \notin Events!Used(sl))

RosterInv ==
  /\ \A e \in roster : e.slot \in Events!Slots
  /\ Host = Local =>
       /\ ~isHost => roster = {}
       /\ \A e \in roster : Traced(e, slot, moves)
       /\ phase = "started" => live /\ roster = Entries(slot)

LEMMA EventsConstants ==
  /\ Humans \subseteq Nat \ {0} /\ AIs \subseteq Nat \ {0} /\ Humans \intersect AIs = {}
  /\ Host \in Humans /\ Local \in Humans /\ NumSlots \in Nat /\ MaxMoves \in Nat /\ MaxMoves <= 1
  /\ Movers \subseteq Humans /\ Events!Players = Humans \union AIs
  /\ Events!NoSlot \notin Events!Slots
<1>1. /\ Humans \union AIs \subseteq Nat \ {0} /\ {Host, Local} \subseteq Humans
      /\ Humans \intersect AIs = {} /\ NumSlots \in Nat /\ {MaxMoves, MaxChat} \subseteq Nat
  BY ConstantsAssumption DEF Events!ConstantsOK
<1>2. Events!NoSlot \notin Events!Slots
  BY <1>1 DEF Events!NoSlot, Events!Slots
<1> QED
  BY <1>1, <1>2, OneMove DEF Events!Players

(* Keys tell players apart. *)
LEMMA KeysDiffer ==
  ASSUME NEW sl \in SlotTable, OneEach(sl), NEW p \in Events!Present(sl), NEW q \in Events!Present(sl),
         Events!Key(p, sl[p]) = Events!Key(q, sl[q])
  PROVE  p = q
<1>1. \A x : Events!PlayerId(x) = x
  BY DEF Events!PlayerId
<1>2. CASE p \in AIs /\ q \in AIs
  BY <1>2 DEF Events!Key, OneEach
<1>3. CASE p \notin AIs /\ q \notin AIs
  BY <1>1, <1>3 DEF Events!Key
<1>4. CASE ~(p \in AIs <=> q \in AIs)
  BY <1>4 DEF Events!Key
<1> QED
  BY <1>2, <1>3, <1>4

(* The players and slots of a table. *)
LEMMA PresentOf ==
  ASSUME NEW sl \in SlotTable
  PROVE  /\ \A p \in Events!Present(sl) : p \in Events!Players /\ sl[p] \in Events!Slots /\ sl[p] \in Events!Used(sl)
         /\ \A s \in Events!Used(sl) : \E p \in Events!Present(sl) : sl[p] = s
         /\ \A p \in Events!Players : p \notin Events!Present(sl) => sl[p] = Events!NoSlot
BY EventsConstants DEF SlotTable, Events!Present, Events!Used

(* A notification of a host replaces, clears and adds so that exactly the  *)
(* players who are there are left.                                         *)
LEMMA RosterExact ==
  ASSUME NEW sl \in SlotTable, NEW first, isHost,
         \A e \in roster : e.slot \in Events!Slots,
         \A e \in roster : \/ e.slot \in first
                           \/ e.slot \notin Events!Used(sl)
                           \/ \E p \in Events!Present(sl) : e.key = Events!Key(p, sl[p])
  PROVE  Events!RosterNotified(first, sl) = Entries(sl)
<1> DEFINE r == Events!WithoutSlots(roster, first)
           o == Events!WithOptions(r, sl)
           all == Events!WithoutSlots(o, Events!Slots \ Events!Used(sl))
<1>1. Events!RosterNotified(first, sl) = all
  BY DEF Events!RosterNotified
<1>2. r = {e \in roster : e.slot \notin first}
  BY DEF Events!WithoutSlots
<1>3. o = {e \in r : ~\E p \in Events!Present(sl) : e.key = Events!Key(p, sl[p])} \union Entries(sl)
  BY DEF Events!WithOptions, Entries, Entry
<1>4. all = {e \in o : e.slot \notin Events!Slots \ Events!Used(sl)}
  BY DEF Events!WithoutSlots
<1> HIDE DEF r, o, all
<1>5. \A e \in Entries(sl) : e.slot \in Events!Used(sl)
  BY PresentOf DEF Entries, Entry
<1>6. Entries(sl) \subseteq all
  BY <1>3, <1>4, <1>5
<1>7. ASSUME NEW e \in all PROVE e \in Entries(sl)
  <2>1. CASE e \in r /\ ~\E p \in Events!Present(sl) : e.key = Events!Key(p, sl[p])
    BY <1>2, <1>4, <1>7, <2>1
  <2> QED
    BY <1>3, <1>4, <1>7, <2>1
<1> QED
  BY <1>1, <1>6, <1>7

(* The table of HandleGameStatus after a notification. *)
LEMMA NamesExact ==
  ASSUME slot' \in SlotTable, OneEach(slot'), names' = Events!NamesNotified(slot')
  PROVE  /\ \A s \in Events!Slots : Line(s, names[s])'
         /\ \A s \in Events!Slots : names'[s] = Events!Empty \/ names'[s][1] \in Events!Players
<1>1. ASSUME NEW s \in Events!Slots, s \in Events!Used(slot')
      PROVE  \E p \in Events!Present(slot') : slot'[p] = s /\ names'[s] = <<p, Events!Status(p)>>
  <2> DEFINE p == CHOOSE q \in Events!Present(slot') : slot'[q] = s
  <2>1. p \in Events!Present(slot') /\ slot'[p] = s
    BY <1>1, PresentOf
  <2>2. names'[s] = <<p, Events!Status(p)>>
    BY <1>1, Zenon DEF Events!NamesNotified
  <2> QED
    BY <2>1, <2>2, Zenon
<1>2. ASSUME NEW s \in Events!Slots, s \notin Events!Used(slot') PROVE names'[s] = Events!Empty
  BY <1>2, Zenon DEF Events!NamesNotified
<1>3. \A p : Events!Status(p) = Events!Kind(p)'
  BY Zenon DEF Events!Status, Events!Kind
<1>4. ASSUME NEW s \in Events!Slots PROVE Line(s, names[s])'
  BY <1>1, <1>2, <1>3, Zenon DEF Line, Events!Used, Events!Present
<1>5. ASSUME NEW s \in Events!Slots PROVE names'[s] = Events!Empty \/ names'[s][1] \in Events!Players
  <2>1. CASE s \in Events!Used(slot')
    <3>1. PICK p \in Events!Present(slot') : names'[s] = <<p, Events!Status(p)>>
      BY <1>1, <2>1, Zenon
    <3>2. names'[s][1] = p
      BY <3>1
    <3> QED
      BY <3>2, PresentOf
  <2> QED
    BY <1>2, <2>1, Zenon
<1> QED
  BY <1>4, <1>5

LEMMA SetOfHolders ==
  ASSUME EventsInv, phase = "started" \/ moves = 0, NEW k \in {"ai", "watcher", "player"}
  PROVE  {s \in Events!Slots : names[s] # Events!Empty /\ names[s][2] = k}
           = {slot[p] : p \in {q \in Events!Present(slot) : Events!Kind(q) = k}}
<1>0. slot \in SlotTable /\ OneEach(slot) /\ \A s \in Events!Slots : Line(s, names[s])
  BY DEF EventsInv
<1>1. ASSUME NEW s \in Events!Slots, names[s] # Events!Empty, names[s][2] = k
      PROVE  \E p \in Events!Present(slot) : slot[p] = s /\ Events!Kind(p) = k
  <2>1. PICK p \in Events!Present(slot) : slot[p] = s /\ names[s] = <<p, Events!Kind(p)>>
    BY <1>0, <1>1, Zenon DEF Line
  <2>2. names[s][2] = Events!Kind(p)
    BY <2>1
  <2> QED
    BY <1>1, <2>1, <2>2
<1>2. ASSUME NEW p \in Events!Present(slot), Events!Kind(p) = k
      PROVE  slot[p] \in Events!Slots /\ names[slot[p]] # Events!Empty /\ names[slot[p]][2] = k
  <2>1. slot[p] \in Events!Slots /\ slot[p] \in Events!Used(slot) /\ p \in Events!Players
    BY <1>0, PresentOf
  <2>2. PICK q \in Events!Present(slot) : slot[q] = slot[p] /\ names[slot[p]] = <<q, Events!Kind(q)>>
    BY <1>0, <2>1, Zenon DEF Line
  <2>3. q = p
    BY <1>0, <2>2, Zenon DEF OneEach
  <2>4. names[slot[p]] = <<p, k>>
    BY <1>2, <2>2, <2>3, Zenon
  <2>5. p # 0
    BY <2>1, EventsConstants
  <2>6. names[slot[p]][1] = p /\ names[slot[p]][2] = k
    BY <2>4
  <2>7. Events!Empty[1] = 0
    BY DEF Events!Empty
  <2> QED
    BY <2>1, <2>5, <2>6, <2>7
<1> QED
  BY <1>1, <1>2

(* A step that notifies: afterwards everybody is up to date. *)
LEMMA NotifiedKeeps ==
  ASSUME EventsInv, RosterInv, slot' \in SlotTable, OneEach(slot'), watcher' \subseteq Humans,
         NEW first, Events!Notify(first, slot'), UNCHANGED <<isHost, settings, moves>>,
         \/ phase' = phase /\ phase # "started"
         \/ phase = "launched" /\ phase' = "started" /\ live' = isHost,
         Host = Local => \A e \in roster :
            \/ e.slot \in first
            \/ e.slot \notin Events!Used(slot')
            \/ \E p \in Events!Present(slot') : e.key = Events!Key(p, slot'[p])
  PROVE  EventsInv' /\ RosterInv'
<1>1. EventsInv'
  <2>1. /\ \A s \in Events!Slots : Line(s, names[s])'
        /\ \A s \in Events!Slots : names'[s] = Events!Empty \/ names'[s][1] \in Events!Players
    BY NamesExact DEF Events!Notify
  <2>2. (slot \in SlotTable)' /\ OneEach(slot)'
    BY DEF SlotTable, OneEach, Events!Present
  <2>3. /\ phase' \in {"room", "launched", "started"} /\ isHost' \in BOOLEAN /\ settings' \in BOOLEAN
        /\ phase' # "room" => settings'
        /\ settings' => (isHost' <=> Host = Local)
        /\ moves' \in Nat /\ moves' <= 1
    BY DEF EventsInv
  <2> QED
    BY <2>1, <2>2, <2>3 DEF EventsInv
<1>2. \A e \in Entries(slot') : e.slot \in Events!Slots /\ Traced(e, slot', moves')
  BY PresentOf DEF Entries, Entry, Traced
<1>3. CASE isHost /\ Host = Local
  <2>1. roster' = Entries(slot')
    BY <1>3, RosterExact DEF Events!Notify, RosterInv
  <2>2. phase' = "started" => live'
    BY <1>3
  <2>3. isHost'
    BY <1>3
  <2>4. /\ \A e \in roster' : e.slot \in Events!Slots
        /\ \A e \in roster' : Traced(e, slot', moves')
    BY <1>2, <2>1
  <2> QED
    BY <1>1, <2>1, <2>2, <2>3, <2>4, Zenon DEF RosterInv
<1>4. CASE ~isHost
  <2>1. roster' = roster /\ ~isHost'
    BY <1>4 DEF Events!Notify, Events!RosterNotified
  <2>2. \A e \in roster' : e.slot \in Events!Slots
    BY <2>1 DEF RosterInv
  <2>3. Host = Local => roster' = {} /\ ~settings /\ phase' # "started"
    BY <1>4, <2>1 DEF RosterInv, EventsInv
  <2> QED
    BY <1>1, <2>1, <2>2, <2>3 DEF RosterInv
<1>5. CASE isHost /\ Host # Local
  <2>1. \A e \in roster' : e.slot \in Events!Slots
    <3> DEFINE o == Events!WithOptions(Events!WithoutSlots(roster, first), slot')
    <3>1. roster' \subseteq o
      BY <1>5 DEF Events!Notify, Events!RosterNotified, Events!WithoutSlots
    <3>2. o \subseteq roster \union Entries(slot')
      BY DEF Events!WithOptions, Events!WithoutSlots, Entries, Entry
    <3> HIDE DEF o
    <3> QED
      BY <1>2, <3>1, <3>2 DEF RosterInv
  <2> QED
    BY <1>1, <1>5, <2>1 DEF RosterInv
<1> QED
  BY <1>3, <1>4, <1>5

(* A step that tells nobody anything and moves nobody. *)
LEMMA QuietKeeps ==
  ASSUME EventsInv, RosterInv, UNCHANGED <<slot, watcher, names, roster, live, moves>>,
         phase' = phase \/ (phase = "room" /\ phase' = "launched" /\ settings),
         \/ isHost' = isHost /\ settings' = settings
         \/ settings' = TRUE /\ ~settings /\ isHost' = (Host = Local)
  PROVE  EventsInv' /\ RosterInv'
<1>1. EventsInv'
  <2>1. Events!Present(slot)' = Events!Present(slot) /\ Events!Used(slot)' = Events!Used(slot)
    BY Zenon DEF Events!Present, Events!Used
  <2>2. \A p : Events!Kind(p)' = Events!Kind(p)
    BY Zenon DEF Events!Kind
  <2>3. \A s \in Events!Slots : Line(s, names[s]) => Line(s, names[s])'
    BY <2>1, <2>2, Zenon DEF Line
  <2>4. (slot \in SlotTable)' /\ OneEach(slot)'
    BY DEF SlotTable, OneEach, Events!Present, EventsInv
  <2>5. /\ phase' \in {"room", "launched", "started"} /\ isHost' \in BOOLEAN /\ settings' \in BOOLEAN
        /\ phase' # "room" => settings'
        /\ settings' => (isHost' <=> Host = Local)
    <3>1. isHost' \in BOOLEAN /\ settings' \in BOOLEAN /\ (settings' => (isHost' <=> Host = Local))
      <4>1. CASE isHost' = isHost /\ settings' = settings
        BY <4>1, Zenon DEF EventsInv
      <4>2. CASE settings' = TRUE /\ isHost' = (Host = Local)
        BY <4>2, Zenon
      <4> QED
        BY <4>1, <4>2
    <3>2. phase' # "room" => phase # "room" \/ settings
      OBVIOUS
    <3>3. settings => settings'
      BY Zenon
    <3>4. phase' \in {"room", "launched", "started"}
      BY DEF EventsInv
    <3> QED
      BY <3>1, <3>2, <3>3, <3>4, Zenon DEF EventsInv
  <2>6. phase' = "started" <=> phase = "started"
    OBVIOUS
  <2> QED
    BY <2>3, <2>4, <2>5, <2>6 DEF EventsInv
<1>2. RosterInv'
  <2>1. Host = Local => (~isHost' => ~isHost)
    BY Zenon
  <2>2. \A e \in roster : Traced(e, slot, moves) => Traced(e, slot, moves)'
    BY Zenon DEF Traced, Events!Present, Events!Used, Events!Key, Events!PlayerId
  <2>3. Entries(slot)' = Entries(slot)
    BY Zenon DEF Entries, Entry, Events!Present, Events!Key, Events!PlayerId
  <2>4. phase' = "started" <=> phase = "started"
    OBVIOUS
  <2> QED
    BY <2>1, <2>2, <2>3, <2>4 DEF RosterInv
<1> QED
  BY <1>1, <1>2

(* A player comes, or becomes or stops being a watcher. *)
LEMMA StatusTold ==
  ASSUME EventsInv, RosterInv, NEW p \in Events!Players, NEW s \in Events!Slots, NEW w \in BOOLEAN,
         Events!StatusChanges(p, s, w)
  PROVE  EventsInv' /\ RosterInv'
<1> DEFINE before == [slot EXCEPT ![p] = Events!NoSlot]
<1>1. /\ slot' = [slot EXCEPT ![p] = s] /\ s \notin Events!Used(before)
      /\ slot[p] = Events!NoSlot \/ slot[p] = s
  BY Zenon DEF Events!StatusChanges
<1>2. slot' \in SlotTable /\ slot \in SlotTable
  BY <1>1 DEF EventsInv, SlotTable
<1>3. \A q \in Events!Players \ {p} : slot'[q] = slot[q] /\ before[q] = slot[q]
  BY <1>1, <1>2 DEF SlotTable
<1>4. slot'[p] = s /\ p \in Events!Present(slot')
  BY <1>1, <1>2, EventsConstants DEF SlotTable, Events!Present
<1>5. \A q \in Events!Players \ {p} : slot[q] # s
  BY <1>1, <1>3, EventsConstants DEF Events!Used, Events!Present
<1>6. OneEach(slot')
  <2> SUFFICES ASSUME NEW a \in Events!Present(slot'), NEW b \in Events!Present(slot'), slot'[a] = slot'[b]
               PROVE  a = b
    BY DEF OneEach
  <2>1. CASE a = p \/ b = p
    BY <1>3, <1>4, <1>5, <2>1 DEF Events!Present
  <2>2. CASE a # p /\ b # p
    <3>1. a \in Events!Present(slot) /\ b \in Events!Present(slot) /\ slot[a] = slot[b]
      BY <1>3, <2>2 DEF Events!Present
    <3> QED
      BY <3>1, Zenon DEF EventsInv, OneEach
  <2> QED
    BY <2>1, <2>2
<1>7. \A q \in Events!Present(slot) : q \in Events!Present(slot') /\ slot'[q] = slot[q]
  BY <1>1, <1>3, <1>4 DEF Events!Present
<1>8. Host = Local => \A e \in roster : \E q \in Events!Present(slot') : e.key = Events!Key(q, slot'[q])
  BY <1>7 DEF RosterInv, Traced
<1>9. watcher' \subseteq Humans
  <2>1. /\ watcher' = IF w THEN watcher \union {p} ELSE watcher \ {p}
        /\ w => p \in Humans
    BY Zenon DEF Events!StatusChanges
  <2> QED
    BY <2>1 DEF EventsInv
<1>10. phase' = phase /\ phase # "started" /\ UNCHANGED <<isHost, settings, moves>> /\ Events!Notify({}, slot')
  BY Zenon DEF Events!StatusChanges
<1> QED
  BY <1>2, <1>6, <1>8, <1>9, <1>10, NotifiedKeeps

(* A player goes: its entry goes with the slot it had, or with one that    *)
(* nobody has.                                                             *)
LEMMA LeaveTold ==
  ASSUME EventsInv, RosterInv, NEW p \in Events!Players, Events!Leave(p)
  PROVE  EventsInv' /\ RosterInv'
<1>1. slot' = [slot EXCEPT ![p] = Events!NoSlot] /\ slot[p] # Events!NoSlot
  BY Zenon DEF Events!Leave
<1>2. slot' \in SlotTable /\ slot \in SlotTable /\ OneEach(slot)
  BY <1>1 DEF EventsInv, SlotTable
<1>3. /\ Events!Present(slot') = Events!Present(slot) \ {p}
      /\ \A q \in Events!Present(slot') : slot'[q] = slot[q]
  BY <1>1, <1>2 DEF SlotTable, Events!Present
<1>4. OneEach(slot')
  BY <1>2, <1>3 DEF OneEach
<1>5. Events!Used(slot') \subseteq Events!Used(slot)
  BY <1>3 DEF Events!Used
<1>6. ASSUME Host = Local, NEW e \in roster
      PROVE  \/ e.slot \in {slot[p]}
             \/ e.slot \notin Events!Used(slot')
             \/ \E q \in Events!Present(slot') : e.key = Events!Key(q, slot'[q])
  <2>1. PICK q \in Events!Present(slot) :
          /\ e.key = Events!Key(q, slot[q])
          /\ e.slot = slot[q] \/ e.slot \notin Events!Used(slot)
    BY <1>6 DEF RosterInv, Traced
  <2>2. CASE q = p
    BY <1>5, <2>1, <2>2
  <2>3. CASE q # p
    BY <1>3, <2>1, <2>3
  <2> QED
    BY <2>2, <2>3
<1>7. watcher' \subseteq Humans
  BY DEF Events!Leave, EventsInv
<1>8. phase' = phase /\ phase # "started" /\ UNCHANGED <<isHost, settings, moves>> /\ Events!Notify({slot[p]}, slot')
  BY Zenon DEF Events!Leave
<1> QED
  BY <1>2, <1>4, <1>6, <1>7, <1>8, NotifiedKeeps

(* A human moves, unnoticed: the slot it had is nobody's. *)
LEMMA MoveTraced ==
  ASSUME EventsInv, RosterInv, NEW p \in Events!Players, NEW s \in Events!Slots, Events!SlotMoves(p, s)
  PROVE  EventsInv' /\ RosterInv'
<1>1. /\ slot' = [slot EXCEPT ![p] = s] /\ slot[p] # Events!NoSlot /\ s \notin Events!Used(slot)
      /\ moves' = moves + 1 /\ moves < MaxMoves /\ p \in Movers /\ phase # "started"
      /\ UNCHANGED <<watcher, phase, isHost, settings, names, roster, live>>
  BY Zenon DEF Events!SlotMoves
<1>2. slot \in SlotTable /\ OneEach(slot) /\ moves \in Nat
  BY DEF EventsInv
<1>3. moves = 0 /\ moves' = 1 /\ p \in Humans /\ p \notin AIs
  BY <1>1, <1>2, EventsConstants
<1>4. slot' \in SlotTable /\ slot'[p] = s /\ \A q \in Events!Players \ {p} : slot'[q] = slot[q]
  BY <1>1, <1>2 DEF SlotTable
<1>5. Events!Present(slot') = Events!Present(slot) /\ p \in Events!Present(slot)
  BY <1>1, <1>4, EventsConstants DEF Events!Present
<1>6. \A q \in Events!Present(slot) : slot[q] # s /\ q \in Events!Players
  BY <1>1, <1>2, PresentOf
<1>7. OneEach(slot')
  BY <1>2, <1>4, <1>5, <1>6 DEF OneEach
<1>8. slot[p] \notin Events!Used(slot')
  <2> SUFFICES ASSUME NEW q \in Events!Present(slot'), slot'[q] = slot[p] PROVE FALSE
    BY <1>4, PresentOf
  <2>1. CASE q = p
    BY <1>4, <1>5, <1>6, <2>1
  <2>2. CASE q # p
    BY <1>2, <1>4, <1>5, <1>6, <2>2 DEF OneEach
  <2> QED
    BY <2>1, <2>2
<1>9. EventsInv'
  <2>1. (slot \in SlotTable)' /\ OneEach(slot)'
    BY <1>4, <1>7 DEF SlotTable, OneEach, Events!Present
  <2>2. moves' \in Nat /\ moves' <= 1 /\ ~(phase' = "started" \/ moves' = 0)
    BY <1>1, <1>3
  <2> QED
    BY <1>1, <2>1, <2>2 DEF EventsInv
<1>10. ASSUME Host = Local, NEW e \in roster PROVE Traced(e, slot', moves')
  <2>1. PICK q \in Events!Present(slot) : e.key = Events!Key(q, slot[q]) /\ e.slot = slot[q]
    BY <1>3, <1>10 DEF RosterInv, Traced
  <2>2. CASE q = p
    <3>1. Events!Key(p, slot'[p]) = Events!Key(p, slot[p])
      BY <1>3 DEF Events!Key
    <3> QED
      BY <1>3, <1>5, <1>8, <2>1, <2>2, <3>1 DEF Traced
  <2>3. CASE q # p
    BY <1>4, <1>5, <1>6, <2>1, <2>3 DEF Traced
  <2> QED
    BY <2>2, <2>3
<1>11. RosterInv'
  BY <1>1, <1>10 DEF RosterInv
<1> QED
  BY <1>9, <1>11

LEMMA EventsKeep ==
  ASSUME EventsInv, RosterInv, Events!Next
  PROVE  EventsInv' /\ RosterInv'
<1>0. slot \in SlotTable /\ OneEach(slot) /\ watcher \subseteq Humans
  BY DEF EventsInv
<1>1. Host = Local => \A e \in roster : \E p \in Events!Present(slot) : e.key = Events!Key(p, slot[p])
  BY DEF RosterInv, Traced
<1>2. CASE Events!TeamsChange
  <2>1. /\ slot' = slot /\ watcher' = watcher /\ Events!Notify({}, slot) /\ UNCHANGED <<isHost, settings, moves>>
        /\ phase' = phase /\ phase # "started"
    BY <1>2, Zenon DEF Events!TeamsChange
  <2>2. Events!Notify({}, slot')
    BY <2>1, Zenon
  <2> QED
    BY <1>0, <1>1, <2>1, <2>2, NotifiedKeeps
<1>3. CASE Events!GameStarted
  <2>1. /\ slot' = slot /\ watcher' = watcher /\ Events!Notify({}, slot) /\ UNCHANGED <<isHost, settings, moves>>
        /\ phase = "launched" /\ phase' = "started" /\ live' = isHost
    BY <1>3, Zenon DEF Events!GameStarted, Events!Frozen
  <2>2. Events!Notify({}, slot')
    BY <2>1, Zenon
  <2> QED
    BY <1>0, <1>1, <2>1, <2>2, NotifiedKeeps
<1>4. CASE Events!GameSettings
  <2>1. /\ UNCHANGED <<slot, watcher, names, roster, live, moves>> /\ phase' = phase
        /\ settings' = TRUE /\ ~settings /\ isHost' = (Host = Local)
    BY <1>4, Zenon DEF Events!GameSettings, Events!HostFlag
  <2> QED
    BY <2>1, QuietKeeps, Zenon
<1>5. CASE Events!GameLaunched
  <2>1. /\ UNCHANGED <<slot, watcher, names, roster, live, moves>> /\ isHost' = isHost /\ settings' = settings
        /\ phase = "room" /\ phase' = "launched" /\ settings
    BY <1>5, Zenon DEF Events!GameLaunched
  <2> QED
    BY <2>1, QuietKeeps, Zenon
<1>6. ASSUME NEW msg, Events!Chat(msg) PROVE EventsInv' /\ RosterInv'
  <2>1. /\ UNCHANGED <<slot, watcher, names, roster, live, moves>> /\ isHost' = isHost /\ settings' = settings
        /\ phase' = phase
    BY <1>6, Zenon DEF Events!Chat
  <2> QED
    BY <2>1, QuietKeeps, Zenon
<1> QED
  BY <1>2, <1>3, <1>4, <1>5, <1>6, StatusTold, LeaveTold, MoveTraced, Zenon DEF Events!Next

LEMMA EventsInit ==
  ASSUME Events!Init
  PROVE  EventsInv /\ RosterInv
<1>1. /\ slot = [p \in Events!Players |-> Events!NoSlot] /\ watcher = {} /\ phase = "room"
      /\ isHost \in BOOLEAN /\ settings = FALSE /\ names = [s \in Events!Slots |-> Events!Empty]
      /\ roster = {} /\ moves = 0
  BY Zenon DEF Events!Init
<1>2. slot \in SlotTable /\ Events!Present(slot) = {}
  BY <1>1 DEF SlotTable, Events!Present
<1>3. Events!Used(slot) = {} /\ OneEach(slot)
  BY <1>2 DEF Events!Used, OneEach
<1>4. \A s \in Events!Slots : names[s] = Events!Empty /\ Line(s, names[s])
  BY <1>1, <1>3, Zenon DEF Line
<1>5. EventsInv
  <2>1. moves \in Nat /\ moves <= 1 /\ watcher \subseteq Humans /\ phase \in {"room", "launched", "started"}
    BY <1>1
  <2>2. settings \in BOOLEAN /\ isHost \in BOOLEAN /\ ~settings /\ phase = "room"
    BY <1>1, Zenon
  <2> QED
    BY <1>2, <1>3, <1>4, <2>1, <2>2, Zenon DEF EventsInv
<1> QED
  BY <1>1, <1>5 DEF RosterInv

(* When the teams are frozen, a host has told GpgNet of exactly the        *)
(* players the monitor has, each in its slot, and the table of             *)
(* HandleGameStatus holds the same players, for any players and slots,     *)
(* whoever comes, leaves and becomes a watcher in between, and whatever    *)
(* m_isHost held before it was assigned.  One change of slot is allowed    *)
(* (OneMove).                                                              *)
THEOREM RosterIsRight == Spec => []RosterTold
<1>1. Init => EventsInv /\ RosterInv
  BY EventsInit, Zenon DEF Init
<1>2. (EventsInv /\ RosterInv) /\ [Next]_vars => (EventsInv /\ RosterInv)'
  <2> SUFFICES ASSUME EventsInv, RosterInv, [Next]_vars PROVE EventsInv' /\ RosterInv'
    OBVIOUS
  <2>1. CASE UNCHANGED eventVars
    <3>1. /\ UNCHANGED <<slot, watcher, names, roster, live, moves>> /\ isHost' = isHost /\ settings' = settings
          /\ phase' = phase
      BY <2>1, Zenon DEF eventVars
    <3> QED
      BY <3>1, QuietKeeps, Zenon
  <2>2. Events!Next \/ UNCHANGED eventVars
    BY Zenon DEF Next, LaunchNext, EventsNext, StreamNext, LinkNext, ResendNext, DoorNext, vars
  <2> QED
    BY <2>1, <2>2, EventsKeep
<1>3. EventsInv /\ RosterInv => RosterTold
  <2> SUFFICES ASSUME EventsInv, RosterInv PROVE RosterTold
    OBVIOUS
  <2>1. Events!TypeOK
    BY DEF EventsInv, RosterInv, SlotTable, Events!TypeOK
  <2>2. Events!SlotsMatch
    BY SetOfHolders, Zenon DEF Events!SlotsMatch
  <2>3. Events!LiveMeansRoster
    <3> SUFFICES ASSUME phase = "started", Host = Local
                 PROVE  /\ live
                        /\ roster = {[key |-> Events!Key(p, slot[p]), slot |-> slot[p]] : p \in Events!Present(slot)}
                        /\ \A e, f \in roster : e.key = f.key => e = f
      BY Zenon DEF Events!LiveMeansRoster
    <3>1. live /\ roster = Entries(slot)
      BY DEF RosterInv
    <3>2. \A e, f \in roster : e.key = f.key => e = f
      <4> SUFFICES ASSUME NEW e \in roster, NEW f \in roster, e.key = f.key PROVE e = f
        OBVIOUS
      <4>1. PICK p \in Events!Present(slot) : e = Entry(p, slot)
        BY <3>1, Zenon DEF Entries
      <4>2. PICK q \in Events!Present(slot) : f = Entry(q, slot)
        BY <3>1, Zenon DEF Entries
      <4>3. Events!Key(p, slot[p]) = Events!Key(q, slot[q])
        BY <4>1, <4>2 DEF Entry
      <4>4. p = q
        BY <4>3, KeysDiffer DEF EventsInv
      <4> QED
        BY <4>1, <4>2, <4>4, Zenon
    <3> QED
      BY <3>1, <3>2, Zenon DEF Entries, Entry
  <2> QED
    BY <2>1, <2>2, <2>3, Zenon DEF RosterTold
<1> QED
  BY <1>1, <1>2, <1>3, PTL DEF Spec
-----------------------------------------------------------------------------
(* GpgNetParse: the bytes of the stream, what is written and what is read. *)

Bytes == Seq(Stream!Byte)

LEMMA StreamConstants ==
  /\ Radix \in Nat /\ Radix > 1 /\ IntBytes \in Nat /\ IntBytes > 0
  /\ MaxRecordSize \in Nat /\ MaxNumArgs \in Nat
  /\ \A n \in 0..MaxRecordSize : Stream!IsInt(n)
  /\ \A n \in 0..MaxNumArgs : Stream!IsInt(n)
  /\ ParserSurvives \in BOOLEAN
BY ConstantsAssumption DEF Stream!ConstantsOK

LEMMA CommandIs ==
  ASSUME NEW c \in Commands
  PROVE  /\ c \in [name : Bytes, args : Seq(Stream!Argument)]
         /\ Len(c.name) <= MaxRecordSize /\ Len(c.args) <= MaxNumArgs
         /\ \A i \in DOMAIN c.args :
              IF c.args[i].type = 0 THEN Stream!IsInt(c.args[i].value)
                                    ELSE Len(c.args[i].value) <= MaxRecordSize
BY ConstantsAssumption, Zenon DEF Stream!ConstantsOK, Bytes

-----------------------------------------------------------------------------
(* Integers: what is written by shifts is read by Horner's rule. *)

LEMMA RemainderAndQuotient ==
  ASSUME NEW n \in Nat, NEW b \in Nat, b > 1
  PROVE  n % b \in 0..(b - 1) /\ n \div b \in Nat /\ (n \div b) * b + (n % b) = n
<1> DEFINE q == n \div b
           r == n % b
<1>1. r \in 0..(b - 1)
  OBVIOUS
<1>2. q \in Nat
  OBVIOUS
<1>3. r + q * b = n
  OBVIOUS
<1> HIDE DEF q, r
<1>4. q * b \in Nat
  BY <1>2
<1>5. q * b + r = n
  BY <1>1, <1>3, <1>4
<1> QED
  BY <1>1, <1>2, <1>5 DEF q, r

(* A recursive definition with a typed step defines a function. *)
LEMMA ShiftedIs ==
  ASSUME NEW n \in Nat
  PROVE  /\ Stream!Shifted(n) \in [0..IntBytes -> Nat] /\ Stream!Shifted(n)[0] = n
         /\ \A k \in 1..IntBytes : Stream!Shifted(n)[k] = Stream!Shifted(n)[k - 1] \div Radix
<1> DEFINE step == [x \in (1..IntBytes) \X Nat |-> x[2] \div Radix]
           Is(f) == f = [k \in 0..IntBytes |-> IF k = 0 THEN n ELSE f[k - 1] \div Radix]
<1>1. \A x \in (1..IntBytes) \X Nat : x[2] \div Radix \in Nat
  BY StreamConstants
<1>2. step \in [(1..IntBytes) \X Nat -> Nat]
  BY <1>1
<1>3. PICK g \in [0..IntBytes -> Nat] : g[0] = n /\ \A i \in 1..IntBytes : g[i] = step[<<i, g[i - 1]>>]
  <2>1. IntBytes \in Nat
    BY StreamConstants
  <2> HIDE DEF step
  <2>2. \E f \in [0..IntBytes -> Nat] : IsRecursion(f, n, IntBytes, step)
    BY <1>2, <2>1, RecursionExists
  <2> QED
    BY <2>2 DEF IsRecursion
<1>4. ASSUME NEW i \in 1..IntBytes PROVE g[i] = g[i - 1] \div Radix
  <2>1. i - 1 \in 0..IntBytes
    BY StreamConstants
  <2>2. <<i, g[i - 1]>> \in (1..IntBytes) \X Nat
    BY <2>1
  <2>3. step[<<i, g[i - 1]>>] = g[i - 1] \div Radix
    BY <2>2
  <2> QED
    BY <1>3, <2>3
<1>5. Is(g)
  <2> DEFINE h == [k \in 0..IntBytes |-> IF k = 0 THEN n ELSE g[k - 1] \div Radix]
  <2>1. ASSUME NEW k \in 0..IntBytes PROVE g[k] = h[k]
    <3>1. CASE k = 0
      BY <1>3, <3>1
    <3>2. CASE k # 0
      <4>1. k \in 1..IntBytes
        BY <3>2, StreamConstants
      <4>2. h[k] = g[k - 1] \div Radix
        BY <3>2
      <4> QED
        BY <1>4, <4>1, <4>2
    <3> QED
      BY <3>1, <3>2
  <2>2. g = [k \in 0..IntBytes |-> g[k]]
    BY <1>3
  <2> HIDE DEF h
  <2>3. h = [k \in 0..IntBytes |-> h[k]]
    BY DEF h
  <2>4. g = h
    BY <2>1, <2>2, <2>3
  <2> QED
    BY <2>4 DEF h
<1>6. Is(CHOOSE x : Is(x))
  <2> HIDE DEF Is
  <2> QED
    BY <1>5
<1> DEFINE s == Stream!Shifted(n)
<1>7. s = [k \in 0..IntBytes |-> IF k = 0 THEN n ELSE s[k - 1] \div Radix]
  BY <1>6 DEF Stream!Shifted
<1> HIDE DEF s
<1>8. s[0] = n
  <2>1. 0 \in 0..IntBytes
    BY StreamConstants
  <2> QED
    BY <1>7, <2>1
<1>9. ASSUME NEW k \in 1..IntBytes PROVE s[k] = s[k - 1] \div Radix
  <2>1. k \in 0..IntBytes /\ k # 0
    BY StreamConstants
  <2> QED
    BY <1>7, <2>1
<1>10. \A k \in 0..IntBytes : s[k] \in Nat
  <2> DEFINE S == {k \in 0..IntBytes : s[k] \in Nat}
  <2>1. 0 \in S
    BY <1>8, StreamConstants
  <2>2. ASSUME NEW k \in 0..IntBytes, k \in S, k < IntBytes PROVE k + 1 \in S
    <3>1. k + 1 \in 1..IntBytes /\ (k + 1) - 1 = k /\ k + 1 \in 0..IntBytes
      BY <2>2, StreamConstants
    <3>2. s[k + 1] = s[k] \div Radix /\ s[k] \in Nat
      <4>1. s[k + 1] = s[(k + 1) - 1] \div Radix
        BY <1>9, <3>1, Zenon
      <4>2. s[k] \in Nat
        BY <2>2
      <4> QED
        BY <3>1, <4>1, <4>2, Zenon
    <3>3. s[k] \div Radix \in Nat
      <4> DEFINE x == s[k]
      <4>1. x \in Nat
        BY <3>2
      <4> HIDE DEF x
      <4>2. x \div Radix \in Nat
        BY <4>1, StreamConstants, RemainderAndQuotient
      <4> QED
        BY <4>2 DEF x
    <3> QED
      BY <3>1, <3>2, <3>3
  <2>3. 0..IntBytes \subseteq S
    <3> HIDE DEF S
    <3> QED
      BY <2>1, <2>2, UpTo, StreamConstants
  <2> QED
    BY <2>3
<1>11. s \in [0..IntBytes -> Nat]
  <2>1. s = [k \in 0..IntBytes |-> s[k]]
    BY <1>7
  <2> QED
    BY <1>10, <2>1
<1> QED
  BY <1>8, <1>9, <1>11 DEF s

(* The value of the k most significant of the bytes. *)
ValueOf(b) == CHOOSE f : f = [k \in 0..IntBytes |->
                                IF k = 0 THEN 0 ELSE f[k - 1] * Radix + b[IntBytes + 1 - k]]

LEMMA ValueIs ==
  ASSUME NEW b \in Bytes, Len(b) >= IntBytes
  PROVE  /\ ValueOf(b) \in [0..IntBytes -> Nat] /\ ValueOf(b)[0] = 0
         /\ \A k \in 1..IntBytes : ValueOf(b)[k] = ValueOf(b)[k - 1] * Radix + b[IntBytes + 1 - k]
         /\ Stream!BytesToInt(b) = ValueOf(b)[IntBytes]
<1> DEFINE d == [k \in 1..IntBytes |-> b[IntBytes + 1 - k]]
           step == [x \in (1..IntBytes) \X Nat |-> x[2] * Radix + d[x[1]]]
           Is(f) == f = [k \in 0..IntBytes |-> IF k = 0 THEN 0 ELSE f[k - 1] * Radix + b[IntBytes + 1 - k]]
<1>0. \A k \in 1..IntBytes : d[k] = b[IntBytes + 1 - k] /\ d[k] \in Nat
  <2>1. Len(b) \in Nat /\ \A i \in 1..Len(b) : b[i] \in Stream!Byte
    BY LenProperties, ElementOfSeq DEF Bytes
  <2>2. ASSUME NEW k \in 1..IntBytes PROVE IntBytes + 1 - k \in 1..Len(b)
    BY <2>1, StreamConstants
  <2>3. \A x \in Stream!Byte : x \in Nat
    BY StreamConstants DEF Stream!Byte
  <2> QED
    BY <2>1, <2>2, <2>3
<1> HIDE DEF d
<1>1. \A x \in (1..IntBytes) \X Nat : x[2] * Radix + d[x[1]] \in Nat
  <2> SUFFICES ASSUME NEW i \in 1..IntBytes, NEW v \in Nat PROVE v * Radix + d[i] \in Nat
    OBVIOUS
  <2>1. v * Radix \in Nat
    BY StreamConstants
  <2> QED
    BY <1>0, <2>1
<1>2. step \in [(1..IntBytes) \X Nat -> Nat]
  BY <1>1
<1>3. PICK g \in [0..IntBytes -> Nat] : g[0] = 0 /\ \A i \in 1..IntBytes : g[i] = step[<<i, g[i - 1]>>]
  <2>1. IntBytes \in Nat /\ 0 \in Nat
    BY StreamConstants
  <2> HIDE DEF step
  <2>2. \E f \in [0..IntBytes -> Nat] : IsRecursion(f, 0, IntBytes, step)
    BY <1>2, <2>1, RecursionExists
  <2> QED
    BY <2>2 DEF IsRecursion
<1>4. ASSUME NEW i \in 1..IntBytes PROVE g[i] = g[i - 1] * Radix + b[IntBytes + 1 - i]
  <2>1. i - 1 \in 0..IntBytes
    BY StreamConstants
  <2>2. <<i, g[i - 1]>> \in (1..IntBytes) \X Nat
    BY <2>1
  <2>3. step[<<i, g[i - 1]>>] = g[i - 1] * Radix + d[i]
    BY <2>2
  <2> HIDE DEF step
  <2> QED
    BY <1>0, <1>3, <2>3, Zenon
<1>5. Is(g)
  <2> DEFINE h == [k \in 0..IntBytes |-> IF k = 0 THEN 0 ELSE g[k - 1] * Radix + b[IntBytes + 1 - k]]
  <2>1. ASSUME NEW k \in 0..IntBytes PROVE g[k] = h[k]
    <3>1. CASE k = 0
      BY <1>3, <3>1
    <3>2. CASE k # 0
      <4>1. k \in 1..IntBytes
        BY <3>2, StreamConstants
      <4>2. h[k] = g[k - 1] * Radix + b[IntBytes + 1 - k]
        BY <3>2
      <4> HIDE DEF h
      <4> QED
        BY <1>4, <4>1, <4>2, Zenon
    <3> QED
      BY <3>1, <3>2
  <2>2. g = [k \in 0..IntBytes |-> g[k]]
    BY <1>3
  <2> HIDE DEF h
  <2>3. h = [k \in 0..IntBytes |-> h[k]]
    BY DEF h
  <2>4. g = h
    BY <2>1, <2>2, <2>3
  <2> QED
    BY <2>4 DEF h
<1>6. Is(CHOOSE x : Is(x))
  <2> HIDE DEF Is
  <2> QED
    BY <1>5
<1> DEFINE s == ValueOf(b)
<1>7. s = [k \in 0..IntBytes |-> IF k = 0 THEN 0 ELSE s[k - 1] * Radix + b[IntBytes + 1 - k]]
  BY <1>6 DEF ValueOf
<1> HIDE DEF s
<1>8. s[0] = 0
  <2>1. 0 \in 0..IntBytes
    BY StreamConstants
  <2> QED
    BY <1>7, <2>1
<1>9. ASSUME NEW k \in 1..IntBytes PROVE s[k] = s[k - 1] * Radix + b[IntBytes + 1 - k]
  <2>1. k \in 0..IntBytes /\ k # 0
    BY StreamConstants
  <2> QED
    BY <1>7, <2>1
<1>10. \A k \in 0..IntBytes : s[k] \in Nat
  <2> DEFINE S == {k \in 0..IntBytes : s[k] \in Nat}
  <2>1. 0 \in S
    BY <1>8, StreamConstants
  <2>2. ASSUME NEW k \in 0..IntBytes, k \in S, k < IntBytes PROVE k + 1 \in S
    <3>1. k + 1 \in 1..IntBytes /\ (k + 1) - 1 = k /\ k + 1 \in 0..IntBytes
      BY <2>2, StreamConstants
    <3>2. s[k + 1] = s[k] * Radix + d[k + 1] /\ s[k] \in Nat /\ d[k + 1] \in Nat
      BY <1>0, <1>9, <2>2, <3>1, Zenon
    <3>3. s[k] * Radix \in Nat
      BY <3>2, StreamConstants
    <3>4. s[k] * Radix + d[k + 1] \in Nat
      BY <3>2, <3>3
    <3> QED
      BY <3>1, <3>2, <3>4
  <2>3. 0..IntBytes \subseteq S
    <3> HIDE DEF S
    <3> QED
      BY <2>1, <2>2, UpTo, StreamConstants
  <2> QED
    BY <2>3
<1>11. s \in [0..IntBytes -> Nat]
  <2>1. s = [k \in 0..IntBytes |-> s[k]]
    BY <1>7
  <2> QED
    BY <1>10, <2>1
<1>12. Stream!BytesToInt(b) = s[IntBytes]
  BY DEF Stream!BytesToInt, s, ValueOf
<1> QED
  BY <1>8, <1>9, <1>11, <1>12 DEF s

(* An integer that fits is read as it was written. *)
LEMMA IntIsRead ==
  ASSUME NEW n \in Nat, Stream!IsInt(n)
  PROVE  /\ Stream!IntToBytes(n) \in Bytes /\ Len(Stream!IntToBytes(n)) = IntBytes
         /\ Stream!BytesToInt(Stream!IntToBytes(n)) = n
<1> DEFINE s == Stream!Shifted(n)
           b == Stream!IntToBytes(n)
           v == ValueOf(b)
<1>1. /\ s \in [0..IntBytes -> Nat] /\ s[0] = n /\ s[IntBytes] = 0
      /\ \A k \in 1..IntBytes : s[k] = s[k - 1] \div Radix
  BY ShiftedIs, Zenon DEF Stream!IsInt
<1> HIDE DEF s
<1>2. b = [k \in 1..IntBytes |-> s[k - 1] % Radix]
  BY DEF Stream!IntToBytes, s
<1>3. ASSUME NEW k \in 1..IntBytes
      PROVE  k - 1 \in 0..IntBytes /\ s[k - 1] \in Nat /\ s[k - 1] % Radix \in Stream!Byte
             /\ s[k] * Radix + (s[k - 1] % Radix) = s[k - 1]
  <2>1. k - 1 \in 0..IntBytes
    BY StreamConstants
  <2>2. s[k - 1] \in Nat
    BY <1>1, <2>1
  <2>3. s[k - 1] % Radix \in 0..(Radix - 1) /\ (s[k - 1] \div Radix) * Radix + (s[k - 1] % Radix) = s[k - 1]
    BY <2>2, StreamConstants, RemainderAndQuotient, Zenon
  <2>4. s[k] = s[k - 1] \div Radix
    BY <1>1, Zenon
  <2> QED
    BY <2>1, <2>2, <2>3, <2>4, Zenon DEF Stream!Byte
<1> HIDE DEF b
<1>4. b \in Bytes /\ Len(b) = IntBytes /\ \A k \in 1..IntBytes : b[k] = s[k - 1] % Radix
  <2>1. b \in [1..IntBytes -> Stream!Byte] /\ \A k \in 1..IntBytes : b[k] = s[k - 1] % Radix
    BY <1>2, <1>3, Zenon
  <2>2. IntBytes \in Nat
    BY StreamConstants
  <2>3. b \in Bytes
    BY <2>1, <2>2, SeqDef DEF Bytes
  <2>4. Len(b) = IntBytes
    BY <2>1, <2>2, <2>3, LenProperties DEF Bytes
  <2> QED
    BY <2>1, <2>3, <2>4, Zenon
<1>5. /\ v \in [0..IntBytes -> Nat] /\ v[0] = 0
      /\ \A k \in 1..IntBytes : v[k] = v[k - 1] * Radix + b[IntBytes + 1 - k]
      /\ Stream!BytesToInt(b) = v[IntBytes]
  <2>1. Len(b) >= IntBytes
    BY <1>4, StreamConstants
  <2> QED
    BY <1>4, <2>1, ValueIs, Zenon
<1> HIDE DEF v
<1>6. \A k \in 0..IntBytes : v[k] = s[IntBytes - k]
  <2> DEFINE S == {k \in 0..IntBytes : v[k] = s[IntBytes - k]}
  <2>1. 0 \in S
    BY <1>1, <1>5, StreamConstants
  <2>2. ASSUME NEW k \in 0..IntBytes, k \in S, k < IntBytes PROVE k + 1 \in S
    <3> DEFINE j == IntBytes - k
    <3>1. k + 1 \in 1..IntBytes /\ (k + 1) - 1 = k /\ k + 1 \in 0..IntBytes /\ j \in 1..IntBytes
          /\ IntBytes + 1 - (k + 1) = j /\ IntBytes - (k + 1) = j - 1
      BY <2>2, StreamConstants
    <3>2. v[k + 1] = v[k] * Radix + b[j]
      BY <1>5, <3>1, Zenon
    <3>3. v[k] = s[j]
      BY <2>2, Zenon
    <3> HIDE DEF j
    <3>4. b[j] = s[j - 1] % Radix /\ s[j] * Radix + (s[j - 1] % Radix) = s[j - 1]
      BY <1>3, <1>4, <3>1, Zenon
    <3>5. v[k + 1] = s[j - 1]
      BY <3>2, <3>3, <3>4, Zenon
    <3>6. v[k + 1] = s[IntBytes - (k + 1)]
      BY <3>1, <3>5, Zenon
    <3> QED
      BY <3>1, <3>6, Zenon
  <2>3. 0..IntBytes \subseteq S
    <3> HIDE DEF S
    <3> QED
      BY <2>1, <2>2, UpTo, StreamConstants
  <2> QED
    BY <2>3
<1>7. v[IntBytes] = n
  <2>1. IntBytes \in 0..IntBytes /\ IntBytes - IntBytes = 0
    BY StreamConstants
  <2> QED
    BY <1>1, <1>6, <2>1, Zenon
<1> QED
  BY <1>4, <1>5, <1>7, Zenon DEF b

(* What any bytes are read as is a number. *)
LEMMA ReadIsNat ==
  ASSUME NEW b \in Bytes, Len(b) >= IntBytes
  PROVE  Stream!BytesToInt(b) \in Nat
<1>1. IntBytes \in 0..IntBytes
  BY StreamConstants
<1> QED
  BY <1>1, ValueIs

-----------------------------------------------------------------------------
(* A reader within the bytes it waits for. *)

(* x holds the first bytes of f; what comes is the rest of f, then t. *)
At(x, f, come, t) ==
  /\ x \in Bytes /\ Len(x) <= Len(f) /\ x = Take(f, Len(x))
  /\ come = Drop(f, Len(x)) \o t

LEMMA AtStart ==
  ASSUME NEW f \in Bytes, NEW t \in Bytes
  PROVE  At(<<>>, f, f \o t, t)
<1>1. Len(f) \in Nat /\ <<>> \in Bytes /\ Len(<<>>) = 0
  BY LenProperties DEF Bytes
<1>2. Take(f, 0) = <<>> /\ Drop(f, 0) = f
  BY TakeDropEnds, Zenon DEF Bytes
<1>3. Len(<<>>) <= Len(f)
  BY <1>1
<1> QED
  BY <1>1, <1>2, <1>3, Zenon DEF At

LEMMA AtFull ==
  ASSUME NEW f \in Bytes, NEW t \in Bytes, NEW x, NEW come, At(x, f, come, t), Len(x) >= Len(f)
  PROVE  x = f /\ come = t
<1>1. Len(x) = Len(f)
  BY LenProperties DEF At, Bytes
<1>2. Take(f, Len(f)) = f /\ Drop(f, Len(f)) = <<>>
  BY TakeDropEnds, Zenon DEF Bytes
<1>3. <<>> \o t = t
  BY ConcatEmptySeq DEF Bytes
<1> QED
  BY <1>1, <1>2, <1>3, Zenon DEF At

AtMoved(x, f, a, b, t, m) ==
  /\ At(x \o Take(a, m), f, Drop(a, m) \o b, t)
  /\ Len(x \o Take(a, m)) = Len(x) + m

LEMMA AtMoves ==
  ASSUME NEW f \in Bytes, NEW t \in Bytes, NEW a \in Bytes, NEW b \in Bytes, NEW x,
         At(x, f, a \o b, t), NEW m \in 0..(Len(f) - Len(x)), m <= Len(a)
  PROVE  AtMoved(x, f, a, b, t, m)
<1> DEFINE g == Len(x)
           y == x \o Take(a, m)
<1>1. g \in 0..Len(f) /\ Len(f) \in Nat /\ g \in Nat /\ m \in 0..Len(a) /\ x \in Bytes /\ g + m \in 0..Len(f)
  BY LenProperties DEF At, Bytes
<1>2. x = Take(f, g) /\ a \o b = Drop(f, g) \o t
  BY DEF At
<1> HIDE DEF g
<1>3. m \in 0..(Len(f) - g)
  BY DEF g
<1>4. Take(f, g) \o Take(a, m) = Take(f, g + m) /\ Drop(a, m) \o b = Drop(f, g + m) \o t
  <2>1. f \in Seq(Stream!Byte) /\ t \in Seq(Stream!Byte) /\ a \in Seq(Stream!Byte) /\ b \in Seq(Stream!Byte)
    BY DEF Bytes
  <2>2. g \in 0..Len(f) /\ m <= Len(a) /\ a \o b = Drop(f, g) \o t
    BY <1>1, <1>2, Zenon
  <2>3. MovedOn(f, t, a, b, g, m)
    BY <2>1, <2>2, <1>3, MoveOn, Zenon
  <2> QED
    BY <2>3 DEF MovedOn
<1>5. y = Take(f, g + m)
  BY <1>2, <1>4, Zenon
<1>6. Take(f, g + m) \in Bytes /\ Len(Take(f, g + m)) = g + m
  BY <1>1, TakeIs, Zenon DEF Bytes
<1>7. Len(y) = g + m /\ y \in Bytes
  BY <1>5, <1>6, Zenon
<1>8. Len(y) <= Len(f)
  BY <1>1, <1>7
<1> HIDE DEF y
<1>9. At(y, f, Drop(a, m) \o b, t)
  BY <1>4, <1>5, <1>7, <1>8, Zenon DEF At
<1> QED
  BY <1>7, <1>9, Zenon DEF y, g, AtMoved

(* While the reader lacks bytes there are bytes to come. *)
LEMMA AtLacks ==
  ASSUME NEW f \in Bytes, NEW t \in Bytes, NEW x, NEW come, At(x, f, come, t), Len(x) < Len(f)
  PROVE  come # <<>>
<1>1. Len(x) \in 0..Len(f) /\ Len(f) \in Nat
  BY LenProperties DEF At, Bytes
<1>2. Drop(f, Len(x)) \in Bytes /\ Len(Drop(f, Len(x))) = Len(f) - Len(x)
  BY <1>1, DropIs, Zenon DEF Bytes
<1>3. Len(Drop(f, Len(x)) \o t) = (Len(f) - Len(x)) + Len(t)
  BY <1>2, ConcatProperties DEF Bytes
<1>4. Len(t) \in Nat
  BY LenProperties DEF Bytes
<1>5. Len(come) > 0
  BY <1>1, <1>3, <1>4 DEF At
<1> QED
  BY <1>5

-----------------------------------------------------------------------------
(* The bytes of a command. *)

SizeOf(x) == IF x.type = 0 THEN <<>> ELSE Stream!IntToBytes(Len(x.value))

DataOf(x) == IF x.type = 0 THEN Stream!IntToBytes(x.value) ELSE x.value

Pieces(c) == [i \in DOMAIN c.args |-> Stream!SendArgument(c.args[i])]

(* What follows a field of the command. *)
BehindSize(c, t) == c.name \o (Stream!IntToBytes(Len(c.args)) \o (Behind(Pieces(c), 0) \o t))

LEMMA ArgumentIs ==
  ASSUME NEW c \in Commands, NEW i \in 1..Len(c.args)
  PROVE  /\ c.args[i] \in Stream!Argument
         /\ c.args[i] = [type |-> c.args[i].type, value |-> c.args[i].value]
         /\ c.args[i].type \in {0, 1}
         /\ c.args[i].type = 0 => c.args[i].value \in Nat /\ Stream!IsInt(c.args[i].value)
         /\ c.args[i].type = 1 => /\ c.args[i].value \in Bytes
                                  /\ Len(c.args[i].value) \in 0..MaxRecordSize
                                  /\ Stream!IsInt(Len(c.args[i].value))
<1> DEFINE x == c.args[i]
<1>1. c.args \in Seq(Stream!Argument)
  BY CommandIs, Zenon
<1>2. i \in DOMAIN c.args /\ x \in Stream!Argument
  BY <1>1, ElementOfSeq, LenProperties
<1>3. IF x.type = 0 THEN Stream!IsInt(x.value) ELSE Len(x.value) <= MaxRecordSize
  BY <1>2, CommandIs, Zenon
<1> HIDE DEF x
<1>4. x = [type |-> x.type, value |-> x.value]
  BY <1>2 DEF Stream!Argument
<1>5. x.type \in {0, 1} /\ (x.type = 0 => x.value \in Nat) /\ (x.type = 1 => x.value \in Seq(Stream!Byte))
  BY <1>2 DEF Stream!Argument
<1>6. x.type = 1 => Len(x.value) \in 0..MaxRecordSize
  BY <1>3, <1>5, LenProperties, StreamConstants
<1> QED
  BY <1>2, <1>3, <1>4, <1>5, <1>6, StreamConstants, Zenon DEF x, Bytes

LEMMA FieldsAre ==
  ASSUME NEW c \in Commands, NEW i \in 1..Len(c.args)
  PROVE  /\ <<c.args[i].type>> \in Bytes /\ Len(<<c.args[i].type>>) = 1
         /\ SizeOf(c.args[i]) \in Bytes /\ DataOf(c.args[i]) \in Bytes
         /\ Stream!SendArgument(c.args[i])
              = <<c.args[i].type>> \o (SizeOf(c.args[i]) \o DataOf(c.args[i]))
<1> DEFINE x == c.args[i]
<1>1. /\ x.type \in {0, 1}
      /\ x.type = 0 => x.value \in Nat /\ Stream!IsInt(x.value)
      /\ x.type = 1 => /\ x.value \in Bytes /\ Len(x.value) \in 0..MaxRecordSize
                       /\ Stream!IsInt(Len(x.value))
  BY ArgumentIs, Zenon
<1> HIDE DEF x
<1>2. x.type \in Stream!Byte
  BY <1>1, StreamConstants DEF Stream!Byte
<1>3. <<x.type>> \in Bytes /\ Len(<<x.type>>) = 1
  BY <1>2 DEF Bytes
<1>4. CASE x.type = 0
  <2>1. Stream!IntToBytes(x.value) \in Bytes
    BY <1>1, <1>4, IntIsRead, Zenon
  <2>2. SizeOf(x) = <<>> /\ DataOf(x) = Stream!IntToBytes(x.value) /\ <<>> \in Bytes
    BY <1>4 DEF SizeOf, DataOf, Bytes
  <2>3. SizeOf(x) \o DataOf(x) = Stream!IntToBytes(x.value)
    BY <2>1, <2>2, ConcatEmptySeq DEF Bytes
  <2>4. Stream!SendArgument(x) = <<x.type>> \o (SizeOf(x) \o DataOf(x))
    BY <1>4, <2>3, Zenon DEF Stream!SendArgument
  <2> QED
    BY <1>3, <2>1, <2>2, <2>4, Zenon DEF x
<1>5. CASE x.type = 1
  <2>1. x.type # 0
    BY <1>5
  <2>2. Len(x.value) \in Nat /\ x.value \in Bytes
    BY <1>1, <1>5
  <2>3. Stream!IntToBytes(Len(x.value)) \in Bytes
    BY <1>1, <1>5, <2>2, IntIsRead, Zenon
  <2>4. SizeOf(x) = Stream!IntToBytes(Len(x.value)) /\ DataOf(x) = x.value
    BY <2>1, Zenon DEF SizeOf, DataOf
  <2>5. Stream!SendArgument(x) = <<x.type>> \o (SizeOf(x) \o DataOf(x))
    BY <2>1, <2>4, Zenon DEF Stream!SendArgument, Stream!ByteArray
  <2> QED
    BY <1>3, <2>2, <2>3, <2>4, <2>5, Zenon DEF x
<1> QED
  BY <1>1, <1>4, <1>5

Regroups(x, y, z) == (x \o y) \o z = x \o (y \o z)

LEMMA Regroup ==
  ASSUME NEW x \in Bytes, NEW y \in Bytes, NEW z \in Bytes
  PROVE  Regroups(x, y, z)
BY ConcatAssociative, SMTT(30) DEF Bytes, Regroups

NameSize(c) == Stream!IntToBytes(Len(c.name))

NumArgsOf(c) == Stream!IntToBytes(Len(c.args))

LEMMA HeadIs ==
  ASSUME NEW c \in Commands
  PROVE  /\ c.name \in Bytes /\ Len(c.name) \in 0..MaxRecordSize /\ Len(c.args) \in 0..MaxNumArgs
         /\ NameSize(c) \in Bytes /\ Len(NameSize(c)) = IntBytes
         /\ Stream!BytesToInt(NameSize(c)) = Len(c.name)
         /\ NumArgsOf(c) \in Bytes /\ Len(NumArgsOf(c)) = IntBytes
         /\ Stream!BytesToInt(NumArgsOf(c)) = Len(c.args)
<1>1. /\ c \in [name : Bytes, args : Seq(Stream!Argument)]
      /\ Len(c.name) <= MaxRecordSize /\ Len(c.args) <= MaxNumArgs
  BY CommandIs, Zenon
<1>2. c.name \in Bytes /\ c.args \in Seq(Stream!Argument)
  BY <1>1
<1>3. Len(c.name) \in 0..MaxRecordSize /\ Len(c.args) \in 0..MaxNumArgs
  BY <1>1, <1>2, LenProperties, StreamConstants DEF Bytes
<1>4. Stream!IsInt(Len(c.name)) /\ Stream!IsInt(Len(c.args))
  BY <1>3, StreamConstants, Zenon
<1>5. Len(c.name) \in Nat /\ Len(c.args) \in Nat
  BY <1>3
<1> QED
  BY <1>2, <1>3, <1>4, <1>5, IntIsRead, Zenon DEF NameSize, NumArgsOf

LEMMA PiecesAre ==
  ASSUME NEW c \in Commands
  PROVE  /\ Behind(Pieces(c), 0) = Stream!FlattenSeq(Pieces(c))
         /\ Behind(Pieces(c), Len(c.args)) = <<>>
         /\ \A i \in 0..Len(c.args) : Behind(Pieces(c), i) \in Bytes
         /\ \A i \in 1..Len(c.args) : Behind(Pieces(c), i - 1)
                                        = Stream!SendArgument(c.args[i]) \o Behind(Pieces(c), i)
<1> DEFINE s == Pieces(c)
           n == Len(c.args)
<1>1. n \in Nat /\ DOMAIN c.args = 1..n
  <2>1. c.args \in Seq(Stream!Argument)
    BY CommandIs
  <2> QED
    BY <2>1, LenProperties
<1>2. \A i \in 1..n : Stream!SendArgument(c.args[i]) \in Bytes
  <2> SUFFICES ASSUME NEW i \in 1..n PROVE Stream!SendArgument(c.args[i]) \in Bytes
    OBVIOUS
  <2> DEFINE x == c.args[i]
  <2>1. <<x.type>> \in Bytes /\ SizeOf(x) \in Bytes /\ DataOf(x) \in Bytes
        /\ Stream!SendArgument(x) = <<x.type>> \o (SizeOf(x) \o DataOf(x))
    BY FieldsAre, Zenon
  <2> HIDE DEF x
  <2>2. SizeOf(x) \o DataOf(x) \in Bytes
    BY <2>1, ConcatProperties DEF Bytes
  <2>3. <<x.type>> \o (SizeOf(x) \o DataOf(x)) \in Bytes
    BY <2>1, <2>2, ConcatProperties DEF Bytes
  <2> QED
    BY <2>1, <2>3, Zenon DEF x
<1> HIDE DEF n
<1>3. s = [i \in 1..n |-> Stream!SendArgument(c.args[i])]
  BY <1>1 DEF Pieces
<1>4. s \in [1..n -> Bytes] /\ \A i \in 1..n : s[i] = Stream!SendArgument(c.args[i])
  BY <1>2, <1>3, Zenon
<1> HIDE DEF s
<1>5. s \in Seq(Bytes)
  BY <1>1, <1>4, SeqDef
<1>6. Len(s) = n
  BY <1>1, <1>4, <1>5, LenProperties
<1>7. Flat(s) = Stream!FlattenSeq(s)
  BY DEF Flat, Flattened, Stream!FlattenSeq
<1>8. /\ Behind(s, 0) = Flat(s) /\ Behind(s, Len(s)) = <<>>
      /\ \A i \in 1..Len(s) : Behind(s, i - 1) = s[i] \o Behind(s, i)
      /\ \A i \in 0..Len(s) : Behind(s, i) \in Bytes
  BY <1>5, BehindIs, Zenon DEF Bytes
<1> QED
  BY <1>4, <1>6, <1>7, <1>8, Zenon DEF s, n

(* The bytes of a command and what follows, field by field. *)
LEMMA CommandFields ==
  ASSUME NEW c \in Commands, NEW t \in Bytes
  PROVE  /\ Stream!SendCommand(c) \in Bytes
         /\ Stream!SendCommand(c) \o t = NameSize(c) \o BehindSize(c, t)
         /\ BehindSize(c, t) = c.name \o (NumArgsOf(c) \o (Behind(Pieces(c), 0) \o t))
         /\ Behind(Pieces(c), 0) \o t \in Bytes
         /\ NumArgsOf(c) \o (Behind(Pieces(c), 0) \o t) \in Bytes
         /\ BehindSize(c, t) \in Bytes
<1> DEFINE a == NameSize(c)
           b == c.name
           d == NumArgsOf(c)
           e == Behind(Pieces(c), 0)
<1>1. a \in Bytes /\ b \in Bytes /\ d \in Bytes
  BY HeadIs, Zenon
<1>2. e \in Bytes
  <2>1. 0 \in 0..Len(c.args)
    BY HeadIs
  <2> QED
    BY <2>1, PiecesAre, Zenon
<1>3. Stream!SendCommand(c) = ((a \o b) \o d) \o e
  BY PiecesAre, Zenon DEF Stream!SendCommand, Stream!ByteArray, NameSize, NumArgsOf, Pieces
<1>4. BehindSize(c, t) = b \o (d \o (e \o t))
  BY DEF BehindSize, NumArgsOf
<1> HIDE DEF a, b, d, e
<1>5. ((a \o b) \o d) \o e \in Bytes
  BY <1>1, <1>2, ConcatProperties DEF Bytes
<1>6. e \o t \in Bytes
  BY <1>2, ConcatProperties DEF Bytes
<1>7. d \o (e \o t) \in Bytes
  BY <1>1, <1>6, ConcatProperties DEF Bytes
<1>8. b \o (d \o (e \o t)) \in Bytes
  BY <1>1, <1>7, ConcatProperties DEF Bytes
<1>9. (((a \o b) \o d) \o e) \o t = a \o (b \o (d \o (e \o t)))
  <2>1. a \o b \in Bytes /\ (a \o b) \o d \in Bytes
    BY <1>1, ConcatProperties DEF Bytes
  <2>2. Regroups((a \o b) \o d, e, t)
    BY <1>2, <2>1, Regroup, Zenon
  <2>3. Regroups(a \o b, d, e \o t)
    BY <1>1, <1>6, <2>1, Regroup, Zenon
  <2>4. Regroups(a, b, d \o (e \o t))
    BY <1>1, <1>7, <2>1, Regroup, Zenon
  <2> QED
    BY <2>2, <2>3, <2>4, Zenon DEF Regroups
<1> QED
  BY <1>3, <1>4, <1>5, <1>6, <1>7, <1>8, <1>9, Zenon DEF a, b, d, e

LEMMA ArgumentFields ==
  ASSUME NEW c \in Commands, NEW t \in Bytes, NEW i \in 1..Len(c.args)
  PROVE  /\ Behind(Pieces(c), i) \o t \in Bytes
         /\ DataOf(c.args[i]) \o (Behind(Pieces(c), i) \o t) \in Bytes
         /\ SizeOf(c.args[i]) \o (DataOf(c.args[i]) \o (Behind(Pieces(c), i) \o t)) \in Bytes
         /\ Behind(Pieces(c), i - 1) \o t
              = <<c.args[i].type>>
                  \o (SizeOf(c.args[i]) \o (DataOf(c.args[i]) \o (Behind(Pieces(c), i) \o t)))
<1> DEFINE a == <<c.args[i].type>>
           b == SizeOf(c.args[i])
           d == DataOf(c.args[i])
           e == Behind(Pieces(c), i)
<1>1. a \in Bytes /\ b \in Bytes /\ d \in Bytes
  BY FieldsAre, Zenon
<1>2. e \in Bytes
  <2>1. i \in 0..Len(c.args)
    BY HeadIs
  <2> QED
    BY <2>1, PiecesAre, Zenon
<1>3. Behind(Pieces(c), i - 1) = (a \o (b \o d)) \o e
  BY FieldsAre, PiecesAre, Zenon
<1> HIDE DEF a, b, d, e
<1>6. e \o t \in Bytes
  BY <1>2, ConcatProperties DEF Bytes
<1>7. d \o (e \o t) \in Bytes
  BY <1>1, <1>6, ConcatProperties DEF Bytes
<1>8. b \o (d \o (e \o t)) \in Bytes
  BY <1>1, <1>7, ConcatProperties DEF Bytes
<1>9. ((a \o (b \o d)) \o e) \o t = a \o (b \o (d \o (e \o t)))
  <2>1. b \o d \in Bytes /\ a \o (b \o d) \in Bytes
    BY <1>1, ConcatProperties DEF Bytes
  <2>2. Regroups(a \o (b \o d), e, t)
    BY <1>2, <2>1, Regroup, Zenon
  <2>3. Regroups(a, b \o d, e \o t)
    BY <1>1, <1>6, <2>1, Regroup, Zenon
  <2>4. Regroups(b, d, e \o t)
    BY <1>1, <1>6, <2>1, Regroup, Zenon
  <2> QED
    BY <2>2, <2>3, <2>4, Zenon DEF Regroups
<1> QED
  BY <1>3, <1>6, <1>7, <1>8, <1>9, Zenon DEF a, b, d, e

-----------------------------------------------------------------------------
(* Where the readers are in the command c; come is what they have not seen *)
(* of the stream, t what follows the command in it.                        *)

ArgReaders == [type : Bytes, size : Bytes, data : Bytes]

Readers == [size : Bytes, data : Bytes, numArgs : Bytes, args : Seq(ArgReaders)]

AtSize(p, c, come, t) ==
  /\ At(p.size, NameSize(c), come, BehindSize(c, t))
  /\ p.data = <<>> /\ p.numArgs = <<>> /\ p.args = <<>>

AtData(p, c, come, t) ==
  /\ p.size = NameSize(c)
  /\ At(p.data, c.name, come, NumArgsOf(c) \o (Behind(Pieces(c), 0) \o t))
  /\ p.numArgs = <<>> /\ p.args = <<>>

AtNumArgs(p, c, come, t) ==
  /\ p.size = NameSize(c) /\ p.data = c.name
  /\ At(p.numArgs, NumArgsOf(c), come, Behind(Pieces(c), 0) \o t)
  /\ p.args = <<>>

HeadDone(p, c) == p.size = NameSize(c) /\ p.data = c.name /\ p.numArgs = NumArgsOf(c)

ArgDone(a, x) == a.type = <<x.type>> /\ a.size = SizeOf(x) /\ a.data = DataOf(x)

(* a reads the argument x; u is what follows it. *)
AtArgType(a, x, come, u) ==
  /\ At(a.type, <<x.type>>, come, SizeOf(x) \o (DataOf(x) \o u))
  /\ a.size = <<>> /\ a.data = <<>>

AtArgSize(a, x, come, u) ==
  /\ a.type = <<x.type>>
  /\ At(a.size, SizeOf(x), come, DataOf(x) \o u)
  /\ a.data = <<>>

AtArgData(a, x, come, u) ==
  /\ a.type = <<x.type>> /\ a.size = SizeOf(x)
  /\ At(a.data, DataOf(x), come, u)

ArgLacks(a, x, come, u) ==
  \/ AtArgType(a, x, come, u) /\ Len(a.type) < 1
  \/ AtArgSize(a, x, come, u) /\ Len(a.size) < Len(SizeOf(x))
  \/ AtArgData(a, x, come, u) /\ Len(a.data) < Len(DataOf(x))

(* The readers of the first k arguments have all of them. *)
ArgsDone(p, c, k) == HeadDone(p, c) /\ \A j \in 1..k : ArgDone(p.args[j], c.args[j])

(* The reader of the i-th argument, which GetCommand creates. *)
Opened(p, i) == IF Len(p.args) = i THEN p.args[i] ELSE Stream!NewArg

InArg(p, c, come, t, i) ==
  /\ Len(p.args) \in {i - 1, i}
  /\ ArgsDone(p, c, i - 1)
  /\ ArgLacks(Opened(p, i), c.args[i], come, Behind(Pieces(c), i) \o t)

Lacks(p, c, come, t) ==
  \/ AtSize(p, c, come, t) /\ Len(p.size) < IntBytes
  \/ AtData(p, c, come, t) /\ Len(p.data) < Len(c.name)
  \/ AtNumArgs(p, c, come, t) /\ Len(p.numArgs) < IntBytes
  \/ \E i \in 1..Len(c.args) : InArg(p, c, come, t, i)

HasAll(p, c, come, t) ==
  /\ Len(p.args) = Len(c.args) /\ ArgsDone(p, c, Len(c.args))
  /\ come = t

LEMMA OnToArgs ==
  ASSUME NEW c \in Commands, NEW t \in Bytes, NEW p \in Readers, NEW come,
         NEW k \in 0..Len(c.args), Len(p.args) = k, ArgsDone(p, c, k),
         come = Behind(Pieces(c), k) \o t
  PROVE  Lacks(p, c, come, t) \/ HasAll(p, c, come, t)
<1>1. Len(c.args) \in Nat
  BY HeadIs
<1>2. CASE k = Len(c.args)
  <2>1. <<>> \o t = t
    BY ConcatEmptySeq DEF Bytes
  <2>2. come = t
    BY <1>2, <2>1, PiecesAre, Zenon
  <2> QED
    BY <1>2, <2>2, Zenon DEF HasAll
<1>3. CASE k # Len(c.args)
  <2> DEFINE i == k + 1
             x == c.args[i]
             u == Behind(Pieces(c), i) \o t
  <2>1. i \in 1..Len(c.args) /\ i - 1 = k /\ k # i
    BY <1>1, <1>3
  <2> HIDE DEF i
  <2>2. /\ SizeOf(x) \o (DataOf(x) \o u) \in Bytes
        /\ Behind(Pieces(c), k) \o t = <<x.type>> \o (SizeOf(x) \o (DataOf(x) \o u))
    <3>1. /\ SizeOf(x) \o (DataOf(x) \o u) \in Bytes
          /\ Behind(Pieces(c), i - 1) \o t = <<x.type>> \o (SizeOf(x) \o (DataOf(x) \o u))
      BY <2>1, ArgumentFields, Zenon
    <3> QED
      BY <2>1, <3>1, Zenon
  <2>3. <<x.type>> \in Bytes
    BY <2>1, FieldsAre, Zenon
  <2> HIDE DEF x, u
  <2>4. At(<<>>, <<x.type>>, come, SizeOf(x) \o (DataOf(x) \o u))
    BY <2>2, <2>3, AtStart, Zenon
  <2>5. Opened(p, i) = Stream!NewArg
    BY <2>1, Zenon DEF Opened
  <2>6. /\ Stream!NewArg.type = <<>> /\ Stream!NewArg.size = <<>> /\ Stream!NewArg.data = <<>>
        /\ Len(<<>>) < 1
    BY DEF Stream!NewArg
  <2>7. ArgLacks(Opened(p, i), x, come, u)
    BY <2>4, <2>5, <2>6, Zenon DEF ArgLacks, AtArgType
  <2>8. InArg(p, c, come, t, i)
    BY <2>1, <2>7, Zenon DEF InArg, x, u
  <2> QED
    BY <2>1, <2>8, Zenon DEF Lacks
<1> QED
  BY <1>2, <1>3

LEMMA OnInArg ==
  ASSUME NEW c \in Commands, NEW t \in Bytes, NEW p \in Readers, NEW come,
         NEW i \in 1..Len(c.args), Len(p.args) = i, ArgsDone(p, c, i - 1), NEW u,
         u = Behind(Pieces(c), i) \o t,
         \/ AtArgType(p.args[i], c.args[i], come, u)
         \/ AtArgSize(p.args[i], c.args[i], come, u)
         \/ AtArgData(p.args[i], c.args[i], come, u)
  PROVE  Lacks(p, c, come, t) \/ HasAll(p, c, come, t)
<1> DEFINE x == c.args[i]
           a == p.args[i]
<1>1. /\ u \in Bytes /\ DataOf(x) \o u \in Bytes /\ SizeOf(x) \o (DataOf(x) \o u) \in Bytes
      /\ <<x.type>> \in Bytes /\ Len(<<x.type>>) = 1 /\ SizeOf(x) \in Bytes /\ DataOf(x) \in Bytes
  BY ArgumentFields, FieldsAre, Zenon
<1>2. a \in ArgReaders
  <2>1. p.args \in Seq(ArgReaders)
    BY DEF Readers
  <2>2. i \in 1..Len(p.args)
    OBVIOUS
  <2> QED
    BY <2>1, <2>2, ElementOfSeq
<1>3. a.type \in Bytes /\ a.size \in Bytes /\ a.data \in Bytes
  BY <1>2 DEF ArgReaders
<1>4. Opened(p, i) = a
  BY Zenon DEF Opened
<1>5. ASSUME ArgLacks(a, x, come, u) PROVE Lacks(p, c, come, t)
  <2>1. Len(p.args) \in {i - 1, i}
    BY Zenon
  <2>2. InArg(p, c, come, t, i)
    BY <1>4, <1>5, <2>1, Zenon DEF InArg
  <2> QED
    BY <2>2, Zenon DEF Lacks
<1> HIDE DEF x, a
<1>6. ASSUME NEW y \in Bytes, NEW f \in Bytes PROVE Len(y) < Len(f) \/ Len(y) >= Len(f)
  BY LenProperties DEF Bytes
<1>7. ASSUME AtArgData(a, x, come, u) PROVE Lacks(p, c, come, t) \/ HasAll(p, c, come, t)
  <2>1. CASE Len(a.data) < Len(DataOf(x))
    BY <1>5, <1>7, <2>1, Zenon DEF ArgLacks
  <2>2. CASE Len(a.data) >= Len(DataOf(x))
    <3>1. a.data = DataOf(x) /\ come = u
      BY <1>1, <1>7, <2>2, AtFull, Zenon DEF AtArgData
    <3>2. ArgDone(a, x)
      BY <1>7, <3>1, Zenon DEF AtArgData, ArgDone
    <3>3. i \in 0..Len(c.args) /\ \A j \in 1..i : j \in 1..(i - 1) \/ j = i
      BY HeadIs
    <3>4. ArgsDone(p, c, i)
      BY <3>2, <3>3, Zenon DEF ArgsDone, a, x
    <3> QED
      BY <3>1, <3>3, <3>4, OnToArgs, Zenon
  <2> QED
    BY <1>1, <1>3, <1>6, <2>1, <2>2, Zenon
<1>8. ASSUME AtArgSize(a, x, come, u) PROVE Lacks(p, c, come, t) \/ HasAll(p, c, come, t)
  <2>1. CASE Len(a.size) < Len(SizeOf(x))
    BY <1>5, <1>8, <2>1, Zenon DEF ArgLacks
  <2>2. CASE Len(a.size) >= Len(SizeOf(x))
    <3>1. a.size = SizeOf(x) /\ come = DataOf(x) \o u
      BY <1>1, <1>8, <2>2, AtFull, Zenon DEF AtArgSize
    <3>2. At(<<>>, DataOf(x), DataOf(x) \o u, u)
      BY <1>1, AtStart, Zenon
    <3>3. AtArgData(a, x, come, u)
      BY <1>8, <3>1, <3>2, Zenon DEF AtArgSize, AtArgData
    <3> QED
      BY <1>7, <3>3, Zenon
  <2> QED
    BY <1>1, <1>3, <1>6, <2>1, <2>2, Zenon
<1>9. ASSUME AtArgType(a, x, come, u) PROVE Lacks(p, c, come, t) \/ HasAll(p, c, come, t)
  <2>1. CASE Len(a.type) < Len(<<x.type>>)
    BY <1>1, <1>5, <1>9, <2>1, Zenon DEF ArgLacks
  <2>2. CASE Len(a.type) >= Len(<<x.type>>)
    <3>1. a.type = <<x.type>> /\ come = SizeOf(x) \o (DataOf(x) \o u)
      BY <1>1, <1>9, <2>2, AtFull, Zenon DEF AtArgType
    <3>2. At(<<>>, SizeOf(x), SizeOf(x) \o (DataOf(x) \o u), DataOf(x) \o u)
      BY <1>1, AtStart, Zenon
    <3>3. AtArgSize(a, x, come, u)
      BY <1>9, <3>1, <3>2, Zenon DEF AtArgType, AtArgSize
    <3> QED
      BY <1>8, <3>3, Zenon
  <2> QED
    BY <1>1, <1>3, <1>6, <2>1, <2>2, Zenon
<1> QED
  BY <1>7, <1>8, <1>9, Zenon DEF x, a

LEMMA OnInHead ==
  ASSUME NEW c \in Commands, NEW t \in Bytes, NEW p \in Readers, NEW come,
         AtSize(p, c, come, t) \/ AtData(p, c, come, t) \/ AtNumArgs(p, c, come, t)
  PROVE  Lacks(p, c, come, t) \/ HasAll(p, c, come, t)
<1> DEFINE u == Behind(Pieces(c), 0) \o t
           s == NameSize(c)
           n == NumArgsOf(c)
<1>1. /\ s \in Bytes /\ Len(s) = IntBytes /\ n \in Bytes /\ Len(n) = IntBytes /\ c.name \in Bytes
      /\ u \in Bytes /\ n \o u \in Bytes /\ BehindSize(c, t) = c.name \o (n \o u)
      /\ c.name \o (n \o u) \in Bytes
  BY HeadIs, CommandFields, Zenon
<1>2. p.size \in Bytes /\ p.data \in Bytes /\ p.numArgs \in Bytes
  BY DEF Readers
<1> HIDE DEF u, s, n
<1>3. ASSUME NEW y \in Bytes, NEW f \in Bytes PROVE Len(y) < Len(f) \/ Len(y) >= Len(f)
  BY LenProperties DEF Bytes
<1>4. ASSUME AtNumArgs(p, c, come, t) PROVE Lacks(p, c, come, t) \/ HasAll(p, c, come, t)
  <2>0. At(p.numArgs, n, come, u) /\ p.size = s /\ p.data = c.name /\ p.args = <<>>
    BY <1>4, Zenon DEF AtNumArgs, n, u, s
  <2>1. CASE Len(p.numArgs) < Len(n)
    BY <1>1, <1>4, <2>1, Zenon DEF Lacks
  <2>2. CASE Len(p.numArgs) >= Len(n)
    <3>1. p.numArgs = n /\ come = u
      BY <1>1, <2>0, <2>2, AtFull, Zenon
    <3>2. 0 \in 0..Len(c.args) /\ Len(p.args) = 0 /\ 1..0 = {}
      BY HeadIs, <2>0
    <3>3. ArgsDone(p, c, 0)
      BY <2>0, <3>1, <3>2, Zenon DEF ArgsDone, HeadDone, n, s
    <3> QED
      BY <3>1, <3>2, <3>3, OnToArgs, Zenon DEF u
  <2> QED
    BY <1>1, <1>2, <1>3, <2>1, <2>2, Zenon
<1>5. ASSUME AtData(p, c, come, t) PROVE Lacks(p, c, come, t) \/ HasAll(p, c, come, t)
  <2>0. p.size = s /\ At(p.data, c.name, come, n \o u) /\ p.numArgs = <<>> /\ p.args = <<>>
    BY <1>5, Zenon DEF AtData, n, u, s
  <2>1. CASE Len(p.data) < Len(c.name)
    BY <1>5, <2>1, Zenon DEF Lacks
  <2>2. CASE Len(p.data) >= Len(c.name)
    <3>1. p.data = c.name /\ come = n \o u
      BY <1>1, <2>0, <2>2, AtFull, Zenon
    <3>2. At(<<>>, n, n \o u, u)
      BY <1>1, AtStart, Zenon
    <3>3. AtNumArgs(p, c, come, t)
      BY <2>0, <3>1, <3>2, Zenon DEF AtNumArgs, n, u, s
    <3> QED
      BY <1>4, <3>3, Zenon
  <2> QED
    BY <1>1, <1>2, <1>3, <2>1, <2>2, Zenon
<1>6. ASSUME AtSize(p, c, come, t) PROVE Lacks(p, c, come, t) \/ HasAll(p, c, come, t)
  <2>0. At(p.size, s, come, c.name \o (n \o u)) /\ p.data = <<>> /\ p.numArgs = <<>> /\ p.args = <<>>
    BY <1>1, <1>6, Zenon DEF AtSize, s
  <2>1. CASE Len(p.size) < Len(s)
    BY <1>1, <1>6, <2>1, Zenon DEF Lacks
  <2>2. CASE Len(p.size) >= Len(s)
    <3>1. p.size = s /\ come = c.name \o (n \o u)
      BY <1>1, <2>0, <2>2, AtFull, Zenon
    <3>2. At(<<>>, c.name, c.name \o (n \o u), n \o u)
      BY <1>1, AtStart, Zenon
    <3>3. AtData(p, c, come, t)
      BY <2>0, <3>1, <3>2, Zenon DEF AtData, n, u, s
    <3> QED
      BY <1>5, <3>3, Zenon
  <2> QED
    BY <1>1, <1>2, <1>3, <2>1, <2>2, Zenon
<1> QED
  BY <1>4, <1>5, <1>6, Zenon

(* A new parser is at the start of the command. *)
LEMMA NewLacks ==
  ASSUME NEW c \in Commands, NEW t \in Bytes
  PROVE  Lacks(Stream!NewParser, c, Stream!SendCommand(c) \o t, t)
<1> DEFINE p == Stream!NewParser
<1>1. p.size = <<>> /\ p.data = <<>> /\ p.numArgs = <<>> /\ p.args = <<>>
  BY DEF Stream!NewParser
<1>2. /\ NameSize(c) \in Bytes /\ BehindSize(c, t) \in Bytes
      /\ Stream!SendCommand(c) \o t = NameSize(c) \o BehindSize(c, t)
  BY HeadIs, CommandFields, Zenon
<1>3. At(<<>>, NameSize(c), NameSize(c) \o BehindSize(c, t), BehindSize(c, t))
  BY <1>2, AtStart, Zenon
<1>4. Len(<<>>) < IntBytes
  BY StreamConstants
<1> HIDE DEF p
<1>5. AtSize(p, c, Stream!SendCommand(c) \o t, t) /\ Len(p.size) < IntBytes
  BY <1>1, <1>2, <1>3, <1>4, Zenon DEF AtSize
<1> QED
  BY <1>5, Zenon DEF Lacks, p

(* While the readers lack something there are bytes to come. *)
LEMMA LacksComes ==
  ASSUME NEW c \in Commands, NEW t \in Bytes, NEW p, NEW come, Lacks(p, c, come, t)
  PROVE  come # <<>>
<1>1. /\ NameSize(c) \in Bytes /\ Len(NameSize(c)) = IntBytes
      /\ NumArgsOf(c) \in Bytes /\ Len(NumArgsOf(c)) = IntBytes /\ c.name \in Bytes
      /\ Behind(Pieces(c), 0) \o t \in Bytes /\ NumArgsOf(c) \o (Behind(Pieces(c), 0) \o t) \in Bytes
      /\ BehindSize(c, t) \in Bytes
  BY HeadIs, CommandFields, Zenon
<1>2. CASE AtSize(p, c, come, t) /\ Len(p.size) < IntBytes
  BY <1>1, <1>2, AtLacks, Zenon DEF AtSize
<1>3. CASE AtData(p, c, come, t) /\ Len(p.data) < Len(c.name)
  BY <1>1, <1>3, AtLacks, Zenon DEF AtData
<1>4. CASE AtNumArgs(p, c, come, t) /\ Len(p.numArgs) < IntBytes
  BY <1>1, <1>4, AtLacks, Zenon DEF AtNumArgs
<1>5. ASSUME NEW i \in 1..Len(c.args), InArg(p, c, come, t, i) PROVE come # <<>>
  <2> DEFINE x == c.args[i]
             u == Behind(Pieces(c), i) \o t
             a == Opened(p, i)
  <2>1. /\ u \in Bytes /\ DataOf(x) \o u \in Bytes /\ SizeOf(x) \o (DataOf(x) \o u) \in Bytes
        /\ <<x.type>> \in Bytes /\ Len(<<x.type>>) = 1 /\ SizeOf(x) \in Bytes /\ DataOf(x) \in Bytes
    BY ArgumentFields, FieldsAre, Zenon
  <2>2. ArgLacks(a, x, come, u)
    BY <1>5, Zenon DEF InArg
  <2> HIDE DEF x, u, a
  <2>3. CASE AtArgType(a, x, come, u) /\ Len(a.type) < 1
    BY <2>1, <2>3, AtLacks, Zenon DEF AtArgType
  <2>4. CASE AtArgSize(a, x, come, u) /\ Len(a.size) < Len(SizeOf(x))
    BY <2>1, <2>4, AtLacks, Zenon DEF AtArgSize
  <2>5. CASE AtArgData(a, x, come, u) /\ Len(a.data) < Len(DataOf(x))
    BY <2>1, <2>5, AtLacks, Zenon DEF AtArgData
  <2> QED
    BY <2>2, <2>3, <2>4, <2>5, Zenon DEF ArgLacks
<1> QED
  BY <1>2, <1>3, <1>4, <1>5, Zenon DEF Lacks

-----------------------------------------------------------------------------
(* What GetCommand waits for, and what it does with bytes, whatever the    *)
(* readers hold.                                                           *)

Limits(p) ==
  /\ Len(p.size) <= IntBytes /\ Len(p.numArgs) <= IntBytes
  /\ Len(p.data) <= MaxRecordSize /\ Len(p.args) <= MaxNumArgs

LEMMA ArgWantsIs ==
  ASSUME NEW a \in ArgReaders, Stream!ArgWants(a).field \notin {"done", "throw"}
  PROVE  /\ Stream!ArgWants(a).field \in {"type", "size", "data"} /\ Stream!ArgWants(a).total \in Nat
         /\ Len(a[Stream!ArgWants(a).field]) < Stream!ArgWants(a).total
<1> DEFINE w == Stream!ArgWants(a)
           n == Stream!BytesToInt(a.size)
<1>1. a.type \in Bytes /\ a.size \in Bytes /\ a.data \in Bytes
  BY DEF ArgReaders
<1>2. Len(a.type) \in Nat /\ Len(a.size) \in Nat /\ Len(a.data) \in Nat
  BY <1>1, LenProperties DEF Bytes
<1>3. CASE Len(a.type) < 1
  <2>1. w = [field |-> "type", total |-> 1]
    BY <1>3, Zenon DEF Stream!ArgWants
  <2> HIDE DEF w
  <2>2. w.field = "type" /\ w.total = 1 /\ 1 \in Nat
    BY <2>1
  <2> QED
    BY <1>3, <2>2, Zenon DEF w
<1>4. CASE ~(Len(a.type) < 1) /\ a.type[1] \notin {0, 1}
  <2>1. w = [field |-> "throw", total |-> 0]
    BY <1>4, Zenon DEF Stream!ArgWants
  <2>2. w.field = "throw"
    BY <2>1
  <2> QED
    BY <2>2
<1>5. CASE ~(Len(a.type) < 1) /\ a.type[1] = 0
  <2>1. w = [field |-> IF Len(a.data) < IntBytes THEN "data" ELSE "done", total |-> IntBytes]
    BY <1>5 DEF Stream!ArgWants
  <2> HIDE DEF w
  <2>2. w.field = "data" /\ w.total = IntBytes /\ Len(a.data) < IntBytes
    BY <2>1 DEF w
  <2> QED
    BY <2>2, StreamConstants, Zenon DEF w
<1>6. CASE ~(Len(a.type) < 1) /\ a.type[1] = 1
  <2>1. CASE Len(a.size) < IntBytes
    <3>1. w = [field |-> "size", total |-> IntBytes]
      BY <1>6, <2>1 DEF Stream!ArgWants
    <3> HIDE DEF w
    <3>2. w.field = "size" /\ w.total = IntBytes
      BY <3>1
    <3> QED
      BY <2>1, <3>2, StreamConstants, Zenon DEF w
  <2>2. CASE ~(Len(a.size) < IntBytes)
    <3>1. Len(a.size) >= IntBytes
      BY <1>2, <2>2, StreamConstants
    <3>2. n \in Nat
      BY <1>1, <3>1, ReadIsNat, Zenon
    <3> HIDE DEF n
    <3>3. \/ w = [field |-> "throw", total |-> 0]
          \/ w = [field |-> IF Len(a.data) < n THEN "data" ELSE "done", total |-> n]
      BY <1>6, <2>2 DEF Stream!ArgWants, n
    <3> HIDE DEF w
    <3>4. w.field = "data" /\ w.total = n /\ Len(a.data) < n
      BY <3>3 DEF w
    <3> QED
      BY <3>2, <3>4, Zenon DEF w
  <2> QED
    BY <2>1, <2>2
<1> QED
  BY <1>3, <1>4, <1>5, <1>6

LEMMA ArgIndexIs ==
  ASSUME NEW p \in Readers
  PROVE  Stream!ArgIndex(p) \in 1..(Len(p.args) + 1) /\ Stream!Arg(p) \in ArgReaders
<1> DEFINE open == {i \in DOMAIN p.args : Stream!ArgWants(p.args[i]).field # "done"}
           k == Stream!ArgIndex(p)
<1>1. p.args \in Seq(ArgReaders)
  BY DEF Readers
<1>2. Len(p.args) \in Nat /\ DOMAIN p.args = 1..Len(p.args)
  BY <1>1, LenProperties
<1>3. k \in 1..(Len(p.args) + 1)
  <2>1. CASE open = {}
    <3>1. k = Len(p.args) + 1
      BY <2>1 DEF Stream!ArgIndex
    <3> QED
      BY <1>2, <3>1
  <2>2. CASE open # {}
    <3>0. k = CHOOSE i \in open : \A j \in open : i <= j
      BY <2>2, Zenon DEF Stream!ArgIndex
    <3>1. \A i \in open : i \in 1..Len(p.args)
      BY <1>2
    <3> HIDE DEF open
    <3>2. open \subseteq Nat
      BY <1>2, <3>1
    <3>3. \E i \in open : \A j \in open : i <= j
      BY <2>2, <3>2, SmallestOf
    <3>4. k \in open
      BY <3>0, <3>3, Zenon
    <3> QED
      BY <1>2, <3>1, <3>4
  <2> QED
    BY <2>1, <2>2
<1> HIDE DEF k
<1>4. Stream!NewArg \in ArgReaders
  <2>1. <<>> \in Bytes
    BY DEF Bytes
  <2> QED
    BY <2>1 DEF Stream!NewArg, ArgReaders
<1>5. k \in DOMAIN p.args => p.args[k] \in ArgReaders
  BY <1>1, <1>2, ElementOfSeq
<1> QED
  BY <1>3, <1>4, <1>5, Zenon DEF Stream!Arg, k

Filled(p, b, q) ==
  /\ b \in ArgReaders /\ q \in Readers
  /\ q.size = p.size /\ q.data = p.data /\ q.numArgs = p.numArgs
  /\ Len(q.args) = Stream!ArgIndex(p) /\ q.args[Stream!ArgIndex(p)] = b
  /\ \A j \in 1..(Stream!ArgIndex(p) - 1) : q.args[j] = p.args[j]

LEMMA FilledIs ==
  ASSUME NEW p \in Readers, NEW w, w.of # "command", w.field \in {"type", "size", "data"},
         NEW bytes \in Bytes, NEW b, b = [Stream!Arg(p) EXCEPT ![w.field] = @ \o bytes],
         NEW q, q = Stream!Fill(p, w, bytes)
  PROVE  Filled(p, b, q)
<1> DEFINE i == Stream!ArgIndex(p)
           a == Stream!Arg(p)
           s == SubSeq(p.args, 1, i - 1)
<1>1. i \in 1..(Len(p.args) + 1) /\ a \in ArgReaders
  BY ArgIndexIs, Zenon
<1>2. p.args \in Seq(ArgReaders) /\ p.size \in Bytes /\ p.data \in Bytes /\ p.numArgs \in Bytes
  BY DEF Readers
<1>3. b = [a EXCEPT ![w.field] = @ \o bytes]
  OBVIOUS
<1>4. q = [p EXCEPT !.args = s \o <<b>>]
  BY Zenon DEF Stream!Fill
<1> HIDE DEF i, a
<1>5. b \in ArgReaders
  <2>1. a.type \o bytes \in Bytes /\ a.size \o bytes \in Bytes /\ a.data \o bytes \in Bytes
    <3>1. a.type \in Bytes /\ a.size \in Bytes /\ a.data \in Bytes
      BY <1>1 DEF ArgReaders
    <3> QED
      BY <3>1, ConcatProperties DEF Bytes
  <2>2. CASE w.field = "type"
    <3>1. b = [a EXCEPT !["type"] = a.type \o bytes]
      BY <1>3, <2>2, Zenon
    <3> QED
      BY <1>1, <2>1, <3>1 DEF ArgReaders
  <2>3. CASE w.field = "size"
    <3>1. b = [a EXCEPT !["size"] = a.size \o bytes]
      BY <1>3, <2>3, Zenon
    <3> QED
      BY <1>1, <2>1, <3>1 DEF ArgReaders
  <2>4. CASE w.field = "data"
    <3>1. b = [a EXCEPT !["data"] = a.data \o bytes]
      BY <1>3, <2>4, Zenon
    <3> QED
      BY <1>1, <2>1, <3>1 DEF ArgReaders
  <2> QED
    BY <2>2, <2>3, <2>4
<1>6. Len(p.args) \in Nat /\ i - 1 \in 0..Len(p.args)
  BY <1>1, <1>2, LenProperties
<1>7. s \in Seq(ArgReaders) /\ Len(s) = i - 1 /\ \A j \in 1..(i - 1) : s[j] = p.args[j]
  BY <1>2, <1>6, TakeIs, Zenon DEF Take
<1> HIDE DEF s
<1> DEFINE r == s \o <<b>>
<1>8. <<b>> \in Seq(ArgReaders) /\ Len(<<b>>) = 1 /\ <<b>>[1] = b
  BY <1>5
<1>9. r \in Seq(ArgReaders) /\ Len(r) = i /\ r[i] = b /\ \A j \in 1..(i - 1) : r[j] = p.args[j]
  <2>1. /\ r \in Seq(ArgReaders) /\ Len(r) = Len(s) + Len(<<b>>)
        /\ \A j \in 1..(Len(s) + Len(<<b>>)) : r[j] = IF j <= Len(s) THEN s[j] ELSE <<b>>[j - Len(s)]
    BY <1>7, <1>8, ConcatProperties
  <2> HIDE DEF r
  <2>2. i \in Nat /\ i >= 1 /\ Len(s) = i - 1 /\ Len(<<b>>) = 1 /\ (i - 1) + 1 = i /\ i - (i - 1) = 1
    BY <1>1, <1>6, <1>7, <1>8
  <2>3. Len(r) = i
    BY <2>1, <2>2
  <2>4. r[i] = <<b>>[1]
    <3>1. i \in 1..(Len(s) + Len(<<b>>)) /\ ~(i <= Len(s)) /\ i - Len(s) = 1
      BY <2>2
    <3> QED
      BY <2>1, <3>1, Zenon
  <2>5. ASSUME NEW j \in 1..(i - 1) PROVE r[j] = p.args[j]
    <3>1. j <= Len(s) /\ j \in 1..(Len(s) + Len(<<b>>))
      BY <2>2
    <3>2. r[j] = s[j]
      BY <2>1, <3>1, Zenon
    <3> QED
      BY <1>7, <3>2, Zenon
  <2> QED
    BY <1>8, <2>1, <2>3, <2>4, <2>5, Zenon
<1> HIDE DEF r
<1>10. q = [p EXCEPT !.args = r]
  BY <1>4, Zenon DEF r
<1>11. q \in Readers /\ q.size = p.size /\ q.data = p.data /\ q.numArgs = p.numArgs /\ q.args = r
  BY <1>2, <1>9, <1>10 DEF Readers
<1> QED
  BY <1>5, <1>9, <1>11, Zenon DEF i, Filled

LEMMA WantsIs ==
  ASSUME NEW p \in Readers, NEW w, w = Stream!Wants(p), w.field \notin {"done", "throw"}
  PROVE  \/ /\ w.of = "command" /\ w.field = "size" /\ w.total = IntBytes
            /\ Len(p.size) < IntBytes
         \/ /\ w.of = "command" /\ w.field = "data" /\ w.total \in 0..MaxRecordSize
            /\ Len(p.data) < w.total
         \/ /\ w.of = "command" /\ w.field = "numArgs" /\ w.total = IntBytes
            /\ Len(p.numArgs) < IntBytes
         \/ /\ w.of = "arg" /\ w.field \in {"type", "size", "data"} /\ w.total \in Nat
            /\ Len(Stream!Arg(p)[w.field]) < w.total /\ Stream!ArgIndex(p) <= MaxNumArgs
<1> DEFINE n == Stream!BytesToInt(p.size)
           k == Stream!BytesToInt(p.numArgs)
           a == Stream!Arg(p)
           i == Stream!ArgIndex(p)
<1>1. p.size \in Bytes /\ p.data \in Bytes /\ p.numArgs \in Bytes
  BY DEF Readers
<1>2. Len(p.size) \in Nat /\ Len(p.data) \in Nat /\ Len(p.numArgs) \in Nat
  BY <1>1, LenProperties DEF Bytes
<1>3. CASE Len(p.size) < IntBytes
  <2>1. w = [of |-> "command", field |-> "size", total |-> IntBytes]
    BY <1>3, Zenon DEF Stream!Wants
  <2> QED
    BY <1>3, <2>1
<1>4. CASE ~(Len(p.size) < IntBytes)
  <2>1. Len(p.size) >= IntBytes
    BY <1>2, <1>4, StreamConstants
  <2>2. n \in Nat
    BY <1>1, <2>1, ReadIsNat, Zenon
  <2>3. CASE Stream!TooLarge(n, MaxRecordSize)
    <3>1. w = [of |-> "command", field |-> "throw", total |-> 0]
      BY <1>4, <2>3, Zenon DEF Stream!Wants
    <3>2. w.field = "throw"
      BY <3>1
    <3> QED
      BY <3>2
  <2>4. CASE ~Stream!TooLarge(n, MaxRecordSize) /\ Len(p.data) < n
    <3>1. w = [of |-> "command", field |-> "data", total |-> n]
      BY <1>4, <2>4, Zenon DEF Stream!Wants
    <3> HIDE DEF n
    <3>2. n \in 0..MaxRecordSize
      BY <2>2, <2>4, StreamConstants DEF Stream!TooLarge
    <3>3. w.of = "command" /\ w.field = "data" /\ w.total = n
      BY <3>1
    <3> QED
      BY <2>4, <3>2, <3>3, Zenon
  <2>5. CASE ~Stream!TooLarge(n, MaxRecordSize) /\ ~(Len(p.data) < n)
    <3>1. CASE Len(p.numArgs) < IntBytes
      <4>1. w = [of |-> "command", field |-> "numArgs", total |-> IntBytes]
        BY <1>4, <2>5, <3>1, Zenon DEF Stream!Wants
      <4> HIDE DEF n
      <4> QED
        BY <3>1, <4>1
    <3>2. CASE ~(Len(p.numArgs) < IntBytes)
      <4>1. Len(p.numArgs) >= IntBytes
        BY <1>2, <3>2, StreamConstants
      <4>2. k \in Nat
        BY <1>1, <4>1, ReadIsNat, Zenon
      <4>3. CASE Stream!TooLarge(k, MaxNumArgs)
        <5>1. w = [of |-> "command", field |-> "throw", total |-> 0]
          BY <1>4, <2>5, <3>2, <4>3, Zenon DEF Stream!Wants
        <5>2. w.field = "throw"
          BY <5>1
        <5> QED
          BY <5>2
      <4>4. CASE ~Stream!TooLarge(k, MaxNumArgs) /\ i > k
        <5>1. w = [of |-> "command", field |-> "done", total |-> 0]
          BY <1>4, <2>5, <3>2, <4>4, Zenon DEF Stream!Wants
        <5>2. w.field = "done"
          BY <5>1
        <5> QED
          BY <5>2
      <4>5. CASE ~Stream!TooLarge(k, MaxNumArgs) /\ ~(i > k)
        <5>1. w = [of |-> "arg", field |-> Stream!ArgWants(a).field, total |-> Stream!ArgWants(a).total]
          BY <1>4, <2>5, <3>2, <4>5, Zenon DEF Stream!Wants
        <5>2. i \in 1..(Len(p.args) + 1) /\ a \in ArgReaders
          BY ArgIndexIs, Zenon
        <5>3. Len(p.args) \in Nat
          BY LenProperties DEF Readers
        <5> HIDE DEF i, k, a, n
        <5>4. i <= MaxNumArgs
          BY <4>2, <4>5, <5>2, <5>3, StreamConstants DEF Stream!TooLarge
        <5>5. w.of = "arg" /\ w.field = Stream!ArgWants(a).field /\ w.total = Stream!ArgWants(a).total
          BY <5>1
        <5>6. w.field \in {"type", "size", "data"} /\ w.total \in Nat /\ Len(a[w.field]) < w.total
          <6>1. Stream!ArgWants(a).field \notin {"done", "throw"}
            BY <5>5, Zenon
          <6> QED
            BY <5>2, <5>5, <6>1, ArgWantsIs, Zenon
        <5> QED
          BY <5>4, <5>5, <5>6, Zenon DEF a, i
      <4> QED
        BY <4>3, <4>4, <4>5, Zenon
    <3> QED
      BY <3>1, <3>2, Zenon
  <2> QED
    BY <2>3, <2>4, <2>5, Zenon
<1> QED
  BY <1>3, <1>4, Zenon

(* What Read does to the readers. *)
ReadStep(p, a, w, m, n, q) ==
  /\ w = Stream!Wants(p) /\ w.field \notin {"done", "throw"}
  /\ m = w.total - Len(Stream!Progress(p, w))
  /\ n = IF m < Len(a) THEN m ELSE Len(a)
  /\ q = Stream!Fill(p, w, SubSeq(a, 1, n))

LEMMA ReadTyped ==
  ASSUME NEW p \in Readers, Limits(p), NEW a \in Bytes, NEW w, NEW m, NEW n, NEW q,
         ReadStep(p, a, w, m, n, q)
  PROVE  /\ q \in Readers /\ Limits(q)
         /\ m \in Nat /\ m > 0 /\ n \in 0..Len(a) /\ n <= m /\ Len(Stream!Progress(p, w)) \in Nat
         /\ Take(a, n) \in Bytes /\ Drop(a, n) \in Bytes
         /\ n # m => Drop(a, n) = <<>>
<1> DEFINE y == Stream!Progress(p, w)
           b == Take(a, n)
<1>0. p.size \in Bytes /\ p.data \in Bytes /\ p.numArgs \in Bytes /\ p.args \in Seq(ArgReaders)
  BY DEF Readers
<1>00. Len(a) \in Nat
  BY LenProperties DEF Bytes
<1>1. ASSUME NEW z \in Bytes, z = y, Len(z) < w.total, w.total \in Nat
      PROVE  /\ m \in Nat /\ m > 0 /\ n \in 0..Len(a) /\ n <= m
             /\ b \in Bytes /\ Drop(a, n) \in Bytes /\ (n # m => Drop(a, n) = <<>>)
             /\ z \o b \in Bytes /\ Len(z \o b) = Len(z) + n /\ Len(z \o b) <= w.total /\ Len(y) \in Nat
  <2>1. Len(z) \in Nat
    BY LenProperties DEF Bytes
  <2>2. m = w.total - Len(z) /\ (n = IF m < Len(a) THEN m ELSE Len(a))
    BY <1>1, Zenon DEF ReadStep
  <2>3. m \in Nat /\ m > 0 /\ n \in 0..Len(a) /\ n <= m /\ Len(z) + n <= w.total /\ (n # m => n = Len(a))
    BY <1>00, <1>1, <2>1, <2>2
  <2>4. b \in Bytes /\ Len(b) = n /\ Drop(a, n) \in Bytes
    BY <2>3, TakeIs, DropIs, Zenon DEF Bytes
  <2>5. n # m => Drop(a, n) = <<>>
    BY <2>3, TakeDropEnds, Zenon DEF Bytes
  <2> HIDE DEF b
  <2>6. z \o b \in Bytes /\ Len(z \o b) = Len(z) + n
    BY <2>4, ConcatProperties DEF Bytes
  <2> QED
    BY <1>1, <2>1, <2>3, <2>4, <2>5, <2>6
<1>2. w = Stream!Wants(p) /\ w.field \notin {"done", "throw"} /\ q = Stream!Fill(p, w, b)
  BY Zenon DEF ReadStep, Take
<1>3. Limits(p)
  OBVIOUS
<1> HIDE DEF b
<1>4. CASE w.of = "command" /\ w.field = "size" /\ w.total = IntBytes /\ Len(p.size) < IntBytes
  <2>1. p.size = y
    BY <1>4, Zenon DEF Stream!Progress
  <2>2. w.total \in Nat
    BY <1>4, StreamConstants
  <2>3. /\ m \in Nat /\ m > 0 /\ n \in 0..Len(a) /\ n <= m
        /\ b \in Bytes /\ Drop(a, n) \in Bytes /\ (n # m => Drop(a, n) = <<>>)
        /\ p.size \o b \in Bytes /\ Len(p.size \o b) <= w.total /\ Len(y) \in Nat
    BY <1>0, <1>1, <1>4, <2>1, <2>2, Zenon
  <2>4. q = [p EXCEPT !["size"] = p.size \o b]
    BY <1>2, <1>4, Zenon DEF Stream!Fill
  <2> HIDE DEF y
  <2>5. q \in Readers /\ q.size = p.size \o b /\ q.data = p.data /\ q.numArgs = p.numArgs /\ q.args = p.args
    BY <1>0, <2>3, <2>4 DEF Readers
  <2>6. Limits(q)
    BY <1>3, <1>4, <2>3, <2>5, Zenon DEF Limits
  <2> QED
    BY <2>3, <2>5, <2>6, Zenon DEF b, y
<1>5. CASE w.of = "command" /\ w.field = "data" /\ w.total \in 0..MaxRecordSize /\ Len(p.data) < w.total
  <2>1. p.data = y
    BY <1>5, Zenon DEF Stream!Progress
  <2>2. w.total \in Nat
    BY <1>5, StreamConstants
  <2>3. /\ m \in Nat /\ m > 0 /\ n \in 0..Len(a) /\ n <= m
        /\ b \in Bytes /\ Drop(a, n) \in Bytes /\ (n # m => Drop(a, n) = <<>>)
        /\ p.data \o b \in Bytes /\ Len(p.data \o b) <= w.total /\ Len(y) \in Nat
    BY <1>0, <1>1, <1>5, <2>1, <2>2, Zenon
  <2>4. q = [p EXCEPT !["data"] = p.data \o b]
    BY <1>2, <1>5, Zenon DEF Stream!Fill
  <2> HIDE DEF y
  <2>5. q \in Readers /\ q.data = p.data \o b /\ q.size = p.size /\ q.numArgs = p.numArgs /\ q.args = p.args
    BY <1>0, <2>3, <2>4 DEF Readers
  <2>6. Len(p.data \o b) <= MaxRecordSize
    <3>1. Len(p.data \o b) \in Nat
      BY <2>3, LenProperties DEF Bytes
    <3> QED
      BY <1>5, <2>3, <3>1, StreamConstants
  <2>7. Limits(q)
    BY <1>3, <2>5, <2>6, Zenon DEF Limits
  <2> QED
    BY <2>3, <2>5, <2>7, Zenon DEF b, y
<1>6. CASE w.of = "command" /\ w.field = "numArgs" /\ w.total = IntBytes /\ Len(p.numArgs) < IntBytes
  <2>1. p.numArgs = y
    BY <1>6, Zenon DEF Stream!Progress
  <2>2. w.total \in Nat
    BY <1>6, StreamConstants
  <2>3. /\ m \in Nat /\ m > 0 /\ n \in 0..Len(a) /\ n <= m
        /\ b \in Bytes /\ Drop(a, n) \in Bytes /\ (n # m => Drop(a, n) = <<>>)
        /\ p.numArgs \o b \in Bytes /\ Len(p.numArgs \o b) <= w.total /\ Len(y) \in Nat
    BY <1>0, <1>1, <1>6, <2>1, <2>2, Zenon
  <2>4. q = [p EXCEPT !["numArgs"] = p.numArgs \o b]
    BY <1>2, <1>6, Zenon DEF Stream!Fill
  <2> HIDE DEF y
  <2>5. q \in Readers /\ q.numArgs = p.numArgs \o b /\ q.size = p.size /\ q.data = p.data /\ q.args = p.args
    BY <1>0, <2>3, <2>4 DEF Readers
  <2>6. Limits(q)
    BY <1>3, <1>6, <2>3, <2>5, Zenon DEF Limits
  <2> QED
    BY <2>3, <2>5, <2>6, Zenon DEF b, y
<1>7. CASE /\ w.of = "arg" /\ w.field \in {"type", "size", "data"} /\ w.total \in Nat
           /\ Len(Stream!Arg(p)[w.field]) < w.total /\ Stream!ArgIndex(p) <= MaxNumArgs
  <2>0. w.of # "command"
    BY <1>7
  <2>1. Stream!Arg(p)[w.field] = y
    BY <2>0, Zenon DEF Stream!Progress
  <2>2. Stream!Arg(p)[w.field] \in Bytes
    <3>1. Stream!Arg(p) \in ArgReaders
      BY ArgIndexIs, Zenon
    <3>2. Stream!Arg(p).type \in Bytes /\ Stream!Arg(p).size \in Bytes /\ Stream!Arg(p).data \in Bytes
      BY <3>1 DEF ArgReaders
    <3> QED
      BY <1>7, <3>2, Zenon
  <2>3. /\ m \in Nat /\ m > 0 /\ n \in 0..Len(a) /\ n <= m
        /\ b \in Bytes /\ Drop(a, n) \in Bytes /\ (n # m => Drop(a, n) = <<>>) /\ Len(y) \in Nat
    BY <1>1, <1>7, <2>1, <2>2, Zenon
  <2> HIDE DEF y
  <2>4. /\ q \in Readers /\ q.size = p.size /\ q.data = p.data /\ q.numArgs = p.numArgs
        /\ Len(q.args) = Stream!ArgIndex(p)
    <3> DEFINE d == [Stream!Arg(p) EXCEPT ![w.field] = @ \o b]
    <3>1. Filled(p, d, q)
      BY <1>2, <1>7, <2>0, <2>3, FilledIs, Zenon
    <3> QED
      BY <3>1, Zenon DEF Filled
  <2>5. Limits(q)
    BY <1>3, <1>7, <2>4, Zenon DEF Limits
  <2> QED
    BY <2>3, <2>4, <2>5, Zenon DEF b, y
<1> QED
  BY <1>2, <1>4, <1>5, <1>6, <1>7, WantsIs, Zenon

-----------------------------------------------------------------------------
(* What GetCommand waits for within a command. *)

LEMMA ArgumentReads ==
  ASSUME NEW c \in Commands, NEW i \in 1..Len(c.args)
  PROVE  /\ <<c.args[i].type>>[1] = c.args[i].type
         /\ c.args[i].type = 0 => /\ SizeOf(c.args[i]) = <<>> /\ Len(DataOf(c.args[i])) = IntBytes
                                  /\ Stream!BytesToInt(DataOf(c.args[i])) = c.args[i].value
         /\ c.args[i].type = 1 => /\ Len(SizeOf(c.args[i])) = IntBytes
                                  /\ Stream!BytesToInt(SizeOf(c.args[i])) = Len(DataOf(c.args[i]))
                                  /\ DataOf(c.args[i]) = c.args[i].value
                                  /\ ~Stream!TooLarge(Len(DataOf(c.args[i])), MaxRecordSize)
<1> DEFINE x == c.args[i]
<1>1. /\ x.type = 0 => x.value \in Nat /\ Stream!IsInt(x.value)
      /\ x.type = 1 => /\ x.value \in Bytes /\ Len(x.value) \in 0..MaxRecordSize
                       /\ Stream!IsInt(Len(x.value))
  BY ArgumentIs, Zenon
<1> HIDE DEF x
<1>2. <<x.type>>[1] = x.type
  OBVIOUS
<1>3. ASSUME x.type = 0
      PROVE  /\ SizeOf(x) = <<>> /\ Len(DataOf(x)) = IntBytes
             /\ Stream!BytesToInt(DataOf(x)) = x.value
  <2>1. SizeOf(x) = <<>> /\ DataOf(x) = Stream!IntToBytes(x.value)
    BY <1>3, Zenon DEF SizeOf, DataOf
  <2> QED
    BY <1>1, <1>3, <2>1, IntIsRead, Zenon
<1>4. ASSUME x.type = 1
      PROVE  /\ Len(SizeOf(x)) = IntBytes /\ Stream!BytesToInt(SizeOf(x)) = Len(DataOf(x))
             /\ DataOf(x) = x.value /\ ~Stream!TooLarge(Len(DataOf(x)), MaxRecordSize)
  <2>1. x.type # 0 /\ Len(x.value) \in Nat /\ ~(Len(x.value) > MaxRecordSize)
    BY <1>1, <1>4, StreamConstants
  <2>2. SizeOf(x) = Stream!IntToBytes(Len(x.value)) /\ DataOf(x) = x.value
    BY <2>1, Zenon DEF SizeOf, DataOf
  <2> QED
    BY <1>1, <1>4, <2>1, <2>2, IntIsRead, Zenon DEF Stream!TooLarge
<1> QED
  BY <1>2, <1>3, <1>4, Zenon DEF x

LEMMA ArgDoneWants ==
  ASSUME NEW c \in Commands, NEW i \in 1..Len(c.args), NEW a, ArgDone(a, c.args[i])
  PROVE  Stream!ArgWants(a).field = "done"
<1> DEFINE x == c.args[i]
<1>1. /\ Len(<<x.type>>) = 1 /\ x.type \in {0, 1} /\ <<x.type>>[1] = x.type
      /\ x.type = 0 => Len(DataOf(x)) = IntBytes
      /\ x.type = 1 => /\ Len(SizeOf(x)) = IntBytes /\ Stream!BytesToInt(SizeOf(x)) = Len(DataOf(x))
                       /\ ~Stream!TooLarge(Len(DataOf(x)), MaxRecordSize)
  BY ArgumentIs, ArgumentReads, FieldsAre, Zenon
<1>2. DataOf(x) \in Bytes
  BY FieldsAre, Zenon
<1> HIDE DEF x
<1>3. a.type = <<x.type>> /\ a.size = SizeOf(x) /\ a.data = DataOf(x)
  BY Zenon DEF ArgDone, x
<1>4. ~(Len(a.type) < 1) /\ a.type[1] = x.type
  BY <1>1, <1>3
<1>5. Len(DataOf(x)) \in Nat
  BY <1>2, LenProperties DEF Bytes
<1>6. CASE x.type = 0
  <2>1. ~(Len(a.data) < IntBytes)
    BY <1>1, <1>3, <1>6, StreamConstants
  <2>2. Stream!ArgWants(a) = [field |-> "done", total |-> IntBytes]
    BY <1>4, <1>6, <2>1 DEF Stream!ArgWants
  <2> QED
    BY <2>2
<1>7. CASE x.type = 1
  <2> DEFINE n == Stream!BytesToInt(a.size)
  <2>1. ~(Len(a.size) < IntBytes)
    BY <1>1, <1>3, <1>7, StreamConstants
  <2>2. n = Len(DataOf(x)) /\ ~Stream!TooLarge(n, MaxRecordSize)
    BY <1>1, <1>3, <1>7, Zenon
  <2> HIDE DEF n
  <2>3. ~(Len(a.data) < n)
    BY <1>3, <1>5, <2>2
  <2>4. Stream!ArgWants(a) = [field |-> "done", total |-> n]
    BY <1>4, <1>7, <2>1, <2>2, <2>3 DEF Stream!ArgWants, n
  <2> QED
    BY <2>4
<1> QED
  BY <1>1, <1>6, <1>7

(* What the argument's reader lacks is what it waits for. *)
LEMMA ArgLacksWants ==
  ASSUME NEW c \in Commands, NEW i \in 1..Len(c.args), NEW a \in ArgReaders, NEW come, NEW u,
         ArgLacks(a, c.args[i], come, u)
  PROVE  \/ /\ AtArgType(a, c.args[i], come, u)
            /\ Stream!ArgWants(a) = [field |-> "type", total |-> Len(<<c.args[i].type>>)]
         \/ /\ AtArgSize(a, c.args[i], come, u)
            /\ Stream!ArgWants(a) = [field |-> "size", total |-> Len(SizeOf(c.args[i]))]
         \/ /\ AtArgData(a, c.args[i], come, u)
            /\ Stream!ArgWants(a) = [field |-> "data", total |-> Len(DataOf(c.args[i]))]
<1> DEFINE x == c.args[i]
<1>1. /\ Len(<<x.type>>) = 1 /\ x.type \in {0, 1} /\ <<x.type>>[1] = x.type
      /\ x.type = 0 => SizeOf(x) = <<>> /\ Len(DataOf(x)) = IntBytes
      /\ x.type = 1 => /\ Len(SizeOf(x)) = IntBytes /\ Stream!BytesToInt(SizeOf(x)) = Len(DataOf(x))
                       /\ ~Stream!TooLarge(Len(DataOf(x)), MaxRecordSize)
  BY ArgumentIs, ArgumentReads, FieldsAre, Zenon
<1>2. Len(a.size) \in Nat
  BY LenProperties DEF ArgReaders, Bytes
<1>3. ArgLacks(a, x, come, u)
  OBVIOUS
<1> HIDE DEF x
<1>4. CASE AtArgType(a, x, come, u) /\ Len(a.type) < 1
  <2>1. Stream!ArgWants(a) = [field |-> "type", total |-> Len(<<x.type>>)]
    BY <1>1, <1>4, Zenon DEF Stream!ArgWants
  <2> QED
    BY <1>4, <2>1, Zenon DEF x
<1>5. CASE AtArgSize(a, x, come, u) /\ Len(a.size) < Len(SizeOf(x))
  <2>1. a.type = <<x.type>>
    BY <1>5, Zenon DEF AtArgSize
  <2>2. ~(Len(a.type) < 1) /\ a.type[1] = x.type
    BY <1>1, <2>1
  <2>3. x.type = 1
    <3>1. SizeOf(x) # <<>>
      BY <1>2, <1>5
    <3> QED
      BY <1>1, <3>1
  <2>4. Len(SizeOf(x)) = IntBytes /\ Len(a.size) < IntBytes
    BY <1>1, <1>5, <2>3, Zenon
  <2>5. Stream!ArgWants(a) = [field |-> "size", total |-> IntBytes]
    BY <2>2, <2>3, <2>4 DEF Stream!ArgWants
  <2> QED
    BY <1>5, <2>4, <2>5, Zenon DEF x
<1>6. CASE AtArgData(a, x, come, u) /\ Len(a.data) < Len(DataOf(x))
  <2>1. a.type = <<x.type>> /\ a.size = SizeOf(x)
    BY <1>6, Zenon DEF AtArgData
  <2>2. ~(Len(a.type) < 1) /\ a.type[1] = x.type
    BY <1>1, <2>1
  <2>3. CASE x.type = 0
    <3>1. Len(DataOf(x)) = IntBytes /\ Len(a.data) < IntBytes
      BY <1>1, <1>6, <2>3, Zenon
    <3>2. Stream!ArgWants(a) = [field |-> "data", total |-> IntBytes]
      BY <2>2, <2>3, <3>1 DEF Stream!ArgWants
    <3> QED
      BY <1>6, <3>1, <3>2, Zenon DEF x
  <2>4. CASE x.type = 1
    <3> DEFINE n == Stream!BytesToInt(a.size)
    <3>1. ~(Len(a.size) < IntBytes)
      BY <1>1, <2>1, <2>4, StreamConstants
    <3>2. n = Len(DataOf(x)) /\ ~Stream!TooLarge(n, MaxRecordSize)
      BY <1>1, <2>1, <2>4, Zenon
    <3> HIDE DEF n
    <3>3. Len(a.data) < n
      BY <1>6, <3>2, Zenon
    <3>4. Stream!ArgWants(a) = [field |-> "data", total |-> n]
      BY <2>2, <2>4, <3>1, <3>2, <3>3 DEF Stream!ArgWants, n
    <3> QED
      BY <1>6, <3>2, <3>4, Zenon DEF x
  <2> QED
    BY <1>1, <2>3, <2>4
<1> QED
  BY <1>3, <1>4, <1>5, <1>6, Zenon DEF ArgLacks

OpenedAt(p, i) ==
  Opened(p, i) \in ArgReaders /\ Stream!ArgIndex(p) = i /\ Stream!Arg(p) = Opened(p, i)

LEMMA OpenedIs ==
  ASSUME NEW c \in Commands, NEW t \in Bytes, NEW p \in Readers, NEW come,
         NEW i \in 1..Len(c.args), InArg(p, c, come, t, i)
  PROVE  OpenedAt(p, i)
<1> DEFINE open == {j \in DOMAIN p.args : Stream!ArgWants(p.args[j]).field # "done"}
           a == Opened(p, i)
           k == Stream!ArgIndex(p)
<1>1. p.args \in Seq(ArgReaders)
  BY DEF Readers
<1>2. Len(p.args) \in Nat /\ DOMAIN p.args = 1..Len(p.args) /\ Len(c.args) \in Nat
  BY <1>1, LenProperties, HeadIs
<1>3. Len(p.args) \in {i - 1, i} /\ ArgsDone(p, c, i - 1)
      /\ ArgLacks(a, c.args[i], come, Behind(Pieces(c), i) \o t)
  BY Zenon DEF InArg
<1>4. ASSUME NEW j \in 1..(i - 1) PROVE Stream!ArgWants(p.args[j]).field = "done"
  <2>1. j \in 1..Len(c.args)
    BY <1>2
  <2>2. ArgDone(p.args[j], c.args[j])
    BY <1>3, Zenon DEF ArgsDone
  <2> QED
    BY <2>1, <2>2, ArgDoneWants, Zenon
<1>5. Stream!NewArg \in ArgReaders
  <2>1. <<>> \in Bytes
    BY DEF Bytes
  <2> QED
    BY <2>1 DEF Stream!NewArg, ArgReaders
<1>6. a \in ArgReaders
  <2>1. Len(p.args) = i => p.args[i] \in ArgReaders
    BY <1>1, <1>2, ElementOfSeq
  <2> QED
    BY <1>5, <2>1, Zenon DEF Opened
<1>7. Stream!ArgWants(a).field # "done"
  <2> HIDE DEF a
  <2>1. Stream!ArgWants(a).field \in {"type", "size", "data"}
    <3> DEFINE v == Stream!ArgWants(a)
    <3>1. \/ v = [field |-> "type", total |-> Len(<<c.args[i].type>>)]
          \/ v = [field |-> "size", total |-> Len(SizeOf(c.args[i]))]
          \/ v = [field |-> "data", total |-> Len(DataOf(c.args[i]))]
      BY <1>3, <1>6, ArgLacksWants, Zenon
    <3> HIDE DEF v
    <3>2. v.field \in {"type", "size", "data"}
      BY <3>1
    <3> QED
      BY <3>2, Zenon DEF v
  <2> QED
    BY <2>1
<1>8. CASE Len(p.args) = i
  <2>1. a = p.args[i] /\ i \in DOMAIN p.args
    BY <1>2, <1>8 DEF Opened
  <2>2. i \in open
    BY <1>7, <2>1, Zenon
  <2>3. ASSUME NEW j \in open PROVE j = i
    <3>1. j \in 1..i /\ Stream!ArgWants(p.args[j]).field # "done"
      BY <1>2, <1>8, <2>3, Zenon
    <3>2. j \in 1..(i - 1) \/ j = i
      BY <3>1
    <3> QED
      BY <1>4, <3>1, <3>2, Zenon
  <2>4. k = CHOOSE l \in open : \A j \in open : l <= j
    BY <2>2, Zenon DEF Stream!ArgIndex
  <2> HIDE DEF open
  <2>5. i <= i
    OBVIOUS
  <2>6. \E l \in open : \A j \in open : l <= j
    BY <2>2, <2>3, <2>5, Zenon
  <2>7. k \in open
    BY <2>4, <2>6, Zenon
  <2>8. k = i
    BY <2>3, <2>7, Zenon
  <2> QED
    BY <1>6, <2>1, <2>8, Zenon DEF Stream!Arg, OpenedAt
<1>9. CASE Len(p.args) # i
  <2>1. Len(p.args) = i - 1 /\ i \notin DOMAIN p.args /\ Len(p.args) + 1 = i
    BY <1>2, <1>3, <1>9
  <2>2. open = {}
    BY <1>2, <1>4, <2>1, Zenon
  <2>3. k = Len(p.args) + 1
    BY <2>2, Zenon DEF Stream!ArgIndex
  <2>4. k = i
    BY <2>1, <2>3, Zenon
  <2>5. a = Stream!NewArg
    BY <1>9, Zenon DEF Opened
  <2> QED
    BY <1>6, <2>1, <2>4, <2>5, Zenon DEF Stream!Arg, OpenedAt
<1> QED
  BY <1>8, <1>9

LEMMA HeadWants ==
  ASSUME NEW c \in Commands, NEW p \in Readers, HeadDone(p, c)
  PROVE  Stream!Wants(p) = IF Stream!ArgIndex(p) > Len(c.args)
                           THEN [of |-> "command", field |-> "done", total |-> 0]
                           ELSE [of |-> "arg", field |-> Stream!ArgWants(Stream!Arg(p)).field,
                                 total |-> Stream!ArgWants(Stream!Arg(p)).total]
<1>1. /\ Len(p.size) = IntBytes /\ Stream!BytesToInt(p.size) = Len(p.data)
      /\ Len(p.numArgs) = IntBytes /\ Stream!BytesToInt(p.numArgs) = Len(c.args)
      /\ Len(p.data) \in 0..MaxRecordSize /\ Len(c.args) \in 0..MaxNumArgs
  BY HeadIs, Zenon DEF HeadDone
<1>2. /\ ~(Len(p.size) < IntBytes) /\ ~(Len(p.numArgs) < IntBytes) /\ ~(Len(p.data) < Len(p.data))
      /\ ~(Len(p.data) > MaxRecordSize) /\ ~(Len(c.args) > MaxNumArgs)
  BY <1>1, StreamConstants
<1>3. /\ ~(Len(p.data) < Stream!BytesToInt(p.size))
      /\ ~Stream!TooLarge(Stream!BytesToInt(p.size), MaxRecordSize)
      /\ ~Stream!TooLarge(Stream!BytesToInt(p.numArgs), MaxNumArgs)
  BY <1>1, <1>2, Zenon DEF Stream!TooLarge
<1> QED
  BY <1>1, <1>2, <1>3, Zenon DEF Stream!Wants

LEMMA LacksWants ==
  ASSUME NEW c \in Commands, NEW t \in Bytes, NEW p \in Readers, NEW come, Lacks(p, c, come, t)
  PROVE  \/ /\ AtSize(p, c, come, t)
            /\ Stream!Wants(p) = [of |-> "command", field |-> "size", total |-> Len(NameSize(c))]
         \/ /\ AtData(p, c, come, t)
            /\ Stream!Wants(p) = [of |-> "command", field |-> "data", total |-> Len(c.name)]
         \/ /\ AtNumArgs(p, c, come, t)
            /\ Stream!Wants(p) = [of |-> "command", field |-> "numArgs", total |-> Len(NumArgsOf(c))]
         \/ \E i \in 1..Len(c.args) :
              /\ InArg(p, c, come, t, i)
              /\ Stream!Wants(p) = [of |-> "arg", field |-> Stream!ArgWants(Opened(p, i)).field,
                                    total |-> Stream!ArgWants(Opened(p, i)).total]
<1>1. /\ Len(NameSize(c)) = IntBytes /\ Stream!BytesToInt(NameSize(c)) = Len(c.name)
      /\ Len(NumArgsOf(c)) = IntBytes /\ Len(c.name) \in 0..MaxRecordSize
      /\ Len(c.args) \in 0..MaxNumArgs
  BY HeadIs, Zenon
<1>2. ~(IntBytes < IntBytes) /\ ~(Len(c.name) > MaxRecordSize) /\ ~(Len(c.name) < Len(c.name))
  BY <1>1, StreamConstants
<1>3. ~Stream!TooLarge(Len(c.name), MaxRecordSize)
  BY <1>2, Zenon DEF Stream!TooLarge
<1>4. CASE AtSize(p, c, come, t) /\ Len(p.size) < IntBytes
  <2>1. Stream!Wants(p) = [of |-> "command", field |-> "size", total |-> Len(NameSize(c))]
    BY <1>1, <1>4, Zenon DEF Stream!Wants
  <2> QED
    BY <1>4, <2>1, Zenon
<1>5. CASE AtData(p, c, come, t) /\ Len(p.data) < Len(c.name)
  <2>1. p.size = NameSize(c)
    BY <1>5, Zenon DEF AtData
  <2>2. /\ ~(Len(p.size) < IntBytes) /\ ~Stream!TooLarge(Stream!BytesToInt(p.size), MaxRecordSize)
        /\ Len(p.data) < Stream!BytesToInt(p.size) /\ Stream!BytesToInt(p.size) = Len(c.name)
    BY <1>1, <1>2, <1>3, <1>5, <2>1, Zenon
  <2>3. Stream!Wants(p) = [of |-> "command", field |-> "data", total |-> Len(c.name)]
    BY <2>2, Zenon DEF Stream!Wants
  <2> QED
    BY <1>5, <2>3, Zenon
<1>6. CASE AtNumArgs(p, c, come, t) /\ Len(p.numArgs) < IntBytes
  <2>1. p.size = NameSize(c) /\ p.data = c.name
    BY <1>6, Zenon DEF AtNumArgs
  <2>2. /\ ~(Len(p.size) < IntBytes) /\ ~Stream!TooLarge(Stream!BytesToInt(p.size), MaxRecordSize)
        /\ ~(Len(p.data) < Stream!BytesToInt(p.size))
    BY <1>1, <1>2, <1>3, <2>1, Zenon
  <2>3. Stream!Wants(p) = [of |-> "command", field |-> "numArgs", total |-> Len(NumArgsOf(c))]
    BY <1>1, <1>6, <2>2, Zenon DEF Stream!Wants
  <2> QED
    BY <1>6, <2>3, Zenon
<1>7. ASSUME NEW i \in 1..Len(c.args), InArg(p, c, come, t, i)
      PROVE  Stream!Wants(p) = [of |-> "arg", field |-> Stream!ArgWants(Opened(p, i)).field,
                                total |-> Stream!ArgWants(Opened(p, i)).total]
  <2>1. HeadDone(p, c)
    BY <1>7, Zenon DEF InArg, ArgsDone
  <2>2. Stream!ArgIndex(p) = i /\ Stream!Arg(p) = Opened(p, i)
    BY <1>7, OpenedIs, Zenon DEF OpenedAt
  <2>3. ~(i > Len(c.args))
    BY <1>1
  <2> QED
    BY <2>1, <2>2, <2>3, HeadWants, Zenon
<1> QED
  BY <1>4, <1>5, <1>6, <1>7, Zenon DEF Lacks

LEMMA HasAllWants ==
  ASSUME NEW c \in Commands, NEW t \in Bytes, NEW p \in Readers, NEW come, HasAll(p, c, come, t)
  PROVE  Stream!Wants(p).field = "done"
<1>1. p.args \in Seq(ArgReaders)
  BY DEF Readers
<1>2. /\ Len(p.args) \in Nat /\ DOMAIN p.args = 1..Len(p.args) /\ Len(p.args) = Len(c.args)
      /\ ArgsDone(p, c, Len(c.args))
  BY <1>1, LenProperties DEF HasAll
<1>3. ASSUME NEW j \in 1..Len(c.args) PROVE Stream!ArgWants(p.args[j]).field = "done"
  BY <1>2, ArgDoneWants, Zenon DEF ArgsDone
<1>4. {i \in DOMAIN p.args : Stream!ArgWants(p.args[i]).field # "done"} = {}
  BY <1>2, <1>3, Zenon
<1>5. Stream!ArgIndex(p) = Len(p.args) + 1
  BY <1>4, Zenon DEF Stream!ArgIndex
<1>6. Stream!ArgIndex(p) > Len(c.args)
  BY <1>2, <1>5
<1>7. HeadDone(p, c)
  BY <1>2, Zenon DEF ArgsDone
<1>8. Stream!Wants(p) = [of |-> "command", field |-> "done", total |-> 0]
  BY <1>6, <1>7, HeadWants, Zenon
<1> QED
  BY <1>8

(* Within a command GetCommand neither returns nor throws. *)
LEMMA LacksWaits ==
  ASSUME NEW c \in Commands, NEW t \in Bytes, NEW p \in Readers, NEW come, Lacks(p, c, come, t)
  PROVE  Stream!Wants(p).field \notin {"done", "throw"}
<1> DEFINE w == Stream!Wants(p)
<1>1. CASE /\ AtSize(p, c, come, t)
           /\ w = [of |-> "command", field |-> "size", total |-> Len(NameSize(c))]
  BY <1>1
<1>2. CASE /\ AtData(p, c, come, t)
           /\ w = [of |-> "command", field |-> "data", total |-> Len(c.name)]
  BY <1>2
<1>3. CASE /\ AtNumArgs(p, c, come, t)
           /\ w = [of |-> "command", field |-> "numArgs", total |-> Len(NumArgsOf(c))]
  BY <1>3
<1> HIDE DEF w
<1>4. ASSUME NEW i \in 1..Len(c.args), InArg(p, c, come, t, i),
             w = [of |-> "arg", field |-> Stream!ArgWants(Opened(p, i)).field,
                  total |-> Stream!ArgWants(Opened(p, i)).total]
      PROVE  w.field \notin {"done", "throw"}
  <2> DEFINE v == Stream!ArgWants(Opened(p, i))
  <2>1. Opened(p, i) \in ArgReaders
    BY <1>4, OpenedIs, Zenon DEF OpenedAt
  <2>2. ArgLacks(Opened(p, i), c.args[i], come, Behind(Pieces(c), i) \o t)
    BY <1>4, Zenon DEF InArg
  <2>3. \/ v = [field |-> "type", total |-> Len(<<c.args[i].type>>)]
        \/ v = [field |-> "size", total |-> Len(SizeOf(c.args[i]))]
        \/ v = [field |-> "data", total |-> Len(DataOf(c.args[i]))]
    BY <2>1, <2>2, ArgLacksWants, Zenon
  <2>4. w = [of |-> "arg", field |-> v.field, total |-> v.total]
    BY <1>4, Zenon
  <2> HIDE DEF v
  <2>5. v.field \in {"type", "size", "data"}
    BY <2>3
  <2>6. w.field = v.field
    BY <2>4
  <2> QED
    BY <2>5, <2>6
<1> QED
  BY <1>1, <1>2, <1>3, <1>4, LacksWants, Zenon DEF w

-----------------------------------------------------------------------------
LEMMA StillLess ==
  ASSUME NEW x \in Nat, NEW y \in Nat, NEW n \in Nat, NEW m, m = y - x, n <= m, n # m
  PROVE  x + n < y
OBVIOUS

(* A reader that takes bytes goes on within the command. *)
LEMMA ReadKeeps ==
  ASSUME NEW c \in Commands, NEW t \in Bytes, NEW p \in Readers, Limits(p),
         NEW a \in Bytes, NEW b \in Bytes, Lacks(p, c, a \o b, t),
         NEW w, NEW m, NEW n, NEW q, ReadStep(p, a, w, m, n, q)
  PROVE  /\ Lacks(q, c, Drop(a, n) \o b, t) \/ HasAll(q, c, Drop(a, n) \o b, t)
         /\ n # m => Lacks(q, c, Drop(a, n) \o b, t)
<1> DEFINE d == Take(a, n)
           come == Drop(a, n) \o b
<1>1. /\ q \in Readers /\ m \in Nat /\ n \in Nat /\ n <= m /\ n <= Len(a) /\ d \in Bytes
      /\ Len(a) \in Nat
  <2>1. q \in Readers /\ m \in Nat /\ n \in 0..Len(a) /\ n <= m /\ d \in Bytes
    BY ReadTyped, Zenon
  <2>2. Len(a) \in Nat
    BY LenProperties DEF Bytes
  <2> QED
    BY <2>1, <2>2
<1>2. w = Stream!Wants(p) /\ q = Stream!Fill(p, w, d)
  BY Zenon DEF ReadStep, Take
<1> HIDE DEF d, come
<1>4. /\ NameSize(c) \in Bytes /\ NumArgsOf(c) \in Bytes /\ c.name \in Bytes
      /\ Len(NameSize(c)) = IntBytes /\ Len(NumArgsOf(c)) = IntBytes
      /\ Behind(Pieces(c), 0) \o t \in Bytes /\ BehindSize(c, t) \in Bytes
      /\ NumArgsOf(c) \o (Behind(Pieces(c), 0) \o t) \in Bytes
  BY HeadIs, CommandFields, Zenon
<1>5. DOMAIN p = {"size", "data", "numArgs", "args"}
  BY DEF Readers
<1>6. CASE /\ AtSize(p, c, a \o b, t)
           /\ w = [of |-> "command", field |-> "size", total |-> Len(NameSize(c))]
  <2>1. w.of = "command" /\ w.field = "size" /\ w.total = Len(NameSize(c))
    BY <1>6
  <2>2. Stream!Progress(p, w) = p.size
    BY <2>1, Zenon DEF Stream!Progress
  <2>3. m = Len(NameSize(c)) - Len(p.size)
    BY <2>1, <2>2, Zenon DEF ReadStep
  <2>4. At(p.size, NameSize(c), a \o b, BehindSize(c, t))
    BY <1>6, Zenon DEF AtSize
  <2>5. n \in 0..(Len(NameSize(c)) - Len(p.size)) /\ n <= Len(a)
    BY <1>1, <2>3
  <2>6. /\ At(p.size \o d, NameSize(c), come, BehindSize(c, t))
        /\ Len(p.size \o d) = Len(p.size) + n
    <3>1. AtMoved(p.size, NameSize(c), a, b, BehindSize(c, t), n)
      BY <1>4, <2>4, <2>5, AtMoves, Zenon
    <3> QED
      BY <3>1, Zenon DEF AtMoved, d, come
  <2>7. q = [p EXCEPT !["size"] = p.size \o d]
    BY <1>2, <2>1, Zenon DEF Stream!Fill
  <2>8. q.size = p.size \o d /\ q.data = p.data /\ q.numArgs = p.numArgs /\ q.args = p.args
    BY <2>7, <1>5
  <2>9. AtSize(q, c, come, t)
    BY <1>6, <2>6, <2>8, Zenon DEF AtSize
  <2>10. Lacks(q, c, come, t) \/ HasAll(q, c, come, t)
    BY <1>1, <2>9, OnInHead, Zenon
  <2>11. ASSUME n # m PROVE Lacks(q, c, come, t)
    <3>1. Len(p.size) \in Nat /\ Len(NameSize(c)) \in Nat
      BY <1>4, <2>4, LenProperties DEF At, Bytes
    <3>2. Len(q.size) < Len(NameSize(c))
      <4>1. Len(p.size) + n < Len(NameSize(c))
        BY <1>1, <2>3, <2>11, <3>1, StillLess
      <4>2. Len(q.size) = Len(p.size) + n
        BY <2>6, <2>8, Zenon
      <4> QED
        BY <4>1, <4>2, Zenon
    <3> QED
      BY <1>4, <2>9, <3>2, Zenon DEF Lacks
  <2> QED
    BY <2>10, <2>11, Zenon DEF come
<1>7. CASE /\ AtData(p, c, a \o b, t)
           /\ w = [of |-> "command", field |-> "data", total |-> Len(c.name)]
  <2>1. w.of = "command" /\ w.field = "data" /\ w.total = Len(c.name)
    BY <1>7
  <2>2. Stream!Progress(p, w) = p.data
    BY <2>1, Zenon DEF Stream!Progress
  <2>3. m = Len(c.name) - Len(p.data)
    BY <2>1, <2>2, Zenon DEF ReadStep
  <2>4. At(p.data, c.name, a \o b, NumArgsOf(c) \o (Behind(Pieces(c), 0) \o t))
    BY <1>7, Zenon DEF AtData
  <2>5. n \in 0..(Len(c.name) - Len(p.data)) /\ n <= Len(a)
    BY <1>1, <2>3
  <2>6. /\ At(p.data \o d, c.name, come, NumArgsOf(c) \o (Behind(Pieces(c), 0) \o t))
        /\ Len(p.data \o d) = Len(p.data) + n
    <3>1. AtMoved(p.data, c.name, a, b, NumArgsOf(c) \o (Behind(Pieces(c), 0) \o t), n)
      BY <1>4, <2>4, <2>5, AtMoves, Zenon
    <3> QED
      BY <3>1, Zenon DEF AtMoved, d, come
  <2>7. q = [p EXCEPT !["data"] = p.data \o d]
    BY <1>2, <2>1, Zenon DEF Stream!Fill
  <2>8. q.data = p.data \o d /\ q.size = p.size /\ q.numArgs = p.numArgs /\ q.args = p.args
    BY <2>7, <1>5
  <2>9. AtData(q, c, come, t)
    BY <1>7, <2>6, <2>8, Zenon DEF AtData
  <2>10. Lacks(q, c, come, t) \/ HasAll(q, c, come, t)
    BY <1>1, <2>9, OnInHead, Zenon
  <2>11. ASSUME n # m PROVE Lacks(q, c, come, t)
    <3>1. Len(p.data) \in Nat /\ Len(c.name) \in Nat
      BY <1>4, <2>4, LenProperties DEF At, Bytes
    <3>2. Len(q.data) < Len(c.name)
      <4>1. Len(p.data) + n < Len(c.name)
        BY <1>1, <2>3, <2>11, <3>1, StillLess
      <4>2. Len(q.data) = Len(p.data) + n
        BY <2>6, <2>8, Zenon
      <4> QED
        BY <4>1, <4>2, Zenon
    <3> QED
      BY <1>4, <2>9, <3>2, Zenon DEF Lacks
  <2> QED
    BY <2>10, <2>11, Zenon DEF come
<1>8. CASE /\ AtNumArgs(p, c, a \o b, t)
           /\ w = [of |-> "command", field |-> "numArgs", total |-> Len(NumArgsOf(c))]
  <2>1. w.of = "command" /\ w.field = "numArgs" /\ w.total = Len(NumArgsOf(c))
    BY <1>8
  <2>2. Stream!Progress(p, w) = p.numArgs
    BY <2>1, Zenon DEF Stream!Progress
  <2>3. m = Len(NumArgsOf(c)) - Len(p.numArgs)
    BY <2>1, <2>2, Zenon DEF ReadStep
  <2>4. At(p.numArgs, NumArgsOf(c), a \o b, Behind(Pieces(c), 0) \o t)
    BY <1>8, Zenon DEF AtNumArgs
  <2>5. n \in 0..(Len(NumArgsOf(c)) - Len(p.numArgs)) /\ n <= Len(a)
    BY <1>1, <2>3
  <2>6. /\ At(p.numArgs \o d, NumArgsOf(c), come, Behind(Pieces(c), 0) \o t)
        /\ Len(p.numArgs \o d) = Len(p.numArgs) + n
    <3>1. AtMoved(p.numArgs, NumArgsOf(c), a, b, Behind(Pieces(c), 0) \o t, n)
      BY <1>4, <2>4, <2>5, AtMoves, Zenon
    <3> QED
      BY <3>1, Zenon DEF AtMoved, d, come
  <2>7. q = [p EXCEPT !["numArgs"] = p.numArgs \o d]
    BY <1>2, <2>1, Zenon DEF Stream!Fill
  <2>8. q.numArgs = p.numArgs \o d /\ q.size = p.size /\ q.data = p.data /\ q.args = p.args
    BY <2>7, <1>5
  <2>9. AtNumArgs(q, c, come, t)
    BY <1>8, <2>6, <2>8, Zenon DEF AtNumArgs
  <2>10. Lacks(q, c, come, t) \/ HasAll(q, c, come, t)
    BY <1>1, <2>9, OnInHead, Zenon
  <2>11. ASSUME n # m PROVE Lacks(q, c, come, t)
    <3>1. Len(p.numArgs) \in Nat /\ Len(NumArgsOf(c)) \in Nat
      BY <1>4, <2>4, LenProperties DEF At, Bytes
    <3>2. Len(q.numArgs) < Len(NumArgsOf(c))
      <4>1. Len(p.numArgs) + n < Len(NumArgsOf(c))
        BY <1>1, <2>3, <2>11, <3>1, StillLess
      <4>2. Len(q.numArgs) = Len(p.numArgs) + n
        BY <2>6, <2>8, Zenon
      <4> QED
        BY <4>1, <4>2, Zenon
    <3> QED
      BY <1>4, <2>9, <3>2, Zenon DEF Lacks
  <2> QED
    BY <2>10, <2>11, Zenon DEF come
<1>9. ASSUME NEW i \in 1..Len(c.args), InArg(p, c, a \o b, t, i),
             w = [of |-> "arg", field |-> Stream!ArgWants(Opened(p, i)).field,
                  total |-> Stream!ArgWants(Opened(p, i)).total]
      PROVE  /\ Lacks(q, c, come, t) \/ HasAll(q, c, come, t)
             /\ n # m => Lacks(q, c, come, t)
  <2> DEFINE o == Opened(p, i)
             v == Stream!ArgWants(o)
             x == c.args[i]
             u == Behind(Pieces(c), i) \o t
             e == [o EXCEPT ![w.field] = @ \o d]
  <2>1. /\ u \in Bytes /\ DataOf(x) \o u \in Bytes /\ SizeOf(x) \o (DataOf(x) \o u) \in Bytes
        /\ <<x.type>> \in Bytes /\ Len(<<x.type>>) = 1 /\ SizeOf(x) \in Bytes /\ DataOf(x) \in Bytes
    BY ArgumentFields, FieldsAre, Zenon
  <2>2. w.of # "command" /\ w.field = v.field /\ w.total = v.total
    BY <1>9
  <2>3. o \in ArgReaders /\ Stream!ArgIndex(p) = i /\ Stream!Arg(p) = o
    <3>1. InArg(p, c, a \o b, t, i)
      BY <1>9
    <3> HIDE DEF o
    <3>2. OpenedAt(p, i)
      BY <3>1, OpenedIs, Zenon
    <3> QED
      BY <3>2, Zenon DEF OpenedAt, o
  <2>4. ArgLacks(o, x, a \o b, u) /\ ArgsDone(p, c, i - 1)
    BY <1>9, Zenon DEF InArg
  <2>5. \/ AtArgType(o, x, a \o b, u) /\ v = [field |-> "type", total |-> Len(<<x.type>>)]
        \/ AtArgSize(o, x, a \o b, u) /\ v = [field |-> "size", total |-> Len(SizeOf(x))]
        \/ AtArgData(o, x, a \o b, u) /\ v = [field |-> "data", total |-> Len(DataOf(x))]
    BY <2>3, <2>4, ArgLacksWants, Zenon
  <2> HIDE DEF o, v, x, u
  <2>8. w.field \in {"type", "size", "data"} => Filled(p, e, q)
    BY <1>1, <1>2, <2>2, <2>3, FilledIs, Zenon
  <2> HIDE DEF e
  <2>7. ASSUME Filled(p, e, q) PROVE q.args[i] = e /\ Len(q.args) = i /\ ArgsDone(q, c, i - 1)
    <3>1. /\ q.size = p.size /\ q.data = p.data /\ q.numArgs = p.numArgs
          /\ Len(q.args) = i /\ q.args[i] = e /\ \A j \in 1..(i - 1) : q.args[j] = p.args[j]
      BY <2>3, <2>7, Zenon DEF Filled
    <3>2. HeadDone(q, c)
      BY <2>4, <3>1, Zenon DEF ArgsDone, HeadDone
    <3> QED
      BY <2>4, <3>1, <3>2, Zenon DEF ArgsDone
  <2>9. ASSUME Filled(p, e, q),
               AtArgType(e, x, come, u) \/ AtArgSize(e, x, come, u) \/ AtArgData(e, x, come, u)
        PROVE  Lacks(q, c, come, t) \/ HasAll(q, c, come, t)
    <3>1. q.args[i] = e /\ Len(q.args) = i /\ ArgsDone(q, c, i - 1)
      BY <2>7, <2>9, Zenon
    <3>2. \/ AtArgType(q.args[i], c.args[i], come, u)
          \/ AtArgSize(q.args[i], c.args[i], come, u)
          \/ AtArgData(q.args[i], c.args[i], come, u)
      BY <2>9, <3>1, Zenon DEF x
    <3>3. u = Behind(Pieces(c), i) \o t
      BY DEF u
    <3> QED
      BY <1>1, <3>1, <3>2, <3>3, OnInArg, Zenon
  <2>10. ASSUME Filled(p, e, q), ArgLacks(e, x, come, u) PROVE Lacks(q, c, come, t)
    <3>1. q.args[i] = e /\ Len(q.args) = i /\ ArgsDone(q, c, i - 1)
      BY <2>7, <2>10, Zenon
    <3>2. Opened(q, i) = e
      BY <3>1, Zenon DEF Opened
    <3>3. Len(q.args) \in {i - 1, i}
      BY <3>1, Zenon
    <3>4. InArg(q, c, come, t, i)
      BY <2>10, <3>1, <3>2, <3>3, Zenon DEF InArg, x, u
    <3> QED
      BY <3>4, Zenon DEF Lacks
  <2>11. CASE AtArgType(o, x, a \o b, u) /\ v = [field |-> "type", total |-> Len(<<x.type>>)]
    <3>1. w.field = "type" /\ w.total = Len(<<x.type>>)
      BY <2>2, <2>11
    <3>2. Stream!Progress(p, w) = o.type
      BY <2>2, <2>3, <3>1, Zenon DEF Stream!Progress
    <3>3. m = Len(<<x.type>>) - Len(o.type)
      BY <3>1, <3>2, Zenon DEF ReadStep
    <3>4. At(o.type, <<x.type>>, a \o b, SizeOf(x) \o (DataOf(x) \o u))
      BY <2>11, Zenon DEF AtArgType
    <3>5. n \in 0..(Len(<<x.type>>) - Len(o.type)) /\ n <= Len(a)
      BY <1>1, <3>3
    <3>6. /\ At(o.type \o d, <<x.type>>, come, SizeOf(x) \o (DataOf(x) \o u))
          /\ Len(o.type \o d) = Len(o.type) + n
      <4>1. AtMoved(o.type, <<x.type>>, a, b, SizeOf(x) \o (DataOf(x) \o u), n)
        BY <2>1, <3>4, <3>5, AtMoves, Zenon
      <4> QED
        BY <4>1, Zenon DEF AtMoved, d, come
    <3>7. e = [o EXCEPT !["type"] = o.type \o d] /\ w.field \in {"type", "size", "data"}
      BY <2>3, <3>1, Zenon DEF e
    <3>8. e.type = o.type \o d /\ e.size = o.size /\ e.data = o.data
      BY <2>3, <3>7 DEF ArgReaders
    <3>9. AtArgType(e, x, come, u)
      BY <2>11, <3>6, <3>8, Zenon DEF AtArgType
    <3>10. Filled(p, e, q)
      BY <2>8, <3>7, Zenon
    <3>11. Lacks(q, c, come, t) \/ HasAll(q, c, come, t)
      BY <2>9, <3>9, <3>10, Zenon
    <3>12. ASSUME n # m PROVE Lacks(q, c, come, t)
      <4>1. Len(o.type) \in Nat /\ Len(<<x.type>>) \in Nat
        BY <2>1, <3>4, LenProperties DEF At, Bytes
      <4>2. Len(e.type) < Len(<<x.type>>)
        <5>1. Len(o.type) + n < Len(<<x.type>>)
          BY <1>1, <3>3, <3>12, <4>1, StillLess
        <5>2. Len(e.type) = Len(o.type) + n
          BY <3>6, <3>8, Zenon
        <5> QED
          BY <5>1, <5>2, Zenon
      <4>3. ArgLacks(e, x, come, u)
        BY <2>1, <3>9, <4>2, Zenon DEF ArgLacks
      <4> QED
        BY <2>10, <3>10, <4>3, Zenon
    <3> QED
      BY <3>11, <3>12, Zenon
  <2>12. CASE AtArgSize(o, x, a \o b, u) /\ v = [field |-> "size", total |-> Len(SizeOf(x))]
    <3>1. w.field = "size" /\ w.total = Len(SizeOf(x))
      BY <2>2, <2>12
    <3>2. Stream!Progress(p, w) = o.size
      BY <2>2, <2>3, <3>1, Zenon DEF Stream!Progress
    <3>3. m = Len(SizeOf(x)) - Len(o.size)
      BY <3>1, <3>2, Zenon DEF ReadStep
    <3>4. At(o.size, SizeOf(x), a \o b, DataOf(x) \o u)
      BY <2>12, Zenon DEF AtArgSize
    <3>5. n \in 0..(Len(SizeOf(x)) - Len(o.size)) /\ n <= Len(a)
      BY <1>1, <3>3
    <3>6. /\ At(o.size \o d, SizeOf(x), come, DataOf(x) \o u)
          /\ Len(o.size \o d) = Len(o.size) + n
      <4>1. AtMoved(o.size, SizeOf(x), a, b, DataOf(x) \o u, n)
        BY <2>1, <3>4, <3>5, AtMoves, Zenon
      <4> QED
        BY <4>1, Zenon DEF AtMoved, d, come
    <3>7. e = [o EXCEPT !["size"] = o.size \o d] /\ w.field \in {"type", "size", "data"}
      BY <2>3, <3>1, Zenon DEF e
    <3>8. e.size = o.size \o d /\ e.type = o.type /\ e.data = o.data
      BY <2>3, <3>7 DEF ArgReaders
    <3>9. AtArgSize(e, x, come, u)
      BY <2>12, <3>6, <3>8, Zenon DEF AtArgSize
    <3>10. Filled(p, e, q)
      BY <2>8, <3>7, Zenon
    <3>11. Lacks(q, c, come, t) \/ HasAll(q, c, come, t)
      BY <2>9, <3>9, <3>10, Zenon
    <3>12. ASSUME n # m PROVE Lacks(q, c, come, t)
      <4>1. Len(o.size) \in Nat /\ Len(SizeOf(x)) \in Nat
        BY <2>1, <3>4, LenProperties DEF At, Bytes
      <4>2. Len(e.size) < Len(SizeOf(x))
        <5>1. Len(o.size) + n < Len(SizeOf(x))
          BY <1>1, <3>3, <3>12, <4>1, StillLess
        <5>2. Len(e.size) = Len(o.size) + n
          BY <3>6, <3>8, Zenon
        <5> QED
          BY <5>1, <5>2, Zenon
      <4>3. ArgLacks(e, x, come, u)
        BY <2>1, <3>9, <4>2, Zenon DEF ArgLacks
      <4> QED
        BY <2>10, <3>10, <4>3, Zenon
    <3> QED
      BY <3>11, <3>12, Zenon
  <2>13. CASE AtArgData(o, x, a \o b, u) /\ v = [field |-> "data", total |-> Len(DataOf(x))]
    <3>1. w.field = "data" /\ w.total = Len(DataOf(x))
      BY <2>2, <2>13
    <3>2. Stream!Progress(p, w) = o.data
      BY <2>2, <2>3, <3>1, Zenon DEF Stream!Progress
    <3>3. m = Len(DataOf(x)) - Len(o.data)
      BY <3>1, <3>2, Zenon DEF ReadStep
    <3>4. At(o.data, DataOf(x), a \o b, u)
      BY <2>13, Zenon DEF AtArgData
    <3>5. n \in 0..(Len(DataOf(x)) - Len(o.data)) /\ n <= Len(a)
      BY <1>1, <3>3
    <3>6. /\ At(o.data \o d, DataOf(x), come, u)
          /\ Len(o.data \o d) = Len(o.data) + n
      <4>1. AtMoved(o.data, DataOf(x), a, b, u, n)
        BY <2>1, <3>4, <3>5, AtMoves, Zenon
      <4> QED
        BY <4>1, Zenon DEF AtMoved, d, come
    <3>7. e = [o EXCEPT !["data"] = o.data \o d] /\ w.field \in {"type", "size", "data"}
      BY <2>3, <3>1, Zenon DEF e
    <3>8. e.data = o.data \o d /\ e.type = o.type /\ e.size = o.size
      BY <2>3, <3>7 DEF ArgReaders
    <3>9. AtArgData(e, x, come, u)
      BY <2>13, <3>6, <3>8, Zenon DEF AtArgData
    <3>10. Filled(p, e, q)
      BY <2>8, <3>7, Zenon
    <3>11. Lacks(q, c, come, t) \/ HasAll(q, c, come, t)
      BY <2>9, <3>9, <3>10, Zenon
    <3>12. ASSUME n # m PROVE Lacks(q, c, come, t)
      <4>1. Len(o.data) \in Nat /\ Len(DataOf(x)) \in Nat
        BY <2>1, <3>4, LenProperties DEF At, Bytes
      <4>2. Len(e.data) < Len(DataOf(x))
        <5>1. Len(o.data) + n < Len(DataOf(x))
          BY <1>1, <3>3, <3>12, <4>1, StillLess
        <5>2. Len(e.data) = Len(o.data) + n
          BY <3>6, <3>8, Zenon
        <5> QED
          BY <5>1, <5>2, Zenon
      <4>3. ArgLacks(e, x, come, u)
        BY <2>1, <3>9, <4>2, Zenon DEF ArgLacks
      <4> QED
        BY <2>10, <3>10, <4>3, Zenon
    <3> QED
      BY <3>11, <3>12, Zenon
  <2> QED
    BY <2>5, <2>11, <2>12, <2>13, Zenon
<1> QED
  BY <1>2, <1>6, <1>7, <1>8, <1>9, LacksWants, Zenon DEF come

(* A complete command is returned as it was sent. *)
LEMMA HasAllGives ==
  ASSUME NEW c \in Commands, NEW t \in Bytes, NEW p \in Readers, NEW come, HasAll(p, c, come, t)
  PROVE  Stream!CommandAndArgs(p) = c /\ come = t
<1>1. Len(p.args) = Len(c.args) /\ ArgsDone(p, c, Len(c.args)) /\ come = t
  BY Zenon DEF HasAll
<1>2. p.data = c.name /\ Stream!BytesToInt(p.numArgs) = Len(c.args)
  BY <1>1, HeadIs, Zenon DEF ArgsDone, HeadDone
<1>3. c \in [name : Bytes, args : Seq(Stream!Argument)]
  BY CommandIs, Zenon
<1> DEFINE r == [i \in 1..Len(c.args) |->
                   [type |-> p.args[i].type[1],
                    value |-> IF p.args[i].type[1] = 0 THEN Stream!BytesToInt(p.args[i].data)
                                                       ELSE p.args[i].data]]
<1>4. ASSUME NEW i \in 1..Len(c.args) PROVE r[i] = c.args[i]
  <2> DEFINE x == c.args[i]
             a == p.args[i]
             y == IF a.type[1] = 0 THEN Stream!BytesToInt(a.data) ELSE a.data
  <2>1. /\ x = [type |-> x.type, value |-> x.value] /\ x.type \in {0, 1}
        /\ <<x.type>>[1] = x.type
        /\ x.type = 0 => Stream!BytesToInt(DataOf(x)) = x.value
        /\ x.type = 1 => DataOf(x) = x.value
    BY ArgumentIs, ArgumentReads, Zenon
  <2>2. a.type = <<x.type>> /\ a.data = DataOf(x)
    BY <1>1, Zenon DEF ArgsDone, ArgDone
  <2>3. r[i] = [type |-> a.type[1], value |-> y]
    BY Zenon
  <2> HIDE DEF x, a, r
  <2>4. a.type[1] = x.type
    BY <2>1, <2>2, Zenon
  <2>5. y = x.value
    <3>1. CASE x.type = 0
      BY <2>1, <2>2, <2>4, <3>1, Zenon
    <3>2. CASE x.type = 1
      <4>1. x.type # 0
        BY <3>2
      <4> QED
        BY <2>1, <2>2, <2>4, <3>2, <4>1, Zenon
    <3> QED
      BY <2>1, <3>1, <3>2, Zenon
  <2> HIDE DEF y
  <2> QED
    BY <2>1, <2>3, <2>4, <2>5, Zenon DEF x
<1>5. Stream!CommandAndArgs(p) = [name |-> c.name, args |-> r]
  BY <1>2, Zenon DEF Stream!CommandAndArgs
<1>6. r = [i \in 1..Len(c.args) |-> r[i]]
  BY Zenon
<1> HIDE DEF r
<1>7. r = c.args
  <2>1. c.args \in Seq(Stream!Argument)
    BY <1>3
  <2>2. c.args = [i \in 1..Len(c.args) |-> c.args[i]]
    BY <2>1, LenProperties
  <2> QED
    BY <1>4, <1>6, <2>2, Zenon
<1>8. c = [name |-> c.name, args |-> c.args]
  BY <1>3
<1> QED
  BY <1>1, <1>5, <1>7, <1>8, Zenon

-----------------------------------------------------------------------------
(* The commands in the stream. *)

Lines(s) == [i \in 1..Len(s) |-> Stream!SendCommand(s[i])]

LEMMA LinesAre ==
  ASSUME NEW s \in Seq(Commands)
  PROVE  /\ Len(s) \in Nat /\ Lines(s) \in Seq(Bytes) /\ Len(Lines(s)) = Len(s)
         /\ \A i \in 1..Len(s) : Lines(s)[i] = Stream!SendCommand(s[i])
         /\ Behind(Lines(s), Len(s)) = <<>>
         /\ \A i \in 1..Len(s) : Behind(Lines(s), i - 1) = Stream!SendCommand(s[i]) \o Behind(Lines(s), i)
         /\ \A i \in 0..Len(s) : Behind(Lines(s), i) \in Bytes
<1> DEFINE n == Len(s)
           l == Lines(s)
<1>1. n \in Nat /\ \A i \in 1..n : s[i] \in Commands
  BY LenProperties, ElementOfSeq
<1> HIDE DEF n
<1>2. \A i \in 1..n : Stream!SendCommand(s[i]) \in Bytes
  <2>1. <<>> \in Bytes
    BY DEF Bytes
  <2> QED
    BY <1>1, <2>1, CommandFields, Zenon
<1>3. l \in [1..n -> Bytes] /\ \A i \in 1..n : l[i] = Stream!SendCommand(s[i])
  BY <1>2, Zenon DEF Lines, n
<1> HIDE DEF l
<1>4. l \in Seq(Bytes)
  BY <1>1, <1>3, SeqDef
<1>5. Len(l) = n
  BY <1>1, <1>3, <1>4, LenProperties
<1>6. /\ Behind(l, Len(l)) = <<>>
      /\ \A i \in 1..Len(l) : Behind(l, i - 1) = l[i] \o Behind(l, i)
      /\ \A i \in 0..Len(l) : Behind(l, i) \in Bytes
  BY <1>4, BehindIs, Zenon DEF Bytes
<1> QED
  BY <1>1, <1>3, <1>4, <1>5, <1>6, Zenon DEF l, n

(* Another command goes behind the others. *)
LEMMA LinesGrow ==
  ASSUME NEW s \in Seq(Commands), NEW c \in Commands
  PROVE  /\ Append(s, c) \in Seq(Commands) /\ Len(Append(s, c)) = Len(s) + 1
         /\ \A i \in 1..Len(s) : Append(s, c)[i] = s[i]
         /\ Append(s, c)[Len(s) + 1] = c
         /\ \A i \in 0..Len(s) :
              Behind(Lines(Append(s, c)), i) = Behind(Lines(s), i) \o Stream!SendCommand(c)
<1> DEFINE r == Append(s, c)
           a == Lines(s)
           b == Lines(r)
           n == Len(s)
<1>1. r \in Seq(Commands) /\ Len(r) = n + 1 /\ (\A i \in 1..n : r[i] = s[i]) /\ r[n + 1] = c
  BY AppendProperties
<1> HIDE DEF r
<1>2. /\ n \in Nat /\ a \in Seq(Bytes) /\ Len(a) = n /\ b \in Seq(Bytes) /\ Len(b) = Len(r)
      /\ \A i \in 1..n : a[i] = Stream!SendCommand(s[i])
      /\ \A i \in 1..Len(r) : b[i] = Stream!SendCommand(r[i])
  BY <1>1, LinesAre, Zenon
<1> HIDE DEF a, b, n
<1>3. Len(b) = Len(a) + 1 /\ n + 1 \in 1..Len(r) /\ \A i \in 1..n : i \in 1..Len(r)
  BY <1>1, <1>2
<1>4. \A i \in 1..Len(a) : b[i] = a[i]
  BY <1>1, <1>2, <1>3, Zenon
<1>5. b[Len(b)] = Stream!SendCommand(c)
  BY <1>1, <1>2, <1>3, Zenon
<1>6. ASSUME NEW i \in 0..n PROVE Behind(b, i) = Behind(a, i) \o b[Len(b)]
  <2>1. i \in 0..Len(a)
    BY <1>2, Zenon
  <2> QED
    BY <1>2, <1>3, <1>4, <2>1, BehindAppend, Zenon DEF Bytes
<1> QED
  BY <1>1, <1>5, <1>6, Zenon DEF r, a, b, n

(* What is sent behind the command leaves its readers where they are. *)
LEMMA AtMore ==
  ASSUME NEW f \in Bytes, NEW t \in Bytes, NEW z \in Bytes, NEW x, NEW come, At(x, f, come, t)
  PROVE  At(x, f, come \o z, t \o z)
<1>1. Len(x) \in 0..Len(f)
  BY LenProperties DEF At, Bytes
<1>2. Drop(f, Len(x)) \in Bytes
  BY <1>1, DropIs, Zenon DEF Bytes
<1>3. Regroups(Drop(f, Len(x)), t, z)
  BY <1>2, Regroup, Zenon
<1> QED
  BY <1>3, Zenon DEF At, Regroups

LEMMA LacksMore ==
  ASSUME NEW c \in Commands, NEW t \in Bytes, NEW z \in Bytes, NEW p, NEW come, Lacks(p, c, come, t)
  PROVE  Lacks(p, c, come \o z, t \o z)
<1> DEFINE n == NumArgsOf(c)
           o == Behind(Pieces(c), 0)
<1>1. /\ NameSize(c) \in Bytes /\ n \in Bytes /\ c.name \in Bytes
      /\ o \o t \in Bytes /\ n \o (o \o t) \in Bytes /\ BehindSize(c, t) \in Bytes
      /\ BehindSize(c, t) = c.name \o (n \o (o \o t))
  BY HeadIs, CommandFields, Zenon
<1>2. o \in Bytes /\ t \o z \in Bytes
  <2>1. 0 \in 0..Len(c.args)
    BY HeadIs
  <2>2. o \in Bytes
    BY <2>1, PiecesAre, Zenon
  <2> QED
    BY <2>2, ConcatProperties DEF Bytes
<1>3. BehindSize(c, t \o z) = c.name \o (n \o (o \o (t \o z)))
  BY <1>2, CommandFields, Zenon
<1> HIDE DEF n, o
<1>4. (o \o t) \o z = o \o (t \o z)
  BY <1>2, Regroup, Zenon DEF Regroups
<1>5. (n \o (o \o t)) \o z = n \o (o \o (t \o z))
  <2>1. Regroups(n, o \o t, z)
    BY <1>1, Regroup, Zenon
  <2> QED
    BY <1>4, <2>1, Zenon DEF Regroups
<1>6. BehindSize(c, t) \o z = BehindSize(c, t \o z)
  <2>1. Regroups(c.name, n \o (o \o t), z)
    BY <1>1, Regroup, Zenon
  <2> QED
    BY <1>1, <1>3, <1>5, <2>1, Zenon DEF Regroups
<1>7. CASE AtSize(p, c, come, t) /\ Len(p.size) < IntBytes
  <2>1. At(p.size, NameSize(c), come \o z, BehindSize(c, t) \o z)
    BY <1>1, <1>7, AtMore, Zenon DEF AtSize
  <2>2. AtSize(p, c, come \o z, t \o z)
    BY <1>6, <1>7, <2>1, Zenon DEF AtSize
  <2> QED
    BY <1>7, <2>2, Zenon DEF Lacks
<1>8. CASE AtData(p, c, come, t) /\ Len(p.data) < Len(c.name)
  <2>1. At(p.data, c.name, come \o z, (n \o (o \o t)) \o z)
    BY <1>1, <1>8, AtMore, Zenon DEF AtData, n, o
  <2>2. AtData(p, c, come \o z, t \o z)
    BY <1>5, <1>8, <2>1, Zenon DEF AtData, n, o
  <2> QED
    BY <1>8, <2>2, Zenon DEF Lacks
<1>9. CASE AtNumArgs(p, c, come, t) /\ Len(p.numArgs) < IntBytes
  <2>1. At(p.numArgs, n, come \o z, (o \o t) \o z)
    BY <1>1, <1>9, AtMore, Zenon DEF AtNumArgs, n, o
  <2>2. AtNumArgs(p, c, come \o z, t \o z)
    BY <1>4, <1>9, <2>1, Zenon DEF AtNumArgs, n, o
  <2> QED
    BY <1>9, <2>2, Zenon DEF Lacks
<1>10. ASSUME NEW i \in 1..Len(c.args), InArg(p, c, come, t, i) PROVE InArg(p, c, come \o z, t \o z, i)
  <2> DEFINE x == c.args[i]
             a == Opened(p, i)
             e == Behind(Pieces(c), i)
             u == e \o t
             v == e \o (t \o z)
  <2>1. /\ u \in Bytes /\ DataOf(x) \o u \in Bytes /\ SizeOf(x) \o (DataOf(x) \o u) \in Bytes
        /\ <<x.type>> \in Bytes /\ SizeOf(x) \in Bytes /\ DataOf(x) \in Bytes
    BY ArgumentFields, FieldsAre, Zenon
  <2>2. e \in Bytes
    <3>1. i \in 0..Len(c.args)
      BY HeadIs
    <3> QED
      BY <3>1, PiecesAre, Zenon
  <2>3. u \o z = v
    BY <2>2, Regroup, Zenon DEF Regroups
  <2>4. ArgLacks(a, x, come, u)
    BY <1>10, Zenon DEF InArg
  <2> HIDE DEF x, a, u, v
  <2>5. (DataOf(x) \o u) \o z = DataOf(x) \o v
    <3>1. Regroups(DataOf(x), u, z)
      BY <2>1, Regroup, Zenon
    <3> QED
      BY <2>3, <3>1, Zenon DEF Regroups
  <2>6. (SizeOf(x) \o (DataOf(x) \o u)) \o z = SizeOf(x) \o (DataOf(x) \o v)
    <3>1. Regroups(SizeOf(x), DataOf(x) \o u, z)
      BY <2>1, Regroup, Zenon
    <3> QED
      BY <2>5, <3>1, Zenon DEF Regroups
  <2>7. ArgLacks(a, x, come \o z, v)
    <3>1. CASE AtArgType(a, x, come, u) /\ Len(a.type) < 1
      <4>1. At(a.type, <<x.type>>, come \o z, (SizeOf(x) \o (DataOf(x) \o u)) \o z)
        BY <2>1, <3>1, AtMore, Zenon DEF AtArgType
      <4> QED
        BY <2>6, <3>1, <4>1, Zenon DEF AtArgType, ArgLacks
    <3>2. CASE AtArgSize(a, x, come, u) /\ Len(a.size) < Len(SizeOf(x))
      <4>1. At(a.size, SizeOf(x), come \o z, (DataOf(x) \o u) \o z)
        BY <2>1, <3>2, AtMore, Zenon DEF AtArgSize
      <4> QED
        BY <2>5, <3>2, <4>1, Zenon DEF AtArgSize, ArgLacks
    <3>3. CASE AtArgData(a, x, come, u) /\ Len(a.data) < Len(DataOf(x))
      <4>1. At(a.data, DataOf(x), come \o z, u \o z)
        BY <2>1, <3>3, AtMore, Zenon DEF AtArgData
      <4> QED
        BY <2>3, <3>3, <4>1, Zenon DEF AtArgData, ArgLacks
    <3> QED
      BY <2>4, <3>1, <3>2, <3>3, Zenon DEF ArgLacks
  <2> QED
    BY <1>10, <2>7, Zenon DEF InArg, x, a, v
<1> QED
  BY <1>7, <1>8, <1>9, <1>10, Zenon DEF Lacks

-----------------------------------------------------------------------------
(* The inductive invariant.  n commands of s were received; p is within    *)
(* the next one, and come, the bytes it has not seen, is the rest of it    *)
(* and the commands behind it.                                             *)

Within(s, n, p, come, busy) ==
  /\ n \in 0..Len(s)
  /\ n = Len(s) => p = Stream!NewParser /\ come = <<>> /\ ~busy
  /\ n < Len(s) => \/ Lacks(p, s[n + 1], come, Behind(Lines(s), n + 1))
                   \/ busy /\ HasAll(p, s[n + 1], come, Behind(Lines(s), n + 1))

StreamTypes ==
  /\ sent \in Seq(Commands) /\ wire \in Bytes /\ socket \in Bytes
  /\ parser \in Readers /\ Limits(parser)
  /\ reading \in BOOLEAN /\ refused \in BOOLEAN /\ torn \in BOOLEAN

StreamInv ==
  /\ StreamTypes
  /\ ~torn => /\ ~refused
              /\ Within(sent, Len(received), parser, socket \o wire, reading)
              /\ received = Take(sent, Len(received))

LEMMA NewIsTyped == Stream!NewParser \in Readers /\ Limits(Stream!NewParser)
<1>1. <<>> \in Bytes /\ <<>> \in Seq(ArgReaders)
  BY DEF Bytes
<1>2. Stream!NewParser \in Readers
  BY <1>1 DEF Stream!NewParser, Readers
<1>3. Limits(Stream!NewParser)
  BY StreamConstants DEF Stream!NewParser, Limits
<1> QED
  BY <1>2, <1>3

LEMMA NothingSent ==
  /\ Within(<<>>, Len(<<>>), Stream!NewParser, <<>> \o <<>>, FALSE)
  /\ <<>> = Take(<<>>, Len(<<>>)) /\ <<>> \in Seq(Commands) /\ <<>> \in Bytes
<1>1. Len(<<>>) = 0 /\ <<>> \o <<>> = <<>> /\ <<>> \in Seq(Commands) /\ <<>> \in Bytes /\ ~(0 < 0) /\ 0 \in 0..0
  BY ConcatEmptySeq DEF Bytes
<1>2. Take(<<>>, 0) = <<>>
  BY <1>1, TakeDropEnds, Zenon
<1> QED
  BY <1>1, <1>2, Zenon DEF Within

LEMMA StreamStart == ASSUME Stream!Init PROVE StreamInv
<1>1. /\ sent = <<>> /\ wire = <<>> /\ socket = <<>> /\ received = <<>> /\ parser = Stream!NewParser
      /\ reading = FALSE /\ refused = FALSE /\ torn = FALSE
  BY DEF Stream!Init
<1>2. StreamTypes
  BY <1>1, NewIsTyped, NothingSent DEF StreamTypes
<1> QED
  BY <1>1, <1>2, NothingSent, Zenon DEF StreamInv

LEMMA NextLine ==
  ASSUME NEW s \in Seq(Commands), NEW n \in 0..Len(s), n < Len(s)
  PROVE  /\ s[n + 1] \in Commands /\ n + 1 \in 1..Len(s) /\ Behind(Lines(s), n + 1) \in Bytes
         /\ Behind(Lines(s), n) = Stream!SendCommand(s[n + 1]) \o Behind(Lines(s), n + 1)
<1>1. Len(s) \in Nat
  BY LenProperties
<1>2. n + 1 \in 1..Len(s) /\ n + 1 \in 0..Len(s) /\ (n + 1) - 1 = n
  BY <1>1
<1>3. s[n + 1] \in Commands
  BY <1>2, ElementOfSeq
<1>4. Behind(Lines(s), (n + 1) - 1) = Stream!SendCommand(s[n + 1]) \o Behind(Lines(s), n + 1)
  BY <1>2, LinesAre, Zenon
<1>5. Behind(Lines(s), n + 1) \in Bytes
  BY <1>2, LinesAre, Zenon
<1> QED
  BY <1>2, <1>3, <1>4, <1>5, Zenon

(* A new parser is at the start of the commands that were not received. *)
LEMMA StartsAt ==
  ASSUME NEW s \in Seq(Commands), NEW n \in 0..Len(s), NEW busy, n = Len(s) => ~busy
  PROVE  Within(s, n, Stream!NewParser, Behind(Lines(s), n), busy)
<1>1. CASE n = Len(s)
  <2>1. ~(n < Len(s)) /\ Behind(Lines(s), n) = <<>>
    <3>1. Len(s) \in Nat
      BY LenProperties
    <3>2. ~(n < Len(s))
      BY <1>1, <3>1
    <3> QED
      BY <1>1, <3>2, LinesAre, Zenon
  <2> QED
    BY <1>1, <2>1, Zenon DEF Within
<1>2. CASE n < Len(s)
  <2>1. /\ s[n + 1] \in Commands /\ Behind(Lines(s), n + 1) \in Bytes
        /\ Behind(Lines(s), n) = Stream!SendCommand(s[n + 1]) \o Behind(Lines(s), n + 1)
    BY <1>2, NextLine, Zenon
  <2>2. Lacks(Stream!NewParser, s[n + 1], Behind(Lines(s), n), Behind(Lines(s), n + 1))
    BY <2>1, NewLacks, Zenon
  <2>3. n # Len(s)
    BY <1>2, LenProperties
  <2> QED
    BY <1>2, <2>2, <2>3, Zenon DEF Within
<1>3. n = Len(s) \/ n < Len(s)
  BY LenProperties
<1> QED
  BY <1>1, <1>2, <1>3, Zenon

LEMMA SendWithin ==
  ASSUME NEW s \in Seq(Commands), NEW c \in Commands, NEW n, NEW p \in Readers, NEW come, NEW busy,
         Within(s, n, p, come, busy)
  PROVE  Within(Append(s, c), n, p, come \o Stream!SendCommand(c), busy)
<1> DEFINE r == Append(s, c)
           z == Stream!SendCommand(c)
<1>1. /\ r \in Seq(Commands) /\ Len(r) = Len(s) + 1 /\ (\A i \in 1..Len(s) : r[i] = s[i])
      /\ r[Len(s) + 1] = c
      /\ \A i \in 0..Len(s) : Behind(Lines(r), i) = Behind(Lines(s), i) \o z
  BY LinesGrow, Zenon
<1>2. z \in Bytes
  <2>1. <<>> \in Bytes
    BY DEF Bytes
  <2> QED
    BY <2>1, CommandFields, Zenon
<1>3. /\ n \in 0..Len(s)
      /\ n = Len(s) => p = Stream!NewParser /\ come = <<>> /\ ~busy
      /\ n < Len(s) => \/ Lacks(p, s[n + 1], come, Behind(Lines(s), n + 1))
                       \/ busy /\ HasAll(p, s[n + 1], come, Behind(Lines(s), n + 1))
  BY Zenon DEF Within
<1> HIDE DEF r, z
<1>4. Len(s) \in Nat
  BY LenProperties
<1>5. n \in 0..Len(r) /\ n # Len(r) /\ n < Len(r) /\ (n = Len(s) \/ n < Len(s))
  BY <1>1, <1>3, <1>4
<1>6. CASE n = Len(s)
  <2>1. Behind(Lines(s), n) = <<>> /\ n \in 0..Len(s)
    BY <1>3, <1>6, LinesAre, Zenon
  <2>2. Behind(Lines(r), n) = <<>> \o z
    BY <1>1, <2>1, Zenon
  <2>3. come \o z = Behind(Lines(r), n)
    BY <1>3, <1>6, <2>2, Zenon
  <2>4. Within(r, n, Stream!NewParser, Behind(Lines(r), n), busy)
    BY <1>1, <1>5, StartsAt, Zenon
  <2> QED
    BY <1>3, <1>6, <2>3, <2>4, Zenon DEF r, z
<1>7. CASE n < Len(s)
  <2> DEFINE t == Behind(Lines(s), n + 1)
  <2>1. s[n + 1] \in Commands /\ n + 1 \in 1..Len(s) /\ t \in Bytes
    BY <1>3, <1>7, NextLine, Zenon
  <2>2. r[n + 1] = s[n + 1]
    BY <1>1, <2>1, Zenon
  <2>3. n + 1 \in 0..Len(s)
    BY <2>1, <1>4
  <2>4. Behind(Lines(r), n + 1) = t \o z
    BY <1>1, <2>3, Zenon
  <2> HIDE DEF t
  <2>5. CASE Lacks(p, s[n + 1], come, t)
    <3>1. Lacks(p, s[n + 1], come \o z, t \o z)
      BY <1>2, <2>1, <2>5, LacksMore, Zenon
    <3> QED
      BY <1>5, <2>2, <2>4, <3>1, Zenon DEF Within, r, z
  <2>6. CASE busy /\ HasAll(p, s[n + 1], come, t)
    <3>1. HasAll(p, s[n + 1], come \o z, t \o z)
      BY <2>6, Zenon DEF HasAll
    <3> QED
      BY <1>5, <2>2, <2>4, <2>6, <3>1, Zenon DEF Within, r, z
  <2> QED
    BY <1>3, <1>7, <2>5, <2>6, Zenon DEF t
<1> QED
  BY <1>5, <1>6, <1>7, Zenon

LEMMA SendKeeps ==
  ASSUME StreamInv, NEW c \in Commands, Stream!Send(c) PROVE StreamInv'
<1>1. /\ sent' = Append(sent, c) /\ wire' = wire \o Stream!SendCommand(c)
      /\ socket' = socket /\ parser' = parser /\ reading' = reading /\ received' = received
      /\ refused' = refused /\ torn' = torn
  BY DEF Stream!Send
<1>2. StreamTypes
  BY DEF StreamInv
<1>3. sent \in Seq(Commands) /\ wire \in Bytes /\ socket \in Bytes /\ parser \in Readers
  BY <1>2 DEF StreamTypes
<1>4. Stream!SendCommand(c) \in Bytes
  <2>1. <<>> \in Bytes
    BY DEF Bytes
  <2> QED
    BY <2>1, CommandFields, Zenon
<1>5. Append(sent, c) \in Seq(Commands) /\ wire \o Stream!SendCommand(c) \in Bytes
  BY <1>3, <1>4, AppendProperties, ConcatProperties DEF Bytes
<1>6. StreamTypes'
  BY <1>1, <1>2, <1>5, Zenon DEF StreamTypes
<1>7. ASSUME ~torn
      PROVE  /\ ~refused' /\ Within(sent', Len(received'), parser', socket' \o wire', reading')
             /\ received' = Take(sent', Len(received'))
  <2> DEFINE n == Len(received)
             z == Stream!SendCommand(c)
  <2>1. ~refused /\ Within(sent, n, parser, socket \o wire, reading) /\ received = Take(sent, n)
    BY <1>7, Zenon DEF StreamInv
  <2>2. Regroups(socket, wire, z)
    BY <1>3, <1>4, Regroup, Zenon
  <2>3. Within(Append(sent, c), n, parser, (socket \o wire) \o z, reading)
    BY <1>3, <2>1, SendWithin, Zenon
  <2>4. Within(sent', Len(received'), parser', socket' \o wire', reading')
    BY <1>1, <2>2, <2>3, Zenon DEF Regroups
  <2>5. n \in 0..Len(sent)
    BY <2>1, Zenon DEF Within
  <2>6. Take(Append(sent, c), n) = Take(sent, n)
    <3>1. Append(sent, c) = sent \o <<c>> /\ <<c>> \in Seq(Commands)
      BY <1>3
    <3> QED
      BY <1>3, <2>5, <3>1, TakeOfConcat, Zenon
  <2> QED
    BY <1>1, <2>1, <2>4, <2>6, Zenon
<1> QED
  BY <1>1, <1>6, <1>7, Zenon DEF StreamInv

LEMMA DeliverKeeps ==
  ASSUME StreamInv, NEW k \in 1..Len(wire), Stream!Deliver(k) PROVE StreamInv'
<1> DEFINE a == Take(wire, k)
           b == Drop(wire, k)
<1>1. /\ socket' = socket \o a /\ wire' = b /\ reading' = TRUE
      /\ sent' = sent /\ parser' = parser /\ received' = received /\ refused' = refused /\ torn' = torn
  BY DEF Stream!Deliver, Take, Drop
<1>2. StreamTypes
  BY DEF StreamInv
<1>3. sent \in Seq(Commands) /\ wire \in Bytes /\ socket \in Bytes /\ parser \in Readers
  BY <1>2 DEF StreamTypes
<1>4. Len(wire) \in Nat /\ k \in 0..Len(wire) /\ Len(wire) # 0
  BY <1>3, LenProperties DEF Bytes
<1>5. a \in Bytes /\ b \in Bytes /\ wire = a \o b
  BY <1>3, <1>4, TakeIs, DropIs, TakeThenDrop, Zenon DEF Bytes
<1> HIDE DEF a, b
<1>6. socket \o a \in Bytes
  BY <1>3, <1>5, ConcatProperties DEF Bytes
<1>7. StreamTypes'
  BY <1>1, <1>2, <1>5, <1>6 DEF StreamTypes
<1>8. socket' \o wire' = socket \o wire
  <2>1. Regroups(socket, a, b)
    BY <1>3, <1>5, Regroup, Zenon
  <2> QED
    BY <1>1, <1>5, <2>1, Zenon DEF Regroups
<1>9. ASSUME ~torn
      PROVE  Within(sent, Len(received), parser, socket \o wire, TRUE)
  <2> DEFINE n == Len(received)
  <2>1. Within(sent, n, parser, socket \o wire, reading)
    BY <1>9, Zenon DEF StreamInv
  <2>2. socket \o wire # <<>>
    <3>1. Len(socket \o wire) = Len(socket) + Len(wire) /\ Len(socket) \in Nat
      BY <1>3, ConcatProperties, LenProperties DEF Bytes
    <3>2. Len(socket \o wire) # 0
      BY <1>4, <3>1
    <3> QED
      BY <3>2
  <2>3. n # Len(sent)
    BY <2>1, <2>2, Zenon DEF Within
  <2> QED
    BY <2>1, <2>3, Zenon DEF Within
<1> QED
  BY <1>1, <1>7, <1>8, <1>9, Zenon DEF StreamInv

LEMMA ReadStepKeeps ==
  ASSUME StreamInv, Stream!Read PROVE StreamInv'
<1>1. StreamTypes
  BY DEF StreamInv
<1>2. sent \in Seq(Commands) /\ wire \in Bytes /\ socket \in Bytes /\ parser \in Readers /\ Limits(parser)
  BY <1>1 DEF StreamTypes
<1> DEFINE w == Stream!Wants(parser)
           m == w.total - Len(Stream!Progress(parser, w))
           k == IF m < Len(socket) THEN m ELSE Len(socket)
           q == Stream!Fill(parser, w, SubSeq(socket, 1, k))
<1>3. /\ reading /\ w.field \notin {"done", "throw"}
      /\ parser' = q /\ socket' = Drop(socket, k) /\ reading' = (k = m)
      /\ sent' = sent /\ wire' = wire /\ received' = received /\ refused' = refused /\ torn' = torn
  BY Zenon DEF Stream!Read, Drop
<1>4. ReadStep(parser, socket, w, m, k, q)
  BY <1>3, Zenon DEF ReadStep
<1> HIDE DEF w, m, k, q
<1>5. q \in Readers /\ Limits(q) /\ Drop(socket, k) \in Bytes
  BY <1>2, <1>4, ReadTyped, Zenon
<1>6. StreamTypes'
  <2>1. (k = m) \in BOOLEAN
    OBVIOUS
  <2> QED
    BY <1>1, <1>3, <1>5, <2>1, Zenon DEF StreamTypes
<1>7. ASSUME ~torn PROVE Within(sent, Len(received), q, Drop(socket, k) \o wire, k = m)
  <2> DEFINE n == Len(received)
             c == sent[n + 1]
             t == Behind(Lines(sent), n + 1)
  <2>1. Within(sent, n, parser, socket \o wire, reading)
    BY <1>7, Zenon DEF StreamInv
  <2>2. n \in 0..Len(sent) /\ n # Len(sent)
    BY <1>3, <2>1, Zenon DEF Within
  <2>3. n < Len(sent)
    BY <1>2, <2>2, LenProperties
  <2>4. c \in Commands /\ t \in Bytes
    BY <1>2, <2>2, <2>3, NextLine, Zenon
  <2>5. Lacks(parser, c, socket \o wire, t)
    <3>1. ASSUME HasAll(parser, c, socket \o wire, t) PROVE FALSE
      <4>1. w.field = "done"
        BY <1>2, <2>4, <3>1, HasAllWants, Zenon DEF w
      <4> QED
        BY <1>3, <4>1, Zenon
    <3> QED
      BY <2>1, <2>3, <3>1, Zenon DEF Within
  <2> HIDE DEF n, c, t
  <2>6. /\ Lacks(q, c, Drop(socket, k) \o wire, t) \/ HasAll(q, c, Drop(socket, k) \o wire, t)
        /\ k # m => Lacks(q, c, Drop(socket, k) \o wire, t)
    BY <1>2, <1>4, <2>4, <2>5, ReadKeeps, Zenon
  <2> QED
    BY <2>2, <2>3, <2>6, Zenon DEF Within, c, t, n
<1> QED
  BY <1>3, <1>6, <1>7, Zenon DEF StreamInv

LEMMA DispatchKeeps ==
  ASSUME StreamInv, Stream!Dispatch PROVE StreamInv'
<1>1. StreamTypes
  BY DEF StreamInv
<1>2. sent \in Seq(Commands) /\ wire \in Bytes /\ socket \in Bytes /\ parser \in Readers
  BY <1>1 DEF StreamTypes
<1>3. /\ reading /\ Stream!Wants(parser).field = "done"
      /\ received' = Append(received, Stream!CommandAndArgs(parser))
      /\ parser' = Stream!NewParser /\ reading' = (socket # <<>>)
      /\ sent' = sent /\ wire' = wire /\ socket' = socket /\ refused' = refused /\ torn' = torn
  BY Zenon DEF Stream!Dispatch, Stream!Reset
<1>4. StreamTypes'
  <2>1. (socket # <<>>) \in BOOLEAN
    OBVIOUS
  <2> QED
    BY <1>1, <1>3, <2>1, NewIsTyped, Zenon DEF StreamTypes
<1>5. ASSUME ~torn
      PROVE  /\ Within(sent, Len(received'), Stream!NewParser, socket \o wire, socket # <<>>)
             /\ received' = Take(sent, Len(received'))
  <2> DEFINE n == Len(received)
             c == sent[n + 1]
             t == Behind(Lines(sent), n + 1)
  <2>1. Within(sent, n, parser, socket \o wire, reading) /\ received = Take(sent, n)
    BY <1>5, Zenon DEF StreamInv
  <2>2. n \in 0..Len(sent) /\ n # Len(sent)
    BY <1>3, <2>1, Zenon DEF Within
  <2>3. n < Len(sent) /\ Len(sent) \in Nat
    BY <1>2, <2>2, LenProperties
  <2>4. c \in Commands /\ t \in Bytes /\ n + 1 \in 1..Len(sent)
    BY <1>2, <2>2, <2>3, NextLine, Zenon
  <2>5. HasAll(parser, c, socket \o wire, t)
    <3>1. ASSUME Lacks(parser, c, socket \o wire, t) PROVE FALSE
      BY <1>2, <1>3, <2>4, <3>1, LacksWaits, Zenon
    <3> QED
      BY <2>1, <2>3, <3>1, Zenon DEF Within
  <2>6. Stream!CommandAndArgs(parser) = c /\ socket \o wire = t
    BY <1>2, <2>4, <2>5, HasAllGives, Zenon
  <2>7. Take(sent, n) \in Seq(Commands) /\ Len(Take(sent, n)) = n
    BY <1>2, <2>2, TakeIs, Zenon
  <2>8. received' = Append(Take(sent, n), c)
    BY <1>3, <2>1, <2>6, Zenon
  <2> DEFINE l == n + 1
             r == Append(Take(sent, n), c)
  <2>9. /\ r \in Seq(Commands) /\ Len(r) = l
        /\ (\A i \in 1..n : r[i] = Take(sent, n)[i]) /\ r[l] = c
    <3> DEFINE e == Take(sent, n)
    <3>1. e \in Seq(Commands) /\ Len(e) = n
      BY <2>7, Zenon
    <3>2. /\ Append(e, c) \in Seq(Commands) /\ Len(Append(e, c)) = Len(e) + 1
          /\ (\A i \in 1..Len(e) : Append(e, c)[i] = e[i]) /\ Append(e, c)[Len(e) + 1] = c
      <4> HIDE DEF e, c
      <4> QED
        BY <2>4, <3>1, AppendProperties
    <3> QED
      BY <3>1, <3>2, Zenon
  <2>10. r = Take(sent, l)
    <3>1. l \in 0..Len(sent) /\ n \in 0..Len(sent)
      BY <2>2, <2>4, <2>3
    <3>2. /\ Take(sent, l) \in Seq(Commands) /\ Len(Take(sent, l)) = l
          /\ \A i \in 1..l : Take(sent, l)[i] = sent[i]
      BY <1>2, <3>1, TakeIs, Zenon
    <3>3. \A i \in 1..n : Take(sent, n)[i] = sent[i]
      BY <1>2, <3>1, TakeIs, Zenon
    <3>4. \A i \in 1..l : i \in 1..n \/ i = l
      BY <2>2
    <3> HIDE DEF r
    <3>5. \A i \in 1..l : r[i] = Take(sent, l)[i]
      BY <2>9, <3>2, <3>3, <3>4, Zenon
    <3> QED
      BY <2>9, <3>2, <3>5, SeqEqual, Zenon
  <2>11. received' = r /\ Len(received') = l /\ l \in 0..Len(sent)
    BY <2>3, <2>4, <2>8, <2>9
  <2>12. l = Len(sent) => ~(socket # <<>>)
    <3> SUFFICES ASSUME l = Len(sent) PROVE socket = <<>>
      OBVIOUS
    <3>1. t = <<>>
      BY <1>2, LinesAre, Zenon
    <3>2. Len(socket \o wire) = Len(socket) + Len(wire) /\ Len(socket) \in Nat /\ Len(wire) \in Nat
      BY <1>2, ConcatProperties, LenProperties DEF Bytes
    <3>3. Len(socket \o wire) = 0
      BY <2>6, <3>1
    <3>4. Len(socket) = 0
      BY <3>2, <3>3
    <3> QED
      BY <1>2, <3>4, EmptySeq DEF Bytes
  <2> HIDE DEF r
  <2>13. Within(sent, l, Stream!NewParser, Behind(Lines(sent), l), socket # <<>>)
    BY <1>2, <2>11, <2>12, StartsAt, Zenon
  <2> QED
    BY <2>6, <2>10, <2>11, <2>13, Zenon
<1> QED
  BY <1>3, <1>4, <1>5, Zenon DEF StreamInv

LEMMA ThrowKeeps ==
  ASSUME StreamInv, Stream!Throw PROVE StreamInv'
<1>1. StreamTypes
  BY DEF StreamInv
<1>2. sent \in Seq(Commands) /\ parser \in Readers
  BY <1>1 DEF StreamTypes
<1>3. /\ reading /\ Stream!Wants(parser).field = "throw" /\ reading' = FALSE /\ refused' = TRUE
      /\ sent' = sent /\ wire' = wire /\ socket' = socket /\ parser' = parser /\ torn' = torn
  BY DEF Stream!Throw
<1>4. StreamTypes'
  BY <1>1, <1>3 DEF StreamTypes
<1>5. ASSUME ~torn PROVE FALSE
  <2> DEFINE n == Len(received)
             c == sent[n + 1]
             t == Behind(Lines(sent), n + 1)
  <2>1. Within(sent, n, parser, socket \o wire, reading)
    BY <1>5, Zenon DEF StreamInv
  <2>2. n \in 0..Len(sent) /\ n # Len(sent)
    BY <1>3, <2>1, Zenon DEF Within
  <2>3. n < Len(sent)
    BY <1>2, <2>2, LenProperties
  <2>4. c \in Commands /\ t \in Bytes
    BY <1>2, <2>2, <2>3, NextLine, Zenon
  <2>5. Lacks(parser, c, socket \o wire, t) \/ HasAll(parser, c, socket \o wire, t)
    BY <2>1, <2>3, Zenon DEF Within
  <2>6. "done" # "throw"
    OBVIOUS
  <2> QED
    BY <1>2, <1>3, <2>4, <2>5, <2>6, LacksWaits, HasAllWants, Zenon
<1> QED
  BY <1>3, <1>4, <1>5, Zenon DEF StreamInv

LEMMA BreakKeeps ==
  ASSUME StreamInv, Stream!Break PROVE StreamInv'
<1>1. StreamTypes
  BY DEF StreamInv
<1>2. /\ ~reading /\ sent' = <<>> /\ wire' = <<>> /\ socket' = <<>> /\ received' = <<>>
      /\ parser' = parser \/ parser' = Stream!NewParser
      /\ torn' = (torn \/ parser' # Stream!NewParser)
      /\ reading' = reading /\ refused' = refused
  BY DEF Stream!Break
<1>3. parser \in Readers /\ Limits(parser) /\ reading \in BOOLEAN /\ refused \in BOOLEAN /\ torn \in BOOLEAN
  BY <1>1 DEF StreamTypes
<1>4. parser' \in Readers /\ Limits(parser')
  BY <1>2, <1>3, NewIsTyped, Zenon
<1>5. StreamTypes'
  <2>1. sent' \in Seq(Commands) /\ wire' \in Bytes /\ socket' \in Bytes
    BY <1>2, NothingSent, Zenon
  <2>2. reading' \in BOOLEAN /\ refused' \in BOOLEAN /\ torn' \in BOOLEAN
    BY <1>2, <1>3
  <2> QED
    BY <1>4, <2>1, <2>2, Zenon DEF StreamTypes
<1>6. ASSUME ~torn'
      PROVE  ~refused' /\ Within(sent', Len(received'), parser', socket' \o wire', reading')
             /\ received' = Take(sent', Len(received'))
  <2>1. ~torn /\ parser' = Stream!NewParser
    BY <1>2, <1>6, Zenon
  <2>2. ~refused
    BY <2>1, Zenon DEF StreamInv
  <2>3. reading' = FALSE
    BY <1>2, <1>3, Zenon
  <2> QED
    BY <1>2, <2>1, <2>2, <2>3, NothingSent, Zenon
<1> QED
  BY <1>5, <1>6, Zenon DEF StreamInv

LEMMA StreamKept ==
  ASSUME StreamInv, Stream!Next \/ UNCHANGED parseVars PROVE StreamInv'
<1>1. CASE UNCHANGED parseVars
  BY <1>1 DEF parseVars, StreamInv, StreamTypes
<1> QED
  BY <1>1, SendKeeps, DeliverKeeps, ReadStepKeeps, DispatchKeeps, ThrowKeeps, BreakKeeps, Zenon
  DEF Stream!Next

LEMMA StreamSays == ASSUME StreamInv PROVE CommandsArrive
<1>1. StreamTypes
  BY DEF StreamInv
<1>2. sent \in Seq(Commands) /\ wire \in Bytes /\ socket \in Bytes /\ parser \in Readers
  BY <1>1 DEF StreamTypes
<1>3. Stream!TypeOK
  BY <1>1 DEF StreamTypes, Limits, Bytes, Stream!TypeOK
<1>4. ASSUME ~torn
      PROVE  /\ Stream!IsPrefix(received, sent) /\ ~refused
             /\ wire = <<>> /\ socket = <<>> /\ ~reading => received = sent
  <2> DEFINE n == Len(received)
  <2>1. /\ ~refused /\ Within(sent, n, parser, socket \o wire, reading) /\ received = Take(sent, n)
    BY <1>4, Zenon DEF StreamInv
  <2>2. n \in 0..Len(sent)
    BY <2>1, Zenon DEF Within
  <2>3. received \in Seq(Commands)
    BY <1>2, <2>1, <2>2, TakeIs, Zenon
  <2>4. Take(received, n) = received /\ Take(sent, Len(sent)) = sent
    BY <1>2, <2>3, TakeDropEnds, Zenon
  <2>5. n <= Len(sent) /\ (n = Len(sent) \/ n < Len(sent))
    BY <1>2, <2>2, LenProperties
  <2>6. Stream!IsPrefix(received, sent)
    BY <2>1, <2>4, <2>5, Zenon DEF Stream!IsPrefix, Take
  <2>7. ASSUME wire = <<>>, socket = <<>>, ~reading PROVE received = sent
    <3>1. socket \o wire = <<>>
      BY <2>7, NothingSent, ConcatEmptySeq DEF Bytes
    <3>2. ASSUME n < Len(sent) PROVE FALSE
      <4>1. sent[n + 1] \in Commands /\ Behind(Lines(sent), n + 1) \in Bytes
        BY <1>2, <2>2, <3>2, NextLine, Zenon
      <4>2. Lacks(parser, sent[n + 1], socket \o wire, Behind(Lines(sent), n + 1))
        BY <2>1, <2>7, <3>2, Zenon DEF Within
      <4> QED
        BY <3>1, <4>1, <4>2, LacksComes, Zenon
    <3> QED
      BY <2>1, <2>4, <2>5, <3>2, Zenon
  <2> QED
    BY <2>1, <2>6, <2>7, Zenon
<1> QED
  BY <1>3, <1>4, Zenon DEF CommandsArrive, Stream!CommandsArrive

(* However TCP cuts the stream, GetCommand returns the commands GpgNetSend *)
(* wrote, each with its arguments and in their order, refuses none of them *)
(* and keeps none back (GpgNetParse::GetCommand, RecordReader::get against *)
(* GpgNetSend), for integers of any width, commands of any length within   *)
(* the parser's limits and any number of them, while the parser starts a   *)
(* connection afresh.                                                      *)
THEOREM CommandsAlwaysArrive == Spec => []CommandsArrive
<1>1. Init => StreamInv
  BY StreamStart DEF Init
<1>2. StreamInv /\ [Next]_vars => StreamInv'
  <2> SUFFICES ASSUME StreamInv, [Next]_vars PROVE StreamInv'
    OBVIOUS
  <2>1. Stream!Next \/ UNCHANGED parseVars
    BY DEF Next, LaunchNext, EventsNext, StreamNext, LinkNext, ResendNext, DoorNext, vars
  <2> QED
    BY <2>1, StreamKept
<1>3. StreamInv => CommandsArrive
  BY StreamSays
<1> QED
  BY <1>1, <1>2, <1>3, PTL DEF Spec

=============================================================================
