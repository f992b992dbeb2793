--------------------------- MODULE NetworkProofs ---------------------------
(***************************************************************************)
(* The window of duplicates (DuplicateDetection) for any checksums, any    *)
(* number of buckets and any length of the queue; the game traffic         *)
(* (GameTraffic) and the tables of a game node with its door               *)
(* (TafnetGameNode) for any set of players, ports and addresses and any    *)
(* number of events.                                                       *)
(***************************************************************************)
EXTENDS MCNetwork, NatLemmas, FiniteSetTheorems, SequenceTheorems, TLAPS

-----------------------------------------------------------------------------
(* DuplicateDetection *)

Queue == seenPacketCRCExpiryQueue

(* The queue is the end of the history, as long as the limit allows. *)
QueueIsWindow ==
  /\ Len(Queue) <= Len(passed)
  /\ Len(Queue) < Len(passed) => Len(Queue) = EXPIRY_QUEUE_LENGTH
  /\ \A i \in 1..Len(Queue) : Queue[i] = passed[Len(passed) - Len(Queue) + i]

(* No checksum is twice in the queue. *)
QueueIsInjective ==
  \A i, j \in 1..Len(Queue) : Queue[i] = Queue[j] => i = j

(* The sets hold exactly what is in the queue, each checksum in its bucket. *)
SetsHoldQueue ==
  \A h \in 0..(Buckets - 1) : \A c \in Nat :
    c \in seenPacketCRCs[h] <=> (Hash(c) = h /\ \E i \in 1..Len(Queue) : Queue[i] = c)

(* What is inductive. *)
IInv ==
  /\ TypeOK
  /\ QueueIsWindow
  /\ QueueIsInjective
  /\ SetsHoldQueue
  /\ RepeatsAreFarApart

(* A bucket exists for every checksum. *)
LEMMA HashInRange == \A c \in Nat : Hash(c) \in 0..(Buckets - 1)
  BY ConstantsAssumption, Z3 DEF Hash

(* The constructed object satisfies IInv. *)
LEMMA InitEstablishes == Init => IInv
  BY ConstantsAssumption
  DEF Init, IInv, TypeOK, QueueIsWindow, QueueIsInjective, SetsHoldQueue,
      RepeatsAreFarApart, Queue

(* A checksum that passes keeps repeats far apart when its last occurrence *)
(* is far enough.                                                          *)
LEMMA RepeatsStep ==
  ASSUME RepeatsAreFarApart, NEW crc, NEW n \in Nat, EXPIRY_QUEUE_LENGTH \in Nat,
         Len(passed) = n, Len(passed') = n + 1,
         \A i \in 1..n : passed'[i] = passed[i],
         passed'[n + 1] = crc,
         \A i \in 1..n : passed[i] = crc => i + EXPIRY_QUEUE_LENGTH < n + 1
  PROVE  RepeatsAreFarApart'
  <1> SUFFICES ASSUME NEW i \in 1..(n + 1), NEW j \in 1..(n + 1), i < j, passed'[i] = passed'[j]
               PROVE  i + EXPIRY_QUEUE_LENGTH < j
    BY DEF RepeatsAreFarApart
  <1>1. i \in 1..n /\ passed'[i] = passed[i]
    OBVIOUS
  <1>2. CASE j = n + 1
    BY <1>1, <1>2
  <1>3. CASE j # n + 1
    <2>1. j \in 1..n /\ passed'[j] = passed[j]
      BY <1>3
    <2> QED BY <1>1, <2>1 DEF RepeatsAreFarApart
  <1> QED BY <1>2, <1>3

(* What the queue and the sets are after a packet that passes: with room   *)
(* the checksum is added, at the limit the front makes place for it.       *)
LEMMA Grow ==
  ASSUME IInv, NEW crc \in Nat, ~Found(crc), Len(Queue) < EXPIRY_QUEUE_LENGTH,
         seenPacketCRCs' = Inserted(seenPacketCRCs, crc),
         Queue' = Append(Queue, crc),
         passed' = Append(passed, crc)
  PROVE  IInv'
  <1>1. /\ Queue \in Seq(Nat) /\ passed \in Seq(Nat)
        /\ Len(Queue) \in Nat /\ Len(passed) \in Nat
        /\ EXPIRY_QUEUE_LENGTH \in Nat
    BY ConstantsAssumption DEF IInv, TypeOK, Queue
  <1>2. /\ Queue' \in Seq(Nat) /\ passed' \in Seq(Nat)
        /\ Len(Queue') = Len(Queue) + 1 /\ Len(passed') = Len(passed) + 1
        /\ \A i \in 1..Len(Queue) : Queue'[i] = Queue[i]
        /\ Queue'[Len(Queue) + 1] = crc
        /\ \A i \in 1..Len(passed) : passed'[i] = passed[i]
        /\ passed'[Len(passed) + 1] = crc
    BY <1>1
  <1>3. Len(Queue) = Len(passed)
    BY <1>1 DEF IInv, QueueIsWindow
  <1>4. Hash(crc) \in 0..(Buckets - 1)
    BY HashInRange
  <1>5. \A i \in 1..Len(Queue) : Queue[i] # crc
    BY <1>4 DEF IInv, SetsHoldQueue, Found
  <1>6. TypeOK'
    <2>1. seenPacketCRCs' \in [0..(Buckets - 1) -> SUBSET Nat]
      BY <1>4 DEF IInv, TypeOK, Inserted
    <2> QED BY <1>1, <1>2, <2>1 DEF TypeOK, Queue
  <1>7. QueueIsWindow'
    BY <1>1, <1>2, <1>3 DEF IInv, QueueIsWindow
  <1>8. QueueIsInjective'
    BY <1>1, <1>2, <1>5 DEF IInv, QueueIsInjective
  <1>9. SetsHoldQueue'
    <2> SUFFICES ASSUME NEW h \in 0..(Buckets - 1), NEW c \in Nat
                 PROVE  c \in seenPacketCRCs'[h] <=>
                          (Hash(c) = h /\ \E i \in 1..Len(Queue') : Queue'[i] = c)
      BY DEF SetsHoldQueue
    <2>1. c \in seenPacketCRCs'[h] <=> c \in seenPacketCRCs[h] \/ (c = crc /\ h = Hash(crc))
      BY <1>4 DEF IInv, TypeOK, Inserted
    <2>2. (\E i \in 1..Len(Queue') : Queue'[i] = c)
            <=> (\E i \in 1..Len(Queue) : Queue[i] = c) \/ c = crc
      BY <1>1, <1>2
    <2> QED BY <2>1, <2>2 DEF IInv, SetsHoldQueue
  <1>10. RepeatsAreFarApart'
    <2>1. \A i \in 1..Len(passed) : passed[i] # crc
      <3>1. \A i \in 1..Len(Queue) : Queue[i] = passed[Len(passed) - Len(Queue) + i]
        BY DEF IInv, QueueIsWindow
      <3>2. \A i \in 1..Len(passed) : i \in 1..Len(Queue) /\ Len(passed) - Len(Queue) + i = i
        BY <1>1, <1>3
      <3> QED BY <1>5, <3>1, <3>2
    <2> QED BY <1>1, <1>2, <2>1, RepeatsStep DEF IInv
  <1> QED BY <1>6, <1>7, <1>8, <1>9, <1>10 DEF IInv

IsEnd(q, h) ==
  /\ Len(q) \in Nat \ {0} /\ Len(h) \in Nat /\ Len(q) <= Len(h)
  /\ \A k \in 1..Len(q) : q[k] = h[Len(h) - Len(q) + k]

Slid(q, qq, h, hh, crc) ==
  /\ Len(qq) = Len(q) /\ Len(hh) = Len(h) + 1
  /\ \A k \in 1..(Len(q) - 1) : qq[k] = q[k + 1]
  /\ qq[Len(q)] = crc
  /\ \A k \in 1..Len(h) : hh[k] = h[k]
  /\ hh[Len(h) + 1] = crc

(* A queue that is the end of a history still is when both have taken in   *)
(* one more element and the queue has lost its front.                      *)
LEMMA WindowSlides ==
  ASSUME NEW q, NEW qq, NEW h, NEW hh, NEW crc, IsEnd(q, h), Slid(q, qq, h, hh, crc)
  PROVE  IsEnd(qq, hh)
  <1> USE DEF IsEnd, Slid
  <1>0. /\ Len(qq) \in Nat \ {0} /\ Len(hh) \in Nat /\ Len(qq) <= Len(hh)
        /\ Len(qq) = Len(q) /\ Len(hh) = Len(h) + 1
    OBVIOUS
  <1> SUFFICES ASSUME NEW i \in 1..Len(q)
               PROVE  qq[i] = hh[Len(h) + 1 - Len(q) + i]
    BY <1>0
  <1>1. CASE i = Len(q)
    <2>1. Len(h) + 1 - Len(q) + i = Len(h) + 1
      BY <1>1
    <2> QED BY <1>1, <2>1
  <1>2. CASE i # Len(q)
    <2> DEFINE k == Len(h) + 1 - Len(q) + i
    <2>1. /\ i \in 1..(Len(q) - 1) /\ i + 1 \in 1..Len(q)
          /\ Len(h) - Len(q) + (i + 1) = k
          /\ k \in 1..Len(h)
      BY <1>2
    <2> HIDE DEF k
    <2>2. qq[i] = h[k]
      BY <2>1
    <2>3. hh[k] = h[k]
      BY <2>1
    <2> QED BY <2>2, <2>3 DEF k
  <1> QED BY <1>1, <1>2

(* The same at the limit, where the front of the queue expires.            *)
LEMMA Slide ==
  ASSUME IInv, NEW crc \in Nat, ~Found(crc), Len(Queue) = EXPIRY_QUEUE_LENGTH,
         seenPacketCRCs' = Erased(Inserted(seenPacketCRCs, crc), Head(Append(Queue, crc))),
         Queue' = Tail(Append(Queue, crc)),
         passed' = Append(passed, crc)
  PROVE  IInv'
  <1> DEFINE front == Queue[1]
  <1>1. /\ Queue \in Seq(Nat) /\ passed \in Seq(Nat)
        /\ Len(Queue) \in Nat \ {0} /\ Len(passed) \in Nat
        /\ EXPIRY_QUEUE_LENGTH \in Nat \ {0}
    BY ConstantsAssumption DEF IInv, TypeOK, Queue
  <1>2. Append(Queue, crc) \in Seq(Nat) /\ Len(Append(Queue, crc)) = Len(Queue) + 1
    BY <1>1
  <1>3. Head(Append(Queue, crc)) = front /\ front \in Nat
    BY <1>1, <1>2
  <1>4. /\ Queue' \in Seq(Nat) /\ passed' \in Seq(Nat)
        /\ Len(Queue') = Len(Queue) /\ Len(passed') = Len(passed) + 1
        /\ \A i \in 1..(Len(Queue) - 1) : Queue'[i] = Queue[i + 1]
        /\ Queue'[Len(Queue)] = crc
        /\ \A i \in 1..Len(passed) : passed'[i] = passed[i]
        /\ passed'[Len(passed) + 1] = crc
    <2>1. Queue' \in Seq(Nat) /\ Len(Queue') = Len(Queue)
      BY <1>1, <1>2
    <2>2. ASSUME NEW i \in 1..Len(Queue)
          PROVE  Queue'[i] = Append(Queue, crc)[i + 1]
      <3> DEFINE q == Append(Queue, crc)
      <3> HIDE DEF q
      <3>1. Len(q) = Len(Queue) + 1 /\ q \in Seq(Nat) /\ Queue' = Tail(q)
        BY <1>2 DEF q
      <3>2. \A k \in 1..(Len(q) - 1) : Tail(q)[k] = q[k + 1]
        BY <3>1
      <3> QED BY <1>1, <3>1, <3>2 DEF q
    <2>3. \A i \in 1..(Len(Queue) - 1) : Queue'[i] = Queue[i + 1]
      <3> SUFFICES ASSUME NEW i \in 1..(Len(Queue) - 1) PROVE Queue'[i] = Queue[i + 1]
        OBVIOUS
      <3>1. i \in 1..Len(Queue) /\ i + 1 \in 1..Len(Queue)
        BY <1>1
      <3>2. \A k \in 1..Len(Queue) : Append(Queue, crc)[k] = Queue[k]
        BY <1>1
      <3> QED BY <2>2, <3>1, <3>2
    <2>4. Queue'[Len(Queue)] = crc
      BY <1>1, <2>2
    <2>5. /\ passed' \in Seq(Nat) /\ Len(passed') = Len(passed) + 1
          /\ \A i \in 1..Len(passed) : passed'[i] = passed[i]
          /\ passed'[Len(passed) + 1] = crc
      BY <1>1
    <2> QED BY <2>1, <2>3, <2>4, <2>5
  <1>5. Hash(crc) \in 0..(Buckets - 1) /\ Hash(front) \in 0..(Buckets - 1)
    BY <1>3, HashInRange
  <1>6. \A i \in 1..Len(Queue) : Queue[i] # crc
    BY <1>5 DEF IInv, SetsHoldQueue, Found
  <1>7. front # crc /\ \A i \in 1..Len(Queue) : Queue[i] = front => i = 1
    BY <1>1, <1>6 DEF IInv, QueueIsInjective
  <1>8. TypeOK'
    <2>1. seenPacketCRCs' \in [0..(Buckets - 1) -> SUBSET Nat]
      BY <1>5 DEF IInv, TypeOK, Inserted, Erased
    <2> QED BY <1>1, <1>4, <2>1 DEF IInv, TypeOK, Queue
  <1> HIDE DEF front
  <1>9. QueueIsWindow'
    <2>1. Len(Queue') <= Len(passed') /\ Len(Queue') = EXPIRY_QUEUE_LENGTH
      <3>1. Len(Queue) <= Len(passed)
        BY DEF IInv, QueueIsWindow
      <3>2. Len(Queue') = Len(Queue) /\ Len(passed') = Len(passed) + 1
        BY <1>4
      <3> QED BY <1>1, <3>1, <3>2
    <2>2. \A i \in 1..Len(Queue') : Queue'[i] = passed'[Len(passed') - Len(Queue') + i]
      <3>1. IsEnd(Queue, passed)
        BY <1>1 DEF IInv, QueueIsWindow, IsEnd
      <3>2. Slid(Queue, Queue', passed, passed', crc)
        BY <1>4 DEF Slid
      <3>3. IsEnd(Queue', passed')
        BY <3>1, <3>2, WindowSlides
      <3> QED BY <3>3 DEF IsEnd
    <2> QED BY <2>1, <2>2 DEF QueueIsWindow
  <1>10. QueueIsInjective'
    <2> SUFFICES ASSUME NEW i \in 1..Len(Queue), NEW j \in 1..Len(Queue), Queue'[i] = Queue'[j]
                 PROVE  i = j
      BY <1>4 DEF QueueIsInjective
    <2>1. \A k \in 1..Len(Queue) : k # Len(Queue) =>
            k \in 1..(Len(Queue) - 1) /\ k + 1 \in 1..Len(Queue) /\ k \in Nat
      BY <1>1
    <2>2. \A k \in 1..Len(Queue) : k # Len(Queue) => Queue'[k] = Queue[k + 1] /\ Queue'[k] # crc
      BY <1>4, <1>6, <2>1
    <2>3. CASE i = Len(Queue) \/ j = Len(Queue)
      BY <1>4, <2>2, <2>3
    <2>4. CASE i # Len(Queue) /\ j # Len(Queue)
      <3>1. Queue[i + 1] = Queue[j + 1]
        BY <2>2, <2>4
      <3>2. i + 1 = j + 1
        BY <2>1, <2>4, <3>1 DEF IInv, QueueIsInjective
      <3> QED BY <3>2
    <2> QED BY <2>3, <2>4
  <1>11. SetsHoldQueue'
    <2> SUFFICES ASSUME NEW h \in 0..(Buckets - 1), NEW c \in Nat
                 PROVE  c \in seenPacketCRCs'[h] <=>
                          (Hash(c) = h /\ \E i \in 1..Len(Queue') : Queue'[i] = c)
      BY DEF SetsHoldQueue
    <2>1. c \in seenPacketCRCs'[h] <=>
            /\ c \in seenPacketCRCs[h] \/ (c = crc /\ h = Hash(crc))
            /\ ~(c = front /\ h = Hash(front))
      BY <1>3, <1>5 DEF IInv, TypeOK, Inserted, Erased
    <2>2. (\E i \in 1..Len(Queue') : Queue'[i] = c)
            <=> c # front /\ ((\E i \in 1..Len(Queue) : Queue[i] = c) \/ c = crc)
      <3>1. ASSUME NEW i \in 1..Len(Queue'), Queue'[i] = c
            PROVE  c # front /\ ((\E k \in 1..Len(Queue) : Queue[k] = c) \/ c = crc)
        <4>1. CASE i = Len(Queue)
          BY <1>4, <1>7, <3>1, <4>1
        <4>2. CASE i # Len(Queue)
          <5>1. i \in 1..(Len(Queue) - 1) /\ i + 1 \in 1..Len(Queue) /\ i + 1 # 1
            BY <1>1, <1>4, <4>2
          <5>2. Queue[i + 1] = c
            BY <1>4, <3>1, <5>1
          <5> QED BY <1>7, <5>1, <5>2
        <4> QED BY <4>1, <4>2
      <3>2. ASSUME c # front, NEW k \in 1..Len(Queue), Queue[k] = c
            PROVE  \E i \in 1..Len(Queue') : Queue'[i] = c
        <4>1. k # 1
          BY <3>2 DEF front
        <4>2. k - 1 \in 1..(Len(Queue) - 1) /\ k - 1 \in 1..Len(Queue') /\ (k - 1) + 1 = k
          BY <1>1, <1>4, <4>1
        <4> QED BY <1>4, <3>2, <4>2
      <3>3. c = crc => \E i \in 1..Len(Queue') : Queue'[i] = c
        BY <1>1, <1>4
      <3> QED BY <3>1, <3>2, <3>3
    <2> QED BY <2>1, <2>2 DEF IInv, SetsHoldQueue
  <1>12. RepeatsAreFarApart'
    <2>1. \A i \in 1..Len(passed) : passed[i] = crc => i + EXPIRY_QUEUE_LENGTH < Len(passed) + 1
      <3> SUFFICES ASSUME NEW i \in 1..Len(passed), passed[i] = crc,
                          ~(i + EXPIRY_QUEUE_LENGTH < Len(passed) + 1)
                   PROVE  FALSE
        OBVIOUS
      <3> DEFINE k == i - (Len(passed) - Len(Queue))
      <3>1. k \in 1..Len(Queue) /\ Len(passed) - Len(Queue) + k = i
        BY <1>1 DEF IInv, QueueIsWindow
      <3> HIDE DEF k
      <3> QED BY <1>6, <3>1 DEF IInv, QueueIsWindow
    <2> QED BY <1>1, <1>4, <2>1, RepeatsStep DEF IInv
  <1> QED BY <1>8, <1>9, <1>10, <1>11, <1>12 DEF IInv

(* Every call of isLikelyDuplicate preserves IInv. *)
LEMMA CallPreserves ==
  ASSUME IInv, NEW x \in Packet, IsLikelyDuplicate(x)
  PROVE  IInv'
  <1> DEFINE crc == CrcOf[x]
  <1>1. crc \in Nat
    BY ConstantsAssumption
  <1>2. CASE UNCHANGED vars
    BY <1>2 DEF vars, IInv, TypeOK, QueueIsWindow, QueueIsInjective, SetsHoldQueue,
                RepeatsAreFarApart, Queue
  <1>3. CASE ~Found(crc) /\ ~UNCHANGED vars
    <2>1. /\ Queue \in Seq(Nat) /\ Len(Queue) \in Nat /\ Len(Queue) <= EXPIRY_QUEUE_LENGTH
          /\ EXPIRY_QUEUE_LENGTH \in Nat
      BY ConstantsAssumption DEF IInv, TypeOK, Queue
    <2>2. Len(Append(Queue, crc)) = Len(Queue) + 1
      BY <1>1, <2>1
    <2>3. CASE Len(Queue) < EXPIRY_QUEUE_LENGTH
      <3>1. /\ seenPacketCRCs' = Inserted(seenPacketCRCs, crc)
            /\ Queue' = Append(Queue, crc)
            /\ passed' = Append(passed, crc)
        BY <1>3, <2>1, <2>2, <2>3 DEF IsLikelyDuplicate, Expire, Queue
      <3> HIDE DEF crc
      <3> QED BY <1>1, <1>3, <2>3, <3>1, Grow
    <2>4. CASE Len(Queue) = EXPIRY_QUEUE_LENGTH
      <3>1. /\ seenPacketCRCs' = Erased(Inserted(seenPacketCRCs, crc), Head(Append(Queue, crc)))
            /\ Queue' = Tail(Append(Queue, crc))
            /\ passed' = Append(passed, crc)
        BY <1>3, <2>1, <2>2, <2>4 DEF IsLikelyDuplicate, Expire, Queue
      <3> HIDE DEF crc
      <3> QED BY <1>1, <1>3, <2>4, <3>1, Slide
    <2> QED BY <2>1, <2>3, <2>4
  <1> QED BY <1>2, <1>3 DEF IsLikelyDuplicate

(* IInv holds in every state isLikelyDuplicate can leave behind. *)
LEMMA QueueAlways == Spec => []IInv
  <1>1. IInv /\ [Next]_vars => IInv'
    <2> SUFFICES ASSUME IInv, [Next]_vars PROVE IInv'
      OBVIOUS
    <2>1. CASE Next
      BY <2>1, CallPreserves DEF Next
    <2>2. CASE UNCHANGED vars
      BY <2>2 DEF vars, IInv, TypeOK, QueueIsWindow, QueueIsInjective, SetsHoldQueue,
                  RepeatsAreFarApart, Queue
    <2> QED BY <2>1, <2>2
  <1> QED BY <1>1, InitEstablishes, PTL DEF Spec

(* A packet that is passed to isLikelyDuplicate is reported exactly when   *)
(* its checksum is among the last EXPIRY_QUEUE_LENGTH that passed.         *)
THEOREM WindowIsExact == Spec => []DuplicateIffRecent
  <1>1. IInv => DuplicateIffRecent
    <2> SUFFICES ASSUME IInv, NEW x \in Packet
                 PROVE  Found(CrcOf[x]) <=>
                          \E i \in 1..Len(passed) : Recent(i) /\ passed[i] = CrcOf[x]
      BY DEF DuplicateIffRecent
    <2> DEFINE c == CrcOf[x]
    <2>1. c \in Nat /\ Hash(c) \in 0..(Buckets - 1)
      BY ConstantsAssumption, HashInRange
    <2> HIDE DEF c
    <2>2. Found(c) <=> \E k \in 1..Len(Queue) : Queue[k] = c
      BY <2>1 DEF Found, IInv, SetsHoldQueue
    <2>3. /\ Len(Queue) \in Nat /\ Len(passed) \in Nat /\ EXPIRY_QUEUE_LENGTH \in Nat
          /\ Len(Queue) <= Len(passed) /\ Len(Queue) <= EXPIRY_QUEUE_LENGTH
          /\ Len(Queue) < Len(passed) => Len(Queue) = EXPIRY_QUEUE_LENGTH
      BY ConstantsAssumption DEF IInv, TypeOK, QueueIsWindow, Queue
    <2>4. ASSUME NEW k \in 1..Len(Queue), Queue[k] = c
          PROVE  \E i \in 1..Len(passed) : Recent(i) /\ passed[i] = c
      <3> DEFINE i == Len(passed) - Len(Queue) + k
      <3>1. i \in 1..Len(passed) /\ Recent(i)
        BY <2>3 DEF Recent
      <3>2. passed[i] = c
        BY <2>4 DEF IInv, QueueIsWindow
      <3> QED BY <3>1, <3>2
    <2>5. ASSUME NEW i \in 1..Len(passed), Recent(i), passed[i] = c
          PROVE  \E k \in 1..Len(Queue) : Queue[k] = c
      <3> DEFINE k == i - (Len(passed) - Len(Queue))
      <3>1. k \in 1..Len(Queue) /\ Len(passed) - Len(Queue) + k = i
        BY <2>3, <2>5 DEF Recent
      <3> HIDE DEF k
      <3>2. Queue[k] = c
        BY <2>5, <3>1 DEF IInv, QueueIsWindow
      <3> QED BY <3>1, <3>2
    <2>6. Found(c) <=> \E i \in 1..Len(passed) : Recent(i) /\ passed[i] = c
      BY <2>2, <2>4, <2>5
    <2> QED BY <2>6 DEF c
  <1> QED BY <1>1, QueueAlways, PTL

(* Two packets with the same checksum that both pass have at least         *)
(* EXPIRY_QUEUE_LENGTH others between them.                                *)
THEOREM RepeatsFarApart == Spec => []RepeatsAreFarApart
  <1>1. IInv => RepeatsAreFarApart
    BY DEF IInv
  <1> QED BY <1>1, QueueAlways, PTL

-----------------------------------------------------------------------------
(* GameTraffic: the inductive invariant. *)

Message == UNION {[S -> Node] : S \in SUBSET Node}

(* The tables are defined for every node. *)
NodesOK ==
  /\ DOMAIN nodeReceivers = Node /\ DOMAIN opened = Node /\ DOMAIN view = Node
  /\ net \in [Node -> [Node -> Seq(Message)]]

(* The receivers of a node have ports of their own, none of which is the   *)
(* port of the local game.                                                 *)
PortsOK ==
  \A n \in Node :
    /\ opened[n] \in Nat
    /\ DOMAIN nodeReceivers[n] \subseteq Node
    /\ \A p \in DOMAIN nodeReceivers[n] : nodeReceivers[n][p] \in 1..opened[n]
    /\ \A p, q \in DOMAIN nodeReceivers[n] : nodeReceivers[n][p] = nodeReceivers[n][q] => p = q

(* A game knows a player that was never disturbed under the port of the    *)
(* receiver that its node has for this player.                             *)
ViewOK ==
  \A n \in Node :
    /\ DOMAIN view[n] \subseteq Node
    /\ \A p \in DOMAIN view[n] \ disturbed :
         p \in DOMAIN nodeReceivers[n] /\ view[n][p] = nodeReceivers[n][p]

(* A node has a receiver for every peer it is connected to, and its game   *)
(* is told of other players only.                                          *)
ConnectedOK ==
  /\ connected \in [Node -> SUBSET Node]
  /\ \A n \in Node : /\ n \notin connected[n] /\ connected[n] \subseteq DOMAIN nodeReceivers[n]
                     /\ opened[n] <= MaxPorts
                     /\ n \notin DOMAIN view[n]

(* A message between nodes names such a player by its own id. *)
NetOK ==
  \A a, b \in Node : \A i \in 1..Len(net[a][b]) :
    \A p \in DOMAIN net[a][b][i] \ disturbed : net[a][b][i][p] = p

TrafficInv == NodesOK /\ PortsOK /\ ViewOK /\ ConnectedOK /\ NetOK

-----------------------------------------------------------------------------
(* The player found for the port of a receiver is the one it was opened    *)
(* for (m_remotePlayerIds).                                                *)
LEMMA OwnerOfReceiver ==
  ASSUME PortsOK, NEW n \in Node, NEW p \in DOMAIN nodeReceivers[n]
  PROVE  Traffic!Owner(n, nodeReceivers[n][p]) = p
<1> DEFINE owners == {q \in DOMAIN nodeReceivers[n] : nodeReceivers[n][q] = nodeReceivers[n][p]}
<1>1. p \in owners
  OBVIOUS
<1>2. \A q \in owners : q = p
  BY DEF PortsOK
<1>3. (CHOOSE q \in owners : TRUE) \in owners
  BY <1>1
<1> QED
  BY <1>1, <1>2, <1>3 DEF Traffic!Owner

(* A port leads to a player or to nobody, and that of the local game to    *)
(* nobody.                                                                 *)
LEMMA OwnerType ==
  ASSUME PortsOK, NEW n \in Node, NEW port
  PROVE  /\ Traffic!Owner(n, port) \in Node \union {NoOne}
         /\ Traffic!Owner(n, Traffic!LocalGamePort) = NoOne
<1> DEFINE owners(x) == {q \in DOMAIN nodeReceivers[n] : nodeReceivers[n][q] = x}
<1>1. ASSUME NEW x, owners(x) # {} PROVE (CHOOSE q \in owners(x) : TRUE) \in owners(x)
  BY <1>1
<1>2. owners(Traffic!LocalGamePort) = {}
  BY DEF PortsOK, Traffic!LocalGamePort
<1>3. owners(port) \subseteq Node
  BY DEF PortsOK
<1> HIDE DEF owners
<1>4. Traffic!Owner(n, port) = IF owners(port) = {} THEN NoOne ELSE CHOOSE q \in owners(port) : TRUE
  BY DEF Traffic!Owner, owners
<1>5. Traffic!Owner(n, Traffic!LocalGamePort) = IF owners(Traffic!LocalGamePort) = {} THEN NoOne ELSE CHOOSE q \in owners(Traffic!LocalGamePort) : TRUE
  BY DEF Traffic!Owner, owners
<1> QED
  BY <1>1, <1>2, <1>3, <1>4, <1>5

(* getGameReceiver adds a receiver with a port of its own and leaves the   *)
(* others as they are.                                                     *)
LEMMA WithReceiverKeeps ==
  ASSUME PortsOK, NEW n \in Node, NEW p \in Node
  PROVE  /\ DOMAIN Traffic!WithReceiver(n, p) = DOMAIN nodeReceivers[n] \union {p}
         /\ \A q \in DOMAIN nodeReceivers[n] : Traffic!WithReceiver(n, p)[q] = nodeReceivers[n][q]
         /\ p \notin DOMAIN nodeReceivers[n] => Traffic!WithReceiver(n, p)[p] = opened[n] + 1
  BY DEF Traffic!WithReceiver, Traffic!Over

(* The ports stay in order when getGameReceiver is called. *)
LEMMA PortsKept ==
  ASSUME NodesOK, PortsOK, NEW n \in Node, NEW p \in Node, Traffic!OpensReceiver(n, p)
  PROVE  /\ DOMAIN nodeReceivers' = Node /\ DOMAIN opened' = Node
         /\ PortsOK'
         /\ \A m \in Node : \A q \in DOMAIN nodeReceivers[m] :
              q \in DOMAIN nodeReceivers'[m] /\ nodeReceivers'[m][q] = nodeReceivers[m][q]
         /\ nodeReceivers'[n] = Traffic!WithReceiver(n, p)
<1> DEFINE rs == Traffic!WithReceiver(n, p)
<1>1. /\ DOMAIN rs = DOMAIN nodeReceivers[n] \union {p}
      /\ \A q \in DOMAIN nodeReceivers[n] : rs[q] = nodeReceivers[n][q]
      /\ p \notin DOMAIN nodeReceivers[n] => rs[p] = opened[n] + 1
  BY WithReceiverKeeps
<1>2. nodeReceivers' = [nodeReceivers EXCEPT ![n] = rs]
  BY DEF Traffic!OpensReceiver
<1>3. opened' = [opened EXCEPT ![n] = IF p \in DOMAIN nodeReceivers[n] THEN @ ELSE @ + 1]
  BY DEF Traffic!OpensReceiver
<1>4. DOMAIN nodeReceivers' = Node /\ DOMAIN opened' = Node
  BY <1>2, <1>3 DEF NodesOK
<1> HIDE DEF rs
<1>5. nodeReceivers'[n] = rs /\ \A m \in Node \ {n} : nodeReceivers'[m] = nodeReceivers[m]
  BY <1>2 DEF NodesOK
<1>6. /\ opened'[n] = (IF p \in DOMAIN nodeReceivers[n] THEN opened[n] ELSE opened[n] + 1)
      /\ \A m \in Node \ {n} : opened'[m] = opened[m]
  BY <1>3 DEF NodesOK
<1>7. ASSUME NEW m \in Node, m # n
      PROVE  /\ opened'[m] \in Nat
             /\ DOMAIN nodeReceivers'[m] \subseteq Node
             /\ \A r \in DOMAIN nodeReceivers'[m] : nodeReceivers'[m][r] \in 1..opened'[m]
             /\ \A q, r \in DOMAIN nodeReceivers'[m] : nodeReceivers'[m][q] = nodeReceivers'[m][r] => q = r
  BY <1>5, <1>6, <1>7 DEF PortsOK
<1>8. /\ opened'[n] \in Nat
      /\ DOMAIN rs \subseteq Node
      /\ \A r \in DOMAIN rs : rs[r] \in 1..opened'[n]
  BY <1>1, <1>6 DEF PortsOK
<1>9. \A q, r \in DOMAIN rs : rs[q] = rs[r] => q = r
  <2>1. CASE p \in DOMAIN nodeReceivers[n]
    BY <1>1, <2>1 DEF PortsOK
  <2>2. CASE p \notin DOMAIN nodeReceivers[n]
    <3>1. \A q \in DOMAIN nodeReceivers[n] : rs[q] # rs[p]
      BY <1>1, <2>2 DEF PortsOK
    <3>2. \A q, r \in DOMAIN nodeReceivers[n] : rs[q] = rs[r] => q = r
      BY <1>1 DEF PortsOK
    <3> QED
      BY <1>1, <3>1, <3>2
  <2> QED
    BY <2>1, <2>2
<1>10. PortsOK'
  BY <1>5, <1>7, <1>8, <1>9 DEF PortsOK
<1>11. \A m \in Node : \A q \in DOMAIN nodeReceivers[m] :
         q \in DOMAIN nodeReceivers'[m] /\ nodeReceivers'[m][q] = nodeReceivers[m][q]
  BY <1>1, <1>5
<1> QED
  BY <1>4, <1>5, <1>10, <1>11 DEF rs

(* No node opens more receivers than it has ports for. *)
LEMMA OpenedKept ==
  ASSUME NodesOK, PortsOK, ConnectedOK, NEW n \in Node, NEW p \in Node, Traffic!OpensReceiver(n, p)
  PROVE  \A m \in Node : opened'[m] <= MaxPorts
  BY PartsAssumption DEF NodesOK, PortsOK, ConnectedOK, Traffic!OpensReceiver, Traffic!ConstantsOK

-----------------------------------------------------------------------------
LEMMA TrafficInit ==
  ASSUME Traffic!Init
  PROVE  TrafficInv
<1>1. NodesOK
  BY DEF Traffic!Init, NodesOK, Message
<1>2. PortsOK
  BY DEF Traffic!Init, PortsOK, Traffic!Empty
<1>3. ViewOK
  BY DEF Traffic!Init, ViewOK, Traffic!Empty
<1>4. NetOK
  BY DEF Traffic!Init, NetOK
<1>5. ConnectedOK
  BY PartsAssumption DEF Traffic!Init, Traffic!ConstantsOK, ConnectedOK, Traffic!Empty
<1> QED
  BY <1>1, <1>2, <1>3, <1>4, <1>5 DEF TrafficInv

LEMMA RegisterKeeps ==
  ASSUME TrafficInv, NEW n \in Node, NEW p \in Node, Traffic!Register(n, p)
  PROVE  TrafficInv'
<1>1. Traffic!OpensReceiver(n, p) /\ UNCHANGED <<net, view, messages, disturbed>>
  BY DEF Traffic!Register
<1>2. /\ DOMAIN nodeReceivers' = Node /\ DOMAIN opened' = Node
      /\ PortsOK'
      /\ \A m \in Node : \A q \in DOMAIN nodeReceivers[m] :
           q \in DOMAIN nodeReceivers'[m] /\ nodeReceivers'[m][q] = nodeReceivers[m][q]
  BY <1>1, PortsKept DEF TrafficInv
<1>3. NodesOK'
  BY <1>1, <1>2 DEF TrafficInv, NodesOK
<1>4. ViewOK'
  BY <1>1, <1>2 DEF TrafficInv, ViewOK
<1>5. NetOK'
  BY <1>1 DEF TrafficInv, NetOK
<1>6. ConnectedOK'
  <2>1. /\ connected' = [connected EXCEPT ![n] = @ \union {p}]
        /\ n # p /\ nodeReceivers'[n] = Traffic!WithReceiver(n, p)
    BY PortsKept, <1>1 DEF TrafficInv, Traffic!Register
  <2>2. p \in DOMAIN nodeReceivers'[n]
    BY <2>1, WithReceiverKeeps DEF TrafficInv
  <2>3. \A m \in Node : opened'[m] <= MaxPorts
    BY <1>1, OpenedKept DEF TrafficInv
  <2> QED
    BY <1>1, <1>2, <2>1, <2>2, <2>3 DEF TrafficInv, ConnectedOK
<1> QED
  BY <1>2, <1>3, <1>4, <1>5, <1>6 DEF TrafficInv

(* Messages that are dropped leave the rest as it was. *)
LEMMA DroppedMessages ==
  ASSUME NodesOK, NetOK, NEW n \in Node, NEW p \in Node,
         net' = [net EXCEPT ![n][p] = <<>>, ![p][n] = <<>>],
         disturbed \subseteq disturbed'
  PROVE  net' \in [Node -> [Node -> Seq(Message)]] /\ NetOK'
<1>1. <<>> \in Seq(Message)
  OBVIOUS
<1>2. net' \in [Node -> [Node -> Seq(Message)]]
  BY <1>1 DEF NodesOK
<1>3. \A a, b \in Node : net'[a][b] = net[a][b] \/ net'[a][b] = <<>>
  BY DEF NodesOK
<1>4. ASSUME NEW a \in Node, NEW b \in Node, NEW i \in 1..Len(net'[a][b]),
             NEW q \in DOMAIN net'[a][b][i] \ disturbed'
      PROVE  net'[a][b][i][q] = q
  <2>1. CASE net'[a][b] = net[a][b]
    BY <2>1 DEF NetOK
  <2>2. CASE net'[a][b] = <<>>
    <3>1. Len(net'[a][b]) = 0
      BY <2>2
    <3> QED
      BY <3>1
  <2> QED
    BY <1>3, <2>1, <2>2
<1>5. NetOK'
  BY <1>4 DEF NetOK
<1> QED
  BY <1>2, <1>5

LEMMA UnregisterKeeps ==
  ASSUME TrafficInv, NEW n \in Node, NEW p \in Node, Traffic!Unregister(n, p)
  PROVE  TrafficInv'
<1> DEFINE rs == Traffic!Restrict(nodeReceivers[n], DOMAIN nodeReceivers[n] \ {p})
<1>1. /\ nodeReceivers' = [nodeReceivers EXCEPT ![n] = rs]
      /\ net' = [net EXCEPT ![n][p] = <<>>, ![p][n] = <<>>]
      /\ disturbed' = disturbed \union {p}
      /\ opened' = opened /\ view' = view
  BY DEF Traffic!Unregister
<1>2. /\ DOMAIN rs = DOMAIN nodeReceivers[n] \ {p}
      /\ \A q \in DOMAIN nodeReceivers[n] \ {p} : rs[q] = nodeReceivers[n][q]
  BY DEF Traffic!Restrict
<1> HIDE DEF rs
<1>3. nodeReceivers'[n] = rs /\ \A m \in Node \ {n} : nodeReceivers'[m] = nodeReceivers[m]
  BY <1>1 DEF TrafficInv, NodesOK
<1>4. NetOK' /\ net' \in [Node -> [Node -> Seq(Message)]]
  BY <1>1, DroppedMessages DEF TrafficInv
<1>5. NodesOK'
  BY <1>1, <1>4 DEF TrafficInv, NodesOK
<1>6. \A m \in Node : /\ DOMAIN nodeReceivers'[m] \subseteq DOMAIN nodeReceivers[m]
                      /\ \A q \in DOMAIN nodeReceivers'[m] : nodeReceivers'[m][q] = nodeReceivers[m][q]
  BY <1>2, <1>3
<1>7. PortsOK'
  BY <1>1, <1>6 DEF TrafficInv, PortsOK
<1>8. \A m \in Node : \A q \in DOMAIN nodeReceivers[m] \ {p} : q \in DOMAIN nodeReceivers'[m]
  BY <1>2, <1>3
<1>9. ViewOK'
  BY <1>1, <1>6, <1>8 DEF TrafficInv, ViewOK
<1>10. ConnectedOK'
  <2>1. connected' = [connected EXCEPT ![n] = @ \ {p}]
    BY DEF Traffic!Unregister
  <2>2. DOMAIN nodeReceivers'[n] = DOMAIN nodeReceivers[n] \ {p}
    BY <1>2, <1>3
  <2> QED
    BY <1>1, <1>3, <2>1, <2>2 DEF TrafficInv, ConnectedOK
<1> QED
  BY <1>4, <1>5, <1>7, <1>9, <1>10 DEF TrafficInv

LEMMA LoseKeeps ==
  ASSUME TrafficInv, NEW n \in Node, NEW p \in Node, Traffic!Lose(n, p)
  PROVE  TrafficInv'
<1>1. /\ net' = [net EXCEPT ![n][p] = <<>>, ![p][n] = <<>>]
      /\ UNCHANGED <<nodeReceivers, opened, view, messages, disturbed>>
  BY DEF Traffic!Lose
<1>2. NetOK' /\ net' \in [Node -> [Node -> Seq(Message)]]
  BY <1>1, DroppedMessages DEF TrafficInv
<1>3. NodesOK'
  BY <1>1, <1>2 DEF TrafficInv, NodesOK
<1>4. PortsOK'
  BY <1>1 DEF TrafficInv, PortsOK
<1>5. ViewOK'
  BY <1>1 DEF TrafficInv, ViewOK
<1>6. ConnectedOK'
  <2>1. connected' = [connected EXCEPT ![n] = @ \ {p}]
    BY DEF Traffic!Lose
  <2> QED
    BY <1>1, <2>1 DEF TrafficInv, ConnectedOK
<1> QED
  BY <1>2, <1>3, <1>4, <1>5, <1>6 DEF TrafficInv

(* What a's node sends names an undisturbed player by its own id. *)
LEMMA SubstitutedOK ==
  ASSUME Traffic!ConstantsOK, TrafficInv, NEW a \in Node, NEW S \in SUBSET ({a} \union DOMAIN view[a])
  PROVE  /\ Traffic!Substituted(a, S) \in Message
         /\ \A p \in S \ disturbed : Traffic!Substituted(a, S)[p] = p
<1> DEFINE port(p) == IF p = a THEN Traffic!LocalGamePort ELSE view[a][p]
<1>1. S \subseteq Node
  BY DEF TrafficInv, ViewOK
<1>2. ASSUME NEW p \in S PROVE Traffic!SpaFromLocalGame(a, port(p)) \in Node
  BY OwnerType DEF TrafficInv, Traffic!SpaFromLocalGame
<1>3. Traffic!Substituted(a, S) = [p \in S |-> Traffic!SpaFromLocalGame(a, port(p))]
  BY DEF Traffic!Substituted
<1>4. ASSUME NEW p \in S \ disturbed PROVE Traffic!SpaFromLocalGame(a, port(p)) = p
  <2>1. CASE p = a
    BY <2>1, OwnerType DEF TrafficInv, Traffic!SpaFromLocalGame
  <2>2. CASE p # a
    <3>1. p \in DOMAIN nodeReceivers[a] /\ view[a][p] = nodeReceivers[a][p]
      BY <2>2 DEF TrafficInv, ViewOK
    <3>2. Traffic!Owner(a, view[a][p]) = p
      BY <3>1, OwnerOfReceiver DEF TrafficInv
    <3>3. p # NoOne
      BY <1>1 DEF Traffic!ConstantsOK
    <3> QED
      BY <2>2, <3>2, <3>3 DEF Traffic!SpaFromLocalGame
  <2> QED
    BY <2>1, <2>2
<1> HIDE DEF port
<1>5. Traffic!Substituted(a, S) \in [S -> Node]
  BY <1>2, <1>3
<1> QED
  BY <1>1, <1>3, <1>4, <1>5 DEF Message

LEMMA AnnounceKeeps ==
  ASSUME Traffic!ConstantsOK, TrafficInv, NEW a \in Node, NEW b \in Node, NEW S \in SUBSET Node, Traffic!Announce(a, b, S)
  PROVE  TrafficInv'
<1> DEFINE m == Traffic!Substituted(a, S)
<1>1. /\ net' = [net EXCEPT ![a][b] = Append(@, m)]
      /\ UNCHANGED <<connected, nodeReceivers, opened, view, disturbed>>
      /\ S \in SUBSET ({a} \union DOMAIN view[a])
  BY DEF Traffic!Announce
<1>2. m \in Message /\ \A p \in S \ disturbed : m[p] = p
  BY <1>1, SubstitutedOK
<1>3. DOMAIN m = S
  BY DEF Traffic!Substituted
<1> HIDE DEF m
<1>4. net[a][b] \in Seq(Message)
  BY DEF TrafficInv, NodesOK
<1>5. net' \in [Node -> [Node -> Seq(Message)]]
  BY <1>1, <1>2, <1>4 DEF TrafficInv, NodesOK
<1>6. net'[a][b] = Append(net[a][b], m)
  BY <1>1 DEF TrafficInv, NodesOK
<1>7. ASSUME NEW x \in Node, NEW y \in Node, ~(x = a /\ y = b) PROVE net'[x][y] = net[x][y]
  BY <1>1, <1>7 DEF TrafficInv, NodesOK
<1>8. ASSUME NEW x \in Node, NEW y \in Node, NEW i \in 1..Len(net'[x][y]),
             NEW p \in DOMAIN net'[x][y][i] \ disturbed
      PROVE  net'[x][y][i][p] = p
  <2>1. CASE ~(x = a /\ y = b)
    BY <1>7, <2>1 DEF TrafficInv, NetOK
  <2>2. CASE x = a /\ y = b /\ i = Len(net[a][b]) + 1
    <3>1. net'[x][y][i] = m
      BY <1>4, <1>6, <2>2
    <3> QED
      BY <1>2, <1>3, <3>1
  <2>3. CASE x = a /\ y = b /\ i # Len(net[a][b]) + 1
    <3>1. i \in 1..Len(net[a][b]) /\ net'[x][y][i] = net[a][b][i]
      BY <1>2, <1>4, <1>6, <2>3
    <3> QED
      BY <2>3, <3>1 DEF TrafficInv, NetOK
  <2> QED
    BY <2>1, <2>2, <2>3
<1>9. NetOK'
  BY <1>1, <1>8 DEF NetOK
<1>10. NodesOK'
  BY <1>1, <1>5 DEF TrafficInv, NodesOK
<1>11. PortsOK'
  BY <1>1 DEF TrafficInv, PortsOK
<1>12. ViewOK'
  BY <1>1 DEF TrafficInv, ViewOK
<1>13. ConnectedOK'
  BY <1>1 DEF TrafficInv, ConnectedOK
<1> QED
  BY <1>9, <1>10, <1>11, <1>12, <1>13 DEF TrafficInv

LEMMA DeliverKeeps ==
  ASSUME TrafficInv, NEW a \in Node, NEW b \in Node, Traffic!Deliver(a, b)
  PROVE  TrafficInv'
<1> DEFINE m == Head(net[a][b])
           rs == Traffic!WithReceiver(b, a)
           back == Traffic!SubstitutedBack(a, b, m)
<1>1. /\ net[a][b] # <<>>
      /\ Traffic!OpensReceiver(b, a)
      /\ view' = [view EXCEPT ![b] = Traffic!Over(back, @)]
      /\ disturbed' = disturbed \union (DOMAIN back \ DOMAIN rs)
      /\ net' = [net EXCEPT ![a][b] = Tail(@)]
  BY DEF Traffic!Deliver
<1>2. /\ DOMAIN nodeReceivers' = Node /\ DOMAIN opened' = Node
      /\ PortsOK'
      /\ \A n \in Node : \A q \in DOMAIN nodeReceivers[n] :
           q \in DOMAIN nodeReceivers'[n] /\ nodeReceivers'[n][q] = nodeReceivers[n][q]
      /\ nodeReceivers'[b] = rs
  BY <1>1, PortsKept DEF TrafficInv
<1>3. net[a][b] \in Seq(Message)
  BY DEF TrafficInv, NodesOK
<1>4. /\ m \in Message
      /\ \A p \in DOMAIN m \ disturbed : m[p] = p
  <2>1. Len(net[a][b]) \in Nat \ {0} /\ m = net[a][b][1]
    BY <1>1, <1>3
  <2>2. m \in Message
    BY <1>1, <1>3
  <2> QED
    BY <2>1, <2>2 DEF TrafficInv, NetOK
<1>5. DOMAIN m \subseteq Node
  BY <1>4 DEF Message
<1>6. back = [p \in DOMAIN m \ {b} |-> IF m[p] \in DOMAIN rs THEN rs[m[p]] ELSE rs[a]]
  BY DEF Traffic!SubstitutedBack, Traffic!SpaFromRemoteGame
<1> HIDE DEF m, rs, back
<1>7. \A p \in DOMAIN back \ disturbed' : p \in DOMAIN rs /\ back[p] = rs[p]
  BY <1>1, <1>4, <1>6
<1>8. /\ view'[b] = Traffic!Over(back, view[b]) /\ DOMAIN view' = Node
      /\ \A n \in Node \ {b} : view'[n] = view[n]
  BY <1>1 DEF TrafficInv, NodesOK
<1>9. /\ DOMAIN view'[b] = DOMAIN back \union DOMAIN view[b]
      /\ \A p \in DOMAIN back : view'[b][p] = back[p]
      /\ \A p \in DOMAIN view[b] \ DOMAIN back : view'[b][p] = view[b][p]
  BY <1>8 DEF Traffic!Over
<1>10. ViewOK'
  <2>1. ASSUME NEW n \in Node, n # b
        PROVE  /\ DOMAIN view'[n] \subseteq Node
               /\ \A p \in DOMAIN view'[n] \ disturbed' :
                    p \in DOMAIN nodeReceivers'[n] /\ view'[n][p] = nodeReceivers'[n][p]
    BY <1>1, <1>2, <1>8, <2>1 DEF TrafficInv, ViewOK
  <2>2. DOMAIN view'[b] \subseteq Node
    BY <1>5, <1>6, <1>9 DEF TrafficInv, ViewOK
  <2>3. ASSUME NEW p \in DOMAIN view'[b] \ disturbed'
        PROVE  p \in DOMAIN nodeReceivers'[b] /\ view'[b][p] = nodeReceivers'[b][p]
    <3>1. CASE p \in DOMAIN back
      BY <1>2, <1>7, <1>9, <3>1
    <3>2. CASE p \notin DOMAIN back
      BY <1>1, <1>2, <1>9, <3>2 DEF TrafficInv, ViewOK
    <3> QED
      BY <3>1, <3>2
  <2> QED
    BY <2>1, <2>2, <2>3 DEF ViewOK
<1>11. Tail(net[a][b]) \in Seq(Message)
  BY <1>1, <1>3
<1>12. net' \in [Node -> [Node -> Seq(Message)]]
  BY <1>1, <1>11 DEF TrafficInv, NodesOK
<1>13. net'[a][b] = Tail(net[a][b])
  BY <1>1 DEF TrafficInv, NodesOK
<1>14. ASSUME NEW x \in Node, NEW y \in Node, ~(x = a /\ y = b) PROVE net'[x][y] = net[x][y]
  BY <1>1, <1>14 DEF TrafficInv, NodesOK
<1>15. ASSUME NEW x \in Node, NEW y \in Node, NEW i \in 1..Len(net'[x][y]),
              NEW p \in DOMAIN net'[x][y][i] \ disturbed'
       PROVE  net'[x][y][i][p] = p
  <2>1. CASE ~(x = a /\ y = b)
    BY <1>1, <1>14, <2>1 DEF TrafficInv, NetOK
  <2>2. CASE x = a /\ y = b
    <3>1. i \in 1..Len(Tail(net[a][b])) /\ net'[x][y][i] = Tail(net[a][b])[i]
      BY <1>13, <2>2
    <3>2. Len(net[a][b]) \in Nat \ {0} /\ Len(Tail(net[a][b])) = Len(net[a][b]) - 1
      BY <1>1, <1>3
    <3>3. i + 1 \in 1..Len(net[a][b])
      BY <3>1, <3>2
    <3>4. Tail(net[a][b])[i] = net[a][b][i + 1]
      BY <1>1, <1>3, <3>1, <3>2
    <3> QED
      BY <1>1, <2>2, <3>1, <3>3, <3>4 DEF TrafficInv, NetOK
  <2> QED
    BY <2>1, <2>2
<1>16. NetOK'
  BY <1>15 DEF NetOK
<1>17. NodesOK'
  BY <1>2, <1>8, <1>12 DEF NodesOK
<1>18. ConnectedOK'
  <2>1. connected' = connected
    BY DEF Traffic!Deliver
  <2>2. \A n \in Node : opened'[n] <= MaxPorts
    BY <1>1, OpenedKept DEF TrafficInv
  <2>3. \A n \in Node : n \notin DOMAIN view'[n]
    BY <1>6, <1>8, <1>9 DEF TrafficInv, ConnectedOK
  <2> QED
    BY <1>2, <2>1, <2>2, <2>3 DEF TrafficInv, ConnectedOK
<1> QED
  BY <1>2, <1>10, <1>16, <1>17, <1>18 DEF TrafficInv

LEMMA TrafficKeeps ==
  ASSUME TrafficInv, [PartsNext]_allVars
  PROVE  TrafficInv'
<1>1. CASE UNCHANGED trafficVars
  <2>1. /\ nodeReceivers' = nodeReceivers /\ opened' = opened /\ view' = view
        /\ net' = net /\ disturbed' = disturbed /\ connected' = connected
    BY <1>1 DEF trafficVars
  <2>2. NodesOK' /\ PortsOK' /\ ConnectedOK'
    BY <2>1 DEF TrafficInv, NodesOK, PortsOK, ConnectedOK
  <2>3. ViewOK' /\ NetOK'
    BY <2>1 DEF TrafficInv, ViewOK, NetOK
  <2> QED
    BY <2>2, <2>3 DEF TrafficInv
<1>2. CASE Traffic!Next
  BY <1>2, PartsAssumption, RegisterKeeps, UnregisterKeeps, LoseKeeps, AnnounceKeeps, DeliverKeeps
     DEF Traffic!Next
<1> QED
  BY <1>1, <1>2 DEF PartsNext, allVars

(* The invariant gives the property: a port in a game's view leads to the  *)
(* player it stands for.                                                   *)
LEMMA TrafficInvLeadsHome ==
  ASSUME TrafficInv
  PROVE  AddressesLeadHome
<1>1. ASSUME NEW n \in Node, NEW p \in DOMAIN view[n] \ disturbed
      PROVE  Traffic!Owner(n, view[n][p]) = p
  <2>1. p \in DOMAIN nodeReceivers[n] /\ view[n][p] = nodeReceivers[n][p]
    BY DEF TrafficInv, ViewOK
  <2> QED
    BY <2>1, OwnerOfReceiver DEF TrafficInv
<1>2. Traffic!AddressesLeadHome
  BY <1>1 DEF Traffic!AddressesLeadHome, Traffic!LeadsHome
<1>3. Traffic!TypeOK
  BY PartsAssumption DEF TrafficInv, PortsOK, ViewOK, ConnectedOK, Traffic!TypeOK, Traffic!ConstantsOK
<1> QED
  BY <1>2, <1>3 DEF AddressesLeadHome

(* Whatever the number of players, of ports and of messages, and in any    *)
(* order of connections and messages, the address under which a game knows *)
(* a player leads to that player (GameAddressTranslater with               *)
(* TafnetGameNode's receivers), unless the player left a node or was named *)
(* to a node that had not heard of it.                                     *)
THEOREM AddressesAreRight == PartsSpec => []AddressesLeadHome
<1>1. PartsInit => TrafficInv
  BY TrafficInit DEF PartsInit
<1>2. TrafficInv /\ [PartsNext]_allVars => TrafficInv'
  BY TrafficKeeps
<1>3. TrafficInv => AddressesLeadHome
  BY TrafficInvLeadsHome
<1> QED
  BY <1>1, <1>2, <1>3, PTL DEF PartsSpec
-----------------------------------------------------------------------------
(* The tables of a game node. *)

Receiver == [tcp : Ports, udp : Ports, enum : {Tables!NoPort, EnumPort}]

(* Receivers rs and the table ids of the owners of their ports: no two     *)
(* receivers share a port, no entry of a random port outlives its          *)
(* receiver, and every port leads to the player of its receiver.           *)
PortsDiffer(r, s) ==
  /\ r.tcp # s.tcp /\ r.tcp # s.udp /\ r.udp # s.tcp /\ r.udp # s.udp
  /\ r.enum = EnumPort => s.enum # EnumPort

PortsOf(r) == {r.tcp, r.udp, r.enum} \ {Tables!NoPort}

PortsMatch(rs, ids) ==
  /\ DOMAIN rs \subseteq Peer
  /\ \A p \in DOMAIN rs : rs[p] \in Receiver /\ rs[p].tcp # rs[p].udp
  /\ \A p, q \in DOMAIN rs : p # q => PortsDiffer(rs[p], rs[q])
  /\ \A port \in DOMAIN ids \ {Tables!NoPort, EnumPort} :
       \E p \in DOMAIN rs : port \in {rs[p].tcp, rs[p].udp}
  /\ \A p \in DOMAIN rs : \A port \in PortsOf(rs[p]) : port \in DOMAIN ids /\ ids[port] = p

(* TafnetNode knows a peer under its address, or was given a second one. *)
LobbyOK ==
  /\ DOMAIN peerAddress \subseteq Peer /\ DOMAIN peerId \subseteq Address
  /\ \A x \in DOMAIN peerId :
       /\ peerId[x] \in Peer
       /\ \/ peerId[x] \in DOMAIN peerAddress /\ peerAddress[peerId[x]] = x
          \/ peerId[x] \in moved
  /\ DOMAIN receivers \subseteq DOMAIN peerAddress \union moved \union lost

(* Senders, and those who knock. *)
SendersOK ==
  /\ DOMAIN senders = DOMAIN receivers
  /\ \A p \in DOMAIN senders : senders[p] = gamePorts
  /\ pending \subseteq DOMAIN senders
  /\ gamePorts \in [tcp : GamePort \union {Tables!NoPort}, udp : GamePort \union {Tables!NoPort}]

TimerOK == created \in BOOLEAN /\ timer \in BOOLEAN /\ ticks \in BOOLEAN /\ (timer => created)

TablesInv == PortsMatch(receivers, remotePlayerIds) /\ LobbyOK /\ SendersOK /\ TimerOK

-----------------------------------------------------------------------------
LEMMA TablesConstants ==
  Tables!NoPort \notin Ports /\ EnumPort \notin Ports /\ EnumPort # Tables!NoPort
  BY PartsAssumption DEF Tables!ConstantsOK

(* A receiver the operating system opens has ports of its own. *)
LEMMA ReceiverAdded ==
  ASSUME PortsMatch(receivers, remotePlayerIds), NEW p \in Peer, NEW rs \in Tables!GetGameReceiver(p)
  PROVE  /\ PortsMatch(rs, Tables!WithReceiver(rs, p))
         /\ DOMAIN rs = DOMAIN receivers \union {p}
<1>1. CASE p \in DOMAIN receivers
  BY <1>1 DEF Tables!GetGameReceiver, Tables!WithReceiver
<1>2. CASE p \notin DOMAIN receivers
  <2>1. PICK f \in Tables!FreePorts : rs = Tables!With(receivers, p, [tcp |-> f[1], udp |-> f[2], enum |-> Tables!NoPort])
    BY <1>2 DEF Tables!GetGameReceiver
  <2>2. /\ f[1] \in Ports /\ f[2] \in Ports /\ f[1] # f[2]
        /\ f[1] \notin Tables!Listening("tcp") /\ f[1] \notin Tables!Listening("udp")
        /\ f[2] \notin Tables!Listening("tcp") /\ f[2] \notin Tables!Listening("udp")
    BY DEF Tables!FreePorts
  <2>3. /\ DOMAIN rs = DOMAIN receivers \union {p}
        /\ rs[p] = [tcp |-> f[1], udp |-> f[2], enum |-> Tables!NoPort]
        /\ \A q \in DOMAIN receivers : rs[q] = receivers[q]
    BY <1>2, <2>1 DEF Tables!With
  <2>4. \A q \in DOMAIN receivers : /\ receivers[q].tcp # f[1] /\ receivers[q].tcp # f[2]
                                    /\ receivers[q].udp # f[1] /\ receivers[q].udp # f[2]
    BY <2>2 DEF Tables!Listening
  <2> DEFINE ids == Tables!WithReceiver(rs, p)
  <2>5. f[1] \notin DOMAIN remotePlayerIds /\ f[2] \notin DOMAIN remotePlayerIds
    BY <2>2, <2>4, TablesConstants DEF PortsMatch
  <2>6. /\ DOMAIN ids = DOMAIN remotePlayerIds \union {f[1], f[2]}
        /\ ids[f[1]] = p /\ ids[f[2]] = p
        /\ \A port \in DOMAIN remotePlayerIds : ids[port] = remotePlayerIds[port]
    <3>1. ids = Tables!WithPort(Tables!WithPort(remotePlayerIds, f[1], p), f[2], p)
      BY <1>2, <2>3 DEF Tables!WithReceiver
    <3> HIDE DEF ids
    <3> DEFINE one == Tables!WithPort(remotePlayerIds, f[1], p)
    <3>2. /\ DOMAIN one = DOMAIN remotePlayerIds \union {f[1]}
          /\ one[f[1]] = p
          /\ \A port \in DOMAIN remotePlayerIds : one[port] = remotePlayerIds[port]
      BY <2>5 DEF Tables!WithPort, Tables!With
    <3>3. f[2] \notin DOMAIN one
      BY <2>2, <2>5, <3>2
    <3> HIDE DEF one
    <3> QED
      BY <2>2, <2>5, <3>1, <3>2, <3>3 DEF one, Tables!WithPort, Tables!With
  <2> HIDE DEF ids
  <2>7. \A q \in DOMAIN rs : rs[q] \in Receiver /\ rs[q].tcp # rs[q].udp
    BY <2>2, <2>3 DEF PortsMatch, Receiver
  <2>8. ASSUME NEW q \in DOMAIN rs, NEW r \in DOMAIN rs, q # r PROVE PortsDiffer(rs[q], rs[r])
    <3>1. CASE q \in DOMAIN receivers /\ r \in DOMAIN receivers
      BY <2>3, <2>8, <3>1 DEF PortsMatch
    <3>2. CASE q = p
      BY <2>2, <2>3, <2>4, <2>8, <3>2, TablesConstants DEF PortsDiffer
    <3>3. CASE r = p
      BY <2>2, <2>3, <2>4, <2>8, <3>3, TablesConstants DEF PortsDiffer
    <3> QED
      BY <2>3, <3>1, <3>2, <3>3
  <2>9. \A port \in DOMAIN ids \ {Tables!NoPort, EnumPort} : \E q \in DOMAIN rs : port \in {rs[q].tcp, rs[q].udp}
    BY <2>3, <2>6 DEF PortsMatch
  <2>10. ASSUME NEW q \in DOMAIN rs, NEW port \in PortsOf(rs[q]) PROVE port \in DOMAIN ids /\ ids[port] = q
    <3>1. CASE q \in DOMAIN receivers
      BY <2>3, <2>6, <3>1 DEF PortsMatch
    <3>2. CASE q = p
      BY <2>3, <2>6, <3>2 DEF PortsOf
    <3> QED
      BY <2>3, <3>1, <3>2
  <2>11. DOMAIN rs \subseteq Peer
    BY <2>3 DEF PortsMatch
  <2> QED
    BY <2>3, <2>7, <2>8, <2>9, <2>10, <2>11 DEF PortsMatch, ids
<1> QED
  BY <1>1, <1>2

(* bindEnumerationPort: one receiver listens on the port at a time, and    *)
(* the port leads to it.                                                   *)
LEMMA EnumPortBound ==
  ASSUME NEW rs, NEW ids, PortsMatch(rs, ids), NEW p \in DOMAIN rs,
         NEW bound, bound = Tables!BoundEnumPort(rs, p)
  PROVE  /\ PortsMatch([rs EXCEPT ![p].enum = bound], Tables!With(ids, bound, p))
         /\ DOMAIN [rs EXCEPT ![p].enum = bound] = DOMAIN rs
<1> DEFINE ts == [rs EXCEPT ![p].enum = bound]
           js == Tables!With(ids, bound, p)
<1>1. bound \in {Tables!NoPort, EnumPort}
  BY DEF Tables!BoundEnumPort
<1>2. bound = EnumPort => \A q \in DOMAIN rs \ {p} : rs[q].enum # EnumPort
  BY TablesConstants DEF Tables!BoundEnumPort
<1>3. /\ DOMAIN ts = DOMAIN rs
      /\ ts[p] = [rs[p] EXCEPT !.enum = bound]
      /\ \A q \in DOMAIN rs \ {p} : ts[q] = rs[q]
  OBVIOUS
<1>4. rs[p] \in Receiver
  BY DEF PortsMatch
<1>5. ts[p] \in Receiver /\ ts[p].tcp = rs[p].tcp /\ ts[p].udp = rs[p].udp /\ ts[p].enum = bound
  BY <1>1, <1>3, <1>4 DEF Receiver
<1>6. /\ DOMAIN js = DOMAIN ids \union {bound} /\ js[bound] = p
      /\ \A port \in DOMAIN ids \ {bound} : js[port] = ids[port]
  BY DEF Tables!With
<1> HIDE DEF ts, js
<1>7. \A q \in DOMAIN ts : ts[q] \in Receiver /\ ts[q].tcp # ts[q].udp
  BY <1>3, <1>5, ZenonT(30) DEF PortsMatch
<1>8. ASSUME NEW q \in DOMAIN ts, NEW r \in DOMAIN ts, q # r PROVE PortsDiffer(ts[q], ts[r])
  <2>1. PortsDiffer(rs[q], rs[r])
    BY <1>3, <1>8 DEF PortsMatch
  <2>2. CASE q = p
    BY <1>2, <1>3, <1>5, <1>8, <2>1, <2>2 DEF PortsDiffer
  <2>3. CASE r = p
    <3>1. q \in DOMAIN rs \ {p} /\ ts[q] = rs[q]
      BY <1>3, <1>8, <2>3
    <3>2. ts[q].enum = EnumPort => bound # EnumPort
      BY <1>2, <3>1
    <3> QED
      BY <1>5, <2>1, <2>3, <3>1, <3>2 DEF PortsDiffer
  <2>4. CASE q # p /\ r # p
    BY <1>3, <2>1, <2>4
  <2> QED
    BY <2>2, <2>3, <2>4
<1>9. \A port \in DOMAIN js \ {Tables!NoPort, EnumPort} : \E q \in DOMAIN ts : port \in {ts[q].tcp, ts[q].udp}
  BY <1>1, <1>3, <1>5, <1>6, ZenonT(30) DEF PortsMatch
<1>10. ASSUME NEW q \in DOMAIN ts, NEW port \in PortsOf(ts[q]) PROVE port \in DOMAIN js /\ js[port] = q
  <2>1. CASE q = p
    <3>1. CASE port = bound
      BY <1>6, <2>1, <3>1
    <3>2. CASE port # bound
      <4>1. port \in PortsOf(rs[p])
        BY <1>5, <2>1, <3>2 DEF PortsOf
      <4> QED
        BY <1>6, <2>1, <3>2, <4>1 DEF PortsMatch
    <3> QED
      BY <3>1, <3>2
  <2>2. CASE q # p
    <3>1. port \in PortsOf(rs[q]) /\ q \in DOMAIN rs
      BY <1>3, <2>2
    <3>2. rs[q] \in Receiver
      BY <3>1 DEF PortsMatch
    <3>3. port # bound
      BY <1>1, <1>2, <2>2, <3>1, <3>2, TablesConstants DEF PortsOf, Receiver
    <3> QED
      BY <1>6, <3>1, <3>3 DEF PortsMatch
  <2> QED
    BY <2>1, <2>2
<1> QED
  BY <1>3, <1>7, <1>8, <1>9, <1>10 DEF PortsMatch, ts, js

(* killGameReceiver: its ports are forgotten, those of the others stay. *)
LEMMA ReceiverRemoved ==
  ASSUME PortsMatch(receivers, remotePlayerIds), NEW p \in Peer, Tables!UnregisterRemotePlayer(p)
  PROVE  PortsMatch(receivers, remotePlayerIds)' /\ DOMAIN receivers' = DOMAIN receivers \ {p}
<1>1. /\ DOMAIN receivers' = DOMAIN receivers \ {p}
      /\ \A q \in DOMAIN receivers' : receivers'[q] = receivers[q]
  BY DEF Tables!UnregisterRemotePlayer, Tables!Without, Tables!Restrict
<1>2. CASE p \notin DOMAIN receivers
  <2>1. remotePlayerIds' = remotePlayerIds
    BY <1>2 DEF Tables!UnregisterRemotePlayer
  <2> QED
    BY <1>1, <1>2, <2>1 DEF PortsMatch
<1>3. CASE p \in DOMAIN receivers
  <2> DEFINE gone == {receivers[p].tcp, receivers[p].udp}
                       \union (IF DOMAIN receivers = {p} THEN {receivers[p].enum} ELSE {})
  <2>1. /\ DOMAIN remotePlayerIds' = DOMAIN remotePlayerIds \ gone
        /\ \A port \in DOMAIN remotePlayerIds' : remotePlayerIds'[port] = remotePlayerIds[port]
    BY <1>3 DEF Tables!UnregisterRemotePlayer, Tables!Without, Tables!Restrict
  <2>2. receivers[p] \in Receiver
    BY <1>3 DEF PortsMatch
  <2>3. ASSUME NEW q \in DOMAIN receivers', NEW port \in PortsOf(receivers'[q])
        PROVE  port \in DOMAIN remotePlayerIds' /\ remotePlayerIds'[port] = q
    <3>1. q \in DOMAIN receivers /\ q # p /\ port \in PortsOf(receivers[q])
      BY <1>1
    <3>2. gone = {receivers[p].tcp, receivers[p].udp}
      BY <3>1
    <3>3. receivers[q] \in Receiver /\ PortsDiffer(receivers[p], receivers[q])
      BY <1>3, <3>1 DEF PortsMatch
    <3>4. port \notin gone
      BY <2>2, <3>1, <3>2, <3>3, TablesConstants DEF PortsOf, PortsDiffer, Receiver
    <3> QED
      BY <2>1, <3>1, <3>4 DEF PortsMatch
  <2>4. ASSUME NEW port \in DOMAIN remotePlayerIds' \ {Tables!NoPort, EnumPort}
        PROVE  \E q \in DOMAIN receivers' : port \in {receivers'[q].tcp, receivers'[q].udp}
    BY <1>1, <2>1 DEF PortsMatch
  <2> QED
    BY <1>1, <2>3, <2>4 DEF PortsMatch
<1> QED
  BY <1>1, <1>2, <1>3

-----------------------------------------------------------------------------
(* getGameSender: a new sender knows the game's ports. *)
LEMMA SenderAdded ==
  ASSUME NEW p, \A q \in DOMAIN senders : senders[q] = gamePorts
  PROVE  /\ DOMAIN Tables!GetGameSender(p) = DOMAIN senders \union {p}
         /\ \A q \in DOMAIN Tables!GetGameSender(p) : Tables!GetGameSender(p)[q] = gamePorts
  BY DEF Tables!GetGameSender, Tables!With

(* registerRemotePlayer. *)
LEMMA PlayerRegistered ==
  ASSUME TablesInv, NEW p \in Peer, NEW host \in BOOLEAN, Tables!RegisterRemotePlayer(p, host)
  PROVE  /\ PortsMatch(receivers, remotePlayerIds)'
         /\ DOMAIN receivers' = DOMAIN receivers \union {p}
         /\ DOMAIN senders' = DOMAIN senders \union {p}
         /\ \A q \in DOMAIN senders' : senders'[q] = gamePorts
<1>1. PICK rs \in Tables!GetGameReceiver(p) :
        /\ receivers' = IF host THEN [rs EXCEPT ![p].enum = Tables!BoundEnumPort(rs, p)] ELSE rs
        /\ remotePlayerIds' =
             IF host THEN Tables!With(Tables!WithReceiver(rs, p), Tables!BoundEnumPort(rs, p), p)
                     ELSE Tables!WithReceiver(rs, p)
        /\ senders' = Tables!GetGameSender(p)
  BY DEF Tables!RegisterRemotePlayer
<1>2. /\ PortsMatch(rs, Tables!WithReceiver(rs, p))
      /\ DOMAIN rs = DOMAIN receivers \union {p}
  BY ReceiverAdded DEF TablesInv
<1>3. /\ DOMAIN senders' = DOMAIN senders \union {p}
      /\ \A q \in DOMAIN senders' : senders'[q] = gamePorts
  BY <1>1, SenderAdded DEF TablesInv, SendersOK
<1> DEFINE bound == Tables!BoundEnumPort(rs, p)
           ids == Tables!WithReceiver(rs, p)
<1>4. /\ PortsMatch([rs EXCEPT ![p].enum = bound], Tables!With(ids, bound, p))
      /\ DOMAIN [rs EXCEPT ![p].enum = bound] = DOMAIN rs
  <2> HIDE DEF ids
  <2>1. PortsMatch(rs, ids) /\ p \in DOMAIN rs
    BY <1>2 DEF ids
  <2> QED
    BY <2>1, EnumPortBound
<1>5. CASE host
  <2>1. receivers' = [rs EXCEPT ![p].enum = bound] /\ remotePlayerIds' = Tables!With(ids, bound, p)
    BY <1>1, <1>5
  <2>2. PortsMatch(receivers', remotePlayerIds') /\ DOMAIN receivers' = DOMAIN receivers \union {p}
    BY <1>2, <1>4, <2>1
  <2> QED
    BY <1>3, <2>2 DEF PortsMatch
<1>6. CASE ~host
  <2>1. PortsMatch(receivers', remotePlayerIds') /\ DOMAIN receivers' = DOMAIN receivers \union {p}
    BY <1>1, <1>2, <1>6
  <2> QED
    BY <1>3, <2>1 DEF PortsMatch
<1> QED
  BY <1>5, <1>6

LEMMA TablesInit ==
  ASSUME Tables!Init
  PROVE  TablesInv
<1>1. PortsMatch(receivers, remotePlayerIds)
  BY DEF Tables!Init, Tables!Empty, PortsMatch
<1>2. LobbyOK
  BY DEF Tables!Init, Tables!Empty, LobbyOK
<1>3. SendersOK
  BY DEF Tables!Init, Tables!Empty, SendersOK
<1>4. TimerOK
  BY DEF Tables!Init, TimerOK
<1> QED
  BY <1>1, <1>2, <1>3, <1>4 DEF TablesInv

LEMMA OnCreateLobbyKeeps ==
  ASSUME TablesInv, Tables!OnCreateLobby
  PROVE  TablesInv'
<1>1. /\ UNCHANGED <<peerAddress, peerId, moved, lost, senders, receivers, remotePlayerIds, gamePorts, pending, ticks>>
      /\ created' = TRUE /\ timer' = TRUE
  BY DEF Tables!OnCreateLobby, Tables!gameVars
<1>2. PortsMatch(receivers, remotePlayerIds)'
  BY <1>1 DEF TablesInv, PortsMatch
<1>3. LobbyOK' /\ SendersOK' /\ TimerOK'
  BY <1>1 DEF TablesInv, LobbyOK, SendersOK, TimerOK
<1> QED
  BY <1>2, <1>3 DEF TablesInv

LEMMA OnConnectKeeps ==
  ASSUME TablesInv, NEW p \in Peer, NEW x \in Address, NEW host \in BOOLEAN, Tables!OnConnect(p, x, host)
  PROVE  TablesInv'
<1>1. /\ x \in DOMAIN peerId => peerId[x] = p
      /\ Tables!ConnectPeerAddress(p, x)
      /\ Tables!RegisterRemotePlayer(p, host)
      /\ UNCHANGED <<created, lost, gamePorts, pending, timer, ticks>>
  BY DEF Tables!OnConnect, Tables!doorVars
<1>2. /\ PortsMatch(receivers, remotePlayerIds)'
      /\ DOMAIN receivers' = DOMAIN receivers \union {p}
      /\ DOMAIN senders' = DOMAIN senders \union {p}
      /\ \A q \in DOMAIN senders' : senders'[q] = gamePorts
  BY <1>1, PlayerRegistered
<1>3. SendersOK' /\ TimerOK'
  BY <1>1, <1>2 DEF TablesInv, SendersOK, TimerOK
<1>4. /\ DOMAIN peerAddress' = DOMAIN peerAddress \union {p} /\ peerAddress'[p] = x
      /\ \A q \in DOMAIN peerAddress \ {p} : peerAddress'[q] = peerAddress[q]
      /\ DOMAIN peerId' = DOMAIN peerId \union {x} /\ peerId'[x] = p
      /\ \A y \in DOMAIN peerId \ {x} : peerId'[y] = peerId[y]
      /\ moved \subseteq moved'
      /\ p \in DOMAIN peerAddress /\ peerAddress[p] # x => p \in moved'
  BY <1>1 DEF Tables!ConnectPeerAddress, Tables!With
<1>5. ASSUME NEW y \in DOMAIN peerId'
      PROVE  /\ peerId'[y] \in Peer
             /\ \/ peerId'[y] \in DOMAIN peerAddress' /\ peerAddress'[peerId'[y]] = y
                \/ peerId'[y] \in moved'
  <2>1. CASE y = x
    BY <1>4, <2>1
  <2>2. CASE y # x
    <3>1. y \in DOMAIN peerId /\ peerId'[y] = peerId[y]
      BY <1>4, <2>2
    <3>2. CASE peerId[y] = p
      BY <1>4, <2>2, <3>1, <3>2 DEF TablesInv, LobbyOK
    <3>3. CASE peerId[y] # p
      BY <1>4, <3>1, <3>3 DEF TablesInv, LobbyOK
    <3> QED
      BY <3>2, <3>3
  <2> QED
    BY <2>1, <2>2
<1>6. LobbyOK'
  BY <1>1, <1>2, <1>4, <1>5 DEF TablesInv, LobbyOK
<1> QED
  BY <1>2, <1>3, <1>6 DEF TablesInv

(* A peer that is given up leaves an address behind only if it moved. *)
LEMMA PeerDisconnected ==
  ASSUME LobbyOK, NEW p \in Peer, Tables!DisconnectPeer(p)
  PROVE  /\ DOMAIN peerAddress' = DOMAIN peerAddress \ {p}
         /\ DOMAIN peerId' \subseteq Address
         /\ \A y \in DOMAIN peerId' :
              /\ peerId'[y] \in Peer
              /\ \/ peerId'[y] \in DOMAIN peerAddress' /\ peerAddress'[peerId'[y]] = y
                 \/ peerId'[y] \in moved
<1>1. /\ DOMAIN peerAddress' = DOMAIN peerAddress \ {p}
      /\ \A q \in DOMAIN peerAddress' : peerAddress'[q] = peerAddress[q]
  BY DEF Tables!DisconnectPeer, Tables!Without, Tables!Restrict
<1>2. /\ DOMAIN peerId' \subseteq DOMAIN peerId
      /\ \A y \in DOMAIN peerId' : peerId'[y] = peerId[y]
      /\ p \in DOMAIN peerAddress => peerAddress[p] \notin DOMAIN peerId'
  BY DEF Tables!DisconnectPeer, Tables!Without, Tables!Restrict
<1>3. ASSUME NEW y \in DOMAIN peerId'
      PROVE  /\ peerId'[y] \in Peer
             /\ \/ peerId'[y] \in DOMAIN peerAddress' /\ peerAddress'[peerId'[y]] = y
                \/ peerId'[y] \in moved
  BY <1>1, <1>2 DEF LobbyOK
<1> QED
  BY <1>1, <1>2, <1>3 DEF LobbyOK

LEMMA OnDisconnectFromPeerKeeps ==
  ASSUME TablesInv, NEW p \in Peer, Tables!OnDisconnectFromPeer(p)
  PROVE  TablesInv'
<1>1. /\ Tables!DisconnectPeer(p) /\ Tables!UnregisterRemotePlayer(p)
      /\ lost' = lost \ {p} /\ UNCHANGED <<created, moved, gamePorts, timer, ticks>>
  BY DEF Tables!OnDisconnectFromPeer
<1>2. PortsMatch(receivers, remotePlayerIds)' /\ DOMAIN receivers' = DOMAIN receivers \ {p}
  BY <1>1, ReceiverRemoved DEF TablesInv
<1>3. /\ DOMAIN senders' = DOMAIN senders \ {p}
      /\ \A q \in DOMAIN senders' : senders'[q] = senders[q]
      /\ pending' = pending \ {p}
  BY <1>1 DEF Tables!UnregisterRemotePlayer, Tables!Without, Tables!Restrict
<1>4. SendersOK' /\ TimerOK'
  BY <1>1, <1>2, <1>3 DEF TablesInv, SendersOK, TimerOK
<1>5. /\ DOMAIN peerAddress' = DOMAIN peerAddress \ {p}
      /\ DOMAIN peerId' \subseteq Address
      /\ \A y \in DOMAIN peerId' :
           /\ peerId'[y] \in Peer
           /\ \/ peerId'[y] \in DOMAIN peerAddress' /\ peerAddress'[peerId'[y]] = y
              \/ peerId'[y] \in moved
  BY <1>1, PeerDisconnected DEF TablesInv
<1>6. LobbyOK'
  BY <1>1, <1>2, <1>5 DEF TablesInv, LobbyOK
<1> QED
  BY <1>2, <1>4, <1>6 DEF TablesInv

LEMMA LosePeerKeeps ==
  ASSUME TablesInv, NEW p \in Peer, Tables!LosePeer(p)
  PROVE  TablesInv'
<1>1. /\ Tables!DisconnectPeer(p) /\ lost' = lost \union {p}
      /\ UNCHANGED <<created, moved, senders, receivers, remotePlayerIds, gamePorts, pending, timer, ticks>>
  BY DEF Tables!LosePeer, Tables!gameVars, Tables!doorVars
<1>2. PortsMatch(receivers, remotePlayerIds)'
  BY <1>1 DEF TablesInv, PortsMatch
<1>3. SendersOK' /\ TimerOK'
  BY <1>1 DEF TablesInv, SendersOK, TimerOK
<1>4. /\ DOMAIN peerAddress' = DOMAIN peerAddress \ {p}
      /\ DOMAIN peerId' \subseteq Address
      /\ \A y \in DOMAIN peerId' :
           /\ peerId'[y] \in Peer
           /\ \/ peerId'[y] \in DOMAIN peerAddress' /\ peerAddress'[peerId'[y]] = y
              \/ peerId'[y] \in moved
  BY <1>1, PeerDisconnected DEF TablesInv
<1>5. LobbyOK'
  BY <1>1, <1>4 DEF TablesInv, LobbyOK
<1> QED
  BY <1>2, <1>3, <1>5 DEF TablesInv

(* A message of a peer creates what is missing for it. *)
LEMMA MessageKeeps ==
  ASSUME TablesInv, NEW x \in DOMAIN peerId, Tables!ForPeer(peerId[x]),
         UNCHANGED <<created, peerAddress, peerId, moved, lost, gamePorts, timer, ticks>>,
         pending' \subseteq pending \union {peerId[x]}
  PROVE  TablesInv'
<1> DEFINE p == peerId[x]
<1>1. p \in Peer
  BY DEF TablesInv, LobbyOK
<1>2. PICK rs \in Tables!GetGameReceiver(p) :
        receivers' = rs /\ remotePlayerIds' = Tables!WithReceiver(rs, p)
  BY DEF Tables!ForPeer
<1>3. PortsMatch(rs, Tables!WithReceiver(rs, p)) /\ DOMAIN rs = DOMAIN receivers \union {p}
  BY <1>1, ReceiverAdded DEF TablesInv
<1>4. PortsMatch(receivers, remotePlayerIds)'
  BY <1>2, <1>3 DEF PortsMatch
<1>5. /\ DOMAIN senders' = DOMAIN senders \union {p}
      /\ \A q \in DOMAIN senders' : senders'[q] = gamePorts
  BY SenderAdded DEF TablesInv, SendersOK, Tables!ForPeer
<1>6. SendersOK' /\ TimerOK'
  BY <1>2, <1>3, <1>5 DEF TablesInv, SendersOK, TimerOK
<1>7. LobbyOK'
  BY <1>2, <1>3 DEF TablesInv, LobbyOK
<1> QED
  BY <1>4, <1>6, <1>7 DEF TablesInv

LEMMA OnGameDataKeeps ==
  ASSUME TablesInv, NEW field \in {"tcp", "udp"}, NEW port \in GamePort, Tables!OnGameData(field, port)
  PROVE  TablesInv'
<1>1. /\ Tables!LearnPort(field, port)
      /\ UNCHANGED <<created, peerAddress, peerId, moved, lost, receivers, remotePlayerIds, pending, timer, ticks>>
  BY DEF Tables!OnGameData, Tables!lobbyVars, Tables!doorVars
<1>2. PortsMatch(receivers, remotePlayerIds)'
  BY <1>1 DEF TablesInv, PortsMatch
<1>3. LobbyOK' /\ TimerOK'
  BY <1>1 DEF TablesInv, LobbyOK, TimerOK
<1>4. /\ gamePorts' = [gamePorts EXCEPT ![field] = port]
      /\ DOMAIN senders' = DOMAIN senders
      /\ \A q \in DOMAIN senders : senders'[q] = [senders[q] EXCEPT ![field] = port]
  BY <1>1 DEF Tables!LearnPort
<1>5. gamePorts' \in [tcp : GamePort \union {Tables!NoPort}, udp : GamePort \union {Tables!NoPort}]
  BY <1>4 DEF TablesInv, SendersOK
<1>6. SendersOK'
  BY <1>1, <1>4, <1>5 DEF TablesInv, SendersOK
<1> QED
  BY <1>2, <1>3, <1>6 DEF TablesInv

(* Only who knocked is let in. *)
LEMMA TickKeeps ==
  ASSUME TablesInv, Tables!Tick \/ Tables!TickRefused
  PROVE  TablesInv'
<1>1. /\ UNCHANGED <<created, peerAddress, peerId, moved, lost, receivers, remotePlayerIds, gamePorts, ticks>>
      /\ timer /\ timer' = ~ticks
  BY DEF Tables!Tick, Tables!TickRefused, Tables!lobbyVars
<1>2. /\ pending' \subseteq pending
      /\ senders' = senders \/ \E p \in Tables!ToAdmit : senders' = Tables!GetGameSender(p)
  BY DEF Tables!Tick, Tables!TickRefused, Tables!Admit
<1>3. Tables!ToAdmit \subseteq DOMAIN senders
  BY DEF TablesInv, SendersOK, Tables!ToAdmit
<1>4. senders' = senders
  BY <1>2, <1>3 DEF Tables!GetGameSender
<1>5. PortsMatch(receivers, remotePlayerIds)'
  BY <1>1 DEF TablesInv, PortsMatch
<1>6. LobbyOK' /\ SendersOK'
  BY <1>1, <1>2, <1>4 DEF TablesInv, LobbyOK, SendersOK
<1>7. TimerOK'
  BY <1>1 DEF TablesInv, TimerOK
<1> QED
  BY <1>5, <1>6, <1>7 DEF TablesInv

(* What changes neither tables nor timer. *)
LEMMA TablesUnchanged ==
  ASSUME TablesInv, UNCHANGED <<created, peerAddress, peerId, moved, lost, senders, receivers,
                                remotePlayerIds, gamePorts, pending, timer>>,
         ticks' \in BOOLEAN
  PROVE  TablesInv'
<1>1. PortsMatch(receivers, remotePlayerIds)'
  BY DEF TablesInv, PortsMatch
<1>2. LobbyOK' /\ SendersOK' /\ TimerOK'
  BY DEF TablesInv, LobbyOK, SendersOK, TimerOK
<1> QED
  BY <1>1, <1>2 DEF TablesInv

LEMMA TablesKeep ==
  ASSUME TablesInv, Tables!Next
  PROVE  TablesInv'
<1>1. ASSUME NEW x \in Address, Tables!HandleEnum(x) PROVE TablesInv'
  BY <1>1, MessageKeeps DEF Tables!HandleEnum, Tables!lobbyVars
<1>2. ASSUME NEW x \in Address, Tables!HandleData(x) PROVE TablesInv'
  BY <1>2, MessageKeeps DEF Tables!HandleData, Tables!lobbyVars, Tables!doorVars
<1>3. ASSUME NEW ids, Tables!OnLaunch(ids) PROVE TablesInv'
  <2>1. ticks \in BOOLEAN
    BY DEF TablesInv, TimerOK
  <2> QED
    BY <1>3, <2>1, TablesUnchanged DEF Tables!OnLaunch, Tables!lobbyVars, Tables!gameVars
<1>4. CASE Tables!OnGameStarted
  BY <1>4, TablesUnchanged DEF Tables!OnGameStarted, Tables!lobbyVars, Tables!gameVars, Tables!doorVars
<1> QED
  BY <1>1, <1>2, <1>3, <1>4, OnCreateLobbyKeeps, OnConnectKeeps, OnDisconnectFromPeerKeeps, LosePeerKeeps,
     OnGameDataKeeps, TickKeeps DEF Tables!Next

(* While another part moves, "tables" is not claimed of it. *)
TablesPart == part = "tables" => TablesInv

LEMMA TablesPartKeeps ==
  ASSUME TablesPart, [PartsNext]_allVars
  PROVE  TablesPart'
<1> SUFFICES ASSUME part' = "tables" PROVE TablesInv'
  BY DEF TablesPart
<1>1. part = "tables"
  BY DEF PartsNext, allVars
<1>2. CASE Tables!Next
  BY <1>1, <1>2, TablesKeep DEF TablesPart
<1>3. CASE UNCHANGED tableVars
  <2>1. ticks \in BOOLEAN
    BY <1>1 DEF TablesPart, TablesInv, TimerOK
  <2> QED
    BY <1>1, <1>3, <2>1, TablesUnchanged DEF TablesPart, tableVars
<1> QED
  BY <1>1, <1>2, <1>3 DEF PartsNext, allVars

LEMMA TablesInvMatch ==
  ASSUME TablesInv
  PROVE  Tables!TypeOK /\ Tables!RoutesMatch /\ Tables!SendersKnowGame /\ Tables!NoGhosts
<1>1. Tables!TypeOK
  BY DEF TablesInv, PortsMatch, LobbyOK, SendersOK, TimerOK, Tables!TypeOK
<1>2. Tables!RoutesMatch
  BY DEF TablesInv, PortsMatch, PortsOf, Tables!RoutesMatch
<1>3. Tables!SendersKnowGame /\ Tables!NoGhosts
  BY DEF TablesInv, LobbyOK, SendersOK, Tables!SendersKnowGame, Tables!NoGhosts
<1> QED
  BY <1>1, <1>2, <1>3

(* For any players, addresses and ports and any number of events: what the *)
(* game sends to a player's sockets is forwarded to that player            *)
(* (m_remotePlayerIds), every sender knows what is known of the game's     *)
(* ports, and a player that was disconnected leaves nothing behind         *)
(* (TafnetGameNode, TafnetNode's peers), if the ports of TCP and UDP do    *)
(* not collide.                                                            *)
THEOREM TablesAreRight == PartsSpec => []TablesMatch
<1>1. PartsInit => TablesPart
  BY TablesInit DEF PartsInit, TablesPart
<1>2. TablesPart /\ [PartsNext]_allVars => TablesPart'
  BY TablesPartKeeps
<1>3. TablesPart => TablesMatch
  BY TablesInvMatch DEF TablesPart, TablesMatch
<1> QED
  BY <1>1, <1>2, <1>3, PTL DEF PartsSpec

-----------------------------------------------------------------------------
(* The door. *)

(* The members of t are members of s up to position n, in the order of s. *)
InOrderUpTo(t, s, n) ==
  /\ \A k \in 1..Len(t) : \E i \in 1..n : s[i] = t[k]
  /\ \A k, l \in 1..Len(t) : k < l => \E i, j \in 1..n : i < j /\ s[i] = t[k] /\ s[j] = t[l]

InOrder(t, s) == InOrderUpTo(t, s, Len(s))

(* One more member at the end of s, kept or not. *)
LEMMA OneMoreKept ==
  ASSUME NEW X, NEW t \in Seq(X), NEW s, NEW n \in Nat, InOrderUpTo(t, s, n), s[n + 1] \in X
  PROVE  InOrderUpTo(t, s, n + 1) /\ InOrderUpTo(Append(t, s[n + 1]), s, n + 1)
<1> DEFINE u == Append(t, s[n + 1])
<1>1. /\ Len(t) \in Nat /\ Len(u) = Len(t) + 1 /\ u[Len(t) + 1] = s[n + 1]
      /\ \A k \in 1..Len(t) : u[k] = t[k]
  BY AppendProperties
<1>2. InOrderUpTo(t, s, n + 1)
  BY DEF InOrderUpTo
<1> HIDE DEF u
<1>3. ASSUME NEW k \in 1..Len(u) PROVE \E i \in 1..(n + 1) : s[i] = u[k]
  <2>1. CASE k = Len(t) + 1
    BY <1>1, <2>1
  <2>2. CASE k \in 1..Len(t)
    BY <1>1, <1>2, <2>2 DEF InOrderUpTo
  <2> QED
    BY <1>1, <2>1, <2>2
<1>4. ASSUME NEW k \in 1..Len(u), NEW l \in 1..Len(u), k < l
      PROVE  \E i, j \in 1..(n + 1) : i < j /\ s[i] = u[k] /\ s[j] = u[l]
  <2>0. k \in 1..Len(t) /\ u[k] = t[k]
    BY <1>1, <1>4
  <2>1. CASE l = Len(t) + 1
    <3>1. PICK i \in 1..n : s[i] = t[k]
      BY <2>0 DEF InOrderUpTo
    <3>2. i \in 1..(n + 1) /\ n + 1 \in 1..(n + 1) /\ i < n + 1 /\ s[n + 1] = u[l]
      BY <1>1, <2>1
    <3> QED
      BY <2>0, <3>1, <3>2
  <2>2. CASE l \in 1..Len(t)
    <3>1. PICK i, j \in 1..n : i < j /\ s[i] = t[k] /\ s[j] = t[l]
      BY <1>4, <2>0, <2>2 DEF InOrderUpTo
    <3>2. u[l] = t[l]
      BY <1>1, <2>2
    <3> QED
      BY <2>0, <3>1, <3>2
  <2> QED
    BY <1>1, <2>1, <2>2
<1> QED
  BY <1>2, <1>3, <1>4 DEF InOrderUpTo, u

(* The queue that is left when players are taken out of it: its members    *)
(* are the others, in their order.                                         *)
LEMMA KeptOK ==
  ASSUME NEW X, NEW s \in Seq(X), NEW S
  PROVE  /\ Door!Kept(s, S) \in Seq(X)
         /\ InOrder(Door!Kept(s, S), s)
         /\ \A i \in 1..Len(s) : s[i] \in S => \E k \in 1..Len(Door!Kept(s, S)) : Door!Kept(s, S)[k] = s[i]
<1> DEFINE n == Len(s)
           Is(f) == f = [i \in 0..n |-> IF i = 0 THEN <<>>
                                        ELSE IF s[i] \in S THEN Append(f[i - 1], s[i]) ELSE f[i - 1]]
           V == Seq(X)
           nothing == <<>>
           step == [x \in (1..n) \X V |-> IF s[x[1]] \in S THEN Append(x[2], s[x[1]]) ELSE x[2]]
<1>1. n \in Nat /\ \A i \in 1..n : s[i] \in X
  BY LenProperties, ElementOfSeq
<1>2. step \in [(1..n) \X V -> V]
  <2>1. ASSUME NEW x \in (1..n) \X V
        PROVE  (IF s[x[1]] \in S THEN Append(x[2], s[x[1]]) ELSE x[2]) \in V
    BY <1>1
  <2> QED
    BY <2>1
<1>3. PICK f \in [0..n -> V] : f[0] = nothing /\ \A i \in 1..n : f[i] = step[<<i, f[i - 1]>>]
  <2>1. nothing \in V
    OBVIOUS
  <2>2. n \in Nat
    BY <1>1
  <2> HIDE DEF step, V, n, nothing
  <2>3. \E f \in [0..n -> V] : IsRecursion(f, nothing, n, step)
    BY <1>2, <2>1, <2>2, RecursionExists
  <2> QED
    BY <2>3 DEF IsRecursion
<1>4. ASSUME NEW i \in 1..n PROVE f[i] = IF s[i] \in S THEN Append(f[i - 1], s[i]) ELSE f[i - 1]
  <2>1. i - 1 \in 0..n
    BY <1>1
  <2>2. <<i, f[i - 1]>> \in (1..n) \X V
    BY <2>1
  <2>3. step[<<i, f[i - 1]>>] = IF s[i] \in S THEN Append(f[i - 1], s[i]) ELSE f[i - 1]
    BY <2>2
  <2> QED
    BY <1>3, <2>3
<1>5. Is(f)
  <2> DEFINE g == [i \in 0..n |-> IF i = 0 THEN <<>>
                                 ELSE IF s[i] \in S THEN Append(f[i - 1], s[i]) ELSE f[i - 1]]
  <2>1. ASSUME NEW i \in 0..n PROVE f[i] = g[i]
    <3>1. CASE i = 0
      BY <1>1, <1>3, <3>1
    <3>2. CASE i # 0
      <4>1. i \in 1..n
        BY <1>1, <3>2
      <4> QED
        BY <1>4, <3>2, <4>1
    <3> QED
      BY <3>1, <3>2
  <2> HIDE DEF g
  <2>2. DOMAIN g = 0..n /\ g = [i \in 0..n |-> g[i]]
    BY DEF g
  <2>3. f = g
    BY <2>1, <2>2
  <2> QED
    BY <2>3 DEF g
<1> DEFINE h == CHOOSE g : Is(g)
<1>6. Is(h)
  <2> HIDE DEF Is
  <2> QED
    BY <1>5
<1>7. Door!Kept(s, S) = h[n]
  BY DEF Door!Kept
<1> HIDE DEF step
<1>8. h[0] = <<>> /\ \A i \in 1..n : h[i] = IF s[i] \in S THEN Append(h[i - 1], s[i]) ELSE h[i - 1]
  <2> HIDE DEF h
  <2>1. h = [i \in 0..n |-> IF i = 0 THEN <<>>
                            ELSE IF s[i] \in S THEN Append(h[i - 1], s[i]) ELSE h[i - 1]]
    BY <1>6
  <2>2. ASSUME NEW i \in 0..n
        PROVE  h[i] = IF i = 0 THEN <<>> ELSE IF s[i] \in S THEN Append(h[i - 1], s[i]) ELSE h[i - 1]
    BY <2>1
  <2> HIDE <2>1
  <2> QED
    BY <1>1, <2>2
<1> HIDE DEF h, Is
<1> DEFINE Good == {i \in 0..n : /\ h[i] \in Seq(X)
                                 /\ InOrderUpTo(h[i], s, i)
                                 /\ \A j \in 1..i : s[j] \in S => \E k \in 1..Len(h[i]) : h[i][k] = s[j]}
<1>9. 0 \in Good
  <2>1. h[0] \in Seq(X) /\ Len(h[0]) = 0
    BY <1>8
  <2> QED
    BY <1>1, <2>1 DEF InOrderUpTo
<1>10. ASSUME NEW i \in 0..n, i \in Good, i < n PROVE i + 1 \in Good
  <2>1. /\ i + 1 \in 1..n /\ s[i + 1] \in X /\ i \in Nat /\ (i + 1) - 1 = i
        /\ h[i] \in Seq(X) /\ InOrderUpTo(h[i], s, i)
        /\ \A j \in 1..i : s[j] \in S => \E k \in 1..Len(h[i]) : h[i][k] = s[j]
    BY <1>1, <1>10
  <2>2. InOrderUpTo(h[i], s, i + 1) /\ InOrderUpTo(Append(h[i], s[i + 1]), s, i + 1)
    BY <2>1, OneMoreKept
  <2>3. CASE s[i + 1] \in S
    <3>1. h[i + 1] = Append(h[i], s[i + 1])
      BY <1>8, <2>1, <2>3
    <3>2. /\ h[i + 1] \in Seq(X) /\ Len(h[i + 1]) = Len(h[i]) + 1 /\ Len(h[i]) \in Nat
          /\ h[i + 1][Len(h[i]) + 1] = s[i + 1]
          /\ \A k \in 1..Len(h[i]) : h[i + 1][k] = h[i][k]
      BY <2>1, <3>1, AppendProperties
    <3>3. ASSUME NEW j \in 1..(i + 1), s[j] \in S PROVE \E k \in 1..Len(h[i + 1]) : h[i + 1][k] = s[j]
      <4>1. CASE j = i + 1
        <5>1. Len(h[i]) + 1 \in 1..Len(h[i + 1])
          BY <3>2
        <5> QED
          BY <3>2, <4>1, <5>1
      <4>2. CASE j \in 1..i
        <5>1. PICK k \in 1..Len(h[i]) : h[i][k] = s[j]
          BY <2>1, <3>3, <4>2
        <5> QED
          BY <3>2, <5>1
      <4> QED
        BY <2>1, <4>1, <4>2
    <3>4. InOrderUpTo(h[i + 1], s, i + 1) /\ i + 1 \in 0..n
      BY <2>1, <2>2, <3>1
    <3> QED
      BY <3>2, <3>3, <3>4
  <2>4. CASE s[i + 1] \notin S
    <3>1. h[i + 1] = h[i]
      BY <1>8, <2>1, <2>4
    <3>2. \A j \in 1..(i + 1) : s[j] \in S => j \in 1..i
      BY <2>1, <2>4
    <3>3. \A j \in 1..(i + 1) : s[j] \in S => \E k \in 1..Len(h[i + 1]) : h[i + 1][k] = s[j]
      BY <2>1, <3>1, <3>2
    <3>4. InOrderUpTo(h[i + 1], s, i + 1) /\ i + 1 \in 0..n /\ h[i + 1] \in Seq(X)
      BY <2>1, <2>2, <3>1
    <3> QED
      BY <3>3, <3>4
  <2> QED
    BY <2>3, <2>4
<1>11. n \in Good
  <2>1. 0..n \subseteq Good
    <3> HIDE DEF Good
    <3> QED
      BY <1>1, <1>9, <1>10, UpTo
  <2> QED
    BY <1>1, <2>1
<1> QED
  BY <1>7, <1>11 DEF InOrder

LEMMA InOrderTrans ==
  ASSUME NEW t, NEW u, NEW s, InOrder(u, t), InOrder(t, s)
  PROVE  InOrder(u, s)
<1>1. ASSUME NEW k \in 1..Len(u) PROVE \E i \in 1..Len(s) : s[i] = u[k]
  <2>1. PICK j \in 1..Len(t) : t[j] = u[k]
    BY Zenon DEF InOrder, InOrderUpTo
  <2>2. PICK i \in 1..Len(s) : s[i] = t[j]
    BY Zenon DEF InOrder, InOrderUpTo
  <2> QED
    BY <2>1, <2>2
<1>2. ASSUME NEW k \in 1..Len(u), NEW l \in 1..Len(u), k < l
      PROVE  \E i, j \in 1..Len(s) : i < j /\ s[i] = u[k] /\ s[j] = u[l]
  <2>1. PICK a, b \in 1..Len(t) : a < b /\ t[a] = u[k] /\ t[b] = u[l]
    BY <1>2, Zenon DEF InOrder, InOrderUpTo
  <2>2. PICK i, j \in 1..Len(s) : i < j /\ s[i] = t[a] /\ s[j] = t[b]
    BY <2>1, Zenon DEF InOrder, InOrderUpTo
  <2> QED
    BY <2>1, <2>2
<1> QED
  BY <1>1, <1>2, Zenon DEF InOrder, InOrderUpTo

LEMMA InOrderTail ==
  ASSUME NEW X, NEW t \in Seq(X), t # <<>>, NEW s, InOrder(t, s)
  PROVE  InOrder(Tail(t), s)
<1>1. /\ Len(t) \in Nat \ {0} /\ Len(Tail(t)) = Len(t) - 1
      /\ \A k \in 1..Len(Tail(t)) : Tail(t)[k] = t[k + 1] /\ k + 1 \in 1..Len(t)
  OBVIOUS
<1>2. ASSUME NEW k \in 1..Len(Tail(t)) PROVE \E i \in 1..Len(s) : s[i] = Tail(t)[k]
  <2>1. k + 1 \in 1..Len(t) /\ Tail(t)[k] = t[k + 1]
    BY <1>1
  <2>2. PICK i \in 1..Len(s) : s[i] = t[k + 1]
    BY <2>1, Zenon DEF InOrder, InOrderUpTo
  <2> QED
    BY <2>1, <2>2
<1>3. ASSUME NEW k \in 1..Len(Tail(t)), NEW l \in 1..Len(Tail(t)), k < l
      PROVE  \E i, j \in 1..Len(s) : i < j /\ s[i] = Tail(t)[k] /\ s[j] = Tail(t)[l]
  <2>1. k + 1 \in 1..Len(t) /\ l + 1 \in 1..Len(t) /\ k + 1 < l + 1
    BY <1>1, <1>3
  <2>2. PICK i, j \in 1..Len(s) : i < j /\ s[i] = t[k + 1] /\ s[j] = t[l + 1]
    BY <2>1, Zenon DEF InOrder, InOrderUpTo
  <2> QED
    BY <1>1, <2>2
<1> QED
  BY <1>2, <1>3, Zenon DEF InOrder, InOrderUpTo

(* What is left of the list of /launch is in its order, and who is not on  *)
(* it any more was let in or is gone.                                      *)
DoorInv ==
  /\ launched \in Seq(Peer) /\ inviteOrder \in Seq(Peer)
  /\ \A i, j \in 1..Len(launched) : launched[i] = launched[j] => i = j
  /\ InOrder(inviteOrder, launched)
  /\ \A i \in 1..Len(launched) :
       launched[i] \in admitted \union left \/ \E k \in 1..Len(inviteOrder) : inviteOrder[k] = launched[i]
  /\ Door!AdmittedInOrder

(* The next to enter has nobody before it who is not in or gone. *)
LEMMA HeadIsNext ==
  ASSUME DoorInv, inviteOrder # <<>>, NEW i \in 1..Len(launched), NEW j \in 1..Len(launched), i < j,
         launched[j] = Head(inviteOrder)
  PROVE  launched[i] \in admitted \union left
<1>1. Len(inviteOrder) \in Nat \ {0} /\ Head(inviteOrder) = inviteOrder[1]
  BY DEF DoorInv
<1>2. SUFFICES ASSUME NEW k \in 1..Len(inviteOrder), inviteOrder[k] = launched[i] PROVE FALSE
  BY DEF DoorInv
<1>3. CASE k = 1
  BY <1>1, <1>2, <1>3 DEF DoorInv
<1>4. CASE k # 1
  <2>1. PICK m, n \in 1..Len(launched) : m < n /\ launched[m] = inviteOrder[1] /\ launched[n] = inviteOrder[k]
    BY <1>1, <1>4 DEF DoorInv, InOrder, InOrderUpTo
  <2>2. m = j /\ n = i
    BY <1>1, <1>2, <2>1 DEF DoorInv
  <2> QED
    BY <2>1, <2>2
<1> QED
  BY <1>3, <1>4

LEMMA DoorInit ==
  ASSUME Door!Init
  PROVE  DoorInv
<1>1. launched = <<>> /\ inviteOrder = <<>>
  BY DEF Door!Init
<1>2. Len(launched) = 0 /\ Len(inviteOrder) = 0 /\ launched \in Seq(Peer)
  BY <1>1
<1> QED
  BY <1>1, <1>2 DEF DoorInv, InOrder, InOrderUpTo, Door!AdmittedInOrder

LEMMA OnLaunchOrders ==
  ASSUME NEW ids \in Door!Invitations, Door!OnLaunch(ids)
  PROVE  DoorInv'
<1>1. Door!Cardinality(Peer) = Cardinality(Peer) /\ Cardinality(Peer) \in Nat
  <2>1. Door!Cardinality(Peer) = Cardinality(Peer)
    BY DEF Door!Cardinality, Cardinality
  <2>2. IsFiniteSet(Peer)
    BY PartsAssumption DEF Door!ConstantsOK, Door!IsFiniteSet, IsFiniteSet
  <2> QED
    BY <2>1, <2>2, FS_CardinalityType
<1>2. /\ ids \in [1..Cardinality(Peer) -> Peer]
      /\ \A i, j \in 1..Cardinality(Peer) : ids[i] = ids[j] => i = j
  BY <1>1 DEF Door!Invitations, Door!Bijection, Door!Injection, Door!IsInjective
<1>3. ids \in Seq(Peer) /\ Len(ids) = Cardinality(Peer)
  BY <1>1, <1>2
<1> DEFINE t == Door!Kept(ids, DOMAIN senders)
<1>4. t \in Seq(Peer) /\ InOrder(t, ids)
  BY <1>3, KeptOK
<1>5. inviteOrder' = t /\ launched' = t /\ admitted' = {} /\ left' = {}
  BY DEF Door!OnLaunch
<1> HIDE DEF t
<1>6. Len(t) \in Nat
  BY <1>4
<1>7. ASSUME NEW i \in 1..Len(t), NEW j \in 1..Len(t), t[i] = t[j] PROVE i = j
  <2>1. ASSUME NEW k \in 1..Len(t), NEW l \in 1..Len(t), k < l PROVE t[k] # t[l]
    <3>1. PICK a, b \in 1..Len(ids) : a < b /\ ids[a] = t[k] /\ ids[b] = t[l]
      BY <1>4, <2>1 DEF InOrder, InOrderUpTo
    <3> QED
      BY <1>1, <1>2, <1>3, <3>1
  <2> QED
    BY <1>6, <1>7, <2>1
<1>8. InOrder(t, t)
  BY <1>6 DEF InOrder, InOrderUpTo
<1>9. DoorInv'
  BY <1>4, <1>5, <1>7, <1>8 DEF DoorInv, InOrder, InOrderUpTo, Door!AdmittedInOrder
<1> QED
  BY <1>9

LEMMA OnDisconnectOrders ==
  ASSUME DoorInv, NEW p \in Peer, Door!OnDisconnectFromPeer(p)
  PROVE  DoorInv'
<1> DEFINE t == Door!Kept(inviteOrder, Peer \ {p})
<1>1. inviteOrder' = t /\ left' = left \union {p} /\ admitted' = admitted /\ launched' = launched
  BY DEF Door!OnDisconnectFromPeer, Door!UnregisterRemotePlayer
<1>2. /\ t \in Seq(Peer) /\ InOrder(t, inviteOrder)
      /\ \A i \in 1..Len(inviteOrder) : inviteOrder[i] \in Peer \ {p} => \E k \in 1..Len(t) : t[k] = inviteOrder[i]
  BY KeptOK DEF DoorInv
<1> HIDE DEF t
<1>3. InOrder(t, launched)
  BY <1>2, InOrderTrans DEF DoorInv
<1>4. ASSUME NEW i \in 1..Len(launched)
      PROVE  launched[i] \in admitted \union left' \/ \E k \in 1..Len(t) : t[k] = launched[i]
  <2>1. CASE launched[i] \in admitted \union left \/ launched[i] = p
    BY <1>1, <2>1
  <2>2. CASE launched[i] # p /\ \E k \in 1..Len(inviteOrder) : inviteOrder[k] = launched[i]
    <3>1. PICK k \in 1..Len(inviteOrder) : inviteOrder[k] = launched[i]
      BY <2>2
    <3>2. inviteOrder[k] \in Peer \ {p}
      BY <2>2, <3>1 DEF DoorInv
    <3> QED
      BY <1>2, <3>1, <3>2
  <2> QED
    BY <2>1, <2>2 DEF DoorInv
<1>5. Door!AdmittedInOrder'
  BY <1>1 DEF DoorInv, Door!AdmittedInOrder
<1>6. InOrder(inviteOrder, launched)'
  BY <1>1, <1>3, Zenon
<1>7. (\A i \in 1..Len(launched) :
        launched[i] \in admitted \union left \/ \E k \in 1..Len(inviteOrder) : inviteOrder[k] = launched[i])'
  BY <1>1, <1>4
<1> QED
  BY <1>1, <1>2, <1>5, <1>6, <1>7 DEF DoorInv

LEMMA AdmitOrders ==
  ASSUME DoorInv, NEW p \in Door!ToAdmit, Door!Admit(p), launched' = launched, left' = left
  PROVE  DoorInv'
<1>1. /\ admitted' = admitted \union {p}
      /\ inviteOrder' = IF inviteOrder # <<>> THEN Tail(inviteOrder) ELSE inviteOrder
  BY DEF Door!Admit
<1>2. inviteOrder # <<>> => p = Head(inviteOrder)
  BY DEF Door!ToAdmit
<1>3. inviteOrder' \in Seq(Peer) /\ InOrder(inviteOrder', launched)
  BY <1>1, InOrderTail DEF DoorInv
<1>4. ASSUME NEW i \in 1..Len(launched)
      PROVE  launched[i] \in admitted' \union left \/ \E k \in 1..Len(inviteOrder') : inviteOrder'[k] = launched[i]
  <2>1. CASE launched[i] \in admitted \union left
    BY <1>1, <2>1
  <2>2. CASE launched[i] \notin admitted \union left
    <3>1. PICK k \in 1..Len(inviteOrder) : inviteOrder[k] = launched[i]
      BY <2>2 DEF DoorInv
    <3>2. inviteOrder \in Seq(Peer) /\ inviteOrder # <<>>
      BY <3>1 DEF DoorInv
    <3>3. /\ Len(Tail(inviteOrder)) = Len(inviteOrder) - 1 /\ Head(inviteOrder) = inviteOrder[1]
          /\ Len(inviteOrder) \in Nat
          /\ \A m \in 1..Len(Tail(inviteOrder)) : Tail(inviteOrder)[m] = inviteOrder[m + 1]
      BY <3>2
    <3>4. CASE k = 1
      BY <1>1, <1>2, <3>1, <3>2, <3>3, <3>4
    <3>5. CASE k # 1
      <4>1. k - 1 \in 1..Len(Tail(inviteOrder)) /\ (k - 1) + 1 = k
        BY <3>3, <3>5
      <4>2. Tail(inviteOrder)[k - 1] = launched[i]
        BY <3>1, <3>3, <4>1
      <4> QED
        BY <1>1, <3>2, <4>1, <4>2
    <3> QED
      BY <3>4, <3>5
  <2> QED
    BY <2>1, <2>2
<1>5. Door!AdmittedInOrder'
  <2>1. DOMAIN launched = 1..Len(launched)
    BY DEF DoorInv
  <2>2. SUFFICES ASSUME NEW i \in 1..Len(launched), NEW j \in 1..Len(launched), i < j,
                        launched[j] \in admitted'
                 PROVE  launched[i] \in admitted' \union left
    BY <2>1 DEF Door!AdmittedInOrder
  <2>3. CASE launched[j] \in admitted
    BY <1>1, <2>1, <2>2, <2>3 DEF DoorInv, Door!AdmittedInOrder
  <2>4. CASE launched[j] = p /\ inviteOrder # <<>>
    BY <1>1, <1>2, <2>2, <2>4, HeadIsNext
  <2>5. CASE inviteOrder = <<>>
    <3>1. Len(inviteOrder) = 0
      BY <2>5
    <3> QED
      BY <1>1, <3>1 DEF DoorInv
  <2> QED
    BY <1>1, <2>2, <2>3, <2>4, <2>5
<1>6. InOrder(inviteOrder, launched)'
  <2>1. launched' = launched
    BY Zenon
  <2> QED
    BY <1>3, <2>1, Zenon
<1>7. (\A i \in 1..Len(launched) :
        launched[i] \in admitted \union left \/ \E k \in 1..Len(inviteOrder) : inviteOrder[k] = launched[i])'
  BY <1>4
<1> QED
  BY <1>3, <1>5, <1>6, <1>7 DEF DoorInv

LEMMA DoorUnchanged ==
  ASSUME DoorInv, UNCHANGED <<launched, inviteOrder, admitted, left>>
  PROVE  DoorInv'
<1>1. InOrder(inviteOrder, launched)' /\ Door!AdmittedInOrder'
  BY DEF DoorInv, InOrder, InOrderUpTo, Door!AdmittedInOrder
<1> QED
  BY <1>1 DEF DoorInv

LEMMA DoorKeeps ==
  ASSUME DoorInv, Door!Next
  PROVE  DoorInv'
<1>1. CASE Door!OnCreateLobby \/ Door!OnGameStarted \/ Door!TickRefused
  BY <1>1, DoorUnchanged DEF Door!OnCreateLobby, Door!OnGameStarted, Door!TickRefused, Door!doorVars
<1>2. ASSUME NEW p \in Peer, NEW x \in DoorAddress, NEW host \in BOOLEAN, Door!OnConnect(p, x, host)
      PROVE  DoorInv'
  BY <1>2, DoorUnchanged DEF Door!OnConnect, Door!doorVars
<1>3. ASSUME NEW p \in Peer, Door!LosePeer(p) PROVE DoorInv'
  BY <1>3, DoorUnchanged DEF Door!LosePeer, Door!doorVars
<1>4. ASSUME NEW x \in DoorAddress, Door!HandleEnum(x) \/ Door!HandleData(x) PROVE DoorInv'
  BY <1>4, DoorUnchanged DEF Door!HandleEnum, Door!HandleData, Door!doorVars
<1>5. CASE Door!Tick
  <2>1. launched' = launched /\ left' = left
    BY <1>5 DEF Door!Tick
  <2>2. CASE Door!ToAdmit = {}
    BY <1>5, <2>1, <2>2, DoorUnchanged DEF Door!Tick
  <2>3. CASE Door!ToAdmit # {}
    <3>1. PICK p \in Door!ToAdmit : Door!Admit(p)
      BY <1>5, <2>3 DEF Door!Tick
    <3> QED
      BY <2>1, <3>1, AdmitOrders
  <2> QED
    BY <2>2, <2>3
<1> QED
  BY <1>1, <1>2, <1>3, <1>4, <1>5, OnLaunchOrders, OnDisconnectOrders DEF Door!Next

DoorPart == part = "door" => DoorInv

LEMMA DoorPartKeeps ==
  ASSUME DoorPart, [PartsNext]_allVars
  PROVE  DoorPart'
<1> SUFFICES ASSUME part' = "door" PROVE DoorInv'
  BY DEF DoorPart
<1>1. part = "door"
  BY DEF PartsNext, allVars
<1>2. CASE Door!Next
  BY <1>1, <1>2, DoorKeeps DEF DoorPart
<1>3. CASE UNCHANGED tableVars
  BY <1>1, <1>3, DoorUnchanged DEF DoorPart, tableVars
<1> QED
  BY <1>1, <1>2, <1>3 DEF PartsNext, allVars

(* For any number of players, knocks and events, the door lets the players *)
(* in in the order of the last /launch: when one of the list was let in,   *)
(* so were all before it, or they are gone (processPendingEnumRequests     *)
(* with setPlayerInviteOrder).                                             *)
THEOREM DoorKeepsOrder == PartsSpec => []AdmittedInOrder
<1>1. PartsInit => DoorPart
  BY DoorInit DEF PartsInit, DoorPart, Tables!Init, Door!Init, Tables!Empty, Door!Empty,
                  Tables!NoPort, Door!NoPort
<1>2. DoorPart /\ [PartsNext]_allVars => DoorPart'
  BY DoorPartKeeps
<1>3. DoorPart => AdmittedInOrder
  BY DEF DoorPart, DoorInv, AdmittedInOrder
<1> QED
  BY <1>1, <1>2, <1>3, PTL DEF PartsSpec
=============================================================================
