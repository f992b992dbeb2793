------------------------- MODULE DuplicateDetection -------------------------
(***************************************************************************)
(* taflib::DuplicateDetection: a packet is a likely duplicate when its     *)
(* checksum is among the last EXPIRY_QUEUE_LENGTH checksums that were not. *)
(* The checksums are kept twice: in sets, one per value of their low byte, *)
(* that are looked up, and in a queue that says which one expires next.    *)
(* Both TafnetNode (unbuffered datagrams) and TAPacketParser (packets to   *)
(* everybody) drop what isLikelyDuplicate reports.                         *)
(***************************************************************************)
EXTENDS Naturals, Sequences

CONSTANTS
  Packet,               \* source, destination and data of the calls
  CrcOf,                \* CrcOf[x]: the checksum of packet x
  Buckets,              \* 0x100
  EXPIRY_QUEUE_LENGTH,
  MaxPassed             \* bound: packets that are not duplicates

ASSUME ConstantsAssumption ==
  /\ CrcOf \in [Packet -> Nat]
  /\ Buckets \in Nat \ {0}
  /\ EXPIRY_QUEUE_LENGTH \in Nat \ {0}
  /\ MaxPassed \in Nat

VARIABLES
  seenPacketCRCs,            \* seenPacketCRCs[h]: the set of bucket h
  seenPacketCRCExpiryQueue,
  passed                     \* history: checksums of the packets passed on

vars == <<seenPacketCRCs, seenPacketCRCExpiryQueue, passed>>

Hash(crc) == crc % Buckets

Init ==
  /\ seenPacketCRCs = [h \in 0..(Buckets - 1) |-> {}]
  /\ seenPacketCRCExpiryQueue = <<>>
  /\ passed = <<>>

Inserted(seen, crc) == [seen EXCEPT ![Hash(crc)] = @ \cup {crc}]

Erased(seen, crc) == [seen EXCEPT ![Hash(crc)] = @ \ {crc}]

(* Mutant: a checksum leaves the queue and stays in its set. *)
ExpireQueueOnly(seen, queue) ==
  IF Len(queue) > EXPIRY_QUEUE_LENGTH
  THEN [seen |-> seen, queue |-> Tail(queue)]
  ELSE [seen |-> seen, queue |-> queue]

(* The while loop: the queue has grown by one, so at most one expires. *)
Expire(seen, queue) ==
  IF Len(queue) > EXPIRY_QUEUE_LENGTH
  THEN [seen |-> Erased(seen, Head(queue)), queue |-> Tail(queue)]
  ELSE [seen |-> seen, queue |-> queue]

(* What insert() returns. *)
Found(crc) == crc \in seenPacketCRCs[Hash(crc)]

(* isLikelyDuplicate(): a packet that is found changes nothing. *)
IsLikelyDuplicate(x) ==
  LET crc == CrcOf[x]
      after == Expire(Inserted(seenPacketCRCs, crc), Append(seenPacketCRCExpiryQueue, crc))
  IN  \/ Found(crc) /\ UNCHANGED vars
      \/ /\ ~Found(crc)
         /\ Len(passed) < MaxPassed
         /\ seenPacketCRCs' = after.seen
         /\ seenPacketCRCExpiryQueue' = after.queue
         /\ passed' = Append(passed, crc)

Next == \E x \in Packet : IsLikelyDuplicate(x)

Spec == Init /\ [][Next]_vars

-----------------------------------------------------------------------------
(* The types of the members, and the limit of the queue. *)
TypeOK ==
  /\ seenPacketCRCs \in [0..(Buckets - 1) -> SUBSET Nat]
  /\ seenPacketCRCExpiryQueue \in Seq(Nat)
  /\ Len(seenPacketCRCExpiryQueue) <= EXPIRY_QUEUE_LENGTH
  /\ passed \in Seq(Nat)

(* Place i of passed is among the last EXPIRY_QUEUE_LENGTH. *)
Recent(i) == Len(passed) < i + EXPIRY_QUEUE_LENGTH

(* isLikelyDuplicate answers true for the checksums of the last            *)
(* EXPIRY_QUEUE_LENGTH packets it let pass and for no others, so the sets  *)
(* and the queue agree after any number of expiries: nothing is forgotten  *)
(* early, and no checksum blocks its packets for ever.                     *)
DuplicateIffRecent ==
  \A x \in Packet :
    Found(CrcOf[x]) <=>
      \E i \in 1..Len(passed) : Recent(i) /\ passed[i] = CrcOf[x]

(* Between two packets with the same checksum that both pass there are     *)
(* EXPIRY_QUEUE_LENGTH others, so no checksum is twice in the queue and    *)
(* erasing the front never erases a later entry.                           *)
RepeatsAreFarApart ==
  \A i, j \in 1..Len(passed) :
    i < j /\ passed[i] = passed[j] => i + EXPIRY_QUEUE_LENGTH < j
=============================================================================
