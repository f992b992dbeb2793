----------------------------- MODULE ResendRate -----------------------------
(***************************************************************************)
(* TafnetNode::ResendRate: how many copies of a packet are sent to a peer. *)
(* Sends and acknowledgements are counted; both counts are halved from     *)
(* time to time, and a packet that is sent r times counts for r - 1.       *)
(*                                                                         *)
(* The network loses packets for a while.  Then every packet is            *)
(* acknowledged while at most Window others are under way.                 *)
(***************************************************************************)
EXTENDS Integers

CONSTANTS
  MaxRate,     \* MAXRATE
  HalveAbove,  \* 32
  Window,      \* packets that are not acknowledged at one time
  MaxLost      \* bound: packets that are lost

ConstantsOK ==
  /\ MaxRate \in Nat \ {0, 1} /\ HalveAbove \in Nat \ {0}
  /\ Window \in Nat \ {0} /\ MaxLost \in Nat

VARIABLES
  sendCount, ackCount,
  waiting,   \* packets sent that will be acknowledged
  lost       \* packets sent that will not

vars == <<sendCount, ackCount, waiting, lost>>

Init == sendCount = 0 /\ ackCount = 0 /\ waiting = 0 /\ lost = 0

(* Mutant: only the acknowledgements fade. *)
HalvedAcks(c) == IF c.ack > HalveAbove THEN [send |-> c.send, ack |-> c.ack \div 2] ELSE c

(* The counts after the first lines of getResendRate. *)
Halved(c) == IF c.ack > HalveAbove THEN [send |-> c.send \div 2, ack |-> c.ack \div 2] ELSE c

Ratio(c) ==
  IF c.send <= c.ack THEN 1
  ELSE IF c.ack = 0 THEN c.send ELSE c.send \div c.ack

Rate(c) == IF Ratio(c) > MaxRate THEN MaxRate ELSE Ratio(c)

(* The send count is cut back when the ratio exceeds the limit. *)
Capped(c) ==
  IF Ratio(c) > MaxRate /\ c.ack > 0 THEN [c EXCEPT !.send = c.ack * (MaxRate + 1) - 1] ELSE c

Counts == [send |-> sendCount, ack |-> ackCount]

(* getResendRate(true), and the rate it returns. *)
SentRate == Rate(Halved(Counts))

CountSend ==
  LET c == Capped(Halved(Counts))
  IN /\ sendCount' = c.send + (IF SentRate - 1 > 1 THEN SentRate - 1 ELSE 1)
     /\ ackCount' = c.ack

(* forwardGameData. *)
Send ==
  /\ waiting < Window
  /\ CountSend
  /\ waiting' = waiting + 1
  /\ UNCHANGED lost

SendLost ==
  /\ lost < MaxLost
  /\ CountSend
  /\ lost' = lost + 1
  /\ UNCHANGED waiting

(* TCP_ACK. *)
Ack ==
  /\ waiting > 0
  /\ ackCount' = ackCount + 1
  /\ waiting' = waiting - 1
  /\ UNCHANGED <<sendCount, lost>>

Next == Send \/ SendLost \/ Ack

Spec == Init /\ [][Next]_vars

(* There is always something to send, and it is acknowledged. *)
FairSpec == Spec /\ WF_vars(Send) /\ WF_vars(Ack)

-----------------------------------------------------------------------------
(* When the loss is over, packets are sent once again. *)
SpammingStops == <>[](SentRate = 1)
=============================================================================
