-------------------------- MODULE TafnetNodeProofs --------------------------
(***************************************************************************)
(* In-order, exactly-once delivery of the buffered half of TafnetNode, for *)
(* every set of nodes, every number of messages and fragments and every    *)
(* resend limit.  n is the sender and p the receiver throughout.           *)
(***************************************************************************)
EXTENDS TafnetNode, TLAPS, SequenceTheorems

(* The fragments pushed are those of the messages sent, in order: each     *)
(* names its message and its place in it, the last one of a message and no *)
(* other carries the action of the message, and each one follows the one   *)
(* before it.                                                              *)
MessagesOK(n, p) ==
  \A no \in 1..Len(sent[n][p]) :
    /\ sent[n][p][no].action # "MORE"
    /\ Len(sent[n][p][no].buf) >= 1
    /\ \A i \in 1..Len(sent[n][p][no].buf) : sent[n][p][no].buf[i] = <<no, i>>

FragmentOK(n, p, x) ==
  /\ x.bytes[1] \in 1..Len(sent[n][p])
  /\ x.bytes[2] \in 1..Len(sent[n][p][x.bytes[1]].buf)
  /\ x.action = IF x.bytes[2] < Len(sent[n][p][x.bytes[1]].buf)
                THEN "MORE" ELSE sent[n][p][x.bytes[1]].action

After(x) == IF x.action = "MORE" THEN <<x.bytes[1], x.bytes[2] + 1>>
                                 ELSE <<x.bytes[1] + 1, 1>>

PushedOK(n, p) ==
  LET L == pushed[n][p]
  IN  /\ \A s \in 1..Len(L) : FragmentOK(n, p, L[s])
      /\ L # <<>> => L[1].bytes = <<1, 1>>
      /\ \A s \in 1..(Len(L) - 1) : L[s + 1].bytes = After(L[s])
      /\ L = <<>> => sent[n][p] = <<>>
      /\ L # <<>> => /\ L[Len(L)].bytes[1] = Len(sent[n][p])
                     /\ L[Len(L)].action # "MORE"

(* Before the first connectToPeer there is nothing. *)
UnconnectedOK(n, p) ==
  connects[n][p] = 0 =>
    /\ p \notin peers[n]
    /\ pushed[n][p] = <<>>
    /\ handled[n][p] = <<>>
    /\ receiveBuffer[n][p].nextPop = 1
    /\ DOMAIN receiveBuffer[n][p].data = {}
    /\ \A d \in net : ~(d.src = n /\ d.dst = p)
    /\ \A d \in net : ~(d.src = p /\ d.dst = n /\ d.action = "TCP_ACK")

(* The send buffer and the data in flight hold what was pushed. *)
SenderOK(n, p) ==
  connects[n][p] <= 1 =>
    /\ p \in peers[n] => sendBuffer[n][p].nextPush = Len(pushed[n][p]) + 1
    /\ DOMAIN sendBuffer[n][p].data \subseteq 1..Len(pushed[n][p])
    /\ \A s \in DOMAIN sendBuffer[n][p].data : sendBuffer[n][p].data[s] = pushed[n][p][s]
    /\ \A d \in net :
         d.src = n /\ d.dst = p /\ d.action \notin ControlAction =>
           /\ d.seq \in 1..Len(pushed[n][p])
           /\ d.action = pushed[n][p][d.seq].action
           /\ d.bytes = pushed[n][p][d.seq].bytes

(* The receive buffer holds what was pushed and not popped yet. *)
WaitingOK(n, p) ==
  FirstSession(n, p) =>
    /\ DOMAIN receiveBuffer[p][n].data \subseteq
         receiveBuffer[p][n].nextPop .. Len(pushed[n][p])
    /\ \A s \in DOMAIN receiveBuffer[p][n].data :
         receiveBuffer[p][n].data[s] = pushed[n][p][s]
    /\ n \notin peers[p] => DOMAIN receiveBuffer[p][n].data = {}

(* What has been popped is the messages handled and the part of the next   *)
(* one in the reassembly buffer.                                           *)
PoppedOK(n, p) ==
  LET pop == receiveBuffer[p][n].nextPop
      r   == reassemblyBuffer[p][n]
      x   == pushed[n][p][pop - 1]
  IN  FirstSession(n, p) /\ n \in peers[p] =>
        /\ pop <= Len(pushed[n][p]) + 1
        /\ pop = 1 => r = <<>> /\ handled[p][n] = <<>>
        /\ pop > 1 /\ x.action = "MORE" => /\ Len(handled[p][n]) = x.bytes[1] - 1
                                           /\ Len(r) = x.bytes[2]
                                           /\ \A i \in 1..Len(r) : r[i] = <<x.bytes[1], i>>
        /\ pop > 1 /\ x.action # "MORE" => /\ Len(handled[p][n]) = x.bytes[1]
                                           /\ r = <<>>

PrefixOK(n, p) ==
  FirstSession(n, p) =>
    /\ Len(handled[p][n]) <= Len(sent[n][p])
    /\ \A i \in 1..Len(handled[p][n]) : handled[p][n][i] = sent[n][p][i]

(* An ACK in flight is for a fragment the receiver has. *)
Joined(n, p) == Open(n, p) /\ (Open(p, n) \/ connects[p][n] = 0)

Has(p, n, s) == s \in DOMAIN receiveBuffer[p][n].data \/ s < receiveBuffer[p][n].nextPop

AckOK(n, p) ==
  Joined(n, p) =>
    /\ \A d \in net : d.src = p /\ d.dst = n /\ d.action = "TCP_ACK" => Has(p, n, d.seq)
    /\ \A s \in 1..Len(pushed[n][p]) : s \in DOMAIN sendBuffer[n][p].data \/ Has(p, n, s)

LinkOK(n, p) ==
  /\ MessagesOK(n, p)
  /\ PushedOK(n, p)
  /\ UnconnectedOK(n, p)
  /\ SenderOK(n, p)
  /\ WaitingOK(n, p)
  /\ PoppedOK(n, p)
  /\ PrefixOK(n, p)
  /\ AckOK(n, p)

IInv == TypeOK /\ \A n, p \in Node : LinkOK(n, p)

-----------------------------------------------------------------------------
(* The operations of DataBuffer keep a buffer a buffer. *)
LEMMA EmptyBufferType == IsBuffer(EmptyBuffer)
  BY DEF IsBuffer, EmptyBuffer, Buffer

\* DataBuffer::insert keeps a buffer well typed.
LEMMA InsertType ==
  ASSUME NEW b, IsBuffer(b), NEW seq \in Nat \ {0}, NEW x \in Payload
  PROVE  IsBuffer(Insert(b, seq, x))
  BY DEF IsBuffer, Insert, Store, Buffer

\* DataBuffer::ackData keeps a buffer well typed.
LEMMA AckDataType ==
  ASSUME NEW b, IsBuffer(b), NEW seq \in Nat
  PROVE  IsBuffer(AckData(b, seq))
  BY DEF IsBuffer, AckData, Erase, Buffer

\* Popping the next expected payload keeps a buffer well typed.
LEMMA PopType ==
  ASSUME NEW b, IsBuffer(b)
  PROVE  IsBuffer(Pop(b))
  BY DEF IsBuffer, Pop, Erase, Buffer

\* Pushing fragments behind the last sequence number keeps a buffer well typed.
LEMMA PushBackAllType ==
  ASSUME NEW b, IsBuffer(b), NEW xs \in Seq(Payload)
  PROVE  IsBuffer(PushBackAll(b, xs))
  BY DEF IsBuffer, PushBackAll, Buffer

(* The fragments of a message are a sequence of payloads, its bytes a      *)
(* sequence of byte groups.                                                *)
LEMMA FragmentsType ==
  ASSUME NEW action \in GameAction \cup {"HELLO"}, NEW no \in Nat, NEW k \in Nat
  PROVE  /\ Fragments(action, no, k) \in Seq(Payload)
         /\ Len(Fragments(action, no, k)) = k
         /\ Bytes(no, k) \in Seq(Nat \X Nat)
         /\ Len(Bytes(no, k)) = k
  BY DEF Fragments, Bytes, Payload

\* A node without peers is well typed.
LEMMA InitType == Init => TypeOK
  BY EmptyBufferType, EmptySeq DEF Init, TypeOK, AreBuffers

(* Replacing one buffer of a node by another leaves buffers. *)
LEMMA SetBuffer ==
  ASSUME NEW f, AreBuffers(f), NEW n \in Node, NEW p \in Node, NEW b, IsBuffer(b)
  PROVE  AreBuffers([f EXCEPT ![n][p] = b])
  <1> DEFINE g == [f EXCEPT ![n][p] = b]
  <1>1. DOMAIN g = Node /\ \A nn \in Node : DOMAIN g[nn] = Node
    BY DEF AreBuffers
  <1>2. \A nn, pp \in Node : g[nn][pp] = IF nn = n /\ pp = p THEN b ELSE f[nn][pp]
    BY DEF AreBuffers
  <1> QED BY <1>1, <1>2 DEF AreBuffers

\* What a send buffer holds is a payload under a positive sequence number.
LEMMA BufferedType ==
  ASSUME TypeOK, NEW n \in Node, NEW p \in Node, NEW s \in DOMAIN sendBuffer[n][p].data
  PROVE  s \in Nat \ {0} /\ sendBuffer[n][p].data[s] \in Payload
  <1>1. IsBuffer(sendBuffer[n][p])
    BY DEF TypeOK, AreBuffers
  <1> QED BY <1>1 DEF IsBuffer

\* A payload of a send buffer makes a well typed datagram.
LEMMA DataType ==
  ASSUME NEW n \in Node, NEW p \in Node, NEW s \in Nat \ {0}, NEW x \in Payload
  PROVE  Data(n, p, s, x) \in Datagram
  BY DEF Data, Datagram, Payload

(* What Forward does, for a message of at least one fragment. *)
LEMMA ForwardType ==
  ASSUME TypeOK, NEW n \in Node, NEW p \in Node, NEW b, IsBuffer(b),
         NEW action \in GameAction \cup {"HELLO"}, NEW k \in Nat \ {0},
         Forward(n, p, b, action, k)
  PROVE  /\ AreBuffers(sendBuffer')
         /\ net' \in SUBSET Datagram
         /\ sent' \in [Node -> [Node -> Seq(Message)]]
         /\ pushed' \in [Node -> [Node -> Seq(Payload)]]
  <1> DEFINE no == Len(sent[n][p]) + 1
             frags == Fragments(action, no, k)
             m == [action |-> action, buf |-> Bytes(no, k)]
  <1>1. no \in Nat /\ sent[n][p] \in Seq(Message) /\ pushed[n][p] \in Seq(Payload)
    BY DEF TypeOK
  <1>2. frags \in Seq(Payload) /\ Len(frags) = k /\ m \in Message
    BY <1>1, FragmentsType DEF Message
  <1> HIDE DEF no, frags, m
  <1>3. /\ sendBuffer' = [sendBuffer EXCEPT ![n][p] = PushBackAll(b, frags)]
        /\ net' = net \cup {Data(n, p, b.nextPush + i - 1, frags[i]) : i \in 1..k}
        /\ sent' = [sent EXCEPT ![n][p] = Append(@, m)]
        /\ pushed' = [pushed EXCEPT ![n][p] = @ \o frags]
    BY DEF Forward, no, frags, m
  <1>4. IsBuffer(PushBackAll(b, frags))
    BY <1>2, PushBackAllType
  <1>5. AreBuffers(sendBuffer')
    BY <1>3, <1>4, SetBuffer DEF TypeOK
  <1>6. ASSUME NEW i \in 1..k
        PROVE  Data(n, p, b.nextPush + i - 1, frags[i]) \in Datagram
    <2>1. b.nextPush + i - 1 \in Nat \ {0}
      BY DEF IsBuffer
    <2>2. frags[i] \in Payload
      BY <1>2
    <2> QED BY <2>1, <2>2, DataType
  <1>7. net' \in SUBSET Datagram
    BY <1>3, <1>6 DEF TypeOK
  <1>8. Append(sent[n][p], m) \in Seq(Message) /\ pushed[n][p] \o frags \in Seq(Payload)
    BY <1>1, <1>2
  <1>9. sent' \in [Node -> [Node -> Seq(Message)]] /\ pushed' \in [Node -> [Node -> Seq(Payload)]]
    BY <1>3, <1>8 DEF TypeOK
  <1> QED BY <1>5, <1>7, <1>9

(* What onReadyRead sends in reply is well formed. *)
LEMMA ControlType ==
  ASSUME NEW n \in Node, NEW p \in Node, NEW action \in ControlAction, NEW s \in Nat \ {0}
  PROVE  Control(n, p, action, s) \in Datagram
  BY DEF Control, Datagram, NoBytes

\* A resend request is a well typed datagram.
LEMMA ResendRequestsType ==
  ASSUME NEW n \in Node, NEW p \in Node, NEW b, IsBuffer(b), NEW enabled
  PROVE  ResendRequests(n, p, b, enabled) \subseteq Datagram
  <1> SUFFICES ASSUME NEW s \in b.nextPop .. (b.nextPop + MAX_RESEND_REQ - 1)
               PROVE  Control(n, p, "TCP_RESEND", s) \in Datagram
    BY DEF ResendRequests
  <1>1. s \in Nat \ {0}
    BY ConstantsAssumption DEF IsBuffer
  <1> QED BY <1>1, ControlType DEF ControlAction

\* Every handler of TafnetNode preserves the types.
LEMMA NextType == TypeOK /\ [Next]_vars => TypeOK'
  <1> SUFFICES ASSUME TypeOK, [Next]_vars PROVE TypeOK'
    OBVIOUS
  <1>1. ASSUME NEW n \in Node, NEW p \in Node,
               NEW action \in GameAction, NEW k \in 1..MaxFragments,
               ForwardGameData(n, p, action, k)
        PROVE  TypeOK'
    <2>1. IsBuffer(sendBuffer[n][p]) /\ k \in Nat \ {0}
      BY ConstantsAssumption DEF TypeOK, AreBuffers
    <2>2. Forward(n, p, sendBuffer[n][p], action, k)
      BY <1>1 DEF ForwardGameData
    <2> QED BY <1>1, <2>1, <2>2, ForwardType DEF ForwardGameData, TypeOK
  <1>2. ASSUME NEW n \in Node, NEW p \in Node, ConnectToPeer(n, p)
        PROVE  TypeOK'
    <2>1. Forward(n, p, EmptyBuffer, "HELLO", 1)
      BY <1>2 DEF ConnectToPeer
    <2>2. /\ AreBuffers(sendBuffer')
          /\ net' \in SUBSET Datagram
          /\ sent' \in [Node -> [Node -> Seq(Message)]]
          /\ pushed' \in [Node -> [Node -> Seq(Payload)]]
      BY <2>1, ForwardType, EmptyBufferType
    <2>3. AreBuffers(receiveBuffer')
      BY <1>2, EmptyBufferType, SetBuffer DEF ConnectToPeer, TypeOK
    <2>4. /\ peers' \in [Node -> SUBSET Node]
          /\ reassemblyBuffer' \in [Node -> [Node -> Seq(Nat \X Nat)]]
          /\ resendRequestEnabled' \in [Node -> [Node -> BOOLEAN]]
          /\ handled' \in [Node -> [Node -> Seq(Message)]]
      BY <1>2, EmptySeq DEF ConnectToPeer, TypeOK
    <2>5. connects' \in [Node -> [Node -> Nat]]
      <3>1. connects[n][p] \in Nat
        BY DEF TypeOK
      <3>2. connects' = [connects EXCEPT ![n][p] = connects[n][p] + 1]
        BY <1>2 DEF ConnectToPeer
      <3>3. connects[n][p] + 1 \in Nat
        BY <3>1
      <3> QED BY <3>2, <3>3 DEF TypeOK
    <2> QED BY <2>2, <2>3, <2>4, <2>5 DEF TypeOK
  <1>3. ASSUME NEW n \in Node, NEW p \in Node, DisconnectFromPeer(n, p)
        PROVE  TypeOK'
    <2>1. AreBuffers(receiveBuffer') /\ AreBuffers(sendBuffer')
      BY <1>3, EmptyBufferType, SetBuffer DEF DisconnectFromPeer, TypeOK
    <2> QED BY <1>3, <2>1, EmptySeq DEF DisconnectFromPeer, TypeOK, history
  <1>4. ASSUME NEW n \in Node, NEW p \in Node, DrainReceiveBuffer(n, p)
        PROVE  TypeOK'
    <2> DEFINE rb == receiveBuffer[n][p]
               x == rb.data[rb.nextPop]
               r == Append(reassemblyBuffer[n][p], x.bytes)
    <2>0. IsBuffer(rb) /\ ReadyRead(rb)
      BY <1>4 DEF TypeOK, AreBuffers, DrainReceiveBuffer
    <2>1. IsBuffer(rb) /\ IsBuffer(Pop(rb)) /\ x \in Payload
      BY <2>0, PopType DEF IsBuffer, ReadyRead
    <2>2. r \in Seq(Nat \X Nat)
      <3>1. reassemblyBuffer[n][p] \in Seq(Nat \X Nat)
        BY DEF TypeOK
      <3>2. x.bytes \in Nat \X Nat
        BY <2>1 DEF Payload
      <3> QED BY <3>1, <3>2
    <2>3. x.action # "MORE" => [action |-> x.action, buf |-> r] \in Message
      BY <2>1, <2>2 DEF Payload, Message
    <2>4. ResendRequests(n, p, Pop(rb), TRUE) \subseteq Datagram
      BY <2>1, ResendRequestsType
    <2>5. receiveBuffer' = [receiveBuffer EXCEPT ![n][p] = Pop(rb)]
      BY <1>4 DEF DrainReceiveBuffer
    <2>6. AreBuffers(receiveBuffer')
      BY <2>5, <2>1, SetBuffer DEF TypeOK
    <2>7. reassemblyBuffer' \in [Node -> [Node -> Seq(Nat \X Nat)]]
      BY <1>4, <2>2, EmptySeq DEF DrainReceiveBuffer, TypeOK
    <2>8. handled' \in [Node -> [Node -> Seq(Message)]]
      <3>1. handled[n][p] \in Seq(Message)
        BY DEF TypeOK
      <3>2. x.action # "MORE" =>
              Append(handled[n][p], [action |-> x.action, buf |-> r]) \in Seq(Message)
        BY <2>3, <3>1
      <3> QED BY <1>4, <3>1, <3>2 DEF DrainReceiveBuffer, TypeOK
    <2>9. resendRequestEnabled' \in [Node -> [Node -> BOOLEAN]]
      BY <1>4 DEF DrainReceiveBuffer, TypeOK, NeedsResend
    <2>10. net' \in SUBSET Datagram
      BY <1>4, <2>4 DEF DrainReceiveBuffer, TypeOK
    <2>11. UNCHANGED <<peers, sendBuffer, sent, pushed, connects>>
      BY <1>4 DEF DrainReceiveBuffer
    <2> HIDE DEF rb, x, r
    <2> QED BY <2>6, <2>7, <2>8, <2>9, <2>10, <2>11 DEF TypeOK
  <1>5. ASSUME NEW n \in Node, NEW oldest \in [peers[n] -> 0..MaxSeq(n)],
               OnResendTimer(n, oldest)
        PROVE  TypeOK'
    <2>1. ASSUME NEW p \in peers[n], NEW s \in DOMAIN sendBuffer[n][p].data
          PROVE  Data(n, p, s, sendBuffer[n][p].data[s]) \in Datagram
      <3>1. p \in Node
        BY DEF TypeOK
      <3> QED BY <3>1, BufferedType, DataType
    <2>3. \A p \in peers[n] : Resends(n, p, oldest[p]) \subseteq Datagram
      BY <2>1 DEF Resends, TimedOut
    <2>2. net' \in SUBSET Datagram
      BY <1>5, <2>3 DEF OnResendTimer, TypeOK
    <2> QED BY <1>5, <2>2 DEF OnResendTimer, TypeOK, buffers, history
  <1>6. ASSUME NEW n \in Node, OnResendReqReenableTimer(n)
        PROVE  TypeOK'
    BY <1>6 DEF OnResendReqReenableTimer, TypeOK, history
  <1>7. ASSUME NEW d \in net, ReceiveUnknown(d)
        PROVE  TypeOK'
    BY <1>7 DEF ReceiveUnknown, Consume, TypeOK, buffers, history
  <1>8. ASSUME NEW d \in net, ReceiveAck(d)
        PROVE  TypeOK'
    <2>1. d \in Datagram /\ d.dst \in Node /\ d.src \in Node
          /\ IsBuffer(sendBuffer[d.dst][d.src])
      BY DEF TypeOK, Datagram, AreBuffers
    <2>2. IsBuffer(AckData(sendBuffer[d.dst][d.src], d.seq))
      BY <2>1, AckDataType DEF Datagram
    <2>3. AreBuffers(sendBuffer')
      BY <1>8, <2>1, <2>2, SetBuffer DEF ReceiveAck, TypeOK
    <2> QED BY <1>8, <2>3 DEF ReceiveAck, Consume, TypeOK, history
  <1>9. ASSUME NEW d \in net, ReceiveResend(d)
        PROVE  TypeOK'
    <2>1. d \in Datagram /\ d.dst \in Node /\ d.src \in Node
      BY DEF TypeOK, Datagram
    <2>2. {Data(d.dst, d.src, s, sendBuffer[d.dst][d.src].data[s]) :
             s \in DOMAIN sendBuffer[d.dst][d.src].data \cap {d.seq}} \subseteq Datagram
      BY <2>1, BufferedType, DataType
    <2>3. net' \in SUBSET Datagram
      BY <1>9, <2>2 DEF ReceiveResend, Consume, TypeOK
    <2> QED BY <1>9, <2>3 DEF ReceiveResend, TypeOK, buffers, history
  <1>10. ASSUME NEW d \in net, ReceiveData(d)
         PROVE  TypeOK'
    <2> DEFINE n == d.dst
               p == d.src
               b == Insert(receiveBuffer[n][p], d.seq, [action |-> d.action, bytes |-> d.bytes])
               enabled == resendRequestEnabled[n][p]
    <2>1. n \in Node /\ p \in Node /\ d.seq \in Nat \ {0}
          /\ [action |-> d.action, bytes |-> d.bytes] \in Payload
      BY <1>10 DEF TypeOK, Datagram, Payload, ReceiveData
    <2>2. IsBuffer(b)
      BY <2>1, InsertType DEF TypeOK, AreBuffers
    <2>3. ResendRequests(n, p, b, enabled) \subseteq Datagram
      BY <2>1, <2>2, ResendRequestsType
    <2>4. Control(n, p, "TCP_ACK", d.seq) \in Datagram
      BY <2>1, ControlType DEF ControlAction
    <2>5. net' \in SUBSET Datagram
      BY <1>10, <2>3, <2>4 DEF ReceiveData, Consume, TypeOK
    <2>6. receiveBuffer' = [receiveBuffer EXCEPT ![n][p] = b]
      BY <1>10 DEF ReceiveData
    <2>7. AreBuffers(receiveBuffer')
      BY <2>6, <2>2, <2>1, SetBuffer DEF TypeOK
    <2>8. resendRequestEnabled' \in [Node -> [Node -> BOOLEAN]]
      BY <1>10, <2>1 DEF ReceiveData, TypeOK, NeedsResend
    <2>9. UNCHANGED <<peers, sendBuffer, reassemblyBuffer, history>>
      BY <1>10 DEF ReceiveData
    <2> HIDE DEF n, p, b, enabled
    <2> QED BY <2>5, <2>7, <2>8, <2>9 DEF TypeOK, history
  <1>11. ASSUME NEW d \in net, Lose(d)
         PROVE  TypeOK'
    BY <1>11 DEF Lose, TypeOK, buffers, history
  <1>12. CASE UNCHANGED vars
    BY <1>12 DEF vars, buffers, history, TypeOK
  <1> QED
    BY <1>1, <1>2, <1>3, <1>4, <1>5, <1>6, <1>7, <1>8, <1>9, <1>10, <1>11, <1>12
       DEF Next, Receive

(* The maps of TafnetNode hold well formed payloads under positive         *)
(* sequence numbers, and the network well formed datagrams, always.        *)
THEOREM TypeCorrect == Spec => []TypeOK
  BY InitType, NextType, PTL DEF Spec

-----------------------------------------------------------------------------
(* Steps that only lose datagrams or send again what is in a send buffer:  *)
(* both timers, a resend request, a lost or a dropped datagram.            *)
Resent(d) ==
  /\ d.src \in Node
  /\ d.dst \in peers[d.src]
  /\ d.seq \in DOMAIN sendBuffer[d.src][d.dst].data
  /\ d.action = sendBuffer[d.src][d.dst].data[d.seq].action
  /\ d.bytes = sendBuffer[d.src][d.dst].data[d.seq].bytes
  /\ d.action \notin ControlAction

\* A step that only puts fragments of send buffers on the network again preserves LinkOK.
LEMMA ResendStep ==
  ASSUME IInv, NEW n \in Node, NEW p \in Node,
         UNCHANGED <<peers, sendBuffer, receiveBuffer, reassemblyBuffer, history>>,
         \A d \in net' : d \in net \/ Resent(d)
  PROVE  LinkOK(n, p)'
  <1>1. LinkOK(n, p)
    BY DEF IInv
  <1>2. MessagesOK(n, p)' /\ PushedOK(n, p)'
    BY <1>1 DEF LinkOK, MessagesOK, PushedOK, FragmentOK, After, history
  <1>3. UnconnectedOK(n, p)'
    BY <1>1 DEF LinkOK, UnconnectedOK, Resent, ControlAction, history
  <1>4. SenderOK(n, p)'
    <2>1. UNCHANGED <<peers, sendBuffer, pushed, connects>>
      BY DEF history
    <2>2. SUFFICES ASSUME connects[n][p] <= 1 PROVE SenderOK(n, p)'
      BY <2>1 DEF SenderOK
    <2>3. SenderOK(n, p)
      BY <1>1 DEF LinkOK
    <2>4. ASSUME NEW d \in net', d.src = n, d.dst = p, d.action \notin ControlAction
          PROVE  /\ d.seq \in 1..Len(pushed[n][p])
                 /\ d.action = pushed[n][p][d.seq].action
                 /\ d.bytes = pushed[n][p][d.seq].bytes
      <3>1. CASE d \in net
        BY <2>2, <2>3, <2>4, <3>1 DEF SenderOK
      <3>2. CASE Resent(d)
        BY <2>2, <2>3, <2>4, <3>2 DEF SenderOK, Resent
      <3> QED BY <3>1, <3>2
    <2> QED BY <2>1, <2>2, <2>3, <2>4 DEF SenderOK
  <1>5. WaitingOK(n, p)' /\ PrefixOK(n, p)'
    BY <1>1 DEF LinkOK, WaitingOK, PrefixOK, FirstSession, history
  <1>6. PoppedOK(n, p)'
    BY <1>1 DEF LinkOK, PoppedOK, FirstSession, history
  <1>7. AckOK(n, p)'
    BY <1>1 DEF LinkOK, AckOK, Joined, Open, Has, Resent, ControlAction, history
  <1> QED BY <1>2, <1>3, <1>4, <1>5, <1>6, <1>7 DEF LinkOK

(* ackData: an ACK in flight is for a fragment the receiver has. *)
LEMMA ReceiveAckStep ==
  ASSUME IInv, NEW n \in Node, NEW p \in Node, NEW d \in net, ReceiveAck(d)
  PROVE  LinkOK(n, p)'
  <1> DEFINE b == sendBuffer[n][p]
  <1>1. LinkOK(n, p) /\ IsBuffer(b) /\ d.dst \in Node /\ d.src \in Node
    BY DEF IInv, TypeOK, AreBuffers, Datagram
  <1>2. UNCHANGED <<peers, receiveBuffer, reassemblyBuffer, sent, pushed, handled, connects>>
    BY DEF ReceiveAck, history
  <1>3. net' \subseteq net
    BY DEF ReceiveAck, Consume
  <1>4. sendBuffer'[n][p] = IF n = d.dst /\ p = d.src THEN AckData(b, d.seq) ELSE b
    BY <1>1 DEF ReceiveAck, IInv, TypeOK, AreBuffers
  <1>5. /\ DOMAIN sendBuffer'[n][p].data \subseteq DOMAIN b.data
        /\ \A s \in DOMAIN sendBuffer'[n][p].data : sendBuffer'[n][p].data[s] = b.data[s]
        /\ sendBuffer'[n][p].nextPush = b.nextPush
        /\ \A s \in DOMAIN b.data :
             s \in DOMAIN sendBuffer'[n][p].data \/ (n = d.dst /\ p = d.src /\ s = d.seq)
    BY <1>4 DEF AckData, Erase, Buffer
  <1>6. MessagesOK(n, p)' /\ PushedOK(n, p)'
    BY <1>1, <1>2 DEF LinkOK, MessagesOK, PushedOK, FragmentOK, After
  <1>7. UnconnectedOK(n, p)'
    BY <1>1, <1>2, <1>3 DEF LinkOK, UnconnectedOK
  <1>8. SenderOK(n, p)'
    BY <1>1, <1>2, <1>3, <1>5 DEF LinkOK, SenderOK
  <1>9. WaitingOK(n, p)' /\ PrefixOK(n, p)'
    BY <1>1, <1>2 DEF LinkOK, WaitingOK, PrefixOK, FirstSession
  <1>10. PoppedOK(n, p)'
    BY <1>1, <1>2 DEF LinkOK, PoppedOK, FirstSession
  <1>11. AckOK(n, p)'
    <2>1. n = d.dst /\ p = d.src /\ Joined(n, p) => Has(p, n, d.seq)
      BY <1>1 DEF LinkOK, AckOK, ReceiveAck
    <2> QED BY <1>1, <1>2, <1>3, <1>5, <2>1 DEF LinkOK, AckOK, Joined, Open, Has
  <1> QED BY <1>6, <1>7, <1>8, <1>9, <1>10, <1>11 DEF LinkOK

(* insert: data in flight is what was pushed, so is what is inserted, and  *)
(* the fragment is acknowledged when the receiver has it.                  *)
LEMMA ReceiveDataStep ==
  ASSUME IInv, NEW n \in Node, NEW p \in Node, NEW d \in net, ReceiveData(d)
  PROVE  LinkOK(n, p)'
  <1> DEFINE x == [action |-> d.action, bytes |-> d.bytes]
             b == receiveBuffer[p][n]
  <1>1. /\ LinkOK(n, p) /\ IsBuffer(b)
        /\ d.dst \in Node /\ d.src \in Node /\ d.seq \in Nat \ {0}
    BY DEF IInv, TypeOK, AreBuffers, Datagram
  <1>2. UNCHANGED <<peers, sendBuffer, reassemblyBuffer, sent, pushed, handled, connects>>
    BY DEF ReceiveData, history
  <1>3. /\ d.src \in peers[d.dst]
        /\ d.action \notin ControlAction
    BY DEF ReceiveData
  <1>4. \A e \in net' :
          \/ e \in net
          \/ e.src = d.dst /\ e.dst = d.src /\ e.action = "TCP_ACK" /\ e.seq = d.seq
          \/ e.src = d.dst /\ e.dst = d.src /\ e.action = "TCP_RESEND"
    <2>1. PICK bb, en :
            Consume(d, {Control(d.dst, d.src, "TCP_ACK", d.seq)}
                         \cup ResendRequests(d.dst, d.src, bb, en))
      BY DEF ReceiveData
    <2>2. \A e \in ResendRequests(d.dst, d.src, bb, en) :
            e.src = d.dst /\ e.dst = d.src /\ e.action = "TCP_RESEND"
      BY DEF ResendRequests, Control
    <2>3. LET ack == Control(d.dst, d.src, "TCP_ACK", d.seq)
          IN  ack.src = d.dst /\ ack.dst = d.src /\ ack.action = "TCP_ACK" /\ ack.seq = d.seq
      BY DEF Control
    <2> QED BY <2>1, <2>2, <2>3 DEF Consume
  <1>5. receiveBuffer'[p][n] = IF p = d.dst /\ n = d.src THEN Insert(b, d.seq, x) ELSE b
    BY <1>1 DEF ReceiveData, IInv, TypeOK, AreBuffers
  <1>6. /\ receiveBuffer'[p][n].nextPop = b.nextPop
        /\ DOMAIN b.data \subseteq DOMAIN receiveBuffer'[p][n].data
        /\ \A s \in DOMAIN receiveBuffer'[p][n].data :
             \/ s \in DOMAIN b.data /\ receiveBuffer'[p][n].data[s] = b.data[s]
             \/ /\ p = d.dst /\ n = d.src /\ s = d.seq /\ s >= b.nextPop
                /\ receiveBuffer'[p][n].data[s] = x
        /\ p = d.dst /\ n = d.src =>
             d.seq \in DOMAIN receiveBuffer'[p][n].data \/ d.seq < b.nextPop
    BY <1>1, <1>5 DEF Insert, Store, Buffer, IsBuffer
  <1>7. connects[d.dst][d.src] # 0
    BY <1>1, <1>3 DEF IInv, LinkOK, UnconnectedOK
  <1>8. MessagesOK(n, p)' /\ PushedOK(n, p)'
    BY <1>1, <1>2 DEF LinkOK, MessagesOK, PushedOK, FragmentOK, After
  <1>9. UnconnectedOK(n, p)'
    <2>1. SUFFICES ASSUME connects[n][p] = 0
                   PROVE  /\ receiveBuffer'[n][p].nextPop = 1
                          /\ DOMAIN receiveBuffer'[n][p].data = {}
                          /\ \A e \in net' : ~(e.src = n /\ e.dst = p)
                          /\ \A e \in net' :
                               ~(e.src = p /\ e.dst = n /\ e.action = "TCP_ACK")
      BY <1>1, <1>2 DEF LinkOK, UnconnectedOK
    <2>2. ~(n = d.dst /\ p = d.src) /\ ~(n = d.src /\ p = d.dst)
      BY <1>1, <1>7, <2>1 DEF LinkOK, UnconnectedOK
    <2>3. receiveBuffer'[n][p] = receiveBuffer[n][p]
      BY <1>1, <2>2 DEF ReceiveData, IInv, TypeOK, AreBuffers
    <2> QED BY <1>1, <1>4, <2>1, <2>2, <2>3 DEF LinkOK, UnconnectedOK
  <1>10. SenderOK(n, p)'
    BY <1>1, <1>2, <1>4 DEF LinkOK, SenderOK, ControlAction
  <1>11. WaitingOK(n, p)'
    <2>1. SUFFICES ASSUME FirstSession(n, p)
                   PROVE  /\ DOMAIN receiveBuffer'[p][n].data \subseteq
                               receiveBuffer'[p][n].nextPop .. Len(pushed[n][p])
                          /\ \A s \in DOMAIN receiveBuffer'[p][n].data :
                               receiveBuffer'[p][n].data[s] = pushed[n][p][s]
                          /\ n \notin peers[p] => DOMAIN receiveBuffer'[p][n].data = {}
      BY <1>2 DEF WaitingOK, FirstSession
    <2>2. p = d.dst /\ n = d.src => d.seq \in 1..Len(pushed[n][p]) /\ x = pushed[n][p][d.seq]
      <3>1. SUFFICES ASSUME p = d.dst, n = d.src
                     PROVE  d.seq \in 1..Len(pushed[n][p]) /\ x = pushed[n][p][d.seq]
        OBVIOUS
      <3>2. /\ d.seq \in 1..Len(pushed[n][p])
            /\ d.action = pushed[n][p][d.seq].action
            /\ d.bytes = pushed[n][p][d.seq].bytes
        BY <1>1, <1>3, <2>1, <3>1 DEF LinkOK, SenderOK, FirstSession
      <3>3. pushed[n][p] \in Seq(Payload)
        BY DEF IInv, TypeOK
      <3>4. pushed[n][p][d.seq] \in Payload
        BY <3>2, <3>3
      <3> QED BY <3>2, <3>4 DEF Payload
    <2>3. /\ DOMAIN b.data \subseteq b.nextPop .. Len(pushed[n][p])
          /\ \A s \in DOMAIN b.data : b.data[s] = pushed[n][p][s]
          /\ n \notin peers[p] => DOMAIN b.data = {}
      BY <1>1, <2>1 DEF LinkOK, WaitingOK
    <2>4. n \notin peers[p] => DOMAIN receiveBuffer'[p][n].data = {}
      BY <1>3, <1>6, <2>3
    <2>5. \A s \in DOMAIN receiveBuffer'[p][n].data :
            receiveBuffer'[p][n].data[s] = pushed[n][p][s]
      BY <1>6, <2>2, <2>3
    <2>6. DOMAIN receiveBuffer'[p][n].data \subseteq b.nextPop .. Len(pushed[n][p])
      <3>1. b.nextPop \in Nat /\ Len(pushed[n][p]) \in Nat
        <4>1. pushed[n][p] \in Seq(Payload)
          BY DEF IInv, TypeOK
        <4> QED BY <1>1, <4>1 DEF IsBuffer
      <3> QED BY <1>6, <2>2, <2>3, <3>1
    <2> QED BY <1>6, <2>4, <2>5, <2>6
  <1>12. PrefixOK(n, p)'
    BY <1>1, <1>2 DEF LinkOK, PrefixOK, FirstSession
  <1>13. PoppedOK(n, p)'
    BY <1>1, <1>2, <1>6 DEF LinkOK, PoppedOK, FirstSession
  <1>14. AckOK(n, p)'
    <2>1. \A s : Has(p, n, s) => Has(p, n, s)'
      BY <1>6 DEF Has
    <2>2. p = d.dst /\ n = d.src => Has(p, n, d.seq)'
      BY <1>6 DEF Has
    <2>3. Joined(n, p)' <=> Joined(n, p)
      BY <1>2 DEF Joined, Open
    <2> QED BY <1>1, <1>2, <1>4, <2>1, <2>2, <2>3 DEF LinkOK, AckOK
  <1> QED BY <1>8, <1>9, <1>10, <1>11, <1>12, <1>13, <1>14 DEF LinkOK

\* The bytes of a payload are a pair: message number and fragment number.
LEMMA PayloadBytes ==
  ASSUME NEW x \in Payload
  PROVE  /\ x.bytes[1] \in Nat /\ x.bytes[2] \in Nat
         /\ x.bytes = <<x.bytes[1], x.bytes[2]>>
  <1>1. x.bytes \in Nat \X Nat
    BY DEF Payload
  <1>2. \A z \in Nat \X Nat : z[1] \in Nat /\ z[2] \in Nat /\ z = <<z[1], z[2]>>
    OBVIOUS
  <1> QED BY <1>1, <1>2

(* The fragment p is about to pop is the next one of the message it is     *)
(* reassembling.                                                           *)
LEMMA NextFragment ==
  ASSUME IInv, NEW n \in Node, NEW p \in Node, FirstSession(n, p),
         ReadyRead(receiveBuffer[p][n])
  PROVE  LET b == receiveBuffer[p][n]
             x == b.data[b.nextPop]
             r == reassemblyBuffer[p][n]
         IN  /\ n \in peers[p]
             /\ b.nextPop \in 1..Len(pushed[n][p])
             /\ x = pushed[n][p][b.nextPop]
             /\ x \in Payload
             /\ FragmentOK(n, p, x)
             /\ Len(handled[p][n]) = x.bytes[1] - 1
             /\ Len(r) = x.bytes[2] - 1
             /\ \A i \in 1..Len(r) : r[i] = <<x.bytes[1], i>>
  <1> DEFINE b == receiveBuffer[p][n]
             L == pushed[n][p]
             x == b.data[b.nextPop]
             y == L[b.nextPop - 1]
             r == reassemblyBuffer[p][n]
  <1>1. LinkOK(n, p) /\ IsBuffer(b)
    BY DEF IInv, TypeOK, AreBuffers
  <1>2. L \in Seq(Payload) /\ r \in Seq(Nat \X Nat) /\ handled[p][n] \in Seq(Message)
    BY DEF IInv, TypeOK
  <1>3. n \in peers[p] /\ b.nextPop \in b.nextPop .. Len(L) /\ x = L[b.nextPop]
    BY <1>1 DEF LinkOK, WaitingOK, ReadyRead
  <1>4. b.nextPop \in 1..Len(L)
    BY <1>1, <1>2, <1>3 DEF IsBuffer
  <1>5. x \in Payload /\ FragmentOK(n, p, x)
    BY <1>1, <1>2, <1>3, <1>4 DEF LinkOK, PushedOK
  <1>6. CASE b.nextPop = 1
    <2>1. x.bytes = <<1, 1>>
      BY <1>1, <1>2, <1>3, <1>4, <1>6 DEF LinkOK, PushedOK
    <2>2. r = <<>> /\ handled[p][n] = <<>>
      BY <1>1, <1>3, <1>6 DEF LinkOK, PoppedOK
    <2>3. x.bytes[1] = 1 /\ x.bytes[2] = 1
      BY <2>1
    <2>4. Len(r) = 0 /\ Len(handled[p][n]) = 0
      BY <2>2
    <2>5. Len(handled[p][n]) = x.bytes[1] - 1 /\ Len(r) = x.bytes[2] - 1
      BY <2>3, <2>4
    <2>6. \A i \in 1..Len(r) : r[i] = <<x.bytes[1], i>>
      BY <2>4
    <2> HIDE DEF r, x
    <2> QED BY <1>3, <1>4, <1>5, <2>5, <2>6 DEF r, x
  <1>7. CASE b.nextPop > 1
    <2>1. b.nextPop - 1 \in 1..(Len(L) - 1)
      BY <1>2, <1>4, <1>7
    <2>2. y \in Payload /\ x.bytes = After(y)
      <3>1. L[(b.nextPop - 1) + 1].bytes = After(L[b.nextPop - 1])
        BY <1>1, <2>1 DEF LinkOK, PushedOK
      <3>2. (b.nextPop - 1) + 1 = b.nextPop
        BY <1>1 DEF IsBuffer
      <3>3. L[b.nextPop - 1] \in Payload
        <4> HIDE DEF L
        <4>1. b.nextPop - 1 \in 1..Len(L)
          BY <1>2, <2>1
        <4> QED BY <1>2, <4>1
      <3> HIDE DEF L, x, b
      <3> QED BY <1>3, <3>1, <3>2, <3>3
    <2>3. y.bytes[1] \in Nat /\ y.bytes[2] \in Nat
      BY <2>2, PayloadBytes
    <2>4. CASE y.action = "MORE"
      <3>1. x.bytes[1] = y.bytes[1] /\ x.bytes[2] = y.bytes[2] + 1
        <4> HIDE DEF x, y
        <4> QED BY <2>2, <2>4 DEF After
      <3>2. /\ Len(handled[p][n]) = y.bytes[1] - 1
            /\ Len(r) = y.bytes[2]
            /\ \A i \in 1..Len(r) : r[i] = <<y.bytes[1], i>>
        BY <1>1, <1>3, <1>7, <2>4 DEF LinkOK, PoppedOK
      <3> HIDE DEF x, y, r
      <3>3. /\ Len(handled[p][n]) = x.bytes[1] - 1
            /\ Len(r) = x.bytes[2] - 1
            /\ \A i \in 1..Len(r) : r[i] = <<x.bytes[1], i>>
        BY <2>3, <3>1, <3>2
      <3> QED BY <1>3, <1>4, <1>5, <3>3 DEF x, r
    <2>5. CASE y.action # "MORE"
      <3>1. x.bytes[1] = y.bytes[1] + 1 /\ x.bytes[2] = 1
        <4> HIDE DEF x, y
        <4> QED BY <2>2, <2>5 DEF After
      <3>2. Len(handled[p][n]) = y.bytes[1] /\ r = <<>>
        BY <1>1, <1>3, <1>7, <2>5 DEF LinkOK, PoppedOK
      <3> HIDE DEF x, y, r
      <3>3. /\ Len(handled[p][n]) = x.bytes[1] - 1
            /\ Len(r) = x.bytes[2] - 1
            /\ \A i \in 1..Len(r) : r[i] = <<x.bytes[1], i>>
        BY <2>3, <3>1, <3>2
      <3> QED BY <1>3, <1>4, <1>5, <3>3 DEF x, r
    <2> QED BY <2>4, <2>5
  <1>8. b.nextPop = 1 \/ b.nextPop > 1
    <2>1. b.nextPop \in Nat \ {0}
      BY <1>1 DEF IsBuffer
    <2> HIDE DEF b
    <2> QED BY <2>1
  <1> HIDE DEF b, L, x, y, r
  <1> QED BY <1>6, <1>7, <1>8 DEF b, x, r

(* pop, reassembly and handleMessage. *)
LEMMA DrainStep ==
  ASSUME IInv, NEW n \in Node, NEW p \in Node, NEW nn \in Node, NEW pp \in Node,
         DrainReceiveBuffer(pp, nn)
  PROVE  LinkOK(n, p)'
  <1> DEFINE b == receiveBuffer[p][n]
             x == b.data[b.nextPop]
             r == Append(reassemblyBuffer[p][n], x.bytes)
             m == [action |-> x.action, buf |-> r]
             here == n = nn /\ p = pp
  <1>1. LinkOK(n, p) /\ IsBuffer(b)
    BY DEF IInv, TypeOK, AreBuffers
  <1>2. UNCHANGED <<peers, sendBuffer, sent, pushed, connects>>
    BY DEF DrainReceiveBuffer
  <1>3. \A e \in net' :
          e \in net \/ (e.src = pp /\ e.dst = nn /\ e.action = "TCP_RESEND")
    <2>1. net' = net \cup ResendRequests(pp, nn, Pop(receiveBuffer[pp][nn]), TRUE)
      BY DEF DrainReceiveBuffer
    <2>2. \A e \in ResendRequests(pp, nn, Pop(receiveBuffer[pp][nn]), TRUE) :
            e.src = pp /\ e.dst = nn /\ e.action = "TCP_RESEND"
      <3> DEFINE q == Pop(receiveBuffer[pp][nn])
      <3> HIDE DEF q
      <3>1. \A e \in ResendRequests(pp, nn, q, TRUE) :
              e.src = pp /\ e.dst = nn /\ e.action = "TCP_RESEND"
        BY DEF ResendRequests, Control, NeedsResend
      <3> QED BY <3>1 DEF q
    <2> QED BY <2>1, <2>2
  <1>4. /\ here => /\ ReadyRead(b)
                   /\ receiveBuffer'[p][n] = Pop(b)
                   /\ reassemblyBuffer'[p][n] = IF x.action = "MORE" THEN r ELSE <<>>
                   /\ handled'[p][n] = IF x.action = "MORE" THEN handled[p][n]
                                       ELSE Append(handled[p][n], m)
        /\ ~here => /\ receiveBuffer'[p][n] = b
                    /\ reassemblyBuffer'[p][n] = reassemblyBuffer[p][n]
                    /\ handled'[p][n] = handled[p][n]
    BY DEF DrainReceiveBuffer, IInv, TypeOK, AreBuffers
  <1>5. connects[pp][nn] # 0
    <2>1. ReadyRead(receiveBuffer[pp][nn])
      BY DEF DrainReceiveBuffer
    <2> QED BY <2>1 DEF ReadyRead, IInv, LinkOK, UnconnectedOK
  <1>6. MessagesOK(n, p)' /\ PushedOK(n, p)'
    BY <1>1, <1>2 DEF LinkOK, MessagesOK, PushedOK, FragmentOK, After
  <1>7. UnconnectedOK(n, p)'
    <2>1. SUFFICES ASSUME connects[n][p] = 0 PROVE UnconnectedOK(n, p)'
      BY <1>2 DEF UnconnectedOK
    <2>2. ~(n = pp /\ p = nn)
      BY <1>5, <2>1
    <2>3. receiveBuffer'[n][p] = receiveBuffer[n][p] /\ handled'[n][p] = handled[n][p]
      BY <2>2 DEF DrainReceiveBuffer, IInv, TypeOK, AreBuffers
    <2> QED BY <1>1, <1>2, <1>3, <2>1, <2>2, <2>3 DEF LinkOK, UnconnectedOK
  <1>8. SenderOK(n, p)'
    BY <1>1, <1>2, <1>3 DEF LinkOK, SenderOK, ControlAction
  <1>9. CASE ~here
    <2>1. WaitingOK(n, p)' /\ PrefixOK(n, p)'
      BY <1>1, <1>2, <1>4, <1>9 DEF LinkOK, WaitingOK, PrefixOK, FirstSession
    <2>2. PoppedOK(n, p)'
      BY <1>1, <1>2, <1>4, <1>9 DEF LinkOK, PoppedOK, FirstSession
    <2>3. AckOK(n, p)'
      BY <1>1, <1>2, <1>3, <1>4, <1>9 DEF LinkOK, AckOK, Joined, Open, Has
    <2> QED BY <1>6, <1>7, <1>8, <2>1, <2>2, <2>3 DEF LinkOK
  <1>10. CASE here
    <2>1. /\ receiveBuffer'[p][n].nextPop = b.nextPop + 1
          /\ DOMAIN receiveBuffer'[p][n].data = DOMAIN b.data \ {b.nextPop}
          /\ \A s \in DOMAIN receiveBuffer'[p][n].data :
               receiveBuffer'[p][n].data[s] = b.data[s]
          /\ b.nextPop \in DOMAIN b.data
      <3>1. receiveBuffer'[p][n] = Pop(b) /\ ReadyRead(b)
        BY <1>4, <1>10
      <3> HIDE DEF b
      <3> QED BY <3>1 DEF Pop, Erase, Buffer, ReadyRead
    <2>2. WaitingOK(n, p)'
      <3>1. SUFFICES ASSUME FirstSession(n, p) PROVE WaitingOK(n, p)'
        BY <1>2 DEF WaitingOK, FirstSession
      <3>2. /\ DOMAIN b.data \subseteq b.nextPop .. Len(pushed[n][p])
            /\ \A s \in DOMAIN b.data : b.data[s] = pushed[n][p][s]
            /\ n \notin peers[p] => DOMAIN b.data = {}
        BY <1>1, <3>1 DEF LinkOK, WaitingOK
      <3>3. DOMAIN receiveBuffer'[p][n].data \subseteq
              receiveBuffer'[p][n].nextPop .. Len(pushed[n][p])
        <4>1. b.nextPop \in Nat
          BY <1>1 DEF IsBuffer
        <4> QED BY <2>1, <3>2, <4>1
      <3> QED BY <1>2, <2>1, <3>2, <3>3 DEF WaitingOK
    <2>3. AckOK(n, p)'
      <3>1. \A s \in Nat : Has(p, n, s) => Has(p, n, s)'
        BY <1>1, <2>1 DEF Has, IsBuffer
      <3>2. Joined(n, p)' <=> Joined(n, p)
        BY <1>2 DEF Joined, Open
      <3>3. \A d \in net : d.seq \in Nat
        BY DEF IInv, TypeOK, Datagram
      <3> QED BY <1>1, <1>2, <1>3, <3>1, <3>2, <3>3 DEF LinkOK, AckOK
    <2>4. PoppedOK(n, p)' /\ PrefixOK(n, p)'
      <3>1. SUFFICES ASSUME FirstSession(n, p) PROVE PoppedOK(n, p)' /\ PrefixOK(n, p)'
        BY <1>2 DEF PoppedOK, PrefixOK, FirstSession
      <3>2. /\ n \in peers[p]
            /\ b.nextPop \in 1..Len(pushed[n][p])
            /\ x = pushed[n][p][b.nextPop]
            /\ x \in Payload
            /\ FragmentOK(n, p, x)
            /\ Len(handled[p][n]) = x.bytes[1] - 1
            /\ Len(reassemblyBuffer[p][n]) = x.bytes[2] - 1
            /\ \A i \in 1..Len(reassemblyBuffer[p][n]) :
                 reassemblyBuffer[p][n][i] = <<x.bytes[1], i>>
        BY <1>4, <1>10, <3>1, NextFragment
      <3>3. /\ x.bytes \in Nat \X Nat
            /\ x.bytes[1] \in Nat /\ x.bytes[2] \in Nat
            /\ x.bytes = <<x.bytes[1], x.bytes[2]>>
        <4> HIDE DEF x
        <4>1. x.bytes \in Nat \X Nat
          BY <3>2 DEF Payload
        <4> QED BY <3>2, <4>1, PayloadBytes
      <3>4. /\ reassemblyBuffer[p][n] \in Seq(Nat \X Nat)
            /\ handled[p][n] \in Seq(Message)
            /\ sent[n][p] \in Seq(Message)
        BY DEF IInv, TypeOK
      <3>5. /\ r \in Seq(Nat \X Nat)
            /\ Len(r) = x.bytes[2]
            /\ \A i \in 1..Len(r) : r[i] = <<x.bytes[1], i>>
        <4> DEFINE q == reassemblyBuffer[p][n]
        <4> HIDE DEF x, q
        <4>1. q \in Seq(Nat \X Nat) /\ Len(q) = x.bytes[2] - 1
          BY <3>2, <3>4 DEF q
        <4>2. /\ Append(q, x.bytes) \in Seq(Nat \X Nat)
              /\ Len(Append(q, x.bytes)) = x.bytes[2]
              /\ \A i \in 1..Len(q) : Append(q, x.bytes)[i] = q[i]
              /\ Append(q, x.bytes)[x.bytes[2]] = x.bytes
          BY <3>3, <4>1, AppendProperties
        <4>3. \A i \in 1..Len(q) : q[i] = <<x.bytes[1], i>>
          BY <3>2 DEF q
        <4>4. \A i \in 1..x.bytes[2] : i \in 1..Len(q) \/ i = x.bytes[2]
          BY <3>3, <4>1
        <4>5. \A i \in 1..x.bytes[2] : Append(q, x.bytes)[i] = <<x.bytes[1], i>>
          BY <3>3, <4>2, <4>3, <4>4
        <4> QED BY <4>2, <4>5 DEF q
      <3>6. /\ PrefixOK(n, p)
            /\ (receiveBuffer'[p][n].nextPop) - 1 = b.nextPop
            /\ receiveBuffer'[p][n].nextPop > 1
            /\ receiveBuffer'[p][n].nextPop <= Len(pushed[n][p]) + 1
        <4>1. b.nextPop \in Nat \ {0} /\ PrefixOK(n, p)
          BY <1>1 DEF LinkOK, IsBuffer
        <4>2. pushed[n][p] \in Seq(Payload)
          BY DEF IInv, TypeOK
        <4> HIDE DEF b
        <4>3. b.nextPop + 1 <= Len(pushed[n][p]) + 1
          BY <3>2, <4>1, <4>2
        <4> QED BY <2>1, <4>1, <4>3
      <3>9. /\ pushed'[n][p][(receiveBuffer'[p][n].nextPop) - 1] = x
            /\ receiveBuffer'[p][n].nextPop # 1
        <4> HIDE DEF x, b
        <4>1. receiveBuffer'[p][n].nextPop # 1
          BY <2>1, <3>2
        <4>2. pushed'[n][p] = pushed[n][p]
          BY <1>2
        <4> QED BY <3>2, <3>6, <4>1, <4>2
      <3> HIDE DEF r, x, b, m
      <3>7. CASE x.action = "MORE"
        <4>1. reassemblyBuffer'[p][n] = r /\ handled'[p][n] = handled[p][n]
          BY <1>4, <1>10, <3>7
        <4>2. PoppedOK(n, p)'
          BY <1>2, <3>2, <3>5, <3>6, <3>7, <3>9, <4>1 DEF PoppedOK
        <4> QED BY <1>2, <3>6, <4>1, <4>2 DEF PrefixOK, FirstSession
      <3>8. CASE x.action # "MORE"
        <4>1. reassemblyBuffer'[p][n] = <<>> /\ handled'[p][n] = Append(handled[p][n], m)
          BY <1>4, <1>10, <3>8
        <4>2. /\ x.bytes[1] \in 1..Len(sent[n][p])
              /\ x.bytes[2] \in 1..Len(sent[n][p][x.bytes[1]].buf)
              /\ ~(x.bytes[2] < Len(sent[n][p][x.bytes[1]].buf))
              /\ x.action = sent[n][p][x.bytes[1]].action
          BY <3>2, <3>8 DEF FragmentOK
        <4>3. sent[n][p][x.bytes[1]] \in Message
          BY <3>4, <4>2
        <4>4. /\ sent[n][p][x.bytes[1]].buf \in Seq(Nat \X Nat)
              /\ Len(sent[n][p][x.bytes[1]].buf) = x.bytes[2]
              /\ \A i \in 1..x.bytes[2] : sent[n][p][x.bytes[1]].buf[i] = <<x.bytes[1], i>>
          <5>1. sent[n][p][x.bytes[1]].buf \in Seq(Nat \X Nat)
            BY <4>3 DEF Message
          <5>2. Len(sent[n][p][x.bytes[1]].buf) = x.bytes[2]
            BY <3>3, <4>2, <5>1
          <5> QED BY <1>1, <4>2, <5>1, <5>2 DEF LinkOK, MessagesOK
        <4>5. r = sent[n][p][x.bytes[1]].buf
          <5> DEFINE q == sent[n][p][x.bytes[1]].buf
          <5> HIDE DEF q
          <5>1. /\ q \in Seq(Nat \X Nat) /\ r \in Seq(Nat \X Nat) /\ Len(r) = Len(q)
                /\ \A i \in 1..Len(r) : r[i] = q[i]
            BY <3>5, <4>4 DEF q
          <5> QED BY <5>1, SeqEqual DEF q
        <4>6. m = sent[n][p][x.bytes[1]] /\ m \in Message
          BY <4>2, <4>3, <4>5 DEF m, Message
        <4>7. /\ Len(handled'[p][n]) = x.bytes[1]
              /\ \A i \in 1..Len(handled[p][n]) : handled'[p][n][i] = handled[p][n][i]
              /\ handled'[p][n][x.bytes[1]] = m
          <5> DEFINE h == handled[p][n]
          <5> HIDE DEF h
          <5>1. h \in Seq(Message) /\ Len(h) = x.bytes[1] - 1
            BY <3>2, <3>4 DEF h
          <5>2. /\ Len(Append(h, m)) = x.bytes[1]
                /\ \A i \in 1..Len(h) : Append(h, m)[i] = h[i]
                /\ Append(h, m)[x.bytes[1]] = m
            BY <3>3, <4>6, <5>1, AppendProperties
          <5> QED BY <4>1, <5>2 DEF h
        <4>8. PoppedOK(n, p)'
          BY <1>2, <3>6, <3>8, <3>9, <4>1, <4>7 DEF PoppedOK
        <4>9. PrefixOK(n, p)'
          <5>1. \A i \in 1..Len(handled'[p][n]) :
                  i \in 1..Len(handled[p][n]) \/ i = x.bytes[1]
            <6>1. /\ Len(handled'[p][n]) = x.bytes[1] /\ x.bytes[1] \in Nat
                  /\ Len(handled[p][n]) = x.bytes[1] - 1
              BY <3>2, <3>3, <4>7
            <6> HIDE DEF x
            <6> QED BY <6>1
          <5>2. \A i \in 1..Len(handled[p][n]) : handled'[p][n][i] = sent[n][p][i]
            BY <3>1, <3>6, <4>7 DEF PrefixOK
          <5>3. handled'[p][n][x.bytes[1]] = sent[n][p][x.bytes[1]]
            BY <4>6, <4>7
          <5>4. /\ Len(handled'[p][n]) <= Len(sent[n][p])
                /\ \A i \in 1..Len(handled'[p][n]) : handled'[p][n][i] = sent[n][p][i]
            BY <4>2, <4>7, <5>1, <5>2, <5>3
          <5> QED BY <1>2, <3>6, <5>4 DEF PrefixOK
        <4> QED BY <4>8, <4>9
      <3> QED BY <3>7, <3>8
    <2> QED BY <1>6, <1>7, <1>8, <2>2, <2>3, <2>4 DEF LinkOK
  <1> QED BY <1>9, <1>10

(* disconnectFromPeer: the link is not joined any more, and what was        *)
(* handled stays handled.                                                  *)
LEMMA DisconnectStep ==
  ASSUME IInv, NEW n \in Node, NEW p \in Node, NEW nn \in Node, NEW pp \in Node,
         DisconnectFromPeer(nn, pp)
  PROVE  LinkOK(n, p)'
  <1>1. LinkOK(n, p)
    BY DEF IInv
  <1>2. UNCHANGED <<net, sent, pushed, handled, connects>>
    BY DEF DisconnectFromPeer, history
  <1>3. connects[nn][pp] # 0
    BY DEF DisconnectFromPeer, IInv, LinkOK, UnconnectedOK
  <1>4. /\ p \in peers'[n] <=> p \in peers[n] /\ ~(n = nn /\ p = pp)
        /\ n \in peers'[p] <=> n \in peers[p] /\ ~(p = nn /\ n = pp)
    BY DEF DisconnectFromPeer, IInv, TypeOK
  <1>5. /\ n = nn /\ p = pp => sendBuffer'[n][p] = EmptyBuffer
        /\ ~(n = nn /\ p = pp) => sendBuffer'[n][p] = sendBuffer[n][p]
        /\ n = nn /\ p = pp => receiveBuffer'[n][p] = EmptyBuffer
        /\ ~(n = nn /\ p = pp) => receiveBuffer'[n][p] = receiveBuffer[n][p]
        /\ p = nn /\ n = pp => receiveBuffer'[p][n] = EmptyBuffer
        /\ ~(p = nn /\ n = pp) => /\ receiveBuffer'[p][n] = receiveBuffer[p][n]
                                  /\ reassemblyBuffer'[p][n] = reassemblyBuffer[p][n]
    BY DEF DisconnectFromPeer, IInv, TypeOK, AreBuffers
  <1>6. EmptyBuffer.nextPop = 1 /\ DOMAIN EmptyBuffer.data = {}
    BY DEF EmptyBuffer, Buffer
  <1>7. MessagesOK(n, p)' /\ PushedOK(n, p)'
    BY <1>1, <1>2 DEF LinkOK, MessagesOK, PushedOK, FragmentOK, After
  <1>8. UnconnectedOK(n, p)'
    BY <1>1, <1>2, <1>4, <1>5, <1>6 DEF LinkOK, UnconnectedOK
  <1>9. SenderOK(n, p)'
    BY <1>1, <1>2, <1>4, <1>5, <1>6 DEF LinkOK, SenderOK
  <1>10. WaitingOK(n, p)'
    BY <1>1, <1>2, <1>4, <1>5, <1>6 DEF LinkOK, WaitingOK, FirstSession
  <1>11. PrefixOK(n, p)'
    BY <1>1, <1>2 DEF LinkOK, PrefixOK, FirstSession
  <1>12. PoppedOK(n, p)'
    BY <1>1, <1>2, <1>4, <1>5 DEF LinkOK, PoppedOK, FirstSession
  <1>13. AckOK(n, p)'
    <2>1. SUFFICES ASSUME Joined(n, p)' PROVE AckOK(n, p)'
      BY DEF AckOK
    <2>2. Joined(n, p) /\ ~(n = nn /\ p = pp) /\ ~(p = nn /\ n = pp)
      BY <1>2, <1>3, <1>4, <2>1 DEF Joined, Open
    <2> QED BY <1>1, <1>2, <1>5, <2>2 DEF LinkOK, AckOK, Has
  <1> QED BY <1>7, <1>8, <1>9, <1>10, <1>11, <1>12, <1>13 DEF LinkOK

(* Where the elements of a concatenation come from. *)
LEMMA ConcatIndex ==
  ASSUME NEW s1 \in Seq(Payload), NEW s2 \in Seq(Payload)
  PROVE  /\ Len(s1 \o s2) = Len(s1) + Len(s2)
         /\ \A s \in 1..Len(s1) : (s1 \o s2)[s] = s1[s]
         /\ \A i \in 1..Len(s2) : (s1 \o s2)[Len(s1) + i] = s2[i]
  <1>1. /\ Len(s1 \o s2) = Len(s1) + Len(s2)
        /\ \A i \in 1..(Len(s1) + Len(s2)) :
             (s1 \o s2)[i] = IF i <= Len(s1) THEN s1[i] ELSE s2[i - Len(s1)]
    BY ConcatProperties
  <1>2. Len(s1) \in Nat /\ Len(s2) \in Nat
    OBVIOUS
  <1>3. \A s \in 1..Len(s1) : s \in 1..(Len(s1) + Len(s2)) /\ s <= Len(s1)
    BY <1>2
  <1>4. \A i \in 1..Len(s2) : /\ Len(s1) + i \in 1..(Len(s1) + Len(s2))
                              /\ ~(Len(s1) + i <= Len(s1))
                              /\ (Len(s1) + i) - Len(s1) = i
    BY <1>2
  <1> QED BY <1>1, <1>3, <1>4

Pushes(n, p, action, k) ==
  /\ Len(pushed'[n][p]) = Len(pushed[n][p]) + k
  /\ \A s \in 1..Len(pushed[n][p]) : pushed'[n][p][s] = pushed[n][p][s]
  /\ \A i \in 1..k : pushed'[n][p][Len(pushed[n][p]) + i] =
                         Fragments(action, Len(sent[n][p]) + 1, k)[i]

(* The new fragments come after the ones that were pushed before. *)
LEMMA ForwardPushed ==
  ASSUME IInv, NEW n \in Node, NEW p \in Node, NEW b,
         NEW action \in GameAction \cup {"HELLO"}, NEW k \in Nat \ {0},
         Forward(n, p, b, action, k)
  PROVE  Pushes(n, p, action, k)
  <1> DEFINE M == sent[n][p]
             L == pushed[n][p]
             frags == Fragments(action, Len(M) + 1, k)
  <1>1. M \in Seq(Message) /\ L \in Seq(Payload)
    BY DEF IInv, TypeOK
  <1>2. Len(M) + 1 \in Nat
    BY <1>1
  <1>3. frags \in Seq(Payload) /\ Len(frags) = k
    BY <1>2, FragmentsType
  <1>5. pushed'[n][p] = L \o frags
    BY DEF Forward, IInv, TypeOK
  <1> HIDE DEF M, L, frags
  <1>6. /\ Len(L \o frags) = Len(L) + Len(frags)
        /\ \A s \in 1..Len(L) : (L \o frags)[s] = L[s]
        /\ \A i \in 1..Len(frags) : (L \o frags)[Len(L) + i] = frags[i]
    BY <1>1, <1>3, ConcatIndex, Zenon
  <1>7. /\ Len(pushed'[n][p]) = Len(L) + k
        /\ \A s \in 1..Len(L) : pushed'[n][p][s] = L[s]
        /\ \A i \in 1..k : pushed'[n][p][Len(L) + i] = frags[i]
    BY <1>3, <1>5, <1>6
  <1> QED BY <1>7 DEF L, M, frags, Pushes

(* What forwardGameData leaves in the histories: the message, its          *)
(* fragments, and everything that was there.                               *)
LEMMA ForwardHistory ==
  ASSUME IInv, NEW n \in Node, NEW p \in Node, NEW b,
         NEW action \in GameAction \cup {"HELLO"}, NEW k \in Nat \ {0},
         Forward(n, p, b, action, k)
  PROVE  /\ Len(sent'[n][p]) = Len(sent[n][p]) + 1
         /\ \A i \in 1..Len(sent[n][p]) : sent'[n][p][i] = sent[n][p][i]
         /\ Len(pushed'[n][p]) = Len(pushed[n][p]) + k
         /\ \A s \in 1..Len(pushed[n][p]) : pushed'[n][p][s] = pushed[n][p][s]
         /\ MessagesOK(n, p)'
         /\ PushedOK(n, p)'
  <1> DEFINE M == sent[n][p]
             L == pushed[n][p]
             no == Len(M) + 1
             frags == Fragments(action, no, k)
             m == [action |-> action, buf |-> Bytes(no, k)]
  <1>1. M \in Seq(Message) /\ L \in Seq(Payload) /\ MessagesOK(n, p) /\ PushedOK(n, p)
    BY DEF IInv, LinkOK, TypeOK
  <1>2. no \in Nat
    BY <1>1
  <1>3. /\ frags \in Seq(Payload) /\ Len(frags) = k
        /\ Bytes(no, k) \in Seq(Nat \X Nat) /\ Len(Bytes(no, k)) = k
    BY <1>2, FragmentsType
  <1>4. m \in Message /\ m.action # "MORE"
    BY <1>3, ConstantsAssumption DEF Message
  <1>5. sent'[n][p] = Append(M, m) /\ pushed'[n][p] = L \o frags
    BY DEF Forward, IInv, TypeOK
  <1>6. \A i \in 1..k : /\ frags[i].bytes = <<no, i>>
                        /\ frags[i].action = IF i < k THEN "MORE" ELSE action
    BY DEF Fragments
  <1>7. \A i \in 1..k : m.buf[i] = <<no, i>>
    BY DEF Bytes
  <1>8. m.buf \in Seq(Nat \X Nat) /\ Len(m.buf) = k /\ m.action = action
    BY <1>3
  <1>10. /\ Len(pushed'[n][p]) = Len(L) + k
         /\ \A s \in 1..Len(L) : pushed'[n][p][s] = L[s]
         /\ \A i \in 1..k : pushed'[n][p][Len(L) + i] = frags[i]
    <2> HIDE DEF M, L, frags
    <2>1. /\ Len(L \o frags) = Len(L) + Len(frags)
          /\ \A s \in 1..Len(L) : (L \o frags)[s] = L[s]
          /\ \A i \in 1..Len(frags) : (L \o frags)[Len(L) + i] = frags[i]
      BY <1>1, <1>3, ConcatIndex, Zenon
    <2> QED BY <1>3, <1>5, <2>1
  <1> HIDE DEF M, L, frags, m
  <1>9. /\ Len(sent'[n][p]) = Len(M) + 1
        /\ \A i \in 1..Len(M) : sent'[n][p][i] = M[i]
        /\ sent'[n][p][no] = m
    BY <1>1, <1>4, <1>5, AppendProperties
  <1>11. Len(M) \in Nat /\ Len(L) \in Nat
    BY <1>1
  <1>12. MessagesOK(n, p)'
    <2>1. SUFFICES ASSUME NEW j \in 1..(Len(M) + 1)
                   PROVE  /\ sent'[n][p][j].action # "MORE"
                          /\ Len(sent'[n][p][j].buf) >= 1
                          /\ \A i \in 1..Len(sent'[n][p][j].buf) :
                               sent'[n][p][j].buf[i] = <<j, i>>
      BY <1>9 DEF MessagesOK
    <2>2. CASE j \in 1..Len(M)
      BY <1>1, <1>9, <2>2 DEF MessagesOK, M
    <2>3. CASE j = no
      <3>1. sent'[n][p][j] = m
        BY <1>9, <2>3
      <3>2. m.action # "MORE" /\ Len(m.buf) = k /\ Len(m.buf) >= 1
        BY <1>4, <1>8
      <3>3. \A i \in 1..k : m.buf[i] = <<j, i>>
        BY <1>7, <2>3
      <3> QED BY <3>1, <3>2, <3>3
    <2> QED BY <1>11, <2>1, <2>2, <2>3
  <1>13. \A s \in 1..(Len(L) + k) : s \in 1..Len(L) \/ \E i \in 1..k : s = Len(L) + i
    <2>1. SUFFICES ASSUME NEW s \in 1..(Len(L) + k), s \notin 1..Len(L)
                   PROVE  \E i \in 1..k : s = Len(L) + i
      OBVIOUS
    <2>2. s - Len(L) \in 1..k /\ s = Len(L) + (s - Len(L))
      BY <1>11, <2>1
    <2> QED BY <2>2
  <1>14. PushedOK(n, p)'
    <2>1. \A s \in 1..Len(pushed'[n][p]) : FragmentOK(n, p, pushed[n][p][s])'
      <3>1. SUFFICES ASSUME NEW s \in 1..(Len(L) + k)
                     PROVE  FragmentOK(n, p, pushed[n][p][s])'
        BY <1>10
      <3>2. CASE s \in 1..Len(L)
        <4>1. FragmentOK(n, p, L[s]) /\ pushed'[n][p][s] = L[s]
          BY <1>1, <1>10, <3>2 DEF PushedOK, L
        <4>2. L[s].bytes[1] \in 1..Len(M) /\ sent'[n][p][L[s].bytes[1]] = M[L[s].bytes[1]]
          BY <1>9, <4>1 DEF FragmentOK, M
        <4> QED BY <1>9, <1>11, <4>1, <4>2 DEF FragmentOK, M
      <3>3. ASSUME NEW i \in 1..k, s = Len(L) + i
            PROVE  FragmentOK(n, p, pushed[n][p][s])'
        <4>1. pushed'[n][p][s] = frags[i]
          BY <1>10, <3>3
        <4>2. frags[i].bytes[1] = no /\ frags[i].bytes[2] = i
              /\ frags[i].action = IF i < k THEN "MORE" ELSE action
          BY <1>6
        <4>3. no \in 1..Len(sent'[n][p]) /\ sent'[n][p][no] = m
          BY <1>9, <1>11
        <4> QED BY <1>8, <4>1, <4>2, <4>3 DEF FragmentOK
      <3> QED BY <1>13, <3>1, <3>2, <3>3
    <2>2. pushed'[n][p] # <<>> /\ pushed'[n][p][1].bytes = <<1, 1>>
      <3>1. CASE Len(L) = 0
        <4>1. pushed'[n][p][0 + 1] = frags[1] /\ frags[1].bytes = <<no, 1>>
          BY <1>6, <1>10, <3>1
        <4>2. no = 1
          BY <1>1, <3>1 DEF PushedOK, L, M
        <4> QED BY <1>10, <3>1, <4>1, <4>2
      <3>2. CASE Len(L) > 0
        <4>1. pushed'[n][p][1] = L[1]
          BY <1>10, <1>11, <3>2
        <4>2. L[1].bytes = <<1, 1>>
          BY <1>1, <3>2 DEF PushedOK, L
        <4> QED BY <1>10, <1>11, <3>2, <4>1, <4>2
      <3> QED BY <1>11, <3>1, <3>2
    <2>3. \A s \in 1..(Len(pushed'[n][p]) - 1) :
            pushed'[n][p][s + 1].bytes = After(pushed'[n][p][s])
      <3>1. SUFFICES ASSUME NEW s \in 1..(Len(L) + k - 1)
                     PROVE  pushed'[n][p][s + 1].bytes = After(pushed'[n][p][s])
        BY <1>10
      <3>2. CASE s \in 1..(Len(L) - 1)
        <4>0. s \in 1..Len(L) /\ s + 1 \in 1..Len(L)
          BY <1>11, <3>2
        <4>1. pushed'[n][p][s] = L[s] /\ pushed'[n][p][s + 1] = L[s + 1]
          BY <1>10, <4>0
        <4> QED BY <1>1, <3>2, <4>1 DEF PushedOK, L
      <3>3. CASE s = Len(L)
        <4>1. Len(L) > 0 /\ pushed'[n][p][s] = L[Len(L)]
          BY <1>10, <1>11, <3>3
        <4>2. L[Len(L)].bytes[1] = Len(M) /\ L[Len(L)].action # "MORE"
          BY <1>1, <4>1 DEF PushedOK, L, M
        <4>0. 1 \in 1..k
          OBVIOUS
        <4>3. pushed'[n][p][s + 1] = frags[1] /\ frags[1].bytes = <<no, 1>>
          BY <1>6, <1>10, <3>3, <4>0
        <4> QED BY <4>1, <4>2, <4>3 DEF After
      <3>4. CASE s > Len(L)
        <4> DEFINE i == s - Len(L)
        <4>1. i \in 1..k /\ i + 1 \in 1..k /\ i < k
              /\ s = Len(L) + i /\ s + 1 = Len(L) + (i + 1)
          BY <1>11, <3>4
        <4>2. pushed'[n][p][s] = frags[i] /\ pushed'[n][p][s + 1] = frags[i + 1]
          BY <1>10, <4>1
        <4>3. frags[i].bytes = <<no, i>> /\ frags[i].action = "MORE"
              /\ frags[i + 1].bytes = <<no, i + 1>>
          BY <1>6, <4>1
        <4> QED BY <4>2, <4>3 DEF After
      <3> QED BY <1>11, <3>1, <3>2, <3>3, <3>4
    <2>4. /\ pushed'[n][p][Len(pushed'[n][p])].bytes[1] = Len(sent'[n][p])
          /\ pushed'[n][p][Len(pushed'[n][p])].action # "MORE"
      <3>0. k \in 1..k
        OBVIOUS
      <3>1. pushed'[n][p][Len(L) + k] = frags[k]
        BY <1>10, <3>0
      <3>2. frags[k].bytes = <<no, k>> /\ frags[k].action = action
        BY <1>6, <3>0
      <3>3. action # "MORE"
        BY <1>4, <1>8
      <3> QED BY <1>9, <1>10, <3>1, <3>2, <3>3
    <2> QED BY <2>1, <2>2, <2>3, <2>4 DEF PushedOK
  <1> QED BY <1>9, <1>10, <1>12, <1>14 DEF M, L, frags

(* What forwardGameData does to the links it does not use. *)
LEMMA ForwardFrame ==
  ASSUME IInv, NEW n \in Node, NEW p \in Node, NEW nn \in Node, NEW pp \in Node,
         NEW b, NEW action \in GameAction \cup {"HELLO"}, NEW k \in Nat \ {0},
         Forward(nn, pp, b, action, k)
  PROVE  /\ ~(n = nn /\ p = pp) => /\ sent'[n][p] = sent[n][p]
                                   /\ pushed'[n][p] = pushed[n][p]
                                   /\ sendBuffer'[n][p] = sendBuffer[n][p]
         /\ net \subseteq net'
         /\ \A d \in net' : d \in net \/ (/\ d.src = nn /\ d.dst = pp
                                          /\ d.action \notin ControlAction)
  <1>1. ~(n = nn /\ p = pp) => /\ sent'[n][p] = sent[n][p]
                               /\ pushed'[n][p] = pushed[n][p]
                               /\ sendBuffer'[n][p] = sendBuffer[n][p]
    BY DEF Forward, IInv, TypeOK, AreBuffers
  <1> DEFINE frags == Fragments(action, Len(sent[nn][pp]) + 1, k)
  <1>2. net' = net \cup {Data(nn, pp, b.nextPush + i - 1, frags[i]) : i \in 1..k}
    BY DEF Forward
  <1>3. ASSUME NEW i \in 1..k
        PROVE  LET d == Data(nn, pp, b.nextPush + i - 1, frags[i])
               IN  d.src = nn /\ d.dst = pp /\ d.action \notin ControlAction
    <2>1. frags[i].action \in GameAction \cup {"HELLO", "MORE"}
      BY DEF Fragments
    <2>2. frags[i].action \notin ControlAction
      BY <2>1, ConstantsAssumption DEF ControlAction
    <2> HIDE DEF frags
    <2> QED BY <2>2 DEF Data
  <1> HIDE DEF frags
  <1> QED BY <1>1, <1>2, <1>3

(* A send buffer that holds what was pushed still does, and the new        *)
(* datagrams carry what was pushed.                                        *)
LEMMA ForwardBuffer ==
  ASSUME IInv, NEW n \in Node, NEW p \in Node, NEW b,
         NEW action \in GameAction \cup {"HELLO"}, NEW k \in Nat \ {0},
         Forward(n, p, b, action, k),
         b.nextPush = Len(pushed[n][p]) + 1,
         DOMAIN b.data \subseteq 1..Len(pushed[n][p]),
         \A s \in DOMAIN b.data : b.data[s] = pushed[n][p][s]
  PROVE  /\ sendBuffer'[n][p].nextPush = Len(pushed'[n][p]) + 1
         /\ DOMAIN sendBuffer'[n][p].data =
              DOMAIN b.data \cup (Len(pushed[n][p]) + 1)..Len(pushed'[n][p])
         /\ \A s \in DOMAIN sendBuffer'[n][p].data :
              sendBuffer'[n][p].data[s] = pushed'[n][p][s]
         /\ \A d \in net' : d \in net \/ /\ d.seq \in 1..Len(pushed'[n][p])
                                         /\ d.action = pushed'[n][p][d.seq].action
                                         /\ d.bytes = pushed'[n][p][d.seq].bytes
  <1> DEFINE L == pushed[n][p]
             frags == Fragments(action, Len(sent[n][p]) + 1, k)
             N == b.nextPush .. (b.nextPush + k - 1)
  <1>1. Len(L) \in Nat
    <2>1. L \in Seq(Payload)
      BY DEF IInv, TypeOK
    <2> QED BY <2>1
  <1>3. frags \in Seq(Payload) /\ Len(frags) = k
    <2>1. Len(sent[n][p]) + 1 \in Nat
      <3>1. sent[n][p] \in Seq(Message)
        BY DEF IInv, TypeOK
      <3> QED BY <3>1
    <2> QED BY <2>1, FragmentsType
  <1>2. /\ Len(pushed'[n][p]) = Len(L) + k
        /\ \A s \in 1..Len(L) : pushed'[n][p][s] = L[s]
        /\ \A i \in 1..k : pushed'[n][p][Len(L) + i] = frags[i]
    <2>1. Pushes(n, p, action, k)
      BY ForwardPushed
    <2> QED BY <2>1 DEF Pushes
  <1>4. sendBuffer'[n][p] = PushBackAll(b, frags)
    BY DEF Forward, IInv, TypeOK, AreBuffers
  <1>5. net' = net \cup {Data(n, p, b.nextPush + i - 1, frags[i]) : i \in 1..k}
    BY DEF Forward
  <1> HIDE DEF L, frags
  <1>6. /\ sendBuffer'[n][p].nextPush = b.nextPush + k
        /\ DOMAIN sendBuffer'[n][p].data = DOMAIN b.data \cup N
        /\ \A s \in DOMAIN sendBuffer'[n][p].data :
             sendBuffer'[n][p].data[s] =
               IF s \in N THEN frags[s - b.nextPush + 1] ELSE b.data[s]
    BY <1>3, <1>4 DEF PushBackAll, Buffer
  <1>7. N = (Len(L) + 1)..(Len(L) + k) /\ b.nextPush = Len(L) + 1
    BY <1>1 DEF L
  <1> HIDE DEF N
  <1>8. \A s \in N : s - b.nextPush + 1 \in 1..k /\ s = Len(L) + (s - b.nextPush + 1)
    <2>1. SUFFICES ASSUME NEW s \in (Len(L) + 1)..(Len(L) + k)
                   PROVE  /\ s - (Len(L) + 1) + 1 \in 1..k
                          /\ s = Len(L) + (s - (Len(L) + 1) + 1)
      BY <1>7
    <2> QED BY <1>1, <2>1
  <1>9. ASSUME NEW s \in DOMAIN sendBuffer'[n][p].data
        PROVE  sendBuffer'[n][p].data[s] = pushed'[n][p][s]
    <2>1. CASE s \in N
      BY <1>2, <1>6, <1>8, <2>1
    <2>2. CASE s \notin N
      <3>1. s \in DOMAIN b.data /\ s \in 1..Len(L) /\ b.data[s] = L[s]
        BY <1>6, <2>2 DEF L
      <3> QED BY <1>2, <1>6, <2>2, <3>1
    <2> QED BY <2>1, <2>2
  <1>10. ASSUME NEW i \in 1..k
         PROVE  LET d == Data(n, p, b.nextPush + i - 1, frags[i])
                IN  /\ d.seq \in 1..Len(pushed'[n][p])
                    /\ d.action = pushed'[n][p][d.seq].action
                    /\ d.bytes = pushed'[n][p][d.seq].bytes
    <2>1. b.nextPush + i - 1 = Len(L) + i /\ Len(L) + i \in 1..(Len(L) + k)
      BY <1>1, <1>7
    <2>2. pushed'[n][p][Len(L) + i] = frags[i]
      BY <1>2
    <2> QED BY <1>2, <2>1, <2>2 DEF Data
  <1>11. \A d \in net' : d \in net \/ /\ d.seq \in 1..Len(pushed'[n][p])
                                      /\ d.action = pushed'[n][p][d.seq].action
                                      /\ d.bytes = pushed'[n][p][d.seq].bytes
    <2>1. SUFFICES ASSUME NEW d \in {Data(n, p, b.nextPush + i - 1, frags[i]) : i \in 1..k}
                   PROVE  /\ d.seq \in 1..Len(pushed'[n][p])
                          /\ d.action = pushed'[n][p][d.seq].action
                          /\ d.bytes = pushed'[n][p][d.seq].bytes
      BY <1>5, Zenon
    <2>2. PICK i \in 1..k : d = Data(n, p, b.nextPush + i - 1, frags[i])
      BY <2>1, Zenon
    <2> QED BY <1>10, <2>2, Zenon
  <1>12. /\ sendBuffer'[n][p].nextPush = Len(pushed'[n][p]) + 1
         /\ DOMAIN sendBuffer'[n][p].data = DOMAIN b.data \cup (Len(L) + 1)..Len(pushed'[n][p])
    <2>1. b.nextPush + k = (Len(L) + k) + 1
      BY <1>1, <1>7
    <2>2. N = (Len(L) + 1)..Len(pushed'[n][p])
      BY <1>2, <1>7
    <2> QED BY <1>2, <1>6, <2>1, <2>2
  <1> QED BY <1>9, <1>11, <1>12 DEF L

(* The parts of a link that only see the histories and the receiver: they  *)
(* hold when the histories of the sender grow.                             *)
LEMMA GrownHistory ==
  ASSUME IInv, NEW n \in Node, NEW p \in Node, FirstSession(n, p),
         Len(sent'[n][p]) = Len(sent[n][p]) + 1,
         \A i \in 1..Len(sent[n][p]) : sent'[n][p][i] = sent[n][p][i],
         NEW k \in Nat, Len(pushed'[n][p]) = Len(pushed[n][p]) + k,
         \A s \in 1..Len(pushed[n][p]) : pushed'[n][p][s] = pushed[n][p][s],
         receiveBuffer'[p][n] = receiveBuffer[p][n],
         reassemblyBuffer'[p][n] = reassemblyBuffer[p][n],
         handled'[p][n] = handled[p][n],
         n \in peers'[p] <=> n \in peers[p]
  PROVE  WaitingOK(n, p)' /\ PoppedOK(n, p)' /\ PrefixOK(n, p)'
  <1> DEFINE b == receiveBuffer[p][n]
             L == pushed[n][p]
             H == handled[p][n]
             M == sent[n][p]
             r == reassemblyBuffer[p][n]
  <1>1. LinkOK(n, p) /\ IsBuffer(b)
    BY DEF IInv, TypeOK, AreBuffers
  <1>2. b.nextPop \in Nat \ {0}
    BY <1>1 DEF IsBuffer
  <1>3. Len(L) \in Nat /\ Len(M) \in Nat /\ Len(H) \in Nat
    <2>1. L \in Seq(Payload) /\ M \in Seq(Message) /\ H \in Seq(Message)
      BY DEF IInv, TypeOK
    <2> QED BY <2>1
  <1>4. WaitingOK(n, p)'
    <2>1. /\ DOMAIN b.data \subseteq b.nextPop .. Len(L)
          /\ \A s \in DOMAIN b.data : b.data[s] = L[s]
          /\ n \notin peers[p] => DOMAIN b.data = {}
      BY <1>1 DEF LinkOK, WaitingOK
    <2>2. \A s \in b.nextPop .. Len(L) : s \in 1..Len(L) /\ s \in b.nextPop .. (Len(L) + k)
      BY <1>2, <1>3
    <2>3. \A s \in DOMAIN b.data : b.data[s] = pushed'[n][p][s]
      BY <2>1, <2>2
    <2>4. DOMAIN b.data \subseteq b.nextPop .. Len(pushed'[n][p])
      BY <2>1, <2>2
    <2> QED BY <2>1, <2>3, <2>4 DEF WaitingOK
  <1>5. PrefixOK(n, p)'
    <2>1. Len(H) <= Len(M) /\ \A i \in 1..Len(H) : H[i] = M[i]
      BY <1>1 DEF LinkOK, PrefixOK
    <2>2. \A i \in 1..Len(H) : i \in 1..Len(M)
      BY <1>3, <2>1
    <2>3. Len(H) <= Len(sent'[n][p])
      BY <1>3, <2>1
    <2>4. \A i \in 1..Len(H) : H[i] = sent'[n][p][i]
      BY <2>1, <2>2
    <2> QED BY <2>3, <2>4 DEF PrefixOK
  <1>6. PoppedOK(n, p)'
    <2>1. SUFFICES ASSUME n \in peers[p] PROVE PoppedOK(n, p)'
      BY DEF PoppedOK
    <2> DEFINE x == L[b.nextPop - 1]
    <2>2. /\ b.nextPop <= Len(L) + 1
          /\ b.nextPop = 1 => r = <<>> /\ H = <<>>
          /\ b.nextPop > 1 /\ x.action = "MORE" =>
               /\ Len(H) = x.bytes[1] - 1
               /\ Len(r) = x.bytes[2]
               /\ \A i \in 1..Len(r) : r[i] = <<x.bytes[1], i>>
          /\ b.nextPop > 1 /\ x.action # "MORE" => Len(H) = x.bytes[1] /\ r = <<>>
      BY <1>1, <2>1 DEF LinkOK, PoppedOK
    <2>3. b.nextPop > 1 => pushed'[n][p][b.nextPop - 1] = x
      <3>0. b.nextPop <= Len(L) + 1
        BY <2>2
      <3>1. b.nextPop > 1 => b.nextPop - 1 \in 1..Len(L)
        <4> HIDE DEF b, L
        <4> QED BY <1>2, <1>3, <3>0
      <3> QED BY <3>1
    <2>4. b.nextPop <= Len(pushed'[n][p]) + 1
      <3>1. b.nextPop <= Len(L) + 1
        BY <2>2
      <3>2. Len(pushed'[n][p]) = Len(L) + k
        OBVIOUS
      <3> HIDE DEF b, L
      <3> QED BY <1>2, <1>3, <3>1, <3>2
    <2> HIDE DEF x
    <2> QED BY <2>2, <2>3, <2>4 DEF PoppedOK
  <1> QED BY <1>4, <1>5, <1>6

(* A link whose variables do not change, while others send. *)
LEMMA FrameStep ==
  ASSUME IInv, NEW n \in Node, NEW p \in Node, NEW nn \in Node, NEW pp \in Node,
         ~(n = nn /\ p = pp),
         sent'[n][p] = sent[n][p], pushed'[n][p] = pushed[n][p],
         sendBuffer'[n][p] = sendBuffer[n][p],
         p \in peers'[n] <=> p \in peers[n], n \in peers'[p] <=> n \in peers[p],
         receiveBuffer'[n][p] = receiveBuffer[n][p],
         receiveBuffer'[p][n] = receiveBuffer[p][n],
         reassemblyBuffer'[p][n] = reassemblyBuffer[p][n],
         handled'[n][p] = handled[n][p], handled'[p][n] = handled[p][n],
         connects'[n][p] = connects[n][p], connects'[p][n] = connects[p][n],
         \A d \in net' : d \in net \/ (/\ d.src = nn /\ d.dst = pp
                                       /\ d.action \notin ControlAction)
  PROVE  LinkOK(n, p)'
  <1>1. LinkOK(n, p)
    BY DEF IInv
  <1>2. MessagesOK(n, p)' /\ PushedOK(n, p)'
    <2>1. MessagesOK(n, p)'
      BY <1>1 DEF LinkOK, MessagesOK
    <2>2. \A x : FragmentOK(n, p, x)' <=> FragmentOK(n, p, x)
      BY DEF FragmentOK
    <2>3. PushedOK(n, p)'
      BY <1>1, <2>2 DEF LinkOK, PushedOK
    <2> QED BY <2>1, <2>3
  <1>3. UnconnectedOK(n, p)'
    BY <1>1 DEF LinkOK, UnconnectedOK, ControlAction
  <1>4. SenderOK(n, p)'
    BY <1>1 DEF LinkOK, SenderOK
  <1>5. WaitingOK(n, p)' /\ PrefixOK(n, p)'
    BY <1>1 DEF LinkOK, WaitingOK, PrefixOK, FirstSession
  <1>6. PoppedOK(n, p)'
    BY <1>1 DEF LinkOK, PoppedOK, FirstSession
  <1>7. AckOK(n, p)'
    BY <1>1 DEF LinkOK, AckOK, Joined, Open, Has, ControlAction
  <1> QED BY <1>2, <1>3, <1>4, <1>5, <1>6, <1>7 DEF LinkOK

(* forwardGameData: the new fragments are pushed after the old ones. *)
LEMMA ForwardGameDataStep ==
  ASSUME IInv, NEW n \in Node, NEW p \in Node, NEW nn \in Node, NEW pp \in Node,
         NEW action \in GameAction, NEW k \in 1..MaxFragments,
         ForwardGameData(nn, pp, action, k)
  PROVE  LinkOK(n, p)'
  <1>1. action \in GameAction \cup {"HELLO"} /\ k \in Nat \ {0}
    BY ConstantsAssumption
  <1>2. Forward(nn, pp, sendBuffer[nn][pp], action, k)
    BY DEF ForwardGameData
  <1>3. UNCHANGED <<peers, receiveBuffer, reassemblyBuffer, handled, connects>>
    BY DEF ForwardGameData
  <1>4. /\ ~(n = nn /\ p = pp) => /\ sent'[n][p] = sent[n][p]
                                  /\ pushed'[n][p] = pushed[n][p]
                                  /\ sendBuffer'[n][p] = sendBuffer[n][p]
        /\ \A d \in net' : d \in net \/ (/\ d.src = nn /\ d.dst = pp
                                         /\ d.action \notin ControlAction)
    BY <1>1, <1>2, ForwardFrame
  <1>5. CASE ~(n = nn /\ p = pp)
    BY <1>3, <1>4, <1>5, FrameStep
  <1>6. CASE n = nn /\ p = pp
    <2> DEFINE b == sendBuffer[n][p]
               L == pushed[n][p]
    <2>1. LinkOK(n, p) /\ p \in peers[n] /\ connects[n][p] # 0 /\ connects[n][p] \in Nat
      BY <1>6 DEF IInv, TypeOK, LinkOK, UnconnectedOK, ForwardGameData
    <2>2. Forward(n, p, b, action, k)
      BY <1>2, <1>6
    <2>3. /\ Len(sent'[n][p]) = Len(sent[n][p]) + 1
          /\ \A i \in 1..Len(sent[n][p]) : sent'[n][p][i] = sent[n][p][i]
          /\ Len(pushed'[n][p]) = Len(L) + k
          /\ \A s \in 1..Len(L) : pushed'[n][p][s] = L[s]
          /\ MessagesOK(n, p)'
          /\ PushedOK(n, p)'
      BY <1>1, <2>2, ForwardHistory
    <2>4. UnconnectedOK(n, p)'
      BY <1>3, <2>1 DEF UnconnectedOK
    <2>5. connects[n][p] <= 1 =>
            /\ b.nextPush = Len(L) + 1
            /\ DOMAIN b.data \subseteq 1..Len(L)
            /\ \A s \in DOMAIN b.data : b.data[s] = L[s]
            /\ \A d \in net :
                 d.src = n /\ d.dst = p /\ d.action \notin ControlAction =>
                   /\ d.seq \in 1..Len(L)
                   /\ d.action = L[d.seq].action
                   /\ d.bytes = L[d.seq].bytes
      BY <2>1 DEF LinkOK, SenderOK
    <2>6. connects[n][p] <= 1 =>
            /\ sendBuffer'[n][p].nextPush = Len(pushed'[n][p]) + 1
            /\ DOMAIN sendBuffer'[n][p].data =
                 DOMAIN b.data \cup (Len(L) + 1)..Len(pushed'[n][p])
            /\ \A s \in DOMAIN sendBuffer'[n][p].data :
                 sendBuffer'[n][p].data[s] = pushed'[n][p][s]
            /\ \A d \in net' : d \in net \/ /\ d.seq \in 1..Len(pushed'[n][p])
                                            /\ d.action = pushed'[n][p][d.seq].action
                                            /\ d.bytes = pushed'[n][p][d.seq].bytes
      BY <1>1, <2>2, <2>5, ForwardBuffer
    <2>7. Len(L) \in Nat
      <3>1. L \in Seq(Payload)
        BY DEF IInv, TypeOK
      <3> QED BY <3>1
    <2> HIDE DEF b, L
    <2>8. \A s \in 1..Len(L) : s \in 1..Len(pushed'[n][p])
      BY <1>1, <2>3, <2>7
    <2>9. \A s \in (Len(L) + 1)..Len(pushed'[n][p]) : s \in 1..Len(pushed'[n][p])
      BY <2>7
    <2>10. SenderOK(n, p)'
      <3>1. SUFFICES ASSUME connects[n][p] <= 1
                     PROVE  /\ sendBuffer'[n][p].nextPush = Len(pushed'[n][p]) + 1
                            /\ DOMAIN sendBuffer'[n][p].data \subseteq 1..Len(pushed'[n][p])
                            /\ \A s \in DOMAIN sendBuffer'[n][p].data :
                                 sendBuffer'[n][p].data[s] = pushed'[n][p][s]
                            /\ \A d \in net' :
                                 d.src = n /\ d.dst = p /\ d.action \notin ControlAction =>
                                   /\ d.seq \in 1..Len(pushed'[n][p])
                                   /\ d.action = pushed'[n][p][d.seq].action
                                   /\ d.bytes = pushed'[n][p][d.seq].bytes
        BY <1>3 DEF SenderOK
      <3>2. DOMAIN sendBuffer'[n][p].data \subseteq 1..Len(pushed'[n][p])
        BY <2>5, <2>6, <2>8, <2>9, <3>1
      <3>3. ASSUME NEW d \in net', d.src = n, d.dst = p, d.action \notin ControlAction
            PROVE  /\ d.seq \in 1..Len(pushed'[n][p])
                   /\ d.action = pushed'[n][p][d.seq].action
                   /\ d.bytes = pushed'[n][p][d.seq].bytes
        <4>1. CASE d \in net
          <5>1. /\ d.seq \in 1..Len(L)
                /\ d.action = L[d.seq].action
                /\ d.bytes = L[d.seq].bytes
            BY <2>5, <3>1, <3>3, <4>1
          <5>2. pushed'[n][p][d.seq] = L[d.seq]
            BY <2>3, <5>1
          <5> QED BY <2>8, <5>1, <5>2
        <4>2. CASE d \notin net
          BY <2>6, <3>1, <4>2
        <4> QED BY <4>1, <4>2
      <3> QED BY <2>6, <3>1, <3>2, <3>3
    <2>11. WaitingOK(n, p)' /\ PoppedOK(n, p)' /\ PrefixOK(n, p)'
      <3>1. CASE FirstSession(n, p)
        BY <1>1, <1>3, <2>3, <3>1, GrownHistory DEF L
      <3>2. CASE ~FirstSession(n, p)
        BY <1>3, <3>2 DEF WaitingOK, PoppedOK, PrefixOK, FirstSession
      <3> QED BY <3>1, <3>2
    <2>12. AckOK(n, p)'
      <3>1. SUFFICES ASSUME Joined(n, p)' PROVE AckOK(n, p)'
        BY DEF AckOK
      <3>2. Joined(n, p) /\ connects[n][p] = 1
        BY <1>3, <3>1 DEF Joined, Open
      <3>3. /\ \A d \in net : d.src = p /\ d.dst = n /\ d.action = "TCP_ACK" => Has(p, n, d.seq)
            /\ \A s \in 1..Len(L) : s \in DOMAIN b.data \/ Has(p, n, s)
        BY <2>1, <3>2 DEF LinkOK, AckOK, b, L
      <3>4. \A s : Has(p, n, s)' <=> Has(p, n, s)
        BY <1>3 DEF Has
      <3>5. \A s \in 1..Len(pushed'[n][p]) :
              s \in 1..Len(L) \/ s \in (Len(L) + 1)..Len(pushed'[n][p])
        BY <1>1, <2>3, <2>7
      <3>6. \A s \in 1..Len(pushed'[n][p]) : s \in DOMAIN sendBuffer'[n][p].data \/ Has(p, n, s)'
        BY <2>6, <3>2, <3>3, <3>4, <3>5
      <3>7. \A d \in net' : d.src = p /\ d.dst = n /\ d.action = "TCP_ACK" => Has(p, n, d.seq)'
        BY <1>4, <3>3, <3>4 DEF ControlAction
      <3> QED BY <3>6, <3>7 DEF AckOK
    <2> QED BY <2>3, <2>4, <2>10, <2>11, <2>12 DEF LinkOK
  <1> QED BY <1>5, <1>6

(* connectToPeer.  The first session starts with empty buffers on a link   *)
(* that has carried nothing; a later one makes no promise.                 *)
LEMMA ConnectStep ==
  ASSUME IInv, NEW n \in Node, NEW p \in Node, NEW nn \in Node, NEW pp \in Node,
         ConnectToPeer(nn, pp)
  PROVE  LinkOK(n, p)'
  <1>1. LinkOK(n, p) /\ LinkOK(p, n) /\ nn # pp
    BY DEF IInv, ConnectToPeer
  <1>2. Forward(nn, pp, EmptyBuffer, "HELLO", 1) /\ handled' = handled
    BY DEF ConnectToPeer
  <1>3. /\ EmptyBuffer.nextPop = 1 /\ EmptyBuffer.nextPush = 1
        /\ DOMAIN EmptyBuffer.data = {}
    BY DEF EmptyBuffer, Buffer
  <1>4. /\ ~(n = nn /\ p = pp) => /\ sent'[n][p] = sent[n][p]
                                  /\ pushed'[n][p] = pushed[n][p]
                                  /\ sendBuffer'[n][p] = sendBuffer[n][p]
        /\ \A d \in net' : d \in net \/ (/\ d.src = nn /\ d.dst = pp
                                         /\ d.action \notin ControlAction)
    BY <1>2, ForwardFrame
  <1>5. /\ ~(n = nn /\ p = pp) => /\ receiveBuffer'[n][p] = receiveBuffer[n][p]
                                  /\ connects'[n][p] = connects[n][p]
                                  /\ p \in peers'[n] <=> p \in peers[n]
        /\ ~(p = nn /\ n = pp) => /\ receiveBuffer'[p][n] = receiveBuffer[p][n]
                                  /\ reassemblyBuffer'[p][n] = reassemblyBuffer[p][n]
                                  /\ connects'[p][n] = connects[p][n]
                                  /\ n \in peers'[p] <=> n \in peers[p]
    BY DEF ConnectToPeer, IInv, TypeOK, AreBuffers
  <1>6. connects[n][p] \in Nat /\ connects[p][n] \in Nat
    BY DEF IInv, TypeOK
  <1>7. CASE ~(n = nn /\ p = pp) /\ ~(p = nn /\ n = pp)
    BY <1>2, <1>4, <1>5, <1>7, FrameStep
  <1>8. CASE n = nn /\ p = pp
    <2> DEFINE L == pushed[n][p]
    <2>1. connects'[n][p] = connects[n][p] + 1 /\ p \in peers'[n]
      BY <1>8 DEF ConnectToPeer, IInv, TypeOK
    <2>2. Forward(n, p, EmptyBuffer, "HELLO", 1) /\ ~(p = nn /\ n = pp)
      BY <1>1, <1>2, <1>8
    <2>3. /\ Len(sent'[n][p]) = Len(sent[n][p]) + 1
          /\ \A i \in 1..Len(sent[n][p]) : sent'[n][p][i] = sent[n][p][i]
          /\ Len(pushed'[n][p]) = Len(L) + 1
          /\ \A s \in 1..Len(L) : pushed'[n][p][s] = L[s]
          /\ MessagesOK(n, p)'
          /\ PushedOK(n, p)'
      BY <2>2, ForwardHistory
    <2>4. connects[n][p] = 0 =>
            /\ L = <<>>
            /\ \A d \in net : ~(d.src = n /\ d.dst = p)
            /\ \A d \in net : ~(d.src = p /\ d.dst = n /\ d.action = "TCP_ACK")
      BY <1>1 DEF LinkOK, UnconnectedOK
    <2>5. connects[n][p] = 0 =>
            /\ EmptyBuffer.nextPush = Len(L) + 1
            /\ DOMAIN EmptyBuffer.data \subseteq 1..Len(L)
            /\ \A s \in DOMAIN EmptyBuffer.data : EmptyBuffer.data[s] = L[s]
      <3> HIDE DEF L
      <3> QED BY <1>3, <2>4
    <2>6. connects[n][p] = 0 =>
            /\ sendBuffer'[n][p].nextPush = Len(pushed'[n][p]) + 1
            /\ DOMAIN sendBuffer'[n][p].data =
                 DOMAIN EmptyBuffer.data \cup (Len(L) + 1)..Len(pushed'[n][p])
            /\ \A s \in DOMAIN sendBuffer'[n][p].data :
                 sendBuffer'[n][p].data[s] = pushed'[n][p][s]
            /\ \A d \in net' : d \in net \/ /\ d.seq \in 1..Len(pushed'[n][p])
                                            /\ d.action = pushed'[n][p][d.seq].action
                                            /\ d.bytes = pushed'[n][p][d.seq].bytes
      <3>1. SUFFICES ASSUME connects[n][p] = 0
                     PROVE  /\ sendBuffer'[n][p].nextPush = Len(pushed'[n][p]) + 1
                            /\ DOMAIN sendBuffer'[n][p].data =
                                 DOMAIN EmptyBuffer.data \cup (Len(L) + 1)..Len(pushed'[n][p])
                            /\ \A s \in DOMAIN sendBuffer'[n][p].data :
                                 sendBuffer'[n][p].data[s] = pushed'[n][p][s]
                            /\ \A d \in net' : d \in net \/
                                 /\ d.seq \in 1..Len(pushed'[n][p])
                                 /\ d.action = pushed'[n][p][d.seq].action
                                 /\ d.bytes = pushed'[n][p][d.seq].bytes
        OBVIOUS
      <3>2. PICK action \in GameAction \cup {"HELLO"} : action = "HELLO"
        OBVIOUS
      <3>3. PICK k \in Nat \ {0} : k = 1
        OBVIOUS
      <3>4. PICK b : b = EmptyBuffer
        OBVIOUS
      <3>5. Forward(n, p, b, action, k)
        BY <2>2, <3>2, <3>3, <3>4
      <3>6. /\ b.nextPush = Len(pushed[n][p]) + 1
            /\ DOMAIN b.data \subseteq 1..Len(pushed[n][p])
            /\ \A s \in DOMAIN b.data : b.data[s] = pushed[n][p][s]
        BY <2>5, <3>1, <3>4
      <3> QED BY <3>4, <3>5, <3>6, ForwardBuffer
    <2>7. connects[n][p] = 0 => DOMAIN sendBuffer'[n][p].data = 1..Len(pushed'[n][p])
      <3> HIDE DEF L
      <3>1. connects[n][p] = 0 => Len(L) + 1 = 1
        BY <2>4
      <3> QED BY <1>3, <2>6, <3>1
    <2>8. UnconnectedOK(n, p)'
      BY <1>6, <2>1 DEF UnconnectedOK
    <2>9. SenderOK(n, p)'
      <3>1. SUFFICES ASSUME connects[n][p] = 0 PROVE SenderOK(n, p)'
        BY <1>6, <2>1 DEF SenderOK
      <3> QED BY <2>1, <2>4, <2>6, <2>7, <3>1 DEF SenderOK
    <2>10. WaitingOK(n, p)' /\ PoppedOK(n, p)' /\ PrefixOK(n, p)'
      <3>1. CASE FirstSession(n, p)
        BY <1>2, <1>5, <2>2, <2>3, <3>1, GrownHistory
      <3>2. CASE ~FirstSession(n, p)
        <4>1. ~FirstSession(n, p)'
          BY <1>5, <1>6, <2>1, <2>2, <3>2 DEF FirstSession
        <4> QED BY <4>1 DEF WaitingOK, PoppedOK, PrefixOK
      <3> QED BY <3>1, <3>2
    <2>11. AckOK(n, p)'
      <3>1. SUFFICES ASSUME Joined(n, p)' PROVE AckOK(n, p)'
        BY DEF AckOK
      <3>2. connects[n][p] = 0
        BY <1>6, <2>1, <3>1 DEF Joined, Open
      <3>3. \A d \in net' : ~(d.src = p /\ d.dst = n /\ d.action = "TCP_ACK")
        BY <1>4, <2>4, <3>2 DEF ControlAction
      <3> QED BY <2>7, <3>2, <3>3 DEF AckOK
    <2> QED BY <2>3, <2>8, <2>9, <2>10, <2>11 DEF LinkOK
  <1>9. CASE p = nn /\ n = pp
    <2>1. /\ receiveBuffer'[p][n] = EmptyBuffer
          /\ reassemblyBuffer'[p][n] = <<>>
          /\ connects'[p][n] = connects[p][n] + 1
      BY <1>9 DEF ConnectToPeer, IInv, TypeOK, AreBuffers
    <2>2. ~(n = nn /\ p = pp)
      BY <1>1, <1>9
    <2>3. MessagesOK(n, p)' /\ PushedOK(n, p)'
      <3>1. MessagesOK(n, p)'
        BY <1>1, <1>4, <2>2 DEF LinkOK, MessagesOK
      <3>2. \A x : FragmentOK(n, p, x)' <=> FragmentOK(n, p, x)
        BY <1>4, <2>2 DEF FragmentOK
      <3>3. PushedOK(n, p)'
        BY <1>1, <1>4, <2>2, <3>2 DEF LinkOK, PushedOK
      <3> QED BY <3>1, <3>3
    <2>4. UnconnectedOK(n, p)'
      BY <1>1, <1>2, <1>4, <1>5, <1>9, <2>2 DEF LinkOK, UnconnectedOK, ControlAction
    <2>5. SenderOK(n, p)'
      <3>1. \A d \in net' : d.src = n /\ d.dst = p => d \in net
        BY <1>1, <1>4, <1>9
      <3> QED BY <1>1, <1>4, <1>5, <2>2, <3>1 DEF LinkOK, SenderOK
    <2>6. FirstSession(n, p)' => /\ FirstSession(n, p)
                                 /\ connects[p][n] = 0
                                 /\ handled'[p][n] = <<>>
      BY <1>1, <1>2, <1>5, <1>6, <2>1, <2>2 DEF FirstSession, LinkOK, UnconnectedOK
    <2>7. WaitingOK(n, p)'
      BY <1>3, <2>1 DEF WaitingOK
    <2>8. Len(pushed'[n][p]) \in Nat /\ Len(sent'[n][p]) \in Nat
      <3>1. pushed[n][p] \in Seq(Payload) /\ sent[n][p] \in Seq(Message)
        BY DEF IInv, TypeOK
      <3> QED BY <1>4, <2>2, <3>1
    <2>9. PoppedOK(n, p)'
      BY <1>3, <2>1, <2>6, <2>8 DEF PoppedOK
    <2>10. PrefixOK(n, p)'
      BY <2>6, <2>8 DEF PrefixOK
    <2>11. AckOK(n, p)'
      <3>1. SUFFICES ASSUME Joined(n, p)' PROVE AckOK(n, p)'
        BY DEF AckOK
      <3>2. Joined(n, p) /\ connects[p][n] = 0
        BY <1>5, <1>6, <2>1, <2>2, <3>1 DEF Joined, Open
      <3>3. receiveBuffer[p][n].nextPop = 1 /\ DOMAIN receiveBuffer[p][n].data = {}
        BY <1>1, <3>2 DEF LinkOK, UnconnectedOK
      <3>4. \A s : Has(p, n, s)' <=> Has(p, n, s)
        BY <1>3, <2>1, <3>3 DEF Has
      <3> QED BY <1>1, <1>4, <2>2, <3>2, <3>4 DEF LinkOK, AckOK, ControlAction
    <2> QED BY <2>3, <2>4, <2>5, <2>7, <2>9, <2>10, <2>11 DEF LinkOK
  <1> QED BY <1>7, <1>8, <1>9

-----------------------------------------------------------------------------
(* What is in a send buffer is data. *)
LEMMA BufferedIsData ==
  ASSUME TypeOK, NEW n \in Node, NEW p \in Node, NEW s \in DOMAIN sendBuffer[n][p].data
  PROVE  sendBuffer[n][p].data[s].action \notin ControlAction
  <1>1. sendBuffer[n][p].data[s].action \in GameAction \cup {"HELLO", "MORE"}
    BY BufferedType DEF Payload
  <1> QED BY <1>1, ConstantsAssumption DEF ControlAction

\* A node without peers satisfies IInv.
LEMMA InitLinks == Init => IInv
  <1> SUFFICES ASSUME Init PROVE IInv
    OBVIOUS
  <1>1. TypeOK
    BY InitType
  <1>2. ASSUME NEW n \in Node, NEW p \in Node PROVE LinkOK(n, p)
    <2>1. /\ sendBuffer[n][p] = EmptyBuffer /\ receiveBuffer[n][p] = EmptyBuffer
          /\ receiveBuffer[p][n] = EmptyBuffer
          /\ reassemblyBuffer[p][n] = <<>> /\ net = {} /\ sent[n][p] = <<>>
          /\ pushed[n][p] = <<>> /\ handled[n][p] = <<>> /\ handled[p][n] = <<>>
          /\ connects[n][p] = 0 /\ peers[n] = {} /\ peers[p] = {}
      BY DEF Init
    <2>2. EmptyBuffer.nextPop = 1 /\ DOMAIN EmptyBuffer.data = {}
      BY DEF EmptyBuffer, Buffer
    <2>3. MessagesOK(n, p) /\ PushedOK(n, p)
      BY <2>1 DEF MessagesOK, PushedOK
    <2>4. UnconnectedOK(n, p) /\ SenderOK(n, p) /\ WaitingOK(n, p)
      BY <2>1, <2>2 DEF UnconnectedOK, SenderOK, WaitingOK
    <2>5. PoppedOK(n, p) /\ PrefixOK(n, p)
      BY <2>1 DEF PoppedOK, PrefixOK
    <2>6. AckOK(n, p)
      BY <2>1 DEF AckOK, Joined, Open
    <2> QED BY <2>3, <2>4, <2>5, <2>6 DEF LinkOK
  <1> QED BY <1>1, <1>2 DEF IInv

\* Every handler of TafnetNode preserves IInv.
LEMMA NextLinks == IInv /\ [Next]_vars => IInv'
  <1> SUFFICES ASSUME IInv, [Next]_vars PROVE IInv'
    OBVIOUS
  <1>0. TypeOK /\ TypeOK'
    BY NextType DEF IInv
  <1> SUFFICES ASSUME NEW n \in Node, NEW p \in Node PROVE LinkOK(n, p)'
    BY <1>0 DEF IInv
  <1>1. ASSUME NEW nn \in Node, NEW pp \in Node,
               NEW action \in GameAction, NEW k \in 1..MaxFragments,
               ForwardGameData(nn, pp, action, k)
        PROVE  LinkOK(n, p)'
    BY <1>1, ForwardGameDataStep
  <1>2. ASSUME NEW nn \in Node, NEW pp \in Node, ConnectToPeer(nn, pp)
        PROVE  LinkOK(n, p)'
    BY <1>2, ConnectStep
  <1>3. ASSUME NEW nn \in Node, NEW pp \in Node, DisconnectFromPeer(nn, pp)
        PROVE  LinkOK(n, p)'
    BY <1>3, DisconnectStep
  <1>4. ASSUME NEW nn \in Node, NEW pp \in Node, DrainReceiveBuffer(nn, pp)
        PROVE  LinkOK(n, p)'
    BY <1>4, DrainStep
  <1>5. ASSUME NEW nn \in Node, NEW oldest \in [peers[nn] -> 0..MaxSeq(nn)],
               OnResendTimer(nn, oldest)
        PROVE  LinkOK(n, p)'
    <2>1. ASSUME NEW d \in net', d \notin net PROVE Resent(d)
      <3>1. PICK q \in peers[nn] : d \in Resends(nn, q, oldest[q])
        BY <1>5, <2>1 DEF OnResendTimer
      <3>2. PICK s \in DOMAIN sendBuffer[nn][q].data :
              d = Data(nn, q, s, sendBuffer[nn][q].data[s])
        BY <3>1 DEF Resends, TimedOut
      <3>3. q \in Node
        BY <1>0 DEF TypeOK
      <3>4. sendBuffer[nn][q].data[s].action \notin ControlAction
        BY <1>0, <3>3, BufferedIsData
      <3> QED BY <3>1, <3>2, <3>4 DEF Resent, Data
    <2> QED BY <1>5, <2>1, ResendStep DEF OnResendTimer, buffers
  <1>6. ASSUME NEW nn \in Node, OnResendReqReenableTimer(nn)
        PROVE  LinkOK(n, p)'
    BY <1>6, ResendStep DEF OnResendReqReenableTimer
  <1>7. ASSUME NEW d \in net, ReceiveUnknown(d)
        PROVE  LinkOK(n, p)'
    <2>1. \A e \in net' : e \in net
      BY <1>7 DEF ReceiveUnknown, Consume
    <2> QED BY <1>7, <2>1, ResendStep DEF ReceiveUnknown, buffers
  <1>8. ASSUME NEW d \in net, ReceiveAck(d)
        PROVE  LinkOK(n, p)'
    BY <1>8, ReceiveAckStep
  <1>9. ASSUME NEW d \in net, ReceiveResend(d)
        PROVE  LinkOK(n, p)'
    <2>1. d.dst \in Node /\ d.src \in Node /\ d.src \in peers[d.dst]
      BY <1>0, <1>9 DEF TypeOK, Datagram, ReceiveResend
    <2>2. ASSUME NEW e \in net', e \notin net PROVE Resent(e)
      <3>1. PICK s \in DOMAIN sendBuffer[d.dst][d.src].data :
              e = Data(d.dst, d.src, s, sendBuffer[d.dst][d.src].data[s])
        BY <1>9, <2>2 DEF ReceiveResend, Consume
      <3>2. sendBuffer[d.dst][d.src].data[s].action \notin ControlAction
        BY <1>0, <2>1, BufferedIsData
      <3> QED BY <2>1, <3>1, <3>2 DEF Resent, Data
    <2> QED BY <1>9, <2>2, ResendStep DEF ReceiveResend, buffers
  <1>10. ASSUME NEW d \in net, ReceiveData(d)
         PROVE  LinkOK(n, p)'
    BY <1>10, ReceiveDataStep
  <1>11. ASSUME NEW d \in net, Lose(d)
         PROVE  LinkOK(n, p)'
    <2>1. \A e \in net' : e \in net
      BY <1>11 DEF Lose
    <2> QED BY <1>11, <2>1, ResendStep DEF Lose, buffers
  <1>12. CASE UNCHANGED vars
    BY <1>12, ResendStep DEF vars, buffers
  <1> QED
    BY <1>1, <1>2, <1>3, <1>4, <1>5, <1>6, <1>7, <1>8, <1>9, <1>10, <1>11, <1>12
       DEF Next, Receive

(* The links between nodes satisfy the inductive invariant: the sender's   *)
(* buffer, the data in flight, the receiver's buffers and the histories    *)
(* agree.                                                                  *)
THEOREM Invariant == Spec => []IInv
  BY InitLinks, NextLinks, PTL DEF Spec

(* In the first session between two nodes handleMessage sees the messages  *)
(* passed to forwardGameData in order, whole and once, whatever the        *)
(* network does.                                                           *)
THEOREM InOrder == Spec => []InOrderDelivery
  <1>1. IInv => InOrderDelivery
    BY DEF IInv, LinkOK, PrefixOK, InOrderDelivery, FirstSession
  <1> QED BY <1>1, Invariant, PTL

(* An ACK never makes the sender forget a fragment the receiver does not   *)
(* have.                                                                   *)
THEOREM NoFragmentLost == Spec => []NothingLost
  <1>1. IInv => NothingLost
    BY DEF IInv, LinkOK, AckOK, Joined, Has, NothingLost
  <1> QED BY <1>1, Invariant, PTL

-----------------------------------------------------------------------------
(***************************************************************************)
(* Refinement.  When no node connects to a peer twice, every step is a     *)
(* step of the FIFO stream or leaves the stream as it is.                  *)
(***************************************************************************)
StreamInv == IInv /\ \A n, p \in Node : connects[n][p] <= MaxConnects

\* The invariant under which each step maps to a step of ReliableStream holds throughout.
LEMMA StreamInvariant == Spec => []StreamInv
  <1>1. Init => \A n, p \in Node : connects[n][p] <= MaxConnects
    BY ConstantsAssumption DEF Init
  <1>2. TypeOK /\ (\A n, p \in Node : connects[n][p] <= MaxConnects) /\ [Next]_vars
          => (\A n, p \in Node : connects[n][p] <= MaxConnects)'
    <2> SUFFICES ASSUME TypeOK, \A n, p \in Node : connects[n][p] <= MaxConnects,
                        [Next]_vars,
                        NEW n \in Node, NEW p \in Node
                 PROVE  connects'[n][p] <= MaxConnects
      OBVIOUS
    <2>1. CASE connects' = connects
      BY <2>1
    <2>2. ASSUME NEW nn \in Node, NEW pp \in Node, ConnectToPeer(nn, pp)
          PROVE  connects'[n][p] <= MaxConnects
      <3>1. connects[nn][pp] \in Nat /\ connects[nn][pp] < MaxConnects
        BY <2>2 DEF ConnectToPeer, TypeOK
      <3>2. connects'[n][p] = IF n = nn /\ p = pp THEN connects[nn][pp] + 1 ELSE connects[n][p]
        BY <2>2 DEF ConnectToPeer, TypeOK
      <3>3. connects[nn][pp] + 1 <= MaxConnects
        BY <3>1, ConstantsAssumption
      <3> QED BY <3>2, <3>3
    <2>3. \A d : Receive(d) \/ Lose(d) => connects' = connects
      BY DEF Receive, ReceiveUnknown, ReceiveAck, ReceiveResend, ReceiveData, Lose, history
    <2>4. \A nn, pp, action, k : ForwardGameData(nn, pp, action, k) => connects' = connects
      BY DEF ForwardGameData
    <2>5. \A nn, pp :
            DisconnectFromPeer(nn, pp) \/ DrainReceiveBuffer(nn, pp) => connects' = connects
      BY DEF DisconnectFromPeer, DrainReceiveBuffer, history
    <2>6. \A nn, oldest :
            OnResendTimer(nn, oldest) \/ OnResendReqReenableTimer(nn) => connects' = connects
      BY DEF OnResendTimer, OnResendReqReenableTimer, history
    <2>7. CASE UNCHANGED vars
      BY <2>1, <2>7 DEF vars, history
    <2>8. CASE Next
      BY <2>1, <2>2, <2>3, <2>4, <2>5, <2>6, <2>8 DEF Next
    <2> QED BY <2>7, <2>8
  <1> QED BY <1>1, <1>2, InitLinks, NextLinks, PTL DEF Spec, StreamInv, IInv

(* What forwardGameData and connectToPeer hand to the stream. *)
LEMMA ForwardIsSend ==
  ASSUME StreamInv, NEW n \in Node, NEW p \in Node, NEW b,
         NEW action \in GameAction \cup {"HELLO"}, NEW k \in 1..MaxFragments,
         Forward(n, p, b, action, k), UNCHANGED handled,
         Len(sent[n][p]) + 1 <= MaxMsgs[n] + MaxConnects
  PROVE  Stream!Next
  <1> DEFINE no == Len(sent[n][p]) + 1
             m == [action |-> action, buf |-> Bytes(no, k)]
  <1>1. sent' = [sent EXCEPT ![n][p] = Append(@, m)]
    BY DEF Forward
  <1>2. no \in 1..(MaxMsgs[n] + MaxConnects)
    <2>1. sent[n][p] \in Seq(Message) /\ MaxMsgs[n] \in Nat /\ MaxConnects \in Nat
      BY ConstantsAssumption DEF StreamInv, IInv, TypeOK
    <2> QED BY <2>1
  <1> HIDE DEF no
  <1>3. m \in Sendable
    <2>1. Bytes(no, k) \in UNION {{Bytes(i, j) : j \in 1..MaxFragments} :
                                   i \in 1..(MaxMsgs[n] + MaxConnects)}
      BY <1>2
    <2> QED BY <2>1 DEF Sendable
  <1> HIDE DEF m
  <1>4. Stream!Send(n, p, m)
    BY <1>1 DEF Stream!Send
  <1> QED BY <1>3, <1>4 DEF Stream!Next

\* Draining the receive buffer hands over whole messages of the stream, in order.
LEMMA DrainIsHandle ==
  ASSUME StreamInv, StreamInv', MaxConnects = 1, NEW n \in Node, NEW p \in Node,
         DrainReceiveBuffer(n, p)
  PROVE  [Stream!Next]_<<sent, handled>>
  <1> DEFINE H == handled[n][p]
  <1>1. UNCHANGED sent
    BY DEF DrainReceiveBuffer
  <1>2. PICK m : \/ UNCHANGED handled
                 \/ handled' = [handled EXCEPT ![n][p] = Append(@, m)] /\ m \in Message
    <2> DEFINE x == receiveBuffer[n][p].data[receiveBuffer[n][p].nextPop]
               m == [action |-> x.action, buf |-> Append(reassemblyBuffer[n][p], x.bytes)]
    <2>1. x.action = "MORE" => handled' = handled
      <3>1. handled \in [Node -> [Node -> Seq(Message)]]
        BY DEF StreamInv, IInv, TypeOK
      <3>2. x.action = "MORE" => handled' = [handled EXCEPT ![n][p] = @]
        BY DEF DrainReceiveBuffer
      <3> HIDE DEF x
      <3> QED BY <3>1, <3>2
    <2>2. x.action # "MORE" => handled' = [handled EXCEPT ![n][p] = Append(@, m)]
      BY DEF DrainReceiveBuffer
    <2>3. x.action # "MORE" => m \in Message
      <3>1. IsBuffer(receiveBuffer[n][p]) /\ ReadyRead(receiveBuffer[n][p])
            /\ reassemblyBuffer[n][p] \in Seq(Nat \X Nat)
        <4>1. ReadyRead(receiveBuffer[n][p])
          BY DEF DrainReceiveBuffer
        <4>2. TypeOK
          BY DEF StreamInv, IInv
        <4> HIDE DEF x, m
        <4> QED BY <4>1, <4>2 DEF TypeOK, AreBuffers
      <3>2. x \in Payload
        BY <3>1 DEF IsBuffer, ReadyRead
      <3>3. x.bytes \in Nat \X Nat
        BY <3>2 DEF Payload
      <3>4. Append(reassemblyBuffer[n][p], x.bytes) \in Seq(Nat \X Nat)
        BY <3>1, <3>3
      <3> QED BY <3>2, <3>4 DEF Payload, Message
    <2> HIDE DEF x, m
    <2> QED BY <2>1, <2>2, <2>3
  <1>3. CASE UNCHANGED handled
    BY <1>1, <1>3
  <1>4. CASE handled' = [handled EXCEPT ![n][p] = Append(@, m)] /\ m \in Message
    <2>1. H \in Seq(Message) /\ handled'[n][p] = Append(H, m)
      BY <1>4 DEF StreamInv, IInv, TypeOK
    <2>2. /\ Len(handled'[n][p]) <= Len(sent'[p][n])
          /\ \A i \in 1..Len(handled'[n][p]) : handled'[n][p][i] = sent'[p][n][i]
      <3>1. (LinkOK(p, n) /\ FirstSession(p, n))'
        BY DEF StreamInv, IInv, FirstSession
      <3> QED BY <3>1 DEF LinkOK, PrefixOK
    <2> HIDE DEF H
    <2>3. Len(handled'[n][p]) = Len(H) + 1 /\ handled'[n][p][Len(H) + 1] = m
      BY <1>4, <2>1, AppendProperties
    <2>4. Len(H) \in Nat /\ Len(sent[p][n]) \in Nat
      <3>1. sent[p][n] \in Seq(Message)
        BY DEF StreamInv, IInv, TypeOK
      <3> QED BY <2>1, <3>1
    <2>5. Len(H) < Len(sent[p][n]) /\ m = sent[p][n][Len(H) + 1]
      BY <1>1, <2>2, <2>3, <2>4
    <2>6. Stream!Handle(n, p)
      BY <1>1, <1>4, <2>5 DEF Stream!Handle, H
    <2> QED BY <2>6 DEF Stream!Next
  <1> QED BY <1>2, <1>3, <1>4

\* Every step of TafnetNode in its first session is a step of ReliableStream or leaves the stream unchanged.
LEMMA StreamStep ==
  ASSUME StreamInv, StreamInv', MaxConnects = 1, [Next]_vars
  PROVE  [Stream!Next]_<<sent, handled>>
  <1>1. ASSUME NEW n \in Node, NEW p \in Node,
               NEW action \in GameAction, NEW k \in 1..MaxFragments,
               ForwardGameData(n, p, action, k)
        PROVE  Stream!Next
    <2>1. /\ Forward(n, p, sendBuffer[n][p], action, k)
          /\ UNCHANGED handled
          /\ Len(sent[n][p]) < MaxMsgs[n] + connects[n][p]
      BY <1>1 DEF ForwardGameData
    <2>2. /\ sent[n][p] \in Seq(Message) /\ MaxMsgs[n] \in Nat
          /\ connects[n][p] \in Nat /\ connects[n][p] <= MaxConnects
      BY ConstantsAssumption DEF StreamInv, IInv, TypeOK
    <2>3. Len(sent[n][p]) + 1 <= MaxMsgs[n] + MaxConnects
      BY <2>1, <2>2
    <2> QED BY <2>1, <2>3, ForwardIsSend
  <1>2. ASSUME NEW n \in Node, NEW p \in Node, ConnectToPeer(n, p)
        PROVE  Stream!Next
    <2>1. PICK action \in GameAction \cup {"HELLO"} : action = "HELLO"
      OBVIOUS
    <2>2. PICK k \in 1..MaxFragments : k = 1
      BY ConstantsAssumption
    <2>3. Forward(n, p, EmptyBuffer, action, k) /\ UNCHANGED handled
      BY <1>2, <2>1, <2>2 DEF ConnectToPeer
    <2>4. connects[n][p] = 0
      <3>1. connects[n][p] < 1 /\ connects[n][p] \in Nat
        BY <1>2 DEF ConnectToPeer, StreamInv, IInv, TypeOK
      <3> QED BY <3>1
    <2>5. sent[n][p] = <<>>
      BY <2>4 DEF StreamInv, IInv, LinkOK, UnconnectedOK, PushedOK
    <2>6. Len(sent[n][p]) + 1 <= MaxMsgs[n] + MaxConnects
      <3>1. MaxMsgs[n] \in Nat
        BY ConstantsAssumption
      <3> QED BY <2>5, <3>1
    <2> QED BY <2>3, <2>6, ForwardIsSend
  <1>3. ASSUME NEW n \in Node, NEW p \in Node, DrainReceiveBuffer(n, p)
        PROVE  [Stream!Next]_<<sent, handled>>
    BY <1>3, DrainIsHandle
  <1>4. CASE UNCHANGED <<sent, handled>>
    BY <1>4
  <1> QED BY <1>1, <1>2, <1>3, <1>4
    DEF Next, Receive, DisconnectFromPeer, OnResendTimer, OnResendReqReenableTimer,
        ReceiveUnknown, ReceiveAck, ReceiveResend, ReceiveData, Lose, vars, history

(* The buffered half of TafnetNode implements a FIFO stream of whole       *)
(* messages between every two nodes, as long as no node connects to a peer *)
(* a second time.                                                          *)
THEOREM ImplementsStream ==
  ASSUME MaxConnects = 1 PROVE Spec => Refinement
  <1>1. Init => Stream!Init
    BY DEF Init, Stream!Init
  <1>2. StreamInv /\ StreamInv' /\ [Next]_vars => [Stream!Next]_<<sent, handled>>
    BY StreamStep
  <1> QED BY <1>1, <1>2, StreamInvariant, PTL DEF Spec, Refinement, Stream!Spec
=============================================================================
