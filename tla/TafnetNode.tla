----------------------------- MODULE TafnetNode -----------------------------
(***************************************************************************)
(* The buffered ("tcp") half of tafnet::TafnetNode: game messages cut into *)
(* numbered fragments, sent over UDP, acknowledged one by one, resent on a *)
(* timer or on request, put back in order and reassembled by the receiver. *)
(*                                                                         *)
(* Each node is one Qt event loop: a handler runs to its end before the    *)
(* next one starts, and what interleaves is the handlers of the nodes and  *)
(* the network.  onReadyRead drains the receive buffer in a while loop and *)
(* calls out for every message; the model takes one step per iteration     *)
(* (DrainReceiveBuffer) and keeps every other handler of that node waiting *)
(* until the loop is done (Idle).                                          *)
(*                                                                         *)
(* A datagram is lost, delayed, reordered or duplicated by the network at  *)
(* will, which also stands for the repeats of proactive resend.  A node's  *)
(* address is its player id: the address book is not modelled here.        *)
(***************************************************************************)
EXTENDS DataBuffer, FiniteSets

CONSTANTS
  Node,                \* player ids
  GameAction,          \* actions >= ACTION_TCP_DATA the game layer forwards
  MAX_RESEND_AT_ONCE,  \* resends per peer in one tick of the resend timer
  MAX_RESEND_REQ,      \* resend requests issued at once (remainingMaxResend)
  MaxFragments,        \* bound: fragments of one message
  MaxMsgs,             \* bound: MaxMsgs[n] game messages n sends a peer
  MaxConnects          \* bound: calls of connectToPeer for one peer

ControlAction == {"TCP_ACK", "TCP_RESEND"}

ASSUME ConstantsAssumption ==
  /\ GameAction \cap (ControlAction \cup {"MORE", "HELLO"}) = {}
  /\ MAX_RESEND_AT_ONCE \in Nat \ {0}
  /\ MAX_RESEND_REQ \in Nat \ {0}
  /\ MaxFragments \in Nat \ {0}
  /\ MaxMsgs \in [Node -> Nat]
  /\ MaxConnects \in Nat

VARIABLES
  peers,               \* peers[n]: keys of m_peerAddresses
  sendBuffer,          \* sendBuffer[n][p]: m_sendBuffer of n for peer p
  receiveBuffer,       \* receiveBuffer[n][p]: m_receiveBuffer of n for p
  reassemblyBuffer,    \* reassemblyBuffer[n][p]: fragments popped so far
  resendRequestEnabled,\* resendRequestEnabled[n][p]
  net,                 \* datagrams in flight
  sent,                \* history: messages n handed to forwardGameData for p
  pushed,              \* history: payloads n pushed to its send buffer for p
  handled,             \* history: handleMessage calls of n for messages of p
  connects             \* history: number of connectToPeer calls of n for p

buffers == <<sendBuffer, receiveBuffer, reassemblyBuffer, resendRequestEnabled>>
history == <<sent, pushed, handled, connects>>
vars == <<peers, buffers, net, history>>

(***************************************************************************)
(* Payloads, messages and datagrams.  The bytes of a fragment are named by *)
(* the number of its message on this stream and its place in the message,  *)
(* so no two fragments of a stream have the same bytes.                    *)
(***************************************************************************)
Bytes(no, k) == [i \in 1..k |-> <<no, i>>]

(* Mutant: every fragment carries the action of the message. *)
FragmentsWithoutMore(action, no, k) ==
  [i \in 1..k |-> [action |-> action, bytes |-> <<no, i>>]]

(* The payloads forwardGameData pushes for a message of k fragments: all   *)
(* but the last are ACTION_MORE.                                           *)
Fragments(action, no, k) ==
  [i \in 1..k |-> [action |-> IF i < k THEN "MORE" ELSE action,
                   bytes  |-> <<no, i>>]]

Message == [action : GameAction \cup {"HELLO"}, buf : Seq(Nat \X Nat)]
Payload == [action : GameAction \cup {"HELLO", "MORE"}, bytes : Nat \X Nat]
NoBytes == <<0, 0>>

(* sendMessage() of a payload, and of an ACTION_TCP_ACK or                 *)
(* ACTION_TCP_RESEND, which carry a sequence number only.                  *)
Data(n, p, seq, x) ==
  [src |-> n, dst |-> p, action |-> x.action, seq |-> seq, bytes |-> x.bytes]

Control(n, p, action, seq) ==
  [src |-> n, dst |-> p, action |-> action, seq |-> seq, bytes |-> NoBytes]

Init ==
  /\ peers = [n \in Node |-> {}]
  /\ sendBuffer = [n \in Node |-> [p \in Node |-> EmptyBuffer]]
  /\ receiveBuffer = [n \in Node |-> [p \in Node |-> EmptyBuffer]]
  /\ reassemblyBuffer = [n \in Node |-> [p \in Node |-> <<>>]]
  /\ resendRequestEnabled = [n \in Node |-> [p \in Node |-> TRUE]]
  /\ net = {}
  /\ sent = [n \in Node |-> [p \in Node |-> <<>>]]
  /\ pushed = [n \in Node |-> [p \in Node |-> <<>>]]
  /\ handled = [n \in Node |-> [p \in Node |-> <<>>]]
  /\ connects = [n \in Node |-> [p \in Node |-> 0]]

(* The node is not inside the while loop of onReadyRead. *)
Idle(n) == \A p \in Node : ~ReadyRead(receiveBuffer[n][p])

(***************************************************************************)
(* The calls of the game layer.                                            *)
(***************************************************************************)

(* The buffered branch of forwardGameData, on send buffer b: cut, push and *)
(* send the fragments in order.                                            *)
Forward(n, p, b, action, k) ==
  LET no    == Len(sent[n][p]) + 1
      frags == Fragments(action, no, k)
  IN  /\ sendBuffer' = [sendBuffer EXCEPT ![n][p] = PushBackAll(b, frags)]
      /\ net' = net \cup {Data(n, p, b.nextPush + i - 1, frags[i]) : i \in 1..k}
      /\ sent' = [sent EXCEPT
                    ![n][p] = Append(@, [action |-> action, buf |-> Bytes(no, k)])]
      /\ pushed' = [pushed EXCEPT ![n][p] = @ \o frags]

ForwardGameData(n, p, action, k) ==
  /\ Idle(n)
  /\ p \in peers[n]
  /\ Len(sent[n][p]) < MaxMsgs[n] + connects[n][p]
  /\ Forward(n, p, sendBuffer[n][p], action, k)
  /\ UNCHANGED <<peers, receiveBuffer, reassemblyBuffer, resendRequestEnabled,
                 handled, connects>>

(* connectToPeer(), which joinGame() calls too: whatever was kept for the  *)
(* peer is discarded, and HELLO is the first message of the new buffer.    *)
ConnectToPeer(n, p) ==
  /\ Idle(n)
  /\ n # p
  /\ connects[n][p] < MaxConnects
  /\ peers' = [peers EXCEPT ![n] = @ \cup {p}]
  /\ receiveBuffer' = [receiveBuffer EXCEPT ![n][p] = EmptyBuffer]
  /\ reassemblyBuffer' = [reassemblyBuffer EXCEPT ![n][p] = <<>>]
  /\ resendRequestEnabled' = [resendRequestEnabled EXCEPT ![n][p] = TRUE]
  /\ Forward(n, p, EmptyBuffer, "HELLO", 1)
  /\ connects' = [connects EXCEPT ![n][p] = @ + 1]
  /\ UNCHANGED handled

(* disconnectFromPeer(), called by the lobby or by sendPingToPeers for a   *)
(* peer that has not answered for DEAD_PEER_TIMEOUT.                       *)
DisconnectFromPeer(n, p) ==
  /\ Idle(n)
  /\ p \in peers[n]
  /\ peers' = [peers EXCEPT ![n] = @ \ {p}]
  /\ receiveBuffer' = [receiveBuffer EXCEPT ![n][p] = EmptyBuffer]
  /\ sendBuffer' = [sendBuffer EXCEPT ![n][p] = EmptyBuffer]
  /\ reassemblyBuffer' = [reassemblyBuffer EXCEPT ![n][p] = <<>>]
  /\ resendRequestEnabled' = [resendRequestEnabled EXCEPT ![n][p] = TRUE]
  /\ UNCHANGED <<net, history>>

(***************************************************************************)
(* The timers.                                                             *)
(***************************************************************************)

(* Mutant: the limit is tested before the payload is resent. *)
TimedOutOneLess(b, oldest) ==
  {s \in DOMAIN b.data :
     /\ s <= oldest
     /\ Cardinality({t \in DOMAIN b.data : t <= s}) < MAX_RESEND_AT_ONCE}

(* What onResendTimer resends to one peer: in sequence order, at most      *)
(* MAX_RESEND_AT_ONCE payloads, stopping at the first that has not timed   *)
(* out.  A payload's timestamp is set when it is pushed and never          *)
(* refreshed, so the timed out ones are those up to some sequence number.  *)
TimedOut(b, oldest) ==
  {s \in DOMAIN b.data :
     /\ s <= oldest
     /\ Cardinality({t \in DOMAIN b.data : t < s}) < MAX_RESEND_AT_ONCE}

Resends(n, p, oldest) ==
  {Data(n, p, s, sendBuffer[n][p].data[s]) : s \in TimedOut(sendBuffer[n][p], oldest)}

(* A session pushes its HELLO and at most MaxMsgs[n] game messages. *)
MaxSeq(n) == 1 + MaxFragments * MaxMsgs[n]

(* One tick: oldest[p] is the last sequence number for p that timed out. *)
OnResendTimer(n, oldest) ==
  /\ Idle(n)
  /\ net' = net \cup UNION {Resends(n, p, oldest[p]) : p \in peers[n]}
  /\ UNCHANGED <<peers, buffers, history>>

OnResendReqReenableTimer(n) ==
  /\ Idle(n)
  /\ resendRequestEnabled' = [resendRequestEnabled EXCEPT ![n] = [p \in Node |-> TRUE]]
  /\ UNCHANGED <<peers, sendBuffer, receiveBuffer, reassemblyBuffer, net, history>>

(***************************************************************************)
(* onReadyRead, one action per branch.  The datagram that is read leaves   *)
(* the network unless the network duplicated it.                           *)
(***************************************************************************)
Consume(d, replies) ==
  \/ net' = net \cup replies
  \/ net' = (net \ {d}) \cup replies

(* A datagram from an address that is not a peer's is dropped. *)
ReceiveUnknown(d) ==
  /\ Idle(d.dst)
  /\ d.src \notin peers[d.dst]
  /\ Consume(d, {})
  /\ UNCHANGED <<peers, buffers, history>>

ReceiveAck(d) ==
  /\ Idle(d.dst)
  /\ d.src \in peers[d.dst]
  /\ d.action = "TCP_ACK"
  /\ sendBuffer' = [sendBuffer EXCEPT ![d.dst][d.src] = AckData(@, d.seq)]
  /\ Consume(d, {})
  /\ UNCHANGED <<peers, receiveBuffer, reassemblyBuffer, resendRequestEnabled, history>>

ReceiveResend(d) ==
  LET b == sendBuffer[d.dst][d.src]
  IN  /\ Idle(d.dst)
      /\ d.src \in peers[d.dst]
      /\ d.action = "TCP_RESEND"
      /\ Consume(d, {Data(d.dst, d.src, s, b.data[s]) : s \in DOMAIN b.data \cap {d.seq}})
      /\ UNCHANGED <<peers, buffers, history>>

(* What follows the while loop: when something is waiting behind a gap and *)
(* requests are enabled, the missing sequence numbers are requested.       *)
NeedsResend(b, enabled) == ~ReadyRead(b) /\ ~Empty(b) /\ enabled

ResendRequests(n, p, b, enabled) ==
  {Control(n, p, "TCP_RESEND", s) :
     s \in {t \in b.nextPop .. (b.nextPop + MAX_RESEND_REQ - 1) :
              NeedsResend(b, enabled) /\ t < EarliestAvailable(b)}}

(* Mutant: a fragment that was popped before is not acknowledged again. *)
ReceiveDataAckNewOnly(d) ==
  LET n == d.dst
      p == d.src
      b == Insert(receiveBuffer[n][p], d.seq, [action |-> d.action, bytes |-> d.bytes])
      enabled == resendRequestEnabled[n][p]
      new == d.seq >= receiveBuffer[n][p].nextPop
  IN  /\ Idle(n)
      /\ p \in peers[n]
      /\ d.action \notin ControlAction
      /\ receiveBuffer' = [receiveBuffer EXCEPT ![n][p] = b]
      /\ resendRequestEnabled' = [resendRequestEnabled EXCEPT
                                    ![n][p] = @ /\ ~NeedsResend(b, enabled)]
      /\ Consume(d, {Control(n, p, "TCP_ACK", s) : s \in {t \in {d.seq} : new}}
                      \cup ResendRequests(n, p, b, enabled))
      /\ UNCHANGED <<peers, sendBuffer, reassemblyBuffer, history>>

(* Buffered data is stored unless it was popped before, and acknowledged   *)
(* in both cases.                                                          *)
ReceiveData(d) ==
  LET n == d.dst
      p == d.src
      b == Insert(receiveBuffer[n][p], d.seq, [action |-> d.action, bytes |-> d.bytes])
      enabled == resendRequestEnabled[n][p]
  IN  /\ Idle(n)
      /\ p \in peers[n]
      /\ d.action \notin ControlAction
      /\ receiveBuffer' = [receiveBuffer EXCEPT ![n][p] = b]
      /\ resendRequestEnabled' = [resendRequestEnabled EXCEPT
                                    ![n][p] = @ /\ ~NeedsResend(b, enabled)]
      /\ Consume(d, {Control(n, p, "TCP_ACK", d.seq)}
                      \cup ResendRequests(n, p, b, enabled))
      /\ UNCHANGED <<peers, sendBuffer, reassemblyBuffer, history>>

(* Mutant: the reassembly buffer is not cleared after a message. *)
DrainWithoutClear(n, p) ==
  LET b == Pop(receiveBuffer[n][p])
      x == receiveBuffer[n][p].data[receiveBuffer[n][p].nextPop]
      r == Append(reassemblyBuffer[n][p], x.bytes)
  IN  /\ ReadyRead(receiveBuffer[n][p])
      /\ receiveBuffer' = [receiveBuffer EXCEPT ![n][p] = b]
      /\ reassemblyBuffer' = [reassemblyBuffer EXCEPT ![n][p] = r]
      /\ handled' = [handled EXCEPT
                       ![n][p] = IF x.action = "MORE" THEN @
                                 ELSE Append(@, [action |-> x.action, buf |-> r])]
      /\ resendRequestEnabled' = [resendRequestEnabled EXCEPT
                                    ![n][p] = ~NeedsResend(b, TRUE)]
      /\ net' = net \cup ResendRequests(n, p, b, TRUE)
      /\ UNCHANGED <<peers, sendBuffer, sent, pushed, connects>>

(* One iteration of the while loop: pop a fragment, append it, and on the  *)
(* last fragment of a message hand the message to handleMessage.           *)
DrainReceiveBuffer(n, p) ==
  LET b == Pop(receiveBuffer[n][p])
      x == receiveBuffer[n][p].data[receiveBuffer[n][p].nextPop]
      r == Append(reassemblyBuffer[n][p], x.bytes)
  IN  /\ ReadyRead(receiveBuffer[n][p])
      /\ receiveBuffer' = [receiveBuffer EXCEPT ![n][p] = b]
      /\ reassemblyBuffer' = [reassemblyBuffer EXCEPT
                                ![n][p] = IF x.action = "MORE" THEN r ELSE <<>>]
      /\ handled' = [handled EXCEPT
                       ![n][p] = IF x.action = "MORE" THEN @
                                 ELSE Append(@, [action |-> x.action, buf |-> r])]
      /\ resendRequestEnabled' = [resendRequestEnabled EXCEPT
                                    ![n][p] = ~NeedsResend(b, TRUE)]
      /\ net' = net \cup ResendRequests(n, p, b, TRUE)
      /\ UNCHANGED <<peers, sendBuffer, sent, pushed, connects>>

(* The network loses a datagram. *)
Lose(d) ==
  /\ net' = net \ {d}
  /\ UNCHANGED <<peers, buffers, history>>

Receive(d) ==
  ReceiveUnknown(d) \/ ReceiveAck(d) \/ ReceiveResend(d) \/ ReceiveData(d)

Next ==
  \/ \E n, p \in Node :
       \/ \E action \in GameAction, k \in 1..MaxFragments :
            ForwardGameData(n, p, action, k)
       \/ ConnectToPeer(n, p)
       \/ DisconnectFromPeer(n, p)
       \/ DrainReceiveBuffer(n, p)
  \/ \E n \in Node :
       \/ \E oldest \in [peers[n] -> 0..MaxSeq(n)] : OnResendTimer(n, oldest)
       \/ OnResendReqReenableTimer(n)
  \/ \E d \in net : Receive(d) \/ Lose(d)

Spec == Init /\ [][Next]_vars

(***************************************************************************)
(* Fairness.  The event loop runs: a started onReadyRead finishes, and the *)
(* resend timer keeps ticking; a payload that stays unacknowledged has     *)
(* timed out on every tick after MAX_RESEND_TIMEOUT.  The network is fair: *)
(* a datagram that is sent again and again gets through again and again.   *)
(***************************************************************************)
AllTimedOut(n) == [p \in peers[n] |-> MaxSeq(n)]

Is(d, n, p, seq, isAck) ==
  /\ d.src = n /\ d.dst = p /\ d.seq = seq
  /\ IF isAck THEN d.action = "TCP_ACK" ELSE d.action \notin ControlAction

Fairness ==
  /\ \A n \in Node : WF_vars(OnResendTimer(n, AllTimedOut(n)))
  /\ \A n \in Node : \A p \in Node \ {n} :
       /\ WF_vars(DrainReceiveBuffer(n, p))
       /\ \A seq \in 1..MaxSeq(n) :
            SF_vars(\E d \in net : Is(d, n, p, seq, FALSE) /\ Receive(d))
       /\ \A seq \in 1..MaxSeq(p) :
            SF_vars(\E d \in net : Is(d, n, p, seq, TRUE) /\ Receive(d))

FairSpec == Spec /\ Fairness

-----------------------------------------------------------------------------
(***************************************************************************)
(* Properties.  connectToPeer starts a stream at sequence number 1 and     *)
(* carries no session number, so what the protocol promises is about the   *)
(* first session between two nodes.                                        *)
(***************************************************************************)
FirstSession(n, p) == connects[n][p] <= 1 /\ connects[p][n] <= 1

(* n has connected to p and neither disconnected nor connected again. *)
Open(n, p) == p \in peers[n] /\ connects[n][p] = 1

IsBuffer(b) ==
  /\ b.data \in [DOMAIN b.data -> Payload]
  /\ DOMAIN b.data \subseteq Nat \ {0}
  /\ b.nextPop \in Nat \ {0}
  /\ b.nextPush \in Nat \ {0}

AreBuffers(f) ==
  /\ DOMAIN f = Node
  /\ \A n \in Node : DOMAIN f[n] = Node /\ \A p \in Node : IsBuffer(f[n][p])

Datagram == [src : Node, dst : Node, seq : Nat \ {0},
             action : GameAction \cup ControlAction \cup {"HELLO", "MORE"},
             bytes : Nat \X Nat]

(* The types of the state of TafnetNode: its maps are keyed by peers and    *)
(* hold payloads under positive sequence numbers.                          *)
TypeOK ==
  /\ peers \in [Node -> SUBSET Node]
  /\ AreBuffers(sendBuffer)
  /\ AreBuffers(receiveBuffer)
  /\ reassemblyBuffer \in [Node -> [Node -> Seq(Nat \X Nat)]]
  /\ resendRequestEnabled \in [Node -> [Node -> BOOLEAN]]
  /\ net \in SUBSET Datagram
  /\ sent \in [Node -> [Node -> Seq(Message)]]
  /\ pushed \in [Node -> [Node -> Seq(Payload)]]
  /\ handled \in [Node -> [Node -> Seq(Message)]]
  /\ connects \in [Node -> [Node -> Nat]]

(* handleMessage is called for the messages of a peer in the order in      *)
(* which the peer passed them to forwardGameData, without a gap, without a *)
(* repeat, each with its action and with all its fragments in order,       *)
(* whatever the network loses, repeats or reorders, and whichever side     *)
(* connects first or disconnects.                                          *)
InOrderDelivery ==
  \A n, p \in Node : FirstSession(n, p) =>
    /\ Len(handled[n][p]) <= Len(sent[p][n])
    /\ \A i \in 1..Len(handled[n][p]) : handled[n][p][i] = sent[p][n][i]

(* An ACK never makes the sender forget a fragment the receiver does not   *)
(* have: until it is popped, every fragment pushed for an open peer is in  *)
(* the sender's buffer or in the receiver's.                               *)
NothingLost ==
  \A n, p \in Node : Open(n, p) /\ (Open(p, n) \/ connects[p][n] = 0) =>
    \A s \in 1..Len(pushed[n][p]) :
      \/ s \in DOMAIN sendBuffer[n][p].data
      \/ s \in DOMAIN receiveBuffer[p][n].data
      \/ s < receiveBuffer[p][n].nextPop

(* The reliable stream: as long as no node connects twice to a peer, the   *)
(* history of forwardGameData and handleMessage calls is that of a FIFO    *)
(* stream.                                                                 *)
Sendable ==
  UNION {[action : GameAction \cup {"HELLO"},
          buf : UNION {{Bytes(no, k) : k \in 1..MaxFragments} :
                         no \in 1..(MaxMsgs[n] + MaxConnects)}] : n \in Node}
Stream == INSTANCE ReliableStream WITH Message <- Sendable
Refinement == Stream!Spec

(* A fragment of a game message that n pushed since it last connected to p *)
(* and that was acknowledged is in the hands of p.  The readme promises it *)
(* of every connection ("reliable, ordered communication over unreliable   *)
(* udp"); it fails once one side has connected again.                      *)
AckedIsReceived ==
  \A n, p \in Node : p \in peers[n] /\ n \in peers[p] =>
    LET b == sendBuffer[n][p]
        before == Len(pushed[n][p]) - (b.nextPush - 1)
    IN  \A s \in 1..(b.nextPush - 1) :
          LET x == pushed[n][p][before + s]
          IN  \/ x.action = "HELLO" \/ s \in DOMAIN b.data
              \/ \E t \in DOMAIN receiveBuffer[p][n].data :
                   receiveBuffer[p][n].data[t] = x
              \/ \E i \in 1..Len(reassemblyBuffer[p][n]) :
                   reassemblyBuffer[p][n][i] = x.bytes
              \/ \E i \in 1..Len(handled[p][n]) :
                   \E j \in 1..Len(handled[p][n][i].buf) :
                     handled[p][n][i].buf[j] = x.bytes

(* Every message passed to forwardGameData reaches handleMessage of the    *)
(* peer, unless one of the two disconnects or connects again.              *)
EventuallyDelivered ==
  \A n \in Node : \A p \in Node \ {n} : \A i \in 1..(MaxMsgs[n] + 1) :
    (Open(n, p) /\ Open(p, n) /\ Len(sent[n][p]) >= i)
      ~> (Len(handled[p][n]) >= i \/ ~Open(n, p) \/ ~Open(p, n))

(* Resending stops: the send buffer of an open peer becomes empty, which   *)
(* needs the receiver to acknowledge again what it has popped already.     *)
EventuallyAcked ==
  \A n \in Node : \A p \in Node \ {n} :
    (Open(n, p) /\ Open(p, n))
      ~> (Empty(sendBuffer[n][p]) \/ ~Open(n, p) \/ ~Open(p, n))
=============================================================================
