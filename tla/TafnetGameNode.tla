--------------------------- MODULE TafnetGameNode ---------------------------
(***************************************************************************)
(* One node's tables between tafnet and the local game: TaLobby, the peers *)
(* of TafnetNode, and TafnetGameNode with its GameSenders, GameReceivers   *)
(* and the door at which players knock (ENUM requests).                    *)
(*                                                                         *)
(* The lobby server says which peers there are; datagrams of a peer create *)
(* what is missing for it; the game's data are forwarded to the peer that  *)
(* owns the port they came in on.  The operating system hands out ports:   *)
(* those of TCP and those of UDP are separate ranges with the same         *)
(* numbers.                                                                *)
(***************************************************************************)
EXTENDS Naturals, Sequences, FiniteSets, Functions

CONSTANTS
  Peer,          \* ids of the other players; numbers, the door opens in their order
  Address,       \* their addresses
  Ports,         \* ports the operating system hands out
  EnumPort,      \* 47624
  GamePort,      \* ports of the game that are in the valid range
  PortsCollide,  \* a TCP port and a UDP port may have the same number
  MaxEvents,     \* bound: commands of the lobby server
  MaxKnocks      \* bound: ENUM requests

NoPort == 0

ConstantsOK ==
  /\ Peer \subseteq Nat /\ IsFiniteSet(Peer) /\ {NoPort, EnumPort} \intersect Ports = {}
  /\ EnumPort # NoPort /\ NoPort \notin GamePort
  /\ PortsCollide \in BOOLEAN /\ MaxEvents \in Nat /\ MaxKnocks \in Nat

VARIABLES
  created,          \* m_game: the lobby was created
  peerAddress,      \* TafnetNode::m_peerAddresses
  peerId,           \* TafnetNode::m_peerPlayerIds
  senders,          \* m_gameSenders: [tcp, udp] of the game
  receivers,        \* m_gameReceivers: [tcp, udp, enum] listening
  remotePlayerIds,  \* m_remotePlayerIds
  gamePorts,        \* m_gameTcpPort, m_gameUdpPort
  pending,          \* keys of m_pendingEnumRequests
  inviteOrder,      \* m_playerInviteOrder
  ticks,            \* the game is running: getProgressTicks() > 0
  timer,            \* m_pendingEnumRequestsTimer is active
  events, knocks,   \* counters of the bounds
  launched,         \* the accepted ids of the last /launch
  admitted,         \* who was let in since then
  left,             \* who was disconnected since then
  lost,             \* who TafnetNode gave up by itself
  moved             \* who was given a second address while connected

lobbyVars == <<created, peerAddress, peerId, moved, lost>>
gameVars == <<senders, receivers, remotePlayerIds, gamePorts>>
doorVars == <<pending, inviteOrder, timer, admitted>>
vars == <<lobbyVars, gameVars, doorVars, ticks, events, knocks, launched, left>>

Without(f, S) == Restrict(f, DOMAIN f \ S)

(* f with x mapped to v. *)
With(f, x, v) == [y \in DOMAIN f \union {x} |-> IF y = x THEN v ELSE f[y]]

(* The members of queue s that are in S, in their order, moved one by one. *)
Kept(s, S) ==
  LET moved1[i \in 0..Len(s)] ==
        IF i = 0 THEN <<>> ELSE IF s[i] \in S THEN Append(moved1[i - 1], s[i]) ELSE moved1[i - 1]
  IN  moved1[Len(s)]

Empty == [x \in {} |-> 0]

Init ==
  /\ created = FALSE /\ peerAddress = Empty /\ peerId = Empty
  /\ senders = Empty /\ receivers = Empty /\ remotePlayerIds = Empty
  /\ gamePorts = [tcp |-> NoPort, udp |-> NoPort]
  /\ pending = {} /\ inviteOrder = <<>> /\ ticks = FALSE /\ timer = FALSE
  /\ events = 0 /\ knocks = 0
  /\ launched = <<>> /\ admitted = {} /\ left = {} /\ moved = {} /\ lost = {}

-----------------------------------------------------------------------------
(* Senders and receivers. *)

(* getGameSender: a new sender knows the game's ports. *)
GetGameSender(p) ==
  IF p \in DOMAIN senders THEN senders ELSE With(senders, p, gamePorts)

Listening(field) == {receivers[p][field] : p \in DOMAIN receivers}

(* GameReceiver::GameReceiver: the ports the system may hand out. *)
FreePorts ==
  {f \in (Ports \ Listening("tcp")) \X (Ports \ Listening("udp")) :
     PortsCollide \/ (f[1] # f[2] /\ f[1] \notin Listening("udp") /\ f[2] \notin Listening("tcp"))}

(* The receivers after getGameReceiver. *)
GetGameReceiver(p) ==
  IF p \in DOMAIN receivers THEN {receivers}
  ELSE {With(receivers, p, [tcp |-> f[1], udp |-> f[2], enum |-> NoPort]) : f \in FreePorts}

(* A port that is in the table already keeps its owner. *)
WithPort(table, port, p) == IF port \in DOMAIN table THEN table ELSE With(table, port, p)

(* The table after getGameReceiver. *)
WithReceiver(rs, p) ==
  IF p \in DOMAIN receivers THEN remotePlayerIds
  ELSE WithPort(WithPort(remotePlayerIds, rs[p].tcp, p), rs[p].udp, p)

(* bindEnumerationPort: a port another receiver listens on is not bound. *)
BoundEnumPort(rs, p) ==
  IF \E q \in DOMAIN rs \ {p} : rs[q].enum = EnumPort THEN NoPort ELSE EnumPort

(* Mutant: the enumeration port keeps its owner too. *)
RegisterRemotePlayerKeepingEnum(p, isHost) ==
  \E rs \in GetGameReceiver(p) :
    LET bound == BoundEnumPort(rs, p)
    IN /\ receivers' = IF isHost THEN [rs EXCEPT ![p].enum = bound] ELSE rs
       /\ remotePlayerIds' = IF isHost THEN WithPort(WithReceiver(rs, p), bound, p)
                                       ELSE WithReceiver(rs, p)
       /\ senders' = GetGameSender(p)

RegisterRemotePlayer(p, isHost) ==
  \E rs \in GetGameReceiver(p) :
    LET bound == BoundEnumPort(rs, p)
    IN /\ receivers' = IF isHost THEN [rs EXCEPT ![p].enum = bound] ELSE rs
       /\ remotePlayerIds' = IF isHost THEN With(WithReceiver(rs, p), bound, p)
                                       ELSE WithReceiver(rs, p)
       /\ senders' = GetGameSender(p)

(* killGameSender and killGameReceiver: the enumeration port is forgotten  *)
(* with the last receiver only.                                            *)
UnregisterRemotePlayer(p) ==
  /\ pending' = pending \ {p}
  /\ inviteOrder' = Kept(inviteOrder, Peer \ {p})
  /\ senders' = Without(senders, {p})
  /\ receivers' = Without(receivers, {p})
  /\ remotePlayerIds' =
       IF p \notin DOMAIN receivers THEN remotePlayerIds
       ELSE Without(remotePlayerIds,
                    {receivers[p].tcp, receivers[p].udp}
                      \union (IF DOMAIN receivers = {p} THEN {receivers[p].enum} ELSE {}))

-----------------------------------------------------------------------------
(* TaLobby: the commands of the lobby server. *)

OnCreateLobby ==
  /\ ~created
  /\ created' = TRUE
  /\ timer' = TRUE
  /\ UNCHANGED <<peerAddress, peerId, moved, lost, gameVars, pending, inviteOrder, admitted,
                 ticks, events, knocks, launched, left>>

(* TafnetNode::connectToPeer: an address the peer had before stays in      *)
(* m_peerPlayerIds.                                                        *)
ConnectPeerAddress(p, a) ==
  /\ peerAddress' = With(peerAddress, p, a)
  /\ peerId' = With(peerId, a, p)
  /\ moved' = IF p \in DOMAIN peerAddress /\ peerAddress[p] # a THEN moved \union {p} ELSE moved

(* onJoinGame (the peer is the host) and onConnectToPeer.  The lobby       *)
(* server gives no address to two players.                                 *)
OnConnect(p, a, isHost) ==
  /\ created /\ events < MaxEvents
  /\ a \in DOMAIN peerId => peerId[a] = p
  /\ ConnectPeerAddress(p, a)
  /\ RegisterRemotePlayer(p, isHost)
  /\ events' = events + 1
  /\ UNCHANGED <<created, lost, gamePorts, doorVars, ticks, knocks, launched, left>>

(* TafnetNode::disconnectFromPeer. *)
DisconnectPeer(p) ==
  /\ peerId' = IF p \in DOMAIN peerAddress THEN Without(peerId, {peerAddress[p]}) ELSE peerId
  /\ peerAddress' = Without(peerAddress, {p})

OnDisconnectFromPeer(p) ==
  /\ created /\ events < MaxEvents
  /\ DisconnectPeer(p)
  /\ UnregisterRemotePlayer(p)
  /\ left' = left \union {p} /\ lost' = lost \ {p}
  /\ events' = events + 1
  /\ UNCHANGED <<created, moved, gamePorts, timer, admitted, ticks, knocks, launched>>

(* TafnetNode::sendPingToPeers: a peer that does not answer is given up.   *)
(* The game's side is not told.                                            *)
LosePeer(p) ==
  /\ p \in DOMAIN peerAddress /\ events < MaxEvents
  /\ DisconnectPeer(p)
  /\ lost' = lost \union {p}
  /\ events' = events + 1
  /\ UNCHANGED <<created, moved, gameVars, doorVars, ticks, knocks, launched, left>>

(* onExtendedMessage("/launch ..."): setPlayerInviteOrder. *)
OnLaunch(ids) ==
  /\ created /\ events < MaxEvents
  /\ inviteOrder' = Kept(ids, DOMAIN senders)
  /\ launched' = inviteOrder'
  /\ admitted' = {} /\ left' = {}
  /\ events' = events + 1
  /\ UNCHANGED <<lobbyVars, gameVars, pending, timer, ticks, knocks>>

-----------------------------------------------------------------------------
(* Messages of the peers: handleTafnetMessage.  TafnetNode drops what      *)
(* comes from an address it does not know.                                 *)

ForPeer(p) ==
  /\ senders' = GetGameSender(p)
  /\ \E rs \in GetGameReceiver(p) :
       receivers' = rs /\ remotePlayerIds' = WithReceiver(rs, p)

HandleEnum(a) ==
  /\ a \in DOMAIN peerId /\ knocks < MaxKnocks
  /\ ForPeer(peerId[a])
  /\ pending' = pending \union {peerId[a]}
  /\ knocks' = knocks + 1
  /\ UNCHANGED <<lobbyVars, gamePorts, inviteOrder, timer, admitted, ticks, events, launched, left>>

(* HELLO, TCP_OPEN, TCP_DATA, UDP_DATA, UDP_PROTECTED: given to the game. *)
HandleData(a) ==
  /\ a \in DOMAIN peerId
  /\ ForPeer(peerId[a])
  /\ UNCHANGED <<lobbyVars, gamePorts, doorVars, ticks, events, knocks, launched, left>>

-----------------------------------------------------------------------------
(* Data of the game: handleGameData. *)

(* The port reaches every sender there is. *)
LearnPort(field, port) ==
  /\ gamePorts' = [gamePorts EXCEPT ![field] = port]
  /\ senders' = [p \in DOMAIN senders |-> [senders[p] EXCEPT ![field] = port]]

(* updateGameSenderPortsFromDplayHeader: the header's port, a port that    *)
(* was probed or a guess; and updateGameSenderPortsFromSpaPacket.          *)
OnGameData(field, port) ==
  /\ \E p \in DOMAIN receivers : {receivers[p].tcp, receivers[p].udp, receivers[p].enum}
                                   \intersect DOMAIN remotePlayerIds # {}
  /\ gamePorts[field] = NoPort
  /\ LearnPort(field, port)
  /\ UNCHANGED <<lobbyVars, receivers, remotePlayerIds, doorVars, ticks, events, knocks,
                 launched, left>>

OnGameStarted ==
  /\ created /\ ~ticks
  /\ ticks' = TRUE
  /\ UNCHANGED <<lobbyVars, gameVars, doorVars, events, knocks, launched, left>>

-----------------------------------------------------------------------------
(* The door: processPendingEnumRequests, every 500 ms. *)

(* Mutant: the first player that knocks is let in. *)
ToAdmitFirst ==
  {p \in pending : \A q \in pending : p <= q}

(* The player itToAdmit points to, if there is one. *)
ToAdmit ==
  IF inviteOrder # <<>> THEN {Head(inviteOrder)} \intersect pending
                        ELSE {p \in pending : \A q \in pending : p <= q}

(* Mutant: the request stays in the queue. *)
AdmitKeepingRequest(p) ==
  /\ admitted' = admitted \union {p}
  /\ inviteOrder' = IF inviteOrder # <<>> THEN Tail(inviteOrder) ELSE inviteOrder
  /\ UNCHANGED pending

(* The game took the request. *)
Admit(p) ==
  /\ pending' = pending \ {p}
  /\ admitted' = admitted \union {p}
  /\ inviteOrder' = IF inviteOrder # <<>> THEN Tail(inviteOrder) ELSE inviteOrder

Tick ==
  /\ timer
  /\ IF ToAdmit # {}
     THEN \E p \in ToAdmit : Admit(p) /\ senders' = GetGameSender(p)
     ELSE UNCHANGED <<pending, inviteOrder, admitted, senders>>
  /\ timer' = ~ticks
  /\ UNCHANGED <<lobbyVars, receivers, remotePlayerIds, gamePorts, ticks, events, knocks,
                 launched, left>>

(* enumSessions finds no connection to the game. *)
TickRefused ==
  /\ timer /\ ToAdmit # {}
  /\ \E p \in ToAdmit : senders' = GetGameSender(p)
  /\ timer' = ~ticks
  /\ UNCHANGED <<lobbyVars, receivers, remotePlayerIds, gamePorts, pending, inviteOrder,
                 admitted, ticks, events, knocks, launched, left>>

(* Every order in which the lobby server may list the players. *)
Invitations == Bijection(1..Cardinality(Peer), Peer)

Next ==
  \/ OnCreateLobby
  \/ \E p \in Peer : \/ \E a \in Address, isHost \in BOOLEAN : OnConnect(p, a, isHost)
                     \/ OnDisconnectFromPeer(p) \/ LosePeer(p)
  \/ \E ids \in Invitations : OnLaunch(ids)
  \/ \E a \in Address : HandleEnum(a) \/ HandleData(a)
  \/ \E field \in {"tcp", "udp"}, port \in GamePort : OnGameData(field, port)
  \/ OnGameStarted
  \/ Tick \/ TickRefused

Spec == Init /\ [][Next]_vars

(* The timer runs, and the game listens on its enumeration port again and  *)
(* again while players knock.                                              *)
FairSpec == Spec /\ WF_vars(Tick)

-----------------------------------------------------------------------------
TypeOK ==
  /\ DOMAIN peerAddress \subseteq Peer /\ DOMAIN peerId \subseteq Address
  /\ DOMAIN receivers = DOMAIN senders /\ DOMAIN senders \subseteq Peer
  /\ pending \subseteq Peer
  /\ gamePorts.tcp \in GamePort \union {NoPort} /\ gamePorts.udp \in GamePort \union {NoPort}
  /\ (timer => created) /\ ticks \in BOOLEAN

(* m_remotePlayerIds is "tafnet id keyed by gameReceiver's receive socket  *)
(* port (both tcp and udp)" (TafnetGameNode.h): what the game sends to a   *)
(* player's sockets is forwarded to that player, through every sequence of *)
(* players that come, go, host and come back.                              *)
RoutesMatch ==
  \A p \in DOMAIN receivers :
    \A port \in {receivers[p].tcp, receivers[p].udp, receivers[p].enum} \ {NoPort} :
      port \in DOMAIN remotePlayerIds /\ remotePlayerIds[port] = p

(* Every sender knows what is known of the game's ports, whenever it was   *)
(* created and whenever the ports were learnt.                             *)
SendersKnowGame == \A p \in DOMAIN senders : senders[p] = gamePorts

(* A player that was disconnected leaves nothing behind: no message of its *)
(* brings its sender and its receiver back, unless it was given a second   *)
(* address while it was connected (connectToPeer keeps the first one).     *)
(* Only a player that TafnetNode gave up by itself keeps its tables, until *)
(* the lobby server disconnects it.                                        *)
NoGhosts == DOMAIN receivers \subseteq DOMAIN peerAddress \union moved \union lost

(* The door keeps the order of /launch: when a player of the list was let  *)
(* in, so were all before it, or they are gone.                            *)
AdmittedInOrder ==
  \A i, j \in DOMAIN launched :
    i < j /\ launched[j] \in admitted => launched[i] \in admitted \union left

(* While the timer runs, whoever may enter does not wait for ever.         *)
DoorOpens == []<>(~timer \/ ToAdmit = {})
=============================================================================
