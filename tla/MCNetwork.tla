----------------------------- MODULE MCNetwork ------------------------------
(***************************************************************************)
(* The way of a packet between two games for TLC: the window of duplicates *)
(* (DuplicateDetection), the tables of a game node with the door of the    *)
(* game (TafnetGameNode), and the addresses in the packets of three nodes  *)
(* (GameTraffic).  They share no state, so one run explores them side by   *)
(* side: "part" names the one that moves in a behaviour and the constants  *)
(* it has there, the others keep their initial values.                     *)
(***************************************************************************)
EXTENDS DuplicateDetection, TLC

CONSTANTS
  Node, NoOne, MaxPorts, MaxMessages,                              \* Traffic
  Peer, Address, Ports, EnumPort, GamePort, MaxEvents, MaxKnocks,  \* Tables
  DoorAddress, DoorPorts, MaxDoorKnocks                            \* Door

VARIABLES
  part,
  created, peerAddress, peerId, senders, receivers, remotePlayerIds, gamePorts, pending, inviteOrder,
  ticks, timer, events, knocks, launched, admitted, left, lost, moved,
  connected, nodeReceivers, opened, net, view, messages, disturbed

tableVars == <<created, peerAddress, peerId, senders, receivers, remotePlayerIds, gamePorts, pending,
               inviteOrder, ticks, timer, events, knocks, launched, admitted, left, lost, moved>>
trafficVars == <<connected, nodeReceivers, opened, net, view, messages, disturbed>>
allVars == <<part, vars, tableVars, trafficVars>>

(* No part tells the nodes apart, or the ports; a value may stand for a    *)
(* node in one part and for a port in the other.                           *)
Symmetry == Permutations(Node)

(* Packets 1 and 2 have the same checksum, 3 shares a bucket with them. *)
Checksums == [x \in Packet |-> CASE x = 1 -> 4 [] x = 2 -> 4 [] x = 3 -> 6 [] OTHER -> x]

-----------------------------------------------------------------------------
(* Players that come, go, host, and change their address. *)
Tables == INSTANCE TafnetGameNode WITH
  PortsCollide <- FALSE

(* Players that knock. *)
Door == INSTANCE TafnetGameNode WITH
  Address <- DoorAddress, Ports <- DoorPorts, GamePort <- {}, PortsCollide <- TRUE,
  MaxKnocks <- MaxDoorKnocks

(* The nodes. *)
Traffic == INSTANCE GameTraffic WITH
  receivers <- nodeReceivers

ASSUME PartsAssumption == Tables!ConstantsOK /\ Door!ConstantsOK /\ Traffic!ConstantsOK

PartsInit ==
  /\ part \in {"duplicates", "tables", "door", "traffic"}
  /\ Init /\ Tables!Init /\ Traffic!Init

PartsNext ==
  \/ part = "duplicates" /\ Next /\ UNCHANGED <<part, tableVars, trafficVars>>
  \/ part = "tables" /\ Tables!Next /\ UNCHANGED <<part, vars, trafficVars>>
  \/ part = "door" /\ Door!Next /\ UNCHANGED <<part, vars, trafficVars>>
  \/ part = "traffic" /\ Traffic!Next /\ UNCHANGED <<part, vars, tableVars>>

PartsSpec == PartsInit /\ [][PartsNext]_allVars

-----------------------------------------------------------------------------
(* TafnetGameNode: the tables are those of the players that are connected. *)
(* What the game sends to a player's sockets is forwarded to that player,  *)
(* every sender knows what is known of the game's ports, and a player that *)
(* was disconnected leaves nothing behind.                                 *)
TablesMatch ==
  part = "tables" =>
    Tables!TypeOK /\ Tables!RoutesMatch /\ Tables!SendersKnowGame /\ Tables!NoGhosts

(* TafnetGameNode: the door keeps the order of /launch. *)
AdmittedInOrder == part = "door" => Door!AdmittedInOrder

(* GameTraffic: the addresses in the packets of the games survive the way  *)
(* over any number of nodes.                                               *)
AddressesLeadHome == Traffic!TypeOK /\ Traffic!AddressesLeadHome
=============================================================================
