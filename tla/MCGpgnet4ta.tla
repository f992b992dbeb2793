---------------------------- MODULE MCGpgnet4ta ----------------------------
(***************************************************************************)
(* The parts of the gpgnet4ta process for TLC: the launch of the game with *)
(* the launch server (Launch), the events of the game (GameEvents), the    *)
(* parser of GpgNet's commands (GpgNetParse), the link to a peer           *)
(* (PeerLink, ResendRate) and the door of the game (TafnetGameNode).  They *)
(* share no state, so one run explores them side by side: "part" names the *)
(* one that moves in a behaviour and the constants it has there, the       *)
(* others keep their initial values.                                       *)
(***************************************************************************)
EXTENDS Integers, Sequences

CONSTANTS
  Maps, KeepAlive, MaxLaunches,                                       \* Launch
  Humans, AIs, Host, Local, NumSlots, Movers, MaxMoves, MaxChat,      \* GameEvents
  LowerLimit, OwnLimit, PeerLimit, PathLimit, PingSize, Timeout, PingInterval, MessageLength,
  MaxHellos,                                                          \* PeerLink
  Radix, IntBytes, MaxRecordSize, MaxNumArgs, Commands, ParserSurvives, MaxSends,
  MaxBreaks                                                           \* GpgNetParse

VARIABLES
  part,
  launcher, client, server, toServer, toClient, game, stray, seen, told, toldMap, launches,
  slot, watcher, phase, isHost, settings, names, roster, live, quitRequested, up, moves, chats,
  sent, wire, socket, parser, reading, received, refused, torn, breaks,
  connected, maxPacketSize, sinceAck, sinceFirst, sinceTimer, net, alive, unanswered, hellos,
  sendCount, ackCount, waiting, missing,
  created, peerAddress, peerId, senders, receivers, remotePlayerIds, gamePorts, pending, inviteOrder,
  ticks, timer, events, knocks, launched, admitted, left, lost, moved

launchVars == <<launcher, client, server, toServer, toClient, game, stray, seen, told, toldMap, launches>>
eventVars == <<slot, watcher, phase, isHost, settings, names, roster, live, quitRequested, up,
               moves, chats>>
parseVars == <<sent, wire, socket, parser, reading, received, refused, torn, breaks>>
linkVars == <<connected, maxPacketSize, sinceAck, sinceFirst, sinceTimer, net, alive, unanswered, hellos>>
rateVars == <<sendCount, ackCount, waiting, missing>>
doorVars == <<created, peerAddress, peerId, senders, receivers, remotePlayerIds, gamePorts, pending,
              inviteOrder, ticks, timer, events, knocks, launched, admitted, left, lost, moved>>
vars == <<part, launchVars, eventVars, parseVars, linkVars, rateVars, doorVars>>

-----------------------------------------------------------------------------
(* A host whose status messages may merge and whose game may be orphaned. *)
Hosted == INSTANCE Launch WITH
  AsHost <- TRUE, AutoLaunch <- FALSE, VerifyFails <- TRUE,
  MayMerge <- TRUE, MayTimeOut <- FALSE, MayOrphan <- TRUE, MayDetectLate <- FALSE

(* The same without orphans, launched at once. *)
Told == INSTANCE Launch WITH
  AsHost <- TRUE, AutoLaunch <- TRUE, VerifyFails <- TRUE,
  MayMerge <- TRUE, MayTimeOut <- FALSE, MayOrphan <- FALSE, MayDetectLate <- FALSE

(* A player who joins, with answers that take too long and are asked for again. *)
Joined == INSTANCE Launch WITH
  AsHost <- FALSE, AutoLaunch <- TRUE, VerifyFails <- FALSE,
  MayMerge <- TRUE, MayTimeOut <- TRUE, MayOrphan <- FALSE, MayDetectLate <- FALSE

(* A host whose messages are read one by one. *)
Session == INSTANCE Launch WITH
  AsHost <- TRUE, AutoLaunch <- TRUE, VerifyFails <- FALSE, Maps <- {"m1"},
  MayMerge <- FALSE, MayTimeOut <- FALSE, MayOrphan <- FALSE, MayDetectLate <- FALSE

(* Players whose names GpgNet has sent. *)
Events == INSTANCE GameEvents WITH Unknown <- {}

(* Integers of two digits, and commands that reach the limits: an empty    *)
(* name, empty arguments, an integer whose bytes look like a length.       *)
SomeCommands ==
  {[name |-> <<1, 2>>, args |-> <<>>],
   [name |-> <<>>, args |-> <<[type |-> 1, value |-> <<>>]>>],
   [name |-> <<2>>, args |-> <<[type |-> 0, value |-> 7], [type |-> 1, value |-> <<0, 2>>]>>]}

Stream == INSTANCE GpgNetParse

(* A peer with limits of its own. *)
Link == INSTANCE PeerLink

(* A peer that dies. *)
Dying == INSTANCE PeerLink WITH
  OwnLimit <- 353, PathLimit <- 353, MaxHellos <- 1

(* A burst of lost packets. *)
Resend == INSTANCE ResendRate WITH
  MaxRate <- 3, HalveAbove <- 32, Window <- 4, MaxLost <- 16, lost <- missing

(* Two players who knock. *)
Door == INSTANCE TafnetGameNode WITH
  Peer <- {1, 2}, Address <- {11, 21}, Ports <- {101, 102}, EnumPort <- 100, GamePort <- {},
  PortsCollide <- TRUE, MaxEvents <- 3, MaxKnocks <- 2

ASSUME ConstantsAssumption ==
  /\ Hosted!ConstantsOK /\ Told!ConstantsOK /\ Joined!ConstantsOK /\ Session!ConstantsOK
  /\ Events!ConstantsOK /\ Stream!ConstantsOK
  /\ Link!ConstantsOK /\ Dying!ConstantsOK /\ Resend!ConstantsOK /\ Door!ConstantsOK

(* A human may move to another slot, once: the roster is not right after   *)
(* two moves, nor after one of an AI.                                      *)
ASSUME OneMove == MaxMoves <= 1 /\ Movers \subseteq Humans

Init ==
  /\ part \in {"hosted", "told", "joined", "session", "events", "stream", "link", "dying",
               "resend", "door"}
  /\ CASE part = "told" -> Told!Init
       [] part = "joined" -> Joined!Init
       [] part = "session" -> Session!Init
       [] OTHER -> Hosted!Init
  /\ Events!Init /\ (part # "events" => isHost)
  /\ Stream!Init
  /\ Link!Init
  /\ Resend!Init
  /\ Door!Init

LaunchNext ==
  /\ \/ part = "hosted" /\ Hosted!Next
     \/ part = "told" /\ Told!Next
     \/ part = "joined" /\ Joined!Next
     \/ part = "session" /\ Session!Next
  /\ UNCHANGED <<part, eventVars, parseVars, linkVars, rateVars, doorVars>>

EventsNext ==
  /\ part = "events" /\ Events!Next
  /\ UNCHANGED <<part, launchVars, parseVars, linkVars, rateVars, doorVars>>

StreamNext ==
  /\ part = "stream" /\ Stream!Next
  /\ UNCHANGED <<part, launchVars, eventVars, linkVars, rateVars, doorVars>>

LinkNext ==
  /\ \/ part = "link" /\ Link!Next
     \/ part = "dying" /\ Dying!Next
  /\ UNCHANGED <<part, launchVars, eventVars, parseVars, rateVars, doorVars>>

ResendNext ==
  /\ part = "resend" /\ Resend!Next
  /\ UNCHANGED <<part, launchVars, eventVars, parseVars, linkVars, doorVars>>

DoorNext ==
  /\ part = "door" /\ Door!Next
  /\ UNCHANGED <<part, launchVars, eventVars, parseVars, linkVars, rateVars>>

Next == LaunchNext \/ EventsNext \/ StreamNext \/ LinkNext \/ ResendNext \/ DoorNext

(* The fairness that the modules state, each for its part. *)
Fairness ==
  /\ WF_launchVars(part = "session" /\ (Session!StartIgnored \/ Session!StartApplication \/ Session!Answered \/ Session!NotAnswered))
  /\ WF_launchVars(part = "session" /\ Session!OnReadyReadTcp)
  /\ WF_launchVars(part = "session" /\ Session!Disconnected)
  /\ WF_launchVars(part = "session" /\ Session!Poll)
  /\ WF_launchVars(part = "session" /\ (Session!LaunchGame \/ Session!FailVersion))
  /\ WF_launchVars(part = "session" /\ Session!TimerEvent(TRUE))
  /\ WF_linkVars(part = "dying" /\ Dying!Clock)
  /\ WF_linkVars(part = "dying" /\ Dying!PingTimer)
  /\ WF_rateVars(part = "resend" /\ Resend!Send)
  /\ WF_rateVars(part = "resend" /\ Resend!Ack)
  /\ WF_doorVars(part = "door" /\ Door!Tick)

Spec == Init /\ [][Next]_vars /\ Fairness

-----------------------------------------------------------------------------
(* Launch: what GpgNet is told is true.  The map it was told is the one the *)
(* game runs with; the end of a game is told only when no game is left     *)
(* that the launch server knows of, or the launch server itself is gone;   *)
(* and a /launch that came before HostGame is carried out by it.           *)
ToldTruly ==
  part = "hosted" =>
    Hosted!TypeOK /\ Hosted!MapAsTold /\ Hosted!EndedMeansOver /\ Hosted!DeferredLaunchDone

(* Launch: retries after an answer that came too late never start a second *)
(* game.                                                                   *)
OneGame == part = "joined" => Joined!OneGame

(* Launch: GpgNet hears of the states of a game in their order, from two   *)
(* sources that know nothing of each other.                                *)
ToldInOrder == [][part = "told" => Told!Rank(told) <= Told!Rank(told')]_vars

(* Launch: the end of a game that was started ends gpgnet4ta. *)
GameOverEndsSession == part = "session" => Session!GameOverEndsSession

(* Launch: the host's launch is noticed while the game is played. *)
LaunchIsNoticed == part = "session" => Session!LaunchIsNoticed

(* GameEvents: at the freeze GpgNet has exactly the players GameMonitor2   *)
(* has, each in its slot, and so has the table of HandleGameStatus.        *)
RosterTold == Events!TypeOK /\ Events!LiveMeansRoster /\ Events!SlotsMatch

(* GpgNetParse: however TCP cuts the stream, GetCommand returns the        *)
(* commands that were sent, in their order and with their arguments, and   *)
(* all of them when all was delivered.                                     *)
CommandsArrive == Stream!TypeOK /\ Stream!CommandsArrive

(* PeerLink: messages are cut into packets of a size that got through the  *)
(* network and that both ends accept, whatever acknowledgements come late  *)
(* or twice.                                                               *)
PacketsFit == part = "link" => Link!TypeOK /\ Link!MaximumIsProven /\ Link!FragmentsFit

(* PeerLink: a peer is given up only after a whole timeout of silence. *)
LostOnlyIfSilent == part = "link" => Link!LostOnlyIfSilent

(* PeerLink: a peer that is gone is given up. *)
DeadPeerIsLost == part = "dying" => Dying!DeadPeerIsLost

(* ResendRate: when the loss is over, packets are sent once again. *)
SpammingStops == part = "resend" => Resend!SpammingStops

(* TafnetGameNode: while the timer runs, whoever may enter does not wait   *)
(* for ever.                                                               *)
DoorOpens == part = "door" => Door!DoorOpens
=============================================================================
