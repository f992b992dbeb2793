------------------------------- MODULE Launch -------------------------------
(***************************************************************************)
(* How a game is started and how its end is noticed: GpgNetGameLauncher    *)
(* and its LaunchClient in gpgnet4ta, the LaunchServer in talauncher, and  *)
(* the game process behind DirectPlay's lobby interface (JDPlay).          *)
(*                                                                         *)
(* gpgnet4ta and talauncher are two processes joined by a TCP connection.  *)
(* onStartApplication blocks gpgnet4ta until the launch server answers or  *)
(* 30 seconds have passed; "calls" counts the calls of it that the handler *)
(* in progress has still to finish, and nothing else of gpgnet4ta runs     *)
(* meanwhile.                                                              *)
(***************************************************************************)
EXTENDS Integers, Sequences

CONSTANTS
  AsHost,         \* GpgNet sends HostGame, else JoinGame
  AutoLaunch,     \* --autolaunch
  VerifyFails,    \* a game file has a CRC that is not permitted
  Maps,           \* maps the host chooses from
  KeepAlive,      \* --keepalivetimeout, in ticks of the server's timer
  MayMerge,       \* status messages may arrive in one read
  MayTimeOut,     \* an answer may take more than 30 seconds
  MayOrphan,      \* OpenProcess may fail after the game was started
  MayDetectLate,  \* teams may freeze before DirectPlay's launch is noticed
  MaxLaunches     \* bound: /launch messages

ConstantsOK ==
  /\ {AsHost, AutoLaunch, VerifyFails, MayMerge, MayTimeOut, MayOrphan, MayDetectLate}
       \subseteq BOOLEAN
  /\ KeepAlive \in Nat \ {0} /\ MaxLaunches \in Nat /\ Maps # {}

VARIABLES
  launcher,  \* GpgNetGameLauncher
  client,    \* LaunchClient
  server,    \* LaunchServer, and the JDPlay it holds
  toServer, toClient,  \* the TCP connection
  game,      \* the process jdPlay started, and the map it read from the ini file
  stray,     \* a game runs that no jdPlay holds
  seen,      \* what GameMonitor2 has seen of the game
  told,      \* the last state GpgNet was told
  toldMap,   \* the map it was told
  launches

vars == <<launcher, client, server, toServer, toClient, game, stray, seen, told, toldMap, launches>>

NoMap == "none"

States == {"CONNECTING", "IDLE", "RUNNING", "LAUNCHED", "FAIL"}

(* The states of a game in the order GpgNet should hear of them. *)
Ladder == <<"Idle", "Staging", "Battleroom", "Launching", "Live", "Ended", "GameEnded">>

Rank(s) == CHOOSE i \in DOMAIN Ladder : Ladder[i] = s

Init ==
  /\ launcher = [up |-> TRUE, autoStart |-> FALSE, readyToStart |-> FALSE, alreadyStarted |-> FALSE,
                 alreadyLaunched |-> FALSE, isHost |-> FALSE, quitCount |-> 0, verify |-> FALSE,
                 polling |-> FALSE, calls |-> 0, waiting |-> "no", map |-> NoMap, ini |-> NoMap]
  /\ client = [state |-> "IDLE", connected |-> TRUE]
  /\ server = [up |-> TRUE, jdPlay |-> FALSE, hosting |-> FALSE, joinDisabled |-> FALSE,
               closed |-> FALSE, validated |-> FALSE, counter |-> KeepAlive]
  /\ toServer = <<>> /\ toClient = <<>>
  /\ game = [run |-> "none", map |-> NoMap]
  /\ stray = FALSE
  /\ seen = "nothing"
  /\ told = "Idle" /\ toldMap = NoMap
  /\ launches = 0

-----------------------------------------------------------------------------
(* gpgnet4ta *)

Busy == launcher.calls > 0

(* The event loop of gpgnet4ta is free to run a handler. *)
Free == launcher.up /\ ~Busy

IsApplicationRunning(state) == state \in {"RUNNING", "LAUNCHED"}

CreateLobby ==
  /\ Free /\ told = "Idle"
  /\ told' = "Staging"
  /\ UNCHANGED <<launcher, client, server, toServer, toClient, game, stray, seen, toldMap, launches>>

(* The calls of onStartApplication at the end of onHostGame and onJoinGame. *)
DeferredCalls == (IF launcher.autoStart THEN 1 ELSE 0) + (IF AutoLaunch THEN 1 ELSE 0)

(* onHostGame: nothing reads isHost or the options before the handler ends. *)
HostGame(m) ==
  /\ Free /\ AsHost /\ told = "Staging" /\ ~launcher.readyToStart
  /\ launcher' = [launcher EXCEPT !.map = m, !.readyToStart = TRUE, !.isHost = TRUE,
                                  !.calls = DeferredCalls]
  /\ toldMap' = m
  /\ UNCHANGED <<client, server, toServer, toClient, game, stray, seen, told, launches>>

JoinGame ==
  /\ Free /\ ~AsHost /\ told = "Staging" /\ ~launcher.readyToStart
  /\ launcher' = [launcher EXCEPT !.readyToStart = TRUE, !.calls = DeferredCalls]
  /\ UNCHANGED <<client, server, toServer, toClient, game, stray, seen, told, toldMap, launches>>

(* /launch *)
LaunchMessage ==
  /\ Free /\ launches < MaxLaunches
  /\ launches' = launches + 1
  /\ launcher' = [launcher EXCEPT !.calls = 1]
  /\ UNCHANGED <<client, server, toServer, toClient, game, stray, seen, told, toldMap>>

(* Mutant: the map may be changed at any time. *)
MaySetOptionsAlways == launcher.isHost

MaySetOptions == launcher.isHost /\ ~launcher.alreadyStarted

(* /map; /rating_type, /replay_delay_seconds and /title have the same guard. *)
MapMessage(m) ==
  /\ Free /\ MaySetOptions
  /\ launcher' = [launcher EXCEPT !.map = m]
  /\ toldMap' = m
  /\ UNCHANGED <<client, server, toServer, toClient, game, stray, seen, told, launches>>

VerifyMessage ==
  /\ Free /\ VerifyFails
  /\ launcher' = [launcher EXCEPT !.verify = ~@]
  /\ UNCHANGED <<client, server, toServer, toClient, game, stray, seen, told, toldMap, launches>>

(* /quit *)
QuitMessage ==
  /\ Free
  /\ LET count == IF IsApplicationRunning(client.state) THEN launcher.quitCount + 1
                  ELSE launcher.quitCount
     IN launcher' = [launcher EXCEPT !.quitCount = count,
                       !.up = IsApplicationRunning(client.state) /\ count # 2]
  /\ UNCHANGED <<client, server, toServer, toClient, game, stray, seen, told, toldMap, launches>>

ResetQuitCount ==
  /\ Free /\ launcher.quitCount > 0
  /\ launcher' = [launcher EXCEPT !.quitCount = 0]
  /\ UNCHANGED <<client, server, toServer, toClient, game, stray, seen, told, toldMap, launches>>

(* onStartApplication up to the point where it waits for the server. *)
StartIgnored ==
  /\ Busy /\ launcher.waiting = "no"
  /\ launcher.alreadyStarted \/ ~launcher.readyToStart
  /\ launcher' = [launcher EXCEPT !.calls = @ - 1, !.autoStart = @ \/ ~launcher.alreadyStarted]
  /\ UNCHANGED <<client, server, toServer, toClient, game, stray, seen, told, toldMap, launches>>

(* verifyGameFileVersions fails. *)
Refused == launcher.verify /\ VerifyFails

(* createTAInitFile: the game reads the map from the file. *)
IniWritten(l) == [l EXCEPT !.ini = l.map]

StartApplication ==
  /\ Busy /\ launcher.waiting = "no" /\ ~launcher.alreadyStarted /\ launcher.readyToStart
  /\ LET what == IF Refused THEN "failversion" ELSE "start"
         prepared == [IniWritten(launcher) EXCEPT !.alreadyLaunched = @ /\ Refused]
     IN \/ /\ server.up
           /\ launcher' = [prepared EXCEPT !.waiting = what]
           /\ client' = [client EXCEPT !.connected = TRUE]
           /\ toServer' = Append(toServer, what)
        \/ /\ ~server.up /\ toClient = <<>>
           /\ launcher' = [prepared EXCEPT !.calls = @ - 1]
           /\ client' = [state |-> IF Refused /\ ~client.connected THEN client.state
                                   ELSE "CONNECTING",
                         connected |-> FALSE]
           /\ toServer' = <<>>
  /\ UNCHANGED <<server, toClient, game, stray, seen, told, toldMap, launches>>

(* The rest of it, once the client's state is known. *)
Started(state) ==
  LET yes == launcher.waiting = "start" /\ IsApplicationRunning(state)
  IN /\ client' = [client EXCEPT !.state = state]
     /\ launcher' = [launcher EXCEPT !.waiting = "no", !.calls = @ - 1,
                                     !.alreadyStarted = @ \/ yes, !.polling = @ \/ yes]
     /\ told' = IF yes THEN "Battleroom" ELSE told

(* A read takes all that has arrived; what follows the first NUL is lost.  *)
Taken == toClient[1]

Readable == IF MayMerge THEN 1..Len(toClient) ELSE {1}

Answered ==
  /\ launcher.up /\ launcher.waiting # "no" /\ toClient # <<>>
  /\ \E n \in Readable :
       /\ Started(Taken)
       /\ toClient' = SubSeq(toClient, n + 1, Len(toClient))
  /\ UNCHANGED <<server, toServer, game, stray, seen, toldMap, launches>>

(* waitForReadyRead gives up, or the server went away. *)
NotAnswered ==
  /\ launcher.up /\ launcher.waiting # "no" /\ toClient = <<>>
  /\ MayTimeOut \/ ~server.up
  /\ Started("FAIL")
  /\ UNCHANGED <<server, toServer, toClient, game, stray, seen, toldMap, launches>>

OnReadyReadTcp ==
  /\ Free /\ toClient # <<>>
  /\ \E n \in Readable :
       /\ client' = [client EXCEPT !.state = Taken]
       /\ toClient' = SubSeq(toClient, n + 1, Len(toClient))
  /\ UNCHANGED <<launcher, server, toServer, game, stray, seen, told, toldMap, launches>>

Disconnected ==
  /\ Free /\ client.connected /\ ~server.up /\ toClient = <<>>
  /\ client' = [state |-> "CONNECTING", connected |-> FALSE]
  /\ UNCHANGED <<launcher, server, toServer, toClient, game, stray, seen, told, toldMap, launches>>

(* Mutant: only a failure counts as the end of the game. *)
GameStoppedOnFail == client.state = "FAIL"

GameStopped == ~IsApplicationRunning(client.state)

(* pollJdplayStillActive; applicationTerminated quits gpgnet4ta. *)
Poll ==
  /\ Free /\ launcher.polling
  /\ \/ /\ GameStopped
        /\ launcher' = [launcher EXCEPT !.polling = FALSE, !.up = FALSE]
        /\ told' = "GameEnded"
     \/ /\ ~GameStopped
        /\ launcher.isHost /\ ~launcher.alreadyLaunched /\ client.state = "LAUNCHED"
        /\ launcher' = [launcher EXCEPT !.alreadyLaunched = TRUE]
        /\ told' = "Launching"
  /\ UNCHANGED <<client, server, toServer, toClient, game, stray, seen, toldMap, launches>>

-----------------------------------------------------------------------------
(* GameMonitor2's events on their way through ForwardGameEventsToGpgNet *)

Playing == game.run = "playing"

(* Mutant: the teams are reported before the launch. *)
EventsUnordered == {<<"nothing", "frozen">>, <<"frozen", "started">>, <<"started", "ended">>}

Events == {<<"nothing", "started">>, <<"started", "frozen">>, <<"frozen", "ended">>}

GameEvent(e) ==
  /\ Free /\ (Playing \/ stray)
  /\ <<seen, e>> \in Events
  /\ e = "frozen" /\ launcher.isHost /\ ~MayDetectLate => launcher.alreadyLaunched
  /\ seen' = e
  /\ told' = CASE e = "started" /\ launcher.isHost -> "Launching"
               [] e = "frozen" /\ launcher.isHost -> "Live"
               [] e = "ended" -> "Ended"
               [] OTHER -> told
  /\ UNCHANGED <<launcher, client, server, toServer, toClient, game, stray, toldMap, launches>>

-----------------------------------------------------------------------------
(* talauncher *)

GameRunning == game.run \in {"room", "playing"}

Notify(status) == toClient' = IF launcher.up /\ client.connected THEN Append(toClient, status)
                              ELSE toClient

(* Mutant: a second request starts a second game. *)
LaunchAlways == TRUE

(* launchGame: one game at a time. *)
MayLaunch == ~server.jdPlay

(* JDPlay::initialize: every call of DirectPlay may fail. *)
InitializeResults == BOOLEAN

(* JDPlay::launch: RunApplication fails, or OpenProcess fails with the game *)
(* already running, or the game is started.                                 *)
LaunchResults == {"failed", "started"} \union (IF MayOrphan THEN {"orphaned"} ELSE {})

(* The LaunchClient never asks for /searchjoin. *)
LaunchGame ==
  /\ server.up /\ toServer # <<>> /\ Head(toServer) = "start"
  /\ toServer' = Tail(toServer)
  /\ \/ ~MayLaunch /\ UNCHANGED <<server, toClient, game, stray>>
     \/ \E initialized \in InitializeResults, result \in LaunchResults :
          /\ MayLaunch
          /\ \/ /\ initialized /\ result = "started"
                /\ server' = [server EXCEPT !.jdPlay = TRUE, !.hosting = launcher.isHost,
                                !.joinDisabled = FALSE, !.closed = FALSE, !.validated = FALSE]
                /\ stray' = (stray \/ GameRunning)
                /\ game' = [run |-> "room", map |-> launcher.ini]
                /\ Notify("RUNNING")
             \/ /\ ~initialized \/ result # "started"
                /\ stray' = (stray \/ (initialized /\ result = "orphaned"))
                /\ Notify("FAIL")
                /\ UNCHANGED <<server, game>>
  /\ UNCHANGED <<launcher, client, seen, told, toldMap, launches>>

FailVersion ==
  /\ server.up /\ toServer # <<>> /\ Head(toServer) = "failversion"
  /\ toServer' = Tail(toServer)
  /\ server' = [server EXCEPT !.jdPlay = FALSE]
  /\ stray' = (stray \/ (server.jdPlay /\ GameRunning))
  /\ game' = IF server.jdPlay THEN [run |-> "none", map |-> NoMap] ELSE game
  /\ Notify("FAIL")
  /\ UNCHANGED <<launcher, client, seen, told, toldMap, launches>>

(* The counter of a timer tick without a game; at zero the server quits. *)
CountDown(s) == [s EXCEPT !.counter = @ - 1, !.up = s.counter > 1]

(* Mutant: the description found first is kept. *)
EnumSessionsOnce(open) ==
  IF server.validated THEN server ELSE [server EXCEPT !.closed = ~open, !.validated = TRUE]

(* enumSessions: a changed description is taken only by the search after the *)
(* one that found it changed (updateFoundSessionDescription).                *)
EnumSessions(open) ==
  CASE ~server.validated -> [server EXCEPT !.closed = ~open, !.validated = TRUE]
    [] server.validated /\ server.closed # open -> server
    [] OTHER -> [server EXCEPT !.validated = FALSE]

(* timerEvent, with and without an answer of the game to the session search. *)
TimerEvent(answered) ==
  /\ server.up
  /\ \/ /\ server.jdPlay /\ ~GameRunning
        /\ Notify(IF game.run = "exit" THEN "IDLE" ELSE "FAIL")
        /\ server' = CountDown([server EXCEPT !.jdPlay = FALSE])
     \/ /\ server.jdPlay /\ GameRunning /\ server.hosting /\ ~server.joinDisabled /\ answered
        /\ LET found == EnumSessions(game.run = "room")
           IN /\ server' = [found EXCEPT !.joinDisabled = found.closed]
              /\ IF found.closed THEN Notify("LAUNCHED") ELSE UNCHANGED toClient
     \/ /\ ~server.jdPlay
        /\ server' = CountDown(server)
        /\ UNCHANGED toClient
  /\ UNCHANGED <<launcher, client, toServer, game, stray, seen, told, toldMap, launches>>

KeepAliveMessage ==
  /\ server.up
  /\ server' = [server EXCEPT !.counter = KeepAlive]
  /\ UNCHANGED <<launcher, client, toServer, toClient, game, stray, seen, told, toldMap, launches>>

-----------------------------------------------------------------------------
(* The game *)

GameLaunches ==
  /\ game.run = "room"
  /\ game' = [game EXCEPT !.run = "playing"]
  /\ UNCHANGED <<launcher, client, server, toServer, toClient, stray, seen, told, toldMap, launches>>

GameExits(how) ==
  /\ GameRunning
  /\ game' = [game EXCEPT !.run = how]
  /\ UNCHANGED <<launcher, client, server, toServer, toClient, stray, seen, told, toldMap, launches>>

StrayExits ==
  /\ stray /\ stray' = FALSE
  /\ UNCHANGED <<launcher, client, server, toServer, toClient, game, seen, told, toldMap, launches>>

Next ==
  \/ CreateLobby \/ JoinGame \/ LaunchMessage \/ VerifyMessage \/ QuitMessage \/ ResetQuitCount
  \/ \E m \in Maps : HostGame(m) \/ MapMessage(m)
  \/ StartIgnored \/ StartApplication \/ Answered \/ NotAnswered
  \/ OnReadyReadTcp \/ Disconnected \/ Poll
  \/ \E e \in {"started", "frozen", "ended"} : GameEvent(e)
  \/ LaunchGame \/ FailVersion \/ KeepAliveMessage
  \/ \E answered \in BOOLEAN : TimerEvent(answered)
  \/ GameLaunches \/ StrayExits
  \/ \E how \in {"exit", "crash"} : GameExits(how)

(* Both event loops run, and DirectPlay answers a session search sooner or *)
(* later.                                                                  *)
Fairness ==
  /\ WF_vars(StartIgnored \/ StartApplication \/ Answered \/ NotAnswered)
  /\ WF_vars(OnReadyReadTcp) /\ WF_vars(Disconnected) /\ WF_vars(Poll)
  /\ WF_vars(LaunchGame \/ FailVersion) /\ WF_vars(TimerEvent(TRUE))

Spec == Init /\ [][Next]_vars /\ Fairness

-----------------------------------------------------------------------------
TypeOK ==
  /\ client.state \in States
  /\ launcher.calls \in 0..2 /\ launcher.quitCount \in 0..2
  /\ launcher.waiting \in {"no", "start", "failversion"}
  /\ {launcher.map, launcher.ini, toldMap, game.map} \subseteq Maps \union {NoMap}
  /\ server.counter \in 0..KeepAlive
  /\ \A i \in DOMAIN toServer : toServer[i] \in {"start", "failversion"}
  /\ \A i \in DOMAIN toClient : toClient[i] \in States \ {"CONNECTING"}
  /\ \E i \in DOMAIN Ladder : Ladder[i] = told
  /\ game.run \in {"none", "room", "playing", "exit", "crash"}

(* GpgNet hears of the states of a game in their order, though the launch  *)
(* is told by two sources that know nothing of each other: the poll of     *)
(* LaunchServer's status and the packets GameMonitor2 reads.               *)
ToldInOrder == [][Rank(told) <= Rank(told')]_vars

(* The map that GpgNet was told is the one the game runs with, whatever    *)
(* /map and /launch messages there were between the ini file and the game. *)
MapAsTold == GameRunning /\ launcher.up /\ launcher.isHost => game.map = toldMap

(* The end of a game is told only when no game is left that the launch     *)
(* server knows of, or the launch server itself is gone.                   *)
EndedMeansOver == told = "GameEnded" => ~server.up \/ ~(server.jdPlay /\ GameRunning)

(* Retries after an answer that came too late never start a second game.   *)
OneGame == ~(stray /\ GameRunning)

(* A /launch that came before HostGame or JoinGame is carried out by them. *)
DeferredLaunchDone ==
  launcher.autoStart /\ launcher.readyToStart /\ ~Busy =>
    launcher.alreadyStarted \/ client.state # "IDLE"

(* The end of a game that was started ends gpgnet4ta. *)
GameOverEndsSession ==
  (launcher.polling /\ game.run \in {"exit", "crash"}) ~> ~launcher.up

(* The host's launch is noticed while the game is played. *)
LaunchIsNoticed ==
  (launcher.polling /\ launcher.isHost /\ Playing) ~>
    (launcher.alreadyLaunched \/ ~Playing \/ ~launcher.up)
=============================================================================
