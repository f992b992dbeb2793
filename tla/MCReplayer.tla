----------------------------- MODULE MCReplayer -----------------------------
(***************************************************************************)
(* The replayer for TLC: its lobby, with the synchronisation of the        *)
(* watchers and the loading of the game (TaReplayer), and its playback     *)
(* (ReplayPlayback), which starts when the lobby is over.  One run         *)
(* explores them side by side: "part" names the one that moves in a        *)
(* behaviour and the constants it has there, the other keeps its initial   *)
(* values.                                                                 *)
(***************************************************************************)
EXTENDS Integers, Sequences

CONSTANTS
  None,
  Watchers, DemoPlayers, Units, UnitsPerTick, ReceivePolls, AckPolls,  \* all of TaReplayer
  MaxSent, MaxJoins, ResyncSent, ResyncJoins,                          \* lobby, resync
  PlayDemos, TalkDemos, Audience, Senders, Preload, ChatWindow, FollowTicks, SonarTick, RateMax,
  Speeds, NoChat, MaxTicks, MaxUser                                    \* all of ReplayPlayback

VARIABLES
  part,
  state, dpPlayers, sysMsgs, inSession, sent, clock, joins,
  demo, written, parsed, popped, feeding, wallClock, target, fraction, rate, speed, isPaused, game,
  dpTicks, sonars, user

lobbyVars == <<state, dpPlayers, sysMsgs, inSession, sent, clock, joins>>
playVars == <<demo, written, parsed, popped, feeding, wallClock, target, fraction, rate, speed,
              isPaused, game, dpTicks, sonars, user>>
vars == <<part, lobbyVars, playVars>>

-----------------------------------------------------------------------------
(* Watchers that come and go. *)
Lobby == INSTANCE TaReplayer WITH
  MayBeSlow <- FALSE, MayLeaveLoading <- TRUE, StatusFirst <- TRUE

(* Watchers whose games are slow, so that the units are sent again. *)
Resync == INSTANCE TaReplayer WITH
  MayBeSlow <- TRUE, MayLeaveLoading <- TRUE, StatusFirst <- TRUE,
  MaxSent <- ResyncSent, MaxJoins <- ResyncJoins

(* Watchers of which none leaves while the game is loading. *)
Start == INSTANCE TaReplayer WITH
  MayBeSlow <- FALSE, MayLeaveLoading <- FALSE, StatusFirst <- TRUE, MaxJoins <- 2

Packet(s, moves) == [sender |-> s, moves |-> moves]
M(k, a) == [kind |-> k, arg |-> a]

(* Two players, one that is not in the demo, and moves of all kinds. *)
MixedPackets ==
  {Packet(1, <<M("tick", 1)>>), Packet(1, <<M("tick", 3), M("give", 0), M("other", 1)>>),
   Packet(2, <<M("chat", 1), M("tick", 2)>>), Packet(2, <<M("speed", 0), M("chat", 1), M("allychat", 0)>>),
   Packet(3, <<M("other", 2)>>)}

MixedDemos == [1..3 -> MixedPackets]

(* Chat only. *)
ChatDemos == [1..5 -> {Packet(1, <<M("chat", t)>>) : t \in 1..3}]

(* Ticks of two players, each rising; one may stop. *)
Rising(d) ==
  \A i, j \in DOMAIN d : (i < j /\ d[i].sender = d[j].sender) => d[i].moves[1].arg < d[j].moves[1].arg
TickDemos == {d \in [1..3 -> {Packet(s, <<M("tick", t)>>) : s \in 1..2, t \in 1..3}] : Rising(d)}

(* A watcher that pauses and changes the speed. *)
Play == INSTANCE ReplayPlayback WITH
  Demos <- PlayDemos, Watchers <- Audience

(* Chat that fills its window twice. *)
Talk == INSTANCE ReplayPlayback WITH
  Demos <- TalkDemos, Watchers <- Audience, FollowTicks <- 1, Speeds <- {1}, MaxTicks <- 1, MaxUser <- 0

(* Demos whose players stop one after the other. *)
Finish == INSTANCE ReplayPlayback WITH
  Demos <- TickDemos, Watchers <- Audience, Speeds <- {1}

ASSUME ConstantsAssumption ==
  /\ Lobby!ConstantsOK /\ Resync!ConstantsOK /\ Start!ConstantsOK
  /\ Play!ConstantsOK /\ Talk!ConstantsOK /\ Finish!ConstantsOK

(* The units of a demo are more than a batch, and more than the polls for  *)
(* acknowledgements: the hundreds of a mod.                                *)
ASSUME ManyUnits == UnitsPerTick < Units /\ AckPolls + 1 < Units

Init ==
  /\ part \in {"lobby", "resync", "start", "play", "talk", "finish"}
  /\ Lobby!Init
  /\ CASE part = "play" -> Play!Init
       [] part = "talk" -> Talk!Init
       [] part = "finish" -> Finish!Init
       [] OTHER -> Play!Init /\ demo = CHOOSE d \in PlayDemos : TRUE

LobbyNext ==
  /\ \/ part = "lobby" /\ Lobby!Next
     \/ part = "resync" /\ Resync!Next
     \/ part = "start" /\ Start!Next
  /\ UNCHANGED <<part, playVars>>

PlayNext ==
  /\ \/ part = "play" /\ Play!Next
     \/ part = "talk" /\ Talk!Next
     \/ part = "finish" /\ Finish!Next
  /\ UNCHANGED <<part, lobbyVars>>

Next == LobbyNext \/ PlayNext

(* The fairness of TaReplayer and of ReplayPlayback. *)
Fairness ==
  /\ WF_lobbyVars(part = "start" /\ Start!CompletedLoadingDemoPlayers)
  /\ SF_lobbyVars(part = "start" /\ Start!onLobbySystemMessage)
  /\ SF_lobbyVars(part = "start" /\ Start!LobbyPoll)
  /\ WF_lobbyVars(part = "start" /\ Start!doLaunch)
  /\ WF_lobbyVars(part = "start" /\ Start!doLoad)
  /\ \A w \in Watchers : /\ SF_lobbyVars(part = "start" /\ Start!LobbyCount(w, sent[w]))
                       /\ SF_lobbyVars(part = "start" /\ Start!FirstStatus(w))
                       /\ WF_lobbyVars(part = "start" /\ Start!onLoadingTaMessage(w))
  /\ WF_playVars(part = "finish" /\ Finish!Grow)
  /\ WF_playVars(part = "finish" /\ Finish!StartTick)
  /\ WF_playVars(part = "finish" /\ Finish!Feed)
  /\ WF_playVars(part = "finish" /\ Finish!EndTick)

Spec == Init /\ [][Next]_vars /\ Fairness

-----------------------------------------------------------------------------
(* TaReplayer: the game is launched only when every watcher has the units, *)
(* has clicked in and has an ordinal of its own.                           *)
ReadyAtLaunch ==
  /\ part = "lobby" => Lobby!TypeOK /\ Lobby!ReadyAtLaunch
  /\ part = "resync" => Resync!ReadyAtLaunch

(* TaReplayer: the units are read within their table, after any resync. *)
IndexInRange == part = "resync" => Resync!IndexInRange

(* TaReplayer: a watcher that stays is synchronised in the end, and a      *)
(* launched replay starts.                                                 *)
ReplayStarts == part = "start" => Start!SyncCompletes /\ Start!ReplayStarts

(* ReplayPlayback: every move is fed once and in its order, whatever       *)
(* pauses, changes of speed and growth of the file come between; the       *)
(* filter of repeated chat loses no new message; and the sonar is given    *)
(* once.                                                                   *)
DemoFed ==
  /\ part = "play" => Play!TypeOK /\ Play!MovesFed /\ Play!SonarOnce
  /\ part = "talk" => Talk!NewChatFed

(* ReplayPlayback: all of a demo is played, unless it is left paused. *)
AllPlayed == part = "finish" => Finish!AllPlayed
=============================================================================
