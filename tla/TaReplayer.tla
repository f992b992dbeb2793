----------------------------- MODULE TaReplayer -----------------------------
(***************************************************************************)
(* The replayer before it plays: it hosts a session for the players of a   *)
(* demo, watchers join with their games, their units are synchronised one  *)
(* second at a time, and once all of them clicked in the game is launched  *)
(* and loaded.                                                             *)
(*                                                                         *)
(* A watcher's game is external: it counts the $1a packets it received     *)
(* since it joined and reports the count, and it sends its PLAYER_INFO.    *)
(* One tick of the timer is one action here: the messages it takes from    *)
(* DirectPlay are actions of their own because every tick but the tenth    *)
(* does nothing else.                                                      *)
(***************************************************************************)
EXTENDS Integers, Sequences, FiniteSets

CONSTANTS
  Watchers,        \* the players that may join, numbered like their DirectPlay ids
  DemoPlayers,     \* number of players in the demo
  Units,           \* m_demoUnitInfo.size()
  UnitsPerTick,    \* UNITS_SYNC_PER_TICK, 100
  ReceivePolls,    \* 10
  AckPolls,        \* 30
  None,
  MayBeSlow,       \* a poll may come before a game has reported all it was sent
  MayLeaveLoading, \* watchers may leave while the game is loading
  StatusFirst,     \* a game sends its PLAYER_INFO before its first count
  MaxSent,         \* bound: $1a packets sent to one watcher
  MaxJoins         \* bound: times watchers join

Statuses == [clickedIn : BOOLEAN, watcher : BOOLEAN]
Uninitialised == -1

(* DpPlayer *)
Players ==
  [state : {"START_SYNC", "SEND_UNITS", "WAIT_RECEIVE_UNITS", "CHECK_ERRORS", "SEND_ACKS", "WAIT_ACKS",
            "END_SYNC", "WAIT_GO", "LOADING", "PLAYING"},
   sendCount : Nat, nextUnit : Nat, receiveCount : Nat, status : Statuses \union {None},
   warned : {"INITIAL", "HAVE_WARNED", "PROCEED_REGARDLESS"}, ordinal : Nat \union {Uninitialised}]

ConstantsOK ==
  /\ Watchers \subseteq Nat /\ IsFiniteSet(Watchers) /\ None \notin Players \union Statuses
  /\ {DemoPlayers, Units, UnitsPerTick} \subseteq Nat \ {0}
  /\ {ReceivePolls, AckPolls, MaxSent, MaxJoins} \subseteq Nat
  /\ {MayBeSlow, MayLeaveLoading, StatusFirst} \subseteq BOOLEAN

VARIABLES
  state,      \* m_state
  dpPlayers,  \* m_dpPlayers, None for a watcher that is not in it
  sysMsgs,    \* DirectPlay: joins and departures not yet received
  inSession,  \* DirectPlay: the watchers in the session
  sent,       \* $1a packets sent to the watcher since it was last created
  clock,      \* m_wallClockTicks while loading, in tens up to 2
  joins

vars == <<state, dpPlayers, sysMsgs, inSession, sent, clock, joins>>

Known == {w \in Watchers : dpPlayers[w] # None}

NewPlayer ==
  [state |-> "START_SYNC", sendCount |-> 0, nextUnit |-> 0, receiveCount |-> 0,
   status |-> None, warned |-> "INITIAL", ordinal |-> Uninitialised]

Init ==
  /\ state = "LOADING_DEMO_PLAYERS"
  /\ dpPlayers = [w \in Watchers |-> None]
  /\ sysMsgs = <<>>
  /\ inSession = {}
  /\ sent = [w \in Watchers |-> 0]
  /\ clock = 0
  /\ joins = 0

-----------------------------------------------------------------------------
(* The steps of doSyncWatcher: the player after a poll, and the number of  *)
(* $1a packets the poll sent to it.                                        *)

StartSync(p) ==
  [player |-> [p EXCEPT !.nextUnit = 0, !.sendCount = p.receiveCount + 1, !.state = "SEND_UNITS"],
   packets |-> 1]

SendUnits(p) ==
  LET last == p.nextUnit + UnitsPerTick >= Units
      n == IF last THEN Units - p.nextUnit ELSE UnitsPerTick
  IN  [player |-> [p EXCEPT !.nextUnit = IF last THEN 0 ELSE p.nextUnit + n,
                            !.sendCount = p.sendCount + n,
                            !.state = IF last THEN "WAIT_RECEIVE_UNITS" ELSE "SEND_UNITS"],
       packets |-> n]

WaitReceiveUnits(p) ==
  LET arrived == p.receiveCount + 1 >= p.sendCount
      q == [p EXCEPT !.nextUnit = p.nextUnit + 1]
  IN  [player |-> IF arrived THEN [q EXCEPT !.sendCount = p.receiveCount, !.state = "CHECK_ERRORS"]
                  ELSE IF q.nextUnit > ReceivePolls THEN [q EXCEPT !.state = "START_SYNC"] ELSE q,
       packets |-> 0]

CheckErrors(p) ==
  [player |-> [p EXCEPT !.state = "SEND_ACKS", !.nextUnit = 0], packets |-> 0]

(* Mutant: the last unit does not set the index back. *)
SendAcksNoReset(p) ==
  [player |-> [p EXCEPT !.nextUnit = p.nextUnit + UnitsPerTick,
                        !.sendCount = p.sendCount + UnitsPerTick,
                        !.state = IF p.nextUnit + UnitsPerTick >= Units THEN "WAIT_ACKS"
                                  ELSE "SEND_ACKS"],
   packets |-> UnitsPerTick]

(* Mutant: the packets after the last unit are not counted. *)
SendAcksMiscounted(p) ==
  LET last == p.nextUnit + UnitsPerTick >= Units
  IN  [player |-> [p EXCEPT !.nextUnit = (p.nextUnit + UnitsPerTick) % Units,
                            !.sendCount = IF last THEN p.sendCount + (Units - p.nextUnit)
                                          ELSE p.sendCount + UnitsPerTick,
                            !.state = IF last THEN "WAIT_ACKS" ELSE "SEND_ACKS"],
       packets |-> UnitsPerTick]

(* Unlike SendUnits the loop goes on after the last unit, from the first. *)
SendAcks(p) ==
  [player |-> [p EXCEPT !.nextUnit = (p.nextUnit + UnitsPerTick) % Units,
                        !.sendCount = p.sendCount + UnitsPerTick,
                        !.state = IF p.nextUnit + UnitsPerTick >= Units THEN "WAIT_ACKS"
                                  ELSE "SEND_ACKS"],
   packets |-> UnitsPerTick]

(* The second resync leaves the index where the count of polls left it. *)
WaitAcks(p) ==
  LET q == [p EXCEPT !.nextUnit = p.nextUnit + 1]
  IN  [player |-> IF p.receiveCount = p.sendCount THEN [q EXCEPT !.state = "END_SYNC"]
                  ELSE IF q.nextUnit > AckPolls
                       THEN [q EXCEPT !.state = "SEND_ACKS", !.sendCount = Units + 1]
                       ELSE q,
       packets |-> 0]

EndSync(p) == [player |-> [p EXCEPT !.state = "WAIT_GO"], packets |-> 0]

Go(p, status) ==
  p.state = "WAIT_GO" /\ status.clickedIn /\ (~status.watcher \/ p.warned = "PROCEED_REGARDLESS")

WaitGo(p, status) ==
  [player |-> IF Go(p, status) THEN p
              ELSE IF status.clickedIn /\ p.warned = "INITIAL" THEN [p EXCEPT !.warned = "HAVE_WARNED"]
              ELSE IF ~status.clickedIn /\ p.warned = "HAVE_WARNED"
                   THEN [p EXCEPT !.warned = "PROCEED_REGARDLESS"]
              ELSE p,
   packets |-> 0]

doSyncWatcher(p, status) ==
  CASE p.state = "START_SYNC" -> StartSync(p)
    [] p.state = "SEND_UNITS" -> SendUnits(p)
    [] p.state = "WAIT_RECEIVE_UNITS" -> WaitReceiveUnits(p)
    [] p.state = "CHECK_ERRORS" -> CheckErrors(p)
    [] p.state = "SEND_ACKS" -> SendAcks(p)
    [] p.state = "WAIT_ACKS" -> WaitAcks(p)
    [] p.state = "END_SYNC" -> EndSync(p)
    [] p.state = "WAIT_GO" -> WaitGo(p, status)

-----------------------------------------------------------------------------
(* The demo's header, players and first packets are parsed. *)
CompletedLoadingDemoPlayers ==
  /\ state = "LOADING_DEMO_PLAYERS"
  /\ state' = "LOBBY"
  /\ UNCHANGED <<dpPlayers, sysMsgs, inSession, sent, clock, joins>>

(* External: a game joins or leaves the session. *)
Join(w) ==
  /\ state # "LOADING_DEMO_PLAYERS" /\ w \notin inSession /\ joins < MaxJoins
  /\ inSession' = inSession \union {w}
  /\ joins' = joins + 1
  /\ sysMsgs' = Append(sysMsgs, [type |-> "CREATE", dpId |-> w])
  /\ UNCHANGED <<state, dpPlayers, sent, clock>>

Leave(w) ==
  /\ w \in inSession
  /\ state = "LOBBY" \/ MayLeaveLoading
  /\ inSession' = inSession \ {w}
  /\ sysMsgs' = Append(sysMsgs, [type |-> "DESTROY", dpId |-> w])
  /\ UNCHANGED <<state, dpPlayers, sent, clock, joins>>

(* A system message ends doLobby before the poll. *)
onLobbySystemMessage ==
  /\ state = "LOBBY" /\ sysMsgs # <<>>
  /\ LET m == Head(sysMsgs)
     IN  /\ dpPlayers' = [dpPlayers EXCEPT ![m.dpId] = IF m.type = "CREATE" THEN NewPlayer ELSE None]
         /\ sent' = [sent EXCEPT ![m.dpId] = 0]
  /\ sysMsgs' = Tail(sysMsgs)
  /\ UNCHANGED <<state, inSession, clock, joins>>

(* UNIT_DATA_1A, sub 4: the number of $1a packets the game received. *)
LobbyCount(w, n) ==
  /\ state = "LOBBY" /\ w \in Known \intersect inSession
  /\ StatusFirst => dpPlayers[w].status # None
  /\ n \in (dpPlayers[w].receiveCount + 1)..sent[w]
  /\ dpPlayers' = [dpPlayers EXCEPT ![w].receiveCount = n]
  /\ UNCHANGED <<state, sysMsgs, inSession, sent, clock, joins>>

(* PLAYER_INFO_20 *)
LobbyStatus(w, s) ==
  /\ state = "LOBBY" /\ w \in Known \intersect inSession
  /\ dpPlayers[w].status # s
  /\ dpPlayers' = [dpPlayers EXCEPT ![w].status = s]
  /\ UNCHANGED <<state, sysMsgs, inSession, sent, clock, joins>>

FirstStatus(w) ==
  w \in Known /\ dpPlayers[w].status = None /\ \E s \in Statuses : LobbyStatus(w, s)

(* What WAIT_GO reads from the status packet: from one that never came,    *)
(* whatever lies behind the empty string.                                  *)
Reading(w) == IF dpPlayers[w].status = None THEN Statuses ELSE {dpPlayers[w].status}

(* sendPlayerInfos numbers the watchers behind the players of the demo. *)
Ordinal(w) == DemoPlayers + Cardinality({v \in Known : v < w})

(* Mutant: watchers that are still synchronising are not waited for. *)
AllSyncedGo(reading) ==
  /\ Known # {}
  /\ \A w \in Known : reading[w].clickedIn

AllGo(reading) ==
  /\ Known # {}
  /\ \A w \in Known : Go(dpPlayers[w], reading[w])

(* The tenth tick of doLobby. *)
LobbyPoll ==
  /\ state = "LOBBY"
  /\ MayBeSlow \/ \A w \in Known : dpPlayers[w].receiveCount = sent[w]
  /\ \E reading \in [Known -> Statuses] :
       /\ \A w \in Known : reading[w] \in Reading(w)
       /\ LET step(w) == doSyncWatcher([dpPlayers[w] EXCEPT !.ordinal = Ordinal(w)], reading[w])
          IN  /\ dpPlayers' = [w \in Watchers |-> IF w \in Known THEN step(w).player ELSE None]
              /\ sent' = [w \in Watchers |-> IF w \in Known THEN sent[w] + step(w).packets ELSE sent[w]]
       /\ state' = IF AllGo(reading) THEN "LAUNCH" ELSE "LOBBY"
  /\ \A w \in Known : sent'[w] <= MaxSent
  /\ UNCHANGED <<sysMsgs, inSession, clock, joins>>

(* The tick of doLaunch, which falls through to the first doLoad. *)
doLaunch ==
  /\ state = "LAUNCH"
  /\ state' = "LOAD" /\ clock' = 0
  /\ dpPlayers' = [w \in Watchers |-> IF w \in Known THEN [dpPlayers[w] EXCEPT !.state = "LOADING"]
                                      ELSE None]
  /\ UNCHANGED <<sysMsgs, inSession, sent, joins>>

(* START_15 or a move of a watcher; a game that joined late is not known. *)
onLoadingTaMessage(w) ==
  /\ state = "LOAD" /\ w \in Known \intersect inSession
  /\ dpPlayers[w].state = "LOADING"
  /\ dpPlayers' = [dpPlayers EXCEPT ![w].state = "PLAYING"]
  /\ UNCHANGED <<state, sysMsgs, inSession, sent, clock, joins>>

Loaded == clock + 1 >= 2 /\ \A w \in Known : dpPlayers[w].state = "PLAYING"

(* Ten ticks of doLoad. *)
doLoad ==
  /\ state = "LOAD"
  /\ clock' = IF clock < 2 THEN clock + 1 ELSE clock
  /\ state' = IF Loaded THEN "PLAY" ELSE "LOAD"
  /\ UNCHANGED <<dpPlayers, sysMsgs, inSession, sent, joins>>

Next ==
  \/ CompletedLoadingDemoPlayers
  \/ \E w \in Watchers : Join(w)
  \/ \E w \in Watchers : Leave(w)
  \/ onLobbySystemMessage
  \/ \E w \in Watchers : \E n \in 1..MaxSent : LobbyCount(w, n)
  \/ \E w \in Watchers : \E s \in Statuses : LobbyStatus(w, s)
  \/ LobbyPoll
  \/ doLaunch
  \/ \E w \in Watchers : onLoadingTaMessage(w)
  \/ doLoad

(* The timer goes on, DirectPlay delivers, and a game reports in the end   *)
(* all it was sent, sends its status and finishes loading.                 *)
Fairness ==
  /\ WF_vars(CompletedLoadingDemoPlayers) /\ SF_vars(onLobbySystemMessage)
  /\ SF_vars(LobbyPoll)
  /\ \A w \in Watchers : SF_vars(LobbyCount(w, sent[w]))
  /\ \A w \in Watchers : SF_vars(FirstStatus(w))
  /\ WF_vars(doLaunch) /\ WF_vars(doLoad)
  /\ \A w \in Watchers : WF_vars(onLoadingTaMessage(w))

Spec == Init /\ [][Next]_vars /\ Fairness

-----------------------------------------------------------------------------
(* The state of the replayer and of the watchers has its type; m_dpPlayers *)
(* only names watchers that joined.                                        *)
TypeOK ==
  /\ state \in {"LOADING_DEMO_PLAYERS", "LOBBY", "LAUNCH", "LOAD", "PLAY"}
  /\ dpPlayers \in [Watchers -> Players \union {None}]
  /\ \A w \in Known : dpPlayers[w].receiveCount <= sent[w]
  /\ inSession \subseteq Watchers
  /\ sent \in [Watchers -> 0..MaxSent]
  /\ clock \in 0..2 /\ joins \in 0..MaxJoins

(* doLobby launches only a session in which every watcher that the replayer *)
(* knows has received every unit, has clicked in, and has an ordinal of its *)
(* own behind the players of the demo, whoever joined, left or clicked      *)
(* while others were synchronised.                                          *)
ReadyAtLaunch ==
  state \in {"LAUNCH", "LOAD", "PLAY"} =>
    /\ Known # {}
    /\ \A w \in Known : dpPlayers[w].receiveCount > Units /\ dpPlayers[w].status.clickedIn
    /\ {dpPlayers[w].ordinal : w \in Known} = DemoPlayers..(DemoPlayers + Cardinality(Known) - 1)

(* The index with which doSyncWatcher reads m_demoUnitInfoLinear is inside *)
(* it, after any number of resyncs.  It is not for a demo of few units:    *)
(* Units must be above UnitsPerTick and AckPolls + 1.                      *)
IndexInRange ==
  \A w \in Known : dpPlayers[w].state \in {"SEND_UNITS", "SEND_ACKS"} => dpPlayers[w].nextUnit < Units

(* A watcher whose game reports all it was sent within a second, and stays, *)
(* is synchronised, although others join and leave.                         *)
SyncCompletes ==
  \A w \in Watchers :
    (dpPlayers[w] # None) ~> (dpPlayers[w] = None \/ dpPlayers[w].state \in {"WAIT_GO", "LOADING", "PLAYING"})

(* A launched replay starts, although others join while it loads.  It      *)
(* takes that no watcher leaves while loading, and that none had left when *)
(* the poll counted it: doLoad takes no system message and waits for it    *)
(* for ever.                                                               *)
ReplayStarts == (state = "LAUNCH" /\ Known \subseteq inSession) ~> state = "PLAY"

=============================================================================
