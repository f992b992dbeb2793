--------------------------- MODULE TaDemoCompiler ---------------------------
(***************************************************************************)
(* TaDemoCompiler writes one demo file per game from what the players'     *)
(* TaDemoCompilerClients send it: who they are, the lobby's settings, the  *)
(* ids locked in when loading starts, and every player's moves.  A player  *)
(* has a TCP connection that breaks and is made again; the server closes   *)
(* the games it has not heard of for GAME_EXPIRY_TICKS seconds.            *)
(*                                                                         *)
(* One game is modelled.  A player stands for its DirectPlay id.  A        *)
(* UserContext belongs to a connection and is shared with the game's table *)
(* of players: the table holds "live" while it points to the context of    *)
(* the player's present connection, and a copy once that one is closed.    *)
(* A broken connection loses what is under way on it.                      *)
(***************************************************************************)
EXTENDS Naturals, FiniteSets, SequencesExt

CONSTANTS
  Player, Host,
  GAME_EXPIRY_TICKS,
  CloseBadConnections,  \* m_noUserContextOption is not IGNORE
  MinMoves,             \* m_minDemoSize, in moves
  MaxMoves,             \* bound: moves a player makes
  MaxQueue,             \* bound: commands on their way from a player
  MaxDrops,             \* bound: connections that break
  AllLockIn             \* every player is known to all before loading starts

ConstantsOK ==
  /\ IsFiniteSet(Player) /\ Host \in Player
  /\ GAME_EXPIRY_TICKS \in Nat \ {0}
  /\ {MinMoves, MaxMoves, MaxQueue, MaxDrops} \subseteq Nat
  /\ {CloseBadConnections, AllLockIn} \subseteq BOOLEAN

VARIABLES
  up,          \* up[p]: p's socket is connected
  known,       \* known[p]: m_dpConnectedPlayers of p's client
  phase,       \* phase[p]: "lobby", "loading" or "playing" (m_ticks >= 0)
  made,        \* made[p]: moves p's client has sent or lost
  queue,       \* queue[p]: commands on their way from p
  context,     \* context[p]: the UserContext of p's connection
  game,        \* m_games: <<>> or <<record>>
  file,        \* the demo file: [state, lockedIn, moves]
  drops

clientVars == <<up, known, phase, made>>
vars == <<clientVars, queue, context, game, file, drops>>

NoContext == [registered |-> FALSE, number |-> 0, info |-> FALSE]
Absent == [kind |-> "absent", number |-> 0, info |-> FALSE]
Live == [kind |-> "live", number |-> 0, info |-> FALSE]

(* GameContext(): no game id, no header, nothing recorded. *)
NewGame == [gameId |-> 0, countdown |-> GAME_EXPIRY_TICKS,
            players |-> [p \in Player |-> Absent], open |-> FALSE]

NoFile == [state |-> "none", lockedIn |-> <<>>, moves |-> <<>>]

Init ==
  /\ up = [p \in Player |-> TRUE]
  /\ known = [p \in Player |-> {}]
  /\ phase = [p \in Player |-> "lobby"]
  /\ made = [p \in Player |-> 0]
  /\ queue = [p \in Player |-> <<>>]
  /\ context = [p \in Player |-> NoContext]
  /\ game = <<>>
  /\ file = NoFile
  /\ drops = 0

-----------------------------------------------------------------------------
(* TaDemoCompilerClient.  A command written to a socket that is not        *)
(* connected is lost.                                                      *)
Send(p, cmd) ==
  queue' = IF up[p] THEN [queue EXCEPT ![p] = Append(@, cmd)] ELSE queue

Room(p) == Len(queue[p]) < MaxQueue

(* The commands of TaDemoCompilerMessages; of their arguments only the     *)
(* locked-in ids and the identity of a move are kept.                      *)
CommandIds ==
  {"Hello", "Reconnect", "GameInfo", "GamePlayer", "UnitData", "GamePlayerLoading", "Move"}

Command(id) == [id |-> id, players |-> <<>>, move |-> 0]

(* onDplaySuperEnumPlayerReply, onDplayCreateOrForwardPlayer: p hears of d; *)
(* when d is p itself it says Hello.                                       *)
OnDplayCreatePlayer(p, d) ==
  /\ phase[p] = "lobby" /\ d \notin known[p] /\ Room(p)
  /\ known' = [known EXCEPT ![p] = @ \cup {d}]
  /\ IF d = p THEN Send(p, Command("Hello")) ELSE UNCHANGED queue
  /\ UNCHANGED <<up, phase, made, context, game, file, drops>>

(* onTaPacket, PLAYER_INFO_20: the host also sends the game's settings. *)
OnPlayerInfo(p) ==
  /\ phase[p] = "lobby" /\ p \in known[p] /\ Room(p)
  /\ queue' = IF ~up[p] THEN queue
              ELSE [queue EXCEPT ![p] = @ \o
                (IF p = Host THEN <<Command("GameInfo")>> ELSE <<>>)
                  \o <<Command("GamePlayer")>>]
  /\ UNCHANGED <<clientVars, context, game, file, drops>>

(* onTaPacket, UNIT_DATA_1A. *)
OnUnitData(p) ==
  /\ phase[p] = "lobby" /\ p \in known[p] /\ Room(p)
  /\ Send(p, Command("UnitData"))
  /\ UNCHANGED <<clientVars, context, game, file, drops>>

(* The ids of a GamePlayerLoading: the host's first, the others in the     *)
(* order of a QSet.                                                        *)
LockedInOrders(S) == {<<Host>> \o s : s \in SetToSeqs(S \ {Host})}

(* onTaPacket, LOADING_STARTED_08.  Total Annihilation loads when the      *)
(* player is connected to the host.                                        *)
OnLoadingStarted(p) ==
  /\ phase[p] = "lobby" /\ {p, Host} \subseteq known[p] /\ Room(p)
  /\ AllLockIn => known[p] = Player
  /\ \E s \in LockedInOrders(known[p]) :
       Send(p, [Command("GamePlayerLoading") EXCEPT !.players = s])
  /\ phase' = [phase EXCEPT ![p] = "loading"]
  /\ UNCHANGED <<up, known, made, context, game, file, drops>>

(* onTaPacket, LOADING_PROGRESS_2A at 100 or UNIT_STAT_AND_MOVE_2C: from   *)
(* then on m_ticks >= 0 and every packet is sent as a move.                *)
OnMove(p) ==
  /\ phase[p] # "lobby" /\ made[p] < MaxMoves /\ Room(p)
  /\ phase' = [phase EXCEPT ![p] = "playing"]
  /\ made' = [made EXCEPT ![p] = @ + 1]
  /\ Send(p, [Command("Move") EXCEPT !.move = made[p] + 1])
  /\ UNCHANGED <<up, known, context, game, file, drops>>

(* timerEvent connects again, and a client that knows its own id says      *)
(* Reconnect; the server's onNewConnection makes a new context.            *)
Connect(p) ==
  /\ ~up[p]
  /\ up' = [up EXCEPT ![p] = TRUE]
  /\ context' = [context EXCEPT ![p] = NoContext]
  /\ queue' = [queue EXCEPT ![p] =
                 IF p \in known[p] THEN <<Command("Reconnect")>> ELSE <<>>]
  /\ UNCHANGED <<known, phase, made, game, file, drops>>

-----------------------------------------------------------------------------
(* The table's entry of p when the connection of p is closed: the context  *)
(* stays reachable from the game.                                          *)
Detached(p) ==
  IF game # <<>> /\ game[1].players[p] = Live
  THEN [game EXCEPT ![1].players[p] =
          [kind |-> "old", number |-> context[p].number, info |-> context[p].info]]
  ELSE game

(* onSocketStateChanged: the connection of p is gone. *)
Disconnected(p) ==
  /\ up' = [up EXCEPT ![p] = FALSE]
  /\ queue' = [queue EXCEPT ![p] = <<>>]
  /\ context' = [context EXCEPT ![p] = NoContext]
  /\ game' = Detached(p)

Drop(p) ==
  /\ up[p] /\ drops < MaxDrops
  /\ Disconnected(p)
  /\ drops' = drops + 1
  /\ UNCHANGED <<known, phase, made, file>>

(* handleBadConnection, after the command was taken from the stream. *)
HandleBadConnection(p) ==
  IF CloseBadConnections
  THEN Disconnected(p)
  ELSE /\ queue' = [queue EXCEPT ![p] = Tail(@)]
       /\ UNCHANGED <<up, context, game>>

Game == IF game = <<>> THEN NewGame ELSE game[1]

Take(p) ==
  /\ queue' = [queue EXCEPT ![p] = Tail(@)]
  /\ UNCHANGED up

-----------------------------------------------------------------------------
(* onReadyRead, the command at the head of p's stream. *)
Next1(p, id) == queue[p] # <<>> /\ Head(queue[p]).id = id

OnHello(p) ==
  /\ Next1(p, "Hello") /\ Take(p)
  /\ context' = [context EXCEPT ![p].registered = TRUE]
  /\ game' = <<[Game EXCEPT !.players[p] = Live]>>
  /\ UNCHANGED <<known, phase, made, file, drops>>

(* Mutant: the number of the old context is not taken over. *)
ContextWithoutNumber(p) ==
  LET old == Game.players[p] IN
    [registered |-> TRUE, number |-> 0, info |-> old.kind = "old" /\ old.info]

(* What Reconnect takes over from the context the game still has. *)
ReconnectedContext(p) ==
  LET old == Game.players[p] IN
    CASE old.kind = "old"    -> [registered |-> TRUE, number |-> old.number, info |-> old.info]
      [] old.kind = "live"   -> [context[p] EXCEPT !.registered = TRUE]
      [] old.kind = "absent" -> [context[p] EXCEPT !.registered = TRUE]

OnReconnect(p) ==
  /\ Next1(p, "Reconnect") /\ Take(p)
  /\ context' = [context EXCEPT ![p] = ReconnectedContext(p)]
  /\ game' = <<[Game EXCEPT !.players[p] = Live]>>
  /\ UNCHANGED <<known, phase, made, file, drops>>

(* Every other command of a connection that said neither Hello nor         *)
(* Reconnect.                                                              *)
OnUnregistered(p) ==
  /\ queue[p] # <<>> /\ Head(queue[p]).id \notin {"Hello", "Reconnect"}
  /\ ~context[p].registered
  /\ HandleBadConnection(p)
  /\ UNCHANGED <<known, phase, made, file, drops>>

OnGameInfo(p) ==
  /\ Next1(p, "GameInfo") /\ context[p].registered /\ Take(p)
  /\ game' = <<[Game EXCEPT !.gameId = 1, !.countdown = GAME_EXPIRY_TICKS]>>
  /\ UNCHANGED <<known, phase, made, context, file, drops>>

OnGamePlayer(p) ==
  /\ Next1(p, "GamePlayer") /\ context[p].registered
  /\ \/ /\ game = <<>>
        /\ Take(p)
        /\ UNCHANGED <<context, game>>
     \/ /\ game # <<>> /\ Game.players[p] = Absent
        /\ HandleBadConnection(p)
     \/ /\ game # <<>> /\ Game.players[p] # Absent
        /\ Take(p)
        /\ context' = [context EXCEPT ![p].info = TRUE]
        /\ game' = <<[Game EXCEPT !.countdown = GAME_EXPIRY_TICKS]>>
  /\ UNCHANGED <<known, phase, made, file, drops>>

(* The unit data itself goes to the game's UnitDataRepo. *)
OnGameUnitData(p) ==
  /\ Next1(p, "UnitData") /\ context[p].registered /\ Take(p)
  /\ game' = IF game = <<>> THEN game ELSE [game EXCEPT ![1].countdown = GAME_EXPIRY_TICKS]
  /\ UNCHANGED <<known, phase, made, context, file, drops>>

(* commitHeaders: refused unless every locked-in id is known to the game;  *)
(* numbers the locked-in players in the order of the list.                 *)
KnownLockedIn(g, s) == \A i \in DOMAIN s : g.players[s[i]] # Absent

NumberOf(s, p) == CHOOSE i \in DOMAIN s : s[i] = p

Numbered(s, p) == NumberOf(s, p)

(* Mutant: the headers are committed again for everyone who loads. *)
CommitsAlways(s) == game # <<>> /\ KnownLockedIn(game[1], s)

CommitsHeaders(s) == game # <<>> /\ ~game[1].open /\ KnownLockedIn(game[1], s)

(* The file after commitHeaders: the header and a player and a status      *)
(* record per locked-in player, in that order, then the unit data.         *)
Headers(s) == [state |-> "part", lockedIn |-> s, moves |-> <<>>]

OnGamePlayerLoading(p) ==
  /\ Next1(p, "GamePlayerLoading") /\ context[p].registered /\ Take(p)
  /\ LET s == Head(queue[p]).players IN
       IF CommitsHeaders(s)
       THEN /\ file' = Headers(s)
            /\ game' = [game EXCEPT ![1].open = TRUE, ![1].players =
                 [q \in Player |-> IF q \in Range(s) /\ @[q].kind = "old"
                                   THEN [@[q] EXCEPT !.number = Numbered(s, q)]
                                   ELSE @[q]]]
            /\ context' = [q \in Player |->
                 IF q \in Range(s) /\ game[1].players[q] = Live
                 THEN [context[q] EXCEPT !.number = Numbered(s, q)]
                 ELSE context[q]]
       ELSE UNCHANGED <<file, game, context>>
  /\ UNCHANGED <<known, phase, made, drops>>

(* commitMove, when the game is being recorded. *)
CommitMove(p) ==
  [file EXCEPT !.moves = Append(@, [sender |-> context[p].number, by |-> p,
                                    move |-> Head(queue[p]).move])]

OnGameMove(p) ==
  /\ Next1(p, "Move") /\ context[p].registered /\ Take(p)
  /\ IF game # <<>> /\ Game.players[p] # Absent
     THEN /\ game' = [game EXCEPT ![1].countdown = GAME_EXPIRY_TICKS]
          /\ file' = IF Game.open THEN CommitMove(p) ELSE file
       ELSE UNCHANGED <<game, file>>
  /\ UNCHANGED <<known, phase, made, context, drops>>

-----------------------------------------------------------------------------
(* Mutant: a countdown that has run out is not noticed. *)
ExpiresAtZero(g) == g.countdown = 0

Expires(g) == g.countdown <= 1

(* closeExpiredGames.  The game is looked up by its own record of its id,  *)
(* which is 0 until a GameInfo came: then the wrong entry is removed.      *)
CloseExpiredGame ==
  IF game[1].gameId = 0
  THEN /\ game' = [game EXCEPT ![1].countdown = IF @ = 0 THEN 0 ELSE @ - 1]
       /\ UNCHANGED file
  ELSE /\ game' = <<>>
       /\ file' = IF ~game[1].open THEN file
                  ELSE [file EXCEPT !.state =
                          IF Len(file.moves) >= MinMoves THEN "final" ELSE "deleted"]

TimerEvent ==
  /\ game # <<>>
  /\ IF Expires(game[1])
     THEN CloseExpiredGame
     ELSE /\ game' = [game EXCEPT ![1].countdown = @ - 1]
          /\ UNCHANGED file
  /\ UNCHANGED <<clientVars, queue, context, drops>>

OnReadyRead(p) ==
  \/ OnHello(p) \/ OnReconnect(p) \/ OnUnregistered(p) \/ OnGameInfo(p)
  \/ OnGamePlayer(p) \/ OnGameUnitData(p) \/ OnGamePlayerLoading(p)
  \/ OnGameMove(p)

Next ==
  \/ TimerEvent
  \/ \E p \in Player :
       \/ OnReadyRead(p) \/ OnPlayerInfo(p) \/ OnUnitData(p) \/ OnLoadingStarted(p)
       \/ OnMove(p) \/ Connect(p) \/ Drop(p)
       \/ \E d \in Player : OnDplayCreatePlayer(p, d)

Spec == Init /\ [][Next]_vars

(* The server's timer and event loop run. *)
FairSpec ==
  Spec /\ WF_vars(TimerEvent) /\ \A p \in Player : WF_vars(OnReadyRead(p))

-----------------------------------------------------------------------------
TypeOK ==
  /\ up \in [Player -> BOOLEAN]
  /\ known \in [Player -> SUBSET Player]
  /\ phase \in [Player -> {"lobby", "loading", "playing"}]
  /\ made \in [Player -> 0..MaxMoves]
  /\ \A p \in Player : /\ Len(queue[p]) <= MaxQueue + 1
                        /\ \A k \in DOMAIN queue[p] : queue[p][k].id \in CommandIds
  /\ context \in [Player -> [registered : BOOLEAN, number : 0..Cardinality(Player), info : BOOLEAN]]
  /\ Len(game) <= 1
  /\ \A i \in DOMAIN game : /\ game[i].gameId \in {0, 1}
                            /\ game[i].countdown \in 0..GAME_EXPIRY_TICKS
                            /\ game[i].open \in BOOLEAN
  /\ file.state \in {"none", "part", "final", "deleted"}
  /\ drops \in 0..MaxDrops

(* The number of the context that the game's table holds for p. *)
TableNumber(p) ==
  IF game[1].players[p] = Live THEN context[p].number ELSE game[1].players[p].number

(* As long as a demo is recorded, every locked-in player keeps the number  *)
(* the headers gave it, over any number of reconnections before, during    *)
(* and after loading (onReadyRead's Reconnect against commitHeaders).      *)
NumbersStable ==
  (game # <<>> /\ game[1].open) =>
    \A i \in DOMAIN file.lockedIn : TableNumber(file.lockedIn[i]) = i

(* Every move of a locked-in player is recorded under that player's number *)
(* in the headers of the same file (commitMove takes the number from the   *)
(* connection, commitHeaders put it in the game's table).                  *)
MovesAttributed ==
  \A k \in DOMAIN file.moves :
    LET m == file.moves[k] IN
      m.by \in Range(file.lockedIn) => m.sender = NumberOf(file.lockedIn, m.by)

(* What was recorded is not thrown away by a late or repeated              *)
(* GamePlayerLoading: a file in progress only grows (onReadyRead opens the *)
(* file with truncation).                                                  *)
RecordingOnlyGrows ==
  [][(file.state = "part" /\ game # <<>>) => IsPrefix(file.moves, file'.moves)]_vars

(* A recording of a game whose GameInfo arrived is closed in the end, and  *)
(* becomes a final file or is deleted (closeExpiredGames).                 *)
RecordingIsClosed ==
  (file.state = "part" /\ game # <<>> /\ game[1].gameId = 1) ~> file.state \in {"final", "deleted"}

=============================================================================
