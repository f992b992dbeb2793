---------------------------- MODULE GameMonitor2 ----------------------------
(***************************************************************************)
(* GameMonitor2: what one gpgnet4ta concludes from the packets it sees of  *)
(* a game: who plays, in which teams, when the game starts, when it is     *)
(* over and with which result.                                             *)
(*                                                                         *)
(* The packet parser calls one handler at a time, from one thread, so each *)
(* handler is one action.  Every packet may come at any time and in any    *)
(* order: the packets of different players are not ordered, and the ones   *)
(* sent by UDP may be lost.  A call that returns early without a change of *)
(* state is not a step.                                                    *)
(*                                                                         *)
(* Left out: what is only passed on to the event handler (slot, AI flag,   *)
(* real names, chat texts, status notifications) or never read again       *)
(* (cheats flag).  reset() is never called.                                *)
(***************************************************************************)
EXTENDS Integers, FiniteSets

CONSTANTS
  DplayId,               \* DirectPlay player ids
  NameOf,                \* NameOf[d]: the name a player with id d has
  HostPlayerName,
  Side,                  \* sides a player may choose, >= 0
  BattleroomTeam,        \* teams of the battleroom; 5 and above mean none
  Settings,              \* <<map name, unit limit>> pairs of status packets
  UninitialisedMaxUnits, \* values m_maxUnits may hold before it is assigned;
                         \* with 0 the process ends at the first unit that dies
  UnitId,                \* ids of units that die
  GameStartsAfterTickCount,
  DrawGameTicks,
  TickMod,               \* 2^32: ticks are uint32
  TickSource,            \* bound: players whose ticks arrive
  MaxTick,               \* bound: ticks received
  MaxChanges             \* bound: status, chat, alliance and team packets

NoPlayer == 0
NoTeamSelected == 5

ASSUME ConstantsAssumption ==
  /\ DplayId \subseteq Nat \ {NoPlayer}
  /\ IsFiniteSet(DplayId)
  /\ Side \subseteq Nat
  /\ BattleroomTeam \subseteq Nat
  /\ \A s \in Settings : s[2] \in Nat
  /\ UninitialisedMaxUnits \subseteq Nat \ {0}
  /\ UnitId \subseteq Nat
  /\ GameStartsAfterTickCount \in Nat
  /\ DrawGameTicks \in Nat
  /\ TickMod \in Nat \ {0, 1}
  /\ TickSource \subseteq DplayId
  /\ MaxTick \in Nat /\ MaxTick < TickMod
  /\ MaxChanges \in Nat

VARIABLES
  players,         \* m_players, a function on the ids that are known
  frozenPlayers,   \* m_frozenPlayers
  gameLaunched,
  gameStarted,
  hostDplayId,
  settings,        \* <<m_mapName, m_maxUnits>>
  gameResult,      \* m_gameResult
  gameEnded,       \* history: number of calls of onGameEnded
  announced,       \* history: unit limit of the host's last status packet
  changes          \* history: packets counted against MaxChanges

setup == <<hostDplayId, settings, announced>>
result == <<gameResult, gameEnded>>
vars == <<players, frozenPlayers, gameLaunched, gameStarted, setup, result, changes>>

(* Mutant: a player without team selection is on team -1. *)
NewPlayerOnTeam ==
  [side |-> -1, isWatcher |-> FALSE, isDead |-> FALSE, tick |-> 0, allies |-> {},
   battleroomTeamSelection |-> -1, armyNumber |-> 0, teamNumber |-> 0]

NewPlayer ==
  [side |-> -1, isWatcher |-> FALSE, isDead |-> FALSE, tick |-> 0, allies |-> {},
   battleroomTeamSelection |-> NoTeamSelected, armyNumber |-> 0, teamNumber |-> 0]

Init ==
  /\ players = [d \in {} |-> NewPlayer]
  /\ frozenPlayers = [d \in {} |-> NewPlayer]
  /\ gameLaunched = FALSE
  /\ gameStarted = FALSE
  /\ hostDplayId = NoPlayer
  /\ \E m \in UninitialisedMaxUnits : settings = <<"", m>>
  /\ gameResult = [status |-> "NOT_READY", scores |-> [d \in {} |-> 0], endGameTick |-> 0]
  /\ gameEnded = 0
  /\ announced = 0
  /\ changes = 0

-----------------------------------------------------------------------------
(***************************************************************************)
(* Helpers.  ps is a map of players, fz a map of frozen players.           *)
(***************************************************************************)
GetActivePlayers(ps) == {d \in DOMAIN ps : ~ps[d].isDead /\ ~ps[d].isWatcher}

GetMostRecentGameTick(ps) ==
  LET ticks == {0} \cup {ps[d].tick : d \in DOMAIN ps}
  IN  CHOOSE t \in ticks : \A u \in ticks : u <= t

(* Mutant: std::int32_t(t - u) > 0 *)
After(t, u) == (t - u) % TickMod \in 1..(TickMod \div 2 - 1)

(* std::int32_t(t - u) >= 0 *)
NotBefore(t, u) == (t - u) % TickMod < TickMod \div 2

(* map::at throws for an ally that is not in the map; LookupsSucceed says  *)
(* that it always is.                                                      *)
GetMutualAllies(ps, d) == {e \in ps[d].allies \cap DOMAIN ps : d \in ps[e].allies}

(* The players that open a team in updatePlayerArmies: in the order of     *)
(* their ids, those active players whom no earlier one took in.            *)
TeamLeaders(ps) ==
  LET active == GetActivePlayers(ps)
      leads[d \in active] ==
        \A e \in active : (e < d /\ d \in GetMutualAllies(ps, e)) => ~leads[e]
  IN  {d \in active : leads[d]}

(* The place of d in its team's order: the number of leaders up to the     *)
(* first that is d or a mutual ally of d.                                  *)
TeamRank(ps, d) ==
  LET leaders == TeamLeaders(ps)
      takesIn(e) == e = d \/ d \in GetMutualAllies(ps, e)
  IN  Cardinality({e \in leaders :
                     \A f \in leaders : f < e => ~takesIn(f)})

(* Active players get consecutive army numbers from 1 in the order of ids, *)
(* and team numbers from 2; all others get 0.                              *)
UpdatePlayerArmies(ps) ==
  LET active == GetActivePlayers(ps)
  IN  [d \in DOMAIN ps |->
         [ps[d] EXCEPT
            !.armyNumber = IF d \in active THEN Cardinality({e \in active : e <= d}) ELSE 0,
            !.teamNumber = IF d \in active THEN 1 + TeamRank(ps, d) ELSE 0]]

IsPlayersAllAllied(ids, map) ==
  \A d, e \in ids : map[d].teamNumber = map[e].teamNumber

(* checkEndGameCondition: NotEnded stands for the result false, the other  *)
(* values are winningTeamNumber.                                           *)
NotEnded == -2
MutualDraw == -1
ForcedDraw == 0

(* Mutant: the winner is looked up in the current teams. *)
CheckCurrentTeams(started, ps, fz) ==
  LET active == GetActivePlayers(ps)
  IN  IF ~started THEN NotEnded
      ELSE IF active = {} THEN ForcedDraw
      ELSE IF IsPlayersAllAllied(active, ps) THEN ps[CHOOSE d \in active : TRUE].teamNumber
      ELSE NotEnded

CheckEndGameCondition(started, ps, fz) ==
  LET active == GetActivePlayers(ps)
  IN  IF ~started THEN NotEnded
      ELSE IF active = {} THEN ForcedDraw
      ELSE IF IsPlayersAllAllied(active, fz) THEN fz[CHOOSE d \in active : TRUE].teamNumber
      ELSE IF IsPlayersAllAllied(active, ps) THEN MutualDraw
      ELSE NotEnded

LatchEndGameTick(r, tick) ==
  IF r.endGameTick = 0
  THEN [r EXCEPT !.endGameTick = IF tick = 0 THEN 1 ELSE tick]
  ELSE r

(* The frozen players that get a score. *)
Ranked(fz) ==
  {d \in DOMAIN fz : fz[d].armyNumber # 0 /\ fz[d].teamNumber # 0 /\ ~fz[d].isWatcher}

Score(team, winner) ==
  IF winner > 0 THEN (IF team = winner THEN 1 ELSE -1) ELSE 0

(* latchEndGameResult: the first result stays. *)
LatchEndGameResult(r, ps, fz, winner) ==
  IF r.status # "NOT_READY" THEN r
  ELSE [status |-> IF winner >= 0 /\ Ranked(fz) # {} THEN "READY_RESULT" ELSE "VOID_RESULT",
        scores |-> [d \in IF winner >= 0 THEN Ranked(fz) ELSE {} |->
                      Score(fz[d].teamNumber, winner)],
        endGameTick |-> GetMostRecentGameTick(ps)]

(* 1 if that call of latchEndGameResult calls onGameEnded. *)
Reports(r, winner) == IF r.status = "NOT_READY" /\ winner >= 0 THEN 1 ELSE 0

Latch(ps, winner) ==
  /\ gameResult' = LatchEndGameResult(gameResult, ps, frozenPlayers, winner)
  /\ gameEnded' = gameEnded + Reports(gameResult, winner)

-----------------------------------------------------------------------------
(***************************************************************************)
(* Players come and go.                                                    *)
(***************************************************************************)
Change == changes < MaxChanges /\ changes' = changes + 1

(* onDplaySuperEnumPlayerReply and onDplayCreateOrForwardPlayer, which do  *)
(* the same.                                                               *)
OnDplayCreatePlayer(d) ==
  /\ ~gameStarted
  /\ players' = UpdatePlayerArmies(
                  [e \in DOMAIN players \cup {d} |->
                     IF e \in DOMAIN players THEN players[e] ELSE NewPlayer])
  /\ hostDplayId' = IF NameOf[d] = HostPlayerName THEN d ELSE hostDplayId
  /\ UNCHANGED <<frozenPlayers, gameLaunched, gameStarted, settings, announced,
                 result, changes>>

(* Mutant: the others keep d as an ally. *)
WithoutKeepingAllies(ps, d) == [e \in DOMAIN ps \ {d} |-> ps[e]]

(* m_players without d, and without d among the allies of the others. *)
Without(ps, d) ==
  [e \in DOMAIN ps \ {d} |-> [ps[e] EXCEPT !.allies = @ \ {d}]]

LeaveLobby(d) ==
  /\ ~gameStarted
  /\ players' = UpdatePlayerArmies(Without(players, d))
  /\ UNCHANGED result

OnDplayDeletePlayer(d) ==
  LET winner == CheckEndGameCondition(gameStarted, players, frozenPlayers)
  IN  /\ d \in DOMAIN players
      /\ \/ LeaveLobby(d)
         \/ /\ winner # NotEnded
            /\ Latch(players, winner)
            /\ UNCHANGED players
      /\ UNCHANGED <<frozenPlayers, gameLaunched, gameStarted, setup, changes>>

(* Mutant: the end of the game is tested before the player counts as dead. *)
OnRejectOtherTooEarly(d, rejected) ==
  LET ps == [players EXCEPT ![rejected].isDead = TRUE]
      winner == CheckEndGameCondition(gameStarted, players, frozenPlayers)
  IN  /\ d \in DOMAIN players
      /\ rejected \in DOMAIN players
      /\ \/ LeaveLobby(rejected)
         \/ /\ gameStarted
            /\ players' = ps
            /\ IF winner # NotEnded THEN Latch(ps, winner) ELSE UNCHANGED result
      /\ UNCHANGED <<frozenPlayers, gameLaunched, gameStarted, setup, changes>>

(* A player rejects another one: in the lobby that removes the player, in  *)
(* the game it counts as dead.                                             *)
OnRejectOther(d, rejected) ==
  LET ps == [players EXCEPT ![rejected].isDead = TRUE]
      winner == CheckEndGameCondition(gameStarted, ps, frozenPlayers)
  IN  /\ d \in DOMAIN players
      /\ rejected \in DOMAIN players
      /\ \/ LeaveLobby(rejected)
         \/ /\ gameStarted
            /\ players' = ps
            /\ IF winner # NotEnded THEN Latch(ps, winner) ELSE UNCHANGED result
      /\ UNCHANGED <<frozenPlayers, gameLaunched, gameStarted, setup, changes>>

-----------------------------------------------------------------------------
(***************************************************************************)
(* Status, alliances and teams.                                            *)
(***************************************************************************)

(* The host's map and unit limit are taken over when the map changes; a    *)
(* status packet without a map or without a limit sets neither.            *)
OnStatus(d, setting, side, isWatcher) ==
  LET player == [players[d] EXCEPT !.side = side, !.isWatcher = isWatcher]
      fromHost == d = hostDplayId /\ setting[1] # "" /\ setting[2] > 0
  IN  /\ d \in DOMAIN players
      /\ ~gameStarted
      /\ Change
      /\ players' = IF player # players[d]
                    THEN UpdatePlayerArmies([players EXCEPT ![d] = player])
                    ELSE players
      /\ settings' = IF fromHost /\ settings[1] # setting[1]
                     THEN setting ELSE settings
      /\ announced' = IF fromHost THEN setting[2] ELSE announced
      /\ UNCHANGED <<frozenPlayers, gameLaunched, gameStarted, hostDplayId, result>>

(* What follows a change of alliances, ps being the players after it: only *)
(* a mutual draw is latched.                                               *)
AlliancesChanged(ps) ==
  LET new == UpdatePlayerArmies(ps)
  IN  /\ players' = new
      /\ IF CheckEndGameCondition(gameStarted, new, frozenPlayers) = MutualDraw
         THEN Latch(new, MutualDraw) ELSE UNCHANGED result

SetAllied(ps, d, other, isAllied) ==
  [ps EXCEPT ![d].allies = IF isAllied THEN @ \cup {other} ELSE @ \ {other}]

GetPlayerDpidByName(ps, name) ==
  LET ids == {d \in DOMAIN ps : NameOf[d] = name}
  IN  IF ids = {} THEN NoPlayer ELSE CHOOSE d \in ids : \A e \in ids : d <= e

(* onChat of the line the game writes when d allies with the player called *)
(* name or breaks the alliance (updateAlliances).                          *)
OnChat(d, name, isAllied) ==
  LET other == GetPlayerDpidByName(players, name)
  IN  /\ d \in DOMAIN players
      /\ other \notin {NoPlayer, d}
      /\ Change
      /\ AlliancesChanged(SetAllied(players, d, other, isAllied))
      /\ UNCHANGED <<frozenPlayers, gameLaunched, gameStarted, setup>>

OnAlliance(d, other, isAllied) ==
  /\ d \in DOMAIN players
  /\ other \in DOMAIN players
  /\ (other \in players[d].allies) # isAllied
  /\ Change
  /\ AlliancesChanged(SetAllied(players, d, other, isAllied))
  /\ UNCHANGED <<frozenPlayers, gameLaunched, gameStarted, setup>>

(* A team selection sets the alliances between d and every other player,   *)
(* both ways.                                                              *)
SelectTeam(ps, d, team) ==
  LET mates == {e \in DOMAIN ps \ {d} :
                  team < NoTeamSelected /\ ps[e].battleroomTeamSelection = team}
  IN  [e \in DOMAIN ps |->
         IF e = d
         THEN [ps[d] EXCEPT !.battleroomTeamSelection = team,
                            !.allies = mates \cup (@ \cap {d})]
         ELSE [ps[e] EXCEPT !.allies = IF e \in mates THEN @ \cup {d} ELSE @ \ {d}]]

OnTeamSelection(d, team) ==
  LET ps == SelectTeam(players, d, team)
  IN  /\ d \in DOMAIN players
      /\ Change
      /\ IF \E e \in DOMAIN players : ps[e].allies # players[e].allies
         THEN AlliancesChanged(ps)
         ELSE players' = ps /\ UNCHANGED result
      /\ UNCHANGED <<frozenPlayers, gameLaunched, gameStarted, setup>>

-----------------------------------------------------------------------------
(***************************************************************************)
(* Deaths and ticks.                                                       *)
(***************************************************************************)

(* A commander is the first unit of a player's range of unit ids.  A win   *)
(* is deferred by DrawGameTicks, a draw is latched at once.                *)
OnUnitDied(d, unitId) ==
  LET ps == [players EXCEPT ![d].isDead = TRUE]
      winner == CheckEndGameCondition(gameStarted, ps, frozenPlayers)
      deferred == (GetMostRecentGameTick(ps) + DrawGameTicks) % TickMod
  IN  /\ d \in DOMAIN players
      /\ unitId % settings[2] = 1
      /\ players' = ps
      /\ IF winner > 0
         THEN gameResult' = LatchEndGameTick(gameResult, deferred) /\ UNCHANGED gameEnded
         ELSE IF winner # NotEnded THEN Latch(ps, winner) ELSE UNCHANGED result
      /\ UNCHANGED <<frozenPlayers, gameLaunched, gameStarted, setup, changes>>

(* What is read of a frozen player. *)
Freeze(ps) ==
  [d \in DOMAIN ps |-> [isWatcher |-> ps[d].isWatcher, armyNumber |-> ps[d].armyNumber,
                        teamNumber |-> ps[d].teamNumber]]

(* The first tick beyond GameStartsAfterTickCount freezes the teams; a     *)
(* game that is already decided then is a mutual draw.  Any tick latches a *)
(* deferred result that is due.                                            *)
OnGameTick(d, tick) ==
  LET starts == ~gameStarted /\ tick > GameStartsAfterTickCount
      fz == IF starts THEN Freeze(players) ELSE frozenPlayers
      started == gameStarted \/ starts
      winner == CheckEndGameCondition(started, players, fz)
      atStart == IF starts /\ winner # NotEnded
                 THEN LatchEndGameResult(gameResult, players, fz, MutualDraw)
                 ELSE gameResult
      ps == IF tick # players[d].tick /\ NotBefore(tick, players[d].tick)
            THEN [players EXCEPT ![d].tick = tick] ELSE players
      due == /\ atStart.endGameTick > 0
             /\ NotBefore(GetMostRecentGameTick(ps), atStart.endGameTick)
             /\ winner # NotEnded
  IN  /\ d \in DOMAIN players
      /\ gameLaunched' = TRUE
      /\ gameStarted' = started
      /\ frozenPlayers' = fz
      /\ players' = ps
      /\ gameResult' = IF due THEN LatchEndGameResult(atStart, ps, fz, winner) ELSE atStart
      /\ gameEnded' = gameEnded + (IF due THEN Reports(atStart, winner) ELSE 0)
      /\ UNCHANGED <<setup, changes>>

-----------------------------------------------------------------------------
Next ==
  \E d \in DplayId :
    \/ OnDplayCreatePlayer(d)
    \/ OnDplayDeletePlayer(d)
    \/ \E setting \in Settings, side \in Side, isWatcher \in BOOLEAN :
         OnStatus(d, setting, side, isWatcher)
    \/ \E other \in DplayId, isAllied \in BOOLEAN :
         \/ OnAlliance(d, other, isAllied)
         \/ OnChat(d, NameOf[other], isAllied)
    \/ \E team \in BattleroomTeam : OnTeamSelection(d, team)
    \/ \E unitId \in UnitId : OnUnitDied(d, unitId)
    \/ \E rejected \in DplayId : OnRejectOther(d, rejected)
    \/ d \in TickSource /\ \E tick \in 0..MaxTick : OnGameTick(d, tick)

Spec == Init /\ [][Next]_vars

(* As long as a game goes on somebody's ticks arrive, and grow. *)
FairSpec == Spec /\ WF_vars(\E d \in TickSource : OnGameTick(d, MaxTick))

-----------------------------------------------------------------------------
(***************************************************************************)
(* Properties.                                                             *)
(***************************************************************************)
Outcome == CheckEndGameCondition(gameStarted, players, frozenPlayers)
Tick == 0..(TickMod - 1)
Player ==
  [side : Side \cup {-1}, isWatcher : BOOLEAN, isDead : BOOLEAN, tick : Tick,
   allies : SUBSET DplayId, battleroomTeamSelection : BattleroomTeam \cup {NoTeamSelected},
   armyNumber : Nat, teamNumber : Nat]
FrozenPlayer == [isWatcher : BOOLEAN, armyNumber : Nat, teamNumber : Nat]

(* The types of the members of GameMonitor2. *)
TypeOK ==
  /\ DOMAIN players \subseteq DplayId
  /\ players \in [DOMAIN players -> Player]
  /\ DOMAIN frozenPlayers \subseteq DplayId
  /\ frozenPlayers \in [DOMAIN frozenPlayers -> FrozenPlayer]
  /\ gameLaunched \in BOOLEAN /\ gameStarted \in BOOLEAN
  /\ hostDplayId \in DplayId \cup {NoPlayer}
  /\ settings[2] \in Nat \ {0}
  /\ gameResult.status \in {"NOT_READY", "VOID_RESULT", "READY_RESULT"}
  /\ gameResult.endGameTick \in Tick
  /\ gameResult.scores \in [DOMAIN gameResult.scores -> {-1, 0, 1}]
  /\ gameEnded \in Nat /\ announced \in Nat /\ changes \in 0..MaxChanges

(* No map::at of GameMonitor2 throws: getMutualAllies finds every ally in  *)
(* m_players although players leave the lobby at any time, and             *)
(* isPlayersAllAllied finds every active player in m_frozenPlayers.        *)
LookupsSucceed ==
  /\ \A d \in DOMAIN players : players[d].allies \subseteq DOMAIN players
  /\ gameStarted => GetActivePlayers(players) \subseteq DOMAIN frozenPlayers

(* "it should not be possible for a game to become unfinished once it is   *)
(* finished!" (onGameTick): while a win is deferred, whatever deaths,      *)
(* rejections, alliances and deletions arrive, checkEndGameCondition keeps *)
(* finding an end, and it never turns into a mutual draw.                  *)
FinishedStaysFinished ==
  gameResult.status = "NOT_READY" /\ gameResult.endGameTick > 0
    => Outcome \notin {NotEnded, MutualDraw}

(* Every survivor is scored and wins, with its team as frozen at the start *)
(* of the game, and everybody else loses; without survivors all draw.      *)
ScoredBySurvivors(survivors, fz, scores) ==
  /\ survivors \subseteq DOMAIN scores
  /\ \A d \in DOMAIN scores :
       scores[d] = IF survivors = {} THEN 0
                   ELSE IF \E e \in survivors : fz[e].teamNumber = fz[d].teamNumber
                   THEN 1 ELSE -1

(* The step that latches a result scores the players by who is alive after *)
(* it, whichever of the five callers of latchEndGameResult takes it.       *)
ScoresMatchSurvivors ==
  [][gameResult.status = "NOT_READY" /\ gameResult'.status = "READY_RESULT" =>
       ScoredBySurvivors(GetActivePlayers(players'), frozenPlayers', gameResult'.scores)]_vars

(* A deferred win is latched once ticks reach the deferred tick. *)
DeferredResultIsLatched ==
  (gameResult.status = "NOT_READY" /\ gameResult.endGameTick \in 1..MaxTick)
    ~> (gameResult.status # "NOT_READY")

(* latchEndGameResult "fires off m_gameEventHandler->onGameEnded on first  *)
(* call only - ie when result is latched in" (GameMonitor2.h).             *)
EndIsReported == gameResult.status # "NOT_READY" => gameEnded = 1

(* The status packets of the host are the ones "(ie mapname and maxunits)  *)
(* to pay attention to" (GameMonitor2.h): in the game the unit limit that  *)
(* commanders are recognised by is the one the host announced last.        *)
UnitLimitIsTheHosts == gameLaunched /\ announced > 0 => settings[2] = announced
=============================================================================
