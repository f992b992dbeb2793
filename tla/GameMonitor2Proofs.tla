-------------------------- MODULE GameMonitor2Proofs ------------------------
(***************************************************************************)
(* Proofs about GameMonitor2, for every set of players, every bound and    *)
(* every tick.                                                             *)
(***************************************************************************)
EXTENDS GameMonitor2, FiniteSetTheorems, WellFoundedInduction, TLAPS

IsPlayers(ps) == DOMAIN ps \subseteq DplayId /\ ps \in [DOMAIN ps -> Player]

(* Two maps of players that differ in numbers of teams and armies only. *)
SamePlayers(ps, qs) ==
  /\ DOMAIN ps = DOMAIN qs
  /\ \A d \in DOMAIN ps :
       /\ ps[d].isWatcher = qs[d].isWatcher
       /\ ps[d].isDead = qs[d].isDead
       /\ ps[d].allies = qs[d].allies

AlliesKnown(ps) == \A d \in DOMAIN ps : ps[d].allies \subseteq DOMAIN ps

(* Every active player has an army and a team. *)
Numbered(ps) ==
  \A d \in GetActivePlayers(ps) : ps[d].armyNumber > 0 /\ ps[d].teamNumber > 0

(* Decided by death: nobody is left, or the players left were one team     *)
(* when the teams were frozen.                                             *)
Decided(ps, fz) == IsPlayersAllAllied(GetActivePlayers(ps), fz)

(* The frozen players of a game in progress: all who were there, and all   *)
(* who still play have a number to be scored by.                           *)
IsFrozen(ps, fz) ==
  /\ DOMAIN fz = DOMAIN ps
  /\ fz \in [DOMAIN fz -> FrozenPlayer]
  /\ GetActivePlayers(ps) \subseteq Ranked(fz)

(* r is a record with the fields of GameResult. *)
IsResult(r) ==
  r = [status |-> r.status, scores |-> r.scores, endGameTick |-> r.endGameTick]

IInv ==
  /\ IsPlayers(players)
  /\ AlliesKnown(players)
  /\ Numbered(players)
  /\ gameStarted \in BOOLEAN
  /\ IsResult(gameResult)
  /\ gameStarted => IsFrozen(players, frozenPlayers)
  /\ ~gameStarted => gameResult.status = "NOT_READY" /\ gameResult.endGameTick = 0
  /\ (gameResult.status = "NOT_READY" /\ gameResult.endGameTick > 0)
       => Decided(players, frozenPlayers)

-----------------------------------------------------------------------------
(* The leaders of teams are active players. *)
LEMMA LeadersActive ==
  ASSUME NEW ps
  PROVE  TeamLeaders(ps) \subseteq GetActivePlayers(ps)
BY DEF TeamLeaders

(* updatePlayerArmies changes numbers only, and leaves no active player    *)
(* without an army and a team.                                             *)
LEMMA UpdateNumbers ==
  ASSUME NEW ps, IsPlayers(ps)
  PROVE  /\ IsPlayers(UpdatePlayerArmies(ps))
         /\ SamePlayers(UpdatePlayerArmies(ps), ps)
         /\ GetActivePlayers(UpdatePlayerArmies(ps)) = GetActivePlayers(ps)
         /\ Numbered(UpdatePlayerArmies(ps))
<1> DEFINE active == GetActivePlayers(ps)
           army(d) == {e \in active : e <= d}
           new == UpdatePlayerArmies(ps)
<1>1. IsFiniteSet(active)
  BY FS_Subset, ConstantsAssumption DEF IsPlayers, GetActivePlayers
<1>2. ASSUME NEW d \in active
      PROVE  Cardinality(army(d)) \in Nat \ {0}
  <2>1. IsFiniteSet(army(d))
    BY <1>1, FS_Subset
  <2>2. d \in army(d)
    BY ConstantsAssumption DEF IsPlayers, GetActivePlayers
  <2> QED
    BY <2>1, <2>2, FS_CardinalityType, FS_EmptySet
<1>3. ASSUME NEW d \in DOMAIN ps
      PROVE  TeamRank(ps, d) \in Nat
  <2>1. IsFiniteSet(TeamLeaders(ps))
    BY <1>1, LeadersActive, FS_Subset
  <2> QED
    BY <2>1, FS_Subset, FS_CardinalityType DEF TeamRank
<1> DEFINE armyOf(d) == IF d \in active THEN Cardinality(army(d)) ELSE 0
           teamOf(d) == IF d \in active THEN 1 + TeamRank(ps, d) ELSE 0
<1>4. \A d \in DOMAIN ps : armyOf(d) \in Nat /\ teamOf(d) \in Nat
  BY <1>2, <1>3
<1>5. \A d \in active : armyOf(d) > 0 /\ teamOf(d) > 0 /\ d \in DOMAIN ps
  BY <1>2, <1>3 DEF GetActivePlayers
<1>6. new = [d \in DOMAIN ps |-> [ps[d] EXCEPT !.armyNumber = armyOf(d), !.teamNumber = teamOf(d)]]
  BY DEF UpdatePlayerArmies
<1> HIDE DEF new, armyOf, teamOf
<1>7. \A d \in DOMAIN ps : ps[d] \in Player
  BY DEF IsPlayers
<1>8. \A d \in DOMAIN ps :
        /\ new[d] \in Player
        /\ new[d].isWatcher = ps[d].isWatcher
        /\ new[d].isDead = ps[d].isDead
        /\ new[d].allies = ps[d].allies
        /\ new[d].armyNumber = armyOf(d)
        /\ new[d].teamNumber = teamOf(d)
  BY <1>4, <1>6, <1>7 DEF Player
<1>9. DOMAIN new = DOMAIN ps /\ new \in [DOMAIN ps -> Player]
  BY <1>6, <1>8
<1>10. SamePlayers(new, ps) /\ GetActivePlayers(new) = active
  BY <1>8, <1>9 DEF SamePlayers, GetActivePlayers
<1>11. Numbered(new)
  BY <1>5, <1>8, <1>10 DEF Numbered
<1>12. IsPlayers(new)
  BY <1>9 DEF IsPlayers
<1> QED
  BY <1>10, <1>11, <1>12 DEF new

(* What checkEndGameCondition answers once the game has started. *)
LEMMA OutcomeOfGame ==
  ASSUME NEW ps, NEW fz, IsPlayers(ps), IsFrozen(ps, fz)
  PROVE  LET w == CheckEndGameCondition(TRUE, ps, fz)
         IN  /\ w \in Nat \cup {NotEnded, MutualDraw}
             /\ w \in Nat <=> Decided(ps, fz)
             /\ GetActivePlayers(ps) = {} => w = 0
             /\ (w \in Nat /\ GetActivePlayers(ps) # {})
                  => w > 0 /\ \A d \in GetActivePlayers(ps) : fz[d].teamNumber = w
<1> DEFINE active == GetActivePlayers(ps)
           w == CheckEndGameCondition(TRUE, ps, fz)
<1>0. w = IF active = {} THEN 0
          ELSE IF IsPlayersAllAllied(active, fz) THEN fz[CHOOSE d \in active : TRUE].teamNumber
          ELSE IF IsPlayersAllAllied(active, ps) THEN MutualDraw
          ELSE NotEnded
  BY DEF CheckEndGameCondition, ForcedDraw
<1> HIDE DEF w
<1>1. \A d \in active : fz[d].teamNumber \in Nat \ {0}
  BY DEF IsFrozen, Ranked, FrozenPlayer
<1>2. /\ w \in Nat \cup {NotEnded, MutualDraw}
      /\ w \in Nat <=> Decided(ps, fz)
      /\ active = {} => w = 0
      /\ (w \in Nat /\ active # {}) => w > 0 /\ \A d \in active : fz[d].teamNumber = w
  <2>2. CASE active = {}
    BY <1>0, <2>2 DEF Decided, IsPlayersAllAllied
  <2>3. CASE active # {} /\ IsPlayersAllAllied(active, fz)
    <3> DEFINE first == CHOOSE d \in active : TRUE
    <3>1. first \in active
      BY <2>3
    <3>2. w = fz[first].teamNumber
      BY <1>0, <2>3
    <3>3. \A d \in active : fz[d].teamNumber = w
      BY <2>3, <3>1, <3>2 DEF IsPlayersAllAllied
    <3>4. w \in Nat \ {0}
      BY <1>1, <3>1, <3>2
    <3>5. w > 0
      BY <3>4
    <3> QED
      BY <2>3, <3>3, <3>4, <3>5 DEF Decided
  <2>4. CASE active # {} /\ ~IsPlayersAllAllied(active, fz)
    <3>1. w \in {NotEnded, MutualDraw}
      BY <1>0, <2>4
    <3>2. w \notin Nat
      BY <3>1 DEF NotEnded, MutualDraw
    <3> QED
      BY <2>4, <3>1, <3>2 DEF Decided
  <2> QED
    BY <2>2, <2>3, <2>4
<1> QED
  BY <1>2 DEF w

(* A game is never over before it has started. *)
LEMMA NoOutcomeBeforeStart ==
  ASSUME NEW ps, NEW fz
  PROVE  CheckEndGameCondition(FALSE, ps, fz) = NotEnded
BY DEF CheckEndGameCondition

(* latchEndGameResult leaves a result behind. *)
LEMMA LatchIsFinal ==
  ASSUME NEW r, NEW ps, NEW fz, NEW w
  PROVE  LatchEndGameResult(r, ps, fz, w).status # "NOT_READY"
BY DEF LatchEndGameResult

(* w is an outcome, and if it names a winner, the survivors are that team. *)
WinnerOf(ps, fz, w) ==
  /\ w \in Nat \cup {NotEnded, MutualDraw}
  /\ w \in Nat => /\ GetActivePlayers(ps) = {} => w = 0
                  /\ GetActivePlayers(ps) # {}
                       => w > 0 /\ \A d \in GetActivePlayers(ps) : fz[d].teamNumber = w

(* A result latched for the outcome of the game scores the survivors. *)
LEMMA LatchScoresSurvivors ==
  ASSUME NEW r, NEW ps, NEW fz, IsPlayers(ps), IsFrozen(ps, fz),
         NEW w, WinnerOf(ps, fz, w),
         r.status = "NOT_READY",
         LatchEndGameResult(r, ps, fz, w).status = "READY_RESULT"
  PROVE  ScoredBySurvivors(GetActivePlayers(ps), fz, LatchEndGameResult(r, ps, fz, w).scores)
<1> DEFINE active == GetActivePlayers(ps)
           scores == LatchEndGameResult(r, ps, fz, w).scores
<1>1. w \in Nat
  <2>1. w >= 0
    BY DEF LatchEndGameResult
  <2> QED
    BY <2>1 DEF NotEnded, MutualDraw, WinnerOf
<1>2. scores = [d \in Ranked(fz) |-> Score(fz[d].teamNumber, w)]
  BY <1>1 DEF LatchEndGameResult
<1> HIDE DEF scores
<1>3. DOMAIN scores = Ranked(fz) /\ active \subseteq Ranked(fz)
  BY <1>2 DEF IsFrozen
<1>4. ASSUME NEW d \in Ranked(fz)
      PROVE  scores[d] = IF active = {} THEN 0
                         ELSE IF \E e \in active : fz[e].teamNumber = fz[d].teamNumber
                         THEN 1 ELSE -1
  <2>1. scores[d] = IF w > 0 THEN (IF fz[d].teamNumber = w THEN 1 ELSE -1) ELSE 0
    BY <1>2 DEF Score
  <2>2. CASE active = {}
    <3>1. w = 0
      BY <1>1, <2>2 DEF WinnerOf
    <3>2. ~(w > 0)
      BY <3>1
    <3> QED
      BY <2>1, <2>2, <3>2
  <2>3. CASE active # {}
    <3>1. w > 0 /\ \A e \in active : fz[e].teamNumber = w
      BY <1>1, <2>3 DEF WinnerOf
    <3> QED
      BY <2>1, <2>3, <3>1
  <2> QED
    BY <2>2, <2>3
<1> QED
  BY <1>3, <1>4 DEF ScoredBySurvivors, scores

(* The same for the answer of checkEndGameCondition. *)
LEMMA LatchOutcomeScores ==
  ASSUME NEW r, NEW ps, NEW fz, IsPlayers(ps), IsFrozen(ps, fz),
         r.status = "NOT_READY",
         LatchEndGameResult(r, ps, fz, CheckEndGameCondition(TRUE, ps, fz)).status
           = "READY_RESULT"
  PROVE  ScoredBySurvivors(GetActivePlayers(ps), fz,
           LatchEndGameResult(r, ps, fz, CheckEndGameCondition(TRUE, ps, fz)).scores)
<1> DEFINE w == CheckEndGameCondition(TRUE, ps, fz)
<1>1. WinnerOf(ps, fz, w)
  BY OutcomeOfGame DEF WinnerOf
<1>2. LatchEndGameResult(r, ps, fz, w).status = "READY_RESULT"
  OBVIOUS
<1> HIDE DEF w
<1>3. ScoredBySurvivors(GetActivePlayers(ps), fz, LatchEndGameResult(r, ps, fz, w).scores)
  BY <1>1, <1>2, LatchScoresSurvivors
<1> QED
  BY <1>3 DEF w

(* What ScoresMatchSurvivors says of one step. *)
StepScores ==
  gameResult.status = "NOT_READY" /\ gameResult'.status = "READY_RESULT" =>
    ScoredBySurvivors(GetActivePlayers(players'), frozenPlayers', gameResult'.scores)

(* The two ways to write a result leave a GameResult behind. *)
LEMMA ResultShape ==
  ASSUME NEW r, IsResult(r), NEW ps, NEW fz, NEW w, NEW t
  PROVE  /\ IsResult(LatchEndGameResult(r, ps, fz, w))
         /\ IsResult(LatchEndGameTick(r, t))
         /\ LatchEndGameTick(r, t).status = r.status
<1>1. IsResult(LatchEndGameResult(r, ps, fz, w))
  BY DEF LatchEndGameResult, IsResult
<1>2. IsResult(LatchEndGameTick(r, t)) /\ LatchEndGameTick(r, t).status = r.status
  BY DEF LatchEndGameTick, IsResult
<1> QED
  BY <1>1, <1>2

(* A mutual draw gives nobody a score. *)
LEMMA MutualDrawIsVoid ==
  ASSUME NEW r, NEW ps, NEW fz, r.status = "NOT_READY"
  PROVE  LatchEndGameResult(r, ps, fz, MutualDraw).status = "VOID_RESULT"
<1>1. ~(MutualDraw >= 0)
  BY DEF MutualDraw
<1> QED
  BY <1>1 DEF LatchEndGameResult

(* A step in the lobby: any change of the players that keeps them well     *)
(* formed and numbered.                                                    *)
LEMMA LobbyStep ==
  ASSUME IInv, ~gameStarted, UNCHANGED <<gameStarted, gameResult>>,
         IsPlayers(players'), AlliesKnown(players'), Numbered(players')
  PROVE  IInv' /\ StepScores
<1>1. gameResult.status = "NOT_READY" /\ gameResult.endGameTick = 0
  BY DEF IInv
<1>2. IsResult(gameResult')
  BY DEF IInv
<1>3. gameStarted' \in BOOLEAN
  BY DEF IInv
<1>4. ~(gameResult'.endGameTick > 0)
  BY <1>1
<1> QED
  BY <1>1, <1>2, <1>3, <1>4 DEF IInv, StepScores

(* A step of a game in progress: players only die, the frozen teams stay,  *)
(* and the result is left alone, latched for a mutual draw or for the      *)
(* outcome, or deferred when the game is decided.                          *)
LEMMA GameStep ==
  ASSUME IInv, gameStarted, gameStarted', UNCHANGED frozenPlayers,
         IsPlayers(players'), AlliesKnown(players'), Numbered(players'),
         DOMAIN players' = DOMAIN players,
         GetActivePlayers(players') \subseteq GetActivePlayers(players),
         \/ UNCHANGED gameResult
         \/ gameResult' = LatchEndGameResult(gameResult, players', frozenPlayers, MutualDraw)
         \/ gameResult' = LatchEndGameResult(gameResult, players', frozenPlayers,
                            CheckEndGameCondition(TRUE, players', frozenPlayers))
         \/ /\ Decided(players', frozenPlayers)
            /\ \E t : gameResult' = LatchEndGameTick(gameResult, t)
  PROVE  IInv' /\ StepScores
<1>1. IsFrozen(players', frozenPlayers) /\ IsFrozen(players', frozenPlayers')
  BY DEF IInv, IsFrozen
<1>2. Decided(players, frozenPlayers) => Decided(players', frozenPlayers')
  BY DEF Decided, IsPlayersAllAllied
<1>3. IsResult(gameResult)
  BY DEF IInv
<1>4. SUFFICES /\ IsResult(gameResult')
               /\ (gameResult'.status = "NOT_READY" /\ gameResult'.endGameTick > 0)
                     => Decided(players', frozenPlayers')
               /\ StepScores
  BY <1>1 DEF IInv
<1>5. CASE UNCHANGED gameResult
  BY <1>2, <1>3, <1>5 DEF IInv, StepScores
<1>6. CASE gameResult' = LatchEndGameResult(gameResult, players', frozenPlayers, MutualDraw)
  <2>1. IsResult(gameResult') /\ gameResult'.status # "NOT_READY"
    BY <1>3, <1>6, ResultShape, LatchIsFinal
  <2>2. StepScores
    BY <1>6, MutualDrawIsVoid DEF StepScores
  <2> QED
    BY <2>1, <2>2
<1>7. CASE gameResult' = LatchEndGameResult(gameResult, players', frozenPlayers,
                           CheckEndGameCondition(TRUE, players', frozenPlayers))
  <2> DEFINE w == CheckEndGameCondition(TRUE, players', frozenPlayers)
  <2>0. gameResult' = LatchEndGameResult(gameResult, players', frozenPlayers, w)
    BY <1>7
  <2> HIDE DEF w
  <2>1. IsResult(gameResult') /\ gameResult'.status # "NOT_READY"
    BY <1>3, <2>0, ResultShape, LatchIsFinal
  <2>2. StepScores
    BY <1>1, <1>7, LatchOutcomeScores DEF StepScores
  <2> QED
    BY <2>1, <2>2
<1>8. CASE /\ Decided(players', frozenPlayers)
           /\ \E t : gameResult' = LatchEndGameTick(gameResult, t)
  <2>1. PICK t : gameResult' = LatchEndGameTick(gameResult, t)
    BY <1>8
  <2>2. IsResult(gameResult') /\ gameResult'.status = gameResult.status
    BY <1>3, <2>1, ResultShape
  <2>3. Decided(players', frozenPlayers')
    BY <1>8
  <2> QED
    BY <2>2, <2>3 DEF StepScores
<1> QED
  BY <1>5, <1>6, <1>7, <1>8

-----------------------------------------------------------------------------
(* updatePlayerArmies keeps the allies. *)
LEMMA UpdateAllies ==
  ASSUME NEW ps, IsPlayers(ps), AlliesKnown(ps)
  PROVE  AlliesKnown(UpdatePlayerArmies(ps))
BY UpdateNumbers DEF AlliesKnown, SamePlayers

\* A freshly constructed PlayerData is well typed.
LEMMA NewPlayerType == NewPlayer \in Player
<1>1. 0 \in Tick
  BY ConstantsAssumption DEF Tick
<1>2. {} \in SUBSET DplayId
  OBVIOUS
<1> QED
  BY <1>1, <1>2 DEF NewPlayer, Player, NoTeamSelected

\* A player that joins lists no allies, so IInv survives onDplayCreateOrForwardPlayer.
LEMMA CreatePreserves ==
  ASSUME IInv, NEW d \in DplayId, OnDplayCreatePlayer(d)
  PROVE  IInv' /\ StepScores
<1> DEFINE ps == [e \in DOMAIN players \cup {d} |->
                    IF e \in DOMAIN players THEN players[e] ELSE NewPlayer]
<1>1. IsPlayers(ps)
  BY NewPlayerType DEF IInv, IsPlayers
<1>2. AlliesKnown(ps)
  BY DEF IInv, AlliesKnown, NewPlayer
<1>3. players' = UpdatePlayerArmies(ps)
  BY DEF OnDplayCreatePlayer
<1> HIDE DEF ps
<1>4. IsPlayers(players') /\ AlliesKnown(players') /\ Numbered(players')
  BY <1>1, <1>2, <1>3, UpdateNumbers, UpdateAllies
<1> QED
  BY <1>4, LobbyStep DEF OnDplayCreatePlayer, result

\* Erasing a player from m_players and from every allies set keeps the sets closed (LeaveLobby).
LEMMA LeavePreserves ==
  ASSUME IInv, NEW d \in DplayId, LeaveLobby(d), UNCHANGED gameStarted
  PROVE  IInv' /\ StepScores
<1> DEFINE ps == Without(players, d)
<1>1. \A e \in DOMAIN players : players[e] \in Player /\ players[e].allies \subseteq DOMAIN players
  BY DEF IInv, IsPlayers, AlliesKnown
<1>2. DOMAIN ps = DOMAIN players \ {d}
  BY DEF Without
<1>3. \A e \in DOMAIN ps : ps[e] = [players[e] EXCEPT !.allies = players[e].allies \ {d}]
  BY <1>2 DEF Without
<1>4. \A e \in DOMAIN ps : ps[e] \in Player /\ ps[e].allies = players[e].allies \ {d}
  BY <1>1, <1>2, <1>3 DEF Player
<1>5. ps = [e \in DOMAIN ps |-> ps[e]]
  BY DEF Without
<1>6. IsPlayers(ps)
  BY <1>2, <1>4, <1>5 DEF IInv, IsPlayers
<1>7. AlliesKnown(ps)
  BY <1>1, <1>2, <1>4 DEF AlliesKnown
<1>8. players' = UpdatePlayerArmies(ps)
  BY DEF LeaveLobby
<1> HIDE DEF ps
<1>9. IsPlayers(players') /\ AlliesKnown(players') /\ Numbered(players')
  BY <1>6, <1>7, <1>8, UpdateNumbers, UpdateAllies
<1> QED
  BY <1>9, LobbyStep DEF LeaveLobby, result

(* Marking a player as dead. *)
LEMMA DeathKeeps ==
  ASSUME NEW ps, IsPlayers(ps), AlliesKnown(ps), Numbered(ps), NEW d \in DOMAIN ps,
         NEW qs, qs = [ps EXCEPT ![d].isDead = TRUE]
  PROVE  /\ IsPlayers(qs) /\ AlliesKnown(qs) /\ Numbered(qs)
         /\ DOMAIN qs = DOMAIN ps
         /\ GetActivePlayers(qs) \subseteq GetActivePlayers(ps)
<1>1. DOMAIN qs = DOMAIN ps
  OBVIOUS
<1>2. \A e \in DOMAIN ps : ps[e] \in Player
  BY DEF IsPlayers
<1>3. \A e \in DOMAIN ps :
        /\ qs[e] \in Player
        /\ qs[e].allies = ps[e].allies
        /\ qs[e].isWatcher = ps[e].isWatcher
        /\ qs[e].armyNumber = ps[e].armyNumber
        /\ qs[e].teamNumber = ps[e].teamNumber
        /\ ps[e].isDead => qs[e].isDead
  BY <1>2 DEF Player
<1>4. qs = [e \in DOMAIN ps |-> qs[e]]
  OBVIOUS
<1>5. IsPlayers(qs)
  BY <1>1, <1>3, <1>4 DEF IsPlayers
<1>6. AlliesKnown(qs)
  BY <1>1, <1>3 DEF AlliesKnown
<1>7. GetActivePlayers(qs) \subseteq GetActivePlayers(ps)
  BY <1>1, <1>3 DEF GetActivePlayers
<1>8. Numbered(qs)
  BY <1>1, <1>3, <1>7 DEF Numbered, GetActivePlayers
<1> QED
  BY <1>1, <1>5, <1>6, <1>7, <1>8

\* onDplayDeletePlayer preserves IInv: the player leaves the lobby, or the result is latched if the game is decided.
LEMMA DeletePreserves ==
  ASSUME IInv, NEW d \in DplayId, OnDplayDeletePlayer(d)
  PROVE  IInv' /\ StepScores
<1> DEFINE w == CheckEndGameCondition(gameStarted, players, frozenPlayers)
<1>1. CASE LeaveLobby(d)
  BY <1>1, LeavePreserves DEF OnDplayDeletePlayer
<1>2. CASE w # NotEnded /\ Latch(players, w) /\ UNCHANGED players
  <2>1. gameStarted = TRUE
    BY <1>2, NoOutcomeBeforeStart DEF IInv
  <2>2. UNCHANGED <<gameStarted, frozenPlayers, players>>
    BY <1>2 DEF OnDplayDeletePlayer
  <2>3. gameResult' = LatchEndGameResult(gameResult, players', frozenPlayers,
                        CheckEndGameCondition(TRUE, players', frozenPlayers))
    BY <1>2, <2>1, <2>2 DEF Latch
  <2> QED
    BY <2>1, <2>2, <2>3, GameStep DEF IInv
<1> QED
  BY <1>1, <1>2 DEF OnDplayDeletePlayer

\* onRejectOther preserves IInv: the player leaves the lobby, or counts as dead and may decide the game.
LEMMA RejectPreserves ==
  ASSUME IInv, NEW d \in DplayId, NEW rejected \in DplayId, OnRejectOther(d, rejected)
  PROVE  IInv' /\ StepScores
<1> DEFINE ps == [players EXCEPT ![rejected].isDead = TRUE]
           w == CheckEndGameCondition(gameStarted, ps, frozenPlayers)
<1>1. CASE LeaveLobby(rejected)
  BY <1>1, LeavePreserves DEF OnRejectOther
<1>2. CASE /\ gameStarted
           /\ players' = ps
           /\ IF w # NotEnded THEN Latch(ps, w) ELSE UNCHANGED result
  <2>1. gameStarted = TRUE /\ UNCHANGED <<gameStarted, frozenPlayers>>
    BY <1>2 DEF OnRejectOther, IInv
  <2>2. rejected \in DOMAIN players
    BY DEF OnRejectOther
  <2>3. players' = [players EXCEPT ![rejected].isDead = TRUE]
    BY <1>2
  <2>4. /\ IsPlayers(players') /\ AlliesKnown(players') /\ Numbered(players')
        /\ DOMAIN players' = DOMAIN players
        /\ GetActivePlayers(players') \subseteq GetActivePlayers(players)
    BY <2>2, <2>3, DeathKeeps DEF IInv
  <2>5. \/ UNCHANGED gameResult
        \/ gameResult' = LatchEndGameResult(gameResult, players', frozenPlayers,
                           CheckEndGameCondition(TRUE, players', frozenPlayers))
    BY <1>2, <2>1 DEF Latch, result
  <2> QED
    BY <2>1, <2>4, <2>5, GameStep
<1> QED
  BY <1>1, <1>2 DEF OnRejectOther

\* onStatus preserves IInv: it only renumbers armies, and only before the start.
LEMMA StatusPreserves ==
  ASSUME IInv, NEW d \in DplayId, NEW setting, NEW side \in Side, NEW isWatcher \in BOOLEAN,
         OnStatus(d, setting, side, isWatcher)
  PROVE  IInv' /\ StepScores
<1> DEFINE player == [players[d] EXCEPT !.side = side, !.isWatcher = isWatcher]
           ps == [players EXCEPT ![d] = player]
<1>1. d \in DOMAIN players /\ players[d] \in Player
  BY DEF OnStatus, IInv, IsPlayers
<1>2. player \in Player /\ player.allies = players[d].allies
  BY <1>1 DEF Player
<1>3. CASE player # players[d]
  <2>1. players' = UpdatePlayerArmies(ps)
    BY <1>3 DEF OnStatus
  <2> HIDE DEF player
  <2>2. IsPlayers(ps)
    BY <1>2 DEF IInv, IsPlayers
  <2>3. AlliesKnown(ps)
    BY <1>2 DEF IInv, AlliesKnown
  <2> HIDE DEF ps
  <2>4. IsPlayers(players') /\ AlliesKnown(players') /\ Numbered(players')
    BY <2>1, <2>2, <2>3, UpdateNumbers, UpdateAllies
  <2> QED
    BY <2>4, LobbyStep DEF OnStatus, result
<1>4. CASE player = players[d]
  <2>1. players' = players
    BY <1>4 DEF OnStatus
  <2> QED
    BY <2>1, LobbyStep DEF OnStatus, result, IInv
<1> QED
  BY <1>3, <1>4

-----------------------------------------------------------------------------
(* A nonempty set of natural numbers has a smallest element. *)
LEMMA SmallestOf ==
  ASSUME NEW S \in SUBSET Nat, S # {}
  PROVE  \E m \in S : \A k \in S : m <= k
<1> DEFINE R == OpToRel(<, Nat)
<1>1. \A x, y \in Nat : x < y => <<x, y>> \in R
  BY DEF OpToRel
<1>2. IsWellFoundedOn(R, Nat)
  BY NatLessThanWellFounded
<1> HIDE DEF R
<1>3. PICK m \in S : \A k \in S : ~(<<k, m>> \in R)
  BY <1>2, WFMin
<1>4. \A k \in S : ~(k < m)
  BY <1>1, <1>3
<1> QED
  BY <1>4

(* The lookup of a name that somebody has finds a player. *)
LEMMA NameLookup ==
  ASSUME NEW ps, IsPlayers(ps), NEW name, GetPlayerDpidByName(ps, name) # NoPlayer
  PROVE  GetPlayerDpidByName(ps, name) \in DOMAIN ps
<1> DEFINE ids == {d \in DOMAIN ps : NameOf[d] = name}
<1>1. ids # {}
  BY DEF GetPlayerDpidByName
<1>2. ids \in SUBSET Nat
  BY ConstantsAssumption DEF IsPlayers
<1>3. \E m \in ids : \A k \in ids : m <= k
  BY <1>1, <1>2, SmallestOf
<1>4. GetPlayerDpidByName(ps, name) = CHOOSE d \in ids : \A e \in ids : d <= e
  BY <1>1 DEF GetPlayerDpidByName
<1> QED
  BY <1>3, <1>4

\* The common tail of the alliance handlers (renumber, then perhaps latch) preserves IInv.
LEMMA AlliancesPreserve ==
  ASSUME IInv, NEW ps, IsPlayers(ps), AlliesKnown(ps), DOMAIN ps = DOMAIN players,
         GetActivePlayers(ps) = GetActivePlayers(players),
         AlliancesChanged(ps), UNCHANGED <<gameStarted, frozenPlayers>>
  PROVE  IInv' /\ StepScores
<1>1. players' = UpdatePlayerArmies(ps)
  BY DEF AlliancesChanged
<1>2. IsPlayers(players') /\ AlliesKnown(players') /\ Numbered(players')
  BY <1>1, UpdateNumbers, UpdateAllies
<1>3. DOMAIN players' = DOMAIN players /\ GetActivePlayers(players') = GetActivePlayers(players)
  BY <1>1, UpdateNumbers DEF SamePlayers
<1>4. CASE gameStarted
  <2>1. \/ UNCHANGED gameResult
        \/ gameResult' = LatchEndGameResult(gameResult, players', frozenPlayers, MutualDraw)
    BY <1>1 DEF AlliancesChanged, Latch, result
  <2> QED
    BY <1>2, <1>3, <1>4, <2>1, GameStep
<1>5. CASE ~gameStarted
  <2>1. gameStarted = FALSE
    BY <1>5 DEF IInv
  <2>2. CheckEndGameCondition(gameStarted, UpdatePlayerArmies(ps), frozenPlayers) # MutualDraw
    <3>1. NotEnded # MutualDraw
      BY DEF NotEnded, MutualDraw
    <3> QED
      BY <2>1, <3>1 DEF CheckEndGameCondition
  <2>3. UNCHANGED gameResult
    BY <2>2 DEF AlliancesChanged, result
  <2> QED
    BY <1>2, <1>5, <2>3, LobbyStep
<1> QED
  BY <1>4, <1>5

(* Changing the allies of players. *)
LEMMA AlliesOnly ==
  ASSUME NEW ps, IsPlayers(ps), NEW qs, DOMAIN qs = DOMAIN ps,
         qs \in [DOMAIN ps -> Player],
         \A d \in DOMAIN ps : /\ qs[d].isDead = ps[d].isDead
                              /\ qs[d].isWatcher = ps[d].isWatcher
                              /\ qs[d].allies \subseteq DOMAIN ps
  PROVE  /\ IsPlayers(qs) /\ AlliesKnown(qs)
         /\ GetActivePlayers(qs) = GetActivePlayers(ps)
BY DEF IsPlayers, AlliesKnown, GetActivePlayers

\* One changed alliance between known players keeps the allies sets closed and the players well typed.
LEMMA SetAlliedKeeps ==
  ASSUME NEW ps, IsPlayers(ps), AlliesKnown(ps), NEW d \in DOMAIN ps, NEW other \in DOMAIN ps,
         NEW isAllied \in BOOLEAN
  PROVE  /\ IsPlayers(SetAllied(ps, d, other, isAllied))
         /\ AlliesKnown(SetAllied(ps, d, other, isAllied))
         /\ DOMAIN SetAllied(ps, d, other, isAllied) = DOMAIN ps
         /\ GetActivePlayers(SetAllied(ps, d, other, isAllied)) = GetActivePlayers(ps)
<1> DEFINE qs == SetAllied(ps, d, other, isAllied)
<1>1. PICK new : new = IF isAllied THEN ps[d].allies \cup {other} ELSE ps[d].allies \ {other}
  OBVIOUS
<1>2. new \in SUBSET DplayId /\ new \subseteq DOMAIN ps
  BY <1>1 DEF IsPlayers, AlliesKnown
<1>3. qs = [ps EXCEPT ![d].allies = new]
  BY <1>1 DEF SetAllied
<1> HIDE DEF qs
<1>4. \A e \in DOMAIN ps : ps[e] \in Player
  BY DEF IsPlayers
<1>5. DOMAIN qs = DOMAIN ps /\ qs = [e \in DOMAIN ps |-> qs[e]]
  BY <1>3
<1>6. \A e \in DOMAIN ps :
        /\ qs[e] \in Player
        /\ qs[e].isDead = ps[e].isDead
        /\ qs[e].isWatcher = ps[e].isWatcher
        /\ qs[e].allies = IF e = d THEN new ELSE ps[e].allies
  BY <1>2, <1>3, <1>4 DEF Player
<1>7. qs \in [DOMAIN ps -> Player]
  BY <1>5, <1>6
<1>8. \A e \in DOMAIN ps : qs[e].allies \subseteq DOMAIN ps
  BY <1>2, <1>6 DEF AlliesKnown
<1>9. IsPlayers(qs) /\ AlliesKnown(qs) /\ GetActivePlayers(qs) = GetActivePlayers(ps)
  BY <1>5, <1>6, <1>7, <1>8, AlliesOnly
<1> QED
  BY <1>5, <1>9 DEF qs

\* onChat preserves IInv: ".ally" and ".break" name players the monitor knows.
LEMMA ChatPreserves ==
  ASSUME IInv, NEW d \in DplayId, NEW name, NEW isAllied \in BOOLEAN, OnChat(d, name, isAllied)
  PROVE  IInv' /\ StepScores
<1> DEFINE other == GetPlayerDpidByName(players, name)
<1>1. d \in DOMAIN players /\ IsPlayers(players) /\ AlliesKnown(players)
  BY DEF OnChat, IInv
<1>2. other \in DOMAIN players
  BY <1>1, NameLookup DEF OnChat
<1>3. /\ AlliancesChanged(SetAllied(players, d, other, isAllied))
      /\ UNCHANGED <<gameStarted, frozenPlayers>>
  BY DEF OnChat
<1> HIDE DEF other
<1> QED
  BY <1>1, <1>2, <1>3, SetAlliedKeeps, AlliancesPreserve

\* onAlliance preserves IInv.
LEMMA AlliancePreserves ==
  ASSUME IInv, NEW d \in DplayId, NEW other \in DplayId, NEW isAllied \in BOOLEAN,
         OnAlliance(d, other, isAllied)
  PROVE  IInv' /\ StepScores
<1>1. /\ d \in DOMAIN players /\ other \in DOMAIN players
      /\ IsPlayers(players) /\ AlliesKnown(players)
  BY DEF OnAlliance, IInv
<1>2. /\ AlliancesChanged(SetAllied(players, d, other, isAllied))
      /\ UNCHANGED <<gameStarted, frozenPlayers>>
  BY DEF OnAlliance
<1> QED
  BY <1>1, <1>2, SetAlliedKeeps, AlliancesPreserve

\* The loop of onTeamSelection keeps the allies sets closed and the players well typed.
LEMMA SelectTeamKeeps ==
  ASSUME NEW ps, IsPlayers(ps), AlliesKnown(ps), NEW d \in DOMAIN ps, NEW team \in BattleroomTeam
  PROVE  /\ IsPlayers(SelectTeam(ps, d, team))
         /\ AlliesKnown(SelectTeam(ps, d, team))
         /\ DOMAIN SelectTeam(ps, d, team) = DOMAIN ps
         /\ GetActivePlayers(SelectTeam(ps, d, team)) = GetActivePlayers(ps)
         /\ Numbered(ps) => Numbered(SelectTeam(ps, d, team))
<1> DEFINE qs == SelectTeam(ps, d, team)
           mates == {e \in DOMAIN ps \ {d} :
                       team < NoTeamSelected /\ ps[e].battleroomTeamSelection = team}
           new(e) == IF e = d THEN mates \cup (ps[d].allies \cap {d})
                     ELSE IF e \in mates THEN ps[e].allies \cup {d} ELSE ps[e].allies \ {d}
<1>1. \A e \in DOMAIN ps : ps[e] \in Player /\ ps[e].allies \subseteq DOMAIN ps
  BY DEF IsPlayers, AlliesKnown
<1>2. \A e \in DOMAIN ps : new(e) \subseteq DOMAIN ps /\ new(e) \in SUBSET DplayId
  BY <1>1 DEF IsPlayers
<1>3. qs = [e \in DOMAIN ps |->
              IF e = d THEN [ps[d] EXCEPT !.battleroomTeamSelection = team, !.allies = new(d)]
              ELSE [ps[e] EXCEPT !.allies = new(e)]]
  BY DEF SelectTeam
<1> HIDE DEF qs, mates, new
<1>4. ASSUME NEW e \in DOMAIN ps
      PROVE  /\ qs[e] \in Player
             /\ qs[e].isDead = ps[e].isDead
             /\ qs[e].isWatcher = ps[e].isWatcher
             /\ qs[e].armyNumber = ps[e].armyNumber
             /\ qs[e].teamNumber = ps[e].teamNumber
             /\ qs[e].allies = new(e)
  <2>1. ps[e] \in Player
    BY <1>1
  <2>2. PICK allies \in SUBSET DplayId : allies = new(e)
    BY <1>2
  <2>3. CASE e = d
    <3>1. qs[e] = [ps[e] EXCEPT !.battleroomTeamSelection = team, !.allies = allies]
      BY <1>3, <2>2, <2>3
    <3> QED
      BY <2>1, <2>2, <3>1 DEF Player
  <2>4. CASE e # d
    <3>1. qs[e] = [ps[e] EXCEPT !.allies = allies]
      BY <1>3, <2>2, <2>4
    <3> QED
      BY <2>1, <2>2, <3>1 DEF Player
  <2> QED
    BY <2>3, <2>4
<1>5. DOMAIN qs = DOMAIN ps /\ qs \in [DOMAIN ps -> Player]
  BY <1>3, <1>4
<1>6. \A e \in DOMAIN ps : qs[e].allies \subseteq DOMAIN ps
  BY <1>2, <1>4
<1>7. IsPlayers(qs) /\ AlliesKnown(qs) /\ GetActivePlayers(qs) = GetActivePlayers(ps)
  BY <1>4, <1>5, <1>6, AlliesOnly
<1>8. Numbered(ps) => Numbered(qs)
  BY <1>4, <1>7 DEF Numbered, GetActivePlayers
<1> QED
  BY <1>5, <1>7, <1>8 DEF qs

\* onTeamSelection preserves IInv.
LEMMA TeamSelectionPreserves ==
  ASSUME IInv, NEW d \in DplayId, NEW team \in BattleroomTeam, OnTeamSelection(d, team)
  PROVE  IInv' /\ StepScores
<1> DEFINE ps == SelectTeam(players, d, team)
<1>1. /\ d \in DOMAIN players /\ IsPlayers(players) /\ AlliesKnown(players) /\ Numbered(players)
      /\ UNCHANGED <<gameStarted, frozenPlayers>>
  BY DEF OnTeamSelection, IInv
<1>2. /\ IsPlayers(ps) /\ AlliesKnown(ps) /\ Numbered(ps)
      /\ DOMAIN ps = DOMAIN players /\ GetActivePlayers(ps) = GetActivePlayers(players)
  BY <1>1, SelectTeamKeeps
<1>3. AlliancesChanged(ps) \/ (players' = ps /\ UNCHANGED gameResult)
  BY DEF OnTeamSelection, result
<1> HIDE DEF ps
<1>4. CASE AlliancesChanged(ps)
  BY <1>1, <1>2, <1>4, AlliancesPreserve
<1>5. CASE players' = ps /\ UNCHANGED gameResult
  <2>1. /\ IsPlayers(players') /\ AlliesKnown(players') /\ Numbered(players')
        /\ DOMAIN players' = DOMAIN players
        /\ GetActivePlayers(players') \subseteq GetActivePlayers(players)
    BY <1>2, <1>5
  <2> QED
    BY <1>1, <1>5, <2>1, GameStep, LobbyStep
<1> QED
  BY <1>3, <1>4, <1>5

\* onUnitDied preserves IInv: a win is deferred, and a deferred win stays decided.
LEMMA UnitDiedPreserves ==
  ASSUME IInv, NEW d \in DplayId, NEW unitId, OnUnitDied(d, unitId)
  PROVE  IInv' /\ StepScores
<1> DEFINE ps == [players EXCEPT ![d].isDead = TRUE]
           w == CheckEndGameCondition(gameStarted, ps, frozenPlayers)
<1>1. d \in DOMAIN players /\ players' = ps /\ UNCHANGED <<gameStarted, frozenPlayers>>
  BY DEF OnUnitDied
<1>2. /\ IsPlayers(players') /\ AlliesKnown(players') /\ Numbered(players')
      /\ DOMAIN players' = DOMAIN players
      /\ GetActivePlayers(players') \subseteq GetActivePlayers(players)
  BY <1>1, DeathKeeps DEF IInv
<1>3. \/ UNCHANGED gameResult
      \/ w # NotEnded /\ gameResult' = LatchEndGameResult(gameResult, ps, frozenPlayers, w)
      \/ w > 0 /\ \E t : gameResult' = LatchEndGameTick(gameResult, t)
  BY DEF OnUnitDied, Latch, result
<1>4. CASE gameStarted
  <2>1. gameStarted = TRUE
    BY <1>4 DEF IInv
  <2>2. IsFrozen(players', frozenPlayers)
    BY <1>2, <1>4 DEF IInv, IsFrozen
  <2>3. w = CheckEndGameCondition(TRUE, players', frozenPlayers)
    BY <1>1, <2>1
  <2>4. w \in Nat \cup {NotEnded, MutualDraw} /\ (w \in Nat => Decided(players', frozenPlayers))
    BY <1>2, <2>2, <2>3, OutcomeOfGame
  <2>5. w > 0 => Decided(players', frozenPlayers)
    <3> HIDE DEF w
    <3> QED
      BY <2>4 DEF NotEnded, MutualDraw
  <2>6. \/ UNCHANGED gameResult
        \/ gameResult' = LatchEndGameResult(gameResult, players', frozenPlayers,
                           CheckEndGameCondition(TRUE, players', frozenPlayers))
        \/ /\ Decided(players', frozenPlayers)
           /\ \E t : gameResult' = LatchEndGameTick(gameResult, t)
    BY <1>1, <1>3, <2>3, <2>5
  <2>7. gameStarted'
    BY <1>1, <1>4
  <2> QED
    BY <1>1, <1>2, <1>4, <2>6, <2>7, GameStep
<1>5. CASE ~gameStarted
  <2>1. gameStarted = FALSE
    BY <1>5 DEF IInv
  <2>2. w = NotEnded
    BY <2>1, NoOutcomeBeforeStart
  <2>3. ~(w > 0)
    <3> HIDE DEF w
    <3> QED
      BY <2>2 DEF NotEnded
  <2>4. UNCHANGED gameResult
    BY <1>3, <2>2, <2>3
  <2> QED
    BY <1>1, <1>2, <1>5, <2>4, LobbyStep
<1> QED
  BY <1>4, <1>5

(* Setting the tick of a player. *)
LEMMA TickKeeps ==
  ASSUME NEW ps, IsPlayers(ps), AlliesKnown(ps), Numbered(ps), NEW d \in DOMAIN ps,
         NEW tick \in Tick, NEW qs, qs \in {ps, [ps EXCEPT ![d].tick = tick]}
  PROVE  /\ IsPlayers(qs) /\ AlliesKnown(qs) /\ Numbered(qs)
         /\ DOMAIN qs = DOMAIN ps
         /\ GetActivePlayers(qs) = GetActivePlayers(ps)
         /\ \A e \in DOMAIN ps : qs[e].teamNumber = ps[e].teamNumber
<1>1. DOMAIN qs = DOMAIN ps
  OBVIOUS
<1>2. \A e \in DOMAIN ps : ps[e] \in Player
  BY DEF IsPlayers
<1>3. \A e \in DOMAIN ps :
        /\ qs[e] \in Player
        /\ qs[e].allies = ps[e].allies
        /\ qs[e].isWatcher = ps[e].isWatcher
        /\ qs[e].isDead = ps[e].isDead
        /\ qs[e].armyNumber = ps[e].armyNumber
        /\ qs[e].teamNumber = ps[e].teamNumber
        /\ qs[e].battleroomTeamSelection = ps[e].battleroomTeamSelection
  BY <1>2 DEF Player
<1>4. qs \in [DOMAIN ps -> Player]
  <2>1. CASE qs = ps
    BY <2>1 DEF IsPlayers
  <2>2. CASE qs = [ps EXCEPT ![d].tick = tick]
    <3>1. qs = [e \in DOMAIN ps |-> qs[e]]
      BY <2>2
    <3> QED
      BY <1>3, <3>1
  <2> QED
    BY <2>1, <2>2
<1>5. IsPlayers(qs) /\ AlliesKnown(qs) /\ GetActivePlayers(qs) = GetActivePlayers(ps)
  BY <1>1, <1>3, <1>4, AlliesOnly DEF AlliesKnown
<1>6. Numbered(qs)
  BY <1>1, <1>3, <1>5 DEF Numbered, GetActivePlayers
<1> QED
  BY <1>1, <1>3, <1>5, <1>6

(* The outcome depends on who is active and on the teams. *)
LEMMA SameOutcome ==
  ASSUME NEW ps, NEW qs, NEW fz, GetActivePlayers(qs) = GetActivePlayers(ps),
         \A e \in DOMAIN ps : qs[e].teamNumber = ps[e].teamNumber
  PROVE  CheckEndGameCondition(TRUE, qs, fz) = CheckEndGameCondition(TRUE, ps, fz)
<1>1. IsPlayersAllAllied(GetActivePlayers(ps), qs) <=> IsPlayersAllAllied(GetActivePlayers(ps), ps)
  BY DEF IsPlayersAllAllied, GetActivePlayers
<1> QED
  BY <1>1 DEF CheckEndGameCondition

(* The players as frozen at the start of the game. *)
LEMMA FreezeKeeps ==
  ASSUME NEW ps, IsPlayers(ps), Numbered(ps)
  PROVE  IsFrozen(ps, Freeze(ps))
<1> DEFINE fz == Freeze(ps)
<1>1. \A d \in DOMAIN ps : ps[d] \in Player
  BY DEF IsPlayers
<1>2. DOMAIN fz = DOMAIN ps /\ fz \in [DOMAIN fz -> FrozenPlayer]
  BY <1>1 DEF Freeze, FrozenPlayer, Player
<1>3. \A d \in DOMAIN ps : /\ fz[d].isWatcher = ps[d].isWatcher
                           /\ fz[d].armyNumber = ps[d].armyNumber
                           /\ fz[d].teamNumber = ps[d].teamNumber
  BY DEF Freeze
<1>4. GetActivePlayers(ps) \subseteq Ranked(fz)
  BY <1>2, <1>3 DEF Numbered, GetActivePlayers, Ranked
<1> QED
  BY <1>2, <1>4 DEF IsFrozen

\* onGameTick preserves IInv: it freezes the teams, moves a tick forward and latches what was deferred.
LEMMA TickPreserves ==
  ASSUME IInv, NEW d \in DplayId, NEW tick \in 0..MaxTick, OnGameTick(d, tick)
  PROVE  IInv' /\ StepScores
<1>1. tick \in Tick
  BY ConstantsAssumption DEF Tick
<1>2. d \in DOMAIN players /\ players' \in {players, [players EXCEPT ![d].tick = tick]}
  BY DEF OnGameTick
<1>3. /\ IsPlayers(players') /\ AlliesKnown(players') /\ Numbered(players')
      /\ DOMAIN players' = DOMAIN players
      /\ GetActivePlayers(players') = GetActivePlayers(players)
      /\ \A e \in DOMAIN players : players'[e].teamNumber = players[e].teamNumber
  <2>1. IsPlayers(players) /\ AlliesKnown(players) /\ Numbered(players)
    BY DEF IInv
  <2> QED
    BY <1>1, <1>2, <2>1, TickKeeps
<1>4. CASE gameStarted
  <2>1. gameStarted = TRUE /\ gameStarted' /\ UNCHANGED frozenPlayers
    BY <1>4 DEF OnGameTick, IInv
  <2>2. \/ UNCHANGED gameResult
        \/ gameResult' = LatchEndGameResult(gameResult, players', frozenPlayers,
                           CheckEndGameCondition(TRUE, players, frozenPlayers))
    BY <1>4, <2>1 DEF OnGameTick
  <2>3. \/ UNCHANGED gameResult
        \/ gameResult' = LatchEndGameResult(gameResult, players', frozenPlayers,
                           CheckEndGameCondition(TRUE, players', frozenPlayers))
    BY <1>3, <2>2, SameOutcome
  <2> QED
    BY <1>3, <1>4, <2>1, <2>3, GameStep
<1>5. CASE ~gameStarted /\ ~(tick > GameStartsAfterTickCount)
  <2>1. UNCHANGED gameStarted
    BY <1>5 DEF OnGameTick, IInv
  <2>2. gameResult.endGameTick = 0 /\ ~(gameResult.endGameTick > 0)
    BY <1>5 DEF IInv
  <2>3. UNCHANGED gameResult
    BY <1>5, <2>2 DEF OnGameTick
  <2> QED
    BY <1>3, <1>5, <2>1, <2>3, LobbyStep
<1>6. CASE ~gameStarted /\ tick > GameStartsAfterTickCount
  <2>1. gameStarted' = TRUE /\ frozenPlayers' = Freeze(players)
    BY <1>6 DEF OnGameTick
  <2>2. /\ gameResult.endGameTick = 0 /\ ~(gameResult.endGameTick > 0)
        /\ gameResult.status = "NOT_READY" /\ IsResult(gameResult)
    BY <1>6 DEF IInv
  <2>3. IsFrozen(players', frozenPlayers')
    <3>1. IsFrozen(players, Freeze(players))
      BY FreezeKeeps DEF IInv
    <3> QED
      BY <1>3, <2>1, <3>1 DEF IsFrozen
  <2> DEFINE void == LatchEndGameResult(gameResult, players, Freeze(players), MutualDraw)
  <2>4. void.status = "VOID_RESULT" /\ IsResult(void)
    BY <2>2, MutualDrawIsVoid, ResultShape
  <2>5. \A ps, fz, w : LatchEndGameResult(void, ps, fz, w) = void
    BY <2>4 DEF LatchEndGameResult
  <2>6. gameResult' \in {gameResult, void}
    <3> HIDE DEF void
    <3> DEFINE winner == CheckEndGameCondition(gameStarted \/ TRUE, players, Freeze(players))
    <3>1. CASE winner = NotEnded
      BY <1>6, <2>2, <3>1 DEF OnGameTick
    <3>2. CASE winner # NotEnded
      <4>1. \/ gameResult' = LatchEndGameResult(gameResult, players, Freeze(players), MutualDraw)
            \/ gameResult' = LatchEndGameResult(
                               LatchEndGameResult(gameResult, players, Freeze(players), MutualDraw),
                               players', Freeze(players), winner)
        BY <1>6, <3>2 DEF OnGameTick
      <4> QED
        BY <2>5, <4>1 DEF void
    <3> QED
      BY <3>1, <3>2
  <2> HIDE DEF void
  <2>7. /\ IsResult(gameResult')
        /\ gameResult'.status # "READY_RESULT"
        /\ ~(gameResult'.status = "NOT_READY" /\ gameResult'.endGameTick > 0)
    BY <2>2, <2>4, <2>6
  <2> QED
    BY <1>3, <2>1, <2>3, <2>7 DEF IInv, StepScores
<1> QED
  BY <1>4, <1>5, <1>6

-----------------------------------------------------------------------------
\* The constructed monitor satisfies IInv.
LEMMA InitEstablishes == Init => IInv
<1> SUFFICES ASSUME Init PROVE IInv
  OBVIOUS
<1>1. DOMAIN players = {} /\ players = [d \in {} |-> NewPlayer]
  BY DEF Init
<1>2. IsPlayers(players)
  BY <1>1 DEF IsPlayers
<1>3. AlliesKnown(players) /\ Numbered(players)
  BY <1>1 DEF AlliesKnown, Numbered, GetActivePlayers
<1>4. /\ gameStarted = FALSE
      /\ gameResult = [status |-> "NOT_READY", scores |-> [d \in {} |-> 0], endGameTick |-> 0]
  BY DEF Init
<1>5. /\ IsResult(gameResult) /\ gameResult.status = "NOT_READY"
      /\ gameResult.endGameTick = 0 /\ ~(gameResult.endGameTick > 0)
  BY <1>4 DEF IsResult
<1> QED
  BY <1>2, <1>3, <1>4, <1>5 DEF IInv

(* Every step keeps the inductive invariant, and a step that latches a     *)
(* result scores the survivors.                                            *)
LEMMA StepPreserves ==
  ASSUME IInv, [Next]_vars
  PROVE  IInv' /\ StepScores
<1>1. CASE UNCHANGED vars
  BY <1>1 DEF vars, result, IInv, StepScores
<1>2. CASE Next
  <2>1. PICK d \in DplayId :
          \/ OnDplayCreatePlayer(d)
          \/ OnDplayDeletePlayer(d)
          \/ \E setting \in Settings, side \in Side, isWatcher \in BOOLEAN :
               OnStatus(d, setting, side, isWatcher)
          \/ \E other \in DplayId, isAllied \in BOOLEAN :
               \/ OnAlliance(d, other, isAllied)
               \/ OnChat(d, NameOf[other], isAllied)
          \/ \E team \in BattleroomTeam : OnTeamSelection(d, team)
          \/ \E unitId \in UnitId : OnUnitDied(d, unitId)
          \/ \E rejected \in DplayId : OnRejectOther(d, rejected)
          \/ d \in TickSource /\ \E tick \in 0..MaxTick : OnGameTick(d, tick)
    BY <1>2 DEF Next
  <2>2. CASE OnDplayCreatePlayer(d)
    BY <2>2, CreatePreserves
  <2>3. CASE OnDplayDeletePlayer(d)
    BY <2>3, DeletePreserves
  <2>4. CASE \E setting \in Settings, side \in Side, isWatcher \in BOOLEAN :
               OnStatus(d, setting, side, isWatcher)
    BY <2>4, StatusPreserves
  <2>5. CASE \E other \in DplayId, isAllied \in BOOLEAN : OnAlliance(d, other, isAllied)
    BY <2>5, AlliancePreserves
  <2>6. CASE \E other \in DplayId, isAllied \in BOOLEAN : OnChat(d, NameOf[other], isAllied)
    BY <2>6, ChatPreserves
  <2>7. CASE \E team \in BattleroomTeam : OnTeamSelection(d, team)
    BY <2>7, TeamSelectionPreserves
  <2>8. CASE \E unitId \in UnitId : OnUnitDied(d, unitId)
    BY <2>8, UnitDiedPreserves
  <2>9. CASE \E rejected \in DplayId : OnRejectOther(d, rejected)
    BY <2>9, RejectPreserves
  <2>10. CASE \E tick \in 0..MaxTick : OnGameTick(d, tick)
    BY <2>10, TickPreserves
  <2> QED
    BY <2>1, <2>2, <2>3, <2>4, <2>5, <2>6, <2>7, <2>8, <2>9, <2>10
<1> QED
  BY <1>1, <1>2

\* IInv holds in every state the handlers of GameMonitor2 can reach.
THEOREM Invariant == Spec => []IInv
<1>1. IInv /\ [Next]_vars => IInv'
  BY StepPreserves
<1> QED
  BY <1>1, InitEstablishes, PTL DEF Spec

(* No map::at of GameMonitor2 throws, however players come and go. *)
THEOREM NoLookupFails == Spec => []LookupsSucceed
<1>1. IInv => LookupsSucceed
  BY DEF IInv, LookupsSucceed, AlliesKnown, IsFrozen, Ranked
<1> QED
  BY <1>1, Invariant, PTL

(* A game whose end is deferred stays finished until the result is         *)
(* latched: the warning of onGameTick is never logged.                     *)
THEOREM StaysFinished == Spec => []FinishedStaysFinished
<1>1. IInv => FinishedStaysFinished
  <2> SUFFICES ASSUME IInv, gameResult.status = "NOT_READY", gameResult.endGameTick > 0
               PROVE  Outcome \notin {NotEnded, MutualDraw}
    BY DEF FinishedStaysFinished
  <2>1. gameStarted = TRUE
    <3>1. CASE ~gameStarted
      <4>1. gameResult.endGameTick = 0
        BY <3>1 DEF IInv
      <4> QED
        BY <4>1
    <3> QED
      BY <3>1 DEF IInv
  <2> DEFINE w == CheckEndGameCondition(TRUE, players, frozenPlayers)
  <2>2. IsPlayers(players) /\ IsFrozen(players, frozenPlayers) /\ Decided(players, frozenPlayers)
    BY <2>1 DEF IInv
  <2>3. w \in Nat
    BY <2>2, OutcomeOfGame
  <2>4. Outcome = w
    BY <2>1 DEF Outcome
  <2> HIDE DEF w
  <2> QED
    BY <2>3, <2>4 DEF NotEnded, MutualDraw
<1> QED
  BY <1>1, Invariant, PTL

(* Whichever caller latches the result, it scores the survivors.           *)
THEOREM ScoresAreRight == Spec => ScoresMatchSurvivors
<1>1. IInv /\ [Next]_vars =>
        [gameResult.status = "NOT_READY" /\ gameResult'.status = "READY_RESULT" =>
           ScoredBySurvivors(GetActivePlayers(players'), frozenPlayers', gameResult'.scores)]_vars
  BY StepPreserves DEF StepScores
<1> QED
  BY <1>1, Invariant, PTL DEF Spec, ScoresMatchSurvivors

-----------------------------------------------------------------------------
(* The types of the other members. *)

ResultOK(r) ==
  /\ IsResult(r)
  /\ r.status \in {"NOT_READY", "VOID_RESULT", "READY_RESULT"}
  /\ r.endGameTick \in Tick
  /\ r.scores \in [DOMAIN r.scores -> {-1, 0, 1}]

MembersOK ==
  /\ DOMAIN frozenPlayers \subseteq DplayId
  /\ frozenPlayers \in [DOMAIN frozenPlayers -> FrozenPlayer]
  /\ gameLaunched \in BOOLEAN
  /\ hostDplayId \in DplayId \cup {NoPlayer}
  /\ settings[2] \in Nat \ {0}
  /\ ResultOK(gameResult)
  /\ gameEnded \in Nat /\ announced \in Nat /\ changes \in 0..MaxChanges

(* The most recent tick is one of the players' ticks, or 0. *)
LEMMA MostRecentIsTick ==
  ASSUME NEW ps, IsPlayers(ps)
  PROVE  GetMostRecentGameTick(ps) \in Tick
<1> DEFINE ticks == {0} \cup {ps[d].tick : d \in DOMAIN ps}
           below == {TickMod - 1 - t : t \in ticks}
<1>0. TickMod \in Nat /\ TickMod > 1
  BY ConstantsAssumption
<1>1. ticks \subseteq Tick /\ 0 \in ticks
  BY <1>0 DEF IsPlayers, Player, Tick
<1> HIDE DEF ticks
<1>2. below \in SUBSET Nat /\ below # {}
  BY <1>0, <1>1 DEF Tick
<1>3. PICK m \in below : \A k \in below : m <= k
  BY <1>2, SmallestOf
<1>4. PICK t \in ticks : m = TickMod - 1 - t
  BY <1>3
<1>5. \A u \in ticks : u <= t
  BY <1>0, <1>1, <1>3, <1>4 DEF Tick
<1>6. GetMostRecentGameTick(ps) \in ticks
  BY <1>5 DEF GetMostRecentGameTick, ticks
<1> QED
  BY <1>1, <1>6

LEMMA ResultTyped ==
  ASSUME NEW r, ResultOK(r), NEW ps, IsPlayers(ps), NEW fz, NEW w
  PROVE  /\ ResultOK(LatchEndGameResult(r, ps, fz, w))
         /\ Reports(r, w) \in Nat
         /\ \A t \in Tick : ResultOK(LatchEndGameTick(r, t))
<1>1. ResultOK(LatchEndGameResult(r, ps, fz, w))
  <2> DEFINE new == LatchEndGameResult(r, ps, fz, w)
  <2>1. CASE r.status # "NOT_READY"
    BY <2>1 DEF LatchEndGameResult
  <2>2. CASE r.status = "NOT_READY"
    <3>1. /\ IsResult(new) /\ new.status \in {"READY_RESULT", "VOID_RESULT"}
          /\ new.endGameTick = GetMostRecentGameTick(ps)
          /\ new.scores = [d \in IF w >= 0 THEN Ranked(fz) ELSE {} |-> Score(fz[d].teamNumber, w)]
      BY <2>2 DEF LatchEndGameResult, IsResult
    <3>2. \A t : Score(t, w) \in {-1, 0, 1}
      BY DEF Score
    <3> HIDE DEF new
    <3>3. new.scores \in [DOMAIN new.scores -> {-1, 0, 1}]
      BY <3>1, <3>2
    <3> QED
      BY <3>1, <3>3, MostRecentIsTick DEF ResultOK, new
  <2> QED
    BY <2>1, <2>2
<1>2. Reports(r, w) \in Nat
  BY DEF Reports
<1>3. ASSUME NEW t \in Tick PROVE ResultOK(LatchEndGameTick(r, t))
  <2> DEFINE new == LatchEndGameTick(r, t)
  <2>1. 1 \in Tick
    BY ConstantsAssumption DEF Tick
  <2>2. /\ IsResult(new) /\ new.status = r.status /\ new.scores = r.scores
        /\ new.endGameTick \in {r.endGameTick, t, 1}
    BY DEF LatchEndGameTick, ResultOK, IsResult
  <2> HIDE DEF new
  <2>3. new.endGameTick \in Tick
    BY <1>3, <2>1, <2>2 DEF ResultOK
  <2>4. ResultOK(new)
    BY <2>2, <2>3 DEF ResultOK
  <2> QED
    BY <2>4 DEF new
<1> QED
  BY <1>1, <1>2, <1>3

LEMMA LatchTyped ==
  ASSUME MembersOK, NEW ps, IsPlayers(ps), NEW w, Latch(ps, w)
  PROVE  ResultOK(gameResult)' /\ gameEnded' \in Nat
<1> DEFINE new == LatchEndGameResult(gameResult, ps, frozenPlayers, w)
           more == Reports(gameResult, w)
<1>1. ResultOK(new) /\ more \in Nat
  BY ResultTyped DEF MembersOK
<1>2. gameResult' = new /\ gameEnded' = gameEnded + more
  BY DEF Latch
<1> HIDE DEF new, more
<1>3. ResultOK(gameResult')
  BY <1>1, <1>2
<1>4. gameEnded' \in Nat
  BY <1>1, <1>2 DEF MembersOK
<1> QED
  BY <1>3, <1>4 DEF ResultOK, IsResult

(* A handler that leaves all but the players and the result alone. *)
LEMMA OnlyResult ==
  ASSUME MembersOK, UNCHANGED <<frozenPlayers, gameLaunched, setup>>, changes' \in 0..MaxChanges,
         UNCHANGED result \/ (ResultOK(gameResult)' /\ gameEnded' \in Nat)
  PROVE  MembersOK'
<1>1. ResultOK(gameResult)' /\ gameEnded' \in Nat
  <2>1. CASE UNCHANGED result
    BY <2>1 DEF result, MembersOK, ResultOK, IsResult
  <2> QED
    BY <2>1
<1> QED
  BY <1>1 DEF MembersOK, setup

LEMMA MembersKept ==
  ASSUME IInv, IInv', MembersOK, [Next]_vars
  PROVE  MembersOK'
<1>0. IsPlayers(players) /\ IsPlayers(players') /\ changes \in 0..MaxChanges /\ MaxChanges \in Nat
  BY ConstantsAssumption DEF IInv, MembersOK
<1>1. CASE UNCHANGED vars
  BY <1>0, <1>1, OnlyResult DEF vars
<1>2. ASSUME NEW d \in DplayId, OnDplayCreatePlayer(d) PROVE MembersOK'
  <2>1. ResultOK(gameResult)'
    BY <1>2 DEF OnDplayCreatePlayer, result, MembersOK, ResultOK, IsResult
  <2> QED
    BY <1>2, <2>1 DEF OnDplayCreatePlayer, result, MembersOK
<1>3. ASSUME NEW d \in DplayId, OnDplayDeletePlayer(d) PROVE MembersOK'
  <2> DEFINE winner == CheckEndGameCondition(gameStarted, players, frozenPlayers)
  <2>1. UNCHANGED <<frozenPlayers, gameLaunched, setup, changes>>
    BY <1>3 DEF OnDplayDeletePlayer
  <2>2. UNCHANGED result \/ Latch(players, winner)
    BY <1>3 DEF OnDplayDeletePlayer, LeaveLobby
  <2> HIDE DEF winner
  <2> QED
    BY <1>0, <2>1, <2>2, LatchTyped, OnlyResult
<1>4. ASSUME NEW d \in DplayId, NEW rejected \in DplayId, OnRejectOther(d, rejected) PROVE MembersOK'
  <2> DEFINE ps == [players EXCEPT ![rejected].isDead = TRUE]
             winner == CheckEndGameCondition(gameStarted, ps, frozenPlayers)
  <2>1. UNCHANGED <<frozenPlayers, gameLaunched, setup, changes>>
    BY <1>4 DEF OnRejectOther
  <2>2. UNCHANGED result \/ (players' = ps /\ Latch(ps, winner))
    BY <1>4 DEF OnRejectOther, LeaveLobby
  <2> HIDE DEF winner, ps
  <2>3. UNCHANGED result \/ Latch(players', winner)
    BY <2>2
  <2> QED
    BY <1>0, <2>1, <2>2, LatchTyped, OnlyResult
<1>5. ASSUME NEW d \in DplayId, NEW setting \in Settings, NEW side \in Side, NEW isWatcher \in BOOLEAN,
             OnStatus(d, setting, side, isWatcher)
      PROVE  MembersOK'
  <2>1. setting[2] \in Nat
    BY ConstantsAssumption
  <2>2. ResultOK(gameResult)'
    BY <1>5 DEF OnStatus, result, MembersOK, ResultOK, IsResult
  <2>0. Change
    BY <1>5, Zenon DEF OnStatus
  <2>3. changes' \in 0..MaxChanges
    BY <1>0, <2>0 DEF Change
  <2>4. settings' = settings \/ (settings' = setting /\ setting[2] > 0)
    BY <1>5 DEF OnStatus
  <2>5. announced' \in {announced, setting[2]}
    BY <1>5 DEF OnStatus
  <2>6. settings'[2] \in Nat \ {0} /\ announced' \in Nat
    BY <2>1, <2>4, <2>5 DEF MembersOK
  <2> QED
    BY <1>5, <2>2, <2>3, <2>6 DEF OnStatus, result, MembersOK
<1>6. ASSUME NEW ps, AlliancesChanged(ps) PROVE UNCHANGED result \/ (ResultOK(gameResult)' /\ gameEnded' \in Nat)
  <2>1. UNCHANGED result \/ Latch(players', MutualDraw)
    BY <1>6 DEF AlliancesChanged
  <2> QED
    BY <1>0, <2>1, LatchTyped
<1>7. ASSUME NEW d \in DplayId, NEW other \in DplayId, NEW isAllied \in BOOLEAN,
             OnAlliance(d, other, isAllied) \/ OnChat(d, NameOf[other], isAllied)
      PROVE  MembersOK'
  <2>1. UNCHANGED <<frozenPlayers, gameLaunched, setup>> /\ Change
    BY <1>7 DEF OnAlliance, OnChat
  <2>2. \E ps : AlliancesChanged(ps)
    BY <1>7 DEF OnAlliance, OnChat
  <2>3. changes' \in 0..MaxChanges
    BY <1>0, <2>1 DEF Change
  <2> QED
    BY <1>6, <2>1, <2>2, <2>3, OnlyResult
<1>8. ASSUME NEW d \in DplayId, NEW team \in BattleroomTeam, OnTeamSelection(d, team) PROVE MembersOK'
  <2>1. UNCHANGED <<frozenPlayers, gameLaunched, setup>> /\ Change
    BY <1>8 DEF OnTeamSelection
  <2>2. UNCHANGED result \/ \E ps : AlliancesChanged(ps)
    BY <1>8 DEF OnTeamSelection
  <2>3. changes' \in 0..MaxChanges
    BY <1>0, <2>1 DEF Change
  <2> QED
    BY <1>6, <2>1, <2>2, <2>3, OnlyResult
<1>9. ASSUME NEW d \in DplayId, NEW unitId \in UnitId, OnUnitDied(d, unitId) PROVE MembersOK'
  <2> DEFINE ps == [players EXCEPT ![d].isDead = TRUE]
             winner == CheckEndGameCondition(gameStarted, ps, frozenPlayers)
             deferred == (GetMostRecentGameTick(ps) + DrawGameTicks) % TickMod
  <2>1. UNCHANGED <<frozenPlayers, gameLaunched, setup, changes>> /\ players' = ps
    BY <1>9 DEF OnUnitDied
  <2>2. \/ UNCHANGED result
        \/ Latch(ps, winner)
        \/ gameResult' = LatchEndGameTick(gameResult, deferred) /\ UNCHANGED gameEnded
    BY <1>9 DEF OnUnitDied
  <2>3. deferred \in Tick
    <3>1. GetMostRecentGameTick(ps) \in Tick
      BY <1>0, <2>1, MostRecentIsTick
    <3> DEFINE t == GetMostRecentGameTick(ps)
    <3> HIDE DEF t
    <3>2. t \in Nat /\ DrawGameTicks \in Nat /\ TickMod \in Nat /\ TickMod > 0
      BY <3>1, ConstantsAssumption DEF Tick, t
    <3>3. (t + DrawGameTicks) % TickMod \in 0..(TickMod - 1)
      BY <3>2
    <3> QED
      BY <3>3 DEF Tick, t
  <2>4. ResultOK(LatchEndGameTick(gameResult, deferred)) /\ gameEnded \in Nat
    BY <1>0, <2>3, ResultTyped DEF MembersOK
  <2> HIDE DEF ps, winner, deferred
  <2>5. CASE gameResult' = LatchEndGameTick(gameResult, deferred) /\ UNCHANGED gameEnded
    <3>1. ResultOK(gameResult') /\ gameEnded' \in Nat
      BY <2>4, <2>5
    <3>2. ResultOK(gameResult)'
      BY <3>1 DEF ResultOK, IsResult
    <3> QED
      BY <1>0, <2>1, <3>1, <3>2, OnlyResult
  <2>6. CASE UNCHANGED result \/ Latch(ps, winner)
    <3>1. IsPlayers(ps)
      BY <1>0, <2>1
    <3> QED
      BY <1>0, <2>1, <2>6, <3>1, LatchTyped, OnlyResult
  <2> QED
    BY <2>2, <2>5, <2>6
<1>10. ASSUME NEW d \in DplayId, NEW tick \in 0..MaxTick, OnGameTick(d, tick) PROVE MembersOK'
  <2> DEFINE starts == ~gameStarted /\ tick > GameStartsAfterTickCount
             fz == IF starts THEN Freeze(players) ELSE frozenPlayers
             winner == CheckEndGameCondition(gameStarted \/ starts, players, fz)
             atStart == IF starts /\ winner # NotEnded
                        THEN LatchEndGameResult(gameResult, players, fz, MutualDraw)
                        ELSE gameResult
             new == LatchEndGameResult(atStart, players', fz, winner)
             more == Reports(atStart, winner)
  <2>1. gameLaunched' = TRUE /\ UNCHANGED <<setup, changes>> /\ frozenPlayers' = fz
    BY <1>10 DEF OnGameTick
  <2>2. gameResult' \in {atStart, new} /\ gameEnded' \in {gameEnded + more, gameEnded + 0}
    BY <1>10 DEF OnGameTick
  <2>3. DOMAIN fz \subseteq DplayId /\ fz \in [DOMAIN fz -> FrozenPlayer]
    <3>1. IsFrozen(players, Freeze(players))
      BY FreezeKeeps DEF IInv
    <3>2. DOMAIN Freeze(players) \subseteq DplayId /\ Freeze(players) \in [DOMAIN Freeze(players) -> FrozenPlayer]
      BY <1>0, <3>1 DEF IsFrozen, IsPlayers
    <3> HIDE DEF starts
    <3> QED
      BY <3>2 DEF MembersOK
  <2> HIDE DEF starts, fz, winner
  <2>4. ResultOK(atStart)
    BY <1>0, ResultTyped DEF MembersOK
  <2> HIDE DEF atStart
  <2>5. ResultOK(new) /\ more \in Nat
    BY <1>0, <2>4, ResultTyped
  <2> HIDE DEF new, more
  <2>6. ResultOK(gameResult')
    BY <2>2, <2>4, <2>5
  <2>7. ResultOK(gameResult)' /\ gameEnded' \in Nat
    BY <2>2, <2>5, <2>6 DEF MembersOK, ResultOK, IsResult
  <2>8. gameLaunched' \in BOOLEAN
    BY <2>1
  <2> QED
    BY <2>1, <2>3, <2>7, <2>8 DEF MembersOK, setup
<1> QED
  BY <1>1, <1>2, <1>3, <1>4, <1>5, <1>7, <1>8, <1>9, <1>10, Zenon DEF Next

(* Every member of GameMonitor2 keeps its type: the tick to which a result *)
(* is deferred wraps around like the others, the unit limit never becomes  *)
(* the zero that onUnitDied would divide by, and the players of the map    *)
(* and of the frozen map are players that came.                            *)
THEOREM TypesAreKept == Spec => []TypeOK
<1>1. Init => MembersOK
  <2> SUFFICES ASSUME Init PROVE MembersOK
    OBVIOUS
  <2>1. PICK m \in UninitialisedMaxUnits : settings = <<"", m>>
    BY DEF Init
  <2>2. settings[2] \in Nat \ {0}
    BY <2>1, ConstantsAssumption
  <2>3. /\ frozenPlayers = [d \in {} |-> NewPlayer] /\ gameLaunched = FALSE /\ hostDplayId = NoPlayer
        /\ gameResult = [status |-> "NOT_READY", scores |-> [d \in {} |-> 0], endGameTick |-> 0]
        /\ gameEnded = 0 /\ announced = 0 /\ changes = 0
    BY Zenon DEF Init
  <2>4. ResultOK(gameResult)
    BY <2>3, ConstantsAssumption DEF ResultOK, IsResult, Tick
  <2>5. DOMAIN frozenPlayers \subseteq DplayId /\ frozenPlayers \in [DOMAIN frozenPlayers -> FrozenPlayer]
    BY <2>3
  <2>6. gameLaunched \in BOOLEAN /\ hostDplayId \in DplayId \cup {NoPlayer}
    BY <2>3, Zenon
  <2>7. gameEnded \in Nat /\ announced \in Nat /\ changes \in 0..MaxChanges
    BY <2>3, ConstantsAssumption
  <2> QED
    BY <2>2, <2>4, <2>5, <2>6, <2>7, Zenon DEF MembersOK
<1>2. IInv /\ IInv' /\ MembersOK /\ [Next]_vars => MembersOK'
  BY MembersKept
<1>3. IInv /\ MembersOK => TypeOK
  BY DEF IInv, IsPlayers, MembersOK, ResultOK, TypeOK
<1> QED
  BY <1>1, <1>2, <1>3, Invariant, PTL DEF Spec
=============================================================================
