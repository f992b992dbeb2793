------------------------- MODULE ReplayServerProofs -------------------------
(***************************************************************************)
(* The recording side of the replay server for every value of its          *)
(* constants: the fingerprint of the unit data (UnitDataRepo), the         *)
(* compiler that records a game (TaDemoCompiler) and the file between the  *)
(* compiler and a parser (DemoFile).  The live relay of the file is in     *)
(* TaReplayProofs.                                                         *)
(***************************************************************************)
EXTENDS MCReplayServer, NatLemmas, FiniteSetTheorems, SequenceTheorems, TLAPS

-----------------------------------------------------------------------------
(* UnitDataRepo *)

LEMMA UnitsConstants ==
  /\ Packet \subseteq [sub : {0, 2, 3, 9, 1}, id : Nat, status : {"enabled", "disabled"}, crc : Nat]
  /\ Units!Agreed
BY ConstantsAssumption DEF Units!ConstantsOK

(* The packets o was given. *)
Given(o) == Packet \ pending[o]

IsKept(pd) == pd.sub \in {2, 3, 9}

(* A repository holds, for the key of every packet it was given that is    *)
(* kept, one of these packets, and for a status an enabled one if there    *)
(* was any.                                                                *)
RepoOK(repo, given) ==
  /\ DOMAIN repo = {Units!Key(pd) : pd \in {x \in given : IsKept(x)}}
  /\ \A k \in DOMAIN repo : repo[k] \in given /\ Units!Key(repo[k]) = k
  /\ \A pd \in given : (pd.sub = 3 /\ pd.status = "enabled") => repo[Units!Key(pd)].status = "enabled"

UnitsInv ==
  /\ pending \in [Observer -> SUBSET Packet]
  /\ DOMAIN m_unitData = Observer
  /\ \A o \in Observer : RepoOK(m_unitData[o], Given(o))

-----------------------------------------------------------------------------
(* add keeps a repository in order. *)
LEMMA AddKeeps ==
  ASSUME NEW repo, NEW given \in SUBSET Packet, NEW pd \in Packet,
         RepoOK(repo, given)
  PROVE  RepoOK(Units!Add(repo, pd), given \union {pd})
<1> DEFINE new == given \union {pd}
<1>1. pd.sub # 0 /\ pd.sub \in {1, 2, 3, 9}
  BY UnitsConstants DEF Units!Agreed
<1>2. CASE ~IsKept(pd)
  <2>1. Units!Add(repo, pd) = repo
    BY <1>1, <1>2 DEF Units!Add, IsKept
  <2>2. {x \in new : IsKept(x)} = {x \in given : IsKept(x)}
    BY <1>2
  <2>3. pd.sub # 3
    BY <1>2 DEF IsKept
  <2> QED
    BY <2>1, <2>2, <2>3 DEF RepoOK
<1>3. CASE IsKept(pd) /\ pd.sub = 3 /\ Units!Key(pd) \in DOMAIN repo /\ repo[Units!Key(pd)].status = "enabled"
  <2>1. Units!Add(repo, pd) = repo
    BY <1>3 DEF Units!Add, IsKept
  <2>2. {Units!Key(x) : x \in {y \in new : IsKept(y)}} = {Units!Key(x) : x \in {y \in given : IsKept(y)}} \union {Units!Key(pd)}
    BY <1>3
  <2> QED
    BY <1>3, <2>1, <2>2 DEF RepoOK
<1>4. CASE IsKept(pd) /\ ~(pd.sub = 3 /\ Units!Key(pd) \in DOMAIN repo /\ repo[Units!Key(pd)].status = "enabled")
  <2> DEFINE r == Units!With(repo, pd)
  <2>1. Units!Add(repo, pd) = r
    BY <1>4 DEF Units!Add, IsKept
  <2>2. /\ DOMAIN r = DOMAIN repo \union {Units!Key(pd)}
        /\ r[Units!Key(pd)] = pd
        /\ \A k \in DOMAIN repo : k # Units!Key(pd) => r[k] = repo[k]
    BY DEF Units!With
  <2> HIDE DEF r
  <2>3. {Units!Key(x) : x \in {y \in new : IsKept(y)}} = {Units!Key(x) : x \in {y \in given : IsKept(y)}} \union {Units!Key(pd)}
    BY <1>4
  <2>4. DOMAIN r = {Units!Key(x) : x \in {y \in new : IsKept(y)}}
    BY <2>2, <2>3 DEF RepoOK
  <2>5. \A k \in DOMAIN r : r[k] \in new /\ Units!Key(r[k]) = k
    BY <2>2 DEF RepoOK
  <2>6. ASSUME NEW x \in new, x.sub = 3, x.status = "enabled"
        PROVE  r[Units!Key(x)].status = "enabled"
    <3>1. CASE x = pd
      BY <2>2, <2>6, <3>1
    <3>2. CASE x \in given
      <4>1. Units!Key(x) \in DOMAIN repo
        BY <2>6, <3>2 DEF RepoOK, IsKept
      <4>2. repo[Units!Key(x)].status = "enabled"
        BY <2>6, <3>2 DEF RepoOK
      <4>3. Units!Key(x) = Units!Key(pd) => pd.sub = 3
        BY <2>6 DEF Units!Key
      <4>4. Units!Key(x) # Units!Key(pd)
        BY <1>4, <4>1, <4>2, <4>3
      <4> QED
        BY <2>2, <4>1, <4>2, <4>4
    <3> QED
      BY <3>1, <3>2
  <2> QED
    BY <2>1, <2>4, <2>5, <2>6 DEF RepoOK
<1> QED
  BY <1>2, <1>3, <1>4

(* The fingerprint depends on the packets given only. *)
LEMMA HashOfGiven ==
  ASSUME NEW given \in SUBSET Packet, NEW r, NEW s,
         RepoOK(r, given), RepoOK(s, given)
  PROVE  Units!Hash(r) = Units!Hash(s)
<1> DEFINE Enabled(f) == {x \in {k[2] : k \in DOMAIN f} :
                          /\ {<<2, x>>, <<3, x>>} \subseteq DOMAIN f
                          /\ f[<<3, x>>].status = "enabled"
                          /\ x # SY_UNIT_ID}
<1>1. DOMAIN r = DOMAIN s
  BY DEF RepoOK
<1>2. ASSUME NEW f, NEW g, RepoOK(f, given), RepoOK(g, given), NEW x, <<3, x>> \in DOMAIN f,
             f[<<3, x>>].status = "enabled"
      PROVE  g[<<3, x>>].status = "enabled"
  <2>1. f[<<3, x>>] \in given /\ Units!Key(f[<<3, x>>]) = <<3, x>>
    BY <1>2 DEF RepoOK
  <2>2. f[<<3, x>>].sub = 3
    BY <2>1 DEF Units!Key
  <2> QED
    BY <1>2, <2>1, <2>2 DEF RepoOK
<1>3. ASSUME NEW x, <<2, x>> \in DOMAIN r PROVE r[<<2, x>>].crc = s[<<2, x>>].crc
  <2>1. /\ r[<<2, x>>] \in Packet /\ Units!Key(r[<<2, x>>]) = <<2, x>>
        /\ s[<<2, x>>] \in Packet /\ Units!Key(s[<<2, x>>]) = <<2, x>>
    BY <1>1, <1>3 DEF RepoOK
  <2>2. /\ r[<<2, x>>].sub = 2 /\ s[<<2, x>>].sub = 2
        /\ r[<<2, x>>].id = s[<<2, x>>].id
    BY <2>1 DEF Units!Key
  <2> QED
    BY <2>1, <2>2, UnitsConstants DEF Units!Agreed
<1>4. Enabled(r) = Enabled(s)
  <2>1. ASSUME NEW x, <<3, x>> \in DOMAIN r
        PROVE  r[<<3, x>>].status = "enabled" <=> s[<<3, x>>].status = "enabled"
    <3>1. <<3, x>> \in DOMAIN s
      BY <1>1, <2>1
    <3> QED
      BY <1>2, <2>1, <3>1, Zenon
  <2>2. ASSUME NEW x PROVE x \in Enabled(r) <=> x \in Enabled(s)
    <3>1. CASE <<3, x>> \in DOMAIN r
      BY <1>1, <2>1, <3>1
    <3>2. CASE <<3, x>> \notin DOMAIN r
      BY <1>1, <3>2
    <3> QED
      BY <3>1, <3>2
  <2> QED
    BY <2>2
<1>5. \A x \in Enabled(r) : r[<<2, x>>].crc = s[<<2, x>>].crc
  BY <1>3, Zenon
<1>6. /\ Units!Hash(r) = {<<x, r[<<2, x>>].crc>> : x \in Enabled(r)}
      /\ Units!Hash(s) = {<<x, s[<<2, x>>].crc>> : x \in Enabled(s)}
  BY DEF Units!Hash
<1> DEFINE U == Enabled(r)
           A(x) == r[<<2, x>>].crc
           B(x) == s[<<2, x>>].crc
<1>7. /\ Units!Hash(r) = {<<x, A(x)>> : x \in U}
      /\ Units!Hash(s) = {<<x, B(x)>> : x \in U}
      /\ \A x \in U : A(x) = B(x)
  BY <1>4, <1>5, <1>6, Zenon
<1> HIDE DEF U, A, B
<1>8. {<<x, A(x)>> : x \in U} = {<<x, B(x)>> : x \in U}
  BY <1>7
<1> QED
  BY <1>7, <1>8

-----------------------------------------------------------------------------
LEMMA UnitsInit ==
  ASSUME Units!Init
  PROVE  UnitsInv
<1>1. pending \in [Observer -> SUBSET Packet] /\ DOMAIN m_unitData = Observer
  BY DEF Units!Init
<1>2. ASSUME NEW o \in Observer PROVE RepoOK(m_unitData[o], Given(o))
  <2>1. m_unitData[o] = Units!Empty /\ Given(o) = {}
    BY DEF Units!Init, Given
  <2> QED
    BY <2>1 DEF RepoOK, Units!Empty
<1> QED
  BY <1>1, <1>2 DEF UnitsInv

LEMMA UnitsKept ==
  ASSUME UnitsInv, Units!Next
  PROVE  UnitsInv'
<1>1. PICK o \in Observer, pd \in Packet : Units!Receive(o, pd)
  BY DEF Units!Next
<1>2. /\ pd \in pending[o]
      /\ m_unitData' = [m_unitData EXCEPT ![o] = Units!Add(@, pd)]
      /\ pending' = [pending EXCEPT ![o] = @ \ {pd}]
  BY <1>1 DEF Units!Receive
<1>3. pending' \in [Observer -> SUBSET Packet] /\ DOMAIN m_unitData' = Observer
  BY <1>2 DEF UnitsInv
<1>4. m_unitData'[o] = Units!Add(m_unitData[o], pd) /\ Given(o)' = Given(o) \union {pd}
  BY <1>2 DEF UnitsInv, Given
<1>5. RepoOK(m_unitData'[o], Given(o)')
  <2>1. RepoOK(m_unitData[o], Given(o)) /\ Given(o) \in SUBSET Packet
    BY DEF UnitsInv, Given
  <2>2. RepoOK(Units!Add(m_unitData[o], pd), Given(o) \union {pd})
    BY <2>1, AddKeeps
  <2> QED
    BY <1>4, <2>2
<1>6. ASSUME NEW q \in Observer, q # o PROVE RepoOK(m_unitData'[q], Given(q)')
  <2>1. m_unitData'[q] = m_unitData[q] /\ Given(q)' = Given(q)
    BY <1>2, <1>6 DEF UnitsInv, Given
  <2> QED
    BY <2>1 DEF UnitsInv
<1>7. \A q \in Observer : RepoOK(m_unitData'[q], Given(q)')
  BY <1>5, <1>6
<1> QED
  BY <1>3, <1>7 DEF UnitsInv, RepoOK

LEMMA UnitsPartKeeps ==
  ASSUME UnitsInv, [Next]_vars
  PROVE  UnitsInv'
<1>1. CASE Units!Next
  BY <1>1, UnitsKept
<1>2. CASE UNCHANGED unitVars
  BY <1>2 DEF unitVars, UnitsInv, Given, RepoOK
<1> QED
  BY <1>1, <1>2 DEF Next, RelayNext, CompilerNext, DemoNext, UnitsNext, vars

(* Two games played with the same mod have the same unit fingerprint in    *)
(* whatever order the players' packets reach the compiler, for any number  *)
(* of units and players, also when players disagree about which units are  *)
(* enabled (UnitDataRepo::add and hash).                                   *)
THEOREM FingerprintIsTheMods == Spec => []SameFingerprint
<1>1. Init => UnitsInv
  BY UnitsInit DEF Init
<1>2. UnitsInv /\ [Next]_vars => UnitsInv'
  BY UnitsPartKeeps
<1>3. UnitsInv => SameFingerprint
  <2> SUFFICES ASSUME UnitsInv, NEW a \in Observer, NEW b \in Observer, pending[a] = pending[b]
               PROVE  Units!Hash(m_unitData[a]) = Units!Hash(m_unitData[b])
    BY DEF SameFingerprint, Units!SameFingerprint
  <2>1. Given(a) = Given(b) /\ Given(a) \in SUBSET Packet
    BY DEF Given
  <2>2. RepoOK(m_unitData[a], Given(a)) /\ RepoOK(m_unitData[b], Given(a))
    BY <2>1 DEF UnitsInv
  <2> QED
    BY <2>1, <2>2, HashOfGiven
<1> QED
  BY <1>1, <1>2, <1>3, PTL DEF Spec

-----------------------------------------------------------------------------
(* TaDemoCompiler.  The inductive invariant.                               *)

(* The list of a GamePlayerLoading names players, and none of them twice. *)
LockIns ==
  {s \in Seq(Player) : /\ Len(s) <= Record!Cardinality(Player)
                       /\ \A i, j \in 1..Len(s) : s[i] = s[j] => i = j}

Commands == [id : Record!CommandIds, players : LockIns, move : Nat]

Contexts == [registered : BOOLEAN, number : 0..Record!Cardinality(Player), info : BOOLEAN]

OldEntries == [kind : {"old"}, number : 0..Record!Cardinality(Player), info : BOOLEAN]

Entries == {Record!Absent, Record!Live} \union OldEntries

Games == [gameId : {0, 1}, countdown : 0..GAME_EXPIRY_TICKS, players : [Player -> Entries],
          open : BOOLEAN]

Moves == [sender : 0..Record!Cardinality(Player), by : Player, move : Nat]

Files == [state : {"none", "part", "final", "deleted"}, lockedIn : LockIns, moves : Seq(Moves)]

RecordTypes ==
  /\ up \in [Player -> BOOLEAN]
  /\ known \in [Player -> SUBSET Player]
  /\ phase \in [Player -> {"lobby", "loading", "playing"}]
  /\ made \in [Player -> 0..MaxMoves]
  /\ queue \in [Player -> Seq(Commands)]
  /\ \A p \in Player : Len(queue[p]) <= MaxQueue + 1
  /\ context \in [Player -> Contexts]
  /\ entry \in {<<>>} \union {<<g>> : g \in Games}
  /\ file \in Files
  /\ socketDrops \in 0..MaxSocketDrops

(* The number that the table has for p, whether or not it is connected. *)
Number(p) ==
  IF Record!Game.players[p] = Record!Live THEN context[p].number ELSE Record!Game.players[p].number

(* A connection that is down carries nothing and has no context, and the   *)
(* game's table points to none; a registered one is in the table or        *)
(* belongs to a game that was closed.                                      *)
ConnectionsOK ==
  \A p \in Player :
    /\ ~up[p] => queue[p] = <<>> /\ ~context[p].registered
    /\ Record!Game.players[p] = Record!Live => up[p]
    /\ context[p].registered => Record!Game.players[p] \in {Record!Live, Record!Absent}

(* Hello is the first command of a client, and the game knows nothing of   *)
(* the client before; loading starts after it.                             *)
HelloFirst ==
  \A p \in Player :
    /\ phase[p] # "lobby" => p \in known[p]
    /\ p \notin known[p] => queue[p] = <<>> /\ Record!Game.players[p] = Record!Absent
    /\ \A k \in 1..Len(queue[p]) :
         queue[p][k].id = "Hello" => k = 1 /\ Record!Game.players[p] = Record!Absent

(* The file is being written while the game is open, and the locked-in     *)
(* players have the numbers of its headers in the table.                   *)
HeadersOK ==
  /\ file.state = "part" <=> Record!Game.open
  /\ Record!Game.open =>
       \A i \in 1..Len(file.lockedIn) :
         /\ Record!Game.players[file.lockedIn[i]] # Record!Absent
         /\ Number(file.lockedIn[i]) = i

(* A recorded move of a locked-in player has that player's number. *)
MovesOK ==
  \A k \in 1..Len(file.moves) : \A i \in 1..Len(file.lockedIn) :
    file.moves[k].by = file.lockedIn[i] => file.moves[k].sender = i

RecordInv == RecordTypes /\ ConnectionsOK /\ HelloFirst /\ HeadersOK /\ MovesOK

-----------------------------------------------------------------------------
LEMMA RecordConstants ==
  /\ IsFiniteSet(Player) /\ Host \in Player
  /\ GAME_EXPIRY_TICKS \in Nat /\ GAME_EXPIRY_TICKS > 0
  /\ MinMoves \in Nat /\ MaxMoves \in Nat /\ MaxQueue \in Nat /\ MaxSocketDrops \in Nat
<1>1. Record!ConstantsOK
  BY ConstantsAssumption
<1>2. Record!IsFiniteSet(Player) = IsFiniteSet(Player)
  BY DEF Record!IsFiniteSet, IsFiniteSet
<1> QED
  BY <1>1, <1>2 DEF Record!ConstantsOK

LEMMA CountOfPlayers ==
  Record!Cardinality(Player) = Cardinality(Player) /\ Cardinality(Player) \in Nat
<1>1. Record!Cardinality(Player) = Cardinality(Player)
  BY DEF Record!Cardinality, Cardinality
<1> QED
  BY <1>1, RecordConstants, FS_CardinalityType

LEMMA NoEntry ==
  /\ Record!Absent \in Entries /\ Record!Live \in Entries /\ Record!Live # Record!Absent
  /\ Record!NewGame \in Games /\ Record!NewGame.open = FALSE
  /\ \A p \in Player : Record!NewGame.players[p] = Record!Absent
  /\ Record!NoContext \in Contexts
  /\ <<>> \in LockIns
<1>1. Record!Absent \in Entries /\ Record!Live \in Entries
  BY DEF Entries
<1>2. Record!Live # Record!Absent
  BY DEF Record!Live, Record!Absent
<1>3. Record!NewGame \in Games
  BY <1>1, RecordConstants DEF Record!NewGame, Games
<1>4. Record!NewGame.open = FALSE /\ \A p \in Player : Record!NewGame.players[p] = Record!Absent
  BY DEF Record!NewGame
<1>5. Record!NoContext \in Contexts
  BY CountOfPlayers DEF Record!NoContext, Contexts
<1>6. <<>> \in LockIns
  BY CountOfPlayers, EmptySeq DEF LockIns
<1> QED
  BY <1>1, <1>2, <1>3, <1>4, <1>5, <1>6

LEMMA GameType ==
  ASSUME RecordTypes
  PROVE  /\ Record!Game \in Games
         /\ entry = <<>> => Record!Game = Record!NewGame
         /\ entry # <<>> => entry = <<Record!Game>>
<1>1. CASE entry = <<>>
  BY <1>1, NoEntry DEF Record!Game
<1>2. CASE entry # <<>>
  <2>1. PICK g \in Games : entry = <<g>>
    BY <1>2 DEF RecordTypes
  <2>2. entry[1] = g
    BY <2>1
  <2> QED
    BY <1>2, <2>1, <2>2 DEF Record!Game
<1> QED
  BY <1>1, <1>2

LEMMA GameFields ==
  ASSUME NEW g \in Games
  PROVE  /\ g.gameId \in {0, 1} /\ g.countdown \in 0..GAME_EXPIRY_TICKS
         /\ g.players \in [Player -> Entries] /\ g.open \in BOOLEAN
BY DEF Games

(* The game after a step that stores one. *)
LEMMA GameStored ==
  ASSUME NEW g \in Games, entry' = <<g>>
  PROVE  Record!Game' = g /\ entry' \in {<<>>} \union {<<x>> : x \in Games}
BY DEF Record!Game

(* The table and the headers after a step that leaves both as they are for *)
(* all players in the game.                                                *)
LEMMA HeadersStay ==
  ASSUME RecordInv, file' = file, Record!Game.open = Record!Game'.open,
         \A q \in Player : Record!Game.players[q] # Record!Absent =>
           Record!Game'.players[q] # Record!Absent /\ Number(q)' = Number(q)
  PROVE  HeadersOK' /\ MovesOK'
<1>1. MovesOK'
  BY DEF RecordInv, MovesOK
<1>2. \A i \in 1..Len(file.lockedIn) : file.lockedIn[i] \in Player
  BY DEF RecordInv, RecordTypes, Files, LockIns
<1>3. (file'.state = "part") <=> Record!Game'.open
  BY DEF RecordInv, HeadersOK
<1>4. ASSUME Record!Game'.open, NEW i \in 1..Len(file.lockedIn)
      PROVE  /\ Record!Game'.players[file'.lockedIn[i]] # Record!Absent
             /\ Number(file.lockedIn[i])' = i
  <2>1. Record!Game.players[file.lockedIn[i]] # Record!Absent /\ Number(file.lockedIn[i]) = i
    BY <1>4 DEF RecordInv, HeadersOK
  <2> QED
    BY <1>2, <1>4, <2>1
<1> QED
  BY <1>1, <1>3, <1>4 DEF HeadersOK

(* A command is taken off the stream of p. *)
LEMMA TakeKeeps ==
  ASSUME RecordInv, NEW p \in Player, queue[p] # <<>>,
         queue' = [queue EXCEPT ![p] = Tail(@)]
  PROVE  /\ queue' \in [Player -> Seq(Commands)]
         /\ \A q \in Player : Len(queue'[q]) <= MaxQueue + 1
         /\ \A q \in Player : q # p => queue'[q] = queue[q]
         /\ \A k \in 1..Len(queue'[p]) : queue'[p][k].id # "Hello"
         /\ up[p] /\ p \in known[p] /\ Head(queue[p]) = queue[p][1]
         /\ queue[p][1] \in Commands
<1>1. queue \in [Player -> Seq(Commands)] /\ queue[p] \in Seq(Commands) /\ queue'[p] = Tail(queue[p])
  BY DEF RecordInv, RecordTypes
<1>2. /\ Head(queue[p]) = queue[p][1] /\ queue[p][1] \in Commands
      /\ Tail(queue[p]) \in Seq(Commands) /\ Len(Tail(queue[p])) = Len(queue[p]) - 1
      /\ \A k \in 1..Len(Tail(queue[p])) : Tail(queue[p])[k] = queue[p][k + 1]
      /\ Len(queue[p]) \in Nat
  BY <1>1, HeadTailProperties, LenProperties
<1>3. up[p] /\ p \in known[p]
  BY DEF RecordInv, ConnectionsOK, HelloFirst
<1>4. \A k \in 1..Len(queue'[p]) : queue'[p][k].id # "Hello"
  BY <1>1, <1>2 DEF RecordInv, HelloFirst
<1>5. queue' \in [Player -> Seq(Commands)] /\ \A q \in Player : q # p => queue'[q] = queue[q]
  BY <1>1, <1>2
<1>6. \A q \in Player : Len(queue'[q]) <= MaxQueue + 1
  BY <1>1, <1>2, <1>5, RecordConstants DEF RecordInv, RecordTypes
<1> QED
  BY <1>2, <1>3, <1>4, <1>5, <1>6, Zenon

LEMMA RecordInit ==
  ASSUME Record!Init
  PROVE  RecordInv
<1>1. RecordTypes
  <2>1. file = Record!NoFile /\ Record!NoFile \in Files
    BY NoEntry, EmptySeq DEF Record!Init, Record!NoFile, Files
  <2>2. queue \in [Player -> Seq(Commands)] /\ \A p \in Player : Len(queue[p]) <= MaxQueue + 1
    BY EmptySeq, RecordConstants DEF Record!Init
  <2>3. context \in [Player -> Contexts]
    BY NoEntry DEF Record!Init
  <2> QED
    BY <2>1, <2>2, <2>3, RecordConstants DEF Record!Init, RecordTypes
<1>2. Record!Game = Record!NewGame
  BY DEF Record!Init, Record!Game
<1>3. \A p \in Player : Record!Game.players[p] = Record!Absent
  BY <1>2, NoEntry
<1>4. ConnectionsOK
  BY <1>3, NoEntry DEF Record!Init, ConnectionsOK, Record!NoContext
<1>5. HelloFirst
  BY <1>3 DEF Record!Init, HelloFirst
<1>6. HeadersOK
  BY <1>2, NoEntry DEF Record!Init, HeadersOK, Record!NoFile
<1>7. MovesOK
  BY DEF Record!Init, MovesOK, Record!NoFile
<1> QED
  BY <1>1, <1>4, <1>5, <1>6, <1>7 DEF RecordInv

-----------------------------------------------------------------------------
(* What a client does: it may add commands to its stream, and Hello only   *)
(* as the first one.                                                       *)
LEMMA ClientKeeps ==
  ASSUME RecordInv, NEW p \in Player, NEW added \in Seq(Commands),
         UNCHANGED <<up, context, entry, file, socketDrops>>,
         queue' = IF up[p] THEN [queue EXCEPT ![p] = @ \o added] ELSE queue,
         Len(queue[p]) + Len(added) <= MaxQueue + 1,
         known' \in [Player -> SUBSET Player], \A q \in Player : known[q] \subseteq known'[q],
         phase' \in [Player -> {"lobby", "loading", "playing"}],
         \A q \in Player : phase'[q] # "lobby" => q \in known'[q],
         made' \in [Player -> 0..MaxMoves],
         p \in known'[p] \/ added = <<>>,
         \A k \in 1..Len(added) : added[k].id = "Hello" => k = 1 /\ p \notin known[p]
  PROVE  RecordInv'
<1> DEFINE new == queue[p] \o added
<1>1. queue \in [Player -> Seq(Commands)] /\ queue[p] \in Seq(Commands)
  BY DEF RecordInv, RecordTypes
<1>2. /\ new \in Seq(Commands) /\ Len(new) = Len(queue[p]) + Len(added)
      /\ \A k \in 1..Len(new) : new[k] = IF k <= Len(queue[p]) THEN queue[p][k] ELSE added[k - Len(queue[p])]
      /\ Len(added) \in Nat /\ Len(queue[p]) \in Nat
  BY <1>1, ConcatProperties, LenProperties
<1> HIDE DEF new
<1>3. /\ \A q \in Player : q # p => queue'[q] = queue[q]
      /\ up[p] => queue'[p] = new
      /\ ~up[p] => queue'[p] = queue[p]
      /\ queue' \in [Player -> Seq(Commands)]
  BY <1>1, <1>2 DEF new
<1>4. \A q \in Player : Len(queue'[q]) <= MaxQueue + 1
  BY <1>2, <1>3 DEF RecordInv, RecordTypes
<1>5. RecordTypes'
  BY <1>3, <1>4 DEF RecordInv, RecordTypes
<1>6. Record!Game' = Record!Game
  BY DEF Record!Game
<1>7. ConnectionsOK'
  <2>1. \A q \in Player : ~up[q] => queue'[q] = queue[q]
    BY <1>3
  <2> QED
    BY <1>6, <2>1 DEF RecordInv, ConnectionsOK
<1>8. HelloFirst'
  <2>0. \A q \in Player : phase'[q] # "lobby" => q \in known'[q]
    OBVIOUS
  <2>1. ASSUME NEW q \in Player, q \notin known'[q]
        PROVE  queue'[q] = <<>> /\ Record!Game'.players[q] = Record!Absent
    <3>1. q \notin known[q] /\ queue[q] = <<>> /\ Record!Game.players[q] = Record!Absent
      BY <2>1 DEF RecordInv, HelloFirst
    <3>2. CASE q # p
      BY <1>3, <1>6, <3>1, <3>2
    <3>3. CASE q = p
      <4>1. Len(added) = 0 /\ Len(queue[p]) = 0
        BY <2>1, <3>1, <3>3
      <4>2. Len(new) = 0
        BY <1>2, <4>1
      <4>3. new = <<>>
        BY <1>2, <4>2, EmptySeq
      <4> QED
        BY <1>3, <1>6, <3>1, <3>3, <4>3
    <3> QED
      BY <3>2, <3>3
  <2>2. ASSUME NEW q \in Player, NEW k \in 1..Len(queue'[q]), queue'[q][k].id = "Hello"
        PROVE  k = 1 /\ Record!Game'.players[q] = Record!Absent
    <3>1. CASE queue'[q] = queue[q]
      BY <1>6, <2>2, <3>1 DEF RecordInv, HelloFirst
    <3>2. CASE q = p /\ up[p]
      <4>1. CASE k <= Len(queue[p])
        <5>1. k \in 1..Len(queue[p]) /\ queue[p][k].id = "Hello"
          BY <1>2, <1>3, <2>2, <3>2, <4>1
        <5> QED
          BY <1>6, <3>2, <5>1 DEF RecordInv, HelloFirst
      <4>2. CASE ~(k <= Len(queue[p]))
        <5>1. k - Len(queue[p]) \in 1..Len(added) /\ added[k - Len(queue[p])].id = "Hello"
          BY <1>2, <1>3, <2>2, <3>2, <4>2
        <5>2. k - Len(queue[p]) = 1 /\ p \notin known[p]
          BY <5>1, Zenon
        <5>3. queue[p] = <<>> /\ Record!Game.players[p] = Record!Absent
          BY <5>2 DEF RecordInv, HelloFirst
        <5>4. Len(queue[p]) = 0
          BY <5>3
        <5> QED
          BY <1>6, <3>2, <5>2, <5>3, <5>4
      <4> QED
        BY <4>1, <4>2
    <3> QED
      BY <1>3, <3>1, <3>2
  <2> QED
    BY <2>0, <2>1, <2>2 DEF HelloFirst
<1>9. HeadersOK' /\ MovesOK'
  BY <1>6, HeadersStay DEF Number
<1> QED
  BY <1>5, <1>7, <1>8, <1>9 DEF RecordInv

(* A command without a list of players. *)
LEMMA PlainCommand ==
  ASSUME NEW id \in Record!CommandIds
  PROVE  Record!Command(id) \in Commands /\ Record!Command(id).id = id
BY NoEntry DEF Record!Command, Commands

(* One command sent as a sequence of commands. *)
LEMMA SendOne ==
  ASSUME RecordInv, NEW p \in Player, NEW cmd \in Commands, Record!Room(p)
  PROVE  /\ <<cmd>> \in Seq(Commands) /\ Len(<<cmd>>) = 1 /\ <<cmd>>[1] = cmd
         /\ Append(queue[p], cmd) = queue[p] \o <<cmd>>
         /\ Len(queue[p]) + Len(<<cmd>>) <= MaxQueue + 1
<1>1. queue[p] \in Seq(Commands) /\ Len(queue[p]) \in Nat
  BY LenProperties DEF RecordInv, RecordTypes
<1> QED
  BY <1>1, RecordConstants DEF Record!Room

LEMMA ClientStepKeeps ==
  ASSUME RecordInv, NEW p \in Player,
         \/ Record!OnPlayerInfo(p) \/ Record!OnUnitData(p) \/ Record!OnMove(p)
         \/ \E d \in Player : Record!OnDplayCreatePlayer(p, d)
  PROVE  RecordInv'
<1> USE RecordConstants
<1>0. /\ known \in [Player -> SUBSET Player] /\ phase \in [Player -> {"lobby", "loading", "playing"}]
      /\ made \in [Player -> 0..MaxMoves]
      /\ queue \in [Player -> Seq(Commands)] /\ Len(queue[p]) \in Nat
      /\ queue[p] \in Seq(Commands) /\ Len(queue[p]) <= MaxQueue + 1
      /\ \A q \in Player : phase[q] # "lobby" => q \in known[q]
  BY LenProperties DEF RecordInv, RecordTypes, HelloFirst
<1>1. CASE Record!OnPlayerInfo(p)
  <2> DEFINE added == (IF p = Host THEN <<Record!Command("GameInfo")>> ELSE <<>>) \o <<Record!Command("GamePlayer")>>
  <2>1. /\ Record!Command("GameInfo") \in Commands /\ Record!Command("GameInfo").id = "GameInfo"
        /\ Record!Command("GamePlayer") \in Commands /\ Record!Command("GamePlayer").id = "GamePlayer"
    BY PlainCommand DEF Record!CommandIds
  <2>2. /\ added \in Seq(Commands) /\ Len(added) <= 2 /\ Len(added) \in Nat
        /\ \A k \in 1..Len(added) : added[k].id # "Hello"
    <3>1. CASE p = Host
      <4> DEFINE a == Record!Command("GameInfo")
                 b == Record!Command("GamePlayer")
      <4>1. added = <<a>> \o <<b>> /\ a \in Commands /\ b \in Commands /\ a.id # "Hello" /\ b.id # "Hello"
        BY <2>1, <3>1
      <4> HIDE DEF a, b, added
      <4>2. /\ <<a>> \in Seq(Commands) /\ <<b>> \in Seq(Commands) /\ Len(<<a>>) = 1 /\ Len(<<b>>) = 1
            /\ <<a>>[1] = a /\ <<b>>[1] = b
        BY <4>1
      <4>3. /\ <<a>> \o <<b>> \in Seq(Commands) /\ Len(<<a>> \o <<b>>) = 2
            /\ (<<a>> \o <<b>>)[1] = a /\ (<<a>> \o <<b>>)[2] = b
        BY <4>2, ConcatProperties
      <4> QED
        BY <4>1, <4>3
    <3>2. CASE p # Host
      <4>1. added = <<Record!Command("GamePlayer")>>
        BY <3>2
      <4> QED
        BY <2>1, <4>1
    <3> QED
      BY <3>1, <3>2
  <2>3. /\ Record!Room(p) /\ p \in known[p] /\ UNCHANGED <<up, known, phase, made, context, entry, file, socketDrops>>
    BY <1>1 DEF Record!OnPlayerInfo, Record!clientVars
  <2>5. queue' = IF up[p] THEN [queue EXCEPT ![p] = @ \o added] ELSE queue
    <3> DEFINE first == IF p = Host THEN <<Record!Command("GameInfo")>> ELSE <<>>
               last == <<Record!Command("GamePlayer")>>
    <3>1. queue' = IF ~up[p] THEN queue ELSE [queue EXCEPT ![p] = (@ \o first) \o last]
      BY <1>1, Zenon DEF Record!OnPlayerInfo
    <3>2. first \in Seq(Commands) /\ last \in Seq(Commands) /\ added = first \o last
      BY <2>1
    <3> HIDE DEF first, last, added
    <3>3. (queue[p] \o first) \o last = queue[p] \o (first \o last)
      <4> DEFINE q == queue[p]
      <4>1. q \in Seq(Commands)
        BY <1>0
      <4> HIDE DEF q
      <4>2. (q \o first) \o last = q \o (first \o last)
        BY ONLY <3>2, <4>1, ConcatAssociative
      <4> QED
        BY <4>2 DEF q
    <3> QED
      BY <1>0, <3>1, <3>2, <3>3, Zenon
  <2> HIDE DEF added
  <2>4. Len(queue[p]) + Len(added) <= MaxQueue + 1
    BY <1>0, <2>2, <2>3 DEF Record!Room
  <2> QED
    BY <1>0, <2>2, <2>3, <2>4, <2>5, ClientKeeps, Zenon
<1>2. CASE Record!OnUnitData(p)
  <2> DEFINE cmd == Record!Command("UnitData")
  <2>1. cmd \in Commands /\ cmd.id = "UnitData"
    BY PlainCommand DEF Record!CommandIds
  <2>2. /\ Record!Room(p) /\ p \in known[p] /\ UNCHANGED <<up, known, phase, made, context, entry, file, socketDrops>>
        /\ queue' = IF up[p] THEN [queue EXCEPT ![p] = Append(@, cmd)] ELSE queue
    BY <1>2 DEF Record!OnUnitData, Record!Send, Record!clientVars
  <2> HIDE DEF cmd
  <2>3. /\ <<cmd>> \in Seq(Commands) /\ Len(<<cmd>>) = 1 /\ <<cmd>>[1] = cmd
        /\ Append(queue[p], cmd) = queue[p] \o <<cmd>>
        /\ Len(queue[p]) + Len(<<cmd>>) <= MaxQueue + 1
    BY <2>1, <2>2, SendOne
  <2>4. queue' = IF up[p] THEN [queue EXCEPT ![p] = @ \o <<cmd>>] ELSE queue
    BY <2>2, <2>3
  <2>5. \A k \in 1..Len(<<cmd>>) : <<cmd>>[k].id # "Hello"
    BY <2>1, <2>3
  <2> QED
    BY <1>0, <2>2, <2>3, <2>4, <2>5, ClientKeeps, Zenon
<1>3. CASE Record!OnMove(p)
  <2> DEFINE cmd == [Record!Command("Move") EXCEPT !.move = made[p] + 1]
  <2>1. cmd \in Commands /\ cmd.id = "Move"
    <3>1. Record!Command("Move") \in Commands /\ Record!Command("Move").id = "Move"
      BY PlainCommand DEF Record!CommandIds
    <3>2. made[p] + 1 \in Nat
      BY <1>0
    <3> QED
      BY <3>1, <3>2 DEF Commands
  <2>2. /\ Record!Room(p) /\ phase[p] # "lobby" /\ made[p] < MaxMoves
        /\ UNCHANGED <<up, known, context, entry, file, socketDrops>>
        /\ phase' = [phase EXCEPT ![p] = "playing"] /\ made' = [made EXCEPT ![p] = @ + 1]
        /\ queue' = IF up[p] THEN [queue EXCEPT ![p] = Append(@, cmd)] ELSE queue
    BY <1>3 DEF Record!OnMove, Record!Send
  <2> HIDE DEF cmd
  <2>3. /\ <<cmd>> \in Seq(Commands) /\ Len(<<cmd>>) = 1 /\ <<cmd>>[1] = cmd
        /\ Append(queue[p], cmd) = queue[p] \o <<cmd>>
        /\ Len(queue[p]) + Len(<<cmd>>) <= MaxQueue + 1
    BY <2>1, <2>2, SendOne
  <2>4. queue' = IF up[p] THEN [queue EXCEPT ![p] = @ \o <<cmd>>] ELSE queue
    BY <2>2, <2>3
  <2>5. \A k \in 1..Len(<<cmd>>) : <<cmd>>[k].id # "Hello"
    BY <2>1, <2>3
  <2>6. /\ phase' \in [Player -> {"lobby", "loading", "playing"}] /\ made' \in [Player -> 0..MaxMoves]
        /\ \A q \in Player : phase'[q] # "lobby" => q \in known'[q]
    BY <1>0, <2>2
  <2> QED
    BY <1>0, <2>2, <2>3, <2>4, <2>5, <2>6, ClientKeeps, Zenon
<1>4. ASSUME NEW d \in Player, Record!OnDplayCreatePlayer(p, d) PROVE RecordInv'
  <2> DEFINE cmd == Record!Command("Hello")
  <2>1. cmd \in Commands /\ cmd.id = "Hello"
    BY PlainCommand DEF Record!CommandIds
  <2>2. /\ Record!Room(p) /\ d \notin known[p]
        /\ UNCHANGED <<up, phase, made, context, entry, file, socketDrops>>
        /\ known' = [known EXCEPT ![p] = @ \union {d}]
        /\ d = p => queue' = IF up[p] THEN [queue EXCEPT ![p] = Append(@, cmd)] ELSE queue
        /\ d # p => queue' = queue
    BY <1>4 DEF Record!OnDplayCreatePlayer, Record!Send
  <2> HIDE DEF cmd
  <2>3. /\ known' \in [Player -> SUBSET Player] /\ \A q \in Player : known[q] \subseteq known'[q]
        /\ d \in known'[p] /\ \A q \in Player : phase'[q] # "lobby" => q \in known'[q]
    BY <1>0, <2>2
  <2>4. CASE d = p
    <3>1. /\ <<cmd>> \in Seq(Commands) /\ Len(<<cmd>>) = 1 /\ <<cmd>>[1] = cmd
          /\ Append(queue[p], cmd) = queue[p] \o <<cmd>>
          /\ Len(queue[p]) + Len(<<cmd>>) <= MaxQueue + 1
      BY <2>1, <2>2, SendOne
    <3>2. queue' = IF up[p] THEN [queue EXCEPT ![p] = @ \o <<cmd>>] ELSE queue
      BY <2>2, <2>4, <3>1
    <3>3. \A k \in 1..Len(<<cmd>>) : k = 1 /\ p \notin known[p]
      BY <2>2, <2>4, <3>1
    <3> QED
      BY <1>0, <2>2, <2>3, <2>4, <3>1, <3>2, <3>3, ClientKeeps, Zenon
  <2>5. CASE d # p
    <3> DEFINE none == <<>>
    <3>1. none \in Seq(Commands) /\ Len(none) = 0 /\ queue[p] \o none = queue[p]
      BY <1>0
    <3>2. queue' = IF up[p] THEN [queue EXCEPT ![p] = @ \o none] ELSE queue
      BY <1>0, <2>2, <2>5, <3>1
    <3>3. none = <<>>
      OBVIOUS
    <3> HIDE DEF none
    <3>4. \A k \in 1..Len(none) : FALSE
      BY <3>1
    <3>5. Len(queue[p]) + Len(none) <= MaxQueue + 1
      BY <1>0, <3>1
    <3> QED
      BY <1>0, <2>2, <2>3, <3>1, <3>2, <3>3, <3>4, <3>5, ClientKeeps, Zenon
  <2> QED
    BY <2>4, <2>5
<1> QED
  BY <1>1, <1>2, <1>3, <1>4

(* The list of a GamePlayerLoading names every player once. *)
LEMMA OrdersAreLockIns ==
  ASSUME NEW S \in SUBSET Player, Host \in S, NEW s \in Record!LockedInOrders(S)
  PROVE  s \in LockIns
<1> DEFINE T == S \ {Host}
           n == Cardinality(T)
<1>1. PICK t \in Record!SetToSeqs(T) : s = <<Host>> \o t
  BY Zenon DEF Record!LockedInOrders
<1>2. IsFiniteSet(S) /\ Cardinality(S) <= Cardinality(Player) /\ Cardinality(S) \in Nat
  BY RecordConstants, FS_Subset, FS_CardinalityType
<1>3. n \in Nat /\ n + 1 = Cardinality(S)
  <2>1. IsFiniteSet(T) /\ Cardinality(T) = Cardinality(S) - 1
    BY <1>2, FS_RemoveElement
  <2> QED
    BY <1>2, <2>1, FS_CardinalityType
<1>4. Record!Cardinality(T) = n
  BY DEF Record!Cardinality, Cardinality
<1>5. t \in [1..n -> T] /\ \A i, j \in 1..n : i # j => t[i] # t[j]
  BY <1>4, Zenon DEF Record!SetToSeqs
<1> HIDE DEF n, T
<1>6. T \subseteq Player /\ Host \notin T
  BY DEF T
<1>7. t \in Seq(Player) /\ Len(t) = n
  BY <1>3, <1>5, <1>6
<1>8. <<Host>> \in Seq(Player) /\ Len(<<Host>>) = 1 /\ <<Host>>[1] = Host
  BY RecordConstants
<1>9. /\ s \in Seq(Player) /\ Len(s) = 1 + n
      /\ \A i \in 1..(1 + n) : s[i] = IF i <= 1 THEN <<Host>>[i] ELSE t[i - 1]
  BY <1>1, <1>7, <1>8, ConcatProperties
<1>10. s[1] = Host /\ \A i \in 2..(1 + n) : s[i] = t[i - 1] /\ i - 1 \in 1..n /\ s[i] # Host
  BY <1>3, <1>5, <1>6, <1>8, <1>9
<1>11. ASSUME NEW i \in 1..Len(s), NEW j \in 1..Len(s), s[i] = s[j] PROVE i = j
  <2>1. CASE i = 1 \/ j = 1
    BY <1>3, <1>9, <1>10, <1>11, <2>1
  <2>2. CASE i \in 2..(1 + n) /\ j \in 2..(1 + n)
    <3>1. t[i - 1] = t[j - 1] /\ i - 1 \in 1..n /\ j - 1 \in 1..n
      BY <1>10, <1>11, <2>2
    <3>2. i - 1 = j - 1
      BY <1>5, <3>1
    <3> QED
      BY <2>2, <3>2
  <2> QED
    BY <1>3, <1>9, <2>1, <2>2
<1> QED
  BY <1>2, <1>3, <1>9, <1>11, CountOfPlayers DEF LockIns

LEMMA LoadingStartedKeeps ==
  ASSUME RecordInv, NEW p \in Player, Record!OnLoadingStarted(p)
  PROVE  RecordInv'
<1>1. PICK s \in Record!LockedInOrders(known[p]) :
        Record!Send(p, [Record!Command("GamePlayerLoading") EXCEPT !.players = s])
  BY DEF Record!OnLoadingStarted
<1> DEFINE cmd == [Record!Command("GamePlayerLoading") EXCEPT !.players = s]
<1>2. /\ p \in known[p] /\ Host \in known[p] /\ Record!Room(p)
      /\ phase' = [phase EXCEPT ![p] = "loading"]
      /\ UNCHANGED <<up, known, made, context, entry, file, socketDrops>>
  BY DEF Record!OnLoadingStarted
<1>3. queue' = IF up[p] THEN [queue EXCEPT ![p] = Append(@, cmd)] ELSE queue
  BY <1>1, Zenon DEF Record!Send
<1>4. cmd \in Commands /\ cmd.id = "GamePlayerLoading"
  <2>1. Record!Command("GamePlayerLoading") \in Commands /\ Record!Command("GamePlayerLoading").id = "GamePlayerLoading"
    BY PlainCommand DEF Record!CommandIds
  <2>2. known[p] \in SUBSET Player
    BY DEF RecordInv, RecordTypes
  <2>3. s \in LockIns
    BY <1>2, <2>2, OrdersAreLockIns
  <2> QED
    BY <2>1, <2>3 DEF Commands
<1> HIDE DEF cmd
<1>5. /\ known \in [Player -> SUBSET Player] /\ phase \in [Player -> {"lobby", "loading", "playing"}]
      /\ made \in [Player -> 0..MaxMoves]
      /\ queue \in [Player -> Seq(Commands)]
      /\ \A q \in Player : phase[q] # "lobby" => q \in known[q]
  BY DEF RecordInv, RecordTypes, HelloFirst
<1>6. /\ <<cmd>> \in Seq(Commands) /\ Len(<<cmd>>) = 1 /\ <<cmd>>[1] = cmd
      /\ Append(queue[p], cmd) = queue[p] \o <<cmd>>
      /\ Len(queue[p]) + Len(<<cmd>>) <= MaxQueue + 1
  BY <1>2, <1>4, SendOne
<1>7. queue' = IF up[p] THEN [queue EXCEPT ![p] = @ \o <<cmd>>] ELSE queue
  BY <1>3, <1>5, <1>6
<1>8. \A k \in 1..Len(<<cmd>>) : <<cmd>>[k].id # "Hello"
  BY <1>4, <1>6
<1>9. /\ phase' \in [Player -> {"lobby", "loading", "playing"}]
      /\ \A q \in Player : phase'[q] # "lobby" => q \in known'[q]
  BY <1>2, <1>5
<1> QED
  BY <1>2, <1>5, <1>6, <1>7, <1>8, <1>9, ClientKeeps, Zenon

-----------------------------------------------------------------------------
(* The connections. *)

LEMMA ConnectKeeps ==
  ASSUME RecordInv, NEW p \in Player, Record!Connect(p)
  PROVE  RecordInv'
<1> DEFINE first == IF p \in known[p] THEN <<Record!Command("Reconnect")>> ELSE <<>>
<1>1. /\ ~up[p] /\ up' = [up EXCEPT ![p] = TRUE]
      /\ context' = [context EXCEPT ![p] = Record!NoContext]
      /\ queue' = [queue EXCEPT ![p] = first]
      /\ UNCHANGED <<known, phase, made, entry, file, socketDrops>>
  BY DEF Record!Connect
<1>2. /\ first \in Seq(Commands) /\ Len(first) <= 1
      /\ \A k \in 1..Len(first) : first[k].id # "Hello"
      /\ p \notin known[p] => first = <<>>
  <2>1. Record!Command("Reconnect") \in Commands /\ Record!Command("Reconnect").id = "Reconnect"
    BY PlainCommand DEF Record!CommandIds
  <2> QED
    BY <2>1
<1> HIDE DEF first
<1>3. /\ up \in [Player -> BOOLEAN] /\ context \in [Player -> Contexts] /\ queue \in [Player -> Seq(Commands)]
  BY DEF RecordInv, RecordTypes
<1>4. /\ up' \in [Player -> BOOLEAN] /\ context' \in [Player -> Contexts] /\ queue' \in [Player -> Seq(Commands)]
      /\ queue'[p] = first /\ up'[p] = TRUE /\ context'[p] = Record!NoContext
      /\ \A q \in Player : q # p => queue'[q] = queue[q] /\ up'[q] = up[q] /\ context'[q] = context[q]
  BY <1>1, <1>2, <1>3, NoEntry
<1>5. \A q \in Player : Len(queue'[q]) <= MaxQueue + 1
  <2>1. Len(first) <= MaxQueue + 1
    BY <1>2, RecordConstants, LenProperties
  <2> QED
    BY <1>4, <2>1, Zenon DEF RecordInv, RecordTypes
<1>6. RecordTypes'
  BY <1>1, <1>4, <1>5 DEF RecordInv, RecordTypes
<1>7. Record!Game' = Record!Game
  BY <1>1 DEF Record!Game
<1>8. Record!Game.players[p] # Record!Live
  BY <1>1 DEF RecordInv, ConnectionsOK
<1>9. ConnectionsOK'
  BY <1>4, <1>7, <1>8 DEF RecordInv, ConnectionsOK, Record!NoContext
<1>10. HelloFirst'
  BY <1>1, <1>2, <1>4, <1>7 DEF RecordInv, HelloFirst
<1>11. \A q \in Player : Number(q)' = Number(q)
  BY <1>4, <1>7, <1>8, Zenon DEF Number
<1>12. HeadersOK' /\ MovesOK'
  BY <1>1, <1>7, <1>11, HeadersStay
<1> QED
  BY <1>6, <1>9, <1>10, <1>12 DEF RecordInv

LEMMA DropKeeps ==
  ASSUME RecordInv, NEW p \in Player, Record!Drop(p)
  PROVE  RecordInv'
<1> DEFINE G == Record!Game
           old == [kind |-> "old", number |-> context[p].number, info |-> context[p].info]
           g == [G EXCEPT !.players[p] = old]
<1>1. /\ up' = [up EXCEPT ![p] = FALSE] /\ queue' = [queue EXCEPT ![p] = <<>>]
      /\ context' = [context EXCEPT ![p] = Record!NoContext]
      /\ entry' = Record!Detached(p) /\ socketDrops' = socketDrops + 1 /\ socketDrops < MaxSocketDrops
      /\ UNCHANGED <<known, phase, made, file>>
  BY DEF Record!Drop, Record!Disconnected
<1>2. /\ up \in [Player -> BOOLEAN] /\ context \in [Player -> Contexts] /\ queue \in [Player -> Seq(Commands)]
      /\ G \in Games /\ context[p] \in Contexts /\ socketDrops \in 0..MaxSocketDrops
  BY GameType DEF RecordInv, RecordTypes
<1>3. /\ up' \in [Player -> BOOLEAN] /\ context' \in [Player -> Contexts] /\ queue' \in [Player -> Seq(Commands)]
      /\ queue'[p] = <<>> /\ up'[p] = FALSE /\ context'[p] = Record!NoContext
      /\ \A q \in Player : q # p => queue'[q] = queue[q] /\ up'[q] = up[q] /\ context'[q] = context[q]
  BY <1>1, <1>2, NoEntry, EmptySeq
<1>4. \A q \in Player : Len(queue'[q]) <= MaxQueue + 1
  <2>1. Len(queue'[p]) <= MaxQueue + 1
    BY <1>3, RecordConstants
  <2>2. \A q \in Player : Len(queue[q]) <= MaxQueue + 1
    BY DEF RecordInv, RecordTypes
  <2> QED
    BY <1>3, <2>1, <2>2, Zenon
<1>5. old \in OldEntries /\ old \in Entries /\ old # Record!Live /\ old # Record!Absent
      /\ old.number = context[p].number
  BY <1>2 DEF Contexts, OldEntries, Entries, Record!Live, Record!Absent
<1>6. /\ g \in Games /\ g.open = G.open /\ g.players[p] = old
      /\ \A q \in Player : q # p => g.players[q] = G.players[q]
  <2> HIDE DEF old
  <2> QED
    BY <1>2, <1>5, Zenon DEF Games
<1> HIDE DEF g, old
<1>7. /\ entry' \in {<<>>} \union {<<x>> : x \in Games}
      /\ Record!Game' = IF G.players[p] = Record!Live THEN g ELSE G
  <2>1. CASE entry # <<>> /\ G.players[p] = Record!Live
    <3>1. entry = <<G>>
      BY <2>1, GameType DEF RecordInv
    <3>2. entry' = [entry EXCEPT ![1].players[p] = old]
      BY <1>1, <2>1, <3>1 DEF Record!Detached, old
    <3>3. entry' = <<g>>
      BY <3>1, <3>2 DEF g
    <3> QED
      BY <1>6, <2>1, <3>3, GameStored
  <2>2. CASE entry = <<>>
    <3>1. entry' = entry
      BY <1>1, <2>2 DEF Record!Detached
    <3>2. G.players[p] # Record!Live
      BY <2>2, GameType, NoEntry DEF RecordInv
    <3> QED
      BY <2>2, <3>1, <3>2 DEF Record!Game
  <2>3. CASE entry # <<>> /\ G.players[p] # Record!Live
    <3>1. entry = <<G>>
      BY <2>3, GameType DEF RecordInv
    <3>2. entry' = entry
      BY <1>1, <2>3, <3>1 DEF Record!Detached
    <3>3. Record!Game' = Record!Game
      BY <3>2 DEF Record!Game
    <3> QED
      BY <2>3, <3>2, <3>3 DEF RecordInv, RecordTypes
  <2> QED
    BY <2>1, <2>2, <2>3
<1> DEFINE H == Record!Game'
<1> HIDE DEF G
<1>8. /\ H.open = G.open /\ \A q \in Player : q # p => H.players[q] = G.players[q]
      /\ H.players[p] # Record!Live
      /\ G.players[p] # Record!Live => H = G
      /\ G.players[p] = Record!Live => H.players[p] = old
  BY <1>5, <1>6, <1>7
<1> HIDE DEF H
<1>9. RecordTypes'
  <2>1. socketDrops' \in 0..MaxSocketDrops
    BY <1>1, <1>2, RecordConstants
  <2>2. entry' \in {<<>>} \union {<<x>> : x \in Games}
    BY <1>7
  <2>3. /\ known' \in [Player -> SUBSET Player] /\ phase' \in [Player -> {"lobby", "loading", "playing"}]
        /\ made' \in [Player -> 0..MaxMoves] /\ file' \in Files
    BY <1>1 DEF RecordInv, RecordTypes
  <2> QED
    BY <1>3, <1>4, <2>1, <2>2, <2>3 DEF RecordTypes
<1>10. ConnectionsOK'
  <2>1. ConnectionsOK
    BY DEF RecordInv
  <2>2. ASSUME NEW q \in Player
        PROVE  /\ ~up'[q] => queue'[q] = <<>> /\ ~context'[q].registered
               /\ H.players[q] = Record!Live => up'[q]
               /\ context'[q].registered => H.players[q] \in {Record!Live, Record!Absent}
    <3>1. CASE q = p
      BY <1>3, <1>8, <3>1 DEF Record!NoContext
    <3>2. CASE q # p
      <4>1. up'[q] = up[q] /\ queue'[q] = queue[q] /\ context'[q] = context[q] /\ H.players[q] = G.players[q]
        BY <1>3, <1>8, <3>2
      <4>2. /\ ~up[q] => queue[q] = <<>> /\ ~context[q].registered
            /\ G.players[q] = Record!Live => up[q]
            /\ context[q].registered => G.players[q] \in {Record!Live, Record!Absent}
        BY <2>1, Zenon DEF ConnectionsOK, G
      <4> QED
        BY <4>1, <4>2
    <3> QED
      BY <3>1, <3>2
  <2> QED
    BY <2>2, Zenon DEF ConnectionsOK, H
<1>11. HelloFirst'
  <2>1. G.players[p] = Record!Absent => H.players[p] = Record!Absent
    BY <1>8, NoEntry
  <2> QED
    BY <1>1, <1>3, <1>8, <2>1 DEF RecordInv, HelloFirst, G, H
<1>12. \A q \in Player : G.players[q] # Record!Absent => H.players[q] # Record!Absent /\ Number(q)' = Number(q)
  BY <1>3, <1>5, <1>8 DEF Number, G, H
<1>13. HeadersOK' /\ MovesOK'
  BY <1>1, <1>8, <1>12, HeadersStay DEF G, H
<1> QED
  BY <1>9, <1>10, <1>11, <1>13 DEF RecordInv

-----------------------------------------------------------------------------
(* The commands at the server.  *)

(* A step that takes a command of p and stores the game g, in which the    *)
(* entries of all other players are the same.                              *)
LEMMA ServerKeeps ==
  ASSUME RecordInv, NEW p \in Player, queue[p] # <<>>, Record!Take(p),
         UNCHANGED <<known, phase, made, file, socketDrops>>,
         context' \in [Player -> Contexts],
         entry' \in {<<>>} \union {<<x>> : x \in Games},
         Record!Game'.open = Record!Game.open,
         \A q \in Player : q # p => /\ Record!Game'.players[q] = Record!Game.players[q]
                                    /\ context'[q] = context[q],
         context'[p].registered => Record!Game'.players[p] \in {Record!Live, Record!Absent},
         Record!Game.players[p] # Record!Absent =>
           Record!Game'.players[p] # Record!Absent /\ Number(p)' = Number(p)
  PROVE  RecordInv'
<1> DEFINE G == Record!Game
           H == Record!Game'
<1>1. queue' = [queue EXCEPT ![p] = Tail(@)] /\ up' = up
  BY DEF Record!Take
<1>2. /\ queue' \in [Player -> Seq(Commands)]
      /\ \A q \in Player : Len(queue'[q]) <= MaxQueue + 1
      /\ \A q \in Player : q # p => queue'[q] = queue[q]
      /\ \A k \in 1..Len(queue'[p]) : queue'[p][k].id # "Hello"
      /\ up[p] /\ p \in known[p]
  BY <1>1, TakeKeeps, Zenon
<1>3. RecordTypes'
  BY <1>1, <1>2 DEF RecordInv, RecordTypes
<1> HIDE DEF G, H
<1>4. H.open = G.open /\ \A q \in Player : q # p => H.players[q] = G.players[q]
  BY DEF G, H
<1>5. ConnectionsOK'
  <2>1. ASSUME NEW q \in Player, q # p
        PROVE  /\ ~up'[q] => queue'[q] = <<>> /\ ~context'[q].registered
               /\ H.players[q] = Record!Live => up'[q]
               /\ context'[q].registered => H.players[q] \in {Record!Live, Record!Absent}
    BY <1>1, <1>2, <1>4, <2>1 DEF RecordInv, ConnectionsOK, G
  <2>2. context'[p].registered => H.players[p] \in {Record!Live, Record!Absent}
    BY DEF H
  <2>3. up'[p]
    BY <1>1, <1>2
  <2> QED
    BY <2>1, <2>2, <2>3 DEF ConnectionsOK, H
<1>6. HelloFirst'
  BY <1>1, <1>2, <1>4 DEF RecordInv, HelloFirst, G, H
<1>7. \A q \in Player : G.players[q] # Record!Absent => H.players[q] # Record!Absent /\ Number(q)' = Number(q)
  <2>1. \A q \in Player : q # p => Number(q)' = Number(q)
    BY <1>4 DEF Number, G, H
  <2> QED
    BY <1>4, <2>1 DEF G, H
<1>8. HeadersOK' /\ MovesOK'
  BY <1>4, <1>7, HeadersStay DEF G, H
<1> QED
  BY <1>3, <1>5, <1>6, <1>8 DEF RecordInv

(* A command that only renews the countdown or the game id, or nothing. *)
LEMMA PlainKeeps ==
  ASSUME RecordInv, NEW p \in Player, queue[p] # <<>>, Record!Take(p),
         UNCHANGED <<known, phase, made, file, socketDrops>>,
         context' \in [Player -> Contexts],
         \A q \in Player : /\ context'[q].registered = context[q].registered
                           /\ context'[q].number = context[q].number
                           /\ q # p => context'[q] = context[q],
         entry' \in {<<>>} \union {<<x>> : x \in Games},
         Record!Game'.open = Record!Game.open,
         Record!Game'.players = Record!Game.players
  PROVE  RecordInv'
<1>1. Number(p)' = Number(p)
  BY DEF Number
<1>2. context'[p].registered => Record!Game'.players[p] \in {Record!Live, Record!Absent}
  BY DEF RecordInv, ConnectionsOK
<1> QED
  BY <1>1, <1>2, ServerKeeps

(* The game with one entry made live. *)
LEMMA MadeLive ==
  ASSUME RecordInv, NEW p \in Player, entry' = <<[Record!Game EXCEPT !.players[p] = Record!Live]>>
  PROVE  /\ entry' \in {<<>>} \union {<<x>> : x \in Games}
         /\ Record!Game'.open = Record!Game.open
         /\ Record!Game'.players[p] = Record!Live
         /\ \A q \in Player : q # p => Record!Game'.players[q] = Record!Game.players[q]
<1> DEFINE G == Record!Game
           g == [G EXCEPT !.players[p] = Record!Live]
<1>1. G \in Games
  BY GameType DEF RecordInv
<1>2. entry' = <<g>>
  OBVIOUS
<1> HIDE DEF G
<1>3. /\ g \in Games /\ g.open = G.open /\ g.players[p] = Record!Live
      /\ \A q \in Player : q # p => g.players[q] = G.players[q]
  BY <1>1, NoEntry DEF Games
<1> HIDE DEF g
<1>4. Record!Game' = g /\ entry' \in {<<>>} \union {<<x>> : x \in Games}
  BY <1>2, <1>3, GameStored
<1> QED
  BY <1>3, <1>4 DEF G

LEMMA HelloKeeps ==
  ASSUME RecordInv, NEW p \in Player, Record!OnHello(p)
  PROVE  RecordInv'
<1>1. /\ queue[p] # <<>> /\ Head(queue[p]).id = "Hello" /\ Record!Take(p)
      /\ context' = [context EXCEPT ![p].registered = TRUE]
      /\ entry' = <<[Record!Game EXCEPT !.players[p] = Record!Live]>>
      /\ UNCHANGED <<known, phase, made, file, socketDrops>>
  BY DEF Record!OnHello, Record!Next1
<1>2. queue[p] \in Seq(Commands) /\ Head(queue[p]) = queue[p][1] /\ 1 \in 1..Len(queue[p])
  BY <1>1, LenProperties DEF RecordInv, RecordTypes
<1>3. Record!Game.players[p] = Record!Absent
  BY <1>1, <1>2 DEF RecordInv, HelloFirst
<1>4. context' \in [Player -> Contexts] /\ \A q \in Player : q # p => context'[q] = context[q]
  <2>1. context \in [Player -> Contexts]
    BY DEF RecordInv, RecordTypes
  <2> QED
    BY <1>1, <2>1 DEF Contexts
<1> QED
  BY <1>1, <1>3, <1>4, MadeLive, ServerKeeps, Zenon

LEMMA ReconnectKeeps ==
  ASSUME RecordInv, NEW p \in Player, Record!OnReconnect(p)
  PROVE  RecordInv'
<1> DEFINE new == Record!ReconnectedContext(p)
           old == Record!Game.players[p]
<1>1. /\ queue[p] # <<>> /\ Record!Take(p)
      /\ context' = [context EXCEPT ![p] = new]
      /\ entry' = <<[Record!Game EXCEPT !.players[p] = Record!Live]>>
      /\ UNCHANGED <<known, phase, made, file, socketDrops>>
  BY DEF Record!OnReconnect, Record!Next1
<1>2. context \in [Player -> Contexts] /\ old \in Entries
  <2>1. Record!Game \in Games
    BY GameType DEF RecordInv
  <2> QED
    BY <2>1, GameFields DEF RecordInv, RecordTypes
<1>3. new \in Contexts /\ (old # Record!Absent => new.number = Number(p))
  <2>1. CASE old \in OldEntries
    <3>1. old.kind = "old" /\ old.number \in 0..Record!Cardinality(Player) /\ old.info \in BOOLEAN
      BY <2>1 DEF OldEntries
    <3>2. new = [registered |-> TRUE, number |-> old.number, info |-> old.info]
      BY <3>1 DEF Record!ReconnectedContext
    <3>3. old # Record!Live
      BY <3>1 DEF Record!Live
    <3> HIDE DEF old
    <3> QED
      BY <3>1, <3>2, <3>3 DEF Contexts, Number, old
  <2>2. CASE old \in {Record!Live, Record!Absent}
    <3>1. old.kind = "live" \/ old.kind = "absent"
      BY <2>2 DEF Record!Live, Record!Absent
    <3>2. new = [context[p] EXCEPT !.registered = TRUE]
      BY <3>1 DEF Record!ReconnectedContext
    <3>3. new \in Contexts /\ new.number = context[p].number
      BY <1>2, <3>2, Zenon DEF Contexts
    <3>4. old = Record!Live => Number(p) = context[p].number
      BY DEF Number
    <3> QED
      BY <2>2, <3>3, <3>4
  <2> QED
    BY <1>2, <2>1, <2>2 DEF Entries
<1> HIDE DEF new, old
<1>4. context' \in [Player -> Contexts] /\ context'[p] = new /\ \A q \in Player : q # p => context'[q] = context[q]
  BY <1>1, <1>2, <1>3
<1>5. /\ entry' \in {<<>>} \union {<<x>> : x \in Games}
      /\ Record!Game'.open = Record!Game.open
      /\ Record!Game'.players[p] = Record!Live
      /\ \A q \in Player : q # p => Record!Game'.players[q] = Record!Game.players[q]
  BY <1>1, MadeLive
<1>6. Number(p)' = new.number
  BY <1>4, <1>5 DEF Number
<1>7. Record!Game.players[p] # Record!Absent => Record!Game'.players[p] # Record!Absent /\ Number(p)' = Number(p)
  BY <1>3, <1>5, <1>6, NoEntry DEF old
<1> QED
  BY <1>1, <1>4, <1>5, <1>7, ServerKeeps

(* The game after a renewed countdown, with the id as it was or set. *)
LEMMA Renewed ==
  ASSUME RecordInv, NEW g \in Games, entry' = <<g>>,
         g.open = Record!Game.open, g.players = Record!Game.players
  PROVE  /\ entry' \in {<<>>} \union {<<x>> : x \in Games}
         /\ Record!Game'.open = Record!Game.open
         /\ Record!Game'.players = Record!Game.players
BY GameStored

LEMMA PlainCommandKeeps ==
  ASSUME RecordInv, NEW p \in Player,
         \/ Record!OnUnregistered(p) \/ Record!OnGameInfo(p)
         \/ Record!OnGamePlayer(p) \/ Record!OnGameUnitData(p)
  PROVE  RecordInv'
<1> DEFINE G == Record!Game
           renewed == [G EXCEPT !.countdown = GAME_EXPIRY_TICKS]
<1>1. /\ G \in Games /\ context \in [Player -> Contexts]
      /\ entry \in {<<>>} \union {<<x>> : x \in Games}
      /\ entry # <<>> => entry = <<G>>
  BY GameType DEF RecordInv, RecordTypes
<1>2. renewed \in Games /\ renewed.open = G.open /\ renewed.players = G.players
  <2> HIDE DEF G
  <2> QED
    BY <1>1, RecordConstants DEF Games
<1>3. entry' = entry => /\ Record!Game'.open = G.open /\ Record!Game'.players = G.players
                        /\ entry' \in {<<>>} \union {<<x>> : x \in Games}
  <2>1. entry' = entry => Record!Game' = Record!Game
    BY DEF Record!Game
  <2> QED
    BY <1>1, <2>1
<1>4. entry' = <<renewed>> => /\ Record!Game'.open = G.open /\ Record!Game'.players = G.players
                              /\ entry' \in {<<>>} \union {<<x>> : x \in Games}
  <2> HIDE DEF renewed
  <2> QED
    BY <1>2, Renewed
<1>5. CASE Record!OnUnregistered(p)
  <2>1. /\ queue[p] # <<>> /\ Record!Take(p)
        /\ UNCHANGED <<known, phase, made, file, socketDrops, context, entry>>
    BY <1>5 DEF Record!OnUnregistered, Record!HandleBadConnection, Record!Take
  <2> QED
    BY <1>1, <1>3, <2>1, PlainKeeps
<1>6. CASE Record!OnGameInfo(p)
  <2> DEFINE g == [G EXCEPT !.gameId = 1, !.countdown = GAME_EXPIRY_TICKS]
  <2>1. /\ queue[p] # <<>> /\ Record!Take(p) /\ entry' = <<g>>
        /\ UNCHANGED <<known, phase, made, file, socketDrops, context>>
    BY <1>6 DEF Record!OnGameInfo, Record!Next1
  <2>2. g \in Games /\ g.open = G.open /\ g.players = G.players
    <3> HIDE DEF G
    <3> DEFINE n == GAME_EXPIRY_TICKS
               one == 1
    <3>1. n \in 0..GAME_EXPIRY_TICKS /\ one \in {0, 1}
      BY RecordConstants
    <3>2. g = [G EXCEPT !.gameId = one, !.countdown = n]
      OBVIOUS
    <3> HIDE DEF g, n, one
    <3> QED
      BY <1>1, <3>1, <3>2, Zenon DEF Games
  <2> HIDE DEF g
  <2>3. /\ Record!Game'.open = G.open /\ Record!Game'.players = G.players
        /\ entry' \in {<<>>} \union {<<x>> : x \in Games}
    BY <2>1, <2>2, Renewed
  <2> QED
    BY <1>1, <2>1, <2>3, PlainKeeps
<1>7. CASE Record!OnGamePlayer(p)
  <2>1. /\ queue[p] # <<>> /\ UNCHANGED <<known, phase, made, file, socketDrops>>
        /\ \/ Record!Take(p) /\ UNCHANGED <<context, entry>>
           \/ /\ Record!Take(p) /\ context' = [context EXCEPT ![p].info = TRUE]
              /\ entry' = <<renewed>>
    BY <1>7, Zenon DEF Record!OnGamePlayer, Record!Next1, Record!HandleBadConnection, Record!Take
  <2>2. CASE Record!Take(p) /\ UNCHANGED <<context, entry>>
    BY <1>1, <1>3, <2>1, <2>2, PlainKeeps
  <2>3. CASE Record!Take(p) /\ context' = [context EXCEPT ![p].info = TRUE] /\ entry' = <<renewed>>
    <3>1. /\ context' \in [Player -> Contexts]
          /\ \A q \in Player : /\ context'[q].registered = context[q].registered
                               /\ context'[q].number = context[q].number
                               /\ q # p => context'[q] = context[q]
      BY <1>1, <2>3 DEF Contexts
    <3> QED
      BY <1>4, <2>1, <2>3, <3>1, PlainKeeps, Zenon
  <2> QED
    BY <2>1, <2>2, <2>3
<1>8. CASE Record!OnGameUnitData(p)
  <2>1. /\ queue[p] # <<>> /\ Record!Take(p) /\ UNCHANGED <<known, phase, made, file, socketDrops, context>>
        /\ entry' = IF entry = <<>> THEN entry ELSE [entry EXCEPT ![1].countdown = GAME_EXPIRY_TICKS]
    BY <1>8 DEF Record!OnGameUnitData, Record!Next1
  <2>2. CASE entry = <<>>
    BY <1>1, <1>3, <2>1, <2>2, PlainKeeps
  <2>3. CASE entry # <<>>
    <3>1. entry' = <<renewed>>
      <4>1. entry = <<G>> /\ entry' = [entry EXCEPT ![1].countdown = GAME_EXPIRY_TICKS]
        BY <1>1, <2>1, <2>3
      <4> HIDE DEF G
      <4> QED
        BY <4>1
    <3> QED
      BY <1>1, <1>4, <2>1, <3>1, PlainKeeps
  <2> QED
    BY <2>2, <2>3
<1> QED
  BY <1>5, <1>6, <1>7, <1>8

-----------------------------------------------------------------------------
(* The number of a locked-in player. *)
LEMMA NumberIsIndex ==
  ASSUME NEW s \in LockIns, NEW i \in 1..Len(s)
  PROVE  /\ Record!NumberOf(s, s[i]) = i
         /\ s[i] \in Record!Range(s) /\ i \in 0..Record!Cardinality(Player)
<1>1. DOMAIN s = 1..Len(s) /\ Len(s) \in Nat /\ Len(s) <= Record!Cardinality(Player)
      /\ \A j, k \in 1..Len(s) : s[j] = s[k] => j = k
  BY LenProperties DEF LockIns
<1>2. \A j \in DOMAIN s : s[j] = s[i] <=> j = i
  BY <1>1
<1>3. (CHOOSE j \in DOMAIN s : s[j] = s[i]) = i
  BY <1>1, <1>2
<1> QED
  BY <1>1, <1>3, CountOfPlayers DEF Record!NumberOf, Record!Range

LEMMA LoadingKeeps ==
  ASSUME RecordInv, NEW p \in Player, Record!OnGamePlayerLoading(p)
  PROVE  RecordInv'
<1> DEFINE G == Record!Game
<1>0. PICK s : s = Head(queue[p]).players
  OBVIOUS
<1>1. /\ queue[p] # <<>> /\ Record!Take(p)
      /\ UNCHANGED <<known, phase, made, socketDrops>>
  BY DEF Record!OnGamePlayerLoading, Record!Next1
<1>2. /\ queue' \in [Player -> Seq(Commands)]
      /\ \A q \in Player : Len(queue'[q]) <= MaxQueue + 1
      /\ \A q \in Player : q # p => queue'[q] = queue[q]
      /\ \A k \in 1..Len(queue'[p]) : queue'[p][k].id # "Hello"
      /\ up[p] /\ p \in known[p] /\ up' = up
      /\ Head(queue[p]) \in Commands
  <2>1. queue' = [queue EXCEPT ![p] = Tail(@)] /\ up' = up
    BY <1>1 DEF Record!Take
  <2> QED
    BY <1>1, <2>1, TakeKeeps, Zenon
<1>3. s \in LockIns /\ G \in Games /\ context \in [Player -> Contexts]
      /\ entry \in {<<>>} \union {<<x>> : x \in Games}
  BY <1>0, <1>2, GameType, Zenon DEF Commands, RecordInv, RecordTypes
<1>4. CASE ~Record!CommitsHeaders(s)
  <2>1. UNCHANGED <<file, entry, context>>
    BY <1>0, <1>4 DEF Record!OnGamePlayerLoading
  <2>2. Record!Game' = Record!Game
    BY <2>1 DEF Record!Game
  <2> QED
    BY <1>1, <1>3, <2>1, <2>2, PlainKeeps
<1>5. CASE Record!CommitsHeaders(s)
  <2> DEFINE table == [q \in Player |-> IF q \in Record!Range(s) /\ G.players[q].kind = "old"
                                        THEN [G.players[q] EXCEPT !.number = Record!Numbered(s, q)]
                                        ELSE G.players[q]]
             g == [G EXCEPT !.open = TRUE, !.players = table]
  <2>1. entry = <<G>> /\ ~G.open /\ \A i \in DOMAIN s : G.players[s[i]] # Record!Absent
    <3>1. entry # <<>> /\ ~entry[1].open /\ Record!KnownLockedIn(entry[1], s)
      BY <1>5 DEF Record!CommitsHeaders
    <3>2. entry = <<G>>
      BY <3>1, GameType DEF RecordInv
    <3> HIDE DEF G
    <3>3. entry[1] = G
      BY <3>2
    <3> QED
      BY <3>1, <3>2, <3>3 DEF Record!KnownLockedIn
  <2>2. /\ file' = Record!Headers(s)
        /\ entry' = [entry EXCEPT ![1].open = TRUE, ![1].players =
             [q \in Player |-> IF q \in Record!Range(s) /\ @[q].kind = "old"
                               THEN [@[q] EXCEPT !.number = Record!Numbered(s, q)]
                               ELSE @[q]]]
        /\ context' = [q \in Player |->
             IF q \in Record!Range(s) /\ entry[1].players[q] = Record!Live
             THEN [context[q] EXCEPT !.number = Record!Numbered(s, q)]
             ELSE context[q]]
    BY <1>0, <1>5, Zenon DEF Record!OnGamePlayerLoading
  <2> HIDE DEF G
  <2>3. entry[1] = G
    BY <2>1
  <2>4. entry' = <<g>>
    BY <2>1, <2>2, <2>3
  <2>5. context' = [q \in Player |->
             IF q \in Record!Range(s) /\ G.players[q] = Record!Live
             THEN [context[q] EXCEPT !.number = Record!Numbered(s, q)]
             ELSE context[q]]
    BY <2>2, <2>3
  <2>6. ASSUME NEW q \in Player, q \in Record!Range(s)
        PROVE  /\ Record!Numbered(s, q) \in 0..Record!Cardinality(Player)
               /\ G.players[q] # Record!Absent
    <3>1. PICK i \in 1..Len(s) : q = s[i]
      <4>1. DOMAIN s = 1..Len(s)
        BY <1>3, LenProperties DEF LockIns
      <4> QED
        BY <2>6, <4>1 DEF Record!Range
    <3>2. DOMAIN s = 1..Len(s)
      BY <1>3, LenProperties DEF LockIns
    <3> QED
      BY <1>3, <2>1, <3>1, <3>2, NumberIsIndex DEF Record!Numbered
  <2>7. table \in [Player -> Entries]
    <3> SUFFICES ASSUME NEW q \in Player PROVE table[q] \in Entries
      OBVIOUS
    <3>1. G.players[q] \in Entries
      BY <1>3, GameFields
    <3>2. CASE q \in Record!Range(s) /\ G.players[q].kind = "old"
      <4>1. G.players[q] \in OldEntries
        BY <3>1, <3>2 DEF Entries, Record!Live, Record!Absent
      <4>2. table[q] = [G.players[q] EXCEPT !.number = Record!Numbered(s, q)]
        BY <3>2
      <4> HIDE DEF table
      <4> QED
        BY <2>6, <3>2, <4>1, <4>2 DEF OldEntries, Entries
    <3>3. CASE ~(q \in Record!Range(s) /\ G.players[q].kind = "old")
      BY <3>1, <3>3
    <3> QED
      BY <3>2, <3>3
  <2>8. /\ \A q \in Player : table[q] = Record!Live <=> G.players[q] = Record!Live
        /\ \A q \in Player : table[q] = Record!Absent <=> G.players[q] = Record!Absent
    <3> SUFFICES ASSUME NEW q \in Player
                 PROVE  /\ table[q] = Record!Live <=> G.players[q] = Record!Live
                        /\ table[q] = Record!Absent <=> G.players[q] = Record!Absent
      OBVIOUS
    <3>1. G.players[q] \in Entries
      BY <1>3, GameFields
    <3>2. CASE q \in Record!Range(s) /\ G.players[q].kind = "old"
      <4>1. G.players[q] \in OldEntries
        BY <3>1, <3>2 DEF Entries, Record!Live, Record!Absent
      <4>2. table[q] = [G.players[q] EXCEPT !.number = Record!Numbered(s, q)]
        BY <3>2
      <4> HIDE DEF table
      <4>3. table[q].kind = "old"
        BY <4>1, <4>2 DEF OldEntries
      <4> QED
        BY <3>2, <4>3 DEF Record!Live, Record!Absent
    <3>3. CASE ~(q \in Record!Range(s) /\ G.players[q].kind = "old")
      BY <3>3
    <3> QED
      BY <3>2, <3>3
  <2>9. context' \in [Player -> Contexts]
    <3> SUFFICES ASSUME NEW q \in Player PROVE context'[q] \in Contexts
      BY <2>5
    <3>1. CASE q \in Record!Range(s) /\ G.players[q] = Record!Live
      <4>1. context'[q] = [context[q] EXCEPT !.number = Record!Numbered(s, q)]
        BY <2>5, <3>1
      <4> QED
        BY <1>3, <2>6, <3>1, <4>1, Zenon DEF Contexts
    <3>2. CASE ~(q \in Record!Range(s) /\ G.players[q] = Record!Live)
      BY <1>3, <2>5, <3>2
    <3> QED
      BY <3>1, <3>2
  <2>10. \A q \in Player : context'[q].registered = context[q].registered
    <3> SUFFICES ASSUME NEW q \in Player PROVE context'[q].registered = context[q].registered
      OBVIOUS
    <3>1. context[q] \in Contexts
      BY <1>3
    <3> QED
      BY <2>5, <3>1 DEF Contexts
  <2>11. g \in Games /\ g.open = TRUE /\ g.players = table
    <3> HIDE DEF table
    <3> QED
      BY <1>3, <2>7, Zenon DEF Games
  <2> HIDE DEF g
  <2>12. Record!Game' = g /\ entry' \in {<<>>} \union {<<x>> : x \in Games}
    BY <2>4, <2>11, GameStored
  <2>13. /\ file' \in Files /\ file'.state = "part" /\ file'.lockedIn = s /\ file'.moves = <<>>
    BY <1>3, <2>2, EmptySeq DEF Record!Headers, Files
  <2>14. RecordTypes'
    BY <1>1, <1>2, <2>9, <2>12, <2>13 DEF RecordInv, RecordTypes
  <2> HIDE DEF table
  <2>15. ConnectionsOK'
    <3> SUFFICES ASSUME NEW q \in Player
                 PROVE  /\ ~up[q] => queue'[q] = <<>> /\ ~context'[q].registered
                        /\ g.players[q] = Record!Live => up[q]
                        /\ context'[q].registered => g.players[q] \in {Record!Live, Record!Absent}
      BY <1>2, <2>12 DEF ConnectionsOK
    <3>1. /\ ~up[q] => queue[q] = <<>> /\ ~context[q].registered
          /\ G.players[q] = Record!Live => up[q]
          /\ context[q].registered => G.players[q] \in {Record!Live, Record!Absent}
      BY DEF RecordInv, ConnectionsOK, G
    <3> QED
      BY <1>2, <2>8, <2>10, <2>11, <3>1
  <2>16. HelloFirst'
    <3>1. \A q \in Player : G.players[q] = Record!Absent => g.players[q] = Record!Absent
      BY <2>8, <2>11
    <3> QED
      BY <1>1, <1>2, <2>12, <3>1 DEF RecordInv, HelloFirst, G
  <2>17. ASSUME NEW i \in 1..Len(s)
         PROVE  g.players[s[i]] # Record!Absent /\ Number(s[i])' = i
    <3> DEFINE q == s[i]
    <3>1. q \in Player /\ q \in Record!Range(s) /\ Record!Numbered(s, q) = i
      BY <1>3, <2>17, NumberIsIndex DEF LockIns, Record!Numbered
    <3>2. G.players[q] # Record!Absent /\ G.players[q] \in Entries /\ context[q] \in Contexts
      BY <1>3, <2>6, <3>1, GameFields
    <3> HIDE DEF q
    <3>3. CASE G.players[q] = Record!Live
      <4>1. context'[q] = [context[q] EXCEPT !.number = i]
        BY <2>5, <3>1, <3>3
      <4>2. context'[q].number = i
        BY <3>2, <4>1 DEF Contexts
      <4>3. g.players[q] = Record!Live
        BY <2>8, <2>11, <3>1, <3>3
      <4> QED
        BY <2>12, <4>2, <4>3, NoEntry DEF Number, q
    <3>4. CASE G.players[q] \in OldEntries
      <4>1. G.players[q].kind = "old"
        BY <3>4 DEF OldEntries
      <4>2. table[q] = [G.players[q] EXCEPT !.number = i]
        BY <3>1, <4>1 DEF table
      <4>3. g.players[q].number = i /\ g.players[q].kind = "old"
        BY <2>11, <3>4, <4>2 DEF OldEntries
      <4>4. g.players[q] # Record!Live /\ g.players[q] # Record!Absent
        BY <4>3 DEF Record!Live, Record!Absent
      <4> QED
        BY <2>12, <4>3, <4>4 DEF Number, q
    <3> QED
      BY <3>2, <3>3, <3>4 DEF Entries
  <2>18. HeadersOK'
    BY <2>11, <2>12, <2>13, <2>17 DEF HeadersOK
  <2>19. MovesOK'
    BY <2>13 DEF MovesOK
  <2> QED
    BY <2>14, <2>15, <2>16, <2>18, <2>19 DEF RecordInv
<1> QED
  BY <1>4, <1>5

(* A move is recorded under the number that the headers gave its player. *)
LEMMA CommitMoveKeeps ==
  ASSUME RecordInv, NEW p \in Player, queue[p] # <<>>, context[p].registered,
         Record!Game.open, Record!Game.players[p] # Record!Absent
  PROVE  LET f == Record!CommitMove(p) IN
           /\ f \in Files /\ f.state = file.state /\ f.lockedIn = file.lockedIn
           /\ Len(f.moves) = Len(file.moves) + 1
           /\ \A k \in 1..Len(file.moves) : f.moves[k] = file.moves[k]
           /\ \A k \in 1..Len(f.moves) : \A i \in 1..Len(f.lockedIn) :
                f.moves[k].by = f.lockedIn[i] => f.moves[k].sender = i
<1> DEFINE m == [sender |-> context[p].number, by |-> p, move |-> Head(queue[p]).move]
           f == Record!CommitMove(p)
           n == Len(file.moves)
<1>1. /\ file \in Files /\ file.moves \in Seq(Moves) /\ n \in Nat
      /\ file.lockedIn \in LockIns
  BY LenProperties DEF RecordInv, RecordTypes, Files
<1>2. m \in Moves /\ m.by = p /\ m.sender = context[p].number
  <2>1. queue[p] \in Seq(Commands) /\ Head(queue[p]) \in Commands
    BY HeadTailProperties DEF RecordInv, RecordTypes
  <2>2. Head(queue[p]).move \in Nat /\ context[p].number \in 0..Record!Cardinality(Player)
    BY <2>1 DEF Commands, Contexts, RecordInv, RecordTypes
  <2> QED
    BY <2>2 DEF Moves
<1>3. f = [file EXCEPT !.moves = Append(file.moves, m)]
  BY <1>1 DEF Record!CommitMove, Files
<1> HIDE DEF m, f
<1>4. /\ Append(file.moves, m) \in Seq(Moves) /\ Len(Append(file.moves, m)) = n + 1
      /\ \A k \in 1..n : Append(file.moves, m)[k] = file.moves[k]
      /\ Append(file.moves, m)[n + 1] = m
  BY <1>1, <1>2, AppendProperties
<1>5. /\ f \in Files /\ f.state = file.state /\ f.lockedIn = file.lockedIn
      /\ f.moves = Append(file.moves, m)
  BY <1>1, <1>3, <1>4, Zenon DEF Files
<1>6. ASSUME NEW i \in 1..Len(file.lockedIn), p = file.lockedIn[i] PROVE m.sender = i
  <2>1. Number(p) = i
    BY <1>6 DEF RecordInv, HeadersOK
  <2>2. Record!Game.players[p] = Record!Live
    BY DEF RecordInv, ConnectionsOK
  <2> QED
    BY <1>2, <2>1, <2>2 DEF Number
<1>7. ASSUME NEW k \in 1..Len(f.moves), NEW i \in 1..Len(f.lockedIn), f.moves[k].by = f.lockedIn[i]
      PROVE  f.moves[k].sender = i
  <2>1. CASE k = n + 1
    <3>1. f.moves[k] = m
      BY <1>4, <1>5, <2>1
    <3> QED
      BY <1>2, <1>5, <1>6, <1>7, <3>1
  <2>2. CASE k # n + 1
    <3>1. k \in 1..n /\ f.moves[k] = file.moves[k]
      BY <1>1, <1>4, <1>5, <2>2
    <3> QED
      BY <1>5, <1>7, <3>1 DEF RecordInv, MovesOK
  <2> QED
    BY <2>1, <2>2
<1>8. Len(f.moves) = n + 1 /\ \A k \in 1..n : f.moves[k] = file.moves[k]
  BY <1>4, <1>5
<1> QED
  BY <1>5, <1>7, <1>8 DEF f

LEMMA MoveKeeps ==
  ASSUME RecordInv, NEW p \in Player, Record!OnGameMove(p)
  PROVE  RecordInv'
<1> DEFINE G == Record!Game
           g == [G EXCEPT !.countdown = GAME_EXPIRY_TICKS]
<1>1. /\ queue[p] # <<>> /\ Record!Take(p) /\ context[p].registered
      /\ UNCHANGED <<known, phase, made, socketDrops, context>>
  BY DEF Record!OnGameMove, Record!Next1
<1>2. G \in Games /\ context \in [Player -> Contexts] /\ entry \in {<<>>} \union {<<x>> : x \in Games}
  BY GameType DEF RecordInv, RecordTypes
<1>3. CASE ~(entry # <<>> /\ G.players[p] # Record!Absent)
  <2>1. UNCHANGED <<entry, file>>
    BY <1>3 DEF Record!OnGameMove
  <2>2. Record!Game' = Record!Game
    BY <2>1 DEF Record!Game
  <2> QED
    BY <1>1, <1>2, <2>1, <2>2, PlainKeeps
<1>4. CASE entry # <<>> /\ G.players[p] # Record!Absent
  <2>1. /\ entry' = [entry EXCEPT ![1].countdown = GAME_EXPIRY_TICKS]
        /\ file' = IF G.open THEN Record!CommitMove(p) ELSE file
        /\ entry = <<G>>
    BY <1>4, GameType DEF Record!OnGameMove, RecordInv
  <2>2. g \in Games /\ g.open = G.open /\ g.players = G.players
    <3> HIDE DEF G
    <3> QED
      BY <1>2, RecordConstants DEF Games
  <2>3. entry' = <<g>>
    <3> HIDE DEF G
    <3> QED
      BY <2>1
  <2> HIDE DEF g
  <2>4. /\ entry' \in {<<>>} \union {<<x>> : x \in Games}
        /\ Record!Game'.open = G.open /\ Record!Game'.players = G.players
    BY <2>2, <2>3, Renewed
  <2>5. CASE ~G.open
    BY <1>1, <1>2, <2>1, <2>4, <2>5, PlainKeeps
  <2>6. CASE G.open
    <3>1. /\ file' \in Files /\ file'.state = file.state /\ file'.lockedIn = file.lockedIn
          /\ \A k \in 1..Len(file'.moves) : \A i \in 1..Len(file'.lockedIn) :
               file'.moves[k].by = file'.lockedIn[i] => file'.moves[k].sender = i
      BY <1>1, <1>4, <2>1, <2>6, CommitMoveKeeps
    <3>2. MovesOK'
      BY <3>1 DEF MovesOK
    <3>3. queue' = [queue EXCEPT ![p] = Tail(@)] /\ up' = up
      BY <1>1 DEF Record!Take
    <3>4. /\ queue' \in [Player -> Seq(Commands)]
          /\ \A q \in Player : Len(queue'[q]) <= MaxQueue + 1
          /\ \A q \in Player : q # p => queue'[q] = queue[q]
          /\ \A k \in 1..Len(queue'[p]) : queue'[p][k].id # "Hello"
          /\ up[p] /\ p \in known[p]
      BY <1>1, <3>3, TakeKeeps, Zenon
    <3>5. RecordTypes'
      BY <1>1, <1>2, <2>4, <3>1, <3>3, <3>4 DEF RecordInv, RecordTypes
    <3>6. ConnectionsOK'
      BY <1>1, <2>4, <3>3, <3>4 DEF RecordInv, ConnectionsOK
    <3>7. HelloFirst'
      BY <1>1, <2>4, <3>3, <3>4 DEF RecordInv, HelloFirst
    <3>8. HeadersOK'
      <4>1. \A i \in 1..Len(file.lockedIn) : Number(file.lockedIn[i])' = Number(file.lockedIn[i])
        BY <1>1, <2>4, <3>1 DEF Number
      <4> QED
        BY <2>4, <3>1, <4>1 DEF RecordInv, HeadersOK
    <3> QED
      BY <3>2, <3>5, <3>6, <3>7, <3>8 DEF RecordInv
  <2> QED
    BY <2>5, <2>6
<1> QED
  BY <1>3, <1>4

LEMMA TimerKeeps ==
  ASSUME RecordInv, Record!TimerEvent
  PROVE  RecordInv'
<1> DEFINE G == Record!Game
           g(n) == [G EXCEPT !.countdown = n]
<1>1. /\ entry # <<>> /\ UNCHANGED <<up, known, phase, made, queue, context, socketDrops>>
  BY DEF Record!TimerEvent, Record!clientVars
<1>2. G \in Games /\ entry = <<G>> /\ G.countdown \in 0..GAME_EXPIRY_TICKS
  BY <1>1, GameType, GameFields DEF RecordInv
<1>3. CASE \E n \in 0..GAME_EXPIRY_TICKS : entry' = <<g(n)>> /\ file' = file
  <2>1. PICK n \in 0..GAME_EXPIRY_TICKS : entry' = <<g(n)>> /\ file' = file
    BY <1>3
  <2>2. g(n) \in Games /\ g(n).open = G.open /\ g(n).players = G.players
    <3> HIDE DEF G
    <3> QED
      BY <1>2 DEF Games
  <2> HIDE DEF g
  <2>3. /\ entry' \in {<<>>} \union {<<x>> : x \in Games}
        /\ Record!Game'.open = G.open /\ Record!Game'.players = G.players
    BY <2>1, <2>2, Renewed
  <2>4. RecordTypes'
    BY <1>1, <2>1, <2>3 DEF RecordInv, RecordTypes
  <2>5. ConnectionsOK' /\ HelloFirst'
    BY <1>1, <2>3 DEF RecordInv, ConnectionsOK, HelloFirst
  <2>6. HeadersOK' /\ MovesOK'
    <3>1. \A q \in Player : Number(q)' = Number(q)
      BY <1>1, <2>3 DEF Number
    <3> QED
      BY <2>1, <2>3, <3>1, HeadersStay
  <2> QED
    BY <2>4, <2>5, <2>6 DEF RecordInv
<1>4. CASE /\ entry' = <<>>
           /\ file' = IF ~G.open THEN file
                      ELSE [file EXCEPT !.state = IF Len(file.moves) >= MinMoves THEN "final" ELSE "deleted"]
  <2> DEFINE end == IF Len(file.moves) >= MinMoves THEN "final" ELSE "deleted"
  <2>1. Record!Game' = Record!NewGame
    BY <1>4 DEF Record!Game
  <2>2. Record!Game'.open = FALSE /\ \A q \in Player : Record!Game'.players[q] = Record!Absent
    BY <2>1, NoEntry
  <2>3. file \in Files /\ (file.state = "part" <=> G.open) /\ G.open \in BOOLEAN
    BY <1>2, GameFields DEF RecordInv, RecordTypes, HeadersOK
  <2>4. end \in {"final", "deleted"} /\ file' = IF ~G.open THEN file ELSE [file EXCEPT !.state = end]
    BY <1>4
  <2> HIDE DEF end, G
  <2>5. file' \in Files /\ file'.state # "part" /\ file'.lockedIn = file.lockedIn /\ file'.moves = file.moves
    <3>1. CASE ~G.open
      BY <2>3, <2>4, <3>1
    <3>2. CASE G.open
      BY <2>3, <2>4, <3>2 DEF Files
    <3> QED
      BY <3>1, <3>2
  <2>6. RecordTypes'
    BY <1>1, <1>4, <2>5 DEF RecordInv, RecordTypes
  <2>7. ConnectionsOK' /\ HelloFirst'
    BY <1>1, <2>2, NoEntry DEF RecordInv, ConnectionsOK, HelloFirst
  <2>8. HeadersOK' /\ MovesOK'
    BY <2>2, <2>5 DEF RecordInv, HeadersOK, MovesOK
  <2> QED
    BY <2>6, <2>7, <2>8 DEF RecordInv
<1>5. (\E n \in 0..GAME_EXPIRY_TICKS : entry' = <<g(n)>> /\ file' = file)
      \/ (/\ entry' = <<>>
          /\ file' = IF ~G.open THEN file
                     ELSE [file EXCEPT !.state = IF Len(file.moves) >= MinMoves THEN "final" ELSE "deleted"])
  <2>1. entry[1] = G
    <3> HIDE DEF G
    <3> QED
      BY <1>2
  <2> HIDE DEF G
  <2>2. CASE ~Record!Expires(entry[1])
    <3>1. entry' = [entry EXCEPT ![1].countdown = @ - 1] /\ file' = file
      BY <2>2 DEF Record!TimerEvent
    <3>2. G.countdown - 1 \in 0..GAME_EXPIRY_TICKS
      BY <1>2, <2>1, <2>2, RecordConstants DEF Record!Expires
    <3>3. entry' = <<g(G.countdown - 1)>>
      BY <1>2, <3>1
    <3> QED
      BY <3>1, <3>2, <3>3
  <2>3. CASE Record!Expires(entry[1]) /\ entry[1].gameId = 0
    <3> DEFINE n == IF G.countdown = 0 THEN 0 ELSE G.countdown - 1
    <3>1. entry' = [entry EXCEPT ![1].countdown = IF @ = 0 THEN 0 ELSE @ - 1] /\ file' = file
      BY <2>3 DEF Record!TimerEvent, Record!CloseExpiredGame
    <3>2. n \in 0..GAME_EXPIRY_TICKS
      BY <1>2, RecordConstants
    <3>3. entry' = <<g(n)>>
      BY <1>2, <3>1
    <3> QED
      BY <3>1, <3>2, <3>3
  <2>4. CASE Record!Expires(entry[1]) /\ entry[1].gameId # 0
    BY <2>1, <2>4 DEF Record!TimerEvent, Record!CloseExpiredGame
  <2> QED
    BY <2>2, <2>3, <2>4
<1> QED
  BY <1>3, <1>4, <1>5

LEMMA RecordKept ==
  ASSUME RecordInv, Record!Next
  PROVE  RecordInv'
<1>1. CASE Record!TimerEvent
  BY <1>1, TimerKeeps
<1>2. ASSUME NEW p \in Player,
             \/ Record!OnReadyRead(p) \/ Record!OnPlayerInfo(p) \/ Record!OnUnitData(p)
             \/ Record!OnLoadingStarted(p) \/ Record!OnMove(p) \/ Record!Connect(p) \/ Record!Drop(p)
             \/ \E d \in Player : Record!OnDplayCreatePlayer(p, d)
      PROVE  RecordInv'
  <2>1. CASE Record!OnReadyRead(p)
    BY <2>1, HelloKeeps, ReconnectKeeps, PlainCommandKeeps, LoadingKeeps, MoveKeeps DEF Record!OnReadyRead
  <2>2. CASE \/ Record!OnPlayerInfo(p) \/ Record!OnUnitData(p) \/ Record!OnMove(p)
             \/ \E d \in Player : Record!OnDplayCreatePlayer(p, d)
    BY <2>2, ClientStepKeeps
  <2>3. CASE Record!OnLoadingStarted(p) \/ Record!Connect(p) \/ Record!Drop(p)
    BY <2>3, LoadingStartedKeeps, ConnectKeeps, DropKeeps
  <2> QED
    BY <1>2, <2>1, <2>2, <2>3
<1> QED
  BY <1>1, <1>2 DEF Record!Next

LEMMA RecordPartKeeps ==
  ASSUME part = "record" => RecordInv, [Next]_vars
  PROVE  (part = "record" => RecordInv)'
<1> SUFFICES ASSUME part' = "record" PROVE RecordInv'
  OBVIOUS
<1>1. part = "record" /\ RecordInv
  BY DEF Next, RelayNext, CompilerNext, DemoNext, UnitsNext, vars
<1>2. Record!Next \/ UNCHANGED compilerVars
  BY <1>1 DEF Next, RelayNext, CompilerNext, DemoNext, UnitsNext, vars
<1>3. CASE UNCHANGED compilerVars
  <2>1. /\ UNCHANGED <<up, known, phase, made, queue, context, entry, file, socketDrops>>
    BY <1>3 DEF compilerVars
  <2>2. Record!Game' = Record!Game
    BY <2>1 DEF Record!Game
  <2>3. RecordTypes' /\ ConnectionsOK' /\ HelloFirst'
    BY <1>1, <2>1, <2>2 DEF RecordInv, RecordTypes, ConnectionsOK, HelloFirst
  <2>4. HeadersOK' /\ MovesOK'
    BY <1>1, <2>1, <2>2, HeadersStay DEF Number
  <2> QED
    BY <2>3, <2>4 DEF RecordInv
<1> QED
  BY <1>1, <1>2, <1>3, RecordKept

LEMMA RecordAlways == Spec => [](part = "record" => RecordInv)
<1>1. Init => (part = "record" => RecordInv)
  BY RecordInit DEF Init
<1>2. (part = "record" => RecordInv) /\ [Next]_vars => (part = "record" => RecordInv)'
  BY RecordPartKeeps
<1> QED
  BY <1>1, <1>2, PTL DEF Spec

-----------------------------------------------------------------------------
(* What the invariant says of the numbers. *)
LEMMA RecordSays ==
  ASSUME RecordInv
  PROVE  Record!TypeOK /\ Record!NumbersStable /\ Record!MovesAttributed
<1>1. Record!TypeOK
  <2>1. ASSUME NEW p \in Player
        PROVE  /\ Len(queue[p]) <= MaxQueue + 1
               /\ \A k \in DOMAIN queue[p] : queue[p][k].id \in Record!CommandIds
    <3>1. queue[p] \in Seq(Commands) /\ Len(queue[p]) <= MaxQueue + 1
      BY DEF RecordInv, RecordTypes
    <3>2. \A k \in DOMAIN queue[p] : queue[p][k] \in Commands
      BY <3>1
    <3> QED
      BY <3>1, <3>2 DEF Commands
  <2>2. context \in [Player -> [registered : BOOLEAN, number : 0..Record!Cardinality(Player), info : BOOLEAN]]
    BY DEF RecordInv, RecordTypes, Contexts
  <2>3. /\ Len(entry) <= 1
        /\ \A i \in DOMAIN entry : /\ entry[i].gameId \in {0, 1}
                                   /\ entry[i].countdown \in 0..GAME_EXPIRY_TICKS
                                   /\ entry[i].open \in BOOLEAN
    <3>1. CASE entry = <<>>
      BY <3>1
    <3>2. CASE entry # <<>>
      <4>1. PICK g \in Games : entry = <<g>>
        BY <3>2 DEF RecordInv, RecordTypes
      <4>2. Len(entry) = 1 /\ DOMAIN entry = {1} /\ entry[1] = g
        BY <4>1
      <4> QED
        BY <4>2, GameFields
    <3> QED
      BY <3>1, <3>2
  <2>4. file.state \in {"none", "part", "final", "deleted"}
    BY DEF RecordInv, RecordTypes, Files
  <2> QED
    BY <2>1, <2>2, <2>3, <2>4 DEF RecordInv, RecordTypes, Record!TypeOK
<1>2. file.lockedIn \in LockIns /\ DOMAIN file.lockedIn = 1..Len(file.lockedIn)
      /\ DOMAIN file.moves = 1..Len(file.moves)
  BY LenProperties DEF RecordInv, RecordTypes, Files, LockIns
<1>3. Record!NumbersStable
  <2> SUFFICES ASSUME entry # <<>>, entry[1].open, NEW i \in DOMAIN file.lockedIn
               PROVE  Record!TableNumber(file.lockedIn[i]) = i
    BY DEF Record!NumbersStable
  <2>1. Record!Game = entry[1]
    BY DEF Record!Game
  <2>2. Number(file.lockedIn[i]) = i
    BY <1>2, <2>1 DEF RecordInv, HeadersOK
  <2> QED
    BY <2>1, <2>2 DEF Record!TableNumber, Number
<1>4. Record!MovesAttributed
  <2> SUFFICES ASSUME NEW k \in DOMAIN file.moves, file.moves[k].by \in Record!Range(file.lockedIn)
               PROVE  file.moves[k].sender = Record!NumberOf(file.lockedIn, file.moves[k].by)
    BY DEF Record!MovesAttributed
  <2>1. PICK i \in 1..Len(file.lockedIn) : file.moves[k].by = file.lockedIn[i]
    BY <1>2 DEF Record!Range
  <2>2. file.moves[k].sender = i
    BY <1>2, <2>1 DEF RecordInv, MovesOK
  <2> QED
    BY <1>2, <2>1, <2>2, NumberIsIndex
<1> QED
  BY <1>1, <1>3, <1>4

(* However often the players' connections break before, while and after    *)
(* the game is loaded, and whoever loads first: a locked-in player keeps   *)
(* the number the headers gave it, and every move in the file carries the  *)
(* number of the player who made it (onReadyRead's Reconnect, commitHeaders *)
(* and commitMove), for any number of players, drops and moves.            *)
THEOREM PlayersKeepNumbers == Spec => []NumbersKept
<1>1. (part = "record" => RecordInv) => NumbersKept
  BY RecordSays DEF NumbersKept
<1> QED
  BY <1>1, RecordAlways, PTL

(* A sequence is a prefix of itself and of every longer one that agrees    *)
(* with it.                                                                *)
LEMMA PrefixOf ==
  ASSUME NEW S, NEW s \in Seq(S), NEW t \in Seq(S), Len(s) <= Len(t),
         \A k \in 1..Len(s) : t[k] = s[k]
  PROVE  Record!IsPrefix(s, t)
<1>1. Len(s) \in Nat /\ Len(t) \in Nat
  BY LenProperties
<1>2. SubSeq(s, 1, Len(s)) = SubSeq(t, 1, Len(s))
  BY <1>1
<1> QED
  BY <1>2 DEF Record!IsPrefix

(* A step of the compiler that finds a recording in progress keeps what is *)
(* in it.                                                                  *)
LEMMA FileGrows ==
  ASSUME RecordInv, Record!Next \/ UNCHANGED compilerVars, file.state = "part", entry # <<>>
  PROVE  Record!IsPrefix(file.moves, file'.moves)
<1>1. file.moves \in Seq(Moves) /\ Len(file.moves) \in Nat /\ file \in Files
  BY LenProperties DEF RecordInv, RecordTypes, Files
<1>2. CASE file'.moves = file.moves
  BY <1>1, <1>2, PrefixOf
<1>3. Record!Game.open /\ entry[1].open
  BY DEF RecordInv, HeadersOK, Record!Game
<1>4. ASSUME NEW p \in Player, Record!OnGamePlayerLoading(p) PROVE file' = file
  <2>1. ~Record!CommitsHeaders(Head(queue[p]).players)
    BY <1>3 DEF Record!CommitsHeaders
  <2> QED
    BY <1>4, <2>1 DEF Record!OnGamePlayerLoading
<1>5. ASSUME NEW p \in Player, Record!OnGameMove(p), file' # file
      PROVE  Record!IsPrefix(file.moves, file'.moves)
  <2>1. /\ queue[p] # <<>> /\ context[p].registered /\ Record!Game.players[p] # Record!Absent
        /\ file' = Record!CommitMove(p)
    BY <1>5 DEF Record!OnGameMove, Record!Next1
  <2>2. /\ file' \in Files /\ Len(file'.moves) = Len(file.moves) + 1
        /\ \A k \in 1..Len(file.moves) : file'.moves[k] = file.moves[k]
    BY <1>3, <2>1, CommitMoveKeeps
  <2>3. file'.moves \in Seq(Moves) /\ Len(file.moves) <= Len(file'.moves)
    BY <1>1, <2>2 DEF Files
  <2> QED
    BY <1>1, <2>2, <2>3, PrefixOf
<1>6. CASE Record!TimerEvent
  <2>1. file' = file \/ \E x : file' = [file EXCEPT !.state = x]
    BY <1>6 DEF Record!TimerEvent, Record!CloseExpiredGame
  <2>2. file'.moves = file.moves
    BY <1>1, <2>1 DEF Files
  <2> QED
    BY <1>2, <2>2
<1>7. ASSUME NEW p \in Player,
             \/ Record!OnHello(p) \/ Record!OnReconnect(p) \/ Record!OnUnregistered(p)
             \/ Record!OnGameInfo(p) \/ Record!OnGamePlayer(p) \/ Record!OnGameUnitData(p)
             \/ Record!OnPlayerInfo(p) \/ Record!OnUnitData(p) \/ Record!OnLoadingStarted(p)
             \/ Record!OnMove(p) \/ Record!Connect(p) \/ Record!Drop(p)
             \/ \E d \in Player : Record!OnDplayCreatePlayer(p, d)
      PROVE  file' = file
  BY <1>7, Zenon DEF Record!OnHello, Record!OnReconnect, Record!OnUnregistered, Record!OnGameInfo,
              Record!OnGamePlayer, Record!OnGameUnitData, Record!OnPlayerInfo, Record!OnUnitData,
              Record!OnLoadingStarted, Record!OnMove, Record!Connect, Record!Drop,
              Record!OnDplayCreatePlayer
<1>8. CASE UNCHANGED compilerVars
  BY <1>2, <1>8 DEF compilerVars
<1> QED
  BY <1>2, <1>4, <1>5, <1>6, <1>7, <1>8 DEF Record!Next, Record!OnReadyRead

(* A late or repeated GamePlayerLoading, which would open the file anew    *)
(* and truncate it, throws nothing away of a recording (onReadyRead).      *)
THEOREM RecordingNeverTruncated == Spec => RecordingOnlyGrows
<1>1. (part = "record" => RecordInv) /\ [Next]_vars =>
        [(part = "record" /\ file.state = "part" /\ entry # <<>>)
           => Record!IsPrefix(file.moves, file'.moves)]_vars
  <2> SUFFICES ASSUME RecordInv, part = "record", file.state = "part", entry # <<>>, [Next]_vars
               PROVE  Record!IsPrefix(file.moves, file'.moves)
    OBVIOUS
  <2>1. Record!Next \/ UNCHANGED compilerVars
    BY DEF Next, RelayNext, CompilerNext, DemoNext, UnitsNext, vars
  <2> QED
    BY <2>1, FileGrows
<1> QED
  BY <1>1, RecordAlways, PTL DEF Spec, RecordingOnlyGrows

-----------------------------------------------------------------------------
(* DemoFile *)

LEMMA DemoConstants ==
  /\ Base \in Nat /\ Base > 1 /\ MaxRecordLength \in Nat
  /\ \A n \in Sizes : n \in Nat
  /\ NumPlayers \in Nat /\ NumPlayers >= 1
BY ConstantsAssumption DEF Demo!ConstantsOK

Kinds == {"Header", "ExtraHeader", "ExtraSector", "Player", "PlayerStatusMessage", "UnitData",
          "Packet"}

(* The records in the file, as bytes. *)
Recs == [i \in DOMAIN written |-> Demo!Bytes(i)]

(* Where record i ends. *)
EndOf(i) == Len(FlatUpTo(Recs, i))

(* The records have the kinds that the format prescribes. *)
WrittenOK ==
  /\ written \in Seq([kind : Kinds, size : Nat]) /\ Len(written) > 4 + 3 * NumPlayers
  /\ \A i \in 1..Len(written) : written[i].kind = Demo!ExpectedKind(i - 1)

(* The reader, at r.pos, is in the record that follows the n handled ones, *)
(* as far as its state says.                                               *)
Readers ==
  [state : {"READ_RECLEN1", "READ_RECLEN2", "READ_RECORD"}, length : Seq(Nat), buffer : Seq(Nat)]

Between(r, n) == r.reader.state = "READ_RECLEN1" /\ r.pos = EndOf(n)

InLength(r, n) ==
  /\ r.reader.state = "READ_RECLEN2" /\ n < Len(written)
  /\ r.reader.length = <<Demo!Bytes(n + 1)[1]>>
  /\ r.pos = EndOf(n) + 1

InRecord(r, n) ==
  /\ r.reader.state = "READ_RECORD" /\ n < Len(written)
  /\ r.reader.length = <<Demo!Bytes(n + 1)[1], Demo!Bytes(n + 1)[2]>>
  /\ Len(r.reader.buffer) <= written[n + 1].size
  /\ \A k \in 1..Len(r.reader.buffer) : r.reader.buffer[k] = Base + (n + 1)
  /\ r.pos = EndOf(n) + 2 + Len(r.reader.buffer)

ReaderAt(r, n) == r.reader \in Readers /\ (Between(r, n) \/ InLength(r, n) \/ InRecord(r, n))

Now == [reader |-> reader, pos |-> pos]

Handled(i) ==
  /\ handled[i].kind = written[i].kind
  /\ handled[i].payload = [k \in 1..written[i].size |-> Base + i]

DemoInv ==
  /\ WrittenOK
  /\ visible \in 0..Len(Demo!File) /\ pos \in 0..visible
  /\ handled \in Seq([kind : Kinds, payload : Seq(Nat)]) /\ Len(handled) <= Len(written)
  /\ failed \in BOOLEAN
  /\ \A i \in 1..Len(handled) : Handled(i)
  /\ reader \in Readers
  /\ ~failed => /\ ReaderAt(Now, Len(handled))
                /\ reader.state = "READ_RECORD" =>
                     /\ written[Len(handled) + 1].size + 2 \in 3..MaxRecordLength
                     /\ Len(reader.buffer) < written[Len(handled) + 1].size
  /\ failed => /\ Len(handled) < Len(written)
               /\ written[Len(handled) + 1].size + 2 \notin 3..MaxRecordLength

-----------------------------------------------------------------------------
(* A number is put together again from its remainder and its quotient. *)
LEMMA TwoBytes ==
  ASSUME NEW n \in Nat, NEW b \in Nat, b > 1
  PROVE  n % b \in Nat /\ n \div b \in Nat /\ (n % b) + (n \div b) * b = n
OBVIOUS

LEMMA BytesAre ==
  ASSUME WrittenOK, NEW i \in 1..Len(written)
  PROVE  /\ written[i].size \in Nat
         /\ Demo!Bytes(i) \in Seq(Nat) /\ Len(Demo!Bytes(i)) = written[i].size + 2
         /\ Demo!Bytes(i)[1] + Demo!Bytes(i)[2] * Base = written[i].size + 2
         /\ \A k \in 1..written[i].size : Demo!Bytes(i)[2 + k] = Base + i
<1> DEFINE n == 2 + written[i].size
           head == <<n % Base, n \div Base>>
           load == [k \in 1..written[i].size |-> Base + i]
<1>1. written[i] \in [kind : Kinds, size : Nat] /\ i \in Nat
  <2>1. written \in Seq([kind : Kinds, size : Nat])
    BY DEF WrittenOK
  <2>2. written[i] \in [kind : Kinds, size : Nat]
    BY <2>1, ElementOfSeq, Zenon
  <2>3. Len(written) \in Nat
    BY <2>1, LenProperties, Zenon
  <2> QED
    BY <2>2, <2>3
<1>2. written[i].size \in Nat /\ n \in Nat
  BY <1>1
<1>3. n % Base \in Nat /\ n \div Base \in Nat /\ (n % Base) + (n \div Base) * Base = n
  BY <1>2, DemoConstants, TwoBytes, Zenon
<1>4. head \in Seq(Nat) /\ Len(head) = 2 /\ head[1] = n % Base /\ head[2] = n \div Base
  BY <1>3
<1>5. load \in Seq(Nat) /\ Len(load) = written[i].size /\ \A k \in 1..written[i].size : load[k] = Base + i
  BY <1>1, <1>2, DemoConstants
<1>6. Demo!Bytes(i) = head \o load
  BY DEF Demo!Bytes
<1> HIDE DEF head, load, n
<1>7. /\ head \o load \in Seq(Nat) /\ Len(head \o load) = Len(head) + Len(load)
      /\ \A k \in 1..(Len(head) + Len(load)) :
           (head \o load)[k] = IF k <= Len(head) THEN head[k] ELSE load[k - Len(head)]
  BY <1>4, <1>5, ConcatProperties
<1>8. n = 2 + written[i].size
  BY DEF n
<1>9. ASSUME NEW k \in 1..written[i].size PROVE Demo!Bytes(i)[2 + k] = Base + i
  <2>1. 2 + k \in 1..(Len(head) + Len(load)) /\ ~(2 + k <= Len(head)) /\ (2 + k) - Len(head) = k
    BY <1>2, <1>4, <1>5
  <2> QED
    BY <1>5, <1>6, <1>7, <2>1, Zenon
<1>10. Demo!Bytes(i)[1] = n % Base /\ Demo!Bytes(i)[2] = n \div Base
  <2>1. 1 \in 1..(Len(head) + Len(load)) /\ 2 \in 1..(Len(head) + Len(load)) /\ 1 <= Len(head) /\ 2 <= Len(head)
    BY <1>2, <1>4, <1>5
  <2> QED
    BY <1>4, <1>6, <1>7, <2>1, Zenon
<1>11. Len(Demo!Bytes(i)) = written[i].size + 2 /\ Demo!Bytes(i) \in Seq(Nat)
  <2>1. Len(Demo!Bytes(i)) = 2 + written[i].size
    BY <1>4, <1>5, <1>6, <1>7, Zenon
  <2> QED
    BY <1>2, <1>6, <1>7, <2>1
<1>12. Demo!Bytes(i)[1] + Demo!Bytes(i)[2] * Base = n
  BY <1>3, <1>10, Zenon
<1>13. n = written[i].size + 2
  BY <1>2, <1>8
<1> QED
  BY <1>2, <1>9, <1>11, <1>12, <1>13, Zenon

LEMMA ByteIsNat ==
  ASSUME WrittenOK, NEW i \in 1..Len(written)
  PROVE  Demo!Bytes(i)[1] \in Nat /\ Demo!Bytes(i)[2] \in Nat
<1>1. /\ Demo!Bytes(i) \in Seq(Nat) /\ Len(Demo!Bytes(i)) = written[i].size + 2
      /\ written[i].size \in Nat
  BY BytesAre, Zenon
<1>2. 1 \in 1..Len(Demo!Bytes(i)) /\ 2 \in 1..Len(Demo!Bytes(i))
  BY <1>1
<1> QED
  BY <1>1, <1>2, ElementOfSeq, Zenon

LEMMA AppendOne ==
  ASSUME NEW x, NEW y
  PROVE  Append(<<x>>, y) = <<x, y>>
<1> DEFINE S == {x, y}
           s == <<x>>
           t == <<x, y>>
<1>1. s \in Seq(S) /\ t \in Seq(S) /\ y \in S /\ Len(s) = 1 /\ Len(t) = 2 /\ s[1] = x
      /\ t[1] = x /\ t[2] = y
  OBVIOUS
<1> HIDE DEF S, s, t
<1> DEFINE a == Append(s, y)
<1>2. /\ a \in Seq(S) /\ Len(a) = Len(s) + 1 /\ \A i \in 1..Len(s) : a[i] = s[i]
      /\ a[Len(s) + 1] = y
  <2>1. s \in Seq(S) /\ y \in S
    BY <1>1, Zenon
  <2> QED
    BY <2>1, AppendProperties
<1> HIDE DEF a
<1>3. Len(a) = 2 /\ a[1] = x /\ a[2] = y
  BY <1>1, <1>2
<1>4. \A i \in 1..Len(a) : a[i] = t[i]
  BY <1>1, <1>3
<1>5. a = t
  BY <1>1, <1>2, <1>3, <1>4, SeqEqual, Zenon
<1> QED
  BY <1>5 DEF a, s, t

LEMMA RecsAre ==
  ASSUME WrittenOK
  PROVE  /\ Recs \in Seq(Seq(Nat)) /\ Len(Recs) = Len(written) /\ Len(written) \in Nat
         /\ \A i \in 1..Len(written) : Recs[i] = Demo!Bytes(i)
<1>1. Len(written) \in Nat /\ DOMAIN written = 1..Len(written)
  BY LenProperties DEF WrittenOK
<1>2. ASSUME NEW i \in 1..Len(written) PROVE Demo!Bytes(i) \in Seq(Nat)
  BY BytesAre
<1> QED
  BY <1>1, <1>2 DEF Recs

(* The file is the concatenation of the records. *)
LEMMA FileIsFlat == Demo!File = Flat(Recs)
BY DEF Demo!File, Demo!FlattenSeq, Flat, Flattened, Recs

(* Where the records and their bytes are in the file. *)
LEMMA FileIs ==
  ASSUME WrittenOK
  PROVE  /\ Len(Demo!File) \in Nat /\ Demo!File \in Seq(Nat) /\ EndOf(0) = 0
         /\ EndOf(Len(written)) = Len(Demo!File)
         /\ \A i \in 0..Len(written) : EndOf(i) \in Nat
         /\ \A i \in 1..Len(written) :
              /\ EndOf(i) = EndOf(i - 1) + written[i].size + 2
              /\ EndOf(i) <= Len(Demo!File)
              /\ \A k \in 1..(written[i].size + 2) : Demo!File[EndOf(i - 1) + k] = Demo!Bytes(i)[k]
<1>1. /\ Recs \in Seq(Seq(Nat)) /\ Len(Recs) = Len(written) /\ Len(written) \in Nat
      /\ \A i \in 1..Len(written) : Recs[i] = Demo!Bytes(i)
  BY RecsAre
<1>2. /\ Flat(Recs) = FlatUpTo(Recs, Len(Recs)) /\ FlatUpTo(Recs, 0) = <<>>
      /\ \A i \in 0..Len(Recs) : FlatUpTo(Recs, i) \in Seq(Nat) /\ Len(FlatUpTo(Recs, i)) \in Nat
  BY <1>1, FlatUpToIs, Zenon
<1>3. ASSUME NEW i \in 1..Len(written)
      PROVE  /\ EndOf(i) = EndOf(i - 1) + written[i].size + 2
             /\ EndOf(i) <= Len(Demo!File)
             /\ \A k \in 1..(written[i].size + 2) : Demo!File[EndOf(i - 1) + k] = Demo!Bytes(i)[k]
  <2>1. i \in 1..Len(Recs) /\ Recs[i] = Demo!Bytes(i)
    BY <1>1, Zenon
  <2>2. /\ Len(FlatUpTo(Recs, i)) = Len(FlatUpTo(Recs, i - 1)) + Len(Recs[i])
        /\ Len(FlatUpTo(Recs, i)) <= Len(Flat(Recs))
        /\ \A k \in 1..Len(Recs[i]) : Flat(Recs)[Len(FlatUpTo(Recs, i - 1)) + k] = Recs[i][k]
    BY <1>1, <2>1, FlatAt, Zenon
  <2>3. Len(Demo!Bytes(i)) = written[i].size + 2 /\ written[i].size \in Nat
    BY BytesAre
  <2>4. i - 1 \in 0..Len(Recs)
    BY <1>1
  <2>5. Len(FlatUpTo(Recs, i - 1)) \in Nat
    BY <1>2, <2>4, Zenon
  <2> HIDE DEF EndOf
  <2>6. EndOf(i) = EndOf(i - 1) + (written[i].size + 2) /\ EndOf(i - 1) \in Nat
    BY <2>1, <2>2, <2>3, <2>5, Zenon DEF EndOf
  <2>7. EndOf(i) <= Len(Demo!File)
    BY <2>2, FileIsFlat, Zenon DEF EndOf
  <2>8. \A k \in 1..(written[i].size + 2) : Demo!File[EndOf(i - 1) + k] = Demo!Bytes(i)[k]
    BY <2>1, <2>2, <2>3, FileIsFlat, Zenon DEF EndOf
  <2> QED
    BY <2>3, <2>6, <2>7, <2>8
<1>4. EndOf(0) = 0
  BY <1>2 DEF EndOf
<1>5. EndOf(Len(written)) = Len(Demo!File)
  BY <1>1, <1>2, FileIsFlat, Zenon DEF EndOf
<1>6. \A i \in 0..Len(written) : EndOf(i) \in Nat
  BY <1>1, <1>2, Zenon DEF EndOf
<1>7. Demo!File \in Seq(Nat)
  <2>1. Len(Recs) \in 0..Len(Recs)
    BY <1>1
  <2> QED
    BY <1>2, <2>1, FileIsFlat, Zenon
<1>8. Len(Demo!File) \in Nat
  BY <1>7, LenProperties
<1> QED
  BY <1>3, <1>4, <1>5, <1>6, <1>7, <1>8, Zenon

-----------------------------------------------------------------------------
(* The reader moves on within the record: RecordReader's three ifs. *)

(* Between records and at the end of the file there is nothing to see. *)
LEMMA MoreToRead ==
  ASSUME WrittenOK, NEW n \in Nat, n <= Len(written), NEW p \in Nat, p < Len(Demo!File), p = EndOf(n)
  PROVE  n < Len(written)
BY FileIs

LEMMA Len1Keeps ==
  ASSUME WrittenOK, visible \in 0..Len(Demo!File), NEW n \in Nat, n <= Len(written),
         NEW r, r.pos \in 0..visible, ReaderAt(r, n)
  PROVE  /\ ReaderAt(Demo!ReadLen1(r), n)
         /\ Demo!ReadLen1(r).pos \in 0..visible /\ Demo!ReadLen1(r).pos >= r.pos
         /\ Demo!ReadLen1(r) = r \/ Demo!ReadLen1(r).reader.state = "READ_RECLEN2"
<1>1. CASE ~(r.reader.state = "READ_RECLEN1" /\ r.pos < visible)
  <2>1. Demo!ReadLen1(r) = r
    BY <1>1 DEF Demo!ReadLen1
  <2> QED
    BY <2>1
<1>2. CASE r.reader.state = "READ_RECLEN1" /\ r.pos < visible
  <2> DEFINE q == Demo!ReadLen1(r)
  <2>0. r.reader \in Readers
    BY DEF ReaderAt
  <2>1. /\ q.pos = r.pos + 1 /\ q.reader.state = "READ_RECLEN2"
        /\ q.reader.length = <<Demo!File[r.pos + 1]>> /\ q.reader.buffer = r.reader.buffer
        /\ q.reader = [state |-> q.reader.state, length |-> q.reader.length, buffer |-> q.reader.buffer]
    BY <1>2, <2>0 DEF Demo!ReadLen1, Readers
  <2>2. r.pos = EndOf(n) /\ r.pos \in Nat
    <3>1. r.pos = EndOf(n) /\ Len(written) \in Nat
      BY <1>2, RecsAre DEF ReaderAt, Between, InLength, InRecord
    <3> QED
      BY <3>1, FileIs
  <2>3. r.pos < Len(Demo!File)
    BY <1>2, FileIs
  <2>4. n < Len(written)
    BY <2>2, <2>3, MoreToRead
  <2>5. Len(written) \in Nat
    BY RecsAre
  <2>6. n + 1 \in 1..Len(written) /\ (n + 1) - 1 = n
    BY <2>4, <2>5
  <2>7. written[n + 1].size \in Nat
    BY <2>6, BytesAre
  <2>8. 1 \in 1..(written[n + 1].size + 2)
    BY <2>7
  <2>9. Demo!File[EndOf((n + 1) - 1) + 1] = Demo!Bytes(n + 1)[1]
    BY <2>6, <2>8, FileIs, Zenon
  <2>10. Demo!File[r.pos + 1] = Demo!Bytes(n + 1)[1]
    BY <2>2, <2>6, <2>9, Zenon
  <2> HIDE DEF q
  <2>11. InLength(q, n)
    BY <2>1, <2>2, <2>4, <2>10 DEF InLength
  <2>12. q.pos \in 0..visible /\ q.pos >= r.pos
    BY <1>2, <2>1, <2>2
  <2>13. q.reader \in Readers
    <3>1. Demo!File[r.pos + 1] \in Nat
      BY <2>6, <2>10, ByteIsNat, Zenon
    <3>2. q.reader.length \in Seq(Nat) /\ q.reader.buffer \in Seq(Nat)
      BY <2>0, <2>1, <3>1 DEF Readers
    <3> QED
      BY <2>1, <3>2 DEF Readers
  <2> QED
    BY <2>1, <2>11, <2>12, <2>13 DEF q, ReaderAt
<1> QED
  BY <1>1, <1>2

LEMMA Len2Keeps ==
  ASSUME WrittenOK, visible \in 0..Len(Demo!File), NEW n \in Nat, n <= Len(written),
         NEW r, r.pos \in 0..visible, ReaderAt(r, n)
  PROVE  /\ ReaderAt(Demo!ReadLen2(r), n)
         /\ Demo!ReadLen2(r).pos \in 0..visible /\ Demo!ReadLen2(r).pos >= r.pos
         /\ Demo!ReadLen2(r) = r \/ r.reader.state = "READ_RECLEN2"
<1>1. CASE ~(r.reader.state = "READ_RECLEN2" /\ r.pos < visible)
  <2>1. Demo!ReadLen2(r) = r
    BY <1>1 DEF Demo!ReadLen2
  <2> QED
    BY <2>1
<1>2. CASE r.reader.state = "READ_RECLEN2" /\ r.pos < visible
  <2> DEFINE q == Demo!ReadLen2(r)
  <2>1. /\ q.pos = r.pos + 1 /\ q.reader.state = "READ_RECORD"
        /\ q.reader.length = Append(r.reader.length, Demo!File[r.pos + 1])
        /\ q.reader.buffer = <<>>
        /\ q.reader = [state |-> q.reader.state, length |-> q.reader.length, buffer |-> q.reader.buffer]
    BY <1>2 DEF Demo!ReadLen2
  <2>2. InLength(r, n)
    BY <1>2 DEF ReaderAt, Between, InLength, InRecord
  <2>3. /\ r.pos = EndOf(n) + 1 /\ n < Len(written) /\ r.pos \in Nat
        /\ r.reader.length = <<Demo!Bytes(n + 1)[1]>>
    BY <2>2, FileIs DEF InLength
  <2>4. EndOf(n) \in Nat /\ Len(written) \in Nat
    BY FileIs, RecsAre
  <2>5. n + 1 \in 1..Len(written) /\ (n + 1) - 1 = n
    BY <2>3, <2>4
  <2>6. written[n + 1].size \in Nat
    BY <2>5, BytesAre
  <2>7. 2 \in 1..(written[n + 1].size + 2)
    BY <2>6
  <2>8. Demo!File[EndOf((n + 1) - 1) + 2] = Demo!Bytes(n + 1)[2]
    BY <2>5, <2>7, FileIs, Zenon
  <2>9. r.pos + 1 = EndOf((n + 1) - 1) + 2
    BY <2>3, <2>4, <2>5
  <2>10. Demo!File[r.pos + 1] = Demo!Bytes(n + 1)[2]
    BY <2>8, <2>9, Zenon
  <2>11. q.reader.length = <<Demo!Bytes(n + 1)[1], Demo!Bytes(n + 1)[2]>>
    <3> HIDE DEF q
    <3>1. q.reader.length = Append(<<Demo!Bytes(n + 1)[1]>>, Demo!Bytes(n + 1)[2])
      BY <2>1, <2>3, <2>10, Zenon
    <3> QED
      BY <3>1, AppendOne, Zenon
  <2> HIDE DEF q
  <2>12. Len(q.reader.buffer) = 0 /\ q.reader.buffer \in Seq(Nat)
    BY <2>1
  <2>13. q.pos = EndOf(n) + 2 + Len(q.reader.buffer)
    BY <2>1, <2>3, <2>4, <2>12
  <2>14. InRecord(q, n)
    <3> DEFINE len == Len(q.reader.buffer)
    <3>1. len <= written[n + 1].size /\ ~\E k \in 1..len : TRUE
      BY <2>6, <2>12
    <3> QED
      BY <2>1, <2>3, <2>11, <2>13, <3>1, Zenon DEF InRecord
  <2>15. q.pos \in 0..visible /\ q.pos >= r.pos
    <3>1. visible \in Nat
      BY FileIs
    <3> QED
      BY <1>2, <2>1, <2>3, <3>1
  <2>16. q.reader \in Readers
    <3>1. Demo!Bytes(n + 1)[1] \in Nat /\ Demo!Bytes(n + 1)[2] \in Nat
      BY <2>5, ByteIsNat, Zenon
    <3>2. q.reader.length \in Seq(Nat)
      BY <2>11, <3>1
    <3> QED
      BY <2>1, <2>12, <3>2 DEF Readers
  <2> QED
    BY <1>2, <2>14, <2>15, <2>16 DEF q, ReaderAt
<1> QED
  BY <1>1, <1>2

(* The length that was read is the length of the record. *)
LEMMA LengthIs ==
  ASSUME WrittenOK, NEW n \in Nat, NEW r, InRecord(r, n)
  PROVE  Demo!Length(r) = written[n + 1].size + 2 /\ written[n + 1].size \in Nat
         /\ n + 1 \in 1..Len(written)
<1>1. Len(written) \in Nat /\ n < Len(written)
  BY RecsAre DEF InRecord
<1>2. n + 1 \in 1..Len(written)
  BY <1>1
<1>3. /\ Demo!Bytes(n + 1)[1] + Demo!Bytes(n + 1)[2] * Base = written[n + 1].size + 2
      /\ written[n + 1].size \in Nat
  BY <1>2, BytesAre
<1>4. r.reader.length = <<Demo!Bytes(n + 1)[1], Demo!Bytes(n + 1)[2]>>
  BY DEF InRecord
<1>5. r.reader.length[1] = Demo!Bytes(n + 1)[1] /\ r.reader.length[2] = Demo!Bytes(n + 1)[2]
  BY <1>4
<1>6. Demo!Length(r) = Demo!Bytes(n + 1)[1] + Demo!Bytes(n + 1)[2] * Base
  BY <1>5, Zenon DEF Demo!Length
<1> QED
  BY <1>2, <1>3, <1>6

(* The bytes that ReadRecord takes: no more than the record wants and no   *)
(* more than the file shows.                                               *)
TakenOK(e, size, have, p, see, all, m) ==
  /\ m \in Nat /\ have + m <= size /\ p + m \in 0..see /\ p + m = e + 2 + (have + m)
  /\ p + 1 \in Int /\ p + m \in Int
  /\ (p + m) - (p + 1) + 1 = m
  /\ \A i \in (p + 1)..(p + m) : i \in 1..all
  /\ \A k \in 1..m : /\ have + k \in 1..size /\ 2 + (have + k) \in 1..(size + 2)
                     /\ p + k = e + (2 + (have + k))
                     /\ (p + 1) + k - 1 = p + k

LEMMA TakenBytes ==
  ASSUME NEW e \in Nat, NEW size \in Nat, NEW have \in Nat, have <= size,
         NEW p \in Nat, p = e + 2 + have, NEW see \in Nat, p <= see, NEW all \in Nat, see <= all,
         NEW m, m = IF (size + 2) - 2 - have < see - p THEN (size + 2) - 2 - have ELSE see - p
  PROVE  TakenOK(e, size, have, p, see, all, m)
<1>1. (size + 2) - 2 - have = size - have
  OBVIOUS
<1>2. m \in Nat /\ m <= size - have /\ m <= see - p
  BY <1>1
<1>3. have + m <= size /\ p + m \in 0..see
  BY <1>2
<1>4. p + m = e + 2 + (have + m) /\ (p + m) - (p + 1) + 1 = m
  BY <1>2
<1>5. \A i \in (p + 1)..(p + m) : i \in 1..all
  BY <1>2, <1>3
<1>6. ASSUME NEW k \in 1..m
      PROVE  have + k \in 1..size /\ 2 + (have + k) \in 1..(size + 2) /\ p + k = e + (2 + (have + k))
             /\ (p + 1) + k - 1 = p + k
  BY <1>2, <1>3
<1>7. p + 1 \in Int /\ p + m \in Int
  BY <1>2
<1> QED
  BY <1>2, <1>3, <1>4, <1>5, <1>6, <1>7, Zenon DEF TakenOK

LEMMA SubSeqOf ==
  ASSUME NEW f \in Seq(Nat), NEW a \in Int, NEW b \in Int, NEW m \in Nat, b - a + 1 = m,
         \A i \in a..b : i \in 1..Len(f)
  PROVE  /\ SubSeq(f, a, b) \in Seq(Nat) /\ Len(SubSeq(f, a, b)) = m
         /\ \A k \in 1..m : SubSeq(f, a, b)[k] = f[a + k - 1]
<1>1. \A i \in a..b : f[i] \in Nat
  BY ElementOfSeq, Zenon
<1> DEFINE s == SubSeq(f, a, b)
<1>2. /\ s \in Seq(Nat) /\ Len(s) = IF a <= b THEN b - a + 1 ELSE 0
      /\ \A i \in 1..(b - a + 1) : s[i] = f[a + i - 1]
  BY <1>1, SubSeqProperties
<1> HIDE DEF s
<1>3. (IF a <= b THEN b - a + 1 ELSE 0) = m
  OBVIOUS
<1>4. Len(s) = m /\ \A k \in 1..m : s[k] = f[a + k - 1]
  BY <1>2, <1>3, Zenon
<1> QED
  BY <1>2, <1>4 DEF s

LEMMA RecordKeeps ==
  ASSUME WrittenOK, visible \in 0..Len(Demo!File), NEW n \in Nat, n <= Len(written),
         NEW r, r.pos \in 0..visible, InRecord(r, n), r.reader \in Readers
  PROVE  /\ InRecord(Demo!ReadRecord(r), n) /\ Demo!ReadRecord(r).reader \in Readers
         /\ Demo!ReadRecord(r).pos \in 0..visible
<1> DEFINE q == Demo!ReadRecord(r)
           size == written[n + 1].size
           buf == r.reader.buffer
           have == Len(buf)
           e == EndOf(n)
           p == r.pos
           all == Len(Demo!File)
           m == IF (size + 2) - 2 - have < visible - p THEN (size + 2) - 2 - have ELSE visible - p
           more == SubSeq(Demo!File, p + 1, p + m)
<1>1. Demo!Length(r) = size + 2 /\ size \in Nat /\ n + 1 \in 1..Len(written) /\ (n + 1) - 1 = n
  <2>1. (n + 1) - 1 = n
    OBVIOUS
  <2> QED
    BY <2>1, LengthIs, Zenon
<1>2. /\ r.reader.state = "READ_RECORD" /\ n < Len(written) /\ p = e + 2 + have
      /\ have <= size
      /\ \A k \in 1..have : buf[k] = Base + (n + 1)
  BY Zenon DEF InRecord
<1>3. buf \in Seq(Nat) /\ have \in Nat
  <2>1. buf \in Seq(Nat)
    BY DEF Readers
  <2> QED
    BY <2>1, LenProperties, Zenon
<1>4. e \in Nat /\ all \in Nat /\ Demo!File \in Seq(Nat)
  <2>1. Len(written) \in Nat
    BY RecsAre
  <2>2. n \in 0..Len(written)
    BY <2>1
  <2> QED
    BY <2>2, FileIs, Zenon
<1>5. visible \in Nat /\ p \in Nat /\ p <= visible /\ visible <= all
  BY <1>4
<1>6. /\ m \in Nat /\ have + m <= size /\ p + m \in 0..visible /\ p + m = e + 2 + (have + m)
      /\ p + 1 \in Int /\ p + m \in Int
      /\ (p + m) - (p + 1) + 1 = m
      /\ \A i \in (p + 1)..(p + m) : i \in 1..all
      /\ \A k \in 1..m : /\ have + k \in 1..size /\ 2 + (have + k) \in 1..(size + 2)
                         /\ p + k = e + (2 + (have + k))
                         /\ (p + 1) + k - 1 = p + k
  <2>1. m = IF (size + 2) - 2 - have < visible - p THEN (size + 2) - 2 - have ELSE visible - p
    OBVIOUS
  <2> HIDE DEF m, size, have, e, p, all
  <2>2. /\ e \in Nat /\ size \in Nat /\ have \in Nat /\ have <= size /\ p \in Nat /\ p = e + 2 + have
        /\ visible \in Nat /\ p <= visible /\ all \in Nat /\ visible <= all
    BY <1>1, <1>2, <1>3, <1>4, <1>5, Zenon
  <2>3. TakenOK(e, size, have, p, visible, all, m)
    BY <2>1, <2>2, TakenBytes, Zenon
  <2> QED
    BY <2>3, Zenon DEF TakenOK
<1>7. q = [reader |-> [r.reader EXCEPT !.buffer = buf \o more], pos |-> p + m]
  BY <1>1, <1>2, Zenon DEF Demo!ReadRecord
<1>8. /\ q.pos = p + m /\ q.reader.state = r.reader.state /\ q.reader.length = r.reader.length
      /\ q.reader.buffer = buf \o more
      /\ q.reader = [r.reader EXCEPT !.buffer = buf \o more]
  <2> HIDE DEF q, buf, more, m, p
  <2>1. /\ q.pos = p + m
        /\ q.reader = [r.reader EXCEPT !.buffer = buf \o more]
    BY <1>7
  <2>2. \A x \in Readers : \A y : /\ [x EXCEPT !.buffer = y].state = x.state
                                  /\ [x EXCEPT !.buffer = y].length = x.length
                                  /\ [x EXCEPT !.buffer = y].buffer = y
    BY DEF Readers
  <2> QED
    BY <2>1, <2>2
<1> HIDE DEF buf, size, q, have, e, p, all, m
<1>9. more \in Seq(Nat) /\ Len(more) = m /\ \A k \in 1..m : more[k] = Demo!File[p + k]
  <2> DEFINE a == p + 1
             b == p + m
  <2>1. a \in Int /\ b \in Int /\ b - a + 1 = m /\ \A i \in a..b : i \in 1..Len(Demo!File)
    BY <1>6, Zenon DEF all
  <2>2. \A k \in 1..m : a + k - 1 = p + k
    BY <1>6, Zenon
  <2>3. more = SubSeq(Demo!File, a, b)
    OBVIOUS
  <2> HIDE DEF a, b, more
  <2>4. /\ SubSeq(Demo!File, a, b) \in Seq(Nat) /\ Len(SubSeq(Demo!File, a, b)) = m
        /\ \A k \in 1..m : SubSeq(Demo!File, a, b)[k] = Demo!File[a + k - 1]
    <3> DEFINE f == Demo!File
    <3>1. f \in Seq(Nat) /\ m \in Nat /\ \A i \in a..b : i \in 1..Len(f)
      BY <1>4, <1>6, <2>1, Zenon
    <3>2. a \in Int /\ b \in Int /\ b - a + 1 = m
      BY <2>1, Zenon
    <3> HIDE DEF f
    <3>3. /\ SubSeq(f, a, b) \in Seq(Nat) /\ Len(SubSeq(f, a, b)) = m
          /\ \A k \in 1..m : SubSeq(f, a, b)[k] = f[a + k - 1]
      BY <3>1, <3>2, SubSeqOf
    <3> QED
      BY <3>3, Zenon DEF f
  <2> QED
    BY <2>2, <2>3, <2>4, Zenon
<1> HIDE DEF more
<1>10. ASSUME NEW k \in 1..m PROVE more[k] = Base + (n + 1)
  <2>1. have + k \in 1..size /\ 2 + (have + k) \in 1..(size + 2) /\ p + k = e + (2 + (have + k))
    BY <1>6, Zenon
  <2>2. e = EndOf((n + 1) - 1)
    BY <1>1, Zenon DEF e
  <2>3. Demo!File[EndOf((n + 1) - 1) + (2 + (have + k))] = Demo!Bytes(n + 1)[2 + (have + k)]
    BY <1>1, <2>1, FileIs, Zenon DEF size
  <2>4. Demo!Bytes(n + 1)[2 + (have + k)] = Base + (n + 1)
    BY <1>1, <2>1, BytesAre, Zenon DEF size
  <2> QED
    BY <1>9, <2>1, <2>2, <2>3, <2>4, Zenon
<1>11. /\ buf \o more \in Seq(Nat) /\ Len(buf \o more) = have + m
       /\ \A k \in 1..(have + m) :
            (buf \o more)[k] = IF k <= have THEN buf[k] ELSE more[k - have]
  BY <1>3, <1>9, ConcatProperties, Zenon DEF have
<1>12. ASSUME NEW k \in 1..Len(q.reader.buffer) PROVE q.reader.buffer[k] = Base + (n + 1)
  <2>1. k \in 1..(have + m)
    BY <1>8, <1>11, Zenon
  <2>2. CASE k <= have
    <3>1. k \in 1..have
      BY <1>3, <1>6, <2>1, <2>2
    <3> QED
      BY <1>2, <1>8, <1>11, <2>1, <2>2, <3>1, Zenon
  <2>3. CASE ~(k <= have)
    <3>1. k - have \in 1..m
      BY <1>3, <1>6, <2>1, <2>3
    <3> QED
      BY <1>8, <1>10, <1>11, <2>1, <2>3, <3>1, Zenon
  <2> QED
    BY <2>2, <2>3
<1>13. Len(q.reader.buffer) = have + m /\ Len(q.reader.buffer) <= size
  BY <1>6, <1>8, <1>11, Zenon
<1>14. q.pos = EndOf(n) + 2 + Len(q.reader.buffer)
  BY <1>6, <1>8, <1>13, Zenon DEF e
<1>15. q.pos \in 0..visible
  BY <1>6, <1>8, Zenon
<1>16. q.reader \in Readers
  BY <1>8, <1>11 DEF Readers
<1>17. r.reader.length = <<Demo!Bytes(n + 1)[1], Demo!Bytes(n + 1)[2]>>
  BY DEF InRecord
<1>18. InRecord(q, n)
  BY <1>2, <1>8, <1>12, <1>13, <1>14, <1>17, Zenon DEF InRecord, size
<1> QED
  BY <1>15, <1>16, <1>18 DEF q

-----------------------------------------------------------------------------
(* The steps. *)

(* The number of records ahead of the packets. *)
LEMMA HeadersAre ==
  /\ Demo!HeaderRecords(NumPlayers) \in Seq([kind : Kinds, size : Nat])
  /\ Len(Demo!HeaderRecords(NumPlayers)) = 4 + 3 * NumPlayers
  /\ \A i \in 1..(4 + 3 * NumPlayers) :
       Demo!HeaderRecords(NumPlayers)[i].kind = Demo!ExpectedKind(i - 1)
<1> DEFINE R == [kind : Kinds, size : Nat]
           n == NumPlayers
           a == <<[kind |-> "Header", size |-> 1], [kind |-> "ExtraHeader", size |-> 1]>>
           b == [k \in 1..(2 + n) |-> [kind |-> "ExtraSector", size |-> 1]]
           c == [k \in 1..n |-> [kind |-> "Player", size |-> 1]]
           d == [k \in 1..n |-> [kind |-> "PlayerStatusMessage", size |-> 1]]
<1>1. n \in Nat
  BY DemoConstants
<1>2. a \in Seq(R) /\ Len(a) = 2 /\ a[1].kind = "Header" /\ a[2].kind = "ExtraHeader"
  BY DEF Kinds
<1>3. b \in Seq(R) /\ Len(b) = 2 + n /\ \A k \in 1..(2 + n) : b[k].kind = "ExtraSector"
  BY <1>1 DEF Kinds
<1>4. c \in Seq(R) /\ Len(c) = n /\ \A k \in 1..n : c[k].kind = "Player"
  BY <1>1 DEF Kinds
<1>5. d \in Seq(R) /\ Len(d) = n /\ \A k \in 1..n : d[k].kind = "PlayerStatusMessage"
  BY <1>1 DEF Kinds
<1>6. Demo!HeaderRecords(NumPlayers) = ((a \o b) \o c) \o d
  BY DEF Demo!HeaderRecords
<1> HIDE DEF a, b, c, d, R
<1> DEFINE e == a \o b
           f == e \o c
           g == f \o d
<1>7. /\ e \in Seq(R) /\ Len(e) = 4 + n
      /\ \A k \in 1..(4 + n) : e[k] = IF k <= 2 THEN a[k] ELSE b[k - 2]
  <2>1. /\ e \in Seq(R) /\ Len(e) = Len(a) + Len(b)
        /\ \A k \in 1..(Len(a) + Len(b)) : e[k] = IF k <= Len(a) THEN a[k] ELSE b[k - Len(a)]
    BY <1>2, <1>3, ConcatProperties, Zenon
  <2>2. 2 + (2 + n) = 4 + n
    BY <1>1
  <2> HIDE DEF e
  <2> QED
    BY <1>2, <1>3, <2>1, <2>2
<1> HIDE DEF e
<1>8. /\ f \in Seq(R) /\ Len(f) = 4 + 2 * n
      /\ \A k \in 1..(4 + 2 * n) : f[k] = IF k <= 4 + n THEN e[k] ELSE c[k - (4 + n)]
  <2>1. /\ f \in Seq(R) /\ Len(f) = Len(e) + Len(c)
        /\ \A k \in 1..(Len(e) + Len(c)) : f[k] = IF k <= Len(e) THEN e[k] ELSE c[k - Len(e)]
    BY <1>7, <1>4, ConcatProperties, Zenon
  <2>2. (4 + n) + n = 4 + 2 * n
    BY <1>1
  <2> HIDE DEF f
  <2> QED
    BY <1>4, <1>7, <2>1, <2>2
<1> HIDE DEF f
<1>9. /\ g \in Seq(R) /\ Len(g) = 4 + 3 * n
      /\ \A k \in 1..(4 + 3 * n) : g[k] = IF k <= 4 + 2 * n THEN f[k] ELSE d[k - (4 + 2 * n)]
  <2>1. /\ g \in Seq(R) /\ Len(g) = Len(f) + Len(d)
        /\ \A k \in 1..(Len(f) + Len(d)) : g[k] = IF k <= Len(f) THEN f[k] ELSE d[k - Len(f)]
    BY <1>8, <1>5, ConcatProperties, Zenon
  <2>2. (4 + 2 * n) + n = 4 + 3 * n
    BY <1>1
  <2> HIDE DEF g
  <2> QED
    BY <1>5, <1>8, <2>1, <2>2
<1>10. Demo!HeaderRecords(NumPlayers) = g
  BY <1>6 DEF e, f
<1> HIDE DEF g
<1>11. ASSUME NEW i \in 1..(4 + 3 * n) PROVE g[i].kind = Demo!ExpectedKind(i - 1)
  <2>1. CASE i \in 1..2
    <3>1. i <= 4 + n /\ i <= 4 + 2 * n /\ i \in 1..(4 + n) /\ i \in 1..(4 + 2 * n)
      BY <1>1, <2>1
    <3>2. g[i] = a[i]
      BY <1>7, <1>8, <1>9, <2>1, <3>1
    <3>3. Demo!ExpectedKind(0) = "Header" /\ Demo!ExpectedKind(1) = "ExtraHeader"
      BY DemoConstants DEF Demo!ExpectedKind
    <3>4. (i = 1 /\ i - 1 = 0) \/ (i = 2 /\ i - 1 = 1)
      BY <2>1
    <3> QED
      BY <1>2, <3>2, <3>3, <3>4, Zenon
  <2>2. CASE i \in 3..(4 + n)
    <3>1. i <= 4 + n /\ i <= 4 + 2 * n /\ i \in 1..(4 + n) /\ i \in 1..(4 + 2 * n) /\ ~(i <= 2) /\ i - 2 \in 1..(2 + n)
      BY <1>1, <2>2
    <3>2. g[i] = b[i - 2]
      BY <1>7, <1>8, <1>9, <3>1
    <3>3. i - 1 \in 2..(3 + n)
      BY <1>1, <2>2
    <3>4. \A m \in 2..(3 + n) : Demo!ExpectedKind(m) = "ExtraSector"
      BY <1>1 DEF Demo!ExpectedKind
    <3> QED
      BY <1>3, <3>1, <3>2, <3>3, <3>4, Zenon
  <2>3. CASE i \in (5 + n)..(4 + 2 * n)
    <3>1. ~(i <= 4 + n) /\ i <= 4 + 2 * n /\ i \in 1..(4 + 2 * n) /\ i - (4 + n) \in 1..n
      BY <1>1, <2>3
    <3>2. g[i] = c[i - (4 + n)]
      BY <1>8, <1>9, <3>1
    <3>3. i - 1 \in (4 + n)..(3 + 2 * n)
      BY <1>1, <2>3
    <3>4. \A m \in (4 + n)..(3 + 2 * n) : Demo!ExpectedKind(m) = "Player"
      BY <1>1 DEF Demo!ExpectedKind
    <3> QED
      BY <1>4, <3>1, <3>2, <3>3, <3>4, Zenon
  <2>4. CASE i \in (5 + 2 * n)..(4 + 3 * n)
    <3>1. ~(i <= 4 + 2 * n) /\ i - (4 + 2 * n) \in 1..n
      BY <1>1, <2>4
    <3>2. g[i] = d[i - (4 + 2 * n)]
      BY <1>9, <3>1
    <3>3. i - 1 \in (4 + 2 * n)..(3 + 3 * n)
      BY <1>1, <2>4
    <3>4. \A m \in (4 + 2 * n)..(3 + 3 * n) : Demo!ExpectedKind(m) = "PlayerStatusMessage"
      BY <1>1 DEF Demo!ExpectedKind
    <3> QED
      BY <1>5, <3>1, <3>2, <3>3, <3>4, Zenon
  <2>5. i \in 1..2 \/ i \in 3..(4 + n) \/ i \in (5 + n)..(4 + 2 * n) \/ i \in (5 + 2 * n)..(4 + 3 * n)
    BY <1>1
  <2> QED
    BY <2>1, <2>2, <2>3, <2>4, <2>5
<1> QED
  BY <1>9, <1>10, <1>11 DEF R

(* The kind that follows the headers. *)
LEMMA KindsAfter ==
  /\ Demo!ExpectedKind(4 + 3 * NumPlayers) = "UnitData"
  /\ \A m \in Nat : m > 4 + 3 * NumPlayers => Demo!ExpectedKind(m) = "Packet"
BY DemoConstants DEF Demo!ExpectedKind

(* One more record in its place. *)
LEMMA OneMore ==
  ASSUME NEW w \in Seq([kind : Kinds, size : Nat]), NEW x \in [kind : Kinds, size : Nat],
         \A i \in 1..Len(w) : w[i].kind = Demo!ExpectedKind(i - 1),
         x.kind = Demo!ExpectedKind(Len(w))
  PROVE  /\ Append(w, x) \in Seq([kind : Kinds, size : Nat]) /\ Len(Append(w, x)) = Len(w) + 1
         /\ \A i \in 1..Len(w) : Append(w, x)[i] = w[i]
         /\ \A i \in 1..(Len(w) + 1) : Append(w, x)[i].kind = Demo!ExpectedKind(i - 1)
<1> DEFINE R == [kind : Kinds, size : Nat]
           a == Append(w, x)
<1>1. /\ a \in Seq(R) /\ Len(a) = Len(w) + 1 /\ \A i \in 1..Len(w) : a[i] = w[i]
      /\ a[Len(w) + 1] = x
  BY AppendProperties
<1>2. Len(w) \in Nat
  BY LenProperties, Zenon
<1> HIDE DEF a
<1>3. ASSUME NEW i \in 1..(Len(w) + 1) PROVE a[i].kind = Demo!ExpectedKind(i - 1)
  <2>1. CASE i \in 1..Len(w)
    BY <1>1, <2>1, Zenon
  <2>2. CASE i \notin 1..Len(w)
    <3>1. i = Len(w) + 1 /\ i - 1 = Len(w)
      BY <1>2, <2>2
    <3> QED
      BY <1>1, <3>1, Zenon
  <2> QED
    BY <2>1, <2>2
<1> QED
  BY <1>1, <1>3, Zenon DEF a

(* The demo at its start. *)
LEMMA DemoStart ==
  ASSUME Demo!Init PROVE DemoInv
<1>1. PICK n \in Sizes : written = Append(Demo!HeaderRecords(NumPlayers), [kind |-> "UnitData", size |-> n])
  BY DEF Demo!Init
<1>2. [kind |-> "UnitData", size |-> n] \in [kind : Kinds, size : Nat]
  BY DemoConstants DEF Kinds
<1>3. WrittenOK
  <2> DEFINE w == Demo!HeaderRecords(NumPlayers)
             x == [kind |-> "UnitData", size |-> n]
  <2>1. /\ w \in Seq([kind : Kinds, size : Nat]) /\ Len(w) = 4 + 3 * NumPlayers
        /\ \A i \in 1..Len(w) : w[i].kind = Demo!ExpectedKind(i - 1)
    BY HeadersAre, Zenon
  <2>2. x.kind = Demo!ExpectedKind(Len(w))
    BY <2>1, KindsAfter
  <2> HIDE DEF w, x
  <2>3. /\ Append(w, x) \in Seq([kind : Kinds, size : Nat]) /\ Len(Append(w, x)) = Len(w) + 1
        /\ \A i \in 1..(Len(w) + 1) : Append(w, x)[i].kind = Demo!ExpectedKind(i - 1)
    BY <1>2, <2>1, <2>2, OneMore DEF x
  <2>4. Len(w) + 1 > 4 + 3 * NumPlayers
    BY <2>1, DemoConstants
  <2> QED
    BY <1>1, <2>3, <2>4, Zenon DEF WrittenOK, w, x
<1>4. reader \in Readers /\ reader.state = "READ_RECLEN1"
  BY DEF Demo!Init, Demo!NewReader, Readers
<1>5. Len(handled) = 0 /\ handled \in Seq([kind : Kinds, payload : Seq(Nat)])
  BY DEF Demo!Init
<1>6. EndOf(0) = 0 /\ Len(Demo!File) \in Nat /\ Len(written) \in Nat
  BY <1>3, FileIs, RecsAre
<1>7. pos = 0 /\ visible = 0 /\ failed = FALSE
  BY DEF Demo!Init
<1>8. ReaderAt(Now, Len(handled))
  <2>1. Now.reader = reader /\ Now.pos = pos
    BY DEF Now
  <2> QED
    BY <1>4, <1>5, <1>6, <1>7, <2>1, Zenon DEF ReaderAt, Between
<1>9. visible \in 0..Len(Demo!File) /\ pos \in 0..visible
  BY <1>6, <1>7
<1>10. Len(handled) <= Len(written) /\ ~\E i \in 1..Len(handled) : TRUE
  BY <1>5, <1>6
<1>11. reader.state # "READ_RECORD"
  BY <1>4
<1> QED
  BY <1>3, <1>4, <1>5, <1>7, <1>8, <1>9, <1>10, <1>11, Zenon DEF DemoInv

LEMMA RecsAreAlways ==
  WrittenOK => /\ Recs \in Seq(Seq(Nat)) /\ Len(Recs) = Len(written) /\ Len(written) \in Nat
               /\ \A i \in 1..Len(written) : Recs[i] = Demo!Bytes(i)
BY RecsAre, Zenon

LEMMA RecsAreNext ==
  WrittenOK' => /\ Recs' \in Seq(Seq(Nat)) /\ Len(Recs') = Len(written') /\ Len(written') \in Nat
                /\ \A i \in 1..Len(written') : Recs'[i] = Demo!Bytes(i)'
<1>1. (WrittenOK => /\ Recs \in Seq(Seq(Nat)) /\ Len(Recs) = Len(written) /\ Len(written) \in Nat
                    /\ \A i \in 1..Len(written) : Recs[i] = Demo!Bytes(i))'
  BY RecsAreAlways, PTL
<1> QED
  BY <1>1, Zenon

LEMMA FileSizeAlways == WrittenOK => Len(Demo!File) \in Nat
BY FileIs, Zenon

LEMMA FileSizeNext == WrittenOK' => Len(Demo!File') \in Nat
<1>1. (WrittenOK => Len(Demo!File) \in Nat)'
  BY FileSizeAlways, PTL
<1> QED
  BY <1>1, Zenon

(* A longer list of records that begins with the present one: the records  *)
(* in the file stay where they are.                                        *)
LEMMA FileGoesOn ==
  ASSUME WrittenOK, WrittenOK', Len(written) <= Len(written'),
         \A i \in 1..Len(written) : written'[i] = written[i]
  PROVE  /\ \A i \in 0..Len(written) : EndOf(i)' = EndOf(i)
         /\ Len(Demo!File) <= Len(Demo!File')
         /\ \A i \in 1..Len(written) : Demo!Bytes(i)' = Demo!Bytes(i)
<1> DEFINE n == Len(written)
<1>1. /\ Recs \in Seq(Seq(Nat)) /\ Len(Recs) = n /\ n \in Nat
      /\ \A i \in 1..n : Recs[i] = Demo!Bytes(i)
  BY RecsAre, Zenon
<1>2. /\ Recs' \in Seq(Seq(Nat)) /\ Len(Recs') = Len(written') /\ Len(written') \in Nat
      /\ \A i \in 1..Len(written') : Recs'[i] = Demo!Bytes(i)'
  BY RecsAreNext, Zenon
<1>3. \A i \in 1..n : Demo!Bytes(i)' = Demo!Bytes(i)
  <2> SUFFICES ASSUME NEW i \in 1..n PROVE Demo!Bytes(i)' = Demo!Bytes(i)
    OBVIOUS
  <2>1. written'[i] = written[i]
    OBVIOUS
  <2> QED
    BY <2>1, Zenon DEF Demo!Bytes
<1> DEFINE s == Recs
           t == Recs'
<1>4. n <= Len(s) /\ n <= Len(t) /\ \A i \in 1..n : s[i] = t[i]
  <2>1. \A i \in 1..n : i \in 1..Len(written')
    BY <1>1, <1>2
  <2>2. ASSUME NEW i \in 1..n PROVE s[i] = t[i]
    BY <1>1, <1>2, <1>3, <2>1, Zenon
  <2> QED
    BY <1>1, <1>2, <2>2
<1>5. \A i \in 0..n : FlatUpTo(s, i) = FlatUpTo(t, i)
  <2> HIDE DEF s, t
  <2>1. s \in Seq(Seq(Nat)) /\ t \in Seq(Seq(Nat)) /\ n \in Nat
    BY <1>1, <1>2 DEF s, t
  <2> HIDE DEF n
  <2> QED
    BY <1>4, <2>1, FlatAgrees, Zenon
<1>6. \A i \in 0..n : EndOf(i)' = EndOf(i)
  BY <1>5, Zenon DEF EndOf
<1>7. Len(Demo!File) <= Len(Demo!File')
  <2>1. Demo!File = FlatUpTo(s, n)
    <3>1. Flat(s) = FlatUpTo(s, Len(s))
      BY <1>1, FlatUpToIs, Zenon
    <3> QED
      BY <1>1, <3>1, FileIsFlat, Zenon
  <2>2. Demo!File' = FlatUpTo(t, Len(t))
    <3>1. Flat(t) = FlatUpTo(t, Len(t))
      BY <1>2, FlatUpToIs, Zenon
    <3>2. (Demo!File = Flat(Recs))'
      BY FileIsFlat, PTL
    <3> QED
      BY <3>1, <3>2, Zenon
  <2>3. n \in 0..Len(t) /\ Len(t) \in 0..Len(t) /\ n <= Len(t)
    BY <1>1, <1>2, <1>4
  <2>4. Len(FlatUpTo(t, n)) <= Len(FlatUpTo(t, Len(t)))
    BY <1>2, <2>3, FlatContinues, Zenon
  <2>5. n \in 0..n
    BY <1>1
  <2> QED
    BY <1>5, <2>1, <2>2, <2>4, <2>5, Zenon
<1> QED
  BY <1>3, <1>6, <1>7, Zenon

(* The invariant of a step that leaves the reader alone. *)
LEMMA ReaderStays ==
  ASSUME DemoInv, WrittenOK', Len(written) <= Len(written'),
         \A i \in 1..Len(written) : written'[i] = written[i],
         UNCHANGED <<pos, reader, handled, failed>>, visible' \in visible..Len(Demo!File')
  PROVE  DemoInv'
<1> DEFINE n == Len(handled)
<1>1. /\ WrittenOK /\ Len(written) \in Nat /\ Len(written') \in Nat /\ n \in Nat /\ n <= Len(written)
      /\ Len(handled') = n
  <2>1. WrittenOK /\ handled \in Seq([kind : Kinds, payload : Seq(Nat)]) /\ n <= Len(written)
    BY DEF DemoInv
  <2>2. n \in Nat
    BY <2>1, LenProperties, Zenon
  <2> QED
    BY <2>1, <2>2, RecsAre, RecsAreNext
<1>2. /\ \A i \in 0..Len(written) : EndOf(i)' = EndOf(i)
      /\ Len(Demo!File) <= Len(Demo!File')
      /\ \A i \in 1..Len(written) : Demo!Bytes(i)' = Demo!Bytes(i)
  BY <1>1, FileGoesOn, Zenon
<1>3. visible' \in 0..Len(Demo!File') /\ pos' \in 0..visible'
  <2>1. visible \in Nat /\ pos \in 0..visible
    BY <1>1, FileIs DEF DemoInv
  <2>2. Len(Demo!File') \in Int
    BY FileSizeNext
  <2> QED
    BY <2>1, <2>2
<1>4. n \in 0..Len(written) /\ (n < Len(written) => n + 1 \in 1..Len(written) /\ n < Len(written'))
  BY <1>1
<1>5. ReaderAt(Now, n) => ReaderAt(Now, n)'
  <2>1. Now' = Now /\ n' = n
    BY DEF Now
  <2>2. EndOf(n)' = EndOf(n)
    BY <1>2, <1>4, Zenon
  <2>3. n < Len(written) => /\ Demo!Bytes(n + 1)' = Demo!Bytes(n + 1) /\ written'[n + 1] = written[n + 1]
                            /\ n < Len(written')
    BY <1>2, <1>4, Zenon
  <2> HIDE DEF n
  <2>4. Between(Now, n) => Between(Now, n)'
    BY <2>1, <2>2, Zenon DEF Between
  <2>5. InLength(Now, n) => InLength(Now, n)'
    BY <2>1, <2>2, <2>3, Zenon DEF InLength
  <2>6. InRecord(Now, n) => InRecord(Now, n)'
    BY <2>1, <2>2, <2>3, Zenon DEF InRecord
  <2> QED
    BY <2>1, <2>4, <2>5, <2>6, Zenon DEF ReaderAt
<1>6. ASSUME NEW i \in 1..n PROVE Handled(i)'
  <2>1. Handled(i) /\ i \in 1..Len(written)
    BY <1>1 DEF DemoInv
  <2> QED
    BY <2>1, Zenon DEF Handled
<1>7. n < Len(written) => written'[n + 1] = written[n + 1] /\ n < Len(written')
  BY <1>4, Zenon
<1>8. Len(handled') <= Len(written')
  BY <1>1
<1>9. reader.state = "READ_RECORD" /\ ~failed => n < Len(written)
  BY DEF DemoInv, ReaderAt, Between, InLength, InRecord, Now
<1>10. ~failed' => /\ ReaderAt(Now, Len(handled))'
                   /\ reader'.state = "READ_RECORD" =>
                        /\ written'[Len(handled') + 1].size + 2 \in 3..MaxRecordLength
                        /\ Len(reader'.buffer) < written'[Len(handled') + 1].size
  BY <1>5, <1>7, <1>9, Zenon DEF DemoInv
<1>11. failed' => /\ Len(handled') < Len(written')
                  /\ written'[Len(handled') + 1].size + 2 \notin 3..MaxRecordLength
  BY <1>7, Zenon DEF DemoInv
<1>12. /\ handled' \in Seq([kind : Kinds, payload : Seq(Nat)]) /\ failed' \in BOOLEAN
       /\ reader' \in Readers /\ WrittenOK'
       /\ \A i \in 1..Len(handled') : Handled(i)'
  BY <1>6, Zenon DEF DemoInv
<1> QED
  BY <1>3, <1>8, <1>10, <1>11, <1>12, Zenon DEF DemoInv

(* commitMove. *)
LEMMA WriteKeeps ==
  ASSUME DemoInv, Demo!WritePacket PROVE DemoInv'
<1>1. PICK n \in Sizes : written' = Append(written, [kind |-> "Packet", size |-> n])
  BY DEF Demo!WritePacket
<1>2. UNCHANGED <<visible, pos, reader, handled, failed>>
  BY DEF Demo!WritePacket
<1> DEFINE x == [kind |-> "Packet", size |-> n]
<1>3. x \in [kind : Kinds, size : Nat]
  BY DemoConstants DEF Kinds
<1>4. /\ WrittenOK /\ written \in Seq([kind : Kinds, size : Nat]) /\ Len(written) \in Nat
      /\ Len(written) > 4 + 3 * NumPlayers
      /\ \A i \in 1..Len(written) : written[i].kind = Demo!ExpectedKind(i - 1)
  BY RecsAre DEF DemoInv, WrittenOK
<1>5. x.kind = Demo!ExpectedKind(Len(written))
  BY <1>4, KindsAfter
<1> HIDE DEF x
<1>6. /\ Append(written, x) \in Seq([kind : Kinds, size : Nat])
      /\ Len(Append(written, x)) = Len(written) + 1
      /\ \A i \in 1..Len(written) : Append(written, x)[i] = written[i]
      /\ \A i \in 1..(Len(written) + 1) : Append(written, x)[i].kind = Demo!ExpectedKind(i - 1)
  BY <1>3, <1>4, <1>5, OneMore, Zenon
<1>7. written' = Append(written, x)
  BY <1>1 DEF x
<1>8. Len(written) + 1 > 4 + 3 * NumPlayers /\ Len(written) <= Len(written) + 1
  BY <1>4, DemoConstants
<1>9. WrittenOK' /\ Len(written) <= Len(written') /\ \A i \in 1..Len(written) : written'[i] = written[i]
  BY <1>6, <1>7, <1>8, Zenon DEF WrittenOK
<1>10. visible' \in visible..Len(Demo!File')
  <2>1. Len(Demo!File) <= Len(Demo!File')
    BY <1>4, <1>9, FileGoesOn, Zenon
  <2>2. Len(Demo!File') \in Nat
    BY <1>9, FileSizeNext
  <2>3. Len(Demo!File) \in Nat /\ Len(Demo!File') \in Nat /\ visible \in 0..Len(Demo!File)
    BY <1>4, <1>9, <2>2, FileIs, Zenon DEF DemoInv
  <2> QED
    BY <1>2, <2>1, <2>3
<1> QED
  BY <1>2, <1>9, <1>10, ReaderStays, Zenon

(* The stream delivers a byte. *)
LEMMA GrowKeeps ==
  ASSUME DemoInv, Demo!Grow PROVE DemoInv'
<1>1. /\ visible < Len(Demo!File) /\ visible' = visible + 1
      /\ UNCHANGED <<written, pos, reader, handled, failed>>
  BY DEF Demo!Grow
<1>2. /\ WrittenOK /\ visible \in 0..Len(Demo!File) /\ Len(Demo!File) \in Nat
      /\ Len(written) \in Nat
  BY FileIs, RecsAre, Zenon DEF DemoInv
<1>3. Demo!File' = Demo!File /\ WrittenOK' = WrittenOK
  BY <1>1 DEF Demo!File, Demo!Bytes, WrittenOK
<1>4. visible' \in visible..Len(Demo!File') /\ Len(written) <= Len(written')
  BY <1>1, <1>2, <1>3
<1> QED
  BY <1>1, <1>2, <1>3, <1>4, ReaderStays

(* What stays as it is when only the reader moves. *)
LEMMA SameFile ==
  ASSUME WrittenOK, UNCHANGED written
  PROVE  WrittenOK' /\ Demo!File' = Demo!File /\ \A i : EndOf(i)' = EndOf(i) /\ Demo!Bytes(i)' = Demo!Bytes(i)
<1>1. WrittenOK'
  BY DEF WrittenOK
<1>2. Recs' = Recs /\ \A i : Demo!Bytes(i)' = Demo!Bytes(i)
  BY DEF Recs, Demo!Bytes
<1>3. \A i : EndOf(i)' = EndOf(i)
  BY <1>2, Zenon DEF EndOf
<1>4. Demo!File' = Demo!File
  BY DEF Demo!File, Demo!Bytes
<1> QED
  BY <1>1, <1>2, <1>3, <1>4

(* A load that is not complete, or that fails. *)
LEMMA LoadKeeps ==
  ASSUME DemoInv, UNCHANGED <<written, visible, handled>>, pos' \in 0..visible, failed' \in BOOLEAN,
         reader' \in Readers,
         ~failed' => /\ ReaderAt([reader |-> reader', pos |-> pos'], Len(handled))
                     /\ reader'.state = "READ_RECORD" =>
                          /\ written[Len(handled) + 1].size + 2 \in 3..MaxRecordLength
                          /\ Len(reader'.buffer) < written[Len(handled) + 1].size,
         failed' => /\ Len(handled) < Len(written)
                    /\ written[Len(handled) + 1].size + 2 \notin 3..MaxRecordLength
  PROVE  DemoInv'
<1>1. WrittenOK /\ WrittenOK' /\ Demo!File' = Demo!File
  BY SameFile, Zenon DEF DemoInv
<1>2. ~failed' => ReaderAt(Now, Len(handled))'
  <2> DEFINE r == [reader |-> reader', pos |-> pos']
             n == Len(handled)
  <2> SUFFICES ASSUME ~failed' PROVE ReaderAt(Now, n)'
    OBVIOUS
  <2>1. r = Now' /\ n' = n
    BY DEF Now
  <2>2. ReaderAt(r, n)
    OBVIOUS
  <2> HIDE DEF r, n
  <2>3. \A i : EndOf(i)' = EndOf(i) /\ Demo!Bytes(i)' = Demo!Bytes(i)
    BY <1>1, SameFile, Zenon
  <2>4. Between(r, n) => Between(Now, n)'
    BY <2>1, <2>3, Zenon DEF Between
  <2>5. InLength(r, n) => InLength(Now, n)'
    BY <2>1, <2>3, Zenon DEF InLength
  <2>6. InRecord(r, n) => InRecord(Now, n)'
    BY <2>1, <2>3, Zenon DEF InRecord
  <2> QED
    BY <2>1, <2>2, <2>4, <2>5, <2>6, Zenon DEF ReaderAt
<1>3. \A i \in 1..Len(handled') : Handled(i)'
  BY DEF DemoInv, Handled
<1> QED
  BY <1>1, <1>2, <1>3, Zenon DEF DemoInv

(* A load that completes a record. *)
LEMMA RecordHandled ==
  ASSUME DemoInv, UNCHANGED <<written, visible, failed>>, ~failed, NEW r, InRecord(r, Len(handled)),
         r.reader \in Readers, r.pos \in 0..visible, Demo!Complete(r),
         handled' = Append(handled, [kind |-> Demo!ExpectedKind(Len(handled)), payload |-> r.reader.buffer]),
         reader' = Demo!NewReader, pos' = r.pos
  PROVE  DemoInv'
<1> DEFINE n == Len(handled)
           buf == r.reader.buffer
           h == [kind |-> Demo!ExpectedKind(n), payload |-> buf]
           H == [kind : Kinds, payload : Seq(Nat)]
<1>1. WrittenOK /\ WrittenOK' /\ Demo!File' = Demo!File /\ \A i : EndOf(i)' = EndOf(i)
  BY SameFile, Zenon DEF DemoInv
<1>2. handled \in Seq(H) /\ n \in Nat
  BY LenProperties DEF DemoInv
<1>3. Demo!Length(r) = written[n + 1].size + 2 /\ written[n + 1].size \in Nat /\ n + 1 \in 1..Len(written)
  BY <1>1, <1>2, LengthIs, Zenon
<1>4. buf \in Seq(Nat) /\ Len(buf) = written[n + 1].size /\ \A k \in 1..Len(buf) : buf[k] = Base + (n + 1)
  <2>1. buf \in Seq(Nat) /\ \A k \in 1..Len(buf) : buf[k] = Base + (n + 1)
    BY DEF Readers, InRecord
  <2>2. Len(buf) = Demo!Length(r) - 2
    BY DEF Demo!Complete
  <2> QED
    BY <1>3, <2>1, <2>2
<1>5. buf = [k \in 1..written[n + 1].size |-> Base + (n + 1)]
  <2> HIDE DEF buf, n
  <2>1. buf = [k \in 1..Len(buf) |-> buf[k]]
    BY <1>4
  <2> QED
    BY <1>4, <2>1
<1>6. written[n + 1] \in [kind : Kinds, size : Nat] /\ written[n + 1].kind = Demo!ExpectedKind((n + 1) - 1)
  <2>1. written \in Seq([kind : Kinds, size : Nat])
    BY <1>1 DEF WrittenOK
  <2>2. written[n + 1] \in [kind : Kinds, size : Nat]
    BY <1>3, <2>1, ElementOfSeq, Zenon
  <2> QED
    BY <1>1, <1>3, <2>2, Zenon DEF WrittenOK
<1>7. (n + 1) - 1 = n
  BY <1>2
<1>8. h \in H /\ h.kind = written[n + 1].kind /\ h.payload = [k \in 1..written[n + 1].size |-> Base + (n + 1)]
  <2>1. Demo!ExpectedKind(n) = written[n + 1].kind /\ written[n + 1].kind \in Kinds
    BY <1>6, <1>7
  <2> HIDE DEF buf
  <2> QED
    BY <1>4, <1>5, <2>1
<1>9. /\ handled' \in Seq(H) /\ Len(handled') = n + 1 /\ handled'[n + 1] = h
      /\ \A i \in 1..n : handled'[i] = handled[i]
  <2>1. handled' = Append(handled, h)
    OBVIOUS
  <2> HIDE DEF h, H
  <2> QED
    BY <1>2, <1>8, <2>1, AppendProperties
<1>10. ASSUME NEW i \in 1..Len(handled') PROVE Handled(i)'
  <2>1. CASE i \in 1..n
    <3>1. Handled(i)
      BY <2>1 DEF DemoInv
    <3> QED
      BY <1>9, <2>1, <3>1, Zenon DEF Handled
  <2>2. CASE i \notin 1..n
    <3>1. i = n + 1
      BY <1>2, <1>9, <2>2
    <3> HIDE DEF h
    <3>2. handled'[i].kind = written'[i].kind
      BY <1>8, <1>9, <3>1, Zenon
    <3>3. handled'[i].payload = [k \in 1..written'[i].size |-> Base + i]
      BY <1>8, <1>9, <3>1, Zenon
    <3> QED
      BY <3>2, <3>3, Zenon DEF Handled
  <2> QED
    BY <2>1, <2>2
<1>11. pos' = EndOf(n + 1)
  <2>1. EndOf(n + 1) = EndOf((n + 1) - 1) + written[n + 1].size + 2 /\ EndOf(n) \in Nat
    <3>1. n \in 0..Len(written)
      BY <1>2, <1>3
    <3> QED
      BY <1>1, <1>3, <3>1, FileIs, Zenon
  <2>2. r.pos = EndOf(n) + 2 + Len(buf)
    BY DEF InRecord
  <2> DEFINE e == EndOf(n)
             s == written[n + 1].size
  <2>3. EndOf(n + 1) = e + s + 2 /\ pos' = e + 2 + s /\ e \in Nat /\ s \in Nat
    BY <1>3, <1>4, <1>7, <2>1, <2>2, Zenon
  <2> HIDE DEF e, s
  <2> QED
    BY <2>3
<1>12. reader' \in Readers /\ reader'.state = "READ_RECLEN1"
  BY DEF Demo!NewReader, Readers
<1>13. ReaderAt(Now, Len(handled))'
  <2>1. Now'.reader = reader' /\ Now'.pos = pos'
    BY DEF Now
  <2>2. Recs' = Recs
    BY DEF Recs, Demo!Bytes
  <2>3. EndOf(Len(handled))' = EndOf(n + 1)
    BY <1>9, <2>2, Zenon DEF EndOf
  <2>4. Between(Now, Len(handled))'
    BY <1>11, <1>12, <2>1, <2>3, Zenon DEF Between
  <2> QED
    BY <1>12, <2>1, <2>4, Zenon DEF ReaderAt
<1>14. Len(handled') <= Len(written') /\ Len(handled') \in Nat
  BY <1>2, <1>3, <1>9
<1>15. pos' \in 0..visible' /\ visible' \in 0..Len(Demo!File') /\ failed' \in BOOLEAN /\ ~failed'
  BY <1>1, Zenon DEF DemoInv
<1>16. reader'.state # "READ_RECORD"
  BY <1>12
<1> QED
  BY <1>1, <1>9, <1>10, <1>12, <1>13, <1>14, <1>15, <1>16, Zenon DEF DemoInv

(* doParse. *)
LEMMA ParseKeeps ==
  ASSUME DemoInv, Demo!Parse PROVE DemoInv'
<1> DEFINE n == Len(handled)
           r1 == Demo!ReadLen1(Now)
           r2 == Demo!ReadLen2(r1)
           r3 == Demo!ReadRecord(r2)
<1>1. ~failed /\ UNCHANGED <<written, visible>> /\ failed \in BOOLEAN
  BY DEF Demo!Parse, DemoInv
<1>2. /\ WrittenOK /\ visible \in 0..Len(Demo!File) /\ n \in Nat /\ n <= Len(written)
      /\ Now.pos \in 0..visible /\ ReaderAt(Now, n)
  <2>1. handled \in Seq([kind : Kinds, payload : Seq(Nat)])
    BY DEF DemoInv
  <2>2. n \in Nat
    BY <2>1, LenProperties, Zenon
  <2>3. Now.pos = pos
    BY DEF Now
  <2> QED
    BY <1>1, <2>2, <2>3, Zenon DEF DemoInv
<1> HIDE DEF n, r1, r2, r3
<1>3. ReaderAt(r1, n) /\ r1.pos \in 0..visible /\ (r1 = Now \/ r1.reader.state = "READ_RECLEN2")
  BY <1>2, Len1Keeps, Zenon DEF r1
<1>4. ReaderAt(r2, n) /\ r2.pos \in 0..visible /\ (r2 = r1 \/ r1.reader.state = "READ_RECLEN2")
  BY <1>2, <1>3, Len2Keeps, Zenon DEF r2
<1>5. r1.reader \in Readers /\ r2.reader \in Readers
  BY <1>3, <1>4, Zenon DEF ReaderAt
<1>6. r2.reader.state = "READ_RECORD" => InRecord(r2, n)
  BY <1>4 DEF ReaderAt, Between, InLength
<1>7. r2.reader.state = "READ_RECORD" =>
        /\ Demo!Length(r2) = written[n + 1].size + 2 /\ written[n + 1].size \in Nat
        /\ n + 1 \in 1..Len(written) /\ n < Len(written)
  BY <1>2, <1>6, LengthIs, Zenon DEF InRecord
<1>8. IF ~Demo!Realistic(r2)
      THEN failed' = TRUE /\ reader' = r1.reader /\ pos' = r2.pos /\ UNCHANGED handled
      ELSE /\ IF Demo!Complete(r3)
              THEN /\ handled' = Append(handled, [kind |-> Demo!ExpectedKind(n), payload |-> r3.reader.buffer])
                   /\ reader' = Demo!NewReader
              ELSE reader' = r3.reader /\ UNCHANGED handled
           /\ pos' = r3.pos /\ UNCHANGED failed
  BY DEF Demo!Parse, r1, r2, r3, n, Now
<1>9. CASE ~Demo!Realistic(r2)
  <2>1. failed' = TRUE /\ reader' = r1.reader /\ pos' = r2.pos /\ UNCHANGED handled
    BY <1>8, <1>9, Zenon
  <2>2. r2.reader.state = "READ_RECORD" /\ Demo!Length(r2) \notin 3..MaxRecordLength
    BY <1>9, Zenon DEF Demo!Realistic
  <2>3. n < Len(written) /\ written[n + 1].size + 2 \notin 3..MaxRecordLength
    BY <1>7, <2>2, Zenon
  <2>4. UNCHANGED <<written, visible, handled>> /\ failed' \in BOOLEAN /\ failed' /\ pos' \in 0..visible
        /\ reader' \in Readers
    BY <1>1, <1>4, <1>5, <2>1
  <2> QED
    BY <2>3, <2>4, LoadKeeps, Zenon DEF n
<1>10. CASE Demo!Realistic(r2) /\ r2.reader.state # "READ_RECORD"
  <2>1. r3 = r2
    BY <1>10, Zenon DEF r3, Demo!ReadRecord
  <2>2. ~Demo!Complete(r3)
    BY <1>10, <2>1, Zenon DEF Demo!Complete
  <2>3. reader' = r2.reader /\ pos' = r2.pos /\ UNCHANGED <<handled, failed>>
    BY <1>8, <1>10, <2>1, <2>2
  <2>4. ReaderAt([reader |-> reader', pos |-> pos'], n)
    <3>1. [reader |-> reader', pos |-> pos'].reader = r2.reader /\ [reader |-> reader', pos |-> pos'].pos = r2.pos
      BY <2>3
    <3> QED
      BY <1>4, <3>1, Zenon DEF ReaderAt, Between, InLength, InRecord
  <2>5. UNCHANGED <<written, visible, handled>> /\ failed' \in BOOLEAN /\ ~failed' /\ pos' \in 0..visible
        /\ reader' \in Readers /\ reader'.state # "READ_RECORD"
    BY <1>1, <1>4, <1>5, <1>10, <2>3
  <2> QED
    BY <2>4, <2>5, LoadKeeps, Zenon DEF n
<1>11. CASE Demo!Realistic(r2) /\ r2.reader.state = "READ_RECORD"
  <2>1. InRecord(r2, n) /\ Demo!Length(r2) \in 3..MaxRecordLength
    BY <1>6, <1>11, Zenon DEF Demo!Realistic
  <2>2. InRecord(r3, n) /\ r3.reader \in Readers /\ r3.pos \in 0..visible
    BY <1>2, <1>4, <1>5, <2>1, RecordKeeps, Zenon DEF r3
  <2>3. CASE Demo!Complete(r3)
    <3>1. /\ handled' = Append(handled, [kind |-> Demo!ExpectedKind(Len(handled)), payload |-> r3.reader.buffer])
          /\ reader' = Demo!NewReader /\ pos' = r3.pos /\ UNCHANGED <<written, visible, failed>>
      BY <1>1, <1>8, <1>11, <2>3 DEF n
    <3> QED
      BY <1>1, <2>2, <2>3, <3>1, RecordHandled, Zenon DEF n
  <2>4. CASE ~Demo!Complete(r3)
    <3>1. reader' = r3.reader /\ pos' = r3.pos /\ UNCHANGED <<written, visible, handled, failed>>
      BY <1>1, <1>8, <1>11, <2>4
    <3>2. Demo!Length(r3) = written[n + 1].size + 2 /\ written[n + 1].size \in Nat
      BY <1>2, <2>2, LengthIs, Zenon
    <3>3. /\ r3.reader.state = "READ_RECORD" /\ Len(r3.reader.buffer) <= written[n + 1].size
          /\ r3.reader.buffer \in Seq(Nat)
      BY <2>2 DEF InRecord, Readers
    <3>4. Len(r3.reader.buffer) # Demo!Length(r3) - 2 /\ Len(r3.reader.buffer) \in Nat
      BY <2>4, <3>3, LenProperties, Zenon DEF Demo!Complete
    <3>5. Len(r3.reader.buffer) < written[n + 1].size
      BY <3>2, <3>3, <3>4
    <3>6. ReaderAt([reader |-> reader', pos |-> pos'], n)
      <4>1. [reader |-> reader', pos |-> pos'].reader = r3.reader /\ [reader |-> reader', pos |-> pos'].pos = r3.pos
        BY <3>1
      <4> QED
        BY <2>2, <4>1, Zenon DEF ReaderAt, InRecord
    <3>7. written[n + 1].size + 2 \in 3..MaxRecordLength
      BY <1>7, <1>11, <2>1, Zenon
    <3>8. UNCHANGED <<written, visible, handled>> /\ failed' \in BOOLEAN /\ ~failed' /\ pos' \in 0..visible
          /\ reader' \in Readers /\ Len(reader'.buffer) < written[n + 1].size
      BY <1>1, <2>2, <3>1, <3>5
    <3> QED
      BY <3>6, <3>7, <3>8, LoadKeeps, Zenon DEF n
  <2> QED
    BY <2>3, <2>4
<1> QED
  BY <1>9, <1>10, <1>11, Zenon

-----------------------------------------------------------------------------
LEMMA DemoKept ==
  ASSUME DemoInv, Demo!Next \/ UNCHANGED demoVars PROVE DemoInv'
<1>1. CASE UNCHANGED demoVars
  <2>1. UNCHANGED <<written, visible, pos, reader, handled, failed>>
    BY <1>1 DEF demoVars
  <2>2. WrittenOK' /\ Demo!File' = Demo!File /\ Len(written) \in Nat /\ Len(Demo!File) \in Nat
    BY <2>1, SameFile, RecsAre, FileIs DEF DemoInv
  <2>3. visible' \in visible..Len(Demo!File') /\ Len(written) <= Len(written')
    BY <2>1, <2>2 DEF DemoInv
  <2> QED
    BY <2>1, <2>2, <2>3, ReaderStays
<1> QED
  BY <1>1, WriteKeeps, GrowKeeps, ParseKeeps, Zenon DEF Demo!Next

LEMMA DemoAlways == Spec => [](part = "demo" => DemoInv)
<1>1. Init => (part = "demo" => DemoInv)
  BY DemoStart DEF Init
<1>2. (part = "demo" => DemoInv) /\ [Next]_vars => (part = "demo" => DemoInv)'
  <2> SUFFICES ASSUME part = "demo" => DemoInv, [Next]_vars, part' = "demo" PROVE DemoInv'
    OBVIOUS
  <2>1. part = "demo" /\ (Demo!Next \/ UNCHANGED demoVars)
    BY DEF Next, RelayNext, CompilerNext, DemoNext, UnitsNext, vars
  <2> QED
    BY <2>1, DemoKept
<1> QED
  BY <1>1, <1>2, PTL DEF Spec

(* At the end of the file nothing is left to handle. *)
LEMMA DemoSays ==
  ASSUME DemoInv
  PROVE  Demo!TypeOK /\ Demo!HandledAsWritten
<1> DEFINE n == Len(handled)
<1>1. /\ WrittenOK /\ n \in Nat /\ n <= Len(written) /\ Len(written) \in Nat
      /\ DOMAIN handled = 1..n
  <2>1. handled \in Seq([kind : Kinds, payload : Seq(Nat)]) /\ WrittenOK /\ n <= Len(written)
    BY DEF DemoInv
  <2>2. n \in Nat /\ DOMAIN handled = 1..n
    BY <2>1, LenProperties
  <2> QED
    BY <2>1, <2>2, RecsAre
<1>2. Demo!TypeOK
  BY DEF DemoInv, Readers, Demo!TypeOK
<1>3. ASSUME pos = Len(Demo!File), ~failed PROVE n = Len(written)
  <2> SUFFICES ASSUME n # Len(written) PROVE FALSE
    BY <1>1
  <2>1. n + 1 \in 1..Len(written) /\ (n + 1) - 1 = n /\ n \in 0..Len(written)
    BY <1>1
  <2>2. /\ EndOf(n + 1) = EndOf((n + 1) - 1) + written[n + 1].size + 2
        /\ EndOf(n + 1) <= Len(Demo!File) /\ EndOf(n) \in Nat /\ Len(Demo!File) \in Nat
    BY <1>1, <2>1, FileIs, Zenon
  <2>3. written[n + 1].size \in Nat
    BY <1>1, <2>1, BytesAre, Zenon
  <2>4. ReaderAt(Now, n) /\ (reader.state = "READ_RECORD" => Len(reader.buffer) < written[n + 1].size)
    BY <1>3, Zenon DEF DemoInv
  <2>5. Now.reader = reader /\ Now.pos = pos
    BY DEF Now
  <2>6. reader.buffer \in Seq(Nat) /\ Len(reader.buffer) \in Nat
    BY LenProperties DEF DemoInv, Readers
  <2> HIDE DEF n
  <2> DEFINE e == EndOf(n)
             s == written[n + 1].size
             L == Len(reader.buffer)
  <2>7. \/ pos = e \/ pos = e + 1 \/ (pos = e + 2 + L /\ L < s)
    BY <2>4, <2>5, Zenon DEF ReaderAt, Between, InLength, InRecord
  <2>8. e + s + 2 <= pos /\ e \in Nat /\ s \in Nat /\ L \in Nat
    BY <1>3, <2>1, <2>2, <2>3, <2>6, Zenon
  <2> HIDE DEF e, s, L
  <2> QED
    BY <2>7, <2>8
<1>4. Demo!HandledAsWritten
  <2>1. \A i \in DOMAIN handled : Handled(i)
    BY <1>1 DEF DemoInv
  <2>2. failed => /\ Len(handled) < Len(written)
                  /\ written[Len(handled) + 1].size + 2 \notin 3..MaxRecordLength
    BY DEF DemoInv
  <2> QED
    BY <1>3, <2>1, <2>2, Zenon DEF Demo!HandledAsWritten, Handled
<1> QED
  BY <1>2, <1>4

(* Wherever the growing file is cut, in a record, between two of them or   *)
(* between the two bytes of a length, the parser handles what the compiler *)
(* wrote, record for record and each under its own kind, refuses only a    *)
(* record that is empty or too long and leaves nothing behind              *)
(* (RecordReader and doParse against TADemoWriter and commitHeaders), for  *)
(* any number of players and packets and records of any size.              *)
THEOREM DemoHandledAsWritten == Spec => []HandledAsWritten
<1>1. (part = "demo" => DemoInv) => HandledAsWritten
  BY DemoSays DEF HandledAsWritten
<1> QED
  BY <1>1, DemoAlways, PTL

=============================================================================
