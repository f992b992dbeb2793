--------------------------- MODULE MCReplayServer ---------------------------
(***************************************************************************)
(* The parts of the replay server for TLC: the live relay of a demo file   *)
(* (TaReplay), the compiler that records it (TaDemoCompiler), the file     *)
(* itself (DemoFile) and the fingerprint of the unit data (UnitDataRepo).  *)
(* They share the file and nothing else, so one run explores them side by  *)
(* side: "part" names the one that moves in a behaviour and the constants  *)
(* it has there, the others keep their initial values.                     *)
(***************************************************************************)
EXTENDS Integers, Sequences

CONSTANTS
  Client, Delays, CHUNK_SIZE, MaxBytesPerUserPerSecond, MaxSize, MaxDrops, MaxRestarts,  \* relay
  ResumeDelays, ResumeChunk, ResumeBytes, ResumeSize, ResumeDrops,                       \* resume
  Player, Host, GAME_EXPIRY_TICKS, MinMoves, MaxMoves, MaxQueue, MaxSocketDrops,         \* record
  Base, MaxRecordLength, Sizes, NumPlayers, MaxPackets,                                  \* demo
  Packet, Observer, SY_UNIT_ID                                                           \* units

VARIABLES
  part,
  fileExists, fileSize, game, ended, user, out, net, subscribe, client, buffer, told, recent, drops,
  restarts,
  up, known, phase, made, queue, context, entry, file, socketDrops,
  written, visible, pos, reader, handled, failed,
  m_unitData, pending

relayVars == <<fileExists, fileSize, game, ended, user, out, net, subscribe, client, buffer, told,
               recent, drops, restarts>>
compilerVars == <<up, known, phase, made, queue, context, entry, file, socketDrops>>
demoVars == <<written, visible, pos, reader, handled, failed>>
unitVars == <<m_unitData, pending>>
vars == <<part, relayVars, compilerVars, demoVars, unitVars>>

-----------------------------------------------------------------------------
(* A watcher of a game whose delay the lobby moves, with a server that is  *)
(* restarted.                                                              *)
Relay == INSTANCE TaReplay WITH
  MayRaiseDelay <- TRUE, MaySubscribeEarly <- TRUE

(* A watcher that loses its connection again and again. *)
Resume == INSTANCE TaReplay WITH
  Delays <- ResumeDelays, CHUNK_SIZE <- ResumeChunk, MaxBytesPerUserPerSecond <- ResumeBytes,
  MaxSize <- ResumeSize, MaxDrops <- ResumeDrops, MaxRestarts <- 0, MayRaiseDelay <- FALSE,
  MaySubscribeEarly <- FALSE

(* A watcher that stays to the end. *)
Watch == INSTANCE TaReplay WITH
  Delays <- {-1, 1}, CHUNK_SIZE <- 1, MaxBytesPerUserPerSecond <- 2, MaxSize <- 3,
  MaxDrops <- 1, MaxRestarts <- 0, MayRaiseDelay <- FALSE, MaySubscribeEarly <- FALSE

(* Two players whose connections to the compiler break. *)
Record == INSTANCE TaDemoCompiler WITH
  CloseBadConnections <- FALSE, AllLockIn <- FALSE, MaxDrops <- MaxSocketDrops,
  game <- entry, drops <- socketDrops

(* Two players who are known to each other before the game is loaded. *)
Close == INSTANCE TaDemoCompiler WITH
  GAME_EXPIRY_TICKS <- 1, CloseBadConnections <- TRUE, MinMoves <- 1,
  MaxMoves <- 1, MaxQueue <- 1, MaxDrops <- 1, AllLockIn <- TRUE, game <- entry, drops <- socketDrops

(* Replay delays: disabled, one tick and two. *)
OffOrOnOrTwo == {-1, 1, 2}

Demo == INSTANCE DemoFile

P(sub, id, status, crc) == [sub |-> sub, id |-> id, status |-> status, crc |-> crc]

(* Packets of two players that disagree about unit 1, of the unit that is  *)
(* left out, of one without checksum, and one of a kind that is not kept.  *)
Lobby ==
  {P(2, 1, "disabled", 7), P(3, 1, "enabled", 0), P(3, 1, "disabled", 0),
   P(3, 2, "enabled", 0), P(2, 9, "disabled", 3), P(3, 9, "enabled", 0),
   P(9, 1, "disabled", 5), P(1, 1, "enabled", 4)}

Units == INSTANCE UnitDataRepo

ASSUME ConstantsAssumption ==
  /\ Relay!ConstantsOK /\ Resume!ConstantsOK /\ Watch!ConstantsOK
  /\ Record!ConstantsOK /\ Close!ConstantsOK
  /\ Demo!ConstantsOK /\ Units!ConstantsOK

Init ==
  /\ part \in {"relay", "resume", "watch", "record", "close", "demo", "units"}
  /\ Relay!Init
  /\ Record!Init
  /\ Demo!Init
  /\ part # "demo" => \A n \in Sizes : written[Len(written)].size <= n
  /\ Units!Init

RelayNext ==
  /\ \/ part = "relay" /\ Relay!Next
     \/ part = "resume" /\ Resume!Next
     \/ part = "watch" /\ Watch!Next
  /\ UNCHANGED <<part, compilerVars, demoVars, unitVars>>

CompilerNext ==
  /\ \/ part = "record" /\ Record!Next
     \/ part = "close" /\ Close!Next
  /\ UNCHANGED <<part, relayVars, demoVars, unitVars>>

DemoNext == part = "demo" /\ Demo!Next /\ UNCHANGED <<part, relayVars, compilerVars, unitVars>>

UnitsNext == part = "units" /\ Units!Next /\ UNCHANGED <<part, relayVars, compilerVars, demoVars>>

Next == RelayNext \/ CompilerNext \/ DemoNext \/ UnitsNext

(* The fairness of TaReplay and TaDemoCompiler. *)
Fairness ==
  /\ WF_relayVars(part = "watch" /\ Watch!TimerEvent)
  /\ \A c \in Client : /\ WF_relayVars(part = "watch" /\ Watch!OnSubscribe(c))
                        /\ WF_relayVars(part = "watch" /\ Watch!Flush(c))
                        /\ WF_relayVars(part = "watch" /\ Watch!Connect(c))
                        /\ WF_relayVars(part = "watch" /\ Watch!Receive(c))
  /\ WF_compilerVars(part = "close" /\ Close!TimerEvent)
  /\ \A p \in Player : WF_compilerVars(part = "close" /\ Close!OnReadyRead(p))

Spec == Init /\ [][Next]_vars /\ Fairness

-----------------------------------------------------------------------------
(* TaReplay: the size log is an unbroken run of the latest file sizes, so  *)
(* that it can be the clock of the delay, and a watcher that lost its      *)
(* connection has a copy of the file without gap or repetition.            *)
RelaySound ==
  /\ part = "relay" => Relay!TypeOK /\ Relay!LogIsRecent
  /\ part = "resume" => Resume!BufferIsPrefix

(* TaReplay: however the delay moves, a tick sends no byte that was not in *)
(* the file the present delay ago.                                         *)
EscrowRespected ==
  [][part = "relay" =>
       \A c \in Client :
         (Relay!ReadsOn(c) /\ user[c].gameId = 1 /\ game' # <<>>)
           => user'[c].pos <= Relay!SizeAgo(recent', game'[1].delay)]_vars

(* TaReplay: a watcher whose subscription was granted gets the whole file. *)
WatcherCatchesUp == part = "watch" => Watch!WatcherCatchesUp

(* TaDemoCompiler: a locked-in player keeps its number over reconnections, *)
(* and its moves are recorded under that number.                           *)
NumbersKept == part = "record" => Record!TypeOK /\ Record!NumbersStable /\ Record!MovesAttributed

(* TaDemoCompiler: a late or repeated GamePlayerLoading throws nothing     *)
(* away of a recording.                                                    *)
RecordingOnlyGrows ==
  [][(part = "record" /\ file.state = "part" /\ entry # <<>>)
       => Record!IsPrefix(file.moves, file'.moves)]_vars

(* TaDemoCompiler: a recording is closed in the end. *)
RecordingIsClosed == part = "close" => Close!RecordingIsClosed

(* DemoFile: wherever the growing file was cut, the parser handles what    *)
(* the compiler wrote, record for record, refuses nothing but a record     *)
(* that is empty or too long and leaves nothing behind.                    *)
HandledAsWritten == part = "demo" => Demo!TypeOK /\ Demo!HandledAsWritten

(* UnitDataRepo: the same packets in any order give the same fingerprint. *)
SameFingerprint == Units!SameFingerprint
=============================================================================
