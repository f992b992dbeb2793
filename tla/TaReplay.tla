------------------------------ MODULE TaReplay ------------------------------
(***************************************************************************)
(* TaReplayServer streams the demo file of a running game to watchers, the *)
(* game's delay late, and TaReplayClient stores what it is sent in the     *)
(* file its replayer reads.  One game is modelled: the demo compiler       *)
(* writes its file, the lobby announces, changes and ends it, the timer of *)
(* the server logs the size of the file once a second and services the     *)
(* users, and connections break and are made again.                        *)
(*                                                                         *)
(* The byte at offset n of the file is represented by n, so a client's     *)
(* copy is right when it is <<0, 1, 2, ...>>.  The bytes of the protocol   *)
(* around the data are not counted.                                        *)
(***************************************************************************)
EXTENDS Integers, FiniteSets, SequencesExt

CONSTANTS
  Client,               \* the watchers, each with one TCP connection
  Delays,               \* replay delays the lobby may announce, -1: disabled
  CHUNK_SIZE,
  MaxBytesPerUserPerSecond,
  MaxSize,              \* bound: bytes of the demo file
  MaxDrops,             \* bound: connections that break
  MaxRestarts,          \* bound: restarts of the server
  MayRaiseDelay,        \* the lobby raises the delay of a game
  MaySubscribeEarly     \* a watcher subscribes before the file is monitored

ConstantsOK ==
  /\ Delays \subseteq Nat \union {-1} /\ Delays # {} /\ IsFiniteSet(Delays)
  /\ {CHUNK_SIZE, MaxBytesPerUserPerSecond} \subseteq Nat \ {0}
  /\ {MaxSize, MaxDrops, MaxRestarts} \subseteq Nat
  /\ {MayRaiseDelay, MaySubscribeEarly} \subseteq BOOLEAN

VARIABLES
  fileExists, fileSize, \* the demo file, under its temporary or final name
  game,                 \* m_gameInfo: <<>> or <<[delay, log]>>, one game
  ended,                \* the lobby ended the game: it announces it no more
  user,                 \* user[c]: the UserContext of c's connection
  out,                  \* out[c]: what the server's socket has not yet sent
  net,                  \* net[c]: messages on their way to c
  subscribe,            \* subscribe[c]: positions of subscriptions on their way
  client,               \* client[c]: "down", "up" or "quit"
  buffer,               \* buffer[c]: the replay buffer file of c
  told,                 \* told[c]: the statuses emitted by gameNotFound
  recent,               \* history: the file's size at the last ticks
  drops, restarts

serverVars == <<game, ended, user>>
netVars == <<out, net, subscribe>>
clientVars == <<client, buffer, told>>
fileVars == <<fileExists, fileSize>>
vars == <<fileVars, serverVars, netVars, clientVars, recent, drops, restarts>>

NoLog == <<-1>>
NoFile == -1
Status == {"OK", "GAME_NOT_FOUND", "LIVE_REPLAY_DISABLED"}

(* A UserContext: the game of the last successful subscription (0 is no    *)
(* game) and the read position of demoFile.                                *)
NewUser == [gameId |-> 0, pos |-> NoFile]

KnownGame(id) == id = 1 /\ game # <<>>

Init ==
  /\ fileExists = FALSE /\ fileSize = 0
  /\ game = <<>> /\ ended = FALSE
  /\ user = [c \in Client |-> NewUser]
  /\ out = [c \in Client |-> <<>>]
  /\ net = [c \in Client |-> <<>>]
  /\ subscribe = [c \in Client |-> <<>>]
  /\ client = [c \in Client |-> "down"]
  /\ buffer = [c \in Client |-> <<>>]
  /\ told = [c \in Client |-> {}]
  /\ recent = <<>>
  /\ drops = 0 /\ restarts = 0

-----------------------------------------------------------------------------
(* The demo compiler: creates the file, appends to it, removes it when the *)
(* recording was too short.  Renaming it makes no difference to a reader.  *)
FileWritten ==
  /\ \/ /\ ~fileExists /\ fileSize = 0
        /\ fileExists' = TRUE /\ UNCHANGED fileSize
     \/ /\ fileExists /\ fileSize < MaxSize
        /\ fileSize' = fileSize + 1 /\ UNCHANGED fileExists
     \/ /\ fileExists /\ game = <<>>
        /\ fileExists' = FALSE /\ UNCHANGED fileSize
  /\ UNCHANGED <<serverVars, netVars, clientVars, recent, drops, restarts>>

(* setGameInfo, from a game_info of the lobby. *)
SetGameInfo(delay) ==
  /\ ~ended
  /\ game # <<>> => (MayRaiseDelay \/ delay <= game[1].delay)
  /\ game' = IF game = <<>> THEN <<[delay |-> delay, log |-> NoLog]>>
                            ELSE [game EXCEPT ![1].delay = delay]
  /\ UNCHANGED <<fileVars, ended, user, netVars, clientVars, recent, drops, restarts>>

SetGameEnded ==
  /\ game' = <<>> /\ ended' = TRUE
  /\ UNCHANGED <<fileVars, user, netVars, clientVars, recent, drops, restarts>>

-----------------------------------------------------------------------------
Reply(status) == <<[status |-> status, from |-> 0, len |-> 0]>>

FoundFile == fileExists

(* Mutant: a resubscription starts the file again. *)
SeekToStart(position) == 0

(* Where a subscription starts reading: at the position asked for, capped  *)
(* by the oldest logged size; at the start as long as the log is short.    *)
SeekPos(position) ==
  IF Len(game[1].log) > game[1].delay
  THEN Min({position, Head(game[1].log)})
  ELSE 0

(* The SUBSCRIBE branch of onReadyRead.  When the file is there and its    *)
(* size log is not, the user keeps the file without a game.                *)
OnSubscribe(c) ==
  /\ subscribe[c] # <<>>
  /\ LET position == Head(subscribe[c])
         denied == KnownGame(1) /\ game[1].delay < 0
         absent == KnownGame(1) /\ ~denied /\ ~FoundFile
         early == KnownGame(1) /\ ~denied /\ FoundFile /\ game[1].log = NoLog
         granted == KnownGame(1) /\ ~denied /\ FoundFile /\ game[1].log # NoLog
     IN /\ early => MaySubscribeEarly
        /\ out' = [out EXCEPT ![c] = @ \o
             IF ~KnownGame(1) THEN Reply("GAME_NOT_FOUND")
             ELSE IF denied THEN Reply("LIVE_REPLAY_DISABLED")
             ELSE IF (absent \/ early) /\ position = 0 THEN Reply("GAME_NOT_FOUND")
             ELSE <<>>]
        /\ user' = [user EXCEPT ![c] =
             IF granted THEN [gameId |-> 1, pos |-> SeekPos(position)]
             ELSE IF early THEN [@ EXCEPT !.pos = 0]
             ELSE IF absent THEN [@ EXCEPT !.pos = NoFile]
             ELSE @]
  /\ subscribe' = [subscribe EXCEPT ![c] = Tail(@)]
  /\ UNCHANGED <<fileVars, game, ended, net, clientVars, recent, drops, restarts>>

-----------------------------------------------------------------------------
(* The log after a size was enqueued: the last 1 + delay sizes. *)
Trimmed(log, delay) ==
  LET surplus == Max({0, Len(log) - (1 + delay)})
  IN SubSeq(log, surplus + 1, Len(log))

UpdateFileSizeLog(g) ==
  LET monitored == g.log # NoLog \/ FoundFile
      log == IF g.log = NoLog THEN <<>> ELSE g.log
  IN IF ~monitored THEN g
     ELSE [g EXCEPT !.log = Trimmed(Append(log, fileSize), g.delay)]

(* The bytes that the socket of c still holds. *)
Pending(c) ==
  LET bytes[n \in 0..Len(out[c])] == IF n = 0 THEN 0 ELSE bytes[n - 1] + out[c][n].len
  IN bytes[Len(out[c])]

(* Mutant: a log as long as the delay is long enough. *)
ThresholdOneTickEarly(u, g) ==
  IF u.gameId = 1 /\ g # <<>>
  THEN IF g[1].log \notin {NoLog, <<>>} /\ Len(g[1].log) >= g[1].delay
       THEN Head(g[1].log) ELSE NoFile
  ELSE u.pos + MaxBytesPerUserPerSecond

(* Mutant: a user whose game is over is not served. *)
ThresholdOfLiveGames(u, g) ==
  IF u.gameId = 1 /\ g # <<>> /\ g[1].log \notin {NoLog, <<>>} /\ Len(g[1].log) > g[1].delay
  THEN Head(g[1].log) ELSE NoFile

(* How far the user may read now: the size of the file delay ticks ago, or *)
(* anything when its game is not (or no longer) known; NoFile: not yet.    *)
DataEscrowThreshold(u, g) ==
  IF u.gameId = 1 /\ g # <<>>
  THEN IF g[1].log \notin {NoLog, <<>>} /\ Len(g[1].log) > g[1].delay
       THEN Head(g[1].log) ELSE NoFile
  ELSE u.pos + MaxBytesPerUserPerSecond

(* Chunks are sent until the socket holds MaxBytesPerUserPerSecond bytes   *)
(* or there is nothing more to reveal.                                     *)
Chunks(c, u, g) ==
  LET room == MaxBytesPerUserPerSecond - Pending(c)
      rounds == IF room <= 0 THEN 0 ELSE (room + CHUNK_SIZE - 1) \div CHUNK_SIZE
      bytes == Min({fileSize, DataEscrowThreshold(u, g)}) - u.pos
      Len1(k) == Min({CHUNK_SIZE, bytes - (k - 1) * CHUNK_SIZE})
  IN [k \in 1..Cardinality({r \in 1..rounds : Len1(r) > 0}) |->
        [status |-> "OK", from |-> u.pos + (k - 1) * CHUNK_SIZE, len |-> Len1(k)]]

ServiceUser(c, g) ==
  IF user[c].pos = NoFile THEN <<>> ELSE Chunks(c, user[c], g)

(* The position of demoFile after these reads. *)
ReadPos(pos, chunks) == IF chunks = <<>> THEN pos ELSE Last(chunks).from + Last(chunks).len

(* timerEvent: the size log first, then every user that has a file. *)
TimerEvent ==
  LET g == IF game = <<>> THEN <<>> ELSE <<UpdateFileSizeLog(game[1])>>
  IN /\ game' = g
     /\ out' = [c \in Client |-> out[c] \o ServiceUser(c, g)]
     /\ user' = [c \in Client |->
          [user[c] EXCEPT !.pos = ReadPos(@, ServiceUser(c, g))]]
     /\ recent' = LET all == Append(recent, fileSize)
                  IN SubSeq(all, Max({1, Len(all) - Max(Delays \cup {0})}), Len(all))
     /\ UNCHANGED <<fileVars, ended, net, subscribe, clientVars, drops, restarts>>

(* The operating system takes what the server's socket holds. *)
Flush(c) ==
  /\ out[c] # <<>>
  /\ net' = [net EXCEPT ![c] = @ \o out[c]]
  /\ out' = [out EXCEPT ![c] = <<>>]
  /\ UNCHANGED <<fileVars, serverVars, subscribe, clientVars, recent, drops, restarts>>

-----------------------------------------------------------------------------
(* onNewConnection of the server. *)
Accept(c) == user' = [user EXCEPT ![c] = NewUser]

(* m_position: the number of bytes stored. *)
Subscription(c) == Len(buffer[c])

(* The bytes of a ReplayServerData message with status OK. *)
Received(msg) == [k \in 1..msg.len |-> msg.from + k - 1]

(* TaReplayClient: the timer connects, and the new connection subscribes   *)
(* at the number of bytes received; the server makes a new UserContext.    *)
Connect(c) ==
  /\ client[c] = "down"
  /\ client' = [client EXCEPT ![c] = "up"]
  /\ Accept(c)
  /\ subscribe' = [subscribe EXCEPT ![c] = <<Subscription(c)>>]
  /\ UNCHANGED <<fileVars, game, ended, out, net, buffer, told, recent, drops, restarts>>

(* onReadyRead of the client, one command: m_position grows with the file. *)
Receive(c) ==
  /\ net[c] # <<>>
  /\ LET msg == Head(net[c]) IN
       IF msg.status = "OK"
       THEN /\ buffer' = [buffer EXCEPT ![c] = @ \o Received(msg)]
            /\ UNCHANGED told
       ELSE /\ told' = [told EXCEPT ![c] = @ \cup {msg.status}]
            /\ UNCHANGED buffer
  /\ net' = [net EXCEPT ![c] = Tail(@)]
  /\ UNCHANGED <<fileVars, serverVars, out, subscribe, client, recent, drops, restarts>>

Cut(c) ==
  /\ out' = [out EXCEPT ![c] = <<>>]
  /\ net' = [net EXCEPT ![c] = <<>>]
  /\ subscribe' = [subscribe EXCEPT ![c] = <<>>]
  /\ user' = [user EXCEPT ![c] = NewUser]

(* The connection breaks between two commands: the server forgets the      *)
(* user, whatever was under way is lost.                                   *)
Drop(c) ==
  /\ client[c] = "up" /\ drops < MaxDrops
  /\ Cut(c)
  /\ client' = [client EXCEPT ![c] = "down"]
  /\ drops' = drops + 1
  /\ UNCHANGED <<fileVars, game, ended, buffer, told, recent, restarts>>

(* The user acknowledges the message box of a gameNotFound. *)
Quit(c) ==
  /\ client[c] # "quit" /\ told[c] # {}
  /\ Cut(c)
  /\ client' = [client EXCEPT ![c] = "quit"]
  /\ UNCHANGED <<fileVars, game, ended, buffer, told, recent, drops, restarts>>

(* The server process is restarted and knows no game until the lobby sends *)
(* it again.                                                               *)
Restart ==
  /\ restarts < MaxRestarts
  /\ restarts' = restarts + 1
  /\ game' = <<>>
  /\ user' = [c \in Client |-> NewUser]
  /\ out' = [c \in Client |-> <<>>]
  /\ net' = [c \in Client |-> <<>>]
  /\ subscribe' = [c \in Client |-> <<>>]
  /\ client' = [c \in Client |-> IF client[c] = "up" THEN "down" ELSE client[c]]
  /\ UNCHANGED <<fileVars, ended, buffer, told, recent, drops>>

Next ==
  \/ FileWritten
  \/ \E d \in Delays : SetGameInfo(d)
  \/ SetGameEnded
  \/ TimerEvent
  \/ Restart
  \/ \E c \in Client : \/ OnSubscribe(c) \/ Flush(c) \/ Connect(c)
                       \/ Receive(c) \/ Drop(c) \/ Quit(c)

Spec == Init /\ [][Next]_vars

(* The timers of both sides, the socket layer and the event loops run. *)
Fairness ==
  /\ WF_vars(TimerEvent)
  /\ \A c \in Client : WF_vars(OnSubscribe(c)) /\ WF_vars(Flush(c))
                       /\ WF_vars(Connect(c)) /\ WF_vars(Receive(c))

FairSpec == Spec /\ Fairness

-----------------------------------------------------------------------------
TypeOK ==
  /\ fileExists \in BOOLEAN /\ fileSize \in 0..MaxSize
  /\ Len(game) <= 1 /\ ended \in BOOLEAN
  /\ \A i \in DOMAIN game : game[i] \in [delay : Delays, log : {NoLog} \cup Seq(0..MaxSize)]
  /\ user \in [Client -> [gameId : {0, 1}, pos : {NoFile} \cup 0..MaxSize]]
  /\ out \in [Client -> Seq([status : Status, from : 0..MaxSize, len : 0..MaxSize])]
  /\ net \in [Client -> Seq([status : Status, from : 0..MaxSize, len : 0..MaxSize])]
  /\ subscribe \in [Client -> Seq(Nat)]
  /\ client \in [Client -> {"down", "up", "quit"}]
  /\ buffer \in [Client -> Seq(0..MaxSize)]
  /\ told \in [Client -> SUBSET Status]
  /\ recent \in Seq(0..MaxSize)
  /\ drops \in 0..MaxDrops /\ restarts \in 0..MaxRestarts

(* Of a list of sizes at successive ticks, the one d ticks before the last *)
(* one, 0 when there were fewer ticks.                                     *)
SizeAgo(sizes, d) == IF Len(sizes) > d THEN sizes[Len(sizes) - d] ELSE 0

(* Only a tick reads on from a user's file. *)
ReadsOn(c) == subscribe' = subscribe /\ user'[c].pos > user[c].pos

(* However the lobby moves the delay while a game is watched, a tick sends *)
(* a subscribed user no byte that was not in the file the game's present   *)
(* delay ago (the queue of TaReplayServer::updateFileSizeLog is the only   *)
(* clock).                                                                 *)
EscrowRespected ==
  [][\A c \in Client :
       (ReadsOn(c) /\ user[c].gameId = 1 /\ game' # <<>>)
         => user'[c].pos <= SizeAgo(recent', game'[1].delay)]_vars

(* demoFileSizeLog is what the comment in TaReplayServer.h says, "the last *)
(* delaySeconds worth of file sizes": an unbroken run of the latest sizes, *)
(* never longer than the delay asks after a tick.                          *)
LogIsRecent ==
  \A i \in DOMAIN game :
    LET log == game[i].log IN
      log # NoLog =>
        \A k \in 1..Len(log) : k <= Len(recent) => log[Len(log) - k + 1] = recent[Len(recent) - k + 1]

(* A watcher that lost its connection any number of times has a copy of    *)
(* the file without gap or repetition (TaReplayClient::m_position against  *)
(* the seek of TaReplayServer::onReadyRead).                               *)
BufferIsPrefix ==
  \A c \in Client : /\ Len(buffer[c]) <= fileSize
                    /\ \A k \in DOMAIN buffer[c] : buffer[c][k] = k - 1

(* Once a watcher's last subscription was granted, it gets the whole file, *)
(* also what was written in the last seconds of the game, unless its       *)
(* connection breaks or the host disables the replay.                      *)
WatcherCatchesUp ==
  \A c \in Client :
    user[c].gameId = 1 ~> \/ Len(buffer[c]) = fileSize
                          \/ user[c].gameId # 1
                          \/ game # <<>> /\ game[1].delay < 0

(* TaReplayServer.h says of setGameInfo: "delaySeconds -ve to disable      *)
(* replay altogether".  No tick sends data of a game that is disabled.     *)
DisabledSendsNothing ==
  [][\A c \in Client : ReadsOn(c) /\ game' # <<>> => game'[1].delay >= 0]_vars

=============================================================================
