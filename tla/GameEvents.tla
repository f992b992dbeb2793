----------------------------- MODULE GameEvents -----------------------------
(***************************************************************************)
(* What gpgnet4ta makes of the events of GameMonitor2: the table of slots  *)
(* kept by HandleGameStatus, the options ForwardGameEventsToGpgNet sends   *)
(* to GpgNet, and the chat commands of the local player.                   *)
(*                                                                         *)
(* GpgNet keeps the players of a game by id (AIs by name) with the slot    *)
(* each was last given, and forgets those of a slot that is cleared; this  *)
(* is its use of the commands, the server is not part of the repository.   *)
(***************************************************************************)
EXTENDS Integers

CONSTANTS
  Humans, AIs,   \* the players of the game, by number from 1
  Host, Local,   \* two of the humans, or one
  Unknown,       \* humans whose names GpgNet never sent
  NumSlots,      \* 10
  Movers,        \* players that may change their slot
  MaxMoves,      \* bound: changes of slot
  MaxChat        \* bound: chat lines of the local player

ConstantsOK ==
  /\ Humans \union AIs \subseteq Nat \ {0}
  /\ {Host, Local} \subseteq Humans /\ Unknown \subseteq Humans /\ Humans \intersect AIs = {}
  /\ NumSlots \in Nat /\ Movers \subseteq Humans \union AIs /\ {MaxMoves, MaxChat} \subseteq Nat

Players == Humans \union AIs
Slots == 0..(NumSlots - 1)
NoSlot == NumSlots
Empty == <<0, "empty">>

VARIABLES
  slot,       \* GameMonitor2: slotNumber of a player whose side is known, else NoSlot
  watcher,    \* GameMonitor2: the players that are watchers
  phase,      \* "room", "launched" or "started" (teams frozen)
  isHost,     \* ForwardGameEventsToGpgNet::m_isHost
  settings,   \* onGameSettings was called
  names,      \* HandleGameStatus::m_playerNames with m_isAI and m_isWatcher
  roster,     \* GpgNet: the slots of the players it was told of
  live,       \* GpgNet was told that the game is live
  quitRequested, up,  \* HandleGameStatus::m_quitRequested; the application runs
  moves, chats

vars == <<slot, watcher, phase, isHost, settings, names, roster, live, quitRequested, up,
          moves, chats>>

-----------------------------------------------------------------------------
(* lookupPlayerId: 0 for a name that GpgNet never sent. *)
PlayerId(p) == IF p \in Unknown THEN 0 ELSE p

(* An AI's name ends with its slot.  The id of a player is a string and is *)
(* never equal to 0: an unknown player is not taken for an AI.             *)
Key(p, s) == IF p \in AIs THEN <<"AI", s>> ELSE <<"id", PlayerId(p)>>

Status(p) == IF p \in AIs THEN "ai" ELSE IF p \in watcher' THEN "watcher" ELSE "player"

Present(sl) == {p \in Players : sl[p] # NoSlot}

Used(sl) == {sl[p] : p \in Present(sl)}

(* GpgNet: five options of a player or an AI, of which the slot is kept. *)
WithOptions(r, sl) ==
  {e \in r : ~\E p \in Present(sl) : e.key = Key(p, sl[p])}
    \union {[key |-> Key(p, sl[p]), slot |-> sl[p]] : p \in Present(sl)}

WithoutSlots(r, cleared) == {e \in r : e.slot \notin cleared}

(* notifyPlayerStatuses at HandleGameStatus: every slot is set or cleared. *)
NamesNotified(sl) ==
  [s \in Slots |-> IF s \in Used(sl)
                   THEN LET p == CHOOSE q \in Present(sl) : sl[q] = s IN <<p, Status(p)>>
                   ELSE Empty]

(* notifyPlayerStatuses at ForwardGameEventsToGpgNet, for a host that left *)
(* the slots "first" cleared before.                                       *)
RosterNotified(first, sl) ==
  IF isHost THEN WithoutSlots(WithOptions(WithoutSlots(roster, first), sl), Slots \ Used(sl))
  ELSE roster

Notify(first, sl) ==
  /\ names' = NamesNotified(sl)
  /\ roster' = RosterNotified(first, sl)

Init ==
  /\ slot = [p \in Players |-> NoSlot]
  /\ watcher = {}
  /\ phase = "room"
  /\ isHost \in BOOLEAN            \* not initialized
  /\ settings = FALSE
  /\ names = [s \in Slots |-> Empty]
  /\ roster = {}
  /\ live = FALSE
  /\ quitRequested = 0 /\ up = TRUE
  /\ moves = 0 /\ chats = 0

(* onStatus with a side or a watcher flag that is new. *)
StatusChanges(p, s, w) ==
  /\ up /\ phase # "started"
  /\ slot[p] = NoSlot \/ (slot[p] = s /\ w # (p \in watcher))
  /\ w => p \in Humans
  /\ s \notin Used([slot EXCEPT ![p] = NoSlot])
  /\ slot' = [slot EXCEPT ![p] = s]
  /\ watcher' = IF w THEN watcher \union {p} ELSE watcher \ {p}
  /\ Notify({}, slot')
  /\ UNCHANGED <<phase, isHost, settings, live, quitRequested, up, moves, chats>>

(* onStatus with nothing new but the slot. *)
SlotMoves(p, s) ==
  /\ up /\ phase # "started" /\ moves < MaxMoves /\ p \in Movers
  /\ slot[p] # NoSlot /\ s \notin Used(slot)
  /\ slot' = [slot EXCEPT ![p] = s]
  /\ moves' = moves + 1
  /\ UNCHANGED <<watcher, phase, isHost, settings, names, roster, live, quitRequested, up,
                 chats>>

(* Mutant: the flag of the first caller is kept. *)
HostFlagKept == isHost

HostFlag == Host = Local

(* onGameSettings, in the status of the host. *)
GameSettings ==
  /\ up /\ slot[Host] # NoSlot /\ ~settings
  /\ settings' = TRUE
  /\ isHost' = HostFlag
  /\ UNCHANGED <<slot, watcher, phase, names, roster, live, quitRequested, up, moves, chats>>

(* onDplayDeletePlayer and onRejectOther in the battleroom. *)
Leave(p) ==
  /\ up /\ phase # "started" /\ slot[p] # NoSlot /\ p # Host
  /\ slot' = [slot EXCEPT ![p] = NoSlot]
  /\ watcher' = watcher \ {p}
  /\ Notify({slot[p]}, slot')
  /\ UNCHANGED <<phase, isHost, settings, live, quitRequested, up, moves, chats>>

(* onAlliance, onTeamSelection or a chat command changes the teams. *)
TeamsChange ==
  /\ up /\ phase # "started" /\ Present(slot) # {}
  /\ watcher' = watcher
  /\ Notify({}, slot)
  /\ UNCHANGED <<slot, phase, isHost, settings, live, quitRequested, up, moves, chats>>

(* The first tick; the game has a map by then. *)
GameLaunched ==
  /\ up /\ phase = "room" /\ settings
  /\ phase' = "launched"
  /\ UNCHANGED <<slot, watcher, isHost, settings, names, roster, live, quitRequested, up,
                 moves, chats>>

Frozen(sl) == Notify({}, sl)

(* The first tick beyond the start threshold. *)
GameStarted ==
  /\ up /\ phase = "launched"
  /\ phase' = "started"
  /\ watcher' = watcher
  /\ Frozen(slot)
  /\ live' = isHost
  /\ UNCHANGED <<slot, isHost, settings, quitRequested, up, moves, chats>>

(* onChat: each of the two lines sets the counter anew. *)
QuitRequested(msg) ==
  LET first == IF msg = "/quit" THEN 1 + quitRequested ELSE 0
  IN IF msg = "-harald" THEN 2 + first ELSE 0

Chat(msg) ==
  /\ up /\ chats < MaxChat
  /\ chats' = chats + 1
  /\ quitRequested' = QuitRequested(msg)
  /\ up' = (quitRequested' < 2)
  /\ UNCHANGED <<slot, watcher, phase, isHost, settings, names, roster, live, moves>>

Next ==
  \/ \E p \in Players, s \in Slots : SlotMoves(p, s) \/ \E w \in BOOLEAN : StatusChanges(p, s, w)
  \/ \E p \in Players : Leave(p)
  \/ TeamsChange \/ GameSettings \/ GameLaunched \/ GameStarted
  \/ \E msg \in {"/quit", "-harald", "hello"} : Chat(msg)

Spec == Init /\ [][Next]_vars

-----------------------------------------------------------------------------
TypeOK ==
  /\ slot \in [Players -> Slots \union {NoSlot}]
  /\ watcher \subseteq Humans
  /\ phase \in {"room", "launched", "started"}
  /\ isHost \in BOOLEAN
  /\ \A e \in roster : e.slot \in Slots
  /\ \A s \in Slots : names[s] = Empty \/ names[s][1] \in Players

(* When the teams are frozen GpgNet has been told by the host of exactly   *)
(* the players GameMonitor2 has, each in its slot, whoever came, left and  *)
(* moved before, and whatever the uninitialized host flag was at first.    *)
LiveMeansRoster ==
  phase = "started" /\ Host = Local =>
    /\ live
    /\ roster = {[key |-> Key(p, slot[p]), slot |-> slot[p]] : p \in Present(slot)}
    /\ \A e, f \in roster : e.key = f.key => e = f

(* The humans that are asked to finalise their teams are those in the game. *)
Kind(p) == IF p \in AIs THEN "ai" ELSE IF p \in watcher THEN "watcher" ELSE "player"

SlotsMatch ==
  phase = "started" \/ moves = 0 =>
    \A k \in {"ai", "watcher", "player"} :
      {s \in Slots : names[s] # Empty /\ names[s][2] = k}
        = {slot[p] : p \in {q \in Present(slot) : Kind(q) = k}}

=============================================================================
