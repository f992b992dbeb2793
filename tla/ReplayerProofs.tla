--------------------------- MODULE ReplayerProofs ---------------------------
(***************************************************************************)
(* The lobby of the replayer (TaReplayer) for any watchers, any number of  *)
(* units and any number of resyncs: the table of units is read within its  *)
(* bounds, and a launch finds everybody ready.  The playback               *)
(* (ReplayPlayback) for any demo and any watchers: all that is to be fed   *)
(* is fed, in order.                                                       *)
(***************************************************************************)
EXTENDS MCReplayer, NatLemmas, FiniteSetTheorems

-----------------------------------------------------------------------------
(* What the counts of a watcher say, by the state of its synchronisation:  *)
(* the index is inside the table wherever it is read, and nobody passes    *)
(* WAIT_ACKS without having reported more packets than there are units.    *)

PlayerOK(p) ==
  /\ p.state = "SEND_UNITS" => p.nextUnit < Units /\ p.nextUnit + 1 <= p.sendCount
  /\ p.state = "WAIT_RECEIVE_UNITS" => Units + 1 <= p.sendCount
  /\ p.state = "CHECK_ERRORS" => Units <= p.sendCount
  /\ p.state = "SEND_ACKS" => Units <= p.sendCount /\ p.nextUnit < Units
  /\ p.state = "WAIT_ACKS" => Units + 1 <= p.sendCount /\ p.nextUnit + 1 < Units
  /\ p.state \in {"END_SYNC", "WAIT_GO", "LOADING", "PLAYING"} => Units + 1 <= p.receiveCount
  /\ p.receiveCount > 0 => p.status # None

SyncStates == {"START_SYNC", "SEND_UNITS", "WAIT_RECEIVE_UNITS", "CHECK_ERRORS", "SEND_ACKS",
               "WAIT_ACKS", "END_SYNC", "WAIT_GO"}

SysMsgs == [type : {"CREATE", "DESTROY"}, dpId : Watchers]

(* The inductive invariant of both instances. *)
SyncInv ==
  /\ state \in {"LOADING_DEMO_PLAYERS", "LOBBY", "LAUNCH", "LOAD", "PLAY"}
  /\ dpPlayers \in [Watchers -> Lobby!Players \union {None}]
  /\ sysMsgs \in Seq(SysMsgs)
  /\ \A w \in Lobby!Known : PlayerOK(dpPlayers[w])
  /\ state \in {"LOADING_DEMO_PLAYERS", "LOBBY"} =>
       \A w \in Lobby!Known : dpPlayers[w].state \in SyncStates
  /\ Lobby!ReadyAtLaunch

-----------------------------------------------------------------------------
LEMMA SyncConstants ==
  /\ Watchers \subseteq Nat /\ IsFiniteSet(Watchers) /\ None \notin Lobby!Players /\ None \notin Lobby!Statuses
  /\ DemoPlayers \in Nat /\ Units \in Nat /\ UnitsPerTick \in Nat
  /\ DemoPlayers > 0 /\ Units > 0 /\ UnitsPerTick > 0
  /\ ReceivePolls \in Nat /\ AckPolls \in Nat
  /\ UnitsPerTick < Units /\ AckPolls + 1 < Units
<1>1. Lobby!IsFiniteSet(Watchers) = IsFiniteSet(Watchers)
  BY DEF Lobby!IsFiniteSet, IsFiniteSet
<1> QED
  BY <1>1, ConstantsAssumption, ManyUnits DEF Lobby!ConstantsOK

LEMMA BoundsOK ==
  MaxSent \in Nat /\ MaxJoins \in Nat
BY ConstantsAssumption DEF Lobby!ConstantsOK

(* The index after a batch that reaches the end starts again from 0. *)
LEMMA Wraps ==
  ASSUME NEW a \in Nat, NEW b \in Nat, NEW u \in Nat, b < u, a < u, u <= a + b
  PROVE  (a + b) % u \in Nat /\ ((a + b) % u) + 1 < u
<1> DEFINE x == a + b
<1>1. x \in Nat /\ u <= x /\ x < u + u /\ x < u + b
  OBVIOUS
<1> HIDE DEF x
<1>2. x % u = x - u
  <2>0. u \in Int /\ u > 0
    BY <1>1
  <2>1. x % u \in Int /\ 0 <= x % u
    BY <1>1, <2>0
  <2>2. x % u < u
    BY <1>1, <2>0
  <2>3. x \div u \in Int
    BY <1>1, <2>0
  <2>4. x = u * (x \div u) + (x % u)
    BY <1>1, <2>0
  <2> QED
    BY <1>1, <2>1, <2>2, <2>3, <2>4
<1>3. x % u \in Nat /\ (x % u) + 1 < u
  BY <1>1, <1>2
<1> QED
  BY <1>3 DEF x

LEMMA PlayerFields ==
  ASSUME NEW p \in Lobby!Players
  PROVE  /\ p.state \in SyncStates \union {"LOADING", "PLAYING"}
         /\ p.sendCount \in Nat /\ p.nextUnit \in Nat /\ p.receiveCount \in Nat
         /\ p.status \in Lobby!Statuses \union {None}
         /\ p.warned \in {"INITIAL", "HAVE_WARNED", "PROCEED_REGARDLESS"}
         /\ p.ordinal \in Nat \union {-1}
BY DEF Lobby!Players, SyncStates, Lobby!Uninitialised

(* One poll of a watcher.  Everything but the state and the counts stays,  *)
(* but for the warning.                                                    *)
Polled(p, q) ==
  /\ q \in Lobby!Players /\ PlayerOK(q) /\ q.state \in SyncStates
  /\ q.receiveCount = p.receiveCount /\ q.status = p.status /\ q.ordinal = p.ordinal

(* p with another state, count and index. *)
Moved(p, st, c, x) ==
  [state |-> st, sendCount |-> c, nextUnit |-> x, receiveCount |-> p.receiveCount,
   status |-> p.status, warned |-> p.warned, ordinal |-> p.ordinal]

LEMMA StateSet ==
  ASSUME NEW p \in Lobby!Players, NEW st \in SyncStates
  PROVE  /\ [p EXCEPT !.state = st] = Moved(p, st, p.sendCount, p.nextUnit)
         /\ [p EXCEPT !.state = st] \in Lobby!Players
<1>1. [p EXCEPT !.state = st] = Moved(p, st, p.sendCount, p.nextUnit)
  BY SMT DEF Lobby!Players, Moved
<1>2. Moved(p, st, p.sendCount, p.nextUnit) \in Lobby!Players
  BY PlayerFields DEF Moved, Lobby!Players, SyncStates, Lobby!Uninitialised
<1> QED
  BY <1>1, <1>2, Zenon

LEMMA CountSet ==
  ASSUME NEW p \in Lobby!Players, NEW c \in Nat
  PROVE  /\ [p EXCEPT !.sendCount = c] = Moved(p, p.state, c, p.nextUnit)
         /\ [p EXCEPT !.sendCount = c] \in Lobby!Players
<1>1. [p EXCEPT !.sendCount = c] = Moved(p, p.state, c, p.nextUnit)
  BY SMT DEF Lobby!Players, Moved
<1>2. Moved(p, p.state, c, p.nextUnit) \in Lobby!Players
  BY PlayerFields DEF Moved, Lobby!Players, SyncStates, Lobby!Uninitialised
<1> QED
  BY <1>1, <1>2, Zenon

LEMMA IndexSet ==
  ASSUME NEW p \in Lobby!Players, NEW x \in Nat
  PROVE  /\ [p EXCEPT !.nextUnit = x] = Moved(p, p.state, p.sendCount, x)
         /\ [p EXCEPT !.nextUnit = x] \in Lobby!Players
<1>1. [p EXCEPT !.nextUnit = x] = Moved(p, p.state, p.sendCount, x)
  BY SMT DEF Lobby!Players, Moved
<1>2. Moved(p, p.state, p.sendCount, x) \in Lobby!Players
  BY PlayerFields DEF Moved, Lobby!Players, SyncStates, Lobby!Uninitialised
<1> QED
  BY <1>1, <1>2, Zenon

(* The assignments of doSyncWatcher. *)
Set3(p, st, c, x) == [p EXCEPT !.nextUnit = x, !.sendCount = c, !.state = st]
SetState(p, st, x) == [p EXCEPT !.state = st, !.nextUnit = x]
Count3(p, st, c, x) == [[p EXCEPT !.nextUnit = x] EXCEPT !.sendCount = c, !.state = st]
Reset3(p, st, c, x) == [[p EXCEPT !.nextUnit = x] EXCEPT !.state = st, !.sendCount = c]
CountState(p, st, x) == [[p EXCEPT !.nextUnit = x] EXCEPT !.state = st]

LEMMA MovedIs ==
  ASSUME NEW p \in Lobby!Players, NEW st \in SyncStates, NEW c \in Nat, NEW x \in Nat
  PROVE  /\ Set3(p, st, c, x) = Moved(p, st, c, x)
         /\ SetState(p, st, x) = Moved(p, st, p.sendCount, x)
         /\ Count3(p, st, c, x) = Moved(p, st, c, x)
         /\ Reset3(p, st, c, x) = Moved(p, st, c, x)
         /\ CountState(p, st, x) = Moved(p, st, p.sendCount, x)
<1> DEFINE a == [p EXCEPT !.nextUnit = x]
           b == [a EXCEPT !.sendCount = c]
           d == [a EXCEPT !.state = st]
           e == [p EXCEPT !.state = st]
<1>1. a = Moved(p, p.state, p.sendCount, x) /\ a \in Lobby!Players
  BY IndexSet, Zenon DEF a
<1>2. e = Moved(p, st, p.sendCount, p.nextUnit) /\ e \in Lobby!Players
  BY StateSet, Zenon DEF e
<1> HIDE DEF a, e
<1>3. b = Moved(a, a.state, c, a.nextUnit) /\ b \in Lobby!Players
  BY <1>1, CountSet, Zenon DEF b
<1>4. d = Moved(a, st, a.sendCount, a.nextUnit) /\ d \in Lobby!Players
  BY <1>1, StateSet, Zenon DEF d
<1>5. b = Moved(p, p.state, c, x) /\ d = Moved(p, st, p.sendCount, x)
  BY <1>1, <1>3, <1>4 DEF Moved
<1> HIDE DEF b, d
<1>6. [b EXCEPT !.state = st] = Moved(p, st, c, x)
  <2>1. [b EXCEPT !.state = st] = Moved(b, st, b.sendCount, b.nextUnit)
    BY <1>3, StateSet, Zenon
  <2> QED
    BY <1>5, <2>1 DEF Moved
<1>7. [d EXCEPT !.sendCount = c] = Moved(p, st, c, x)
  <2>1. [d EXCEPT !.sendCount = c] = Moved(d, d.state, c, d.nextUnit)
    BY <1>4, CountSet, Zenon
  <2> QED
    BY <1>5, <2>1 DEF Moved
<1>8. [e EXCEPT !.nextUnit = x] = Moved(p, st, p.sendCount, x)
  <2>1. [e EXCEPT !.nextUnit = x] = Moved(e, e.state, e.sendCount, x)
    BY <1>2, IndexSet, Zenon
  <2> QED
    BY <1>2, <2>1 DEF Moved
<1>9. /\ [p EXCEPT !.nextUnit = x, !.sendCount = c, !.state = st] = [b EXCEPT !.state = st]
      /\ [p EXCEPT !.state = st, !.nextUnit = x] = [e EXCEPT !.nextUnit = x]
      /\ [a EXCEPT !.sendCount = c, !.state = st] = [b EXCEPT !.state = st]
      /\ [a EXCEPT !.state = st, !.sendCount = c] = [d EXCEPT !.sendCount = c]
  BY Zenon DEF a, b, d, e
<1> QED
  BY <1>5, <1>6, <1>7, <1>8, <1>9, Zenon DEF a, d, Set3, SetState, Count3, Reset3, CountState

LEMMA MovedOK ==
  ASSUME NEW p \in Lobby!Players, NEW st \in SyncStates, NEW c \in Nat, NEW x \in Nat,
         PlayerOK(Moved(p, st, c, x))
  PROVE  Polled(p, Moved(p, st, c, x))
<1>1. Moved(p, st, c, x) \in Lobby!Players
  BY PlayerFields DEF Moved, Lobby!Players, SyncStates, Lobby!Uninitialised
<1> QED
  BY <1>1 DEF Polled, Moved

LEMMA PlayerPolled ==
  ASSUME NEW p \in Lobby!Players, PlayerOK(p), p.state \in SyncStates, NEW status \in Lobby!Statuses
  PROVE  /\ Polled(p, Lobby!doSyncWatcher(p, status).player)
         /\ Lobby!doSyncWatcher(p, status).packets \in Nat
         /\ Lobby!Go(p, status) => Lobby!doSyncWatcher(p, status).player = p
<1> DEFINE r == Lobby!doSyncWatcher(p, status)
           x == p.nextUnit
           c == p.sendCount
           n == p.receiveCount
<1>1. /\ x \in Nat /\ c \in Nat /\ n \in Nat
      /\ p.status \in Lobby!Statuses \union {None} /\ p.ordinal \in Nat \union {-1}
      /\ p.warned \in {"INITIAL", "HAVE_WARNED", "PROCEED_REGARDLESS"}
      /\ n > 0 => p.status # None
  BY PlayerFields DEF PlayerOK
<1> HIDE DEF r
<1>2. ASSUME p.state = "START_SYNC" PROVE Polled(p, r.player) /\ r.packets \in Nat
  <2>1. r = Lobby!StartSync(p)
    BY <1>2 DEF r, Lobby!doSyncWatcher
  <2>2. Polled(p, r.player) /\ r.packets \in Nat
    <3>1. r.player = Set3(p, "SEND_UNITS", n + 1, 0) /\ r.packets = 1
      BY <1>2, <2>1 DEF Lobby!StartSync, Set3
    <3>2. "SEND_UNITS" \in SyncStates /\ n + 1 \in Nat /\ 0 \in Nat /\ 1 \in Nat
      BY <1>1, SyncConstants DEF SyncStates
    <3>3. r.player = Moved(p, "SEND_UNITS", n + 1, 0) /\ r.packets \in Nat
      BY <3>1, <3>2, MovedIs, Zenon
    <3>4. PlayerOK(Moved(p, "SEND_UNITS", n + 1, 0))
      BY <1>1, <1>2, SyncConstants DEF PlayerOK, Moved
    <3> QED
      BY <3>2, <3>3, <3>4, MovedOK, Zenon
  <2> QED
    BY <2>2
<1>3. ASSUME p.state = "SEND_UNITS" PROVE Polled(p, r.player) /\ r.packets \in Nat
  <2>1. r = Lobby!SendUnits(p)
    BY <1>3 DEF r, Lobby!doSyncWatcher
  <2>2. ASSUME x + UnitsPerTick >= Units PROVE Polled(p, r.player) /\ r.packets \in Nat
    <3>0. x < Units /\ x + 1 <= c
      BY <1>3 DEF PlayerOK
    <3>1. r.player = Set3(p, "WAIT_RECEIVE_UNITS", c + (Units - x), 0) /\ r.packets = Units - x
      BY <1>3, <2>1, <2>2 DEF Lobby!SendUnits, Set3
    <3>2. "WAIT_RECEIVE_UNITS" \in SyncStates /\ c + (Units - x) \in Nat /\ 0 \in Nat /\ Units - x \in Nat
      BY <1>1, SyncConstants, <3>0 DEF SyncStates
    <3>3. r.player = Moved(p, "WAIT_RECEIVE_UNITS", c + (Units - x), 0) /\ r.packets \in Nat
      BY <3>1, <3>2, MovedIs, Zenon
    <3>4. PlayerOK(Moved(p, "WAIT_RECEIVE_UNITS", c + (Units - x), 0))
      BY <1>1, <1>3, <2>2, SyncConstants, <3>0 DEF PlayerOK, Moved
    <3> QED
      BY <3>2, <3>3, <3>4, MovedOK, Zenon
  <2>3. ASSUME ~(x + UnitsPerTick >= Units) PROVE Polled(p, r.player) /\ r.packets \in Nat
    <3>0. x < Units /\ x + 1 <= c
      BY <1>3 DEF PlayerOK
    <3>1. r.player = Set3(p, "SEND_UNITS", c + UnitsPerTick, x + UnitsPerTick) /\ r.packets = UnitsPerTick
      BY <1>3, <2>1, <2>3 DEF Lobby!SendUnits, Set3
    <3>2. "SEND_UNITS" \in SyncStates /\ c + UnitsPerTick \in Nat /\ x + UnitsPerTick \in Nat /\ UnitsPerTick \in Nat
      BY <1>1, SyncConstants, <3>0 DEF SyncStates
    <3>3. r.player = Moved(p, "SEND_UNITS", c + UnitsPerTick, x + UnitsPerTick) /\ r.packets \in Nat
      BY <3>1, <3>2, MovedIs, ZenonT(30)
    <3>4. PlayerOK(Moved(p, "SEND_UNITS", c + UnitsPerTick, x + UnitsPerTick))
      BY <1>1, <1>3, <2>3, SyncConstants, <3>0 DEF PlayerOK, Moved
    <3> QED
      BY <3>2, <3>3, <3>4, MovedOK, Zenon
  <2> QED
    BY <1>1, <2>2, <2>3
<1>4. ASSUME p.state = "WAIT_RECEIVE_UNITS" PROVE Polled(p, r.player) /\ r.packets \in Nat
  <2>1. r = Lobby!WaitReceiveUnits(p)
    BY <1>4 DEF r, Lobby!doSyncWatcher
  <2>2. ASSUME n + 1 >= c PROVE Polled(p, r.player) /\ r.packets \in Nat
    <3>1. r.player = Count3(p, "CHECK_ERRORS", n, x + 1) /\ r.packets = 0
      BY <1>4, <2>1, <2>2 DEF Lobby!WaitReceiveUnits, Count3
    <3>2. "CHECK_ERRORS" \in SyncStates /\ n \in Nat /\ x + 1 \in Nat /\ 0 \in Nat
      BY <1>1, SyncConstants DEF SyncStates
    <3>3. r.player = Moved(p, "CHECK_ERRORS", n, x + 1) /\ r.packets \in Nat
      BY <3>1, <3>2, MovedIs, Zenon
    <3>4. PlayerOK(Moved(p, "CHECK_ERRORS", n, x + 1))
      BY <1>1, <1>4, <2>2, SyncConstants DEF PlayerOK, Moved
    <3> QED
      BY <3>2, <3>3, <3>4, MovedOK, Zenon
  <2>3. ASSUME ~(n + 1 >= c), x + 1 > ReceivePolls PROVE Polled(p, r.player) /\ r.packets \in Nat
    <3>1. r.player = CountState(p, "START_SYNC", x + 1) /\ r.packets = 0
      BY <1>4, <2>1, <2>3 DEF Lobby!WaitReceiveUnits, CountState
    <3>2. "START_SYNC" \in SyncStates /\ c \in Nat /\ x + 1 \in Nat /\ 0 \in Nat
      BY <1>1, SyncConstants DEF SyncStates
    <3>3. r.player = Moved(p, "START_SYNC", c, x + 1) /\ r.packets \in Nat
      BY <3>1, <3>2, MovedIs, Zenon
    <3>4. PlayerOK(Moved(p, "START_SYNC", c, x + 1))
      BY <1>1, <1>4, <2>3, SyncConstants DEF PlayerOK, Moved
    <3> QED
      BY <3>2, <3>3, <3>4, MovedOK, Zenon
  <2>4. ASSUME ~(n + 1 >= c), ~(x + 1 > ReceivePolls) PROVE Polled(p, r.player) /\ r.packets \in Nat
    <3>1. r.player = [p EXCEPT !.nextUnit = x + 1] /\ r.packets = 0
      BY <1>4, <2>1, <2>4 DEF Lobby!WaitReceiveUnits
    <3>2. "WAIT_RECEIVE_UNITS" \in SyncStates /\ c \in Nat /\ x + 1 \in Nat /\ 0 \in Nat
      BY <1>1, SyncConstants DEF SyncStates
    <3>3. r.player = Moved(p, "WAIT_RECEIVE_UNITS", c, x + 1) /\ r.packets \in Nat
      BY <1>4, <3>1, <3>2, IndexSet, Zenon
    <3>4. PlayerOK(Moved(p, "WAIT_RECEIVE_UNITS", c, x + 1))
      BY <1>1, <1>4, <2>4, SyncConstants DEF PlayerOK, Moved
    <3> QED
      BY <3>2, <3>3, <3>4, MovedOK, Zenon
  <2> QED
    BY <1>1, <2>2, <2>3, <2>4
<1>5. ASSUME p.state = "CHECK_ERRORS" PROVE Polled(p, r.player) /\ r.packets \in Nat
  <2>1. r = Lobby!CheckErrors(p)
    BY <1>5 DEF r, Lobby!doSyncWatcher
  <2>2. Polled(p, r.player) /\ r.packets \in Nat
    <3>1. r.player = SetState(p, "SEND_ACKS", 0) /\ r.packets = 0
      BY <1>5, <2>1 DEF Lobby!CheckErrors, SetState
    <3>2. "SEND_ACKS" \in SyncStates /\ c \in Nat /\ 0 \in Nat /\ 0 \in Nat
      BY <1>1, SyncConstants DEF SyncStates
    <3>3. r.player = Moved(p, "SEND_ACKS", c, 0) /\ r.packets \in Nat
      BY <3>1, <3>2, MovedIs, Zenon
    <3>4. PlayerOK(Moved(p, "SEND_ACKS", c, 0))
      BY <1>1, <1>5, SyncConstants DEF PlayerOK, Moved
    <3> QED
      BY <3>2, <3>3, <3>4, MovedOK, Zenon
  <2> QED
    BY <2>2
<1>6. ASSUME p.state = "SEND_ACKS" PROVE Polled(p, r.player) /\ r.packets \in Nat
  <2>1. r = Lobby!SendAcks(p)
    BY <1>6 DEF r, Lobby!doSyncWatcher
  <2>2. ASSUME x + UnitsPerTick >= Units PROVE Polled(p, r.player) /\ r.packets \in Nat
    <3> DEFINE y == (x + UnitsPerTick) % Units
    <3>0. y \in Nat /\ y + 1 < Units
      BY <1>1, <1>6, <2>2, SyncConstants, Wraps DEF PlayerOK
    <3>1. r.player = Set3(p, "WAIT_ACKS", c + UnitsPerTick, y) /\ r.packets = UnitsPerTick
      BY <1>6, <2>1, <2>2 DEF Lobby!SendAcks, Set3
    <3>2. "WAIT_ACKS" \in SyncStates /\ c + UnitsPerTick \in Nat /\ y \in Nat /\ UnitsPerTick \in Nat
      BY <1>1, SyncConstants, <3>0 DEF SyncStates
    <3>3. r.player = Moved(p, "WAIT_ACKS", c + UnitsPerTick, y) /\ r.packets \in Nat
      BY <3>1, <3>2, MovedIs, ZenonT(30)
    <3>4. PlayerOK(Moved(p, "WAIT_ACKS", c + UnitsPerTick, y))
      BY <1>1, <1>6, <2>2, SyncConstants, <3>0 DEF PlayerOK, Moved
    <3> QED
      BY <3>2, <3>3, <3>4, MovedOK, Zenon
  <2>3. ASSUME ~(x + UnitsPerTick >= Units) PROVE Polled(p, r.player) /\ r.packets \in Nat
    <3> DEFINE y == (x + UnitsPerTick) % Units
    <3>0. y \in Nat /\ y < Units
      BY <1>1, SyncConstants
    <3>1. r.player = Set3(p, "SEND_ACKS", c + UnitsPerTick, y) /\ r.packets = UnitsPerTick
      BY <1>6, <2>1, <2>3 DEF Lobby!SendAcks, Set3
    <3>2. "SEND_ACKS" \in SyncStates /\ c + UnitsPerTick \in Nat /\ y \in Nat /\ UnitsPerTick \in Nat
      BY <1>1, SyncConstants, <3>0 DEF SyncStates
    <3>3. r.player = Moved(p, "SEND_ACKS", c + UnitsPerTick, y) /\ r.packets \in Nat
      BY <3>1, <3>2, MovedIs, ZenonT(30)
    <3>4. PlayerOK(Moved(p, "SEND_ACKS", c + UnitsPerTick, y))
      BY <1>1, <1>6, <2>3, SyncConstants, <3>0 DEF PlayerOK, Moved
    <3> QED
      BY <3>2, <3>3, <3>4, MovedOK, Zenon
  <2> QED
    BY <1>1, <2>2, <2>3
<1>7. ASSUME p.state = "WAIT_ACKS" PROVE Polled(p, r.player) /\ r.packets \in Nat
  <2>1. r = Lobby!WaitAcks(p)
    BY <1>7 DEF r, Lobby!doSyncWatcher
  <2>2. ASSUME n = c PROVE Polled(p, r.player) /\ r.packets \in Nat
    <3>1. r.player = CountState(p, "END_SYNC", x + 1) /\ r.packets = 0
      BY <1>7, <2>1, <2>2 DEF Lobby!WaitAcks, CountState
    <3>2. "END_SYNC" \in SyncStates /\ c \in Nat /\ x + 1 \in Nat /\ 0 \in Nat
      BY <1>1, SyncConstants DEF SyncStates
    <3>3. r.player = Moved(p, "END_SYNC", c, x + 1) /\ r.packets \in Nat
      BY <3>1, <3>2, MovedIs, Zenon
    <3>4. PlayerOK(Moved(p, "END_SYNC", c, x + 1))
      BY <1>1, <1>7, <2>2, SyncConstants DEF PlayerOK, Moved
    <3> QED
      BY <3>2, <3>3, <3>4, MovedOK, Zenon
  <2>3. ASSUME n # c, x + 1 > AckPolls PROVE Polled(p, r.player) /\ r.packets \in Nat
    <3>1. r.player = Reset3(p, "SEND_ACKS", Units + 1, x + 1) /\ r.packets = 0
      BY <1>7, <2>1, <2>3 DEF Lobby!WaitAcks, Reset3
    <3>2. "SEND_ACKS" \in SyncStates /\ Units + 1 \in Nat /\ x + 1 \in Nat /\ 0 \in Nat
      BY <1>1, SyncConstants DEF SyncStates
    <3>3. r.player = Moved(p, "SEND_ACKS", Units + 1, x + 1) /\ r.packets \in Nat
      BY <3>1, <3>2, MovedIs, ZenonT(30)
    <3>4. PlayerOK(Moved(p, "SEND_ACKS", Units + 1, x + 1))
      BY <1>1, <1>7, <2>3, SyncConstants DEF PlayerOK, Moved
    <3> QED
      BY <3>2, <3>3, <3>4, MovedOK, Zenon
  <2>4. ASSUME n # c, ~(x + 1 > AckPolls) PROVE Polled(p, r.player) /\ r.packets \in Nat
    <3>1. r.player = [p EXCEPT !.nextUnit = x + 1] /\ r.packets = 0
      BY <1>7, <2>1, <2>4 DEF Lobby!WaitAcks
    <3>2. "WAIT_ACKS" \in SyncStates /\ c \in Nat /\ x + 1 \in Nat /\ 0 \in Nat
      BY <1>1, SyncConstants DEF SyncStates
    <3>3. r.player = Moved(p, "WAIT_ACKS", c, x + 1) /\ r.packets \in Nat
      BY <1>7, <3>1, <3>2, IndexSet, Zenon
    <3>4. PlayerOK(Moved(p, "WAIT_ACKS", c, x + 1))
      BY <1>1, <1>7, <2>4, SyncConstants DEF PlayerOK, Moved
    <3> QED
      BY <3>2, <3>3, <3>4, MovedOK, Zenon
  <2> QED
    BY <1>1, <2>2, <2>3, <2>4
<1>8. ASSUME p.state = "END_SYNC" PROVE Polled(p, r.player) /\ r.packets \in Nat
  <2>1. r = Lobby!EndSync(p)
    BY <1>8 DEF r, Lobby!doSyncWatcher
  <2>2. Polled(p, r.player) /\ r.packets \in Nat
    <3>1. r.player = [p EXCEPT !.state = "WAIT_GO"] /\ r.packets = 0
      BY <1>8, <2>1 DEF Lobby!EndSync
    <3>2. "WAIT_GO" \in SyncStates /\ c \in Nat /\ x \in Nat /\ 0 \in Nat
      BY <1>1, SyncConstants DEF SyncStates
    <3>3. r.player = Moved(p, "WAIT_GO", c, x) /\ r.packets \in Nat
      BY <3>1, <3>2, StateSet, Zenon
    <3>4. PlayerOK(Moved(p, "WAIT_GO", c, x))
      BY <1>1, <1>8, SyncConstants DEF PlayerOK, Moved
    <3> QED
      BY <3>2, <3>3, <3>4, MovedOK, Zenon
  <2> QED
    BY <2>2
<1>9. CASE p.state = "WAIT_GO"
  <2>1. r = Lobby!WaitGo(p, status)
    BY <1>9 DEF r, Lobby!doSyncWatcher
  <2> QED
    BY <1>1, <1>9, <2>1 DEF Lobby!WaitGo, Polled, PlayerOK, Lobby!Players, SyncStates, r
<1>10. p.state # "WAIT_GO" => ~Lobby!Go(p, status)
  BY DEF Lobby!Go
<1> QED
  BY <1>2, <1>3, <1>4, <1>5, <1>6, <1>7, <1>8, <1>9, <1>10 DEF SyncStates, r

-----------------------------------------------------------------------------
(* The numbers of the watchers: everyone has as many before it as its      *)
(* number says, so the numbers are consecutive.                            *)

Before(K, w) == {v \in K : v < w}

LEMMA Ranks ==
  ASSUME NEW K \in SUBSET Nat, IsFiniteSet(K), NEW D \in Nat
  PROVE  /\ \A w \in K : Cardinality(Before(K, w)) \in Nat
         /\ {D + Cardinality(Before(K, w)) : w \in K} = D..(D + Cardinality(K) - 1)
<1> DEFINE n == Cardinality(K)
           rank == [w \in K |-> Cardinality(Before(K, w))]
<1>1. n \in Nat
  BY FS_CardinalityType
<1>2. ASSUME NEW w \in K
      PROVE  /\ IsFiniteSet(Before(K, w)) /\ Cardinality(Before(K, w)) \in Nat
             /\ Cardinality(Before(K, w) \union {w}) = Cardinality(Before(K, w)) + 1
             /\ IsFiniteSet(Before(K, w) \union {w})
  <2>1. Before(K, w) \in SUBSET K /\ w \notin Before(K, w)
    BY DEF Before
  <2>2. IsFiniteSet(Before(K, w))
    BY <2>1, FS_Subset
  <2> QED
    BY <2>1, <2>2, FS_CardinalityType, FS_AddElement
<1>3. \A w \in K : rank[w] \in 0..(n - 1)
  <2> SUFFICES ASSUME NEW w \in K PROVE rank[w] \in 0..(n - 1)
    OBVIOUS
  <2>1. Before(K, w) \union {w} \in SUBSET K
    BY DEF Before
  <2>2. Cardinality(Before(K, w) \union {w}) <= n
    BY <2>1, FS_Subset
  <2> QED
    BY <1>1, <1>2, <2>2
<1>4. ASSUME NEW v \in K, NEW w \in K, v < w PROVE rank[v] < rank[w]
  <2>1. Before(K, v) \union {v} \in SUBSET Before(K, w)
    <3>1. v \in Before(K, w)
      BY <1>4 DEF Before
    <3>2. ASSUME NEW u \in Before(K, v) PROVE u \in Before(K, w)
      <4>1. u \in K /\ u < v /\ u \in Nat /\ v \in Nat /\ w \in Nat
        BY DEF Before
      <4> QED
        BY <1>4, <4>1 DEF Before
    <3> QED
      BY <3>1, <3>2
  <2>2. Cardinality(Before(K, v) \union {v}) <= Cardinality(Before(K, w))
    BY <1>2, <2>1, FS_Subset
  <2>3. /\ Cardinality(Before(K, v)) \in Nat /\ Cardinality(Before(K, w)) \in Nat
        /\ Cardinality(Before(K, v) \union {v}) = Cardinality(Before(K, v)) + 1
    BY <1>2
  <2>4. Cardinality(Before(K, v)) < Cardinality(Before(K, w))
    BY <2>2, <2>3
  <2> QED
    BY <2>4
<1>5. rank \in Injection(K, 0..(n - 1))
  <2>1. rank \in [K -> 0..(n - 1)]
    BY <1>3
  <2>2. ASSUME NEW v \in K, NEW w \in K, rank[v] = rank[w] PROVE v = w
    <3>1. rank[v] \in Int /\ rank[w] \in Int
      BY <1>3
    <3>2. ~(v < w) /\ ~(w < v)
      BY <1>4, <2>2, <3>1
    <3> QED
      BY <3>2
  <2> QED
    BY <2>1, <2>2 DEF Injection, IsInjective
<1>6. IsFiniteSet(0..(n - 1)) /\ Cardinality(0..(n - 1)) = n
  <2>1. 0 \in Int /\ n - 1 \in Int
    BY <1>1
  <2>2. IsFiniteSet(0..(n - 1)) /\ Cardinality(0..(n - 1)) = IF 0 > n - 1 THEN 0 ELSE (n - 1) - 0 + 1
    BY <2>1, FS_Interval
  <2> QED
    BY <1>1, <2>2
<1>7. rank \in Surjection(K, 0..(n - 1))
  BY <1>5, <1>6, FS_Injection
<1>8. \A k \in 0..(n - 1) : \E w \in K : rank[w] = k
  BY <1>7 DEF Surjection
<1> HIDE DEF n
<1>9. \A w \in K : D + Cardinality(Before(K, w)) \in D..(D + n - 1)
  BY <1>1, <1>3
<1>10. ASSUME NEW k \in D..(D + n - 1) PROVE \E w \in K : D + Cardinality(Before(K, w)) = k
  <2>1. k - D \in 0..(n - 1)
    BY <1>1
  <2>2. PICK w \in K : rank[w] = k - D
    BY <1>8, <2>1
  <2> QED
    BY <2>2
<1> QED
  BY <1>2, <1>9, <1>10 DEF n

LEMMA LobbyCounts ==
  /\ \A S : Lobby!Cardinality(S) = Cardinality(S)
  /\ \A S : Resync!Cardinality(S) = Cardinality(S)
BY DEF Lobby!Cardinality, Resync!Cardinality, Cardinality

LEMMA Ordinals ==
  /\ \A w \in Lobby!Known : Lobby!Ordinal(w) \in Nat
  /\ {Lobby!Ordinal(w) : w \in Lobby!Known}
       = DemoPlayers..(DemoPlayers + Lobby!Cardinality(Lobby!Known) - 1)
<1> DEFINE K == Lobby!Known
<1>1. K \in SUBSET Nat /\ IsFiniteSet(K) /\ DemoPlayers \in Nat
  <2>1. K \in SUBSET Watchers
    BY DEF Lobby!Known
  <2> QED
    BY <2>1, SyncConstants, FS_Subset
<1>2. \A w : Lobby!Ordinal(w) = DemoPlayers + Cardinality(Before(K, w))
  BY LobbyCounts DEF Lobby!Ordinal, Before
<1>3. Lobby!Cardinality(K) = Cardinality(K)
  BY LobbyCounts
<1> HIDE DEF K
<1>4. /\ \A w \in K : Cardinality(Before(K, w)) \in Nat
      /\ {DemoPlayers + Cardinality(Before(K, w)) : w \in K} = DemoPlayers..(DemoPlayers + Cardinality(K) - 1)
  BY <1>1, Ranks
<1>5. \A w \in K : Lobby!Ordinal(w) \in Nat
  BY <1>1, <1>2, <1>4
<1>6. {Lobby!Ordinal(w) : w \in K} = {DemoPlayers + Cardinality(Before(K, w)) : w \in K}
  BY <1>2
<1> QED
  BY <1>3, <1>4, <1>5, <1>6, Zenon DEF K

-----------------------------------------------------------------------------
(* The table of the players. *)

(* One field of a player is assigned. *)
LEMMA PlayerSet ==
  ASSUME NEW p \in Lobby!Players
  PROVE  /\ \A n \in Nat : LET q == [p EXCEPT !.receiveCount = n] IN
              q \in Lobby!Players /\ q.receiveCount = n
              /\ q.status = p.status /\ q.state = p.state /\ q.nextUnit = p.nextUnit
              /\ q.sendCount = p.sendCount
         /\ \A s \in Lobby!Statuses : LET q == [p EXCEPT !.status = s] IN
              q \in Lobby!Players /\ q.receiveCount = p.receiveCount
              /\ q.status = s /\ q.state = p.state /\ q.nextUnit = p.nextUnit
              /\ q.sendCount = p.sendCount
         /\ \A o \in Nat : LET q == [p EXCEPT !.ordinal = o] IN
              q \in Lobby!Players /\ q.receiveCount = p.receiveCount /\ q.ordinal = o
              /\ q.status = p.status /\ q.state = p.state /\ q.nextUnit = p.nextUnit
              /\ q.sendCount = p.sendCount
         /\ \A st \in {"LOADING", "PLAYING"} : LET q == [p EXCEPT !.state = st] IN
              q \in Lobby!Players /\ q.receiveCount = p.receiveCount /\ q.ordinal = p.ordinal
              /\ q.status = p.status /\ q.state = st
<1>1. ASSUME NEW n \in Nat PROVE [p EXCEPT !.receiveCount = n] \in Lobby!Players
  BY SMT DEF Lobby!Players
<1>2. ASSUME NEW s \in Lobby!Statuses PROVE [p EXCEPT !.status = s] \in Lobby!Players
  BY SMT DEF Lobby!Players
<1>3. ASSUME NEW o \in Nat PROVE [p EXCEPT !.ordinal = o] \in Lobby!Players
  BY SMT DEF Lobby!Players
<1>4. ASSUME NEW st \in {"LOADING", "PLAYING"} PROVE [p EXCEPT !.state = st] \in Lobby!Players
  BY SMT DEF Lobby!Players
<1> QED
  BY <1>1, <1>2, <1>3, <1>4 DEF Lobby!Players

LEMMA Seated ==
  ASSUME dpPlayers \in [Watchers -> Lobby!Players \union {None}], NEW w \in Lobby!Known
  PROVE  dpPlayers[w] \in Lobby!Players /\ w \in Watchers
BY DEF Lobby!Known

(* A known player gets another record. *)
LEMMA Reseated ==
  ASSUME dpPlayers \in [Watchers -> Lobby!Players \union {None}], NEW w \in Lobby!Known,
         NEW q \in Lobby!Players, dpPlayers' = [dpPlayers EXCEPT ![w] = q]
  PROVE  /\ dpPlayers' \in [Watchers -> Lobby!Players \union {None}]
         /\ Lobby!Known' = Lobby!Known
         /\ dpPlayers'[w] = q
         /\ \A v \in Watchers \ {w} : dpPlayers'[v] = dpPlayers[v]
BY SyncConstants DEF Lobby!Known

(* What a launch found does not change. *)
LEMMA ReadyStays ==
  ASSUME Lobby!ReadyAtLaunch, state \in {"LAUNCH", "LOAD", "PLAY"}, Lobby!Known' = Lobby!Known,
         \A w \in Lobby!Known : /\ dpPlayers'[w].receiveCount = dpPlayers[w].receiveCount
                                /\ dpPlayers'[w].status = dpPlayers[w].status
                                /\ dpPlayers'[w].ordinal = dpPlayers[w].ordinal
  PROVE  Lobby!ReadyAtLaunch'
<1> DEFINE K == Lobby!Known
<1>1. /\ K # {}
      /\ \A w \in K : dpPlayers[w].receiveCount > Units /\ dpPlayers[w].status.clickedIn
      /\ {dpPlayers[w].ordinal : w \in K} = DemoPlayers..(DemoPlayers + Lobby!Cardinality(K) - 1)
  BY DEF Lobby!ReadyAtLaunch
<1>2. {dpPlayers'[w].ordinal : w \in K} = {dpPlayers[w].ordinal : w \in K}
  OBVIOUS
<1>3. /\ K' = K /\ K # {}
      /\ \A w \in K : dpPlayers'[w].receiveCount > Units /\ dpPlayers'[w].status.clickedIn
      /\ {dpPlayers'[w].ordinal : w \in K} = DemoPlayers..(DemoPlayers + Lobby!Cardinality(K) - 1)
  BY <1>1, <1>2
<1> QED
  BY <1>3, Zenon DEF Lobby!ReadyAtLaunch, K

-----------------------------------------------------------------------------
(* The steps.  Each is stated for what both instances do. *)

LEMMA SyncInit ==
  ASSUME Lobby!Init
  PROVE  SyncInv
<1>1. Lobby!Known = {}
  BY DEF Lobby!Init, Lobby!Known
<1>2. dpPlayers \in [Watchers -> Lobby!Players \union {None}] /\ sysMsgs \in Seq(SysMsgs)
  BY DEF Lobby!Init
<1> QED
  BY <1>1, <1>2 DEF Lobby!Init, SyncInv, Lobby!ReadyAtLaunch

(* DirectPlay queues a message, or nothing happens here. *)
Announced == sysMsgs' \in {sysMsgs} \union {Append(sysMsgs, m) : m \in SysMsgs}
             /\ UNCHANGED <<state, dpPlayers>>

LEMMA AnnouncedKeeps ==
  ASSUME SyncInv, Announced
  PROVE  SyncInv'
<1>1. sysMsgs' \in Seq(SysMsgs)
  BY DEF SyncInv, Announced
<1>2. state' = state /\ dpPlayers' = dpPlayers
  BY DEF Announced
<1>3. Lobby!Known' = Lobby!Known
  BY <1>2 DEF Lobby!Known
<1>4. Lobby!ReadyAtLaunch'
  <2>1. CASE state \in {"LAUNCH", "LOAD", "PLAY"}
    BY <1>2, <1>3, <2>1, ReadyStays DEF SyncInv
  <2>2. CASE state \notin {"LAUNCH", "LOAD", "PLAY"}
    BY <1>2, <2>2 DEF Lobby!ReadyAtLaunch
  <2> QED
    BY <2>1, <2>2
<1>5. \A w \in Lobby!Known : PlayerOK(dpPlayers[w])'
  BY <1>2 DEF SyncInv, PlayerOK
<1> QED
  BY <1>1, <1>2, <1>3, <1>4, <1>5 DEF SyncInv

LEMMA DemoLoaded ==
  ASSUME SyncInv, Lobby!CompletedLoadingDemoPlayers
  PROVE  SyncInv'
<1>1. state = "LOADING_DEMO_PLAYERS" /\ state' = "LOBBY" /\ dpPlayers' = dpPlayers /\ sysMsgs' = sysMsgs
  BY DEF Lobby!CompletedLoadingDemoPlayers
<1>2. Lobby!Known' = Lobby!Known
  BY <1>1 DEF Lobby!Known
<1>3. \A w \in Lobby!Known : PlayerOK(dpPlayers[w])'
  BY <1>1 DEF SyncInv, PlayerOK
<1> QED
  BY <1>1, <1>2, <1>3 DEF SyncInv, Lobby!ReadyAtLaunch

(* A player comes or goes. *)
LEMMA MessageTaken ==
  ASSUME SyncInv, Lobby!onLobbySystemMessage
  PROVE  SyncInv'
<1> DEFINE m == Head(sysMsgs)
           q == IF m.type = "CREATE" THEN Lobby!NewPlayer ELSE None
<1>1. m \in SysMsgs /\ sysMsgs' \in Seq(SysMsgs)
  BY DEF SyncInv, Lobby!onLobbySystemMessage
<1>2. m.dpId \in Watchers
  BY <1>1 DEF SysMsgs
<1>3. Lobby!NewPlayer \in Lobby!Players /\ PlayerOK(Lobby!NewPlayer) /\ Lobby!NewPlayer.state \in SyncStates
  BY SyncConstants DEF Lobby!NewPlayer, Lobby!Players, PlayerOK, SyncStates, Lobby!Uninitialised
<1>4. state = "LOBBY" /\ state' = "LOBBY" /\ dpPlayers' = [dpPlayers EXCEPT ![m.dpId] = q]
  BY DEF Lobby!onLobbySystemMessage
<1> HIDE DEF m, q
<1>5. dpPlayers' \in [Watchers -> Lobby!Players \union {None}]
  BY <1>2, <1>3, <1>4 DEF SyncInv, q
<1>6. ASSUME NEW w \in Lobby!Known'
      PROVE  PlayerOK(dpPlayers'[w]) /\ dpPlayers'[w].state \in SyncStates
  <2>1. w \in Watchers /\ dpPlayers'[w] # None
    BY <1>6 DEF Lobby!Known
  <2>2. CASE w = m.dpId
    BY <1>2, <1>3, <1>4, <2>1, <2>2 DEF SyncInv, q
  <2>3. CASE w # m.dpId
    <3>1. dpPlayers'[w] = dpPlayers[w] /\ w \in Lobby!Known
      BY <1>4, <2>1, <2>3 DEF SyncInv, Lobby!Known
    <3> QED
      BY <1>4, <3>1 DEF SyncInv
  <2> QED
    BY <2>2, <2>3
<1>7. \A w \in Lobby!Known' : PlayerOK(dpPlayers[w])'
  BY <1>6 DEF PlayerOK
<1> QED
  BY <1>1, <1>4, <1>5, <1>6, <1>7 DEF SyncInv, Lobby!ReadyAtLaunch

(* A known player of the lobby is changed and stays in its state. *)
LEMMA ReseatedKeeps ==
  ASSUME SyncInv, state = "LOBBY", state' = "LOBBY", sysMsgs' = sysMsgs,
         NEW w \in Lobby!Known, NEW q \in Lobby!Players, PlayerOK(q), q.state \in SyncStates,
         dpPlayers' = [dpPlayers EXCEPT ![w] = q]
  PROVE  SyncInv'
<1>1. /\ dpPlayers' \in [Watchers -> Lobby!Players \union {None}]
      /\ Lobby!Known' = Lobby!Known
      /\ dpPlayers'[w] = q
      /\ \A v \in Watchers \ {w} : dpPlayers'[v] = dpPlayers[v]
  BY Reseated DEF SyncInv
<1>2. ASSUME NEW v \in Lobby!Known PROVE PlayerOK(dpPlayers'[v]) /\ dpPlayers'[v].state \in SyncStates
  <2>1. CASE v = w
    BY <1>1, <2>1
  <2>2. CASE v # w
    <3>1. dpPlayers'[v] = dpPlayers[v]
      BY <1>1, <2>2 DEF Lobby!Known
    <3> QED
      BY <3>1 DEF SyncInv
  <2> QED
    BY <2>1, <2>2
<1>3. \A v \in Lobby!Known : PlayerOK(dpPlayers[v])'
  BY <1>2 DEF PlayerOK
<1> QED
  BY <1>1, <1>2, <1>3 DEF SyncInv, Lobby!ReadyAtLaunch

(* A report raises the count: what had to be received is still received. *)
Counted(w, n) ==
  /\ state = "LOBBY" /\ w \in Lobby!Known /\ dpPlayers[w].status # None
  /\ n \in Nat /\ n > dpPlayers[w].receiveCount
  /\ dpPlayers' = [dpPlayers EXCEPT ![w].receiveCount = n]
  /\ UNCHANGED <<state, sysMsgs>>

LEMMA CountedKeeps ==
  ASSUME SyncInv, NEW w, NEW n, Counted(w, n)
  PROVE  SyncInv'
<1> DEFINE p == dpPlayers[w]
           q == [p EXCEPT !.receiveCount = n]
<1>1. /\ p \in Lobby!Players /\ PlayerOK(p) /\ p.state \in SyncStates
      /\ p.receiveCount \in Nat /\ p.sendCount \in Nat /\ p.nextUnit \in Nat
  BY Seated, PlayerFields DEF SyncInv, Counted
<1>2. w \in Lobby!Known /\ n \in Nat /\ n > p.receiveCount /\ p.status # None
  BY DEF Counted
<1>3. dpPlayers' = [dpPlayers EXCEPT ![w] = q] /\ state = "LOBBY" /\ state' = "LOBBY" /\ sysMsgs' = sysMsgs
  BY DEF Counted
<1> HIDE DEF p
<1>4. /\ q \in Lobby!Players /\ q.receiveCount = n /\ q.status = p.status /\ q.state = p.state
      /\ q.nextUnit = p.nextUnit /\ q.sendCount = p.sendCount
  BY <1>1, <1>2, PlayerSet, ZenonT(30)
<1> HIDE DEF q
<1>5. PlayerOK(q)
  BY <1>1, <1>2, <1>4, SyncConstants DEF PlayerOK
<1> QED
  BY <1>1, <1>2, <1>3, <1>4, <1>5, ReseatedKeeps

LEMMA StatusKeeps ==
  ASSUME SyncInv, NEW w, NEW s \in Lobby!Statuses, Lobby!LobbyStatus(w, s)
  PROVE  SyncInv'
<1> DEFINE p == dpPlayers[w]
           q == [p EXCEPT !.status = s]
<1>1. w \in Lobby!Known /\ state = "LOBBY" /\ state' = "LOBBY" /\ sysMsgs' = sysMsgs
  BY DEF Lobby!LobbyStatus
<1>2. p \in Lobby!Players /\ PlayerOK(p) /\ p.state \in SyncStates
  BY <1>1, Seated DEF SyncInv
<1>3. dpPlayers' = [dpPlayers EXCEPT ![w] = q]
  BY DEF Lobby!LobbyStatus
<1> HIDE DEF p
<1>4. /\ q \in Lobby!Players /\ q.receiveCount = p.receiveCount /\ q.status = s /\ q.state = p.state
      /\ q.nextUnit = p.nextUnit /\ q.sendCount = p.sendCount
  BY <1>2, PlayerSet
<1> HIDE DEF q
<1>5. s # None
  BY SyncConstants
<1>6. PlayerOK(q)
  BY <1>2, <1>4, <1>5 DEF PlayerOK
<1> QED
  BY <1>1, <1>2, <1>3, <1>4, <1>6, ReseatedKeeps

(* The poll: every watcher goes one step on, and if all may go the game is *)
(* launched with the numbers of this poll.                                 *)
Poll(reading) ==
  /\ state = "LOBBY" /\ reading \in [Lobby!Known -> Lobby!Statuses]
  /\ \A w \in Lobby!Known : reading[w] \in Lobby!Reading(w)
  /\ dpPlayers' = [w \in Watchers |->
       IF w \in Lobby!Known
       THEN Lobby!doSyncWatcher([dpPlayers[w] EXCEPT !.ordinal = Lobby!Ordinal(w)], reading[w]).player
       ELSE None]
  /\ state' = IF Lobby!AllGo(reading) THEN "LAUNCH" ELSE "LOBBY"
  /\ sysMsgs' = sysMsgs

LEMMA PollOfOne ==
  ASSUME SyncInv, NEW reading, Poll(reading), NEW w \in Lobby!Known
  PROVE  /\ dpPlayers'[w] \in Lobby!Players /\ PlayerOK(dpPlayers'[w]) /\ dpPlayers'[w].state \in SyncStates
         /\ dpPlayers'[w].receiveCount = dpPlayers[w].receiveCount
         /\ dpPlayers'[w].status = dpPlayers[w].status
         /\ dpPlayers'[w].ordinal = Lobby!Ordinal(w)
<1> DEFINE p == dpPlayers[w]
           o == Lobby!Ordinal(w)
           q == [p EXCEPT !.ordinal = o]
           r == Lobby!doSyncWatcher(q, reading[w]).player
<1>1. p \in Lobby!Players /\ w \in Watchers /\ PlayerOK(p) /\ p.state \in SyncStates
  BY Seated DEF SyncInv, Poll
<1>2. o \in Nat
  BY Ordinals
<1>3. dpPlayers'[w] = r /\ reading[w] \in Lobby!Statuses
  BY <1>1 DEF Poll
<1> HIDE DEF p, o
<1>4. /\ q \in Lobby!Players /\ q.receiveCount = p.receiveCount /\ q.ordinal = o
      /\ q.status = p.status /\ q.state = p.state /\ q.nextUnit = p.nextUnit
      /\ q.sendCount = p.sendCount
  BY <1>1, <1>2, PlayerSet
<1> HIDE DEF q
<1>5. PlayerOK(q)
  BY <1>1, <1>4 DEF PlayerOK
<1>6. Polled(q, r)
  BY <1>1, <1>3, <1>4, <1>5, PlayerPolled, Zenon
<1> HIDE DEF r
<1> QED
  BY <1>3, <1>4, <1>6 DEF Polled, p, o

LEMMA PollKeeps ==
  ASSUME SyncInv, NEW reading, Poll(reading)
  PROVE  SyncInv'
<1> DEFINE K == Lobby!Known
<1>1. \A w \in Watchers \ K : dpPlayers'[w] = None
  BY DEF Poll
<1>2. dpPlayers' \in [Watchers -> Lobby!Players \union {None}]
  <2>1. \A w \in Watchers : dpPlayers'[w] \in Lobby!Players \union {None}
    BY <1>1, PollOfOne
  <2>2. DOMAIN dpPlayers' = Watchers /\ dpPlayers' = [w \in Watchers |-> dpPlayers'[w]]
    BY DEF Poll
  <2> QED
    BY <2>1, <2>2
<1>3. Lobby!Known' = K
  <2>1. \A w \in K : dpPlayers'[w] # None /\ w \in Watchers
    BY PollOfOne, SyncConstants DEF Lobby!Known
  <2> QED
    BY <1>1, <2>1 DEF Lobby!Known
<1>4. \A w \in K : PlayerOK(dpPlayers[w])'
  BY PollOfOne DEF PlayerOK
<1>5. \A w \in K : dpPlayers'[w].state \in SyncStates
  BY PollOfOne
<1>6. CASE ~Lobby!AllGo(reading)
  <2>1. state' = "LOBBY" /\ sysMsgs' = sysMsgs
    BY <1>6 DEF Poll
  <2> QED
    BY <1>2, <1>3, <1>4, <1>5, <2>1 DEF SyncInv, Lobby!ReadyAtLaunch
<1>7. CASE Lobby!AllGo(reading)
  <2>1. state' = "LAUNCH" /\ sysMsgs' = sysMsgs
    BY <1>7 DEF Poll
  <2>2. K # {} /\ \A w \in K : Lobby!Go(dpPlayers[w], reading[w])
    BY <1>7 DEF Lobby!AllGo
  <2>3. ASSUME NEW w \in K
        PROVE  dpPlayers'[w].receiveCount > Units /\ dpPlayers'[w].status.clickedIn
    <3> DEFINE p == dpPlayers[w]
    <3>1. p.state = "WAIT_GO" /\ reading[w].clickedIn
      BY <2>2 DEF Lobby!Go
    <3>2. PlayerOK(p) /\ p \in Lobby!Players
      BY Seated DEF SyncInv
    <3>3. p.receiveCount >= Units + 1 /\ p.receiveCount \in Nat
      BY <3>1, <3>2, PlayerFields DEF PlayerOK
    <3>4. p.status # None
      BY <3>2, <3>3, SyncConstants DEF PlayerOK
    <3>5. reading[w] = p.status
      BY <3>4 DEF Poll, Lobby!Reading
    <3>6. dpPlayers'[w].receiveCount = p.receiveCount /\ dpPlayers'[w].status = p.status
      BY PollOfOne
    <3> HIDE DEF p
    <3> QED
      BY <3>1, <3>3, <3>5, <3>6, SyncConstants
  <2>4. {dpPlayers'[w].ordinal : w \in K} = DemoPlayers..(DemoPlayers + Lobby!Cardinality(K) - 1)
    <3>1. \A w \in K : dpPlayers'[w].ordinal = Lobby!Ordinal(w)
      BY PollOfOne
    <3>2. {dpPlayers'[w].ordinal : w \in K} = {Lobby!Ordinal(w) : w \in K}
      BY <3>1
    <3> QED
      BY <3>2, Ordinals
  <2>5. Lobby!ReadyAtLaunch'
    BY <1>3, <2>2, <2>3, <2>4, Zenon DEF Lobby!ReadyAtLaunch
  <2> QED
    BY <1>2, <1>3, <1>4, <2>1, <2>5 DEF SyncInv
<1> QED
  BY <1>6, <1>7

(* After the launch a player may only be set loading or playing. *)
LEMMA LoadingKeeps ==
  ASSUME SyncInv, state \in {"LAUNCH", "LOAD", "PLAY"}, state' \in {"LOAD", "PLAY"}, sysMsgs' = sysMsgs,
         dpPlayers' \in [Watchers -> Lobby!Players \union {None}], Lobby!Known' = Lobby!Known,
         \A w \in Lobby!Known :
           \/ dpPlayers'[w] = dpPlayers[w]
           \/ \E st \in {"LOADING", "PLAYING"} : dpPlayers'[w] = [dpPlayers[w] EXCEPT !.state = st]
  PROVE  SyncInv'
<1>1. ASSUME NEW w \in Lobby!Known
      PROVE  /\ dpPlayers'[w].receiveCount = dpPlayers[w].receiveCount
             /\ dpPlayers'[w].status = dpPlayers[w].status
             /\ dpPlayers'[w].ordinal = dpPlayers[w].ordinal
             /\ PlayerOK(dpPlayers'[w])
  <2> DEFINE p == dpPlayers[w]
             q == dpPlayers'[w]
  <2>1. p \in Lobby!Players /\ PlayerOK(p) /\ p.receiveCount \in Nat
    BY Seated, PlayerFields DEF SyncInv
  <2>2. p.receiveCount > Units
    BY DEF SyncInv, Lobby!ReadyAtLaunch
  <2>3. CASE q = p
    BY <2>1, <2>3
  <2>4. ASSUME NEW st \in {"LOADING", "PLAYING"}, q = [p EXCEPT !.state = st]
        PROVE  /\ q.receiveCount = p.receiveCount /\ q.status = p.status /\ q.ordinal = p.ordinal
               /\ PlayerOK(q)
    <3> HIDE DEF p, q
    <3>1. q.receiveCount = p.receiveCount /\ q.ordinal = p.ordinal /\ q.status = p.status /\ q.state = st
      BY <2>1, <2>4, PlayerSet
    <3> QED
      BY <2>1, <2>2, <2>4, <3>1, SyncConstants DEF PlayerOK
  <2> QED
    BY <2>3, <2>4
<1>2. Lobby!ReadyAtLaunch'
  BY <1>1, ReadyStays DEF SyncInv
<1>3. \A w \in Lobby!Known : PlayerOK(dpPlayers[w])'
  BY <1>1 DEF PlayerOK
<1> QED
  BY <1>2, <1>3 DEF SyncInv

LEMMA LaunchKeeps ==
  ASSUME SyncInv, Lobby!doLaunch
  PROVE  SyncInv'
<1>1. state = "LAUNCH" /\ state' = "LOAD" /\ sysMsgs' = sysMsgs
  BY DEF Lobby!doLaunch
<1>2. dpPlayers' = [w \in Watchers |-> IF w \in Lobby!Known THEN [dpPlayers[w] EXCEPT !.state = "LOADING"]
                                       ELSE None]
  BY DEF Lobby!doLaunch
<1>3. ASSUME NEW w \in Lobby!Known
      PROVE  dpPlayers'[w] = [dpPlayers[w] EXCEPT !.state = "LOADING"] /\ dpPlayers'[w] \in Lobby!Players
  <2> DEFINE p == dpPlayers[w]
  <2>1. p \in Lobby!Players /\ w \in Watchers
    BY Seated DEF SyncInv
  <2>2. dpPlayers'[w] = [p EXCEPT !.state = "LOADING"]
    BY <1>2, <2>1
  <2> HIDE DEF p
  <2>3. [p EXCEPT !.state = "LOADING"] \in Lobby!Players
    BY <2>1, PlayerSet
  <2> QED
    BY <2>2, <2>3 DEF p
<1>4. dpPlayers' \in [Watchers -> Lobby!Players \union {None}]
  <2>1. \A w \in Watchers : dpPlayers'[w] \in Lobby!Players \union {None}
    BY <1>2, <1>3
  <2>2. dpPlayers' = [w \in Watchers |-> dpPlayers'[w]]
    BY <1>2
  <2> QED
    BY <2>1, <2>2
<1>5. Lobby!Known' = Lobby!Known
  <2>1. \A w \in Lobby!Known : dpPlayers'[w] # None /\ w \in Watchers
    BY <1>3, SyncConstants DEF Lobby!Known
  <2>2. \A w \in Watchers \ Lobby!Known : dpPlayers'[w] = None
    BY <1>2
  <2> QED
    BY <2>1, <2>2 DEF Lobby!Known
<1> QED
  BY <1>1, <1>3, <1>4, <1>5, LoadingKeeps

LEMMA LoadedKeeps ==
  ASSUME SyncInv, NEW w \in Watchers, Lobby!onLoadingTaMessage(w)
  PROVE  SyncInv'
<1> DEFINE p == dpPlayers[w]
           q == [p EXCEPT !.state = "PLAYING"]
<1>1. w \in Lobby!Known /\ state = "LOAD" /\ state' = "LOAD" /\ sysMsgs' = sysMsgs
  BY DEF Lobby!onLoadingTaMessage
<1>2. p \in Lobby!Players
  BY <1>1, Seated DEF SyncInv
<1>3. dpPlayers' = [dpPlayers EXCEPT ![w] = q]
  BY DEF Lobby!onLoadingTaMessage
<1> HIDE DEF p
<1>4. q \in Lobby!Players
  BY <1>2, PlayerSet
<1> HIDE DEF q
<1>5. /\ dpPlayers' \in [Watchers -> Lobby!Players \union {None}] /\ Lobby!Known' = Lobby!Known
      /\ dpPlayers'[w] = q /\ \A v \in Watchers \ {w} : dpPlayers'[v] = dpPlayers[v]
  BY <1>1, <1>3, <1>4, Reseated DEF SyncInv
<1>6. dpPlayers'[w] = [dpPlayers[w] EXCEPT !.state = "PLAYING"]
  BY <1>5 DEF q, p
<1>7. \A v \in Lobby!Known :
        \/ dpPlayers'[v] = dpPlayers[v]
        \/ \E st \in {"LOADING", "PLAYING"} : dpPlayers'[v] = [dpPlayers[v] EXCEPT !.state = st]
  BY <1>5, <1>6 DEF Lobby!Known
<1> QED
  BY <1>1, <1>5, <1>7, LoadingKeeps

LEMMA LoadKeeps ==
  ASSUME SyncInv, Lobby!doLoad
  PROVE  SyncInv'
<1>1. state = "LOAD" /\ state' \in {"LOAD", "PLAY"} /\ sysMsgs' = sysMsgs /\ dpPlayers' = dpPlayers
  BY DEF Lobby!doLoad
<1>2. Lobby!Known' = Lobby!Known
  BY <1>1 DEF Lobby!Known
<1> QED
  BY <1>1, <1>2, LoadingKeeps DEF SyncInv

-----------------------------------------------------------------------------
(* The two instances. *)

LEMMA LobbyKeeps ==
  ASSUME SyncInv, Lobby!Next
  PROVE  SyncInv'
<1>1. ASSUME NEW w \in Watchers, Lobby!Join(w) PROVE SyncInv'
  <2>1. [type |-> "CREATE", dpId |-> w] \in SysMsgs
    BY DEF SysMsgs
  <2> QED
    BY <1>1, <2>1, AnnouncedKeeps DEF Lobby!Join, Announced
<1>2. ASSUME NEW w \in Watchers, Lobby!Leave(w) PROVE SyncInv'
  <2>1. [type |-> "DESTROY", dpId |-> w] \in SysMsgs
    BY DEF SysMsgs
  <2> QED
    BY <1>2, <2>1, AnnouncedKeeps DEF Lobby!Leave, Announced
<1>3. ASSUME NEW w \in Watchers, NEW n \in 1..MaxSent, Lobby!LobbyCount(w, n) PROVE SyncInv'
  <2>1. w \in Lobby!Known /\ dpPlayers[w].receiveCount \in Nat
    BY <1>3, Seated, PlayerFields DEF SyncInv, Lobby!LobbyCount
  <2>2. n \in (dpPlayers[w].receiveCount + 1)..sent[w] /\ n \in Nat
    BY <1>3, BoundsOK DEF Lobby!LobbyCount
  <2>3. n > dpPlayers[w].receiveCount
    BY <2>1, <2>2
  <2>4. Counted(w, n)
    BY <1>3, <2>1, <2>2, <2>3 DEF Lobby!LobbyCount, Counted
  <2> QED
    BY <2>4, CountedKeeps
<1>4. ASSUME NEW w \in Watchers, NEW s \in Lobby!Statuses, Lobby!LobbyStatus(w, s) PROVE SyncInv'
  BY <1>4, StatusKeeps
<1>5. ASSUME Lobby!LobbyPoll PROVE SyncInv'
  <2>1. \E reading : Poll(reading)
    BY <1>5, Zenon DEF Lobby!LobbyPoll, Poll
  <2> QED
    BY <2>1, PollKeeps
<1>6. ASSUME NEW w \in Watchers, Lobby!onLoadingTaMessage(w) PROVE SyncInv'
  BY <1>6, LoadedKeeps
<1> QED
  BY <1>1, <1>2, <1>3, <1>4, <1>5, <1>6, DemoLoaded, MessageTaken, LaunchKeeps, LoadKeeps, Zenon
     DEF Lobby!Next

LEMMA SameState ==
  /\ Resync!Known = Lobby!Known /\ Resync!Statuses = Lobby!Statuses
  /\ \A w : Resync!Ordinal(w) = Lobby!Ordinal(w) /\ Resync!Reading(w) = Lobby!Reading(w)
  /\ \A p, s : Resync!doSyncWatcher(p, s) = Lobby!doSyncWatcher(p, s)
  /\ \A r : Resync!AllGo(r) <=> Lobby!AllGo(r)
  /\ Resync!ReadyAtLaunch <=> Lobby!ReadyAtLaunch
  /\ Resync!IndexInRange <=> Lobby!IndexInRange
<1>1. Resync!Known = Lobby!Known /\ Resync!Statuses = Lobby!Statuses
  BY Zenon DEF Resync!Known, Lobby!Known, Resync!Statuses, Lobby!Statuses
<1>2. \A S : Resync!Cardinality(S) = Lobby!Cardinality(S)
  BY LobbyCounts, Zenon
<1>3. \A w : Resync!Ordinal(w) = Lobby!Ordinal(w) /\ Resync!Reading(w) = Lobby!Reading(w)
  BY <1>1, <1>2, Zenon DEF Resync!Ordinal, Lobby!Ordinal, Resync!Reading, Lobby!Reading
<1>4. \A p, s : Resync!Go(p, s) <=> Lobby!Go(p, s)
  BY Zenon DEF Resync!Go, Lobby!Go
<1>5. \A p, s : Resync!WaitGo(p, s) = Lobby!WaitGo(p, s)
  BY Zenon DEF Resync!WaitGo, Lobby!WaitGo, Resync!Go, Lobby!Go
<1>6. \A p : /\ Resync!StartSync(p) = Lobby!StartSync(p) /\ Resync!SendUnits(p) = Lobby!SendUnits(p)
             /\ Resync!WaitReceiveUnits(p) = Lobby!WaitReceiveUnits(p)
             /\ Resync!CheckErrors(p) = Lobby!CheckErrors(p) /\ Resync!SendAcks(p) = Lobby!SendAcks(p)
             /\ Resync!WaitAcks(p) = Lobby!WaitAcks(p) /\ Resync!EndSync(p) = Lobby!EndSync(p)
  BY Zenon DEF Resync!StartSync, Lobby!StartSync, Resync!SendUnits, Lobby!SendUnits,
     Resync!WaitReceiveUnits, Lobby!WaitReceiveUnits, Resync!CheckErrors, Lobby!CheckErrors,
     Resync!SendAcks, Lobby!SendAcks, Resync!WaitAcks, Lobby!WaitAcks, Resync!EndSync, Lobby!EndSync
<1>7. \A p, s : Resync!doSyncWatcher(p, s) = Lobby!doSyncWatcher(p, s)
  BY <1>5, <1>6 DEF Resync!doSyncWatcher, Lobby!doSyncWatcher
<1>8. \A r : Resync!AllGo(r) <=> Lobby!AllGo(r)
  BY <1>1, <1>4, Zenon DEF Resync!AllGo, Lobby!AllGo
<1>9. Resync!ReadyAtLaunch <=> Lobby!ReadyAtLaunch
  BY <1>1, <1>2, Zenon DEF Resync!ReadyAtLaunch, Lobby!ReadyAtLaunch
<1>10. Resync!IndexInRange <=> Lobby!IndexInRange
  BY <1>1, Zenon DEF Resync!IndexInRange, Lobby!IndexInRange
<1> QED
  BY <1>1, <1>3, <1>7, <1>8, <1>9, <1>10, Zenon

LEMMA ResyncKeeps ==
  ASSUME SyncInv, Resync!Next
  PROVE  SyncInv'
<1>0. ResyncSent \in Nat
  BY ConstantsAssumption DEF Resync!ConstantsOK
<1>1. ASSUME NEW w \in Watchers, Resync!Join(w) PROVE SyncInv'
  <2>1. [type |-> "CREATE", dpId |-> w] \in SysMsgs
    BY DEF SysMsgs
  <2> QED
    BY <1>1, <2>1, AnnouncedKeeps DEF Resync!Join, Announced
<1>2. ASSUME NEW w \in Watchers, Resync!Leave(w) PROVE SyncInv'
  <2>1. [type |-> "DESTROY", dpId |-> w] \in SysMsgs
    BY DEF SysMsgs
  <2> QED
    BY <1>2, <2>1, AnnouncedKeeps DEF Resync!Leave, Announced
<1>3. ASSUME NEW w \in Watchers, NEW n \in 1..ResyncSent, Resync!LobbyCount(w, n) PROVE SyncInv'
  <2>1. w \in Lobby!Known /\ dpPlayers[w].receiveCount \in Nat
    BY <1>3, SameState, Seated, PlayerFields DEF SyncInv, Resync!LobbyCount
  <2>2. n \in (dpPlayers[w].receiveCount + 1)..sent[w] /\ n \in Nat
    BY <1>0, <1>3 DEF Resync!LobbyCount
  <2>3. n > dpPlayers[w].receiveCount
    BY <2>1, <2>2
  <2>4. Counted(w, n)
    BY <1>3, <2>1, <2>2, <2>3 DEF Resync!LobbyCount, Counted
  <2> QED
    BY <2>4, CountedKeeps
<1>4. ASSUME NEW w \in Watchers, NEW s \in Resync!Statuses, Resync!LobbyStatus(w, s) PROVE SyncInv'
  <2>1. s \in Lobby!Statuses /\ Lobby!LobbyStatus(w, s)
    BY <1>4, SameState, Zenon DEF Resync!LobbyStatus, Lobby!LobbyStatus
  <2> QED
    BY <2>1, StatusKeeps
<1>5. ASSUME Resync!LobbyPoll PROVE SyncInv'
  <2>1. \E reading : Poll(reading)
    BY <1>5, SameState, ZenonT(30) DEF Resync!LobbyPoll, Poll
  <2> QED
    BY <2>1, PollKeeps
<1>6. ASSUME NEW w \in Watchers, Resync!onLoadingTaMessage(w) PROVE SyncInv'
  <2>1. Lobby!onLoadingTaMessage(w)
    BY <1>6, SameState, Zenon DEF Resync!onLoadingTaMessage, Lobby!onLoadingTaMessage
  <2> QED
    BY <2>1, LoadedKeeps
<1>7. Resync!CompletedLoadingDemoPlayers => SyncInv'
  BY DemoLoaded, Zenon DEF Resync!CompletedLoadingDemoPlayers, Lobby!CompletedLoadingDemoPlayers
<1>8. Resync!onLobbySystemMessage => SyncInv'
  <2>1. Resync!NewPlayer = Lobby!NewPlayer
    BY Zenon DEF Resync!NewPlayer, Lobby!NewPlayer, Resync!Uninitialised, Lobby!Uninitialised
  <2>2. Resync!onLobbySystemMessage => Lobby!onLobbySystemMessage
    BY <2>1, Zenon DEF Resync!onLobbySystemMessage, Lobby!onLobbySystemMessage
  <2> QED
    BY <2>2, MessageTaken
<1>9. Resync!doLaunch => SyncInv'
  <2>1. Resync!doLaunch => Lobby!doLaunch
    BY SameState, Zenon DEF Resync!doLaunch, Lobby!doLaunch
  <2> QED
    BY <2>1, LaunchKeeps
<1>10. Resync!doLoad => SyncInv'
  <2>1. Resync!Loaded <=> Lobby!Loaded
    BY SameState, Zenon DEF Resync!Loaded, Lobby!Loaded
  <2>2. Resync!doLoad => Lobby!doLoad
    BY <2>1, Zenon DEF Resync!doLoad, Lobby!doLoad
  <2> QED
    BY <2>2, LoadKeeps
<1> QED
  BY <1>1, <1>2, <1>3, <1>4, <1>5, <1>6, <1>7, <1>8, <1>9, <1>10, Zenon DEF Resync!Next

-----------------------------------------------------------------------------
(* The rest of the type: no more packets are reported than were sent. *)
SessionOK ==
  /\ inSession \subseteq Watchers
  /\ sent \in [Watchers -> 0..MaxSent]
  /\ clock \in 0..2 /\ joins \in 0..MaxJoins
  /\ \A w \in Lobby!Known : dpPlayers[w].receiveCount <= sent[w]

LEMMA PacketsOfOne ==
  ASSUME SyncInv, state = "LOBBY", NEW w \in Lobby!Known, NEW status \in Lobby!Statuses
  PROVE  Lobby!doSyncWatcher([dpPlayers[w] EXCEPT !.ordinal = Lobby!Ordinal(w)], status).packets \in Nat
<1> DEFINE p == dpPlayers[w]
           o == Lobby!Ordinal(w)
           q == [p EXCEPT !.ordinal = o]
<1>1. p \in Lobby!Players /\ w \in Watchers /\ PlayerOK(p) /\ p.state \in SyncStates
  BY Seated DEF SyncInv
<1>2. o \in Nat
  BY Ordinals
<1> HIDE DEF p, o
<1>3. /\ q \in Lobby!Players /\ q.receiveCount = p.receiveCount
      /\ q.status = p.status /\ q.state = p.state /\ q.nextUnit = p.nextUnit /\ q.sendCount = p.sendCount
  BY <1>1, <1>2, PlayerSet
<1> HIDE DEF q
<1>4. PlayerOK(q)
  BY <1>1, <1>3 DEF PlayerOK
<1>5. Lobby!doSyncWatcher(q, status).packets \in Nat
  BY <1>1, <1>3, <1>4, PlayerPolled, Zenon
<1> QED
  BY <1>5 DEF q, p, o

LEMMA PollSends ==
  ASSUME SyncInv, SessionOK, Lobby!LobbyPoll
  PROVE  SessionOK'
<1>1. PICK reading \in [Lobby!Known -> Lobby!Statuses] :
        /\ Poll(reading)
        /\ sent' = [w \in Watchers |->
             IF w \in Lobby!Known
             THEN sent[w] + Lobby!doSyncWatcher([dpPlayers[w] EXCEPT !.ordinal = Lobby!Ordinal(w)], reading[w]).packets
             ELSE sent[w]]
  BY Zenon DEF Lobby!LobbyPoll, Poll
<1>2. /\ state = "LOBBY" /\ \A w \in Lobby!Known : sent'[w] <= MaxSent
      /\ UNCHANGED <<inSession, clock, joins>>
  BY DEF Lobby!LobbyPoll
<1>3. ASSUME NEW w \in Lobby!Known
      PROVE  /\ sent'[w] \in 0..MaxSent
             /\ dpPlayers'[w].receiveCount <= sent'[w]
  <2> DEFINE n == Lobby!doSyncWatcher([dpPlayers[w] EXCEPT !.ordinal = Lobby!Ordinal(w)], reading[w]).packets
  <2>1. n \in Nat
    BY <1>2, PacketsOfOne
  <2>2. w \in Watchers /\ dpPlayers[w].receiveCount \in Nat
    BY Seated, PlayerFields DEF SyncInv
  <2>3. sent'[w] = sent[w] + n
    BY <1>1, <2>2
  <2>4. dpPlayers'[w].receiveCount = dpPlayers[w].receiveCount
    BY <1>1, PollOfOne
  <2>5. dpPlayers[w].receiveCount <= sent[w] /\ sent[w] \in Nat
    BY <2>2, BoundsOK DEF SessionOK
  <2> HIDE DEF n
  <2> QED
    BY <1>2, <2>1, <2>2, <2>3, <2>4, <2>5, BoundsOK
<1>4. sent' \in [Watchers -> 0..MaxSent]
  <2>1. \A w \in Watchers : sent'[w] \in 0..MaxSent
    BY <1>1, <1>3 DEF SessionOK
  <2>2. sent' = [w \in Watchers |-> sent'[w]]
    BY <1>1
  <2> QED
    BY <2>1, <2>2
<1>5. Lobby!Known' \subseteq Lobby!Known
  BY <1>1 DEF Poll, Lobby!Known
<1> QED
  BY <1>2, <1>3, <1>4, <1>5 DEF SessionOK

LEMMA SessionKeeps ==
  ASSUME SyncInv, SessionOK, Lobby!Next
  PROVE  SessionOK'
<1>0. MaxSent \in Nat /\ MaxJoins \in Nat /\ dpPlayers \in [Watchers -> Lobby!Players \union {None}]
  BY BoundsOK DEF SyncInv
<1>1. ASSUME dpPlayers' = dpPlayers, sent' = sent
      PROVE  /\ sent' \in [Watchers -> 0..MaxSent]
             /\ (\A w \in Lobby!Known : dpPlayers[w].receiveCount <= sent[w])'
  <2>1. Lobby!Known' = Lobby!Known
    BY <1>1 DEF Lobby!Known
  <2> QED
    BY <1>1, <2>1 DEF SessionOK
<1>2. Lobby!CompletedLoadingDemoPlayers => SessionOK'
  BY <1>1 DEF Lobby!CompletedLoadingDemoPlayers, SessionOK
<1>3. ASSUME NEW w \in Watchers, Lobby!Join(w) PROVE SessionOK'
  BY <1>0, <1>1, <1>3 DEF Lobby!Join, SessionOK
<1>4. ASSUME NEW w \in Watchers, Lobby!Leave(w) PROVE SessionOK'
  BY <1>1, <1>4 DEF Lobby!Leave, SessionOK
<1>5. Lobby!onLobbySystemMessage => SessionOK'
  <2> SUFFICES ASSUME Lobby!onLobbySystemMessage PROVE SessionOK'
    OBVIOUS
  <2> DEFINE m == Head(sysMsgs)
             q == IF m.type = "CREATE" THEN Lobby!NewPlayer ELSE None
  <2>0. m \in SysMsgs
    BY DEF SyncInv, Lobby!onLobbySystemMessage
  <2>1. m.dpId \in Watchers
    BY <2>0 DEF SysMsgs
  <2>2. /\ dpPlayers' = [dpPlayers EXCEPT ![m.dpId] = q] /\ sent' = [sent EXCEPT ![m.dpId] = 0]
        /\ UNCHANGED <<inSession, clock, joins>>
    BY DEF Lobby!onLobbySystemMessage
  <2>3. Lobby!NewPlayer.receiveCount = 0
    BY DEF Lobby!NewPlayer
  <2> HIDE DEF m
  <2>4. sent' \in [Watchers -> 0..MaxSent]
    BY <1>0, <2>1, <2>2 DEF SessionOK
  <2>5. ASSUME NEW v \in Lobby!Known' PROVE dpPlayers'[v].receiveCount <= sent'[v]
    <3>1. v \in Watchers /\ dpPlayers'[v] # None
      BY DEF Lobby!Known
    <3>2. CASE v = m.dpId
      BY <1>0, <2>1, <2>2, <2>3, <3>1, <3>2 DEF SessionOK
    <3>3. CASE v # m.dpId
      BY <1>0, <2>1, <2>2, <3>1, <3>3 DEF SessionOK, Lobby!Known
    <3> QED
      BY <3>2, <3>3
  <2> QED
    BY <2>2, <2>4, <2>5 DEF SessionOK
<1>6. ASSUME NEW w \in Watchers, NEW n \in 1..MaxSent, Lobby!LobbyCount(w, n) PROVE SessionOK'
  <2> DEFINE p == dpPlayers[w]
             q == [p EXCEPT !.receiveCount = n]
  <2>1. w \in Lobby!Known /\ n \in Nat /\ p \in Lobby!Players /\ p.receiveCount \in Nat /\ sent[w] \in Nat
    BY <1>0, <1>6, Seated, PlayerFields DEF Lobby!LobbyCount, SessionOK
  <2>2. n <= sent[w]
    BY <1>6, <2>1 DEF Lobby!LobbyCount
  <2>3. dpPlayers' = [dpPlayers EXCEPT ![w] = q] /\ UNCHANGED <<inSession, sent, clock, joins>>
    BY <1>6 DEF Lobby!LobbyCount
  <2> HIDE DEF p
  <2>4. q \in Lobby!Players /\ q.receiveCount = n
    BY <2>1, PlayerSet
  <2> HIDE DEF q
  <2>5. Lobby!Known' = Lobby!Known /\ dpPlayers'[w] = q /\ \A v \in Watchers \ {w} : dpPlayers'[v] = dpPlayers[v]
    BY <1>0, <2>1, <2>3, <2>4, Reseated
  <2>6. \A v \in Lobby!Known : dpPlayers'[v].receiveCount <= sent[v]
    BY <2>2, <2>4, <2>5 DEF SessionOK, Lobby!Known
  <2> QED
    BY <2>3, <2>5, <2>6 DEF SessionOK
<1>7. ASSUME NEW w \in Watchers, NEW s \in Lobby!Statuses, Lobby!LobbyStatus(w, s) PROVE SessionOK'
  <2> DEFINE p == dpPlayers[w]
             q == [p EXCEPT !.status = s]
  <2>1. w \in Lobby!Known /\ p \in Lobby!Players
    BY <1>0, <1>7, Seated DEF Lobby!LobbyStatus
  <2>2. p.receiveCount <= sent[w]
    BY <2>1 DEF SessionOK
  <2>3. dpPlayers' = [dpPlayers EXCEPT ![w] = q] /\ UNCHANGED <<inSession, sent, clock, joins>>
    BY <1>7 DEF Lobby!LobbyStatus
  <2> HIDE DEF p
  <2>4. q \in Lobby!Players /\ q.receiveCount = p.receiveCount
    BY <2>1, PlayerSet
  <2> HIDE DEF q
  <2>5. Lobby!Known' = Lobby!Known /\ dpPlayers'[w] = q /\ \A v \in Watchers \ {w} : dpPlayers'[v] = dpPlayers[v]
    BY <1>0, <2>1, <2>3, <2>4, Reseated
  <2>6. \A v \in Lobby!Known : dpPlayers'[v].receiveCount <= sent[v]
    BY <2>2, <2>4, <2>5 DEF SessionOK, Lobby!Known
  <2> QED
    BY <2>3, <2>5, <2>6 DEF SessionOK
<1>8. Lobby!doLaunch => SessionOK'
  <2> SUFFICES ASSUME Lobby!doLaunch PROVE SessionOK'
    OBVIOUS
  <2>1. dpPlayers' = [w \in Watchers |-> IF w \in Lobby!Known THEN [dpPlayers[w] EXCEPT !.state = "LOADING"]
                                         ELSE None]
    BY DEF Lobby!doLaunch
  <2>2. ASSUME NEW v \in Lobby!Known' PROVE v \in Lobby!Known /\ dpPlayers'[v].receiveCount = dpPlayers[v].receiveCount
    <3>1. v \in Lobby!Known /\ v \in Watchers
      BY <2>1, <2>2 DEF Lobby!Known
    <3> DEFINE p == dpPlayers[v]
    <3>2. p \in Lobby!Players /\ dpPlayers'[v] = [p EXCEPT !.state = "LOADING"]
      BY <1>0, <2>1, <3>1, Seated
    <3> HIDE DEF p
    <3>3. dpPlayers'[v].receiveCount = p.receiveCount
      BY <3>2, PlayerSet
    <3> QED
      BY <3>1, <3>3 DEF p
  <2>3. UNCHANGED <<inSession, sent, joins>> /\ clock' = 0
    BY DEF Lobby!doLaunch
  <2> QED
    BY <2>2, <2>3 DEF SessionOK
<1>9. ASSUME NEW w \in Watchers, Lobby!onLoadingTaMessage(w) PROVE SessionOK'
  <2> DEFINE p == dpPlayers[w]
             q == [p EXCEPT !.state = "PLAYING"]
  <2>1. w \in Lobby!Known /\ p \in Lobby!Players
    BY <1>0, <1>9, Seated DEF Lobby!onLoadingTaMessage
  <2>2. p.receiveCount <= sent[w]
    BY <2>1 DEF SessionOK
  <2>3. dpPlayers' = [dpPlayers EXCEPT ![w] = q] /\ UNCHANGED <<inSession, sent, clock, joins>>
    BY <1>9 DEF Lobby!onLoadingTaMessage
  <2> HIDE DEF p
  <2>4. q \in Lobby!Players /\ q.receiveCount = p.receiveCount
    BY <2>1, PlayerSet
  <2> HIDE DEF q
  <2>5. Lobby!Known' = Lobby!Known /\ dpPlayers'[w] = q /\ \A v \in Watchers \ {w} : dpPlayers'[v] = dpPlayers[v]
    BY <1>0, <2>1, <2>3, <2>4, Reseated
  <2>6. \A v \in Lobby!Known : dpPlayers'[v].receiveCount <= sent[v]
    BY <2>2, <2>4, <2>5 DEF SessionOK, Lobby!Known
  <2> QED
    BY <2>3, <2>5, <2>6 DEF SessionOK
<1>10. Lobby!doLoad => SessionOK'
  BY <1>1 DEF Lobby!doLoad, SessionOK
<1> QED
  BY <1>2, <1>3, <1>4, <1>5, <1>6, <1>7, <1>8, <1>9, <1>10, PollSends, Zenon DEF Lobby!Next

-----------------------------------------------------------------------------
(* What the run checks. *)
ReplayerInv ==
  /\ part = "lobby" => SyncInv /\ SessionOK
  /\ part = "resync" => SyncInv

LEMMA SyncedOK ==
  /\ SyncInv => Lobby!ReadyAtLaunch /\ Lobby!IndexInRange
  /\ SyncInv /\ SessionOK => Lobby!TypeOK
<1>1. SyncInv => Lobby!IndexInRange
  BY DEF SyncInv, PlayerOK, Lobby!IndexInRange
<1> QED
  BY <1>1 DEF SyncInv, SessionOK, Lobby!TypeOK

LEMMA ReplayerAlways ==
  Spec => []ReplayerInv
<1>1. Init => ReplayerInv
  <2>1. Lobby!Init => SessionOK
    <3>1. Lobby!Init => Lobby!Known = {}
      BY DEF Lobby!Init, Lobby!Known
    <3> QED
      BY <3>1, BoundsOK DEF Lobby!Init, SessionOK
  <2> QED
    BY <2>1, SyncInit DEF Init, ReplayerInv
<1>2. ReplayerInv /\ [Next]_vars => ReplayerInv'
  <2> SUFFICES ASSUME ReplayerInv, [Next]_vars PROVE ReplayerInv'
    OBVIOUS
  <2>1. part' = part
    BY DEF Next, LobbyNext, PlayNext, vars
  <2>2. ASSUME UNCHANGED lobbyVars PROVE ReplayerInv'
    <3>1. SyncInv => SyncInv'
      BY <2>2, AnnouncedKeeps DEF Announced, lobbyVars
    <3>2. Lobby!Known' = Lobby!Known
      BY <2>2 DEF lobbyVars, Lobby!Known
    <3>3. SessionOK => SessionOK'
      BY <2>2, <3>2 DEF lobbyVars, SessionOK
    <3> QED
      BY <2>1, <3>1, <3>3 DEF ReplayerInv
  <2>3. CASE part = "lobby" /\ Lobby!Next
    BY <2>1, <2>3, LobbyKeeps, SessionKeeps DEF ReplayerInv
  <2>4. CASE part = "resync" /\ Resync!Next
    BY <2>1, <2>4, ResyncKeeps DEF ReplayerInv
  <2>5. CASE part \notin {"lobby", "resync"}
    BY <2>1, <2>5 DEF ReplayerInv
  <2>6. UNCHANGED vars => UNCHANGED lobbyVars
    BY Zenon DEF vars
  <2>7. PlayNext => UNCHANGED lobbyVars
    BY Zenon DEF PlayNext
  <2>8. LobbyNext => \/ part = "lobby" /\ Lobby!Next
                     \/ part = "resync" /\ Resync!Next
                     \/ part \notin {"lobby", "resync"}
    <3>1. part = "start" => part \notin {"lobby", "resync"}
      OBVIOUS
    <3> QED
      BY <3>1, Zenon DEF LobbyNext
  <2> QED
    BY <2>2, <2>3, <2>4, <2>5, <2>6, <2>7, <2>8, Zenon DEF Next
<1> QED
  BY <1>1, <1>2, PTL DEF Spec

(* doLobby launches only when every watcher it knows has reported more     *)
(* packets than there are units, has clicked in and has a number of its    *)
(* own, for any watchers that come, leave and click at any time, and any   *)
(* number of resyncs.                                                      *)
THEOREM LaunchFindsAllReady ==
  Spec => []ReadyAtLaunch
<1>1. ReplayerInv => ReadyAtLaunch
  BY SyncedOK, SameState, Zenon DEF ReplayerInv, ReadyAtLaunch
<1> QED
  BY <1>1, ReplayerAlways, PTL

(* doSyncWatcher reads m_demoUnitInfoLinear inside its bounds, after any   *)
(* number of resyncs, for every demo with more units than a batch and than *)
(* the polls for acknowledgements.                                         *)
THEOREM IndexStaysInRange ==
  Spec => []IndexInRange
<1>1. ReplayerInv => IndexInRange
  BY SyncedOK, SameState, Zenon DEF ReplayerInv, IndexInRange
<1> QED
  BY <1>1, ReplayerAlways, PTL

-----------------------------------------------------------------------------
(* The reference definitions of ReplayPlayback over the moves of a demo.   *)

(* What OfKinds has kept of the first i moves. *)
Filter(s, kinds) ==
  CHOOSE f : f = [i \in 0..Len(s) |->
                    IF i = 0 THEN <<>>
                    ELSE IF s[i].kind \in kinds THEN Append(f[i - 1], s[i]) ELSE f[i - 1]]

LEMMA OfKindsIs ==
  ASSUME NEW s, NEW kinds
  PROVE  Play!OfKinds(s, kinds) = Filter(s, kinds)[Len(s)]
BY DEF Play!OfKinds, Filter

OneMore(kinds, x, m) == IF m.kind \in kinds THEN Append(x, m) ELSE x

IsFilter(f, s, kinds) ==
  /\ f[0] = <<>>
  /\ \A i \in 1..Len(s) : f[i] = OneMore(kinds, f[i - 1], s[i])
  /\ \A i \in 0..Len(s) : f[i] \in Seq(Play!Moves)

LEMMA FilterIs ==
  ASSUME NEW s \in Seq(Play!Moves), NEW kinds
  PROVE  IsFilter(Filter(s, kinds), s, kinds)
<1> DEFINE n == Len(s)
           V == Seq(Play!Moves)
           nothing == <<>>
           one(i, x) == OneMore(kinds, x, s[i])
           step == [x \in (1..n) \X V |-> one(x[1], x[2])]
           Is(f) == f = [i \in 0..n |-> IF i = 0 THEN nothing ELSE one(i, f[i - 1])]
<1>1. n \in Nat /\ \A i \in 1..n : s[i] \in Play!Moves
  BY LenProperties, ElementOfSeq
<1>2. step \in [(1..n) \X V -> V]
  <2>1. ASSUME NEW x \in (1..n) \X V PROVE one(x[1], x[2]) \in V
    BY <1>1, AppendProperties DEF OneMore
  <2> HIDE DEF one, V
  <2> QED
    BY <2>1
<1>3. PICK g \in [0..n -> V] : g[0] = nothing /\ \A i \in 1..n : g[i] = step[<<i, g[i - 1]>>]
  <2>1. nothing \in V
    OBVIOUS
  <2>2. n \in Nat
    BY <1>1
  <2> HIDE DEF step, V, n, nothing
  <2>3. \E f \in [0..n -> V] : IsRecursion(f, nothing, n, step)
    BY <1>2, <2>1, <2>2, RecursionExists
  <2> QED
    BY <2>3 DEF IsRecursion
<1>4. ASSUME NEW i \in 1..n PROVE g[i] = one(i, g[i - 1])
  <2>1. i - 1 \in 0..n
    BY <1>1
  <2>2. <<i, g[i - 1]>> \in (1..n) \X V
    BY <2>1
  <2> HIDE DEF one, V
  <2>3. step[<<i, g[i - 1]>>] = one(i, g[i - 1])
    BY <2>2
  <2> QED
    BY <1>3, <2>3
<1>5. Is(g)
  <2> HIDE DEF one, V, nothing
  <2> QED
    BY <1>1, <1>3, <1>4
<1>6. Is(CHOOSE x : Is(x))
  <2> HIDE DEF Is
  <2> QED
    BY <1>5
<1>7. Is(Filter(s, kinds))
  BY <1>6 DEF Filter, OneMore
<1> DEFINE f == Filter(s, kinds)
<1>8. f = [i \in 0..n |-> IF i = 0 THEN nothing ELSE one(i, f[i - 1])]
  BY <1>7
<1> HIDE DEF f, Is
<1>9. f[0] = nothing /\ \A i \in 1..n : f[i] = one(i, f[i - 1])
  <2> HIDE DEF one, nothing
  <2> QED
    BY <1>1, <1>8
<1>10. \A i \in 0..n : f[i] \in V
  <2> DEFINE S == {k \in 0..n : f[k] \in V}
  <2>1. 0 \in S
    <3>1. 0 \in 0..n /\ nothing \in V
      BY <1>1
    <3> HIDE DEF V, n, nothing
    <3> QED
      BY <1>9, <3>1
  <2>2. ASSUME NEW k \in 0..n, k \in S, k < n PROVE k + 1 \in S
    <3>1. k + 1 \in 1..n /\ (k + 1) - 1 = k
      BY <1>1, <2>2
    <3>2. f[k + 1] = one(k + 1, f[k])
      BY <1>9, <3>1, Zenon
    <3>3. f[k] \in V
      BY <2>2
    <3>4. one(k + 1, f[k]) \in V
      BY <1>1, <3>1, <3>3, AppendProperties DEF OneMore
    <3>5. k + 1 \in 0..n
      BY <1>1, <3>1
    <3> HIDE DEF V, n, one
    <3> QED
      BY <3>2, <3>4, <3>5
  <2> HIDE DEF S
  <2>3. 0..n \subseteq S
    BY <1>1, <2>1, <2>2, UpTo
  <2> QED
    BY <2>3 DEF S
<1> QED
  BY <1>9, <1>10, Zenon DEF f, IsFilter

(* Filters of sequences that begin with the same moves agree on them. *)
LEMMA FilterAgrees ==
  ASSUME NEW s \in Seq(Play!Moves), NEW t \in Seq(Play!Moves), NEW kinds, NEW m \in Nat,
         m <= Len(s), m <= Len(t), \A i \in 1..m : s[i] = t[i]
  PROVE  Filter(s, kinds)[m] = Filter(t, kinds)[m]
<1> DEFINE S == {k \in 0..m : Filter(s, kinds)[k] = Filter(t, kinds)[k]}
<1>1. Len(s) \in Nat /\ Len(t) \in Nat
  BY LenProperties
<1>2. IsFilter(Filter(s, kinds), s, kinds) /\ IsFilter(Filter(t, kinds), t, kinds)
  BY FilterIs, Zenon
<1>3. 0 \in S
  <2>1. 0 \in 0..m
    OBVIOUS
  <2> QED
    BY <1>2, <2>1, Zenon DEF IsFilter
<1>4. ASSUME NEW k \in 0..m, k \in S, k < m PROVE k + 1 \in S
  <2>1. /\ k + 1 \in 1..Len(s) /\ k + 1 \in 1..Len(t) /\ (k + 1) - 1 = k /\ k + 1 \in 0..m
        /\ k + 1 \in 1..m
    BY <1>1, <1>4
  <2>2. s[k + 1] = t[k + 1]
    BY <2>1, Zenon
  <2>3. Filter(s, kinds)[k] = Filter(t, kinds)[k]
    BY <1>4
  <2>4. Filter(s, kinds)[k + 1] = Filter(t, kinds)[k + 1]
    BY <1>2, <2>1, <2>2, <2>3, Zenon DEF IsFilter
  <2> QED
    BY <2>1, <2>4
<1> HIDE DEF S
<1>5. 0..m \subseteq S
  BY <1>3, <1>4, UpTo
<1> QED
  BY <1>5 DEF S

(* A move more. *)
LEMMA OfKindsAppend ==
  ASSUME NEW s \in Seq(Play!Moves), NEW m \in Play!Moves, NEW kinds
  PROVE  /\ Play!OfKinds(s, kinds) \in Seq(Play!Moves)
         /\ Play!OfKinds(Append(s, m), kinds) = OneMore(kinds, Play!OfKinds(s, kinds), m)
<1> DEFINE t == Append(s, m)
<1>1. /\ t \in Seq(Play!Moves) /\ Len(s) \in Nat /\ Len(t) = Len(s) + 1 /\ t[Len(s) + 1] = m
      /\ \A i \in 1..Len(s) : s[i] = t[i]
  BY AppendProperties, LenProperties
<1> HIDE DEF t
<1>2. Filter(s, kinds)[Len(s)] = Filter(t, kinds)[Len(s)]
  <2>1. Len(s) <= Len(s) /\ Len(s) <= Len(t)
    BY <1>1
  <2> QED
    BY <1>1, <2>1, FilterAgrees
<1>3. Len(t) \in 1..Len(t) /\ Len(t) - 1 = Len(s) /\ Len(s) \in 0..Len(s)
  BY <1>1
<1>4. IsFilter(Filter(s, kinds), s, kinds) /\ IsFilter(Filter(t, kinds), t, kinds)
  BY <1>1, FilterIs, Zenon
<1>5. Filter(s, kinds)[Len(s)] \in Seq(Play!Moves)
  BY <1>3, <1>4, Zenon DEF IsFilter
<1>6. t[Len(t)] = m
  BY <1>1, Zenon
<1>7. Filter(t, kinds)[Len(t)] = OneMore(kinds, Filter(t, kinds)[Len(s)], m)
  BY <1>3, <1>4, <1>6, Zenon DEF IsFilter
<1> QED
  BY <1>2, <1>3, <1>4, <1>5, <1>6, <1>7, OfKindsIs, Zenon DEF t

LEMMA OfKindsEmpty ==
  ASSUME NEW kinds
  PROVE  Play!OfKinds(<<>>, kinds) = <<>>
<1>1. <<>> \in Seq(Play!Moves) /\ Len(<<>>) = 0
  OBVIOUS
<1>2. Filter(<<>>, kinds)[0] = <<>>
  BY <1>1, FilterIs, Zenon DEF IsFilter
<1> QED
  BY <1>1, <1>2, OfKindsIs, Zenon

-----------------------------------------------------------------------------
(* The filter of chat messages.                                            *)

Games == [demoTicks : Nat, ticks : [Senders -> Nat], chatSet : SUBSET Nat, chatQueue : Seq(Nat),
          fed : Seq(Play!Moves)]

Text(t) == [kind |-> "chat", arg |-> t]

Heard(fed, t) == {k \in DOMAIN fed : fed[k] = Text(t)}

(* The queue q is the end of the chat messages c, and full unless there    *)
(* were too few.                                                           *)
QueueOK(q, c) ==
  /\ Len(q) <= ChatWindow /\ Len(q) <= Len(c)
  /\ Len(q) = Len(c) \/ Len(q) = ChatWindow
  /\ \A k \in 1..Len(q) : q[k] = c[(Len(c) - Len(q)) + k].arg

(* The set has no text that is not in the queue; it may lack one that came *)
(* twice.                                                                  *)
SetOK(x, q) == \A t \in x : \E k \in 1..Len(q) : q[k] = t

HeardOK(fed, c) ==
  ~NoChat => \A t \in Nat : Cardinality(Heard(fed, t)) >= Cardinality(Play!New(c, t))

LEMMA PlayConstants ==
  /\ ChatWindow \in Nat /\ NoChat \in BOOLEAN /\ Senders \subseteq Nat
  /\ PlayDemos \subseteq Seq(Play!Packets) \ {<<>>} /\ TalkDemos \subseteq Seq(Play!Packets) \ {<<>>}
<1>1. Talk!Packets = Play!Packets
  BY DEF Talk!Packets, Play!Packets, Talk!Moves, Play!Moves, Talk!Kinds, Play!Kinds, Talk!Withheld, Play!Withheld
<1>2. /\ ChatWindow \in Nat /\ NoChat \in BOOLEAN /\ Senders \subseteq Nat
      /\ PlayDemos \subseteq Seq(Play!Packets) \ {<<>>}
  BY ConstantsAssumption DEF Play!ConstantsOK
<1>3. TalkDemos \subseteq Seq(Talk!Packets) \ {<<>>}
  BY ConstantsAssumption DEF Talk!ConstantsOK
<1> QED
  BY <1>1, <1>2, <1>3, Zenon

LEMMA TextIs ==
  ASSUME NEW t \in Nat
  PROVE  Text(t) \in Play!Moves /\ Text(t).kind = "chat" /\ Text(t).arg = t
BY DEF Text, Play!Moves, Play!Kinds

LEMMA HeardAppend ==
  ASSUME NEW fed \in Seq(Play!Moves), NEW m \in Play!Moves, NEW t
  PROVE  /\ IsFiniteSet(Heard(fed, t)) /\ Cardinality(Heard(fed, t)) \in Nat
         /\ m = Text(t) => Cardinality(Heard(Append(fed, m), t)) = Cardinality(Heard(fed, t)) + 1
         /\ m # Text(t) => Heard(Append(fed, m), t) = Heard(fed, t)
<1> DEFINE n == Len(fed)
           s == Append(fed, m)
<1>1. /\ n \in Nat /\ DOMAIN fed = 1..n /\ DOMAIN s = 1..(n + 1) /\ s[n + 1] = m
      /\ \A k \in 1..n : s[k] = fed[k]
  BY AppendProperties, LenProperties
<1> HIDE DEF n, s
<1>2. IsFiniteSet(Heard(fed, t)) /\ Cardinality(Heard(fed, t)) \in Nat
  <2>1. Heard(fed, t) \subseteq 1..n
    BY <1>1 DEF Heard
  <2>2. IsFiniteSet(1..n)
    BY <1>1, FS_Interval
  <2>3. IsFiniteSet(Heard(fed, t))
    BY <2>1, <2>2, FS_Subset, Zenon
  <2> QED
    BY <2>3, FS_CardinalityType, Zenon
<1>3. ASSUME m = Text(t) PROVE Heard(s, t) = Heard(fed, t) \union {n + 1} /\ n + 1 \notin Heard(fed, t)
  BY <1>1, <1>3 DEF Heard
<1>4. ASSUME m # Text(t) PROVE Heard(s, t) = Heard(fed, t)
  BY <1>1, <1>4 DEF Heard
<1>5. ASSUME m = Text(t) PROVE Cardinality(Heard(s, t)) = Cardinality(Heard(fed, t)) + 1
  BY <1>2, <1>3, <1>5, FS_AddElement, Zenon
<1> QED
  BY <1>2, <1>4, <1>5, Zenon DEF s

(* A chat message that comes after c. *)
IsNew(c, t) == \A j \in 1..Len(c) : j >= (Len(c) + 1) - ChatWindow => c[j].arg # t

LEMMA NewAppend ==
  ASSUME NEW c \in Seq(Play!Moves), NEW m \in Play!Moves, NEW t
  PROVE  /\ IsFiniteSet(Play!New(c, t)) /\ Cardinality(Play!New(c, t)) \in Nat
         /\ m.arg = t /\ IsNew(c, t) => Cardinality(Play!New(Append(c, m), t)) = Cardinality(Play!New(c, t)) + 1
         /\ ~(m.arg = t /\ IsNew(c, t)) => Play!New(Append(c, m), t) = Play!New(c, t)
<1> DEFINE n == Len(c)
           s == Append(c, m)
<1>1. /\ n \in Nat /\ Len(c) = n /\ Len(s) = n + 1 /\ s[n + 1] = m
      /\ \A k \in 1..n : s[k] = c[k]
  BY AppendProperties, LenProperties
<1> HIDE DEF n, s
<1>2. IsFiniteSet(Play!New(c, t)) /\ Cardinality(Play!New(c, t)) \in Nat
  <2>1. Play!New(c, t) \subseteq 1..n
    BY <1>1 DEF Play!New
  <2>2. IsFiniteSet(1..n)
    BY <1>1, FS_Interval
  <2>3. IsFiniteSet(Play!New(c, t))
    BY <2>1, <2>2, FS_Subset, Zenon
  <2> QED
    BY <2>3, FS_CardinalityType, Zenon
<1>3. \A i \in 1..n : i \in Play!New(s, t) <=> i \in Play!New(c, t)
  <2> SUFFICES ASSUME NEW i \in 1..n PROVE i \in Play!New(s, t) <=> i \in Play!New(c, t)
    OBVIOUS
  <2>1. i \in 1..(n + 1) /\ s[i] = c[i]
    BY <1>1
  <2>2. \A j \in 1..(i - 1) : s[j] = c[j]
    BY <1>1
  <2> QED
    BY <1>1, <2>1, <2>2, Zenon DEF Play!New
<1>4. n + 1 \in Play!New(s, t) <=> m.arg = t /\ IsNew(c, t)
  <2>1. n + 1 \in 1..(n + 1) /\ (n + 1) - 1 = n
    BY <1>1
  <2> QED
    BY <1>1, <2>1, Zenon DEF Play!New, IsNew
<1>5. Play!New(s, t) \subseteq 1..(n + 1) /\ Play!New(c, t) \subseteq 1..n
  BY <1>1 DEF Play!New
<1>6. 1..(n + 1) = (1..n) \union {n + 1} /\ n + 1 \notin 1..n
  BY <1>1
<1>7. ASSUME m.arg = t, IsNew(c, t)
      PROVE  Play!New(s, t) = Play!New(c, t) \union {n + 1} /\ n + 1 \notin Play!New(c, t)
  BY <1>3, <1>4, <1>5, <1>6, <1>7, Zenon
<1>8. ASSUME ~(m.arg = t /\ IsNew(c, t)) PROVE Play!New(s, t) = Play!New(c, t)
  BY <1>3, <1>4, <1>5, <1>6, <1>8, Zenon
<1>9. ASSUME m.arg = t, IsNew(c, t) PROVE Cardinality(Play!New(s, t)) = Cardinality(Play!New(c, t)) + 1
  BY <1>2, <1>7, <1>9, FS_AddElement, Zenon
<1> QED
  BY <1>2, <1>8, <1>9, Zenon DEF s

(* A text that is new is not in the set. *)
LEMMA NewIsNotInSet ==
  ASSUME NEW c \in Seq(Play!Moves), NEW q \in Seq(Nat), NEW x, QueueOK(q, c), SetOK(x, q), NEW t \in x
  PROVE  ~IsNew(c, t)
<1>1. PICK k \in 1..Len(q) : q[k] = t
  BY DEF SetOK
<1>2. Len(q) \in Nat /\ Len(c) \in Nat /\ ChatWindow \in Nat
  BY PlayConstants, LenProperties
<1> DEFINE j == (Len(c) - Len(q)) + k
<1>3. j \in 1..Len(c) /\ j >= (Len(c) + 1) - ChatWindow
  BY <1>2 DEF QueueOK
<1>4. c[j].arg = t
  BY <1>1 DEF QueueOK
<1> HIDE DEF j
<1> QED
  BY <1>3, <1>4, Zenon DEF IsNew

(* The queue after a text. *)
Queue(q, t) == IF Len(Append(q, t)) > ChatWindow THEN Tail(Append(q, t)) ELSE Append(q, t)

LEMMA QueueIs ==
  ASSUME NEW q \in Seq(Nat), NEW t \in Nat
  PROVE  /\ Queue(q, t) \in Seq(Nat) /\ Append(q, t) \in Seq(Nat)
         /\ Len(Append(q, t)) = Len(q) + 1 /\ Len(q) \in Nat
         /\ Head(Append(q, t)) = Append(q, t)[1]
         /\ Len(q) + 1 > ChatWindow =>
              /\ Len(Queue(q, t)) = Len(q)
              /\ \A k \in 1..Len(q) : Queue(q, t)[k] = Append(q, t)[k + 1]
         /\ ~(Len(q) + 1 > ChatWindow) => Queue(q, t) = Append(q, t)
<1> DEFINE r == Append(q, t)
<1>1. r \in Seq(Nat) /\ Len(r) = Len(q) + 1 /\ Len(q) \in Nat /\ r # <<>>
  BY AppendProperties, LenProperties
<1> HIDE DEF r
<1>2. /\ Tail(r) \in Seq(Nat) /\ Len(Tail(r)) = Len(r) - 1 /\ Head(r) = r[1]
      /\ \A k \in 1..Len(Tail(r)) : Tail(r)[k] = r[k + 1]
  BY <1>1, HeadTailProperties
<1>3. Len(Tail(r)) = Len(q)
  BY <1>1, <1>2
<1>4. Queue(q, t) = IF Len(q) + 1 > ChatWindow THEN Tail(r) ELSE r
  BY <1>1, Zenon DEF Queue, r
<1>5. Append(q, t) = r
  BY DEF r
<1>6. CASE Len(q) + 1 > ChatWindow
  <2>1. Queue(q, t) = Tail(r)
    BY <1>4, <1>6, Zenon
  <2> QED
    BY <1>1, <1>2, <1>3, <1>5, <1>6, <2>1, Zenon
<1>7. CASE ~(Len(q) + 1 > ChatWindow)
  <2>1. Queue(q, t) = r
    BY <1>4, <1>7, Zenon
  <2> QED
    BY <1>1, <1>2, <1>5, <1>7, <2>1, Zenon
<1> QED
  BY <1>6, <1>7, Zenon

LEMMA QueueKeeps ==
  ASSUME NEW c \in Seq(Play!Moves), NEW q \in Seq(Nat), QueueOK(q, c), NEW t \in Nat
  PROVE  QueueOK(Queue(q, t), Append(c, Text(t)))
<1> DEFINE m == Text(t)
           d == Append(c, m)
           r == Append(q, t)
           p == Queue(q, t)
<1>1. m \in Play!Moves /\ m.arg = t
  BY TextIs
<1> HIDE DEF m
<1>2. Len(c) \in Nat /\ Len(d) = Len(c) + 1 /\ d[Len(c) + 1] = m /\ \A k \in 1..Len(c) : d[k] = c[k]
  BY <1>1, AppendProperties, LenProperties
<1>3. Len(q) \in Nat /\ Len(r) = Len(q) + 1 /\ r[Len(q) + 1] = t /\ \A k \in 1..Len(q) : r[k] = q[k]
  BY AppendProperties, LenProperties
<1>4. /\ Len(q) + 1 > ChatWindow => Len(p) = Len(q) /\ \A k \in 1..Len(q) : p[k] = r[k + 1]
      /\ ~(Len(q) + 1 > ChatWindow) => p = r
  BY QueueIs, Zenon
<1>5. /\ Len(q) <= ChatWindow /\ Len(q) <= Len(c) /\ ChatWindow \in Nat
      /\ Len(q) = Len(c) \/ Len(q) = ChatWindow
      /\ \A k \in 1..Len(q) : q[k] = c[(Len(c) - Len(q)) + k].arg
  BY PlayConstants DEF QueueOK
<1>6. \A k \in 1..(Len(q) + 1) : r[k] = d[(Len(c) - Len(q)) + k].arg
  <2> SUFFICES ASSUME NEW k \in 1..(Len(q) + 1) PROVE r[k] = d[(Len(c) - Len(q)) + k].arg
    OBVIOUS
  <2>1. CASE k \in 1..Len(q)
    <3> DEFINE j == (Len(c) - Len(q)) + k
    <3>1. j \in 1..Len(c)
      BY <1>2, <1>3, <1>5, <2>1
    <3>2. d[j] = c[j]
      BY <1>2, <3>1, Zenon
    <3>3. r[k] = q[k] /\ q[k] = c[j].arg
      BY <1>3, <1>5, <2>1, Zenon
    <3> QED
      BY <3>2, <3>3, Zenon
  <2>2. CASE k = Len(q) + 1
    <3>1. (Len(c) - Len(q)) + k = Len(c) + 1
      BY <1>2, <1>3, <2>2
    <3> QED
      BY <1>1, <1>2, <1>3, <2>2, <3>1, Zenon
  <2>3. k \in 1..Len(q) \/ k = Len(q) + 1
    BY <1>3
  <2> QED
    BY <2>1, <2>2, <2>3, Zenon
<1> HIDE DEF d, r, p
<1>7. CASE Len(q) + 1 > ChatWindow
  <2>1. Len(p) = Len(q) /\ Len(q) = ChatWindow
    BY <1>3, <1>4, <1>5, <1>7
  <2>2. \A k \in 1..Len(q) : p[k] = d[(Len(d) - Len(q)) + k].arg
    <3> SUFFICES ASSUME NEW k \in 1..Len(q) PROVE p[k] = d[(Len(d) - Len(q)) + k].arg
      OBVIOUS
    <3>1. k + 1 \in 1..(Len(q) + 1) /\ (Len(d) - Len(q)) + k = (Len(c) - Len(q)) + (k + 1)
      BY <1>2, <1>3
    <3>2. p[k] = r[k + 1]
      BY <1>4, <1>7, Zenon
    <3> QED
      BY <1>6, <3>1, <3>2, Zenon
  <2>3. Len(q) <= ChatWindow /\ Len(q) <= Len(d)
    BY <1>2, <1>3, <1>5
  <2>4. QueueOK(p, d)
    BY <2>1, <2>2, <2>3, Zenon DEF QueueOK
  <2> QED
    BY <2>4 DEF p, d, m
<1>8. CASE ~(Len(q) + 1 > ChatWindow)
  <2>1. p = r
    BY <1>4, <1>8, Zenon
  <2>2. Len(r) <= ChatWindow /\ Len(r) <= Len(d) /\ Len(r) = Len(d)
    BY <1>2, <1>3, <1>5, <1>8
  <2>3. Len(d) - Len(r) = Len(c) - Len(q)
    BY <1>2, <1>3
  <2>4. QueueOK(r, d)
    BY <1>3, <1>6, <2>2, <2>3, Zenon DEF QueueOK
  <2> QED
    BY <2>1, <2>4 DEF p, d, m
<1> QED
  BY <1>7, <1>8

LEMMA SetKeeps ==
  ASSUME NEW q \in Seq(Nat), NEW x, SetOK(x, q), NEW t \in Nat
  PROVE  SetOK((x \union {t}) \ (IF Len(Append(q, t)) > ChatWindow THEN {Head(Append(q, t))} ELSE {}),
               Queue(q, t))
<1> DEFINE r == Append(q, t)
           p == Queue(q, t)
           y == (x \union {t}) \ (IF Len(r) > ChatWindow THEN {Head(r)} ELSE {})
<1>3. Len(q) \in Nat /\ Len(r) = Len(q) + 1 /\ r[Len(q) + 1] = t /\ \A k \in 1..Len(q) : r[k] = q[k]
  BY AppendProperties, LenProperties
<1>4. /\ Len(q) + 1 > ChatWindow => Len(p) = Len(q) /\ \A k \in 1..Len(q) : p[k] = r[k + 1]
      /\ ~(Len(q) + 1 > ChatWindow) => p = r
      /\ Head(r) = r[1]
  BY QueueIs, Zenon
<1> HIDE DEF r, p
<1> SUFFICES ASSUME NEW u \in y PROVE \E k \in 1..Len(p) : p[k] = u
  BY DEF SetOK, p, r
<1>1. u \in x \union {t} /\ (Len(r) > ChatWindow => u # Head(r))
  OBVIOUS
<1> HIDE DEF y
<1>2. PICK k \in 1..(Len(q) + 1) : r[k] = u
  <2>1. CASE u = t
    <3>1. Len(q) + 1 \in 1..(Len(q) + 1)
      BY <1>3
    <3> QED
      BY <1>3, <2>1, <3>1, Zenon
  <2>2. CASE u \in x
    <3>1. PICK j \in 1..Len(q) : q[j] = u
      BY <2>2 DEF SetOK
    <3>2. j \in 1..(Len(q) + 1)
      BY <1>3
    <3> QED
      BY <1>3, <3>1, <3>2, Zenon
  <2> QED
    BY <1>1, <2>1, <2>2
<1>5. CASE Len(q) + 1 > ChatWindow
  <2>1. k # 1
    BY <1>1, <1>2, <1>3, <1>4, <1>5, Zenon
  <2>2. k - 1 \in 1..Len(q) /\ (k - 1) + 1 = k
    BY <1>3, <2>1
  <2>3. Len(p) = Len(q) /\ p[k - 1] = r[k]
    BY <1>4, <1>5, <2>2, Zenon
  <2> QED
    BY <1>2, <2>2, <2>3, Zenon
<1>6. CASE ~(Len(q) + 1 > ChatWindow)
  BY <1>2, <1>3, <1>4, <1>6, Zenon
<1> QED
  BY <1>5, <1>6

(* What is heard after a chat message. *)
LEMMA HeardKeeps ==
  ASSUME NEW c \in Seq(Play!Moves), NEW fed \in Seq(Play!Moves), HeardOK(fed, c), NEW t \in Nat, NEW f,
         f = Append(fed, Text(t)) \/ (f = fed /\ (NoChat \/ ~IsNew(c, t)))
  PROVE  HeardOK(f, Append(c, Text(t)))
<1> DEFINE m == Text(t)
           d == Append(c, m)
<1>1. m \in Play!Moves /\ m.arg = t
  BY TextIs
<1> SUFFICES ASSUME ~NoChat, NEW u \in Nat
             PROVE  Cardinality(Heard(f, u)) >= Cardinality(Play!New(d, u))
  BY DEF HeardOK
<1> DEFINE h == Cardinality(Heard(fed, u))
           n == Cardinality(Play!New(c, u))
<1>2. h >= n
  BY DEF HeardOK
<1>3. u # t => Text(u) # m
  BY TextIs
<1> HIDE DEF m
<1>4. /\ h \in Nat
      /\ m = Text(u) => Cardinality(Heard(Append(fed, m), u)) = h + 1
      /\ m # Text(u) => Heard(Append(fed, m), u) = Heard(fed, u)
  BY <1>1, HeardAppend
<1>5. /\ n \in Nat
      /\ m.arg = u /\ IsNew(c, u) => Cardinality(Play!New(d, u)) = n + 1
      /\ ~(m.arg = u /\ IsNew(c, u)) => Play!New(d, u) = Play!New(c, u)
  BY <1>1, NewAppend
<1>6. CASE f = Append(fed, m)
  <2>1. CASE u = t
    <3>1. Cardinality(Heard(f, u)) = h + 1
      BY <1>4, <1>6, <2>1, Zenon DEF m
    <3>2. Cardinality(Play!New(d, u)) = n + 1 \/ Cardinality(Play!New(d, u)) = n
      BY <1>5, Zenon
    <3> HIDE DEF h, n
    <3> QED
      BY <1>2, <1>4, <1>5, <3>1, <3>2
  <2>2. CASE u # t
    <3>1. Cardinality(Heard(f, u)) = h /\ Cardinality(Play!New(d, u)) = n
      BY <1>1, <1>3, <1>4, <1>5, <1>6, <2>2, Zenon
    <3> HIDE DEF h, n
    <3> QED
      BY <1>2, <3>1
  <2> QED
    BY <2>1, <2>2
<1>7. CASE f = fed /\ ~IsNew(c, t)
  <2>1. Cardinality(Play!New(d, u)) = n
    BY <1>1, <1>5, <1>7, Zenon
  <2> QED
    BY <1>2, <1>7, <2>1, Zenon
<1> QED
  BY <1>6, <1>7 DEF m

-----------------------------------------------------------------------------
(* Feeding moves.                                                          *)

NotChat == Play!Kinds \ {"chat"}
Kept == Play!Kinds \ (Play!Withheld \union {"chat"})
Chats(s) == Play!OfKinds(s, {"chat"})

(* What the state of the game says after the moves s. *)
FedOK(g, s) ==
  /\ g \in Games /\ s \in Seq(Play!Moves)
  /\ Play!OfKinds(g.fed, NotChat) = Play!OfKinds(s, Kept)
  /\ QueueOK(g.chatQueue, Chats(s)) /\ SetOK(g.chatSet, g.chatQueue) /\ HeardOK(g.fed, Chats(s))

LEMMA ChatOK ==
  ASSUME NEW g, NEW s, FedOK(g, s), NEW m \in Play!Moves, m.kind = "chat"
  PROVE  FedOK(Play!Chat(g, m.arg), Append(s, m))
<1> DEFINE t == m.arg
           q == g.chatQueue
           c == Chats(s)
           h == Play!Chat(g, t)
           r == Append(q, t)
           x == (g.chatSet \union {t}) \ (IF Len(r) > ChatWindow THEN {Head(r)} ELSE {})
           f == IF NoChat \/ t \in g.chatSet THEN g.fed ELSE Append(g.fed, Text(t))
<1>1. g \in Games /\ s \in Seq(Play!Moves) /\ t \in Nat /\ m = Text(t)
  BY DEF FedOK, Play!Moves, Text
<1>2. /\ g.demoTicks \in Nat /\ g.ticks \in [Senders -> Nat] /\ g.chatSet \in SUBSET Nat
      /\ q \in Seq(Nat) /\ g.fed \in Seq(Play!Moves)
  BY <1>1 DEF Games
<1>3. h = [g EXCEPT !.fed = f, !.chatQueue = Queue(q, t), !.chatSet = x]
  BY <1>1 DEF Play!Chat, Queue, Text, Games
<1>4. Queue(q, t) \in Seq(Nat)
  BY <1>1, <1>2, QueueIs, Zenon
<1>5. f \in Seq(Play!Moves) /\ Text(t) \in Play!Moves
  <2>1. Text(t) \in Play!Moves
    BY <1>1, Zenon
  <2> HIDE DEF t
  <2> QED
    BY <1>2, <2>1, AppendProperties
<1>6. x \in SUBSET Nat
  BY <1>1, <1>2
<1> HIDE DEF f, x, h
<1>7. /\ h \in Games /\ h.fed = f /\ h.chatQueue = Queue(q, t) /\ h.chatSet = x
  <2> HIDE DEF t, q
  <2> QED
    BY <1>1, <1>2, <1>3, <1>4, <1>5, <1>6 DEF Games
<1>8. c \in Seq(Play!Moves) /\ Chats(Append(s, m)) = Append(c, Text(t))
  <2>1. m.kind \in {"chat"}
    OBVIOUS
  <2> QED
    BY <1>1, <2>1, OfKindsAppend, Zenon DEF OneMore, Chats
<1>9. Play!OfKinds(Append(s, m), Kept) = Play!OfKinds(s, Kept)
  <2>1. m.kind \notin Kept
    BY DEF Kept
  <2> QED
    BY <1>1, <2>1, OfKindsAppend, Zenon DEF OneMore
<1>10. Play!OfKinds(f, NotChat) = Play!OfKinds(g.fed, NotChat)
  <2>1. Text(t).kind \notin NotChat
    BY <1>1, TextIs DEF NotChat
  <2>2. Play!OfKinds(Append(g.fed, Text(t)), NotChat) = Play!OfKinds(g.fed, NotChat)
    <3> DEFINE w == Text(t)
               a == g.fed
    <3>1. w \in Play!Moves /\ w.kind \notin NotChat /\ a \in Seq(Play!Moves)
      BY <1>2, <1>5, <2>1, Zenon
    <3> HIDE DEF w, a
    <3>2. Play!OfKinds(Append(a, w), NotChat) = OneMore(NotChat, Play!OfKinds(a, NotChat), w)
      BY <3>1, OfKindsAppend
    <3>3. Play!OfKinds(Append(a, w), NotChat) = Play!OfKinds(a, NotChat)
      BY <3>1, <3>2, Zenon DEF OneMore
    <3> QED
      BY <3>3, Zenon DEF w, a
  <2> QED
    BY <2>2, Zenon DEF f
<1>11. QueueOK(q, c) /\ SetOK(g.chatSet, q) /\ HeardOK(g.fed, c)
  BY DEF FedOK
<1>12. QueueOK(Queue(q, t), Append(c, Text(t))) /\ SetOK(x, Queue(q, t))
  <2> HIDE DEF c, q, t
  <2> QED
    BY <1>1, <1>2, <1>8, <1>11, QueueKeeps, SetKeeps, Zenon DEF x, r
<1>13. HeardOK(f, Append(c, Text(t)))
  <2> HIDE DEF c, q, t
  <2>1. f = Append(g.fed, Text(t)) \/ (f = g.fed /\ (NoChat \/ t \in g.chatSet))
    BY Zenon DEF f
  <2>2. t \in g.chatSet => ~IsNew(c, t)
    BY <1>2, <1>8, <1>11, NewIsNotInSet, Zenon
  <2> QED
    BY <1>1, <1>2, <1>8, <1>11, <2>1, <2>2, HeardKeeps, Zenon
<1>14. Append(s, m) \in Seq(Play!Moves)
  BY <1>1, AppendProperties
<1>15. Play!OfKinds(g.fed, NotChat) = Play!OfKinds(s, Kept)
  BY DEF FedOK
<1>16. FedOK(h, Append(s, m))
  <2> HIDE DEF c, q, t
  <2> QED
    BY <1>7, <1>8, <1>9, <1>10, <1>12, <1>13, <1>14, <1>15, Zenon DEF FedOK
<1> QED
  BY <1>16 DEF h

(* A move that is no chat changes only what is fed and the ticks. *)
LEMMA MoveKept ==
  ASSUME NEW g, NEW s, FedOK(g, s), NEW m \in Play!Moves, m.kind # "chat", NEW h \in Games,
         h.chatQueue = g.chatQueue, h.chatSet = g.chatSet,
         h.fed = IF m.kind \in Play!Withheld THEN g.fed ELSE Append(g.fed, m)
  PROVE  FedOK(h, Append(s, m))
<1>1. g.fed \in Seq(Play!Moves) /\ s \in Seq(Play!Moves) /\ Append(s, m) \in Seq(Play!Moves)
  <2>1. g \in Games /\ s \in Seq(Play!Moves)
    BY DEF FedOK
  <2> QED
    BY <2>1, AppendProperties DEF Games
<1>2. Chats(Append(s, m)) = Chats(s)
  <2>1. m.kind \notin {"chat"}
    OBVIOUS
  <2> QED
    BY <1>1, <2>1, OfKindsAppend, Zenon DEF OneMore, Chats
<1>3. m.kind \in Play!Kinds
  BY DEF Play!Moves
<1>4. CASE m.kind \in Play!Withheld
  <2>1. m.kind \notin Kept
    BY <1>4 DEF Kept
  <2>2. Play!OfKinds(Append(s, m), Kept) = Play!OfKinds(s, Kept)
    BY <1>1, <2>1, OfKindsAppend, Zenon DEF OneMore
  <2>3. h.fed = g.fed
    BY <1>4, Zenon
  <2> QED
    BY <1>1, <1>2, <2>2, <2>3, Zenon DEF FedOK
<1>5. CASE m.kind \notin Play!Withheld
  <2>1. m.kind \in Kept /\ m.kind \in NotChat
    BY <1>3, <1>5 DEF Kept, NotChat
  <2>2. Play!OfKinds(Append(s, m), Kept) = Append(Play!OfKinds(s, Kept), m)
    BY <1>1, <2>1, OfKindsAppend, Zenon DEF OneMore
  <2>3. Play!OfKinds(Append(g.fed, m), NotChat) = Append(Play!OfKinds(g.fed, NotChat), m)
    BY <1>1, <2>1, OfKindsAppend, Zenon DEF OneMore
  <2>4. h.fed = Append(g.fed, m)
    BY <1>5, Zenon
  <2>5. HeardOK(Append(g.fed, m), Chats(s))
    <3> SUFFICES ASSUME ~NoChat, NEW t \in Nat
                 PROVE  Cardinality(Heard(Append(g.fed, m), t)) >= Cardinality(Play!New(Chats(s), t))
      BY DEF HeardOK
    <3>1. m # Text(t)
      BY TextIs
    <3>2. Heard(Append(g.fed, m), t) = Heard(g.fed, t)
      BY <1>1, <3>1, HeardAppend, Zenon
    <3>3. HeardOK(g.fed, Chats(s))
      BY DEF FedOK
    <3>4. Cardinality(Heard(g.fed, t)) >= Cardinality(Play!New(Chats(s), t))
      BY <3>3, Zenon DEF HeardOK
    <3> QED
      BY <3>2, <3>4, Zenon
  <2> QED
    BY <1>1, <1>2, <2>2, <2>3, <2>4, <2>5, Zenon DEF FedOK
<1> QED
  BY <1>4, <1>5

LEMMA TicksOK ==
  ASSUME NEW g \in Games, NEW sender \in Senders, NEW t \in Nat
  PROVE  /\ Play!MoveTicks(g, sender, t) \in Games
         /\ Play!MoveTicks(g, sender, t).chatQueue = g.chatQueue
         /\ Play!MoveTicks(g, sender, t).chatSet = g.chatSet
         /\ Play!MoveTicks(g, sender, t).fed = Append(g.fed, [kind |-> "tick", arg |-> t])
<1> DEFINE ticks == [g.ticks EXCEPT ![sender] = t]
           ahead == {ticks[s] : s \in {r \in Senders : ticks[r] > g.demoTicks}} \union {t}
           least == CHOOSE x \in ahead : \A y \in ahead : x <= y
           m == [kind |-> "tick", arg |-> t]
           h == [g EXCEPT !.ticks = ticks, !.demoTicks = least, !.fed = Append(@, m)]
<1>1. g.ticks \in [Senders -> Nat] /\ g.fed \in Seq(Play!Moves)
  BY DEF Games
<1>2. ticks \in [Senders -> Nat]
  BY <1>1
<1> HIDE DEF ticks
<1>3. ahead \in SUBSET Nat /\ ahead # {}
  BY <1>2
<1> HIDE DEF ahead
<1>4. \E x \in ahead : \A y \in ahead : x <= y
  BY <1>3, SmallestOf
<1>5. least \in ahead
  BY <1>4, Zenon
<1>6. least \in Nat
  BY <1>3, <1>5
<1> HIDE DEF least
<1>7. m \in Play!Moves
  BY DEF Play!Moves, Play!Kinds
<1>8. Append(g.fed, m) \in Seq(Play!Moves)
  BY <1>1, <1>7, AppendProperties
<1> HIDE DEF m
<1>9. h \in Games /\ h.chatQueue = g.chatQueue /\ h.chatSet = g.chatSet /\ h.fed = Append(g.fed, m)
  BY <1>2, <1>6, <1>8 DEF Games
<1>10. Play!MoveTicks(g, sender, t) = h
  BY DEF Play!MoveTicks, Play!DemoTicks, h, least, ahead, ticks, m
<1> HIDE DEF h
<1> QED
  BY <1>9, <1>10, Zenon DEF m

LEMMA FeedMoveOK ==
  ASSUME NEW g, NEW s, FedOK(g, s), NEW sender \in Senders, NEW m \in Play!Moves
  PROVE  FedOK(Play!FeedMove(g, sender, m), Append(s, m))
<1> DEFINE h == Play!FeedMove(g, sender, m)
<1>1. g \in Games /\ g.fed \in Seq(Play!Moves) /\ m.arg \in Nat /\ m.kind \in Play!Kinds
  BY DEF FedOK, Games, Play!Moves
<1>2. CASE m.kind = "chat"
  <2>1. h = Play!Chat(g, m.arg)
    BY <1>2 DEF Play!FeedMove, Play!Withheld
  <2> QED
    BY <1>2, <2>1, ChatOK, Zenon
<1>3. CASE m.kind = "tick"
  <2>1. h = Play!MoveTicks(g, sender, m.arg)
    BY <1>3 DEF Play!FeedMove, Play!Withheld
  <2>2. m = [kind |-> "tick", arg |-> m.arg] /\ m.kind # "chat" /\ m.kind \notin Play!Withheld
    BY <1>3 DEF Play!Moves, Play!Withheld
  <2> HIDE DEF h
  <2>3. h \in Games /\ h.chatQueue = g.chatQueue /\ h.chatSet = g.chatSet /\ h.fed = Append(g.fed, m)
    <3> DEFINE t == m.arg
    <3>1. t \in Nat
      BY <1>1
    <3>2. h = Play!MoveTicks(g, sender, t) /\ m = [kind |-> "tick", arg |-> t]
      BY <2>1, <2>2
    <3> HIDE DEF t
    <3> QED
      BY <1>1, <3>1, <3>2, TicksOK, Zenon
  <2>4. h.fed = IF m.kind \in Play!Withheld THEN g.fed ELSE Append(g.fed, m)
    BY <2>2, <2>3, Zenon
  <2>5. FedOK(h, Append(s, m))
    BY <2>2, <2>3, <2>4, MoveKept, Zenon
  <2> QED
    BY <2>5 DEF h
<1>4. CASE m.kind \in Play!Withheld
  <2>1. m.kind # "chat" /\ m.kind # "tick"
    BY <1>4 DEF Play!Withheld
  <2>2. h = g
    BY <1>4, <2>1 DEF Play!FeedMove
  <2>3. g.fed = IF m.kind \in Play!Withheld THEN g.fed ELSE Append(g.fed, m)
    BY <1>4, Zenon
  <2> QED
    BY <1>1, <2>1, <2>2, <2>3, MoveKept, Zenon
<1>5. CASE m.kind \notin Play!Withheld /\ m.kind # "chat" /\ m.kind # "tick"
  <2>1. h = [g EXCEPT !.fed = Append(@, m)]
    BY <1>5 DEF Play!FeedMove
  <2>2. Append(g.fed, m) \in Seq(Play!Moves)
    BY <1>1, AppendProperties
  <2> HIDE DEF h
  <2>3. h \in Games /\ h.chatQueue = g.chatQueue /\ h.chatSet = g.chatSet /\ h.fed = Append(g.fed, m)
    BY <1>1, <2>1, <2>2 DEF Games
  <2>4. h.fed = IF m.kind \in Play!Withheld THEN g.fed ELSE Append(g.fed, m)
    BY <1>5, <2>3, Zenon
  <2>5. FedOK(h, Append(s, m))
    BY <1>5, <2>3, <2>4, MoveKept, Zenon
  <2> QED
    BY <2>5 DEF h
<1> QED
  BY <1>2, <1>3, <1>4, <1>5

-----------------------------------------------------------------------------
(* Feeding a packet.                                                       *)

Sent(p) == IF p.sender \in Senders THEN p.moves ELSE <<>>

(* The game after the first i moves of a packet. *)
After(g, p) ==
  CHOOSE f : f = [i \in 0..Len(p.moves) |->
                    IF i = 0 THEN g ELSE Play!FeedMove(f[i - 1], p.sender, p.moves[i])]

LEMMA FeedPacketIs ==
  ASSUME NEW g, NEW p
  PROVE  Play!FeedPacket(g, p) = IF p.sender \in Senders THEN After(g, p)[Len(p.moves)] ELSE g
BY DEF Play!FeedPacket, After

IsAfter(f, g, p) ==
  f[0] = g /\ \A i \in 1..Len(p.moves) : f[i] = Play!FeedMove(f[i - 1], p.sender, p.moves[i])

LEMMA AfterIs ==
  ASSUME NEW g, NEW s, FedOK(g, s), NEW p \in Play!Packets, p.sender \in Senders
  PROVE  IsAfter(After(g, p), g, p)
<1> DEFINE n == Len(p.moves)
           V == {h \in Games : \E u \in Seq(Play!Moves) : FedOK(h, u)}
           one(i, h) == Play!FeedMove(h, p.sender, p.moves[i])
           step == [x \in (1..n) \X V |-> one(x[1], x[2])]
           Is(f) == f = [i \in 0..n |-> IF i = 0 THEN g ELSE one(i, f[i - 1])]
<1>1. n \in Nat /\ \A i \in 1..n : p.moves[i] \in Play!Moves
  <2>1. p.moves \in Seq(Play!Moves)
    BY DEF Play!Packets
  <2> QED
    BY <2>1, LenProperties, ElementOfSeq
<1>2. ASSUME NEW i \in 1..n, NEW h \in V PROVE one(i, h) \in V
  <2>1. PICK u \in Seq(Play!Moves) : FedOK(h, u)
    OBVIOUS
  <2>2. p.moves[i] \in Play!Moves
    BY <1>1
  <2>3. FedOK(one(i, h), Append(u, p.moves[i]))
    BY <2>1, <2>2, FeedMoveOK, Zenon
  <2> HIDE DEF one
  <2>4. one(i, h) \in Games /\ Append(u, p.moves[i]) \in Seq(Play!Moves)
    BY <2>3, Zenon DEF FedOK
  <2> QED
    BY <2>3, <2>4, Zenon
<1>3. g \in V
  BY Zenon DEF FedOK
<1> HIDE DEF V
<1>4. step \in [(1..n) \X V -> V]
  <2> HIDE DEF one
  <2>1. ASSUME NEW x \in (1..n) \X V PROVE one(x[1], x[2]) \in V
    BY <1>2
  <2> QED
    BY <2>1
<1>5. PICK f \in [0..n -> V] : f[0] = g /\ \A i \in 1..n : f[i] = step[<<i, f[i - 1]>>]
  <2>2. n \in Nat
    BY <1>1
  <2> HIDE DEF step, n
  <2>3. \E f \in [0..n -> V] : IsRecursion(f, g, n, step)
    BY <1>3, <1>4, <2>2, RecursionExists
  <2> QED
    BY <2>3 DEF IsRecursion
<1>6. ASSUME NEW i \in 1..n PROVE f[i] = one(i, f[i - 1])
  <2>1. i - 1 \in 0..n
    BY <1>1
  <2>2. <<i, f[i - 1]>> \in (1..n) \X V
    BY <2>1
  <2> HIDE DEF one
  <2>3. step[<<i, f[i - 1]>>] = one(i, f[i - 1])
    BY <2>2
  <2> QED
    BY <1>5, <2>3
<1>7. Is(f)
  <2> HIDE DEF one
  <2> QED
    BY <1>1, <1>5, <1>6
<1>8. Is(CHOOSE x : Is(x))
  <2> HIDE DEF Is
  <2> QED
    BY <1>7
<1>9. Is(After(g, p))
  BY <1>8 DEF After
<1> DEFINE a == After(g, p)
<1>10. a = [i \in 0..n |-> IF i = 0 THEN g ELSE one(i, a[i - 1])]
  BY <1>9
<1> HIDE DEF a, Is
<1>11. a[0] = g /\ \A i \in 1..n : a[i] = one(i, a[i - 1])
  <2>1. 0 \in 0..n /\ \A i \in 1..n : i \in 0..n /\ i # 0
    BY <1>1
  <2> HIDE DEF one, n
  <2> QED
    BY <1>10, <2>1, Zenon
<1> QED
  BY <1>11, Zenon DEF a, IsAfter

(* One element more of a sequence that is appended. *)
LEMMA TakeOne ==
  ASSUME NEW X, NEW s \in Seq(X), NEW t \in Seq(X), NEW i \in 0..Len(t), i < Len(t)
  PROVE  /\ s \o Take(t, i + 1) = Append(s \o Take(t, i), t[i + 1])
         /\ s \o Take(t, i) \in Seq(X) /\ t[i + 1] \in X
<1>1. Len(t) \in Nat /\ Len(s) \in Nat /\ i + 1 \in 0..Len(t) /\ i + 1 \in 1..Len(t)
  BY LenProperties
<1>2. t[i + 1] \in X
  BY <1>1, ElementOfSeq
<1> DEFINE p == Take(t, i)
           q == Take(t, i + 1)
           a == s \o q
           b == s \o p
           x == t[i + 1]
           c == Append(b, x)
<1>3. p \in Seq(X) /\ Len(p) = i /\ \A k \in 1..i : p[k] = t[k]
  BY TakeIs
<1>4. q \in Seq(X) /\ Len(q) = i + 1 /\ \A k \in 1..(i + 1) : q[k] = t[k]
  BY <1>1, TakeIs
<1> HIDE DEF p, q
<1>5. /\ a \in Seq(X) /\ Len(a) = Len(s) + (i + 1)
      /\ \A k \in 1..(Len(s) + (i + 1)) : a[k] = IF k <= Len(s) THEN s[k] ELSE q[k - Len(s)]
  BY <1>4, ConcatProperties
<1>6. /\ b \in Seq(X) /\ Len(b) = Len(s) + i
      /\ \A k \in 1..(Len(s) + i) : b[k] = IF k <= Len(s) THEN s[k] ELSE p[k - Len(s)]
  BY <1>3, ConcatProperties
<1> HIDE DEF a, b, x
<1>7. /\ c \in Seq(X) /\ Len(c) = Len(b) + 1 /\ c[Len(b) + 1] = x
      /\ \A k \in 1..Len(b) : c[k] = b[k]
  <2>1. x \in X /\ b \in Seq(X)
    BY <1>2, <1>6, Zenon DEF x
  <2>2. /\ Append(b, x) \in Seq(X) /\ Len(Append(b, x)) = Len(b) + 1
        /\ \A k \in 1..Len(b) : Append(b, x)[k] = b[k]
        /\ Append(b, x)[Len(b) + 1] = x
    BY <2>1, AppendProperties
  <2> QED
    BY <2>2, Zenon
<1> HIDE DEF c
<1>8. Len(a) = Len(c)
  BY <1>1, <1>5, <1>6, <1>7
<1>9. ASSUME NEW k \in 1..Len(a) PROVE a[k] = c[k]
  <2>1. k \in 1..(Len(s) + (i + 1)) /\ k \in Int /\ i \in Nat
    BY <1>1, <1>5
  <2>2. CASE k <= Len(s)
    <3>1. k \in 1..(Len(s) + i) /\ k \in 1..Len(b)
      BY <1>1, <1>6, <2>1, <2>2
    <3> QED
      BY <1>5, <1>6, <1>7, <2>1, <2>2, <3>1, Zenon
  <2>3. CASE ~(k <= Len(s)) /\ k # Len(s) + (i + 1)
    <3> DEFINE l == Len(s)
    <3>0. l \in Nat /\ k \in 1..(l + (i + 1)) /\ ~(k <= l) /\ k # l + (i + 1)
      BY <1>1, <2>1, <2>3
    <3>1. k \in 1..(Len(s) + i) /\ k \in 1..Len(b) /\ k - Len(s) \in 1..i /\ k - Len(s) \in 1..(i + 1)
      <4> HIDE DEF l
      <4>1. k \in 1..(l + i) /\ k - l \in 1..i /\ k - l \in 1..(i + 1)
        BY <2>1, <3>0
      <4> QED
        BY <1>6, <4>1, Zenon DEF l
    <3>2. a[k] = t[k - Len(s)] /\ b[k] = t[k - Len(s)]
      BY <1>3, <1>4, <1>5, <1>6, <2>1, <2>3, <3>1, Zenon
    <3> QED
      BY <1>7, <3>1, <3>2, Zenon
  <2>4. CASE k = Len(s) + (i + 1)
    <3>1. ~(k <= Len(s)) /\ k - Len(s) = i + 1 /\ k = Len(b) + 1 /\ i + 1 \in 1..(i + 1)
      BY <1>1, <1>6, <2>4
    <3>2. a[k] = q[i + 1]
      BY <1>5, <2>1, <3>1, Zenon
    <3> QED
      BY <1>4, <1>7, <3>1, <3>2, Zenon DEF x
  <2> QED
    BY <2>2, <2>3, <2>4
<1>10. a = c
  BY <1>5, <1>7, <1>8, <1>9, SeqEqual
<1> QED
  BY <1>2, <1>6, <1>10, Zenon DEF a, b, c, p, q, x

LEMMA FeedPacketOK ==
  ASSUME NEW g, NEW s, FedOK(g, s), NEW p \in Play!Packets
  PROVE  FedOK(Play!FeedPacket(g, p), s \o Sent(p))
<1>1. s \in Seq(Play!Moves) /\ p.moves \in Seq(Play!Moves)
  BY DEF FedOK, Play!Packets
<1>2. CASE p.sender \notin Senders
  <2>1. Play!FeedPacket(g, p) = g /\ Sent(p) = <<>>
    BY <1>2, FeedPacketIs, Zenon DEF Sent
  <2>2. s \o <<>> = s
    BY <1>1, ConcatEmptySeq
  <2> QED
    BY <2>1, <2>2, Zenon
<1>3. CASE p.sender \in Senders
  <2> DEFINE a == After(g, p)
             t == p.moves
             n == Len(t)
             S == {i \in 0..n : FedOK(a[i], s \o Take(t, i))}
  <2>1. n \in Nat /\ t \in Seq(Play!Moves)
    BY <1>1, LenProperties
  <2>2. IsAfter(a, g, p)
    BY <1>3, AfterIs
  <2> HIDE DEF a
  <2>3. a[0] = g /\ \A i \in 1..n : a[i] = Play!FeedMove(a[i - 1], p.sender, t[i])
    BY <2>2, Zenon DEF IsAfter
  <2>4. Play!FeedPacket(g, p) = a[n] /\ Sent(p) = t
    BY <1>3, FeedPacketIs, Zenon DEF Sent, a
  <2> HIDE DEF t, n
  <2>5. n = Len(t)
    BY DEF n
  <2>6. Take(t, 0) = <<>> /\ Take(t, n) = t /\ s \o <<>> = s
    BY <1>1, <2>1, <2>5, TakeDropEnds, ConcatEmptySeq, Zenon
  <2>7. 0 \in S
    <3>1. 0 \in 0..n
      BY <2>1
    <3> QED
      BY <2>3, <2>6, <3>1, Zenon
  <2>8. ASSUME NEW i \in 0..n, i \in S, i < n PROVE i + 1 \in S
    <3>1. i + 1 \in 1..n /\ (i + 1) - 1 = i /\ i + 1 \in 0..n
      BY <2>1, <2>8
    <3>2. a[i + 1] = Play!FeedMove(a[i], p.sender, t[i + 1])
      BY <2>3, <3>1, Zenon
    <3>3. i \in 0..Len(t) /\ i < Len(t)
      BY <2>5, <2>8, Zenon
    <3>4. s \o Take(t, i + 1) = Append(s \o Take(t, i), t[i + 1]) /\ t[i + 1] \in Play!Moves
      BY <1>1, <2>1, <3>3, TakeOne
    <3>5. FedOK(a[i], s \o Take(t, i))
      BY <2>8
    <3>6. FedOK(Play!FeedMove(a[i], p.sender, t[i + 1]), Append(s \o Take(t, i), t[i + 1]))
      BY <1>3, <3>4, <3>5, FeedMoveOK, Zenon
    <3> QED
      BY <3>1, <3>2, <3>4, <3>6, Zenon
  <2> HIDE DEF S
  <2>9. 0..n \subseteq S
    BY <2>1, <2>7, <2>8, UpTo
  <2>10. n \in S
    BY <2>1, <2>9
  <2> QED
    BY <2>4, <2>6, <2>10, Zenon DEF S
<1> QED
  BY <1>2, <1>3

-----------------------------------------------------------------------------
(* The moves of the packets that were taken.                               *)

Parts(d, n) == [i \in 1..n |-> IF d[i].sender \in Senders THEN d[i].moves ELSE <<>>]

LEMMA TakenIs ==
  Play!Taken = Flat(Parts(demo, popped)) /\ Talk!Taken = Flat(Parts(demo, popped))
BY DEF Play!Taken, Talk!Taken, Play!FlattenSeq, Talk!FlattenSeq, Flat, Flattened, Parts

LEMMA PartsAre ==
  ASSUME NEW d \in Seq(Play!Packets), NEW n \in 0..Len(d)
  PROVE  /\ Parts(d, n) \in Seq(Seq(Play!Moves)) /\ Len(Parts(d, n)) = n
         /\ \A i \in 1..n : Parts(d, n)[i] = Sent(d[i])
<1>1. Len(d) \in Nat /\ n \in Nat
  BY LenProperties
<1>2. ASSUME NEW i \in 1..n PROVE Sent(d[i]) \in Seq(Play!Moves)
  <2>1. i \in 1..Len(d)
    BY <1>1
  <2>2. d[i] \in Play!Packets
    BY <2>1, ElementOfSeq
  <2> QED
    BY <2>2 DEF Sent, Play!Packets
<1>3. Parts(d, n) = [i \in 1..n |-> Sent(d[i])]
  BY DEF Parts, Sent
<1> QED
  BY <1>1, <1>2, <1>3

LEMMA TakenFirst ==
  ASSUME NEW d \in Seq(Play!Packets)
  PROVE  Flat(Parts(d, 0)) = <<>>
<1>1. 0 \in 0..Len(d)
  BY LenProperties
<1>2. Parts(d, 0) \in Seq(Seq(Play!Moves)) /\ Len(Parts(d, 0)) = 0
  BY <1>1, PartsAre
<1> QED
  BY <1>2, FlatUpToIs

LEMMA TakenMore ==
  ASSUME NEW d \in Seq(Play!Packets), NEW n \in 0..Len(d), n < Len(d)
  PROVE  Flat(Parts(d, n + 1)) = Flat(Parts(d, n)) \o Sent(d[n + 1])
<1> DEFINE s == Parts(d, n)
           t == Parts(d, n + 1)
<1>1. n \in Nat /\ n + 1 \in 0..Len(d) /\ n + 1 \in 1..(n + 1) /\ (n + 1) - 1 = n /\ n <= n + 1 /\ n <= n
  BY LenProperties
<1>2. s \in Seq(Seq(Play!Moves)) /\ Len(s) = n /\ \A i \in 1..n : s[i] = Sent(d[i])
  BY PartsAre
<1>3. t \in Seq(Seq(Play!Moves)) /\ Len(t) = n + 1 /\ \A i \in 1..(n + 1) : t[i] = Sent(d[i])
  BY <1>1, PartsAre
<1> HIDE DEF s, t
<1>4. \A i \in 1..n : s[i] = t[i]
  <2>1. \A i \in 1..n : i \in 1..(n + 1)
    BY <1>1
  <2> QED
    BY <1>2, <1>3, <2>1, Zenon
<1>5. n <= Len(s) /\ n <= Len(t) /\ n \in 0..n
  BY <1>1, <1>2, <1>3
<1>6. FlatUpTo(s, n) = FlatUpTo(t, n)
  <2>1. s \in Seq(Seq(Play!Moves)) /\ t \in Seq(Seq(Play!Moves)) /\ n \in Nat
    BY <1>1, <1>2, <1>3
  <2>2. \A i \in 0..n : FlatUpTo(s, i) = FlatUpTo(t, i)
    BY <1>4, <1>5, <2>1, FlatAgrees
  <2> QED
    BY <1>5, <2>2
<1>7. Flat(s) = FlatUpTo(s, n)
  BY <1>2, FlatUpToIs, Zenon
<1>8. Flat(t) = FlatUpTo(t, n + 1) /\ FlatUpTo(t, n + 1) = FlatUpTo(t, n) \o t[n + 1]
  <2>1. /\ Flat(t) = FlatUpTo(t, Len(t))
        /\ \A i \in 1..Len(t) : FlatUpTo(t, i) = FlatUpTo(t, i - 1) \o t[i]
    BY <1>3, FlatUpToIs, Zenon
  <2> QED
    BY <1>1, <1>3, <2>1, Zenon
<1> QED
  BY <1>1, <1>3, <1>6, <1>7, <1>8, Zenon DEF s, t

-----------------------------------------------------------------------------
(* The playback.                                                           *)

(* What both instances keep: the packets that were taken are packets of    *)
(* the demo, and the game is what feeding them makes of it.                *)
FeedInv ==
  /\ demo \in Seq(Play!Packets) /\ written \in Nat /\ parsed \in Nat /\ popped \in Nat
  /\ popped <= parsed /\ parsed <= written /\ written <= Len(demo)
  /\ FedOK(game, Flat(Parts(demo, popped)))

LEMMA FeedInit ==
  ASSUME demo \in Seq(Play!Packets) \ {<<>>}, written = 1, parsed = 1, popped = 0, game = Play!Game0
  PROVE  FeedInv
<1>1. Len(demo) \in Nat /\ 1 <= Len(demo)
  BY EmptySeq, LenProperties
<1>2. Flat(Parts(demo, popped)) = <<>>
  BY TakenFirst
<1>3. game \in Games /\ game.fed = <<>> /\ game.chatQueue = <<>> /\ game.chatSet = {}
  BY DEF Games, Play!Game0
<1>4. FedOK(game, <<>>)
  <2>1. Chats(<<>>) = <<>> /\ Play!OfKinds(<<>>, NotChat) = <<>> /\ Play!OfKinds(<<>>, Kept) = <<>>
    BY OfKindsEmpty DEF Chats
  <2>2. QueueOK(<<>>, <<>>)
    BY PlayConstants DEF QueueOK
  <2>3. SetOK({}, <<>>)
    BY DEF SetOK
  <2>4. HeardOK(<<>>, <<>>)
    <3>1. \A t : Heard(<<>>, t) = {} /\ Play!New(<<>>, t) = {}
      BY DEF Heard, Play!New
    <3>2. Cardinality({}) = 0 /\ 0 >= 0
      BY FS_EmptySet
    <3> QED
      BY <3>1, <3>2, Zenon DEF HeardOK
  <2>5. <<>> \in Seq(Play!Moves)
    OBVIOUS
  <2> QED
    BY <1>3, <2>1, <2>2, <2>3, <2>4, <2>5, Zenon DEF FedOK
<1> QED
  BY <1>1, <1>2, <1>4 DEF FeedInv

(* A packet is fed. *)
LEMMA FeedKeeps ==
  ASSUME FeedInv, UNCHANGED <<demo, written>>, parsed' \in Nat, parsed' <= written, parsed' > popped,
         popped' = popped + 1, game' = Play!FeedPacket(game, demo[popped + 1])
  PROVE  FeedInv'
<1>1. Len(demo) \in Nat /\ popped \in 0..Len(demo) /\ popped < Len(demo) /\ popped + 1 \in 1..Len(demo)
  BY LenProperties DEF FeedInv
<1>2. demo \in Seq(Play!Packets)
  BY DEF FeedInv
<1>3. demo[popped + 1] \in Play!Packets
  BY <1>1, <1>2, ElementOfSeq
<1>4. FedOK(game', Flat(Parts(demo, popped)) \o Sent(demo[popped + 1]))
  BY <1>3, FeedPacketOK, Zenon DEF FeedInv
<1>5. FedOK(game', Flat(Parts(demo, popped + 1)))
  BY <1>1, <1>2, <1>4, TakenMore, Zenon
<1>6. /\ demo' \in Seq(Play!Packets) /\ written' \in Nat /\ parsed' \in Nat /\ popped' \in Nat
      /\ popped' <= parsed' /\ parsed' <= written' /\ written' <= Len(demo')
  BY DEF FeedInv
<1>7. demo' = demo
  OBVIOUS
<1> QED
  BY <1>5, <1>6, <1>7, Zenon DEF FeedInv

(* More is written or parsed. *)
LEMMA GrowKeeps ==
  ASSUME FeedInv, UNCHANGED <<demo, popped, game>>, written' \in Nat, parsed' \in Nat,
         popped <= parsed', parsed' <= written', written' <= Len(demo)
  PROVE  FeedInv'
<1>1. demo' = demo /\ popped' = popped /\ game' = game
  OBVIOUS
<1> QED
  BY <1>1, Zenon DEF FeedInv

LEMMA ParsedIs ==
  ASSUME FeedInv
  PROVE  /\ Play!Parsed \in Nat /\ popped <= Play!Parsed /\ Play!Parsed <= written
         /\ Talk!Parsed = Play!Parsed
<1>1. Preload \in Nat
  BY ConstantsAssumption DEF Play!ConstantsOK
<1>2. Play!Parsed \in Nat /\ popped <= Play!Parsed /\ Play!Parsed <= written
  BY <1>1 DEF FeedInv, Play!Parsed, Play!SmallerOf
<1>3. Talk!Parsed = Play!Parsed
  BY DEF Play!Parsed, Talk!Parsed, Play!SmallerOf, Talk!SmallerOf, Play!Pending, Talk!Pending
<1> QED
  BY <1>2, <1>3

(* The two instances have the same constants for what is fed. *)
LEMMA SameFeeding ==
  /\ Talk!Game0 = Play!Game0
  /\ \A g, p : Talk!FeedPacket(g, p) = Play!FeedPacket(g, p)
  /\ \A s, kinds : Talk!OfKinds(s, kinds) = Play!OfKinds(s, kinds)
  /\ \A c, t : Talk!New(c, t) = Play!New(c, t)
<1>1. Talk!Game0 = Play!Game0
  BY Zenon DEF Talk!Game0, Play!Game0
<1>2. \A s, kinds : Talk!OfKinds(s, kinds) = Play!OfKinds(s, kinds)
  BY Zenon DEF Talk!OfKinds, Play!OfKinds
<1>3. \A c, t : Talk!New(c, t) = Play!New(c, t)
  BY Zenon DEF Talk!New, Play!New
<1>4. \A g, p : Talk!FeedPacket(g, p) = Play!FeedPacket(g, p)
  BY Zenon DEF Talk!FeedPacket, Play!FeedPacket, Talk!FeedMove, Play!FeedMove, Talk!Chat, Play!Chat,
       Talk!MoveTicks, Play!MoveTicks, Talk!DemoTicks, Play!DemoTicks, Talk!Withheld, Play!Withheld
<1> QED
  BY <1>1, <1>2, <1>3, <1>4

(* The target and the rate, the watchers' ticks and their sonars. *)
TimeOK ==
  /\ feeding \in BOOLEAN /\ isPaused \in BOOLEAN /\ wallClock \in 0..FollowTicks
  /\ target \in Nat /\ fraction \in 0..(RateMax - 1)
  /\ rate \in (RateMax \div 2)..RateMax /\ speed \in Speeds
  /\ dpTicks \in [Audience -> 0..MaxTicks] /\ sonars \in [Audience -> Nat]
  /\ Play!SonarOnce

LEMMA TimeConstants ==
  /\ Preload \in Nat /\ FollowTicks \in Nat /\ SonarTick \in Nat /\ RateMax \in Nat /\ MaxTicks \in Nat
  /\ SonarTick > 0 /\ RateMax > 1 /\ Speeds \subseteq Nat \ {0} /\ 1 \in Speeds
  /\ RateMax \div 2 \in Nat /\ RateMax \div 2 <= RateMax
<1>1. /\ Preload \in Nat /\ FollowTicks \in Nat /\ SonarTick \in Nat /\ RateMax \in Nat /\ MaxTicks \in Nat
      /\ SonarTick > 0 /\ RateMax > 1 /\ Speeds \subseteq Nat \ {0} /\ 1 \in Speeds
  BY ConstantsAssumption DEF Play!ConstantsOK
<1>2. RateMax \div 2 \in Nat /\ RateMax \div 2 <= RateMax
  BY <1>1
<1> QED
  BY <1>1, <1>2

LEMMA LargestOf ==
  ASSUME NEW n \in Nat, NEW S \in SUBSET (0..n), S # {}
  PROVE  \E m \in S : \A k \in S : m >= k
<1> DEFINE T == {n - k : k \in S}
<1>1. T \in SUBSET Nat /\ T # {}
  <2>1. ASSUME NEW k \in S PROVE n - k \in Nat
    <3>1. k \in 0..n
      OBVIOUS
    <3> QED
      BY <3>1
  <2> QED
    BY <2>1
<1> HIDE DEF T
<1>2. PICK t \in T : \A k \in T : t <= k
  BY <1>1, SmallestOf
<1>3. PICK m \in S : t = n - m
  BY DEF T
<1>4. \A k \in S : n - k \in T
  BY DEF T
<1>5. ASSUME NEW k \in S PROVE m >= k
  <2>1. t <= n - k
    BY <1>2, <1>4
  <2>2. k \in 0..n /\ m \in 0..n
    OBVIOUS
  <2> QED
    BY <1>3, <2>1, <2>2
<1> QED
  BY <1>5

LEMMA MaxDpTicksIs ==
  ASSUME dpTicks \in [Audience -> 0..MaxTicks]
  PROVE  Play!MaxDpTicks \in Nat
<1> DEFINE all == {dpTicks[w] : w \in Audience} \union {0}
<1>1. MaxTicks \in Nat
  BY TimeConstants
<1>2. all \in SUBSET (0..MaxTicks) /\ all # {}
  BY <1>1
<1> HIDE DEF all
<1>3. \E t \in all : \A u \in all : t >= u
  BY <1>1, <1>2, LargestOf
<1>4. (CHOOSE t \in all : \A u \in all : t >= u) \in all
  BY <1>3, Zenon
<1>5. Play!MaxDpTicks = CHOOSE t \in all : \A u \in all : t >= u
  BY DEF Play!MaxDpTicks, all
<1> DEFINE x == Play!MaxDpTicks
<1>6. x \in all
  BY <1>4, <1>5, Zenon
<1> HIDE DEF x
<1>7. x \in 0..MaxTicks
  BY <1>2, <1>6
<1>8. x \in Nat
  BY <1>1, <1>7
<1> QED
  BY <1>8 DEF x

LEMMA Product ==
  ASSUME NEW a \in Nat, NEW b \in Nat
  PROVE  a * b \in Nat
OBVIOUS

(* A step that leaves the clocks and the watchers alone. *)
LEMMA TimeUnchanged ==
  ASSUME TimeOK, UNCHANGED <<wallClock, target, fraction, rate, dpTicks, sonars>>,
         feeding' \in BOOLEAN, isPaused' \in BOOLEAN, speed' \in Speeds
  PROVE  TimeOK'
BY DEF TimeOK, Play!SonarOnce

LEMMA StartTickKeeps ==
  ASSUME FeedInv, TimeOK, Play!StartTick
  PROVE  TimeOK'
<1>1. /\ feeding' = TRUE /\ isPaused' = isPaused /\ speed' = speed /\ dpTicks' = dpTicks /\ sonars' = sonars
      /\ wallClock' = Play!SmallerOf(wallClock + 1, FollowTicks) /\ rate' = Play!Rate
  BY DEF Play!StartTick
<1>2. wallClock' \in 0..FollowTicks
  BY <1>1, TimeConstants DEF TimeOK, Play!SmallerOf
<1>3. rate' \in (RateMax \div 2)..RateMax
  <2> DEFINE half == RateMax \div 2
             next == IF parsed' - popped < Preload \div 4 THEN rate - 1 ELSE rate + 1
  <2>1. half \in Nat /\ half <= RateMax /\ RateMax \in Nat
    BY TimeConstants
  <2>2. rate \in half..RateMax
    BY DEF TimeOK
  <2>3. rate' = Play!SmallerOf(Play!LargerOf(next, half), RateMax)
    BY <1>1 DEF Play!Rate
  <2>4. next = rate - 1 \/ next = rate + 1
    BY Zenon
  <2> HIDE DEF half, next
  <2>5. rate' \in half..RateMax
    BY <2>1, <2>2, <2>3, <2>4 DEF Play!SmallerOf, Play!LargerOf
  <2> QED
    BY <2>5 DEF half
<1>4. target' \in Nat /\ fraction' \in 0..(RateMax - 1)
  <2>0. target \in Nat /\ fraction \in 0..(RateMax - 1) /\ speed \in Nat /\ RateMax \in Nat /\ RateMax > 1
    BY TimeConstants DEF TimeOK
  <2>1. CASE target' = target /\ fraction' = fraction
    BY <2>0, <2>1
  <2>2. CASE target' = Play!MaxDpTicks + 1 /\ fraction' = 0
    BY <2>0, <2>2, MaxDpTicksIs DEF TimeOK
  <2>3. CASE LET f == fraction + rate' * speed
             IN  target' = target + f \div RateMax /\ fraction' = f % RateMax
    <3> DEFINE f == fraction + rate' * speed
    <3>1. rate' \in Nat
      BY <1>3, TimeConstants
    <3>2. rate' * speed \in Nat
      BY <2>0, <3>1, Product
    <3>3. f \in Nat
      BY <2>0, <3>2
    <3>4. target' = target + f \div RateMax /\ fraction' = f % RateMax
      BY <2>3, Zenon
    <3> HIDE DEF f
    <3>5. f \div RateMax \in Nat
      BY <2>0, <3>3
    <3>6. f % RateMax \in 0..(RateMax - 1)
      BY <2>0, <3>3
    <3> QED
      BY <2>0, <3>4, <3>5, <3>6
  <2>4. \/ target' = target /\ fraction' = fraction
        \/ target' = Play!MaxDpTicks + 1 /\ fraction' = 0
        \/ LET f == fraction + rate' * speed
           IN  target' = target + f \div RateMax /\ fraction' = f % RateMax
    BY Zenon DEF Play!StartTick
  <2> QED
    BY <2>1, <2>2, <2>3, <2>4, Zenon
<1> QED
  BY <1>1, <1>2, <1>3, <1>4 DEF TimeOK, Play!SonarOnce

LEMMA WatcherTicksKeeps ==
  ASSUME TimeOK, NEW w \in Audience, NEW t \in 1..MaxTicks, Play!WatcherTicks(w, t)
  PROVE  TimeOK'
<1>1. /\ feeding' = feeding /\ isPaused' = isPaused /\ speed' = speed /\ wallClock' = wallClock
      /\ target' = target /\ fraction' = fraction /\ rate' = rate
  BY DEF Play!WatcherTicks
<1>2. /\ dpTicks' = [dpTicks EXCEPT ![w] = t] /\ t > dpTicks[w]
      /\ sonars' = [sonars EXCEPT ![w] = IF Play!SonarDue(dpTicks[w], t) THEN sonars[w] + 1 ELSE sonars[w]]
  <2>1. /\ dpTicks' = [dpTicks EXCEPT ![w] = t] /\ t \in (dpTicks[w] + 1)..Play!SmallerOf(dpTicks[w] + 2, MaxTicks)
        /\ sonars' = [sonars EXCEPT ![w] = IF Play!SonarDue(dpTicks[w], t) THEN sonars[w] + 1 ELSE sonars[w]]
    BY DEF Play!WatcherTicks
  <2>2. dpTicks[w] \in Nat
    BY TimeConstants DEF TimeOK
  <2> QED
    BY <2>1, <2>2
<1>3. dpTicks \in [Audience -> 0..MaxTicks] /\ sonars \in [Audience -> Nat] /\ MaxTicks \in Nat /\ SonarTick \in Nat
  BY TimeConstants DEF TimeOK
<1>4. dpTicks' \in [Audience -> 0..MaxTicks] /\ sonars' \in [Audience -> Nat]
  BY <1>2, <1>3
<1>5. ASSUME NEW v \in Audience PROVE sonars'[v] = IF dpTicks'[v] >= SonarTick THEN 1 ELSE 0
  <2>1. sonars[v] = IF dpTicks[v] >= SonarTick THEN 1 ELSE 0
    BY DEF TimeOK, Play!SonarOnce
  <2>2. CASE v # w
    BY <1>2, <1>3, <2>1, <2>2
  <2>3. CASE v = w
    <3>1. dpTicks'[w] = t /\ sonars'[w] = IF t >= SonarTick /\ dpTicks[w] < SonarTick THEN sonars[w] + 1 ELSE sonars[w]
      BY <1>2, <1>3 DEF Play!SonarDue
    <3>2. dpTicks[w] \in Nat /\ sonars[w] \in Nat /\ t \in Nat
      BY <1>3
    <3> QED
      BY <1>2, <1>3, <2>1, <2>3, <3>1, <3>2
  <2> QED
    BY <2>2, <2>3
<1> QED
  BY <1>1, <1>4, <1>5 DEF TimeOK, Play!SonarOnce

(* Every step of the playback. *)
LEMMA PlayKeeps ==
  ASSUME FeedInv, TimeOK, Play!Next
  PROVE  FeedInv' /\ TimeOK'
<1>0. /\ Play!Parsed \in Nat /\ popped <= Play!Parsed /\ Play!Parsed <= written
      /\ demo \in Seq(Play!Packets) /\ written \in Nat /\ parsed \in Nat /\ popped \in Nat
      /\ popped <= parsed /\ parsed <= written /\ written <= Len(demo) /\ Len(demo) \in Nat
  BY ParsedIs, LenProperties DEF FeedInv
<1>00. feeding \in BOOLEAN /\ isPaused \in BOOLEAN /\ speed \in Speeds
  BY DEF TimeOK
<1>1. CASE Play!Grow
  <2>1. FeedInv'
    BY <1>0, <1>1, GrowKeeps DEF Play!Grow
  <2>2. TimeOK'
    BY <1>00, <1>1, TimeUnchanged DEF Play!Grow
  <2> QED
    BY <2>1, <2>2
<1>2. CASE Play!StartTick
  <2>1. FeedInv'
    BY <1>0, <1>2, GrowKeeps DEF Play!StartTick
  <2> QED
    BY <1>2, <2>1, StartTickKeeps
<1>3. CASE Play!Feed
  <2>1. FeedInv'
    BY <1>0, <1>3, FeedKeeps DEF Play!Feed
  <2>2. TimeOK'
    BY <1>00, <1>3, TimeUnchanged DEF Play!Feed
  <2> QED
    BY <2>1, <2>2
<1>4. CASE Play!EndTick
  <2>1. FeedInv'
    BY <1>0, <1>4, GrowKeeps DEF Play!EndTick
  <2>2. TimeOK'
    BY <1>00, <1>4, TimeUnchanged DEF Play!EndTick
  <2> QED
    BY <2>1, <2>2
<1>5. ASSUME NEW p \in BOOLEAN, Play!Pause(p) PROVE FeedInv' /\ TimeOK'
  <2>1. FeedInv'
    BY <1>0, <1>5, GrowKeeps DEF Play!Pause
  <2>2. TimeOK'
    BY <1>00, <1>5, TimeUnchanged DEF Play!Pause
  <2> QED
    BY <2>1, <2>2
<1>6. ASSUME NEW s \in Speeds, Play!SetSpeed(s) PROVE FeedInv' /\ TimeOK'
  <2>1. FeedInv'
    BY <1>0, <1>6, GrowKeeps DEF Play!SetSpeed
  <2>2. TimeOK'
    BY <1>00, <1>6, TimeUnchanged DEF Play!SetSpeed
  <2> QED
    BY <2>1, <2>2
<1>7. ASSUME NEW w \in Audience, NEW t \in 1..MaxTicks, Play!WatcherTicks(w, t) PROVE FeedInv' /\ TimeOK'
  <2>1. FeedInv'
    BY <1>0, <1>7, GrowKeeps DEF Play!WatcherTicks
  <2> QED
    BY <1>7, <2>1, WatcherTicksKeeps
<1> QED
  BY <1>1, <1>2, <1>3, <1>4, <1>5, <1>6, <1>7 DEF Play!Next

LEMMA TalkKeeps ==
  ASSUME FeedInv, Talk!Next
  PROVE  FeedInv'
<1>0. /\ Talk!Parsed \in Nat /\ popped <= Talk!Parsed /\ Talk!Parsed <= written
      /\ demo \in Seq(Play!Packets) /\ written \in Nat /\ parsed \in Nat /\ popped \in Nat
      /\ popped <= parsed /\ parsed <= written /\ written <= Len(demo) /\ Len(demo) \in Nat
  BY ParsedIs, LenProperties DEF FeedInv
<1>1. CASE Talk!Grow
  BY <1>0, <1>1, GrowKeeps DEF Talk!Grow
<1>2. CASE Talk!StartTick
  BY <1>0, <1>2, GrowKeeps DEF Talk!StartTick
<1>3. CASE Talk!Feed
  <2>1. game' = Play!FeedPacket(game, demo[popped + 1])
    BY <1>3, SameFeeding, Zenon DEF Talk!Feed
  <2> QED
    BY <1>0, <1>3, <2>1, FeedKeeps DEF Talk!Feed
<1>4. CASE Talk!EndTick
  BY <1>0, <1>4, GrowKeeps DEF Talk!EndTick
<1>5. ASSUME NEW p \in BOOLEAN, Talk!Pause(p) PROVE FeedInv'
  BY <1>0, <1>5, GrowKeeps DEF Talk!Pause
<1>6. ASSUME NEW s, Talk!SetSpeed(s) PROVE FeedInv'
  BY <1>0, <1>6, GrowKeeps DEF Talk!SetSpeed
<1>7. ASSUME NEW w, NEW t, Talk!WatcherTicks(w, t) PROVE FeedInv'
  BY <1>0, <1>7, GrowKeeps DEF Talk!WatcherTicks
<1> QED
  BY <1>1, <1>2, <1>3, <1>4, <1>5, <1>6, <1>7 DEF Talk!Next

-----------------------------------------------------------------------------
PlaybackInv ==
  /\ part = "play" => FeedInv /\ TimeOK
  /\ part = "talk" => FeedInv

LEMMA PlaybackInit == Init => PlaybackInv
<1>1. ASSUME Play!Init PROVE FeedInv /\ TimeOK
  <2>1. FeedInv
    <3>1. demo \in Seq(Play!Packets) \ {<<>>} /\ written = 1 /\ parsed = 1 /\ popped = 0 /\ game = Play!Game0
      BY <1>1, PlayConstants DEF Play!Init
    <3> QED
      BY <3>1, FeedInit
  <2>2. TimeOK
    <3>1. /\ feeding = FALSE /\ wallClock = 0 /\ target = 0 /\ fraction = 0 /\ rate = RateMax /\ speed = 1
          /\ isPaused = FALSE
          /\ dpTicks = [w \in Audience |-> 0] /\ sonars = [w \in Audience |-> 0]
      BY <1>1 DEF Play!Init
    <3>2. rate \in (RateMax \div 2)..RateMax /\ fraction \in 0..(RateMax - 1) /\ wallClock \in 0..FollowTicks
      BY <3>1, TimeConstants
    <3>3. dpTicks \in [Audience -> 0..MaxTicks] /\ sonars \in [Audience -> Nat]
      BY <3>1, TimeConstants
    <3>4. Play!SonarOnce
      BY <3>1, TimeConstants DEF Play!SonarOnce
    <3>5. feeding \in BOOLEAN /\ isPaused \in BOOLEAN /\ target \in Nat /\ speed \in Speeds
      BY <3>1, TimeConstants
    <3> QED
      BY <3>2, <3>3, <3>4, <3>5, Zenon DEF TimeOK
  <2> QED
    BY <2>1, <2>2
<1>2. ASSUME Talk!Init PROVE FeedInv
  <2>1. demo \in Seq(Play!Packets) \ {<<>>} /\ written = 1 /\ parsed = 1 /\ popped = 0
    BY <1>2, PlayConstants DEF Talk!Init
  <2>2. game = Play!Game0
    BY <1>2, SameFeeding DEF Talk!Init
  <2> QED
    BY <2>1, <2>2, FeedInit
<1>3. ASSUME Init, part = "play" PROVE Play!Init
  BY <1>3 DEF Init
<1>4. ASSUME Init, part = "talk" PROVE Talk!Init
  BY <1>4 DEF Init
<1> QED
  BY <1>1, <1>2, <1>3, <1>4 DEF PlaybackInv

LEMMA PlaybackKeeps == PlaybackInv /\ [Next]_vars => PlaybackInv'
<1> SUFFICES ASSUME PlaybackInv, [Next]_vars PROVE PlaybackInv'
  OBVIOUS
<1>1. part' = part
  BY DEF Next, LobbyNext, PlayNext, vars
<1>2. ASSUME UNCHANGED playVars PROVE PlaybackInv'
  <2>1. ASSUME FeedInv PROVE FeedInv'
    BY <1>2, <2>1, Zenon DEF playVars, FeedInv
  <2>2. ASSUME TimeOK PROVE TimeOK'
    BY <1>2, <2>2, Zenon DEF playVars, TimeOK, Play!SonarOnce
  <2> QED
    BY <1>1, <2>1, <2>2, Zenon DEF PlaybackInv
<1>3. CASE part = "play" /\ Play!Next
  BY <1>1, <1>3, PlayKeeps DEF PlaybackInv
<1>4. CASE part = "talk" /\ Talk!Next
  BY <1>1, <1>4, TalkKeeps DEF PlaybackInv
<1>5. CASE part \notin {"play", "talk"}
  BY <1>1, <1>5 DEF PlaybackInv
<1>6. UNCHANGED vars => UNCHANGED playVars
  BY Zenon DEF vars
<1>7. LobbyNext => UNCHANGED playVars
  BY Zenon DEF LobbyNext
<1>8. PlayNext => \/ part = "play" /\ Play!Next
                  \/ part = "talk" /\ Talk!Next
                  \/ part \notin {"play", "talk"}
  <2>1. part = "finish" => part \notin {"play", "talk"}
    OBVIOUS
  <2> QED
    BY <2>1, Zenon DEF PlayNext
<1> QED
  BY <1>2, <1>3, <1>4, <1>5, <1>6, <1>7, <1>8, Zenon DEF Next

LEMMA FedAsTaken ==
  ASSUME FeedInv
  PROVE  /\ Play!MovesFed /\ Talk!NewChatFed
         /\ game.demoTicks \in Nat /\ Len(game.chatQueue) <= ChatWindow
<1> DEFINE s == Flat(Parts(demo, popped))
<1>1. FedOK(game, s)
  BY DEF FeedInv
<1>2. Play!Taken = s /\ Talk!Taken = s
  BY TakenIs
<1> HIDE DEF s
<1>3. Play!MovesFed
  BY <1>1, <1>2, Zenon DEF FedOK, Play!MovesFed, NotChat, Kept
<1>4. game.demoTicks \in Nat
  BY <1>1 DEF FedOK, Games
<1>5. Len(game.chatQueue) <= ChatWindow
  BY <1>1, Zenon DEF FedOK, QueueOK
<1>6. Talk!NewChatFed
  <2> DEFINE c == Talk!OfKinds(Talk!Taken, {"chat"})
  <2>1. c = Chats(s)
    BY <1>2, SameFeeding, Zenon DEF Chats
  <2>2. c \in Seq(Play!Moves)
    <3>1. s \in Seq(Play!Moves)
      BY <1>1, Zenon DEF FedOK
    <3>2. PICK m : m = Text(0)
      OBVIOUS
    <3>3. m \in Play!Moves
      BY <3>2, TextIs
    <3> QED
      BY <2>1, <3>1, <3>3, OfKindsAppend, Zenon DEF Chats
  <2> HIDE DEF c
  <2> SUFFICES ASSUME ~NoChat, NEW t \in {c[i].arg : i \in DOMAIN c}
               PROVE  Talk!Cardinality({k \in DOMAIN game.fed : game.fed[k] = [kind |-> "chat", arg |-> t]})
                        >= Talk!Cardinality(Talk!New(c, t))
    BY Zenon DEF Talk!NewChatFed, c
  <2>3. t \in Nat
    <3>1. PICK i \in DOMAIN c : t = c[i].arg
      OBVIOUS
    <3>2. c[i] \in Play!Moves
      BY <2>2, ElementOfSeq, LenProperties
    <3> QED
      BY <3>1, <3>2 DEF Play!Moves
  <2>4. HeardOK(game.fed, c)
    BY <1>1, <2>1, Zenon DEF FedOK
  <2>5. Cardinality(Heard(game.fed, t)) >= Cardinality(Play!New(c, t))
    BY <2>3, <2>4, Zenon DEF HeardOK
  <2>6. Talk!New(c, t) = Play!New(c, t)
    BY SameFeeding, Zenon
  <2>7. \A S : Talk!Cardinality(S) = Cardinality(S)
    BY Zenon DEF Talk!Cardinality, Cardinality
  <2> QED
    BY <2>5, <2>6, <2>7, Zenon DEF Heard, Text
<1> QED
  BY <1>3, <1>4, <1>5, <1>6

(* doPlay feeds every move of a known player but those it withholds, once  *)
(* and in the order of the demo, loses no chat message that is new to its  *)
(* filter and creates one sonar for each watcher, for any demos that grow, *)
(* any watchers that pause, change the speed and lose reports, and any     *)
(* sizes of the buffer and of the filter.                                  *)
THEOREM DemoAlwaysFed ==
  Spec => []DemoFed
<1>1. PlaybackInv => DemoFed
  <2> SUFFICES ASSUME PlaybackInv PROVE DemoFed
    OBVIOUS
  <2>1. ASSUME FeedInv, TimeOK PROVE Play!TypeOK /\ Play!MovesFed /\ Play!SonarOnce
    <3>1. 0 <= popped /\ popped <= parsed /\ parsed <= written /\ written <= Len(demo)
      BY <2>1 DEF FeedInv
    <3> QED
      BY <2>1, <3>1, FedAsTaken, Zenon DEF Play!TypeOK, TimeOK
  <2> QED
    BY <2>1, FedAsTaken, Zenon DEF PlaybackInv, DemoFed
<1> QED
  BY <1>1, PlaybackInit, PlaybackKeeps, PTL DEF Spec
=============================================================================
