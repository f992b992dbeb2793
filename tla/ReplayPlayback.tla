--------------------------- MODULE ReplayPlayback ---------------------------
(***************************************************************************)
(* Replayer::doPlay: the packets of a demo, which may still be growing,    *)
(* are sent to the watchers' games no faster than the target tick, which   *)
(* follows the watchers' games at first and the wall clock after that.     *)
(*                                                                         *)
(* A tick is StartTick, then any number of messages of the watchers and of *)
(* packets fed, then EndTick.                                              *)
(***************************************************************************)
EXTENDS Integers, Sequences, FiniteSets, SequencesExt

CONSTANTS
  Demos,        \* the demos played: sequences of Packets
  Senders,      \* the numbers of m_demoPlayers
  Watchers,
  Preload,      \* NUM_PAKS_TO_PRELOAD, 100
  ChatWindow,   \* 16
  FollowTicks,  \* 100: ticks of the wall clock for which the watchers are followed
  SonarTick,    \* 100
  RateMax,      \* m_rateControl = 1.0, in its steps; 0.5 is half of it
  Speeds,       \* the playback speeds a watcher may choose
  NoChat,       \* m_nochat
  MaxTicks,     \* bound: ticks of a watcher's game
  MaxUser       \* bound: pauses, resumptions and changes of speed

(* Moves that are told in a chat or dropped, and not fed. *)
Withheld == {"give", "speed", "allychat"}

Kinds == {"chat", "tick", "other"} \union Withheld
Moves == [kind : Kinds, arg : Nat]
Packets == [sender : Nat, moves : Seq(Moves)]

ConstantsOK ==
  /\ Demos \subseteq Seq(Packets) \ {<<>>} /\ Senders \subseteq Nat
  /\ {Preload, ChatWindow, FollowTicks, SonarTick, RateMax, MaxTicks, MaxUser} \subseteq Nat
  /\ Preload > 0 /\ SonarTick > 0 /\ RateMax > 1 /\ Speeds \subseteq Nat \ {0} /\ 1 \in Speeds /\ NoChat \in BOOLEAN

VARIABLES
  demo,      \* the demo that is played
  written,   \* packets of it in the file so far
  parsed,    \* packets pushed to m_pendingGamePackets
  popped,    \* packets popped from it
  feeding,   \* doPlay is in its loop
  wallClock, \* m_wallClockTicks, up to FollowTicks
  target, fraction, rate, speed,  \* m_targetTicks(Fractional), m_rateControl, m_playBackSpeed
  isPaused,  \* m_isPaused
  game,      \* what feeding a packet changes, see Game0
  dpTicks,   \* ticks of the watchers
  sonars,    \* sonars created for the watchers
  user

vars == <<demo, written, parsed, popped, feeding, wallClock, target, fraction, rate, speed,
          isPaused, game, dpTicks, sonars, user>>

Pending == parsed - popped
SmallerOf(a, b) == IF a < b THEN a ELSE b
LargerOf(a, b) == IF a > b THEN a ELSE b

(* demoTicks, the ticks of the demo's players, the recent chat messages as *)
(* a set and as the queue of their expiry, and the moves fed.              *)
Game0 == [demoTicks |-> 0, ticks |-> [s \in Senders |-> 0], chatSet |-> {}, chatQueue |-> <<>>,
          fed |-> <<>>]

Init ==
  /\ demo \in Demos
  /\ written = 1 /\ parsed = 1 /\ popped = 0   \* the lobby waits for a packet
  /\ feeding = FALSE /\ wallClock = 0
  /\ target = 0 /\ fraction = 0 /\ rate = RateMax /\ speed = 1
  /\ isPaused = FALSE
  /\ game = Game0
  /\ dpTicks = [w \in Watchers |-> 0] /\ sonars = [w \in Watchers |-> 0]
  /\ user = 0

(* External: the game that is watched live goes on. *)
Grow ==
  /\ written < Len(demo)
  /\ written' = written + 1
  /\ UNCHANGED <<demo, parsed, popped, feeding, wallClock, target, fraction, rate, speed, isPaused,
                 game, dpTicks, sonars, user>>

-----------------------------------------------------------------------------
(* Mutant: the text leaves the set only when it comes again. *)
ChatKept(g, text) ==
  LET q == Append(g.chatQueue, text)
  IN  [g EXCEPT !.fed = IF NoChat \/ text \in g.chatSet THEN @ ELSE Append(@, [kind |-> "chat", arg |-> text]),
                !.chatQueue = IF Len(q) > ChatWindow THEN Tail(q) ELSE q,
                !.chatSet = @ \union {text}]

(* CHAT_05: a text is not repeated while it is in the set. *)
Chat(g, text) ==
  LET q == Append(g.chatQueue, text)
      full == Len(q) > ChatWindow
  IN  [g EXCEPT !.fed = IF NoChat \/ text \in g.chatSet THEN @ ELSE Append(@, [kind |-> "chat", arg |-> text]),
                !.chatQueue = IF full THEN Tail(q) ELSE q,
                !.chatSet = (@ \union {text}) \ (IF full THEN {Head(q)} ELSE {})]

(* UNIT_STAT_AND_MOVE_2C: the least of the sender's ticks and of those     *)
(* ahead of the demo's.                                                    *)
DemoTicks(g, ticks, t) ==
  LET ahead == {ticks[s] : s \in {r \in Senders : ticks[r] > g.demoTicks}} \union {t}
  IN  CHOOSE x \in ahead : \A y \in ahead : x <= y

MoveTicks(g, sender, t) ==
  LET ticks == [g.ticks EXCEPT ![sender] = t]
  IN  [g EXCEPT !.ticks = ticks, !.demoTicks = DemoTicks(g, ticks, t),
                !.fed = Append(@, [kind |-> "tick", arg |-> t])]

FeedMove(g, sender, m) ==
  CASE m.kind = "chat" -> Chat(g, m.arg)
    [] m.kind = "tick" -> MoveTicks(g, sender, m.arg)
    [] m.kind \in Withheld -> g
    [] OTHER -> [g EXCEPT !.fed = Append(@, m)]

(* The moves of a packet of a known player, one after the other. *)
FeedPacket(g, packet) ==
  LET after[i \in 0..Len(packet.moves)] ==
        IF i = 0 THEN g ELSE FeedMove(after[i - 1], packet.sender, packet.moves[i])
  IN  IF packet.sender \in Senders THEN after[Len(packet.moves)] ELSE g

(* DemoParser::parse with a limit, asked when packets are short. *)
Parsed == IF Pending < Preload THEN SmallerOf(written, parsed + Preload) ELSE parsed

(* Quarters of the preload are compared in whole packets. *)
Rate ==
  LET next == IF parsed' - popped < Preload \div 4 THEN rate - 1 ELSE rate + 1
  IN  SmallerOf(LargerOf(next, RateMax \div 2), RateMax)

(* Mutant: the target waits for a full buffer. *)
AdvancesFull == ~isPaused /\ parsed' - popped >= Preload

(* The target does not run ahead of a stream that stalls. *)
Advances == ~isPaused /\ (parsed' > popped \/ target <= game.demoTicks)

MaxDpTicks ==
  LET all == {dpTicks[w] : w \in Watchers} \union {0}
  IN  CHOOSE t \in all : \A u \in all : t >= u

(* doPlay up to its loop. *)
StartTick ==
  /\ ~feeding
  /\ feeding' = TRUE
  /\ wallClock' = SmallerOf(wallClock + 1, FollowTicks)
  /\ parsed' = Parsed
  /\ rate' = Rate
  /\ IF ~Advances
     THEN UNCHANGED <<target, fraction>>
     ELSE IF wallClock' < FollowTicks
     THEN target' = MaxDpTicks + 1 /\ fraction' = 0
     ELSE LET f == fraction + rate' * speed
          IN  target' = target + f \div RateMax /\ fraction' = f % RateMax
  /\ UNCHANGED <<demo, written, popped, speed, isPaused, game, dpTicks, sonars, user>>

Due == ~isPaused /\ target > game.demoTicks

(* One round of the loop that feeds a packet. *)
Feed ==
  /\ feeding /\ Due
  /\ parsed' = Parsed
  /\ parsed' > popped
  /\ game' = FeedPacket(game, demo[popped + 1])
  /\ popped' = popped + 1
  /\ UNCHANGED <<demo, written, feeding, wallClock, target, fraction, rate, speed, isPaused, dpTicks,
                 sonars, user>>

(* The round in which the loop is left. *)
EndTick ==
  /\ feeding
  /\ parsed' = Parsed
  /\ ~Due \/ parsed' = popped
  /\ feeding' = FALSE
  /\ UNCHANGED <<demo, written, popped, wallClock, target, fraction, rate, speed, isPaused, game,
                 dpTicks, sonars, user>>

(* onPlayingTaMessage: SPEED_19, which is a pause, a resumption or a speed. *)
Pause(p) ==
  /\ feeding /\ user < MaxUser /\ p # isPaused
  /\ isPaused' = p /\ user' = user + 1
  /\ UNCHANGED <<demo, written, parsed, popped, feeding, wallClock, target, fraction, rate, speed,
                 game, dpTicks, sonars>>

SetSpeed(s) ==
  /\ feeding /\ user < MaxUser /\ s # speed
  /\ speed' = s /\ user' = user + 1
  /\ UNCHANGED <<demo, written, parsed, popped, feeding, wallClock, target, fraction, rate, isPaused,
                 game, dpTicks, sonars>>

SonarDue(old, t) == t >= SonarTick /\ old < SonarTick

(* onPlayingTaMessage: UNIT_STAT_AND_MOVE_2C.  Datagrams may be lost, and  *)
(* come in their order.                                                    *)
WatcherTicks(w, t) ==
  /\ feeding
  /\ t \in (dpTicks[w] + 1)..SmallerOf(dpTicks[w] + 2, MaxTicks)
  /\ dpTicks' = [dpTicks EXCEPT ![w] = t]
  /\ sonars' = [sonars EXCEPT ![w] = IF SonarDue(dpTicks[w], t) THEN @ + 1 ELSE @]
  /\ UNCHANGED <<demo, written, parsed, popped, feeding, wallClock, target, fraction, rate, speed,
                 isPaused, game, user>>

Next ==
  \/ Grow
  \/ StartTick
  \/ Feed
  \/ EndTick
  \/ \E p \in BOOLEAN : Pause(p)
  \/ \E s \in Speeds : SetSpeed(s)
  \/ \E w \in Watchers : \E t \in 1..MaxTicks : WatcherTicks(w, t)

(* The timer goes on and each round of the loop ends. *)
Spec ==
  Init /\ [][Next]_vars /\ WF_vars(Grow) /\ WF_vars(StartTick) /\ WF_vars(Feed) /\ WF_vars(EndTick)

-----------------------------------------------------------------------------
(* Reference definitions over the packets that were taken. *)
Taken == FlattenSeq([i \in 1..popped |-> IF demo[i].sender \in Senders THEN demo[i].moves ELSE <<>>])

OfKinds(s, kinds) ==
  LET upTo[i \in 0..Len(s)] ==
        IF i = 0 THEN <<>> ELSE IF s[i].kind \in kinds THEN Append(upTo[i - 1], s[i]) ELSE upTo[i - 1]
  IN  upTo[Len(s)]

(* The places at which a text comes that is not among the last ChatWindow  *)
(* of the chat messages c.                                                 *)
New(c, text) ==
  {i \in 1..Len(c) : c[i].arg = text /\ \A j \in 1..(i - 1) : j >= i - ChatWindow => c[j].arg # text}

(* The state of the playback has its type; the queue of chat messages      *)
(* keeps its bound and m_rateControl stays within 0.5 and 1.               *)
TypeOK ==
  /\ 0 <= popped /\ popped <= parsed /\ parsed <= written /\ written <= Len(demo)
  /\ feeding \in BOOLEAN /\ isPaused \in BOOLEAN /\ wallClock \in 0..FollowTicks
  /\ target \in Nat /\ fraction \in 0..(RateMax - 1)
  /\ rate \in (RateMax \div 2)..RateMax /\ speed \in Speeds
  /\ game.demoTicks \in Nat /\ Len(game.chatQueue) <= ChatWindow
  /\ dpTicks \in [Watchers -> 0..MaxTicks] /\ sonars \in [Watchers -> Nat]

(* doPlay feeds every move of a known player but those it withholds, once  *)
(* and in the order of the demo, whatever pauses, changes of speed and     *)
(* growth of the file come between.                                        *)
MovesFed == OfKinds(game.fed, Kinds \ {"chat"}) = OfKinds(Taken, Kinds \ (Withheld \union {"chat"}))

(* A text that is not among the last ChatWindow chat messages of the demo  *)
(* is fed: the filter of repeated messages loses no new one, at every fill *)
(* of its queue.                                                           *)
NewChatFed ==
  ~NoChat =>
    LET chats == OfKinds(Taken, {"chat"})
    IN  \A text \in {chats[i].arg : i \in DOMAIN chats} :
          Cardinality({k \in DOMAIN game.fed : game.fed[k] = [kind |-> "chat", arg |-> text]})
            >= Cardinality(New(chats, text))

(* createSonar is called once for a watcher whose game reaches the tick,   *)
(* also when the report of that tick is lost.                              *)
SonarOnce == \A w \in Watchers : sonars[w] = IF dpTicks[w] >= SonarTick THEN 1 ELSE 0

(* Unless a watcher leaves it paused, all of a demo is played: neither a   *)
(* stream that stalls nor players of the demo who lag stop the target.     *)
AllPlayed == <>[]~isPaused => <>(popped = Len(demo))

=============================================================================
