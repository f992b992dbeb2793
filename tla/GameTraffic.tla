---------------------------- MODULE GameTraffic ----------------------------
(***************************************************************************)
(* Player addresses on their way from one game to another.                 *)
(*                                                                         *)
(* DirectPlay tells a game where the other players are: the messages that  *)
(* create, forward and list players carry a TCP and a UDP address for each *)
(* of them.  Every game sees the others through the receivers of its own   *)
(* node, so an address means something on one machine only.  The sending   *)
(* node replaces it by the player id its port belongs to, the receiving    *)
(* node replaces the id by the ports of its own receiver for that player.  *)
(*                                                                         *)
(* A port stands for the pair of the TCP and the UDP port of a receiver.   *)
(* No port is handed out twice (TafnetGameNode is about the ports).        *)
(***************************************************************************)
EXTENDS Naturals, Sequences, Functions

CONSTANTS
  Node,         \* the players
  NoOne,        \* not a player
  MaxPorts,     \* bound: receivers a node opens
  MaxMessages   \* bound: messages that name players

VARIABLES
  connected,  \* connected[n]: the peers n's TafnetNode knows
  receivers,  \* receivers[n]: port of n's receiver for a player
  opened,     \* opened[n]: ports n has used
  net,        \* net[a][b]: messages, each a function from named players to ids
  view,       \* view[n]: where n's game thinks the players are
  messages,   \* number of messages so far
  disturbed   \* players that left a node, or were named to a node that did not know them

vars == <<connected, receivers, opened, net, view, messages, disturbed>>

LocalGamePort == 0  \* n's own game

Empty == [x \in {} |-> 0]

ConstantsOK == NoOne \notin Node /\ MaxPorts \in Nat /\ MaxMessages \in Nat

Init ==
  /\ connected = [n \in Node |-> {}]
  /\ receivers = [n \in Node |-> Empty]
  /\ opened = [n \in Node |-> 0]
  /\ net = [a \in Node |-> [b \in Node |-> <<>>]]
  /\ view = [n \in Node |-> Empty]
  /\ messages = 0
  /\ disturbed = {}

(* The player a port of n belongs to. *)
Owner(n, port) ==
  LET owners == {p \in DOMAIN receivers[n] : receivers[n][p] = port}
  IN IF owners = {} THEN NoOne ELSE CHOOSE p \in owners : TRUE

(* The entries of f, and those of g for keys that f has not. *)
Over(f, g) == [x \in DOMAIN f \union DOMAIN g |-> IF x \in DOMAIN f THEN f[x] ELSE g[x]]

(* getGameReceiver. *)
WithReceiver(n, p) == Over(receivers[n], [q \in {p} |-> opened[n] + 1])

OpensReceiver(n, p) ==
  /\ p \in DOMAIN receivers[n] \/ opened[n] < MaxPorts
  /\ receivers' = [receivers EXCEPT ![n] = WithReceiver(n, p)]
  /\ opened' = [opened EXCEPT ![n] = IF p \in DOMAIN receivers[n] THEN @ ELSE @ + 1]

-----------------------------------------------------------------------------
(* The lobby server connects and disconnects players, at each node in its  *)
(* own time.                                                               *)
Register(n, p) ==
  /\ n # p /\ p \notin connected[n]
  /\ connected' = [connected EXCEPT ![n] = @ \union {p}]
  /\ OpensReceiver(n, p)
  /\ UNCHANGED <<net, view, messages, disturbed>>

(* What was under way between the two is lost (see TafnetNode). *)
Unregister(n, p) ==
  /\ p \in DOMAIN receivers[n]
  /\ connected' = [connected EXCEPT ![n] = @ \ {p}]
  /\ receivers' = [receivers EXCEPT ![n] = Restrict(@, DOMAIN @ \ {p})]
  /\ net' = [net EXCEPT ![n][p] = <<>>, ![p][n] = <<>>]
  /\ disturbed' = disturbed \union {p}
  /\ UNCHANGED <<opened, view, messages>>

(* TafnetNode gives up a peer that does not answer; the receiver stays. *)
Lose(n, p) ==
  /\ p \in connected[n]
  /\ connected' = [connected EXCEPT ![n] = @ \ {p}]
  /\ net' = [net EXCEPT ![n][p] = <<>>, ![p][n] = <<>>]
  /\ UNCHANGED <<receivers, opened, view, messages, disturbed>>

-----------------------------------------------------------------------------
(* Mutant: the id of the node that sends. *)
SpaOfSender(n, port) == n

(* translateMessageFromLocalGame: a port that belongs to no receiver is    *)
(* taken to be the local game's.                                           *)
SpaFromLocalGame(n, port) == IF Owner(n, port) = NoOne THEN n ELSE Owner(n, port)

(* translateMessageFromRemoteGame: the receiver of the player, or the      *)
(* receiver of the node the message comes from.                            *)
SpaFromRemoteGame(n, rs, id, replyPort) == IF id \in DOMAIN rs THEN rs[id] ELSE replyPort

(* GameAddressTranslater over the players S that a message of a's game     *)
(* names: one in the messages that create or forward a player, many in the *)
(* reply to an enumeration.                                                *)
Substituted(a, S) ==
  [p \in S |-> SpaFromLocalGame(a, IF p = a THEN LocalGamePort ELSE view[a][p])]

(* The same at the other end, on a message from a; b's game knows where it *)
(* is itself.                                                              *)
SubstitutedBack(a, b, m) ==
  LET rs == WithReceiver(b, a)
  IN [p \in DOMAIN m \ {b} |-> SpaFromRemoteGame(b, rs, m[p], rs[a])]

(* a's game tells b's where the players S are: handleGameData. *)
Announce(a, b, S) ==
  /\ messages < MaxMessages
  /\ b \in connected[a]
  /\ S \subseteq {a} \union DOMAIN view[a] /\ S # {}
  /\ net' = [net EXCEPT ![a][b] = Append(@, Substituted(a, S))]
  /\ messages' = messages + 1
  /\ UNCHANGED <<connected, receivers, opened, view, disturbed>>

(* b's node receives it and b's game takes the addresses over:             *)
(* handleTafnetMessage.  What comes from a node that is not connected is   *)
(* dropped by TafnetNode, which leaves it to be sent again.                *)
Deliver(a, b) ==
  /\ net[a][b] # <<>> /\ a \in connected[b]
  /\ OpensReceiver(b, a)
  /\ LET back == SubstitutedBack(a, b, Head(net[a][b]))
     IN /\ view' = [view EXCEPT ![b] = Over(back, @)]
        /\ disturbed' = disturbed \union (DOMAIN back \ DOMAIN WithReceiver(b, a))
  /\ net' = [net EXCEPT ![a][b] = Tail(@)]
  /\ UNCHANGED <<connected, messages>>

Next ==
  \E a, b \in Node :
    \/ Register(a, b) \/ Unregister(a, b) \/ Lose(a, b)
    \/ \E S \in SUBSET Node : Announce(a, b, S)
    \/ Deliver(a, b)

Spec == Init /\ [][Next]_vars

-----------------------------------------------------------------------------
TypeOK ==
  /\ \A n \in Node : /\ connected[n] \subseteq Node \ {n}
                     /\ connected[n] \subseteq DOMAIN receivers[n]
                     /\ DOMAIN view[n] \subseteq Node \ {n}
                     /\ opened[n] \in 0..MaxPorts

(* The port under which a game knows a player is the port of the receiver  *)
(* for that player, or of nobody any more.                                 *)
LeadsHome(n, p) == Owner(n, view[n][p]) \in {p, NoOne}

(* Addresses survive the way over any number of nodes, in any order of     *)
(* connections and messages, as long as the player never left a node and   *)
(* was never named to a node that had not heard of it.                     *)
AddressesLeadHome ==
  \A n \in Node : \A p \in DOMAIN view[n] \ disturbed : LeadsHome(n, p)

=============================================================================
