--------------------------- MODULE ReliableStream ---------------------------
(***************************************************************************)
(* What the buffered half of tafnet promises the game layer: between every *)
(* ordered pair of nodes a FIFO stream of whole messages.  A message that  *)
(* is handed to the stream is handed over at the other end at most once,   *)
(* unchanged, and only after every message that was sent before it.        *)
(***************************************************************************)
EXTENDS Naturals, Sequences

CONSTANTS
  Node,     \* the player ids
  Message   \* what can be sent

VARIABLES
  sent,     \* sent[n][p]: the messages n handed to its stream to p
  handled   \* handled[n][p]: the messages from p that n was handed

Init ==
  /\ sent = [n \in Node |-> [p \in Node |-> <<>>]]
  /\ handled = [n \in Node |-> [p \in Node |-> <<>>]]

(* n hands a message to its stream to p. *)
Send(n, p, m) ==
  /\ sent' = [sent EXCEPT ![n][p] = Append(@, m)]
  /\ UNCHANGED handled

(* n is handed the next message from p. *)
Handle(n, p) ==
  /\ Len(handled[n][p]) < Len(sent[p][n])
  /\ handled' = [handled EXCEPT
                   ![n][p] = Append(@, sent[p][n][Len(handled[n][p]) + 1])]
  /\ UNCHANGED sent

Next ==
  \E n, p \in Node : \/ \E m \in Message : Send(n, p, m)
                     \/ Handle(n, p)

Spec == Init /\ [][Next]_<<sent, handled>>
=============================================================================
