----------------------------- MODULE DataBuffer -----------------------------
(***************************************************************************)
(* tafnet::DataBuffer: a map from sequence number to payload with a pop    *)
(* cursor (used on the receive side) and a push cursor (used on the send   *)
(* side).  A buffer is the record [data, nextPop, nextPush]; the methods   *)
(* of the class are operators that return the buffer they leave behind.    *)
(* Sequence numbers are uint32 in the code; they start at 1 and a model    *)
(* never comes near the wrap at 2^32.                                      *)
(***************************************************************************)
EXTENDS Naturals, Sequences

Buffer(data, nextPop, nextPush) ==
  [data |-> data, nextPop |-> nextPop, nextPush |-> nextPush]

(* Mutant: the cursors start at 0. *)
EmptyBufferFromZero == Buffer([s \in {} |-> <<>>], 0, 0)

(* The constructor, and reset(). *)
EmptyBuffer == Buffer([s \in {} |-> <<>>], 1, 1)

(* m_data[seq] = x: adds the key, or overwrites the payload it has. *)
Store(data, seq, x) ==
  [s \in DOMAIN data \cup {seq} |-> IF s = seq THEN x ELSE data[s]]

(* m_data.erase(seq), which does nothing when the key is absent. *)
Erase(data, seq) == [s \in DOMAIN data \ {seq} |-> data[s]]

(* insert(): a sequence number that was already popped is ignored, one     *)
(* that is waiting is overwritten.                                         *)
Insert(b, seq, x) ==
  IF seq >= b.nextPop THEN Buffer(Store(b.data, seq, x), b.nextPop, b.nextPush) ELSE b

(* push_back() called for each payload of xs in turn. *)
PushBackAll(b, xs) ==
  LET new == b.nextPush .. (b.nextPush + Len(xs) - 1)
  IN  Buffer([s \in DOMAIN b.data \cup new |->
                IF s \in new THEN xs[s - b.nextPush + 1] ELSE b.data[s]],
             b.nextPop,
             b.nextPush + Len(xs))

(* readyRead(): the smallest key is the one the pop cursor waits for. *)
ReadyRead(b) ==
  /\ b.nextPop \in DOMAIN b.data
  /\ \A s \in DOMAIN b.data : b.nextPop <= s

(* pop() of a buffer that is ready: the payload returned is                *)
(* b.data[b.nextPop].                                                      *)
Pop(b) == Buffer(Erase(b.data, b.nextPop), b.nextPop + 1, b.nextPush)

(* Mutant: an acknowledgement is cumulative. *)
AckDataUpTo(b, seq) ==
  Buffer([s \in {t \in DOMAIN b.data : t > seq} |-> b.data[s]], b.nextPop, b.nextPush)

(* ackData() *)
AckData(b, seq) == Buffer(Erase(b.data, seq), b.nextPop, b.nextPush)

(* empty() *)
Empty(b) == DOMAIN b.data = {}

(* earliestAvailable() of a buffer that is not empty. *)
EarliestAvailable(b) ==
  CHOOSE s \in DOMAIN b.data : \A t \in DOMAIN b.data : s <= t
=============================================================================
