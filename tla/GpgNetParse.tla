---------------------------- MODULE GpgNetParse ----------------------------
(***************************************************************************)
(* The framing of the GPGnet protocol: GpgNetSend writes commands into a   *)
(* TCP stream, GpgNetParse takes them out at the other end.  The stream is *)
(* cut at any byte.  GetCommand is called again with every piece and walks *)
(* through its readers from the start; a reader that has what it needs     *)
(* returns at once, the first one that has not takes what there is and     *)
(* throws DataNotReady when that is too little.                            *)
(*                                                                         *)
(* GpgNetClient, TaReplayServer, TaReplayClient and TaDemoCompiler read    *)
(* their sockets this way.  The servers have a parser per connection; the  *)
(* replay client keeps its parser when it connects again.                  *)
(***************************************************************************)
EXTENDS Naturals, SequencesExt

CONSTANTS
  Radix,           \* 256
  IntBytes,        \* 4
  MaxRecordSize,   \* MAX_RECORD_SIZE
  MaxNumArgs,      \* MAX_NUM_ARGS
  Commands,        \* the commands that are sent: [name, args]
  ParserSurvives,  \* a new connection goes on with the old parser
  MaxSends,        \* bound: commands per connection
  MaxBreaks        \* bound: connections that are lost

Byte == 0..(Radix - 1)

(* n shifted right by 0, 1, ... IntBytes bytes. *)
Shifted(n) ==
  LET shifted[k \in 0..IntBytes] == IF k = 0 THEN n ELSE shifted[k - 1] \div Radix
  IN shifted

IsInt(n) == Shifted(n)[IntBytes] = 0

Argument == [type : {0}, value : Nat] \union [type : {1}, value : Seq(Byte)]

(* The commands are within the parser's limits, and these within those of  *)
(* an integer.                                                             *)
ConstantsOK ==
  /\ Radix \in Nat \ {0, 1} /\ IntBytes \in Nat \ {0}
  /\ MaxRecordSize \in Nat /\ MaxNumArgs \in Nat
  /\ \A n \in 0..MaxRecordSize \union 0..MaxNumArgs : IsInt(n)
  /\ \A c \in Commands :
       /\ c \in [name : Seq(Byte), args : Seq(Argument)]
       /\ Len(c.name) <= MaxRecordSize /\ Len(c.args) <= MaxNumArgs
       /\ \A i \in DOMAIN c.args :
            IF c.args[i].type = 0 THEN IsInt(c.args[i].value)
                                  ELSE Len(c.args[i].value) <= MaxRecordSize
  /\ ParserSurvives \in BOOLEAN

VARIABLES
  sent,      \* the commands sent on the connection
  wire,      \* the bytes that are under way
  socket,    \* the bytes that arrived
  parser,    \* the readers, each as the bytes it has: [size, data, numArgs, args]
  reading,   \* onReadyRead is running
  received,  \* the commands GetCommand returned on the connection
  refused,   \* GetCommand threw something else than DataNotReady
  torn,      \* the parser held part of a command of a lost connection
  breaks

vars == <<sent, wire, socket, parser, reading, received, refused, torn, breaks>>

-----------------------------------------------------------------------------
(* QDataStream, little endian, and GpgNetSend. *)
IntToBytes(n) == [k \in 1..IntBytes |-> Shifted(n)[k - 1] % Radix]

(* The value of the k most significant bytes, up to all of them. *)
BytesToInt(b) ==
  LET value[k \in 0..IntBytes] ==
        IF k = 0 THEN 0 ELSE value[k - 1] * Radix + b[IntBytes + 1 - k]
  IN value[IntBytes]

ByteArray(b) == IntToBytes(Len(b)) \o b

SendArgument(a) == <<a.type>> \o (IF a.type = 0 THEN IntToBytes(a.value) ELSE ByteArray(a.value))

SendCommand(c) ==
  ByteArray(c.name) \o IntToBytes(Len(c.args))
    \o FlattenSeq([i \in DOMAIN c.args |-> SendArgument(c.args[i])])

-----------------------------------------------------------------------------
NewParser == [size |-> <<>>, data |-> <<>>, numArgs |-> <<>>, args |-> <<>>]

(* Mutant: the readers of the arguments are kept for the next command. *)
KeptArgs == [size |-> <<>>, data |-> <<>>, numArgs |-> <<>>, args |-> parser.args]

(* GpgNetParse::reset. *)
Reset == NewParser

NewArg == [type |-> <<>>, size |-> <<>>, data |-> <<>>]

TooLarge(n, limit) == n > limit

(* What the reader of an argument waits for: a field and its number of     *)
(* bytes, or nothing any more, or never anything.                          *)
ArgWants(a) ==
  IF Len(a.type) < 1 THEN [field |-> "type", total |-> 1]
  ELSE IF a.type[1] \notin {0, 1} THEN [field |-> "throw", total |-> 0]
  ELSE IF a.type[1] = 0
       THEN [field |-> IF Len(a.data) < IntBytes THEN "data" ELSE "done", total |-> IntBytes]
  ELSE IF Len(a.size) < IntBytes THEN [field |-> "size", total |-> IntBytes]
  ELSE IF TooLarge(BytesToInt(a.size), MaxRecordSize) THEN [field |-> "throw", total |-> 0]
  ELSE [field |-> IF Len(a.data) < BytesToInt(a.size) THEN "data" ELSE "done",
        total |-> BytesToInt(a.size)]

(* The argument GetCommand's loop stops at. *)
ArgIndex(p) ==
  LET open == {i \in DOMAIN p.args : ArgWants(p.args[i]).field # "done"}
  IN IF open = {} THEN Len(p.args) + 1 ELSE CHOOSE i \in open : \A j \in open : i <= j

Arg(p) == IF ArgIndex(p) \in DOMAIN p.args THEN p.args[ArgIndex(p)] ELSE NewArg

(* The reader GetCommand stops at. *)
Wants(p) ==
  IF Len(p.size) < IntBytes THEN [of |-> "command", field |-> "size", total |-> IntBytes]
  ELSE IF TooLarge(BytesToInt(p.size), MaxRecordSize)
       THEN [of |-> "command", field |-> "throw", total |-> 0]
  ELSE IF Len(p.data) < BytesToInt(p.size)
       THEN [of |-> "command", field |-> "data", total |-> BytesToInt(p.size)]
  ELSE IF Len(p.numArgs) < IntBytes THEN [of |-> "command", field |-> "numArgs", total |-> IntBytes]
  ELSE IF TooLarge(BytesToInt(p.numArgs), MaxNumArgs)
       THEN [of |-> "command", field |-> "throw", total |-> 0]
  ELSE IF ArgIndex(p) > BytesToInt(p.numArgs) THEN [of |-> "command", field |-> "done", total |-> 0]
  ELSE [of |-> "arg", field |-> ArgWants(Arg(p)).field, total |-> ArgWants(Arg(p)).total]

(* The bytes the reader has. *)
Progress(p, w) == IF w.of = "command" THEN p[w.field] ELSE Arg(p)[w.field]

(* RecordReader::get: the bytes are put behind those the reader has. *)
Fill(p, w, bytes) ==
  IF w.of = "command" THEN [p EXCEPT ![w.field] = @ \o bytes]
  ELSE [p EXCEPT !.args = SubSeq(p.args, 1, ArgIndex(p) - 1)
                            \o <<[Arg(p) EXCEPT ![w.field] = @ \o bytes]>>]

(* What GetCommand returns. *)
CommandAndArgs(p) ==
  [name |-> p.data,
   args |-> [i \in 1..BytesToInt(p.numArgs) |->
               [type |-> p.args[i].type[1],
                value |-> IF p.args[i].type[1] = 0 THEN BytesToInt(p.args[i].data)
                                                   ELSE p.args[i].data]]]

-----------------------------------------------------------------------------
Init ==
  /\ sent = <<>> /\ wire = <<>> /\ socket = <<>> /\ received = <<>>
  /\ parser = NewParser
  /\ reading = FALSE /\ refused = FALSE /\ torn = FALSE
  /\ breaks = 0

Send(c) ==
  /\ Len(sent) < MaxSends
  /\ sent' = Append(sent, c)
  /\ wire' = wire \o SendCommand(c)
  /\ UNCHANGED <<socket, parser, reading, received, refused, torn, breaks>>

(* TCP delivers n bytes and onReadyRead is called. *)
Deliver(n) ==
  /\ ~reading
  /\ n \in 1..Len(wire)
  /\ socket' = socket \o SubSeq(wire, 1, n)
  /\ wire' = SubSeq(wire, n + 1, Len(wire))
  /\ reading' = TRUE
  /\ UNCHANGED <<sent, parser, received, refused, torn, breaks>>

(* A reader takes what it wants, or what there is: then it throws          *)
(* DataNotReady and onReadyRead returns.                                   *)
Read ==
  /\ reading
  /\ \E w \in {Wants(parser)} :
       LET missing == w.total - Len(Progress(parser, w))
           n == IF missing < Len(socket) THEN missing ELSE Len(socket)
       IN /\ w.field \notin {"done", "throw"}
          /\ parser' = Fill(parser, w, SubSeq(socket, 1, n))
          /\ socket' = SubSeq(socket, n + 1, Len(socket))
          /\ reading' = (n = missing)
  /\ UNCHANGED <<sent, wire, received, refused, torn, breaks>>

(* GetCommand returns; onReadyRead goes on while there are bytes. *)
Dispatch ==
  /\ reading
  /\ Wants(parser).field = "done"
  /\ received' = Append(received, CommandAndArgs(parser))
  /\ parser' = Reset
  /\ reading' = (socket # <<>>)
  /\ UNCHANGED <<sent, wire, socket, refused, torn, breaks>>

(* A runtime_error: onReadyRead logs it and returns.  The readers are left *)
(* as they are, so every later call throws again.                          *)
Throw ==
  /\ reading
  /\ Wants(parser).field = "throw"
  /\ reading' = FALSE
  /\ refused' = TRUE
  /\ UNCHANGED <<sent, wire, socket, parser, received, torn, breaks>>

(* The connection is lost and there is a new one. *)
Break ==
  /\ ~reading
  /\ breaks < MaxBreaks
  /\ breaks' = breaks + 1
  /\ sent' = <<>> /\ wire' = <<>> /\ socket' = <<>> /\ received' = <<>>
  /\ parser' = IF ParserSurvives THEN parser ELSE NewParser
  /\ torn' = (torn \/ parser' # NewParser)
  /\ UNCHANGED <<reading, refused>>

Next ==
  \/ \E c \in Commands : Send(c)
  \/ \E n \in 1..Len(wire) : Deliver(n)
  \/ Read \/ Dispatch \/ Throw \/ Break

Spec == Init /\ [][Next]_vars

-----------------------------------------------------------------------------
(* The parser's readers hold bytes and never more than they asked for. *)
TypeOK ==
  /\ socket \in Seq(Byte)
  /\ Len(parser.size) <= IntBytes /\ Len(parser.numArgs) <= IntBytes
  /\ Len(parser.data) <= MaxRecordSize
  /\ Len(parser.args) <= MaxNumArgs
  /\ {reading, refused, torn} \subseteq BOOLEAN

(* However TCP cuts the stream, GetCommand returns the commands that were  *)
(* sent, in their order and with their arguments; a stream within the      *)
(* limits is never refused, which would stop the connection for good; and  *)
(* when all of it was delivered and read, all of it was returned.  Not so  *)
(* with a parser that was left with part of a command of an earlier        *)
(* connection.                                                             *)
CommandsArrive ==
  ~torn => /\ IsPrefix(received, sent)
           /\ ~refused
           /\ (wire = <<>> /\ socket = <<>> /\ ~reading => received = sent)

=============================================================================
