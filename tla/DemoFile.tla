------------------------------ MODULE DemoFile ------------------------------
(***************************************************************************)
(* The demo file between TADemoWriter, used by the demo compiler, and      *)
(* DemoParser, used by the replayer on a file that is still growing.       *)
(*                                                                         *)
(* A record is two bytes of length, which count themselves, and a payload. *)
(* The reader sees any prefix of the file and may stop in the middle of a  *)
(* record, or of its length; it goes on from there at the next call.  The  *)
(* parser knows what a record is only from how many it has read and from   *)
(* the numbers in the headers.                                             *)
(*                                                                         *)
(* A byte of the payload of record i is represented by Base + i.           *)
(***************************************************************************)
EXTENDS Naturals, SequencesExt

CONSTANTS
  Base,             \* 256
  MaxRecordLength,  \* 32768
  Sizes,            \* payload sizes of unit data and packets
  NumPlayers,       \* players of the recorded game
  MaxPackets        \* bound: packets recorded

(* A record whose length needs more than two bytes is never written:       *)
(* writeRecord throws.                                                     *)
ConstantsOK ==
  /\ Base \in Nat \ {0, 1} /\ MaxRecordLength \in 0..(Base * Base - 1)
  /\ Sizes \subseteq Nat /\ \A n \in Sizes : n + 2 < Base * Base
  /\ NumPlayers \in 1..10 /\ MaxPackets \in Nat

VARIABLES
  written,    \* the records the compiler wrote
  visible,    \* how many bytes of the file a reader sees
  pos,        \* the reader's position in the file
  reader,     \* RecordReader: [state, length, buffer]
  handled,    \* the records given to handle(), as [kind, payload]
  failed      \* a load threw a runtime_error

vars == <<written, visible, pos, reader, handled, failed>>

-----------------------------------------------------------------------------
(* TADemoWriter::writeRecord. *)
Bytes(i) ==
  LET length == 2 + written[i].size
  IN <<length % Base, length \div Base>> \o [k \in 1..written[i].size |-> Base + i]

File == FlattenSeq([i \in DOMAIN written |-> Bytes(i)])

(* The records of TaDemoCompiler::commitHeaders before the unit data. *)
HeaderRecords(n) ==
  <<[kind |-> "Header", size |-> 1], [kind |-> "ExtraHeader", size |-> 1]>>
    \o [k \in 1..(2 + n) |-> [kind |-> "ExtraSector", size |-> 1]]
    \o [k \in 1..n |-> [kind |-> "Player", size |-> 1]]
    \o [k \in 1..n |-> [kind |-> "PlayerStatusMessage", size |-> 1]]

NewReader == [state |-> "READ_RECLEN1", length |-> <<>>, buffer |-> <<>>]

Init ==
  /\ \E n \in Sizes : written = Append(HeaderRecords(NumPlayers), [kind |-> "UnitData", size |-> n])
  /\ visible = 0
  /\ pos = 0
  /\ reader = NewReader
  /\ handled = <<>>
  /\ failed = FALSE

(* commitMove writes a packet. *)
WritePacket ==
  /\ Len(written) < Len(HeaderRecords(NumPlayers)) + 1 + MaxPackets
  /\ \E n \in Sizes : written' = Append(written, [kind |-> "Packet", size |-> n])
  /\ UNCHANGED <<visible, pos, reader, handled, failed>>

(* Buffers are flushed and the replay stream delivers, at any byte. *)
Grow ==
  /\ visible < Len(File)
  /\ visible' = visible + 1
  /\ UNCHANGED <<written, pos, reader, handled, failed>>

-----------------------------------------------------------------------------
(* RecordReader::operator(): the three ifs, on [reader, pos]. *)
ReadLen1(r) ==
  IF r.reader.state = "READ_RECLEN1" /\ r.pos < visible
  THEN [reader |-> [r.reader EXCEPT !.state = "READ_RECLEN2", !.length = <<File[r.pos + 1]>>],
        pos |-> r.pos + 1]
  ELSE r

ReadLen2(r) ==
  IF r.reader.state = "READ_RECLEN2" /\ r.pos < visible
  THEN [reader |-> [state |-> "READ_RECORD", length |-> Append(r.reader.length, File[r.pos + 1]),
                    buffer |-> <<>>],
        pos |-> r.pos + 1]
  ELSE r

Length(r) == r.reader.length[1] + r.reader.length[2] * Base

(* Mutant: bytes of a record that were read before it was complete are     *)
(* read again into the same place.                                         *)
ReadRecordAnew(r) ==
  IF r.reader.state # "READ_RECORD" THEN r
  ELSE LET n == IF Length(r) - 2 < visible - r.pos THEN Length(r) - 2 ELSE visible - r.pos
       IN [reader |-> [r.reader EXCEPT !.buffer = SubSeq(File, r.pos + 1, r.pos + n)],
           pos |-> r.pos + n]

ReadRecord(r) ==
  IF r.reader.state # "READ_RECORD" THEN r
  ELSE LET want == Length(r) - 2 - Len(r.reader.buffer)
           n == IF want < visible - r.pos THEN want ELSE visible - r.pos
       IN [reader |-> [r.reader EXCEPT !.buffer = @ \o SubSeq(File, r.pos + 1, r.pos + n)],
           pos |-> r.pos + n]

Realistic(r) == r.reader.state = "READ_RECORD" => Length(r) \in 3..MaxRecordLength

Complete(r) == r.reader.state = "READ_RECORD" /\ Len(r.reader.buffer) = Length(r) - 2

(* doParse: what the next record is taken to be, from the counts of        *)
(* records handled so far and the numbers of the headers.                  *)
ExpectedKind(n) ==
  CASE n = 0 -> "Header" [] n = 1 -> "ExtraHeader"
    [] n \in 2..(3 + NumPlayers) -> "ExtraSector"
    [] n \in (4 + NumPlayers)..(3 + 2 * NumPlayers) -> "Player"
    [] n \in (4 + 2 * NumPlayers)..(3 + 3 * NumPlayers) -> "PlayerStatusMessage"
    [] n = 4 + 3 * NumPlayers -> "UnitData"
    [] OTHER -> "Packet"

(* One load of doParse: a record is handled, or the data are not ready. *)
Parse ==
  /\ ~failed
  /\ \E r2 \in {ReadLen2(ReadLen1([reader |-> reader, pos |-> pos]))} :
     LET r == IF Realistic(r2) THEN ReadRecord(r2) ELSE r2
     IN IF ~Realistic(r2)
        THEN /\ failed' = TRUE
             /\ reader' = ReadLen1([reader |-> reader, pos |-> pos]).reader /\ pos' = r2.pos
             /\ UNCHANGED handled
        ELSE /\ IF Complete(r)
                THEN /\ handled' = Append(handled, [kind |-> ExpectedKind(Len(handled)),
                                                    payload |-> r.reader.buffer])
                     /\ reader' = NewReader
                ELSE /\ reader' = r.reader
                     /\ UNCHANGED handled
             /\ pos' = r.pos
             /\ UNCHANGED failed
  /\ UNCHANGED <<written, visible>>

Next == WritePacket \/ Grow \/ Parse

Spec == Init /\ [][Next]_vars

-----------------------------------------------------------------------------
TypeOK ==
  /\ visible \in 0..Len(File) /\ pos \in 0..visible
  /\ reader.state \in {"READ_RECLEN1", "READ_RECLEN2", "READ_RECORD"}
  /\ Len(handled) <= Len(written)
  /\ failed \in BOOLEAN

(* What the parser handles is what the compiler wrote, record for record   *)
(* and each under its own kind, wherever the growing file was cut          *)
(* (RecordReader and doParse against TADemoWriter and commitHeaders).  A   *)
(* load fails only at a record that is empty or too long, which the writer *)
(* does not refuse; otherwise a parser at the end of the file has handled  *)
(* every record.                                                           *)
HandledAsWritten ==
  /\ \A i \in DOMAIN handled :
       /\ handled[i].kind = written[i].kind
       /\ handled[i].payload = [k \in 1..written[i].size |-> Base + i]
  /\ failed => /\ Len(handled) < Len(written)
               /\ written[Len(handled) + 1].size + 2 \notin 3..MaxRecordLength
  /\ pos = Len(File) /\ ~failed => Len(handled) = Len(written)

=============================================================================
