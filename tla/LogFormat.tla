------------------------------ MODULE LogFormat ------------------------------
(***************************************************************************)
(* The format of LevelDB's logs and manifests (db/log_format.h): a writer  *)
(* that cuts records into fragments, one block after the other, what a     *)
(* crash or a failing disk leaves of the file, and the reader that gets    *)
(* records back from it.                                                   *)
(*                                                                         *)
(* A file is a sequence of cells.  A header is a checksum, a length and a  *)
(* type, one cell each; a cell of the payload is a pair of a record and an *)
(* index.  A checksum is the content that it was computed from, so none    *)
(* fits by accident; payloads that look like a header with the right       *)
(* checksum are left out.                                                  *)
(***************************************************************************)
EXTENDS Integers, FiniteSets, SequencesExt

CONSTANTS BlockSize,             \* kBlockSize
          MaxRecords,            \* bound: records a writer adds
          Sizes,                 \* sizes of records
          MaxFaults,             \* bound: appends that fail, cells that the
                                 \* disk damages
          Offsets,               \* initial offsets of readers
          Checksum               \* whether readers check

HeaderSize == 3                  \* kHeaderSize: seven bytes in three fields

VARIABLES file,      \* the cells of the file
          records,   \* the records, where each begins and what Write returned
          writer,    \* block_offset_, and the record that is being written
          reader,    \* fields of Reader, and the locals of ReadRecord
          out,       \* what ReadRecord returned
          drops,     \* where the reporter was told of a corruption
          hist       \* counters of the bounds, and blocks that were damaged

vars == <<file, records, writer, reader, out, drops, hist>>

Faults == hist.failures + Cardinality(hist.damage)

Zero == <<"zero">>
Junk == <<"junk">>
Data(id, i) == <<"data", id, i>>
Crc(type, payload) == <<"crc", type, payload>>
Length(n) == <<"length", n>>
Type(t) == <<"type", t>>

Fragment(type, payload) == <<Crc(type, payload), Length(Len(payload)), Type(type)>> \o payload
-----------------------------------------------------------------------------
(* Writer *)

Resting == [id |-> 0, left |-> 0, begin |-> TRUE]
NoReader == [open |-> FALSE]

Init ==
  /\ file = <<>> /\ records = <<>>
  /\ writer = [offset |-> 0, rec |-> Resting]
  /\ reader = NoReader /\ out = <<>> /\ drops = {}
  /\ hist = [failures |-> 0, damage |-> {}]

Writing == reader = NoReader

(* AddRecord is called with a record of this size.                         *)
AddRecord(size) ==
  /\ Writing /\ writer.rec = Resting /\ Len(records) < MaxRecords
  /\ records' = Append(records, [size |-> size, start |-> -1, end |-> -1, ok |-> FALSE])
  /\ writer' = [writer EXCEPT !.rec = [id |-> Len(records) + 1, left |-> size, begin |-> TRUE]]
  /\ UNCHANGED <<file, reader, out, drops, hist>>

(* What one turn of the loop of AddRecord appends: the trailer of a block  *)
(* with no room for a header, then a fragment.                             *)
Turn ==
  LET rec == writer.rec
      leftover == BlockSize - writer.offset
      switch == leftover < HeaderSize
      offset == IF switch THEN 0 ELSE writer.offset
      n == Min({rec.left, BlockSize - offset - HeaderSize})
      end == rec.left = n
      type == CASE rec.begin /\ end -> "full" [] rec.begin -> "first" [] end -> "last"
                [] OTHER -> "middle"
      from == records[rec.id].size - rec.left
  IN  [trailer |-> IF switch THEN [i \in 1 .. leftover |-> Zero] ELSE <<>>,
       fragment |-> Fragment(type, [i \in 1 .. n |-> Data(rec.id, from + i)]),
       offset |-> offset + HeaderSize + n, n |-> n]

Started(rec, t) == IF rec.begin THEN Len(file) + Len(t.trailer) ELSE records[rec.id].start

EmitPhysicalRecord ==
  /\ Writing /\ writer.rec # Resting
  /\ \E t \in {Turn} : LET rec == writer.rec
                           done == rec.left = t.n IN
       /\ file' = file \o t.trailer \o t.fragment
       /\ writer' = [offset |-> t.offset,
                     rec |-> IF done THEN Resting
                             ELSE [rec EXCEPT !.left = @ - t.n, !.begin = FALSE]]
       /\ records' = [records EXCEPT ![rec.id].start = Started(rec, t),
                                     ![rec.id].end = Len(file'), ![rec.id].ok = done]
  /\ UNCHANGED <<reader, out, drops, hist>>

(* An append fails: part of the fragment may be in the file, and           *)
(* block_offset_ moves as if all of it were.  The result of appending the  *)
(* trailer is not looked at.                                               *)
EmitFails ==
  /\ Writing /\ writer.rec # Resting /\ Faults < MaxFaults
  /\ \E t \in {Turn} : \E k \in 0 .. Len(t.fragment) - 1, trailer \in {t.trailer, <<>>} :
       /\ k > 0 => trailer = t.trailer
       /\ file' = file \o trailer \o SubSeq(t.fragment, 1, k)
       /\ writer' = [offset |-> t.offset, rec |-> Resting]
  /\ hist' = [hist EXCEPT !.failures = @ + 1]
  /\ UNCHANGED <<records, reader, out, drops>>

(* What damage makes of a cell.                                            *)
BlockOf(i) == (i - 1) \div BlockSize

Damaged(c) == CASE c[1] \in {"data", "crc"} -> {Junk}
                [] c[1] = "length" -> {Length(n) : n \in 0 .. BlockSize}
                [] OTHER -> {Junk, Zero}
-----------------------------------------------------------------------------
(* Reader *)

Opened(offset, check) ==
  [open |-> TRUE, checksum |-> check, initial |-> offset,
   end |-> 0, size |-> 0,       \* end_of_buffer_offset_, and buffer_.size()
   eof |-> FALSE, last |-> 0,   \* eof_ and last_record_offset_
   in |-> FALSE, scratch |-> <<>>, start |-> 0, pc |-> "skip"]

(* Writing ends here, with what was lost, and the file is opened to read.  *)
Open ==
  /\ Writing
  /\ \E keep \in 0 .. Len(file), offset \in Offsets, check \in Checksum :
       /\ file' = SubSeq(file, 1, keep)
       /\ reader' = Opened(offset, check)
  /\ UNCHANGED <<records, writer, out, drops, hist>>

Damage ==
  /\ reader # NoReader /\ reader.pc = "skip" /\ reader.end = 0
  /\ Faults < MaxFaults
  /\ \E i \in DOMAIN file : \E c \in Damaged(file[i]) \ {file[i]} :
       /\ file' = [file EXCEPT ![i] = c]
       /\ hist' = [hist EXCEPT !.damage = @ \cup {BlockOf(i)}]
  /\ UNCHANGED <<records, writer, reader, out, drops>>

(* Entry of ReadRecord: SkipToInitialBlock until a record was returned.    *)
ReadRecord ==
  /\ reader # NoReader /\ reader.pc = "skip"
  /\ LET inBlock == reader.initial % BlockSize
         trailer == inBlock > BlockSize - (HeaderSize - 1)
         block == reader.initial - inBlock + IF trailer THEN BlockSize ELSE 0
         skips == reader.last < reader.initial
     IN  reader' = [reader EXCEPT !.pc = "read", !.in = FALSE, !.scratch = <<>>,
                                  !.end = IF skips THEN block ELSE @]
  /\ UNCHANGED <<file, records, writer, out, drops, hist>>

(* ReadPhysicalRecord refills the buffer, a block at a time.               *)
ReadBlock ==
  /\ reader # NoReader /\ reader.pc = "read" /\ reader.size < HeaderSize /\ ~reader.eof
  /\ LET n == Max({0, Min({BlockSize, Len(file) - reader.end})})
     IN  reader' = [reader EXCEPT !.size = n, !.end = @ + n, !.eof = n < BlockSize]
  /\ UNCHANGED <<file, records, writer, out, drops, hist>>

Position == reader.end - reader.size               \* of the buffer's first cell

(* Header fields that damage has made unreadable may read as anything; a   *)
(* damaged length is one of Damaged.                                       *)
Lengths(c) == IF c[1] = "length" THEN {c[2]} ELSE IF c = Zero THEN {0} ELSE 0 .. BlockSize
Types(c) == IF c[1] = "type" THEN {c[2]} ELSE IF c = Zero THEN {"zero"}
            ELSE {"full", "first", "middle", "last", "zero", "unknown"}

(* The end of the file, and a record to be passed over with the rest of the*)
(* buffer, of which so much is reported.                                   *)
EndOfFile == [type |-> "eof", payload |-> <<>>, take |-> reader.size, drop |-> 0]
(* Mutant: nothing is read after a bad record.                             *)
BadEnds(report) == [EndOfFile EXCEPT !.drop = report]
Bad(report) == [type |-> "bad", payload |-> <<>>, take |-> reader.size, drop |-> report]

(* A length beyond the buffer is what a crash leaves at the end of a file. *)
Overrun == IF reader.eof THEN EndOfFile ELSE Bad(reader.size)

BeforeInitial(p) == p < reader.initial

(* The outcome of ReadPhysicalRecord, with a buffer that holds a header:   *)
(* what it returns, how much of the buffer it takes, how much it reports.  *)
Outcome(length, type) ==
  LET p == Position
      payload == SubSeq(file, p + HeaderSize + 1, p + HeaderSize + length)
  IN  IF HeaderSize + length > reader.size THEN Overrun
      ELSE IF type = "zero" /\ length = 0 THEN Bad(0)
      ELSE IF reader.checksum /\ file[p + 1] # Crc(type, payload) THEN Bad(reader.size)
      ELSE IF BeforeInitial(p) THEN [Bad(0) EXCEPT !.take = HeaderSize + length]
      ELSE [type |-> type, payload |-> payload, take |-> HeaderSize + length, drop |-> 0]

Outcomes ==
  IF reader.size < HeaderSize THEN {EndOfFile}
  ELSE {Outcome(n, t) : n \in Lengths(file[Position + 2]), t \in Types(file[Position + 3])}

(* ReportDrop: corruptions before the initial offset are not reported.     *)
Report(r, bytes) == IF r.end - r.size - bytes >= r.initial /\ bytes > 0 THEN {r.end - r.size} ELSE {}

Return(r, payload, start) ==
  /\ out' = Append(out, payload)
  /\ reader' = [r EXCEPT !.pc = "skip", !.last = start]

(* One turn of the loop of ReadRecord.                                     *)
ReadFragment ==
  /\ reader # NoReader /\ reader.pc = "read" /\ (reader.size >= HeaderSize \/ reader.eof)
  /\ \E o \in Outcomes : LET r == [reader EXCEPT !.size = @ - o.take]
                             p == Position
                             partial == r.in /\ r.scratch # <<>> IN
       \/ /\ o.type = "full"
          /\ Return(r, o.payload, p)
          /\ drops' = drops \cup IF partial THEN Report(r, Len(r.scratch)) ELSE {}
       \/ /\ o.type = "first"
          /\ reader' = [r EXCEPT !.in = TRUE, !.scratch = o.payload, !.start = p]
          /\ drops' = drops \cup IF partial THEN Report(r, Len(r.scratch)) ELSE {}
          /\ UNCHANGED out
       \/ /\ o.type \in {"middle", "last"} /\ ~r.in
          /\ reader' = r
          /\ drops' = drops \cup Report(r, Len(o.payload))
          /\ UNCHANGED out
       \/ /\ o.type = "middle" /\ r.in
          /\ reader' = [r EXCEPT !.scratch = @ \o o.payload]
          /\ UNCHANGED <<out, drops>>
       \/ /\ o.type = "last" /\ r.in
          /\ Return(r, r.scratch \o o.payload, r.start)
          /\ UNCHANGED drops
       \/ /\ o.type = "eof"
          /\ reader' = [r EXCEPT !.pc = "end", !.scratch = <<>>]
          /\ UNCHANGED <<out, drops>>
       \/ /\ o.type \in {"bad", "zero", "unknown"}
          /\ reader' = [r EXCEPT !.in = FALSE, !.scratch = <<>>]
          /\ drops' = drops \cup Report(r, o.drop)
                      \cup IF r.in THEN Report(r, Len(r.scratch)) ELSE {}
                      \cup IF o.type = "bad" THEN {} ELSE Report(r, Len(o.payload))
          /\ UNCHANGED out
  /\ UNCHANGED <<file, records, writer, hist>>
-----------------------------------------------------------------------------
Reading == ReadRecord \/ ReadBlock \/ ReadFragment

Next == \/ \E size \in Sizes : AddRecord(size)
        \/ EmitPhysicalRecord \/ EmitFails \/ Open \/ Damage \/ Reading

Spec == Init /\ [][Next]_vars
-----------------------------------------------------------------------------
TypeOK ==
  /\ writer.offset \in 0 .. BlockSize
  /\ reader # NoReader => reader.size \in 0 .. BlockSize /\ reader.last <= Len(file)

Contents(id) == [i \in 1 .. records[id].size |-> Data(id, i)]
AtEnd == reader # NoReader /\ reader.pc = "end"

Blocks(id) == BlockOf(records[id].start + 1) .. BlockOf(records[id].end)

(* Records to be found: all of it is in the file, with no damage to its    *)
(* blocks, and it was added before any append failed.                      *)
Whole(id) ==
  /\ \A i \in 1 .. id : records[i].ok
  /\ records[id].end <= Len(file) /\ records[id].start >= reader.initial
  /\ hist.damage \cap Blocks(id) = {}

Lost(id) ==
  /\ records[id].ok /\ Contents(id) \notin ToSet(out)
  /\ records[id].start >= reader.initial
  /\ BlockOf(records[id].end) < BlockOf(Len(file))

Intact == hist.failures = 0 /\ hist.damage = {}

(* What a reader that checks checksums returns is a record that was added, *)
(* never one pieced together from fragments of several, whatever was cut,  *)
(* damaged or half written (Reader::ReadRecord).                           *)
OnlyWritten ==
  (reader # NoReader /\ reader.checksum) =>
    \A i \in DOMAIN out : \E id \in DOMAIN records : out[i] = Contents(id)

(* A record is found whose blocks are all there and undamaged, though      *)
(* blocks before or after them are not: the reader starts afresh with the  *)
(* next block and with the next first fragment (ReadPhysicalRecord).       *)
WholeReturned ==
  (AtEnd /\ reader.checksum) =>
    \A id \in DOMAIN records : Whole(id) => Contents(id) \in ToSet(out)

(* Of a file that was only cut short, as a crash leaves it, recovery gets  *)
(* exactly the records that are complete, in their order and each once.    *)
PrefixReturned ==
  (AtEnd /\ Intact) =>
     LET whole == SelectSeq([i \in DOMAIN records |-> i], Whole)
     IN  out = [i \in DOMAIN whole |-> Contents(whole[i])]

(* A record that damage has cost the reader is not lost in silence, except *)
(* in the file's last block, which may be what a crash has left.           *)
LossReported ==
  (AtEnd /\ reader.checksum /\ hist.failures = 0 /\ \E id \in DOMAIN records : Lost(id)) => drops # {}

(* No corruption is reported of a file that was only cut short: recovery   *)
(* with paranoid checks opens after any crash of the writer.  A reader that*)
(* starts inside a record does report its remaining fragments.             *)
NoFalseAlarm == (Intact /\ reader # NoReader /\ reader.initial = 0) => drops = {}
=============================================================================
