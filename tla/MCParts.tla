-------------------------------- MODULE MCParts --------------------------------
(***************************************************************************)
(* The parts of LevelDB under its database and versions, and nanopb: what  *)
(* is written as bytes and read back (log files, the contents of records,  *)
(* tables and the directory, messages), and what a read goes through (the  *)
(* memtable's skip list, the caches of tables and blocks, an iterator over *)
(* a memtable and a table).  The first state chooses which of the six.     *)
(***************************************************************************)
EXTENDS SkipList

VARIABLES part,
          disk, tables, blocks, allowed, lastId, thread, faults,    \* TableCache
          builder, table, dels, mem, inner, bad, iter, hist,        \* DBIter
          file, records, writer, logReader, out, drops, logHist,    \* LogFormat
          kind, made, done, bytes, read,                            \* Formats
          type, sent, stream, encoded, received                     \* ProtoBuf

Cache == INSTANCE TableCache WITH
  Threads <- {"r1", "r2"}, Files <- {1, 2}, Blocks <- {1, 2}, Capacity <- 1, InitialLength <- 1,
  MaxMaps <- 1, MaxOpens <- 3, MaxFaults <- 1

It == INSTANCE DBIter WITH
  MaxKey <- 2, MaxEntries <- 3, RestartInterval <- 2, FilterBase <- 2, FilterBits <- 4, Probes <- 2,
  MaxMoves <- 3, MaxNewer <- 1, MaxBad <- 1

Log == INSTANCE LogFormat WITH
  BlockSize <- 7, MaxRecords <- 3, Sizes <- {1, 6}, MaxFaults <- 1, Offsets <- {0, 5}, Checksum <- {TRUE},
  reader <- logReader, hist <- logHist

Fmt == INSTANCE Formats WITH
  Payload <- 2, NumLevels <- 2, MaxOps <- 2, Numbers <- {1, 5, 130},
  UserKeys <- {<<>>, <<7>>, <<1>>, <<1, 0>>, <<1, 7, 2>>, <<3, 1>>, <<0, 1, 2, 3, 4>>},
  FewKeys <- {<<>>, <<1, 7, 2>>}, Values <- {<<>>, <<4, 0>>}

MessageType == INSTANCE MessageTypes
Pb == INSTANCE ProtoBuf WITH
  Bits <- 2, Payload <- 3, WordBits <- 5, MaxMessages <- 2, Types <- MessageType!MCTypes

cacheVars == <<disk, tables, blocks, allowed, lastId, thread, faults>>
iterVars == <<builder, table, dels, mem, inner, bad, iter, hist>>
logVars == <<file, records, writer, logReader, out, drops, logHist>>
fmtVars == <<kind, made, done, bytes, read>>
pbVars == <<type, sent, stream, encoded, received>>

NoFormats == kind = "-" /\ made = "-" /\ done = "-" /\ bytes = "-" /\ read = "-"
NoMessages == type = "-" /\ sent = "-" /\ stream = "-" /\ encoded = "-" /\ received = "-"

PartsInit ==
  /\ Init /\ Cache!Init /\ It!Init /\ Log!Init
  /\ \/ part \in {"memtable", "caches", "iterator", "log"} /\ NoFormats /\ NoMessages
     \/ part = "formats" /\ Fmt!Init /\ NoMessages
     \/ part = "messages" /\ Pb!Init /\ NoFormats

Of(name, others) == part = name /\ UNCHANGED <<part, others>>

PartsNext ==
  \/ Of("memtable", <<cacheVars, iterVars, logVars, fmtVars, pbVars>>) /\ Next
  \/ Of("caches", <<vars, iterVars, logVars, fmtVars, pbVars>>) /\ Cache!Next
  \/ Of("iterator", <<vars, cacheVars, logVars, fmtVars, pbVars>>) /\ It!Next
  \/ Of("log", <<vars, cacheVars, iterVars, fmtVars, pbVars>>) /\ Log!Next
  \/ Of("formats", <<vars, cacheVars, iterVars, logVars, pbVars>>) /\ Fmt!Next
  \/ Of("messages", <<vars, cacheVars, iterVars, logVars, fmtVars>>) /\ Pb!Next

PartsSpec ==
  PartsInit /\ [][PartsNext]_<<part, vars, cacheVars, iterVars, logVars, fmtVars, pbVars>>
-----------------------------------------------------------------------------
(* Of the memtable, MemtableRight (SkipList).                              *)

(* The caches: references are those that readers and the cache hold, what  *)
(* a reader holds is there and is what it asked for, hash table, list and  *)
(* usage agree, mappings are given back, and a deleted table does not stay *)
(* open (LRUCache, HandleTable, FindTable, BlockReader, MmapLimiter).      *)
CachesRight == part = "caches" =>
  Cache!TypeOK /\ Cache!RefsExact /\ Cache!HeldAlive /\ Cache!CachesAgree
  /\ Cache!MapsCounted /\ Cache!EvictedGone

(* An iterator comes where it has to, however often it turns around, its   *)
(* loops end, and a lookup in a table finds what is there (DBIter,         *)
(* MergingIterator, Table::InternalGet).                                   *)
IteratorsRight == part = "iterator" =>
  It!TypeOK /\ It!IterationRight /\ It!GetsRight /\ It!TurnsBounded

(* A log's reader never makes a record up, finds those that damage has     *)
(* spared, reads a log that was cut short up to the cut, reports what is   *)
(* lost to damage, and does not take a crash of the writer for damage      *)
(* (Reader::ReadRecord, ReadPhysicalRecord).                               *)
LogRight == part = "log" =>
  Log!TypeOK /\ Log!OnlyWritten /\ Log!WholeReturned /\ Log!PrefixReturned
  /\ Log!LossReported /\ Log!NoFalseAlarm

(* Batches, version edits, footers and file names are read as they were    *)
(* written, or refused, and the separators of an index separate            *)
(* (WriteBatch::Iterate, VersionEdit::DecodeFrom, Footer::DecodeFrom,      *)
(* ParseFileName, FindShortestSeparator).                                  *)
FormatsRight == part = "formats" =>
  Fmt!TypeOK /\ Fmt!BatchesRight /\ Fmt!EditsRight /\ Fmt!FootersRight
  /\ Fmt!NamesRight /\ Fmt!SeparatorsRight

(* Readers old and new get what pb_encode was given, but for the           *)
(* submessages that it leaves out though they have an array that is not    *)
(* empty; the size that is announced is exact; and a message that was cut  *)
(* off is accepted just if the cut is between fields or within a tag and   *)
(* the required fields precede it.  A reader whose required fields fill    *)
(* whole words may refuse what it should accept (pb_encode.c, pb_decode.c).*)
MessagesRight == part = "messages" =>
  Pb!TypeOK /\ Pb!SizeExact /\ Pb!Received /\ Pb!CutNoticed
=============================================================================
