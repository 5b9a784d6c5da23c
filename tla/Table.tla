-------------------------------- MODULE Table --------------------------------
(***************************************************************************)
(* LevelDB's tables: how TableBuilder lays entries out in blocks, with     *)
(* prefixes shared between restart points, an index block and a filter     *)
(* block, and how a table is read: Block::Iter, TwoLevelIterator and       *)
(* InternalGet.                                                            *)
(*                                                                         *)
(* An internal key is <<user key, sequence number>>, two symbols that a    *)
(* prefix may share.  An offset in a block is the number of entries before *)
(* it, the size of a block the number of its entries.                      *)
(***************************************************************************)
EXTENDS Integers, FiniteSets, SequencesExt

CONSTANTS MaxKey,            \* user keys are 1 .. MaxKey
          MaxEntries,        \* sequence numbers are 1 .. MaxEntries
          RestartInterval,   \* block_restart_interval
          FilterBase,        \* kFilterBase
          FilterBits,        \* bits of a Bloom filter
          Probes             \* k_ of the Bloom filter

VARIABLES builder,   \* fields of TableBuilder
          table      \* the file that was written

MaxSequence == 1000                                   \* kMaxSequenceNumber
Before(a, b) == a[1] < b[1] \/ (a[1] = b[1] /\ a[2] > b[2])
-----------------------------------------------------------------------------
(* BlockBuilder *)

NewBlock == [cells |-> <<>>, restarts |-> <<0>>, counter |-> 0, last |-> <<>>]

SharedPrefix(a, b) ==
  Cardinality({n \in 1 .. Min({Len(a), Len(b)}) : SubSeq(a, 1, n) = SubSeq(b, 1, n)})

BlockAdd(b, interval, key, value) ==
  LET restart == b.counter >= interval
      shared == IF restart THEN 0 ELSE SharedPrefix(b.last, key)
  IN  [cells |-> Append(b.cells, [shared |-> shared, value |-> value,
                                  delta |-> SubSeq(key, shared + 1, Len(key))]),
       restarts |-> IF restart THEN Append(b.restarts, Len(b.cells)) ELSE b.restarts,
       counter |-> IF restart THEN 1 ELSE b.counter + 1,
       last |-> key]

(* Bloom filter of user keys.                                              *)
Probe(key, j) == (key + j * (2 * key + 1)) % FilterBits
CreateFilter(keys) == {Probe(k, j) : k \in keys, j \in 0 .. Probes - 1}
BloomMayMatch(key, filter) == \A j \in 0 .. Probes - 1 : Probe(key, j) \in filter

(* FilterBlockBuilder: a filter for each FilterBase of the file.           *)
GenerateFilter(f) == [keys |-> {}, filters |-> Append(f.filters, CreateFilter(f.keys))]

StartBlock(f, offset) ==
  LET missing == offset \div FilterBase - Len(f.filters)
  IN  FoldLeft(LAMBDA g, i : GenerateFilter(g), f, [i \in 1 .. missing |-> i])

NewBuilder == [data |-> NewBlock, index |-> NewBlock, blocks |-> <<>>, offset |-> 0, pending |-> FALSE,
               handle |-> 0, last |-> <<>>, filter |-> [keys |-> {}, filters |-> <<>>], offsets |-> <<>>]

TableInit == builder = NewBuilder /\ table = <<>>

(* FindShortestSeparator and FindShortSuccessor may replace the last key   *)
(* of a block by a shorter user key before the next one, or after the last.*)
Separators(last, limit) == {last} \cup {<<k, MaxSequence>> : k \in last[1] + 1 .. limit - 1}

AddIndexEntry(b, sep) ==
  [b EXCEPT !.index = BlockAdd(@, 1, sep, b.handle), !.pending = FALSE]

WriteBlock(b) ==
  IF b.data.cells = <<>> THEN b
  ELSE LET end == b.offset + Len(b.data.cells)
       IN  [b EXCEPT !.blocks = Append(@, b.data), !.offsets = Append(@, b.offset),
                     !.handle = Len(b.blocks) + 1, !.offset = end, !.pending = TRUE,
                     !.data = NewBlock, !.filter = StartBlock(@, end)]

AddKey(b, key, value) ==
  [b EXCEPT !.filter.keys = @ \cup {key[1]}, !.last = key,
            !.data = BlockAdd(@, RestartInterval, key, value)]

(* TableBuilder::Add.  Whether it ends the block depends on sizes.         *)
Add(key, value) ==
  /\ table = <<>>
  /\ builder.last # <<>> => Before(builder.last, key)
  /\ \E sep \in IF builder.pending THEN Separators(builder.last, key[1]) ELSE {<<>>}, full \in BOOLEAN :
       LET b == AddKey(IF builder.pending THEN AddIndexEntry(builder, sep) ELSE builder, key, value)
       IN  builder' = IF full THEN WriteBlock(b) ELSE b
  /\ UNCHANGED table

(* TableBuilder::Finish *)
Finish ==
  /\ table = <<>>
  /\ LET b == WriteBlock(builder)
         filters == IF b.filter.keys = {} THEN b.filter.filters ELSE GenerateFilter(b.filter).filters
         Written(index) == <<[blocks |-> b.blocks, offsets |-> b.offsets, end |-> b.offset,
                              index |-> index, filters |-> filters]>>
     IN  \/ ~b.pending /\ table' = Written(b.index)
         \/ /\ b.pending
            /\ \E sep \in Separators(b.last, MaxKey + 2) : table' = Written(AddIndexEntry(b, sep).index)
  /\ builder' = NewBuilder
-----------------------------------------------------------------------------
(* Block::Iter: the cell it is at, counted from 0 (current_), its restart  *)
(* index, and the key, which is pieced together from those parsed since    *)
(* the restart point the iterator went to.                                 *)

NotValid(b) == [at |-> Len(b.cells), restart |-> Len(b.restarts), key |-> <<>>]
IterValid(b, it) == it.at < Len(b.cells)
IterValue(b, it) == b.cells[it.at + 1].value
RestartPoint(b, i) == b.restarts[i + 1]

NextKey(b, key, at) ==
  LET cell == b.cells[at + 1]
  IN  SubSeq(key, 1, Min({cell.shared, Len(key)})) \o cell.delta

Parsed(b, from, at) ==
  LET key[n \in from - 1 .. at] == IF n < from THEN <<>> ELSE NextKey(b, key[n - 1], n)
  IN  key[at]

(* ParseNextKey moves the restart index to the last one before the cell.   *)
Position(b, restart, at, key) ==
  [at |-> at, key |-> key,
   restart |-> Max({restart} \cup {i \in restart + 1 .. Len(b.restarts) - 1 : RestartPoint(b, i) < at})]

(* From a restart point to a cell, or to the end.                          *)
ParseTo(b, restart, at) ==
  IF at >= Len(b.cells) THEN NotValid(b)
  ELSE Position(b, restart, at, Parsed(b, RestartPoint(b, restart), at))

IterSeekToFirst(b) == ParseTo(b, 0, 0)
IterSeekToLast(b) == ParseTo(b, Len(b.restarts) - 1, Len(b.cells) - 1)
IterNext(b, it) ==
  IF it.at + 1 >= Len(b.cells) THEN NotValid(b)
  ELSE Position(b, it.restart, it.at + 1, NextKey(b, it.key, it.at + 1))

(* The binary search is for the last restart point before the target.      *)
BinarySearch(b, target) ==
  LET KeyAt(i) == b.cells[RestartPoint(b, i) + 1].delta
      search[left \in 0 .. Len(b.restarts), right \in 0 .. Len(b.restarts)] ==
        IF left >= right THEN left
        ELSE LET mid == (left + right + 1) \div 2
             IN  IF Before(KeyAt(mid), target) THEN search[mid, right] ELSE search[left, mid - 1]
  IN  search[0, Len(b.restarts) - 1]

IterSeek(b, target) ==
  LET r == BinarySearch(b, target)
      from == RestartPoint(b, r)
  IN  ParseTo(b, r, Min({Len(b.cells)} \cup {i \in from .. Len(b.cells) - 1 :
                                              ~Before(Parsed(b, from, i), target)}))

(* Back to a restart point before the entry, and on to the entry before it.*)
IterPrev(b, it) ==
  LET points == {i \in 0 .. it.restart : i < Len(b.restarts) /\ RestartPoint(b, i) < it.at}
  IN  IF points = {} THEN NotValid(b) ELSE ParseTo(b, Max(points), it.at - 1)
-----------------------------------------------------------------------------
(* TwoLevelIterator, over a table whose blocks in "bad" cannot be read.    *)
(* Its state is the index iterator, and of the data iterator its block, 0  *)
(* for none, and its position.                                             *)

Closed == [index |-> <<>>, block |-> 0, data |-> <<>>, ok |-> TRUE]

DataValid(t, s, bad) == s.block \notin {0} \cup bad /\ IterValid(t.blocks[s.block], s.data)
DataKey(s) == s.data.key
DataValue(t, s) == IterValue(t.blocks[s.block], s.data)

(* SetDataIterator saves the error of the iterator that it replaces.       *)
SetDataIterator(s, block, bad) ==
  [s EXCEPT !.ok = @ /\ s.block \notin bad, !.block = block, !.data = <<>>]

(* InitDataBlock, and a move of the data iterator if there is one.         *)
Enter(t, s, bad, Move(_)) ==
  LET n == IF IterValid(t.index, s.index) THEN IterValue(t.index, s.index) ELSE 0
      r == IF n = s.block THEN s ELSE SetDataIterator(s, n, bad)
  IN  IF n = 0 \/ n \in bad THEN r ELSE [r EXCEPT !.data = Move(t.blocks[n])]

Skip(t, s, bad, Step(_), Move(_)) ==
  LET skip[n \in 0 .. Len(t.blocks) + 1] ==
        IF n = 0 THEN s
        ELSE LET r == skip[n - 1]
             IN  IF DataValid(t, r, bad) THEN r
                 ELSE IF ~IterValid(t.index, r.index) THEN SetDataIterator(r, 0, bad)
                 ELSE Enter(t, [r EXCEPT !.index = Step(r.index)], bad, Move)
  IN  skip[Len(t.blocks) + 1]

SkipForward(t, s, bad) == Skip(t, s, bad, LAMBDA i : IterNext(t.index, i), IterSeekToFirst)
SkipBackward(t, s, bad) == Skip(t, s, bad, LAMBDA i : IterPrev(t.index, i), IterSeekToLast)

TableSeek(t, s, bad, target) ==
  SkipForward(t, Enter(t, [s EXCEPT !.index = IterSeek(t.index, target)], bad,
                       LAMBDA b : IterSeek(b, target)), bad)
TableSeekToFirst(t, s, bad) ==
  SkipForward(t, Enter(t, [s EXCEPT !.index = IterSeekToFirst(t.index)], bad, IterSeekToFirst), bad)
TableSeekToLast(t, s, bad) ==
  SkipBackward(t, Enter(t, [s EXCEPT !.index = IterSeekToLast(t.index)], bad, IterSeekToLast), bad)
TableNext(t, s, bad) ==
  SkipForward(t, [s EXCEPT !.data = IterNext(t.blocks[s.block], @)], bad)
TablePrev(t, s, bad) ==
  SkipBackward(t, [s EXCEPT !.data = IterPrev(t.blocks[s.block], @)], bad)

(* FilterBlockReader *)
KeyMayMatch(t, block, key) ==
  LET i == t.offsets[block] \div FilterBase + 1
  IN  i \in DOMAIN t.filters => t.filters[i] # {} /\ BloomMayMatch(key, t.filters[i])

(* Table::InternalGet: the entry that it hands to the saver, if any.       *)
InternalGet(t, target) ==
  LET index == IterSeek(t.index, target)
      n == IterValue(t.index, index)
      data == IterSeek(t.blocks[n], target)
  IN  IF ~IterValid(t.index, index) \/ ~KeyMayMatch(t, n, target[1]) \/ ~IterValid(t.blocks[n], data)
      THEN <<>> ELSE <<data.key>>

ApproximateOffsetOf(t, target) ==
  LET index == IterSeek(t.index, target)
  IN  IF IterValid(t.index, index) THEN t.offsets[IterValue(t.index, index)] ELSE t.end
=============================================================================
