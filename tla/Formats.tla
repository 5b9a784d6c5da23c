------------------------------- MODULE Formats -------------------------------
(***************************************************************************)
(* What LevelDB writes into log records, manifests and tables, byte by     *)
(* byte: write batches, version edits, table footers, internal keys and    *)
(* file names (write_batch.cc, version_edit.cc, format.cc, dbformat.cc,    *)
(* comparator.cc, filename.cc, coding.cc).                                 *)
(*                                                                         *)
(* A program makes one object of a kind, has it written, and reads it back,*)
(* whole or cut short.  Bytes are scaled: Payload bits of a varint's byte, *)
(* one more in the others, which also are the characters of keys.          *)
(***************************************************************************)
EXTENDS Integers, FiniteSets, SequencesExt

CONSTANTS Payload,          \* 7 in the code
          UserKeys, Values, \* character strings
          FewKeys,          \* bound: the user keys of batches and edits
          Numbers,          \* file numbers, sizes and offsets
          NumLevels,        \* config::kNumLevels
          MaxOps            \* bound: operations on an object

VARIABLES kind,    \* of the object
          made,    \* the object
          done,    \* what was put into it
          bytes,   \* its encoding
          read     \* what was read

vars == <<kind, made, done, bytes, read>>

Base == 2^(Payload + 1)
More == 2^Payload
-----------------------------------------------------------------------------
(* coding.cc *)

Fixed(v, size) == [i \in 1 .. size |-> (v \div Base^(i - 1)) % Base]
DecodeFixed(s) == FoldLeft(LAMBDA v, i : v + s[i] * Base^(i - 1), 0, [i \in DOMAIN s |-> i])

VarintLength(v) == CHOOSE n \in 1 .. 16 : v < 2^(Payload * n) /\ (n = 1 \/ v >= 2^(Payload * (n - 1)))
Varint(v) == LET n == VarintLength(v)
             IN  [i \in 1 .. n |-> ((v \div 2^(Payload * (i - 1))) % More) + (IF i < n THEN More ELSE 0)]
LengthPrefixed(s) == Varint(Len(s)) \o s

(* A parser returns [ok, v, rest].  Bits beyond the word are dropped.      *)
Parsed(v, rest) == [ok |-> TRUE, v |-> v, rest |-> rest]
Failed(rest) == [ok |-> FALSE, v |-> <<>>, rest |-> rest]
Rest(s, n) == SubSeq(s, n + 1, Len(s))

GetVarint(s, size) ==
  LET w == size * (Payload + 1)
      ends == {i \in 1 .. Min({Len(s), (w + Payload - 1) \div Payload}) : s[i] < More}
      n == Min(ends)
  IN  IF ends = {} THEN Failed(s)
      ELSE Parsed(FoldLeft(LAMBDA v, i : v + (s[i] % More) * 2^(Payload * (i - 1)), 0, [i \in 1 .. n |-> i]) % 2^w,
                  Rest(s, n))
GetVarint32(s) == GetVarint(s, 4)
GetVarint64(s) == GetVarint(s, 8)

GetLengthPrefixedSlice(s) ==
  LET Slice(n) == IF ~n.ok \/ Len(n.rest) < n.v THEN Failed(s)
                  ELSE Parsed(SubSeq(n.rest, 1, n.v), Rest(n.rest, n.v))
  IN  Slice(GetVarint32(s))

(* Parsers one after the other.                                            *)
InLevels(l) == [l EXCEPT !.ok = @ /\ l.v < NumLevels]
GetOne(get, s) ==
  CASE get = "32" -> GetVarint32(s)
    [] get = "64" -> GetVarint64(s)
    [] get = "level" -> InLevels(GetVarint32(s))
    [] get = "slice" -> GetLengthPrefixedSlice(s)
GetAll(s, parsers) ==
  LET And(p, q) == IF p.ok /\ q.ok THEN Parsed(Append(p.v, q.v), q.rest) ELSE Failed(s)
  IN  FoldLeft(LAMBDA p, get : And(p, GetOne(get, p.rest)), Parsed(<<>>, s), parsers)
-----------------------------------------------------------------------------
(* WriteBatch: a sequence number, a count, and the operations.             *)

Header == 12
NewBatch == Fixed(0, 8) \o Fixed(0, 4)
Body(rep) == Rest(rep, Header)
BatchCount(rep) == DecodeFixed(SubSeq(rep, 9, Header))
BatchSequence(rep) == DecodeFixed(SubSeq(rep, 1, 8))
SetCount(rep, n) == SubSeq(rep, 1, 8) \o Fixed(n, 4) \o Body(rep)
SetSequence(rep, seq) == Fixed(seq, 8) \o Rest(rep, 8)

TypeDeletion == 0
TypeValue == 1
Put(rep, k, v) == SetCount(rep, BatchCount(rep) + 1) \o <<TypeValue>> \o LengthPrefixed(k) \o LengthPrefixed(v)
Delete(rep, k) == SetCount(rep, BatchCount(rep) + 1) \o <<TypeDeletion>> \o LengthPrefixed(k)
AppendBatch(dst, src) == SetCount(dst, BatchCount(dst) + BatchCount(src)) \o Body(src)

(* Iterate with a MemTableInserter: the entries that were added, and the   *)
(* status.                                                                 *)
RECURSIVE Iterate(_, _)
Onward(tag, ops, entries) ==
  IF tag \notin {TypeValue, TypeDeletion} \/ ~ops.ok THEN [ok |-> FALSE, entries |-> entries]
  ELSE Iterate(ops.rest, Append(entries, <<tag>> \o ops.v))
Iterate(input, entries) ==
  IF input = <<>> THEN [ok |-> TRUE, entries |-> entries]
  ELSE Onward(Head(input), GetAll(Tail(input), IF Head(input) = TypeValue THEN <<"slice", "slice">> ELSE <<"slice">>),
              entries)

Inserted(rep, r) ==
  [ok |-> r.ok /\ Len(r.entries) = BatchCount(rep),
   entries |-> [i \in DOMAIN r.entries |-> <<BatchSequence(rep) + i - 1>> \o r.entries[i]]]
InsertInto(rep) ==
  IF Len(rep) < Header THEN [ok |-> FALSE, entries |-> <<>>] ELSE Inserted(rep, Iterate(Body(rep), <<>>))
-----------------------------------------------------------------------------
(* VersionEdit: values that are set or not, and lists.                     *)

NewEdit == [comparator |-> <<>>, log |-> <<>>, prev |-> <<>>, next |-> <<>>, last |-> <<>>,
            pointers |-> <<>>, deleted |-> {}, new |-> <<>>]

Tagged(tag, values) == FlattenSeq([i \in DOMAIN values |-> Varint(tag) \o values[i]])
InOrder(S) == SortSeq(SetToSeq(S), LAMBDA a, b : a[1] < b[1] \/ (a[1] = b[1] /\ a[2] < b[2]))

EncodeEdit(e) ==
  LET Number(values) == [i \in DOMAIN values |-> Varint(values[i])]
      deleted == InOrder(e.deleted)
  IN  Tagged(1, [i \in DOMAIN e.comparator |-> LengthPrefixed(e.comparator[i])])
      \o Tagged(2, Number(e.log)) \o Tagged(9, Number(e.prev)) \o Tagged(3, Number(e.next))
      \o Tagged(4, Number(e.last))
      \o Tagged(5, [i \in DOMAIN e.pointers |-> Varint(e.pointers[i][1]) \o LengthPrefixed(e.pointers[i][2])])
      \o Tagged(6, [i \in DOMAIN deleted |-> Varint(deleted[i][1]) \o Varint(deleted[i][2])])
      \o Tagged(7, [i \in DOMAIN e.new |-> LET f == e.new[i]
                                           IN  Varint(f[1]) \o Varint(f[2]) \o Varint(f[3])
                                               \o LengthPrefixed(f[4]) \o LengthPrefixed(f[5])])

Parsers(tag) ==
  CASE tag = 1 -> <<"slice">>
    [] tag \in {2, 3, 4, 9} -> <<"64">>
    [] tag = 5 -> <<"level", "slice">>
    [] tag = 6 -> <<"level", "64">>
    [] tag = 7 -> <<"level", "64", "64", "slice", "slice">>

Store(e, tag, v) ==
  CASE tag = 1 -> [e EXCEPT !.comparator = v]
    [] tag = 2 -> [e EXCEPT !.log = v]
    [] tag = 9 -> [e EXCEPT !.prev = v]
    [] tag = 3 -> [e EXCEPT !.next = v]
    [] tag = 4 -> [e EXCEPT !.last = v]
    [] tag = 5 -> [e EXCEPT !.pointers = Append(@, v)]
    [] tag = 6 -> [e EXCEPT !.deleted = @ \cup {v}]
    [] tag = 7 -> [e EXCEPT !.new = Append(@, v)]

(* DecodeFrom.  Bytes that are no tag at the end are an error.             *)
RECURSIVE DecodeEdit(_, _)
Further(tag, args, e) ==
  IF ~args.ok THEN [ok |-> FALSE, edit |-> e] ELSE DecodeEdit(args.rest, Store(e, tag, args.v))
AfterTag(s, tag, e) ==
  IF ~tag.ok THEN [ok |-> s = <<>>, edit |-> e]
  ELSE IF tag.v \notin {1, 2, 3, 4, 5, 6, 7, 9} THEN [ok |-> FALSE, edit |-> e]
  ELSE Further(tag.v, GetAll(tag.rest, Parsers(tag.v)), e)
DecodeEdit(s, e) == AfterTag(s, GetVarint32(s), e)
-----------------------------------------------------------------------------
(* Footer: the handles of two blocks, padding, and the magic number.       *)

MaxHandle == 2 * ((8 * (Payload + 1) + Payload - 1) \div Payload)   \* kMaxEncodedLength
Magic == <<5, 3, 1, 2, 4, 6, 0, 7>>
Handles(f) == Varint(f[1]) \o Varint(f[2]) \o Varint(f[3]) \o Varint(f[4])
EncodeFooter(f) ==
  LET handles == Handles(f)
  IN  handles \o [i \in 1 .. 2 * MaxHandle - Len(handles) |-> 0] \o Magic
DecodeFooter(s) ==
  LET Footer(h) == [ok |-> h.ok /\ Rest(s, Len(s) - 8) = Magic, footer |-> h.v]
  IN  Footer(GetAll(s, <<"64", "64", "64", "64">>))
-----------------------------------------------------------------------------
(* Keys.  An internal key is a user key and 8 bytes of sequence and type.  *)

Common(a, b) == Cardinality({n \in 1 .. Min({Len(a), Len(b)}) : SubSeq(a, 1, n) = SubSeq(b, 1, n)})
Compare(a, b) ==                                             \* a before b
  LET n == Common(a, b) IN IF n = Len(a) THEN n < Len(b) ELSE n < Len(b) /\ a[n + 1] < b[n + 1]

ShortestSeparator(start, limit) ==
  LET n == Common(start, limit)
  IN  IF n >= Min({Len(start), Len(limit)}) \/ start[n + 1] + 1 >= limit[n + 1] THEN start
      ELSE Append(SubSeq(start, 1, n), start[n + 1] + 1)
ShortSuccessor(key) ==
  LET n == Min({i \in DOMAIN key : key[i] # Base - 1} \cup {Len(key) + 1})
  IN  IF n > Len(key) THEN key ELSE Append(SubSeq(key, 1, n - 1), key[n] + 1)

MaxSequence == Base^7 - 1
InternalKey(key, sequence, type) == key \o Fixed(sequence * Base + type, 8)
UserKey(ikey) == SubSeq(ikey, 1, Len(ikey) - 8)
InternalCompare(a, b) ==
  \/ Compare(UserKey(a), UserKey(b))
  \/ /\ UserKey(a) = UserKey(b)
     /\ DecodeFixed(Rest(a, Len(a) - 8)) > DecodeFixed(Rest(b, Len(b) - 8))

(* A user key that is shorter, and later, gets the earliest number.        *)
(* Mutant: without a number at all.                                        *)
Untagged(ikey, key) ==
  IF Len(key) < Len(UserKey(ikey)) /\ Compare(UserKey(ikey), key) THEN key ELSE ikey
Shortened(ikey, key) ==
  IF Len(key) < Len(UserKey(ikey)) /\ Compare(UserKey(ikey), key) THEN InternalKey(key, MaxSequence, TypeValue) ELSE ikey
-----------------------------------------------------------------------------
(* File names, as sequences of digits and words.                           *)

MinDigits == 2                                          \* %06llu
MaxUint64 == Base^8 - 1
Digits(n) ==
  LET len == CHOOSE l \in MinDigits .. 10 : n < 10^l /\ (l = MinDigits \/ n >= 10^(l - 1))
  IN  [i \in 1 .. len |-> ToString((n \div 10^(len - i)) % 10)]
FileName(type, n) ==
  CASE type = "descriptor" -> <<"MANIFEST-">> \o Digits(n)
    [] type = "log" -> Append(Digits(n), ".log")
    [] type = "table" -> Append(Digits(n), ".ldb")
    [] type = "sst" -> Append(Digits(n), ".sst")
    [] type = "temp" -> Append(Digits(n), ".dbtmp")
    [] OTHER -> <<type>>

DecimalDigits == <<"0", "1", "2", "3", "4", "5", "6", "7", "8", "9">>
DigitValue(c) == CHOOSE i \in 0 .. 9 : DecimalDigits[i + 1] = c
ConsumeDecimalNumber(s) ==
  LET n == Max({k \in 0 .. Len(s) : \A i \in 1 .. k : s[i] \in Range(DecimalDigits)})
      Number(value) == [ok |-> n > 0 /\ value <= MaxUint64, number |-> value, rest |-> Rest(s, n)]
  IN  Number(FoldLeft(LAMBDA v, i : Min({v * 10 + DigitValue(s[i]), MaxUint64 + 1}), 0, [i \in 1 .. n |-> i]))

(* What a name tells: its type, "none" if it is no file's, and its number. *)
Tells(type, number) == [type |-> type, number |-> number]
TypeOfSuffix(rest) ==
  CASE rest = <<".log">> -> "log"
    [] rest \in {<<".sst">>, <<".ldb">>} -> "table"
    [] rest = <<".dbtmp">> -> "temp"
    [] OTHER -> "none"
Numbered(descriptor, n) ==
  CASE ~n.ok -> Tells("none", 0)
    [] n.ok /\ descriptor -> Tells(IF n.rest = <<>> THEN "descriptor" ELSE "none", n.number)
    [] n.ok /\ ~descriptor -> Tells(TypeOfSuffix(n.rest), n.number)
ParseFileName(s) ==
  CASE s = <<"CURRENT">> -> Tells("current", 0)
    [] s = <<"LOCK">> -> Tells("lock", 0)
    [] s \in {<<"LOG">>, <<"LOG.old">>} -> Tells("info", 0)
    [] OTHER -> IF s # <<>> /\ s[1] = "MANIFEST-" THEN Numbered(TRUE, ConsumeDecimalNumber(Tail(s)))
                ELSE Numbered(FALSE, ConsumeDecimalNumber(s))
-----------------------------------------------------------------------------
NotRead == [cut |-> -1]
Init ==
  /\ \/ kind = "batch" /\ made = <<NewBatch, NewBatch>> /\ done = <<<<>>, <<>>>>
     \/ kind = "edit" /\ made = NewEdit /\ done = 0
     \/ kind \in {"footer", "key", "name"} /\ made = <<>> /\ done = 0
  /\ bytes = <<>> /\ read = NotRead

Making(k) == kind = k /\ bytes = <<>>
Ops == Len(done[1]) + Len(done[2])

(* WriteBatch::Put, Delete and Clear, and BuildBatchGroup's Append.        *)
BatchPut(b, k, v) ==
  /\ Making("batch") /\ Ops < MaxOps
  /\ made' = [made EXCEPT ![b] = Put(@, k, v)]
  /\ done' = [done EXCEPT ![b] = Append(@, <<TypeValue, k, v>>)]
  /\ UNCHANGED <<kind, bytes, read>>
BatchDelete(b, k) ==
  /\ Making("batch") /\ Ops < MaxOps
  /\ made' = [made EXCEPT ![b] = Delete(@, k)]
  /\ done' = [done EXCEPT ![b] = Append(@, <<TypeDeletion, k>>)]
  /\ UNCHANGED <<kind, bytes, read>>
BatchClear(b) ==
  /\ Making("batch") /\ done[b] # <<>>
  /\ made' = [made EXCEPT ![b] = NewBatch] /\ done' = [done EXCEPT ![b] = <<>>]
  /\ UNCHANGED <<kind, bytes, read>>
BatchGroup ==
  /\ Making("batch") /\ Ops + Len(done[2]) <= MaxOps
  /\ made' = [made EXCEPT ![1] = AppendBatch(@, made[2])]
  /\ done' = [done EXCEPT ![1] = @ \o done[2]]
  /\ UNCHANGED <<kind, bytes, read>>
WriteBatch(seq) ==
  /\ Making("batch")
  /\ made' = [made EXCEPT ![1] = SetSequence(@, seq)] /\ bytes' = made'[1]
  /\ UNCHANGED <<kind, done, read>>

(* The setters of VersionEdit.                                             *)
EditSet(field, n) ==
  /\ Making("edit") /\ done < MaxOps
  /\ made' = [made EXCEPT ![field] = <<n>>] /\ done' = done + 1
  /\ UNCHANGED <<kind, bytes, read>>
EditAdd(level, n, k, l) ==
  /\ Making("edit") /\ done < MaxOps /\ done' = done + 1
  /\ \/ made' = [made EXCEPT !.new = Append(@, <<level, n, n, k, l>>)]
     \/ made' = [made EXCEPT !.deleted = @ \cup {<<level, n>>}]
     \/ made' = [made EXCEPT !.pointers = Append(@, <<level, k>>)]
  /\ UNCHANGED <<kind, bytes, read>>
WriteEdit == /\ Making("edit") /\ made # NewEdit
             /\ bytes' = EncodeEdit(made)
             /\ UNCHANGED <<kind, made, done, read>>

WriteFooter(a, b, c, d) ==
  /\ Making("footer") /\ made' = <<a, b, c, d>> /\ bytes' = EncodeFooter(made')
  /\ UNCHANGED <<kind, done, read>>
WriteName(type, n) ==
  /\ Making("name") /\ made' = <<type, n>> /\ bytes' = FileName(type, n)
  /\ UNCHANGED <<kind, done, read>>
WriteKeys(a, b) ==
  /\ Making("key") /\ InternalCompare(a, b)
  /\ made' = <<a, b>>
  /\ bytes' = <<Shortened(a, ShortestSeparator(UserKey(a), UserKey(b))), Shortened(b, ShortSuccessor(UserKey(b)))>>
  /\ UNCHANGED <<kind, done, read>>

(* Reading the first bytes of an encoding.                                 *)
Decoded(s) == CASE kind = "batch" -> InsertInto(s)
                [] kind = "edit" -> DecodeEdit(s, NewEdit)
                [] kind = "footer" -> DecodeFooter(s)
                [] kind = "name" -> ParseFileName(s)
Read(cut) ==
  /\ bytes # <<>> /\ kind # "key" /\ read = NotRead
  /\ kind = "footer" => cut = Len(bytes)            \* Table::Open reads a whole footer
  /\ read' = [cut |-> cut, got |-> Decoded(SubSeq(bytes, 1, cut))]
  /\ UNCHANGED <<kind, made, done, bytes>>

Levels == 0 .. NumLevels - 1
Types == {"descriptor", "log", "table", "sst", "temp", "CURRENT", "LOCK", "LOG", "LOG.old"}
InternalKeys == {InternalKey(k, s, TypeValue) : k \in UserKeys, s \in {1, 2}}

Next ==
  \/ \E b \in 1 .. 2, k \in FewKeys : BatchDelete(b, k) \/ \E v \in Values : BatchPut(b, k, v)
  \/ \E b \in 1 .. 2 : BatchClear(b)
  \/ BatchGroup
  \/ \E n \in Numbers : \/ WriteBatch(n)
                        \/ \E field \in {"log", "prev", "next", "last"} : EditSet(field, n)
                        \/ \E level \in Levels, k, l \in FewKeys : EditAdd(level, n, k, l)
                        \/ \E type \in Types : WriteName(type, n)
  \/ \E k \in FewKeys : EditSet("comparator", k)
  \/ WriteEdit
  \/ \E a, b, c, d \in Numbers : WriteFooter(a, b, c, d)
  \/ \E a, b \in InternalKeys : WriteKeys(a, b)
  \/ \E cut \in 0 .. Len(bytes) : Read(cut)

Spec == Init /\ [][Next]_vars
-----------------------------------------------------------------------------
TypeOK ==
  /\ kind \in {"batch", "edit", "footer", "key", "name"}
  /\ kind \in {"batch", "edit", "footer"} => bytes \in Seq(0 .. Base - 1)
  /\ read # NotRead => read.cut \in 0 .. Len(bytes)

Whole == read # NotRead /\ read.cut = Len(bytes)
Cut == read # NotRead /\ read.cut < Len(bytes)

(* A batch that was written is applied in the order of its operations, with*)
(* consecutive sequence numbers, also when batches were grouped; what is   *)
(* cut short is refused, after part of it was applied (write_batch.cc).    *)
BatchesRight ==
  (kind = "batch" /\ read # NotRead) =>
    LET entries == [i \in DOMAIN done[1] |-> <<BatchSequence(made[1]) + i - 1>> \o done[1][i]]
    IN  /\ read.got.ok <=> Whole
        /\ IsPrefix(read.got.entries, entries)
        /\ Whole => read.got.entries = entries

(* A version edit is read as it was made; one cut short is refused, or only*)
(* lacks its last entries (version_edit.cc).                               *)
EditsRight ==
  (kind = "edit" /\ read # NotRead) =>
    LET e == read.got.edit
    IN  /\ Whole => read.got.ok /\ e = made
        /\ read.got.ok => /\ e.deleted \subseteq made.deleted
                          /\ IsPrefix(e.new, made.new) /\ IsPrefix(e.pointers, made.pointers)
                          /\ e.new # <<>> => e = [made EXCEPT !.new = e.new]

(* A table's footer leads to the blocks it was written for (format.cc).    *)
FootersRight == (kind = "footer" /\ Whole) => read.got.ok /\ read.got.footer = made

(* A file's name tells its type and number, as deletion of obsolete files  *)
(* and recovery rely on (filename.cc).                                     *)
NamesRight ==
  (kind = "name" /\ Whole) =>
    IF made[1] \in {"descriptor", "log", "table", "temp"} THEN read.got = Tells(made[1], made[2])
    ELSE read.got.type \in {"table", "current", "lock", "info"}

(* A separator in a table's index is not before its block's last key, and  *)
(* before the next block's first key; a successor is not before the key.   *)
SeparatorsRight ==
  (kind = "key" /\ bytes # <<>>) =>
    /\ ~InternalCompare(bytes[1], made[1]) /\ InternalCompare(bytes[1], made[2])
    /\ ~InternalCompare(bytes[2], made[2])
=============================================================================
