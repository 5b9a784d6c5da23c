------------------------------ MODULE TableCache ------------------------------
(***************************************************************************)
(* How LevelDB's readers share open tables and blocks: TableCache keeps    *)
(* tables open, the block cache keeps blocks, both in an LRUCache          *)
(* (util/cache.cc); files are mapped while the environment allows it       *)
(* (util/env_posix.cc), and the blocks of a mapped file lie in the mapping *)
(* (table/format.cc).                                                      *)
(*                                                                         *)
(* A cache operation is one step, as it is under the cache's mutex; what a *)
(* reader does between two of them may interleave with other readers and   *)
(* with the deletion of files.  A cache is one shard of the code's.        *)
(***************************************************************************)
EXTENDS Integers, FiniteSets, SequencesExt

CONSTANTS Threads, Files, Blocks,
          Capacity,              \* of each cache, a table or block counting one
          InitialLength,         \* new_length of HandleTable
          MaxMaps,               \* what MmapLimiter allows
          MaxOpens, MaxFaults    \* bounds: files opened, operations that fail

VARIABLES disk,      \* the files there are
          tables,    \* the table cache
          blocks,    \* the block cache
          allowed,   \* allowed_ of MmapLimiter
          lastId,    \* last_id_: each open table has its own
          thread,    \* the readers
          faults     \* counter of the bound

vars == <<disk, tables, blocks, allowed, lastId, thread, faults>>
-----------------------------------------------------------------------------
(* HandleTable: chains of handles.                                         *)

Hash(key) == key[1] + key[2]
Slot(lists, key) == Hash(key) % Cardinality(DOMAIN lists)
Chain(c, key) == c.lists[Slot(c.lists, key)]

(* FindPointer: the entry with this key, 0 if there is none.               *)
Find(c, key) ==
  LET hits == SelectSeq(Chain(c, key), LAMBDA h : c.handles[h].key = key)
  IN  IF hits = <<>> THEN 0 ELSE hits[1]

Elems(c) == FoldFunction(LAMBDA s, n : n + Len(s), 0, c.lists)

(* Each entry goes to the front of its new chain.                          *)
Resize(c) ==
  LET length == CHOOSE n \in {InitialLength * 2 ^ i : i \in 0 .. MaxOpens} :
                  n >= Elems(c) /\ (n > InitialLength => n \div 2 < Elems(c))
      old == FlattenSeq([i \in 1 .. Cardinality(DOMAIN c.lists) |-> c.lists[i - 1]])
      In(h, i) == Hash(c.handles[h].key) % length = i
  IN  [c EXCEPT !.lists = [i \in 0 .. length - 1 |-> Reverse(SelectSeq(old, LAMBDA h : In(h, i)))]]

TableInsert(c, h, old) ==
  LET i == Slot(c.lists, c.handles[h].key)
      Swap(x) == IF x = old THEN h ELSE x
      d == [c EXCEPT !.lists[i] = IF old = 0 THEN Append(@, h) ELSE [j \in DOMAIN @ |-> Swap(@[j])]]
  IN  IF old = 0 /\ Elems(d) > Cardinality(DOMAIN d.lists) THEN Resize(d) ELSE d

TableRemove(c, h) ==
  [c EXCEPT !.lists[Slot(c.lists, c.handles[h].key)] = SelectSeq(@, LAMBDA x : x # h)]

(* LRUCache.  The list has the oldest first.                               *)

NewCache == [handles |-> [h \in {} |-> 0], lru |-> <<>>, usage |-> 0,
             lists |-> [i \in 0 .. InitialLength - 1 |-> <<>>]]

(* The last reference gone, the entry is freed.                            *)
Unref(c, h) ==
  IF c.handles[h].refs > 1 THEN [c EXCEPT !.handles[h].refs = @ - 1]
  ELSE [c EXCEPT !.handles = [i \in DOMAIN @ \ {h} |-> @[i]], !.usage = @ - 1]

LRU_Remove(c, h) == [c EXCEPT !.lru = SelectSeq(@, LAMBDA x : x # h)]
LRU_Append(c, h) == [c EXCEPT !.lru = Append(@, h)]

(* Mutant: the reader's reference is not counted. *)
LookupUncounted(c, key) ==
  LET h == Find(c, key)
  IN  IF h = 0 THEN c ELSE LRU_Append(LRU_Remove(c, h), h)

Lookup(c, key) ==
  LET h == Find(c, key)
  IN  IF h = 0 THEN c ELSE LRU_Append(LRU_Remove([c EXCEPT !.handles[h].refs = @ + 1], h), h)

Release(c, h) == Unref(c, h)

EvictOldest(c) == LET h == c.lru[1] IN Unref(TableRemove(LRU_Remove(c, h), h), h)

Insert(c, h, key, value) ==
  LET new == [c EXCEPT !.handles = (h :> [key |-> key, value |-> value, refs |-> 2]) @@ @, !.usage = @ + 1]
      old == Find(c, key)
      in == TableInsert(LRU_Append(new, h), h, old)
      alone == IF old = 0 THEN in ELSE Unref(LRU_Remove(in, old), old)
  IN  FoldLeft(LAMBDA a, i : IF a.usage > Capacity /\ a.lru # <<>> THEN EvictOldest(a) ELSE a,
               alone, alone.lru)

Erase(c, key) ==
  LET h == Find(c, key)
  IN  IF h = 0 THEN c ELSE Unref(LRU_Remove(TableRemove(c, h), h), h)
-----------------------------------------------------------------------------
(* Readers.  A handle is the number of the table that was opened for it, or*)
(* of the block that was read.                                             *)

Idle == [pc |-> "idle", file |-> 0, table |-> 0, opened |-> <<>>, block |-> 0, handle |-> 0, read |-> <<>>]

Init ==
  /\ disk = Files /\ tables = NewCache /\ blocks = NewCache
  /\ allowed = MaxMaps /\ lastId = 0 /\ faults = 0
  /\ thread = [t \in Threads |-> Idle]

Fault == faults < MaxFaults /\ faults' = faults + 1

(* Tables that a step frees are closed, which gives their mappings back.   *)
Maps(S) == Cardinality({v \in S : v.mapped})
Values(c) == {c.handles[h].value : h \in DOMAIN c.handles}
Becomes(c) == /\ tables' = c
              /\ allowed' = allowed + Maps(Values(tables) \ Values(c))

(* FindTable, for a reader whose version lists the file.                   *)
FindTable(t, f) ==
  /\ thread[t].pc = "idle" /\ f \in disk
  /\ Becomes(Lookup(tables, <<f, 0>>))
  /\ LET h == Find(tables, <<f, 0>>)
     IN  thread' = [thread EXCEPT ![t] = [Idle EXCEPT !.pc = IF h = 0 THEN "open" ELSE "using",
                                                      !.file = f, !.table = h]]
  /\ UNCHANGED <<disk, blocks, lastId, faults>>

(* NewRandomAccessFile: a mapping if there may be one more.                *)
NewRandomAccessFile(t) ==
  /\ thread[t].pc = "open" /\ lastId < MaxOpens
  /\ thread' = [thread EXCEPT ![t].pc = "opened",
                  ![t].opened = <<[file |-> thread[t].file, mapped |-> allowed > 0]>>]
  /\ allowed' = IF allowed > 0 THEN allowed - 1 ELSE allowed
  /\ UNCHANGED <<disk, tables, blocks, lastId, faults>>

(* The file cannot be opened: also under its old name, or mapped.          *)
OpenFails(t) ==
  /\ thread[t].pc = "open" /\ Fault
  /\ thread' = [thread EXCEPT ![t] = Idle]
  /\ UNCHANGED <<disk, tables, blocks, allowed, lastId>>

CacheId(n) == n

(* Table::Open, and the end of FindTable.                                  *)
InsertTable(t) ==
  /\ thread[t].pc = "opened" /\ lastId < MaxOpens
  /\ LET n == lastId + 1
         o == thread[t].opened[1]
         c == Insert(tables, n, <<o.file, 0>>, [file |-> o.file, mapped |-> o.mapped, id |-> CacheId(n)])
     IN  /\ tables' = c
         /\ allowed' = allowed + Maps(Values(tables) \ Values(c))
         /\ lastId' = n
         /\ thread' = [thread EXCEPT ![t].pc = "using", ![t].opened = <<>>, ![t].table = n]
  /\ UNCHANGED <<disk, blocks, faults>>

(* Table::Open fails: the file is closed.                                  *)
TableOpenFails(t) ==
  /\ thread[t].pc = "opened" /\ Fault
  /\ allowed' = allowed + Maps(ToSet(thread[t].opened))
  /\ thread' = [thread EXCEPT ![t] = Idle]
  /\ UNCHANGED <<disk, tables, blocks, lastId>>

Table(t) == tables.handles[thread[t].table].value

(* BlockReader, by way of an iterator or of InternalGet.                   *)
BlockReader(t, b) ==
  /\ thread[t].pc = "using"
  /\ LET key == <<Table(t).id, b>>
         h == Find(blocks, key)
     IN  /\ blocks' = Lookup(blocks, key)
         /\ thread' = [thread EXCEPT ![t].block = b, ![t].handle = h,
              ![t].pc = IF h = 0 THEN "read" ELSE "block",
              ![t].read = IF h = 0 THEN <<>> ELSE blocks.handles[h].value]
  /\ UNCHANGED <<disk, tables, allowed, lastId, faults>>

(* ReadBlock: what it reads from a mapped file lies in the mapping, and is *)
(* not put in the cache; nor is it if fill_cache is off.                   *)
ReadBlock(t, fill) ==
  /\ thread[t].pc = "read"
  /\ LET content == <<Table(t).file, thread[t].block>>
         key == <<Table(t).id, thread[t].block>>
         free == CHOOSE h \in 1 .. 2 * Cardinality(Threads) + Capacity : h \notin DOMAIN blocks.handles
         cached == fill /\ ~Table(t).mapped
     IN  /\ blocks' = IF cached THEN Insert(blocks, free, key, content) ELSE blocks
         /\ thread' = [thread EXCEPT ![t].pc = "block", ![t].read = content,
                                     ![t].handle = IF cached THEN free ELSE 0]
  /\ UNCHANGED <<disk, tables, allowed, lastId, faults>>

ReadFails(t) ==
  /\ thread[t].pc = "read" /\ Fault
  /\ thread' = [thread EXCEPT ![t].pc = "using", ![t].block = 0]
  /\ UNCHANGED <<disk, tables, blocks, allowed, lastId>>

(* The iterator over the block is deleted: ReleaseBlock or DeleteBlock.    *)
ReleaseBlock(t) ==
  /\ thread[t].pc = "block"
  /\ blocks' = IF thread[t].handle = 0 THEN blocks ELSE Release(blocks, thread[t].handle)
  /\ thread' = [thread EXCEPT ![t].pc = "using", ![t].block = 0, ![t].handle = 0, ![t].read = <<>>]
  /\ UNCHANGED <<disk, tables, allowed, lastId, faults>>

(* UnrefEntry, or the end of TableCache::Get.                              *)
UnrefEntry(t) ==
  /\ thread[t].pc = "using"
  /\ Becomes(Release(tables, thread[t].table))
  /\ thread' = [thread EXCEPT ![t] = Idle]
  /\ UNCHANGED <<disk, blocks, lastId, faults>>

(* DeleteObsoleteFiles, of a file that no version in use lists.            *)
Evict(f) ==
  /\ f \in disk /\ \A t \in Threads : thread[t].file # f
  /\ Becomes(Erase(tables, <<f, 0>>))
  /\ disk' = disk \ {f}
  /\ UNCHANGED <<blocks, lastId, thread, faults>>
-----------------------------------------------------------------------------
Next ==
  \/ \E t \in Threads :
       \/ \E f \in Files : FindTable(t, f)
       \/ NewRandomAccessFile(t) \/ OpenFails(t) \/ InsertTable(t) \/ TableOpenFails(t)
       \/ \E b \in Blocks : BlockReader(t, b)
       \/ \E fill \in BOOLEAN : ReadBlock(t, fill)
       \/ ReadFails(t) \/ ReleaseBlock(t) \/ UnrefEntry(t)
  \/ \E f \in Files : Evict(f)

Spec == Init /\ [][Next]_vars
-----------------------------------------------------------------------------
TypeOK ==
  /\ disk \subseteq Files /\ lastId \in 0 .. MaxOpens
  /\ \A t \in Threads : thread[t].pc \in {"idle", "open", "opened", "using", "read", "block"}

Holders(field, h) == Cardinality({t \in Threads : thread[t][field] = h})
Exact(c, field) ==
  \A h \in DOMAIN c.handles :
    c.handles[h].refs = Holders(field, h) + IF h \in ToSet(c.lru) THEN 1 ELSE 0

(* An entry has as many references as readers hold it, and one more while  *)
(* it is in the cache: none is freed early and none is kept for ever,      *)
(* though two readers insert one table, and files are deleted in between   *)
(* (util/cache.cc, LRUHandle::refs).                                       *)
RefsExact == Exact(tables, "table") /\ Exact(blocks, "handle")

(* What a reader uses is there, and is of the file and the block that it   *)
(* asked for: cache ids keep the blocks of a table that was opened again,  *)
(* or of another file, apart (Table::BlockReader).                         *)
HeldAlive ==
  \A t \in Threads :
    /\ thread[t].pc \in {"using", "read", "block"} =>
         thread[t].table \in DOMAIN tables.handles /\ Table(t).file = thread[t].file
    /\ thread[t].handle # 0 => thread[t].handle \in DOMAIN blocks.handles
    /\ thread[t].pc = "block" => thread[t].read = <<thread[t].file, thread[t].block>>

Agree(c) ==
  /\ c.usage = Cardinality(DOMAIN c.handles) /\ (c.usage <= Capacity \/ c.lru = <<>>)
  /\ Elems(c) = Len(c.lru)
  /\ \A h \in ToSet(c.lru) : h \in DOMAIN c.handles /\ Find(c, c.handles[h].key) = h

(* The hash table, also after it has grown, and the list of a cache have   *)
(* the same entries, each found by its key; usage_ counts what is not      *)
(* freed, and exceeds the capacity only by what readers hold.              *)
CachesAgree == Agree(tables) /\ Agree(blocks)

(* Every mapping that MmapLimiter allowed is given back once its file is   *)
(* closed, on success, failure and eviction alike: the process cannot run  *)
(* out of mappings, nor exceed their number.                               *)
MapsCounted ==
  allowed + Maps(Values(tables)) + Cardinality({t \in Threads : Maps(ToSet(thread[t].opened)) = 1}) = MaxMaps

(* A table whose file was deleted does not stay open: Evict comes after the*)
(* last reader that could open it again (DeleteObsoleteFiles).             *)
EvictedGone == \A v \in Values(tables) : v.file \in disk
=============================================================================
