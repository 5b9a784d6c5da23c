------------------------------- MODULE SkipList -------------------------------
(***************************************************************************)
(* LevelDB's memtable: a skip list (db/skiplist.h) whose nodes live in an  *)
(* arena (util/arena.cc), written by one writer at a time and read without *)
(* a lock (db/memtable.cc).                                                *)
(*                                                                         *)
(* An entry is known by its sequence number, a node by that of its entry.  *)
(* A reader's step is one load of a link.  Links are published by release  *)
(* stores and read by acquire loads, so they are modelled as sequentially  *)
(* consistent; max_height_ is read without a barrier and may be any value  *)
(* that it has had.                                                        *)
(***************************************************************************)
EXTENDS Integers, FiniteSetsExt

CONSTANTS MaxKey, MaxWrites, MaxHeight,   \* bounds; MaxHeight is kMaxHeight
          Readers, MaxReads,              \* bound: operations of all readers
          BlockSize, Align, EntrySizes    \* of the arena, in any unit

(* A node has at least one level, and no entry is empty.                   *)
ASSUME ParametersAssumption ==
  /\ MaxKey \in Nat /\ MaxWrites \in Nat /\ MaxReads \in Nat
  /\ MaxHeight \in Nat \ {0}
  /\ BlockSize \in Nat \ {0} /\ Align \in Nat \ {0} /\ EntrySizes \subseteq Nat \ {0}

VARIABLES key,       \* the key of each node
          next,      \* its links, by level
          heights,   \* the values that max_height_ has had
          insert,    \* the writer, in Insert
          last,      \* the last sequence number that readers are given
          reader,    \* the operations of readers
          arena,     \* fields of Arena, and what it handed out
          reads      \* counter of the bound

vars == <<key, next, heights, insert, last, reader, arena, reads>>

Top == 0
Nil == -1
Nodes == DOMAIN key
Height(n) == Cardinality(DOMAIN next[n])
MaxHeightNow == Max(heights)

(* Internal keys: by user key, the newest first.                           *)
Before(a, b) == a.key < b.key \/ (a.key = b.key /\ a.seq > b.seq)
Entry(n) == [key |-> key[n], seq |-> n]
-----------------------------------------------------------------------------
(* Arena.  An address is a block and an offset in it.                      *)

NewArena == [blocks |-> 0, current |-> 0, at |-> 0, remaining |-> 0, used |-> {}]

Hand(a, block, from, bytes) == [a EXCEPT !.used = @ \cup {[block |-> block, from |-> from, to |-> from + bytes]}]

AllocateFallback(a, bytes) ==
  LET n == a.blocks + 1
  IN  IF bytes > BlockSize \div 4
      THEN Hand([a EXCEPT !.blocks = n], n, 0, bytes)
      ELSE Hand([a EXCEPT !.blocks = n, !.current = n, !.at = bytes, !.remaining = BlockSize - bytes],
                n, 0, bytes)

Bump(a, slop, bytes) ==
  IF slop + bytes <= a.remaining
  THEN Hand([a EXCEPT !.at = @ + slop + bytes, !.remaining = @ - slop - bytes],
            a.current, a.at + slop, bytes)
  ELSE AllocateFallback(a, bytes)

Allocate(a, bytes) == Bump(a, 0, bytes)
AllocateAligned(a, bytes) == Bump(a, (Align - (a.at % Align)) % Align, bytes)

NodeSize(height) == Align * (1 + height)      \* the key's pointer, and links
-----------------------------------------------------------------------------

(* Search as a writer does it, which nobody else changes the list under:   *)
(* the last node before an entry at each level.                            *)
Prev(e, l) ==
  CHOOSE n \in DOMAIN next :
    /\ l <= Height(n)
    /\ n = Top \/ Before(Entry(n), e)
    /\ next[n][l] = Nil \/ ~Before(Entry(next[n][l]), e)

Resting == [node |-> 0, level |-> 0, prev |-> <<>>]
Ready == [pc |-> "idle"]

Init ==
  /\ key = [n \in {} |-> 0] /\ next = [n \in {Top} |-> [l \in 1 .. MaxHeight |-> Nil]]
  /\ heights = {1} /\ insert = Resting /\ last = 0
  /\ reader = [r \in Readers |-> Ready] /\ reads = 0
  /\ arena = AllocateAligned(NewArena, NodeSize(MaxHeight))

(* MemTable::Add, and Insert up to its loop: the entry and its node take   *)
(* memory, the list may get higher.                                        *)
Add(k, size, height) ==
  /\ insert = Resting /\ Cardinality(Nodes) = last /\ last < MaxWrites
  /\ LET n == last + 1
         e == [key |-> k, seq |-> n]
     IN  /\ key' = [m \in Nodes \cup {n} |-> IF m = n THEN k ELSE key[m]]
         /\ next' = [m \in DOMAIN next \cup {n} |-> IF m = n THEN [l \in 1 .. height |-> Nil] ELSE next[m]]
         /\ insert' = [node |-> n, level |-> 1, prev |-> [l \in 1 .. height |-> Prev(e, l)]]
  /\ heights' = heights \cup (IF height > MaxHeightNow THEN {height} ELSE {})
  /\ arena' = AllocateAligned(Allocate(arena, size), NodeSize(height))
  /\ UNCHANGED <<last, reader, reads>>

(* The loop of Insert: level by level from the lowest.                     *)
Link ==
  /\ insert # Resting
  /\ LET n == insert.node  l == insert.level  p == insert.prev[l]
     IN  /\ next' = [next EXCEPT ![n][l] = next[p][l], ![p][l] = n]
         /\ insert' = IF l = Height(n) THEN Resting ELSE [insert EXCEPT !.level = @ + 1]
  /\ UNCHANGED <<key, heights, last, reader, arena, reads>>

(* Mutant: an entry is visible before it is linked. *)
PublishEarly ==
  /\ Cardinality(Nodes) = last + 1
  /\ last' = last + 1
  /\ UNCHANGED <<key, next, heights, insert, reader, arena, reads>>

(* The end of DBImpl::Write makes the entry visible.                       *)
Publish ==
  /\ insert = Resting /\ Cardinality(Nodes) = last + 1
  /\ last' = last + 1
  /\ UNCHANGED <<key, next, heights, insert, reader, arena, reads>>
-----------------------------------------------------------------------------
(* Readers.  An operation begins where the iterator is ("at"); it searches *)
(* for the first entry that is not before a target ("ge"), the last that   *)
(* is ("lt"), or the last of all ("last"), or it follows one link.         *)

Idle(r) == reader[r].pc \in {"idle", "done"}

Search(r, mode, target) ==
  /\ Idle(r) /\ reads < MaxReads
  /\ \E h \in heights :
       reader' = [reader EXCEPT ![r] = [pc |-> "search", mode |-> mode, target |-> target,
                                        x |-> Top, level |-> h, loads |-> 0, seen |-> last, result |-> Nil]]
  /\ reads' = reads + 1
  /\ UNCHANGED <<key, next, heights, insert, last, arena>>

(* MemTable::Get, and Seek: sequence numbers after the target's are passed.*)
Seek(r, k) == Search(r, "ge", [key |-> k, seq |-> last])
SeekToLast(r) == Search(r, "last", [key |-> MaxKey + 1, seq |-> 0])
Valid(r) == reader[r].pc = "done" /\ reader[r].result \in Nodes
Back(r) == Valid(r) /\ Search(r, "lt", Entry(reader[r].result))

Lower(s) == [s EXCEPT !.level = @ - 1, !.loads = @ + 1]

(* One load of a link.                                                     *)
Step(r) ==
  /\ reader[r].pc = "search"
  /\ LET s == reader[r]
         n == next[s.x][s.level]
         onward == n # Nil /\ (s.mode = "last" \/ Before(Entry(n), s.target))
         found == IF s.mode = "ge" THEN n ELSE IF s.x = Top THEN Nil ELSE s.x
     IN  reader' = [reader EXCEPT ![r] =
           IF onward THEN [s EXCEPT !.x = n, !.loads = @ + 1]
           ELSE IF s.level > 1 THEN Lower(s)
           ELSE [s EXCEPT !.pc = "done", !.result = found]]
  /\ UNCHANGED <<key, next, heights, insert, last, arena, reads>>

(* SeekToFirst and Next follow a link of the lowest level.                 *)
Follow(r, n, mode) ==
  /\ Idle(r) /\ reads < MaxReads
  /\ reader' = [reader EXCEPT ![r] = [pc |-> "done", mode |-> mode, x |-> n, level |-> 1, seen |-> last,
                                      target |-> IF n = Top THEN [key |-> 0, seq |-> 0] ELSE Entry(n),
                                      result |-> next[n][1]]]
  /\ reads' = reads + 1
  /\ UNCHANGED <<key, next, heights, insert, last, arena>>

SeekToFirst(r) == Follow(r, Top, "first")
Forward(r) == Valid(r) /\ Follow(r, reader[r].result, "next")
-----------------------------------------------------------------------------
Next == \/ \E k \in 1 .. MaxKey, size \in EntrySizes, height \in 1 .. MaxHeight : Add(k, size, height)
        \/ Link \/ Publish
        \/ \E r \in Readers : \/ \E k \in 1 .. MaxKey : Seek(r, k)
                              \/ SeekToLast(r) \/ Back(r) \/ Step(r) \/ SeekToFirst(r) \/ Forward(r)

Spec == Init /\ [][Next]_vars
-----------------------------------------------------------------------------
TypeOK ==
  /\ Nodes \in {1 .. last, 1 .. last + 1} /\ DOMAIN next = Nodes \cup {Top}
  /\ \A n \in DOMAIN next : \A l \in DOMAIN next[n] : next[n][l] \in Nodes \cup {Nil}
  /\ heights \subseteq 1 .. MaxHeight

Results(r) == {n \in Nodes : n <= reader[r].seen}

(* The entries that a search has to pass, and those that it must not.      *)
Passes(s, m) ==
  /\ s.mode # "first"
  /\ s.mode = "last" \/ Before(Entry(m), s.target) \/ (s.mode = "next" /\ Entry(m) = s.target)
Forwards(s) == s.mode \in {"ge", "first", "next"}

(* A reader without a lock passes over no entry that was visible when it   *)
(* began: a search, a step forward or back ends at an entry on the right   *)
(* side of its target with no visible one in between, whatever is inserted *)
(* meanwhile (skiplist.h, Thread safety).                                  *)
MissesNothing ==
  \A r \in Readers : LET s == reader[r] IN s.pc = "done" =>
    /\ s.result # Nil => (Forwards(s) <=> ~Passes(s, s.result))
    /\ \A m \in Results(r) :
         IF Forwards(s) THEN Passes(s, m) \/ (s.result # Nil /\ ~Before(Entry(m), Entry(s.result)))
         ELSE Passes(s, m) => s.result # Nil /\ ~Before(Entry(s.result), Entry(m))

(* MemTable::Get finds the newest version of its key at its sequence       *)
(* number, never one that is being inserted, and no other key for it.      *)
GetRight ==
  \A r \in Readers : LET s == reader[r] IN (s.pc = "done" /\ s.mode = "ge") =>
    LET versions == {n \in Results(r) : key[n] = s.target.key /\ n <= s.target.seq}
    IN  IF versions = {} THEN s.result = Nil \/ key[s.result] # s.target.key
        ELSE s.result = Max(versions)

(* At every moment of an insertion each level is in order and skips only   *)
(* visible nodes that are not that high (skiplist.h, Invariants).          *)
LevelsNested ==
  \A n \in DOMAIN next : \A l \in DOMAIN next[n] :
    LET m == next[n][l]
        Between(o) == Before(Entry(o), Entry(m)) /\ (n = Top \/ Before(Entry(n), Entry(o)))
    IN  m # Nil => /\ n = Top \/ Before(Entry(n), Entry(m))
                   /\ l \in DOMAIN next[m]
                   /\ \A o \in 1 .. last : Between(o) => Height(o) < l

(* No two pieces of memory that the arena has handed out overlap, nor does *)
(* one overlap what is left of the current block: large pieces in blocks   *)
(* of their own do not disturb it, and alignment stays within it.          *)
MemorySafe ==
  /\ \A a, b \in arena.used : a = b \/ a.block # b.block \/ a.to <= b.from \/ b.to <= a.from
  /\ \A a \in arena.used : a.block # arena.current \/ (a.to <= arena.at /\ arena.at + arena.remaining = BlockSize)
  /\ arena.remaining >= 0
  /\ Cardinality(arena.used) = 1 + 2 * Cardinality(Nodes)

(* A search ends, though nodes are inserted where it goes: it loads no more*)
(* links than there are levels and nodes, those inserted meanwhile included*)
(* (SkipList::FindGreaterOrEqual).                                         *)
SearchesEnd ==
  \A r \in Readers : reader[r].pc = "search" => reader[r].loads < MaxHeight + Cardinality(Nodes)

(* The memtable: a reader passes over no entry that it may see and finds   *)
(* the newest of a key, each level of the list is in order at every        *)
(* moment, searches end though nodes are inserted where they go, and the   *)
(* pieces of the arena do not overlap (SkipList, MemTable::Get, Arena).    *)
MemtableRight == TypeOK /\ MissesNothing /\ GetRight /\ LevelsNested /\ MemorySafe /\ SearchesEnd
=============================================================================
