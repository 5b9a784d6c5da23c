-------------------------------- MODULE DBIter --------------------------------
(***************************************************************************)
(* A LevelDB iterator (db/db_iter.cc) over what MergingIterator            *)
(* (table/merger.cc) merges: a memtable that others go on writing to, and  *)
(* a table.  It shows the database as of a sequence number.                *)
(*                                                                         *)
(* First the table and the memtable get their entries, then the iterator   *)
(* is created and moves; an entry's value is its sequence number.  A step  *)
(* of the iterator is one move of the internal iterator.                   *)
(***************************************************************************)
EXTENDS Table

CONSTANTS MaxMoves,    \* bound: calls of the iterator, unreadable blocks, writes
                       \* between calls
          MaxNewer,    \* bound: entries newer than it, written before or after
          MaxBad       \* bound: unreadable blocks

VARIABLES dels,      \* the sequence numbers of deletions
          mem,       \* the keys in the memtable
          inner,     \* MergingIterator and its children
          bad,       \* the blocks of the table that cannot be read
          iter,      \* DBIter
          hist       \* the call that runs, and counters of the bounds

vars == <<builder, table, dels, mem, inner, bad, iter, hist>>

Keys == 1 .. MaxKey
NoInner == [dir |-> "forward", current |-> "none", mem |-> <<>>, table |-> Closed]
NoIter == [pc |-> "none"]

Init ==
  /\ TableInit /\ dels = {} /\ mem = {} /\ inner = NoInner /\ bad = {} /\ iter = NoIter
  /\ hist = [moves |-> 0, seqs |-> {}, sequence |-> 0, call |-> <<>>, turns |-> 0]

(* Entries go to the table in their order, to the memtable in any.         *)
Fresh(seq) == seq \in 1 .. MaxEntries \ hist.seqs
Mark(seq, del) == /\ hist' = [hist EXCEPT !.seqs = @ \cup {seq}]
                  /\ dels' = IF del THEN dels \cup {seq} ELSE dels

AddToTable(k, seq, del) ==
  /\ Fresh(seq) /\ Mark(seq, del) /\ Add(<<k, seq>>, seq)
  /\ UNCHANGED <<mem, inner, bad, iter>>

FinishTable ==
  /\ hist.seqs # {} /\ Finish
  /\ UNCHANGED <<dels, mem, inner, bad, iter, hist>>

AddToMem(k, seq, del) ==
  /\ table # <<>> /\ iter = NoIter /\ Fresh(seq) /\ \A s \in 1 .. seq - 1 : ~Fresh(s)
  /\ Mark(seq, del) /\ mem' = mem \cup {<<k, seq>>}
  /\ UNCHANGED <<builder, table, inner, bad, iter>>

NewIterator ==
  /\ table # <<>> /\ iter = NoIter
  /\ iter' = [pc |-> "idle", dir |-> "forward", valid |-> FALSE, key |-> 0, value |-> 0, saved |-> 0,
              type |-> "deletion", skipping |-> FALSE]
  /\ bad' \in {S \in SUBSET DOMAIN table[1].blocks : Cardinality(S) <= MaxBad}
  /\ hist.seqs = 1 .. MaxEntries
  /\ \E n \in {MaxEntries - 1, MaxEntries} :
       hist' = [hist EXCEPT !.sequence = n, !.moves = Cardinality(bad')]
  /\ UNCHANGED <<builder, table, dels, mem, inner>>

(* A write while the iterator is in use is newer than its sequence number. *)
Newest == Max({MaxEntries} \cup {e[2] : e \in mem})
MayWrite == Newest - hist.sequence < MaxNewer
Write(k) ==
  /\ iter # NoIter /\ MayWrite /\ hist.moves < MaxMoves
  /\ mem' = mem \cup {<<k, Newest + 1>>}
  /\ hist' = [hist EXCEPT !.moves = @ + 1]
  /\ UNCHANGED <<builder, table, dels, inner, bad, iter>>
-----------------------------------------------------------------------------
(* The memtable's iterator is at one of its keys, or nowhere.              *)

Extreme(S, Less(_, _)) ==
  IF S = {} THEN <<>> ELSE CHOOSE e \in S : \A f \in S \ {e} : Less(e, f)
After(a, b) == Before(b, a)

MemSeek(S, target) == Extreme({e \in S : ~Before(e, target)}, Before)
MemNext(S, at) == Extreme({e \in S : Before(at, e)}, Before)
MemPrev(S, at) == Extreme({e \in S : Before(e, at)}, After)

(* MergingIterator.  Its children are "mem" and "table".                   *)

T == table[1]
ChildKey(m, c) == IF c = "mem" THEN m.mem
                  ELSE IF DataValid(T, m.table, bad) THEN DataKey(m.table) ELSE <<>>

Nearest(m, Less(_, _)) ==
  LET M == ChildKey(m, "mem")  K == ChildKey(m, "table")
  IN  [m EXCEPT !.current = IF M = <<>> /\ K = <<>> THEN "none"
                            ELSE IF K = <<>> \/ (M # <<>> /\ Less(M, K)) THEN "mem" ELSE "table"]

FindSmallest(m) == [Nearest(m, Before) EXCEPT !.dir = "forward"]
FindLargest(m) == [Nearest(m, After) EXCEPT !.dir = "reverse"]

InnerValid(m) == m.current # "none"
InnerKey(m) == ChildKey(m, m.current)

InnerSeek(m, target) ==
  FindSmallest([m EXCEPT !.mem = MemSeek(mem, target), !.table = TableSeek(T, @, bad, target)])
InnerSeekToFirst(m) ==
  FindSmallest([m EXCEPT !.mem = Extreme(mem, Before), !.table = TableSeekToFirst(T, @, bad)])
InnerSeekToLast(m) ==
  FindLargest([m EXCEPT !.mem = Extreme(mem, After), !.table = TableSeekToLast(T, @, bad)])

(* A turn: the child that is not the current one goes to the other side of *)
(* the current key.  A child that has nothing after the key goes to its    *)
(* last entry, which in the memtable may be one that was written in between*)
(* (later).                                                                *)
TableAfter(t, key) == IF DataValid(T, t, bad) /\ DataKey(t) = key THEN TableNext(T, t, bad) ELSE t
TableBefore(t) == IF DataValid(T, t, bad) THEN TablePrev(T, t, bad) ELSE TableSeekToLast(T, t, bad)
MemBefore(at, later) == IF at = <<>> THEN Extreme(later, After) ELSE MemPrev(mem, at)

(* Mutant: the other child stays where it is. *)
NoTurn(m, key) == m

TurnForward(m, key) ==
  IF m.current = "table" THEN [m EXCEPT !.mem = MemNext(mem, key)]
  ELSE [m EXCEPT !.table = TableAfter(TableSeek(T, @, bad, key), key)]
TurnBack(m, key, later) ==
  IF m.current = "table" THEN [m EXCEPT !.mem = MemBefore(MemSeek(mem, key), later)]
  ELSE [m EXCEPT !.table = TableBefore(TableSeek(T, @, bad, key))]

MoveNext(m) == IF m.current = "mem" THEN [m EXCEPT !.mem = MemNext(mem, @)]
               ELSE [m EXCEPT !.table = TableNext(T, @, bad)]
MovePrev(m) == IF m.current = "mem" THEN [m EXCEPT !.mem = MemPrev(mem, @)]
               ELSE [m EXCEPT !.table = TablePrev(T, @, bad)]

InnerNext(m) == FindSmallest(MoveNext(IF m.dir = "forward" THEN m ELSE TurnForward(m, InnerKey(m))))
InnerPrev(m, later) == FindLargest(MovePrev(IF m.dir = "reverse" THEN m ELSE TurnBack(m, InnerKey(m), later)))

(* MergingIterator::status, which DBIter passes on.                        *)
StatusOk == inner.table.ok /\ inner.table.block \notin bad
-----------------------------------------------------------------------------
(* DBIter.  A call sets the iterator off ("next", "back" or "prev"), and   *)
(* its loop turns until it is idle again.                                  *)

Sequence == hist.sequence
Current == InnerKey(inner)

Called(c) == /\ iter.pc = "idle" /\ hist.moves < MaxMoves
             /\ hist' = [hist EXCEPT !.moves = @ + 1, !.call = <<c, IF iter.valid THEN iter.key ELSE 0>>,
                                      !.turns = 0]
             /\ UNCHANGED <<builder, table, dels, mem, bad>>

Invalid(it) == [it EXCEPT !.pc = "idle", !.valid = FALSE, !.saved = 0]
Start(it, m, pc) == /\ inner' = m
                    /\ iter' = IF InnerValid(m) THEN [it EXCEPT !.pc = pc] ELSE Invalid(it)

Forward(skipping) == [iter EXCEPT !.dir = "forward", !.skipping = skipping]

Seek(k) == /\ Called(<<"seek", k>>)
           /\ Start([Forward(FALSE) EXCEPT !.saved = k], InnerSeek(inner, <<k, Sequence>>), "next")

SeekToFirst == /\ Called(<<"first">>)
               /\ Start([Forward(FALSE) EXCEPT !.saved = 0], InnerSeekToFirst(inner), "next")

Reverse_(it) == [it EXCEPT !.dir = "reverse", !.pc = "prev", !.type = "deletion"]

SeekToLast == /\ Called(<<"last">>)
              /\ inner' = InnerSeekToLast(inner) /\ iter' = Reverse_(iter)

Next_ == /\ iter.pc = "idle" /\ iter.valid /\ Called(<<"next">>)
         /\ IF iter.dir = "reverse"
            THEN Start(Forward(TRUE),
                       IF InnerValid(inner) THEN InnerNext(inner) ELSE InnerSeekToFirst(inner), "next")
            ELSE Start([Forward(TRUE) EXCEPT !.saved = Current[1]], inner, "next")

Prev == /\ iter.pc = "idle" /\ iter.valid /\ Called(<<"prev">>)
        /\ iter' = IF iter.dir = "forward" THEN [iter EXCEPT !.pc = "back", !.saved = Current[1]]
                   ELSE Reverse_(iter)
        /\ UNCHANGED inner

(* A turn of the loop of FindNextUserEntry.                                *)
FindNextUserEntry ==
  /\ iter.pc = "next"
  /\ LET k == Current[1]
         visible == Current[2] <= Sequence
         del == Current[2] \in dels
         yields == visible /\ ~del /\ ~(iter.skipping /\ k <= iter.saved)
         after == IF visible /\ del THEN [iter EXCEPT !.saved = k, !.skipping = TRUE] ELSE iter
     IN  IF yields
         THEN /\ iter' = [iter EXCEPT !.pc = "idle", !.valid = TRUE, !.saved = 0,
                                      !.key = k, !.value = Current[2]]
              /\ UNCHANGED inner
         ELSE Start(after, InnerNext(inner), "next")
  /\ UNCHANGED <<builder, table, dels, mem, bad>>

(* Moving back, with a write in between or not.                            *)
StepBack == \E S \in {mem} \cup {mem \cup {<<k, Newest + 1>>} : k \in Keys} :
              /\ S = mem \/ MayWrite
              /\ inner' = InnerPrev(inner, S) /\ mem' = S

(* A turn of the loop of Prev, that leaves the entries of the current key. *)
ScanBack ==
  /\ iter.pc = "back"
  /\ StepBack
  /\ iter' = IF ~InnerValid(inner') THEN Invalid(iter)
             ELSE IF ChildKey(inner', inner'.current)[1] < iter.saved THEN Reverse_(iter) ELSE iter
  /\ UNCHANGED <<builder, table, dels, bad>>

(* The end of FindPrevUserEntry.                                           *)
EndPrev == /\ iter' = IF iter.type = "deletion"
                      THEN [Invalid(iter) EXCEPT !.dir = "forward"]
                      ELSE [iter EXCEPT !.pc = "idle", !.valid = TRUE, !.key = iter.saved]
           /\ UNCHANGED <<inner, mem>>

FindPrevUserEntry ==
  /\ iter.pc = "prev"
  /\ IF ~InnerValid(inner) THEN EndPrev
     ELSE LET visible == Current[2] <= Sequence
              del == Current[2] \in dels
          IN  IF visible /\ iter.type = "value" /\ Current[1] < iter.saved THEN EndPrev
              ELSE /\ StepBack
                   /\ iter' = IF ~visible THEN iter
                              ELSE IF del THEN [iter EXCEPT !.type = "deletion", !.saved = 0]
                              ELSE [iter EXCEPT !.type = "value", !.saved = Current[1], !.value = Current[2]]
  /\ UNCHANGED <<builder, table, dels, bad>>
-----------------------------------------------------------------------------
Build == \/ \E k \in Keys, seq \in 1 .. MaxEntries, del \in BOOLEAN :
              AddToTable(k, seq, del) \/ AddToMem(k, seq, del)
         \/ FinishTable \/ NewIterator
Loop == /\ FindNextUserEntry \/ ScanBack \/ FindPrevUserEntry
        /\ hist' = [hist EXCEPT !.turns = @ + 1]

Next == \/ Build \/ (\E k \in Keys : Write(k) \/ (iter # NoIter /\ Seek(k)))
        \/ iter # NoIter /\ (SeekToFirst \/ SeekToLast \/ Next_ \/ Prev \/ Loop)

Spec == Init /\ [][Next]_vars
-----------------------------------------------------------------------------
(* What the table and the database hold.                                   *)
TableKeys == UNION {{Parsed(T.blocks[n], 0, i - 1) : i \in DOMAIN T.blocks[n].cells} : n \in DOMAIN T.blocks}

Version(k) == LET S == {e[2] : e \in {f \in mem \cup TableKeys : f[1] = k /\ f[2] <= Sequence}}
              IN  IF S = {} THEN 0 ELSE Max(S)
Live == {k \in Keys : Version(k) \notin {0} \cup dels}

TypeOK ==
  /\ builder.pending => builder.data.cells = <<>>
  /\ mem \subseteq Keys \X (1 .. MaxEntries + MaxNewer)
  /\ inner.table.block \in 0 .. (IF table = <<>> THEN 0 ELSE Len(T.blocks))
  /\ iter # NoIter => /\ iter.pc \in {"idle", "next", "back", "prev"}
                      /\ iter.pc = "next" => iter.dir = "forward" /\ InnerValid(inner)
                      /\ iter.pc = "prev" => iter.dir = "reverse"

(* The key that a call has to come to, 0 for none.                         *)
Low(S) == IF S = {} THEN 0 ELSE Min(S)
High(S) == IF S = {} THEN 0 ELSE Max(S)
Right(call, from) ==
  CASE call[1] = "seek" -> Low({k \in Live : k >= call[2]})
    [] call[1] = "first" -> Low(Live)
    [] call[1] = "last" -> High(Live)
    [] call[1] = "next" -> Low({k \in Live : k > from})
    [] call[1] = "prev" -> High({k \in Live : k < from})

(* A move of an iterator comes to the next user key in its direction that  *)
(* exists at its sequence number, with its newest value then, or to the    *)
(* end: in both directions and after a turn, over deletions and older      *)
(* versions, across blocks and restart points, while others write; unless  *)
(* it reports that a block could not be read (db_iter.cc, merger.cc).      *)
IterationRight ==
  (iter # NoIter /\ iter.pc = "idle" /\ hist.call # <<>> /\ StatusOk) =>
    LET k == Right(hist.call[1], hist.call[2])
    IN  IF iter.valid THEN iter.key = k /\ iter.value = Version(k) ELSE k = 0

(* A lookup in a table finds the newest version of a key at a sequence     *)
(* number if there is one, whatever separators and successors the index    *)
(* has: no block is passed over and no filter excludes a key it was made   *)
(* for (Table::InternalGet).                                               *)
GetsRight ==
  (table # <<>> /\ iter = NoIter) =>
    \A k \in Keys, s \in 1 .. MaxEntries :
      LET hit == InternalGet(T, <<k, s>>)
          versions == {e \in TableKeys : e[1] = k /\ e[2] <= s}
      IN  versions # {} => hit = <<Extreme(versions, Before)>>

(* A call of the iterator ends: its loop takes no more turns than twice the*)
(* number of entries, those written meanwhile included.                    *)
TurnsBounded == hist.turns <= 2 * (MaxEntries + MaxNewer) + 1
=============================================================================
