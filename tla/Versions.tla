------------------------------ MODULE Versions ------------------------------
(***************************************************************************)
(* What a LevelDB database holds: the memtables, and the levels of tables  *)
(* that flushes and compactions rearrange (Version, VersionSet, Compaction *)
(* and the parts of DBImpl that decide which entries survive).  Files and  *)
(* crashes are the subject of DBImpl.                                      *)
(*                                                                         *)
(* An entry is a key, the sequence number of the write and whether it is a *)
(* deletion; its value is the write it came from.  The size of a table is  *)
(* the number of its entries.  A compaction reads what was fixed when it   *)
(* was picked, so it takes two actions, its start and its end; memtables   *)
(* are written, and everything else goes on, in between.                   *)
(***************************************************************************)
EXTENDS Integers, FiniteSets, SequencesExt

CONSTANTS MaxKey,                \* keys are 1 .. MaxKey
          MaxCalls,              \* bound of writes, snapshots and CompactRange
          NumLevels,             \* config::kNumLevels
          MaxMemCompactLevel,    \* config::kMaxMemCompactLevel
          CompactionTrigger,     \* config::kL0_CompactionTrigger
          LevelLimit,            \* MaxBytesForLevel, of every level but 0
          TargetFileSize,        \* kTargetFileSize
          GrandParentLimit,      \* kMaxGrandParentOverlapBytes
          ExpandedLimit          \* kExpandedCompactionByteSizeLimit

ASSUME VersionsAssumption ==
  /\ {MaxKey, NumLevels, CompactionTrigger, LevelLimit, TargetFileSize} \subseteq Nat \ {0}
  /\ MaxMemCompactLevel \in 0 .. NumLevels - 1

VARIABLES written,    \* every write, in the order of the sequence numbers
          mem, imm,   \* entries of the two memtables
          levels,     \* files_ of the current version
          next,       \* next_file_number_
          snapshots,  \* numbers of the snapshots that are held
          pointer,    \* compact_pointer_
          seek,       \* file_to_compact_ of the current version
          job,        \* the compaction that runs
          manual,     \* manual_compaction_
          hist        \* counters of the bounds, and what went wrong

vars == <<written, mem, imm, levels, next, snapshots, pointer, seek, job, manual, hist>>

Keys == 1 .. MaxKey
Levels == 0 .. NumLevels - 1
LastSequence == Len(written)
-----------------------------------------------------------------------------
(* Internal keys: by user key, the newest first.                           *)
Before(e, f) == e.key < f.key \/ (e.key = f.key /\ e.seq > f.seq)

Sorted(S, Less(_, _)) ==
  [i \in 1 .. Cardinality(S) |-> CHOOSE e \in S : Cardinality({f \in S : Less(f, e)}) = i - 1]

First(S) == CHOOSE e \in S : \A f \in S \ {e} : Before(e, f)
Final(S) == CHOOSE e \in S : \A f \in S \ {e} : Before(f, e)

Smallest(f) == First(f.data)
Largest(f) == Final(f.data)
Lo(f) == Smallest(f).key
Hi(f) == Largest(f).key

(* The range of user keys of a set of tables.                              *)
Hull(S) == [lo |-> Min({Lo(f) : f \in S}), hi |-> Max({Hi(f) : f \in S})]
Everything == [lo |-> 0, hi |-> MaxKey + 1]         \* NULL begin and end

TotalFileSize(S) == MapThenSumSet(LAMBDA f : Cardinality(f.data), S)

(* The order of files_[level] (BySmallestKey).                             *)
InOrder(f, g) == \/ Before(Smallest(f), Smallest(g))
                 \/ Smallest(f) = Smallest(g) /\ f.number < g.number
Earliest(S) == CHOOSE f \in S : \A g \in S \ {f} : InOrder(f, g)
Latest(S) == CHOOSE f \in S : \A g \in S \ {f} : InOrder(g, f)

(* The first table of a sorted level whose largest key is not before this. *)
FindFile(S, e) == {f \in S : /\ ~Before(Largest(f), e)
                             /\ \A g \in S : InOrder(g, f) => Before(Largest(g), e)}

Seek(k, s) == [key |-> k, seq |-> s, del |-> FALSE]
Oldest(k) == Seek(k, MaxCalls + 1)                 \* kMaxSequenceNumber

Overlaps(f, r) == Hi(f) >= r.lo /\ Lo(f) <= r.hi

(* SomeFileOverlapsRange                                                   *)
OverlapInLevel(level, r) ==
  IF level = 0 THEN \E f \in levels[0] : Overlaps(f, r)
  ELSE \E f \in FindFile(levels[level], Oldest(r.lo)) : Lo(f) <= r.hi

(* GetOverlappingInputs.  In level 0 the range grows with each table taken,*)
(* until it holds every table that it touches.                             *)
InRange(level, lo, hi) == {f \in levels[level] : Overlaps(f, [lo |-> lo, hi |-> hi])}
Holds(lo, hi) == \A f \in InRange(0, lo, hi) : Lo(f) >= lo /\ Hi(f) <= hi
Grown(r) == {g \in (0 .. r.lo) \X (r.hi .. MaxKey + 1) : Holds(g[1], g[2])}
Innermost(grown) == InRange(0, Max({g[1] : g \in grown}), Min({g[2] : g \in grown}))
GetOverlappingInputs(level, r) ==
  IF level = 0 THEN Innermost(Grown(r)) ELSE InRange(level, r.lo, r.hi)
-----------------------------------------------------------------------------
(* Lookups *)

Newest(S) == CHOOSE e \in S : \A f \in S : f.seq <= e.seq
NotFound == [key |-> 0, seq |-> 0, del |-> TRUE]

(* The entry that a search of these finds for a key at a sequence number.  *)
Visible(data, k, s) == {e \in data : e.key = k /\ e.seq <= s}
Answer(S) == IF S = {} THEN NotFound ELSE Newest(S)

(* The tables that Version::Get reads, in its order: in level 0 those that *)
(* may hold the key, the newest first; then one of each level at most.     *)
Probed(k, s) ==
  LET level0 == {f \in levels[0] : Lo(f) <= k /\ k <= Hi(f)}
      NewestFirst(f, g) == f.number > g.number
      Below(n) == Sorted({f \in FindFile(levels[n], Seek(k, s)) : Lo(f) <= k}, InOrder)
  IN  Sorted(level0, NewestFirst)
      \o FlattenSeq([n \in 1 .. NumLevels - 1 |-> Below(n)])

(* Version::Get and SaveValue: the first table that has the key answers.   *)
VersionGet(k, s) ==
  LET hits == SelectSeq(Probed(k, s), LAMBDA f : Visible(f.data, k, s) # {})
  IN  IF hits = <<>> THEN NotFound ELSE Newest(Visible(Head(hits).data, k, s))

(* DBImpl::Get *)
Get(k, s) ==
  IF Visible(mem, k, s) # {} THEN Newest(Visible(mem, k, s))
  ELSE IF Visible(imm, k, s) # {} THEN Newest(Visible(imm, k, s))
  ELSE VersionGet(k, s)

AllFiles == UNION {levels[n] : n \in Levels}

(* What an iterator merges: everything.                                    *)
Merged == mem \cup imm \cup UNION {f.data : f \in AllFiles}

Current(k, s) == Answer(Visible(ToSet(written), k, s))  \* what is right
-----------------------------------------------------------------------------
Resting == [level |-> -1]
NoManual == [level |-> -1]
NoSeek == <<>>

Init ==
  /\ written = <<>> /\ mem = {} /\ imm = {}
  /\ levels = [n \in Levels |-> {}] /\ next = 1
  /\ snapshots = {} /\ pointer = [n \in Levels |-> NotFound]
  /\ seek = NoSeek /\ job = Resting /\ manual = NoManual
  /\ hist = [calls |-> 0, split |-> {}, inside |-> FALSE]

Called == hist.calls < MaxCalls /\ hist' = [hist EXCEPT !.calls = @ + 1]

Write(k, del) ==
  /\ Called
  /\ LET e == [key |-> k, seq |-> LastSequence + 1, del |-> del]
     IN  written' = Append(written, e) /\ mem' = mem \cup {e}
  /\ UNCHANGED <<imm, levels, next, snapshots, pointer, seek, job, manual>>

(* When the memtable is full depends on sizes; CompactRange forces it.     *)
SwitchMemTable ==
  /\ imm = {} /\ mem # {}
  /\ imm' = mem /\ mem' = {}
  /\ UNCHANGED <<written, levels, next, snapshots, pointer, seek, job, manual, hist>>

GetSnapshot ==
  /\ Called
  /\ snapshots' = snapshots \cup {LastSequence}
  /\ UNCHANGED <<written, mem, imm, levels, next, pointer, seek, job, manual>>

ReleaseSnapshot ==
  /\ \E s \in snapshots : snapshots' = snapshots \ {s}
  /\ UNCHANGED <<written, mem, imm, levels, next, pointer, seek, job, manual, hist>>

(* RecordReadSample: an iterator at a key that two tables may hold.        *)
Sampled(k, s) == Len(Probed(k, s)) >= 2

(* UpdateStats: the first of several tables that a read went through is    *)
(* charged; here any charge may be the one that uses its allowance up.     *)
ChargeSeek(k, s) ==
  /\ seek = NoSeek
  /\ LET probed == Probed(k, s)
         hit == SelectInSeq(probed, LAMBDA f : Visible(f.data, k, s) # {})
     IN  /\ (hit > 1 \/ (hit = 0 /\ Len(probed) > 1)) \/ Sampled(k, s)
         /\ Visible(mem \cup imm, k, s) = {} \/ Sampled(k, s)
         /\ seek' = <<Head(probed)>>
  /\ UNCHANGED <<written, mem, imm, levels, next, snapshots, pointer, job, manual, hist>>
-----------------------------------------------------------------------------
(* A new version (LogAndApply): file_to_compact_ starts again.             *)
Install(lv) == levels' = lv /\ seek' = NoSeek

(* PickLevelForMemTableOutput                                              *)
PickLevel(r) ==
  LET Stays(n) == \/ OverlapInLevel(n + 1, r)
                  \/ /\ n + 2 < NumLevels
                     /\ TotalFileSize(GetOverlappingInputs(n + 2, r)) > GrandParentLimit
  IN  IF OverlapInLevel(0, r) THEN 0
      ELSE Min({n \in 0 .. MaxMemCompactLevel : n = MaxMemCompactLevel \/ Stays(n)})

(* CompactMemTable, also while a compaction runs.                          *)
CompactMemTable ==
  /\ imm # {}
  /\ LET f == [number |-> next, data |-> imm]
         n == PickLevel(Hull({f}))
         range == Hull(job.upper \cup job.lower)
     IN  /\ Install([levels EXCEPT ![n] = @ \cup {f}])
         /\ hist' = IF job # Resting /\ n = job.level + 1 /\ Overlaps(f, range)
                    THEN [hist EXCEPT !.inside = TRUE] ELSE hist
  /\ next' = next + 1 /\ imm' = {}
  /\ UNCHANGED <<written, mem, snapshots, pointer, job, manual>>
-----------------------------------------------------------------------------
(* SetupOtherInputs: the tables below, then more of the level itself if    *)
(* that takes no more of those below.                                      *)
Grows(level, in0, in1, expanded) ==
  /\ in1 # {} /\ Cardinality(expanded) > Cardinality(in0)
  /\ TotalFileSize(in1) + TotalFileSize(expanded) < ExpandedLimit
  /\ Cardinality(GetOverlappingInputs(level + 1, Hull(expanded))) = Cardinality(in1)
Upper(level, in0, in1, expanded) == IF Grows(level, in0, in1, expanded) THEN expanded ELSE in0
GrandParents(level, inputs) ==
  IF level + 2 < NumLevels THEN GetOverlappingInputs(level + 2, Hull(inputs)) ELSE {}
Compaction(level, upper, lower) ==
  [level |-> level, upper |-> upper, lower |-> lower, grand |-> GrandParents(level, upper \cup lower),
   base |-> levels, oldest |-> IF snapshots = {} THEN LastSequence ELSE Min(snapshots)]
WithLower(level, in0, in1) ==
  Compaction(level, Upper(level, in0, in1, GetOverlappingInputs(level, Hull(in0 \cup in1))), in1)
SetupOtherInputs(level, in0) == WithLower(level, in0, GetOverlappingInputs(level + 1, Hull(in0)))

(* compact_pointer_ moves when the compaction is set up.                   *)
Pointed(c) == [pointer EXCEPT ![c.level] = Final(UNION {f.data : f \in c.upper})]

(* Finalize: the level with the highest score, and whether it is due.      *)
Size(n) == IF n = 0 THEN Cardinality(levels[0]) ELSE TotalFileSize(levels[n])
Limit(n) == IF n = 0 THEN CompactionTrigger ELSE LevelLimit
BestLevel ==
  CHOOSE n \in 0 .. NumLevels - 2 : \A m \in 0 .. NumLevels - 2 :
    /\ Size(m) * Limit(n) <= Size(n) * Limit(m)
    /\ m < n => Size(m) * Limit(n) < Size(n) * Limit(m)
SizeDue == Size(BestLevel) >= Limit(BestLevel)

LevelOf(f) == CHOOSE n \in Levels : f \in levels[n]

(* PickCompaction: the level, and its tables.                              *)
PickedLevel == IF SizeDue THEN BestLevel ELSE LevelOf(seek[1])

PickedInputs(level) ==
  LET after == {f \in levels[level] : pointer[level] = NotFound \/ Before(pointer[level], Largest(f))}
      first == IF ~SizeDue THEN seek[1]
               ELSE Earliest(IF after = {} THEN levels[level] ELSE after)
  IN  IF level = 0 THEN GetOverlappingInputs(0, Hull({first})) ELSE {first}

IsTrivialMove(c) == /\ Cardinality(c.upper) = 1 /\ c.lower = {}
                    /\ TotalFileSize(c.grand) <= GrandParentLimit

PickCompaction ==
  /\ job = Resting /\ imm = {}
  /\ SizeDue \/ seek # NoSeek
  /\ \E level \in {PickedLevel} : \E in0 \in {PickedInputs(level)} :
     \E c \in {SetupOtherInputs(level, in0)} :
         /\ pointer' = Pointed(c)
         /\ IF IsTrivialMove(c)
            THEN /\ Install([levels EXCEPT ![c.level] = @ \ c.upper,
                                           ![c.level + 1] = @ \cup c.upper])
                 /\ UNCHANGED job
            ELSE job' = c /\ UNCHANGED <<levels, seek>>
  /\ UNCHANGED <<written, mem, imm, next, snapshots, manual, hist>>
-----------------------------------------------------------------------------
(* DBImpl::CompactRange, one level after the other, and TEST_CompactRange. *)
CompactRange(r) ==
  /\ manual = NoManual /\ Called
  /\ LET deep == {n \in 1 .. NumLevels - 1 : OverlapInLevel(n, r)}
     IN  manual' = [level |-> 0, last |-> Max({1} \cup deep) - 1, begin |-> r.lo, range |-> r]
  /\ UNCHANGED <<written, mem, imm, levels, next, snapshots, pointer, seek, job>>

(* The next level of a manual compaction, or its end.                      *)
(* Mutant: after the last it starts over.                                  *)
OnwardForever == [manual EXCEPT !.level = IF @ = manual.last THEN 0 ELSE @ + 1, !.begin = manual.range.lo]
Onward == IF manual.level = manual.last THEN NoManual
          ELSE [manual EXCEPT !.level = @ + 1, !.begin = manual.range.lo]

(* VersionSet::CompactRange: below level 0, tables up to a total size.     *)
ManualInputs ==
  LET all == GetOverlappingInputs(manual.level, [lo |-> manual.begin, hi |-> manual.range.hi])
      UpTo(f) == {g \in all : g = f \/ InOrder(g, f)}
  IN  IF manual.level = 0 THEN all
      ELSE {f \in all : TotalFileSize(UpTo(f) \ {f}) < TargetFileSize}

RunManual ==
  /\ job = Resting /\ imm = {} /\ manual # NoManual
  /\ IF ManualInputs = {}
     THEN manual' = Onward /\ UNCHANGED <<job, pointer>>
     ELSE \E in0 \in {ManualInputs} : \E c \in {SetupOtherInputs(manual.level, in0)} :
              /\ job' = c /\ pointer' = Pointed(c)
              /\ manual' = [manual EXCEPT !.begin = Hi(Latest(c.upper))]
  /\ UNCHANGED <<written, mem, imm, levels, next, snapshots, seek, hist>>
-----------------------------------------------------------------------------
(* DoCompactionWork *)

(* Mutant: the level below the outputs is left out.                        *)
BaseLevelBelow(c, k) ==
  \A n \in c.level + 3 .. NumLevels - 1 : \A f \in c.base[n] : ~(Lo(f) <= k /\ k <= Hi(f))
IsBaseLevelForKey(c, k) ==
  \A n \in c.level + 2 .. NumLevels - 1 : \A f \in c.base[n] : ~(Lo(f) <= k /\ k <= Hi(f))

(* The entries a compaction keeps: not those that a newer one hides from   *)
(* every snapshot, nor deletions with nothing left to delete.              *)
Hidden(c, e, input) == \E f \in input : f.key = e.key /\ e.seq < f.seq /\ f.seq <= c.oldest

Kept(c) ==
  LET input == UNION {f.data : f \in c.upper \cup c.lower}
      Obsolete(e) == e.del /\ e.seq <= c.oldest /\ IsBaseLevelForKey(c, e.key)
  IN  {e \in input : ~Hidden(c, e, input) /\ ~Obsolete(e)}

(* Where one output ends and the next begins depends on sizes and on the   *)
(* tables two levels below (ShouldStopBefore): it may be after any entry.  *)
Cuts(kept) == SUBSET (1 .. Cardinality(kept) - 1)
Outputs(kept, cuts) ==
  LET Rank(e) == Cardinality({f \in kept : Before(f, e)})
      Part(i) == {e \in kept : Cardinality({c \in cuts : c <= Rank(e)}) = i}
  IN  {[number |-> next + i, data |-> Part(i)] : i \in 0 .. Cardinality(cuts)} \ {[number |-> next, data |-> {}]}

(* The version edit: inputs out, outputs in.                               *)
Edited(c, new) ==
  [levels EXCEPT ![c.level] = @ \ c.upper, ![c.level + 1] = (@ \ c.lower) \cup new]

InstallCompactionResults ==
  /\ job # Resting
  /\ \E kept \in {Kept(job)} : \E cuts \in Cuts(kept) :
       \E new \in {Outputs(kept, cuts)} :
         /\ Install(Edited(job, new))
         /\ next' = next + Cardinality(new)
         /\ hist' = [hist EXCEPT !.split = @ \cup
                       {k \in Keys : \E f, g \in new : f # g /\ Hi(f) = k /\ Lo(g) = k}]
  /\ job' = Resting
  /\ UNCHANGED <<written, mem, imm, snapshots, pointer, manual>>
-----------------------------------------------------------------------------
Background == CompactMemTable \/ PickCompaction \/ RunManual \/ InstallCompactionResults

Ranges == {Everything} \cup {[lo |-> k, hi |-> k] : k \in Keys}

Next ==
  \/ \E k \in Keys, del \in BOOLEAN : Write(k, del)
  \/ SwitchMemTable \/ GetSnapshot \/ ReleaseSnapshot
  \/ \E k \in Keys, s \in snapshots \cup {LastSequence} : ChargeSeek(k, s)
  \/ \E r \in Ranges : CompactRange(r)
  \/ Background

(* WF_vars(Background), with what enables a step of it written out: TLC    *)
(* takes long to find out.                                                 *)
Due == imm # {} \/ job # Resting \/ manual # NoManual \/ SizeDue \/ seek # NoSeek
Fairness == []<>~Due \/ []<><<Background>>_vars

Spec == Init /\ [][Next]_vars /\ Fairness
-----------------------------------------------------------------------------
TypeOK ==
  /\ mem \cup imm \subseteq ToSet(written)
  /\ \A f \in AllFiles : f.data # {} /\ f.data \subseteq ToSet(written) /\ f.number < next
  /\ seek # NoSeek => \E n \in 0 .. NumLevels - 2 : seek[1] \in levels[n]
  /\ job # Resting => /\ job.upper \subseteq levels[job.level]
                      /\ job.lower \subseteq levels[job.level + 1]

Told(e) == IF e.del THEN NotFound ELSE e
Readable == snapshots \cup {LastSequence}
Unsplit == Keys \ hist.split

(* A read finds the newest write of its key, as of now or of a snapshot,   *)
(* wherever flushes, moves and compactions have put it: searching level by *)
(* level is right, and no deletion is dropped while an older write could   *)
(* show through it.  Keys whose versions a compaction has cut apart        *)
(* (hist.split) are the subject of ReadsNewest; see NoOverlap for          *)
(* hist.inside (Version::Get, DoCompactionWork).                           *)
ReadsRight ==
  ~hist.inside =>
    \A k \in Unsplit, s \in Readable : Told(Get(k, s)) = Told(Current(k, s))

(* An iterator, which merges all levels, sees the same: compactions drop   *)
(* no entry that now or a snapshot needs (DoCompactionWork).               *)
MergedRight ==
  ~hist.inside =>
    \A k \in Unsplit, s \in Readable :
      Told(Answer(Visible(Merged, k, s))) = Told(Current(k, s))

Apart(f, g) == Before(Largest(f), Smallest(g)) \/ Before(Largest(g), Smallest(f))
NoOverlap == \A n \in 1 .. NumLevels - 1 : \A f, g \in levels[n] : f = g \/ Apart(f, g)

(* The tables of a level other than 0 do not overlap, though the memtable  *)
(* is flushed below level 0 while a compaction runs (version_set.cc,       *)
(* MaybeAddFile), unless it was flushed into the range of a compaction     *)
(* whose tables leave a gap there (hist.inside).                           *)
LevelsDisjoint == ~hist.inside => NoOverlap

(* What gets and iterators find is right, in levels that are in order.     *)
VersionsRight == TypeOK /\ ReadsRight /\ MergedRight /\ LevelsDisjoint

(* Left alone, the background thread comes to rest with the memtable       *)
(* flushed, the manual compaction done and no level too large: compactions *)
(* do not feed one another (Finalize, PickCompaction, CompactRange).       *)
Settles == <>[](imm = {} /\ job = Resting /\ manual = NoManual /\ ~SizeDue)

(* "If we find data in a smaller level, later levels are irrelevant"       *)
(* (version_set.cc, Version::Get), for every key.                          *)
ReadsNewest == \A k \in Keys, s \in Readable : Told(Get(k, s)) = Told(Current(k, s))
=============================================================================
