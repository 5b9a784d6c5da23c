------------------------------- MODULE DBImpl -------------------------------
(***************************************************************************)
(* The database of the LevelDB library (Pods/leveldb-library): writers in  *)
(* a queue, a memtable with its log, one background thread that writes     *)
(* tables and compacts them, readers that hold on to what they read, the   *)
(* manifest, crashes at any point and recovery.                            *)
(*                                                                         *)
(* A write is a batch of one entry, an entry a pair of its sequence number *)
(* and the identity of the write.  Keys, and which entries a compaction    *)
(* drops, are the subject of Versions; here a compaction keeps them all.   *)
(* An action is what runs between taking and releasing mutex_, or one      *)
(* operation on a file while it is released.                               *)
(***************************************************************************)
EXTENDS Integers, FiniteSets, SequencesExt

CONSTANTS Threads, Readers,      \* callers of Write and CompactRange, of Get
          Budget,                \* bound: a call of Write takes two, one of
                                 \* CompactRange, a read, failure, close or crash one
          BufferWrites,          \* write_buffer_size, in writes
          CompactionTrigger, SlowdownTrigger, StopTrigger  \* kL0_...Trigger

ASSUME DBAssumption ==
  /\ Threads # {} /\ "none" \notin Threads
  /\ {Budget, BufferWrites} \subseteq Nat
  /\ CompactionTrigger \in Nat \ {0} /\ SlowdownTrigger \in Nat \ {0}
  /\ StopTrigger >= CompactionTrigger

VARIABLES disk,      \* the files of the database directory
          phase,     \* how far DB::Open is, "up" once it has returned
          opening,   \* what DB::Open has gathered
          vset,      \* VersionSet
          db,        \* fields of DBImpl
          queue,     \* writers_
          thread,    \* callers in Write and CompactRange
          awake,     \* callers whose condition variable was signalled
          bg,        \* the background thread
          reader,    \* callers in Get, or holding an iterator
          hist       \* what callers were told, and counters of the bounds

vars == <<disk, phase, opening, vset, db, queue, thread, awake, bg, reader, hist>>

None == -1                                   \* a field an edit does not have
-----------------------------------------------------------------------------
(* Files and edits *)

NoFiles == [n \in {} |-> 0]
Edit(add, del) == [add |-> add, del |-> del, log |-> None, next |-> None, last |-> None]

Without(f, S) == [n \in DOMAIN f \ S |-> f[n]]
Over(f, g) == [n \in DOMAIN f \cup DOMAIN g |-> IF n \in DOMAIN f THEN f[n] ELSE g[n]]
Put(f, n, x) == Over([k \in {n} |-> x], f)

(* VersionSet::Builder *)
Apply(files, e) == Over(e.add, Without(files, e.del))

Latest(old, new) == IF new = None THEN old ELSE new

(* What a manifest says is what its records add up to.                     *)
Says(said, e) == [files |-> Apply(said.files, e), log |-> Latest(said.log, e.log),
                  next |-> Latest(said.next, e.next), last |-> Latest(said.last, e.last)]

Nothing == [files |-> NoFiles, log |-> None, next |-> None, last |-> None]

(* A manifest: what it says now, whatever it may say after the power has   *)
(* failed, and whether a failed append has left part of a record.          *)
Synced(said) == [all |-> said, left |-> {said}, torn |-> FALSE]

(* Another record.  VersionSet::Recover refuses a manifest with a record   *)
(* behind part of one: it says Nothing.                                    *)
Extended(m, e) ==
  LET said == IF m.torn THEN Nothing ELSE Says(m.all, e)
  IN  [m EXCEPT !.all = said, !.left = @ \cup {said}]

(* A record of a log is the set of its entries.                            *)
Torn == {}                                   \* a record cut by a failed append

(* What RecoverLogFile gets from the first k records of a log: the reader  *)
(* drops what follows a torn record in its block.                          *)
ReadLog(log, k) ==
  UNION {log.recs[i] : i \in {j \in 1 .. k : \A h \in 1 .. j : log.recs[h] # Torn}}

Writes(S) == {e[2] : e \in S}

(* The entries of some of the tables.                                      *)
Data(S) == UNION {disk.tables[n].data : n \in S}

Complete(m) == None \notin {m.next, m.log, m.last} /\ DOMAIN m.files \subseteq DOMAIN disk.tables

(* The writes that DB::Open would find, were the logs cut after so many    *)
(* records; without a manifest to go by, those that RepairDB would find.   *)
Recovered(m, cut) ==
  LET tables == IF Complete(m) THEN DOMAIN m.files ELSE DOMAIN disk.tables
      logs == {n \in DOMAIN disk.logs : Complete(m) => n >= m.log}
  IN  Writes(Data(tables) \cup UNION {ReadLog(disk.logs[n], cut[n]) : n \in logs})

(* The manifest that CURRENT names.                                        *)
Current ==
  IF disk.current \in DOMAIN disk.manifests THEN disk.manifests[disk.current] ELSE Synced(Nothing)

NewestSeq(S, least) == Max({e[1] : e \in S} \cup {least})

NumLevel0(files) == Cardinality({n \in DOMAIN files : files[n] = 0})
-----------------------------------------------------------------------------
(* Callers *)

Idle == [pc |-> "idle", sync |-> FALSE, id |-> 0, delay |-> FALSE, force |-> FALSE,
         done |-> FALSE, ok |-> TRUE, group |-> <<>>]
Ready == [pc |-> "idle", snap |-> 0, mem |-> 0, imm |-> 0, files |-> NoFiles, expect |-> {}]

Resting == [pc |-> "idle", file |-> 0, edit |-> Edit(NoFiles, {}), ok |-> TRUE,
            job |-> "none", manual |-> FALSE, inputs |-> {}, outputs |-> {}, files |-> NoFiles]

EmptyDB == [log |-> 0, imm |-> 0, memtables |-> NoFiles, pending |-> {}, error |-> FALSE,
            scheduled |-> FALSE, closing |-> FALSE, manual |-> "none"]
EmptyVersions == [next |-> 2, manifest |-> 0, last |-> 0, log |-> 0, files |-> NoFiles]
NotOpening == [logs |-> {}, add |-> NoFiles, log |-> 0, ok |-> TRUE, lost |-> {}]

Init ==
  /\ disk = [logs |-> NoFiles, tables |-> NoFiles, manifests |-> NoFiles, current |-> 0]
  /\ phase = "down" /\ opening = NotOpening
  /\ vset = EmptyVersions /\ db = EmptyDB /\ queue = <<>>
  /\ thread = [t \in Threads |-> Idle] /\ awake = {}
  /\ bg = Resting /\ reader = [r \in Readers |-> Ready]
  /\ hist = [calls |-> 0, spent |-> 0,
             acked |-> {}, synced |-> {}, lost |-> {}, opened |-> FALSE, repaired |-> FALSE]

Fault == /\ hist.spent < Budget
         /\ hist' = [hist EXCEPT !.spent = @ + 1]

MaybeScheduleCompaction(d, files) ==
  [d EXCEPT !.scheduled =
     \/ @
     \/ /\ ~d.closing /\ ~d.error
        /\ d.imm # 0 \/ d.manual # "none" \/ NumLevel0(files) >= CompactionTrigger]

(* Callers waiting on bg_cv_, which SignalAll wakes.                       *)
Waiting == {t \in Threads : thread[t].pc \in {"bgwait", "immwait", "manualwait"}}

(* Entry of Write: push_back, and wait unless at the front.                *)
Enqueue(t, w) ==
  /\ phase = "up" /\ ~db.closing /\ thread[t].pc = "idle"
  /\ thread' = [thread EXCEPT ![t] = w]
  /\ queue' = Append(queue, t)
  /\ awake' = IF queue = <<>> THEN awake \cup {t} ELSE awake \ {t}
  /\ UNCHANGED <<disk, phase, opening, vset, db, bg, reader>>

Write(t, sync) ==
  /\ hist.spent + 2 <= Budget
  /\ hist' = [hist EXCEPT !.calls = @ + 1, !.spent = @ + 2]
  /\ Enqueue(t, [Idle EXCEPT !.pc = "queued", !.sync = sync, !.id = hist.calls + 1,
                             !.delay = TRUE])

(* CompactRange begins with a Write of a NULL batch.                       *)
CompactRange(t) ==
  /\ Fault
  /\ Enqueue(t, [Idle EXCEPT !.pc = "queued", !.force = TRUE])

(* Where a caller goes when its Write returns.                             *)
Returned(w) == IF w.id = 0 THEN [Idle EXCEPT !.pc = "immwait"] ELSE Idle

Told(h, w, ok) ==
  IF ~ok \/ w.id = 0 THEN h
  ELSE [h EXCEPT !.acked = @ \cup {w.id}, !.synced = IF w.sync THEN @ \cup {w.id} ELSE @]

(* Mutant: the next writer is not signalled. *)
NobodyNext(rest) == {}

Foremost(rest) == IF rest = <<>> THEN {} ELSE {Head(rest)}

(* The end of Write: the group leaves the queue, its members are told, the *)
(* new front is signalled.                                                 *)
Leave(t, group, ok, woken) ==
  LET rest == SubSeq(queue, Len(group) + 1, Len(queue))
      others == ToSet(group) \ {t}
  IN  /\ queue' = rest
      /\ thread' = [u \in Threads |->
                      IF u = t THEN Returned(thread[t])
                      ELSE IF u \in others THEN [thread[u] EXCEPT !.done = TRUE, !.ok = ok]
                      ELSE thread[u]]
      /\ awake' = (awake \ (IF thread[t].id = 0 THEN {} ELSE {t})) \cup others \cup Foremost(rest) \cup woken

(* A member of another writer's group finds itself done.                   *)
Return(t) ==
  /\ thread[t].pc = "queued" /\ thread[t].done /\ t \in awake
  /\ thread' = [thread EXCEPT ![t] = Returned(thread[t])]
  /\ hist' = Told(hist, thread[t], thread[t].ok)
  /\ UNCHANGED <<disk, phase, opening, vset, db, queue, awake, bg, reader>>
-----------------------------------------------------------------------------
(* MakeRoomForWrite: the conditions of its loop, in the order of the code. *)

AtFront(t) == /\ queue # <<>> /\ Head(queue) = t /\ ~thread[t].done
              /\ thread[t].pc = "delayed" \/ (thread[t].pc \in {"queued", "bgwait"} /\ t \in awake)
Slow(t) == thread[t].delay /\ NumLevel0(vset.files) >= SlowdownTrigger
Room(t) == ~thread[t].force /\ Cardinality(db.memtables[db.log]) < BufferWrites
Blocked == db.imm # 0 \/ NumLevel0(vset.files) >= StopTrigger

(* No sync write in the group of one that is not.                          *)
Stops(t, n) == thread[queue[n]].sync /\ ~thread[t].sync

(* BuildBatchGroup; where a group ends for its size depends on the sizes   *)
(* of the batches.                                                         *)
Groups(t) ==
  {SubSeq(queue, 1, n) : n \in {k \in 1 .. Len(queue) :
     /\ \A i \in 2 .. k : ~Stops(t, i)
     /\ k = Len(queue) \/ Stops(t, k + 1) \/ thread[queue[k + 1]].id # 0}}

(* The batches of a group, and the entries they are given.                 *)
Batches(group) == {i \in DOMAIN group : thread[group[i]].id # 0}
Entries(group) ==
  {<<vset.last + Cardinality({j \in Batches(group) : j <= i}), thread[group[i]].id>> :
     i \in Batches(group)}

(* Write goes on once there is room: with a group of batches, or straight  *)
(* to its end for a NULL batch.                                            *)
Proceed(t) ==
  \/ /\ thread[t].id = 0
     /\ Leave(t, <<t>>, TRUE, {})
  \/ /\ thread[t].id # 0
     /\ \E g \in Groups(t) :
          thread' = [thread EXCEPT ![t].pc = "log", ![t].group = g, ![t].ok = TRUE]
     /\ awake' = awake \ {t}
     /\ UNCHANGED queue

YieldError(t) ==
  /\ AtFront(t) /\ db.error
  /\ Leave(t, <<t>>, FALSE, {})
  /\ UNCHANGED <<disk, phase, opening, vset, db, bg, reader, hist>>

Delay(t) ==
  /\ AtFront(t) /\ ~db.error /\ Slow(t)
  /\ thread' = [thread EXCEPT ![t].pc = "delayed", ![t].delay = FALSE]
  /\ awake' = awake \ {t}
  /\ UNCHANGED <<disk, phase, opening, vset, db, queue, bg, reader, hist>>

HaveRoom(t) ==
  /\ AtFront(t) /\ ~db.error /\ ~Slow(t) /\ Room(t)
  /\ Proceed(t)
  /\ UNCHANGED <<disk, phase, opening, vset, db, bg, reader, hist>>

WaitForRoom(t) ==
  /\ AtFront(t) /\ ~db.error /\ ~Slow(t) /\ ~Room(t) /\ Blocked
  /\ thread' = [thread EXCEPT ![t].pc = "bgwait"]
  /\ awake' = awake \ {t}
  /\ UNCHANGED <<disk, phase, opening, vset, db, queue, bg, reader, hist>>

SwitchMemTable(t) ==
  /\ AtFront(t) /\ ~db.error /\ ~Slow(t) /\ ~Room(t) /\ ~Blocked
  /\ LET n == vset.next
     IN  /\ vset' = [vset EXCEPT !.next = n + 1]
         /\ disk' = [disk EXCEPT !.logs = Put(@, n, [recs |-> <<>>, synced |-> 0])]
         /\ db' = MaybeScheduleCompaction(
                    [db EXCEPT !.imm = db.log, !.log = n, !.memtables = Put(@, n, {})],
                    vset.files)
  /\ Proceed(t)
  /\ UNCHANGED <<phase, opening, bg, reader, hist>>

(* The new log file cannot be created; its number is given back.           *)
SwitchFails(t) ==
  /\ AtFront(t) /\ ~db.error /\ ~Slow(t) /\ ~Room(t) /\ ~Blocked
  /\ Fault
  /\ Leave(t, <<t>>, FALSE, {})
  /\ UNCHANGED <<disk, phase, opening, vset, db, bg, reader>>
-----------------------------------------------------------------------------
(* The part of Write without mutex_, and its end.                          *)

AddRecord(t) ==
  /\ thread[t].pc = "log"
  /\ LET rec == Entries(thread[t].group)
         Log(r) == disk' = [disk EXCEPT !.logs[db.log].recs = Append(@, r)]
     IN  \/ /\ Log(rec)
            /\ thread' = [thread EXCEPT ![t].pc = IF thread[t].sync THEN "sync" ELSE "insert"]
            /\ hist' = IF Torn \in ToSet(disk.logs[db.log].recs)
                       THEN [hist EXCEPT !.lost = @ \cup Writes(rec)] ELSE hist
         \/ /\ Fault
            /\ Log(rec) \/ Log(Torn) \/ UNCHANGED disk
            /\ thread' = [thread EXCEPT ![t].pc = "finish", ![t].ok = FALSE]
  /\ UNCHANGED <<phase, opening, vset, db, queue, awake, bg, reader>>

SyncLog(t) ==
  /\ thread[t].pc = "sync"
  /\ \/ /\ disk' = [disk EXCEPT !.logs[db.log].synced = Len(disk.logs[db.log].recs)]
        /\ thread' = [thread EXCEPT ![t].pc = "insert"]
        /\ UNCHANGED hist
     \/ /\ Fault
        /\ thread' = [thread EXCEPT ![t].pc = "syncerror", ![t].ok = FALSE]
        /\ UNCHANGED disk
  /\ UNCHANGED <<phase, opening, vset, db, queue, awake, bg, reader>>

Advanced(t) == vset.last + Cardinality(Batches(thread[t].group))

(* The group is inserted, without the mutex: nobody sees its entries until *)
(* the sequence number advances, whether or not they were inserted.        *)
FinishWrite(t) ==
  /\ thread[t].pc \in {"insert", "finish", "syncerror"}
  /\ LET broken == thread[t].pc = "syncerror" /\ ~db.error
     IN  /\ db' = [db EXCEPT !.error = @ \/ broken,
                             !.memtables[db.log] =
                               IF thread[t].pc = "insert" THEN @ \cup Entries(thread[t].group) ELSE @]
         /\ Leave(t, thread[t].group, thread[t].ok, IF broken THEN Waiting ELSE {})
  /\ vset' = [vset EXCEPT !.last = Advanced(t)]
  /\ hist' = Told(hist, thread[t], thread[t].ok)
  /\ UNCHANGED <<disk, phase, opening, bg, reader>>
-----------------------------------------------------------------------------
(* The rest of CompactRange.                                               *)

(* TEST_CompactMemTable waits until the memtable it pushed out is written. *)
WaitForFlush(t) ==
  /\ thread[t].pc = "immwait" /\ t \in awake
  /\ IF db.imm # 0 /\ ~db.error
     THEN awake' = awake \ {t} /\ UNCHANGED thread
     ELSE thread' = [thread EXCEPT ![t].pc = "manual"] /\ UNCHANGED awake
  /\ UNCHANGED <<disk, phase, opening, vset, db, queue, bg, reader, hist>>

(* TEST_CompactRange of level 0, until nothing is left there.              *)
RunManual(t) ==
  /\ thread[t].pc = "manual" \/ (thread[t].pc = "manualwait" /\ t \in awake)
  /\ IF thread[t].done \/ db.closing \/ db.error
     THEN /\ thread' = [thread EXCEPT ![t] = Idle]
          /\ db' = [db EXCEPT !.manual = IF @ = t THEN "none" ELSE @]
     ELSE /\ thread' = [thread EXCEPT ![t].pc = "manualwait"]
          /\ db' = IF db.manual = "none"
                   THEN MaybeScheduleCompaction([db EXCEPT !.manual = t], vset.files) ELSE db
  /\ awake' = awake \ {t}
  /\ UNCHANGED <<disk, phase, opening, vset, queue, bg, reader, hist>>
-----------------------------------------------------------------------------
(* Readers *)

Get(r) ==
  /\ phase = "up" /\ ~db.closing /\ reader[r].pc = "idle" /\ hist.spent < Budget
  /\ reader' = [reader EXCEPT ![r] =
                  [pc |-> "reading", snap |-> vset.last, mem |-> db.log, imm |-> db.imm,
                   files |-> vset.files, expect |-> hist.acked]]
  /\ hist' = [hist EXCEPT !.spent = @ + 1]
  /\ UNCHANGED <<disk, phase, opening, vset, db, queue, thread, awake, bg>>

(* Memtables that are still referenced.                                    *)
Referenced(d, rd) ==
  Without(d.memtables, DOMAIN d.memtables \
                         ({d.log, d.imm} \cup UNION {{rd[r].mem, rd[r].imm} : r \in Readers}))

EndGet(r) ==
  /\ reader[r].pc = "reading"
  /\ reader' = [reader EXCEPT ![r] = Ready]
  /\ db' = [db EXCEPT !.memtables = Referenced(db, reader')]
  /\ UNCHANGED <<disk, phase, opening, vset, queue, thread, awake, bg, hist>>

(* What a reader finds in the memtables and tables it refers to.           *)
Found(r) ==
  Data(DOMAIN reader[r].files \cap DOMAIN disk.tables)
  \cup UNION {db.memtables[n] : n \in {reader[r].mem, reader[r].imm} \cap DOMAIN db.memtables}
-----------------------------------------------------------------------------
(* Mutant: only the log in use is kept. *)
KeepNewest(n, v, d) == n >= d.log

(* Logs that are kept: from the one on that the manifest names.            *)
Keep(n, v, d) == n >= v.log

(* DeleteObsoleteFiles, with the versions that are in the list.            *)
DeleteObsoleteFiles(dk, v, d, versions) ==
  IF d.error THEN dk
  ELSE LET live == d.pending \cup UNION {DOMAIN f : f \in versions}
       IN  [dk EXCEPT !.logs = Without(@, {n \in DOMAIN @ : ~Keep(n, v, d)}),
                      !.manifests = Without(@, {n \in DOMAIN @ : n < v.manifest}),
                      !.tables = Without(@, DOMAIN @ \ live)]

(* Mutant: a reader does not refer to its version. *)
HeldByNone == {}

Held == {reader[r].files : r \in Readers}    \* versions that readers refer to
-----------------------------------------------------------------------------
(* The background thread *)

(* The end of BackgroundCall.                                              *)
EndCall(d, files) ==
  /\ db' = MaybeScheduleCompaction([d EXCEPT !.scheduled = FALSE], files)
  /\ bg' = Resting
  /\ awake' = awake \cup Waiting

Dispatch == phase = "up" /\ bg.pc = "idle" /\ db.scheduled

BackgroundNothing ==
  /\ Dispatch
  /\ \/ db.closing \/ db.error
     \/ db.imm = 0 /\ db.manual = "none" /\ NumLevel0(vset.files) < CompactionTrigger
  /\ EndCall(db, vset.files)
  /\ UNCHANGED <<disk, phase, opening, vset, queue, thread, reader, hist>>

(* CompactMemTable, called first by BackgroundCompaction and between keys  *)
(* by DoCompactionWork; up to the unlock in WriteLevel0Table.              *)
CompactMemTable ==
  /\ \/ Dispatch /\ ~db.closing /\ ~db.error
     \/ bg.pc = "compact" /\ ~db.closing
  /\ db.imm # 0
  /\ bg' = [bg EXCEPT !.pc = "build", !.file = vset.next]
  /\ vset' = [vset EXCEPT !.next = @ + 1]
  /\ db' = [db EXCEPT !.pending = @ \cup {vset.next}]
  /\ UNCHANGED <<disk, phase, opening, queue, thread, awake, reader, hist>>

(* BuildTable: an empty memtable leaves no file, nor does a failure.       *)
BuildTable ==
  /\ bg.pc = "build"
  /\ \/ /\ disk' = IF db.memtables[db.imm] = {} THEN disk
                   ELSE [disk EXCEPT !.tables =
                           Put(@, bg.file, [data |-> db.memtables[db.imm], whole |-> TRUE])]
        /\ bg' = [bg EXCEPT !.pc = "built", !.ok = TRUE]
        /\ UNCHANGED hist
     \/ /\ Fault
        /\ bg' = [bg EXCEPT !.pc = "built", !.ok = FALSE]
        /\ UNCHANGED disk
  /\ UNCHANGED <<phase, opening, vset, db, queue, thread, awake, reader>>

(* LogAndApply up to its unlock: the edit is completed and becomes the     *)
(* next record of the manifest.                                            *)
LogAndApply(e, v) ==
  [e EXCEPT !.log = IF @ = None THEN v.log ELSE @, !.next = v.next, !.last = v.last]

(* The rest of WriteLevel0Table, and CompactMemTable up to LogAndApply.    *)
(* PickLevelForMemTableOutput depends on the keys.                         *)
FlushEdit ==
  /\ bg.pc = "built"
  /\ IF bg.ok /\ ~db.closing
     THEN /\ \E level \in {0, 1} :
               LET add == IF bg.file \in DOMAIN disk.tables THEN Put(NoFiles, bg.file, level) ELSE NoFiles
                   e == [Edit(add, {}) EXCEPT !.log = db.log]
               IN  bg' = [bg EXCEPT !.pc = "append", !.edit = LogAndApply(e, vset)]
          /\ db' = [db EXCEPT !.pending = @ \ {bg.file}]
     ELSE /\ bg' = [bg EXCEPT !.pc = "install", !.ok = FALSE]
          /\ db' = [db EXCEPT !.pending = @ \ {bg.file}]
  /\ UNCHANGED <<disk, phase, opening, vset, queue, thread, awake, reader, hist>>

(* An append that fails may have written the record, part of it, nothing.  *)
AppendManifest ==
  /\ bg.pc = "append"
  /\ LET Record == disk' = [disk EXCEPT !.manifests[vset.manifest] = Extended(@, bg.edit)]
     IN  \/ /\ Record
            /\ bg' = [bg EXCEPT !.pc = "msync"]
            /\ UNCHANGED hist
         \/ /\ Fault
            /\ \/ Record
               \/ disk' = [disk EXCEPT !.manifests[vset.manifest].torn = TRUE]
               \/ UNCHANGED disk
            /\ bg' = [bg EXCEPT !.pc = "install", !.ok = FALSE]
  /\ UNCHANGED <<phase, opening, vset, db, queue, thread, awake, reader>>

SyncManifest ==
  /\ bg.pc = "msync"
  /\ \/ /\ disk' = [disk EXCEPT !.manifests[vset.manifest].left =
                               {disk.manifests[vset.manifest].all}]
        /\ bg' = [bg EXCEPT !.pc = "install"]
        /\ UNCHANGED hist
     \/ /\ Fault
        /\ bg' = [bg EXCEPT !.pc = "install", !.ok = FALSE]
        /\ UNCHANGED disk
  /\ UNCHANGED <<phase, opening, vset, db, queue, thread, awake, reader>>

Installed(v) == [v EXCEPT !.files = Apply(@, bg.edit), !.log = bg.edit.log]
Flushing == bg.file # 0

(* The end of LogAndApply and of CompactMemTable.                          *)
InstallFlush ==
  /\ bg.pc = "install" /\ Flushing
  /\ LET v == IF bg.ok THEN Installed(vset) ELSE vset
         d0 == IF bg.ok THEN [db EXCEPT !.imm = 0] ELSE [db EXCEPT !.error = TRUE]
         d == [d0 EXCEPT !.memtables = Referenced(d0, reader)]
     IN  /\ vset' = v
         /\ disk' = IF bg.ok THEN DeleteObsoleteFiles(disk, v, d, Held \cup {v.files, bg.files})
                    ELSE disk
         /\ IF bg.job = "none" THEN EndCall(d, v.files)
            ELSE /\ db' = d
                 /\ bg' = [bg EXCEPT !.pc = "compact", !.file = 0, !.ok = TRUE]
                 /\ awake' = awake \cup Waiting
  /\ UNCHANGED <<phase, opening, queue, thread, reader, hist>>
-----------------------------------------------------------------------------
(* Compactions *)

Level(k) == {n \in DOMAIN vset.files : vset.files[n] = k}

(* PickCompaction chooses by keys and sizes: some tables of level 0, and   *)
(* tables of the next level; CompactRange takes all of level 0.            *)
Picks == IF db.manual = "none" THEN {S0 \cup S1 : S0 \in SUBSET Level(0) \ {{}}, S1 \in SUBSET Level(1)}
         ELSE {Level(0) \cup S1 : S1 \in SUBSET Level(1)} \ SUBSET Level(1)

MayCompact == /\ Dispatch /\ ~db.closing /\ ~db.error /\ db.imm = 0
              /\ db.manual # "none" \/ NumLevel0(vset.files) >= CompactionTrigger

(* A manual compaction with nothing left to do.                            *)
ManualDone ==
  /\ MayCompact /\ db.manual # "none" /\ Level(0) = {}
  /\ thread' = [thread EXCEPT ![db.manual].done = TRUE]
  /\ EndCall([db EXCEPT !.manual = "none"], vset.files)
  /\ UNCHANGED <<disk, phase, opening, vset, queue, reader, hist>>

(* IsTrivialMove: one table, nothing below it.                             *)
TrivialMove ==
  /\ MayCompact /\ db.manual = "none"
  /\ \E n \in Level(0) :
       bg' = [bg EXCEPT !.pc = "append", !.job = "move",
                        !.edit = LogAndApply(Edit(Put(NoFiles, n, 1), {n}), vset)]
  /\ UNCHANGED <<disk, phase, opening, vset, db, queue, thread, awake, reader, hist>>

DoCompactionWork ==
  /\ MayCompact
  /\ \E S \in Picks :
       bg' = [bg EXCEPT !.pc = "compact", !.job = "merge", !.inputs = S, !.files = vset.files,
                        !.manual = db.manual # "none"]
  /\ UNCHANGED <<disk, phase, opening, vset, db, queue, thread, awake, reader, hist>>

Inputs == Data(bg.inputs)
Written == Data(bg.outputs)
Building == \E n \in bg.outputs : n \in DOMAIN disk.tables /\ ~disk.tables[n].whole

OpenCompactionOutputFile ==
  /\ bg.pc = "compact" /\ ~db.closing /\ ~Building
  /\ Written # Inputs
  /\ LET n == vset.next
     IN  /\ vset' = [vset EXCEPT !.next = n + 1]
         /\ db' = [db EXCEPT !.pending = @ \cup {n}]
         /\ bg' = [bg EXCEPT !.outputs = @ \cup {n}]
         /\ disk' = [disk EXCEPT !.tables = Put(@, n, [data |-> {}, whole |-> FALSE])]
  /\ UNCHANGED <<phase, opening, queue, thread, awake, reader, hist>>

(* An output takes the next entries, in the order of the keys.             *)
FinishCompactionOutputFile ==
  /\ bg.pc = "compact" /\ ~db.closing /\ Building
  /\ \E n \in bg.outputs, S \in SUBSET (Inputs \ Written) \ {{}} :
       /\ ~disk.tables[n].whole
       /\ disk' = [disk EXCEPT !.tables[n] = [data |-> S, whole |-> TRUE]]
  /\ UNCHANGED <<phase, opening, vset, db, queue, thread, awake, bg, reader, hist>>

(* Entries left to copy when the database closes, or a failure.            *)
AbandonCompaction ==
  /\ bg.pc = "compact"
  /\ (db.closing /\ UNCHANGED hist) \/ Fault
  /\ bg' = [bg EXCEPT !.pc = "install", !.ok = FALSE]
  /\ UNCHANGED <<disk, phase, opening, vset, db, queue, thread, awake, reader>>

InstallCompactionResults ==
  /\ bg.pc = "compact" /\ ~db.closing /\ ~Building /\ Written = Inputs
  /\ bg' = [bg EXCEPT !.pc = "append",
              !.edit = LogAndApply(Edit([n \in bg.outputs |-> 1], bg.inputs), vset)]
  /\ UNCHANGED <<disk, phase, opening, vset, db, queue, thread, awake, reader, hist>>

(* The caller of a manual compaction gave up on it after an error, and     *)
(* manual_compaction_ is NULL (TEST_CompactRange).                         *)
ManualGone == bg.manual /\ db.manual = "none"

(* The end of LogAndApply and of BackgroundCompaction.  A failed manual    *)
(* compaction is done, another is asked for again by its caller.           *)
FinishCompaction ==
  /\ bg.pc = "install" /\ ~Flushing /\ bg.job # "none" /\ ~ManualGone
  /\ LET v == IF bg.ok THEN Installed(vset) ELSE vset
         d == [db EXCEPT !.error = @ \/ ~bg.ok, !.pending = @ \ bg.outputs,
                         !.manual = IF bg.manual THEN "none" ELSE @]
     IN  /\ vset' = v
         /\ disk' = IF bg.job = "merge" THEN DeleteObsoleteFiles(disk, v, d, Held \cup {v.files})
                    ELSE disk
         /\ thread' = IF bg.manual /\ ~bg.ok
                      THEN [thread EXCEPT ![db.manual].done = TRUE] ELSE thread
         /\ EndCall(d, v.files)
  /\ UNCHANGED <<phase, opening, queue, reader, hist>>
-----------------------------------------------------------------------------
(* Opening *)

Unsynced(e) == Extended(Synced(Nothing), e)

(* NewDB: the first manifest is closed without a sync.  A manifest that    *)
(* cannot be written is deleted again, as if nothing had begun.            *)
NewDB ==
  /\ phase = "down" /\ disk.current = 0
  /\ disk' = [disk EXCEPT !.manifests = Put(@, 1,
                Unsynced([Edit(NoFiles, {}) EXCEPT !.log = 0, !.next = 2, !.last = 0]))]
  /\ phase' = "newdb"
  /\ UNCHANGED <<opening, vset, db, queue, thread, awake, bg, reader, hist>>

(* SetCurrentFile *)
SetFirstCurrent ==
  /\ phase = "newdb"
  /\ disk' = [disk EXCEPT !.current = 1]
  /\ phase' = "down"
  /\ UNCHANGED <<opening, vset, db, queue, thread, awake, bg, reader, hist>>

(* The end of VersionSet::Recover: what the manifest says is current, and  *)
(* the next file number is the new manifest's.                             *)
RecoveredVersion(m) ==
  [next |-> m.next + 1, manifest |-> m.next, last |-> m.last, log |-> m.log, files |-> m.files]

(* VersionSet::Recover, and the files that DBImpl::Recover looks for.      *)
Recover ==
  /\ phase = "down" /\ disk.current # 0
  /\ LET m == Current.all
     IN  IF ~Complete(m)
         THEN phase' = "corrupt" /\ UNCHANGED <<vset, opening>>
         ELSE /\ phase' = "replay"
              /\ vset' = RecoveredVersion(m)
              /\ opening' = [NotOpening EXCEPT !.logs = {n \in DOMAIN disk.logs : n >= m.log}]
  /\ UNCHANGED <<disk, db, queue, thread, awake, bg, reader, hist>>

(* One log, in the order they were generated, becomes a table of level 0.  *)
(* A log that cannot be opened or read on is left at that, and no error    *)
(* (MaybeIgnoreError); a table that cannot be built is one, and what was   *)
(* read for it is not saved.  The next log's status replaces this one's.   *)
RecoverLogFile ==
  /\ phase = "replay" /\ opening.logs # {}
  /\ LET n == Min(opening.logs)
         Upto(k) == ReadLog(disk.logs[n], k)
         all == Len(disk.logs[n].recs)
         t == vset.next
     IN  \E read \in 0 .. all, saved \in 0 .. all :
           /\ saved = read \/ (saved < read /\ Upto(saved) # Upto(read))
           /\ IF saved = all THEN UNCHANGED hist ELSE Fault
           /\ LET data == Upto(saved)
                  next == t + (IF data = {} THEN 0 ELSE 1) + (IF saved = read THEN 0 ELSE 1)
              IN  /\ disk' = IF data = {} THEN disk
                             ELSE [disk EXCEPT !.tables = Put(@, t, [data |-> data, whole |-> TRUE])]
                  /\ opening' = [opening EXCEPT !.logs = @ \ {n}, !.ok = (saved = read),
                                   !.add = IF data = {} THEN @ ELSE Put(@, t, 0),
                                   !.lost = @ \cup (Writes(Upto(all)) \ Writes(data))]
                  /\ vset' = [vset EXCEPT !.next = Max({next, n + 1}),
                                          !.last = NewestSeq(Upto(read), @)]
  /\ UNCHANGED <<phase, db, queue, thread, awake, bg, reader>>

NewLogFile ==
  /\ phase = "replay" /\ opening.logs = {} /\ opening.ok
  /\ disk' = [disk EXCEPT !.logs = Put(@, vset.next, [recs |-> <<>>, synced |-> 0])]
  /\ opening' = [opening EXCEPT !.log = vset.next]
  /\ vset' = [vset EXCEPT !.next = @ + 1]
  /\ phase' = "manifest"
  /\ UNCHANGED <<db, queue, thread, awake, bg, reader, hist>>

OpeningEdit == LogAndApply([Edit(opening.add, {}) EXCEPT !.log = opening.log], vset)

(* LogAndApply with a new manifest: WriteSnapshot, the edit, and a sync.   *)
NewManifest == Synced(Says(Says(Nothing, Edit(vset.files, {})), OpeningEdit))

WriteManifest ==
  /\ phase = "manifest"
  /\ disk' = [disk EXCEPT !.manifests = Put(@, vset.manifest, NewManifest)]
  /\ phase' = "current"
  /\ UNCHANGED <<opening, vset, db, queue, thread, awake, bg, reader, hist>>

(* From here on what was not saved of the logs is lost.                    *)
SetCurrentFile ==
  /\ phase = "current"
  /\ disk' = [disk EXCEPT !.current = vset.manifest]
  /\ hist' = [hist EXCEPT !.lost = @ \cup opening.lost]
  /\ phase' = "install"
  /\ UNCHANGED <<opening, vset, db, queue, thread, awake, bg, reader>>

Opened ==
  /\ phase = "install"
  /\ LET v == [vset EXCEPT !.files = Apply(@, OpeningEdit), !.log = opening.log]
         d == [EmptyDB EXCEPT !.log = opening.log, !.memtables = Put(NoFiles, opening.log, {})]
     IN  /\ vset' = v
         /\ disk' = DeleteObsoleteFiles(disk, v, d, {v.files})
         /\ db' = MaybeScheduleCompaction(d, v.files)
  /\ phase' = "up" /\ opening' = NotOpening
  /\ hist' = [hist EXCEPT !.opened = TRUE, !.repaired = FALSE]
  /\ UNCHANGED <<queue, thread, awake, bg, reader>>
-----------------------------------------------------------------------------
(* RepairDB (Repairer), on a database that is not open.                    *)

FindFiles ==
  /\ phase \in {"down", "corrupt"}
  /\ hist.spent < Budget
  /\ hist' = [hist EXCEPT !.spent = @ + 1, !.repaired = TRUE]
  /\ vset' = [EmptyVersions EXCEPT
                !.next = Max({0} \cup DOMAIN disk.logs \cup DOMAIN disk.tables) + 1]
  /\ phase' = "repair"
  /\ UNCHANGED <<disk, opening, db, queue, thread, awake, bg, reader>>

(* A log becomes a table; then it is archived, also if it could not be     *)
(* read on or its table not be built.  Were the repair cut short, DB::Open *)
(* would go by the old manifest, if that is complete, without either.      *)
ConvertLogToTable ==
  /\ phase = "repair"
  /\ \E n \in DOMAIN disk.logs :
       LET Upto(k) == ReadLog(disk.logs[n], k)
           all == Len(disk.logs[n].recs)
       IN  \E saved \in 0 .. all :
             /\ saved = all \/ hist.spent < Budget
             /\ hist' = [hist EXCEPT !.spent = IF saved = all THEN @ ELSE @ + 1,
                                     !.lost = @ \cup (Writes(Upto(all)) \ Writes(Upto(saved)))]
             /\ disk' = [disk EXCEPT !.logs = Without(@, {n}),
                            !.tables = IF Upto(saved) = {} THEN @
                                       ELSE Put(@, vset.next, [data |-> Upto(saved), whole |-> TRUE])]
             /\ opening' = [opening EXCEPT !.lost = @ \cup Writes(Upto(all))]
  /\ vset' = [vset EXCEPT !.next = @ + 1]
  /\ UNCHANGED <<phase, db, queue, thread, awake, bg, reader>>

(* ScanTable: the tables whose entries can be read.                        *)
Scanned == {n \in DOMAIN disk.tables : disk.tables[n].whole}

(* RepairTable archives any other; of the copy, which finds nothing to     *)
(* save, an empty file and its number are left.                            *)
Copies == [n \in vset.next .. vset.next + Cardinality(DOMAIN disk.tables \ Scanned) - 1 |->
             [data |-> {}, whole |-> FALSE]]

(* ExtractMetaData, and WriteDescriptor up to the end of its loop: the     *)
(* manifests are archived too.                                             *)
WriteDescriptor ==
  /\ phase = "repair" /\ disk.logs = NoFiles
  /\ disk' = [disk EXCEPT !.manifests = NoFiles,
                          !.tables = Over(Copies, Without(@, DOMAIN @ \ Scanned))]
  /\ opening' = [NotOpening EXCEPT !.add = [n \in Scanned |-> 0]]
  /\ vset' = [vset EXCEPT !.next = @ + Cardinality(DOMAIN Copies),
                          !.last = NewestSeq(Data(Scanned), 0)]
  /\ phase' = "described"
  /\ UNCHANGED <<db, queue, thread, awake, bg, reader, hist>>

(* The new manifest, not synced, gets its name; CURRENT is next.           *)
InstallDescriptor ==
  /\ phase = "described"
  /\ disk' = [disk EXCEPT !.manifests = Put(@, 1,
                Unsynced([Edit(opening.add, {}) EXCEPT !.log = 0, !.next = vset.next,
                                                       !.last = vset.last]))]
  /\ phase' = "newdb" /\ opening' = NotOpening /\ vset' = EmptyVersions
  /\ UNCHANGED <<db, queue, thread, awake, bg, reader, hist>>
-----------------------------------------------------------------------------
(* Closing and crashing *)

Forget ==
  /\ phase' = "down" /\ opening' = NotOpening /\ vset' = EmptyVersions /\ db' = EmptyDB
  /\ queue' = <<>> /\ thread' = [t \in Threads |-> Idle] /\ awake' = {}
  /\ bg' = Resting /\ reader' = [r \in Readers |-> Ready]

(* The destructor, called when nobody else calls; it waits for the         *)
(* background thread.                                                      *)
Close ==
  /\ phase = "up" /\ ~db.closing /\ hist.spent < Budget
  /\ \A t \in Threads : thread[t].pc = "idle"
  /\ \A r \in Readers : reader[r].pc = "idle"
  /\ db' = [db EXCEPT !.closing = TRUE]
  /\ hist' = [hist EXCEPT !.spent = @ + 1]
  /\ UNCHANGED <<disk, phase, opening, vset, queue, thread, awake, bg, reader>>

Closed ==
  /\ db.closing /\ ~db.scheduled
  /\ Forget
  /\ UNCHANGED <<disk, hist>>

(* Of a repair that is cut short, the logs that it has archived.           *)
Archived == IF phase = "repair" THEN opening.lost ELSE {}

CutShort == /\ hist.spent < Budget
            /\ hist' = [hist EXCEPT !.spent = @ + 1, !.lost = @ \cup Archived]
            /\ Forget

(* DB::Open or RepairDB returns an error, for a file operation that failed *)
(* or for the last of the logs.  A new manifest that CURRENT does not come *)
(* to name is deleted; the first one, and a descriptor, stay.              *)
OpenFails ==
  /\ \/ /\ \/ phase \in {"newdb", "manifest", "current", "described"}
           \/ phase = "replay" /\ opening.logs = {} /\ opening.ok
           \/ phase = "repair" /\ disk.logs = NoFiles
        /\ CutShort
     \/ /\ phase = "replay" /\ opening.logs = {} /\ ~opening.ok
        /\ Forget /\ UNCHANGED hist
  /\ disk' = IF phase \in {"manifest", "current"} THEN [disk EXCEPT !.manifests = Without(@, {vset.manifest})]
             ELSE disk

(* The background thread dereferences a NULL manual_compaction_: the       *)
(* process ends.                                                           *)
DereferenceNull ==
  /\ bg.pc = "install" /\ ~Flushing /\ ManualGone
  /\ Forget
  /\ UNCHANGED <<disk, hist>>

(* The process is killed: what was handed to the system stays.             *)
Kill ==
  /\ phase \notin {"down", "corrupt"}
  /\ CutShort
  /\ UNCHANGED disk

(* The power fails: of logs and manifests only what was synced is sure to  *)
(* stay, of tables those that were finished.  Files stay in the directory  *)
(* in the order they were put there.  What is left of a manifest matters   *)
(* for the one that CURRENT names.                                         *)
PowerLoss ==
  /\ phase \notin {"down", "corrupt"} /\ hist.spent < Budget
  /\ \E cut \in [DOMAIN disk.logs -> 0 .. Budget], said \in Current.left :
       /\ \A n \in DOMAIN cut : cut[n] \in disk.logs[n].synced .. Len(disk.logs[n].recs)
       /\ disk' = [disk EXCEPT
            !.logs = [n \in DOMAIN @ |-> [recs |-> SubSeq(@[n].recs, 1, cut[n]), synced |-> cut[n]]],
            !.manifests = [n \in DOMAIN @ |-> [@[n] EXCEPT !.all = said, !.left = {said}]],
            !.tables = Without(@, {n \in DOMAIN @ : ~@[n].whole})]
       /\ hist' = [hist EXCEPT !.spent = @ + 1, !.lost = @ \cup Archived,
                               !.acked = @ \cap (hist.synced \cup Recovered(said, cut))]
  /\ Forget
-----------------------------------------------------------------------------
CallerStep(t) ==
  \/ Return(t) \/ YieldError(t) \/ Delay(t) \/ HaveRoom(t) \/ WaitForRoom(t)
  \/ SwitchMemTable(t) \/ SwitchFails(t) \/ AddRecord(t) \/ SyncLog(t)
  \/ FinishWrite(t) \/ WaitForFlush(t) \/ RunManual(t)

BackgroundStep ==
  \/ BackgroundNothing \/ CompactMemTable \/ BuildTable \/ FlushEdit \/ AppendManifest
  \/ SyncManifest \/ InstallFlush \/ ManualDone \/ TrivialMove \/ DoCompactionWork
  \/ OpenCompactionOutputFile \/ FinishCompactionOutputFile \/ AbandonCompaction
  \/ InstallCompactionResults \/ FinishCompaction \/ DereferenceNull

OpenStep == \/ NewDB \/ SetFirstCurrent \/ Recover \/ RecoverLogFile \/ NewLogFile
            \/ WriteManifest \/ SetCurrentFile \/ Opened
            \/ FindFiles \/ ConvertLogToTable \/ WriteDescriptor \/ InstallDescriptor
            \/ OpenFails

Next ==
  \/ \E t \in Threads : \/ \E sync \in BOOLEAN : Write(t, sync)
                        \/ CompactRange(t) \/ CallerStep(t)
  \/ \E r \in Readers : Get(r) \/ EndGet(r)
  \/ BackgroundStep \/ OpenStep
  \/ Close \/ Closed \/ Kill \/ PowerLoss

Spec == /\ Init /\ [][Next]_vars
        /\ \A t \in Threads : WF_vars(CallerStep(t))
        /\ WF_vars(BackgroundStep)
-----------------------------------------------------------------------------
TypeOK ==
  /\ phase \in {"down", "newdb", "replay", "manifest", "current", "install", "up", "corrupt",
               "repair", "described"}
  /\ vset.files \in [DOMAIN vset.files -> {0, 1}]
  /\ \A t \in Threads : thread[t].group \in Seq(Threads)
  /\ ToSet(queue) \cup awake \subseteq Threads
  /\ phase = "up" => /\ db.log \in DOMAIN disk.logs
                     /\ {db.log, db.imm} \ {0} \subseteq DOMAIN db.memtables

(* A write that was acknowledged would be recovered, were the process      *)
(* killed now, from the tables of the manifest and the logs that it does   *)
(* not rule out, at every step of a flush, compaction, opening or repair,  *)
(* and with obsolete files deleted (DeleteObsoleteFiles, LogAndApply);     *)
(* while RepairDB runs, from all tables and logs.  After a power failure   *)
(* that is asked of the writes that outlived it.  hist.lost are the writes *)
(* that the code does lose: those behind a torn record of a log, those     *)
(* that DB::Open did not save or RepairDB did not convert when an          *)
(* operation on their log or table failed, and those of the logs that a    *)
(* RepairDB cut short had archived.                                        *)
AckedRecoverable ==
  hist.acked \subseteq
    IF hist.acked = {} THEN {}
    ELSE Recovered(IF phase = "repair" THEN Nothing ELSE Current.all,
                   [n \in DOMAIN disk.logs |-> Len(disk.logs[n].recs)]) \cup hist.lost

(* A write with WriteOptions::sync would be recovered even if the power    *)
(* failed now, whichever of the unsynced edits of the manifest survived:   *)
(* its log is not deleted before the table that replaces it is named by a  *)
(* manifest that is synced (include/leveldb/options.h, sync).  hist.lost   *)
(* are exempt here too.                                                    *)
SyncedDurable ==
  hist.synced # {} =>
    \A m \in IF phase = "repair" THEN {Nothing} ELSE Current.left :
      hist.synced \subseteq
        Recovered(m, [n \in DOMAIN disk.logs |-> disk.logs[n].synced]) \cup hist.lost

(* A reader sees every write that was acknowledged before it began, at its *)
(* sequence number, and nothing it refers to is freed or deleted under it, *)
(* though the memtable is switched, flushed and compacted meanwhile (Get). *)
(* hist.lost are exempt.                                                   *)
ReadsComplete ==
  \A r \in Readers : reader[r].pc = "reading" =>
    /\ DOMAIN reader[r].files \subseteq {n \in DOMAIN disk.tables : disk.tables[n].whole}
    /\ {reader[r].mem, reader[r].imm} \ {0} \subseteq DOMAIN db.memtables
    /\ reader[r].expect \ hist.lost \subseteq Writes({f \in Found(r) : f[1] <= reader[r].snap})

(* A database that was opened once opens again, wherever it was killed or  *)
(* lost its power: CURRENT names a manifest that is complete and whose     *)
(* tables are there.  NewDB and RepairDB leave a manifest that is not      *)
(* synced, so a power failure before the first opening is exempt, and so   *)
(* is a manifest to which a compaction went on to append behind the part   *)
(* of a record that a failed flush had left.                               *)
Reopens == phase = "corrupt" => ~hist.opened \/ hist.repaired \/ (Current.torn /\ Current.all = Nothing)

(* No two entries have one sequence number, also across failed writes,     *)
(* recovery and repair: the newest version of a key is always decided.     *)
SequencesUnique ==
  LET all == Data(DOMAIN disk.tables)
             \cup (UNION {db.memtables[n] : n \in DOMAIN db.memtables})
             \cup (UNION {ReadLog(disk.logs[n], Len(disk.logs[n].recs)) : n \in DOMAIN disk.logs})
  IN  \A e, f \in all : e[1] = f[1] => e = f

(* What a writer was promised is kept, by files from which the database    *)
(* can always be opened again and in which versions can be told apart.     *)
PromisesKept == TypeOK /\ AckedRecoverable /\ SyncedDurable /\ Reopens /\ SequencesUnique

(* Every call of Write and of CompactRange returns: no wake-up of a writer *)
(* in the queue, or of one that waits for the background thread, is lost,  *)
(* and compactions are scheduled while somebody waits for one, also after  *)
(* an error and when others write in the same group.  It does not return   *)
(* when the process ends under it: killed, without power, or by            *)
(* DereferenceNull.                                                        *)
WritesReturn == \A t \in Threads : thread[t].pc # "idle" ~> thread[t].pc = "idle"

(* What RecoverLogFile says of its errors: "Reflect errors immediately so  *)
(* that conditions like full file-systems cause the DB::Open() to fail."   *)
(* An error of one log stays one until DB::Open has failed (db_impl.cc     *)
(* 435-438, 446-449).  It does not: the next log's status replaces it.     *)
ErrorsReflected == [][phase = "replay" /\ ~opening.ok => ~opening'.ok \/ phase' = "down"]_vars
=============================================================================
