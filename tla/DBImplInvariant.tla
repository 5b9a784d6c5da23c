---------------------------- MODULE DBImplInvariant ----------------------------
(***************************************************************************)
(* The inductive invariant of DBImpl, from which DBImplProofs derives      *)
(* PromisesKept and ReadsComplete: Up while the database is open, Down     *)
(* while it is closed, opened or repaired.  At the end, what the proofs    *)
(* say of kinds of steps: what they keep, and what they change.            *)
(***************************************************************************)
EXTENDS DBImpl
-----------------------------------------------------------------------------
(* The parts of the invariant *)

Saids == Current.left

(* The entries of a log, and of its synced part.                           *)
LogData(n) == ReadLog(disk.logs[n], Len(disk.logs[n].recs))
SafeLogData(n) == ReadLog(disk.logs[n], disk.logs[n].synced)

InMem == {db.log, db.imm} \ {0}

(* Callers in another's group that will be told of their success, and the  *)
(* writes whose promises are to be kept.                                   *)
Answered == {t \in Threads : thread[t].pc = "queued" /\ thread[t].done
                             /\ thread[t].ok /\ thread[t].id # 0}
Owed == (hist.acked \cup {thread[t].id : t \in Answered}) \ hist.lost
OwedSynced ==
  (hist.synced \cup {thread[t].id : t \in {u \in Answered : thread[u].sync}}) \ hist.lost

Entry == Nat \X Nat
Pcs == {"idle", "queued", "bgwait", "delayed", "log", "sync", "insert", "finish", "syncerror",
        "immwait", "manual", "manualwait"}
Logged == {"sync", "insert", "finish", "syncerror"}
Writing == {"log"} \cup Logged

IsFiles(f) == DOMAIN f \subseteq Nat /\ f \in [DOMAIN f -> {0, 1}]
IsLog(l) == /\ l = [recs |-> l.recs, synced |-> l.synced]
            /\ l.recs \in Seq(SUBSET Entry) /\ l.synced \in 0 .. Len(l.recs)
IsTable(b) == /\ b = [data |-> b.data, whole |-> b.whole]
              /\ b.data \subseteq Entry /\ b.whole \in BOOLEAN
              /\ ~b.whole => b.data = {}
IsSaid(s) == /\ s = [files |-> s.files, log |-> s.log, next |-> s.next, last |-> s.last]
             /\ {s.log, s.next, s.last} \subseteq Nat \cup {None}
             /\ IsFiles(s.files)
IsManifest(m) == /\ m = [all |-> m.all, left |-> m.left, torn |-> m.torn]
                 /\ m.all \in m.left /\ (\A s \in m.left : IsSaid(s)) /\ m.torn \in BOOLEAN

DiskShape ==
  /\ disk = [logs |-> disk.logs, tables |-> disk.tables, manifests |-> disk.manifests,
             current |-> disk.current]
  /\ disk.current \in Nat
  /\ DOMAIN disk.logs \subseteq Nat /\ \A n \in DOMAIN disk.logs : IsLog(disk.logs[n])
  /\ DOMAIN disk.tables \subseteq Nat /\ \A n \in DOMAIN disk.tables : IsTable(disk.tables[n])
  /\ \A n \in DOMAIN disk.manifests : IsManifest(disk.manifests[n])

VersionShape ==
  /\ vset = [next |-> vset.next, manifest |-> vset.manifest, last |-> vset.last,
             log |-> vset.log, files |-> vset.files]
  /\ {vset.next, vset.manifest, vset.last, vset.log} \subseteq Nat
  /\ IsFiles(vset.files)

OpeningShape ==
  /\ opening = [logs |-> opening.logs, add |-> opening.add, log |-> opening.log,
                ok |-> opening.ok, lost |-> opening.lost]
  /\ opening.logs \subseteq Nat /\ IsFiles(opening.add) /\ opening.log \in Nat
  /\ opening.ok \in BOOLEAN

HistShape ==
  /\ hist = [calls |-> hist.calls, spent |-> hist.spent, acked |-> hist.acked,
             synced |-> hist.synced, lost |-> hist.lost,
             opened |-> hist.opened, repaired |-> hist.repaired]
  /\ hist.calls \in Nat
  /\ hist.synced \subseteq hist.acked
  /\ hist.opened \in BOOLEAN /\ hist.repaired \in BOOLEAN

DBShape ==
  /\ db = [log |-> db.log, imm |-> db.imm, memtables |-> db.memtables, pending |-> db.pending,
           error |-> db.error, scheduled |-> db.scheduled, closing |-> db.closing,
           manual |-> db.manual]
  /\ {db.log, db.imm} \subseteq Nat /\ db.pending \subseteq Nat
  /\ {db.error, db.scheduled, db.closing} \subseteq BOOLEAN
  /\ DOMAIN db.memtables \subseteq Nat
  /\ \A n \in DOMAIN db.memtables : db.memtables[n] \subseteq Entry

ThreadShape ==
  /\ thread \in [Threads -> [pc : Pcs, sync : BOOLEAN, id : Nat, delay : BOOLEAN,
                             force : BOOLEAN, done : BOOLEAN, ok : BOOLEAN, group : Seq(Threads)]]
  /\ queue \in Seq(Threads) /\ awake \subseteq Threads

IsEdit(e) == /\ e = [add |-> e.add, del |-> e.del, log |-> e.log, next |-> e.next, last |-> e.last]
             /\ IsFiles(e.add) /\ e.del \subseteq Nat
             /\ {e.log, e.next, e.last} \subseteq Nat \cup {None}

BgShape ==
  /\ bg = [pc |-> bg.pc, file |-> bg.file, edit |-> bg.edit, ok |-> bg.ok, job |-> bg.job,
           manual |-> bg.manual, inputs |-> bg.inputs, outputs |-> bg.outputs, files |-> bg.files]
  /\ bg.pc \in {"idle", "build", "built", "append", "msync", "install", "compact"}
  /\ bg.job \in {"none", "move", "merge"}
  /\ bg.file \in Nat /\ {bg.ok, bg.manual} \subseteq BOOLEAN /\ bg.inputs \subseteq Nat /\ bg.outputs \subseteq Nat
  /\ IsEdit(bg.edit)

ReaderShape ==
  /\ DOMAIN reader = Readers
  /\ \A r \in Readers :
    /\ reader[r] = [pc |-> reader[r].pc, snap |-> reader[r].snap, mem |-> reader[r].mem,
                    imm |-> reader[r].imm, files |-> reader[r].files, expect |-> reader[r].expect]
    /\ reader[r].pc \in {"idle", "reading"}

Shape == /\ DiskShape /\ VersionShape /\ OpeningShape /\ HistShape
         /\ DBShape /\ ThreadShape /\ BgShape /\ ReaderShape

(* File numbers and sequence numbers do not run off.                       *)
AllEntries == Data(DOMAIN disk.tables)
              \cup (UNION {db.memtables[n] : n \in DOMAIN db.memtables})
              \cup (UNION {LogData(n) : n \in DOMAIN disk.logs})
Bounded == /\ \E b \in Nat : \A n \in DOMAIN disk.logs \cup DOMAIN disk.tables : n <= b
           /\ \E b \in Nat : \A e \in AllEntries : e[1] <= b

(* What a manifest says is a database that can be opened.                  *)
Valid(s) ==
  /\ {s.log, s.next, s.last} \subseteq Nat /\ s.log < s.next
  /\ DOMAIN s.files \subseteq Scanned
  /\ \A n \in DOMAIN s.files : n < s.next /\ \A e \in disk.tables[n].data : e[1] <= s.last

(* With tables F and the memtables nothing is missing; what was synced is  *)
(* in F or in the synced part of a log as well as in its memtable.         *)
Covers(F) ==
  /\ \A w \in Owed : w \in Writes(Data(F)) \/ \E n \in InMem : w \in Writes(db.memtables[n])
  /\ \A w \in OwedSynced :
       w \in Writes(Data(F))
       \/ \E n \in InMem : w \in Writes(db.memtables[n]) /\ w \in Writes(SafeLogData(n))

(* So it is with tables F and the logs from number l on.                   *)
Good(F, l) ==
  /\ F \subseteq Scanned
  /\ l \in {vset.log, db.log}
  /\ db.imm # 0 /\ l # db.imm => Writes(db.memtables[db.imm]) \subseteq Writes(Data(F))
  /\ Covers(F)
-----------------------------------------------------------------------------
(* While the database is open *)

QueueInv ==
  /\ \A i, j \in DOMAIN queue : queue[i] = queue[j] => i = j
  /\ \A i \in DOMAIN queue :
       /\ thread[queue[i]].pc \in {"queued", "bgwait", "delayed"} \cup Writing
       /\ ~thread[queue[i]].done
  /\ \A t \in Threads : thread[t].pc \in Writing =>
       /\ Len(thread[t].group) \in 1 .. Len(queue)
       /\ thread[t].group = SubSeq(queue, 1, Len(thread[t].group))
       /\ queue[1] = t /\ thread[t].id # 0
       /\ \A i \in DOMAIN thread[t].group : thread[queue[i]].sync => thread[t].sync
       /\ thread[t].ok <=> thread[t].pc \notin {"finish", "syncerror"}
  /\ db.manual # "none" => db.manual \in Threads /\ thread[db.manual].pc = "manualwait"

(* What the writer in the log has put there.                               *)
BatchInv ==
  \A t \in Threads :
    /\ thread[t].pc \in {"sync", "insert"} =>
         Writes(Entries(thread[t].group)) \subseteq Writes(LogData(db.log)) \cup hist.lost
    /\ thread[t].pc = "insert" /\ thread[t].sync =>
         Writes(Entries(thread[t].group)) \subseteq Writes(SafeLogData(db.log)) \cup hist.lost

SeqInv ==
  /\ \A n \in DOMAIN disk.tables : \A e \in disk.tables[n].data : e[1] <= vset.last
  /\ \A n \in DOMAIN db.memtables : \A e \in db.memtables[n] : e[1] <= vset.last
  /\ \A n \in DOMAIN disk.logs : \A e \in LogData(n) :
       \/ e[1] <= vset.last
       \/ \E t \in Threads : thread[t].pc \in Logged /\ e \in Entries(thread[t].group)

NumbersInv ==
  /\ InMem \subseteq DOMAIN disk.logs \cap DOMAIN db.memtables
  /\ 0 < db.log /\ db.imm < db.log /\ db.log < vset.next
  /\ vset.log = IF db.imm = 0 THEN db.log ELSE db.imm
  /\ vset.manifest = disk.current /\ disk.current \in DOMAIN disk.manifests /\ disk.current # 0
  /\ \A n \in DOMAIN disk.logs \cup DOMAIN disk.tables \cup DOMAIN db.memtables : n < vset.next
  /\ hist.opened /\ ~hist.repaired

(* What a manifest says when it says anything.                             *)
Fine(s) == /\ Valid(s) /\ Good(DOMAIN s.files, s.log)
           /\ s.next <= vset.next /\ s.last <= vset.last /\ disk.current < s.next

(* It may say Nothing only when a record went behind part of another.      *)
Sound(m) == /\ \A s \in m.left : s = Nothing \/ Fine(s)
            /\ m.all = Nothing \/ \A s \in m.left : s # Nothing /\ s.next <= m.all.next
            /\ m.all = Nothing => m.torn

StoreInv ==
  /\ \A n \in InMem : Writes(db.memtables[n]) \subseteq Writes(LogData(n)) \cup hist.lost
  /\ Good(DOMAIN vset.files, vset.log)
  /\ Sound(Current)

(* Without an error the manifest says what is installed, or what is about  *)
(* to be.                                                                  *)
Exact(s) == s.files = vset.files /\ s.log = vset.log
ExactAfter(s) == s.files = Apply(vset.files, bg.edit) /\ s.log = bg.edit.log
ExactInv ==
  ~db.error =>
    /\ Current.torn => bg.pc = "install" /\ ~bg.ok
    /\ CASE bg.pc = "msync" -> /\ ExactAfter(Current.all)
                               /\ \A s \in Saids : s = Current.all \/ Exact(s)
         [] bg.pc = "install" -> bg.ok => \A s \in Saids : ExactAfter(s)
         [] OTHER -> \A s \in Saids : Exact(s)

(* An edit that may be added to the manifest.                              *)
SafeEdit(e) ==
  /\ DOMAIN e.add \subseteq Scanned /\ e.del \subseteq Scanned
  /\ Data(e.del) \subseteq Data(DOMAIN e.add)
  /\ e.log = (IF Flushing THEN db.log ELSE vset.log)
  /\ Flushing => Writes(db.memtables[db.imm]) \subseteq Writes(Data(DOMAIN e.add))
  /\ {e.next, e.last} \subseteq Nat /\ e.log < e.next /\ e.next <= vset.next /\ e.last <= vset.last
  /\ \A n \in DOMAIN e.add : n < e.next /\ \A x \in disk.tables[n].data : x[1] <= e.last

BgInv ==
  /\ bg.pc = "idle" => bg = Resting
  /\ Flushing => bg.pc # "compact" /\ db.imm # 0 /\ bg.job # "move"
  /\ bg.pc = "compact" => bg.job = "merge"
  /\ bg.pc \in {"build", "built"} => Flushing
  /\ ~Flushing /\ bg.pc # "idle" => bg.job # "none"
  /\ bg.pc = "build" => bg.file \notin DOMAIN disk.tables
  /\ bg.pc \in {"build", "built"} => bg.file < vset.next
  /\ bg.pc = "built" /\ bg.ok =>
       IF bg.file \in DOMAIN disk.tables
       THEN disk.tables[bg.file] = [data |-> db.memtables[db.imm], whole |-> TRUE]
       ELSE db.memtables[db.imm] = {}
  /\ bg.job = "merge" =>
       /\ bg.inputs \subseteq Scanned /\ bg.inputs \subseteq DOMAIN bg.files
       /\ bg.outputs \subseteq DOMAIN disk.tables
       /\ ~(bg.pc = "install" /\ ~Flushing) => bg.outputs \subseteq db.pending
       /\ bg.inputs \cap bg.outputs = {}
       /\ Flushing => bg.file \notin bg.outputs
  /\ bg.pc \in {"append", "msync"} \/ (bg.pc = "install" /\ bg.ok) => SafeEdit(bg.edit)
  /\ bg.pc = "append" => \A s \in Saids : s.next <= bg.edit.next /\ s.last <= bg.edit.last
  /\ bg.pc = "msync" => Current.all = Nothing \/ Current.all.log = bg.edit.log
  /\ bg.pc = "install" /\ bg.ok => \A s \in Saids : s = Nothing \/ s.log = bg.edit.log

ReaderInv ==
  \A r \in Readers : reader[r].pc = "reading" =>
    /\ DOMAIN reader[r].files \subseteq Scanned
    /\ {reader[r].mem, reader[r].imm} \ {0} \subseteq DOMAIN db.memtables
    /\ \A w \in reader[r].expect \ hist.lost :
         \E e \in Found(r) : e[1] <= reader[r].snap /\ e[2] = w

UpInv == /\ QueueInv /\ BatchInv /\ SeqInv /\ NumbersInv /\ StoreInv
         /\ ExactInv /\ BgInv /\ ReaderInv
-----------------------------------------------------------------------------
(* While it is not *)

Quiet == /\ queue = <<>> /\ thread = [t \in Threads |-> Idle] /\ awake = {}
         /\ bg = Resting /\ reader = [r \in Readers |-> Ready] /\ db = EmptyDB

ManifestInv ==
  /\ \A s \in Saids : s = Nothing \/ Valid(s)
  /\ Current.all = Nothing \/ \A s \in Saids : s.next <= Current.all.next
  /\ Nothing \in Saids /\ Current.all # Nothing =>
       hist.acked = {} \/ \A n \in DOMAIN disk.logs : LogData(n) = {}
  /\ \/ hist.acked = {} \/ \A n \in DOMAIN disk.logs : LogData(n) = {}
     \/ \A s \in Saids : s = Nothing \/ disk.current < s.next
  /\ disk.current = 0 => ~hist.opened /\ hist.acked = {}
  /\ hist.opened /\ ~hist.repaired =>
       /\ phase \notin {"newdb", "repair", "described"}
       /\ phase = "corrupt" => Current.all = Nothing
       /\ Nothing \in Saids => Current.all = Nothing
       /\ Current.all = Nothing => Current.torn
       /\ \A s \in Saids : s = Nothing \/ disk.current < s.next

(* The write is there for DB::Open, or for RepairDB, to find, also if what *)
(* was not synced of the logs is lost.                                     *)
Entered(n, safe) == IF safe THEN SafeLogData(n) ELSE LogData(n)
Survives(w, s, safe) ==
  IF Complete(s)
  THEN \/ w \in Writes(Data(DOMAIN s.files))
       \/ \E n \in DOMAIN disk.logs : n >= s.log /\ w \in Writes(Entered(n, safe))
  ELSE \/ w \in Writes(Data(DOMAIN disk.tables))
       \/ \E n \in DOMAIN disk.logs : w \in Writes(Entered(n, safe))

(* RepairDB has everything to go by; were it cut short, DB::Open would     *)
(* have what it had, but for the logs that are archived.                   *)
Kept(w, s, safe) ==
  /\ phase = "repair" => Survives(w, Nothing, safe)
  /\ w \in Archived \/ Survives(w, s, safe)

DurableInv ==
  /\ \A w \in hist.acked \ hist.lost : Kept(w, Current.all, FALSE)
  /\ \A w \in hist.synced \ hist.lost : \A s \in Saids : Kept(w, s, TRUE)

ReplayInv ==
  phase \in {"replay", "manifest"} =>
    /\ Current.all # Nothing
    /\ vset.files = Current.all.files /\ vset.log = Current.all.log
    /\ vset.manifest = Current.all.next
    /\ vset.manifest < vset.next /\ Current.all.last <= vset.last
    /\ opening.logs \subseteq {n \in DOMAIN disk.logs : n >= vset.log}
    /\ \A n \in DOMAIN disk.logs \ opening.logs : n >= vset.log =>
         n < vset.next /\ Writes(LogData(n)) \subseteq Writes(Data(DOMAIN opening.add)) \cup opening.lost
    /\ DOMAIN opening.add \subseteq Scanned
    /\ \A n \in DOMAIN opening.add :
         /\ vset.manifest < n /\ n < vset.next
         /\ \A e \in disk.tables[n].data : e[1] <= vset.last

LogInv ==
  phase \in {"manifest", "current", "install"} =>
    /\ opening.log \in DOMAIN disk.logs /\ disk.logs[opening.log].recs = <<>>
    /\ 0 < opening.log /\ opening.log < vset.next
    /\ \A n \in DOMAIN disk.logs : n <= opening.log

WrittenInv ==
  /\ phase = "manifest" => opening.logs = {}
  /\ phase \in {"current", "install"} =>
       /\ vset.manifest \in DOMAIN disk.manifests /\ vset.manifest # 0
       /\ disk.manifests[vset.manifest] = NewManifest
       /\ Valid(NewManifest.all)
       /\ vset.manifest < NewManifest.all.next
       /\ hist.acked \ (hist.lost \cup opening.lost) \subseteq Writes(Data(DOMAIN NewManifest.all.files))
  /\ phase = "current" /\ hist.opened /\ ~hist.repaired => disk.current # vset.manifest
  /\ phase = "install" => disk.current = vset.manifest /\ opening.lost \subseteq hist.lost

RepairInv ==
  /\ phase = "newdb" =>
       /\ 1 \in DOMAIN disk.manifests
       /\ disk.manifests[1].left = {Nothing, disk.manifests[1].all}
       /\ Valid(disk.manifests[1].all) /\ ~disk.manifests[1].torn
       /\ \/ hist.acked = {}
          \/ /\ DOMAIN disk.logs = {}
             /\ Data(DOMAIN disk.tables) \subseteq Data(DOMAIN disk.manifests[1].all.files)
  /\ phase = "repair" => vset.next > 0 /\ \A n \in DOMAIN disk.tables : n < vset.next
  /\ phase = "described" =>
       /\ DOMAIN disk.logs = {} /\ DOMAIN disk.manifests = {}
       /\ DOMAIN opening.add = Scanned /\ vset.next > 0
       /\ \A n \in Scanned : n < vset.next /\ \A e \in disk.tables[n].data : e[1] <= vset.last

DownInv == /\ Quiet /\ ManifestInv /\ DurableInv /\ ReplayInv /\ LogInv /\ WrittenInv /\ RepairInv

Phases == {"down", "newdb", "replay", "manifest", "current", "install", "up", "corrupt",
           "repair", "described"}

Up == phase = "up" /\ Shape /\ Bounded /\ SequencesUnique /\ UpInv
Down == phase \in Phases \ {"up"} /\ Shape /\ Bounded /\ SequencesUnique /\ DownInv

IInv == Up \/ Down
-----------------------------------------------------------------------------
(* Kinds of steps *)

(* Finished tables stay as they are: all of them, or those in F.           *)
TablesKept == \A n \in Scanned : n \in Scanned' /\ disk'.tables[n] = disk.tables[n]
FilesKept(F) == \A n \in F : n \in Scanned' /\ disk'.tables[n] = disk.tables[n]
LogsKept == \A n \in InMem : /\ LogData(n) \subseteq LogData(n)'
                             /\ SafeLogData(n) \subseteq SafeLogData(n)'
MemKept == /\ db'.log = db.log /\ db'.imm = db.imm
           /\ \A n \in InMem : db'.memtables[n] = db.memtables[n]
ImmKept == /\ db'.log = db.log /\ db'.imm = db.imm
           /\ db.imm # 0 => db'.memtables[db.imm] = db.memtables[db.imm]
OwedKept == Owed' \subseteq Owed /\ OwedSynced' \subseteq OwedSynced

(* The entries of all tables and of all memtables.                         *)
TableData == Data(DOMAIN disk.tables)
MemData == UNION {db.memtables[n] : n \in DOMAIN db.memtables}

(* No entry comes from anywhere but a table or a memtable.                 *)
NoNewEntries ==
  /\ \A n \in DOMAIN disk'.tables : disk'.tables[n].data \subseteq TableData \cup MemData
  /\ \A n \in DOMAIN db'.memtables : db'.memtables[n] \subseteq MemData
  /\ \A n \in DOMAIN disk'.logs :
       LogData(n)' \subseteq (IF n \in DOMAIN disk.logs THEN LogData(n) ELSE {})

(* The writers that have written to the log stay, with their groups.       *)
WritersKept ==
  \A t \in Threads :
    /\ thread'[t].pc \in Logged => thread'[t] = thread[t]
    /\ thread[t].pc \in Logged =>
         /\ thread'[t] = thread[t]
         /\ \A i \in DOMAIN thread[t].group :
              thread'[thread[t].group[i]].id = thread[thread[t].group[i]].id

(* The files, the version set and the memtables stay.                      *)
Calm ==
  /\ disk' = disk /\ phase' = phase /\ vset' = vset /\ bg' = bg /\ reader' = reader
  /\ db'.log = db.log /\ db'.imm = db.imm /\ db'.memtables = db.memtables
  /\ db'.pending = db.pending /\ db'.error = db.error
  /\ hist'.lost = hist.lost /\ hist'.opened = hist.opened /\ hist'.repaired = hist.repaired

(* Memtables that nobody uses may go, and readers come and go.             *)
Still ==
  /\ disk' = disk /\ phase' = phase /\ vset' = vset /\ bg' = bg
  /\ db'.log = db.log /\ db'.imm = db.imm /\ db'.pending = db.pending /\ db'.error = db.error
  /\ DOMAIN db'.memtables \subseteq DOMAIN db.memtables
  /\ \A n \in DOMAIN db'.memtables : db'.memtables[n] = db.memtables[n]
  /\ InMem \cap DOMAIN db.memtables \subseteq DOMAIN db'.memtables
  /\ hist'.lost = hist.lost /\ hist'.opened = hist.opened /\ hist'.repaired = hist.repaired

(* Writer t returns, and tells its group g.                                *)
Left(t, g, ok) ==
  /\ ThreadShape' /\ QueueInv'
  /\ \A u \in Threads : thread'[u].pc \notin Writing
  /\ thread'[t] = Returned(thread[t])
  /\ \A u \in ToSet(g) \ {t} : /\ thread'[u].id = thread[u].id /\ thread'[u].ok = ok
                               /\ thread'[u].sync = thread[u].sync /\ thread'[u].done
                               /\ thread'[u].pc = thread[u].pc
  /\ \A u \in Threads \ ToSet(g) : thread'[u] = thread[u]

(* A caller, and one that waits in the queue.                              *)
ThreadType == [pc : Pcs, sync : BOOLEAN, id : Nat, delay : BOOLEAN,
               force : BOOLEAN, done : BOOLEAN, ok : BOOLEAN, group : Seq(Threads)]
InQueue(w) == w.pc \in {"queued", "bgwait", "delayed"} /\ ~w.done
TruthKept == hist'.acked = hist.acked /\ hist'.synced = hist.synced /\ hist'.lost = hist.lost

(* Nobody else was told.                                                   *)
AnsweredKept == \A u \in Answered' : u \in Answered /\ thread'[u] = thread[u]

(* The state of an open database, and that it is the state d.              *)
IsDB(d) ==
  /\ d = [log |-> d.log, imm |-> d.imm, memtables |-> d.memtables, pending |-> d.pending,
          error |-> d.error, scheduled |-> d.scheduled, closing |-> d.closing,
          manual |-> d.manual]
  /\ {d.log, d.imm} \subseteq Nat /\ d.pending \subseteq Nat
  /\ {d.error, d.scheduled, d.closing} \subseteq BOOLEAN
  /\ DOMAIN d.memtables \subseteq Nat
  /\ \A n \in DOMAIN d.memtables : d.memtables[n] \subseteq Entry

(* The next state of the database is d, scheduling apart.                  *)
DBIs(d) ==
  /\ db'.log = d.log /\ db'.imm = d.imm /\ db'.memtables = d.memtables
  /\ db'.pending = d.pending /\ db'.error = d.error /\ db'.closing = d.closing
  /\ db'.manual = d.manual

(* The writer at the front goes on to its next step.                       *)
WriterMoves(t) ==
  /\ thread[t].pc \in Writing /\ thread'[t].pc \in Logged
  /\ thread'[t].ok <=> thread'[t].pc \notin {"finish", "syncerror"}
  /\ thread'[t].id = thread[t].id /\ thread'[t].sync = thread[t].sync
  /\ thread'[t].group = thread[t].group /\ thread'[t].done = thread[t].done
  /\ \A u \in Threads \ {t} : thread'[u] = thread[u]
  /\ queue' = queue /\ db' = db

(* The fields of the background thread, and those of its compaction.       *)
IsBg(b) == b = [pc |-> b.pc, file |-> b.file, edit |-> b.edit, ok |-> b.ok, job |-> b.job,
                manual |-> b.manual, inputs |-> b.inputs, outputs |-> b.outputs, files |-> b.files]
JobKept == /\ bg'.job = bg.job /\ bg'.manual = bg.manual /\ bg'.inputs = bg.inputs
           /\ bg'.outputs = bg.outputs /\ bg'.files = bg.files

(* Tables are written from what is there, with numbers taken.              *)
TablesCome ==
  /\ TablesKept
  /\ \A n \in DOMAIN disk'.tables : /\ disk'.tables[n].data \subseteq TableData \cup MemData
                                    /\ n < vset'.next

(* It takes a number, writes a table, or prepares an edit.                 *)
Works ==
  /\ phase' = phase /\ opening' = opening /\ queue' = queue /\ thread' = thread /\ awake' = awake
  /\ reader' = reader
  /\ disk'.logs = disk.logs /\ disk'.manifests = disk.manifests /\ disk'.current = disk.current
  /\ vset'.files = vset.files /\ vset'.log = vset.log /\ vset'.manifest = vset.manifest
  /\ vset'.last = vset.last /\ vset.next <= vset'.next
  /\ db'.log = db.log /\ db'.imm = db.imm /\ db'.memtables = db.memtables
  /\ db'.error = db.error /\ db'.manual = db.manual
  /\ TruthKept /\ hist'.opened = hist.opened /\ hist'.repaired = hist.repaired

(* What the end of LogAndApply, and the deletion of files, may do.         *)
Installs ==
  /\ phase' = phase /\ opening' = opening /\ reader' = reader /\ hist' = hist
  /\ vset'.last = vset.last /\ vset'.next = vset.next /\ vset'.manifest = vset.manifest
  /\ db'.log = db.log /\ db'.imm \in {0, db.imm}
  /\ vset'.log = (IF db'.imm = 0 THEN db.log ELSE db'.imm)
  /\ db'.imm # db.imm => /\ \A s \in Saids : s = Nothing \/ s.log = db.log
                         /\ Writes(db.memtables[db.imm]) \subseteq Writes(Data(DOMAIN vset'.files))
  /\ DOMAIN db'.memtables \subseteq DOMAIN db.memtables
  /\ \A n \in DOMAIN db'.memtables : db'.memtables[n] = db.memtables[n]
  /\ {db'.log, db'.imm} \cap DOMAIN db.memtables \subseteq DOMAIN db'.memtables
  /\ \A r \in Readers : {reader[r].mem, reader[r].imm} \cap DOMAIN db.memtables
                          \subseteq DOMAIN db'.memtables
  /\ Data(DOMAIN vset.files) \subseteq Data(DOMAIN vset'.files)
  /\ DOMAIN vset'.files \subseteq Scanned

(* Files that neither the version nor a reader needs are deleted.          *)
Cleans ==
  /\ disk'.current = disk.current /\ Current' = Current
  /\ disk.current \in DOMAIN disk'.manifests
  /\ DOMAIN disk'.logs \subseteq DOMAIN disk.logs
  /\ \A n \in DOMAIN disk'.logs : disk'.logs[n] = disk.logs[n]
  /\ \A n \in DOMAIN disk.logs : n >= vset'.log => n \in DOMAIN disk'.logs
  /\ DOMAIN disk'.tables \subseteq DOMAIN disk.tables
  /\ \A n \in DOMAIN disk'.tables : disk'.tables[n] = disk.tables[n]
  /\ DOMAIN vset'.files \subseteq DOMAIN disk'.tables
  /\ \A s \in Saids : DOMAIN s.files \subseteq DOMAIN disk'.tables
  /\ \A r \in Readers : reader[r].pc = "reading" => DOMAIN reader[r].files \subseteq DOMAIN disk'.tables

(* The end of a flush.                                                     *)
Flushed(d, ok) ==
  /\ IsDB(d) /\ d.log = db.log /\ d.imm = (IF ok THEN 0 ELSE db.imm)
  /\ d.pending = db.pending /\ d.manual = db.manual
  /\ d.error \in BOOLEAN /\ (d.error <=> db.error \/ ~ok)
  /\ DOMAIN d.memtables \subseteq DOMAIN db.memtables
  /\ \A n \in DOMAIN d.memtables : d.memtables[n] = db.memtables[n]
  /\ {d.log, d.imm} \cap DOMAIN db.memtables \subseteq DOMAIN d.memtables
  /\ \A r \in Readers : {reader[r].mem, reader[r].imm} \cap DOMAIN db.memtables
                          \subseteq DOMAIN d.memtables

(* The end of a compaction.                                                *)
Compacted(d, ok, m) ==
  /\ IsDB(d) /\ d.log = db.log /\ d.imm = db.imm /\ d.memtables = db.memtables
  /\ d.manual = m /\ d.error \in BOOLEAN /\ (d.error <=> db.error \/ ~ok)

(* The parts of the state that only an open database has.                  *)
Unmoved == /\ db' = db /\ queue' = queue /\ thread' = thread /\ awake' = awake
           /\ bg' = bg /\ reader' = reader

(* What a manifest names keeps its entries, or stays incomplete.           *)
SaidKept(s) ==
  IF Complete(s)
  THEN /\ DOMAIN s.files \subseteq DOMAIN disk'.tables
       /\ Data(DOMAIN s.files) \subseteq Data(DOMAIN s.files)'
  ELSE /\ ~(DOMAIN s.files \subseteq DOMAIN disk'.tables) \/ None \in {s.next, s.log, s.last}
       /\ TableData \subseteq TableData'
LogsStay ==
  \A n \in DOMAIN disk.logs : /\ n \in DOMAIN disk'.logs
                              /\ LogData(n) \subseteq LogData(n)'
                              /\ SafeLogData(n) \subseteq SafeLogData(n)'
EnteredStay(safe) ==
  \A n \in DOMAIN disk.logs : n \in DOMAIN disk'.logs
                              /\ Entered(n, safe) \subseteq Entered(n, safe)'
HistStays == hist'.acked = hist.acked /\ hist'.synced = hist.synced /\ hist'.lost = hist.lost

(* The same files, and the manifest at work among them.                    *)
SameFiles == disk'.tables = disk.tables /\ disk'.logs = disk.logs
SameStore == SameFiles /\ Current' = Current

(* Nothing is opened: what is not in the files is as it was.               *)
SameHist == /\ HistStays /\ hist'.opened = hist.opened /\ hist'.repaired = hist.repaired

(* One log is read up to some record, and leaves a table of some of what   *)
(* was read unless that is empty.                                          *)
Replayed(n, t, data, got, a) ==
  /\ n \in opening.logs /\ t = vset.next
  /\ data \subseteq got /\ got \subseteq LogData(n)
  /\ a \in Nat /\ t <= a /\ (data # {} => t < a)
  /\ disk' = IF data = {} THEN disk
             ELSE [disk EXCEPT !.tables = Put(@, t, [data |-> data, whole |-> TRUE])]
  /\ opening' = [opening EXCEPT !.logs = @ \ {n}, !.ok = opening'.ok,
                   !.add = IF data = {} THEN @ ELSE Put(@, t, 0),
                   !.lost = @ \cup (Writes(LogData(n)) \ Writes(data))]
  /\ opening'.ok \in BOOLEAN
  /\ vset' = [vset EXCEPT !.next = Max({a, n + 1}), !.last = NewestSeq(got, @)]

(* What it does to the files, and to the numbers.                          *)
Added(n, t, data) ==
  /\ DiskShape' /\ disk'.logs = disk.logs /\ Current' = Current /\ disk'.current = disk.current
  /\ data = {} => disk' = disk /\ opening'.add = opening.add
  /\ data # {} => /\ DOMAIN disk'.tables = DOMAIN disk.tables \cup {t}
                  /\ disk'.tables[t] = [data |-> data, whole |-> TRUE]
                  /\ \A k \in DOMAIN disk.tables \ {t} : disk'.tables[k] = disk.tables[k]
                  /\ DOMAIN opening'.add = DOMAIN opening.add \cup {t}
  /\ opening'.logs = opening.logs \ {n} /\ OpeningShape'
  /\ VersionShape' /\ vset'.files = vset.files /\ vset'.log = vset.log
  /\ vset'.manifest = vset.manifest
  /\ t <= vset'.next /\ n < vset'.next /\ (data # {} => t < vset'.next)
  /\ vset.last <= vset'.last /\ \A e \in data : e[1] <= vset'.last
  /\ opening.lost \subseteq opening'.lost
  /\ Writes(LogData(n)) \subseteq Writes(data) \cup opening'.lost

(* The database that has just been opened.                                 *)
FreshFiles(m, l) ==
  /\ Current' = m /\ m.left = {m.all} /\ ~m.torn
  /\ IsManifest(m) /\ Valid(m.all) /\ Valid(m.all)'
  /\ disk'.current = disk.current /\ disk.current # 0 /\ disk.current \in DOMAIN disk'.manifests
  /\ DOMAIN disk'.logs = {l} /\ LogData(l)' = {}
  /\ l \in Nat /\ 0 < l /\ l < vset.next
  /\ DOMAIN disk'.tables = DOMAIN m.all.files
  /\ \A n \in DOMAIN disk'.tables : n \in DOMAIN disk.tables /\ disk'.tables[n] = disk.tables[n]

(* The state after opening: what manifest m says, and an empty log l.      *)
FreshDB(m, l) ==
  /\ vset'.files = m.all.files /\ vset'.log = l /\ m.all.log = l
  /\ vset'.next = vset.next /\ m.all.next = vset.next
  /\ vset'.last = vset.last /\ m.all.last = vset.last
  /\ vset'.manifest = disk.current
  /\ db'.log = l /\ db'.imm = 0 /\ db'.manual = "none" /\ ~db'.error
  /\ DOMAIN db'.memtables = {l} /\ db'.memtables[l] = {}

(* The same with its files.                                                *)
Fresh(m, l) == FreshFiles(m, l) /\ FreshDB(m, l)

(* What a process leaves to the next one.                                  *)
Stored == /\ phase \in Phases /\ DiskShape /\ HistShape /\ Bounded /\ SequencesUnique
          /\ ManifestInv /\ DurableInv

(* Nothing more is lost than what a repair that was cut short had archived.*)
SameEnd == /\ hist'.acked = hist.acked /\ hist'.synced = hist.synced
           /\ hist'.opened = hist.opened /\ hist'.repaired = hist.repaired
           /\ hist'.lost = hist.lost \cup Archived

(* What a power failure leaves: of each log so many records, of the        *)
(* manifest that CURRENT names one of the things it may say, and the       *)
(* tables that were finished.                                              *)
Lost(cut, x) ==
  /\ disk'.current = disk.current
  /\ DOMAIN disk'.logs = DOMAIN disk.logs
  /\ \A n \in DOMAIN disk.logs :
       /\ LogData(n)' = ReadLog(disk.logs[n], cut[n]) /\ SafeLogData(n)' = ReadLog(disk.logs[n], cut[n])
       /\ ReadLog(disk.logs[n], cut[n]) \subseteq LogData(n)
       /\ SafeLogData(n) \subseteq ReadLog(disk.logs[n], cut[n])
  /\ DOMAIN disk'.tables = Scanned /\ Scanned' = Scanned
  /\ \A n \in Scanned : disk'.tables[n] = disk.tables[n]
  /\ x \in Saids /\ Current' = [all |-> x, left |-> {x}, torn |-> Current.torn]

(* What is left of the promises after a power failure.                     *)
LostPromises(cut, x) ==
  /\ hist'.synced = hist.synced
  /\ hist'.acked = hist.acked \cap (hist.synced \cup Recovered(x, cut))
  /\ hist'.lost = hist.lost \cup Archived
  /\ hist'.opened = hist.opened /\ hist'.repaired = hist.repaired
================================================================================
