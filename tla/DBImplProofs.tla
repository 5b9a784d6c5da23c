----------------------------- MODULE DBImplProofs -----------------------------
(***************************************************************************)
(* Theorems about DBImpl, for any number of callers and readers and any    *)
(* sizes and limits: what a writer was promised is kept through flushes,   *)
(* compactions, crashes, opening and repair (PromisesKept), and a reader   *)
(* sees all that was acknowledged before it began (ReadsComplete), but for *)
(* the writes that the code loses (hist.lost).                             *)
(*                                                                         *)
(* The argument.  A write that is owed, because its caller was told or is  *)
(* about to be, is in a table or in a memtable (Covers); what is in a      *)
(* memtable is in its log, and in the synced part of it if the write was   *)
(* synced (StoreInv, BatchInv).  Tables and logs are read again after a    *)
(* crash as the manifest says, and until an append is synced, or after one *)
(* that failed, it may say one of several things (Saids): all have to be   *)
(* good, at every step (Good), and no file goes that one of them needs.    *)
(* While the database is not open the same promises rest on the files      *)
(* alone (DurableInv), at each step of DB::Open and of RepairDB.           *)
(***************************************************************************)
EXTENDS DBImplInvariant, FiniteSetTheorems, WellFoundedInduction, TLAPS

(* Facts about the operators *)

(* The files after an edit, whose entries are what the edit adds, and what *)
(* it does not delete. *)
LEMMA ApplyFacts ==
  ASSUME NEW f, NEW e, IsFiles(f), IsFiles(e.add)
  PROVE  /\ DOMAIN Apply(f, e) = DOMAIN e.add \cup (DOMAIN f \ e.del)
         /\ IsFiles(Apply(f, e))
<1>1. DOMAIN Without(f, e.del) = DOMAIN f \ e.del BY DEF Without
<1>2. DOMAIN Apply(f, e) = DOMAIN e.add \cup (DOMAIN f \ e.del) BY <1>1 DEF Apply, Over
<1>3. ASSUME NEW n \in DOMAIN Apply(f, e)
      PROVE  Apply(f, e)[n] \in {0, 1} /\ n \in Nat
  <2>1. CASE n \in DOMAIN e.add BY <2>1 DEF Apply, Over, IsFiles
  <2>2. CASE n \notin DOMAIN e.add
    <3>1. n \in DOMAIN f \ e.del BY <2>2, <1>2
    <3>2. Apply(f, e)[n] = f[n] BY <3>1, <2>2 DEF Apply, Over, Without
    <3> QED BY <3>1, <3>2 DEF IsFiles
  <2> QED BY <2>1, <2>2
<1>4. Apply(f, e) = [n \in DOMAIN Apply(f, e) |-> Apply(f, e)[n]] BY DEF Apply, Over
<1> QED BY <1>2, <1>3, <1>4 DEF IsFiles

(* What is read of a log. *)
LEMMA ReadLogIn ==
  ASSUME NEW l, NEW k, NEW e
  PROVE  e \in ReadLog(l, k) <=>
           \E j \in 1 .. k : e \in l.recs[j] /\ \A h \in 1 .. j : l.recs[h] # Torn
BY DEF ReadLog

(* More of a log gives no less. *)
LEMMA ReadLogGrows ==
  ASSUME NEW l, NEW k \in Nat, NEW m \in Nat, k <= m
  PROVE  ReadLog(l, k) \subseteq ReadLog(l, m)
BY ReadLogIn

(* What is read of a log are entries. *)
LEMMA ReadLogType ==
  ASSUME NEW l, IsLog(l), NEW k \in 0 .. Len(l.recs)
  PROVE  ReadLog(l, k) \subseteq Entry
BY ReadLogIn DEF IsLog

(* A record that is added changes nothing of what was read before; it is *)
(* read itself if no torn record stands before it. *)
LEMMA ReadLogAppend ==
  ASSUME NEW l, IsLog(l), NEW r \in SUBSET Entry,
         NEW m, m.recs = Append(l.recs, r), m.synced = l.synced,
         m = [recs |-> m.recs, synced |-> m.synced]
  PROVE  /\ IsLog(m) /\ Len(m.recs) = Len(l.recs) + 1
         /\ ReadLog(l, Len(l.recs)) \subseteq ReadLog(m, Len(m.recs))
         /\ ReadLog(m, Len(m.recs)) \subseteq ReadLog(l, Len(l.recs)) \cup r
         /\ ReadLog(m, m.synced) = ReadLog(l, l.synced)
         /\ r # Torn /\ Torn \notin ToSet(l.recs) => r \subseteq ReadLog(m, Len(m.recs))
<1>1. /\ IsLog(m) /\ Len(m.recs) = Len(l.recs) + 1
      /\ \A i \in 1 .. Len(l.recs) : m.recs[i] = l.recs[i]
      /\ m.recs[Len(l.recs) + 1] = r
      /\ l.synced \in 0 .. Len(l.recs) /\ Len(l.recs) \in Nat
  BY DEF IsLog
<1>2. ASSUME NEW k \in 0 .. Len(l.recs)
      PROVE  ReadLog(m, k) = ReadLog(l, k)
  <2>1. \A j \in 1 .. k : m.recs[j] = l.recs[j] /\ \A h \in 1 .. j : m.recs[h] = l.recs[h]
    BY <1>1
  <2>2. ASSUME NEW e PROVE e \in ReadLog(m, k) <=> e \in ReadLog(l, k)
    <3>1. /\ e \in ReadLog(m, k) <=>
               \E j \in 1 .. k : e \in m.recs[j] /\ \A h \in 1 .. j : m.recs[h] # Torn
          /\ e \in ReadLog(l, k) <=>
               \E j \in 1 .. k : e \in l.recs[j] /\ \A h \in 1 .. j : l.recs[h] # Torn
      BY ReadLogIn
    <3> QED BY <3>1, <2>1
  <2> QED BY <2>2
<1>3. ReadLog(l, Len(l.recs)) \subseteq ReadLog(m, Len(m.recs))
  <2>1. ReadLog(m, Len(l.recs)) \subseteq ReadLog(m, Len(m.recs)) BY <1>1, ReadLogGrows
  <2> QED BY <2>1, <1>1, <1>2
<1>4. ReadLog(m, Len(m.recs)) \subseteq ReadLog(l, Len(l.recs)) \cup r
  <2> SUFFICES ASSUME NEW e \in ReadLog(m, Len(m.recs)), e \notin r
               PROVE  e \in ReadLog(l, Len(l.recs))
    OBVIOUS
  <2>1. PICK j \in 1 .. Len(m.recs) : e \in m.recs[j] /\ \A h \in 1 .. j : m.recs[h] # Torn
    BY ReadLogIn
  <2>2. j \in 1 .. Len(l.recs) BY <2>1, <1>1
  <2> QED BY <2>1, <2>2, <1>1, ReadLogIn
<1>5. ASSUME r # Torn, Torn \notin ToSet(l.recs)
      PROVE  r \subseteq ReadLog(m, Len(m.recs))
  <2>1. \A h \in 1 .. Len(l.recs) : l.recs[h] # Torn BY <1>5 DEF ToSet, IsLog
  <2>2. \A h \in 1 .. Len(m.recs) : m.recs[h] # Torn BY <2>1, <1>1, <1>5
  <2>3. Len(m.recs) \in 1 .. Len(m.recs) /\ m.recs[Len(m.recs)] = r BY <1>1
  <2>4. ASSUME NEW e \in r PROVE e \in ReadLog(m, Len(m.recs)) BY <2>2, <2>3, ReadLogIn
  <2> QED BY <2>4
<1> QED BY <1>1, <1>2, <1>3, <1>4, <1>5

(* A log that is cut after k records gives what its first k records gave. *)
LEMMA ReadLogCut ==
  ASSUME NEW l, IsLog(l), NEW k \in 0 .. Len(l.recs)
  PROVE  LET m == [recs |-> SubSeq(l.recs, 1, k), synced |-> k]
         IN  /\ IsLog(m) /\ Len(m.recs) = k
             /\ ReadLog(m, k) = ReadLog(l, k)
<1> DEFINE m == [recs |-> SubSeq(l.recs, 1, k), synced |-> k]
<1>1. /\ m.recs \in Seq(SUBSET Entry) /\ Len(m.recs) = k
      /\ \A i \in 1 .. k : m.recs[i] = l.recs[i]
  BY DEF IsLog
<1>2. IsLog(m) BY <1>1 DEF IsLog
<1>3. ReadLog(m, k) = ReadLog(l, k)
  <2>1. \A j \in 1 .. k : m.recs[j] = l.recs[j] /\ \A h \in 1 .. j : m.recs[h] = l.recs[h]
    BY <1>1
  <2> HIDE DEF m
  <2>2. ASSUME NEW e PROVE e \in ReadLog(m, k) <=> e \in ReadLog(l, k) BY <2>1, ReadLogIn
  <2> QED BY <2>2
<1> QED BY <1>1, <1>2, <1>3

(* A new log holds nothing. *)
LEMMA EmptyLog ==
  ASSUME NEW l, l = [recs |-> <<>>, synced |-> 0]
  PROVE  IsLog(l) /\ ReadLog(l, Len(l.recs)) = {} /\ ReadLog(l, l.synced) = {}
<1>1. l.recs = <<>> /\ l.synced = 0 /\ Len(l.recs) = 0 OBVIOUS
<1>2. IsLog(l) BY <1>1 DEF IsLog
<1> QED BY <1>1, <1>2, ReadLogIn

(* Numbers that do not run off have a greatest one; some are least. *)
LEMMA MinIn ==
  ASSUME NEW S \in SUBSET Nat, S # {}
  PROVE  Min(S) \in S /\ \A n \in S : Min(S) <= n
<1>1. \E m \in S : \A n \in S : ~(n < m)
  <2> DEFINE R == OpToRel(<, Nat)
  <2>1. IsWellFoundedOn(R, Nat) BY NatLessThanWellFounded
  <2> HIDE DEF R
  <2>2. \E m \in S : \A n \in S : ~ (<<n, m>> \in R) BY <2>1, WFMin
  <2>3. ASSUME NEW n \in Nat, NEW m \in Nat, n < m PROVE <<n, m>> \in R
    BY <2>3, Zenon DEF R, OpToRel
  <2> QED BY <2>2, <2>3
<1>2. \E m \in S : \A n \in S : m <= n BY <1>1
<1> QED BY <1>2 DEF Min

(* A bounded set of numbers has its greatest. *)
LEMMA MaxIn ==
  ASSUME NEW S \in SUBSET Nat, S # {}, NEW b \in Nat, \A n \in S : n <= b
  PROVE  Max(S) \in S /\ \A n \in S : n <= Max(S)
<1> DEFINE B == {c \in Nat : \A n \in S : n <= c}
<1>1. B # {} /\ B \in SUBSET Nat OBVIOUS
<1>2. PICK m \in B : \A c \in B : m <= c BY <1>1, MinIn
<1>3. m \in S
  <2> SUFFICES ASSUME m \notin S PROVE FALSE OBVIOUS
  <2>1. \A n \in S : n < m
    <3> SUFFICES ASSUME NEW n \in S PROVE n < m OBVIOUS
    <3>1. n <= m /\ n # m /\ n \in Nat /\ m \in Nat BY <1>2
    <3> QED BY <3>1
  <2>2. m > 0
    <3>1. PICK n \in S : TRUE OBVIOUS
    <3> QED BY <3>1, <2>1
  <2>3. m - 1 \in B BY <2>1, <2>2
  <2> QED BY <2>3, <1>2
<1> QED BY <1>2, <1>3 DEF Max

(* No entry has a sequence number above NewestSeq, which is never less *)
(* than the one that was known. *)
LEMMA NewestIs ==
  ASSUME NEW S \in SUBSET Entry, NEW least \in Nat, NEW b \in Nat, \A e \in S : e[1] <= b
  PROVE  /\ NewestSeq(S, least) \in Nat /\ least <= NewestSeq(S, least)
         /\ \A e \in S : e[1] <= NewestSeq(S, least)
<1> DEFINE T == {e[1] : e \in S} \cup {least}
<1>1. T \in SUBSET Nat /\ T # {} BY DEF Entry
<1>2. \A n \in T : n <= b + least BY DEF Entry
<1>3. b + least \in Nat OBVIOUS
<1> HIDE DEF T
<1>4. Max(T) \in T /\ \A n \in T : n <= Max(T) BY <1>1, <1>2, <1>3, MaxIn
<1> QED BY <1>1, <1>4 DEF T, NewestSeq

(* The entries of a group are numbered from the last sequence number on, *)
(* one for each of its batches. *)
LEMMA EntriesAre ==
  ASSUME ThreadShape, VersionShape, NEW g \in Seq(Threads)
  PROVE  /\ Entries(g) \subseteq Entry /\ Cardinality(Batches(g)) \in Nat
         /\ \A e \in Entries(g) :
              vset.last < e[1] /\ e[1] <= vset.last + Cardinality(Batches(g))
         /\ \A e, f \in Entries(g) : e[1] = f[1] => e = f
         /\ \A i \in DOMAIN g : thread[g[i]].id # 0 => thread[g[i]].id \in Writes(Entries(g))
<1> DEFINE B == Batches(g)
           Upto(i) == {j \in B : j <= i}
           id(i) == thread[g[i]].id
<1>1. IsFiniteSet(1 .. Len(g)) /\ B \subseteq 1 .. Len(g) /\ Len(g) \in Nat
  <2>1. Len(g) \in Nat /\ DOMAIN g = 1 .. Len(g) OBVIOUS
  <2>2. IsFiniteSet(1 .. Len(g)) BY <2>1, FS_Interval
  <2> QED BY <2>1, <2>2 DEF Batches
<1>2. IsFiniteSet(B) /\ Cardinality(B) \in Nat BY <1>1, FS_Subset, FS_CardinalityType
<1>3. \A i \in B : id(i) \in Nat BY DEF Batches, ThreadShape
<1>4. \A i \in B : /\ IsFiniteSet(Upto(i)) /\ Cardinality(Upto(i)) \in Nat
                   /\ Cardinality(Upto(i)) <= Cardinality(B) /\ Cardinality(Upto(i)) > 0
  <2> TAKE i \in B
  <2>1. Upto(i) \subseteq B /\ i \in Upto(i) BY <1>1
  <2> HIDE DEF Upto
  <2>2. IsFiniteSet(Upto(i)) /\ Cardinality(Upto(i)) <= Cardinality(B) BY <2>1, <1>2, FS_Subset
  <2>3. Cardinality(Upto(i)) \in Nat /\ Cardinality(Upto(i)) # 0
    BY <2>1, <2>2, FS_CardinalityType, FS_EmptySet
  <2> QED BY <2>2, <2>3
<1>5. \A i, k \in B : i < k => Cardinality(Upto(i)) < Cardinality(Upto(k))
  <2> SUFFICES ASSUME NEW i \in B, NEW k \in B, i < k
               PROVE  Cardinality(Upto(i)) < Cardinality(Upto(k))
    OBVIOUS
  <2>1. Upto(i) \subseteq Upto(k) /\ k \in Upto(k) /\ k \notin Upto(i) BY <1>1
  <2>2. IsFiniteSet(Upto(k)) /\ IsFiniteSet(Upto(i)) BY <1>4
  <2> HIDE DEF Upto
  <2>3. Cardinality(Upto(i)) <= Cardinality(Upto(k)) /\ Cardinality(Upto(i)) # Cardinality(Upto(k))
    BY <2>1, <2>2, FS_Subset
  <2> QED BY <2>3, <1>4
<1>6. \A e \in Entries(g) : \E i \in B : e = <<vset.last + Cardinality(Upto(i)), id(i)>>
  BY DEF Entries
<1>7. \A i \in B : <<vset.last + Cardinality(Upto(i)), id(i)>> \in Entries(g) BY DEF Entries
<1>8. vset.last \in Nat BY DEF VersionShape
<1>9. \A i \in DOMAIN g : id(i) # 0 => i \in B BY DEF Batches
<1> HIDE DEF B, Upto, id
<1>10. \A e \in Entries(g) : e \in Entry /\ vset.last < e[1] /\ e[1] <= vset.last + Cardinality(B)
  <2> TAKE e \in Entries(g)
  <2>1. PICK i \in B : e = <<vset.last + Cardinality(Upto(i)), id(i)>> BY <1>6
  <2> QED BY <2>1, <1>2, <1>3, <1>4, <1>8 DEF Entry
<1>11. \A e, f \in Entries(g) : e[1] = f[1] => e = f
  <2> SUFFICES ASSUME NEW e \in Entries(g), NEW f \in Entries(g), e[1] = f[1] PROVE e = f
    OBVIOUS
  <2>1. PICK i \in B : e = <<vset.last + Cardinality(Upto(i)), id(i)>> BY <1>6
  <2>2. PICK k \in B : f = <<vset.last + Cardinality(Upto(k)), id(k)>> BY <1>6
  <2>3. Cardinality(Upto(i)) = Cardinality(Upto(k)) BY <2>1, <2>2, <1>4, <1>8
  <2>4. i \in Nat /\ k \in Nat BY <1>1
  <2>5. i = k BY <2>3, <2>4, <1>4, <1>5
  <2> QED BY <2>1, <2>2, <2>5
<1>12. ASSUME NEW i \in DOMAIN g, id(i) # 0
       PROVE  id(i) \in Writes(Entries(g))
  <2>1. PICK e \in Entries(g) : e = <<vset.last + Cardinality(Upto(i)), id(i)>>
    BY <1>7, <1>9, <1>12
  <2>2. e[2] = id(i) BY <2>1
  <2> QED BY <2>1, <2>2 DEF Writes
<1> QED BY <1>2, <1>10, <1>11, <1>12 DEF B, id

(* They depend on nothing else. *)
LEMMA EntriesKept ==
  ASSUME NEW g, vset'.last = vset.last,
         \A i \in DOMAIN g : thread'[g[i]].id = thread[g[i]].id
  PROVE  Entries(g)' = Entries(g) /\ Batches(g)' = Batches(g)
<1>1. Batches(g)' = Batches(g) BY DEF Batches
<1>2. \A i \in Batches(g) : thread'[g[i]].id = thread[g[i]].id BY DEF Batches
<1> QED BY <1>1, <1>2 DEF Entries

(* More entries are of no fewer writes. *)
LEMMA WritesGrow ==
  ASSUME NEW S, NEW T, S \subseteq T
  PROVE  Writes(S) \subseteq Writes(T)
BY DEF Writes
-----------------------------------------------------------------------------
(* What a step leaves as it is, and what follows from it *)

(* Finished tables that stay hold what they held. *)
LEMMA DataKept ==
  ASSUME NEW F, F \subseteq Scanned, TablesKept
  PROVE  Data(F)' = Data(F) /\ F \subseteq Scanned'
BY DEF Data, TablesKept

(* A manifest stays valid while no finished table goes. *)
LEMMA ValidKept ==
  ASSUME NEW s, Valid(s), TablesKept
  PROVE  Valid(s)'
<1>1. DOMAIN s.files \subseteq Scanned' BY DataKept DEF Valid
<1>2. \A n \in DOMAIN s.files : disk'.tables[n] = disk.tables[n] BY DEF Valid, TablesKept
<1> QED BY <1>1, <1>2 DEF Valid

(* Tables and memtables that stay still hold all that is owed. *)
LEMMA CoversKept ==
  ASSUME NEW F, F \subseteq Scanned, Covers(F), TablesKept, MemKept, LogsKept, OwedKept
  PROVE  Covers(F)'
<1>1. Data(F)' = Data(F) BY DataKept
<1>2. InMem' = InMem /\ \A n \in InMem : db'.memtables[n] = db.memtables[n]
  BY DEF MemKept, InMem
<1>3. ASSUME NEW w \in Owed'
      PROVE  w \in Writes(Data(F)') \/ \E n \in InMem' : w \in Writes(db'.memtables[n])
  <2>1. w \in Owed BY <1>3 DEF OwedKept
  <2> QED BY <2>1, <1>1, <1>2 DEF Covers
<1>4. ASSUME NEW w \in OwedSynced'
      PROVE  w \in Writes(Data(F)')
             \/ \E n \in InMem' : w \in Writes(db'.memtables[n]) /\ w \in Writes(SafeLogData(n)')
  <2>1. w \in OwedSynced BY <1>4 DEF OwedKept
  <2>2. \A n \in InMem : Writes(SafeLogData(n)) \subseteq Writes(SafeLogData(n)')
    BY WritesGrow DEF LogsKept
  <2> QED BY <2>1, <2>2, <1>1, <1>2 DEF Covers
<1> QED BY <1>3, <1>4 DEF Covers

(* So do tables and logs. *)
LEMMA GoodKept ==
  ASSUME NEW F, NEW l, Good(F, l), vset'.log = vset.log,
         TablesKept, MemKept, LogsKept, OwedKept
  PROVE  Good(F, l)'
<1>1. F \subseteq Scanned' /\ Data(F)' = Data(F) BY DataKept DEF Good
<1>2. Covers(F)' BY CoversKept DEF Good
<1>3. db'.log = db.log /\ db'.imm = db.imm BY DEF MemKept
<1>4. db.imm # 0 => db'.memtables[db.imm] = db.memtables[db.imm] BY DEF MemKept, InMem
<1> QED BY <1>1, <1>2, <1>3, <1>4 DEF Good

(* A manifest that stays is as sound as what it may say ... *)
LEMMA SoundKept ==
  ASSUME Sound(Current), Current' = Current, \A s : Fine(s) => Fine(s)'
  PROVE  Sound(Current)'
BY DEF Sound

(* ... and that stays fine while no finished table goes and numbers only *)
(* grow. *)
LEMMA FineKept ==
  ASSUME NEW s, Fine(s), VersionShape, VersionShape', TablesKept, disk'.current = disk.current,
         vset.next <= vset'.next, vset.last <= vset'.last,
         Good(DOMAIN s.files, s.log) => Good(DOMAIN s.files, s.log)'
  PROVE  Fine(s)'
<1>1. Valid(s) /\ Valid(s)' /\ s.next <= vset.next /\ s.last <= vset.last BY ValidKept DEF Fine
<1>2. {s.next, s.last, vset.next, vset.last, vset'.next, vset'.last} \subseteq Nat
  BY <1>1 DEF Valid, VersionShape
<1>3. s.next <= vset'.next /\ s.last <= vset'.last BY <1>1, <1>2
<1> QED BY <1>1, <1>3 DEF Fine

(* A step that takes away no table, log or memtable, adds no promise and *)
(* leaves the manifest alone keeps StoreInv. *)
LEMMA StoreKept ==
  ASSUME StoreInv, DiskShape, VersionShape, VersionShape',
         vset'.files = vset.files, vset'.log = vset.log,
         vset.next <= vset'.next, vset.last <= vset'.last, Current' = Current, disk'.current = disk.current,
         TablesKept, MemKept, LogsKept, OwedKept, hist.lost \subseteq hist'.lost
  PROVE  StoreInv'
<1>1. \A n \in InMem' : Writes(db'.memtables[n]) \subseteq Writes(LogData(n)') \cup hist'.lost
  <2> SUFFICES ASSUME NEW n \in InMem'
               PROVE  Writes(db'.memtables[n]) \subseteq Writes(LogData(n)') \cup hist'.lost
    OBVIOUS
  <2>1. n \in InMem /\ db'.memtables[n] = db.memtables[n] BY DEF MemKept, InMem
  <2>2. Writes(LogData(n)) \subseteq Writes(LogData(n)') BY <2>1, WritesGrow DEF LogsKept
  <2> QED BY <2>1, <2>2 DEF StoreInv
<1>2. Good(DOMAIN vset.files, vset.log)'
  <2>1. PICK F, l : F = DOMAIN vset.files /\ l = vset.log OBVIOUS
  <2>2. Good(F, l)' BY <2>1, GoodKept DEF StoreInv
  <2> QED BY <2>1, <2>2
<1>3. ASSUME NEW s, Fine(s) PROVE Fine(s)'
  <2>1. PICK F, l : F = DOMAIN s.files /\ l = s.log OBVIOUS
  <2>2. Good(F, l) => Good(F, l)' BY GoodKept
  <2> QED BY <1>3, <2>1, <2>2, FineKept
<1> QED BY <1>1, <1>2, <1>3, SoundKept DEF StoreInv

(* The manifest says what is installed until one of them changes. *)
LEMMA ExactKept ==
  ASSUME ExactInv, Current' = Current, bg' = bg, vset'.files = vset.files,
         vset'.log = vset.log, db.error => db'.error
  PROVE  ExactInv'
BY DEF ExactInv, Exact, ExactAfter, Saids

(* Memtables that stay include the one that is flushed. *)
LEMMA MemImm == MemKept => ImmKept
BY DEF MemKept, ImmKept, InMem

(* An edit that could be added can still be, when numbers have only grown. *)
LEMMA SafeEditKept ==
  ASSUME NEW e, SafeEdit(e), Flushing' <=> Flushing, Flushing => db.imm # 0,
         VersionShape, VersionShape', vset'.log = vset.log,
         vset.next <= vset'.next, vset.last <= vset'.last, TablesKept, Flushing => ImmKept
  PROVE  SafeEdit(e)'
<1>1. /\ DOMAIN e.add \subseteq Scanned' /\ Data(DOMAIN e.add)' = Data(DOMAIN e.add)
      /\ e.del \subseteq Scanned' /\ Data(e.del)' = Data(e.del)
  <2>1. PICK F, G : F = DOMAIN e.add /\ G = e.del OBVIOUS
  <2>2. F \subseteq Scanned /\ G \subseteq Scanned BY <2>1 DEF SafeEdit
  <2>3. /\ F \subseteq Scanned' /\ Data(F)' = Data(F)
        /\ G \subseteq Scanned' /\ Data(G)' = Data(G)
    BY <2>2, DataKept
  <2> QED BY <2>1, <2>3
<1>2. \A n \in DOMAIN e.add : disk'.tables[n] = disk.tables[n] BY DEF SafeEdit, TablesKept
<1>3. Flushing => /\ db'.log = db.log /\ db'.imm = db.imm
                   /\ db'.memtables[db.imm] = db.memtables[db.imm]
  BY DEF ImmKept
<1>4. e.next <= vset'.next /\ e.last <= vset'.last BY DEF SafeEdit, VersionShape
<1> QED BY <1>1, <1>2, <1>3, <1>4 DEF SafeEdit

(* The background thread finds what it left, whatever callers do meanwhile *)
(* without the mutex. *)
LEMMA BgKept ==
  ASSUME BgInv, bg' = bg, DOMAIN disk'.tables = DOMAIN disk.tables, db.pending \subseteq db'.pending,
         Current' = Current, VersionShape, VersionShape', vset'.log = vset.log,
         vset.next <= vset'.next, vset.last <= vset'.last, TablesKept, Flushing => ImmKept,
         BgShape
  PROVE  BgInv'
<1>1. Flushing' = Flushing /\ (Flushing => db'.imm = db.imm) BY DEF Flushing, ImmKept
<1>2. Flushing => db'.memtables[db.imm] = db.memtables[db.imm] BY DEF BgInv, ImmKept
<1>3. bg.pc \in {"append", "msync"} \/ (bg.pc = "install" /\ bg.ok) => SafeEdit(bg.edit)'
  <2> SUFFICES ASSUME bg.pc \in {"append", "msync"} \/ (bg.pc = "install" /\ bg.ok)
               PROVE  SafeEdit(bg.edit)'
    OBVIOUS
  <2>1. PICK e : e = bg.edit OBVIOUS
  <2>2. SafeEdit(e) BY <2>1 DEF BgInv
  <2>3. Flushing => db.imm # 0 BY DEF BgInv
  <2>4. SafeEdit(e)' BY <2>2, <2>3, <1>1, SafeEditKept
  <2> QED BY <2>1, <2>4
<1>4. bg.pc \in {"build", "built"} => bg.file < vset'.next BY DEF BgInv, VersionShape, BgShape
<1>5. bg.pc = "built" /\ bg.ok =>
       IF bg.file \in DOMAIN disk'.tables
       THEN disk'.tables[bg.file] = [data |-> db'.memtables[db'.imm], whole |-> TRUE]
       ELSE db'.memtables[db'.imm] = {}
  <2> SUFFICES ASSUME bg.pc = "built", bg.ok
               PROVE  IF bg.file \in DOMAIN disk'.tables
                      THEN disk'.tables[bg.file] = [data |-> db'.memtables[db'.imm], whole |-> TRUE]
                      ELSE db'.memtables[db'.imm] = {}
    OBVIOUS
  <2>1. db'.memtables[db'.imm] = db.memtables[db.imm] BY <1>1, <1>2 DEF BgInv
  <2>2. ASSUME bg.file \in DOMAIN disk.tables PROVE disk'.tables[bg.file] = disk.tables[bg.file]
    <3>1. bg.file \in Scanned BY <2>2 DEF BgInv, Scanned
    <3> QED BY <3>1 DEF TablesKept
  <2> QED BY <2>1, <2>2 DEF BgInv
<1>6. bg.job = "merge" =>
       /\ bg.inputs \subseteq Scanned' /\ bg.inputs \subseteq DOMAIN bg.files
       /\ bg.outputs \subseteq DOMAIN disk'.tables
       /\ ~(bg.pc = "install" /\ ~Flushing) => bg.outputs \subseteq db'.pending
       /\ bg.inputs \cap bg.outputs = {}
       /\ Flushing => bg.file \notin bg.outputs
  BY DEF BgInv, TablesKept
<1>7. Saids' = Saids BY DEF Saids
<1>8. /\ bg.pc = "idle" => bg = Resting
      /\ Flushing => bg.pc # "compact" /\ db'.imm # 0 /\ bg.job # "move"
      /\ bg.pc = "compact" => bg.job = "merge"
      /\ bg.pc \in {"build", "built"} => Flushing
      /\ ~Flushing /\ bg.pc # "idle" => bg.job # "none"
      /\ bg.pc = "build" => bg.file \notin DOMAIN disk'.tables
      /\ bg.pc = "append" => \A s \in Saids : s.next <= bg.edit.next /\ s.last <= bg.edit.last
      /\ bg.pc = "msync" => Current.all = Nothing \/ Current.all.log = bg.edit.log
      /\ bg.pc = "install" /\ bg.ok => \A s \in Saids : s = Nothing \/ s.log = bg.edit.log
  BY <1>1 DEF BgInv
<1> QED BY <1>1, <1>3, <1>4, <1>5, <1>6, <1>7, <1>8 DEF BgInv, Resting

(* What a reader finds is in its memtables or in its tables. *)
LEMMA FoundIn ==
  ASSUME NEW r, NEW e
  PROVE  e \in Found(r) <=>
           \/ \E n \in {reader[r].mem, reader[r].imm} \cap DOMAIN db.memtables :
                e \in db.memtables[n]
           \/ \E n \in DOMAIN reader[r].files \cap DOMAIN disk.tables : e \in disk.tables[n].data
BY DEF Found, Data

(* A reader keeps what it found, also of memtables that others let go. *)
LEMMA ReaderKeeps ==
  ASSUME ReaderInv, NEW r \in Readers, reader'[r] = reader[r],
         FilesKept(DOMAIN reader[r].files),
         hist.lost \subseteq hist'.lost,
         \A n \in {reader[r].mem, reader[r].imm} \cap DOMAIN db.memtables :
           n \in DOMAIN db'.memtables /\ db.memtables[n] \subseteq db'.memtables[n],
         reader[r].pc = "reading"
  PROVE  /\ DOMAIN reader'[r].files \subseteq Scanned'
         /\ {reader'[r].mem, reader'[r].imm} \ {0} \subseteq DOMAIN db'.memtables
         /\ \A w \in reader'[r].expect \ hist'.lost :
              \E e \in Found(r)' : e[1] <= reader'[r].snap /\ e[2] = w
<1>1. /\ DOMAIN reader[r].files \subseteq Scanned
      /\ {reader[r].mem, reader[r].imm} \ {0} \subseteq DOMAIN db.memtables
      /\ \A w \in reader[r].expect \ hist.lost :
           \E e \in Found(r) : e[1] <= reader[r].snap /\ e[2] = w
  BY DEF ReaderInv
<1>2. DOMAIN reader[r].files \subseteq Scanned' BY DEF FilesKept
<1>3. ASSUME NEW e \in Found(r) PROVE e \in Found(r)'
  <2>1. CASE \E n \in {reader[r].mem, reader[r].imm} \cap DOMAIN db.memtables :
               e \in db.memtables[n]
    <3>1. PICK n \in {reader[r].mem, reader[r].imm} \cap DOMAIN db.memtables :
            e \in db.memtables[n]
      BY <2>1
    <3>2. n \in DOMAIN db'.memtables /\ e \in db'.memtables[n] BY <3>1
    <3>3. n \in {reader'[r].mem, reader'[r].imm} \cap DOMAIN db'.memtables BY <3>1, <3>2
    <3> QED BY <3>2, <3>3 DEF Found
  <2>2. CASE \E n \in DOMAIN reader[r].files \cap DOMAIN disk.tables : e \in disk.tables[n].data
    <3>1. PICK n \in DOMAIN reader[r].files \cap DOMAIN disk.tables : e \in disk.tables[n].data
      BY <2>2
    <3>2. n \in Scanned' /\ disk'.tables[n] = disk.tables[n] BY <3>1 DEF FilesKept
    <3>3. n \in DOMAIN disk'.tables BY <3>2 DEF Scanned
    <3>4. n \in DOMAIN reader'[r].files \cap DOMAIN disk'.tables /\ e \in disk'.tables[n].data
      BY <3>1, <3>2, <3>3
    <3>5. e \in UNION {disk'.tables[k].data : k \in DOMAIN reader'[r].files \cap DOMAIN disk'.tables}
      BY <3>4
    <3> QED BY <3>5 DEF Found, Data
  <2> QED BY <2>1, <2>2, FoundIn
<1> QED BY <1>1, <1>2, <1>3

(* A reader finds what it found if its memtables have only grown and its *)
(* tables have stayed. *)
LEMMA ReaderKept ==
  ASSUME ReaderInv, NEW r \in Readers, reader'[r] = reader[r], TablesKept,
         hist.lost \subseteq hist'.lost,
         \A n \in {reader[r].mem, reader[r].imm} \cap DOMAIN db.memtables :
           n \in DOMAIN db'.memtables /\ db.memtables[n] \subseteq db'.memtables[n],
         reader[r].pc = "reading"
  PROVE  /\ DOMAIN reader'[r].files \subseteq Scanned'
         /\ {reader'[r].mem, reader'[r].imm} \ {0} \subseteq DOMAIN db'.memtables
         /\ \A w \in reader'[r].expect \ hist'.lost :
              \E e \in Found(r)' : e[1] <= reader'[r].snap /\ e[2] = w
<1>1. FilesKept(DOMAIN reader[r].files) BY DEF FilesKept, TablesKept, ReaderInv
<1> QED BY <1>1, ReaderKeeps

(* So it is for all readers if no memtable goes. *)
LEMMA ReadersKept ==
  ASSUME ReaderInv, reader' = reader, TablesKept, hist.lost \subseteq hist'.lost,
         \A n \in DOMAIN db.memtables :
           n \in DOMAIN db'.memtables /\ db.memtables[n] \subseteq db'.memtables[n]
  PROVE  ReaderInv'
<1> SUFFICES ASSUME NEW r \in Readers, reader'[r].pc = "reading"
             PROVE  /\ DOMAIN reader'[r].files \subseteq Scanned'
                    /\ {reader'[r].mem, reader'[r].imm} \ {0} \subseteq DOMAIN db'.memtables
                    /\ \A w \in reader'[r].expect \ hist'.lost :
                         \E e \in Found(r)' : e[1] <= reader'[r].snap /\ e[2] = w
  BY DEF ReaderInv
<1>1. reader[r].pc = "reading" /\ reader'[r] = reader[r] OBVIOUS
<1> QED BY <1>1, ReaderKept
-----------------------------------------------------------------------------
(* Steps that write nothing new *)

(* Entries are in tables, memtables and logs. *)
LEMMA AllIs ==
  ASSUME NEW e
  PROVE  e \in AllEntries <=>
           \/ \E n \in DOMAIN disk.tables : e \in disk.tables[n].data
           \/ \E n \in DOMAIN db.memtables : e \in db.memtables[n]
           \/ \E n \in DOMAIN disk.logs : e \in LogData(n)
BY DEF AllEntries, Data

(* SequencesUnique, in terms of them. *)
LEMMA UniqueIs == SequencesUnique <=> \A e, f \in AllEntries : e[1] = f[1] => e = f
BY DEF SequencesUnique, AllEntries, LogData

(* Moving entries between memtables, logs and tables makes no new ones. *)
LEMMA AllEntriesKept ==
  ASSUME NoNewEntries
  PROVE  AllEntries' \subseteq AllEntries
<1> SUFFICES ASSUME NEW e \in AllEntries' PROVE e \in AllEntries OBVIOUS
<1>1. \/ \E n \in DOMAIN disk'.tables : e \in disk'.tables[n].data
      \/ \E n \in DOMAIN db'.memtables : e \in db'.memtables[n]
      \/ \E n \in DOMAIN disk'.logs : e \in LogData(n)'
  BY AllIs DEF AllEntries, Data
<1>2. e \in TableData \/ e \in MemData \/ \E n \in DOMAIN disk.logs : e \in LogData(n)
  BY <1>1 DEF NoNewEntries
<1>3. e \in TableData => \E n \in DOMAIN disk.tables : e \in disk.tables[n].data
  BY DEF TableData, Data
<1>4. e \in MemData => \E n \in DOMAIN db.memtables : e \in db.memtables[n] BY DEF MemData
<1> QED BY <1>2, <1>3, <1>4, AllIs

(* The entries of a group stay the same until the sequence number *)
(* advances. *)
LEMMA WrittenKept ==
  ASSUME ThreadShape, WritersKept, vset'.last = vset.last,
         NEW t \in Threads, thread[t].pc \in Logged
  PROVE  thread'[t].group = thread[t].group /\ Entries(thread[t].group)' = Entries(thread[t].group)
<1>1. PICK g : g = thread[t].group OBVIOUS
<1>2. thread'[t].group = g /\ \A i \in DOMAIN g : thread'[g[i]].id = thread[g[i]].id
  BY <1>1 DEF WritersKept
<1>3. Entries(g)' = Entries(g) BY <1>2, EntriesKept
<1> QED BY <1>1, <1>2, <1>3

(* Sequence numbers in files and memtables stay below the last one, or in *)
(* the group that is being written. *)
LEMMA SeqKept ==
  ASSUME ThreadShape, SeqInv, NoNewEntries, WritersKept, vset'.last = vset.last
  PROVE  SeqInv'
<1>1. \A e \in TableData : e[1] <= vset.last BY DEF SeqInv, TableData, Data
<1>2. \A e \in MemData : e[1] <= vset.last BY DEF SeqInv, MemData
<1>3. ASSUME NEW n \in DOMAIN disk'.tables, NEW e \in disk'.tables[n].data
      PROVE  e[1] <= vset'.last
  BY <1>1, <1>2 DEF NoNewEntries
<1>4. ASSUME NEW n \in DOMAIN db'.memtables, NEW e \in db'.memtables[n]
      PROVE  e[1] <= vset'.last
  BY <1>2 DEF NoNewEntries
<1>5. ASSUME NEW n \in DOMAIN disk'.logs, NEW e \in LogData(n)'
      PROVE  \/ e[1] <= vset'.last
             \/ \E t \in Threads : thread'[t].pc \in Logged /\ e \in Entries(thread[t].group)'
  <2>1. n \in DOMAIN disk.logs /\ e \in LogData(n) BY DEF NoNewEntries
  <2>2. CASE e[1] <= vset.last BY <2>2
  <2>3. CASE ~(e[1] <= vset.last)
    <3>1. PICK t \in Threads : thread[t].pc \in Logged /\ e \in Entries(thread[t].group)
      BY <2>1, <2>3 DEF SeqInv
    <3>2. thread'[t].pc \in Logged /\ e \in Entries(thread[t].group)'
      BY <3>1, WrittenKept DEF WritersKept
    <3> QED BY <3>2
  <2> QED BY <2>2, <2>3
<1> QED BY <1>3, <1>4, <1>5 DEF SeqInv

(* What a writer has put into the log stays there while it goes on. *)
LEMMA BatchKept ==
  ASSUME ThreadShape, BatchInv, WritersKept, vset'.last = vset.last,
         db'.log = db.log, hist.lost \subseteq hist'.lost,
         LogData(db.log) \subseteq LogData(db.log)',
         SafeLogData(db.log) \subseteq SafeLogData(db.log)'
  PROVE  BatchInv'
<1> SUFFICES ASSUME NEW t \in Threads, thread'[t].pc \in {"sync", "insert"}
             PROVE  /\ Writes(Entries(thread[t].group)') \subseteq Writes(LogData(db.log)') \cup hist'.lost
                    /\ thread'[t].pc = "insert" /\ thread'[t].sync =>
                         Writes(Entries(thread[t].group)') \subseteq Writes(SafeLogData(db.log)') \cup hist'.lost
  BY DEF BatchInv
<1>1. thread[t] = thread'[t] /\ thread[t].pc \in Logged BY DEF WritersKept, Logged
<1>2. Entries(thread[t].group)' = Entries(thread[t].group) BY <1>1, WrittenKept
<1>3. /\ Writes(LogData(db.log)) \subseteq Writes(LogData(db.log)')
      /\ Writes(SafeLogData(db.log)) \subseteq Writes(SafeLogData(db.log)')
  BY WritesGrow
<1>4. /\ Writes(Entries(thread[t].group)) \subseteq Writes(LogData(db.log)) \cup hist.lost
      /\ thread[t].pc = "insert" /\ thread[t].sync =>
           Writes(Entries(thread[t].group)) \subseteq Writes(SafeLogData(db.log)) \cup hist.lost
  BY <1>1 DEF BatchInv
<1> QED BY <1>1, <1>2, <1>3, <1>4

(* Without new entries, sequence numbers stay bounded and unique. *)
LEMMA BoundedKept ==
  ASSUME Bounded, SequencesUnique, AllEntries' \subseteq AllEntries, NumbersInv', DiskShape', VersionShape'
  PROVE  Bounded' /\ SequencesUnique'
<1>1. \A n \in DOMAIN disk'.logs \cup DOMAIN disk'.tables : n < vset'.next BY DEF NumbersInv
<1>2. vset'.next \in Nat BY DEF VersionShape
<1>3. \A n \in DOMAIN disk'.logs \cup DOMAIN disk'.tables : n <= vset'.next
  BY <1>1, <1>2 DEF DiskShape
<1>4. \E b \in Nat : \A e \in AllEntries' : e[1] <= b BY DEF Bounded
<1>5. \A e, f \in AllEntries' : e[1] = f[1] => e = f BY UniqueIs
<1>6. SequencesUnique' BY <1>5 DEF SequencesUnique, AllEntries, LogData
<1> QED BY <1>2, <1>3, <1>4, <1>6 DEF Bounded
-----------------------------------------------------------------------------
(* Steps of callers that leave the files and memtables as they are *)

(* A step that leaves files, versions and memtables alone and promises *)
(* nothing keeps all that is said of them. *)
LEMMA CalmStep ==
  ASSUME Up, Still, OwedKept, WritersKept
  PROVE  /\ Bounded' /\ SequencesUnique' /\ DiskShape' /\ VersionShape' /\ BgShape'
         /\ BatchInv' /\ SeqInv' /\ NumbersInv' /\ StoreInv' /\ ExactInv' /\ BgInv'
<1>1. /\ DiskShape /\ VersionShape /\ BgShape /\ ReaderShape /\ ThreadShape
      /\ Bounded /\ SequencesUnique
  BY DEF Up, Shape
<1>2. /\ BatchInv /\ SeqInv /\ NumbersInv /\ StoreInv /\ ExactInv /\ BgInv /\ ReaderInv
  BY DEF Up, UpInv
<1>3. DiskShape' /\ VersionShape' /\ BgShape'
  BY <1>1 DEF Still, DiskShape, VersionShape, BgShape
<1>4. TablesKept /\ LogsKept /\ MemKept /\ NoNewEntries /\ Current' = Current
  <2>1. TablesKept /\ MemKept BY <1>2 DEF Still, TablesKept, MemKept, Scanned, NumbersInv
  <2>2. \A n : LogData(n)' = LogData(n) /\ SafeLogData(n)' = SafeLogData(n)
    BY DEF Still, LogData, SafeLogData
  <2>3. NoNewEntries BY <2>2 DEF Still, NoNewEntries, TableData, MemData, Data
  <2>4. Current' = Current BY DEF Still, Current
  <2>5. LogsKept BY <2>2 DEF LogsKept
  <2> QED BY <2>1, <2>3, <2>4, <2>5
<1>5. LogData(db.log)' = LogData(db.log) /\ SafeLogData(db.log)' = SafeLogData(db.log)
  BY DEF Still, LogData, SafeLogData
<1>6. SeqInv' BY <1>1, <1>2, <1>4, SeqKept DEF Still
<1>7. BatchInv' BY <1>1, <1>2, <1>5, BatchKept DEF Still
<1>8. NumbersInv' BY <1>2 DEF NumbersInv, Still, InMem
<1>9. Bounded' /\ SequencesUnique'
  <2>1. AllEntries' \subseteq AllEntries BY <1>4, AllEntriesKept
  <2> QED BY <2>1, <1>1, <1>3, <1>8, BoundedKept
<1>10. StoreInv'
  <2>1. vset.next <= vset'.next /\ vset.last <= vset'.last BY <1>1 DEF VersionShape, Still
  <2> QED BY <2>1, <1>1, <1>2, <1>3, <1>4, StoreKept DEF Still
<1>11. ExactInv' BY <1>2, <1>4, ExactKept DEF Still
<1>12. BgInv'
  <2>1. vset.next <= vset'.next /\ vset.last <= vset'.last BY <1>1 DEF VersionShape, Still
  <2> QED BY <2>1, <1>1, <1>2, <1>3, <1>4, MemImm, BgKept DEF Still
<1> QED BY <1>3, <1>6, <1>7, <1>8, <1>9, <1>10, <1>11, <1>12

(* Who is at the front of the queue and may go on is not a writer yet, and *)
(* so nobody is. *)
LEMMA FrontFacts ==
  ASSUME ThreadShape, QueueInv, NEW t \in Threads, AtFront(t)
  PROVE  /\ Len(queue) \in Nat \ {0} /\ queue[1] = t /\ <<t>> = SubSeq(queue, 1, 1)
         /\ thread[t].pc \in {"queued", "bgwait", "delayed"} /\ ~thread[t].done
         /\ \A u \in Threads : thread[u].pc \notin Writing
<1>1. Len(queue) \in Nat \ {0} /\ queue[1] = t BY DEF AtFront, ThreadShape
<1>2. thread[t].pc \in {"queued", "bgwait", "delayed"} /\ ~thread[t].done BY DEF AtFront
<1>3. ASSUME NEW u \in Threads, thread[u].pc \in Writing PROVE FALSE
  <2>1. queue[1] = u BY <1>3 DEF QueueInv
  <2> QED BY <2>1, <1>1, <1>2, <1>3 DEF Writing, Logged
<1>4. <<t>> = SubSeq(queue, 1, 1) BY <1>1 DEF ThreadShape
<1> QED BY <1>1, <1>2, <1>3, <1>4

(* A caller that returns is idle, or goes on in CompactRange. *)
LEMMA ReturnedIs ==
  ASSUME ThreadShape, NEW t \in Threads
  PROVE  /\ Returned(thread[t]) \in
              [pc : Pcs, sync : BOOLEAN, id : Nat, delay : BOOLEAN,
               force : BOOLEAN, done : BOOLEAN, ok : BOOLEAN, group : Seq(Threads)]
         /\ Returned(thread[t]).pc \in {"immwait", "idle"} /\ Returned(thread[t]).id = 0
<1>1. <<>> \in Seq(Threads) OBVIOUS
<1>2. Idle.pc = "idle" /\ Idle.id = 0 BY DEF Idle
<1>3. Idle \in [pc : Pcs, sync : BOOLEAN, id : Nat, delay : BOOLEAN,
                force : BOOLEAN, done : BOOLEAN, ok : BOOLEAN, group : Seq(Threads)]
  BY <1>1 DEF Idle, Pcs
<1>4. "immwait" \in Pcs BY DEF Pcs
<1> QED BY <1>2, <1>3, <1>4 DEF Returned

(* The rest of a queue is a queue. *)
LEMMA RestIn ==
  ASSUME NEW S, NEW q \in Seq(S), NEW k \in 1 .. Len(q)
  PROVE  /\ SubSeq(q, k + 1, Len(q)) \in Seq(S)
         /\ Len(SubSeq(q, k + 1, Len(q))) = Len(q) - k
         /\ \A i \in 1 .. Len(q) - k : SubSeq(q, k + 1, Len(q))[i] = q[i + k]
<1>1. SubSeq(q, k + 1, Len(q)) \in Seq(S) OBVIOUS
<1>2. Len(SubSeq(q, k + 1, Len(q))) = Len(q) - k
  <2>1. Len(q) \in Nat /\ k \in Nat /\ k <= Len(q) OBVIOUS
  <2>2. CASE k = Len(q) BY <2>1, <2>2
  <2>3. CASE k < Len(q) BY <2>1, <2>3
  <2> QED BY <2>1, <2>2, <2>3
<1>3. \A i \in 1 .. Len(q) - k : SubSeq(q, k + 1, Len(q))[i] = q[i + k] OBVIOUS
<1> QED BY <1>1, <1>2, <1>3

(* The end of Write leaves a queue with no writer in it. *)
LEMMA LeaveFacts ==
  ASSUME ThreadShape, QueueInv, NEW t \in Threads, NEW k \in 1 .. Len(queue), NEW g,
         g = SubSeq(queue, 1, k), queue[1] = t,
         \A u \in Threads \ {t} : thread[u].pc \notin Writing,
         NEW ok \in BOOLEAN, NEW woken \in SUBSET Threads, Leave(t, g, ok, woken),
         db'.manual = db.manual
  PROVE  Left(t, g, ok)
<1> DEFINE others == ToSet(g) \ {t}
           R == [pc : Pcs, sync : BOOLEAN, id : Nat, delay : BOOLEAN,
                 force : BOOLEAN, done : BOOLEAN, ok : BOOLEAN, group : Seq(Threads)]
<1>1. /\ Len(queue) \in Nat /\ k \in Nat /\ DOMAIN queue = 1 .. Len(queue)
      /\ \A i \in DOMAIN queue : queue[i] \in Threads
      /\ Len(g) = k /\ DOMAIN g = 1 .. k /\ \A i \in 1 .. k : g[i] = queue[i]
  <2>1. PICK q \in Seq(Threads) : q = queue BY DEF ThreadShape
  <2>2. Len(q) \in Nat /\ DOMAIN q = 1 .. Len(q) /\ \A i \in DOMAIN q : q[i] \in Threads OBVIOUS
  <2>3. k \in 1 .. Len(q) /\ g = SubSeq(q, 1, k) BY <2>1
  <2>4. Len(g) = k /\ DOMAIN g = 1 .. k /\ \A i \in 1 .. k : g[i] = q[i] BY <2>2, <2>3
  <2> QED BY <2>1, <2>2, <2>3, <2>4
<1>2. ToSet(g) = {queue[i] : i \in 1 .. k} /\ t \in ToSet(g)
  <2>1. ASSUME NEW u PROVE u \in ToSet(g) <=> u \in {queue[i] : i \in 1 .. k} BY <1>1 DEF ToSet
  <2>2. 1 \in 1 .. k BY <1>1
  <2> QED BY <2>1, <2>2
<1>3. queue' = SubSeq(queue, k + 1, Len(queue)) BY <1>1 DEF Leave
<1>4. /\ queue' \in Seq(Threads) /\ Len(queue') = Len(queue) - k /\ DOMAIN queue' = 1 .. Len(queue')
      /\ \A i \in 1 .. Len(queue) - k : queue'[i] = queue[i + k]
  <2>1. queue \in Seq(Threads) BY DEF ThreadShape
  <2> QED BY <2>1, <1>3, RestIn
<1>5. thread' = [u \in Threads |->
                   IF u = t THEN Returned(thread[t])
                   ELSE IF u \in others THEN [thread[u] EXCEPT !.done = TRUE, !.ok = ok]
                   ELSE thread[u]]
  BY DEF Leave
<1>6. thread'[t] = Returned(thread[t]) BY <1>5
<1>7. \A u \in Threads \cap others : thread'[u] = [thread[u] EXCEPT !.done = TRUE, !.ok = ok]
  BY <1>5
<1>8. \A u \in Threads \ ToSet(g) : thread'[u] = thread[u] BY <1>2, <1>5
<1>9. others \subseteq Threads BY <1>1, <1>2
<1> HIDE DEF others
<1>10. \A u \in Threads : thread[u] \in R BY DEF ThreadShape
<1>11. ASSUME NEW u \in Threads PROVE thread'[u] \in R
  <2>1. CASE u = t BY <2>1, <1>6, ReturnedIs
  <2>2. CASE u \in others
    <3>1. thread[u] \in R /\ thread'[u] = [thread[u] EXCEPT !.done = TRUE, !.ok = ok]
      BY <2>2, <1>7, <1>10
    <3> QED BY <3>1
  <2>3. CASE u \in Threads \ ToSet(g) BY <2>3, <1>8, <1>10
  <2> QED BY <2>1, <2>2, <2>3 DEF others
<1>12. \A u \in others : /\ thread'[u].id = thread[u].id /\ thread'[u].ok = ok
                         /\ thread'[u].sync = thread[u].sync /\ thread'[u].done
                         /\ thread'[u].pc = thread[u].pc
  <2> TAKE u \in others
  <2>1. thread[u] \in R /\ thread'[u] = [thread[u] EXCEPT !.done = TRUE, !.ok = ok]
    BY <1>7, <1>9, <1>10
  <2> QED BY <2>1
<1>13. thread' \in [Threads -> R] BY <1>5, <1>11
<1>14. awake' \subseteq Threads
  <2>1. Foremost(queue') \subseteq Threads BY <1>4 DEF Foremost
  <2>2. awake' = (awake \ (IF thread[t].id = 0 THEN {} ELSE {t})) \cup others
                   \cup Foremost(queue') \cup woken
    BY <1>1, <1>3 DEF Leave, others
  <2> QED BY <2>1, <2>2, <1>9 DEF ThreadShape
<1>15. ThreadShape' BY <1>4, <1>13, <1>14 DEF ThreadShape
<1>16. \A u \in Threads : thread'[u].pc \notin Writing
  <2> SUFFICES ASSUME NEW u \in Threads PROVE thread'[u].pc \notin Writing OBVIOUS
  <2>1. CASE u = t BY <2>1, <1>6, ReturnedIs DEF Writing, Logged
  <2>2. CASE u # t BY <2>2, <1>8, <1>12 DEF others
  <2> QED BY <2>1, <2>2
<1>17. ASSUME NEW i \in DOMAIN queue' PROVE queue'[i] \in Threads \ ToSet(g) /\ i + k \in DOMAIN queue
  <2>1. i + k \in DOMAIN queue /\ i \in Nat /\ i > 0 /\ queue'[i] = queue[i + k] BY <1>1, <1>4
  <2>2. ASSUME NEW j \in 1 .. k, queue[j] = queue[i + k] PROVE FALSE
    <3>1. j \in DOMAIN queue BY <1>1
    <3>2. j = i + k BY <3>1, <2>1, <2>2 DEF QueueInv
    <3> QED BY <3>2, <2>1, <1>1
  <2> QED BY <2>1, <2>2, <1>1, <1>2
<1>18. QueueInv'
  <2>1. \A i, j \in DOMAIN queue' : queue'[i] = queue'[j] => i = j
    <3> SUFFICES ASSUME NEW i \in DOMAIN queue', NEW j \in DOMAIN queue', queue'[i] = queue'[j]
                 PROVE  i = j
      OBVIOUS
    <3>1. queue[i + k] = queue[j + k] /\ i + k \in DOMAIN queue /\ j + k \in DOMAIN queue
      BY <1>4, <1>17
    <3>2. i + k = j + k BY <3>1 DEF QueueInv
    <3> QED BY <3>2, <1>1, <1>4
  <2>2. ASSUME NEW i \in DOMAIN queue'
        PROVE  thread'[queue'[i]].pc \in {"queued", "bgwait", "delayed"} \cup Writing
               /\ ~thread'[queue'[i]].done
    <3>1. queue'[i] \in Threads \ ToSet(g) /\ i + k \in DOMAIN queue /\ queue'[i] = queue[i + k]
      BY <1>17, <1>4
    <3>2. thread'[queue'[i]] = thread[queue[i + k]] BY <3>1, <1>8
    <3> QED BY <3>1, <3>2 DEF QueueInv
  <2>3. db'.manual # "none" => db'.manual \in Threads /\ thread'[db'.manual].pc = "manualwait"
    <3> SUFFICES ASSUME db.manual # "none"
                 PROVE  db.manual \in Threads /\ thread'[db.manual].pc = "manualwait"
      OBVIOUS
    <3>1. db.manual \in Threads /\ thread[db.manual].pc = "manualwait" BY DEF QueueInv
    <3>2. db.manual \notin ToSet(g) BY <3>1, <1>1, <1>2 DEF QueueInv, Writing, Logged
    <3> QED BY <3>1, <3>2, <1>8
  <2> QED BY <2>1, <2>2, <2>3, <1>16 DEF QueueInv
<1> QED BY <1>6, <1>8, <1>12, <1>15, <1>16, <1>18 DEF others, Left
-----------------------------------------------------------------------------
(* Callers that wait, go on, or leave *)

(* With the queue and the readers in order, such a step keeps the whole *)
(* invariant. *)
LEMMA CalmUp ==
  ASSUME Up, Calm, OwedKept, WritersKept, QueueInv', ThreadShape', DBShape', HistShape',
         opening' = opening
  PROVE  Up'
<1>1. Still BY DEF Calm, Still
<1>2. /\ Bounded' /\ SequencesUnique' /\ DiskShape' /\ VersionShape' /\ BgShape'
      /\ BatchInv' /\ SeqInv' /\ NumbersInv' /\ StoreInv' /\ ExactInv' /\ BgInv'
  BY <1>1, CalmStep
<1>3. OpeningShape' /\ ReaderShape' /\ phase' = "up"
  BY DEF OpeningShape, ReaderShape, Up, Shape, Calm
<1>4. ReaderInv'
  <2>1. ReaderInv /\ TablesKept BY DEF Up, UpInv, Calm, TablesKept, Scanned
  <2> QED BY <2>1, ReadersKept DEF Calm
<1> QED BY <1>2, <1>3, <1>4 DEF Up, UpInv, Shape

(* A group is the front of the queue, so its members are in it. *)
LEMMA GroupFacts ==
  ASSUME ThreadShape, QueueInv, NEW t \in Threads, thread[t].pc \in Writing,
         NEW i \in DOMAIN thread[t].group
  PROVE  /\ thread[t].group[i] \in Threads /\ i \in DOMAIN queue
         /\ thread[t].group[i] = queue[i] /\ queue[1] = t
<1> DEFINE n == Len(thread[t].group)
<1>1. n \in 1 .. Len(queue) /\ thread[t].group = SubSeq(queue, 1, n) /\ queue[1] = t
  BY DEF QueueInv
<1>2. thread[t].group \in Seq(Threads) /\ queue \in Seq(Threads) BY DEF ThreadShape
<1>3. i \in 1 .. n /\ DOMAIN queue = 1 .. Len(queue) /\ Len(queue) \in Nat BY <1>2
<1> HIDE DEF n
<1>4. SubSeq(queue, 1, n)[i] = queue[i] BY <1>1, <1>2, <1>3
<1> QED BY <1>1, <1>2, <1>3, <1>4

(* One caller moves, and stays as it was in the queue if it is in it: the *)
(* queue is in order, and nobody else is answered. *)
LEMMA OneMoves ==
  ASSUME ThreadShape, QueueInv, NEW t \in Threads, queue' = queue,
         \A u \in Threads \ {t} : thread'[u] = thread[u],
         thread[t].pc \notin Writing, thread'[t].pc \notin Writing,
         InQueue(thread[t]) => /\ InQueue(thread'[t])
                               /\ thread'[t].sync = thread[t].sync /\ thread'[t].id = thread[t].id,
         \/ db'.manual = "none"
         \/ db'.manual = t /\ thread'[t].pc = "manualwait"
         \/ db'.manual = db.manual /\ db.manual # t,
         thread'[t].pc # "queued" \/ ~thread'[t].done
  PROVE  QueueInv' /\ WritersKept /\ AnsweredKept /\ (TruthKept => OwedKept)
<1>1. \A i \in DOMAIN queue : queue[i] \in Threads /\ (queue[i] = t => thread[t].pc \notin Writing)
  BY DEF ThreadShape
<1>2. ASSUME NEW i \in DOMAIN queue
      PROVE  /\ thread'[queue[i]].sync = thread[queue[i]].sync
             /\ thread'[queue[i]].id = thread[queue[i]].id
             /\ thread'[queue[i]].pc \in {"queued", "bgwait", "delayed"} \cup Writing
             /\ ~thread'[queue[i]].done
  <2>1. /\ queue[i] \in Threads /\ ~thread[queue[i]].done
        /\ thread[queue[i]].pc \in {"queued", "bgwait", "delayed"} \cup Writing
    BY <1>1 DEF QueueInv
  <2>2. CASE queue[i] = t BY <2>1, <2>2 DEF InQueue
  <2>3. CASE queue[i] # t BY <2>1, <2>3
  <2> QED BY <2>2, <2>3
<1>3. ASSUME NEW u \in Threads, thread'[u].pc \in Writing
      PROVE  thread'[u] = thread[u] /\ u # t
  BY <1>3
<1>4. ASSUME NEW u \in Threads, thread'[u].pc \in Writing
      PROVE  /\ Len(thread'[u].group) \in 1 .. Len(queue)
             /\ thread'[u].group = SubSeq(queue, 1, Len(thread'[u].group))
             /\ queue[1] = u /\ thread'[u].id # 0
             /\ \A i \in DOMAIN thread'[u].group : thread'[queue[i]].sync => thread'[u].sync
             /\ thread'[u].ok <=> thread'[u].pc \notin {"finish", "syncerror"}
  <2>1. thread'[u] = thread[u] BY <1>3, <1>4
  <2>2. /\ Len(thread[u].group) \in 1 .. Len(queue)
        /\ thread[u].group = SubSeq(queue, 1, Len(thread[u].group))
        /\ queue[1] = u /\ thread[u].id # 0
        /\ \A i \in DOMAIN thread[u].group : thread[queue[i]].sync => thread[u].sync
        /\ thread[u].ok <=> thread[u].pc \notin {"finish", "syncerror"}
    BY <2>1, <1>4 DEF QueueInv
  <2>3. \A i \in DOMAIN thread[u].group : i \in DOMAIN queue BY <2>1, <1>4, GroupFacts
  <2> QED BY <2>1, <2>2, <2>3, <1>2
<1>5. db'.manual # "none" => db'.manual \in Threads /\ thread'[db'.manual].pc = "manualwait"
  BY DEF QueueInv
<1>6. QueueInv'
  <2>1. \A i, j \in DOMAIN queue' : queue'[i] = queue'[j] => i = j BY DEF QueueInv
  <2> QED BY <2>1, <1>2, <1>4, <1>5 DEF QueueInv
<1>7. WritersKept
  <2> SUFFICES ASSUME NEW u \in Threads
               PROVE  /\ thread'[u].pc \in Logged => thread'[u] = thread[u]
                      /\ thread[u].pc \in Logged =>
                           /\ thread'[u] = thread[u]
                           /\ \A i \in DOMAIN thread[u].group :
                                thread'[thread[u].group[i]].id = thread[thread[u].group[i]].id
    BY DEF WritersKept
  <2>1. thread'[u].pc \in Logged => thread'[u] = thread[u] BY <1>3 DEF Writing
  <2>2. ASSUME thread[u].pc \in Logged
        PROVE  /\ thread'[u] = thread[u]
               /\ \A i \in DOMAIN thread[u].group :
                    thread'[thread[u].group[i]].id = thread[thread[u].group[i]].id
    <3>1. thread[u].pc \in Writing /\ u # t BY <2>2 DEF Writing
    <3>2. \A i \in DOMAIN thread[u].group : i \in DOMAIN queue /\ thread[u].group[i] = queue[i]
      BY <3>1, GroupFacts
    <3> QED BY <3>1, <3>2, <1>2
  <2> QED BY <2>1, <2>2
<1>8. \A u \in Answered' : u \in Answered /\ thread'[u] = thread[u]
  <2> SUFFICES ASSUME NEW u \in Answered' PROVE u \in Answered /\ thread'[u] = thread[u] OBVIOUS
  <2>1. u \in Threads /\ thread'[u].pc = "queued" /\ thread'[u].done /\ thread'[u].ok /\ thread'[u].id # 0
    BY DEF Answered
  <2>2. u # t BY <2>1
  <2> QED BY <2>1, <2>2 DEF Answered
<1>9. AnsweredKept BY <1>8 DEF AnsweredKept
<1>10. TruthKept => OwedKept BY <1>8 DEF OwedKept, Owed, OwedSynced, TruthKept
<1> QED BY <1>6, <1>7, <1>9, <1>10

(* The sleep of a slowed-down writer leaves it at the front of the queue. *)
LEMMA DelayStep ==
  ASSUME Up, NEW t \in Threads, Delay(t)
  PROVE  Up'
<1>1. ThreadShape /\ QueueInv /\ DBShape /\ HistShape BY DEF Up, UpInv, Shape
<1>2. /\ queue # <<>> /\ thread[t].pc \in {"queued", "bgwait", "delayed"} /\ ~thread[t].done
  BY <1>1, FrontFacts DEF Delay
<1>3. /\ thread'[t].pc = "delayed" /\ ~thread'[t].done /\ thread'[t].sync = thread[t].sync
      /\ thread'[t].id = thread[t].id /\ \A u \in Threads \ {t} : thread'[u] = thread[u]
  BY <1>1, <1>2 DEF Delay, ThreadShape
<1>4. ThreadShape'
  <2>1. "delayed" \in Pcs BY DEF Pcs
  <2> QED BY <1>1, <2>1 DEF Delay, ThreadShape
<1>5. db.manual # t BY <1>1, <1>2, DBAssumption DEF QueueInv
<1>6. QueueInv' /\ WritersKept /\ OwedKept
  <2>1. queue' = queue /\ db'.manual = db.manual /\ TruthKept
    BY <1>1 DEF Delay, TruthKept, DBShape
  <2>2. thread[t].pc \notin Writing /\ thread'[t].pc \notin Writing
    BY <1>2, <1>3 DEF Writing, Logged
  <2>3. InQueue(thread'[t]) BY <1>3 DEF InQueue
  <2> QED BY <2>1, <2>2, <2>3, <1>1, <1>3, <1>5, OneMoves
<1>7. Calm /\ DBShape' /\ HistShape' /\ opening' = opening
  BY <1>1 DEF Delay, Calm, DBShape, HistShape
<1> QED BY <1>4, <1>6, <1>7, CalmUp

(* So does waiting for the background thread. *)
LEMMA WaitForRoomStep ==
  ASSUME Up, NEW t \in Threads, WaitForRoom(t)
  PROVE  Up'
<1>1. ThreadShape /\ QueueInv /\ DBShape /\ HistShape BY DEF Up, UpInv, Shape
<1>2. /\ queue # <<>> /\ thread[t].pc \in {"queued", "bgwait", "delayed"} /\ ~thread[t].done
  BY <1>1, FrontFacts DEF WaitForRoom
<1>3. /\ thread'[t].pc = "bgwait" /\ ~thread'[t].done /\ thread'[t].sync = thread[t].sync
      /\ thread'[t].id = thread[t].id /\ \A u \in Threads \ {t} : thread'[u] = thread[u]
  BY <1>1, <1>2 DEF WaitForRoom, ThreadShape
<1>4. ThreadShape'
  <2>1. "bgwait" \in Pcs BY DEF Pcs
  <2> QED BY <1>1, <2>1 DEF WaitForRoom, ThreadShape
<1>5. db.manual # t BY <1>1, <1>2, DBAssumption DEF QueueInv
<1>6. QueueInv' /\ WritersKept /\ OwedKept
  <2>1. queue' = queue /\ db'.manual = db.manual /\ TruthKept
    BY <1>1 DEF WaitForRoom, TruthKept, DBShape
  <2>2. thread[t].pc \notin Writing /\ thread'[t].pc \notin Writing
    BY <1>2, <1>3 DEF Writing, Logged
  <2>3. InQueue(thread'[t]) BY <1>3 DEF InQueue
  <2> QED BY <2>1, <2>2, <2>3, <1>1, <1>3, <1>5, OneMoves
<1>7. Calm /\ DBShape' /\ HistShape' /\ opening' = opening
  BY <1>1 DEF WaitForRoom, Calm, DBShape, HistShape
<1> QED BY <1>4, <1>6, <1>7, CalmUp

(* The one at the front leaves, without having written. *)
LEMMA LeaveFront ==
  ASSUME ThreadShape, QueueInv, NEW t \in Threads, AtFront(t), NEW ok \in BOOLEAN,
         Leave(t, <<t>>, ok, {}), db'.manual = db.manual, TruthKept
  PROVE  /\ ThreadShape' /\ QueueInv' /\ WritersKept /\ OwedKept
         /\ \A u \in Threads : thread'[u].pc \notin Logged /\ thread[u].pc \notin Logged
<1>1. ThreadShape /\ QueueInv OBVIOUS
<1>2. /\ Len(queue) \in Nat \ {0} /\ queue[1] = t /\ <<t>> = SubSeq(queue, 1, 1)
      /\ \A u \in Threads : thread[u].pc \notin Writing
  BY <1>1, FrontFacts
<1>3. 1 \in 1 .. Len(queue) BY <1>2
<1>4. PICK g, k, woken : g = <<t>> /\ k = 1 /\ woken = {} OBVIOUS
<1>11. Left(t, g, ok)
  <2>1. /\ g = SubSeq(queue, 1, k) /\ Leave(t, g, ok, woken) /\ woken \in SUBSET Threads
        /\ k \in 1 .. Len(queue) /\ db'.manual = db.manual
    <3>1. g = SubSeq(queue, 1, k) /\ k \in 1 .. Len(queue) BY <1>2, <1>3, <1>4
    <3>2. Leave(t, g, ok, woken) BY <1>4
    <3>3. woken \in SUBSET Threads /\ db'.manual = db.manual BY <1>4
    <3> QED BY <3>1, <3>2, <3>3
  <2>2. \A u \in Threads \ {t} : thread[u].pc \notin Writing BY <1>2
  <2>3. queue[1] = t BY <1>2
  <2> QED BY <2>1, <2>2, <2>3, <1>1, LeaveFacts
<1>5. /\ ThreadShape' /\ QueueInv'
      /\ \A u \in Threads : thread'[u].pc \notin Writing
      /\ thread'[t] = Returned(thread[t])
      /\ \A u \in Threads \ ToSet(g) : thread'[u] = thread[u]
  BY <1>11 DEF Left
<1>6. ToSet(g) = {t} BY <1>4 DEF ToSet
<1>7. \A u \in Answered' : u \in Answered /\ thread'[u] = thread[u]
  <2> SUFFICES ASSUME NEW u \in Answered' PROVE u \in Answered /\ thread'[u] = thread[u] OBVIOUS
  <2>1. u \in Threads /\ thread'[u].pc = "queued" /\ thread'[u].done /\ thread'[u].ok /\ thread'[u].id # 0
    BY DEF Answered
  <2>2. u # t BY <2>1, <1>1, <1>5, ReturnedIs
  <2> QED BY <2>1, <2>2, <1>5, <1>6 DEF Answered
<1>8. OwedKept BY <1>7 DEF OwedKept, Owed, OwedSynced, TruthKept
<1>9. WritersKept BY <1>2, <1>5 DEF WritersKept, Writing
<1>10. \A u \in Threads : thread'[u].pc \notin Logged /\ thread[u].pc \notin Logged
  BY <1>2, <1>5 DEF Writing
<1> QED BY <1>5, <1>8, <1>9, <1>10

(* The front leaves the queue alone, with nothing written. *)
LEMMA LeaveAlone ==
  ASSUME Up, NEW t \in Threads, AtFront(t), NEW ok \in BOOLEAN, Leave(t, <<t>>, ok, {}),
         Calm, TruthKept, db' = db, opening' = opening, HistShape'
  PROVE  Up'
<1>1. ThreadShape /\ QueueInv /\ DBShape BY DEF Up, UpInv, Shape
<1>2. ThreadShape' /\ QueueInv' /\ WritersKept /\ OwedKept BY <1>1, LeaveFront
<1>3. DBShape' BY <1>1 DEF DBShape
<1> QED BY <1>2, <1>3, CalmUp

(* An error found by the front of the queue is returned to it alone. *)
LEMMA YieldErrorStep ==
  ASSUME Up, NEW t \in Threads, YieldError(t)
  PROVE  Up'
<1>1. HistShape' BY DEF YieldError, Up, Shape, HistShape
<1>2. Calm /\ TruthKept /\ db' = db /\ opening' = opening /\ AtFront(t) /\ Leave(t, <<t>>, FALSE, {})
  BY DEF YieldError, Calm, TruthKept
<1> QED BY <1>1, <1>2, LeaveAlone

(* A failure changes only the counter of its bound. *)
LEMMA FaultFacts ==
  ASSUME HistShape, Fault
  PROVE  /\ HistShape' /\ TruthKept /\ hist'.opened = hist.opened /\ hist'.repaired = hist.repaired
         /\ hist'.calls = hist.calls
BY DEF Fault, HistShape, TruthKept

(* Without a new log file nothing is switched, and the writer is told. *)
LEMMA SwitchFailsStep ==
  ASSUME Up, NEW t \in Threads, SwitchFails(t)
  PROVE  Up'
<1>1. HistShape BY DEF Up, Shape
<1>2. /\ HistShape' /\ TruthKept /\ hist'.opened = hist.opened /\ hist'.repaired = hist.repaired
  BY <1>1, FaultFacts DEF SwitchFails
<1>3. Calm /\ TruthKept /\ db' = db /\ opening' = opening /\ AtFront(t) /\ Leave(t, <<t>>, FALSE, {})
  BY <1>2 DEF SwitchFails, Calm, TruthKept
<1> QED BY <1>2, <1>3, LeaveAlone

(* The group that a writer takes. *)
LEMMA GroupIs ==
  ASSUME ThreadShape, NEW t \in Threads, NEW g \in Groups(t), queue # <<>>, queue[1] = t
  PROVE  /\ Len(g) \in 1 .. Len(queue) /\ g = SubSeq(queue, 1, Len(g)) /\ g \in Seq(Threads)
         /\ \A i \in DOMAIN g : thread[queue[i]].sync => thread[t].sync
<1>1. PICK k \in 1 .. Len(queue) : g = SubSeq(queue, 1, k) /\ \A i \in 2 .. k : ~Stops(t, i)
  BY DEF Groups
<1>2. queue \in Seq(Threads) /\ Len(queue) \in Nat /\ k \in Nat BY DEF ThreadShape
<1>3. Len(g) = k /\ g \in Seq(Threads) /\ DOMAIN g = 1 .. k BY <1>1, <1>2
<1>4. \A i \in 1 .. k : thread[queue[i]].sync => thread[t].sync
  <2> TAKE i \in 1 .. k
  <2>1. CASE i = 1 BY <2>1
  <2>2. CASE i # 1 BY <2>2, <1>1, <1>2 DEF Stops
  <2> QED BY <2>1, <2>2
<1> QED BY <1>1, <1>3, <1>4

(* A writer with its group: nobody wrote before, it has written nothing. *)
LEMMA WriterStarts ==
  ASSUME ThreadShape, QueueInv, NEW t \in Threads, AtFront(t), thread[t].id # 0, Proceed(t),
         db'.manual = db.manual, TruthKept
  PROVE  /\ ThreadShape' /\ QueueInv' /\ WritersKept /\ OwedKept
         /\ \A u \in Threads : thread'[u].pc \notin Logged /\ thread[u].pc \notin Logged
<1>1. /\ Len(queue) \in Nat \ {0} /\ queue[1] = t
      /\ thread[t].pc \in {"queued", "bgwait", "delayed"} /\ ~thread[t].done
      /\ \A u \in Threads : thread[u].pc \notin Writing
  BY FrontFacts
<1>2. queue # <<>> BY <1>1
<1>3. PICK g \in Groups(t) : thread' = [thread EXCEPT ![t].pc = "log", ![t].group = g, ![t].ok = TRUE]
  BY DEF Proceed
<1>4. /\ Len(g) \in 1 .. Len(queue) /\ g = SubSeq(queue, 1, Len(g)) /\ g \in Seq(Threads)
      /\ \A i \in DOMAIN g : thread[queue[i]].sync => thread[t].sync
  BY <1>2, <1>1, GroupIs
<1>5. queue' = queue /\ awake' = awake \ {t} BY DEF Proceed
<1>6. /\ thread'[t].pc = "log" /\ thread'[t].group = g /\ thread'[t].ok
      /\ thread'[t].id = thread[t].id /\ thread'[t].sync = thread[t].sync
      /\ thread'[t].done = thread[t].done
      /\ \A u \in Threads \ {t} : thread'[u] = thread[u]
  BY <1>3 DEF ThreadShape
<1>7. ThreadShape'
  <2>1. g \in Seq(Threads) BY <1>4
  <2>2. thread' \in [Threads -> ThreadType]
    <3>1. thread[t] \in ThreadType /\ DOMAIN thread = Threads /\ "log" \in Pcs
      BY DEF ThreadShape, ThreadType, Pcs
    <3>2. [thread[t] EXCEPT !.pc = "log", !.group = g, !.ok = TRUE] \in ThreadType
      BY <3>1, <2>1 DEF ThreadType
    <3>3. thread' = [thread EXCEPT ![t] = [thread[t] EXCEPT !.pc = "log", !.group = g, !.ok = TRUE]]
      BY <3>1, <1>3 DEF ThreadType
    <3>4. thread \in [Threads -> ThreadType] BY DEF ThreadShape, ThreadType
    <3> QED BY <3>2, <3>3, <3>4
  <2> QED BY <2>2, <1>5 DEF ThreadShape, ThreadType
<1>8. \A u \in Threads : thread'[u].pc \notin Logged /\ thread[u].pc \notin Logged
  BY <1>1, <1>6 DEF Writing, Logged
<1>9. \A u \in Threads : thread'[u].id = thread[u].id /\ thread'[u].sync = thread[u].sync
                         /\ thread'[u].done = thread[u].done
  BY <1>6
<1>10. \A i \in DOMAIN queue : queue[i] \in Threads BY DEF ThreadShape
<1>11. \A i, j \in DOMAIN queue' : queue'[i] = queue'[j] => i = j BY <1>5 DEF QueueInv
<1>12. ASSUME NEW i \in DOMAIN queue
       PROVE  thread'[queue[i]].pc \in {"queued", "bgwait", "delayed"} \cup Writing /\ ~thread'[queue[i]].done
  <2>1. queue[i] \in Threads /\ ~thread[queue[i]].done
        /\ thread[queue[i]].pc \in {"queued", "bgwait", "delayed"} \cup Writing
    BY <1>10 DEF QueueInv
  <2>2. CASE queue[i] = t BY <2>1, <2>2, <1>6 DEF Writing
  <2>3. CASE queue[i] # t BY <2>1, <2>3, <1>6
  <2> QED BY <2>2, <2>3
<1>13. ASSUME NEW u \in Threads, thread'[u].pc \in Writing
       PROVE  /\ Len(thread'[u].group) \in 1 .. Len(queue)
              /\ thread'[u].group = SubSeq(queue, 1, Len(thread'[u].group))
              /\ queue[1] = u /\ thread'[u].id # 0
              /\ \A i \in DOMAIN thread'[u].group : thread'[queue[i]].sync => thread'[u].sync
              /\ thread'[u].ok <=> thread'[u].pc \notin {"finish", "syncerror"}
  <2>1. u = t BY <1>13, <1>1, <1>6
  <2>2. DOMAIN g \subseteq DOMAIN queue BY <1>4, <1>1 DEF ThreadShape
  <2>3. \A i \in DOMAIN g : thread'[queue[i]].sync => thread'[t].sync BY <2>2, <1>4, <1>9, <1>10
  <2> QED BY <2>1, <2>3, <1>1, <1>4, <1>6
<1>14. db'.manual # "none" => db'.manual \in Threads /\ thread'[db'.manual].pc = "manualwait"
  BY <1>1, <1>6 DEF QueueInv
<1>15. QueueInv' BY <1>5, <1>11, <1>12, <1>13, <1>14 DEF QueueInv
<1>16. WritersKept BY <1>8 DEF WritersKept
<1>17. \A u \in Answered' : u \in Answered /\ thread'[u] = thread[u]
  BY <1>1, <1>6, <1>9 DEF Answered
<1>18. OwedKept BY <1>17 DEF OwedKept, Owed, OwedSynced, TruthKept
<1> QED BY <1>7, <1>8, <1>15, <1>16, <1>18

(* With room, the front becomes the one writer, or leaves if its batch is *)
(* NULL. *)
LEMMA HaveRoomStep ==
  ASSUME Up, NEW t \in Threads, HaveRoom(t)
  PROVE  Up'
<1>1. ThreadShape /\ QueueInv /\ DBShape /\ HistShape BY DEF Up, UpInv, Shape
<1>2. /\ Calm /\ TruthKept /\ db' = db /\ opening' = opening /\ AtFront(t) /\ Proceed(t)
      /\ HistShape' /\ DBShape'
  BY <1>1 DEF HaveRoom, Calm, TruthKept, HistShape, DBShape
<1>3. CASE thread[t].id = 0
  <2>1. Leave(t, <<t>>, TRUE, {}) BY <1>2, <1>3 DEF Proceed
  <2> QED BY <2>1, <1>2, LeaveAlone
<1>4. CASE thread[t].id # 0
  <2>1. ThreadShape' /\ QueueInv' /\ WritersKept /\ OwedKept BY <1>1, <1>2, <1>4, WriterStarts
  <2> QED BY <2>1, <1>2, CalmUp
<1> QED BY <1>3, <1>4

(* A scheduled compaction changes nothing else. *)
LEMMA ScheduleFacts ==
  ASSUME NEW d, NEW f, {d.scheduled, d.closing, d.error} \subseteq BOOLEAN,
         d = [log |-> d.log, imm |-> d.imm, memtables |-> d.memtables, pending |-> d.pending,
              error |-> d.error, scheduled |-> d.scheduled, closing |-> d.closing,
              manual |-> d.manual]
  PROVE  LET m == MaybeScheduleCompaction(d, f)
         IN  /\ m.log = d.log /\ m.imm = d.imm /\ m.memtables = d.memtables
             /\ m.pending = d.pending /\ m.error = d.error /\ m.closing = d.closing
             /\ m.manual = d.manual /\ m.scheduled \in BOOLEAN
             /\ m = [log |-> d.log, imm |-> d.imm, memtables |-> d.memtables, pending |-> d.pending,
                     error |-> d.error, scheduled |-> m.scheduled, closing |-> d.closing,
                     manual |-> d.manual]
<1> DEFINE b == \/ d.scheduled
                \/ /\ ~d.closing /\ ~d.error
                   /\ d.imm # 0 \/ d.manual # "none" \/ NumLevel0(f) >= CompactionTrigger
<1>1. MaybeScheduleCompaction(d, f) = [d EXCEPT !.scheduled = b] BY DEF MaybeScheduleCompaction
<1>2. b \in BOOLEAN OBVIOUS
<1> HIDE DEF b
<1> QED BY <1>1, <1>2

(* MaybeScheduleCompaction sets scheduled and nothing else. *)
LEMMA ScheduledShape ==
  ASSUME NEW d, NEW f, NEW S,
         d = [log |-> d.log, imm |-> d.imm, memtables |-> d.memtables, pending |-> d.pending,
              error |-> d.error, scheduled |-> d.scheduled, closing |-> d.closing,
              manual |-> d.manual],
         {d.log, d.imm} \subseteq Nat, d.pending \subseteq Nat,
         {d.error, d.scheduled, d.closing} \subseteq BOOLEAN,
         DOMAIN d.memtables \subseteq Nat, \A n \in DOMAIN d.memtables : d.memtables[n] \subseteq Entry,
         db' = MaybeScheduleCompaction(d, f)
  PROVE  /\ DBShape'
         /\ db'.log = d.log /\ db'.imm = d.imm /\ db'.memtables = d.memtables
         /\ db'.pending = d.pending /\ db'.error = d.error /\ db'.closing = d.closing
         /\ db'.manual = d.manual
<1>1. LET m == MaybeScheduleCompaction(d, f)
      IN  /\ m.log = d.log /\ m.imm = d.imm /\ m.memtables = d.memtables
          /\ m.pending = d.pending /\ m.error = d.error /\ m.closing = d.closing
          /\ m.manual = d.manual /\ m.scheduled \in BOOLEAN
          /\ m = [log |-> d.log, imm |-> d.imm, memtables |-> d.memtables, pending |-> d.pending,
                  error |-> d.error, scheduled |-> m.scheduled, closing |-> d.closing,
                  manual |-> d.manual]
  BY ScheduleFacts
<1>2. /\ db'.log = d.log /\ db'.imm = d.imm /\ db'.memtables = d.memtables
      /\ db'.pending = d.pending /\ db'.error = d.error /\ db'.closing = d.closing
      /\ db'.manual = d.manual /\ db'.scheduled \in BOOLEAN
      /\ db' = [log |-> d.log, imm |-> d.imm, memtables |-> d.memtables, pending |-> d.pending,
                error |-> d.error, scheduled |-> db'.scheduled, closing |-> d.closing,
                manual |-> d.manual]
  BY <1>1
<1> QED BY <1>2 DEF DBShape

(* Waiting for the memtable that CompactRange pushed out changes one *)
(* caller. *)
LEMMA WaitForFlushStep ==
  ASSUME Up, NEW t \in Threads, WaitForFlush(t)
  PROVE  Up'
<1>1. ThreadShape /\ QueueInv /\ DBShape /\ HistShape BY DEF Up, UpInv, Shape
<1>2. thread[t].pc = "immwait" /\ queue' = queue /\ db' = db BY DEF WaitForFlush
<1>3. thread' = thread \/ thread' = [thread EXCEPT ![t].pc = "manual"] BY DEF WaitForFlush
<1>4. /\ thread'[t].pc \in {"immwait", "manual"}
      /\ \A u \in Threads \ {t} : thread'[u] = thread[u]
  BY <1>1, <1>2, <1>3 DEF ThreadShape
<1>5. ThreadShape'
  <2>1. thread' \in [Threads -> ThreadType]
    <3>1. CASE thread' = thread BY <1>1, <3>1 DEF ThreadShape, ThreadType
    <3>2. CASE thread' = [thread EXCEPT ![t].pc = "manual"]
      BY <1>1, <3>2 DEF ThreadShape, Pcs, ThreadType
    <3> QED BY <1>3, <3>1, <3>2
  <2>2. awake' \subseteq Threads BY <1>1 DEF WaitForFlush, ThreadShape
  <2> QED BY <2>1, <2>2, <1>1, <1>2 DEF ThreadShape, ThreadType
<1>6. db.manual # t BY <1>1, <1>2, DBAssumption DEF QueueInv
<1>7. TruthKept /\ Calm /\ DBShape' /\ HistShape' /\ opening' = opening
  BY <1>1 DEF WaitForFlush, Calm, TruthKept, DBShape, HistShape
<1>8. QueueInv' /\ WritersKept /\ OwedKept
  BY <1>1, <1>2, <1>4, <1>6, <1>7, OneMoves DEF InQueue, Writing, Logged
<1> QED BY <1>5, <1>7, <1>8, CalmUp

(* A manual compaction belongs to the caller that waits for it. *)
LEMMA RunManualStep ==
  ASSUME Up, NEW t \in Threads, RunManual(t)
  PROVE  Up'
<1>1. ThreadShape /\ QueueInv /\ DBShape /\ HistShape BY DEF Up, UpInv, Shape
<1>2. thread[t].pc \in {"manual", "manualwait"} /\ queue' = queue /\ awake' = awake \ {t}
  BY DEF RunManual
<1>3. /\ disk' = disk /\ phase' = phase /\ vset' = vset /\ bg' = bg /\ reader' = reader
      /\ hist' = hist /\ opening' = opening
  BY DEF RunManual
<1>4. CASE thread[t].done \/ db.closing \/ db.error
  <2>1. thread' = [thread EXCEPT ![t] = Idle] /\ db' = [db EXCEPT !.manual = IF @ = t THEN "none" ELSE @]
    BY <1>4 DEF RunManual
  <2>2. thread'[t] = Idle /\ \A u \in Threads \ {t} : thread'[u] = thread[u]
    BY <1>1, <2>1 DEF ThreadShape
  <2>3. Idle \in ThreadType BY DEF Idle, ThreadType, Pcs
  <2>4. ThreadShape'
    <3>1. thread' \in [Threads -> ThreadType] BY <1>1, <2>1, <2>3 DEF ThreadShape, ThreadType
    <3> QED BY <3>1, <1>1, <1>2 DEF ThreadShape, ThreadType
  <2>5. /\ DBShape' /\ db'.log = db.log /\ db'.imm = db.imm /\ db'.memtables = db.memtables
        /\ db'.pending = db.pending /\ db'.error = db.error
        /\ db'.manual = (IF db.manual = t THEN "none" ELSE db.manual)
    BY <1>1, <2>1 DEF DBShape
  <2>6. Idle.pc = "idle" /\ ~Idle.done BY DEF Idle
  <2>7. TruthKept /\ Calm /\ HistShape' BY <1>1, <1>3, <2>5 DEF TruthKept, Calm, HistShape
  <2>8. QueueInv' /\ WritersKept /\ OwedKept
    <3>1. thread[t].pc \notin Writing /\ thread'[t].pc \notin Writing /\ ~InQueue(thread[t])
      BY <1>2, <2>2, <2>6 DEF Writing, Logged, InQueue
    <3>2. \/ db'.manual = "none"
          \/ db'.manual = db.manual /\ db.manual # t
      BY <2>5
    <3> QED BY <3>1, <3>2, <1>1, <1>2, <2>2, <2>6, <2>7, OneMoves
  <2> QED BY <1>3, <2>4, <2>5, <2>7, <2>8, CalmUp
<1>5. CASE ~(thread[t].done \/ db.closing \/ db.error)
  <2>1. /\ thread' = [thread EXCEPT ![t].pc = "manualwait"]
        /\ db' = IF db.manual = "none"
                 THEN MaybeScheduleCompaction([db EXCEPT !.manual = t], vset.files) ELSE db
    BY <1>5 DEF RunManual
  <2>2. /\ thread'[t].pc = "manualwait" /\ ~thread'[t].done
        /\ \A u \in Threads \ {t} : thread'[u] = thread[u]
    BY <1>1, <1>5, <2>1 DEF ThreadShape
  <2>3. ThreadShape'
    <3>1. thread' \in [Threads -> ThreadType] BY <1>1, <2>1 DEF ThreadShape, ThreadType, Pcs
    <3> QED BY <3>1, <1>1, <1>2 DEF ThreadShape, ThreadType
  <2>4. /\ DBShape' /\ db'.log = db.log /\ db'.imm = db.imm /\ db'.memtables = db.memtables
        /\ db'.pending = db.pending /\ db'.error = db.error
        /\ db'.manual = (IF db.manual = "none" THEN t ELSE db.manual)
    <3>1. CASE db.manual = "none"
      <4> DEFINE d == [db EXCEPT !.manual = t]
      <4>1. /\ d.log = db.log /\ d.imm = db.imm /\ d.memtables = db.memtables
            /\ d.pending = db.pending /\ d.error = db.error /\ d.scheduled = db.scheduled
            /\ d.closing = db.closing /\ d.manual = t
            /\ d = [log |-> d.log, imm |-> d.imm, memtables |-> d.memtables, pending |-> d.pending,
                    error |-> d.error, scheduled |-> d.scheduled, closing |-> d.closing,
                    manual |-> d.manual]
        BY <1>1 DEF DBShape
      <4>2. db' = MaybeScheduleCompaction(d, vset.files) BY <2>1, <3>1
      <4> HIDE DEF d
      <4>3. /\ DBShape'
            /\ db'.log = d.log /\ db'.imm = d.imm /\ db'.memtables = d.memtables
            /\ db'.pending = d.pending /\ db'.error = d.error /\ db'.manual = d.manual
        <5>1. /\ {d.log, d.imm} \subseteq Nat /\ d.pending \subseteq Nat
              /\ {d.error, d.scheduled, d.closing} \subseteq BOOLEAN
              /\ DOMAIN d.memtables \subseteq Nat
              /\ \A n \in DOMAIN d.memtables : d.memtables[n] \subseteq Entry
          BY <4>1, <1>1 DEF DBShape
        <5> QED BY <5>1, <4>1, <4>2, ScheduledShape
      <4> QED BY <3>1, <4>1, <4>3
    <3>2. CASE db.manual # "none" BY <2>1, <3>2, <1>1 DEF DBShape
    <3> QED BY <3>1, <3>2
  <2>5. TruthKept /\ Calm /\ HistShape' BY <1>1, <1>3, <2>4 DEF TruthKept, Calm, HistShape
  <2>6. QueueInv' /\ WritersKept /\ OwedKept
    <3>1. thread[t].pc \notin Writing /\ thread'[t].pc \notin Writing /\ ~InQueue(thread[t])
          /\ thread'[t].pc # "queued"
      BY <1>2, <2>2 DEF Writing, Logged, InQueue
    <3>2. \/ db'.manual = "none"
          \/ db'.manual = t /\ thread'[t].pc = "manualwait"
          \/ db'.manual = db.manual /\ db.manual # t
      BY <2>2, <2>4
    <3> QED BY <3>1, <3>2, <1>1, <1>2, <2>2, <2>5, OneMoves
  <2> QED BY <1>3, <2>3, <2>4, <2>5, <2>6, CalmUp
<1> QED BY <1>4, <1>5
-----------------------------------------------------------------------------
(* Callers that arrive and return, and the background thread doing nothing *)

(* A caller that is told of its success adds its write to those to be *)
(* kept. *)
LEMMA ToldFacts ==
  ASSUME HistShape, NEW w \in ThreadType, NEW ok \in BOOLEAN, hist' = Told(hist, w, ok)
  PROVE  /\ HistShape' /\ hist'.lost = hist.lost /\ hist'.opened = hist.opened
         /\ hist'.repaired = hist.repaired
         /\ hist'.acked = hist.acked \cup (IF ok /\ w.id # 0 THEN {w.id} ELSE {})
         /\ hist'.synced = hist.synced \cup (IF ok /\ w.id # 0 /\ w.sync THEN {w.id} ELSE {})
<1>1. CASE ~ok \/ w.id = 0
  <2>1. hist' = hist BY <1>1 DEF Told
  <2> QED BY <1>1, <2>1 DEF HistShape
<1>2. CASE ok /\ w.id # 0
  <2>1. hist' = [hist EXCEPT !.acked = @ \cup {w.id}, !.synced = IF w.sync THEN @ \cup {w.id} ELSE @]
    BY <1>2 DEF Told
  <2>2. /\ hist'.lost = hist.lost /\ hist'.opened = hist.opened /\ hist'.repaired = hist.repaired
        /\ hist'.acked = hist.acked \cup {w.id}
        /\ hist'.synced = (IF w.sync THEN hist.synced \cup {w.id} ELSE hist.synced)
        /\ hist'.calls = hist.calls
        /\ hist' = [calls |-> hist'.calls, spent |-> hist'.spent, acked |-> hist'.acked,
                    synced |-> hist'.synced, lost |-> hist'.lost,
                    opened |-> hist'.opened, repaired |-> hist'.repaired]
    BY <2>1 DEF HistShape
  <2>3. hist'.synced \subseteq hist'.acked BY <2>2 DEF HistShape
  <2> QED BY <1>2, <2>2, <2>3 DEF HistShape
<1> QED BY <1>1, <1>2

(* A member of another's group is told what that writer found: its write *)
(* was owed since then. *)
LEMMA ReturnStep ==
  ASSUME Up, NEW t \in Threads, Return(t)
  PROVE  Up'
<1>1. ThreadShape /\ QueueInv /\ DBShape /\ HistShape BY DEF Up, UpInv, Shape
<1>2. /\ thread[t].pc = "queued" /\ thread[t].done /\ queue' = queue /\ awake' = awake /\ db' = db
      /\ thread' = [thread EXCEPT ![t] = Returned(thread[t])]
  BY DEF Return
<1>3. thread'[t] = Returned(thread[t]) /\ \A u \in Threads \ {t} : thread'[u] = thread[u]
  BY <1>1, <1>2 DEF ThreadShape
<1>4. Returned(thread[t]) \in ThreadType /\ Returned(thread[t]).pc \in {"immwait", "idle"}
  BY <1>1, ReturnedIs DEF ThreadType
<1>5. ThreadShape'
  <2>1. thread' \in [Threads -> ThreadType] BY <1>1, <1>2, <1>4 DEF ThreadShape, ThreadType
  <2> QED BY <2>1, <1>1, <1>2 DEF ThreadShape, ThreadType
<1>6. thread[t] \in ThreadType /\ thread[t].ok \in BOOLEAN BY <1>1 DEF ThreadShape, ThreadType
<1>7. hist' = Told(hist, thread[t], thread[t].ok) BY DEF Return
<1>8. PICK w, ok : w = thread[t] /\ ok = thread[t].ok OBVIOUS
<1>9. /\ HistShape' /\ hist'.lost = hist.lost /\ hist'.opened = hist.opened
      /\ hist'.repaired = hist.repaired
      /\ hist'.acked = hist.acked \cup (IF ok /\ w.id # 0 THEN {w.id} ELSE {})
      /\ hist'.synced = hist.synced \cup (IF ok /\ w.id # 0 /\ w.sync THEN {w.id} ELSE {})
  <2>1. w \in ThreadType /\ ok \in BOOLEAN /\ hist' = Told(hist, w, ok) BY <1>6, <1>7, <1>8
  <2> QED BY <2>1, <1>1, ToldFacts
<1>10. Calm /\ DBShape' /\ opening' = opening BY <1>1, <1>9 DEF Return, Calm, DBShape
<1>11. db.manual # t BY <1>1, <1>2, DBAssumption DEF QueueInv
<1>12. QueueInv' /\ WritersKept /\ AnsweredKept
  <2>1. thread[t].pc \notin Writing /\ thread'[t].pc \notin Writing /\ ~InQueue(thread[t])
        /\ thread'[t].pc # "queued"
    BY <1>2, <1>3, <1>4 DEF Writing, Logged, InQueue
  <2> QED BY <2>1, <1>1, <1>2, <1>3, <1>11, OneMoves
<1>13. OwedKept
  <2>1. thread[t].ok /\ thread[t].id # 0 => t \in Answered BY <1>2 DEF Answered
  <2>2. hist'.acked \subseteq hist.acked \cup {thread[u].id : u \in Answered}
    BY <2>1, <1>8, <1>9
  <2>3. hist'.synced \subseteq hist.synced \cup {thread[u].id : u \in {v \in Answered : thread[v].sync}}
    BY <2>1, <1>8, <1>9
  <2> QED BY <2>2, <2>3, <1>9, <1>12 DEF OwedKept, Owed, OwedSynced, AnsweredKept
<1> QED BY <1>5, <1>9, <1>10, <1>12, <1>13, CalmUp

(* A caller joins the queue. *)
LEMMA EnqueueStep ==
  ASSUME Up, NEW t \in Threads, NEW w \in ThreadType, w.pc = "queued", ~w.done,
         Enqueue(t, w), HistShape', TruthKept, hist'.opened = hist.opened,
         hist'.repaired = hist.repaired
  PROVE  Up'
<1>1. ThreadShape /\ QueueInv /\ DBShape BY DEF Up, UpInv, Shape
<1>2. /\ thread[t].pc = "idle" /\ thread' = [thread EXCEPT ![t] = w] /\ queue' = Append(queue, t)
      /\ awake' \subseteq awake \cup {t}
  BY DEF Enqueue
<1>3. thread'[t] = w /\ \A u \in Threads \ {t} : thread'[u] = thread[u]
  BY <1>1, <1>2 DEF ThreadShape
<1>4. ThreadShape'
  <2>1. thread' \in [Threads -> ThreadType] BY <1>1, <1>2 DEF ThreadShape, ThreadType
  <2>2. queue' \in Seq(Threads) BY <1>1, <1>2 DEF ThreadShape
  <2>3. awake' \subseteq Threads BY <1>1, <1>2 DEF ThreadShape
  <2> QED BY <2>1, <2>2, <2>3 DEF ThreadShape, ThreadType
<1>5. Calm /\ DBShape' /\ opening' = opening BY <1>1 DEF Enqueue, Calm, TruthKept, DBShape
<1>6. db.manual # t BY <1>1, <1>2, DBAssumption DEF QueueInv
<1>7. /\ Len(queue) \in Nat /\ DOMAIN queue = 1 .. Len(queue)
      /\ DOMAIN queue' = 1 .. Len(queue) + 1 /\ Len(queue') = Len(queue) + 1
      /\ \A i \in DOMAIN queue : queue'[i] = queue[i] /\ queue[i] \in Threads
      /\ queue'[Len(queue) + 1] = t
  BY <1>1, <1>2 DEF ThreadShape
<1>8. \A i \in DOMAIN queue : queue[i] # t BY <1>1, <1>2 DEF QueueInv, Writing, Logged
<1>9. \A i \in DOMAIN queue' : i \in DOMAIN queue \/ (i = Len(queue) + 1 /\ i \notin DOMAIN queue)
  BY <1>7
<1>10. \A i, j \in DOMAIN queue' : queue'[i] = queue'[j] => i = j
  <2> SUFFICES ASSUME NEW i \in DOMAIN queue', NEW j \in DOMAIN queue', queue'[i] = queue'[j]
               PROVE  i = j
    OBVIOUS
  <2>1. CASE i \in DOMAIN queue /\ j \in DOMAIN queue BY <2>1, <1>1, <1>7 DEF QueueInv
  <2>2. CASE i = Len(queue) + 1 \/ j = Len(queue) + 1 BY <2>2, <1>7, <1>8, <1>9
  <2> QED BY <2>1, <2>2, <1>9
<1>11. ASSUME NEW i \in DOMAIN queue'
       PROVE  /\ thread'[queue'[i]].pc \in {"queued", "bgwait", "delayed"} \cup Writing
              /\ ~thread'[queue'[i]].done
  <2>1. CASE i \in DOMAIN queue
    <3>1. queue'[i] = queue[i] /\ queue[i] \in Threads \ {t} BY <2>1, <1>7, <1>8
    <3> QED BY <2>1, <3>1, <1>1, <1>3 DEF QueueInv
  <2>2. CASE i = Len(queue) + 1 BY <2>2, <1>3, <1>7
  <2> QED BY <2>1, <2>2, <1>9
<1>12. ASSUME NEW u \in Threads, thread'[u].pc \in Writing
       PROVE  u # t /\ thread'[u] = thread[u]
  BY <1>3, <1>12 DEF Writing, Logged
<1>13. ASSUME NEW u \in Threads, thread'[u].pc \in Writing
       PROVE  /\ Len(thread'[u].group) \in 1 .. Len(queue')
              /\ thread'[u].group = SubSeq(queue', 1, Len(thread'[u].group))
              /\ queue'[1] = u /\ thread'[u].id # 0
              /\ \A i \in DOMAIN thread'[u].group : thread'[queue'[i]].sync => thread'[u].sync
              /\ thread'[u].ok <=> thread'[u].pc \notin {"finish", "syncerror"}
  <2> DEFINE n == Len(thread[u].group)
  <2>1. thread'[u] = thread[u] /\ thread[u].pc \in Writing BY <1>12, <1>13
  <2>2. /\ n \in 1 .. Len(queue) /\ thread[u].group = SubSeq(queue, 1, n)
        /\ queue[1] = u /\ thread[u].id # 0
        /\ \A i \in DOMAIN thread[u].group : thread[queue[i]].sync => thread[u].sync
        /\ thread[u].ok <=> thread[u].pc \notin {"finish", "syncerror"}
    BY <2>1, <1>1 DEF QueueInv
  <2>3. SubSeq(queue', 1, n) = SubSeq(queue, 1, n)
    <3>1. queue \in Seq(Threads) /\ queue' = Append(queue, t) BY <1>1, <1>2 DEF ThreadShape
    <3> HIDE DEF n
    <3> QED BY <3>1, <2>2
  <2>4. queue'[1] = queue[1] BY <2>2, <1>7
  <2>5. \A i \in DOMAIN thread[u].group : thread'[queue'[i]].sync => thread[u].sync
    <3> TAKE i \in DOMAIN thread[u].group
    <3>1. i \in DOMAIN queue BY <2>1, <1>1, GroupFacts
    <3>2. queue'[i] = queue[i] /\ queue[i] \in Threads \ {t} BY <3>1, <1>7, <1>8
    <3> QED BY <3>2, <2>2, <1>3
  <2>6. n \in 1 .. Len(queue') BY <2>2, <1>7
  <2> QED BY <2>1, <2>2, <2>3, <2>4, <2>5, <2>6
<1>14. db'.manual # "none" => db'.manual \in Threads /\ thread'[db'.manual].pc = "manualwait"
  BY <1>1, <1>3, <1>6 DEF QueueInv, Enqueue
<1>15. QueueInv' BY <1>10, <1>11, <1>13, <1>14 DEF QueueInv
<1>16. WritersKept
  <2> SUFFICES ASSUME NEW u \in Threads
               PROVE  /\ thread'[u].pc \in Logged => thread'[u] = thread[u]
                      /\ thread[u].pc \in Logged =>
                           /\ thread'[u] = thread[u]
                           /\ \A i \in DOMAIN thread[u].group :
                                thread'[thread[u].group[i]].id = thread[thread[u].group[i]].id
    BY DEF WritersKept
  <2>1. thread'[u].pc \in Logged => thread'[u] = thread[u] BY <1>12 DEF Writing
  <2>2. ASSUME thread[u].pc \in Logged
        PROVE  /\ thread'[u] = thread[u]
               /\ \A i \in DOMAIN thread[u].group :
                    thread'[thread[u].group[i]].id = thread[thread[u].group[i]].id
    <3>1. thread[u].pc \in Writing /\ u # t BY <2>2, <1>2 DEF Writing, Logged
    <3>2. \A i \in DOMAIN thread[u].group : i \in DOMAIN queue /\ thread[u].group[i] = queue[i]
      BY <3>1, <1>1, GroupFacts
    <3> QED BY <3>1, <3>2, <1>3, <1>7, <1>8
  <2> QED BY <2>1, <2>2
<1>17. OwedKept
  <2>1. \A u \in Answered' : u \in Answered /\ thread'[u] = thread[u] BY <1>3 DEF Answered
  <2> QED BY <2>1 DEF OwedKept, Owed, OwedSynced, TruthKept
<1> QED BY <1>4, <1>5, <1>15, <1>16, <1>17, CalmUp

(* A call is counted, and nothing promised. *)
LEMMA CountedFacts ==
  ASSUME HistShape, hist' = [hist EXCEPT !.calls = @ + 1, !.spent = @ + 2]
  PROVE  HistShape' /\ TruthKept /\ hist'.opened = hist.opened /\ hist'.repaired = hist.repaired
<1>1. /\ hist'.calls = hist.calls + 1 /\ hist'.acked = hist.acked /\ hist'.synced = hist.synced
      /\ hist'.lost = hist.lost /\ hist'.opened = hist.opened /\ hist'.repaired = hist.repaired
      /\ hist' = [calls |-> hist'.calls, spent |-> hist'.spent, acked |-> hist'.acked,
                  synced |-> hist'.synced, lost |-> hist'.lost,
                  opened |-> hist'.opened, repaired |-> hist'.repaired]
  BY DEF HistShape
<1> QED BY <1>1 DEF HistShape, TruthKept

(* Write begins at the end of the queue. *)
LEMMA WriteStep ==
  ASSUME Up, NEW t \in Threads, NEW sync \in BOOLEAN, Write(t, sync)
  PROVE  Up'
<1>1. HistShape BY DEF Up, Shape
<1>2. /\ HistShape' /\ TruthKept /\ hist'.opened = hist.opened /\ hist'.repaired = hist.repaired
  <2>1. hist' = [hist EXCEPT !.calls = @ + 1, !.spent = @ + 2] BY DEF Write
  <2> QED BY <2>1, <1>1, CountedFacts
<1>3. PICK w : w = [Idle EXCEPT !.pc = "queued", !.sync = sync, !.id = hist.calls + 1, !.delay = TRUE]
  OBVIOUS
<1>4. w \in ThreadType /\ w.pc = "queued" /\ ~w.done
  <2>1. hist.calls + 1 \in Nat /\ <<>> \in Seq(Threads) BY <1>1 DEF HistShape
  <2> QED BY <1>3, <2>1 DEF Idle, ThreadType, Pcs
<1>5. Enqueue(t, w) BY <1>3 DEF Write
<1> QED BY <1>2, <1>4, <1>5, EnqueueStep

(* So does CompactRange, with a NULL batch. *)
LEMMA CompactRangeStep ==
  ASSUME Up, NEW t \in Threads, CompactRange(t)
  PROVE  Up'
<1>1. HistShape BY DEF Up, Shape
<1>2. /\ HistShape' /\ TruthKept /\ hist'.opened = hist.opened /\ hist'.repaired = hist.repaired
  BY <1>1, FaultFacts DEF CompactRange
<1>3. PICK w : w = [Idle EXCEPT !.pc = "queued", !.force = TRUE] OBVIOUS
<1>4. w \in ThreadType /\ w.pc = "queued" /\ ~w.done
  <2>1. <<>> \in Seq(Threads) OBVIOUS
  <2> QED BY <1>3, <2>1 DEF Idle, ThreadType, Pcs
<1>5. Enqueue(t, w) BY <1>3 DEF CompactRange
<1> QED BY <1>2, <1>4, <1>5, EnqueueStep

(* Close only announces itself; the background thread goes on until it *)
(* notices. *)
LEMMA CloseStep ==
  ASSUME Up, Close
  PROVE  Up'
<1>1. ThreadShape /\ QueueInv /\ DBShape /\ HistShape BY DEF Up, UpInv, Shape
<1>2. /\ db' = [db EXCEPT !.closing = TRUE] /\ hist' = [hist EXCEPT !.spent = @ + 1]
      /\ thread' = thread /\ queue' = queue /\ awake' = awake
  BY DEF Close
<1>3. /\ DBShape' /\ db'.log = db.log /\ db'.imm = db.imm /\ db'.memtables = db.memtables
      /\ db'.pending = db.pending /\ db'.error = db.error /\ db'.manual = db.manual
  BY <1>1, <1>2 DEF DBShape
<1>4. /\ HistShape' /\ TruthKept /\ hist'.opened = hist.opened /\ hist'.repaired = hist.repaired
  BY <1>1, <1>2 DEF HistShape, TruthKept
<1>5. Calm /\ opening' = opening BY <1>3, <1>4 DEF Close, Calm, TruthKept
<1>6. QueueInv' /\ ThreadShape' BY <1>1, <1>2, <1>3 DEF QueueInv, ThreadShape
<1>7. WritersKept /\ OwedKept
  BY <1>2, <1>4 DEF WritersKept, OwedKept, Owed, OwedSynced, Answered, TruthKept
<1> QED BY <1>3, <1>4, <1>5, <1>6, <1>7, CalmUp

(* The end of a background call leaves the thread at rest and the fields *)
(* as given, but for scheduled. *)
LEMMA EndCallFacts ==
  ASSUME ThreadShape, NEW d, IsDB(d), NEW f, EndCall(d, f)
  PROVE  DBShape' /\ DBIs(d) /\ bg' = Resting /\ awake' \subseteq Threads
<1>6. PICK b \in BOOLEAN : b = FALSE OBVIOUS
<1> DEFINE c == [d EXCEPT !.scheduled = b]
<1>1. /\ c.log = d.log /\ c.imm = d.imm /\ c.memtables = d.memtables
      /\ c.pending = d.pending /\ c.error = d.error /\ c.closing = d.closing
      /\ c.manual = d.manual /\ c.scheduled \in BOOLEAN
      /\ c = [log |-> c.log, imm |-> c.imm, memtables |-> c.memtables, pending |-> c.pending,
              error |-> c.error, scheduled |-> c.scheduled, closing |-> c.closing,
              manual |-> c.manual]
  BY DEF IsDB
<1>2. db' = MaybeScheduleCompaction(c, f) BY <1>6 DEF EndCall
<1> HIDE DEF c
<1>3. /\ {c.log, c.imm} \subseteq Nat /\ c.pending \subseteq Nat
      /\ {c.error, c.scheduled, c.closing} \subseteq BOOLEAN
      /\ DOMAIN c.memtables \subseteq Nat
      /\ \A n \in DOMAIN c.memtables : c.memtables[n] \subseteq Entry
  BY <1>1 DEF IsDB
<1>4. /\ DBShape'
      /\ db'.log = c.log /\ db'.imm = c.imm /\ db'.memtables = c.memtables
      /\ db'.pending = c.pending /\ db'.error = c.error /\ db'.closing = c.closing
      /\ db'.manual = c.manual
  BY <1>1, <1>2, <1>3, ScheduledShape
<1>5. bg' = Resting /\ awake' \subseteq Threads BY DEF EndCall, Waiting, ThreadShape
<1> QED BY <1>1, <1>4, <1>5 DEF DBIs

(* A background call with nothing to do changes nothing that matters. *)
LEMMA BackgroundNothingStep ==
  ASSUME Up, BackgroundNothing
  PROVE  Up'
<1>1. ThreadShape /\ QueueInv /\ DBShape /\ HistShape /\ BgInv BY DEF Up, UpInv, Shape
<1>2. /\ disk' = disk /\ phase' = phase /\ vset' = vset /\ reader' = reader /\ hist' = hist
      /\ opening' = opening /\ thread' = thread /\ queue' = queue
  BY DEF BackgroundNothing
<1>3. /\ DBShape' /\ DBIs(db) /\ bg' = Resting /\ awake' \subseteq Threads
  <2>1. PICK d : d = db OBVIOUS
  <2>2. IsDB(d) /\ EndCall(d, vset.files) BY <2>1, <1>1 DEF BackgroundNothing, DBShape, IsDB
  <2> QED BY <2>1, <2>2, <1>1, EndCallFacts
<1>4. bg' = bg BY <1>1, <1>3 DEF BackgroundNothing, Dispatch, BgInv
<1>5. Calm BY <1>2, <1>3, <1>4 DEF Calm, DBIs
<1>6. QueueInv' /\ ThreadShape' /\ HistShape'
  BY <1>1, <1>2, <1>3 DEF QueueInv, ThreadShape, HistShape, DBIs
<1>7. WritersKept /\ OwedKept BY <1>2 DEF WritersKept, OwedKept, Owed, OwedSynced, Answered
<1> QED BY <1>2, <1>3, <1>5, <1>6, <1>7, CalmUp

(* A manual compaction with nothing left to compact is done. *)
LEMMA ManualDoneStep ==
  ASSUME Up, ManualDone
  PROVE  Up'
<1>1. ThreadShape /\ QueueInv /\ DBShape /\ HistShape /\ BgInv BY DEF Up, UpInv, Shape
<1>2. /\ disk' = disk /\ phase' = phase /\ vset' = vset /\ reader' = reader /\ hist' = hist
      /\ opening' = opening /\ queue' = queue
      /\ thread' = [thread EXCEPT ![db.manual].done = TRUE]
      /\ db.manual # "none"
  BY DEF ManualDone
<1>3. PICK t : t = db.manual OBVIOUS
<1>4. t \in Threads /\ thread[t].pc = "manualwait" BY <1>1, <1>2, <1>3 DEF QueueInv
<1>5. /\ thread'[t].pc = "manualwait" /\ \A u \in Threads \ {t} : thread'[u] = thread[u]
      /\ thread' \in [Threads -> ThreadType]
  <2>1. thread' = [thread EXCEPT ![t].done = TRUE] BY <1>2, <1>3
  <2> QED BY <2>1, <1>1, <1>4 DEF ThreadShape, ThreadType
<1>6. DBShape' /\ bg' = Resting /\ awake' \subseteq Threads
      /\ db'.log = db.log /\ db'.imm = db.imm /\ db'.memtables = db.memtables
      /\ db'.pending = db.pending /\ db'.error = db.error /\ db'.manual = "none"
  <2> DEFINE d == [db EXCEPT !.manual = "none"]
  <2>1. /\ IsDB(d) /\ d.log = db.log /\ d.imm = db.imm /\ d.memtables = db.memtables
        /\ d.pending = db.pending /\ d.error = db.error /\ d.manual = "none"
    BY <1>1 DEF DBShape, IsDB
  <2>2. EndCall(d, vset.files) BY DEF ManualDone
  <2> HIDE DEF d
  <2>3. DBShape' /\ DBIs(d) /\ bg' = Resting /\ awake' \subseteq Threads
    BY <2>1, <2>2, <1>1, EndCallFacts
  <2> QED BY <2>1, <2>3 DEF DBIs
<1>7. bg' = bg BY <1>1, <1>6 DEF ManualDone, MayCompact, Dispatch, BgInv
<1>8. Calm /\ TruthKept BY <1>2, <1>6, <1>7 DEF Calm, TruthKept
<1>9. QueueInv' /\ WritersKept /\ OwedKept
  <2>1. thread[t].pc \notin Writing /\ thread'[t].pc \notin Writing /\ ~InQueue(thread[t])
        /\ thread'[t].pc # "queued"
    BY <1>4, <1>5 DEF Writing, Logged, InQueue
  <2> QED BY <2>1, <1>1, <1>2, <1>4, <1>5, <1>6, <1>8, OneMoves
<1>10. ThreadShape' /\ HistShape'
  BY <1>1, <1>2, <1>5, <1>6 DEF ThreadShape, ThreadType, HistShape
<1> QED BY <1>2, <1>6, <1>8, <1>9, <1>10, CalmUp
-----------------------------------------------------------------------------
(* Readers *)

(* What is owed is in the tables of the version, or in a memtable. *)
LEMMA GetStep ==
  ASSUME Up, NEW r \in Readers, Get(r)
  PROVE  Up'
<1>1. /\ ThreadShape /\ QueueInv /\ DBShape /\ HistShape /\ ReaderShape /\ ReaderInv /\ OpeningShape
      /\ NumbersInv /\ StoreInv /\ SeqInv
  BY DEF Up, UpInv, Shape
<1>2. /\ disk' = disk /\ phase' = phase /\ vset' = vset /\ bg' = bg /\ db' = db
      /\ opening' = opening /\ queue' = queue /\ thread' = thread /\ awake' = awake
      /\ hist' = [hist EXCEPT !.spent = @ + 1] /\ phase = "up"
      /\ reader' = [reader EXCEPT ![r] =
                     [pc |-> "reading", snap |-> vset.last, mem |-> db.log, imm |-> db.imm,
                      files |-> vset.files, expect |-> hist.acked]]
  BY DEF Get
<1>3. HistShape' /\ TruthKept /\ hist'.opened = hist.opened /\ hist'.repaired = hist.repaired
  BY <1>1, <1>2 DEF HistShape, TruthKept
<1>4. WritersKept /\ OwedKept
  BY <1>2, <1>3 DEF WritersKept, OwedKept, Owed, OwedSynced, Answered, TruthKept
<1>5. Still BY <1>2, <1>3 DEF Still, TruthKept
<1>6. /\ Bounded' /\ SequencesUnique' /\ DiskShape' /\ VersionShape' /\ BgShape'
      /\ BatchInv' /\ SeqInv' /\ NumbersInv' /\ StoreInv' /\ ExactInv' /\ BgInv'
  BY <1>4, <1>5, CalmStep
<1>7. QueueInv' /\ ThreadShape' /\ DBShape' /\ OpeningShape' /\ phase' = "up"
  BY <1>1, <1>2 DEF QueueInv, ThreadShape, DBShape, OpeningShape
<1>8. TablesKept BY <1>2 DEF TablesKept, Scanned
<1>9. /\ \A q \in Readers \ {r} : reader'[q] = reader[q]
      /\ reader'[r] = [pc |-> "reading", snap |-> vset.last, mem |-> db.log, imm |-> db.imm,
                       files |-> vset.files, expect |-> hist.acked]
      /\ DOMAIN reader' = Readers
  BY <1>1, <1>2 DEF ReaderShape
<1>10. /\ reader'[r].snap = vset.last /\ reader'[r].mem = db.log /\ reader'[r].imm = db.imm
       /\ reader'[r].files = vset.files /\ reader'[r].expect = hist.acked
       /\ reader'[r].pc = "reading"
  BY <1>9
<1>11. ReaderShape' BY <1>1, <1>9 DEF ReaderShape
<1>12. Good(DOMAIN vset.files, vset.log) /\ InMem \subseteq DOMAIN db.memtables
  BY <1>1 DEF StoreInv, NumbersInv
<1>13. ASSUME NEW w \in hist.acked \ hist.lost
       PROVE  \E e \in Found(r)' : e[1] <= vset.last /\ e[2] = w
  <2>1. w \in Owed BY DEF Owed
  <2>2. \/ w \in Writes(Data(DOMAIN vset.files))
        \/ \E n \in InMem : w \in Writes(db.memtables[n])
    BY <2>1, <1>12 DEF Good, Covers
  <2>3. CASE w \in Writes(Data(DOMAIN vset.files))
    <3>1. PICK n \in DOMAIN vset.files : \E e \in disk.tables[n].data : e[2] = w
      BY <2>3 DEF Writes, Data
    <3>2. PICK e \in disk.tables[n].data : e[2] = w BY <3>1
    <3>3. n \in DOMAIN disk.tables BY <1>12 DEF Good, Scanned
    <3>4. e[1] <= vset.last BY <3>3, <1>1 DEF SeqInv
    <3>5. n \in DOMAIN reader'[r].files \cap DOMAIN disk'.tables /\ e \in disk'.tables[n].data
      BY <3>1, <3>3, <1>2, <1>10
    <3>6. e \in UNION {disk'.tables[k].data : k \in DOMAIN reader'[r].files \cap DOMAIN disk'.tables}
      BY <3>5
    <3> QED BY <3>2, <3>4, <3>6 DEF Found, Data
  <2>4. CASE \E n \in InMem : w \in Writes(db.memtables[n])
    <3>1. PICK n \in InMem : w \in Writes(db.memtables[n]) BY <2>4
    <3>2. PICK e \in db.memtables[n] : e[2] = w BY <3>1 DEF Writes
    <3>3. n \in {db.log, db.imm} \cap DOMAIN db.memtables BY <1>12 DEF InMem
    <3>4. e[1] <= vset.last BY <3>3, <1>1 DEF SeqInv
    <3>5. n \in {reader'[r].mem, reader'[r].imm} \cap DOMAIN db'.memtables /\ e \in db'.memtables[n]
      BY <3>3, <1>2, <1>10
    <3>6. e \in UNION {db'.memtables[k] : k \in {reader'[r].mem, reader'[r].imm} \cap DOMAIN db'.memtables}
      BY <3>5
    <3> QED BY <3>2, <3>4, <3>6 DEF Found
  <2> QED BY <2>2, <2>3, <2>4
<1>14. ASSUME NEW q \in Readers, reader'[q].pc = "reading"
       PROVE  /\ DOMAIN reader'[q].files \subseteq Scanned'
              /\ {reader'[q].mem, reader'[q].imm} \ {0} \subseteq DOMAIN db'.memtables
              /\ \A w \in reader'[q].expect \ hist'.lost :
                   \E e \in Found(q)' : e[1] <= reader'[q].snap /\ e[2] = w
  <2>1. CASE q # r
    <3>1. reader'[q] = reader[q] /\ reader[q].pc = "reading" BY <2>1, <1>9, <1>14
    <3>2. \A n \in DOMAIN db.memtables : n \in DOMAIN db'.memtables /\ db.memtables[n] \subseteq db'.memtables[n]
      BY <1>2
    <3> QED BY <3>1, <3>2, <1>1, <1>3, <1>8, ReaderKept DEF TruthKept
  <2>2. CASE q = r
    <3>1. DOMAIN reader'[r].files \subseteq Scanned' BY <1>2, <1>10, <1>12 DEF Good, Scanned
    <3>2. {reader'[r].mem, reader'[r].imm} \ {0} \subseteq DOMAIN db'.memtables
      BY <1>2, <1>10, <1>12 DEF InMem
    <3> QED BY <2>2, <3>1, <3>2, <1>3, <1>10, <1>13 DEF TruthKept
  <2> QED BY <2>1, <2>2
<1>15. ReaderInv' BY <1>14 DEF ReaderInv
<1> QED BY <1>3, <1>6, <1>7, <1>11, <1>15 DEF Up, UpInv, Shape

(* Memtables that are current, being flushed or held by a reader stay. *)
LEMMA ReferencedFacts ==
  ASSUME NEW d, NEW rd
  PROVE  /\ DOMAIN Referenced(d, rd) \subseteq DOMAIN d.memtables
         /\ \A n \in DOMAIN Referenced(d, rd) : Referenced(d, rd)[n] = d.memtables[n]
         /\ {d.log, d.imm} \cap DOMAIN d.memtables \subseteq DOMAIN Referenced(d, rd)
         /\ \A r \in Readers :
              {rd[r].mem, rd[r].imm} \cap DOMAIN d.memtables \subseteq DOMAIN Referenced(d, rd)
<1> DEFINE R == {d.log, d.imm} \cup (UNION {{rd[r].mem, rd[r].imm} : r \in Readers})
<1>1. Referenced(d, rd) = Without(d.memtables, DOMAIN d.memtables \ R) BY DEF Referenced
<1>2. {d.log, d.imm} \subseteq R /\ \A r \in Readers : {rd[r].mem, rd[r].imm} \subseteq R
  OBVIOUS
<1> HIDE DEF R
<1>3. /\ DOMAIN Referenced(d, rd) = DOMAIN d.memtables \cap R
      /\ \A n \in DOMAIN d.memtables \cap R : Referenced(d, rd)[n] = d.memtables[n]
  BY <1>1 DEF Without
<1> QED BY <1>2, <1>3

(* A reader that ends takes its memtables with it only if nobody else *)
(* refers to them. *)
LEMMA EndGetStep ==
  ASSUME Up, NEW r \in Readers, EndGet(r)
  PROVE  Up'
<1>1. /\ ThreadShape /\ QueueInv /\ DBShape /\ HistShape /\ ReaderShape /\ ReaderInv /\ OpeningShape
      /\ NumbersInv
  BY DEF Up, UpInv, Shape
<1>2. /\ disk' = disk /\ phase' = phase /\ vset' = vset /\ bg' = bg
      /\ opening' = opening /\ queue' = queue /\ thread' = thread /\ awake' = awake
      /\ hist' = hist /\ phase = "up"
      /\ reader' = [reader EXCEPT ![r] = Ready]
      /\ db' = [db EXCEPT !.memtables = Referenced(db, reader')]
  BY DEF EndGet, Up
<1>3. PICK rd : rd = reader' OBVIOUS
<1>4. /\ db'.log = db.log /\ db'.imm = db.imm /\ db'.pending = db.pending /\ db'.error = db.error
      /\ db'.manual = db.manual /\ db'.scheduled = db.scheduled /\ db'.closing = db.closing
      /\ db'.memtables = Referenced(db, rd)
      /\ db' = [log |-> db'.log, imm |-> db'.imm, memtables |-> db'.memtables, pending |-> db'.pending,
                error |-> db'.error, scheduled |-> db'.scheduled, closing |-> db'.closing,
                manual |-> db'.manual]
  BY <1>1, <1>2, <1>3 DEF DBShape
<1>5. PICK d : d = db OBVIOUS
<1>6. /\ DOMAIN db'.memtables \subseteq DOMAIN d.memtables
      /\ \A n \in DOMAIN db'.memtables : db'.memtables[n] = d.memtables[n]
      /\ {d.log, d.imm} \cap DOMAIN d.memtables \subseteq DOMAIN db'.memtables
      /\ \A q \in Readers :
           {rd[q].mem, rd[q].imm} \cap DOMAIN d.memtables \subseteq DOMAIN db'.memtables
  <2>1. db'.memtables = Referenced(d, rd) BY <1>4, <1>5
  <2> QED BY <2>1, ReferencedFacts
<1>7. Still BY <1>2, <1>4, <1>5, <1>6 DEF Still, InMem
<1>8. WritersKept /\ OwedKept BY <1>2 DEF WritersKept, OwedKept, Owed, OwedSynced, Answered
<1>9. /\ Bounded' /\ SequencesUnique' /\ DiskShape' /\ VersionShape' /\ BgShape'
      /\ BatchInv' /\ SeqInv' /\ NumbersInv' /\ StoreInv' /\ ExactInv' /\ BgInv'
  BY <1>7, <1>8, CalmStep
<1>10. QueueInv' /\ ThreadShape' /\ OpeningShape' /\ HistShape' /\ phase' = "up"
  BY <1>1, <1>2, <1>4 DEF QueueInv, ThreadShape, OpeningShape, HistShape
<1>11. DBShape'
  <2>1. /\ DOMAIN db'.memtables \subseteq Nat
        /\ \A n \in DOMAIN db'.memtables : db'.memtables[n] \subseteq Entry
    BY <1>1, <1>5, <1>6 DEF DBShape
  <2> QED BY <2>1, <1>1, <1>4 DEF DBShape
<1>12. /\ \A q \in Readers \ {r} : reader'[q] = reader[q]
       /\ reader'[r] = Ready /\ DOMAIN reader' = Readers
  BY <1>1, <1>2 DEF ReaderShape
<1>13. Ready.pc = "idle" /\ Ready = [pc |-> Ready.pc, snap |-> Ready.snap, mem |-> Ready.mem,
                    imm |-> Ready.imm, files |-> Ready.files, expect |-> Ready.expect]
  BY DEF Ready
<1>14. ReaderShape' BY <1>1, <1>12, <1>13 DEF ReaderShape
<1>15. TablesKept BY <1>2 DEF TablesKept, Scanned
<1>16. ASSUME NEW q \in Readers, reader'[q].pc = "reading"
       PROVE  /\ DOMAIN reader'[q].files \subseteq Scanned'
              /\ {reader'[q].mem, reader'[q].imm} \ {0} \subseteq DOMAIN db'.memtables
              /\ \A w \in reader'[q].expect \ hist'.lost :
                   \E e \in Found(q)' : e[1] <= reader'[q].snap /\ e[2] = w
  <2>1. reader'[q] = reader[q] /\ reader[q].pc = "reading" BY <1>12, <1>13, <1>16
  <2>2. rd[q] = reader[q] BY <2>1, <1>3
  <2>3. \A n \in {reader[q].mem, reader[q].imm} \cap DOMAIN db.memtables :
          n \in DOMAIN db'.memtables /\ db.memtables[n] \subseteq db'.memtables[n]
    BY <2>2, <1>5, <1>6
  <2> QED BY <2>1, <2>3, <1>1, <1>2, <1>15, ReaderKept
<1>17. ReaderInv' BY <1>16 DEF ReaderInv
<1> QED BY <1>9, <1>10, <1>11, <1>14, <1>17 DEF Up, UpInv, Shape
-----------------------------------------------------------------------------
(* A new memtable and log *)

(* A new log is empty and changes no other. *)
LEMMA NewLogIs ==
  ASSUME DiskShape, NEW n \in Nat, n \notin DOMAIN disk.logs,
         disk' = [disk EXCEPT !.logs = Put(@, n, [recs |-> <<>>, synced |-> 0])]
  PROVE  /\ DiskShape' /\ disk'.tables = disk.tables /\ disk'.manifests = disk.manifests
         /\ disk'.current = disk.current
         /\ DOMAIN disk'.logs = DOMAIN disk.logs \cup {n}
         /\ \A k \in DOMAIN disk.logs : LogData(k)' = LogData(k) /\ SafeLogData(k)' = SafeLogData(k)
         /\ \A k \in DOMAIN disk.logs : disk'.logs[k] = disk.logs[k]
         /\ LogData(n)' = {} /\ disk'.logs[n] = [recs |-> <<>>, synced |-> 0]
<1>1. PICK l : l = [recs |-> <<>>, synced |-> 0] OBVIOUS
<1>2. IsLog(l) /\ ReadLog(l, Len(l.recs)) = {} BY <1>1, EmptyLog
<1>3. /\ disk'.tables = disk.tables /\ disk'.manifests = disk.manifests
      /\ disk'.current = disk.current /\ disk'.logs = Put(disk.logs, n, l)
      /\ disk' = [logs |-> disk'.logs, tables |-> disk'.tables, manifests |-> disk'.manifests,
                  current |-> disk'.current]
  BY <1>1 DEF DiskShape
<1>4. /\ DOMAIN disk'.logs = DOMAIN disk.logs \cup {n} /\ disk'.logs[n] = l
      /\ \A k \in DOMAIN disk.logs \ {n} : disk'.logs[k] = disk.logs[k]
  <2>1. PICK f : f = disk.logs OBVIOUS
  <2>2. /\ DOMAIN Put(f, n, l) = DOMAIN f \cup {n} /\ Put(f, n, l)[n] = l
        /\ \A k \in DOMAIN f \ {n} : Put(f, n, l)[k] = f[k]
    BY DEF Put, Over
  <2> QED BY <2>1, <2>2, <1>3
<1>5. DiskShape' BY <1>2, <1>3, <1>4 DEF DiskShape
<1>6. \A k \in DOMAIN disk.logs : LogData(k)' = LogData(k) /\ SafeLogData(k)' = SafeLogData(k)
  BY <1>4 DEF LogData, SafeLogData
<1>7. LogData(n)' = {} BY <1>2, <1>4 DEF LogData
<1> QED BY <1>1, <1>3, <1>4, <1>5, <1>6, <1>7

(* The fields after a switch of memtables ... *)
LEMMA SwitchedFields ==
  ASSUME NEW a, NEW i, NEW n, NEW m, NEW d,
         a = [log |-> a.log, imm |-> a.imm, memtables |-> a.memtables, pending |-> a.pending,
              error |-> a.error, scheduled |-> a.scheduled, closing |-> a.closing,
              manual |-> a.manual],
         d = [a EXCEPT !.imm = i, !.log = n, !.memtables = m]
  PROVE  /\ d.log = n /\ d.imm = i /\ d.memtables = m
         /\ d.pending = a.pending /\ d.error = a.error /\ d.scheduled = a.scheduled
         /\ d.closing = a.closing /\ d.manual = a.manual
OBVIOUS

(* ... are all there are. *)
LEMMA SwitchedShape ==
  ASSUME NEW a, NEW i, NEW n, NEW m, NEW d,
         a = [log |-> a.log, imm |-> a.imm, memtables |-> a.memtables, pending |-> a.pending,
              error |-> a.error, scheduled |-> a.scheduled, closing |-> a.closing,
              manual |-> a.manual],
         d = [a EXCEPT !.imm = i, !.log = n, !.memtables = m]
  PROVE  d = [log |-> d.log, imm |-> d.imm, memtables |-> d.memtables, pending |-> d.pending,
              error |-> d.error, scheduled |-> d.scheduled, closing |-> d.closing,
              manual |-> d.manual]
OBVIOUS

(* The full memtable becomes the one to be flushed, with its log; the new *)
(* one and its log are empty. Nothing has left the memtables, so all that *)
(* is owed is still covered. *)
LEMMA SwitchMemTableStep ==
  ASSUME Up, NEW t \in Threads, SwitchMemTable(t)
  PROVE  Up'
<1>1. /\ DiskShape /\ VersionShape /\ OpeningShape /\ HistShape /\ DBShape /\ ThreadShape
      /\ BgShape /\ ReaderShape /\ Bounded /\ SequencesUnique
  BY DEF Up, Shape
<1>2. /\ QueueInv /\ BatchInv /\ SeqInv /\ NumbersInv /\ StoreInv /\ ExactInv /\ BgInv /\ ReaderInv
  BY DEF Up, UpInv
<1>3. PICK n, f : n = vset.next /\ f = vset.files OBVIOUS
<1>4. /\ AtFront(t) /\ ~db.error /\ db.imm = 0 /\ Proceed(t)
      /\ vset' = [vset EXCEPT !.next = n + 1]
      /\ disk' = [disk EXCEPT !.logs = Put(@, n, [recs |-> <<>>, synced |-> 0])]
      /\ db' = MaybeScheduleCompaction(
                 [db EXCEPT !.imm = db.log, !.log = n, !.memtables = Put(@, n, {})], f)
      /\ phase' = phase /\ opening' = opening /\ bg' = bg /\ reader' = reader /\ hist' = hist
  BY <1>3 DEF SwitchMemTable, Blocked
<1>5. n \in Nat /\ n \notin DOMAIN disk.logs \cup DOMAIN disk.tables \cup DOMAIN db.memtables
      /\ n > db.log /\ db.log \in Nat
  BY <1>1, <1>2, <1>3 DEF NumbersInv, VersionShape, DBShape
<1>6. /\ DiskShape' /\ disk'.tables = disk.tables /\ disk'.manifests = disk.manifests
      /\ disk'.current = disk.current
      /\ DOMAIN disk'.logs = DOMAIN disk.logs \cup {n}
      /\ \A k \in DOMAIN disk.logs : LogData(k)' = LogData(k) /\ SafeLogData(k)' = SafeLogData(k)
      /\ LogData(n)' = {}
  BY <1>1, <1>4, <1>5, NewLogIs
<1>7. /\ vset'.next = n + 1 /\ vset'.manifest = vset.manifest /\ vset'.last = vset.last
      /\ vset'.log = vset.log /\ vset'.files = vset.files /\ VersionShape'
      /\ vset.next <= vset'.next /\ vset.last <= vset'.last
  <2>1. /\ vset'.next = n + 1 /\ vset'.manifest = vset.manifest /\ vset'.last = vset.last
        /\ vset'.log = vset.log /\ vset'.files = vset.files
        /\ vset' = [next |-> vset'.next, manifest |-> vset'.manifest, last |-> vset'.last,
                    log |-> vset'.log, files |-> vset'.files]
    BY <1>1, <1>4 DEF VersionShape
  <2> QED BY <2>1, <1>1, <1>3, <1>5 DEF VersionShape
<1>8. /\ DBShape' /\ db'.log = n /\ db'.imm = db.log /\ db'.memtables = Put(db.memtables, n, {})
      /\ db'.pending = db.pending /\ db'.error = db.error /\ db'.manual = db.manual
  <2>6. PICK a, m, i : a = db /\ m = Put(db.memtables, n, {}) /\ i = db.log OBVIOUS
  <2>7. PICK d : d = [a EXCEPT !.imm = i, !.log = n, !.memtables = m] OBVIOUS
  <2>1. /\ d.log = n /\ d.imm = db.log /\ d.memtables = m
        /\ d.pending = db.pending /\ d.error = db.error /\ d.scheduled = db.scheduled
        /\ d.closing = db.closing /\ d.manual = db.manual
        /\ d = [log |-> d.log, imm |-> d.imm, memtables |-> d.memtables, pending |-> d.pending,
                error |-> d.error, scheduled |-> d.scheduled, closing |-> d.closing,
                manual |-> d.manual]
    <3>1. a = [log |-> a.log, imm |-> a.imm, memtables |-> a.memtables, pending |-> a.pending,
               error |-> a.error, scheduled |-> a.scheduled, closing |-> a.closing,
               manual |-> a.manual]
      BY <2>6, <1>1 DEF DBShape
    <3>2. /\ d.log = n /\ d.imm = i /\ d.memtables = m
          /\ d.pending = a.pending /\ d.error = a.error /\ d.scheduled = a.scheduled
          /\ d.closing = a.closing /\ d.manual = a.manual
          /\ d = [log |-> d.log, imm |-> d.imm, memtables |-> d.memtables, pending |-> d.pending,
                  error |-> d.error, scheduled |-> d.scheduled, closing |-> d.closing,
                  manual |-> d.manual]
      BY <3>1, <2>7, SwitchedFields, SwitchedShape
    <3> QED BY <3>2, <2>6
  <2>2. DOMAIN m \subseteq Nat /\ \A k \in DOMAIN m : m[k] \subseteq Entry
    <3>1. PICK mm : mm = db.memtables OBVIOUS
    <3>2. DOMAIN mm \subseteq Nat /\ \A k \in DOMAIN mm : mm[k] \subseteq Entry
      BY <3>1, <1>1 DEF DBShape
    <3> QED BY <2>6, <3>1, <3>2, <1>5 DEF Put, Over
  <2>3. /\ {d.log, d.imm} \subseteq Nat /\ d.pending \subseteq Nat
        /\ {d.error, d.scheduled, d.closing} \subseteq BOOLEAN
    BY <2>1, <1>1, <1>5 DEF DBShape
  <2>4. db' = MaybeScheduleCompaction(d, f) BY <1>4, <2>6, <2>7
  <2>5. /\ DBShape'
        /\ db'.log = d.log /\ db'.imm = d.imm /\ db'.memtables = d.memtables
        /\ db'.pending = d.pending /\ db'.error = d.error /\ db'.manual = d.manual
    BY <2>1, <2>2, <2>3, <2>4, ScheduledShape
  <2> QED BY <2>1, <2>5, <2>6
<1>9. /\ DOMAIN db'.memtables = DOMAIN db.memtables \cup {n} /\ db'.memtables[n] = {}
      /\ \A k \in DOMAIN db.memtables : db'.memtables[k] = db.memtables[k]
  <2>1. PICK m : m = db.memtables OBVIOUS
  <2>2. db'.memtables = Put(m, n, {}) /\ n \notin DOMAIN m BY <1>5, <1>8, <2>1
  <2>3. /\ DOMAIN db'.memtables = DOMAIN m \cup {n} /\ db'.memtables[n] = {}
        /\ \A k \in DOMAIN m : db'.memtables[k] = m[k]
    BY <2>2 DEF Put, Over
  <2> QED BY <2>1, <2>3
<1>10. TruthKept BY <1>4 DEF TruthKept
<1>11. /\ ThreadShape' /\ QueueInv' /\ WritersKept /\ OwedKept
       /\ \A u \in Threads : thread'[u].pc \notin Logged /\ thread[u].pc \notin Logged
  <2>1. CASE thread[t].id = 0
    <3>1. PICK ok \in BOOLEAN : ok = TRUE OBVIOUS
    <3>2. Leave(t, <<t>>, ok, {}) BY <1>4, <2>1, <3>1 DEF Proceed
    <3> QED BY <3>2, <1>1, <1>2, <1>4, <1>8, <1>10, LeaveFront
  <2>2. CASE thread[t].id # 0 BY <2>2, <1>1, <1>2, <1>4, <1>8, <1>10, WriterStarts
  <2> QED BY <2>1, <2>2
<1>12. /\ InMem = {db.log} /\ InMem' = {n, db.log} /\ 0 < db.log
       /\ db.log \in DOMAIN disk.logs /\ db.log \in DOMAIN db.memtables
  BY <1>2, <1>4, <1>5, <1>8 DEF InMem, NumbersInv
<1>13. TablesKept /\ Current' = Current BY <1>6 DEF TablesKept, Scanned, Current
<1>14. NoNewEntries
  <2>1. ASSUME NEW k \in DOMAIN disk'.tables
        PROVE  disk'.tables[k].data \subseteq TableData \cup MemData
    BY <1>6 DEF TableData, Data
  <2>2. ASSUME NEW k \in DOMAIN db'.memtables PROVE db'.memtables[k] \subseteq MemData
    BY <1>9 DEF MemData
  <2>3. ASSUME NEW k \in DOMAIN disk'.logs
        PROVE  LogData(k)' \subseteq (IF k \in DOMAIN disk.logs THEN LogData(k) ELSE {})
    BY <1>5, <1>6
  <2> QED BY <2>1, <2>2, <2>3 DEF NoNewEntries
<1>15. NumbersInv'
  <2>1. InMem' \subseteq DOMAIN disk'.logs \cap DOMAIN db'.memtables BY <1>6, <1>9, <1>12
  <2>2. 0 < db'.log /\ db'.imm < db'.log /\ db'.log < vset'.next BY <1>5, <1>7, <1>8
  <2>3. vset'.log = IF db'.imm = 0 THEN db'.log ELSE db'.imm
    BY <1>2, <1>4, <1>7, <1>8, <1>12 DEF NumbersInv
  <2>4. \A k \in DOMAIN disk'.logs \cup DOMAIN disk'.tables \cup DOMAIN db'.memtables : k < vset'.next
    <3> SUFFICES ASSUME NEW k \in DOMAIN disk.logs \cup DOMAIN disk.tables \cup DOMAIN db.memtables \cup {n}
                 PROVE  k < n + 1
      BY <1>6, <1>7, <1>9
    <3>1. CASE k = n BY <3>1, <1>5
    <3>2. CASE k # n
      <4>1. k < n BY <3>2, <1>2, <1>3 DEF NumbersInv
      <4> QED BY <4>1, <1>1, <1>5 DEF DiskShape, DBShape
    <3> QED BY <3>1, <3>2
  <2> QED BY <2>1, <2>2, <2>3, <2>4, <1>2, <1>4, <1>6, <1>7 DEF NumbersInv
<1>16. SeqInv' /\ Bounded' /\ SequencesUnique'
  <2>1. SeqInv' BY <1>1, <1>2, <1>7, <1>11, <1>14, SeqKept
  <2>2. AllEntries' \subseteq AllEntries BY <1>14, AllEntriesKept
  <2> QED BY <2>1, <2>2, <1>1, <1>6, <1>7, <1>15, BoundedKept
<1>17. BatchInv' BY <1>11 DEF BatchInv, Logged
<1>18. ASSUME NEW F, NEW l, Good(F, l)
       PROVE  Good(F, l)'
  <2>1. F \subseteq Scanned' /\ Data(F)' = Data(F) BY <1>13, <1>18, DataKept DEF Good
  <2>2. l \in {vset'.log, db'.log} /\ l = db'.imm
    BY <1>18, <1>2, <1>4, <1>7, <1>8 DEF Good, NumbersInv
  <2>3. Covers(F) BY <1>18 DEF Good
  <2>4. ASSUME NEW w \in Owed'
        PROVE  w \in Writes(Data(F)') \/ \E k \in InMem' : w \in Writes(db'.memtables[k])
    <3>1. w \in Owed BY <1>11, <2>4 DEF OwedKept
    <3>2. w \in Writes(Data(F)) \/ w \in Writes(db.memtables[db.log])
      BY <3>1, <2>3, <1>12 DEF Covers
    <3>3. db'.memtables[db.log] = db.memtables[db.log] /\ db.log \in InMem' BY <1>9, <1>12
    <3> QED BY <3>2, <3>3, <2>1
  <2>5. ASSUME NEW w \in OwedSynced'
        PROVE  \/ w \in Writes(Data(F)')
               \/ \E k \in InMem' : w \in Writes(db'.memtables[k]) /\ w \in Writes(SafeLogData(k)')
    <3>1. w \in OwedSynced BY <1>11, <2>5 DEF OwedKept
    <3>2. \/ w \in Writes(Data(F))
          \/ w \in Writes(db.memtables[db.log]) /\ w \in Writes(SafeLogData(db.log))
      BY <3>1, <2>3, <1>12 DEF Covers
    <3>3. PICK k : k = db.log OBVIOUS
    <3>4. db'.memtables[k] = db.memtables[k] /\ k \in InMem' /\ SafeLogData(k)' = SafeLogData(k)
      BY <3>3, <1>6, <1>9, <1>12
    <3> QED BY <3>2, <3>3, <3>4, <2>1
  <2> QED BY <2>1, <2>2, <2>4, <2>5 DEF Good, Covers
<1>19. StoreInv'
  <2>1. \A k \in InMem' : Writes(db'.memtables[k]) \subseteq Writes(LogData(k)') \cup hist'.lost
    <3> SUFFICES ASSUME NEW k \in InMem'
                 PROVE  Writes(db'.memtables[k]) \subseteq Writes(LogData(k)') \cup hist'.lost
      OBVIOUS
    <3>1. CASE k = n BY <3>1, <1>9 DEF Writes
    <3>2. CASE k # n
      <4>1. k \in InMem /\ k \in DOMAIN db.memtables /\ k \in DOMAIN disk.logs BY <3>2, <1>12
      <4>2. db'.memtables[k] = db.memtables[k] /\ LogData(k)' = LogData(k) BY <4>1, <1>6, <1>9
      <4> QED BY <4>1, <4>2, <1>2, <1>4 DEF StoreInv
    <3> QED BY <3>1, <3>2
  <2>2. Good(DOMAIN vset.files, vset.log)'
    <3>1. PICK F, l : F = DOMAIN vset.files /\ l = vset.log OBVIOUS
    <3>2. Good(F, l)' BY <3>1, <1>2, <1>18 DEF StoreInv
    <3> QED BY <3>1, <3>2, <1>7
  <2>3. ASSUME NEW s, Fine(s) PROVE Fine(s)'
    <3>1. PICK F, l : F = DOMAIN s.files /\ l = s.log OBVIOUS
    <3>2. Good(F, l) => Good(F, l)' BY <1>18
    <3>3. disk'.current = disk.current /\ vset.next <= vset'.next /\ vset.last <= vset'.last
      BY <1>1, <1>6, <1>7 DEF VersionShape
    <3> QED BY <2>3, <3>1, <3>2, <3>3, <1>1, <1>7, <1>13, FineKept
  <2> QED BY <2>1, <2>2, <2>3, <1>2, <1>13, SoundKept DEF StoreInv
<1>20. ExactInv' BY <1>2, <1>4, <1>7, <1>8, <1>13, ExactKept
<1>21. BgInv'
  <2>1. ~Flushing BY <1>2, <1>4 DEF BgInv
  <2>2. DOMAIN disk'.tables = DOMAIN disk.tables /\ db.pending \subseteq db'.pending
    BY <1>6, <1>8
  <2> QED BY <2>1, <2>2, <1>1, <1>2, <1>4, <1>7, <1>13, BgKept
<1>22. ReaderInv' BY <1>2, <1>4, <1>9, <1>13, ReadersKept
<1>23. Shape'
  BY <1>1, <1>4, <1>6, <1>7, <1>8, <1>11 DEF Shape, OpeningShape, HistShape, BgShape, ReaderShape
<1> QED
  BY <1>2, <1>4, <1>11, <1>15, <1>16, <1>17, <1>19, <1>20, <1>21, <1>22, <1>23 DEF Up, UpInv
-----------------------------------------------------------------------------
(* The writer in the log *)

(* Only the front of the queue writes. *)
LEMMA OneWriter ==
  ASSUME QueueInv, NEW t \in Threads, NEW u \in Threads,
         thread[t].pc \in Writing, thread[u].pc \in Writing
  PROVE  u = t
BY DEF QueueInv

(* The writer at the front goes on: nobody enters or leaves the queue. *)
LEMMA WriterMovesFacts ==
  ASSUME ThreadShape, QueueInv, NEW t \in Threads, WriterMoves(t)
  PROVE  QueueInv' /\ AnsweredKept
<1>1. \A u \in Threads : thread'[u].id = thread[u].id /\ thread'[u].sync = thread[u].sync
                         /\ thread'[u].done = thread[u].done
  BY DEF WriterMoves
<1>2. \A i \in DOMAIN queue : queue[i] \in Threads BY DEF ThreadShape
<1>3. ASSUME NEW i \in DOMAIN queue
      PROVE  thread'[queue[i]].pc \in {"queued", "bgwait", "delayed"} \cup Writing /\ ~thread'[queue[i]].done
  <2>1. queue[i] \in Threads /\ ~thread[queue[i]].done
        /\ thread[queue[i]].pc \in {"queued", "bgwait", "delayed"} \cup Writing
    BY <1>2 DEF QueueInv
  <2>2. CASE queue[i] = t BY <2>1, <2>2 DEF Writing, WriterMoves
  <2>3. CASE queue[i] # t BY <2>1, <2>3 DEF WriterMoves
  <2> QED BY <2>2, <2>3
<1>4. ASSUME NEW u \in Threads, thread'[u].pc \in Writing
      PROVE  /\ Len(thread'[u].group) \in 1 .. Len(queue)
             /\ thread'[u].group = SubSeq(queue, 1, Len(thread'[u].group))
             /\ queue[1] = u /\ thread'[u].id # 0
             /\ \A i \in DOMAIN thread'[u].group : thread'[queue[i]].sync => thread'[u].sync
             /\ thread'[u].ok <=> thread'[u].pc \notin {"finish", "syncerror"}
  <2>1. thread[u].pc \in Writing /\ thread'[u].group = thread[u].group BY <1>4 DEF WriterMoves
  <2>2. u = t BY <2>1, OneWriter DEF WriterMoves
  <2>3. /\ Len(thread[t].group) \in 1 .. Len(queue)
        /\ thread[t].group = SubSeq(queue, 1, Len(thread[t].group))
        /\ queue[1] = t /\ thread[t].id # 0
        /\ \A i \in DOMAIN thread[t].group : thread[queue[i]].sync => thread[t].sync
    BY <2>1, <2>2 DEF QueueInv
  <2>4. \A i \in DOMAIN thread[t].group : i \in DOMAIN queue BY <2>1, <2>2, GroupFacts
  <2>5. \A i \in DOMAIN thread[t].group : thread'[queue[i]].sync => thread'[t].sync
    BY <2>3, <2>4, <1>1, <1>2
  <2> QED BY <2>1, <2>2, <2>3, <2>5, <1>1 DEF WriterMoves
<1>5. db'.manual # "none" => db'.manual \in Threads /\ thread'[db'.manual].pc = "manualwait"
  BY DEF QueueInv, WriterMoves, Writing, Logged
<1>6. \A i, j \in DOMAIN queue' : queue'[i] = queue'[j] => i = j BY DEF QueueInv, WriterMoves
<1>7. queue' = queue BY DEF WriterMoves
<1>8. AnsweredKept BY DEF AnsweredKept, Answered, WriterMoves, Logged
<1> QED BY <1>3, <1>4, <1>5, <1>6, <1>7, <1>8 DEF QueueInv

(* The entries of a group are numbered on from those of the database. *)
LEMMA GroupNumbers ==
  ASSUME DiskShape, DBShape, ThreadShape, VersionShape, SequencesUnique, NEW g \in Seq(Threads),
         \A e \in AllEntries' : e \in Entries(g) \/ (e \in AllEntries /\ e[1] <= vset.last)
  PROVE  (\E b \in Nat : \A e \in AllEntries' : e[1] <= b) /\ SequencesUnique'
<1>1. /\ Cardinality(Batches(g)) \in Nat /\ vset.last \in Nat
      /\ \A e \in Entries(g) : vset.last < e[1] /\ e[1] <= vset.last + Cardinality(Batches(g))
      /\ \A e, f \in Entries(g) : e[1] = f[1] => e = f
      /\ Entries(g) \subseteq Entry
  BY EntriesAre DEF VersionShape
<1>2. PICK b \in Nat : b = vset.last + Cardinality(Batches(g)) BY <1>1
<1>3. ASSUME NEW e \in AllEntries' PROVE e[1] <= b
  <2>1. CASE e \in Entries(g) BY <2>1, <1>1, <1>2
  <2>2. CASE e \in AllEntries /\ e[1] <= vset.last
    <3>1. \A n \in DOMAIN disk.tables : disk.tables[n].data \subseteq Entry
      BY DEF DiskShape, IsTable
    <3>2. \A n \in DOMAIN disk.logs : LogData(n) \subseteq Entry
      <4> TAKE n \in DOMAIN disk.logs
      <4>1. PICK l : l = disk.logs[n] OBVIOUS
      <4>2. IsLog(l) /\ Len(l.recs) \in 0 .. Len(l.recs) BY <4>1 DEF DiskShape, IsLog
      <4> QED BY <4>1, <4>2, ReadLogType DEF LogData
    <3>3. e \in Entry BY <3>1, <3>2, <2>2, AllIs DEF DBShape
    <3>4. e[1] \in Nat BY <3>3 DEF Entry
    <3> QED BY <3>4, <2>2, <1>1, <1>2
  <2> QED BY <2>1, <2>2
<1>4. ASSUME NEW e \in AllEntries', NEW f \in AllEntries', e[1] = f[1] PROVE e = f
  <2>1. CASE e \in Entries(g) /\ f \in Entries(g) BY <1>1, <1>4, <2>1
  <2>2. CASE e \in AllEntries /\ f \in AllEntries BY <1>4, <2>2, UniqueIs
  <2>3. \A x \in Entries(g) : ~(x[1] <= vset.last) BY <1>1 DEF Entry
  <2> QED BY <1>4, <2>1, <2>2, <2>3
<1> QED BY <1>2, <1>3, <1>4 DEF SequencesUnique, AllEntries, LogData

(* Whatever it adds to the log are entries of its group. *)
LEMMA WriterStep ==
  ASSUME Up, NEW t \in Threads, WriterMoves(t), ThreadShape', DiskShape', HistShape', BatchInv',
         vset' = vset, bg' = bg, reader' = reader, opening' = opening, phase' = phase,
         disk'.tables = disk.tables, disk'.manifests = disk.manifests, disk'.current = disk.current,
         DOMAIN disk'.logs = DOMAIN disk.logs,
         \A n \in DOMAIN disk.logs :
           /\ LogData(n) \subseteq LogData(n)' /\ SafeLogData(n) \subseteq SafeLogData(n)'
           /\ LogData(n)' \subseteq LogData(n) \cup Entries(thread[t].group),
         hist'.acked = hist.acked, hist'.synced = hist.synced, hist.lost \subseteq hist'.lost,
         hist'.opened = hist.opened, hist'.repaired = hist.repaired
  PROVE  Up'
<1>1. /\ DiskShape /\ VersionShape /\ OpeningShape /\ HistShape /\ DBShape /\ ThreadShape
      /\ BgShape /\ ReaderShape /\ Bounded /\ SequencesUnique /\ phase = "up"
  BY DEF Up, Shape
<1>2. /\ QueueInv /\ BatchInv /\ SeqInv /\ NumbersInv /\ StoreInv /\ ExactInv /\ BgInv /\ ReaderInv
  BY DEF Up, UpInv
<1>3. db' = db /\ thread[t].pc \in Writing BY DEF WriterMoves
<1>4. QueueInv' /\ AnsweredKept BY <1>1, <1>2, WriterMovesFacts
<1>5. Shape'
  <2>1. VersionShape' /\ OpeningShape' /\ DBShape' /\ BgShape' /\ ReaderShape'
    BY <1>1, <1>3 DEF VersionShape, OpeningShape, DBShape, BgShape, ReaderShape
  <2> QED BY <2>1 DEF Shape
<1>6. OwedKept BY <1>4 DEF OwedKept, Owed, OwedSynced, AnsweredKept
<1>7. TablesKept /\ Current' = Current /\ MemKept /\ LogsKept
  BY <1>2, <1>3 DEF TablesKept, Scanned, Current, MemKept, LogsKept, NumbersInv
<1>8. NumbersInv' BY <1>2, <1>3 DEF NumbersInv, InMem
<1>9. PICK g : g = thread[t].group OBVIOUS
<1>10. g \in Seq(Threads) /\ g = thread'[t].group BY <1>1, <1>9 DEF ThreadShape, WriterMoves
<1>11. Entries(g)' = Entries(g)
  <2>1. \A u \in Threads : thread'[u].id = thread[u].id BY DEF WriterMoves
  <2>2. \A i \in DOMAIN g : thread'[g[i]].id = thread[g[i]].id BY <2>1, <1>10
  <2> QED BY <2>2, EntriesKept
<1>12. ASSUME NEW n \in DOMAIN disk'.logs, NEW e \in LogData(n)'
       PROVE  e \in Entries(g) \/ (e \in LogData(n) /\ e[1] <= vset.last)
  <2>1. e \in LogData(n) \/ e \in Entries(g) BY <1>9
  <2>2. ASSUME NEW u \in Threads, thread[u].pc \in Logged, e \in Entries(thread[u].group)
        PROVE  e \in Entries(g)
    <3>1. u = t BY <2>2, <1>2, <1>3, OneWriter DEF Writing
    <3> QED BY <2>2, <3>1, <1>9
  <2> QED BY <2>1, <2>2, <1>2 DEF SeqInv
<1>13. SeqInv'
  <2>1. thread'[t].pc \in Logged BY DEF WriterMoves
  <2>2. \A n \in DOMAIN disk'.logs : \A e \in LogData(n)' :
          e[1] <= vset'.last \/ \E u \in Threads : thread'[u].pc \in Logged /\ e \in Entries(thread[u].group)'
    <3> SUFFICES ASSUME NEW n \in DOMAIN disk'.logs, NEW e \in LogData(n)'
                 PROVE  e[1] <= vset'.last \/ (thread'[t].pc \in Logged /\ e \in Entries(thread[t].group)')
      OBVIOUS
    <3> QED BY <1>9, <1>10, <1>11, <1>12, <2>1
  <2> QED BY <2>2, <1>2, <1>3 DEF SeqInv
<1>14. ASSUME NEW e \in AllEntries'
       PROVE  e \in Entries(g) \/ (e \in AllEntries /\ e[1] <= vset.last)
  <2>1. \/ \E n \in DOMAIN disk'.tables : e \in disk'.tables[n].data
        \/ \E n \in DOMAIN db'.memtables : e \in db'.memtables[n]
        \/ \E n \in DOMAIN disk'.logs : e \in LogData(n)'
    BY DEF AllEntries, Data
  <2>2. CASE \E n \in DOMAIN disk'.tables : e \in disk'.tables[n].data
    BY <2>2, <1>2, AllIs DEF SeqInv
  <2>3. CASE \E n \in DOMAIN db'.memtables : e \in db'.memtables[n]
    BY <2>3, <1>2, <1>3, AllIs DEF SeqInv
  <2>4. CASE \E n \in DOMAIN disk'.logs : e \in LogData(n)' BY <2>4, <1>12, AllIs
  <2> QED BY <2>1, <2>2, <2>3, <2>4
<1>15. (\E b \in Nat : \A e \in AllEntries' : e[1] <= b) /\ SequencesUnique'
  BY <1>1, <1>10, <1>14, GroupNumbers
<1>16. Bounded' BY <1>1, <1>15 DEF Bounded
<1>18. StoreInv' BY <1>1, <1>2, <1>6, <1>7, StoreKept DEF VersionShape
<1>19. ExactInv' /\ ReaderInv' BY <1>2, <1>3, <1>7, ExactKept, ReadersKept
<1>20. BgInv' BY <1>1, <1>2, <1>3, <1>7, MemImm, BgKept DEF VersionShape
<1> QED BY <1>1, <1>4, <1>5, <1>8, <1>13, <1>15, <1>16, <1>18, <1>19, <1>20 DEF Up, UpInv
-----------------------------------------------------------------------------
(* Add a record, sync *)

(* One log changes, the other files do not. *)
LEMMA LogChanges ==
  ASSUME DiskShape, NEW n \in DOMAIN disk.logs, NEW m, IsLog(m),
         disk' = [disk EXCEPT !.logs = [@ EXCEPT ![n] = m]]
  PROVE  /\ DiskShape' /\ disk'.tables = disk.tables /\ disk'.manifests = disk.manifests
         /\ disk'.current = disk.current /\ DOMAIN disk'.logs = DOMAIN disk.logs
         /\ \A k \in DOMAIN disk.logs \ {n} :
              LogData(k)' = LogData(k) /\ SafeLogData(k)' = SafeLogData(k)
         /\ LogData(n)' = ReadLog(m, Len(m.recs)) /\ SafeLogData(n)' = ReadLog(m, m.synced)
<1>1. PICK f : f = disk.logs OBVIOUS
<1>2. PICK h : h = [f EXCEPT ![n] = m] OBVIOUS
<1>3. /\ disk'.tables = disk.tables /\ disk'.manifests = disk.manifests
      /\ disk'.current = disk.current /\ disk'.logs = h
      /\ disk' = [logs |-> disk'.logs, tables |-> disk'.tables, manifests |-> disk'.manifests,
                  current |-> disk'.current]
  BY <1>1, <1>2 DEF DiskShape
<1>4. DOMAIN h = DOMAIN f /\ h[n] = m /\ \A k \in DOMAIN f \ {n} : h[k] = f[k] BY <1>1, <1>2
<1>5. DiskShape' BY <1>1, <1>3, <1>4 DEF DiskShape
<1>6. \A k \in DOMAIN disk.logs \ {n} : LogData(k)' = LogData(k) /\ SafeLogData(k)' = SafeLogData(k)
  BY <1>1, <1>3, <1>4 DEF LogData, SafeLogData
<1>7. LogData(n)' = ReadLog(m, Len(m.recs)) /\ SafeLogData(n)' = ReadLog(m, m.synced)
  BY <1>1, <1>3, <1>4 DEF LogData, SafeLogData
<1> QED BY <1>1, <1>3, <1>4, <1>5, <1>6, <1>7

(* What adding a record to a log does to it. *)
LEMMA RecordAdded ==
  ASSUME DiskShape, NEW n \in DOMAIN disk.logs, NEW r \in SUBSET Entry,
         disk' = [disk EXCEPT !.logs[n].recs = Append(@, r)]
  PROVE  /\ DiskShape' /\ disk'.tables = disk.tables /\ disk'.manifests = disk.manifests
         /\ disk'.current = disk.current /\ DOMAIN disk'.logs = DOMAIN disk.logs
         /\ \A k \in DOMAIN disk.logs :
              /\ LogData(k) \subseteq LogData(k)' /\ SafeLogData(k) \subseteq SafeLogData(k)'
              /\ LogData(k)' \subseteq LogData(k) \cup r
         /\ r # Torn /\ Torn \notin ToSet(disk.logs[n].recs) => r \subseteq LogData(n)'
<1>1. PICK l : l = disk.logs[n] OBVIOUS
<1>2. IsLog(l) /\ l = [recs |-> l.recs, synced |-> l.synced] BY <1>1 DEF DiskShape, IsLog
<1>3. PICK m : m = [l EXCEPT !.recs = Append(@, r)] OBVIOUS
<1>4. m.recs = Append(l.recs, r) /\ m.synced = l.synced /\ m = [recs |-> m.recs, synced |-> m.synced]
  BY <1>2, <1>3
<1>5. /\ IsLog(m)
      /\ ReadLog(l, Len(l.recs)) \subseteq ReadLog(m, Len(m.recs))
      /\ ReadLog(m, Len(m.recs)) \subseteq ReadLog(l, Len(l.recs)) \cup r
      /\ ReadLog(m, m.synced) = ReadLog(l, l.synced)
      /\ r # Torn /\ Torn \notin ToSet(l.recs) => r \subseteq ReadLog(m, Len(m.recs))
  BY <1>2, <1>4, ReadLogAppend
<1>6. disk' = [disk EXCEPT !.logs = [@ EXCEPT ![n] = m]] BY <1>1, <1>3
<1>7. /\ DiskShape' /\ disk'.tables = disk.tables /\ disk'.manifests = disk.manifests
      /\ disk'.current = disk.current /\ DOMAIN disk'.logs = DOMAIN disk.logs
      /\ \A k \in DOMAIN disk.logs \ {n} :
           LogData(k)' = LogData(k) /\ SafeLogData(k)' = SafeLogData(k)
      /\ LogData(n)' = ReadLog(m, Len(m.recs)) /\ SafeLogData(n)' = ReadLog(m, m.synced)
  BY <1>5, <1>6, LogChanges
<1>8. LogData(n) = ReadLog(l, Len(l.recs)) /\ SafeLogData(n) = ReadLog(l, l.synced)
  BY <1>1 DEF LogData, SafeLogData
<1>9. ASSUME NEW k \in DOMAIN disk.logs
      PROVE  /\ LogData(k) \subseteq LogData(k)' /\ SafeLogData(k) \subseteq SafeLogData(k)'
             /\ LogData(k)' \subseteq LogData(k) \cup r
  <2>1. CASE k = n BY <2>1, <1>5, <1>7, <1>8
  <2>2. CASE k # n BY <2>2, <1>7
  <2> QED BY <2>1, <2>2
<1> QED BY <1>1, <1>5, <1>7, <1>9

(* After a sync of a log, all that is read of it is safe. *)
LEMMA LogSynced ==
  ASSUME DiskShape, NEW n \in DOMAIN disk.logs,
         disk' = [disk EXCEPT !.logs[n].synced = Len(disk.logs[n].recs)]
  PROVE  /\ DiskShape' /\ disk'.tables = disk.tables /\ disk'.manifests = disk.manifests
         /\ disk'.current = disk.current /\ DOMAIN disk'.logs = DOMAIN disk.logs
         /\ \A k \in DOMAIN disk.logs :
              LogData(k)' = LogData(k) /\ SafeLogData(k) \subseteq SafeLogData(k)'
         /\ SafeLogData(n)' = LogData(n)
<1>1. PICK l : l = disk.logs[n] OBVIOUS
<1>2. /\ IsLog(l) /\ l = [recs |-> l.recs, synced |-> l.synced]
      /\ l.recs \in Seq(SUBSET Entry) /\ l.synced \in 0 .. Len(l.recs)
  BY <1>1 DEF DiskShape, IsLog
<1>3. PICK m : m = [l EXCEPT !.synced = Len(l.recs)] OBVIOUS
<1>4. m.recs = l.recs /\ m.synced = Len(l.recs) /\ m = [recs |-> m.recs, synced |-> m.synced]
  BY <1>2, <1>3
<1>5. IsLog(m) /\ l.synced \in Nat /\ Len(l.recs) \in Nat /\ l.synced <= Len(l.recs)
  BY <1>2, <1>4 DEF IsLog
<1>6. disk' = [disk EXCEPT !.logs = [@ EXCEPT ![n] = m]] BY <1>1, <1>3
<1>7. /\ DiskShape' /\ disk'.tables = disk.tables /\ disk'.manifests = disk.manifests
      /\ disk'.current = disk.current /\ DOMAIN disk'.logs = DOMAIN disk.logs
      /\ \A k \in DOMAIN disk.logs \ {n} :
           LogData(k)' = LogData(k) /\ SafeLogData(k)' = SafeLogData(k)
      /\ LogData(n)' = ReadLog(m, Len(m.recs)) /\ SafeLogData(n)' = ReadLog(m, m.synced)
  BY <1>5, <1>6, LogChanges
<1>8. LogData(n) = ReadLog(l, Len(l.recs)) /\ SafeLogData(n) = ReadLog(l, l.synced)
  BY <1>1 DEF LogData, SafeLogData
<1>9. /\ ReadLog(m, Len(m.recs)) = ReadLog(l, Len(l.recs))
      /\ ReadLog(m, m.synced) = ReadLog(l, Len(l.recs))
  BY <1>4 DEF ReadLog
<1>10. ReadLog(l, l.synced) \subseteq ReadLog(l, Len(l.recs)) BY <1>5, ReadLogGrows
<1> QED BY <1>7, <1>8, <1>9, <1>10

(* The writer takes its next step, with all it has in its group. *)
LEMMA WriterGoes ==
  ASSUME ThreadShape, QueueInv, NEW t \in Threads, thread[t].pc \in Writing, NEW p \in Logged,
         NEW ok \in BOOLEAN, ok <=> p \notin {"finish", "syncerror"},
         thread' = [thread EXCEPT ![t].pc = p, ![t].ok = ok],
         queue' = queue, awake' = awake, db' = db
  PROVE  WriterMoves(t) /\ ThreadShape' /\ thread'[t].pc = p
<1>1. thread[t] \in ThreadType /\ DOMAIN thread = Threads /\ p \in Pcs
      /\ thread \in [Threads -> ThreadType]
  BY DEF ThreadShape, ThreadType, Pcs, Logged
<1>2. PICK w : w = [thread[t] EXCEPT !.pc = p, !.ok = ok] OBVIOUS
<1>3. /\ w \in ThreadType /\ w.pc = p /\ w.ok = ok /\ w.id = thread[t].id /\ w.sync = thread[t].sync
      /\ w.group = thread[t].group /\ w.done = thread[t].done
  BY <1>1, <1>2 DEF ThreadType
<1>4. thread' = [thread EXCEPT ![t] = w] BY <1>1, <1>2
<1>5. thread'[t] = w /\ \A u \in Threads \ {t} : thread'[u] = thread[u] BY <1>1, <1>4
<1>6. WriterMoves(t) BY <1>3, <1>5 DEF WriterMoves
<1>7. thread' \in [Threads -> ThreadType] BY <1>1, <1>3, <1>4
<1> QED BY <1>3, <1>5, <1>6, <1>7 DEF ThreadShape, ThreadType

(* The record is read back unless a torn one stands before it, and then *)
(* its writes are counted as behind it; a failed append adds nothing that *)
(* was promised. *)
LEMMA AddRecordStep ==
  ASSUME Up, NEW t \in Threads, AddRecord(t)
  PROVE  Up'
<1>1. /\ DiskShape /\ ThreadShape /\ HistShape /\ QueueInv /\ VersionShape /\ NumbersInv
  BY DEF Up, UpInv, Shape
<1>2. PICK g : g = thread[t].group OBVIOUS
<1>3. PICK rec : rec = Entries(g) OBVIOUS
<1>4. /\ thread[t].pc = "log" /\ thread[t].pc \in Writing /\ thread[t].id # 0
      /\ thread[t].ok = TRUE /\ g \in Seq(Threads)
      /\ vset' = vset /\ bg' = bg /\ reader' = reader /\ opening' = opening /\ phase' = phase
      /\ queue' = queue /\ awake' = awake /\ db' = db
  <2>1. thread[t].pc = "log" /\ thread[t].pc \in Writing BY DEF AddRecord, Writing
  <2>2. thread[t].ok \in BOOLEAN /\ g \in Seq(Threads) BY <1>1, <1>2 DEF ThreadShape
  <2>3. thread[t].ok /\ thread[t].id # 0 BY <2>1, <1>1 DEF QueueInv
  <2> QED BY <2>1, <2>2, <2>3 DEF AddRecord
<1>5. rec \subseteq Entry /\ \A i \in DOMAIN g : thread[g[i]].id # 0 => thread[g[i]].id \in Writes(rec)
  BY <1>1, <1>3, <1>4, EntriesAre
<1>6. rec # Torn
  <2>1. 1 \in DOMAIN g /\ g[1] = t
    <3>1. Len(g) \in 1 .. Len(queue) /\ queue[1] = t BY <1>1, <1>2, <1>4 DEF QueueInv
    <3>2. Len(g) \in Nat \ {0} /\ DOMAIN g = 1 .. Len(g) BY <3>1, <1>4
    <3>3. 1 \in DOMAIN g BY <3>2
    <3> QED BY <3>1, <3>3, <1>1, <1>2, <1>4, GroupFacts
  <2>2. thread[t].id \in Writes(rec) BY <2>1, <1>4, <1>5
  <2> QED BY <2>2 DEF Writes, Torn
<1>7. db.log \in DOMAIN disk.logs BY <1>1 DEF NumbersInv, InMem
<1>8. Torn \subseteq Entry /\ Torn \subseteq rec BY DEF Torn
<1>9. CASE /\ disk' = [disk EXCEPT !.logs[db.log].recs = Append(@, rec)]
           /\ thread' = [thread EXCEPT ![t].pc = IF thread[t].sync THEN "sync" ELSE "insert"]
           /\ hist' = IF Torn \in ToSet(disk.logs[db.log].recs)
                      THEN [hist EXCEPT !.lost = @ \cup Writes(rec)] ELSE hist
  <2>1. PICK p : p = IF thread[t].sync THEN "sync" ELSE "insert" OBVIOUS
  <2>2. PICK ok \in BOOLEAN : ok = TRUE OBVIOUS
  <2>3. p \in Logged /\ p \notin {"finish", "syncerror"} BY <2>1 DEF Logged
  <2>4. thread' = [thread EXCEPT ![t].pc = p, ![t].ok = ok]
    <3>1. thread' = [thread EXCEPT ![t].pc = p] BY <1>9, <2>1
    <3>2. thread[t] \in ThreadType /\ DOMAIN thread = Threads
      BY <1>1 DEF ThreadShape, ThreadType
    <3>3. [thread[t] EXCEPT !.pc = p] = [thread[t] EXCEPT !.pc = p, !.ok = ok]
      BY <3>2, <2>2, <1>4 DEF ThreadType
    <3> QED BY <3>1, <3>2, <3>3
  <2>5. WriterMoves(t) /\ ThreadShape' /\ thread'[t].pc = p
    BY <1>1, <1>4, <2>2, <2>3, <2>4, WriterGoes
  <2>6. PICK n : n = db.log OBVIOUS
  <2>7. /\ DiskShape' /\ disk'.tables = disk.tables /\ disk'.manifests = disk.manifests
        /\ disk'.current = disk.current /\ DOMAIN disk'.logs = DOMAIN disk.logs
        /\ \A k \in DOMAIN disk.logs :
             /\ LogData(k) \subseteq LogData(k)' /\ SafeLogData(k) \subseteq SafeLogData(k)'
             /\ LogData(k)' \subseteq LogData(k) \cup rec
        /\ rec # Torn /\ Torn \notin ToSet(disk.logs[n].recs) => rec \subseteq LogData(n)'
    BY <1>1, <1>5, <1>7, <1>9, <2>6, RecordAdded
  <2>8. /\ HistShape' /\ hist'.acked = hist.acked /\ hist'.synced = hist.synced
        /\ hist.lost \subseteq hist'.lost
        /\ hist'.opened = hist.opened /\ hist'.repaired = hist.repaired
        /\ Torn \in ToSet(disk.logs[n].recs) => Writes(rec) \subseteq hist'.lost
    <3>1. CASE Torn \in ToSet(disk.logs[db.log].recs)
      <4>1. hist' = [hist EXCEPT !.lost = @ \cup Writes(rec)] BY <3>1, <1>9
      <4> QED BY <4>1, <1>1 DEF HistShape
    <3>2. CASE Torn \notin ToSet(disk.logs[db.log].recs) BY <3>2, <1>1, <1>9, <2>6 DEF HistShape
    <3> QED BY <3>1, <3>2
  <2>9. BatchInv'
    <3> SUFFICES ASSUME NEW u \in Threads, thread'[u].pc \in {"sync", "insert"}
                 PROVE  /\ Writes(Entries(thread[u].group)') \subseteq Writes(LogData(db.log)') \cup hist'.lost
                        /\ ~(thread'[u].pc = "insert" /\ thread'[u].sync)
      BY DEF BatchInv
    <3>1. u = t
      <4>1. QueueInv' /\ thread'[u].pc \in Writing /\ thread'[t].pc \in Writing
        BY <2>3, <2>5, <1>1, WriterMovesFacts DEF Writing, Logged
      <4> QED BY <4>1 DEF QueueInv
    <3>2. ~(thread'[t].pc = "insert" /\ thread'[t].sync) BY <2>1, <2>5 DEF WriterMoves
    <3>3. thread'[t].group = g /\ Entries(g)' = rec
      <4>1. \A v \in Threads : thread'[v].id = thread[v].id BY <2>5 DEF WriterMoves
      <4>2. \A i \in DOMAIN g : thread'[g[i]].id = thread[g[i]].id BY <4>1, <1>4
      <4> QED BY <4>2, <1>2, <1>3, <1>4, <2>5, EntriesKept DEF WriterMoves
    <3>4. Writes(rec) \subseteq Writes(LogData(n)') \cup hist'.lost
      <4>1. CASE Torn \in ToSet(disk.logs[n].recs) BY <4>1, <2>8
      <4>2. CASE Torn \notin ToSet(disk.logs[n].recs) BY <4>2, <2>7, <1>6, WritesGrow
      <4> QED BY <4>1, <4>2
    <3> QED BY <3>1, <3>2, <3>3, <3>4, <1>4, <2>6
  <2> QED BY <1>2, <1>3, <1>4, <2>5, <2>7, <2>8, <2>9, WriterStep
<1>10. CASE /\ Fault
            /\ \/ disk' = [disk EXCEPT !.logs[db.log].recs = Append(@, rec)]
               \/ disk' = [disk EXCEPT !.logs[db.log].recs = Append(@, Torn)]
               \/ UNCHANGED disk
            /\ thread' = [thread EXCEPT ![t].pc = "finish", ![t].ok = FALSE]
  <2>1. PICK ok \in BOOLEAN, p \in {"finish"} : p = "finish" /\ ok = FALSE OBVIOUS
  <2>2. p \in Logged /\ p \in {"finish", "syncerror"} /\ thread' = [thread EXCEPT ![t].pc = p, ![t].ok = ok]
    BY <1>10, <2>1 DEF Logged
  <2>3. WriterMoves(t) /\ ThreadShape' /\ thread'[t].pc = p
    BY <1>1, <1>4, <2>1, <2>2, WriterGoes
  <2>4. /\ DiskShape' /\ disk'.tables = disk.tables /\ disk'.manifests = disk.manifests
        /\ disk'.current = disk.current /\ DOMAIN disk'.logs = DOMAIN disk.logs
        /\ \A k \in DOMAIN disk.logs :
             /\ LogData(k) \subseteq LogData(k)' /\ SafeLogData(k) \subseteq SafeLogData(k)'
             /\ LogData(k)' \subseteq LogData(k) \cup rec
    <3>1. CASE UNCHANGED disk BY <3>1, <1>1 DEF DiskShape, LogData, SafeLogData
    <3>2. CASE ~UNCHANGED disk
      <4>1. PICK n, r : /\ n = db.log /\ r \in {rec, Torn}
                        /\ disk' = [disk EXCEPT !.logs[n].recs = Append(@, r)]
        BY <1>10, <3>2
      <4>2. r \subseteq Entry /\ r \subseteq rec /\ n \in DOMAIN disk.logs
        BY <4>1, <1>5, <1>7, <1>8
      <4>3. /\ DiskShape' /\ disk'.tables = disk.tables /\ disk'.manifests = disk.manifests
            /\ disk'.current = disk.current /\ DOMAIN disk'.logs = DOMAIN disk.logs
            /\ \A k \in DOMAIN disk.logs :
                 /\ LogData(k) \subseteq LogData(k)' /\ SafeLogData(k) \subseteq SafeLogData(k)'
                 /\ LogData(k)' \subseteq LogData(k) \cup r
        BY <4>1, <4>2, <1>1, RecordAdded
      <4> QED BY <4>2, <4>3
    <3> QED BY <3>1, <3>2
  <2>5. /\ HistShape' /\ TruthKept /\ hist'.opened = hist.opened /\ hist'.repaired = hist.repaired
    BY <1>1, <1>10, FaultFacts
  <2>6. BatchInv'
    <3> SUFFICES ASSUME NEW u \in Threads, thread'[u].pc \in {"sync", "insert"} PROVE FALSE
      BY DEF BatchInv
    <3>1. thread'[u].pc \in Writing /\ thread'[t].pc \in Writing /\ QueueInv'
      BY <2>2, <2>3, <1>1, WriterMovesFacts DEF Writing, Logged
    <3>2. u = t BY <3>1 DEF QueueInv
    <3> QED BY <3>2, <2>1, <2>3
  <2> QED BY <1>2, <1>3, <1>4, <2>3, <2>4, <2>5, <2>6, WriterStep DEF TruthKept
<1> QED BY <1>2, <1>3, <1>9, <1>10 DEF AddRecord

(* The sync makes the records of the group safe, a failed one promises *)
(* nothing. *)
LEMMA SyncLogStep ==
  ASSUME Up, NEW t \in Threads, SyncLog(t)
  PROVE  Up'
<1>1. /\ DiskShape /\ ThreadShape /\ HistShape /\ QueueInv /\ VersionShape /\ NumbersInv /\ BatchInv
  BY DEF Up, UpInv, Shape
<1>2. PICK g, n : g = thread[t].group /\ n = db.log OBVIOUS
<1>4. /\ thread[t].pc = "sync" /\ thread[t].pc \in Writing
      /\ thread[t].ok = TRUE /\ g \in Seq(Threads) /\ n \in DOMAIN disk.logs
      /\ vset' = vset /\ bg' = bg /\ reader' = reader /\ opening' = opening /\ phase' = phase
      /\ queue' = queue /\ awake' = awake /\ db' = db
  <2>1. thread[t].pc = "sync" /\ thread[t].pc \in Writing BY DEF SyncLog, Writing, Logged
  <2>2. thread[t].ok \in BOOLEAN /\ g \in Seq(Threads) BY <1>1, <1>2 DEF ThreadShape
  <2>3. thread[t].ok BY <2>1, <1>1 DEF QueueInv
  <2>4. n \in DOMAIN disk.logs BY <1>1, <1>2 DEF NumbersInv, InMem
  <2> QED BY <2>1, <2>2, <2>3, <2>4 DEF SyncLog
<1>9. CASE /\ disk' = [disk EXCEPT !.logs[db.log].synced = Len(disk.logs[db.log].recs)]
           /\ thread' = [thread EXCEPT ![t].pc = "insert"]
           /\ UNCHANGED hist
  <2>1. PICK ok \in BOOLEAN, p \in {"insert"} : p = "insert" /\ ok = TRUE OBVIOUS
  <2>3. p \in Logged /\ p \notin {"finish", "syncerror"} BY <2>1 DEF Logged
  <2>4. thread' = [thread EXCEPT ![t].pc = p, ![t].ok = ok]
    <3>1. thread' = [thread EXCEPT ![t].pc = p] BY <1>9, <2>1
    <3>2. thread[t] \in ThreadType /\ DOMAIN thread = Threads
      BY <1>1 DEF ThreadShape, ThreadType
    <3>3. [thread[t] EXCEPT !.pc = p] = [thread[t] EXCEPT !.pc = p, !.ok = ok]
      BY <3>2, <2>1, <1>4 DEF ThreadType
    <3> QED BY <3>1, <3>2, <3>3
  <2>5. WriterMoves(t) /\ ThreadShape' /\ thread'[t].pc = p
    BY <1>1, <1>4, <2>1, <2>3, <2>4, WriterGoes
  <2>7. /\ DiskShape' /\ disk'.tables = disk.tables /\ disk'.manifests = disk.manifests
        /\ disk'.current = disk.current /\ DOMAIN disk'.logs = DOMAIN disk.logs
        /\ \A k \in DOMAIN disk.logs :
             LogData(k)' = LogData(k) /\ SafeLogData(k) \subseteq SafeLogData(k)'
        /\ SafeLogData(n)' = LogData(n)
    BY <1>1, <1>2, <1>4, <1>9, LogSynced
  <2>8. HistShape' BY <1>1, <1>9 DEF HistShape
  <2>9. BatchInv'
    <3> SUFFICES ASSUME NEW u \in Threads, thread'[u].pc \in {"sync", "insert"}
                 PROVE  /\ Writes(Entries(thread[u].group)') \subseteq Writes(LogData(db.log)') \cup hist'.lost
                        /\ Writes(Entries(thread[u].group)') \subseteq Writes(SafeLogData(db.log)') \cup hist'.lost
      BY DEF BatchInv
    <3>1. u = t
      <4>1. QueueInv' /\ thread'[u].pc \in Writing /\ thread'[t].pc \in Writing
        BY <2>3, <2>5, <1>1, WriterMovesFacts DEF Writing, Logged
      <4> QED BY <4>1 DEF QueueInv
    <3>3. thread'[t].group = g /\ Entries(g)' = Entries(g)
      <4>1. \A v \in Threads : thread'[v].id = thread[v].id BY <2>5 DEF WriterMoves
      <4>2. \A i \in DOMAIN g : thread'[g[i]].id = thread[g[i]].id BY <4>1, <1>4
      <4> QED BY <4>2, <1>2, <1>4, <2>5, EntriesKept DEF WriterMoves
    <3>4. Writes(Entries(g)) \subseteq Writes(LogData(n)) \cup hist.lost
      BY <1>1, <1>2, <1>4 DEF BatchInv
    <3> QED BY <3>1, <3>3, <3>4, <1>2, <1>4, <1>9, <2>7
  <2> QED BY <1>4, <1>9, <2>5, <2>7, <2>8, <2>9, WriterStep
<1>10. CASE /\ Fault
            /\ thread' = [thread EXCEPT ![t].pc = "syncerror", ![t].ok = FALSE]
            /\ UNCHANGED disk
  <2>1. PICK ok \in BOOLEAN, p \in {"syncerror"} : p = "syncerror" /\ ok = FALSE OBVIOUS
  <2>2. p \in Logged /\ p \in {"finish", "syncerror"} /\ thread' = [thread EXCEPT ![t].pc = p, ![t].ok = ok]
    BY <1>10, <2>1 DEF Logged
  <2>3. WriterMoves(t) /\ ThreadShape' /\ thread'[t].pc = p
    BY <1>1, <1>4, <2>1, <2>2, WriterGoes
  <2>4. DiskShape' /\ \A k \in DOMAIN disk.logs :
                        LogData(k)' = LogData(k) /\ SafeLogData(k)' = SafeLogData(k)
    BY <1>1, <1>10 DEF DiskShape, LogData, SafeLogData
  <2>5. /\ HistShape' /\ TruthKept /\ hist'.opened = hist.opened /\ hist'.repaired = hist.repaired
    BY <1>1, <1>10, FaultFacts
  <2>6. BatchInv'
    <3> SUFFICES ASSUME NEW u \in Threads, thread'[u].pc \in {"sync", "insert"} PROVE FALSE
      BY DEF BatchInv
    <3>1. thread'[u].pc \in Writing /\ thread'[t].pc \in Writing /\ QueueInv'
      BY <2>2, <2>3, <1>1, WriterMovesFacts DEF Writing, Logged
    <3>2. u = t BY <3>1 DEF QueueInv
    <3> QED BY <3>2, <2>1, <2>3
  <2> QED BY <1>4, <1>10, <2>3, <2>4, <2>5, <2>6, WriterStep DEF TruthKept
<1> QED BY <1>9, <1>10 DEF SyncLog
-----------------------------------------------------------------------------
(* The end of a write *)

(* What the group is told, and that it was promised no more than this. *)
LEMMA GroupTold ==
  ASSUME ThreadShape, QueueInv, HistShape, VersionShape, NEW t \in Threads, thread[t].pc \in Writing,
         NEW g, g = thread[t].group, NEW ok \in BOOLEAN, Left(t, g, ok),
         hist' = Told(hist, thread[t], ok)
  PROVE  /\ HistShape' /\ hist'.lost = hist.lost /\ hist'.opened = hist.opened
         /\ hist'.repaired = hist.repaired
         /\ \A w \in Owed' : w \in Owed \/ (ok /\ w \in Writes(Entries(g)) \ hist.lost)
         /\ \A w \in OwedSynced' :
              w \in OwedSynced \/ (ok /\ thread[t].sync /\ w \in Writes(Entries(g)) \ hist.lost)
<1>1. PICK v : v = thread[t] OBVIOUS
<1>2. v \in ThreadType /\ hist' = Told(hist, v, ok) BY <1>1 DEF ThreadShape, ThreadType
<1>3. /\ HistShape' /\ hist'.lost = hist.lost /\ hist'.opened = hist.opened
      /\ hist'.repaired = hist.repaired
      /\ hist'.acked = hist.acked \cup (IF ok /\ v.id # 0 THEN {v.id} ELSE {})
      /\ hist'.synced = hist.synced \cup (IF ok /\ v.id # 0 /\ v.sync THEN {v.id} ELSE {})
  BY <1>2, ToldFacts
<1>4. /\ g \in Seq(Threads) /\ Len(g) \in Nat /\ DOMAIN g = 1 .. Len(g) /\ queue[1] = t
      /\ Len(g) \in 1 .. Len(queue) /\ \A i \in DOMAIN g : thread[queue[i]].sync => thread[t].sync
      /\ v.id # 0
  BY <1>1 DEF ThreadShape, QueueInv
<1>5. \A i \in DOMAIN g : thread[g[i]].id # 0 => thread[g[i]].id \in Writes(Entries(g))
  BY <1>4, EntriesAre
<1>6. \A i \in DOMAIN g : g[i] = queue[i] /\ g[i] \in Threads BY GroupFacts
<1>7. v.id \in Writes(Entries(g))
  <2>1. 1 \in DOMAIN g /\ g[1] = t BY <1>4, <1>6
  <2> QED BY <2>1, <1>1, <1>4, <1>5
<1>8. ASSUME NEW u \in Answered'
      PROVE  \/ u \in Answered /\ thread'[u] = thread[u]
             \/ /\ ok /\ thread'[u].id \in Writes(Entries(g))
                /\ thread'[u].sync => thread[t].sync
  <2>1. /\ u \in Threads /\ thread'[u].pc = "queued" /\ thread'[u].done /\ thread'[u].ok
        /\ thread'[u].id # 0
    BY DEF Answered
  <2>2. u # t BY <2>1, ReturnedIs DEF Left
  <2>3. CASE u \in ToSet(g)
    <3>1. /\ thread'[u].id = thread[u].id /\ thread'[u].ok = ok /\ thread'[u].sync = thread[u].sync
      BY <2>2, <2>3 DEF Left
    <3>2. PICK i \in DOMAIN g : u = g[i] BY <2>3 DEF ToSet
    <3>3. thread[u].sync => thread[t].sync BY <3>2, <1>4, <1>6
    <3> QED BY <2>1, <3>1, <3>2, <3>3, <1>5
  <2>4. CASE u \notin ToSet(g)
    <3>1. thread'[u] = thread[u] BY <2>1, <2>4 DEF Left
    <3> QED BY <2>1, <3>1 DEF Answered
  <2> QED BY <2>3, <2>4
<1>9. ASSUME NEW w \in Owed'
      PROVE  w \in Owed \/ (ok /\ w \in Writes(Entries(g)) \ hist.lost)
  <2>1. w \notin hist.lost /\ (w \in hist'.acked \/ \E u \in Answered' : w = thread'[u].id)
    BY <1>3 DEF Owed
  <2>2. CASE w \in hist'.acked
    <3>1. w \in hist.acked \/ (ok /\ w = v.id) BY <2>2, <1>3
    <3> QED BY <3>1, <2>1, <1>7 DEF Owed
  <2>3. CASE \E u \in Answered' : w = thread'[u].id BY <2>1, <2>3, <1>8 DEF Owed
  <2> QED BY <2>1, <2>2, <2>3
<1>10. ASSUME NEW w \in OwedSynced'
       PROVE  w \in OwedSynced \/ (ok /\ thread[t].sync /\ w \in Writes(Entries(g)) \ hist.lost)
  <2>1. w \notin hist.lost
        /\ (w \in hist'.synced \/ \E u \in Answered' : w = thread'[u].id /\ thread'[u].sync)
    BY <1>3 DEF OwedSynced
  <2>2. CASE w \in hist'.synced
    <3>1. w \in hist.synced \/ (ok /\ v.sync /\ w = v.id) BY <2>2, <1>3
    <3> QED BY <3>1, <2>1, <1>1, <1>7 DEF OwedSynced
  <2>3. CASE \E u \in Answered' : w = thread'[u].id /\ thread'[u].sync
    BY <2>1, <2>3, <1>8 DEF OwedSynced
  <2> QED BY <2>1, <2>2, <2>3
<1> QED BY <1>3, <1>9, <1>10

(* The group is inserted into one memtable. *)
LEMMA InsertedIs ==
  ASSUME DBShape, NEW n \in DOMAIN db.memtables, NEW S \in SUBSET Entry, NEW b \in BOOLEAN,
         db' = [db EXCEPT !.error = b, !.memtables[n] = @ \cup S]
  PROVE  /\ DBShape' /\ db'.log = db.log /\ db'.imm = db.imm /\ db'.pending = db.pending
         /\ db'.error = b /\ db'.manual = db.manual
         /\ DOMAIN db'.memtables = DOMAIN db.memtables
         /\ db'.memtables[n] = db.memtables[n] \cup S
         /\ \A k \in DOMAIN db.memtables \ {n} : db'.memtables[k] = db.memtables[k]
<1>1. PICK f : f = db.memtables OBVIOUS
<1>2. PICK h : h = [f EXCEPT ![n] = @ \cup S] OBVIOUS
<1>3. DOMAIN h = DOMAIN f /\ h[n] = f[n] \cup S /\ \A k \in DOMAIN f \ {n} : h[k] = f[k]
  BY <1>1, <1>2
<1>4. db' = [db EXCEPT !.error = b, !.memtables = h] BY <1>1, <1>2
<1>5. /\ db'.log = db.log /\ db'.imm = db.imm /\ db'.pending = db.pending /\ db'.memtables = h
      /\ db'.error = b /\ db'.manual = db.manual /\ db'.scheduled = db.scheduled
      /\ db'.closing = db.closing
  BY <1>4 DEF DBShape
<1>6. db' = [log |-> db'.log, imm |-> db'.imm, memtables |-> db'.memtables, pending |-> db'.pending,
             error |-> db'.error, scheduled |-> db'.scheduled, closing |-> db'.closing,
             manual |-> db'.manual]
  BY <1>4 DEF DBShape
<1>7. \A k \in DOMAIN h : h[k] \subseteq Entry BY <1>1, <1>3 DEF DBShape
<1>8. DOMAIN h \subseteq Nat BY <1>1, <1>3 DEF DBShape
<1>9. {db.error, db.scheduled, db.closing} \subseteq BOOLEAN /\ {db.log, db.imm} \subseteq Nat
      /\ db.pending \subseteq Nat
  BY DEF DBShape
<1>10. DBShape' BY <1>5, <1>6, <1>7, <1>8, <1>9 DEF DBShape
<1> QED BY <1>1, <1>3, <1>5, <1>10

(* The group gets into the memtable before its members are told, so what *)
(* becomes owed is in a memtable, in its log and, if synced, in the synced *)
(* part; the sequence number passes all its entries, inserted or not. *)
LEMMA FinishWriteStep ==
  ASSUME Up, NEW t \in Threads, FinishWrite(t)
  PROVE  Up'
<1>1. /\ DiskShape /\ VersionShape /\ OpeningShape /\ HistShape /\ DBShape /\ ThreadShape
      /\ BgShape /\ ReaderShape /\ Bounded /\ SequencesUnique /\ phase = "up"
  BY DEF Up, Shape
<1>2. /\ QueueInv /\ BatchInv /\ SeqInv /\ NumbersInv /\ StoreInv /\ ExactInv /\ BgInv /\ ReaderInv
  BY DEF Up, UpInv
<1>3. PICK g, ok, S, n, last :
        /\ g = thread[t].group /\ ok = thread[t].ok /\ n = db.log
        /\ S = IF thread[t].pc = "insert" THEN Entries(thread[t].group) ELSE {}
        /\ last = vset.last + Cardinality(Batches(thread[t].group))
  OBVIOUS
<1>4. PICK broken : broken = (thread[t].pc = "syncerror" /\ ~db.error) OBVIOUS
<1>5. /\ thread[t].pc \in {"insert", "finish", "syncerror"} /\ thread[t].pc \in Writing
      /\ disk' = disk /\ phase' = phase /\ opening' = opening /\ bg' = bg /\ reader' = reader
      /\ vset' = [vset EXCEPT !.last = last]
      /\ hist' = Told(hist, thread[t], ok)
  BY <1>3 DEF FinishWrite, Advanced, Writing, Logged
<1>6. Leave(t, g, ok, IF broken THEN Waiting ELSE {}) BY <1>3, <1>4 DEF FinishWrite
<1>7. /\ g \in Seq(Threads) /\ ok \in BOOLEAN /\ Len(g) \in 1 .. Len(queue)
      /\ g = SubSeq(queue, 1, Len(g)) /\ queue[1] = t /\ (ok <=> thread[t].pc = "insert")
      /\ db.error \in BOOLEAN
  <2>1. g \in Seq(Threads) /\ ok \in BOOLEAN /\ db.error \in BOOLEAN
    BY <1>1, <1>3 DEF ThreadShape, DBShape
  <2>2. /\ Len(g) \in 1 .. Len(queue) /\ g = SubSeq(queue, 1, Len(g)) /\ queue[1] = t
        /\ (ok <=> thread[t].pc \notin {"finish", "syncerror"})
    BY <1>2, <1>3, <1>5 DEF QueueInv
  <2> QED BY <2>1, <2>2, <1>5
<1>8. /\ Entries(g) \subseteq Entry /\ Cardinality(Batches(g)) \in Nat
      /\ \A e \in Entries(g) : vset.last < e[1] /\ e[1] <= last
  BY <1>1, <1>3, <1>7, EntriesAre
<1>9. n \in DOMAIN db.memtables /\ n \in DOMAIN disk.logs /\ n \in InMem /\ db.imm # n
  <2>1. 0 < db.log /\ db.imm < db.log /\ db.log \in Nat /\ db.imm \in Nat
    BY <1>1, <1>2 DEF NumbersInv, DBShape
  <2>2. db.log \in InMem BY <2>1 DEF InMem
  <2> QED BY <2>1, <2>2, <1>2, <1>3 DEF NumbersInv
<1>10. PICK b \in BOOLEAN : b = (db.error \/ broken) BY <1>4, <1>7
<1>11. S \subseteq Entry /\ S \subseteq Entries(g) /\ (ok => S = Entries(g)) BY <1>3, <1>7, <1>8
<1>12. db' = [db EXCEPT !.error = b, !.memtables[n] = @ \cup S]
  <2>1. CASE thread[t].pc = "insert" BY <2>1, <1>3, <1>4, <1>10 DEF FinishWrite
  <2>2. CASE thread[t].pc # "insert"
    <3>1. db' = [db EXCEPT !.error = b, !.memtables[n] = @]
      BY <2>2, <1>3, <1>4, <1>10 DEF FinishWrite
    <3>2. S = {} BY <2>2, <1>3
    <3> QED BY <3>1, <3>2
  <2> QED BY <2>1, <2>2
<1>13. /\ DBShape' /\ db'.log = db.log /\ db'.imm = db.imm /\ db'.pending = db.pending
       /\ db'.error = b /\ db'.manual = db.manual
       /\ DOMAIN db'.memtables = DOMAIN db.memtables
       /\ db'.memtables[n] = db.memtables[n] \cup S
       /\ \A k \in DOMAIN db.memtables \ {n} : db'.memtables[k] = db.memtables[k]
  BY <1>1, <1>9, <1>11, <1>12, InsertedIs
<1>14. /\ vset'.last = last /\ vset'.next = vset.next /\ vset'.manifest = vset.manifest
       /\ vset'.log = vset.log /\ vset'.files = vset.files /\ VersionShape'
       /\ vset.last \in Nat /\ last \in Nat /\ vset.last <= last
  BY <1>1, <1>3, <1>5, <1>8 DEF VersionShape
<1>15. Left(t, g, ok)
  <2>1. \A u \in Threads \ {t} : thread[u].pc \notin Writing BY <1>2, <1>5, OneWriter
  <2>2. (IF broken THEN Waiting ELSE {}) \subseteq Threads BY DEF Waiting
  <2> QED BY <2>1, <2>2, <1>1, <1>2, <1>6, <1>7, <1>13, LeaveFacts
<1>16. ThreadShape' /\ QueueInv' /\ \A u \in Threads : thread'[u].pc \notin Writing
  BY <1>15 DEF Left
<1>17. /\ HistShape' /\ hist'.lost = hist.lost /\ hist'.opened = hist.opened
       /\ hist'.repaired = hist.repaired
       /\ \A w \in Owed' : w \in Owed \/ (ok /\ w \in Writes(Entries(g)) \ hist.lost)
       /\ \A w \in OwedSynced' :
            w \in OwedSynced \/ (ok /\ thread[t].sync /\ w \in Writes(Entries(g)) \ hist.lost)
  BY <1>1, <1>2, <1>3, <1>5, <1>7, <1>15, GroupTold
<1>18. /\ ok => Writes(Entries(g)) \subseteq Writes(LogData(n)) \cup hist.lost
       /\ ok /\ thread[t].sync => Writes(Entries(g)) \subseteq Writes(SafeLogData(n)) \cup hist.lost
  BY <1>2, <1>3, <1>7 DEF BatchInv
<1>19. /\ TablesKept /\ Current' = Current /\ ImmKept /\ InMem' = InMem
       /\ \A k : LogData(k)' = LogData(k) /\ SafeLogData(k)' = SafeLogData(k)
  <2>1. db.imm # 0 => db.imm \in DOMAIN db.memtables \ {n} BY <1>2, <1>9 DEF NumbersInv, InMem
  <2> QED BY <2>1, <1>5, <1>13 DEF TablesKept, Scanned, Current, ImmKept, InMem, LogData, SafeLogData
<1>20. ASSUME NEW k \in DOMAIN disk.logs, NEW e \in LogData(k)
       PROVE  e \in Entries(g) \/ e[1] <= vset.last
  <2>1. ASSUME NEW u \in Threads, thread[u].pc \in Logged, e \in Entries(thread[u].group)
        PROVE  e \in Entries(g)
    <3>1. u = t BY <2>1, <1>2, <1>5, OneWriter DEF Writing
    <3> QED BY <2>1, <3>1, <1>3
  <2> QED BY <2>1, <1>2 DEF SeqInv
<1>21. ASSUME NEW e \in AllEntries'
       PROVE  e \in Entries(g) \/ (e \in AllEntries /\ e[1] <= vset.last)
  <2>1. \/ \E k \in DOMAIN disk.tables : e \in disk.tables[k].data
        \/ \E k \in DOMAIN db'.memtables : e \in db'.memtables[k]
        \/ \E k \in DOMAIN disk.logs : e \in LogData(k)
    BY <1>5, <1>19 DEF AllEntries, Data
  <2>2. CASE \E k \in DOMAIN disk.tables : e \in disk.tables[k].data
    BY <2>2, <1>2, AllIs DEF SeqInv
  <2>3. CASE \E k \in DOMAIN db'.memtables : e \in db'.memtables[k]
    <3>1. e \in Entries(g) \/ \E k \in DOMAIN db.memtables : e \in db.memtables[k]
      BY <2>3, <1>11, <1>13
    <3> QED BY <3>1, <1>2, AllIs DEF SeqInv
  <2>4. CASE \E k \in DOMAIN disk.logs : e \in LogData(k) BY <2>4, <1>20, AllIs
  <2> QED BY <2>1, <2>2, <2>3, <2>4
<1>22. NumbersInv' BY <1>2, <1>5, <1>13, <1>14, <1>17, <1>19 DEF NumbersInv
<1>23. \A e \in AllEntries : e \in Entry
  <2>1. \A k \in DOMAIN disk.tables : disk.tables[k].data \subseteq Entry
    BY <1>1 DEF DiskShape, IsTable
  <2>2. \A k \in DOMAIN disk.logs : LogData(k) \subseteq Entry
    <3> TAKE k \in DOMAIN disk.logs
    <3>1. PICK l : l = disk.logs[k] OBVIOUS
    <3>2. IsLog(l) /\ Len(l.recs) \in 0 .. Len(l.recs) BY <3>1, <1>1 DEF DiskShape, IsLog
    <3> QED BY <3>1, <3>2, ReadLogType DEF LogData
  <2> QED BY <2>1, <2>2, <1>1, AllIs DEF DBShape
<1>24. \A e \in AllEntries' : e[1] <= last
  <2> TAKE e \in AllEntries'
  <2>1. CASE e \in Entries(g) BY <2>1, <1>8
  <2>2. CASE e \in AllEntries /\ e[1] <= vset.last
    <3>1. e[1] \in Nat BY <2>2, <1>23 DEF Entry
    <3> QED BY <3>1, <2>2, <1>14
  <2> QED BY <2>1, <2>2, <1>21
<1>25. SeqInv'
  <2>1. \A k \in DOMAIN disk'.tables : \A e \in disk'.tables[k].data : e[1] <= last
    BY <1>24 DEF AllEntries, Data
  <2>2. \A k \in DOMAIN db'.memtables : \A e \in db'.memtables[k] : e[1] <= last
    BY <1>24 DEF AllEntries
  <2>3. \A k \in DOMAIN disk'.logs : \A e \in LogData(k)' : e[1] <= last BY <1>24 DEF AllEntries
  <2> QED BY <2>1, <2>2, <2>3, <1>14 DEF SeqInv
<1>26. Bounded' /\ SequencesUnique'
  <2>1. (\E c \in Nat : \A e \in AllEntries' : e[1] <= c) /\ SequencesUnique'
    BY <1>1, <1>7, <1>21, GroupNumbers
  <2> QED BY <2>1, <1>1, <1>5 DEF Bounded
<1>27. BatchInv' BY <1>16 DEF BatchInv, Writing, Logged
<1>28. ASSUME NEW F, NEW l, Good(F, l)
       PROVE  Good(F, l)'
  <2>1. F \subseteq Scanned' /\ Data(F)' = Data(F) BY <1>19, <1>28, DataKept DEF Good
  <2>2. l \in {vset'.log, db'.log} /\ Covers(F) BY <1>28, <1>13, <1>14 DEF Good
  <2>3. db'.imm # 0 /\ l # db'.imm => Writes(db'.memtables[db'.imm]) \subseteq Writes(Data(F)')
    BY <1>28, <2>1, <1>19 DEF Good, ImmKept
  <2>4. \A k \in InMem : Writes(db.memtables[k]) \subseteq Writes(db'.memtables[k])
    <3> TAKE k \in InMem
    <3>1. k \in DOMAIN db.memtables BY <1>2 DEF NumbersInv
    <3>2. db.memtables[k] \subseteq db'.memtables[k] BY <3>1, <1>13
    <3> QED BY <3>2, WritesGrow
  <2>5. ok => Writes(Entries(g)) \subseteq Writes(db'.memtables[n]) BY <1>11, <1>13, WritesGrow
  <2>6. ASSUME NEW w \in Owed'
        PROVE  w \in Writes(Data(F)') \/ \E k \in InMem' : w \in Writes(db'.memtables[k])
    <3>1. CASE w \in Owed BY <3>1, <2>1, <2>2, <2>4, <1>19 DEF Covers
    <3>2. CASE ok /\ w \in Writes(Entries(g)) BY <3>2, <2>5, <1>9, <1>19
    <3> QED BY <3>1, <3>2, <1>17
  <2>7. ASSUME NEW w \in OwedSynced'
        PROVE  \/ w \in Writes(Data(F)')
               \/ \E k \in InMem' : w \in Writes(db'.memtables[k]) /\ w \in Writes(SafeLogData(k)')
    <3>1. CASE w \in OwedSynced BY <3>1, <2>1, <2>2, <2>4, <1>19 DEF Covers
    <3>2. CASE ok /\ thread[t].sync /\ w \in Writes(Entries(g)) \ hist.lost
      <4>1. w \in Writes(db'.memtables[n]) /\ w \in Writes(SafeLogData(n)')
        BY <3>2, <2>5, <1>18, <1>19
      <4> QED BY <4>1, <1>9, <1>19
    <3> QED BY <3>1, <3>2, <1>17
  <2> QED BY <2>1, <2>2, <2>3, <2>6, <2>7 DEF Good, Covers
<1>29. StoreInv'
  <2>1. \A k \in InMem' : Writes(db'.memtables[k]) \subseteq Writes(LogData(k)') \cup hist'.lost
    <3> SUFFICES ASSUME NEW k \in InMem
                 PROVE  Writes(db'.memtables[k]) \subseteq Writes(LogData(k)) \cup hist.lost
      BY <1>17, <1>19
    <3>1. Writes(db.memtables[k]) \subseteq Writes(LogData(k)) \cup hist.lost /\ k \in DOMAIN db.memtables
      BY <1>2 DEF StoreInv, NumbersInv
    <3>2. CASE k = n
      <4>1. Writes(db'.memtables[n]) = Writes(db.memtables[n]) \cup Writes(S)
        BY <1>13 DEF Writes
      <4>2. Writes(S) \subseteq Writes(LogData(n)) \cup hist.lost
        <5>1. CASE ok BY <5>1, <1>11, <1>18
        <5>2. CASE ~ok BY <5>2, <1>3, <1>7 DEF Writes
        <5> QED BY <5>1, <5>2
      <4> QED BY <3>1, <3>2, <4>1, <4>2
    <3>3. CASE k # n BY <3>1, <3>3, <1>13
    <3> QED BY <3>2, <3>3
  <2>2. Good(DOMAIN vset.files, vset.log)'
    <3>1. PICK F, l : F = DOMAIN vset.files /\ l = vset.log OBVIOUS
    <3>2. Good(F, l)' BY <3>1, <1>2, <1>28 DEF StoreInv
    <3> QED BY <3>1, <3>2, <1>14
  <2>3. ASSUME NEW s, Fine(s) PROVE Fine(s)'
    <3>1. PICK F, l : F = DOMAIN s.files /\ l = s.log OBVIOUS
    <3>2. Good(F, l) => Good(F, l)' BY <1>28
    <3>3. disk'.current = disk.current /\ vset.next <= vset'.next /\ vset.last <= vset'.last
      BY <1>1, <1>5, <1>14 DEF VersionShape
    <3> QED BY <2>3, <3>1, <3>2, <3>3, <1>1, <1>14, <1>19, FineKept
  <2> QED BY <2>1, <2>2, <2>3, <1>2, <1>19, SoundKept DEF StoreInv
<1>30. ExactInv' BY <1>2, <1>5, <1>10, <1>13, <1>14, <1>19, ExactKept
<1>31. BgInv'
  <2>1. DOMAIN disk'.tables = DOMAIN disk.tables /\ db.pending \subseteq db'.pending
        /\ vset.next <= vset'.next /\ vset.last <= vset'.last
    BY <1>1, <1>5, <1>13, <1>14 DEF VersionShape
  <2> QED BY <2>1, <1>1, <1>2, <1>5, <1>14, <1>19, BgKept
<1>32. ReaderInv' BY <1>2, <1>5, <1>13, <1>17, <1>19, ReadersKept
<1>33. Shape'
  BY <1>1, <1>5, <1>13, <1>14, <1>16, <1>17
     DEF Shape, DiskShape, OpeningShape, BgShape, ReaderShape
<1> QED
  BY <1>1, <1>5, <1>16, <1>22, <1>25, <1>26, <1>27, <1>29, <1>30, <1>31, <1>32, <1>33 DEF Up, UpInv

-----------------------------------------------------------------------------
(* The background thread at work on tables *)

(* A step of the background thread that only adds tables under new numbers *)
(* keeps all that is said of files, memtables and readers. *)
LEMMA WorkStep ==
  ASSUME Up, Works, TablesCome, DiskShape', VersionShape', DBShape', BgShape', HistShape', BgInv',
         ExactInv'
  PROVE  Up'
<1>1. /\ DiskShape /\ VersionShape /\ OpeningShape /\ HistShape /\ DBShape /\ ThreadShape
      /\ BgShape /\ ReaderShape /\ Bounded /\ SequencesUnique /\ phase = "up"
  BY DEF Up, Shape
<1>2. /\ QueueInv /\ BatchInv /\ SeqInv /\ NumbersInv /\ StoreInv /\ ExactInv /\ BgInv /\ ReaderInv
  BY DEF Up, UpInv
<1>3. /\ \A n : LogData(n)' = LogData(n) /\ SafeLogData(n)' = SafeLogData(n)
      /\ Current' = Current /\ TablesKept /\ MemKept /\ InMem' = InMem
  BY DEF Works, LogData, SafeLogData, Current, TablesCome, MemKept, InMem
<1>4. LogsKept /\ WritersKept /\ OwedKept
  BY <1>3 DEF Works, TruthKept, LogsKept, WritersKept, OwedKept, Owed, OwedSynced, Answered
<1>5. QueueInv' /\ ThreadShape' /\ OpeningShape' /\ ReaderShape'
  BY <1>1, <1>2 DEF Works, QueueInv, ThreadShape, OpeningShape, ReaderShape
<1>6. NumbersInv'
  <2>1. \A n \in DOMAIN disk'.logs \cup DOMAIN disk'.tables \cup DOMAIN db'.memtables : n < vset'.next
    <3> SUFFICES ASSUME NEW n \in DOMAIN disk.logs \cup DOMAIN db.memtables
                 PROVE  n < vset'.next
      BY DEF Works, TablesCome
    <3>1. n < vset.next /\ n \in Nat BY <1>1, <1>2 DEF NumbersInv, DiskShape, DBShape
    <3> QED BY <3>1, <1>1 DEF Works, VersionShape
  <2>2. 0 < db'.log /\ db'.imm < db'.log /\ db'.log < vset'.next
    BY <1>1, <1>2 DEF Works, NumbersInv, VersionShape, DBShape
  <2> QED BY <2>1, <2>2, <1>2, <1>3 DEF NumbersInv, Works
<1>7. NoNewEntries BY <1>3 DEF NoNewEntries, TablesCome, Works, MemData
<1>8. SeqInv' BY <1>1, <1>2, <1>4, <1>7, SeqKept DEF Works
<1>9. Bounded' /\ SequencesUnique'
  <2>1. AllEntries' \subseteq AllEntries BY <1>7, AllEntriesKept
  <2> QED BY <2>1, <1>1, <1>6, BoundedKept
<1>10. BatchInv' BY <1>1, <1>2, <1>3, <1>4, BatchKept DEF Works, TruthKept
<1>11. StoreInv'
  <2>1. vset.last <= vset'.last BY <1>1 DEF Works, VersionShape
  <2> QED BY <2>1, <1>1, <1>2, <1>3, <1>4, StoreKept DEF Works, TruthKept
<1>12. ReaderInv' BY <1>2, <1>3, ReadersKept DEF Works, TruthKept
<1> QED BY <1>1, <1>2, <1>5, <1>6, <1>8, <1>9, <1>10, <1>11, <1>12 DEF Up, UpInv, Shape, Works

(* Away from the end of LogAndApply the manifest says what is installed. *)
LEMMA ExactStays ==
  ASSUME ExactInv, Current' = Current, vset'.files = vset.files, vset'.log = vset.log,
         db'.error = db.error, bg.pc \notin {"msync", "install"},
         bg'.pc \notin {"msync", "install"} \/ (bg'.pc = "install" /\ ~bg'.ok)
  PROVE  ExactInv'
BY DEF ExactInv, Exact, Saids

(* Nothing that the manifest may say is ahead of the numbers in use. *)
LEMMA SaidsBelow ==
  ASSUME StoreInv, VersionShape
  PROVE  \A s \in Saids : s.next <= vset.next /\ s.last <= vset.last
<1>1. Nothing.next = -1 /\ Nothing.last = -1 BY DEF Nothing, None
<1>2. -1 <= vset.next /\ -1 <= vset.last BY DEF VersionShape
<1>3. ASSUME NEW s \in Saids PROVE s.next <= vset.next /\ s.last <= vset.last
  BY <1>1, <1>2 DEF StoreInv, Sound, Saids, Fine
<1> QED BY <1>3

(* No table changes. *)
LEMMA TablesStay ==
  ASSUME DiskShape, VersionShape, VersionShape', NumbersInv, vset.next <= vset'.next,
         disk'.tables = disk.tables
  PROVE  TablesCome
<1>1. TablesKept /\ TableData' = TableData BY DEF TablesKept, Scanned, TableData, Data
<1>2. ASSUME NEW n \in DOMAIN disk'.tables PROVE n < vset'.next
  BY <1>2 DEF DiskShape, VersionShape, NumbersInv
<1>3. \A n \in DOMAIN disk.tables : disk.tables[n].data \subseteq TableData
  BY DEF TableData, Data
<1> QED BY <1>1, <1>2, <1>3 DEF TablesCome

(* A table under a new number. *)
LEMMA TablePut ==
  ASSUME DiskShape, NEW n \in Nat, n \notin DOMAIN disk.tables, NEW b, IsTable(b),
         disk' = [disk EXCEPT !.tables = Put(@, n, b)]
  PROVE  /\ DiskShape' /\ disk'.logs = disk.logs /\ disk'.manifests = disk.manifests
         /\ disk'.current = disk.current
         /\ DOMAIN disk'.tables = DOMAIN disk.tables \cup {n} /\ disk'.tables[n] = b
         /\ \A k \in DOMAIN disk.tables : disk'.tables[k] = disk.tables[k]
<1>1. PICK f : f = disk.tables OBVIOUS
<1>2. PICK h : h = Put(f, n, b) OBVIOUS
<1>3. DOMAIN h = DOMAIN f \cup {n} /\ h[n] = b /\ \A k \in DOMAIN f \ {n} : h[k] = f[k]
  BY <1>2 DEF Put, Over
<1>4. disk' = [disk EXCEPT !.tables = h] BY <1>1, <1>2
<1>5. /\ disk'.logs = disk.logs /\ disk'.manifests = disk.manifests
      /\ disk'.current = disk.current /\ disk'.tables = h
      /\ disk' = [logs |-> disk'.logs, tables |-> disk'.tables, manifests |-> disk'.manifests,
                  current |-> disk'.current]
  BY <1>4 DEF DiskShape
<1>6. DOMAIN h \subseteq Nat /\ \A k \in DOMAIN h : IsTable(h[k]) BY <1>1, <1>3 DEF DiskShape
<1>7. DiskShape' BY <1>5, <1>6 DEF DiskShape
<1> QED BY <1>1, <1>3, <1>5, <1>7

(* pending_outputs_ changes alone. *)
LEMMA PendingIs ==
  ASSUME DBShape, NEW p \in SUBSET Nat, db' = [db EXCEPT !.pending = p]
  PROVE  /\ db'.log = db.log /\ db'.imm = db.imm /\ db'.memtables = db.memtables
         /\ db'.error = db.error /\ db'.manual = db.manual /\ db'.pending = p
         /\ db'.closing = db.closing /\ DBShape'
<1>1. /\ db'.log = db.log /\ db'.imm = db.imm /\ db'.memtables = db.memtables
      /\ db'.error = db.error /\ db'.manual = db.manual /\ db'.pending = p
      /\ db'.scheduled = db.scheduled /\ db'.closing = db.closing
      /\ db' = [log |-> db'.log, imm |-> db'.imm, memtables |-> db'.memtables, pending |-> db'.pending,
                error |-> db'.error, scheduled |-> db'.scheduled, closing |-> db'.closing,
                manual |-> db'.manual]
  BY DEF DBShape
<1> QED BY <1>1 DEF DBShape

(* A file number is taken. *)
LEMMA NumberTaken ==
  ASSUME VersionShape, NEW n \in Nat, n = vset.next, vset' = [vset EXCEPT !.next = n + 1]
  PROVE  /\ vset'.next = n + 1 /\ vset'.manifest = vset.manifest /\ vset'.last = vset.last
         /\ vset'.log = vset.log /\ vset'.files = vset.files
         /\ VersionShape' /\ vset.next <= vset'.next
<1>1. /\ vset'.next = n + 1 /\ vset'.manifest = vset.manifest /\ vset'.last = vset.last
      /\ vset'.log = vset.log /\ vset'.files = vset.files
      /\ vset' = [next |-> vset'.next, manifest |-> vset'.manifest, last |-> vset'.last,
                  log |-> vset'.log, files |-> vset'.files]
  BY DEF VersionShape
<1> QED BY <1>1 DEF VersionShape

(* The flush takes a new number, which is pending, so that *)
(* DeleteObsoleteFiles leaves its table alone. *)
LEMMA CompactMemTableStep ==
  ASSUME Up, CompactMemTable
  PROVE  Up'
<1> USE DEF IsBg, JobKept
<1>1. /\ DiskShape /\ VersionShape /\ HistShape /\ DBShape /\ BgShape /\ phase = "up"
  BY DEF Up, Shape
<1>2. /\ NumbersInv /\ ExactInv /\ BgInv BY DEF Up, UpInv
<1>3. PICK n : n = vset.next OBVIOUS
<1>4. /\ db.imm # 0 /\ bg.pc \in {"idle", "compact"}
      /\ bg' = [bg EXCEPT !.pc = "build", !.file = n]
      /\ vset' = [vset EXCEPT !.next = n + 1]
      /\ db' = [db EXCEPT !.pending = @ \cup {n}]
      /\ disk' = disk /\ phase' = phase /\ opening' = opening /\ queue' = queue /\ thread' = thread
      /\ awake' = awake /\ reader' = reader /\ hist' = hist
  BY <1>3 DEF CompactMemTable, Dispatch
<1>5. n \in Nat /\ n # 0 /\ n \notin DOMAIN disk.tables
  BY <1>1, <1>2, <1>3 DEF NumbersInv, VersionShape, DBShape
<1>6. /\ vset'.manifest = vset.manifest /\ vset'.last = vset.last /\ vset'.next = n + 1
      /\ vset'.log = vset.log /\ vset'.files = vset.files
      /\ VersionShape' /\ vset.next <= vset'.next
  BY <1>1, <1>3, <1>4, <1>5, NumberTaken
<1>8. /\ db'.log = db.log /\ db'.imm = db.imm /\ db'.memtables = db.memtables
      /\ db'.error = db.error /\ db'.manual = db.manual /\ db'.pending = db.pending \cup {n}
      /\ DBShape'
  <2>1. PICK p \in SUBSET Nat : p = db.pending \cup {n} BY <1>1, <1>5 DEF DBShape
  <2>2. db' = [db EXCEPT !.pending = p] BY <2>1, <1>4
  <2> QED BY <2>1, <2>2, <1>1, PendingIs
<1>9. /\ bg'.pc = "build" /\ bg'.file = n /\ bg'.edit = bg.edit /\ bg'.ok = bg.ok
      /\ JobKept /\ IsBg(bg')
  BY <1>1, <1>4 DEF BgShape
<1>10. BgShape' BY <1>1, <1>5, <1>9 DEF BgShape
<1>11. DiskShape' /\ HistShape' /\ TruthKept /\ Current' = Current /\ Scanned' = Scanned
  BY <1>1, <1>4 DEF DiskShape, HistShape, TruthKept, Current, Scanned
<1>12. Works BY <1>4, <1>6, <1>8, <1>11 DEF Works
<1>13. TablesCome BY <1>1, <1>2, <1>4, <1>6, TablesStay
<1>14. ExactInv' BY <1>2, <1>4, <1>6, <1>8, <1>9, <1>11, ExactStays
<1>15. ~Flushing /\ bg.pc # "install" /\ Flushing'
  BY <1>2, <1>4, <1>5, <1>9 DEF BgInv, Resting, Flushing
<1>16. bg.job = "merge" =>
         /\ bg.inputs \subseteq Scanned /\ bg.inputs \subseteq DOMAIN bg.files
         /\ bg.outputs \subseteq DOMAIN disk.tables /\ bg.outputs \subseteq db.pending
         /\ bg.inputs \cap bg.outputs = {}
  BY <1>2, <1>4 DEF BgInv
<1>17. bg.job # "move" BY <1>2, <1>4 DEF BgInv, Resting
<1>18. BgInv'
  <2>1. n < n + 1 BY <1>5
  <2> QED BY <2>1, <1>4, <1>5, <1>6, <1>8, <1>9, <1>11, <1>15, <1>16, <1>17 DEF BgInv
<1> QED BY <1>6, <1>8, <1>10, <1>11, <1>12, <1>13, <1>14, <1>18, WorkStep

(* The table holds what the memtable holds, or was not built. *)
LEMMA BuildTableStep ==
  ASSUME Up, BuildTable
  PROVE  Up'
<1> USE DEF IsBg, JobKept
<1>1. /\ DiskShape /\ VersionShape /\ HistShape /\ DBShape /\ BgShape BY DEF Up, Shape
<1>2. /\ NumbersInv /\ ExactInv /\ BgInv BY DEF Up, UpInv
<1>3. /\ bg.pc = "build" /\ vset' = vset /\ db' = db
      /\ phase' = phase /\ opening' = opening /\ queue' = queue /\ thread' = thread
      /\ awake' = awake /\ reader' = reader
  BY DEF BuildTable
<1>4. PICK n, mem : n = bg.file /\ mem = db.memtables[db.imm] OBVIOUS
<1>5. /\ Flushing /\ db.imm # 0 /\ n \in Nat /\ n < vset.next /\ n \notin DOMAIN disk.tables
      /\ bg.job # "move"
  BY <1>1, <1>2, <1>3, <1>4 DEF BgInv, BgShape
<1>6. mem \subseteq MemData /\ mem \subseteq Entry
  <2>1. db.imm \in DOMAIN db.memtables BY <1>2, <1>5 DEF NumbersInv, InMem
  <2> QED BY <2>1, <1>1, <1>4 DEF DBShape, MemData
<1>7. PICK ok \in BOOLEAN : bg' = [bg EXCEPT !.pc = "built", !.ok = ok] /\
        \/ /\ ok = TRUE /\ hist' = hist
           /\ disk' = IF mem = {} THEN disk
                      ELSE [disk EXCEPT !.tables = Put(@, n, [data |-> mem, whole |-> TRUE])]
        \/ ok = FALSE /\ Fault /\ disk' = disk
  <2>1. PICK tt \in BOOLEAN, ff \in BOOLEAN : tt = TRUE /\ ff = FALSE OBVIOUS
  <2> QED BY <2>1, <1>4 DEF BuildTable
<1>8. /\ bg'.pc = "built" /\ bg'.file = n /\ bg'.edit = bg.edit /\ bg'.ok = ok
      /\ JobKept /\ IsBg(bg')
  <2>1. bg' = [bg EXCEPT !.pc = "built", !.ok = ok] BY <1>7
  <2> QED BY <2>1, <1>1, <1>4 DEF BgShape
<1>9. BgShape' BY <1>1, <1>8, <1>4 DEF BgShape
<1>10. HistShape' /\ TruthKept /\ hist'.opened = hist.opened /\ hist'.repaired = hist.repaired
  <2>1. CASE hist' = hist BY <2>1, <1>1 DEF HistShape, TruthKept
  <2>2. CASE Fault BY <2>2, <1>1, FaultFacts
  <2> QED BY <2>1, <2>2, <1>7
<1>11. /\ DiskShape' /\ disk'.logs = disk.logs /\ disk'.manifests = disk.manifests
       /\ disk'.current = disk.current
       /\ \A k \in DOMAIN disk.tables : k \in DOMAIN disk'.tables /\ disk'.tables[k] = disk.tables[k]
       /\ \A k \in DOMAIN disk'.tables : k \in DOMAIN disk.tables \/ k = n
       /\ n \in DOMAIN disk'.tables => disk'.tables[n] = [data |-> mem, whole |-> TRUE]
       /\ ok /\ n \notin DOMAIN disk'.tables => mem = {}
  <2>1. CASE disk' = disk /\ (ok => mem = {}) BY <2>1, <1>1, <1>5 DEF DiskShape
  <2>2. CASE disk' = [disk EXCEPT !.tables = Put(@, n, [data |-> mem, whole |-> TRUE])]
    <3>1. PICK b : b = [data |-> mem, whole |-> TRUE] OBVIOUS
    <3>2. IsTable(b) BY <3>1, <1>6 DEF IsTable
    <3>3. disk' = [disk EXCEPT !.tables = Put(@, n, b)] BY <2>2, <3>1
    <3> QED BY <3>1, <3>2, <3>3, <1>1, <1>5, TablePut
  <2> QED BY <2>1, <2>2, <1>7
<1>12. /\ Current' = Current /\ TablesKept /\ Flushing' /\ Scanned \subseteq Scanned'
  BY <1>4, <1>5, <1>8, <1>11 DEF Current, TablesKept, Scanned, Flushing
<1>13. TablesCome
  <2>1. ASSUME NEW k \in DOMAIN disk'.tables
        PROVE  disk'.tables[k].data \subseteq TableData \cup MemData /\ k < vset'.next
    <3>1. CASE k \in DOMAIN disk.tables
      BY <3>1, <1>2, <1>3, <1>11 DEF TableData, Data, NumbersInv
    <3>2. CASE k = n BY <3>2, <1>3, <1>5, <1>6, <1>11, <2>1
    <3> QED BY <3>1, <3>2, <1>11
  <2> QED BY <2>1, <1>12 DEF TablesCome
<1>14. VersionShape' /\ DBShape' /\ vset.next <= vset'.next
  BY <1>1, <1>3 DEF VersionShape, DBShape
<1>15. Works BY <1>3, <1>10, <1>11, <1>14 DEF Works
<1>16. ExactInv' BY <1>2, <1>3, <1>8, <1>12, ExactStays
<1>17. bg.job = "merge" =>
         /\ bg.inputs \subseteq Scanned' /\ bg.inputs \subseteq DOMAIN bg.files
         /\ bg.outputs \subseteq DOMAIN disk'.tables /\ bg.outputs \subseteq db.pending
         /\ bg.inputs \cap bg.outputs = {} /\ n \notin bg.outputs
  BY <1>2, <1>3, <1>4, <1>5, <1>11, <1>12 DEF BgInv
<1>18. BgInv' BY <1>3, <1>4, <1>5, <1>8, <1>11, <1>12, <1>17 DEF BgInv
<1> QED BY <1>9, <1>10, <1>11, <1>13, <1>14, <1>15, <1>16, <1>18, WorkStep
-----------------------------------------------------------------------------
(* The background thread prepares an edit, or gives up *)

(* The edit that LogAndApply completes. *)
LEMMA LoggedEdit ==
  ASSUME NEW add, NEW del, NEW v, NEW e, e = LogAndApply(Edit(add, del), v)
  PROVE  /\ e.add = add /\ e.del = del /\ e.log = v.log /\ e.next = v.next /\ e.last = v.last
         /\ e = [add |-> e.add, del |-> e.del, log |-> e.log, next |-> e.next, last |-> e.last]
BY DEF LogAndApply, Edit

(* The same for one that brings its log number. *)
LEMMA LoggedEditOf ==
  ASSUME NEW add, NEW del, NEW v, NEW l \in Nat, NEW e,
         e = LogAndApply([Edit(add, del) EXCEPT !.log = l], v)
  PROVE  /\ e.add = add /\ e.del = del /\ e.log = l /\ e.next = v.next /\ e.last = v.last
         /\ e = [add |-> e.add, del |-> e.del, log |-> e.log, next |-> e.next, last |-> e.last]
<1>1. PICK f : f = [Edit(add, del) EXCEPT !.log = l] OBVIOUS
<1>2. f = [add |-> add, del |-> del, log |-> l, next |-> None, last |-> None] BY <1>1 DEF Edit
<1>3. f.log = l /\ l # None BY <1>2 DEF None
<1>4. e = [f EXCEPT !.log = l, !.next = v.next, !.last = v.last] BY <1>1, <1>3 DEF LogAndApply
<1> QED BY <1>2, <1>4

(* A step of the background thread that touches no file. *)
LEMMA PrepareStep ==
  ASSUME Up, BgShape', BgInv', ExactInv', DBShape', HistShape', TruthKept, disk' = disk, vset' = vset,
         hist'.opened = hist.opened, hist'.repaired = hist.repaired,
         phase' = phase, opening' = opening, queue' = queue, thread' = thread, awake' = awake,
         reader' = reader, db'.log = db.log, db'.imm = db.imm, db'.memtables = db.memtables,
         db'.error = db.error, db'.manual = db.manual
  PROVE  Up'
<1>1. DiskShape /\ VersionShape /\ NumbersInv BY DEF Up, Shape, UpInv
<1>2. DiskShape' /\ VersionShape' /\ vset.next <= vset'.next BY <1>1 DEF DiskShape, VersionShape
<1>3. Works BY <1>2 DEF Works
<1>4. TablesCome BY <1>1, <1>2, TablesStay
<1> QED BY <1>2, <1>3, <1>4, WorkStep

(* The background thread goes on with what it has. *)
LEMMA PcMoves ==
  ASSUME BgShape, NEW p \in {"install", "msync"}, NEW ok \in BOOLEAN,
         bg' = [bg EXCEPT !.pc = p, !.ok = ok]
  PROVE  /\ bg'.pc = p /\ bg'.file = bg.file /\ bg'.edit = bg.edit /\ bg'.ok = ok
         /\ JobKept /\ BgShape'
<1> USE DEF IsBg, JobKept
<1>1. /\ bg'.pc = p /\ bg'.file = bg.file /\ bg'.edit = bg.edit /\ bg'.ok = ok
      /\ JobKept /\ IsBg(bg')
  BY DEF BgShape
<1> QED BY <1>1 DEF BgShape

(* The edit of a flush names the new log and the table with what the old *)
(* one held; closing meanwhile, it is given up. *)
LEMMA FlushEditStep ==
  ASSUME Up, FlushEdit
  PROVE  Up'
<1> USE DEF IsBg, JobKept
<1>1. /\ DiskShape /\ VersionShape /\ HistShape /\ DBShape /\ BgShape BY DEF Up, Shape
<1>2. /\ NumbersInv /\ ExactInv /\ BgInv /\ StoreInv /\ SeqInv BY DEF Up, UpInv
<1>3. /\ bg.pc = "built" /\ vset' = vset /\ disk' = disk /\ hist' = hist
      /\ phase' = phase /\ opening' = opening /\ queue' = queue /\ thread' = thread
      /\ awake' = awake /\ reader' = reader /\ db' = [db EXCEPT !.pending = @ \ {bg.file}]
  BY DEF FlushEdit
<1>4. PICK n, mem, l : n = bg.file /\ mem = db.memtables[db.imm] /\ l = db.log OBVIOUS
<1>5. /\ Flushing /\ db.imm # 0 /\ n \in Nat /\ n < vset.next /\ bg.job # "move" /\ l \in Nat
      /\ l < vset.next
      /\ bg.ok => IF n \in DOMAIN disk.tables
                  THEN disk.tables[n] = [data |-> mem, whole |-> TRUE] ELSE mem = {}
  BY <1>1, <1>2, <1>3, <1>4 DEF BgInv, BgShape, DBShape, NumbersInv
<1>6. /\ db'.log = db.log /\ db'.imm = db.imm /\ db'.memtables = db.memtables
      /\ db'.error = db.error /\ db'.manual = db.manual /\ db'.pending = db.pending \ {n}
      /\ DBShape'
  <2>1. PICK p \in SUBSET Nat : p = db.pending \ {n} BY <1>1 DEF DBShape
  <2>2. db' = [db EXCEPT !.pending = p] BY <2>1, <1>3, <1>4
  <2> QED BY <2>1, <2>2, <1>1, PendingIs
<1>7. /\ HistShape' /\ TruthKept /\ Current' = Current /\ Scanned' = Scanned
  BY <1>1, <1>3 DEF HistShape, TruthKept, Current, Scanned
<1>8. bg.job = "merge" =>
         /\ bg.inputs \subseteq Scanned /\ bg.inputs \subseteq DOMAIN bg.files
         /\ bg.outputs \subseteq DOMAIN disk.tables /\ bg.outputs \subseteq db'.pending
         /\ bg.inputs \cap bg.outputs = {} /\ n \notin bg.outputs
  BY <1>2, <1>3, <1>4, <1>5, <1>6 DEF BgInv
<1>9. CASE bg.ok /\ ~db.closing
  <2>1. PICK add, e :
          /\ e = LogAndApply([Edit(add, {}) EXCEPT !.log = l], vset)
          /\ bg' = [bg EXCEPT !.pc = "append", !.edit = e]
          /\ \E level \in {0, 1} : add = IF n \in DOMAIN disk.tables THEN Put(NoFiles, n, level) ELSE NoFiles
    BY <1>4, <1>9 DEF FlushEdit
  <2>2. /\ IsFiles(add) /\ DOMAIN add = DOMAIN disk.tables \cap {n}
    <3>1. PICK level \in {0, 1} : add = IF n \in DOMAIN disk.tables THEN Put(NoFiles, n, level) ELSE NoFiles
      BY <2>1
    <3>2. DOMAIN NoFiles = {} /\ IsFiles(NoFiles) BY DEF NoFiles, IsFiles
    <3>3. DOMAIN Put(NoFiles, n, level) = {n} /\ IsFiles(Put(NoFiles, n, level))
      BY <1>5, <3>2 DEF Put, Over, IsFiles
    <3> QED BY <3>1, <3>2, <3>3
  <2>3. /\ e.add = add /\ e.del = {} /\ e.log = l /\ e.next = vset.next /\ e.last = vset.last
        /\ e = [add |-> e.add, del |-> e.del, log |-> e.log, next |-> e.next, last |-> e.last]
    BY <1>5, <2>1, LoggedEditOf
  <2>4. /\ bg'.pc = "append" /\ bg'.file = n /\ bg'.edit = e /\ bg'.ok = bg.ok
        /\ JobKept /\ IsBg(bg')
    <3>1. bg' = [bg EXCEPT !.pc = "append", !.edit = e] BY <2>1
    <3> QED BY <3>1, <1>1, <1>4 DEF BgShape
  <2>5. IsEdit(e) BY <2>2, <2>3, <1>1, <1>5 DEF IsEdit, VersionShape
  <2>6. BgShape' BY <2>4, <2>5, <1>1, <1>5 DEF BgShape
  <2>7. SafeEdit(e)'
    <3>1. DOMAIN e.add \subseteq Scanned /\ e.del \subseteq Scanned
      BY <2>2, <2>3, <1>5, <1>9 DEF Scanned
    <3>2. Data(e.del) \subseteq Data(DOMAIN e.add) BY <2>3 DEF Data
    <3>3. Flushing' /\ e.log = db'.log BY <2>3, <2>4, <1>4, <1>5, <1>6 DEF Flushing
    <3>4. Writes(mem) \subseteq Writes(Data(DOMAIN e.add))
      <4>1. mem \subseteq Data(DOMAIN e.add)
        <5>1. CASE n \in DOMAIN disk.tables
          <6>1. disk.tables[n].data = mem /\ n \in DOMAIN e.add BY <5>1, <2>2, <2>3, <1>5, <1>9
          <6> QED BY <6>1 DEF Data
        <5>2. CASE n \notin DOMAIN disk.tables BY <5>2, <1>5, <1>9
        <5> QED BY <5>1, <5>2
      <4> QED BY <4>1, WritesGrow
    <3>5. {e.next, e.last} \subseteq Nat /\ e.log < e.next /\ e.next <= vset.next /\ e.last <= vset.last
      BY <2>3, <1>1, <1>5 DEF VersionShape
    <3>6. \A k \in DOMAIN e.add : k < e.next /\ \A x \in disk.tables[k].data : x[1] <= e.last
      BY <2>2, <2>3, <1>2, <1>5 DEF SeqInv
    <3>7. Data(e.del)' = Data(e.del) /\ Data(DOMAIN e.add)' = Data(DOMAIN e.add)
      BY <1>3 DEF Data
    <3> QED BY <3>1, <3>2, <3>3, <3>4, <3>5, <3>6, <3>7, <1>3, <1>4, <1>6, <1>7 DEF SafeEdit
  <2>8. ExactInv' BY <1>2, <1>3, <1>6, <1>7, <2>4, ExactStays
  <2>9. \A s \in Saids : s.next <= e.next /\ s.last <= e.last BY <2>3, <1>1, <1>2, SaidsBelow
  <2>10. BgInv'
    <3>1. Flushing' /\ Saids' = Saids BY <2>4, <1>4, <1>5, <1>7 DEF Flushing, Saids
    <3> QED BY <3>1, <2>4, <2>7, <2>9, <1>3, <1>5, <1>6, <1>7, <1>8 DEF BgInv
  <2> QED BY <2>6, <2>8, <2>10, <1>3, <1>6, <1>7, PrepareStep
<1>10. CASE ~(bg.ok /\ ~db.closing)
  <2>1. PICK p \in {"install", "msync"}, ok \in BOOLEAN : p = "install" /\ ok = FALSE OBVIOUS
  <2>2. bg' = [bg EXCEPT !.pc = p, !.ok = ok] BY <2>1, <1>10 DEF FlushEdit
  <2>3. /\ bg'.pc = p /\ bg'.file = bg.file /\ bg'.edit = bg.edit /\ bg'.ok = ok
        /\ JobKept /\ BgShape'
    BY <2>2, <1>1, PcMoves
  <2>4. ExactInv' BY <2>1, <2>3, <1>2, <1>3, <1>6, <1>7, ExactStays
  <2>5. BgInv'
    <3>1. Flushing' BY <2>3, <1>5 DEF Flushing
    <3> QED BY <3>1, <2>1, <2>3, <1>3, <1>4, <1>5, <1>6, <1>7, <1>8 DEF BgInv
  <2> QED BY <2>3, <2>4, <2>5, <1>3, <1>6, <1>7, PrepareStep
<1> QED BY <1>9, <1>10

(* A table is deleted from one level and added to the next: no entry goes. *)
LEMMA TrivialMoveStep ==
  ASSUME Up, TrivialMove
  PROVE  Up'
<1> USE DEF IsBg
<1>1. /\ DiskShape /\ VersionShape /\ HistShape /\ DBShape /\ BgShape BY DEF Up, Shape
<1>2. /\ NumbersInv /\ ExactInv /\ BgInv /\ StoreInv /\ SeqInv BY DEF Up, UpInv
<1>3. /\ bg.pc = "idle" /\ db.imm = 0 /\ vset' = vset /\ disk' = disk /\ hist' = hist /\ db' = db
      /\ phase' = phase /\ opening' = opening /\ queue' = queue /\ thread' = thread
      /\ awake' = awake /\ reader' = reader
  BY DEF TrivialMove, MayCompact, Dispatch
<1>25. PICK n \in Level(0) :
          bg' = [bg EXCEPT !.pc = "append", !.job = "move",
                           !.edit = LogAndApply(Edit(Put(NoFiles, n, 1), {n}), vset)]
  BY DEF TrivialMove
<1>26. PICK add, e : add = Put(NoFiles, n, 1) /\ e = LogAndApply(Edit(add, {n}), vset) OBVIOUS
<1>4. /\ n \in Level(0) /\ add = Put(NoFiles, n, 1) /\ e = LogAndApply(Edit(add, {n}), vset)
      /\ bg' = [bg EXCEPT !.pc = "append", !.job = "move", !.edit = e]
  BY <1>25, <1>26
<1>5. n \in DOMAIN vset.files /\ n \in Scanned /\ n \in DOMAIN disk.tables /\ n \in Nat /\ n < vset.next
  BY <1>1, <1>2 DEF Level, StoreInv, Good, Scanned, NumbersInv, DiskShape
<1>6. IsFiles(add) /\ DOMAIN add = {n}
  <2>1. DOMAIN NoFiles = {} /\ IsFiles(NoFiles) BY DEF NoFiles, IsFiles
  <2> QED BY <2>1, <1>4, <1>5 DEF Put, Over, IsFiles
<1>7. /\ e.add = add /\ e.del = {n} /\ e.log = vset.log /\ e.next = vset.next /\ e.last = vset.last
      /\ e = [add |-> e.add, del |-> e.del, log |-> e.log, next |-> e.next, last |-> e.last]
  BY <1>4, LoggedEdit
<1>8. /\ bg'.pc = "append" /\ bg'.file = bg.file /\ bg'.edit = e /\ bg'.ok = bg.ok
      /\ bg'.job = "move" /\ bg'.manual = bg.manual /\ bg'.inputs = bg.inputs /\ bg'.outputs = bg.outputs
      /\ bg'.files = bg.files
      /\ IsBg(bg')
  <2>1. bg' = [bg EXCEPT !.pc = "append", !.job = "move", !.edit = e] BY <1>4
  <2> QED BY <2>1, <1>1 DEF BgShape
<1>9. IsEdit(e) BY <1>5, <1>6, <1>7, <1>1 DEF IsEdit, VersionShape
<1>10. BgShape' BY <1>8, <1>9, <1>1 DEF BgShape
<1>11. ~Flushing' /\ ~Flushing /\ Current' = Current /\ Scanned' = Scanned /\ Saids' = Saids
       /\ HistShape' /\ TruthKept /\ DBShape'
  BY <1>1, <1>2, <1>3, <1>8
     DEF BgInv, Resting, Flushing, Current, Scanned, Saids, HistShape, TruthKept, DBShape
<1>12. SafeEdit(e)'
  <2>1. DOMAIN e.add \subseteq Scanned /\ e.del \subseteq Scanned BY <1>5, <1>6, <1>7
  <2>2. Data(e.del) \subseteq Data(DOMAIN e.add) BY <1>6, <1>7
  <2>3. e.log < e.next BY <1>1, <1>2, <1>3, <1>7 DEF NumbersInv
  <2>4. {e.next, e.last} \subseteq Nat /\ e.next <= vset.next /\ e.last <= vset.last
    BY <1>1, <1>7 DEF VersionShape
  <2>5. \A k \in DOMAIN e.add : k < e.next /\ \A x \in disk.tables[k].data : x[1] <= e.last
    BY <1>2, <1>5, <1>6, <1>7 DEF SeqInv
  <2>6. Data(e.del)' = Data(e.del) /\ Data(DOMAIN e.add)' = Data(DOMAIN e.add) BY <1>3 DEF Data
  <2> QED BY <2>1, <2>2, <2>3, <2>4, <2>5, <2>6, <1>3, <1>7, <1>11 DEF SafeEdit
<1>13. ExactInv' BY <1>2, <1>3, <1>8, <1>11, ExactStays
<1>14. \A s \in Saids : s.next <= e.next /\ s.last <= e.last BY <1>1, <1>2, <1>7, SaidsBelow
<1>15. BgInv' BY <1>3, <1>8, <1>11, <1>12, <1>14 DEF BgInv
<1> QED BY <1>3, <1>10, <1>11, <1>13, <1>15, PrepareStep

(* The inputs of a compaction are tables of the current version. *)
LEMMA DoCompactionWorkStep ==
  ASSUME Up, DoCompactionWork
  PROVE  Up'
<1> USE DEF IsBg
<1>1. /\ HistShape /\ DBShape /\ BgShape /\ DiskShape BY DEF Up, Shape
<1>2. /\ ExactInv /\ BgInv /\ StoreInv BY DEF Up, UpInv
<1>3. /\ bg.pc = "idle" /\ vset' = vset /\ disk' = disk /\ hist' = hist /\ db' = db
      /\ phase' = phase /\ opening' = opening /\ queue' = queue /\ thread' = thread
      /\ awake' = awake /\ reader' = reader
  BY DEF DoCompactionWork, MayCompact, Dispatch
<1>15. PICK S \in Picks :
          bg' = [bg EXCEPT !.pc = "compact", !.job = "merge", !.inputs = S, !.files = vset.files,
                           !.manual = db.manual # "none"]
  BY DEF DoCompactionWork
<1>16. PICK f : f = vset.files OBVIOUS
<1>17. PICK asked \in BOOLEAN : asked = (db.manual # "none") OBVIOUS
<1>4. /\ S \in Picks /\ f = vset.files
      /\ bg' = [bg EXCEPT !.pc = "compact", !.job = "merge", !.inputs = S, !.files = f, !.manual = asked]
  BY <1>15, <1>16, <1>17
<1>5. S \subseteq DOMAIN f BY <1>4 DEF Picks, Level
<1>6. S \subseteq Scanned /\ S \subseteq Nat
  BY <1>1, <1>2, <1>4, <1>5 DEF StoreInv, Good, Scanned, DiskShape
<1>7. /\ bg'.pc = "compact" /\ bg'.file = bg.file /\ bg'.edit = bg.edit /\ bg'.ok = bg.ok
      /\ bg'.job = "merge" /\ bg'.manual = asked /\ bg'.inputs = S /\ bg'.outputs = bg.outputs /\ bg'.files = f
      /\ IsBg(bg')
  <2>1. bg' = [bg EXCEPT !.pc = "compact", !.job = "merge", !.inputs = S, !.files = f, !.manual = asked]
    BY <1>4
  <2> QED BY <2>1, <1>1 DEF BgShape
<1>8. BgShape' BY <1>1, <1>6, <1>7 DEF BgShape
<1>9. bg'.file = 0 /\ bg'.outputs = {} BY <1>2, <1>3, <1>7 DEF BgInv, Resting
<1>10. /\ Current' = Current /\ Scanned' = Scanned
       /\ HistShape' /\ TruthKept /\ DBShape'
  BY <1>1, <1>3 DEF Current, Scanned, HistShape, TruthKept, DBShape
<1>11. ExactInv' BY <1>2, <1>3, <1>7, <1>10, ExactStays
<1>12. BgInv' BY <1>3, <1>5, <1>6, <1>7, <1>9, <1>10 DEF BgInv, Flushing
<1> QED BY <1>3, <1>8, <1>10, <1>11, <1>12, PrepareStep

(* A compaction that is given up leaves its outputs, which no version *)
(* names. *)
LEMMA AbandonCompactionStep ==
  ASSUME Up, AbandonCompaction
  PROVE  Up'
<1> USE DEF JobKept
<1>1. /\ HistShape /\ DBShape /\ BgShape BY DEF Up, Shape
<1>2. /\ ExactInv /\ BgInv BY DEF Up, UpInv
<1>3. /\ bg.pc = "compact" /\ vset' = vset /\ disk' = disk /\ db' = db
      /\ phase' = phase /\ opening' = opening /\ queue' = queue /\ thread' = thread
      /\ awake' = awake /\ reader' = reader
  BY DEF AbandonCompaction
<1>4. PICK p \in {"install", "msync"}, ok \in BOOLEAN : p = "install" /\ ok = FALSE OBVIOUS
<1>5. bg' = [bg EXCEPT !.pc = p, !.ok = ok] BY <1>4 DEF AbandonCompaction
<1>6. /\ bg'.pc = p /\ bg'.file = bg.file /\ bg'.edit = bg.edit /\ bg'.ok = ok
      /\ JobKept /\ BgShape'
  BY <1>5, <1>1, PcMoves
<1>7. HistShape' /\ TruthKept /\ hist'.opened = hist.opened /\ hist'.repaired = hist.repaired
  <2>1. CASE hist' = hist BY <2>1, <1>1 DEF HistShape, TruthKept
  <2>2. CASE Fault BY <2>2, <1>1, FaultFacts
  <2> QED BY <2>1, <2>2 DEF AbandonCompaction
<1>8. Current' = Current /\ Scanned' = Scanned /\ DBShape' /\ ~Flushing /\ ~Flushing'
  BY <1>1, <1>2, <1>3, <1>6 DEF Current, Scanned, DBShape, BgInv, Flushing
<1>9. ExactInv' BY <1>2, <1>3, <1>4, <1>6, <1>8, ExactStays
<1>10. BgInv' BY <1>2, <1>3, <1>4, <1>6, <1>8 DEF BgInv
<1> QED BY <1>3, <1>6, <1>7, <1>8, <1>9, <1>10, PrepareStep

(* When all entries are written, the outputs hold what the inputs held. *)
LEMMA InstallCompactionResultsStep ==
  ASSUME Up, InstallCompactionResults
  PROVE  Up'
<1> USE DEF IsBg, JobKept
<1>1. /\ DiskShape /\ VersionShape /\ HistShape /\ DBShape /\ BgShape BY DEF Up, Shape
<1>2. /\ NumbersInv /\ ExactInv /\ BgInv /\ StoreInv /\ SeqInv BY DEF Up, UpInv
<1>3. /\ bg.pc = "compact" /\ vset' = vset /\ disk' = disk /\ hist' = hist /\ db' = db
      /\ ~Building /\ Written = Inputs
      /\ phase' = phase /\ opening' = opening /\ queue' = queue /\ thread' = thread
      /\ awake' = awake /\ reader' = reader
  BY DEF InstallCompactionResults
<1>4. PICK add, del, e :
        /\ add = [n \in bg.outputs |-> 1] /\ del = bg.inputs /\ e = LogAndApply(Edit(add, del), vset)
        /\ bg' = [bg EXCEPT !.pc = "append", !.edit = e]
  BY DEF InstallCompactionResults
<1>5. /\ bg.job = "merge" /\ bg.inputs \subseteq Scanned /\ bg.inputs \subseteq DOMAIN bg.files
      /\ bg.outputs \subseteq DOMAIN disk.tables /\ bg.outputs \subseteq db.pending
      /\ bg.inputs \cap bg.outputs = {} /\ ~Flushing
  BY <1>2, <1>3 DEF BgInv
<1>6. IsFiles(add) /\ DOMAIN add = bg.outputs /\ bg.outputs \subseteq Scanned
  BY <1>1, <1>3, <1>4, <1>5 DEF IsFiles, Building, Scanned, DiskShape
<1>7. /\ e.add = add /\ e.del = del /\ e.log = vset.log /\ e.next = vset.next /\ e.last = vset.last
      /\ e = [add |-> e.add, del |-> e.del, log |-> e.log, next |-> e.next, last |-> e.last]
  BY <1>4, LoggedEdit
<1>8. /\ bg'.pc = "append" /\ bg'.file = bg.file /\ bg'.edit = e /\ bg'.ok = bg.ok
      /\ JobKept /\ IsBg(bg')
  <2>1. bg' = [bg EXCEPT !.pc = "append", !.edit = e] BY <1>4
  <2> QED BY <2>1, <1>1 DEF BgShape
<1>9. IsEdit(e)
  <2>1. bg.inputs \subseteq Nat BY <1>1 DEF BgShape
  <2> QED BY <2>1, <1>1, <1>4, <1>6, <1>7 DEF IsEdit, VersionShape
<1>10. BgShape' BY <1>8, <1>9, <1>1 DEF BgShape
<1>11. ~Flushing' /\ Current' = Current /\ Scanned' = Scanned /\ Saids' = Saids
       /\ HistShape' /\ TruthKept /\ DBShape'
  BY <1>1, <1>3, <1>5, <1>8 DEF Flushing, Current, Scanned, Saids, HistShape, TruthKept, DBShape
<1>12. SafeEdit(e)'
  <2>1. DOMAIN e.add \subseteq Scanned /\ e.del \subseteq Scanned BY <1>4, <1>5, <1>6, <1>7
  <2>2. Data(e.del) \subseteq Data(DOMAIN e.add) BY <1>3, <1>4, <1>6, <1>7 DEF Written, Inputs
  <2>3. e.log < e.next BY <1>1, <1>2, <1>7 DEF NumbersInv, VersionShape, DBShape
  <2>4. {e.next, e.last} \subseteq Nat /\ e.next <= vset.next /\ e.last <= vset.last
    BY <1>1, <1>7 DEF VersionShape
  <2>5. \A k \in DOMAIN e.add : k < e.next /\ \A x \in disk.tables[k].data : x[1] <= e.last
    BY <1>2, <1>5, <1>6, <1>7 DEF SeqInv, NumbersInv
  <2>6. Data(e.del)' = Data(e.del) /\ Data(DOMAIN e.add)' = Data(DOMAIN e.add) BY <1>3 DEF Data
  <2> QED BY <2>1, <2>2, <2>3, <2>4, <2>5, <2>6, <1>3, <1>7, <1>11 DEF SafeEdit
<1>13. ExactInv' BY <1>2, <1>3, <1>8, <1>11, ExactStays
<1>14. \A s \in Saids : s.next <= e.next /\ s.last <= e.last BY <1>1, <1>2, <1>7, SaidsBelow
<1>15. BgInv' BY <1>3, <1>5, <1>8, <1>11, <1>12, <1>14 DEF BgInv
<1> QED BY <1>3, <1>10, <1>11, <1>13, <1>15, PrepareStep
-----------------------------------------------------------------------------
(* Outputs of a compaction *)

(* An output that is being written is pending and named by nothing. *)
LEMMA OpenCompactionOutputFileStep ==
  ASSUME Up, OpenCompactionOutputFile
  PROVE  Up'
<1> USE DEF IsBg
<1>1. /\ DiskShape /\ VersionShape /\ HistShape /\ DBShape /\ BgShape BY DEF Up, Shape
<1>2. /\ NumbersInv /\ ExactInv /\ BgInv BY DEF Up, UpInv
<1>3. PICK n, b, out : n = vset.next /\ b = [data |-> {}, whole |-> FALSE] /\ out = bg.outputs \cup {n}
  OBVIOUS
<1>4. /\ bg.pc = "compact"
      /\ bg' = [bg EXCEPT !.outputs = out]
      /\ vset' = [vset EXCEPT !.next = n + 1]
      /\ db' = [db EXCEPT !.pending = @ \cup {n}]
      /\ disk' = [disk EXCEPT !.tables = Put(@, n, b)]
      /\ phase' = phase /\ opening' = opening /\ queue' = queue /\ thread' = thread
      /\ awake' = awake /\ reader' = reader /\ hist' = hist
  BY <1>3 DEF OpenCompactionOutputFile
<1>5. n \in Nat /\ n # 0 /\ n \notin DOMAIN disk.tables /\ IsTable(b)
  BY <1>1, <1>2, <1>3 DEF NumbersInv, VersionShape, DBShape, IsTable
<1>6. /\ vset'.manifest = vset.manifest /\ vset'.last = vset.last /\ vset'.next = n + 1
      /\ vset'.log = vset.log /\ vset'.files = vset.files
      /\ VersionShape' /\ vset.next <= vset'.next
  BY <1>1, <1>3, <1>4, <1>5, NumberTaken
<1>7. /\ db'.log = db.log /\ db'.imm = db.imm /\ db'.memtables = db.memtables
      /\ db'.error = db.error /\ db'.manual = db.manual /\ db'.pending = db.pending \cup {n}
      /\ DBShape'
  <2>1. PICK p \in SUBSET Nat : p = db.pending \cup {n} BY <1>1, <1>5 DEF DBShape
  <2>2. db' = [db EXCEPT !.pending = p] BY <2>1, <1>4
  <2> QED BY <2>1, <2>2, <1>1, PendingIs
<1>8. /\ DiskShape' /\ disk'.logs = disk.logs /\ disk'.manifests = disk.manifests
      /\ disk'.current = disk.current
      /\ DOMAIN disk'.tables = DOMAIN disk.tables \cup {n} /\ disk'.tables[n] = b
      /\ \A k \in DOMAIN disk.tables : disk'.tables[k] = disk.tables[k]
  BY <1>1, <1>4, <1>5, TablePut
<1>9. /\ bg'.pc = "compact" /\ bg'.file = bg.file /\ bg'.edit = bg.edit /\ bg'.ok = bg.ok
      /\ bg'.job = bg.job /\ bg'.manual = bg.manual /\ bg'.inputs = bg.inputs /\ bg'.outputs = out
      /\ bg'.files = bg.files
      /\ IsBg(bg')
  BY <1>1, <1>4 DEF BgShape
<1>10. BgShape' BY <1>1, <1>3, <1>5, <1>9 DEF BgShape
<1>11. HistShape' /\ TruthKept BY <1>1, <1>4 DEF HistShape, TruthKept
<1>12. Current' = Current /\ Scanned' = Scanned /\ TablesKept
  BY <1>3, <1>5, <1>8 DEF Current, Scanned, TablesKept
<1>13. TablesCome
  <2>1. ASSUME NEW k \in DOMAIN disk'.tables
        PROVE  disk'.tables[k].data \subseteq TableData \cup MemData /\ k < vset'.next
    <3>1. CASE k \in DOMAIN disk.tables
      <4>1. k < vset.next /\ k \in Nat BY <3>1, <1>1, <1>2 DEF NumbersInv, DiskShape
      <4>2. k < vset'.next BY <4>1, <1>3, <1>5, <1>6
      <4>3. disk'.tables[k].data \subseteq TableData BY <3>1, <1>8 DEF TableData, Data
      <4> QED BY <4>2, <4>3
    <3>2. CASE k = n BY <3>2, <1>3, <1>5, <1>6, <1>8
    <3> QED BY <3>1, <3>2, <1>8
  <2> QED BY <2>1, <1>12 DEF TablesCome
<1>14. Works BY <1>4, <1>6, <1>7, <1>8, <1>11 DEF Works
<1>15. ExactInv' BY <1>2, <1>4, <1>6, <1>7, <1>9, <1>12, ExactStays
<1>16. /\ bg.job = "merge" /\ bg.inputs \subseteq Scanned /\ bg.inputs \subseteq DOMAIN bg.files
       /\ bg.outputs \subseteq DOMAIN disk.tables /\ bg.outputs \subseteq db.pending
       /\ bg.inputs \cap bg.outputs = {} /\ ~Flushing /\ ~Flushing'
  BY <1>2, <1>4, <1>9 DEF BgInv, Flushing
<1>17. n \notin bg.inputs BY <1>5, <1>16 DEF Scanned
<1>18. BgInv' BY <1>3, <1>4, <1>7, <1>8, <1>9, <1>12, <1>16, <1>17 DEF BgInv
<1> QED BY <1>6, <1>7, <1>8, <1>10, <1>11, <1>13, <1>14, <1>15, <1>18, WorkStep

(* One table changes, the other files do not. *)
LEMMA TableChanges ==
  ASSUME DiskShape, NEW n \in DOMAIN disk.tables, NEW b, IsTable(b),
         disk' = [disk EXCEPT !.tables[n] = b]
  PROVE  /\ DiskShape' /\ disk'.logs = disk.logs /\ disk'.manifests = disk.manifests
         /\ disk'.current = disk.current
         /\ DOMAIN disk'.tables = DOMAIN disk.tables /\ disk'.tables[n] = b
         /\ \A k \in DOMAIN disk.tables \ {n} : disk'.tables[k] = disk.tables[k]
<1>1. PICK f : f = disk.tables OBVIOUS
<1>2. PICK h : h = [f EXCEPT ![n] = b] OBVIOUS
<1>3. DOMAIN h = DOMAIN f /\ h[n] = b /\ \A k \in DOMAIN f \ {n} : h[k] = f[k] BY <1>1, <1>2
<1>4. disk' = [disk EXCEPT !.tables = h] BY <1>1, <1>2
<1>5. /\ disk'.logs = disk.logs /\ disk'.manifests = disk.manifests
      /\ disk'.current = disk.current /\ disk'.tables = h
      /\ disk' = [logs |-> disk'.logs, tables |-> disk'.tables, manifests |-> disk'.manifests,
                  current |-> disk'.current]
  BY <1>4 DEF DiskShape
<1>6. DOMAIN h \subseteq Nat /\ \A k \in DOMAIN h : IsTable(h[k]) BY <1>1, <1>3 DEF DiskShape
<1>7. DiskShape' BY <1>5, <1>6 DEF DiskShape
<1> QED BY <1>1, <1>3, <1>5, <1>7

(* An output is finished with entries of the inputs, no new ones. *)
LEMMA FinishCompactionOutputFileStep ==
  ASSUME Up, FinishCompactionOutputFile
  PROVE  Up'
<1>1. /\ DiskShape /\ VersionShape /\ HistShape /\ DBShape /\ BgShape BY DEF Up, Shape
<1>2. /\ NumbersInv /\ ExactInv /\ BgInv BY DEF Up, UpInv
<1>3. /\ bg.pc = "compact" /\ vset' = vset /\ db' = db /\ bg' = bg /\ hist' = hist
      /\ phase' = phase /\ opening' = opening /\ queue' = queue /\ thread' = thread
      /\ awake' = awake /\ reader' = reader
  BY DEF FinishCompactionOutputFile
<1>15. PICK n \in bg.outputs : ~disk.tables[n].whole
         /\ \E S \in SUBSET Inputs :
              disk' = [disk EXCEPT !.tables[n] = [data |-> S, whole |-> TRUE]]
  BY DEF FinishCompactionOutputFile
<1>16. PICK S \in SUBSET Inputs :
         disk' = [disk EXCEPT !.tables[n] = [data |-> S, whole |-> TRUE]]
  BY <1>15
<1>17. PICK b : b = [data |-> S, whole |-> TRUE] OBVIOUS
<1>4. /\ n \in bg.outputs /\ S \subseteq Inputs /\ ~disk.tables[n].whole
      /\ b = [data |-> S, whole |-> TRUE]
      /\ disk' = [disk EXCEPT !.tables[n] = b]
  BY <1>15, <1>16, <1>17
<1>5. /\ bg.job = "merge" /\ bg.inputs \subseteq Scanned /\ bg.inputs \subseteq DOMAIN bg.files
      /\ bg.outputs \subseteq DOMAIN disk.tables /\ bg.outputs \subseteq db.pending
      /\ bg.inputs \cap bg.outputs = {} /\ ~Flushing
  BY <1>2, <1>3 DEF BgInv
<1>6. S \subseteq TableData /\ S \subseteq Entry
  <2>1. bg.inputs \subseteq DOMAIN disk.tables BY <1>5 DEF Scanned
  <2>2. Inputs \subseteq TableData BY <2>1 DEF Inputs, TableData, Data
  <2>3. TableData \subseteq Entry BY <1>1 DEF TableData, Data, DiskShape, IsTable
  <2> QED BY <2>2, <2>3, <1>4
<1>7. IsTable(b) BY <1>4, <1>6 DEF IsTable
<1>8. /\ DiskShape' /\ disk'.logs = disk.logs /\ disk'.manifests = disk.manifests
      /\ disk'.current = disk.current
      /\ DOMAIN disk'.tables = DOMAIN disk.tables /\ disk'.tables[n] = b
      /\ \A k \in DOMAIN disk.tables \ {n} : disk'.tables[k] = disk.tables[k]
  BY <1>1, <1>4, <1>5, <1>7, TableChanges
<1>9. Current' = Current /\ Scanned \subseteq Scanned' /\ TablesKept
  <2>1. \A k \in Scanned : k \in DOMAIN disk.tables \ {n} /\ disk.tables[k].whole
    BY <1>4 DEF Scanned
  <2> QED BY <2>1, <1>8 DEF Current, Scanned, TablesKept
<1>10. VersionShape' /\ DBShape' /\ HistShape' /\ BgShape' /\ TruthKept /\ vset.next <= vset'.next
  BY <1>1, <1>3 DEF VersionShape, DBShape, HistShape, BgShape, TruthKept
<1>11. TablesCome
  <2>1. ASSUME NEW k \in DOMAIN disk'.tables
        PROVE  disk'.tables[k].data \subseteq TableData \cup MemData /\ k < vset'.next
    <3>1. k < vset'.next BY <1>2, <1>3, <1>8 DEF NumbersInv
    <3>2. CASE k # n BY <3>1, <3>2, <1>8 DEF TableData, Data
    <3>3. CASE k = n BY <3>1, <3>3, <1>4, <1>6, <1>8
    <3> QED BY <3>2, <3>3
  <2> QED BY <2>1, <1>9 DEF TablesCome
<1>12. Works BY <1>3, <1>8, <1>10 DEF Works
<1>13. ExactInv' BY <1>2, <1>3, <1>9, ExactStays
<1>14. BgInv' BY <1>3, <1>5, <1>8, <1>9 DEF BgInv, Flushing
<1> QED BY <1>8, <1>10, <1>11, <1>12, <1>13, <1>14, WorkStep
-----------------------------------------------------------------------------
(* The manifest *)

(* A step of the background thread that changes the manifest keeps the *)
(* invariant if all that the manifest may say after a crash is good. *)
LEMMA ManifestStep ==
  ASSUME Up, DiskShape', BgShape', HistShape', BgInv', ExactInv', TruthKept,
         disk'.logs = disk.logs, disk'.tables = disk.tables, disk'.current = disk.current,
         disk.current \in DOMAIN disk'.manifests, vset' = vset, db' = db, phase' = phase,
         opening' = opening, queue' = queue, thread' = thread, awake' = awake, reader' = reader,
         hist'.opened = hist.opened, hist'.repaired = hist.repaired,
         NEW m, Current' = m, Sound(m)
  PROVE  Up'
<1>1. /\ VersionShape /\ OpeningShape /\ DBShape /\ ThreadShape /\ DiskShape
      /\ ReaderShape /\ Bounded /\ SequencesUnique /\ phase = "up"
  BY DEF Up, Shape
<1>2. /\ QueueInv /\ BatchInv /\ SeqInv /\ NumbersInv /\ StoreInv /\ ExactInv /\ BgInv /\ ReaderInv
  BY DEF Up, UpInv
<1>3. /\ \A n : LogData(n)' = LogData(n) /\ SafeLogData(n)' = SafeLogData(n)
      /\ TablesKept /\ MemKept /\ InMem' = InMem
  BY DEF LogData, SafeLogData, TablesKept, Scanned, MemKept, InMem
<1>4. LogsKept /\ WritersKept /\ OwedKept
  BY <1>3 DEF TruthKept, LogsKept, WritersKept, OwedKept, Owed, OwedSynced, Answered
<1>5. QueueInv' /\ ThreadShape' /\ OpeningShape' /\ ReaderShape' /\ DBShape' /\ VersionShape'
  BY <1>1, <1>2 DEF QueueInv, ThreadShape, OpeningShape, ReaderShape, DBShape, VersionShape
<1>6. NumbersInv' BY <1>2, <1>3 DEF NumbersInv
<1>7. NoNewEntries BY <1>3 DEF NoNewEntries, TableData, Data, MemData
<1>8. SeqInv' BY <1>1, <1>2, <1>4, <1>7, SeqKept
<1>9. Bounded' /\ SequencesUnique'
  <2>1. AllEntries' \subseteq AllEntries BY <1>7, AllEntriesKept
  <2> QED BY <2>1, <1>1, <1>5, <1>6, BoundedKept
<1>10. BatchInv' BY <1>1, <1>2, <1>3, <1>4, BatchKept DEF TruthKept
<1>11. StoreInv'
  <2>1. \A n \in InMem' : Writes(db'.memtables[n]) \subseteq Writes(LogData(n)') \cup hist'.lost
    BY <1>2, <1>3 DEF StoreInv, TruthKept
  <2>2. Good(DOMAIN vset.files, vset.log)'
    <3>1. PICK F, l : F = DOMAIN vset.files /\ l = vset.log OBVIOUS
    <3>2. Good(F, l)' BY <3>1, <1>2, <1>3, <1>4, GoodKept DEF StoreInv
    <3> QED BY <3>1, <3>2
  <2>3. ASSUME NEW s, Fine(s) PROVE Fine(s)'
    <3>1. PICK F, l : F = DOMAIN s.files /\ l = s.log OBVIOUS
    <3>2. Good(F, l) => Good(F, l)' BY <1>3, <1>4, GoodKept
    <3>3. vset.next <= vset'.next /\ vset.last <= vset'.last BY <1>1 DEF VersionShape
    <3> QED BY <2>3, <3>1, <3>2, <3>3, <1>1, <1>3, <1>5, FineKept
  <2>4. Sound(m)' BY <2>3 DEF Sound
  <2> QED BY <2>1, <2>2, <2>4 DEF StoreInv
<1>12. ReaderInv' BY <1>2, <1>3, ReadersKept DEF TruthKept
<1> QED BY <1>1, <1>5, <1>6, <1>8, <1>9, <1>10, <1>11, <1>12 DEF Up, UpInv, Shape

(* The manifest that CURRENT names changes. *)
LEMMA ManifestChanges ==
  ASSUME DiskShape, NEW n, n = disk.current, n \in DOMAIN disk.manifests, NEW m, IsManifest(m),
         disk' = [disk EXCEPT !.manifests = [@ EXCEPT ![n] = m]]
  PROVE  /\ DiskShape' /\ disk'.logs = disk.logs /\ disk'.tables = disk.tables
         /\ disk'.current = disk.current /\ n \in DOMAIN disk'.manifests
         /\ Current = disk.manifests[n] /\ Current' = m
<1>1. PICK f : f = disk.manifests OBVIOUS
<1>2. PICK h : h = [f EXCEPT ![n] = m] OBVIOUS
<1>3. DOMAIN h = DOMAIN f /\ h[n] = m /\ \A k \in DOMAIN f \ {n} : h[k] = f[k] BY <1>1, <1>2
<1>4. disk' = [disk EXCEPT !.manifests = h] BY <1>1, <1>2
<1>5. /\ disk'.logs = disk.logs /\ disk'.manifests = h
      /\ disk'.current = disk.current /\ disk'.tables = disk.tables
      /\ disk' = [logs |-> disk'.logs, tables |-> disk'.tables, manifests |-> disk'.manifests,
                  current |-> disk'.current]
  BY <1>4 DEF DiskShape
<1>6. \A k \in DOMAIN h : IsManifest(h[k]) BY <1>1, <1>3 DEF DiskShape
<1>7. DiskShape' BY <1>5, <1>6 DEF DiskShape
<1>8. Current' = m BY <1>1, <1>3, <1>5 DEF Current
<1> QED BY <1>1, <1>3, <1>5, <1>7, <1>8 DEF Current

(* What a manifest says after one more edit. *)
LEMMA SaysFacts ==
  ASSUME NEW s, NEW e, IsSaid(s), IsEdit(e), {e.log, e.next, e.last} \subseteq Nat
  PROVE  /\ IsSaid(Says(s, e)) /\ Says(s, e).files = Apply(s.files, e)
         /\ DOMAIN Apply(s.files, e) = DOMAIN e.add \cup (DOMAIN s.files \ e.del)
         /\ Says(s, e).log = e.log /\ Says(s, e).next = e.next /\ Says(s, e).last = e.last
<1>1. /\ DOMAIN Apply(s.files, e) = DOMAIN e.add \cup (DOMAIN s.files \ e.del)
      /\ IsFiles(Apply(s.files, e))
  BY ApplyFacts DEF IsSaid, IsEdit
<1>2. e.log # None /\ e.next # None /\ e.last # None BY DEF None
<1>3. Says(s, e) = [files |-> Apply(s.files, e), log |-> e.log, next |-> e.next, last |-> e.last]
  BY <1>2 DEF Says, Latest
<1> QED BY <1>1, <1>3 DEF IsSaid

(* The record that LogAndApply adds leaves a manifest that can be opened, *)
(* or one that says Nothing, if it stands behind part of a record. *)
LEMMA EditRecorded ==
  ASSUME Up, NEW old, IsManifest(old), Sound(old), NEW e, IsEdit(e), SafeEdit(e),
         \A s \in old.left : s.next <= e.next /\ s.last <= e.last,
         NEW m, m = Extended(old, e)
  PROVE  /\ IsManifest(m) /\ Sound(m) /\ m.torn = old.torn
         /\ m.torn => m.all = Nothing
         /\ ~m.torn => /\ m.left = old.left \cup {m.all} /\ m.all.log = e.log
                       /\ m.all.files = Apply(old.all.files, e)
<1>1. /\ DiskShape /\ VersionShape /\ DBShape /\ BgShape BY DEF Up, Shape
<1>2. NumbersInv /\ BgInv BY DEF Up, UpInv
<1>3. /\ SafeEdit(e) /\ IsEdit(e)
      /\ \A s \in old.left : s.next <= e.next /\ s.last <= e.last
  OBVIOUS
<1>4. IsManifest(old) /\ Sound(old) OBVIOUS
<1>5. {e.log, e.next, e.last} \subseteq Nat BY <1>1, <1>3 DEF SafeEdit, DBShape, VersionShape
<1>6. CASE old.torn
  <2>1. m = [old EXCEPT !.all = Nothing, !.left = old.left \cup {Nothing}] BY <1>6 DEF Extended
  <2>2. /\ m.all = Nothing /\ m.left = old.left \cup {Nothing} /\ m.torn = old.torn
        /\ m = [all |-> m.all, left |-> m.left, torn |-> m.torn]
    BY <2>1, <1>4 DEF IsManifest
  <2>3. IsSaid(Nothing) BY DEF Nothing, IsSaid, NoFiles, IsFiles, None
  <2>4. IsManifest(m) BY <2>2, <2>3, <1>4 DEF IsManifest
  <2>5. Sound(m) BY <2>2, <1>4, <1>6 DEF Sound
  <2> QED BY <2>2, <2>4, <2>5, <1>6
<1>7. CASE ~old.torn
  <2>1. PICK a, s : a = old.all /\ s = Says(a, e) OBVIOUS
  <2>2. /\ a # Nothing /\ a \in old.left /\ IsSaid(a) /\ Fine(a)
        /\ \A x \in old.left : x # Nothing /\ Fine(x)
    BY <2>1, <1>4, <1>7 DEF Sound, IsManifest
  <2>3. /\ IsSaid(s) /\ s.files = Apply(a.files, e)
        /\ DOMAIN s.files = DOMAIN e.add \cup (DOMAIN a.files \ e.del)
        /\ s.log = e.log /\ s.next = e.next /\ s.last = e.last
    <3>1. IsSaid(a) /\ IsEdit(e) BY <2>2, <1>3
    <3>2. /\ IsSaid(Says(a, e)) /\ Says(a, e).files = Apply(a.files, e)
          /\ DOMAIN Apply(a.files, e) = DOMAIN e.add \cup (DOMAIN a.files \ e.del)
          /\ Says(a, e).log = e.log /\ Says(a, e).next = e.next /\ Says(a, e).last = e.last
      BY <3>1, <1>5, SaysFacts
    <3> QED BY <3>2, <2>1
  <2>4. /\ Valid(a) /\ Good(DOMAIN a.files, a.log) /\ disk.current < a.next BY <2>2 DEF Fine
  <2>5. m = [old EXCEPT !.all = s, !.left = old.left \cup {s}] BY <2>1, <1>7 DEF Extended
  <2>6. /\ m.all = s /\ m.left = old.left \cup {s} /\ m.torn = old.torn
        /\ m = [all |-> m.all, left |-> m.left, torn |-> m.torn]
    BY <2>5, <1>4 DEF IsManifest
  <2>7. IsManifest(m) BY <2>3, <2>6, <1>4 DEF IsManifest
  <2>8. Valid(s)
    <3>1. DOMAIN s.files \subseteq Scanned BY <2>3, <2>4, <1>3 DEF Valid, SafeEdit
    <3>2. ASSUME NEW k \in DOMAIN s.files
          PROVE  k < s.next /\ \A x \in disk.tables[k].data : x[1] <= s.last
      <4>1. CASE k \in DOMAIN e.add BY <4>1, <2>3, <1>3 DEF SafeEdit
      <4>2. CASE k \in DOMAIN a.files
        <5>1. k < a.next /\ k \in Nat /\ \A x \in disk.tables[k].data : x[1] <= a.last
          BY <4>2, <2>2, <2>4 DEF Valid, IsSaid, IsFiles
        <5>2. a.next <= s.next /\ a.last <= s.last /\ {a.next, a.last} \subseteq Nat
          BY <2>2, <2>3, <2>4, <1>3 DEF Valid
        <5>3. disk.tables[k].data \subseteq Entry
          BY <4>2, <2>4, <1>1 DEF Valid, Scanned, DiskShape, IsTable
        <5> QED BY <5>1, <5>2, <5>3, <1>5, <2>3 DEF Entry
      <4> QED BY <4>1, <4>2, <2>3
    <3>3. s.log < s.next /\ {s.log, s.next, s.last} \subseteq Nat
      BY <1>5, <2>3, <1>3 DEF SafeEdit
    <3> QED BY <3>1, <3>2, <3>3 DEF Valid
  <2>9. Good(DOMAIN s.files, s.log)
    <3>1. PICK F, G, l : F = DOMAIN a.files /\ G = DOMAIN s.files /\ l = s.log OBVIOUS
    <3>2. Data(F) \subseteq Data(G) /\ Data(DOMAIN e.add) \subseteq Data(G)
      <4>1. G = DOMAIN e.add \cup (F \ e.del) BY <3>1, <2>3
      <4>2. Data(e.del) \subseteq Data(DOMAIN e.add) BY <1>3 DEF SafeEdit
      <4> QED BY <4>1, <4>2 DEF Data
    <3>3. Writes(Data(F)) \subseteq Writes(Data(G)) /\ Writes(Data(DOMAIN e.add)) \subseteq Writes(Data(G))
      BY <3>2, WritesGrow
    <3>4. G \subseteq Scanned BY <3>1, <2>8 DEF Valid
    <3>5. l = IF Flushing THEN db.log ELSE vset.log BY <3>1, <2>3, <1>3 DEF SafeEdit
    <3>6. db.imm # 0 /\ l # db.imm => Writes(db.memtables[db.imm]) \subseteq Writes(Data(G))
      BY <3>3, <3>5, <1>2, <1>3 DEF SafeEdit, NumbersInv
    <3>7. Covers(F) BY <3>1, <2>4 DEF Good
    <3>8. Covers(G) BY <3>3, <3>7 DEF Covers
    <3> QED BY <3>1, <3>4, <3>5, <3>6, <3>8 DEF Good
  <2>10. Fine(s)
    <3>1. s.next <= vset.next /\ s.last <= vset.last BY <2>3, <1>3 DEF SafeEdit
    <3>2. disk.current < s.next
      <4>1. a.next <= s.next /\ {a.next, s.next} \subseteq Nat
        BY <2>2, <2>3, <2>4, <1>3, <1>5 DEF Valid
      <4> QED BY <4>1, <2>4, <1>1 DEF DiskShape
    <3> QED BY <3>1, <3>2, <2>8, <2>9 DEF Fine
  <2>11. s # Nothing BY <1>5, <2>3 DEF Nothing, None
  <2>12. \A x \in m.left : x # Nothing /\ Fine(x) /\ x.next <= s.next
    BY <2>2, <2>3, <2>6, <2>10, <2>11, <1>3, <1>5
  <2> QED BY <2>1, <2>3, <2>6, <2>7, <2>11, <2>12, <1>7 DEF Sound
<1> QED BY <1>6, <1>7

(* A failed append ends LogAndApply: it has left the whole record, part of *)
(* it, or nothing. *)
LEMMA AppendManifestStep ==
  ASSUME Up, AppendManifest
  PROVE  Up'
<1> USE DEF JobKept
<1>1. /\ DiskShape /\ VersionShape /\ HistShape /\ DBShape /\ BgShape BY DEF Up, Shape
<1>2. /\ NumbersInv /\ ExactInv /\ BgInv /\ StoreInv BY DEF Up, UpInv
<1>3. /\ bg.pc = "append" /\ vset' = vset /\ db' = db
      /\ phase' = phase /\ opening' = opening /\ queue' = queue /\ thread' = thread
      /\ awake' = awake /\ reader' = reader
  BY DEF AppendManifest
<1>4. PICK n, e, old : n = vset.manifest /\ e = bg.edit /\ old = Current OBVIOUS
<1>5. n = disk.current /\ n \in DOMAIN disk.manifests /\ old = disk.manifests[n] /\ IsManifest(old)
  BY <1>1, <1>2, <1>4 DEF NumbersInv, Current, DiskShape
<1>6. SafeEdit(e) BY <1>2, <1>3, <1>4 DEF BgInv
<1>7. Flushing => db.imm # 0 /\ bg.job # "move" BY <1>2 DEF BgInv
<1>8. bg.job = "merge" =>
         /\ bg.inputs \subseteq Scanned /\ bg.inputs \subseteq DOMAIN bg.files
         /\ bg.outputs \subseteq DOMAIN disk.tables /\ bg.outputs \subseteq db.pending
         /\ bg.inputs \cap bg.outputs = {} /\ (Flushing => bg.file \notin bg.outputs)
  BY <1>2, <1>3 DEF BgInv
<1>9. ~Flushing => bg.job # "none" BY <1>2, <1>3 DEF BgInv
<1>10. PICK m, l : m = Extended(old, e) /\ l = [old EXCEPT !.torn = TRUE] OBVIOUS
<1>11. /\ IsManifest(m) /\ Sound(m) /\ m.torn = old.torn /\ (m.torn => m.all = Nothing)
       /\ ~m.torn => /\ m.left = old.left \cup {m.all} /\ m.all.log = e.log
                     /\ m.all.files = Apply(old.all.files, e)
  <2>1. IsEdit(bg.edit) BY <1>1 DEF BgShape
  <2>2. Sound(old) BY <1>2, <1>4 DEF StoreInv
  <2>3. \A s \in old.left : s.next <= e.next /\ s.last <= e.last
    BY <1>2, <1>3, <1>4 DEF BgInv, Saids
  <2>4. IsEdit(e) /\ IsManifest(old) /\ SafeEdit(e) BY <2>1, <1>4, <1>5, <1>6
  <2> QED BY <2>2, <2>3, <2>4, <1>10, EditRecorded
<1>12. IsManifest(l) /\ Sound(l)
  <2>1. /\ l.all = old.all /\ l.left = old.left /\ l.torn = TRUE
        /\ l = [all |-> l.all, left |-> l.left, torn |-> l.torn]
    BY <1>5, <1>10 DEF IsManifest
  <2> QED BY <2>1, <1>2, <1>4, <1>5 DEF IsManifest, StoreInv, Sound
<1>13. ASSUME NEW p \in {"install", "msync"}, NEW ok \in BOOLEAN, bg' = [bg EXCEPT !.pc = p, !.ok = ok]
       PROVE  /\ bg'.pc = p /\ bg'.file = bg.file /\ bg'.edit = bg.edit /\ bg'.ok = ok
              /\ JobKept /\ BgShape'
  BY <1>1, <1>13, PcMoves
<1>14. ASSUME NEW x, IsManifest(x), disk' = [disk EXCEPT !.manifests = [@ EXCEPT ![n] = x]]
       PROVE  /\ DiskShape' /\ disk'.logs = disk.logs /\ disk'.tables = disk.tables
              /\ disk'.current = disk.current /\ n \in DOMAIN disk'.manifests /\ Current' = x
  BY <1>1, <1>5, <1>14, ManifestChanges
<1>15. disk' = [disk EXCEPT !.manifests[n] = Extended(@, e)] =>
         disk' = [disk EXCEPT !.manifests = [@ EXCEPT ![n] = m]]
  BY <1>5, <1>10
<1>16. disk' = [disk EXCEPT !.manifests[n].torn = TRUE] =>
         disk' = [disk EXCEPT !.manifests = [@ EXCEPT ![n] = l]]
  BY <1>5, <1>10
<1>20. CASE /\ disk' = [disk EXCEPT !.manifests[n] = Extended(@, e)]
            /\ bg' = [bg EXCEPT !.pc = "msync"] /\ UNCHANGED hist
  <2>1. /\ DiskShape' /\ disk'.logs = disk.logs /\ disk'.tables = disk.tables
        /\ disk'.current = disk.current /\ n \in DOMAIN disk'.manifests /\ Current' = m
    BY <1>11, <1>14, <1>15, <1>20
  <2>2. /\ bg'.pc = "msync" /\ bg'.file = bg.file /\ bg'.edit = bg.edit /\ bg'.ok = bg.ok
        /\ JobKept /\ BgShape'
    <3>1. PICK p \in {"install", "msync"}, ok \in BOOLEAN : p = "msync" /\ ok = bg.ok
      BY <1>1 DEF BgShape
    <3>2. bg' = [bg EXCEPT !.pc = p, !.ok = ok] BY <3>1, <1>1, <1>20 DEF BgShape
    <3> QED BY <3>1, <3>2, <1>13
  <2>3. HistShape' /\ TruthKept /\ hist'.opened = hist.opened /\ hist'.repaired = hist.repaired
    BY <1>1, <1>20 DEF HistShape, TruthKept
  <2>4. Flushing' = Flushing /\ Scanned' = Scanned BY <2>1, <2>2 DEF Flushing, Scanned
  <2>5. SafeEdit(e)'
    <3>1. TablesKept /\ ImmKept /\ VersionShape'
      BY <2>1, <1>1, <1>3 DEF TablesKept, Scanned, ImmKept, VersionShape
    <3>2. vset.next <= vset'.next /\ vset.last <= vset'.last BY <1>1, <1>3 DEF VersionShape
    <3> QED BY <3>1, <3>2, <2>4, <1>1, <1>3, <1>6, <1>7, SafeEditKept
  <2>6. ExactInv'
    <3> SUFFICES ASSUME ~db.error
                 PROVE  ~m.torn /\ ExactAfter(m.all)' /\ \A s \in m.left : s = m.all \/ Exact(s)'
      BY <2>1, <2>2, <1>3 DEF ExactInv, Saids
    <3>1. ~old.torn /\ \A s \in old.left : Exact(s) BY <1>2, <1>3, <1>4 DEF ExactInv, Saids
    <3>2. old.all \in old.left BY <1>5 DEF IsManifest
    <3> QED BY <3>1, <3>2, <2>2, <1>3, <1>4, <1>11 DEF Exact, ExactAfter
  <2>7. BgInv' BY <2>1, <2>2, <2>4, <2>5, <1>3, <1>4, <1>7, <1>8, <1>9, <1>11 DEF BgInv
  <2> QED BY <2>1, <2>2, <2>3, <2>6, <2>7, <1>3, <1>5, <1>11, ManifestStep
<1>21. ASSUME Fault, bg' = [bg EXCEPT !.pc = "install", !.ok = FALSE]
       PROVE  /\ bg'.pc = "install" /\ ~bg'.ok /\ BgShape' /\ Flushing' = Flushing
              /\ HistShape' /\ TruthKept /\ hist'.opened = hist.opened /\ hist'.repaired = hist.repaired
              /\ ExactInv'
              /\ DOMAIN disk'.tables = DOMAIN disk.tables /\ Scanned' = Scanned => BgInv'
  <2>1. PICK p \in {"install", "msync"}, ok \in BOOLEAN : p = "install" /\ ok = FALSE OBVIOUS
  <2>2. bg' = [bg EXCEPT !.pc = p, !.ok = ok] BY <2>1, <1>21
  <2>3. /\ bg'.pc = p /\ bg'.file = bg.file /\ bg'.edit = bg.edit /\ bg'.ok = ok
        /\ JobKept /\ BgShape'
    BY <2>2, <1>13
  <2>4. HistShape' /\ TruthKept /\ hist'.opened = hist.opened /\ hist'.repaired = hist.repaired
    BY <1>1, <1>21, FaultFacts
  <2>5. Flushing' = Flushing BY <2>3 DEF Flushing
  <2>6. ExactInv' BY <2>1, <2>3 DEF ExactInv
  <2>7. DOMAIN disk'.tables = DOMAIN disk.tables /\ Scanned' = Scanned => BgInv'
    BY <2>1, <2>3, <2>5, <1>3, <1>7, <1>8, <1>9 DEF BgInv
  <2> QED BY <2>1, <2>3, <2>4, <2>5, <2>6, <2>7
<1>22. CASE /\ Fault /\ bg' = [bg EXCEPT !.pc = "install", !.ok = FALSE]
            /\ \/ disk' = [disk EXCEPT !.manifests[n] = Extended(@, e)]
               \/ disk' = [disk EXCEPT !.manifests[n].torn = TRUE]
  <2>1. PICK x : /\ disk' = [disk EXCEPT !.manifests = [@ EXCEPT ![n] = x]]
                 /\ x = m \/ x = l
    BY <1>15, <1>16, <1>22
  <2>2. IsManifest(x) /\ Sound(x) BY <2>1, <1>11, <1>12
  <2>3. /\ DiskShape' /\ disk'.logs = disk.logs /\ disk'.tables = disk.tables
        /\ disk'.current = disk.current /\ n \in DOMAIN disk'.manifests /\ Current' = x
    BY <2>1, <2>2, <1>14
  <2>4. Scanned' = Scanned BY <2>3 DEF Scanned
  <2> QED BY <2>2, <2>3, <2>4, <1>3, <1>5, <1>21, <1>22, ManifestStep
<1>23. CASE Fault /\ bg' = [bg EXCEPT !.pc = "install", !.ok = FALSE] /\ UNCHANGED disk
  <2>1. Scanned' = Scanned /\ DBShape' BY <1>1, <1>3, <1>23 DEF Scanned, DBShape
  <2> QED BY <2>1, <1>3, <1>21, <1>23, PrepareStep
<1> QED BY <1>4, <1>20, <1>22, <1>23 DEF AppendManifest

(* After the sync the manifest says the new state for certain; after a *)
(* failed one, the old or the new. *)
LEMMA SyncManifestStep ==
  ASSUME Up, SyncManifest
  PROVE  Up'
<1> USE DEF JobKept
<1>1. /\ DiskShape /\ VersionShape /\ HistShape /\ DBShape /\ BgShape BY DEF Up, Shape
<1>2. /\ NumbersInv /\ ExactInv /\ BgInv /\ StoreInv BY DEF Up, UpInv
<1>3. /\ bg.pc = "msync" /\ vset' = vset /\ db' = db
      /\ phase' = phase /\ opening' = opening /\ queue' = queue /\ thread' = thread
      /\ awake' = awake /\ reader' = reader
  BY DEF SyncManifest
<1>4. PICK n, e : n = vset.manifest /\ e = bg.edit OBVIOUS
<1>5. n = disk.current /\ n \in DOMAIN disk.manifests BY <1>2, <1>4 DEF NumbersInv
<1>6. SafeEdit(e) /\ (Current.all = Nothing \/ Current.all.log = e.log)
  BY <1>1, <1>2, <1>3, <1>4 DEF BgInv, BgShape
<1>7. Flushing => db.imm # 0 /\ bg.job # "move" BY <1>2 DEF BgInv
<1>8. bg.job = "merge" =>
         /\ bg.inputs \subseteq Scanned /\ bg.inputs \subseteq DOMAIN bg.files
         /\ bg.outputs \subseteq DOMAIN disk.tables /\ bg.outputs \subseteq db.pending
         /\ bg.inputs \cap bg.outputs = {} /\ (Flushing => bg.file \notin bg.outputs)
  BY <1>2, <1>3 DEF BgInv
<1>9. ~Flushing => bg.job # "none" BY <1>2, <1>3 DEF BgInv
<1>10. CASE /\ disk' = [disk EXCEPT !.manifests[n].left = {disk.manifests[n].all}]
            /\ bg' = [bg EXCEPT !.pc = "install"] /\ UNCHANGED hist
  <2>1. PICK old, s, m : /\ old = disk.manifests[n] /\ s = old.all /\ m = [old EXCEPT !.left = {s}]
    OBVIOUS
  <2>2. IsManifest(old) /\ Sound(old) /\ old = Current
    BY <2>1, <1>1, <1>2, <1>5 DEF DiskShape, StoreInv, Current
  <2>3. /\ m.all = s /\ m.left = {s} /\ m.torn = old.torn
        /\ m = [all |-> m.all, left |-> m.left, torn |-> m.torn]
    BY <2>1, <2>2 DEF IsManifest
  <2>4. IsManifest(m) /\ s \in old.left BY <2>1, <2>2, <2>3 DEF IsManifest
  <2>5. disk' = [disk EXCEPT !.manifests = [@ EXCEPT ![n] = m]] BY <2>1, <1>10
  <2>6. /\ DiskShape' /\ disk'.logs = disk.logs /\ disk'.tables = disk.tables
        /\ disk'.current = disk.current /\ n \in DOMAIN disk'.manifests
        /\ Current' = m
    BY <2>4, <2>5, <1>1, <1>5, ManifestChanges
  <2>7. Sound(m) BY <2>1, <2>2, <2>3, <2>4 DEF Sound
  <2>10. /\ bg'.pc = "install" /\ bg'.file = bg.file /\ bg'.edit = bg.edit /\ bg'.ok = bg.ok
         /\ JobKept /\ BgShape'
    <3>1. PICK p \in {"install", "msync"}, ok \in BOOLEAN : p = "install" /\ ok = bg.ok
      BY <1>1 DEF BgShape
    <3>2. bg' = [bg EXCEPT !.pc = p, !.ok = ok] BY <3>1, <1>1, <1>10 DEF BgShape
    <3> QED BY <3>1, <3>2, <1>1, PcMoves
  <2>11. HistShape' /\ TruthKept /\ hist'.opened = hist.opened /\ hist'.repaired = hist.repaired
    BY <1>1, <1>10 DEF HistShape, TruthKept
  <2>12. Flushing' = Flushing /\ Scanned' = Scanned BY <2>6, <2>10 DEF Flushing, Scanned
  <2>13. SafeEdit(e)'
    <3>1. TablesKept /\ ImmKept /\ VersionShape'
      BY <2>6, <1>1, <1>3 DEF TablesKept, Scanned, ImmKept, VersionShape
    <3>2. vset.next <= vset'.next /\ vset.last <= vset'.last BY <1>1, <1>3 DEF VersionShape
    <3> QED BY <3>1, <3>2, <2>12, <1>1, <1>3, <1>6, <1>7, SafeEditKept
  <2>14. ExactInv'
    <3> SUFFICES ASSUME ~db.error
                 PROVE  ~m.torn /\ ExactAfter(s)'
      BY <2>3, <2>6, <2>10, <1>3 DEF ExactInv, Saids
    <3>1. ~old.torn /\ ExactAfter(s) BY <1>2, <1>3, <2>1, <2>2 DEF ExactInv
    <3> QED BY <3>1, <2>3, <2>10, <1>3 DEF ExactAfter
  <2>15. \A x \in Saids' : x = Nothing \/ x.log = e.log
    BY <2>1, <2>2, <2>3, <2>6, <1>6 DEF Saids
  <2>16. BgInv' BY <2>6, <2>10, <2>12, <2>13, <2>15, <1>3, <1>4, <1>7, <1>8, <1>9 DEF BgInv
  <2> QED BY <2>6, <2>7, <2>10, <2>11, <2>14, <2>16, <1>3, <1>5, ManifestStep
<1>11. CASE /\ Fault /\ bg' = [bg EXCEPT !.pc = "install", !.ok = FALSE] /\ UNCHANGED disk
  <2>1. PICK p \in {"install", "msync"}, ok \in BOOLEAN : p = "install" /\ ok = FALSE OBVIOUS
  <2>2. bg' = [bg EXCEPT !.pc = p, !.ok = ok] BY <2>1, <1>11
  <2>3. /\ bg'.pc = p /\ bg'.file = bg.file /\ bg'.edit = bg.edit /\ bg'.ok = ok
        /\ JobKept /\ BgShape'
    BY <2>2, <1>1, PcMoves
  <2>4. HistShape' /\ TruthKept /\ hist'.opened = hist.opened /\ hist'.repaired = hist.repaired
    BY <1>1, <1>11, FaultFacts
  <2>5. Current' = Current /\ Scanned' = Scanned /\ DBShape' /\ Flushing' = Flushing
    BY <2>3, <1>1, <1>3, <1>11 DEF Current, Scanned, DBShape, Flushing
  <2>6. ExactInv' BY <2>1, <2>3 DEF ExactInv
  <2>7. BgInv' BY <2>1, <2>3, <2>5, <1>3, <1>7, <1>8, <1>9, <1>11 DEF BgInv
  <2> QED BY <2>3, <2>4, <2>5, <2>6, <2>7, <1>3, <1>11, PrepareStep
<1> QED BY <1>4, <1>10, <1>11 DEF SyncManifest
-----------------------------------------------------------------------------
(* A version is installed, obsolete files are deleted *)

(* DeleteObsoleteFiles changes no file that it leaves, and leaves the logs *)
(* from the version's number on, the manifest in use, and the tables that *)
(* are pending or in a version of the list. *)
LEMMA DeleteFacts ==
  ASSUME DiskShape, NEW v, NEW d, NEW V, d.error \in BOOLEAN,
         disk' = DeleteObsoleteFiles(disk, v, d, V)
  PROVE  /\ DiskShape' /\ disk'.current = disk.current
         /\ DOMAIN disk'.logs \subseteq DOMAIN disk.logs
         /\ \A n \in DOMAIN disk'.logs : disk'.logs[n] = disk.logs[n]
         /\ \A n \in DOMAIN disk.logs : n >= v.log => n \in DOMAIN disk'.logs
         /\ DOMAIN disk'.manifests \subseteq DOMAIN disk.manifests
         /\ \A n \in DOMAIN disk'.manifests : disk'.manifests[n] = disk.manifests[n]
         /\ \A n \in DOMAIN disk.manifests : ~(n < v.manifest) => n \in DOMAIN disk'.manifests
         /\ DOMAIN disk'.tables \subseteq DOMAIN disk.tables
         /\ \A n \in DOMAIN disk'.tables : disk'.tables[n] = disk.tables[n]
         /\ \A n \in DOMAIN disk.tables :
              d.error \/ n \in d.pending \/ (\E f \in V : n \in DOMAIN f) => n \in DOMAIN disk'.tables
<1>1. CASE d.error
  <2>1. disk' = disk BY <1>1 DEF DeleteObsoleteFiles
  <2>2. DiskShape' BY <2>1 DEF DiskShape
  <2> QED BY <2>1, <2>2
<1>2. CASE ~d.error
  <2>1. PICK live : live = d.pending \cup (UNION {DOMAIN f : f \in V}) OBVIOUS
  <2>2. PICK l, m, b :
          /\ l = Without(disk.logs, {n \in DOMAIN disk.logs : ~(n >= v.log)})
          /\ m = Without(disk.manifests, {n \in DOMAIN disk.manifests : n < v.manifest})
          /\ b = Without(disk.tables, DOMAIN disk.tables \ live)
    OBVIOUS
  <2>3. disk' = [disk EXCEPT !.logs = l, !.manifests = m, !.tables = b]
    BY <1>2, <2>1, <2>2 DEF DeleteObsoleteFiles, Keep
  <2>4. /\ disk'.logs = l /\ disk'.manifests = m /\ disk'.tables = b
        /\ disk'.current = disk.current
        /\ disk' = [logs |-> disk'.logs, tables |-> disk'.tables, manifests |-> disk'.manifests,
                    current |-> disk'.current]
    BY <2>3 DEF DiskShape
  <2>5. /\ DOMAIN l \subseteq DOMAIN disk.logs
        /\ \A n \in DOMAIN l : l[n] = disk.logs[n]
        /\ \A n \in DOMAIN disk.logs : n >= v.log => n \in DOMAIN l
    BY <2>2 DEF Without
  <2>6. /\ DOMAIN m \subseteq DOMAIN disk.manifests
        /\ \A n \in DOMAIN m : m[n] = disk.manifests[n]
        /\ \A n \in DOMAIN disk.manifests : ~(n < v.manifest) => n \in DOMAIN m
    BY <2>2 DEF Without
  <2>7. /\ DOMAIN b \subseteq DOMAIN disk.tables
        /\ \A n \in DOMAIN b : b[n] = disk.tables[n]
        /\ \A n \in DOMAIN disk.tables :
             n \in d.pending \/ (\E f \in V : n \in DOMAIN f) => n \in DOMAIN b
    BY <2>1, <2>2 DEF Without
  <2>8. DiskShape' BY <2>4, <2>5, <2>6, <2>7 DEF DiskShape
  <2> QED BY <1>2, <2>4, <2>5, <2>6, <2>7, <2>8
<1> QED BY <1>1, <1>2

(* Nothing but the memtable in use and the tables is needed of what was *)
(* flushed. *)
LEMMA GoodInstalled ==
  ASSUME NEW F, NEW l, F \subseteq Scanned, Covers(F), FilesKept(F), OwedKept,
         l \in {vset'.log, db'.log}, db'.log = db.log, db'.imm \in {0, db.imm},
         db.imm # 0 /\ (l # db.imm \/ db'.imm # db.imm) =>
           Writes(db.memtables[db.imm]) \subseteq Writes(Data(F)),
         \A n \in {db'.log, db'.imm} \ {0} :
           db'.memtables[n] = db.memtables[n] /\ SafeLogData(n)' = SafeLogData(n)
  PROVE  Good(F, l)'
<1>1. F \subseteq Scanned' /\ Data(F)' = Data(F) BY DEF FilesKept, Data
<1>2. ASSUME NEW n \in InMem, n \notin InMem'
      PROVE  Writes(db.memtables[n]) \subseteq Writes(Data(F))
  BY <1>2 DEF InMem
<1>3. \A n \in InMem' : db'.memtables[n] = db.memtables[n] /\ SafeLogData(n)' = SafeLogData(n)
  BY DEF InMem
<1>4. ASSUME NEW w \in Owed'
      PROVE  w \in Writes(Data(F)') \/ \E n \in InMem' : w \in Writes(db'.memtables[n])
  BY <1>1, <1>2, <1>3 DEF OwedKept, Covers
<1>5. ASSUME NEW w \in OwedSynced'
      PROVE  w \in Writes(Data(F)')
             \/ \E n \in InMem' : w \in Writes(db'.memtables[n]) /\ w \in Writes(SafeLogData(n)')
  BY <1>1, <1>2, <1>3 DEF OwedKept, Covers
<1>6. Covers(F)' BY <1>4, <1>5 DEF Covers
<1>7. db'.imm # 0 /\ l # db'.imm => Writes(db'.memtables[db'.imm]) \subseteq Writes(Data(F)')
  BY <1>1, <1>3 DEF InMem
<1> QED BY <1>1, <1>6, <1>7 DEF Good

(* A step that installs an edit and deletes files keeps the invariant if *)
(* what it deletes is said by nothing that may be read again. *)
LEMMA InstallStep ==
  ASSUME Up, Installs, Cleans, DiskShape', VersionShape', DBShape', BgShape', ThreadShape',
         QueueInv', BgInv', ExactInv', WritersKept, OwedKept
  PROVE  Up'
<1>1. /\ DiskShape /\ VersionShape /\ OpeningShape /\ HistShape /\ DBShape /\ ThreadShape
      /\ ReaderShape /\ Bounded /\ SequencesUnique /\ phase = "up"
  BY DEF Up, Shape
<1>2. /\ BatchInv /\ SeqInv /\ NumbersInv /\ StoreInv /\ ReaderInv BY DEF Up, UpInv
<1>3. HistShape' /\ OpeningShape' /\ ReaderShape'
  BY <1>1 DEF Installs, HistShape, OpeningShape, ReaderShape
<1>4. ASSUME NEW n \in {db'.log, db'.imm} \ {0}
      PROVE  /\ n \in InMem /\ n \in DOMAIN disk.logs /\ n \in DOMAIN disk'.logs
             /\ disk'.logs[n] = disk.logs[n] /\ n >= vset'.log
             /\ n \in DOMAIN db'.memtables /\ db'.memtables[n] = db.memtables[n]
  <2>1. n \in InMem BY DEF Installs, InMem
  <2>2. n \in DOMAIN disk.logs /\ n \in DOMAIN db.memtables BY <2>1, <1>2 DEF NumbersInv
  <2>3. n >= vset'.log BY <1>1, <1>2 DEF Installs, NumbersInv, DBShape
  <2>4. n \in DOMAIN disk'.logs /\ disk'.logs[n] = disk.logs[n] BY <2>2, <2>3 DEF Cleans
  <2>5. n \in DOMAIN db'.memtables /\ db'.memtables[n] = db.memtables[n] BY <2>2 DEF Installs
  <2> QED BY <2>1, <2>2, <2>3, <2>4, <2>5
<1>5. \A n \in DOMAIN disk'.logs : LogData(n)' = LogData(n) /\ SafeLogData(n)' = SafeLogData(n)
  BY DEF Cleans, LogData, SafeLogData
<1>6. ASSUME NEW F, F \subseteq Scanned, F \subseteq DOMAIN disk'.tables
      PROVE  FilesKept(F) /\ F \subseteq Scanned' /\ Data(F)' = Data(F)
  <2>1. FilesKept(F) BY <1>6 DEF Cleans, FilesKept, Scanned
  <2> QED BY <2>1 DEF FilesKept, Data
<1>7. NumbersInv'
  <2>1. InMem' \subseteq DOMAIN disk'.logs \cap DOMAIN db'.memtables BY <1>4 DEF InMem
  <2>2. 0 < db'.log /\ db'.imm < db'.log /\ db'.log < vset'.next
    BY <1>1, <1>2 DEF Installs, NumbersInv, DBShape
  <2>3. \A n \in DOMAIN disk'.logs \cup DOMAIN disk'.tables \cup DOMAIN db'.memtables : n < vset'.next
    BY <1>2 DEF Installs, Cleans, NumbersInv
  <2> QED BY <2>1, <2>2, <2>3, <1>2 DEF NumbersInv, Installs, Cleans
<1>8. NoNewEntries BY <1>5 DEF NoNewEntries, Cleans, Installs, TableData, Data, MemData
<1>9. SeqInv' BY <1>1, <1>2, <1>8, SeqKept DEF Installs
<1>10. Bounded' /\ SequencesUnique'
  <2>1. AllEntries' \subseteq AllEntries BY <1>8, AllEntriesKept
  <2> QED BY <2>1, <1>1, <1>7, BoundedKept
<1>11. db.log # 0 BY <1>1, <1>2 DEF NumbersInv, DBShape
<1>12. BatchInv'
  <2>1. db'.log = db.log /\ hist'.lost = hist.lost /\ vset'.last = vset.last BY DEF Installs
  <2>2. LogData(db.log)' = LogData(db.log) /\ SafeLogData(db.log)' = SafeLogData(db.log)
    <3>1. PICK n : n = db.log OBVIOUS
    <3>2. n \in DOMAIN disk'.logs BY <3>1, <2>1, <1>4, <1>11
    <3>3. LogData(n)' = LogData(n) /\ SafeLogData(n)' = SafeLogData(n) BY <3>2, <1>5
    <3> QED BY <3>1, <3>3, <2>1
  <2> QED BY <2>1, <2>2, <1>1, <1>2, BatchKept
<1>13. \A n \in {db'.log, db'.imm} \ {0} :
         db'.memtables[n] = db.memtables[n] /\ SafeLogData(n)' = SafeLogData(n)
  BY <1>4, <1>5
<1>14. ASSUME NEW s \in Saids, Fine(s)
       PROVE  Fine(s)'
  <2>1. /\ Valid(s) /\ Good(DOMAIN s.files, s.log) /\ s.next <= vset.next /\ s.last <= vset.last
        /\ disk.current < s.next
    BY <1>14 DEF Fine
  <2>11. s # Nothing BY <2>1 DEF Valid, Nothing, None
  <2>2. PICK F, l : F = DOMAIN s.files /\ l = s.log OBVIOUS
  <2>3. F \subseteq Scanned /\ F \subseteq DOMAIN disk'.tables BY <2>1, <2>2 DEF Valid, Cleans
  <2>4. FilesKept(F) /\ F \subseteq Scanned' BY <2>3, <1>6
  <2>5. Valid(s)' BY <2>1, <2>2, <2>4 DEF Valid, FilesKept
  <2>6. Good(F, l) BY <2>1, <2>2
  <2>7. l \in {vset'.log, db'.log} BY <2>2, <2>6, <2>11, <1>2 DEF Good, Installs, NumbersInv
  <2>8. ASSUME db.imm # 0, l # db.imm \/ db'.imm # db.imm
        PROVE  Writes(db.memtables[db.imm]) \subseteq Writes(Data(F))
    <3>1. l # db.imm BY <2>2, <2>8, <2>11, <1>1, <1>2 DEF Installs, NumbersInv, DBShape
    <3> QED BY <3>1, <2>6, <2>8 DEF Good
  <2>9. Good(F, l)' BY <2>3, <2>4, <2>6, <2>7, <2>8, <1>13, GoodInstalled DEF Good, Installs
  <2>10. Good(DOMAIN s.files, s.log)' BY <2>2, <2>9
  <2> QED BY <2>1, <2>5, <2>10 DEF Installs, Cleans, Fine
<1>15. Good(DOMAIN vset.files, vset.log)'
  <2>1. PICK F, G, l : F = DOMAIN vset.files /\ G = DOMAIN vset'.files /\ l = vset'.log OBVIOUS
  <2>2. G \subseteq Scanned /\ G \subseteq DOMAIN disk'.tables /\ Data(F) \subseteq Data(G)
    BY <2>1 DEF Installs, Cleans
  <2>3. FilesKept(G) BY <2>2, <1>6
  <2>4. Writes(Data(F)) \subseteq Writes(Data(G)) BY <2>2, WritesGrow
  <2>5. Covers(F) BY <2>1, <1>2 DEF StoreInv, Good
  <2>6. Covers(G) BY <2>4, <2>5 DEF Covers
  <2>7. ASSUME db.imm # 0, l # db.imm \/ db'.imm # db.imm
        PROVE  Writes(db.memtables[db.imm]) \subseteq Writes(Data(G))
    <3>1. db'.imm # db.imm BY <2>1, <2>7 DEF Installs
    <3> QED BY <2>1, <3>1 DEF Installs
  <2>8. Good(G, l)' BY <2>1, <2>2, <2>3, <2>6, <2>7, <1>13, GoodInstalled DEF Installs
  <2> QED BY <2>1, <2>8
<1>16. StoreInv'
  <2>1. ASSUME NEW n \in InMem'
        PROVE  Writes(db'.memtables[n]) \subseteq Writes(LogData(n)') \cup hist'.lost
    <3>1. n \in {db'.log, db'.imm} \ {0} BY DEF InMem
    <3>2. n \in InMem /\ db'.memtables[n] = db.memtables[n] /\ LogData(n)' = LogData(n)
      BY <3>1, <1>4, <1>5
    <3> QED BY <3>2, <1>2 DEF StoreInv, Installs
  <2>2. PICK m : m = Current /\ m = Current' BY DEF Cleans
  <2>3. Sound(m) BY <2>2, <1>2 DEF StoreInv
  <2>4. \A s \in m.left : Fine(s) => Fine(s)' BY <2>2, <1>14 DEF Saids
  <2>5. Sound(m)' BY <2>3, <2>4 DEF Sound
  <2> QED BY <2>1, <2>2, <2>5, <1>15 DEF StoreInv
<1>17. ReaderInv'
  <2> SUFFICES ASSUME NEW r \in Readers, reader'[r].pc = "reading"
               PROVE  /\ DOMAIN reader'[r].files \subseteq Scanned'
                      /\ {reader'[r].mem, reader'[r].imm} \ {0} \subseteq DOMAIN db'.memtables
                      /\ \A w \in reader'[r].expect \ hist'.lost :
                           \E e \in Found(r)' : e[1] <= reader'[r].snap /\ e[2] = w
    BY DEF ReaderInv
  <2>1. reader'[r] = reader[r] /\ reader[r].pc = "reading" /\ hist.lost \subseteq hist'.lost
    BY DEF Installs
  <2>2. FilesKept(DOMAIN reader[r].files) BY <2>1, <1>2, <1>6 DEF ReaderInv, Cleans
  <2>3. \A n \in {reader[r].mem, reader[r].imm} \cap DOMAIN db.memtables :
          n \in DOMAIN db'.memtables /\ db.memtables[n] \subseteq db'.memtables[n]
    BY DEF Installs
  <2> QED BY <2>1, <2>2, <2>3, <1>2, ReaderKeeps
<1> QED BY <1>1, <1>3, <1>7, <1>9, <1>10, <1>12, <1>16, <1>17 DEF Up, UpInv, Shape, Installs
-----------------------------------------------------------------------------
(* The ends of LogAndApply *)

(* The version after an edit. *)
LEMMA InstalledFacts ==
  ASSUME VersionShape, DBShape, NEW e, e = bg.edit, IsEdit(e), SafeEdit(e),
         NEW v, v = Installed(vset)
  PROVE  /\ v = [next |-> v.next, manifest |-> v.manifest, last |-> v.last,
                 log |-> v.log, files |-> v.files]
         /\ v.next = vset.next /\ v.manifest = vset.manifest /\ v.last = vset.last
         /\ v.log = e.log /\ v.log \in Nat /\ v.files = Apply(vset.files, e) /\ IsFiles(v.files)
         /\ DOMAIN v.files = DOMAIN e.add \cup (DOMAIN vset.files \ e.del)
<1>1. /\ v = [next |-> v.next, manifest |-> v.manifest, last |-> v.last,
              log |-> v.log, files |-> v.files]
      /\ v.next = vset.next /\ v.manifest = vset.manifest /\ v.last = vset.last
      /\ v.log = e.log /\ v.files = Apply(vset.files, e)
  BY DEF Installed, VersionShape
<1>2. e.log \in Nat BY DEF SafeEdit, VersionShape, DBShape
<1>3. PICK f, g : f = vset.files /\ g = Apply(f, e) OBVIOUS
<1>4. DOMAIN g = DOMAIN e.add \cup (DOMAIN f \ e.del) /\ IsFiles(g)
  BY <1>3, ApplyFacts DEF VersionShape, IsEdit
<1> QED BY <1>1, <1>2, <1>3, <1>4

(* The tables of the edit stand for those it deletes. *)
LEMMA EditCovers ==
  ASSUME NEW e, SafeEdit(e), NEW F, F \subseteq Scanned, NEW G, G = DOMAIN e.add \cup (F \ e.del)
  PROVE  /\ G \subseteq Scanned /\ Data(F) \subseteq Data(G)
         /\ Data(DOMAIN e.add) \subseteq Data(G)
         /\ Flushing => Writes(db.memtables[db.imm]) \subseteq Writes(Data(G))
<1>1. Data(e.del) \subseteq Data(DOMAIN e.add) BY DEF SafeEdit
<1>2. Data(F) \subseteq Data(G) /\ Data(DOMAIN e.add) \subseteq Data(G) BY <1>1 DEF Data
<1>3. Writes(Data(DOMAIN e.add)) \subseteq Writes(Data(G)) BY <1>2, WritesGrow
<1> QED BY <1>2, <1>3 DEF SafeEdit

(* The fields of the background thread. *)
LEMMA BgShapeOf ==
  ASSUME NEW p \in {"idle", "build", "built", "append", "msync", "install", "compact"},
         NEW j \in {"none", "move", "merge"}, NEW n \in Nat, NEW ok \in BOOLEAN,
         NEW a \in BOOLEAN, NEW i \in SUBSET Nat, NEW o \in SUBSET Nat, NEW f, NEW e, IsEdit(e),
         bg' = [pc |-> p, file |-> n, edit |-> e, ok |-> ok, job |-> j, manual |-> a,
                inputs |-> i, outputs |-> o, files |-> f]
  PROVE  BgShape'
<1> USE DEF IsBg
<1>1. /\ bg'.pc = p /\ bg'.file = n /\ bg'.edit = e /\ bg'.ok = ok /\ bg'.job = j
      /\ bg'.manual = a /\ bg'.inputs = i /\ bg'.outputs = o /\ bg'.files = f
      /\ IsBg(bg')
  OBVIOUS
<1> QED BY <1>1 DEF BgShape

(* At rest, it has nothing to say. *)
LEMMA RestingFacts ==
  ASSUME bg' = Resting
  PROVE  BgShape' /\ BgInv'
<1>1. /\ bg'.pc = "idle" /\ bg'.file = 0 /\ bg'.job = "none" BY DEF Resting
<1>2. IsFiles(NoFiles) BY DEF IsFiles, NoFiles
<1>3. PICK e : e = Edit(NoFiles, {}) OBVIOUS
<1>4. e = [add |-> NoFiles, del |-> {}, log |-> None, next |-> None, last |-> None]
  BY <1>3 DEF Edit
<1>5. IsEdit(e) BY <1>2, <1>4 DEF IsEdit
<1>6. PICK b \in BOOLEAN, a \in BOOLEAN, i \in SUBSET Nat : b = TRUE /\ a = FALSE /\ i = {}
  OBVIOUS
<1>7. bg' = [pc |-> "idle", file |-> 0, edit |-> e, ok |-> b, job |-> "none", manual |-> a,
            inputs |-> i, outputs |-> i, files |-> NoFiles]
  BY <1>3, <1>6 DEF Resting
<1>8. BgShape' BY <1>5, <1>7, BgShapeOf
<1>9. BgInv' BY <1>1 DEF BgInv, Flushing
<1> QED BY <1>8, <1>9

(* After an edit was added and synced, what is installed is what the *)
(* manifest says. *)
LEMMA ExactInstalled ==
  ASSUME ExactInv, bg.pc = "install", Current' = Current,
         bg.ok => vset'.files = Apply(vset.files, bg.edit) /\ vset'.log = bg.edit.log,
         db.error \/ ~bg.ok => db'.error, bg'.pc \in {"idle", "compact"}
  PROVE  ExactInv'
<1>1. ~db'.error => ~Current.torn /\ \A s \in Saids : ExactAfter(s) BY DEF ExactInv
<1>2. ~db'.error => \A s \in Saids : s.files = vset'.files /\ s.log = vset'.log
  BY <1>1 DEF ExactAfter
<1> QED BY <1>1, <1>2 DEF ExactInv, Exact, Saids

(* What is referred to stays. *)
LEMMA SaidStored ==
  ASSUME NEW m, Sound(m), NEW s \in m.left
  PROVE  DOMAIN s.files \subseteq DOMAIN disk.tables
<1>1. Nothing.files = NoFiles BY DEF Nothing
<1> QED BY <1>1 DEF Sound, Fine, Valid, Scanned, NoFiles

(* What is referred to stays. *)
LEMMA DeletedClean ==
  ASSUME DiskShape, NumbersInv, StoreInv, ReaderInv, NEW d, d.error \in BOOLEAN, NEW V,
         disk' = DeleteObsoleteFiles(disk, vset', d, V),
         vset'.manifest = vset.manifest, Held \subseteq V, vset'.files \in V, reader' = reader,
         DOMAIN vset'.files \subseteq Scanned,
         ~d.error => \A s \in Saids : s.files = vset'.files
  PROVE  /\ Cleans /\ DiskShape'
         /\ \A n \in DOMAIN disk.tables :
              n \in d.pending \/ (\E f \in V : n \in DOMAIN f) => n \in DOMAIN disk'.tables
<1>1. PICK v : v = vset' OBVIOUS
<1>2. /\ DiskShape' /\ disk'.current = disk.current
      /\ DOMAIN disk'.logs \subseteq DOMAIN disk.logs
      /\ \A n \in DOMAIN disk'.logs : disk'.logs[n] = disk.logs[n]
      /\ \A n \in DOMAIN disk.logs : n >= v.log => n \in DOMAIN disk'.logs
      /\ \A n \in DOMAIN disk'.manifests : disk'.manifests[n] = disk.manifests[n]
      /\ \A n \in DOMAIN disk.manifests : ~(n < v.manifest) => n \in DOMAIN disk'.manifests
      /\ DOMAIN disk'.tables \subseteq DOMAIN disk.tables
      /\ \A n \in DOMAIN disk'.tables : disk'.tables[n] = disk.tables[n]
      /\ \A n \in DOMAIN disk.tables :
           d.error \/ n \in d.pending \/ (\E f \in V : n \in DOMAIN f) => n \in DOMAIN disk'.tables
  BY <1>1, DeleteFacts
<1>3. /\ disk.current \in DOMAIN disk.manifests /\ disk.current = v.manifest /\ disk.current \in Nat
  BY <1>1 DEF NumbersInv, DiskShape
<1>4. disk.current \in DOMAIN disk'.manifests BY <1>2, <1>3
<1>5. Current' = Current BY <1>2, <1>3, <1>4 DEF Current
<1>6. DOMAIN vset'.files \subseteq DOMAIN disk'.tables BY <1>2 DEF Scanned
<1>7. ASSUME NEW s \in Saids PROVE DOMAIN s.files \subseteq DOMAIN disk'.tables
  <2>1. CASE ~d.error BY <2>1, <1>6
  <2>2. CASE d.error BY <2>2, <1>2, SaidStored DEF StoreInv, Saids
  <2> QED BY <2>1, <2>2
<1>8. ASSUME NEW r \in Readers, reader[r].pc = "reading"
      PROVE  DOMAIN reader[r].files \subseteq DOMAIN disk'.tables
  <2>1. reader[r].files \in V BY DEF Held
  <2>2. DOMAIN reader[r].files \subseteq DOMAIN disk.tables BY <1>8 DEF ReaderInv, Scanned
  <2> QED BY <2>1, <2>2, <1>2
<1> QED BY <1>1, <1>2, <1>4, <1>5, <1>6, <1>7, <1>8 DEF Cleans

(* Or everything stays. *)
LEMMA SameClean ==
  ASSUME DiskShape, NumbersInv, StoreInv, ReaderInv, disk' = disk,
         DOMAIN vset'.files \subseteq Scanned
  PROVE  Cleans /\ DiskShape'
<1>1. Current' = Current /\ DiskShape' BY DEF Current, DiskShape
<1>2. \A s \in Saids : DOMAIN s.files \subseteq DOMAIN disk.tables
  BY SaidStored DEF StoreInv, Saids
<1> QED BY <1>1, <1>2 DEF Cleans, NumbersInv, ReaderInv, Scanned

(* The fields after a flush: without the memtable if it succeeded, with an *)
(* error if not. *)
LEMMA FlushedDB ==
  ASSUME DBShape, NEW ok \in BOOLEAN, NEW d0, NEW d,
         d0 = IF ok THEN [db EXCEPT !.imm = 0] ELSE [db EXCEPT !.error = TRUE],
         d = [d0 EXCEPT !.memtables = Referenced(d0, reader)]
  PROVE  Flushed(d, ok)
<1>1. PICK i, er : /\ i = (IF ok THEN 0 ELSE db.imm) /\ er \in BOOLEAN
                   /\ (er <=> db.error \/ ~ok) /\ (ok => er = db.error) /\ (~ok => er = TRUE)
  BY DEF DBShape
<1>2. d0 = [db EXCEPT !.imm = i, !.error = er] BY <1>1 DEF DBShape
<1>3. /\ d0.log = db.log /\ d0.imm = i /\ d0.memtables = db.memtables /\ d0.pending = db.pending
      /\ d0.error = er /\ d0.scheduled = db.scheduled /\ d0.closing = db.closing
      /\ d0.manual = db.manual
      /\ d0 = [log |-> d0.log, imm |-> d0.imm, memtables |-> d0.memtables, pending |-> d0.pending,
               error |-> d0.error, scheduled |-> d0.scheduled, closing |-> d0.closing,
               manual |-> d0.manual]
  BY <1>2 DEF DBShape
<1>4. PICK m, rd : m = Referenced(d0, rd) /\ rd = reader OBVIOUS
<1>5. /\ DOMAIN m \subseteq DOMAIN d0.memtables
      /\ \A n \in DOMAIN m : m[n] = d0.memtables[n]
      /\ {d0.log, d0.imm} \cap DOMAIN d0.memtables \subseteq DOMAIN m
      /\ \A r \in Readers : {rd[r].mem, rd[r].imm} \cap DOMAIN d0.memtables \subseteq DOMAIN m
  <2>1. /\ DOMAIN Referenced(d0, rd) \subseteq DOMAIN d0.memtables
        /\ \A n \in DOMAIN Referenced(d0, rd) : Referenced(d0, rd)[n] = d0.memtables[n]
        /\ {d0.log, d0.imm} \cap DOMAIN d0.memtables \subseteq DOMAIN Referenced(d0, rd)
        /\ \A r \in Readers :
             {rd[r].mem, rd[r].imm} \cap DOMAIN d0.memtables \subseteq DOMAIN Referenced(d0, rd)
    BY ReferencedFacts
  <2>2. m = Referenced(d0, rd) BY <1>4
  <2> QED BY <2>1, <2>2
<1>6. d = [d0 EXCEPT !.memtables = m] BY <1>4
<1>7. /\ d.log = d0.log /\ d.imm = d0.imm /\ d.memtables = m /\ d.pending = d0.pending
      /\ d.error = d0.error /\ d.scheduled = d0.scheduled /\ d.closing = d0.closing
      /\ d.manual = d0.manual
      /\ d = [log |-> d.log, imm |-> d.imm, memtables |-> d.memtables, pending |-> d.pending,
              error |-> d.error, scheduled |-> d.scheduled, closing |-> d.closing,
              manual |-> d.manual]
  BY <1>3, <1>6
<1>8. /\ {d.log, d.imm} \subseteq Nat /\ d.pending \subseteq Nat
      /\ {d.error, d.scheduled, d.closing} \subseteq BOOLEAN
  <2>1. /\ d.log = db.log /\ d.imm = i /\ d.pending = db.pending /\ d.error = er
        /\ d.scheduled = db.scheduled /\ d.closing = db.closing
    BY <1>3, <1>7
  <2>2. i \in Nat BY <1>1 DEF DBShape
  <2>3. er \in BOOLEAN BY <1>1
  <2> QED BY <2>1, <2>2, <2>3 DEF DBShape
<1>9. /\ DOMAIN d.memtables \subseteq DOMAIN db.memtables
      /\ \A n \in DOMAIN d.memtables : d.memtables[n] = db.memtables[n]
  BY <1>3, <1>5, <1>7
<1>10. /\ DOMAIN d.memtables \subseteq Nat
       /\ \A n \in DOMAIN d.memtables : d.memtables[n] \subseteq Entry
  BY <1>9 DEF DBShape
<1>11. IsDB(d) BY <1>7, <1>8, <1>10 DEF IsDB
<1>12. /\ {d.log, d.imm} \cap DOMAIN db.memtables \subseteq DOMAIN d.memtables
       /\ \A r \in Readers : {reader[r].mem, reader[r].imm} \cap DOMAIN db.memtables
                                 \subseteq DOMAIN d.memtables
  BY <1>3, <1>4, <1>5, <1>7
<1>13. d.log = db.log /\ d.imm = i /\ d.pending = db.pending /\ d.manual = db.manual
       /\ d.closing = db.closing /\ d.error = er
  BY <1>3, <1>7
<1> QED BY <1>1, <1>9, <1>11, <1>12, <1>13 DEF Flushed

(* The memtable goes when the synced manifest names the table that holds *)
(* what it held, and its log with it; with an error both stay, as nobody *)
(* knows what the manifest will say. *)
LEMMA InstallFlushStep ==
  ASSUME Up, InstallFlush
  PROVE  Up'
<1> USE DEF JobKept
<1>1. /\ DiskShape /\ VersionShape /\ HistShape /\ DBShape /\ BgShape /\ ThreadShape
  BY DEF Up, Shape
<1>2. /\ NumbersInv /\ ExactInv /\ BgInv /\ StoreInv /\ ReaderInv /\ QueueInv BY DEF Up, UpInv
<1>3. /\ bg.pc = "install" /\ Flushing /\ hist' = hist
      /\ phase' = phase /\ opening' = opening /\ queue' = queue /\ thread' = thread
      /\ reader' = reader
  BY DEF InstallFlush
<1>20. PICK ok \in BOOLEAN : ok = bg.ok BY <1>1 DEF BgShape
<1>21. PICK e, v, d0, d :
        /\ e = bg.edit
        /\ v = (IF ok THEN Installed(vset) ELSE vset)
        /\ d0 = (IF ok THEN [db EXCEPT !.imm = 0] ELSE [db EXCEPT !.error = TRUE])
        /\ d = [d0 EXCEPT !.memtables = Referenced(d0, reader)]
  OBVIOUS
<1>22. /\ vset' = v
       /\ disk' = (IF ok THEN DeleteObsoleteFiles(disk, v, d, Held \cup {v.files, bg.files})
                   ELSE disk)
       /\ IF bg.job = "none" THEN EndCall(d, v.files)
          ELSE /\ db' = d
               /\ bg' = [bg EXCEPT !.pc = "compact", !.file = 0, !.ok = TRUE]
               /\ awake' = awake \cup Waiting
  BY <1>20, <1>21 DEF InstallFlush
<1>4. ok = bg.ok /\ e = bg.edit /\ v = (IF ok THEN Installed(vset) ELSE vset) /\ vset' = v
  BY <1>20, <1>21, <1>22
<1>5. /\ db.imm # 0 /\ bg.job \in {"none", "merge"}
      /\ ok => SafeEdit(e) /\ e.log = db.log /\ \A s \in Saids : s = Nothing \/ s.log = db.log
  BY <1>1, <1>2, <1>3, <1>4 DEF BgInv, BgShape, SafeEdit
<1>6. /\ IsDB(d) /\ d.log = db.log /\ d.imm = (IF ok THEN 0 ELSE db.imm)
      /\ d.pending = db.pending /\ d.manual = db.manual
      /\ d.error \in BOOLEAN /\ (d.error <=> db.error \/ ~ok)
      /\ DOMAIN d.memtables \subseteq DOMAIN db.memtables
      /\ \A n \in DOMAIN d.memtables : d.memtables[n] = db.memtables[n]
      /\ {d.log, d.imm} \cap DOMAIN db.memtables \subseteq DOMAIN d.memtables
      /\ \A r \in Readers : {reader[r].mem, reader[r].imm} \cap DOMAIN db.memtables
                              \subseteq DOMAIN d.memtables
  <2>1. Flushed(d, ok) BY <1>1, <1>21, FlushedDB
  <2> QED BY <2>1 DEF Flushed
<1>7. /\ vset'.next = vset.next /\ vset'.manifest = vset.manifest /\ vset'.last = vset.last
      /\ vset'.log = (IF ok THEN db.log ELSE vset.log) /\ VersionShape'
      /\ ok => /\ vset'.files = Apply(vset.files, e)
               /\ DOMAIN vset'.files = DOMAIN e.add \cup (DOMAIN vset.files \ e.del)
      /\ ~ok => vset' = vset
  <2>1. CASE ok
    <3>1. IsEdit(e) BY <1>1, <1>4 DEF BgShape
    <3>2. /\ v = [next |-> v.next, manifest |-> v.manifest, last |-> v.last,
                  log |-> v.log, files |-> v.files]
          /\ v.next = vset.next /\ v.manifest = vset.manifest /\ v.last = vset.last
          /\ v.log = e.log /\ v.log \in Nat /\ v.files = Apply(vset.files, e) /\ IsFiles(v.files)
          /\ DOMAIN v.files = DOMAIN e.add \cup (DOMAIN vset.files \ e.del)
      BY <2>1, <3>1, <1>1, <1>4, <1>5, InstalledFacts
    <3> QED BY <2>1, <3>2, <1>1, <1>4, <1>5 DEF VersionShape
  <2>2. CASE ~ok BY <2>2, <1>1, <1>4 DEF VersionShape
  <2> QED BY <2>1, <2>2
<1>8. /\ DOMAIN vset'.files \subseteq Scanned
      /\ Data(DOMAIN vset.files) \subseteq Data(DOMAIN vset'.files)
      /\ ok => Writes(db.memtables[db.imm]) \subseteq Writes(Data(DOMAIN vset'.files))
  <2>1. PICK F, G : F = DOMAIN vset.files /\ G = DOMAIN vset'.files OBVIOUS
  <2>2. F \subseteq Scanned BY <2>1, <1>2 DEF StoreInv, Good
  <2>3. CASE ok
    <3>1. G = DOMAIN e.add \cup (F \ e.del) BY <2>1, <2>3, <1>7
    <3>2. /\ G \subseteq Scanned /\ Data(F) \subseteq Data(G)
          /\ Writes(db.memtables[db.imm]) \subseteq Writes(Data(G))
      <4>1. SafeEdit(e) BY <2>3, <1>5
      <4> QED BY <2>2, <3>1, <4>1, <1>3, EditCovers
    <3> QED BY <2>1, <3>2
  <2>4. CASE ~ok BY <2>1, <2>2, <2>4, <1>7
  <2> QED BY <2>3, <2>4
<1>9. /\ DBShape' /\ DBIs(d) /\ awake' \subseteq Threads
      /\ bg.job = "none" => bg' = Resting
      /\ bg.job = "merge" => bg' = [bg EXCEPT !.pc = "compact", !.file = 0, !.ok = TRUE]
  <2>1. CASE bg.job = "none"
    <3>1. EndCall(d, v.files) BY <2>1, <1>22
    <3> QED BY <2>1, <3>1, <1>1, <1>6, EndCallFacts
  <2>2. CASE bg.job = "merge"
    <3>1. db' = d /\ bg' = [bg EXCEPT !.pc = "compact", !.file = 0, !.ok = TRUE]
          /\ awake' = awake \cup Waiting
      BY <2>2, <1>22
    <3>2. DBShape' /\ DBIs(d) BY <3>1, <1>6 DEF DBShape, DBIs, IsDB
    <3> QED BY <2>2, <3>1, <3>2, <1>1 DEF Waiting, ThreadShape
  <2> QED BY <2>1, <2>2, <1>5
<1>10. bg'.pc \in {"idle", "compact"}
  <2>1. CASE bg.job = "none" BY <2>1, <1>9 DEF Resting
  <2>2. CASE bg.job = "merge"
    <3>1. bg' = [bg EXCEPT !.pc = "compact", !.file = 0, !.ok = TRUE] BY <2>2, <1>9
    <3> QED BY <3>1, <1>1 DEF BgShape
  <2> QED BY <2>1, <2>2, <1>5
<1>11. ASSUME Current' = Current PROVE ExactInv'
  <2>1. bg.ok => vset'.files = Apply(vset.files, bg.edit) /\ vset'.log = bg.edit.log
    BY <1>4, <1>5, <1>7
  <2>2. db.error \/ ~bg.ok => db'.error BY <1>4, <1>6, <1>9 DEF DBIs
  <2> QED BY <2>1, <2>2, <1>2, <1>3, <1>10, <1>11, ExactInstalled
<1>12. ~d.error => \A s \in Saids : s.files = vset'.files
  <2>1. ~d.error => ~db.error /\ bg.ok BY <1>4, <1>6
  <2> QED BY <2>1, <1>2, <1>3, <1>4, <1>7 DEF ExactInv, ExactAfter, Saids
<1>13. /\ Cleans /\ DiskShape'
       /\ \A n \in DOMAIN disk.tables :
            n \in db.pending \/ n \in DOMAIN bg.files => n \in DOMAIN disk'.tables
  <2>1. CASE ok
    <3>1. PICK V : V = Held \cup {v.files, bg.files} OBVIOUS
    <3>2. disk' = DeleteObsoleteFiles(disk, vset', d, V) /\ Held \subseteq V /\ vset'.files \in V
          /\ bg.files \in V
      BY <2>1, <3>1, <1>4, <1>22
    <3>3. /\ Cleans /\ DiskShape'
          /\ \A n \in DOMAIN disk.tables :
               n \in d.pending \/ (\E f \in V : n \in DOMAIN f) => n \in DOMAIN disk'.tables
      BY <3>2, <1>1, <1>2, <1>3, <1>6, <1>7, <1>8, <1>12, DeletedClean
    <3> QED BY <3>2, <3>3, <1>6
  <2>2. CASE ~ok
    <3>1. disk' = disk BY <2>2, <1>22
    <3> QED BY <3>1, <1>1, <1>2, <1>8, SameClean
  <2> QED BY <2>1, <2>2
<1>14. ExactInv'
  <2>1. Current' = Current BY <1>13 DEF Cleans
  <2> QED BY <2>1, <1>11
<1>15. BgShape' /\ BgInv'
  <2>1. CASE bg.job = "none" BY <2>1, <1>9, RestingFacts
  <2>2. CASE bg.job = "merge"
    <3>1. /\ bg'.pc = "compact" /\ bg'.file = 0 /\ bg'.edit = bg.edit /\ bg'.ok = TRUE
          /\ JobKept
          /\ BgShape'
      <4>1. PICK b \in BOOLEAN : b = TRUE OBVIOUS
      <4>2. bg' = [bg EXCEPT !.pc = "compact", !.file = 0, !.ok = b] BY <2>2, <4>1, <1>9
      <4>3. bg' = [pc |-> "compact", file |-> 0, edit |-> bg.edit, ok |-> b, job |-> bg.job,
                   manual |-> bg.manual, inputs |-> bg.inputs, outputs |-> bg.outputs, files |-> bg.files]
        BY <4>2, <1>1 DEF BgShape
      <4>4. BgShape' BY <4>3, <1>1, BgShapeOf DEF BgShape
      <4> QED BY <4>1, <4>3, <4>4
    <3>2. /\ bg.inputs \subseteq Scanned /\ bg.inputs \subseteq DOMAIN bg.files
          /\ bg.outputs \subseteq DOMAIN disk.tables /\ bg.outputs \subseteq db.pending
          /\ bg.inputs \cap bg.outputs = {}
      BY <2>2, <1>2, <1>3 DEF BgInv
    <3>3. bg.inputs \subseteq Scanned' /\ bg.outputs \subseteq DOMAIN disk'.tables
      BY <3>2, <1>13 DEF Cleans, Scanned
    <3>4. bg.outputs \subseteq db'.pending BY <3>2, <1>6, <1>9 DEF DBIs
    <3>6. BgInv' BY <2>2, <3>1, <3>2, <3>3, <3>4 DEF BgInv, Flushing
    <3> QED BY <3>1, <3>6
  <2> QED BY <2>1, <2>2, <1>5
<1>16. Installs
  <2>1. vset'.log = IF db'.imm = 0 THEN db.log ELSE db'.imm
    BY <1>2, <1>5, <1>6, <1>7, <1>9 DEF NumbersInv, DBIs
  <2>2. db'.imm # db.imm => /\ \A s \in Saids : s = Nothing \/ s.log = db.log
                            /\ Writes(db.memtables[db.imm]) \subseteq Writes(Data(DOMAIN vset'.files))
    BY <1>5, <1>6, <1>8, <1>9 DEF DBIs
  <2> QED BY <2>1, <2>2, <1>3, <1>6, <1>7, <1>8, <1>9 DEF Installs, DBIs
<1>17. QueueInv' /\ ThreadShape' BY <1>1, <1>2, <1>3, <1>6, <1>9 DEF QueueInv, ThreadShape, DBIs
<1>18. WritersKept /\ OwedKept BY <1>3 DEF WritersKept, OwedKept, Owed, OwedSynced, Answered
<1> QED BY <1>7, <1>9, <1>13, <1>14, <1>15, <1>16, <1>17, <1>18, InstallStep
-----------------------------------------------------------------------------
(* The end of a compaction *)

(* The fields after a compaction. *)
LEMMA CompactedDB ==
  ASSUME DBShape, NEW ok \in BOOLEAN, NEW m, NEW S,
         NEW d, d = [db EXCEPT !.error = @ \/ ~ok, !.pending = @ \ S, !.manual = m]
  PROVE  Compacted(d, ok, m)
<1>1. PICK er \in BOOLEAN : er <=> db.error \/ ~ok BY DEF DBShape
<1>2. PICK p \in SUBSET Nat : p = db.pending \ S BY DEF DBShape
<1>3. d = [db EXCEPT !.error = er, !.pending = p, !.manual = m]
  <2>1. (db.error \/ ~ok) = er BY <1>1 DEF DBShape
  <2> QED BY <2>1, <1>2
<1>4. /\ d.log = db.log /\ d.imm = db.imm /\ d.memtables = db.memtables /\ d.pending = p
      /\ d.error = er /\ d.scheduled = db.scheduled /\ d.closing = db.closing
      /\ d.manual = m
      /\ d = [log |-> d.log, imm |-> d.imm, memtables |-> d.memtables, pending |-> d.pending,
              error |-> d.error, scheduled |-> d.scheduled, closing |-> d.closing,
              manual |-> d.manual]
  BY <1>3 DEF DBShape
<1>5. IsDB(d) BY <1>1, <1>2, <1>4 DEF DBShape, IsDB
<1> QED BY <1>1, <1>4, <1>5 DEF Compacted

(* The caller of CompactRange is told, and writers do not notice. *)
LEMMA ManualTold ==
  ASSUME ThreadShape, QueueInv, NEW b \in BOOLEAN, b => db.manual # "none",
         queue' = queue, db'.manual \in {"none", db.manual}, b => db'.manual = "none",
         thread' = IF b THEN [thread EXCEPT ![db.manual].done = TRUE] ELSE thread,
         hist' = hist, awake' \subseteq Threads
  PROVE  ThreadShape' /\ QueueInv' /\ WritersKept /\ OwedKept
<1>1. CASE ~b
  <2>1. thread' = thread BY <1>1
  <2>2. WritersKept /\ OwedKept BY <2>1 DEF WritersKept, OwedKept, Owed, OwedSynced, Answered
  <2>3. QueueInv' /\ ThreadShape' BY <2>1 DEF QueueInv, ThreadShape
  <2> QED BY <2>2, <2>3
<1>2. CASE b
  <2>1. PICK t : t = db.manual OBVIOUS
  <2>2. t \in Threads /\ thread[t].pc = "manualwait" BY <1>2, <2>1 DEF QueueInv
  <2>3. thread' = [thread EXCEPT ![t].done = TRUE] BY <1>2, <2>1
  <2>4. /\ thread'[t].pc = "manualwait" /\ \A u \in Threads \ {t} : thread'[u] = thread[u]
        /\ thread' \in [Threads -> ThreadType]
    <3>1. thread \in [Threads -> ThreadType] BY DEF ThreadShape, ThreadType
    <3>2. PICK w : w = [thread[t] EXCEPT !.done = TRUE] OBVIOUS
    <3>3. w \in ThreadType /\ w.pc = thread[t].pc BY <2>2, <3>1, <3>2 DEF ThreadType
    <3>4. thread' = [thread EXCEPT ![t] = w] BY <2>3, <3>2
    <3> QED BY <2>2, <3>1, <3>3, <3>4
  <2>5. thread[t].pc \notin Writing /\ thread'[t].pc \notin Writing /\ ~InQueue(thread[t])
        /\ thread'[t].pc # "queued"
    BY <2>2, <2>4 DEF Writing, Logged, InQueue
  <2>6. TruthKept BY DEF TruthKept
  <2>7. QueueInv' /\ WritersKept /\ OwedKept BY <2>2, <2>4, <2>5, <2>6, <1>2, OneMoves
  <2> QED BY <2>4, <2>7 DEF ThreadShape, ThreadType
<1> QED BY <1>1, <1>2

(* The inputs go, unless a reader holds them, when the synced manifest *)
(* names the outputs; with an error they stay. *)
LEMMA FinishCompactionStep ==
  ASSUME Up, FinishCompaction
  PROVE  Up'
<1>1. /\ DiskShape /\ VersionShape /\ HistShape /\ DBShape /\ BgShape /\ ThreadShape
  BY DEF Up, Shape
<1>2. /\ NumbersInv /\ ExactInv /\ BgInv /\ StoreInv /\ ReaderInv /\ QueueInv BY DEF Up, UpInv
<1>3. /\ bg.pc = "install" /\ ~Flushing /\ bg.job # "none" /\ hist' = hist
      /\ phase' = phase /\ opening' = opening /\ queue' = queue /\ reader' = reader
  BY DEF FinishCompaction
<1>4. PICK ok \in BOOLEAN : ok = bg.ok BY <1>1 DEF BgShape
<1>5. PICK manual \in BOOLEAN : manual = bg.manual BY <1>1 DEF BgShape
<1>6. PICK e, v, m, d :
        /\ e = bg.edit
        /\ v = (IF ok THEN Installed(vset) ELSE vset)
        /\ m = (IF manual THEN "none" ELSE db.manual)
        /\ d = [db EXCEPT !.error = @ \/ ~ok, !.pending = @ \ bg.outputs, !.manual = m]
  OBVIOUS
<1>7. /\ vset' = v
      /\ disk' = (IF bg.job = "merge" THEN DeleteObsoleteFiles(disk, v, d, Held \cup {v.files})
                  ELSE disk)
      /\ thread' = (IF manual /\ ~ok THEN [thread EXCEPT ![db.manual].done = TRUE] ELSE thread)
      /\ EndCall(d, v.files)
  <2>1. d = [db EXCEPT !.error = @ \/ ~bg.ok, !.pending = @ \ bg.outputs,
                       !.manual = IF bg.manual THEN "none" ELSE @]
    BY <1>4, <1>5, <1>6
  <2>2. v = IF bg.ok THEN Installed(vset) ELSE vset BY <1>4, <1>6
  <2> QED BY <2>1, <2>2, <1>4, <1>5 DEF FinishCompaction
<1>8. ok => SafeEdit(e) /\ e.log = vset.log BY <1>2, <1>3, <1>4, <1>6 DEF BgInv, SafeEdit
<1>9. /\ IsDB(d) /\ d.log = db.log /\ d.imm = db.imm /\ d.memtables = db.memtables
      /\ d.manual = m /\ d.error \in BOOLEAN /\ (d.error <=> db.error \/ ~ok)
  <2>1. Compacted(d, ok, m) BY <1>1, <1>6, CompactedDB
  <2> QED BY <2>1 DEF Compacted
<1>10. /\ vset'.next = vset.next /\ vset'.manifest = vset.manifest /\ vset'.last = vset.last
       /\ vset'.log = vset.log /\ VersionShape'
       /\ ok => /\ vset'.files = Apply(vset.files, e)
                /\ DOMAIN vset'.files = DOMAIN e.add \cup (DOMAIN vset.files \ e.del)
       /\ ~ok => vset' = vset
  <2>1. CASE ok
    <3>1. IsEdit(e) BY <1>1, <1>6 DEF BgShape
    <3>2. /\ v = [next |-> v.next, manifest |-> v.manifest, last |-> v.last,
                  log |-> v.log, files |-> v.files]
          /\ v.next = vset.next /\ v.manifest = vset.manifest /\ v.last = vset.last
          /\ v.log = e.log /\ v.log \in Nat /\ v.files = Apply(vset.files, e) /\ IsFiles(v.files)
          /\ DOMAIN v.files = DOMAIN e.add \cup (DOMAIN vset.files \ e.del)
      BY <2>1, <3>1, <1>1, <1>6, <1>8, InstalledFacts
    <3> QED BY <2>1, <3>2, <1>1, <1>7, <1>8 DEF VersionShape
  <2>2. CASE ~ok BY <2>2, <1>1, <1>6, <1>7 DEF VersionShape
  <2> QED BY <2>1, <2>2
<1>11. /\ DOMAIN vset'.files \subseteq Scanned
       /\ Data(DOMAIN vset.files) \subseteq Data(DOMAIN vset'.files)
  <2>1. PICK F, G : F = DOMAIN vset.files /\ G = DOMAIN vset'.files OBVIOUS
  <2>2. F \subseteq Scanned BY <2>1, <1>2 DEF StoreInv, Good
  <2>3. CASE ok
    <3>1. G = DOMAIN e.add \cup (F \ e.del) BY <2>1, <2>3, <1>10
    <3>2. G \subseteq Scanned /\ Data(F) \subseteq Data(G) BY <2>2, <2>3, <3>1, <1>8, EditCovers
    <3> QED BY <2>1, <3>2
  <2>4. CASE ~ok BY <2>1, <2>2, <2>4, <1>10
  <2> QED BY <2>3, <2>4
<1>12. DBShape' /\ DBIs(d) /\ bg' = Resting /\ awake' \subseteq Threads
  BY <1>1, <1>7, <1>9, EndCallFacts
<1>13. BgShape' /\ BgInv' /\ bg'.pc = "idle" BY <1>12, RestingFacts DEF Resting
<1>14. ~d.error => \A s \in Saids : s.files = vset'.files
  <2>1. ~d.error => ~db.error /\ bg.ok BY <1>4, <1>9
  <2> QED BY <2>1, <1>2, <1>3, <1>4, <1>6, <1>10 DEF ExactInv, ExactAfter, Saids
<1>15. Cleans /\ DiskShape'
  <2>1. CASE bg.job = "merge"
    <3>1. PICK V : V = Held \cup {v.files} OBVIOUS
    <3>2. disk' = DeleteObsoleteFiles(disk, vset', d, V) /\ Held \subseteq V /\ vset'.files \in V
      BY <2>1, <3>1, <1>7
    <3> QED BY <3>2, <1>1, <1>2, <1>3, <1>9, <1>10, <1>11, <1>14, DeletedClean
  <2>2. CASE bg.job # "merge"
    <3>1. disk' = disk BY <2>2, <1>7
    <3> QED BY <3>1, <1>1, <1>2, <1>11, SameClean
  <2> QED BY <2>1, <2>2
<1>16. ExactInv'
  <2>1. Current' = Current BY <1>15 DEF Cleans
  <2>2. bg.ok => vset'.files = Apply(vset.files, bg.edit) /\ vset'.log = bg.edit.log
    BY <1>4, <1>6, <1>8, <1>10
  <2>3. db.error \/ ~bg.ok => db'.error BY <1>4, <1>9, <1>12 DEF DBIs
  <2>4. bg'.pc \in {"idle", "compact"} BY <1>13
  <2> QED BY <2>1, <2>2, <2>3, <2>4, <1>2, <1>3, ExactInstalled
<1>17. Installs BY <1>2, <1>3, <1>9, <1>10, <1>11, <1>12 DEF Installs, DBIs, NumbersInv
<1>18. ThreadShape' /\ QueueInv' /\ WritersKept /\ OwedKept
  <2>1. PICK b \in BOOLEAN : b <=> manual /\ ~ok OBVIOUS
  <2>2. thread' = IF b THEN [thread EXCEPT ![db.manual].done = TRUE] ELSE thread BY <2>1, <1>7
  <2>3. db'.manual = m BY <1>9, <1>12 DEF DBIs
  <2>4. (b => db.manual # "none") /\ db'.manual \in {"none", db.manual} /\ (b => db'.manual = "none")
    BY <2>1, <2>3, <1>5, <1>6 DEF FinishCompaction, ManualGone
  <2> QED BY <2>2, <2>4, <1>1, <1>2, <1>3, <1>12, ManualTold
<1> QED BY <1>10, <1>12, <1>13, <1>15, <1>16, <1>17, <1>18, InstallStep
-----------------------------------------------------------------------------
(* What is stored, whether the database is open or not *)

(* What a valid manifest says is complete, and something. *)
LEMMA ValidFacts ==
  ASSUME NEW s, Valid(s)
  PROVE  Complete(s) /\ s # Nothing
<1>1. None \notin {s.log, s.next, s.last} /\ s.log # None /\ Nothing.log = None
  BY DEF Valid, None, Nothing
<1> QED BY <1>1 DEF Valid, Complete, Scanned

(* A manifest without a record says nothing that could be opened. *)
LEMMA NothingIs ==
  ~Complete(Nothing) /\ Nothing.next = None /\ Nothing.log = None /\ Nothing.last = None
  /\ Nothing.files = NoFiles
BY DEF Complete, Nothing

(* A manifest that is not there says nothing. *)
LEMMA CurrentShape ==
  ASSUME DiskShape
  PROVE  /\ IsManifest(Current)
         /\ disk.current \notin DOMAIN disk.manifests => Saids = {Nothing}
<1>1. IsSaid(Nothing) BY DEF IsSaid, Nothing, None, NoFiles, IsFiles
<1>2. CASE disk.current \in DOMAIN disk.manifests BY <1>2 DEF DiskShape, Current
<1>3. CASE disk.current \notin DOMAIN disk.manifests
  BY <1>3, <1>1 DEF Current, Synced, IsManifest, Saids
<1> QED BY <1>2, <1>3

(* An open database keeps its promises with its manifest and its logs. *)
LEMMA UpStored ==
  ASSUME Up
  PROVE  ManifestInv /\ DurableInv
<1>1. /\ Sound(Current) /\ Good(DOMAIN vset.files, vset.log)
      /\ \A n \in InMem : Writes(db.memtables[n]) \subseteq Writes(LogData(n)) \cup hist.lost
  BY DEF Up, UpInv, StoreInv
<1>2. /\ InMem \subseteq DOMAIN disk.logs
      /\ 0 < db.log /\ db.imm < db.log /\ vset.log = (IF db.imm = 0 THEN db.log ELSE db.imm)
      /\ disk.current # 0 /\ hist.opened /\ ~hist.repaired /\ phase = "up"
  BY DEF Up, UpInv, NumbersInv
<1>3. db.log \in Nat /\ db.imm \in Nat BY DEF Up, Shape, DBShape
<1>4. \A s \in Saids : s = Nothing \/ (Valid(s) /\ Complete(s) /\ disk.current < s.next)
  BY <1>1, ValidFacts DEF Sound, Fine, Saids
<1>5. ManifestInv BY <1>1, <1>2, <1>4 DEF ManifestInv, Saids, Sound
<1>6. ASSUME NEW F, NEW l, Good(F, l), NEW n \in InMem, NEW w \in Writes(db.memtables[n]), ~(n >= l)
      PROVE  w \in Writes(Data(F))
  <2>1. l \in {vset.log, db.log}
        /\ (db.imm # 0 /\ l # db.imm => Writes(db.memtables[db.imm]) \subseteq Writes(Data(F)))
    BY <1>6 DEF Good
  <2>2. n = db.imm /\ db.imm # 0 /\ l # db.imm BY <1>2, <1>3, <1>6, <2>1 DEF InMem
  <2> QED BY <2>1, <2>2
<1>7. ASSUME NEW F, NEW l, Good(F, l), NEW w \in hist.acked \ hist.lost
      PROVE  w \in Writes(Data(F)) \/ \E n \in DOMAIN disk.logs : n >= l /\ w \in Writes(LogData(n))
  <2>1. w \in Owed /\ Covers(F) BY <1>7 DEF Owed, Good
  <2> SUFFICES ASSUME w \notin Writes(Data(F))
               PROVE  \E n \in DOMAIN disk.logs : n >= l /\ w \in Writes(LogData(n))
    OBVIOUS
  <2>2. PICK n \in InMem : w \in Writes(db.memtables[n]) BY <2>1 DEF Covers
  <2>3. n >= l /\ w \in Writes(LogData(n)) /\ n \in DOMAIN disk.logs
    BY <2>2, <1>1, <1>2, <1>6, <1>7
  <2> QED BY <2>3
<1>8. ASSUME NEW F, NEW l, Good(F, l), NEW w \in hist.synced \ hist.lost
      PROVE  w \in Writes(Data(F)) \/ \E n \in DOMAIN disk.logs : n >= l /\ w \in Writes(SafeLogData(n))
  <2>1. w \in OwedSynced /\ Covers(F) BY <1>8 DEF OwedSynced, Good
  <2> SUFFICES ASSUME w \notin Writes(Data(F))
               PROVE  \E n \in DOMAIN disk.logs : n >= l /\ w \in Writes(SafeLogData(n))
    OBVIOUS
  <2>2. PICK n \in InMem : w \in Writes(db.memtables[n]) /\ w \in Writes(SafeLogData(n))
    BY <2>1 DEF Covers
  <2>3. n >= l /\ n \in DOMAIN disk.logs BY <2>2, <1>2, <1>6, <1>8
  <2> QED BY <2>2, <2>3
<1>9. ASSUME NEW s \in Saids, NEW w, NEW safe \in BOOLEAN,
             \A F, l : Good(F, l) =>
               w \in Writes(Data(F)) \/ \E n \in DOMAIN disk.logs : n >= l /\ w \in Writes(Entered(n, safe))
      PROVE  Kept(w, s, safe)
  <2>1. CASE s = Nothing
    <3>1. PICK F, l : F = DOMAIN vset.files /\ l = vset.log OBVIOUS
    <3>2. Good(F, l) BY <3>1, <1>1
    <3>3. F \subseteq DOMAIN disk.tables BY <3>2 DEF Good, Scanned
    <3>4. Writes(Data(F)) \subseteq Writes(Data(DOMAIN disk.tables)) BY <3>3 DEF Writes, Data
    <3>5. w \in Writes(Data(F)) \/ \E n \in DOMAIN disk.logs : w \in Writes(Entered(n, safe))
      BY <3>2, <1>9
    <3>6. Survives(w, s, safe) BY <2>1, <3>4, <3>5, NothingIs DEF Survives
    <3> QED BY <3>6, <1>2 DEF Kept
  <2>2. CASE s # Nothing
    <3>1. PICK F, l : F = DOMAIN s.files /\ l = s.log OBVIOUS
    <3>2. Good(F, l) BY <2>2, <3>1, <1>1 DEF Sound, Fine, Saids
    <3>3. w \in Writes(Data(F)) \/ \E n \in DOMAIN disk.logs : n >= l /\ w \in Writes(Entered(n, safe))
      BY <3>2, <1>9
    <3>4. Complete(s) BY <2>2, <1>4
    <3>5. Survives(w, s, safe) BY <3>1, <3>3, <3>4 DEF Survives
    <3> QED BY <3>5, <1>2 DEF Kept
  <2> QED BY <2>1, <2>2
<1>10. ASSUME NEW w \in hist.acked \ hist.lost, NEW s \in Saids
       PROVE  Kept(w, s, FALSE)
  BY <1>7, <1>9 DEF Entered
<1>11. ASSUME NEW w \in hist.synced \ hist.lost, NEW s \in Saids
       PROVE  Kept(w, s, TRUE)
  BY <1>8, <1>9 DEF Entered
<1>12. Current.all \in Saids BY CurrentShape DEF Up, Shape, IsManifest, Saids
<1>13. DurableInv BY <1>10, <1>11, <1>12 DEF DurableInv
<1> QED BY <1>5, <1>13

(* No entry is new, and files get numbers up to c. *)
LEMMA BoundedStays ==
  ASSUME Bounded, SequencesUnique, AllEntries' \subseteq AllEntries, NEW c \in Nat,
         DiskShape, DiskShape',
         \A n \in DOMAIN disk'.logs \cup DOMAIN disk'.tables :
           n \in DOMAIN disk.logs \cup DOMAIN disk.tables \/ n <= c
  PROVE  Bounded' /\ SequencesUnique'
<1>1. PICK b \in Nat : \A n \in DOMAIN disk.logs \cup DOMAIN disk.tables : n <= b BY DEF Bounded
<1>2. b + c \in Nat /\ \A n \in DOMAIN disk'.logs \cup DOMAIN disk'.tables : n <= b + c
  BY <1>1 DEF DiskShape
<1>4. \E x \in Nat : \A e \in AllEntries' : e[1] <= x BY DEF Bounded
<1>5. \A e, f \in AllEntries' : e[1] = f[1] => e = f BY UniqueIs
<1>6. SequencesUnique' BY <1>5 DEF SequencesUnique, AllEntries, LogData
<1> QED BY <1>2, <1>4, <1>6 DEF Bounded

(* Nobody is there while the database is not open, and nobody comes. *)
LEMMA UnmovedFacts ==
  ASSUME Down, Unmoved
  PROVE  Quiet' /\ DBShape' /\ ThreadShape' /\ BgShape' /\ ReaderShape' /\ DOMAIN db.memtables = {}
<1>1. Quiet /\ DBShape /\ ThreadShape /\ BgShape /\ ReaderShape BY DEF Down, Shape, DownInv
<1>2. DOMAIN db.memtables = {} BY <1>1 DEF Quiet, EmptyDB, NoFiles
<1> QED BY <1>1, <1>2 DEF Unmoved, Quiet, DBShape, ThreadShape, BgShape, ReaderShape

(* What every process that ends leaves behind. *)
LEMMA ForgetFacts ==
  ASSUME Forget
  PROVE  /\ Quiet' /\ DBShape' /\ ThreadShape' /\ BgShape' /\ ReaderShape'
         /\ VersionShape' /\ OpeningShape' /\ phase' = "down" /\ DOMAIN db'.memtables = {}
<1>1. Quiet' /\ phase' = "down" BY DEF Forget, Quiet
<1>2. DBShape' /\ DOMAIN db'.memtables = {} BY DEF Forget, DBShape, EmptyDB, NoFiles
<1>3. ThreadShape'
  <2>1. Idle \in [pc : Pcs, sync : BOOLEAN, id : Nat, delay : BOOLEAN,
                  force : BOOLEAN, done : BOOLEAN, ok : BOOLEAN, group : Seq(Threads)]
    BY DEF Idle, Pcs
  <2> QED BY <2>1 DEF Forget, ThreadShape
<1>4. BgShape' BY RestingFacts DEF Forget
<1>5. ReaderShape' BY DEF Forget, ReaderShape, Ready
<1>6. VersionShape' /\ OpeningShape'
  BY DEF Forget, VersionShape, OpeningShape, EmptyVersions, NotOpening, NoFiles, IsFiles
<1> QED BY <1>1, <1>2, <1>3, <1>4, <1>5, <1>6
-----------------------------------------------------------------------------
(* Opening a database: what stays *)

(* A write survives a step if what the manifest says stays and the logs *)
(* give no less. *)
LEMMA SurvivesEntered ==
  ASSUME NEW s, NEW w, NEW safe \in BOOLEAN, Survives(w, s, safe), SaidKept(s), EnteredStay(safe)
  PROVE  Survives(w, s, safe)'
<1>0. \A n \in DOMAIN disk.logs : n \in DOMAIN disk'.logs
                                  /\ Entered(n, safe) \subseteq Entered(n, safe)'
  BY DEF EnteredStay
<1>1. \A n \in DOMAIN disk.logs : w \in Writes(Entered(n, safe)) =>
                                    n \in DOMAIN disk'.logs /\ w \in Writes(Entered(n, safe)')
  BY <1>0, WritesGrow
<1>2. CASE Complete(s)
  <2>1. Complete(s)' /\ Data(DOMAIN s.files) \subseteq Data(DOMAIN s.files)'
    BY <1>2 DEF SaidKept, Complete
  <2>2. Writes(Data(DOMAIN s.files)) \subseteq Writes(Data(DOMAIN s.files)') BY <2>1, WritesGrow
  <2>3. CASE w \in Writes(Data(DOMAIN s.files)) BY <2>1, <2>2, <2>3 DEF Survives
  <2>4. CASE w \notin Writes(Data(DOMAIN s.files))
    <3>1. PICK n \in DOMAIN disk.logs : n >= s.log /\ w \in Writes(Entered(n, safe))
      BY <2>4, <1>2 DEF Survives
    <3> QED BY <3>1, <2>1, <1>1 DEF Survives
  <2> QED BY <2>3, <2>4
<1>3. CASE ~Complete(s)
  <2>1. ~Complete(s)' /\ TableData \subseteq TableData' BY <1>3 DEF SaidKept, Complete
  <2>2. Writes(TableData) \subseteq Writes(TableData') BY <2>1, WritesGrow
  <2>3. CASE w \in Writes(TableData) BY <2>1, <2>2, <2>3 DEF Survives, TableData
  <2>4. CASE w \notin Writes(TableData)
    <3>1. PICK n \in DOMAIN disk.logs : w \in Writes(Entered(n, safe))
      BY <2>4, <1>3 DEF Survives, TableData
    <3> QED BY <3>1, <2>1, <1>1 DEF Survives
  <2> QED BY <2>3, <2>4
<1> QED BY <1>2, <1>3

(* So it does if all logs stay. *)
LEMMA SurvivesKept ==
  ASSUME NEW s, NEW w, NEW safe \in BOOLEAN, Survives(w, s, safe), SaidKept(s), LogsStay
  PROVE  Survives(w, s, safe)'
<1>1. EnteredStay(safe) BY DEF EnteredStay, LogsStay, Entered
<1> QED BY <1>1, SurvivesEntered

(* Outside of a repair nothing but the manifest counts. *)
LEMMA KeptIs ==
  ASSUME phase # "repair"
  PROVE  \A w, s, safe : Kept(w, s, safe) <=> Survives(w, s, safe)
BY DEF Kept, Archived

(* Then all that was promised survives. *)
LEMMA DurableKept ==
  ASSUME DurableInv, Current' = Current, \A s \in Saids : SaidKept(s), LogsStay, HistStays,
         Current.all \in Saids, phase # "repair", phase' # "repair"
  PROVE  DurableInv'
<1>1. PICK m : m = Current OBVIOUS
<1>2. m = Current' /\ Saids = m.left /\ Saids' = m.left BY <1>1 DEF Saids
<1>3. ASSUME NEW w \in hist'.acked \ hist'.lost
      PROVE  Kept(w, m.all, FALSE)'
  <2>1. Survives(w, m.all, FALSE) BY <1>1, KeptIs DEF DurableInv, HistStays
  <2>2. SaidKept(m.all) BY <1>1, <1>2
  <2>3. Survives(w, m.all, FALSE)' BY <2>1, <2>2, SurvivesKept
  <2> QED BY <2>3 DEF Kept, Archived
<1>4. ASSUME NEW w \in hist'.synced \ hist'.lost, NEW s \in m.left
      PROVE  Kept(w, s, TRUE)'
  <2>1. Survives(w, s, TRUE) /\ SaidKept(s) BY <1>2, KeptIs DEF DurableInv, HistStays
  <2>2. Survives(w, s, TRUE)' BY <2>1, SurvivesKept
  <2> QED BY <2>2 DEF Kept, Archived
<1> QED BY <1>2, <1>3, <1>4 DEF DurableInv

(* Nothing changes that is read of files that stay the same. *)
LEMMA SameData ==
  ASSUME SameFiles
  PROVE  /\ LogsStay /\ Scanned' = Scanned /\ TablesKept /\ TableData' = TableData
         /\ \A n : LogData(n)' = LogData(n) /\ SafeLogData(n)' = SafeLogData(n)
         /\ \A S : Data(S)' = Data(S)
         /\ \A s : Complete(s)' = Complete(s) /\ Valid(s)' = Valid(s)
         /\ \A s : SaidKept(s)
<1>1. Scanned' = Scanned /\ TableData' = TableData BY DEF SameFiles, Scanned, TableData, Data
<1>2. \A n : LogData(n)' = LogData(n) /\ SafeLogData(n)' = SafeLogData(n)
  BY DEF SameFiles, LogData, SafeLogData
<1>3. \A S : Data(S)' = Data(S) BY DEF SameFiles, Data
<1>4. \A s : Complete(s)' = Complete(s) BY DEF SameFiles, Complete
<1>5. \A s : Valid(s)' = Valid(s) BY <1>1 DEF SameFiles, Valid
<1>6. \A s : SaidKept(s) BY <1>1, <1>3 DEF SaidKept, Complete, SameFiles
<1> QED BY <1>1, <1>2, <1>3, <1>4, <1>5, <1>6 DEF LogsStay, SameFiles, TablesKept

(* With the same files and memtables the entries are the same. *)
LEMMA SameEntries ==
  ASSUME SameFiles, Bounded, SequencesUnique, db'.memtables = db.memtables
  PROVE  Bounded' /\ SequencesUnique'
BY DEF SameFiles, Bounded, SequencesUnique, AllEntries, Data, LogData

(* No entry comes from elsewhere. *)
LEMMA EntriesWithin ==
  ASSUME \A n \in DOMAIN db'.memtables : db'.memtables[n] \subseteq AllEntries,
         \A n \in DOMAIN disk'.tables : disk'.tables[n].data \subseteq AllEntries,
         \A n \in DOMAIN disk'.logs : LogData(n)' \subseteq AllEntries
  PROVE  AllEntries' \subseteq AllEntries
<1>1. (UNION {db.memtables[n] : n \in DOMAIN db.memtables})' \subseteq AllEntries OBVIOUS
<1>2. Data(DOMAIN disk.tables)' \subseteq AllEntries BY DEF Data
<1>3. (UNION {LogData(n) : n \in DOMAIN disk.logs})' \subseteq AllEntries OBVIOUS
<1> QED BY <1>1, <1>2, <1>3 DEF AllEntries

(* What is said of the manifest stays true while it and the files stay. *)
LEMMA ManifestKept ==
  ASSUME ManifestInv, SameStore, SameHist, disk'.current = disk.current,
         hist.opened /\ ~hist.repaired => /\ phase' \notin {"newdb", "repair", "described"}
                                          /\ phase' = "corrupt" => Current.all = Nothing
  PROVE  ManifestInv'
<1>1. PICK m : m = Current OBVIOUS
<1>2. m = Current' /\ Saids = m.left /\ Saids' = m.left BY <1>1 DEF Saids, SameStore
<1>3. /\ \A n : LogData(n)' = LogData(n)
      /\ \A s : Valid(s)' = Valid(s)
      /\ disk'.logs = disk.logs
  BY SameData DEF SameStore, SameFiles
<1>4. \A s \in m.left : s = Nothing \/ Valid(s)' BY <1>2, <1>3 DEF ManifestInv
<1>5. m.all = Nothing \/ \A s \in m.left : s.next <= m.all.next BY <1>1, <1>2 DEF ManifestInv
<1>6. Nothing \in m.left /\ m.all # Nothing =>
        hist'.acked = {} \/ \A n \in DOMAIN disk'.logs : LogData(n)' = {}
  BY <1>1, <1>2, <1>3 DEF ManifestInv, SameHist, HistStays
<1>9. \/ hist'.acked = {} \/ \A n \in DOMAIN disk'.logs : LogData(n)' = {}
      \/ \A s \in m.left : s = Nothing \/ disk'.current < s.next
  BY <1>1, <1>2, <1>3 DEF ManifestInv, SameHist, HistStays
<1>7. disk'.current = 0 => ~hist'.opened /\ hist'.acked = {}
  BY DEF ManifestInv, SameHist, HistStays
<1>8. ASSUME hist'.opened, ~hist'.repaired
      PROVE  /\ phase' \notin {"newdb", "repair", "described"}
             /\ phase' = "corrupt" => m.all = Nothing
             /\ Nothing \in m.left => m.all = Nothing
             /\ m.all = Nothing => m.torn
             /\ \A s \in m.left : s = Nothing \/ disk'.current < s.next
  <2>1. hist.opened /\ ~hist.repaired BY <1>8 DEF SameHist
  <2>2. phase' \notin {"newdb", "repair", "described"} /\ (phase' = "corrupt" => m.all = Nothing)
    BY <1>1, <2>1
  <2>3. /\ Nothing \in m.left => m.all = Nothing
        /\ m.all = Nothing => m.torn
        /\ \A s \in m.left : s = Nothing \/ disk.current < s.next
    BY <1>1, <1>2, <2>1 DEF ManifestInv
  <2> QED BY <2>2, <2>3
<1> QED BY <1>2, <1>4, <1>5, <1>6, <1>7, <1>8, <1>9 DEF ManifestInv
-----------------------------------------------------------------------------
(* Opening a database: its first manifest *)

(* A manifest of one record that was not synced. *)
LEMMA FirstManifest ==
  ASSUME NEW F, IsFiles(F), NEW l \in Nat, NEW n \in Nat, NEW t \in Nat,
         NEW e, e = [add |-> F, del |-> {}, log |-> l, next |-> n, last |-> t],
         NEW m, m = Unsynced(e)
  PROVE  /\ IsManifest(m) /\ m.left = {Nothing, m.all} /\ ~m.torn
         /\ DOMAIN m.all.files = DOMAIN F /\ m.all.log = l /\ m.all.next = n /\ m.all.last = t
<1>3. IsEdit(e) /\ {e.log, e.next, e.last} \subseteq Nat /\ e.add = F /\ e.del = {}
  BY DEF IsEdit
<1>4. IsSaid(Nothing) /\ DOMAIN Nothing.files = {}
  BY DEF IsSaid, Nothing, None, NoFiles, IsFiles
<1>5. PICK s : s = Says(Nothing, e) OBVIOUS
<1>6. /\ IsSaid(s) /\ s.files = Apply(Nothing.files, e)
      /\ DOMAIN Apply(Nothing.files, e) = DOMAIN e.add \cup (DOMAIN Nothing.files \ e.del)
      /\ s.log = e.log /\ s.next = e.next /\ s.last = e.last
  BY <1>3, <1>4, <1>5, SaysFacts
<1>7. m = [all |-> s, left |-> {Nothing, s}, torn |-> FALSE]
  <2>1. PICK x : x = Synced(Nothing) OBVIOUS
  <2>2. x.all = Nothing /\ x.left = {Nothing} /\ x.torn = FALSE
        /\ x = [all |-> Nothing, left |-> {Nothing}, torn |-> FALSE]
    BY <2>1 DEF Synced
  <2>3. m = Extended(x, e) BY <2>1 DEF Unsynced
  <2>4. m = [x EXCEPT !.all = s, !.left = x.left \cup {s}] BY <2>2, <2>3, <1>5 DEF Extended
  <2> QED BY <2>2, <2>4
<1>8. m.all = s /\ m.left = {Nothing, s} /\ m.torn = FALSE
      /\ m = [all |-> m.all, left |-> m.left, torn |-> m.torn]
  BY <1>7
<1>9. IsManifest(m) BY <1>4, <1>6, <1>8 DEF IsManifest
<1> QED BY <1>3, <1>4, <1>6, <1>8, <1>9

(* A manifest under its name, in use if CURRENT names it. *)
LEMMA PutManifest ==
  ASSUME DiskShape, NEW n \in Nat, NEW m, IsManifest(m),
         disk' = [disk EXCEPT !.manifests = Put(@, n, m)]
  PROVE  /\ DiskShape' /\ SameFiles /\ disk'.current = disk.current
         /\ DOMAIN disk'.manifests = DOMAIN disk.manifests \cup {n}
         /\ disk'.manifests[n] = m
         /\ disk.current # n => Current' = Current
         /\ disk.current = n => Current' = m
<1>1. PICK M : M = Put(disk.manifests, n, m) OBVIOUS
<1>2. /\ DOMAIN M = DOMAIN disk.manifests \cup {n} /\ M[n] = m
      /\ \A k \in DOMAIN disk.manifests \ {n} : M[k] = disk.manifests[k]
  BY <1>1 DEF Put, Over
<1>3. disk' = [disk EXCEPT !.manifests = M] BY <1>1
<1>4. /\ disk' = [logs |-> disk.logs, tables |-> disk.tables, manifests |-> M, current |-> disk.current]
      /\ disk'.manifests = M /\ disk'.tables = disk.tables /\ disk'.logs = disk.logs
      /\ disk'.current = disk.current
  BY <1>3 DEF DiskShape
<1>5. \A k \in DOMAIN M : IsManifest(M[k]) BY <1>2 DEF DiskShape
<1>6. DiskShape' BY <1>4, <1>5 DEF DiskShape
<1>7. /\ disk.current # n => Current' = Current
      /\ disk.current = n => Current' = m
  BY <1>2, <1>4 DEF Current
<1> QED BY <1>2, <1>4, <1>6, <1>7 DEF SameFiles

(* The first manifest is written before CURRENT names it: nothing was *)
(* promised yet. *)
LEMMA NewDBStep ==
  ASSUME Down, NewDB
  PROVE  Down'
<1>1. /\ DiskShape /\ VersionShape /\ OpeningShape /\ HistShape /\ Bounded /\ SequencesUnique
      /\ ManifestInv /\ DurableInv
  BY DEF Down, Shape, DownInv
<1>2. /\ phase = "down" /\ disk.current = 0 /\ phase' = "newdb"
      /\ Unmoved /\ opening' = opening /\ vset' = vset /\ hist' = hist
  BY DEF NewDB, Unmoved
<1>3. PICK m : m = Unsynced([Edit(NoFiles, {}) EXCEPT !.log = 0, !.next = 2, !.last = 0])
  OBVIOUS
<1>4. disk' = [disk EXCEPT !.manifests = Put(@, 1, m)] BY <1>3 DEF NewDB
<1>5. IsFiles(NoFiles) /\ DOMAIN NoFiles = {} BY DEF IsFiles, NoFiles
<1>6. /\ IsManifest(m) /\ m.left = {Nothing, m.all} /\ ~m.torn
      /\ DOMAIN m.all.files = {} /\ m.all.log = 0 /\ m.all.next = 2 /\ m.all.last = 0
  <2>1. PICK F : F = NoFiles OBVIOUS
  <2>2. PICK l \in Nat : l = 0 OBVIOUS
  <2>3. PICK n \in Nat : n = 2 OBVIOUS
  <2>7. PICK e : e = [Edit(F, {}) EXCEPT !.log = l, !.next = n, !.last = l] OBVIOUS
  <2>4. e = [add |-> F, del |-> {}, log |-> l, next |-> n, last |-> l] BY <2>7 DEF Edit
  <2>5. m = Unsynced(e) /\ IsFiles(F)
    <3>2. m = Unsynced(e) BY <2>7, <1>3, <2>1, <2>2, <2>3
    <3> QED BY <3>2, <2>1, <1>5
  <2>6. /\ IsManifest(m) /\ m.left = {Nothing, m.all} /\ ~m.torn
        /\ DOMAIN m.all.files = DOMAIN F /\ m.all.log = l /\ m.all.next = n /\ m.all.last = l
    BY <2>4, <2>5, FirstManifest
  <2> QED BY <2>1, <2>2, <2>3, <2>6, <1>5
<1>7. /\ DiskShape' /\ SameFiles /\ disk'.current = disk.current
      /\ 1 \in DOMAIN disk'.manifests /\ disk'.manifests[1] = m /\ Current' = Current
  <2>1. PICK n \in Nat : n = 1 OBVIOUS
  <2>2. disk' = [disk EXCEPT !.manifests = Put(@, n, m)] /\ disk.current # n BY <2>1, <1>2, <1>4
  <2>3. /\ DiskShape' /\ SameFiles /\ disk'.current = disk.current
        /\ DOMAIN disk'.manifests = DOMAIN disk.manifests \cup {n}
        /\ disk'.manifests[n] = m /\ Current' = Current
    BY <2>2, <1>1, <1>6, PutManifest
  <2> QED BY <2>1, <2>3
<1>8. /\ LogsStay /\ \A s : SaidKept(s) BY <1>7, SameData
<1>9. hist.acked = {} /\ ~hist.opened BY <1>1, <1>2 DEF ManifestInv
<1>15. SameStore /\ SameHist /\ Current.all \in Saids
  BY <1>1, <1>2, <1>7, CurrentShape DEF SameStore, SameHist, HistStays, IsManifest, Saids
<1>10. ManifestInv' /\ DurableInv'
  BY <1>1, <1>2, <1>7, <1>8, <1>9, <1>15, ManifestKept, DurableKept DEF SameStore, SameHist
<1>11. Bounded' /\ SequencesUnique' BY <1>1, <1>2, <1>7, SameEntries DEF Unmoved
<1>12. Valid(m.all)' BY <1>6 DEF Valid
<1>13. ReplayInv' /\ LogInv' /\ WrittenInv' /\ RepairInv'
  BY <1>2, <1>6, <1>7, <1>9, <1>12 DEF ReplayInv, LogInv, WrittenInv, RepairInv
<1>14. VersionShape' /\ OpeningShape' /\ HistShape'
  BY <1>1, <1>2 DEF VersionShape, OpeningShape, HistShape
<1> QED BY <1>2, <1>7, <1>10, <1>11, <1>13, <1>14, UnmovedFacts DEF Down, Shape, DownInv, Phases

(* The files are left as they are. *)
LEMMA SameDisk ==
  ASSUME Down, disk' = disk, Unmoved
  PROVE  /\ SameStore /\ disk'.current = disk.current /\ DiskShape' /\ Bounded' /\ SequencesUnique'
         /\ LogsStay /\ \A s : SaidKept(s)
<1>1. SameStore /\ SameFiles /\ DiskShape'
  BY DEF SameStore, SameFiles, Current, Down, Shape, DiskShape
<1>2. Bounded' /\ SequencesUnique' BY <1>1, SameEntries DEF Down, Unmoved
<1> QED BY <1>1, <1>2, SameData

(* The version is what all records of the manifest add up to; an *)
(* incomplete manifest is reported. *)
LEMMA RecoverStep ==
  ASSUME Down, Recover
  PROVE  Down'
<1>1. /\ DiskShape /\ VersionShape /\ OpeningShape /\ HistShape /\ Bounded /\ SequencesUnique
      /\ ManifestInv /\ DurableInv
  BY DEF Down, Shape, DownInv
<1>2. /\ phase = "down" /\ disk.current # 0
      /\ Unmoved /\ disk' = disk /\ hist' = hist
  BY DEF Recover, Unmoved
<1>3. /\ SameStore /\ disk'.current = disk.current /\ DiskShape' /\ Bounded' /\ SequencesUnique'
      /\ LogsStay /\ \A s : SaidKept(s)
  BY <1>2, SameDisk
<1>4. PICK m : m = Current.all OBVIOUS
<1>5. IsSaid(m) /\ m \in Saids BY <1>1, <1>4, CurrentShape DEF Saids, IsManifest
<1>6. /\ ~Complete(m) => phase' = "corrupt" /\ vset' = vset /\ opening' = opening
      /\ Complete(m) =>
           /\ phase' = "replay" /\ vset' = RecoveredVersion(m)
           /\ opening' = [NotOpening EXCEPT !.logs = {n \in DOMAIN disk.logs : n >= m.log}]
  BY <1>4 DEF Recover
<1>7. phase' # "up" /\ phase' \in Phases /\ phase' # "repair" BY <1>6 DEF Phases
<1>8. DurableInv' BY <1>1, <1>2, <1>3, <1>4, <1>5, <1>7, DurableKept DEF SameStore, HistStays
<1>9. HistShape' /\ SameHist BY <1>1, <1>2 DEF HistShape, SameHist, HistStays
<1>10. CASE ~Complete(m)
  <2>1. m = Nothing BY <1>1, <1>5, <1>10, ValidFacts DEF ManifestInv
  <2>3. ManifestInv' BY <2>1, <1>1, <1>3, <1>4, <1>6, <1>9, <1>10, ManifestKept
  <2>4. ReplayInv' /\ LogInv' /\ WrittenInv' /\ RepairInv'
    BY <1>6, <1>10 DEF ReplayInv, LogInv, WrittenInv, RepairInv
  <2>5. VersionShape' /\ OpeningShape' BY <1>1, <1>6, <1>10 DEF VersionShape, OpeningShape
  <2> QED
    BY <2>3, <2>4, <2>5, <1>2, <1>3, <1>7, <1>8, <1>9, UnmovedFacts DEF Down, Shape, DownInv
<1>11. CASE Complete(m)
  <2>1. m # Nothing /\ Valid(m) BY <1>1, <1>5, <1>11, NothingIs DEF ManifestInv
  <2>2. /\ m.next \in Nat /\ m.log \in Nat /\ m.last \in Nat /\ IsFiles(m.files) /\ m.log < m.next
    BY <2>1, <1>5 DEF Valid, IsSaid
  <2>3. ManifestInv' BY <1>1, <1>3, <1>6, <1>9, <1>11, ManifestKept
  <2>4. /\ vset'.next = m.next + 1 /\ vset'.manifest = m.next /\ vset'.last = m.last
        /\ vset'.log = m.log /\ vset'.files = m.files /\ VersionShape'
    BY <2>2, <1>6, <1>11 DEF RecoveredVersion, VersionShape
  <2>5. /\ opening'.logs = {n \in DOMAIN disk.logs : n >= m.log}
        /\ DOMAIN opening'.add = {} /\ OpeningShape'
    <3>1. PICK L \in SUBSET Nat : L = {n \in DOMAIN disk.logs : n >= m.log}
      BY <1>1 DEF DiskShape
    <3>2. opening' = [logs |-> L, add |-> NoFiles, log |-> 0, ok |-> TRUE, lost |-> {}]
      BY <3>1, <1>6, <1>11 DEF NotOpening
    <3> QED BY <3>1, <3>2 DEF OpeningShape, NoFiles, IsFiles
  <2>6. Current'.all = m /\ phase' = "replay" BY <1>3, <1>4, <1>6, <1>11 DEF SameStore
  <2>7. ReplayInv' BY <1>2, <2>1, <2>2, <2>4, <2>5, <2>6 DEF ReplayInv
  <2>8. LogInv' /\ WrittenInv' /\ RepairInv' BY <2>6 DEF LogInv, WrittenInv, RepairInv
  <2> QED
    BY <2>3, <2>4, <2>5, <2>7, <2>8, <1>2, <1>3, <1>7, <1>8, <1>9, UnmovedFacts DEF Down, Shape, DownInv
<1> QED BY <1>10, <1>11

(* What a manifest leads to, RepairDB finds without one. *)
LEMMA AllSurvives ==
  ASSUME NEW w, NEW s, NEW safe, Survives(w, s, safe)
  PROVE  Survives(w, Nothing, safe)
<1>1. CASE \E n \in DOMAIN disk.logs : w \in Writes(Entered(n, safe))
  BY <1>1, NothingIs DEF Survives
<1>2. CASE ~\E n \in DOMAIN disk.logs : w \in Writes(Entered(n, safe))
  <2>1. ASSUME Complete(s)
        PROVE  Writes(Data(DOMAIN s.files)) \subseteq Writes(Data(DOMAIN disk.tables))
    BY <2>1 DEF Complete, Writes, Data
  <2>2. w \in Writes(Data(DOMAIN disk.tables)) BY <1>2, <2>1 DEF Survives
  <2> QED BY <2>2, NothingIs DEF Survives
<1> QED BY <1>1, <1>2

(* RepairDB finds a number above those of all files. *)
LEMMA FindFilesStep ==
  ASSUME Down, FindFiles
  PROVE  Down'
<1>1. /\ DiskShape /\ VersionShape /\ OpeningShape /\ HistShape /\ Bounded /\ SequencesUnique
      /\ ManifestInv /\ DurableInv
  BY DEF Down, Shape, DownInv
<1>2. /\ phase \in {"down", "corrupt"} /\ disk' = disk /\ opening' = opening
      /\ Unmoved /\ phase' = "repair"
  BY DEF FindFiles, Unmoved
<1>3. /\ SameStore /\ disk'.current = disk.current /\ DiskShape' /\ Bounded' /\ SequencesUnique'
      /\ LogsStay
  BY <1>2, SameDisk
<1>4. PICK b \in BOOLEAN : b = TRUE OBVIOUS
<1>5. hist' = [hist EXCEPT !.spent = @ + 1, !.repaired = b] BY <1>4 DEF FindFiles
<1>6. HistShape' /\ HistStays /\ hist'.opened = hist.opened /\ hist'.repaired
  BY <1>1, <1>4, <1>5 DEF HistShape, HistStays
<1>7. PICK S : S = {0} \cup DOMAIN disk.logs \cup DOMAIN disk.tables OBVIOUS
<1>8. vset' = [EmptyVersions EXCEPT !.next = Max(S) + 1] BY <1>7 DEF FindFiles
<1>9. Max(S) \in Nat /\ \A n \in S : n <= Max(S)
  <2>1. S \in SUBSET Nat /\ S # {} /\ 0 \in S BY <1>1, <1>7 DEF DiskShape
  <2>2. PICK c \in Nat : \A n \in DOMAIN disk.logs \cup DOMAIN disk.tables : n <= c
    BY <1>1 DEF Bounded
  <2>3. \A n \in S : n <= c BY <2>2, <1>7
  <2> QED BY <2>1, <2>3, MaxIn
<1>10. VersionShape' /\ vset'.next = Max(S) + 1
  BY <1>8, <1>9 DEF VersionShape, EmptyVersions, NoFiles, IsFiles
<1>11. RepairInv'
  <2>1. \A n \in DOMAIN disk'.tables : n <= Max(S) /\ n \in Nat
    BY <1>1, <1>2, <1>7, <1>9 DEF DiskShape
  <2>2. \A n \in DOMAIN disk'.tables : n < vset'.next BY <2>1, <1>9, <1>10
  <2> QED BY <2>2, <1>2, <1>9, <1>10 DEF RepairInv
<1>12. ReplayInv' /\ LogInv' /\ WrittenInv' BY <1>2 DEF ReplayInv, LogInv, WrittenInv
<1>13. ManifestInv'
  BY <1>1, <1>2, <1>3, <1>6, SameData DEF ManifestInv, SameStore, SameFiles, HistStays, Saids
<1>14. ASSUME NEW w, NEW s, NEW safe \in BOOLEAN, Survives(w, s, safe)
       PROVE  Kept(w, s, safe)'
  <2>1. SaidKept(s) /\ SaidKept(Nothing) BY <1>3, SameData DEF SameStore
  <2>2. Survives(w, s, safe)' BY <2>1, <1>3, <1>14, SurvivesKept
  <2>3. Survives(w, Nothing, safe) BY <1>14, AllSurvives
  <2>4. Survives(w, Nothing, safe)' BY <2>1, <2>3, <1>3, SurvivesKept
  <2> QED BY <2>2, <2>4 DEF Kept
<1>15. DurableInv'
  <2>1. PICK m : m = Current OBVIOUS
  <2>2. m = Current' /\ Saids = m.left /\ Saids' = m.left BY <1>3, <2>1 DEF Saids, SameStore
  <2>3. \A w \in hist'.acked \ hist'.lost : Survives(w, m.all, FALSE)
    BY <1>1, <1>2, <1>6, <2>1, KeptIs DEF DurableInv, HistStays
  <2>4. \A w \in hist'.synced \ hist'.lost : \A s \in m.left : Survives(w, s, TRUE)
    BY <1>1, <1>2, <1>6, <2>2, KeptIs DEF DurableInv, HistStays
  <2>5. \A w \in hist'.acked \ hist'.lost : Kept(w, m.all, FALSE)' BY <2>3, <1>14
  <2>6. \A w \in hist'.synced \ hist'.lost : \A s \in m.left : Kept(w, s, TRUE)' BY <2>4, <1>14
  <2> QED BY <2>2, <2>5, <2>6 DEF DurableInv
<1>16. OpeningShape' BY <1>1, <1>2 DEF OpeningShape
<1> QED
  BY <1>2, <1>3, <1>6, <1>10, <1>11, <1>12, <1>13, <1>15, <1>16, UnmovedFacts
     DEF Down, Shape, DownInv, Phases
-----------------------------------------------------------------------------
(* Opening a database: the logs, and the new manifest *)

(* CURRENT names the first manifest, or the one that RepairDB wrote, with *)
(* all that was promised in the tables it names. *)
LEMMA SetFirstCurrentStep ==
  ASSUME Down, SetFirstCurrent
  PROVE  Down'
<1>1. /\ DiskShape /\ VersionShape /\ OpeningShape /\ HistShape /\ Bounded /\ SequencesUnique
      /\ ManifestInv /\ DurableInv /\ RepairInv
  BY DEF Down, Shape, DownInv
<1>2. /\ phase = "newdb" /\ phase' = "down"
      /\ Unmoved /\ opening' = opening /\ vset' = vset /\ hist' = hist
  BY DEF SetFirstCurrent, Unmoved
<1>3. /\ disk' = [disk EXCEPT !.current = 1]
      /\ disk' = [logs |-> disk.logs, tables |-> disk.tables, manifests |-> disk.manifests,
                  current |-> 1]
  BY <1>1 DEF SetFirstCurrent, DiskShape
<1>4. DiskShape' /\ SameFiles /\ disk'.current = 1 BY <1>1, <1>3 DEF DiskShape, SameFiles
<1>5. /\ 1 \in DOMAIN disk.manifests
      /\ disk.manifests[1].left = {Nothing, disk.manifests[1].all} /\ Valid(disk.manifests[1].all)
      /\ \/ hist.acked = {}
         \/ /\ DOMAIN disk.logs = {}
            /\ Data(DOMAIN disk.tables) \subseteq Data(DOMAIN disk.manifests[1].all.files)
  BY <1>1, <1>2 DEF RepairInv
<1>6. PICK s : s = disk.manifests[1].all OBVIOUS
<1>7. Current'.all = s /\ Saids' = {Nothing, s} BY <1>3, <1>5, <1>6 DEF Current, Saids
<1>8. /\ \A S : Data(S)' = Data(S)
      /\ \A x : Complete(x)' = Complete(x) /\ Valid(x)' = Valid(x)
      /\ disk'.logs = disk.logs /\ disk'.tables = disk.tables
  BY <1>4, SameData DEF SameFiles
<1>9. Valid(s)' /\ Complete(s)' BY <1>5, <1>6, <1>8, ValidFacts
<1>10. ~(hist.opened /\ ~hist.repaired) BY <1>1, <1>2 DEF ManifestInv
<1>11. ManifestInv'
  <2>1. \A x \in {Nothing, s} : x.next <= s.next BY <1>5, <1>6, NothingIs DEF Valid, None
  <2>2. \A n \in DOMAIN disk'.logs : LogData(n)' = {} \/ hist'.acked = {} BY <1>2, <1>5, <1>8
  <2>3. disk'.current # 0 /\ ~(hist'.opened /\ ~hist'.repaired) BY <1>2, <1>4, <1>10
  <2> QED BY <2>1, <2>2, <2>3, <1>7, <1>9 DEF ManifestInv
<1>12. ASSUME NEW w \in hist.acked \ hist.lost
       PROVE  w \in Writes(Data(DOMAIN s.files)) /\ w \in Writes(Data(DOMAIN disk.tables))
  <2>1. DOMAIN disk.logs = {} /\ Data(DOMAIN disk.tables) \subseteq Data(DOMAIN s.files)
    BY <1>5, <1>6, <1>12
  <2>2. PICK c : c = Current.all OBVIOUS
  <2>3. Survives(w, c, FALSE) BY <1>1, <1>2, <1>12, <2>2, KeptIs DEF DurableInv
  <2>4. CASE Complete(c)
    <3>1. w \in Writes(Data(DOMAIN c.files)) /\ DOMAIN c.files \subseteq DOMAIN disk.tables
      BY <1>2, <2>1, <2>3, <2>4 DEF Survives, Complete
    <3>2. Data(DOMAIN c.files) \subseteq Data(DOMAIN disk.tables) BY <3>1 DEF Data
    <3> QED BY <3>1, <3>2, <2>1, WritesGrow
  <2>5. CASE ~Complete(c)
    <3>1. w \in Writes(Data(DOMAIN disk.tables)) BY <1>2, <2>1, <2>3, <2>5 DEF Survives
    <3> QED BY <3>1, <2>1, WritesGrow
  <2> QED BY <2>4, <2>5
<1>13. DurableInv'
  <2>1. ASSUME NEW w \in hist.acked \ hist.lost, NEW x \in {Nothing, s}, NEW safe \in BOOLEAN
        PROVE  Survives(w, x, safe)'
    <3>1. w \in Writes(Data(DOMAIN s.files)') /\ w \in Writes(Data(DOMAIN disk.tables)')
      BY <1>8, <1>12
    <3>2. CASE x = s BY <3>1, <3>2, <1>2, <1>9 DEF Survives
    <3>3. CASE x = Nothing
      <4>1. ~Complete(x)' BY <3>3, <1>8, NothingIs
      <4> QED BY <3>1, <4>1, <1>8 DEF Survives
    <3> QED BY <3>2, <3>3
  <2>2. hist.synced \subseteq hist.acked /\ hist' = hist BY <1>1, <1>2 DEF HistShape
  <2>3. \A w, x, safe : Survives(w, x, safe)' => Kept(w, x, safe)' BY <1>2 DEF Kept, Archived
  <2> QED BY <2>1, <2>2, <2>3, <1>7 DEF DurableInv
<1>14. ReplayInv' /\ LogInv' /\ WrittenInv' /\ RepairInv'
  BY <1>2 DEF ReplayInv, LogInv, WrittenInv, RepairInv
<1>15. VersionShape' /\ OpeningShape' /\ HistShape'
  BY <1>1, <1>2 DEF VersionShape, OpeningShape, HistShape
<1>16. Bounded' /\ SequencesUnique' BY <1>1, <1>2, <1>4, SameEntries DEF Unmoved
<1> QED
  BY <1>2, <1>4, <1>11, <1>13, <1>14, <1>15, <1>16, UnmovedFacts DEF Down, Shape, DownInv, Phases

(* A log that is added, empty. *)
LEMMA NewLog ==
  ASSUME DiskShape, NEW n \in Nat, n \notin DOMAIN disk.logs,
         disk' = [disk EXCEPT !.logs = Put(@, n, [recs |-> <<>>, synced |-> 0])]
  PROVE  /\ DiskShape' /\ disk'.tables = disk.tables /\ Current' = Current
         /\ disk'.current = disk.current
         /\ DOMAIN disk'.logs = DOMAIN disk.logs \cup {n}
         /\ LogsStay /\ \A k \in DOMAIN disk.logs : LogData(k)' = LogData(k)
         /\ LogData(n)' = {} /\ disk'.logs[n].recs = <<>>
<1>1. PICK l : l = [recs |-> <<>>, synced |-> 0] OBVIOUS
<1>2. PICK L : L = Put(disk.logs, n, l) OBVIOUS
<1>3. /\ DOMAIN L = DOMAIN disk.logs \cup {n} /\ L[n] = l
      /\ \A k \in DOMAIN disk.logs : L[k] = disk.logs[k]
  BY <1>2 DEF Put, Over
<1>4. /\ disk' = [logs |-> L, tables |-> disk.tables, manifests |-> disk.manifests,
                  current |-> disk.current]
  BY <1>1, <1>2 DEF DiskShape
<1>5. IsLog(l) /\ ReadLog(l, Len(l.recs)) = {} /\ l.recs = <<>> BY <1>1, EmptyLog
<1>6. DiskShape' /\ Current' = Current BY <1>3, <1>4, <1>5 DEF DiskShape, Current
<1>7. \A k \in DOMAIN disk.logs : LogData(k)' = LogData(k) /\ SafeLogData(k)' = SafeLogData(k)
  BY <1>3, <1>4 DEF LogData, SafeLogData
<1>8. LogData(n)' = {} BY <1>3, <1>4, <1>5 DEF LogData
<1> QED BY <1>3, <1>4, <1>5, <1>6, <1>7, <1>8 DEF LogsStay

(* The logs are replayed and the new one is empty. *)
LEMMA NewLogFileStep ==
  ASSUME Down, NewLogFile
  PROVE  Down'
<1>1. /\ DiskShape /\ VersionShape /\ OpeningShape /\ HistShape /\ Bounded /\ SequencesUnique
      /\ ManifestInv /\ DurableInv
  BY DEF Down, Shape, DownInv
<1>2. /\ phase = "replay" /\ phase' = "manifest" /\ opening.logs = {}
      /\ Unmoved /\ hist' = hist
      /\ disk' = [disk EXCEPT !.logs = Put(@, vset.next, [recs |-> <<>>, synced |-> 0])]
      /\ opening' = [opening EXCEPT !.log = vset.next]
      /\ vset' = [vset EXCEPT !.next = @ + 1]
  BY DEF NewLogFile, Unmoved
<1>3. PICK x \in Nat : x = vset.next BY <1>1 DEF VersionShape
<1>4. PICK m : m = Current OBVIOUS
<1>5. /\ m.all # Nothing /\ vset.files = m.all.files /\ vset.log = m.all.log
      /\ vset.manifest = m.all.next /\ vset.manifest < x /\ m.all.last <= vset.last
      /\ \A n \in DOMAIN disk.logs : n >= vset.log =>
           n < x /\ Writes(LogData(n)) \subseteq Writes(Data(DOMAIN opening.add)) \cup opening.lost
      /\ DOMAIN opening.add \subseteq Scanned
      /\ \A n \in DOMAIN opening.add :
           /\ vset.manifest < n /\ n < x
           /\ \A e \in disk.tables[n].data : e[1] <= vset.last
  BY <1>2, <1>3, <1>4 DEF Down, DownInv, ReplayInv
<1>6. {vset.log, vset.manifest, vset.last} \subseteq Nat /\ vset.log < vset.manifest
  <2>1. Valid(m.all) BY <1>1, <1>4, <1>5, CurrentShape DEF ManifestInv, Saids, IsManifest
  <2> QED BY <2>1, <1>1, <1>5 DEF Valid, VersionShape
<1>7. \A n \in DOMAIN disk.logs : n < x /\ n \in Nat BY <1>1, <1>5, <1>6 DEF DiskShape
<1>8. x \notin DOMAIN disk.logs BY <1>7
<1>9. /\ DiskShape' /\ disk'.tables = disk.tables /\ Current' = Current
      /\ disk'.current = disk.current
      /\ DOMAIN disk'.logs = DOMAIN disk.logs \cup {x}
      /\ LogsStay /\ \A k \in DOMAIN disk.logs : LogData(k)' = LogData(k)
      /\ LogData(x)' = {} /\ disk'.logs[x].recs = <<>>
  <2>1. disk' = [disk EXCEPT !.logs = Put(@, x, [recs |-> <<>>, synced |-> 0])] BY <1>2, <1>3
  <2> QED BY <2>1, <1>1, <1>8, NewLog
<1>10. /\ opening' = [logs |-> {}, add |-> opening.add, log |-> x, ok |-> opening.ok, lost |-> opening.lost]
       /\ OpeningShape'
  BY <1>1, <1>2, <1>3 DEF OpeningShape
<1>11. /\ vset'.next = x + 1 /\ vset'.manifest = vset.manifest /\ vset'.last = vset.last
       /\ vset'.log = vset.log /\ vset'.files = vset.files /\ VersionShape'
  BY <1>1, <1>2, <1>3 DEF VersionShape
<1>12. /\ Scanned' = Scanned /\ TableData' = TableData
       /\ \A S : Data(S)' = Data(S)
       /\ \A s : SaidKept(s) /\ Valid(s)' = Valid(s)
  <2>1. Scanned' = Scanned /\ TableData' = TableData BY <1>9 DEF Scanned, TableData, Data
  <2>2. \A S : Data(S)' = Data(S) BY <1>9 DEF Data
  <2>3. \A s : SaidKept(s) BY <2>1, <2>2, <1>9 DEF SaidKept, Complete
  <2>4. \A s : Valid(s)' = Valid(s) BY <2>1, <1>9 DEF Valid
  <2> QED BY <2>1, <2>2, <2>3, <2>4
<1>13. DurableInv'
  <2>1. Current.all \in Saids BY <1>1, CurrentShape DEF Saids, IsManifest
  <2> QED BY <2>1, <1>1, <1>2, <1>9, <1>12, DurableKept DEF HistStays
<1>14. ManifestInv'
  <2>1. Saids' = Saids /\ m = Current' /\ hist' = hist BY <1>2, <1>4, <1>9 DEF Saids
  <2>2. \A s \in Saids' : s = Nothing \/ Valid(s)' BY <2>1, <1>1, <1>12 DEF ManifestInv
  <2>3. Nothing \in Saids /\ m.all # Nothing =>
          hist.acked = {} \/ \A n \in DOMAIN disk'.logs : LogData(n)' = {}
    BY <1>1, <1>4, <1>9 DEF ManifestInv
  <2>4. /\ m.all = Nothing \/ \A s \in Saids : s.next <= m.all.next
        /\ disk.current = 0 => ~hist.opened /\ hist.acked = {}
    BY <1>1, <1>4 DEF ManifestInv
  <2>6. \/ hist.acked = {} \/ \A n \in DOMAIN disk'.logs : LogData(n)' = {}
        \/ \A s \in Saids : s = Nothing \/ disk.current < s.next
    BY <1>1, <1>9 DEF ManifestInv
  <2>5. hist.opened /\ ~hist.repaired =>
          /\ Nothing \in Saids => m.all = Nothing
          /\ m.all = Nothing => m.torn
          /\ \A s \in Saids : s = Nothing \/ disk.current < s.next
    BY <1>1, <1>4 DEF ManifestInv
  <2> QED BY <2>1, <2>2, <2>3, <2>4, <2>5, <2>6, <1>2, <1>9 DEF ManifestInv
<1>15. ReplayInv'
  <2>1. Current'.all = m.all /\ opening'.logs = {} /\ opening'.add = opening.add
    BY <1>4, <1>9, <1>10
  <2>2. vset'.manifest < vset'.next BY <1>3, <1>5, <1>6, <1>11
  <2>3. ASSUME NEW n \in DOMAIN disk'.logs, n >= vset'.log
        PROVE  n < vset'.next /\ Writes(LogData(n)') \subseteq Writes(Data(DOMAIN opening.add)') \cup opening'.lost
    <3>1. CASE n = x BY <3>1, <1>3, <1>9, <1>11 DEF Writes
    <3>2. CASE n # x
      <4>1. n \in DOMAIN disk.logs /\ LogData(n)' = LogData(n) /\ n < x /\ n \in Nat
        BY <3>2, <1>7, <1>9
      <4>2. Writes(LogData(n)) \subseteq Writes(Data(DOMAIN opening.add)) \cup opening.lost
        BY <4>1, <2>3, <1>5, <1>11
      <4>3. Data(DOMAIN opening.add)' = Data(DOMAIN opening.add)
        <5>1. PICK S : S = DOMAIN opening.add OBVIOUS
        <5>2. S = DOMAIN opening'.add /\ Data(S)' = Data(S) BY <5>1, <2>1, <1>12
        <5> QED BY <5>1, <5>2
      <4> QED BY <4>1, <4>2, <4>3, <1>10, <1>11
    <3> QED BY <3>1, <3>2
  <2>4. ASSUME NEW n \in DOMAIN opening'.add
        PROVE  /\ n \in Scanned' /\ vset'.manifest < n /\ n < vset'.next
               /\ \A e \in disk'.tables[n].data : e[1] <= vset'.last
    <3>1. n \in DOMAIN opening.add /\ n \in Nat BY <2>1, <2>4, <1>1 DEF OpeningShape, IsFiles
    <3>2. n < x + 1 BY <3>1, <1>3, <1>5
    <3> QED BY <3>1, <3>2, <1>5, <1>9, <1>11, <1>12
  <2>5. opening'.logs \subseteq {n \in DOMAIN disk'.logs : n >= vset'.log} BY <2>1
  <2>6. /\ Current'.all # Nothing /\ vset'.files = Current'.all.files /\ vset'.log = Current'.all.log
        /\ vset'.manifest = Current'.all.next /\ Current'.all.last <= vset'.last
    BY <2>1, <1>5, <1>11
  <2>7. \A n \in DOMAIN disk'.logs \ opening'.logs : n >= vset'.log =>
           n < vset'.next /\ Writes(LogData(n)') \subseteq Writes(Data(DOMAIN opening.add)') \cup opening'.lost
    BY <2>3
  <2> QED BY <2>2, <2>4, <2>5, <2>6, <2>7 DEF ReplayInv
<1>16. LogInv' /\ WrittenInv' /\ RepairInv'
  <2>1. opening'.log = x /\ opening'.logs = {} /\ 0 < x /\ x < vset'.next
    BY <1>3, <1>5, <1>6, <1>10, <1>11
  <2>2. \A n \in DOMAIN disk'.logs : n <= x BY <1>3, <1>7, <1>9
  <2> QED BY <2>1, <2>2, <1>2, <1>9 DEF LogInv, WrittenInv, RepairInv
<1>17. Bounded' /\ SequencesUnique'
  <2>1. AllEntries' \subseteq AllEntries
    <3>1. \A n \in DOMAIN disk'.tables : disk'.tables[n].data \subseteq AllEntries
      BY <1>9, AllIs
    <3>2. \A n \in DOMAIN disk'.logs : LogData(n)' \subseteq AllEntries BY <1>9, AllIs
    <3>3. DOMAIN db'.memtables = {} BY <1>2, UnmovedFacts DEF Unmoved
    <3> QED BY <3>1, <3>2, <3>3, EntriesWithin
  <2> QED BY <2>1, <1>1, <1>3, <1>9, BoundedStays
<1>18. HistShape' BY <1>1, <1>2 DEF HistShape
<1> QED
  BY <1>2, <1>9, <1>10, <1>11, <1>13, <1>14, <1>15, <1>16, <1>17, <1>18, UnmovedFacts
     DEF Down, Shape, DownInv, Phases
-----------------------------------------------------------------------------
(* A manifest stays valid while its own tables stay. *)
LEMMA ValidStays ==
  ASSUME NEW s, Valid(s), FilesKept(DOMAIN s.files)
  PROVE  Valid(s)' /\ SaidKept(s)
<1>1. Valid(s)' BY DEF Valid, FilesKept
<1>2. \A n \in DOMAIN s.files : n \in DOMAIN disk.tables /\ n \in DOMAIN disk'.tables
                                /\ disk'.tables[n] = disk.tables[n]
  BY DEF Valid, FilesKept, Scanned
<1>3. Data(DOMAIN s.files)' = Data(DOMAIN s.files) BY <1>2 DEF Data
<1>4. Complete(s) BY ValidFacts
<1> QED BY <1>1, <1>2, <1>3, <1>4 DEF SaidKept

(* A table that is put into the directory. *)
LEMMA PutTable ==
  ASSUME DiskShape, NEW t \in Nat, NEW b, IsTable(b),
         disk' = [disk EXCEPT !.tables = Put(@, t, b)]
  PROVE  /\ DiskShape' /\ disk'.logs = disk.logs /\ Current' = Current
         /\ disk'.current = disk.current /\ disk'.manifests = disk.manifests
         /\ DOMAIN disk'.tables = DOMAIN disk.tables \cup {t} /\ disk'.tables[t] = b
         /\ \A k \in DOMAIN disk.tables \ {t} : disk'.tables[k] = disk.tables[k]
<1>1. PICK T : T = Put(disk.tables, t, b) OBVIOUS
<1>2. /\ DOMAIN T = DOMAIN disk.tables \cup {t} /\ T[t] = b
      /\ \A k \in DOMAIN disk.tables \ {t} : T[k] = disk.tables[k]
  BY <1>1 DEF Put, Over
<1>3. disk' = [logs |-> disk.logs, tables |-> T, manifests |-> disk.manifests,
               current |-> disk.current]
  BY <1>1 DEF DiskShape
<1>4. \A k \in DOMAIN T : k \in Nat /\ IsTable(T[k]) BY <1>2 DEF DiskShape
<1>5. DiskShape' /\ Current' = Current BY <1>3, <1>4 DEF DiskShape, Current
<1> QED BY <1>2, <1>3, <1>5

(* A log is replayed, the one with the least number. *)
LEMMA ReplayedBy ==
  ASSUME Down, RecoverLogFile
  PROVE  /\ \E n, t, data, got, a : Replayed(n, t, data, got, a)
         /\ phase = "replay" /\ phase' = "replay" /\ Unmoved
         /\ HistShape' /\ SameHist
<1>1. /\ opening.logs \in SUBSET Nat /\ opening.logs # {} /\ vset.next \in Nat /\ HistShape
      /\ opening.logs \subseteq DOMAIN disk.logs /\ OpeningShape
  BY DEF RecoverLogFile, Down, Shape, OpeningShape, VersionShape, DownInv, ReplayInv
<1>2. PICK n : n = Min(opening.logs) OBVIOUS
<1>3. n \in opening.logs BY <1>1, <1>2, MinIn
<1>4. PICK t \in Nat : t = vset.next BY <1>1
<1>5. PICK l, all : l = disk.logs[n] /\ all = Len(l.recs) OBVIOUS
<1>6. all \in Nat BY <1>1, <1>3, <1>5 DEF Down, Shape, DiskShape, IsLog
<1>7. PICK read \in 0 .. all, saved \in 0 .. all :
        /\ saved = read \/ (saved < read /\ ReadLog(l, saved) # ReadLog(l, read))
        /\ IF saved = all THEN UNCHANGED hist ELSE Fault
        /\ disk' = IF ReadLog(l, saved) = {} THEN disk
                   ELSE [disk EXCEPT !.tables = Put(@, t, [data |-> ReadLog(l, saved), whole |-> TRUE])]
        /\ opening' = [opening EXCEPT !.logs = @ \ {n}, !.ok = (saved = read),
                         !.add = IF ReadLog(l, saved) = {} THEN @ ELSE Put(@, t, 0),
                         !.lost = @ \cup (Writes(ReadLog(l, all)) \ Writes(ReadLog(l, saved)))]
        /\ vset' = [vset EXCEPT
                      !.next = Max({t + (IF ReadLog(l, saved) = {} THEN 0 ELSE 1)
                                      + (IF saved = read THEN 0 ELSE 1), n + 1}),
                      !.last = NewestSeq(ReadLog(l, read), @)]
  <2>1. PICK read \in 0 .. Len(disk.logs[Min(opening.logs)].recs),
             saved \in 0 .. Len(disk.logs[Min(opening.logs)].recs) :
          LET b == Min(opening.logs)
              Upto(k) == ReadLog(disk.logs[b], k)
              d == Upto(saved)
              x == vset.next + (IF d = {} THEN 0 ELSE 1) + (IF saved = read THEN 0 ELSE 1)
          IN
          /\ saved = read \/ (saved < read /\ Upto(saved) # Upto(read))
          /\ IF saved = Len(disk.logs[b].recs) THEN UNCHANGED hist ELSE Fault
          /\ disk' = IF d = {} THEN disk
                     ELSE [disk EXCEPT !.tables = Put(@, vset.next, [data |-> d, whole |-> TRUE])]
          /\ opening' = [opening EXCEPT !.logs = @ \ {b}, !.ok = (saved = read),
                           !.add = IF d = {} THEN @ ELSE Put(@, vset.next, 0),
                           !.lost = @ \cup (Writes(Upto(Len(disk.logs[b].recs))) \ Writes(d))]
          /\ vset' = [vset EXCEPT !.next = Max({x, b + 1}), !.last = NewestSeq(Upto(read), @)]
    BY DEF RecoverLogFile
  <2> QED BY <2>1, <1>2, <1>4, <1>5
<1>8. PICK data, got : data = ReadLog(l, saved) /\ got = ReadLog(l, read) OBVIOUS
<1>9. data \subseteq got /\ got \subseteq LogData(n) /\ LogData(n) = ReadLog(l, all)
  BY <1>5, <1>6, <1>7, <1>8, ReadLogGrows DEF LogData
<1>10. PICK a : a = t + (IF data = {} THEN 0 ELSE 1) + (IF saved = read THEN 0 ELSE 1) OBVIOUS
<1>11. a \in Nat /\ t <= a /\ (data # {} => t < a) BY <1>10
<1>12. PICK ok \in BOOLEAN : ok <=> (saved = read) OBVIOUS
<1>13. opening' = [opening EXCEPT !.logs = @ \ {n}, !.ok = ok,
                     !.add = IF data = {} THEN @ ELSE Put(@, t, 0),
                     !.lost = @ \cup (Writes(LogData(n)) \ Writes(data))]
  BY <1>7, <1>8, <1>9, <1>12
<1>14. opening'.ok = ok BY <1>1, <1>13 DEF OpeningShape
<1>15. disk' = IF data = {} THEN disk
               ELSE [disk EXCEPT !.tables = Put(@, t, [data |-> data, whole |-> TRUE])]
  BY <1>7, <1>8
<1>16. vset' = [vset EXCEPT !.next = Max({a, n + 1}), !.last = NewestSeq(got, @)]
  BY <1>7, <1>8, <1>10
<1>17. Replayed(n, t, data, got, a)
  BY <1>3, <1>4, <1>9, <1>11, <1>13, <1>14, <1>15, <1>16 DEF Replayed
<1>18. HistShape' /\ SameHist
  <2>1. CASE hist' = hist BY <2>1, <1>1 DEF HistShape, SameHist, HistStays
  <2>2. CASE Fault BY <2>2, <1>1, FaultFacts DEF SameHist, HistStays, TruthKept
  <2> QED BY <2>1, <2>2, <1>7
<1> QED BY <1>17, <1>18 DEF RecoverLogFile, Unmoved

(* What it held is in a table of level 0 under a new number. *)
LEMMA ReplayedAdds ==
  ASSUME DiskShape, VersionShape, OpeningShape, Bounded,
         NEW n, NEW t, NEW data, NEW got, NEW a,
         Replayed(n, t, data, got, a), n \in DOMAIN disk.logs
  PROVE  Added(n, t, data) /\ data \subseteq Entry /\ data \subseteq AllEntries
<1>1. /\ n \in opening.logs /\ t = vset.next
      /\ data \subseteq got /\ got \subseteq LogData(n)
      /\ a \in Nat /\ t <= a /\ (data # {} => t < a)
      /\ disk' = IF data = {} THEN disk
                 ELSE [disk EXCEPT !.tables = Put(@, t, [data |-> data, whole |-> TRUE])]
      /\ opening' = [opening EXCEPT !.logs = @ \ {n}, !.ok = opening'.ok,
                       !.add = IF data = {} THEN @ ELSE Put(@, t, 0),
                       !.lost = @ \cup (Writes(LogData(n)) \ Writes(data))]
      /\ opening'.ok \in BOOLEAN
      /\ vset' = [vset EXCEPT !.next = Max({a, n + 1}), !.last = NewestSeq(got, @)]
  BY DEF Replayed
<1>2. n \in Nat /\ t \in Nat BY <1>1 DEF VersionShape, OpeningShape
<1>3. got \subseteq Entry /\ got \subseteq AllEntries /\ data \subseteq Entry /\ data \subseteq AllEntries
  <2>1. IsLog(disk.logs[n]) BY DEF DiskShape
  <2>2. Len(disk.logs[n].recs) \in 0 .. Len(disk.logs[n].recs) BY <2>1 DEF IsLog
  <2>3. got \subseteq Entry BY <1>1, <2>1, <2>2, ReadLogType DEF LogData
  <2>4. got \subseteq AllEntries BY <1>1 DEF AllEntries
  <2> QED BY <2>3, <2>4, <1>1
<1>5. PICK x : x = Max({a, n + 1}) OBVIOUS
<1>6. x \in {a, n + 1} /\ a <= x /\ n + 1 <= x /\ x \in Nat
  <2>1. {a, n + 1} \in SUBSET Nat /\ {a, n + 1} # {} /\ a + n + 1 \in Nat
        /\ \A k \in {a, n + 1} : k <= a + n + 1
    BY <1>1, <1>2
  <2>2. Max({a, n + 1}) \in {a, n + 1} /\ \A k \in {a, n + 1} : k <= Max({a, n + 1})
    BY <2>1, MaxIn
  <2> QED BY <2>2, <1>1, <1>2, <1>5
<1>7. PICK y : y = NewestSeq(got, vset.last) OBVIOUS
<1>8. y \in Nat /\ vset.last <= y /\ \A e \in data : e[1] <= y
  <2>1. PICK b \in Nat : \A e \in AllEntries : e[1] <= b BY DEF Bounded
  <2>2. got \in SUBSET Entry /\ vset.last \in Nat /\ \A e \in got : e[1] <= b
    BY <2>1, <1>3 DEF VersionShape
  <2>3. y \in Nat /\ vset.last <= y /\ \A e \in got : e[1] <= y BY <2>1, <2>2, <1>7, NewestIs
  <2> QED BY <2>3, <1>1
<1>9. vset' = [vset EXCEPT !.next = x, !.last = y] BY <1>1, <1>5, <1>7
<1>10. /\ vset'.next = x /\ vset'.last = y /\ vset'.files = vset.files /\ vset'.log = vset.log
       /\ vset'.manifest = vset.manifest /\ VersionShape'
  BY <1>6, <1>8, <1>9 DEF VersionShape
<1>11. t <= vset'.next /\ n < vset'.next /\ (data # {} => t < vset'.next)
  BY <1>1, <1>2, <1>6, <1>10
<1>12. PICK L, A, W, ok : /\ L = opening.logs \ {n} /\ ok = opening'.ok
                          /\ A = IF data = {} THEN opening.add ELSE Put(opening.add, t, 0)
                          /\ W = opening.lost \cup (Writes(LogData(n)) \ Writes(data))
  OBVIOUS
<1>13. opening' = [opening EXCEPT !.logs = L, !.ok = ok, !.add = A, !.lost = W] /\ ok \in BOOLEAN
  BY <1>1, <1>12
<1>14. /\ opening'.logs = L /\ opening'.add = A /\ opening'.log = opening.log
       /\ opening'.lost = W /\ opening'.ok = ok
       /\ opening' = [logs |-> L, add |-> A, log |-> opening.log, ok |-> ok, lost |-> W]
  BY <1>13 DEF OpeningShape
<1>15. IsFiles(A) /\ (data = {} => A = opening.add) /\ (data # {} => DOMAIN A = DOMAIN opening.add \cup {t})
  <2>1. CASE data = {} BY <2>1, <1>12 DEF OpeningShape
  <2>2. CASE data # {}
    <3>1. A = Put(opening.add, t, 0) BY <2>2, <1>12
    <3>2. DOMAIN A = DOMAIN opening.add \cup {t} /\ A = [k \in DOMAIN A |-> A[k]]
      BY <3>1 DEF Put, Over
    <3>3. \A k \in DOMAIN A : k \in Nat /\ A[k] \in {0, 1}
      BY <3>1, <3>2, <1>2 DEF Put, Over, OpeningShape, IsFiles
    <3> QED BY <2>2, <3>2, <3>3 DEF IsFiles
  <2> QED BY <2>1, <2>2
<1>16. OpeningShape' BY <1>12, <1>13, <1>14, <1>15 DEF OpeningShape
<1>19. opening.lost \subseteq opening'.lost /\ Writes(LogData(n)) \subseteq Writes(data) \cup opening'.lost
  BY <1>12, <1>14
<1>17. CASE data = {}
  <2>1. disk' = disk BY <1>17, <1>1
  <2>2. DiskShape' /\ Current' = Current BY <2>1 DEF DiskShape, Current
  <2> QED
    BY <2>1, <2>2, <1>3, <1>8, <1>10, <1>11, <1>12, <1>14, <1>15, <1>16, <1>17, <1>19 DEF Added
<1>18. CASE data # {}
  <2>1. PICK b : b = [data |-> data, whole |-> TRUE] OBVIOUS
  <2>2. IsTable(b) /\ disk' = [disk EXCEPT !.tables = Put(@, t, b)]
    BY <2>1, <1>1, <1>3, <1>18 DEF IsTable
  <2>3. /\ DiskShape' /\ disk'.logs = disk.logs /\ Current' = Current
        /\ disk'.current = disk.current /\ disk'.manifests = disk.manifests
        /\ DOMAIN disk'.tables = DOMAIN disk.tables \cup {t} /\ disk'.tables[t] = b
        /\ \A k \in DOMAIN disk.tables \ {t} : disk'.tables[k] = disk.tables[k]
    BY <2>2, <1>2, PutTable
  <2> QED
    BY <2>1, <2>3, <1>3, <1>8, <1>10, <1>11, <1>12, <1>14, <1>15, <1>16, <1>18, <1>19 DEF Added
<1> QED BY <1>17, <1>18

(* The log is still there, as the manifest does not yet name the table: a *)
(* crash before the new manifest replays it again. *)
LEMMA RecoverLogFileStep ==
  ASSUME Down, RecoverLogFile
  PROVE  Down'
<1>1. /\ DiskShape /\ VersionShape /\ OpeningShape /\ HistShape /\ Bounded /\ SequencesUnique
      /\ ManifestInv /\ DurableInv
  BY DEF Down, Shape, DownInv
<1>2. phase = "replay" /\ phase' = "replay" /\ Unmoved /\ HistShape' /\ SameHist BY ReplayedBy
<1>3. PICK n, t, data, got, a : Replayed(n, t, data, got, a) BY ReplayedBy
<1>4. PICK m : m = Current OBVIOUS
<1>5. /\ m.all # Nothing /\ vset.files = m.all.files /\ vset.log = m.all.log
      /\ vset.manifest = m.all.next /\ vset.manifest < vset.next /\ m.all.last <= vset.last
      /\ opening.logs \subseteq {k \in DOMAIN disk.logs : k >= vset.log}
      /\ \A k \in DOMAIN disk.logs \ opening.logs : k >= vset.log =>
           k < vset.next /\ Writes(LogData(k)) \subseteq Writes(Data(DOMAIN opening.add)) \cup opening.lost
      /\ DOMAIN opening.add \subseteq Scanned
      /\ \A k \in DOMAIN opening.add :
           /\ vset.manifest < k /\ k < vset.next
           /\ \A e \in disk.tables[k].data : e[1] <= vset.last
  BY <1>2, <1>4 DEF Down, DownInv, ReplayInv
<1>6. n \in DOMAIN disk.logs /\ n \in opening.logs /\ data \subseteq LogData(n) /\ t = vset.next
  BY <1>3, <1>5 DEF Replayed
<1>7. Added(n, t, data) /\ data \subseteq Entry /\ data \subseteq AllEntries
  BY <1>1, <1>3, <1>6, ReplayedAdds
<1>8. /\ DiskShape' /\ disk'.logs = disk.logs /\ Current' = m /\ disk'.current = disk.current
      /\ opening'.logs = opening.logs \ {n} /\ OpeningShape'
      /\ VersionShape' /\ vset'.files = vset.files /\ vset'.log = vset.log
      /\ vset'.manifest = vset.manifest
      /\ t <= vset'.next /\ n < vset'.next
      /\ vset.last <= vset'.last /\ (\A e \in data : e[1] <= vset'.last)
      /\ opening.lost \subseteq opening'.lost
      /\ Writes(LogData(n)) \subseteq Writes(data) \cup opening'.lost
  BY <1>4, <1>7 DEF Added
<1>9. /\ data = {} => disk' = disk /\ opening'.add = opening.add
      /\ data # {} => /\ DOMAIN disk'.tables = DOMAIN disk.tables \cup {t}
                      /\ disk'.tables[t] = [data |-> data, whole |-> TRUE]
                      /\ \A k \in DOMAIN disk.tables \ {t} : disk'.tables[k] = disk.tables[k]
                      /\ DOMAIN opening'.add = DOMAIN opening.add \cup {t}
                      /\ t < vset'.next
  BY <1>7 DEF Added
<1>10. /\ m.all \in m.left /\ Valid(m.all)
       /\ \A s \in m.left : s # Nothing => Valid(s) /\ s.next <= m.all.next
  BY <1>1, <1>4, <1>5, CurrentShape DEF ManifestInv, Saids, IsManifest
<1>11. {t, vset.next, vset.manifest, vset.last, vset.log, vset'.next, vset'.last} \subseteq Nat
  BY <1>1, <1>6, <1>8 DEF VersionShape
<1>12. ASSUME NEW F \in SUBSET Scanned, t \notin F
       PROVE  FilesKept(F)
  <2>1. CASE data = {} BY <2>1, <1>9 DEF FilesKept, Scanned
  <2>2. CASE data # {} BY <2>2, <1>9, <1>12 DEF FilesKept, Scanned
  <2> QED BY <2>1, <2>2
<1>13. ASSUME NEW s \in m.left, s # Nothing
       PROVE  FilesKept(DOMAIN s.files) /\ Valid(s)
  <2>1. Valid(s) /\ s.next <= vset.manifest /\ s.next \in Nat
    BY <1>5, <1>10, <1>11, <1>13 DEF Valid
  <2>2. \A k \in DOMAIN s.files : k < s.next /\ k \in Nat
    BY <2>1, <1>1 DEF Valid, Scanned, DiskShape
  <2>3. t \notin DOMAIN s.files BY <2>1, <2>2, <1>5, <1>6, <1>11
  <2>4. DOMAIN s.files \subseteq Scanned BY <2>1 DEF Valid
  <2> QED BY <2>1, <2>3, <2>4, <1>12
<1>14. \A s \in m.left : s # Nothing => Valid(s)' /\ SaidKept(s) BY <1>13, ValidStays
<1>15. \A k : LogData(k)' = LogData(k) /\ SafeLogData(k)' = SafeLogData(k)
  BY <1>8 DEF LogData, SafeLogData
<1>16. Saids = m.left /\ Saids' = m.left BY <1>4, <1>8 DEF Saids
<1>17. ManifestInv'
  <2>1. /\ m = Current' /\ hist'.acked = hist.acked /\ hist'.opened = hist.opened
        /\ hist'.repaired = hist.repaired
    BY <1>2, <1>8 DEF SameHist, HistStays
  <2>2. \A s \in Saids' : s = Nothing \/ Valid(s)' BY <1>14, <1>16
  <2>3. Nothing \in Saids /\ m.all # Nothing =>
          hist.acked = {} \/ \A k \in DOMAIN disk'.logs : LogData(k)' = {}
    BY <1>1, <1>4, <1>8, <1>15 DEF ManifestInv
  <2>4. /\ m.all = Nothing \/ \A s \in Saids : s.next <= m.all.next
        /\ disk.current = 0 => ~hist.opened /\ hist.acked = {}
    BY <1>1, <1>4 DEF ManifestInv
  <2>6. \/ hist.acked = {} \/ \A k \in DOMAIN disk'.logs : LogData(k)' = {}
        \/ \A s \in Saids : s = Nothing \/ disk.current < s.next
    BY <1>1, <1>8, <1>15 DEF ManifestInv
  <2>5. hist.opened /\ ~hist.repaired =>
          /\ Nothing \in Saids => m.all = Nothing
          /\ m.all = Nothing => m.torn
          /\ \A s \in Saids : s = Nothing \/ disk.current < s.next
    BY <1>1, <1>4 DEF ManifestInv
  <2> QED BY <2>1, <2>2, <2>3, <2>4, <2>5, <2>6, <1>2, <1>8, <1>16 DEF ManifestInv
<1>18. LogsStay /\ HistStays BY <1>2, <1>8, <1>15 DEF LogsStay, SameHist
<1>19. DurableInv'
  <2>1. CASE hist.acked = {}
    <3>1. hist'.acked = {} /\ hist'.synced = {} BY <2>1, <1>2, <1>18 DEF HistShape, HistStays
    <3> QED BY <3>1 DEF DurableInv
  <2>2. CASE hist.acked # {}
    <3>1. Nothing \in m.left => SaidKept(Nothing)
      <4>1. SUFFICES ASSUME Nothing \in m.left
                     PROVE  SaidKept(Nothing)
        OBVIOUS
      <4>2. LogData(n) = {} BY <4>1, <2>2, <1>1, <1>4, <1>5, <1>6, <1>16 DEF ManifestInv
      <4>3. disk' = disk BY <4>2, <1>6, <1>9
      <4> QED BY <4>3, SameData DEF SameFiles
    <3>2. \A s \in Saids : SaidKept(s) BY <3>1, <1>14, <1>16
    <3> QED BY <3>2, <1>1, <1>2, <1>4, <1>8, <1>10, <1>16, <1>18, DurableKept
  <2> QED BY <2>1, <2>2
<1>20. FilesKept(DOMAIN opening.add)
  <2>1. t \notin DOMAIN opening.add BY <1>5, <1>6, <1>11
  <2> QED BY <2>1, <1>5, <1>12
<1>21. /\ Data(DOMAIN opening.add) \subseteq Data(DOMAIN opening.add)'
       /\ data \subseteq Data(DOMAIN opening.add)'
  <2>1. DOMAIN opening.add \subseteq DOMAIN opening'.add /\ (data # {} => t \in DOMAIN opening'.add)
    BY <1>9
  <2>2. \A k \in DOMAIN opening.add : disk'.tables[k] = disk.tables[k] BY <1>20 DEF FilesKept
  <2>3. Data(DOMAIN opening.add) \subseteq Data(DOMAIN opening.add)' BY <2>1, <2>2 DEF Data
  <2>4. data \subseteq Data(DOMAIN opening.add)' BY <2>1, <1>9 DEF Data
  <2> QED BY <2>3, <2>4
<1>22. ReplayInv'
  <2>1. ASSUME NEW k \in DOMAIN opening'.add
        PROVE  /\ k \in Scanned' /\ vset'.manifest < k /\ k < vset'.next
               /\ \A e \in disk'.tables[k].data : e[1] <= vset'.last
    <3>1. CASE k \in DOMAIN opening.add
      <4>1. k \in Scanned' /\ disk'.tables[k] = disk.tables[k] /\ k \in Nat
        BY <3>1, <1>1, <1>20 DEF FilesKept, OpeningShape, IsFiles
      <4>2. vset'.manifest < k /\ k < vset'.next BY <3>1, <4>1, <1>5, <1>6, <1>8, <1>11
      <4>3. ASSUME NEW e \in disk'.tables[k].data
            PROVE  e[1] <= vset'.last
        <5>1. e[1] <= vset.last BY <3>1, <4>1, <4>3, <1>5
        <5>2. e \in Entry BY <4>1, <4>3, <1>8 DEF DiskShape, IsTable, Scanned
        <5> QED BY <5>1, <5>2, <1>8, <1>11 DEF Entry
      <4> QED BY <4>1, <4>2, <4>3
    <3>2. CASE k \notin DOMAIN opening.add
      <4>1. data # {} /\ k = t BY <3>2, <2>1, <1>9
      <4>2. disk'.tables[k] = [data |-> data, whole |-> TRUE] /\ k \in DOMAIN disk'.tables
        BY <4>1, <1>9
      <4> QED BY <4>1, <4>2, <1>5, <1>6, <1>8, <1>9 DEF Scanned
    <3> QED BY <3>1, <3>2
  <2>2. ASSUME NEW k \in DOMAIN disk'.logs \ opening'.logs, k >= vset'.log
        PROVE  k < vset'.next /\ Writes(LogData(k)') \subseteq Writes(Data(DOMAIN opening.add)') \cup opening'.lost
    <3>1. CASE k = n BY <3>1, <1>6, <1>8, <1>15, <1>21, WritesGrow
    <3>2. CASE k # n
      <4>1. k \in DOMAIN disk.logs \ opening.logs /\ k >= vset.log /\ k \in Nat
        BY <3>2, <2>2, <1>1, <1>8 DEF DiskShape
      <4>2. k < vset.next /\ Writes(LogData(k)) \subseteq Writes(Data(DOMAIN opening.add)) \cup opening.lost
        BY <4>1, <1>5
      <4>3. Writes(Data(DOMAIN opening.add)) \subseteq Writes(Data(DOMAIN opening.add)')
        BY <1>21, WritesGrow
      <4> QED BY <4>1, <4>2, <4>3, <1>6, <1>8, <1>11, <1>15, <1>21
    <3> QED BY <3>1, <3>2
  <2>3. /\ opening'.logs \subseteq {k \in DOMAIN disk'.logs : k >= vset'.log}
        /\ vset'.manifest < vset'.next /\ m.all.last <= vset'.last
    <3>1. m.all.last \in Nat BY <1>10 DEF Valid
    <3> QED BY <3>1, <1>5, <1>6, <1>8, <1>11
  <2> QED BY <2>1, <2>2, <2>3, <1>5, <1>8 DEF ReplayInv
<1>23. LogInv' /\ WrittenInv' /\ RepairInv' BY <1>2 DEF LogInv, WrittenInv, RepairInv
<1>24. Bounded' /\ SequencesUnique'
  <2>1. \A k \in DOMAIN disk'.tables : disk'.tables[k].data \subseteq AllEntries
    <3>1. CASE data = {} BY <3>1, <1>9, AllIs
    <3>2. CASE data # {} BY <3>2, <1>7, <1>9, AllIs
    <3> QED BY <3>1, <3>2
  <2>2. \A k \in DOMAIN disk'.logs : LogData(k)' \subseteq AllEntries BY <1>8, <1>15, AllIs
  <2>3. DOMAIN db'.memtables = {} BY <1>2, UnmovedFacts DEF Unmoved
  <2>4. AllEntries' \subseteq AllEntries BY <2>1, <2>2, <2>3, EntriesWithin
  <2>5. \A k \in DOMAIN disk'.logs \cup DOMAIN disk'.tables :
          k \in DOMAIN disk.logs \cup DOMAIN disk.tables \/ k <= t
    BY <1>8, <1>9, <1>11
  <2> QED BY <2>4, <2>5, <1>1, <1>8, <1>11, BoundedStays
<1> QED
  BY <1>2, <1>8, <1>17, <1>19, <1>22, <1>23, <1>24, UnmovedFacts
     DEF Down, Shape, DownInv, Phases
-----------------------------------------------------------------------------
(* Opening a database: the new manifest *)

(* The new manifest names the tables of the old one and those of the *)
(* replayed logs. *)
LEMMA NewManifestIs ==
  ASSUME VersionShape, OpeningShape, NEW m, m = NewManifest
  PROVE  /\ IsManifest(m) /\ m.left = {m.all} /\ ~m.torn
         /\ DOMAIN m.all.files = DOMAIN opening.add \cup DOMAIN vset.files
         /\ m.all.files = Apply(vset.files, OpeningEdit) /\ IsFiles(m.all.files)
         /\ m.all.log = opening.log /\ m.all.next = vset.next /\ m.all.last = vset.last
<1>1. PICK F, A, l : F = vset.files /\ A = opening.add /\ l = opening.log OBVIOUS
<1>2. IsFiles(F) /\ IsFiles(A) /\ l \in Nat /\ vset.next \in Nat /\ vset.last \in Nat
  BY <1>1 DEF VersionShape, OpeningShape
<1>3. PICK e : e = Edit(F, {}) OBVIOUS
<1>4. e = [add |-> F, del |-> {}, log |-> None, next |-> None, last |-> None] BY <1>3 DEF Edit
<1>5. PICK s : s = Says(Nothing, e) OBVIOUS
<1>6. IsFiles(NoFiles) /\ DOMAIN NoFiles = {} BY DEF NoFiles, IsFiles
<1>7. PICK G : G = Apply(NoFiles, e) OBVIOUS
<1>8. DOMAIN G = DOMAIN F /\ IsFiles(G) /\ G = F
  <2>1. e.add = F /\ IsFiles(e.add) /\ e.del = {} BY <1>2, <1>4
  <2>2. /\ DOMAIN Apply(NoFiles, e) = DOMAIN e.add \cup (DOMAIN NoFiles \ e.del)
        /\ IsFiles(Apply(NoFiles, e))
    BY <2>1, <1>6, ApplyFacts
  <2>3. DOMAIN G = DOMAIN F /\ IsFiles(G) BY <2>1, <2>2, <1>6, <1>7
  <2>4. \A n \in DOMAIN F : G[n] = F[n] BY <2>1, <1>7 DEF Apply, Over
  <2> QED BY <2>3, <2>4, <1>2 DEF IsFiles
<1>9. s = [files |-> G, log |-> None, next |-> None, last |-> None]
  BY <1>4, <1>5, <1>7 DEF Says, Nothing, Latest
<1>10. IsSaid(s) /\ s.files = G BY <1>8, <1>9 DEF IsSaid
<1>11. PICK o : o = OpeningEdit OBVIOUS
<1>12. o = [add |-> A, del |-> {}, log |-> l, next |-> vset.next, last |-> vset.last]
  <2>1. PICK a : a = [Edit(A, {}) EXCEPT !.log = l] OBVIOUS
  <2>2. a = [add |-> A, del |-> {}, log |-> l, next |-> None, last |-> None] BY <2>1 DEF Edit
  <2>3. o = LogAndApply(a, vset) BY <2>1, <1>1, <1>11 DEF OpeningEdit
  <2>4. l # None BY <1>2 DEF None
  <2> QED BY <2>2, <2>3, <2>4 DEF LogAndApply
<1>13. IsEdit(o) /\ {o.log, o.next, o.last} \subseteq Nat /\ o.add = A /\ o.del = {}
  BY <1>2, <1>12 DEF IsEdit
<1>14. PICK x : x = Says(s, o) OBVIOUS
<1>15. /\ IsSaid(x) /\ x.files = Apply(G, o)
       /\ DOMAIN Apply(G, o) = DOMAIN A \cup DOMAIN G
       /\ x.log = o.log /\ x.next = o.next /\ x.last = o.last
  <2>1. /\ IsSaid(Says(s, o)) /\ Says(s, o).files = Apply(s.files, o)
        /\ DOMAIN Apply(s.files, o) = DOMAIN o.add \cup (DOMAIN s.files \ o.del)
        /\ Says(s, o).log = o.log /\ Says(s, o).next = o.next /\ Says(s, o).last = o.last
    BY <1>10, <1>13, SaysFacts
  <2> QED BY <2>1, <1>10, <1>13, <1>14
<1>16. m = [all |-> x, left |-> {x}, torn |-> FALSE]
  BY <1>1, <1>3, <1>5, <1>11, <1>14 DEF NewManifest, Synced
<1>17. m.all.files = Apply(vset.files, OpeningEdit) /\ IsFiles(m.all.files)
  BY <1>1, <1>8, <1>11, <1>15, <1>16 DEF IsSaid
<1>18. m.all = x /\ m.left = {x} /\ m.torn = FALSE
       /\ m = [all |-> m.all, left |-> m.left, torn |-> m.torn]
  BY <1>16
<1>19. IsManifest(m) BY <1>15, <1>18 DEF IsManifest
<1> QED BY <1>1, <1>8, <1>12, <1>15, <1>17, <1>18, <1>19

(* With it, everything is in tables. *)
LEMMA NewManifestStays ==
  ASSUME NEW m, Current' = m, m.left = {m.all}, Valid(m.all)',
         disk'.current < m.all.next,
         hist'.acked \ hist'.lost \subseteq Writes(Data(DOMAIN m.all.files))',
         disk'.current # 0, HistShape',
         phase' \notin {"newdb", "repair", "described", "corrupt"}
  PROVE  ManifestInv' /\ DurableInv'
<1>1. Saids' = {m.all} /\ Current'.all = m.all BY DEF Saids
<1>2. None \notin {m.all.next, m.all.log, m.all.last} BY DEF Valid, None
<1>3. m.all # Nothing BY <1>2 DEF Nothing
<1>4. m.all.next <= m.all.next BY DEF Valid
<1>5. ManifestInv' BY <1>1, <1>3, <1>4 DEF ManifestInv
<1>6. Complete(m.all)' BY <1>2 DEF Valid, Complete, Scanned
<1>7. \A w \in hist'.acked \ hist'.lost : \A safe \in BOOLEAN : Survives(w, m.all, safe)'
  BY <1>6 DEF Survives
<1>8. hist'.synced \subseteq hist'.acked BY DEF HistShape
<1>9. \A w, s, safe : Survives(w, s, safe)' => Kept(w, s, safe)' BY DEF Kept, Archived
<1> QED BY <1>1, <1>5, <1>7, <1>8, <1>9 DEF DurableInv

(* It is written and synced under a new number, and not yet in use; all *)
(* that was promised is in the tables it names. *)
LEMMA WriteManifestStep ==
  ASSUME Down, WriteManifest
  PROVE  Down'
<1>1. /\ DiskShape /\ VersionShape /\ OpeningShape /\ HistShape /\ Bounded /\ SequencesUnique
      /\ ManifestInv /\ DurableInv
  BY DEF Down, Shape, DownInv
<1>2. /\ phase = "manifest" /\ phase' = "current" /\ Unmoved
      /\ opening' = opening /\ vset' = vset /\ hist' = hist
      /\ disk' = [disk EXCEPT !.manifests = Put(@, vset.manifest, NewManifest)]
  BY DEF WriteManifest, Unmoved
<1>3. PICK n \in Nat : n = vset.manifest BY <1>1 DEF VersionShape
<1>4. PICK c : c = Current.all OBVIOUS
<1>5. /\ c # Nothing /\ vset.files = c.files /\ vset.log = c.log
      /\ vset.manifest = c.next /\ vset.manifest < vset.next /\ c.last <= vset.last
      /\ \A k \in DOMAIN disk.logs \ opening.logs : k >= vset.log =>
           k < vset.next /\ Writes(LogData(k)) \subseteq Writes(Data(DOMAIN opening.add)) \cup opening.lost
      /\ DOMAIN opening.add \subseteq Scanned
      /\ \A k \in DOMAIN opening.add :
           /\ vset.manifest < k /\ k < vset.next
           /\ \A e \in disk.tables[k].data : e[1] <= vset.last
  BY <1>2, <1>4 DEF Down, DownInv, ReplayInv
<1>6. opening.logs = {} /\ 0 < opening.log /\ opening.log < vset.next
  BY <1>2 DEF Down, DownInv, WrittenInv, LogInv
<1>7. c \in Saids /\ Valid(c)
  BY <1>1, <1>4, <1>5, CurrentShape DEF ManifestInv, Saids, IsManifest
<1>8. PICK m : m = NewManifest OBVIOUS
<1>9. /\ IsManifest(m) /\ m.left = {m.all}
      /\ DOMAIN m.all.files = DOMAIN opening.add \cup DOMAIN vset.files
      /\ m.all.files = Apply(vset.files, OpeningEdit) /\ IsFiles(m.all.files)
      /\ m.all.log = opening.log /\ m.all.next = vset.next /\ m.all.last = vset.last
  BY <1>1, <1>8, NewManifestIs
<1>10. m = NewManifest' BY <1>2, <1>8 DEF NewManifest, OpeningEdit
<1>11. disk' = [disk EXCEPT !.manifests = Put(@, n, m)] BY <1>2, <1>3, <1>8
<1>12. /\ DiskShape' /\ SameFiles /\ disk'.current = disk.current
       /\ DOMAIN disk'.manifests = DOMAIN disk.manifests \cup {n}
       /\ disk'.manifests[n] = m
       /\ disk.current # n => Current' = Current
       /\ disk.current = n => Current' = m
  BY <1>1, <1>9, <1>11, PutManifest
<1>13. {vset.next, vset.last, vset.log, vset.manifest, opening.log, c.log, c.next, c.last} \subseteq Nat
       /\ c.log < c.next
  BY <1>1, <1>7 DEF VersionShape, OpeningShape, Valid
<1>14. Valid(m.all)
  <2>1. ASSUME NEW k \in DOMAIN m.all.files
        PROVE  k \in Scanned /\ k < vset.next /\ \A e \in disk.tables[k].data : e[1] <= vset.last
    <3>1. CASE k \in DOMAIN opening.add BY <3>1, <1>5
    <3>2. CASE k \notin DOMAIN opening.add
      <4>1. k \in DOMAIN c.files BY <3>2, <2>1, <1>5, <1>9
      <4>2. k \in Scanned /\ k < c.next /\ \A e \in disk.tables[k].data : e[1] <= c.last
        BY <4>1, <1>7 DEF Valid
      <4>3. k \in Nat /\ \A e \in disk.tables[k].data : e[1] \in Nat
        BY <4>2, <1>1 DEF DiskShape, Scanned, IsTable, Entry
      <4> QED BY <4>2, <4>3, <1>5, <1>13
    <3> QED BY <3>1, <3>2
  <2> QED BY <2>1, <1>6, <1>9, <1>13 DEF Valid
<1>15. hist.acked \ (hist.lost \cup opening.lost) \subseteq Writes(Data(DOMAIN m.all.files))
  <2>1. DOMAIN c.files \subseteq DOMAIN m.all.files /\ DOMAIN opening.add \subseteq DOMAIN m.all.files
    BY <1>5, <1>9
  <2>2. /\ Data(DOMAIN c.files) \subseteq Data(DOMAIN m.all.files)
        /\ Data(DOMAIN opening.add) \subseteq Data(DOMAIN m.all.files)
    BY <2>1 DEF Data
  <2>3. ASSUME NEW w \in hist.acked \ (hist.lost \cup opening.lost)
        PROVE  w \in Writes(Data(DOMAIN m.all.files))
    <3>1. Survives(w, c, FALSE) /\ Complete(c)
      BY <2>3, <1>1, <1>2, <1>4, <1>7, ValidFacts, KeptIs DEF DurableInv
    <3>2. CASE w \in Writes(Data(DOMAIN c.files)) BY <3>2, <2>2, WritesGrow
    <3>3. CASE w \notin Writes(Data(DOMAIN c.files))
      <4>1. PICK k \in DOMAIN disk.logs : k >= c.log /\ w \in Writes(LogData(k))
        BY <3>1, <3>3, <1>2 DEF Survives, Entered
      <4>2. Writes(LogData(k)) \subseteq Writes(Data(DOMAIN opening.add)) \cup opening.lost
        BY <4>1, <1>5, <1>6
      <4> QED BY <4>1, <4>2, <2>2, <2>3, WritesGrow
    <3> QED BY <3>2, <3>3
  <2> QED BY <2>3
<1>16. /\ Valid(m.all)'
       /\ hist'.acked \ (hist'.lost \cup opening'.lost) \subseteq Writes(Data(DOMAIN m.all.files))'
  <2>1. Valid(m.all)' = Valid(m.all) /\ Data(DOMAIN m.all.files)' = Data(DOMAIN m.all.files)
    BY <1>12, SameData
  <2> QED BY <2>1, <1>2, <1>14, <1>15
<1>17. HistShape' /\ VersionShape' /\ OpeningShape'
  BY <1>1, <1>2 DEF HistShape, VersionShape, OpeningShape
<1>18. ManifestInv' /\ DurableInv'
  <2>1. CASE disk.current = n
    <3>1. Current' = m /\ disk'.current # 0 /\ disk'.current < m.all.next
      BY <2>1, <1>3, <1>5, <1>9, <1>12, <1>13
    <3>2. hist.acked = {} \/ \A k \in DOMAIN disk.logs : LogData(k) = {}
      BY <2>1, <1>1, <1>3, <1>5, <1>7, <1>13 DEF ManifestInv
    <3>3. hist.acked \ hist.lost \subseteq Writes(Data(DOMAIN m.all.files))
      <4>1. \A k \in DOMAIN disk.logs : hist.acked # {} => Writes(LogData(k)) = {}
        BY <3>2 DEF Writes
      <4>2. \A w \in hist.acked \ hist.lost : Survives(w, c, FALSE) /\ Complete(c)
        BY <1>1, <1>2, <1>4, <1>7, ValidFacts, KeptIs DEF DurableInv
      <4>3. hist.acked \ hist.lost \subseteq Writes(Data(DOMAIN c.files))
        BY <4>1, <4>2 DEF Survives, Entered
      <4>4. Data(DOMAIN c.files) \subseteq Data(DOMAIN m.all.files) BY <1>5, <1>9 DEF Data
      <4> QED BY <4>3, <4>4, WritesGrow
    <3>4. Data(DOMAIN m.all.files)' = Data(DOMAIN m.all.files) BY <1>12, SameData
    <3>5. hist'.acked \ hist'.lost \subseteq Writes(Data(DOMAIN m.all.files))'
      BY <3>3, <3>4, <1>2
    <3> QED BY <3>1, <3>5, <1>2, <1>9, <1>16, <1>17, NewManifestStays
  <2>2. CASE disk.current # n
    <3>1. SameStore /\ LogsStay /\ (\A s : SaidKept(s)) /\ Current.all \in Saids
      BY <2>2, <1>4, <1>7, <1>12, SameData DEF SameStore
    <3> QED BY <3>1, <1>1, <1>2, <1>12, ManifestKept, DurableKept DEF SameStore, SameHist, HistStays
  <2> QED BY <2>1, <2>2
<1>19. LogInv'
  <2>1. /\ opening.log \in DOMAIN disk.logs /\ disk.logs[opening.log].recs = <<>>
        /\ \A k \in DOMAIN disk.logs : k <= opening.log
    BY <1>2 DEF Down, DownInv, LogInv
  <2> QED BY <2>1, <1>2, <1>6, <1>12 DEF LogInv, SameFiles
<1>20. WrittenInv'
  <2>1. n \in DOMAIN disk'.manifests /\ n # 0 /\ disk'.manifests[n] = m /\ vset'.manifest = n
    BY <1>2, <1>3, <1>5, <1>12, <1>13
  <2>2. /\ Valid(NewManifest.all)'
        /\ (hist.acked \ (hist.lost \cup opening.lost) \subseteq Writes(Data(DOMAIN NewManifest.all.files)))'
    BY <1>10, <1>16
  <2>3. vset'.manifest < NewManifest'.all.next BY <1>2, <1>5, <1>9, <1>10
  <2>4. hist.opened /\ ~hist.repaired => disk.current # n
    BY <1>1, <1>3, <1>5, <1>7, <1>13 DEF ManifestInv, DiskShape
  <2> QED BY <2>1, <2>2, <2>3, <2>4, <1>2, <1>12, <1>10 DEF WrittenInv
<1>21. ReplayInv' /\ RepairInv' BY <1>2 DEF ReplayInv, RepairInv
<1>22. Bounded' /\ SequencesUnique' BY <1>1, <1>2, <1>12, SameEntries DEF Unmoved
<1> QED
  BY <1>2, <1>12, <1>17, <1>18, <1>19, <1>20, <1>21, <1>22, UnmovedFacts
     DEF Down, Shape, DownInv, Phases

(* From one step to the next the new manifest is in use: either is enough *)
(* to recover. *)
LEMMA SetCurrentFileStep ==
  ASSUME Down, SetCurrentFile
  PROVE  Down'
<1>1. /\ DiskShape /\ VersionShape /\ OpeningShape /\ HistShape /\ Bounded /\ SequencesUnique
      /\ ManifestInv /\ DurableInv
  BY DEF Down, Shape, DownInv
<1>2. /\ phase = "current" /\ phase' = "install" /\ Unmoved
      /\ opening' = opening /\ vset' = vset
      /\ hist' = [hist EXCEPT !.lost = @ \cup opening.lost]
      /\ disk' = [disk EXCEPT !.current = vset.manifest]
  BY DEF SetCurrentFile, Unmoved
<1>3. PICK n \in Nat : n = vset.manifest BY <1>1 DEF VersionShape
<1>4. PICK m : m = NewManifest OBVIOUS
<1>5. /\ n \in DOMAIN disk.manifests /\ n # 0 /\ disk.manifests[n] = m
      /\ Valid(m.all) /\ n < m.all.next
      /\ hist.acked \ (hist.lost \cup opening.lost) \subseteq Writes(Data(DOMAIN m.all.files))
  BY <1>2, <1>3, <1>4 DEF Down, DownInv, WrittenInv
<1>6. m = NewManifest' /\ m.left = {m.all}
  BY <1>1, <1>2, <1>4, NewManifestIs DEF NewManifest, OpeningEdit
<1>7. /\ disk' = [logs |-> disk.logs, tables |-> disk.tables, manifests |-> disk.manifests,
                  current |-> n]
  BY <1>1, <1>2, <1>3 DEF DiskShape
<1>8. DiskShape' /\ SameFiles /\ Current' = m /\ disk'.current = n /\ disk'.manifests = disk.manifests
  BY <1>1, <1>5, <1>7 DEF DiskShape, SameFiles, Current
<1>16. /\ HistShape' /\ hist'.acked = hist.acked /\ hist'.lost = hist.lost \cup opening.lost
       /\ hist'.opened = hist.opened
  BY <1>1, <1>2 DEF HistShape
<1>9. /\ Valid(m.all)' /\ hist'.acked \ hist'.lost \subseteq Writes(Data(DOMAIN m.all.files))'
  <2>1. Valid(m.all)' = Valid(m.all) /\ Data(DOMAIN m.all.files)' = Data(DOMAIN m.all.files)
    BY <1>8, SameData
  <2> QED BY <2>1, <1>5, <1>16
<1>10. HistShape' /\ VersionShape' /\ OpeningShape'
  BY <1>1, <1>2, <1>16 DEF VersionShape, OpeningShape
<1>11. ManifestInv' /\ DurableInv' BY <1>2, <1>5, <1>6, <1>8, <1>9, <1>10, NewManifestStays
<1>12. LogInv'
  <2>1. /\ opening.log \in DOMAIN disk.logs /\ disk.logs[opening.log].recs = <<>>
        /\ \A k \in DOMAIN disk.logs : k <= opening.log
        /\ 0 < opening.log /\ opening.log < vset.next
    BY <1>2 DEF Down, DownInv, LogInv
  <2> QED BY <2>1, <1>2, <1>8 DEF LogInv, SameFiles
<1>13. WrittenInv'
  <2>1. /\ Valid(NewManifest.all)'
        /\ (hist.acked \ (hist.lost \cup opening.lost) \subseteq Writes(Data(DOMAIN NewManifest.all.files)))'
    BY <1>6, <1>9
  <2> QED BY <2>1, <1>2, <1>16, <1>3, <1>5, <1>6, <1>8 DEF WrittenInv
<1>14. ReplayInv' /\ RepairInv' BY <1>2 DEF ReplayInv, RepairInv
<1>15. Bounded' /\ SequencesUnique' BY <1>1, <1>2, <1>8, SameEntries DEF Unmoved
<1> QED
  BY <1>2, <1>8, <1>10, <1>11, <1>12, <1>13, <1>14, <1>15, UnmovedFacts
     DEF Down, Shape, DownInv, Phases
-----------------------------------------------------------------------------
(* Opening a database: the end *)

(* What DeleteObsoleteFiles leaves is needed. *)
LEMMA DeletedOnly ==
  ASSUME DiskShape, NEW v, NEW d, NEW V, ~d.error,
         disk' = DeleteObsoleteFiles(disk, v, d, V)
  PROVE  /\ \A n \in DOMAIN disk'.logs : n >= v.log
         /\ \A n \in DOMAIN disk'.tables : n \in d.pending \/ \E f \in V : n \in DOMAIN f
<1>1. PICK live : live = d.pending \cup (UNION {DOMAIN f : f \in V}) OBVIOUS
<1>2. PICK l, m, b :
        /\ l = Without(disk.logs, {n \in DOMAIN disk.logs : ~(n >= v.log)})
        /\ m = Without(disk.manifests, {n \in DOMAIN disk.manifests : n < v.manifest})
        /\ b = Without(disk.tables, DOMAIN disk.tables \ live)
  OBVIOUS
<1>3. disk' = [disk EXCEPT !.logs = l, !.manifests = m, !.tables = b]
  BY <1>1, <1>2 DEF DeleteObsoleteFiles, Keep
<1>4. disk'.logs = l /\ disk'.tables = b BY <1>3 DEF DiskShape
<1>5. \A n \in DOMAIN l : n >= v.log BY <1>2 DEF Without
<1>6. \A n \in DOMAIN b : n \in d.pending \/ \E f \in V : n \in DOMAIN f
  BY <1>1, <1>2 DEF Without
<1> QED BY <1>4, <1>5, <1>6

(* The database that DB::Open returns: one empty log, one empty memtable, *)
(* and the tables of the new manifest. *)
LEMMA OpenedBy ==
  ASSUME Down, Opened, NEW m, m = NewManifest, NEW l, l = opening.log
  PROVE  Fresh(m, l) /\ DiskShape' /\ VersionShape' /\ DBShape'
<1>1. /\ DiskShape /\ VersionShape /\ OpeningShape BY DEF Down, Shape
<1>2. /\ phase = "install" /\ disk.current = vset.manifest /\ vset.manifest # 0
      /\ vset.manifest \in DOMAIN disk.manifests /\ disk.manifests[vset.manifest] = m
      /\ Valid(m.all)
      /\ opening.log \in DOMAIN disk.logs /\ disk.logs[opening.log].recs = <<>>
      /\ 0 < opening.log /\ opening.log < vset.next
      /\ \A n \in DOMAIN disk.logs : n <= opening.log
  BY DEF Opened, Down, DownInv, WrittenInv, LogInv
<1>3. /\ IsManifest(m) /\ m.left = {m.all} /\ ~m.torn
      /\ m.all.files = Apply(vset.files, OpeningEdit) /\ IsFiles(m.all.files)
      /\ m.all.log = opening.log /\ m.all.next = vset.next /\ m.all.last = vset.last
  BY <1>1, NewManifestIs
<1>4. PICK F : F = m.all.files /\ l = opening.log OBVIOUS
<1>5. PICK v : v = [vset EXCEPT !.files = Apply(@, OpeningEdit), !.log = opening.log] OBVIOUS
<1>6. v = [vset EXCEPT !.files = F, !.log = l] BY <1>3, <1>4, <1>5
<1>7. /\ v.next = vset.next /\ v.manifest = vset.manifest /\ v.last = vset.last
      /\ v.log = l /\ v.files = F
      /\ v = [next |-> v.next, manifest |-> v.manifest, last |-> v.last, log |-> v.log,
              files |-> v.files]
  BY <1>1, <1>6 DEF VersionShape
<1>8. PICK mem : mem = Put(NoFiles, l, {}) OBVIOUS
<1>9. DOMAIN mem = {l} /\ mem[l] = {} BY <1>8 DEF Put, Over, NoFiles
<1>10. PICK d : d = [EmptyDB EXCEPT !.log = opening.log, !.memtables = Put(NoFiles, opening.log, {})]
  OBVIOUS
<1>11. d = [log |-> l, imm |-> 0, memtables |-> mem, pending |-> {}, error |-> FALSE,
            scheduled |-> FALSE, closing |-> FALSE, manual |-> "none"]
  BY <1>4, <1>8, <1>10 DEF EmptyDB
<1>12. /\ vset' = v /\ db' = MaybeScheduleCompaction(d, v.files)
       /\ disk' = DeleteObsoleteFiles(disk, v, d, {v.files})
  BY <1>5, <1>10 DEF Opened
<1>13. l \in Nat /\ IsFiles(F) BY <1>1, <1>3, <1>4 DEF OpeningShape
<1>14. VersionShape' BY <1>1, <1>7, <1>12, <1>13 DEF VersionShape
<1>15. /\ DBShape' /\ db'.log = l /\ db'.imm = 0 /\ db'.memtables = mem
       /\ db'.error = FALSE /\ db'.manual = "none"
  <2>1. /\ d = [log |-> d.log, imm |-> d.imm, memtables |-> d.memtables, pending |-> d.pending,
                error |-> d.error, scheduled |-> d.scheduled, closing |-> d.closing,
                manual |-> d.manual]
        /\ d.log = l /\ d.imm = 0 /\ d.memtables = mem /\ d.pending = {}
        /\ d.manual = "none" /\ d.error = FALSE /\ d.scheduled = FALSE /\ d.closing = FALSE
    BY <1>11
  <2>2. /\ {d.log, d.imm} \subseteq Nat /\ d.pending \subseteq Nat
        /\ DOMAIN d.memtables \subseteq Nat
        /\ \A n \in DOMAIN d.memtables : d.memtables[n] \subseteq Entry
    BY <2>1, <1>9, <1>13
  <2>3. {d.error, d.scheduled, d.closing} \subseteq BOOLEAN BY <2>1
  <2>4. PICK f : f = v.files OBVIOUS
  <2>5. db' = MaybeScheduleCompaction(d, f) BY <2>4, <1>12
  <2>6. /\ DBShape'
        /\ db'.log = d.log /\ db'.imm = d.imm /\ db'.memtables = d.memtables
        /\ db'.pending = d.pending /\ db'.error = d.error /\ db'.closing = d.closing
        /\ db'.manual = d.manual
    BY <2>1, <2>2, <2>3, <2>5, ScheduledShape
  <2> QED BY <2>1, <2>6
<1>16. PICK V : V = {F} OBVIOUS
<1>17. ~d.error /\ d.error \in BOOLEAN /\ d.pending = {} /\ disk' = DeleteObsoleteFiles(disk, v, d, V)
  BY <1>7, <1>11, <1>12, <1>16
<1>18. /\ DiskShape' /\ disk'.current = disk.current
       /\ DOMAIN disk'.logs \subseteq DOMAIN disk.logs
       /\ \A n \in DOMAIN disk'.logs : disk'.logs[n] = disk.logs[n]
       /\ \A n \in DOMAIN disk.logs : n >= v.log => n \in DOMAIN disk'.logs
       /\ DOMAIN disk'.manifests \subseteq DOMAIN disk.manifests
       /\ \A n \in DOMAIN disk'.manifests : disk'.manifests[n] = disk.manifests[n]
       /\ \A n \in DOMAIN disk.manifests : ~(n < v.manifest) => n \in DOMAIN disk'.manifests
       /\ DOMAIN disk'.tables \subseteq DOMAIN disk.tables
       /\ \A n \in DOMAIN disk'.tables : disk'.tables[n] = disk.tables[n]
       /\ \A n \in DOMAIN disk.tables :
            d.error \/ n \in d.pending \/ (\E f \in V : n \in DOMAIN f) => n \in DOMAIN disk'.tables
  BY <1>1, <1>17, DeleteFacts
<1>19. /\ \A n \in DOMAIN disk'.logs : n >= v.log
       /\ \A n \in DOMAIN disk'.tables : n \in d.pending \/ \E f \in V : n \in DOMAIN f
  BY <1>1, <1>17, DeletedOnly
<1>20. DOMAIN disk'.logs = {l}
  <2>1. \A n \in DOMAIN disk'.logs : n = l
    BY <1>1, <1>2, <1>4, <1>7, <1>13, <1>18, <1>19 DEF DiskShape
  <2>2. l \in DOMAIN disk'.logs BY <1>2, <1>4, <1>7, <1>13, <1>18
  <2> QED BY <2>1, <2>2
<1>21. LogData(l)' = {}
  <2>1. disk'.logs[l].recs = <<>> BY <1>2, <1>4, <1>18, <1>20
  <2> QED BY <2>1 DEF LogData, ReadLog
<1>22. DOMAIN disk'.tables = DOMAIN F
  <2>1. DOMAIN F \subseteq DOMAIN disk.tables BY <1>2, <1>4 DEF Valid, Scanned
  <2> QED BY <2>1, <1>16, <1>17, <1>18, <1>19
<1>23. Valid(m.all)'
  <2>1. \A n \in DOMAIN F : n \in Scanned' /\ disk'.tables[n] = disk.tables[n]
    BY <1>2, <1>4, <1>18, <1>22 DEF Valid, Scanned
  <2> QED BY <2>1, <1>2, <1>4 DEF Valid
<1>24. /\ disk.current \in DOMAIN disk'.manifests /\ Current' = m
  <2>1. vset.manifest \in Nat BY <1>1 DEF VersionShape
  <2>2. vset.manifest \in DOMAIN disk'.manifests /\ disk'.manifests[vset.manifest] = m
    BY <2>1, <1>2, <1>7, <1>18
  <2> QED BY <2>2, <1>2, <1>18 DEF Current
<1>25. FreshFiles(m, l)
  BY <1>2, <1>3, <1>4, <1>13, <1>18, <1>20, <1>21, <1>22, <1>23, <1>24 DEF FreshFiles
<1>26. FreshDB(m, l) BY <1>2, <1>3, <1>4, <1>7, <1>9, <1>12, <1>15 DEF FreshDB
<1> QED BY <1>14, <1>15, <1>18, <1>25, <1>26 DEF Fresh

(* The logs that were replayed and the files that nothing names go, and *)
(* the invariant of an open database holds. *)
LEMMA OpenedStep ==
  ASSUME Down, Opened
  PROVE  Up'
<1>1. /\ DiskShape /\ VersionShape /\ OpeningShape /\ HistShape /\ Bounded /\ SequencesUnique
      /\ ThreadShape /\ BgShape /\ ReaderShape /\ Quiet
  BY DEF Down, Shape, DownInv
<1>2. PICK m : m = NewManifest OBVIOUS
<1>9. PICK F, l : F = DOMAIN m.all.files /\ l = opening.log OBVIOUS
<1>3. Fresh(m, l) /\ DiskShape' /\ VersionShape' /\ DBShape' BY <1>2, <1>9, OpenedBy
<1>4. /\ phase = "install" /\ phase' = "up" /\ opening' = NotOpening
      /\ queue' = queue /\ thread' = thread /\ awake' = awake /\ bg' = bg /\ reader' = reader
      /\ hist' = [hist EXCEPT !.opened = TRUE, !.repaired = FALSE]
  BY DEF Opened
<1>5. /\ queue' = <<>> /\ bg' = Resting
      /\ \A t \in Threads : thread'[t].pc = "idle"
      /\ \A r \in Readers : reader'[r].pc = "idle"
  BY <1>1, <1>4 DEF Quiet, Idle, Ready
<1>6. HistShape' /\ HistStays /\ hist'.opened = TRUE /\ hist'.repaired = FALSE
  <2>1. PICK b \in BOOLEAN, c \in BOOLEAN : b = TRUE /\ c = FALSE OBVIOUS
  <2>2. hist' = [hist EXCEPT !.opened = b, !.repaired = c] BY <2>1, <1>4
  <2> QED BY <2>1, <2>2, <1>1 DEF HistShape, HistStays
<1>7. ThreadShape' /\ BgShape' /\ ReaderShape' /\ OpeningShape'
  BY <1>1, <1>4 DEF ThreadShape, BgShape, ReaderShape, OpeningShape, NotOpening, NoFiles, IsFiles
<1>22. db'.manual = "none" BY <1>3 DEF Fresh, FreshDB
<1>8. QueueInv' /\ BatchInv' BY <1>22, <1>5 DEF QueueInv, BatchInv, Writing, Logged
<1>21. FreshFiles(m, l) /\ FreshDB(m, l) BY <1>3 DEF Fresh
<1>10. /\ l \in Nat /\ vset'.next \in Nat /\ F \subseteq Nat
       /\ \A n \in F : n \in Scanned' /\ n < vset'.next
                      /\ \A e \in disk'.tables[n].data : e[1] <= vset'.last
  <2>1. l \in Nat /\ vset'.next \in Nat BY <1>3, <1>21 DEF FreshFiles, VersionShape
  <2>2. Valid(m.all)' /\ m.all.next = vset'.next /\ m.all.last = vset'.last
    BY <1>21 DEF FreshFiles, FreshDB
  <2>3. \A n \in F : n \in Scanned' /\ n < vset'.next
                    /\ \A e \in disk'.tables[n].data : e[1] <= vset'.last
    BY <2>2, <1>9 DEF Valid
  <2>4. F \subseteq Nat BY <1>3, <2>3 DEF Scanned, DiskShape
  <2> QED BY <2>1, <2>3, <2>4
<1>11. SeqInv' BY <1>21, <1>9, <1>10 DEF SeqInv, FreshFiles, FreshDB
<1>12. InMem' = {l} BY <1>21, <1>9 DEF FreshFiles, FreshDB, InMem
<1>13. NumbersInv' BY <1>21, <1>6, <1>9, <1>10, <1>12 DEF NumbersInv, FreshFiles, FreshDB
<1>14. hist.acked \ hist.lost \subseteq Writes(Data(F)) /\ Data(F)' = Data(F)
  <2>1. hist.acked \ hist.lost \subseteq Writes(Data(F))
    BY <1>2, <1>4, <1>9 DEF Down, DownInv, WrittenInv
  <2>2. Data(F)' = Data(F) BY <1>21, <1>9 DEF Data, FreshFiles, FreshDB
  <2> QED BY <2>1, <2>2
<1>15. Good(F, l)'
  <2>1. Answered' = {} BY <1>5 DEF Answered
  <2>2. Owed' \subseteq hist.acked \ hist.lost BY <2>1, <1>6 DEF Owed, HistStays
  <2>3. OwedSynced' \subseteq hist.acked \ hist.lost
    BY <2>1, <1>1, <1>6 DEF OwedSynced, HistStays, HistShape
  <2>4. Covers(F)' BY <2>2, <2>3, <1>14 DEF Covers
  <2> QED BY <2>4, <1>21, <1>9, <1>10 DEF Good, FreshFiles, FreshDB
<1>23. disk.current < m.all.next BY <1>2, <1>4 DEF Down, DownInv, WrittenInv
<1>16. Saids' = {m.all} /\ Current' = m /\ ~m.torn /\ Current'.left = {m.all} /\ disk'.current < m.all.next
  BY <1>21, <1>23 DEF Saids, FreshFiles, FreshDB
<1>17. StoreInv'
  <2>1. \A n \in InMem' : Writes(db'.memtables[n]) = {}
    BY <1>21, <1>9, <1>12 DEF FreshFiles, FreshDB, Writes
  <2>2. Good(DOMAIN vset.files, vset.log)'
    <3>1. DOMAIN vset'.files = F /\ vset'.log = l BY <1>21, <1>9 DEF FreshFiles, FreshDB
    <3> QED BY <3>1, <1>15 DEF Good, Covers, Data, Owed, OwedSynced
  <2>3. /\ Valid(m.all)' /\ m.all.next <= vset'.next /\ m.all.last <= vset'.last
        /\ m.all.next <= m.all.next
    BY <1>21 DEF FreshFiles, FreshDB, VersionShape, Valid
  <2>4. Good(DOMAIN m.all.files, m.all.log)'
    <3>1. DOMAIN m.all.files = F /\ m.all.log = l BY <1>21, <1>9 DEF FreshFiles, FreshDB
    <3> QED BY <3>1, <1>15
  <2>5. Fine(m.all)' BY <2>3, <2>4, <1>16 DEF Fine
  <2>6. m.all # Nothing BY <1>21, ValidFacts DEF FreshFiles
  <2>7. Sound(Current)' BY <2>3, <2>5, <2>6, <1>16 DEF Sound
  <2> QED BY <2>1, <2>2, <2>7 DEF StoreInv
<1>18. ExactInv'
  <2>1. bg'.pc = "idle" BY <1>5 DEF Resting
  <2>2. \A s \in Saids' : Exact(s)' BY <1>16, <1>21 DEF Exact, FreshDB
  <2> QED BY <2>1, <2>2, <1>16 DEF ExactInv
<1>19. BgInv' /\ ReaderInv' BY <1>5, RestingFacts DEF ReaderInv
<1>20. Bounded' /\ SequencesUnique'
  <2>1. \A n \in DOMAIN disk'.tables : disk'.tables[n].data \subseteq AllEntries
    BY <1>21, AllIs DEF FreshFiles, FreshDB
  <2>2. \A n \in DOMAIN disk'.logs : LogData(n)' \subseteq AllEntries
    BY <1>21 DEF FreshFiles, FreshDB
  <2>3. \A n \in DOMAIN db'.memtables : db'.memtables[n] \subseteq AllEntries
    BY <1>21 DEF FreshFiles, FreshDB
  <2>4. AllEntries' \subseteq AllEntries BY <2>1, <2>2, <2>3, EntriesWithin
  <2> QED BY <2>4, <1>1, <1>3, <1>13, BoundedKept
<1> QED
  BY <1>3, <1>4, <1>6, <1>7, <1>8, <1>11, <1>13, <1>17, <1>18, <1>19, <1>20 DEF Up, UpInv, Shape
-----------------------------------------------------------------------------
(* Repairing a database *)

(* What is safe in a log is in it. *)
LEMMA SafeIn ==
  ASSUME DiskShape, NEW n \in DOMAIN disk.logs
  PROVE  SafeLogData(n) \subseteq LogData(n)
<1>1. IsLog(disk.logs[n]) BY DEF DiskShape
<1>2. disk.logs[n].synced \in Nat /\ Len(disk.logs[n].recs) \in Nat
      /\ disk.logs[n].synced <= Len(disk.logs[n].recs)
  BY <1>1 DEF IsLog
<1> QED BY <1>2, ReadLogGrows DEF SafeLogData, LogData

(* What was acknowledged is in some table or some log. *)
LEMMA Somewhere ==
  ASSUME NEW w, NEW s, NEW safe \in BOOLEAN, Survives(w, s, safe)
  PROVE  \/ w \in Writes(TableData)
         \/ \E n \in DOMAIN disk.logs : w \in Writes(Entered(n, safe))
<1>1. CASE \E n \in DOMAIN disk.logs : w \in Writes(Entered(n, safe)) BY <1>1
<1>2. CASE ~\E n \in DOMAIN disk.logs : w \in Writes(Entered(n, safe))
  <2>1. ASSUME Complete(s)
        PROVE  Writes(Data(DOMAIN s.files)) \subseteq Writes(TableData)
    <3>1. DOMAIN s.files \subseteq DOMAIN disk.tables BY <2>1 DEF Complete
    <3>2. Data(DOMAIN s.files) \subseteq TableData BY <3>1 DEF Data, TableData
    <3> QED BY <3>2, WritesGrow
  <2> QED BY <2>1, <1>2 DEF Survives, TableData
<1> QED BY <1>1, <1>2

(* RepairDB turns a log, or what could be saved of it, into a table; the *)
(* rest is lost. *)
LEMMA ConvertedBy ==
  ASSUME DiskShape, HistShape, ConvertLogToTable
  PROVE  \E n, data :
           /\ n \in DOMAIN disk.logs /\ data \subseteq LogData(n)
           /\ disk' = [disk EXCEPT !.logs = Without(@, {n}),
                         !.tables = IF data = {} THEN @
                                    ELSE Put(@, vset.next, [data |-> data, whole |-> TRUE])]
           /\ opening' = [opening EXCEPT !.lost = @ \cup Writes(LogData(n))]
           /\ hist' = [hist EXCEPT !.spent = hist'.spent,
                                   !.lost = @ \cup (Writes(LogData(n)) \ Writes(data))]
<1>0. PICK n \in DOMAIN disk.logs : \E saved \in 0 .. Len(disk.logs[n].recs) :
        LET Upto(k) == ReadLog(disk.logs[n], k)
            all == Len(disk.logs[n].recs)
        IN  /\ hist' = [hist EXCEPT !.spent = IF saved = all THEN @ ELSE @ + 1,
                                    !.lost = @ \cup (Writes(Upto(all)) \ Writes(Upto(saved)))]
            /\ disk' = [disk EXCEPT !.logs = Without(@, {n}),
                           !.tables = IF Upto(saved) = {} THEN @
                                      ELSE Put(@, vset.next, [data |-> Upto(saved), whole |-> TRUE])]
            /\ opening' = [opening EXCEPT !.lost = @ \cup Writes(Upto(all))]
  BY DEF ConvertLogToTable
<1>1. PICK saved \in 0 .. Len(disk.logs[n].recs) :
        LET Upto(k) == ReadLog(disk.logs[n], k)
            all == Len(disk.logs[n].recs)
        IN  /\ hist' = [hist EXCEPT !.spent = IF saved = all THEN @ ELSE @ + 1,
                                    !.lost = @ \cup (Writes(Upto(all)) \ Writes(Upto(saved)))]
            /\ disk' = [disk EXCEPT !.logs = Without(@, {n}),
                           !.tables = IF Upto(saved) = {} THEN @
                                      ELSE Put(@, vset.next, [data |-> Upto(saved), whole |-> TRUE])]
            /\ opening' = [opening EXCEPT !.lost = @ \cup Writes(Upto(all))]
  BY <1>0
<1>2. PICK data : data = ReadLog(disk.logs[n], saved) OBVIOUS
<1>3. Len(disk.logs[n].recs) \in Nat BY DEF DiskShape, IsLog
<1>4. data \subseteq LogData(n) BY <1>2, <1>3, ReadLogGrows DEF LogData
<1>5. PICK x, y : /\ x = (IF saved = Len(disk.logs[n].recs) THEN hist.spent ELSE hist.spent + 1)
                  /\ y = hist.lost \cup (Writes(LogData(n)) \ Writes(data))
  OBVIOUS
<1>6. hist' = [hist EXCEPT !.spent = x, !.lost = y] BY <1>1, <1>2, <1>5 DEF LogData
<1>7. hist'.spent = x BY <1>6 DEF HistShape
<1>8. hist' = [hist EXCEPT !.spent = hist'.spent,
                           !.lost = @ \cup (Writes(LogData(n)) \ Writes(data))]
  BY <1>5, <1>6, <1>7
<1> QED BY <1>1, <1>2, <1>4, <1>8 DEF LogData

(* What a log held is in a table under a new number when the log goes: *)
(* RepairDB, run again, finds it there. *)
LEMMA ConvertLogToTableStep ==
  ASSUME Down, ConvertLogToTable
  PROVE  Down'
<1>1. /\ DiskShape /\ VersionShape /\ OpeningShape /\ HistShape /\ Bounded /\ SequencesUnique
      /\ ManifestInv /\ DurableInv
  BY DEF Down, Shape, DownInv
<1>2. /\ phase = "repair" /\ phase' = "repair" /\ Unmoved
      /\ vset' = [vset EXCEPT !.next = @ + 1]
  BY DEF ConvertLogToTable, Unmoved
<1>3. PICK n, data :
        /\ n \in DOMAIN disk.logs /\ data \subseteq LogData(n)
        /\ disk' = [disk EXCEPT !.logs = Without(@, {n}),
                      !.tables = IF data = {} THEN @
                                 ELSE Put(@, vset.next, [data |-> data, whole |-> TRUE])]
        /\ opening' = [opening EXCEPT !.lost = @ \cup Writes(LogData(n))]
        /\ hist' = [hist EXCEPT !.spent = hist'.spent,
                                !.lost = @ \cup (Writes(LogData(n)) \ Writes(data))]
  BY <1>1, ConvertedBy
<1>4. PICK t \in Nat : t = vset.next BY <1>1 DEF VersionShape
<1>6. 0 < t /\ \A k \in DOMAIN disk.tables : k < t /\ k \in Nat
  BY <1>1, <1>2, <1>4 DEF Down, DownInv, RepairInv, DiskShape
<1>7. data \subseteq Entry /\ data \subseteq AllEntries
  <2>1. IsLog(disk.logs[n]) BY <1>1, <1>3 DEF DiskShape
  <2>2. Len(disk.logs[n].recs) \in 0 .. Len(disk.logs[n].recs) BY <2>1 DEF IsLog
  <2>3. LogData(n) \subseteq Entry BY <2>1, <2>2, ReadLogType DEF LogData
  <2>4. LogData(n) \subseteq AllEntries BY <1>3 DEF AllEntries
  <2> QED BY <2>3, <2>4, <1>3
<1>8. PICK L, b : L = Without(disk.logs, {n}) /\ b = [data |-> data, whole |-> TRUE] OBVIOUS
<1>9. PICK T : T = IF data = {} THEN disk.tables ELSE Put(disk.tables, t, b) OBVIOUS
<1>10. disk' = [disk EXCEPT !.logs = L, !.tables = T] BY <1>3, <1>4, <1>8, <1>9
<1>11. disk' = [logs |-> L, tables |-> T, manifests |-> disk.manifests, current |-> disk.current]
  BY <1>1, <1>10 DEF DiskShape
<1>12. DOMAIN L = DOMAIN disk.logs \ {n} /\ \A k \in DOMAIN L : L[k] = disk.logs[k]
  BY <1>8 DEF Without
<1>13. /\ \A k \in DOMAIN disk.tables : k \in DOMAIN T /\ T[k] = disk.tables[k]
       /\ \A k \in DOMAIN T : k \in DOMAIN disk.tables \/ (k = t /\ T[k] = b)
       /\ data # {} => t \in DOMAIN T /\ T[t] = b
  <2>1. CASE data = {} BY <2>1, <1>9
  <2>2. CASE data # {}
    <3>1. T = Put(disk.tables, t, b) BY <2>2, <1>9
    <3>2. /\ DOMAIN T = DOMAIN disk.tables \cup {t} /\ T[t] = b
          /\ \A k \in DOMAIN disk.tables \ {t} : T[k] = disk.tables[k]
      BY <3>1 DEF Put, Over
    <3>3. t \notin DOMAIN disk.tables BY <1>6
    <3> QED BY <3>2, <3>3
  <2> QED BY <2>1, <2>2
<1>14. IsTable(b) /\ b.data = data /\ b.whole BY <1>7, <1>8 DEF IsTable
<1>15. DiskShape' /\ Current' = Current
  <2>1. DOMAIN T \subseteq Nat /\ \A k \in DOMAIN T : IsTable(T[k])
    BY <1>1, <1>13, <1>14 DEF DiskShape
  <2>2. DOMAIN L \subseteq Nat /\ \A k \in DOMAIN L : IsLog(L[k]) BY <1>1, <1>12 DEF DiskShape
  <2> QED BY <2>1, <2>2, <1>1, <1>11 DEF DiskShape, Current
<1>16. disk'.logs = L /\ disk'.tables = T /\ disk'.current = disk.current BY <1>11
<1>17. TablesKept BY <1>13, <1>16 DEF TablesKept, Scanned
<1>18. TableData \subseteq TableData' /\ data \subseteq TableData'
  <2>1. TableData \subseteq TableData' BY <1>13, <1>16 DEF TableData, Data
  <2>2. data \subseteq TableData' BY <1>13, <1>14, <1>16 DEF TableData, Data
  <2> QED BY <2>1, <2>2
<1>19. \A k \in DOMAIN disk'.logs : /\ k \in DOMAIN disk.logs
                                    /\ LogData(k)' = LogData(k) /\ SafeLogData(k)' = SafeLogData(k)
  BY <1>12, <1>16 DEF LogData, SafeLogData
<1>20. Saids' = Saids BY <1>15 DEF Saids
<1>29. /\ HistShape' /\ hist'.acked = hist.acked /\ hist'.synced = hist.synced
       /\ hist'.opened = hist.opened /\ hist'.repaired = hist.repaired
       /\ hist'.lost = hist.lost \cup (Writes(LogData(n)) \ Writes(data))
  <2>1. PICK x, y : x = hist'.spent /\ y = hist.lost \cup (Writes(LogData(n)) \ Writes(data))
    OBVIOUS
  <2>2. hist' = [hist EXCEPT !.spent = x, !.lost = y] BY <2>1, <1>3
  <2> QED BY <2>1, <2>2, <1>1 DEF HistShape
<1>30. opening'.lost = opening.lost \cup Writes(LogData(n)) /\ OpeningShape'
  <2>1. PICK y : y = opening.lost \cup Writes(LogData(n)) OBVIOUS
  <2>2. opening' = [opening EXCEPT !.lost = y] BY <2>1, <1>3
  <2> QED BY <2>1, <2>2, <1>1 DEF OpeningShape
<1>21. ManifestInv'
  <2>1. \A s \in Saids' : s = Nothing \/ Valid(s)'
    BY <1>1, <1>17, <1>20, ValidKept DEF ManifestInv
  <2>2. ~(hist.opened /\ ~hist.repaired) BY <1>1, <1>2 DEF ManifestInv
  <2>3. /\ Current.all = Nothing \/ \A s \in Saids : s.next <= Current.all.next
        /\ disk.current = 0 => ~hist.opened /\ hist.acked = {}
    BY <1>1 DEF ManifestInv
  <2>4. Nothing \in Saids /\ Current.all # Nothing =>
          hist.acked = {} \/ \A k \in DOMAIN disk'.logs : LogData(k)' = {}
    BY <1>1, <1>19 DEF ManifestInv
  <2>5. \/ hist.acked = {} \/ \A k \in DOMAIN disk'.logs : LogData(k)' = {}
        \/ \A s \in Saids : s = Nothing \/ disk.current < s.next
    BY <1>1, <1>19 DEF ManifestInv
  <2> QED BY <2>1, <2>2, <2>3, <2>4, <2>5, <1>2, <1>15, <1>16, <1>20, <1>29 DEF ManifestInv
<1>22. ASSUME NEW w, w \notin Writes(LogData(n)) \ Writes(data), NEW s \in Saids,
              NEW safe \in BOOLEAN, Kept(w, s, safe)
       PROVE  Kept(w, s, safe)'
  <2>1. \A k \in DOMAIN disk.logs : w \in Writes(Entered(k, safe)) =>
          \/ k = n /\ w \in Writes(LogData(n)) /\ w \in Writes(TableData')
          \/ k \in DOMAIN disk'.logs /\ w \in Writes(Entered(k, safe)')
    <3>1. Entered(n, safe) \subseteq LogData(n) BY <1>1, <1>3, SafeIn DEF Entered
    <3>2. w \in Writes(Entered(n, safe)) => w \in Writes(LogData(n)) /\ w \in Writes(TableData')
      BY <3>1, <1>18, <1>22, WritesGrow
    <3>3. \A k \in DOMAIN disk.logs \ {n} : k \in DOMAIN disk'.logs
                                            /\ Entered(k, safe)' = Entered(k, safe)
      BY <1>12, <1>16, <1>19 DEF Entered
    <3> QED BY <3>2, <3>3
  <2>2. Survives(w, Nothing, safe)'
    <3>1. Survives(w, Nothing, safe) BY <1>2, <1>22 DEF Kept
    <3>2. CASE w \in Writes(TableData)
      BY <3>2, <1>18, WritesGrow, NothingIs DEF Survives, TableData, Complete
    <3>3. CASE w \notin Writes(TableData)
      <4>1. PICK k \in DOMAIN disk.logs : w \in Writes(Entered(k, safe))
        BY <3>1, <3>3, NothingIs DEF Survives, TableData
      <4> QED BY <4>1, <2>1, NothingIs DEF Survives, TableData, Complete
    <3> QED BY <3>2, <3>3
  <2>3. CASE w \in opening'.lost BY <1>2, <2>2, <2>3 DEF Kept, Archived
  <2>4. CASE w \notin opening'.lost
    <3>1. w \notin opening.lost /\ w \notin Writes(LogData(n)) BY <2>4, <1>30
    <3>2. Survives(w, s, safe) BY <3>1, <1>2, <1>22 DEF Kept, Archived
    <3>3. CASE s = Nothing BY <3>3, <2>2 DEF Kept
    <3>4. CASE s # Nothing
      <4>1. Valid(s) /\ FilesKept(DOMAIN s.files)
        BY <3>4, <1>1, <1>13, <1>16 DEF ManifestInv, Valid, FilesKept, Scanned
      <4>2. SaidKept(s) /\ Complete(s) BY <4>1, ValidStays, ValidFacts
      <4>3. Complete(s)' /\ Writes(Data(DOMAIN s.files)) \subseteq Writes(Data(DOMAIN s.files)')
        BY <4>2, WritesGrow DEF SaidKept, Complete
      <4>4. CASE w \in Writes(Data(DOMAIN s.files)) BY <4>3, <4>4, <2>2 DEF Survives, Kept
      <4>5. CASE w \notin Writes(Data(DOMAIN s.files))
        <5>1. PICK k \in DOMAIN disk.logs : k >= s.log /\ w \in Writes(Entered(k, safe))
          BY <3>2, <4>2, <4>5 DEF Survives
        <5>2. k \in DOMAIN disk'.logs /\ w \in Writes(Entered(k, safe)') BY <5>1, <3>1, <2>1
        <5> QED BY <5>1, <5>2, <4>3, <2>2 DEF Survives, Kept
      <4> QED BY <4>4, <4>5
    <3> QED BY <3>3, <3>4
  <2> QED BY <2>3, <2>4
<1>23. DurableInv'
  <2>1. PICK m : m = Current OBVIOUS
  <2>2. m = Current' /\ m.all \in Saids BY <1>1, <1>15, <2>1, CurrentShape DEF Saids, IsManifest
  <2>3. \A w \in hist'.acked \ hist'.lost : Kept(w, m.all, FALSE)
                                            /\ w \notin Writes(LogData(n)) \ Writes(data)
    BY <1>1, <1>29, <2>1 DEF DurableInv
  <2>4. \A w \in hist'.synced \ hist'.lost : /\ \A s \in Saids : Kept(w, s, TRUE)
                                             /\ w \notin Writes(LogData(n)) \ Writes(data)
    BY <1>1, <1>29 DEF DurableInv
  <2>5. \A w \in hist'.acked \ hist'.lost : Kept(w, m.all, FALSE)' BY <2>2, <2>3, <1>22
  <2>6. \A w \in hist'.synced \ hist'.lost : \A s \in Saids : Kept(w, s, TRUE)' BY <2>4, <1>22
  <2> QED BY <2>2, <2>5, <2>6, <1>20 DEF DurableInv
<1>24. VersionShape' /\ vset'.next = t + 1 BY <1>1, <1>2, <1>4 DEF VersionShape
<1>25. RepairInv'
  <2>1. \A k \in DOMAIN disk'.tables : k < t + 1 BY <1>4, <1>6, <1>13, <1>16
  <2> QED BY <2>1, <1>2, <1>4, <1>24 DEF RepairInv
<1>26. ReplayInv' /\ LogInv' /\ WrittenInv' BY <1>2 DEF ReplayInv, LogInv, WrittenInv
<1>27. Bounded' /\ SequencesUnique'
  <2>1. \A k \in DOMAIN disk'.tables : disk'.tables[k].data \subseteq AllEntries
    BY <1>7, <1>13, <1>14, <1>16, AllIs
  <2>2. \A k \in DOMAIN disk'.logs : LogData(k)' \subseteq AllEntries BY <1>19, AllIs
  <2>3. DOMAIN db'.memtables = {} BY <1>2, UnmovedFacts DEF Unmoved
  <2>4. AllEntries' \subseteq AllEntries BY <2>1, <2>2, <2>3, EntriesWithin
  <2>5. \A k \in DOMAIN disk'.logs \cup DOMAIN disk'.tables :
          k \in DOMAIN disk.logs \cup DOMAIN disk.tables \/ k <= t
    BY <1>4, <1>13, <1>16, <1>19
  <2> QED BY <2>4, <2>5, <1>1, <1>4, <1>15, BoundedStays
<1> QED
  BY <1>2, <1>15, <1>21, <1>23, <1>24, <1>25, <1>26, <1>27, <1>29, <1>30, UnmovedFacts
     DEF Down, Shape, DownInv, Phases

(* Only tables that can be read hold anything. *)
LEMMA AllScanned ==
  ASSUME DiskShape
  PROVE  Data(Scanned) = TableData
<1>1. \A n \in DOMAIN disk.tables \ Scanned : disk.tables[n].data = {}
  BY DEF DiskShape, Scanned, IsTable
<1>2. Scanned \subseteq DOMAIN disk.tables BY DEF Scanned
<1> QED BY <1>1, <1>2 DEF Data, TableData

(* The manifests go; all that was promised is in tables, which can be *)
(* read. *)
LEMMA WriteDescriptorStep ==
  ASSUME Down, WriteDescriptor
  PROVE  Down'
<1>1. /\ DiskShape /\ VersionShape /\ OpeningShape /\ HistShape /\ Bounded /\ SequencesUnique
      /\ ManifestInv /\ DurableInv
  BY DEF Down, Shape, DownInv
<1>2. /\ phase = "repair" /\ phase' = "described" /\ Unmoved /\ hist' = hist
      /\ disk.logs = NoFiles
      /\ opening' = [NotOpening EXCEPT !.add = [n \in Scanned |-> 0]]
  BY DEF WriteDescriptor, Unmoved
<1>3. PICK S : S = Scanned OBVIOUS
<1>4. PICK c : c = Cardinality(DOMAIN disk.tables \ S) OBVIOUS
<1>5. PICK b \in Nat : \A n \in DOMAIN disk.logs \cup DOMAIN disk.tables : n <= b
  BY <1>1 DEF Bounded
<1>6. c \in Nat
  <2>1. DOMAIN disk.tables \ S \subseteq 0 .. b BY <1>1, <1>5 DEF DiskShape
  <2>2. IsFiniteSet(0 .. b) BY FS_Interval
  <2>3. IsFiniteSet(DOMAIN disk.tables \ S) BY <2>1, <2>2, FS_Subset
  <2> QED BY <2>3, <1>4, FS_CardinalityType
<1>7. PICK t \in Nat : t = vset.next BY <1>1 DEF VersionShape
<1>8. 0 < t /\ \A k \in DOMAIN disk.tables : k < t /\ k \in Nat
  BY <1>1, <1>2, <1>7 DEF Down, DownInv, RepairInv, DiskShape
<1>9. PICK C, T : C = Copies /\ T = Over(C, Without(disk.tables, DOMAIN disk.tables \ S))
  OBVIOUS
<1>10. C = [n \in t .. t + c - 1 |-> [data |-> {}, whole |-> FALSE]]
  BY <1>3, <1>4, <1>7, <1>9 DEF Copies
<1>11. PICK l : l = NewestSeq(Data(Scanned), 0) OBVIOUS
<1>12. Data(Scanned) = TableData BY <1>1, AllScanned
<1>13. l \in Nat /\ \A e \in TableData : e[1] <= l
  <2>1. TableData \in SUBSET Entry BY <1>1 DEF TableData, Data, DiskShape, IsTable
  <2>2. PICK x \in Nat : \A e \in AllEntries : e[1] <= x BY <1>1 DEF Bounded
  <2>3. \A e \in TableData : e[1] <= x BY <2>2 DEF AllEntries, TableData
  <2>4. l = NewestSeq(TableData, 0) /\ 0 \in Nat BY <1>11, <1>12
  <2> QED BY <2>1, <2>3, <2>4, NewestIs
<1>14. PICK p : p = Cardinality(DOMAIN C) OBVIOUS
<1>15. p \in Nat
  <2>1. DOMAIN C = t .. t + c - 1 /\ t + c - 1 \in Int BY <1>6, <1>10
  <2>2. IsFiniteSet(t .. t + c - 1) BY <2>1, FS_Interval
  <2> QED BY <2>1, <2>2, <1>14, FS_CardinalityType
<1>16. vset' = [vset EXCEPT !.next = t + p, !.last = l]
  <2>1. vset' = [vset EXCEPT !.next = @ + Cardinality(DOMAIN Copies),
                             !.last = NewestSeq(Data(Scanned), 0)]
    BY DEF WriteDescriptor
  <2>2. Cardinality(DOMAIN Copies) = p BY <1>9, <1>14
  <2>3. PICK q : q = vset.next + Cardinality(DOMAIN Copies) OBVIOUS
  <2>4. vset' = [vset EXCEPT !.next = q, !.last = l] BY <2>1, <2>3, <1>11, Zenon
  <2>5. q = t + p BY <2>2, <2>3, <1>7
  <2> QED BY <2>4, <2>5
<1>17. vset'.next = t + p /\ vset'.last = l /\ VersionShape'
  <2>1. PICK q \in Nat : q = t + p BY <1>15
  <2>2. VersionShape /\ l \in Nat BY <1>1, <1>13
  <2>3. vset' = [next |-> q, manifest |-> vset.manifest, last |-> l,
                 log |-> vset.log, files |-> vset.files]
    BY <2>1, <2>2, <1>16 DEF VersionShape
  <2>4. {q, vset.manifest, l, vset.log} \subseteq Nat /\ IsFiles(vset.files)
    BY <2>1, <2>2 DEF VersionShape
  <2> QED BY <2>1, <2>3, <2>4 DEF VersionShape
<1>18. disk' = [disk EXCEPT !.manifests = NoFiles, !.tables = T]
  BY <1>3, <1>9 DEF WriteDescriptor
<1>19. disk' = [logs |-> disk.logs, tables |-> T, manifests |-> NoFiles, current |-> disk.current]
  BY <1>1, <1>18 DEF DiskShape
<1>20. DOMAIN NoFiles = {} BY DEF NoFiles
<1>21. S \subseteq DOMAIN disk.tables BY <1>3 DEF Scanned
<1>22. /\ DOMAIN T = (t .. t + c - 1) \cup S
       /\ \A k \in S : T[k] = disk.tables[k]
       /\ \A k \in t .. t + c - 1 : T[k] = [data |-> {}, whole |-> FALSE]
  <2>1. PICK W : W = Without(disk.tables, DOMAIN disk.tables \ S) OBVIOUS
  <2>2. DOMAIN W = S /\ \A k \in S : W[k] = disk.tables[k] BY <2>1, <1>21 DEF Without
  <2>3. DOMAIN C = t .. t + c - 1 BY <1>10
  <2>4. T = Over(C, W) BY <1>9, <2>1
  <2>5. \A k \in S : k \notin DOMAIN C BY <2>3, <1>8, <1>21
  <2>6. DOMAIN T = DOMAIN C \cup DOMAIN W
        /\ (\A k \in DOMAIN C : T[k] = C[k])
        /\ (\A k \in DOMAIN W \ DOMAIN C : T[k] = W[k])
    BY <2>4 DEF Over
  <2>7. \A k \in DOMAIN C : C[k] = [data |-> {}, whole |-> FALSE] BY <1>10, <2>3
  <2> QED BY <2>2, <2>3, <2>5, <2>6, <2>7
<1>23. PICK d : d = [data |-> {}, whole |-> FALSE] OBVIOUS
<1>24. IsTable(d) /\ d.data = {} /\ ~d.whole BY <1>23 DEF IsTable
<1>25. DiskShape'
  <2>1. \A k \in DOMAIN T : k \in Nat /\ IsTable(T[k])
    <3>1. ASSUME NEW k \in DOMAIN T
          PROVE  k \in Nat /\ IsTable(T[k])
      <4>1. CASE k \in S BY <4>1, <1>1, <1>21, <1>22 DEF DiskShape
      <4>2. CASE k \notin S BY <4>2, <3>1, <1>6, <1>22, <1>23, <1>24
      <4> QED BY <4>1, <4>2
    <3> QED BY <3>1
  <2>2. DOMAIN T \subseteq Nat BY <2>1
  <2> QED BY <2>1, <2>2, <1>1, <1>19, <1>20 DEF DiskShape
<1>26. /\ disk'.logs = disk.logs /\ disk'.tables = T /\ disk'.current = disk.current
       /\ DOMAIN disk'.manifests = {} /\ DOMAIN disk.logs = {}
  BY <1>2, <1>19, <1>20
<1>27. Scanned' = S
  <2>1. \A k \in S : T[k].whole BY <1>3, <1>22 DEF Scanned
  <2>2. \A k \in DOMAIN T \ S : ~T[k].whole BY <1>22, <1>23, <1>24
  <2> QED BY <2>1, <2>2, <1>22, <1>26 DEF Scanned
<1>28. TableData \subseteq TableData'
  <2>1. \A k \in S : k \in DOMAIN disk'.tables /\ disk'.tables[k] = disk.tables[k]
    BY <1>22, <1>26
  <2>2. Data(S) \subseteq Data(DOMAIN disk.tables)' BY <2>1 DEF Data
  <2> QED BY <2>2, <1>3, <1>12 DEF TableData
<1>29. Current'.all = Nothing /\ Saids' = {Nothing} BY <1>26 DEF Current, Synced, Saids
<1>30. ManifestInv'
  <2>1. ~(hist.opened /\ ~hist.repaired) /\ (disk.current = 0 => ~hist.opened /\ hist.acked = {})
    BY <1>1, <1>2 DEF ManifestInv
  <2> QED BY <2>1, <1>2, <1>26, <1>29 DEF ManifestInv
<1>31. DurableInv'
  <2>1. ASSUME NEW w \in hist.acked \ hist.lost, NEW safe \in BOOLEAN
        PROVE  Survives(w, Nothing, safe)'
    <3>1. PICK s : s = Current.all OBVIOUS
    <3>2. Survives(w, Nothing, FALSE) BY <1>1, <1>2, <2>1, <3>1 DEF DurableInv, Kept
    <3>3. w \in Writes(TableData) BY <3>2, <1>26, Somewhere
    <3>4. w \in Writes(TableData') BY <3>3, <1>28, WritesGrow
    <3>5. ~Complete(Nothing)' BY DEF Complete, Nothing
    <3> QED BY <3>4, <3>5 DEF Survives, TableData
  <2>2. hist.synced \subseteq hist.acked BY <1>1 DEF HistShape
  <2>3. \A w, s, safe : Survives(w, s, safe)' => Kept(w, s, safe)' BY <1>2 DEF Kept
  <2> QED BY <2>1, <2>2, <2>3, <1>2, <1>29 DEF DurableInv
<1>32. opening'.add = [n \in S |-> 0] /\ DOMAIN opening'.add = S /\ OpeningShape'
  <2>1. PICK A : A = [n \in S |-> 0] OBVIOUS
  <2>2. opening' = [logs |-> {}, add |-> A, log |-> 0, ok |-> TRUE, lost |-> {}]
    BY <2>1, <1>2, <1>3 DEF NotOpening
  <2>3. S \subseteq Nat BY <1>1, <1>21 DEF DiskShape
  <2>4. IsFiles(A) /\ DOMAIN A = S BY <2>1, <2>3 DEF IsFiles
  <2> QED BY <2>1, <2>2, <2>4 DEF OpeningShape
<1>33. RepairInv'
  <2>1. ASSUME NEW n \in S
        PROVE  n < vset'.next /\ \A e \in disk'.tables[n].data : e[1] <= vset'.last
    <3>1. n < t + p BY <1>8, <1>15, <1>21
    <3>2. \A e \in disk.tables[n].data : e \in TableData BY <1>21 DEF TableData, Data
    <3>3. disk'.tables[n] = disk.tables[n] BY <1>22, <1>26
    <3> QED BY <3>1, <3>2, <3>3, <1>13, <1>17
  <2>2. vset'.next > 0 BY <1>8, <1>15, <1>17
  <2> QED BY <2>1, <2>2, <1>2, <1>26, <1>27, <1>32 DEF RepairInv
<1>34. ReplayInv' /\ LogInv' /\ WrittenInv' BY <1>2 DEF ReplayInv, LogInv, WrittenInv
<1>35. Bounded' /\ SequencesUnique'
  <2>1. \A k \in DOMAIN disk'.tables : disk'.tables[k].data \subseteq AllEntries
    <3>1. ASSUME NEW k \in DOMAIN T
          PROVE  T[k].data \subseteq AllEntries
      <4>1. CASE k \in S BY <4>1, <1>21, <1>22, AllIs
      <4>2. CASE k \notin S BY <4>2, <3>1, <1>22, <1>23, <1>24
      <4> QED BY <4>1, <4>2
    <3> QED BY <3>1, <1>26
  <2>2. \A k \in DOMAIN disk'.logs : LogData(k)' \subseteq AllEntries BY <1>26
  <2>3. DOMAIN db'.memtables = {} BY <1>2, UnmovedFacts DEF Unmoved
  <2>4. AllEntries' \subseteq AllEntries BY <2>1, <2>2, <2>3, EntriesWithin
  <2>5. \A k \in DOMAIN disk'.logs \cup DOMAIN disk'.tables :
          k \in DOMAIN disk.logs \cup DOMAIN disk.tables \/ k <= t + c
    BY <1>6, <1>21, <1>22, <1>26
  <2>6. t + c \in Nat BY <1>6
  <2> QED BY <2>4, <2>5, <2>6, <1>1, <1>25, BoundedStays
<1>36. HistShape' BY <1>1, <1>2 DEF HistShape
<1> QED
  BY <1>2, <1>17, <1>25, <1>30, <1>31, <1>32, <1>33, <1>34, <1>35, <1>36, UnmovedFacts
     DEF Down, Shape, DownInv, Phases

(* The new manifest names all tables that can be read, with numbers and *)
(* sequence numbers below its own. *)
LEMMA InstallDescriptorStep ==
  ASSUME Down, InstallDescriptor
  PROVE  Down'
<1>1. /\ DiskShape /\ VersionShape /\ OpeningShape /\ HistShape /\ Bounded /\ SequencesUnique
      /\ ManifestInv /\ DurableInv
  BY DEF Down, Shape, DownInv
<1>2. /\ phase = "described" /\ phase' = "newdb" /\ Unmoved /\ hist' = hist
      /\ opening' = NotOpening /\ vset' = EmptyVersions
  BY DEF InstallDescriptor, Unmoved
<1>3. /\ DOMAIN disk.logs = {} /\ DOMAIN disk.manifests = {}
      /\ DOMAIN opening.add = Scanned /\ vset.next > 0
      /\ \A n \in Scanned : n < vset.next /\ \A e \in disk.tables[n].data : e[1] <= vset.last
  BY <1>2 DEF Down, DownInv, RepairInv
<1>4. PICK F : F = opening.add OBVIOUS
<1>5. PICK t \in Nat : t = vset.next BY <1>1 DEF VersionShape
<1>6. PICK l \in Nat : l = vset.last BY <1>1 DEF VersionShape
<1>7. PICK z \in Nat : z = 0 OBVIOUS
<1>8. PICK e : e = [Edit(F, {}) EXCEPT !.log = z, !.next = t, !.last = l] OBVIOUS
<1>9. e = [add |-> F, del |-> {}, log |-> z, next |-> t, last |-> l] BY <1>8 DEF Edit
<1>10. PICK m : m = Unsynced(e) OBVIOUS
<1>11. IsFiles(F) BY <1>1, <1>4 DEF OpeningShape
<1>12. /\ IsManifest(m) /\ m.left = {Nothing, m.all} /\ ~m.torn
       /\ DOMAIN m.all.files = DOMAIN F /\ m.all.log = z /\ m.all.next = t /\ m.all.last = l
  BY <1>9, <1>10, <1>11, FirstManifest
<1>13. PICK n \in Nat : n = 1 OBVIOUS
<1>14. disk' = [disk EXCEPT !.manifests = Put(@, n, m)]
  BY <1>4, <1>5, <1>6, <1>7, <1>8, <1>10, <1>13 DEF InstallDescriptor
<1>15. /\ DiskShape' /\ SameFiles /\ disk'.current = disk.current
       /\ DOMAIN disk'.manifests = DOMAIN disk.manifests \cup {n}
       /\ disk'.manifests[n] = m
       /\ disk.current # n => Current' = Current
       /\ disk.current = n => Current' = m
  BY <1>1, <1>12, <1>14, PutManifest
<1>16. /\ LogsStay /\ Scanned' = Scanned /\ TableData' = TableData
       /\ \A S : Data(S)' = Data(S)
       /\ \A s : Complete(s)' = Complete(s) /\ Valid(s)' = Valid(s) /\ SaidKept(s)
       /\ disk'.logs = disk.logs
  BY <1>15, SameData DEF SameFiles
<1>17. Valid(m.all) /\ Complete(m.all)
  <2>1. Valid(m.all) BY <1>3, <1>4, <1>5, <1>6, <1>7, <1>12 DEF Valid
  <2> QED BY <2>1, ValidFacts
<1>18. TableData = Data(DOMAIN m.all.files) BY <1>1, <1>3, <1>4, <1>12, AllScanned
<1>19. ManifestInv'
  <2>1. CASE disk.current = n
    <3>1. Current'.all = m.all /\ Saids' = {Nothing, m.all} BY <2>1, <1>12, <1>15 DEF Saids
    <3>2. ~(hist.opened /\ ~hist.repaired) BY <1>1, <1>2 DEF ManifestInv
    <3>3. Valid(m.all)' BY <1>16, <1>17
    <3>4. disk'.current # 0 BY <2>1, <1>13, <1>15
    <3>5. \A s \in {Nothing, m.all} : s.next <= m.all.next BY <1>5, <1>12, NothingIs DEF None
    <3> QED BY <3>1, <3>2, <3>3, <3>4, <3>5, <1>2, <1>3, <1>16 DEF ManifestInv
  <2>2. CASE disk.current # n
    <3>1. ~(hist.opened /\ ~hist.repaired) BY <1>1, <1>2 DEF ManifestInv
    <3> QED BY <3>1, <2>2, <1>1, <1>2, <1>15, ManifestKept DEF SameStore, SameHist, HistStays
  <2> QED BY <2>1, <2>2
<1>20. DurableInv'
  <2>1. CASE disk.current = n
    <3>1. Current'.all = m.all /\ Saids' = {Nothing, m.all} BY <2>1, <1>12, <1>15 DEF Saids
    <3>2. ASSUME NEW w \in hist.acked \ hist.lost, NEW x \in {Nothing, m.all}, NEW safe \in BOOLEAN
          PROVE  Survives(w, x, safe)'
      <4>1. PICK s : s = Current.all OBVIOUS
      <4>2. Survives(w, s, FALSE) BY <1>1, <1>2, <3>2, <4>1, KeptIs DEF DurableInv
      <4>3. w \in Writes(TableData) BY <4>2, <1>3, Somewhere
      <4>4. w \in Writes(TableData') /\ w \in Writes(Data(DOMAIN m.all.files)')
        BY <4>3, <1>16, <1>18
      <4>5. CASE x = m.all
        <5>1. Complete(m.all)' BY <1>16, <1>17
        <5> QED BY <4>4, <4>5, <5>1, <1>2 DEF Survives
      <4>6. CASE x = Nothing
        <5>1. ~Complete(x)' BY <4>6 DEF Complete, Nothing
        <5> QED BY <4>4, <5>1 DEF Survives, TableData
      <4> QED BY <4>5, <4>6
    <3>3. hist.synced \subseteq hist.acked BY <1>1 DEF HistShape
    <3>4. \A w, s, safe : Survives(w, s, safe)' => Kept(w, s, safe)' BY <1>2 DEF Kept, Archived
    <3> QED BY <3>1, <3>2, <3>3, <3>4, <1>2 DEF DurableInv
  <2>2. CASE disk.current # n
    <3>1. Current.all \in Saids BY <1>1, CurrentShape DEF Saids, IsManifest
    <3> QED BY <3>1, <2>2, <1>1, <1>2, <1>15, <1>16, DurableKept DEF HistStays
  <2> QED BY <2>1, <2>2
<1>21. RepairInv'
  <2>1. Valid(m.all)' /\ (Data(DOMAIN disk.tables) \subseteq Data(DOMAIN m.all.files))'
    BY <1>16, <1>17, <1>18 DEF TableData
  <2>2. /\ 1 \in DOMAIN disk'.manifests /\ disk'.manifests[1] = m
        /\ m.left = {Nothing, m.all} /\ ~m.torn
    BY <1>12, <1>13, <1>15
  <2>3. (Data(DOMAIN disk.tables) \subseteq Data(DOMAIN disk.manifests[1].all.files))'
    BY <2>1, <2>2
  <2>4. Valid(disk.manifests[1].all)' BY <2>1, <2>2
  <2> QED BY <2>2, <2>3, <2>4, <1>2, <1>3, <1>16 DEF RepairInv
<1>22. ReplayInv' /\ LogInv' /\ WrittenInv' BY <1>2 DEF ReplayInv, LogInv, WrittenInv
<1>23. Bounded' /\ SequencesUnique' BY <1>1, <1>2, <1>15, SameEntries DEF Unmoved
<1>24. HistShape' /\ VersionShape' /\ OpeningShape'
  BY <1>1, <1>2 DEF HistShape, VersionShape, OpeningShape, EmptyVersions, NotOpening, NoFiles, IsFiles
<1> QED
  BY <1>2, <1>15, <1>19, <1>20, <1>21, <1>22, <1>23, <1>24, UnmovedFacts
     DEF Down, Shape, DownInv, Phases
-----------------------------------------------------------------------------
(* The end of a process *)

(* Open or not, the files keep the promises. *)
LEMMA StoredIs ==
  ASSUME Up \/ Down
  PROVE  Stored
<1>1. CASE Up BY <1>1, UpStored DEF Up, Shape, Stored, Phases
<1>2. CASE Down BY <1>2 DEF Down, Shape, DownInv, Stored
<1> QED BY <1>1, <1>2

(* A process has ended, and no file has come. *)
LEMMA ForgetStep ==
  ASSUME Stored, Forget, DiskShape', HistShape', ManifestInv', DurableInv',
         DOMAIN disk'.logs \subseteq DOMAIN disk.logs,
         DOMAIN disk'.tables \subseteq DOMAIN disk.tables,
         \A n \in DOMAIN disk'.tables : disk'.tables[n].data \subseteq AllEntries,
         \A n \in DOMAIN disk'.logs : LogData(n)' \subseteq AllEntries
  PROVE  Down'
<1>1. /\ Quiet' /\ DBShape' /\ ThreadShape' /\ BgShape' /\ ReaderShape'
      /\ VersionShape' /\ OpeningShape' /\ phase' = "down" /\ DOMAIN db'.memtables = {}
  BY ForgetFacts
<1>2. AllEntries' \subseteq AllEntries BY <1>1, EntriesWithin
<1>3. Bounded' /\ SequencesUnique' BY <1>2, BoundedStays, 0 \in Nat DEF Stored
<1>4. ReplayInv' /\ LogInv' /\ WrittenInv' /\ RepairInv'
  BY <1>1 DEF ReplayInv, LogInv, WrittenInv, RepairInv
<1> QED BY <1>1, <1>3, <1>4 DEF Down, Shape, DownInv, Phases

(* Logs and tables are as they were, and so is the manifest, or it is not *)
(* there any more. *)
LEMMA EndedStep ==
  ASSUME Stored, Forget, DiskShape', SameFiles, disk'.current = disk.current, HistShape',
         SameEnd, Current' = Current \/ (Current' = Synced(Nothing) /\ ~(hist.opened /\ ~hist.repaired))
  PROVE  Down'
<1>1. /\ DiskShape /\ HistShape /\ ManifestInv /\ DurableInv /\ phase' = "down"
  BY ForgetFacts DEF Stored
<1>2. /\ \A n : LogData(n)' = LogData(n)
      /\ \A s : Valid(s)' = Valid(s)
      /\ \A s : SaidKept(s)
      /\ LogsStay /\ disk'.logs = disk.logs /\ disk'.tables = disk.tables
  BY SameData DEF SameFiles
<1>3. /\ hist'.acked = hist.acked /\ hist'.synced = hist.synced
      /\ hist'.opened = hist.opened /\ hist'.repaired = hist.repaired
      /\ hist'.lost = hist.lost \cup Archived
  BY DEF SameEnd
<1>4. PICK m, c : m = Current /\ c = Current' OBVIOUS
<1>5. Saids = m.left /\ Saids' = c.left /\ m.all \in m.left
  BY <1>1, <1>4, CurrentShape DEF Saids, IsManifest
<1>6. c = m \/ (c.all = Nothing /\ c.left = {Nothing} /\ ~(hist.opened /\ ~hist.repaired))
  BY <1>4 DEF Synced
<1>7. ManifestInv'
  <2>1. \A s \in c.left : s = Nothing \/ Valid(s)'
    BY <1>1, <1>2, <1>4, <1>5, <1>6 DEF ManifestInv
  <2>2. c.all = Nothing \/ \A s \in c.left : s.next <= c.all.next
    BY <1>1, <1>4, <1>5, <1>6 DEF ManifestInv
  <2>3. Nothing \in c.left /\ c.all # Nothing =>
          hist'.acked = {} \/ \A n \in DOMAIN disk'.logs : LogData(n)' = {}
    BY <1>1, <1>2, <1>3, <1>4, <1>5, <1>6 DEF ManifestInv
  <2>4. \/ hist'.acked = {} \/ \A n \in DOMAIN disk'.logs : LogData(n)' = {}
        \/ \A s \in c.left : s = Nothing \/ disk'.current < s.next
    BY <1>1, <1>2, <1>3, <1>4, <1>5, <1>6 DEF ManifestInv
  <2>5. disk'.current = 0 => ~hist'.opened /\ hist'.acked = {} BY <1>1, <1>3 DEF ManifestInv
  <2>6. hist'.opened /\ ~hist'.repaired =>
          /\ Nothing \in c.left => c.all = Nothing
          /\ c.all = Nothing => c.torn
          /\ \A s \in c.left : s = Nothing \/ disk'.current < s.next
    BY <1>1, <1>3, <1>4, <1>5, <1>6 DEF ManifestInv
  <2> QED BY <2>1, <2>2, <2>3, <2>4, <2>5, <2>6, <1>1, <1>4, <1>5 DEF ManifestInv
<1>8. ASSUME NEW w, w \notin hist'.lost, NEW s \in m.left, NEW safe \in BOOLEAN, Kept(w, s, safe)
      PROVE  Survives(w, s, safe)' /\ Survives(w, Nothing, safe)'
  <2>1. Survives(w, s, safe) BY <1>3, <1>8 DEF Kept
  <2>2. Survives(w, Nothing, safe) BY <2>1, AllSurvives
  <2>3. SaidKept(s) /\ SaidKept(Nothing) BY <1>2
  <2>4. Survives(w, s, safe)' BY <2>1, <2>3, <1>2, SurvivesKept
  <2>5. Survives(w, Nothing, safe)' BY <2>2, <2>3, <1>2, SurvivesKept
  <2> QED BY <2>4, <2>5
<1>9. DurableInv'
  <2>1. ASSUME NEW w \in hist'.acked \ hist'.lost
        PROVE  Kept(w, c.all, FALSE)'
    <3>1. Kept(w, m.all, FALSE) BY <2>1, <1>1, <1>3, <1>4 DEF DurableInv
    <3>2. Survives(w, m.all, FALSE)' /\ Survives(w, Nothing, FALSE)' BY <2>1, <3>1, <1>5, <1>8
    <3> QED BY <3>2, <1>1, <1>6 DEF Kept
  <2>2. ASSUME NEW w \in hist'.synced \ hist'.lost, NEW s \in c.left
        PROVE  Kept(w, s, TRUE)'
    <3>1. \A x \in m.left : Kept(w, x, TRUE) BY <2>2, <1>1, <1>3, <1>5 DEF DurableInv
    <3>2. \A x \in m.left : Survives(w, x, TRUE)' /\ Survives(w, Nothing, TRUE)'
      BY <2>2, <3>1, <1>8
    <3>3. s \in m.left \/ s = Nothing BY <2>2, <1>6
    <3> QED BY <3>2, <3>3, <1>1, <1>5 DEF Kept
  <2> QED BY <2>1, <2>2, <1>4, <1>5 DEF DurableInv
<1>10. /\ \A n \in DOMAIN disk'.tables : disk'.tables[n].data \subseteq AllEntries
       /\ \A n \in DOMAIN disk'.logs : LogData(n)' \subseteq AllEntries
  BY <1>2, AllIs
<1> QED BY <1>2, <1>7, <1>9, <1>10, ForgetStep

(* A process that ends leaves the files as they were. *)
LEMMA SameFilesEnd ==
  ASSUME Stored, disk' = disk
  PROVE  DiskShape' /\ SameFiles /\ disk'.current = disk.current /\ Current' = Current
BY DEF Stored, DiskShape, SameFiles, Current

(* A process that is cut short loses no more than a repair had archived *)
(* ... *)
LEMMA CutShortEnd ==
  ASSUME HistShape, CutShort
  PROVE  Forget /\ HistShape' /\ SameEnd
<1>1. PICK a : a = Archived OBVIOUS
<1>2. hist' = [hist EXCEPT !.spent = @ + 1, !.lost = @ \cup a] BY <1>1 DEF CutShort
<1>3. /\ hist'.acked = hist.acked /\ hist'.synced = hist.synced
      /\ hist'.opened = hist.opened /\ hist'.repaired = hist.repaired
      /\ hist'.lost = hist.lost \cup a
  BY <1>2 DEF HistShape
<1>4. HistShape' BY <1>2, <1>3 DEF HistShape
<1> QED BY <1>1, <1>3, <1>4 DEF SameEnd, CutShort

(* ... and one that ends in order nothing at all. *)
LEMMA UnchangedEnd ==
  ASSUME HistShape, hist' = hist, phase # "repair"
  PROVE  HistShape' /\ SameEnd
BY DEF HistShape, SameEnd, Archived

(* An orderly end, or that of a NULL dereference: the memtables are lost, *)
(* their logs stay. *)
LEMMA ClosedStep ==
  ASSUME Up, Closed \/ DereferenceNull
  PROVE  Down'
<1>1. Stored /\ phase # "repair" /\ HistShape BY StoredIs DEF Up, Stored
<1>2. Forget /\ disk' = disk /\ hist' = hist BY DEF Closed, DereferenceNull
<1> QED BY <1>1, <1>2, UnchangedEnd, SameFilesEnd, EndedStep

(* A process that is killed: the same, at any step; of a repair, what it *)
(* had archived is lost. *)
LEMMA KillStep ==
  ASSUME Stored, Kill
  PROVE  Down'
<1>1. Forget /\ disk' = disk /\ HistShape' /\ SameEnd BY CutShortEnd DEF Kill, Stored
<1> QED BY <1>1, SameFilesEnd, EndedStep

(* DB::Open or RepairDB fails: no log and no table goes, and a manifest *)
(* that CURRENT names only where none had been opened. *)
LEMMA OpenFailsStep ==
  ASSUME Down, OpenFails
  PROVE  Down'
<1>1. /\ Stored /\ DiskShape /\ HistShape /\ VersionShape /\ ManifestInv
      /\ ReplayInv /\ WrittenInv
  BY StoredIs DEF Down, DownInv, Shape
<1>2. Forget /\ HistShape' /\ SameEnd
  <2>1. CutShort \/ (phase = "replay" /\ Forget /\ hist' = hist) BY DEF OpenFails
  <2> QED BY <2>1, <1>1, CutShortEnd, UnchangedEnd
<1>3. CASE phase \notin {"manifest", "current"}
  <2>1. disk' = disk BY <1>3 DEF OpenFails
  <2> QED BY <2>1, <1>1, <1>2, SameFilesEnd, EndedStep
<1>4. CASE phase \in {"manifest", "current"}
  <2>1. PICK n \in Nat : n = vset.manifest BY <1>1 DEF VersionShape
  <2>2. PICK M : M = Without(disk.manifests, {n}) OBVIOUS
  <2>3. disk' = [disk EXCEPT !.manifests = M] BY <2>1, <2>2, <1>4 DEF OpenFails
  <2>4. DOMAIN M = DOMAIN disk.manifests \ {n} /\ \A k \in DOMAIN M : M[k] = disk.manifests[k]
    BY <2>2 DEF Without
  <2>5. disk' = [logs |-> disk.logs, tables |-> disk.tables, manifests |-> M, current |-> disk.current]
    BY <2>3, <1>1 DEF DiskShape
  <2>6. SameFiles /\ disk'.current = disk.current /\ disk'.manifests = M BY <2>5 DEF SameFiles
  <2>7. DiskShape' BY <2>4, <2>5, <1>1 DEF DiskShape
  <2>8. CASE disk.current # n
    <3>1. Current' = Current BY <2>4, <2>6, <2>8 DEF Current
    <3> QED BY <3>1, <2>6, <2>7, <1>1, <1>2, EndedStep
  <2>9. CASE disk.current = n
    <3>1. Current' = Synced(Nothing) BY <2>4, <2>6, <2>9 DEF Current
    <3>2. CASE phase = "current"
      <4>1. ~(hist.opened /\ ~hist.repaired) BY <3>2, <2>1, <2>9, <1>1 DEF WrittenInv
      <4> QED BY <3>1, <4>1, <2>6, <2>7, <1>1, <1>2, EndedStep
    <3>3. CASE phase = "manifest"
      <4>1. PICK c : c = Current.all OBVIOUS
      <4>2. c # Nothing /\ n = c.next /\ c \in Saids
        BY <4>1, <3>3, <2>1, <1>1, CurrentShape DEF ReplayInv, Saids, IsManifest
      <4>3. ~(disk.current < c.next) BY <4>2, <2>9
      <4>4. ~(hist.opened /\ ~hist.repaired) BY <4>2, <4>3, <1>1 DEF ManifestInv
      <4> QED BY <3>1, <4>4, <2>6, <2>7, <1>1, <1>2, EndedStep
    <3> QED BY <3>2, <3>3, <1>4
  <2> QED BY <2>8, <2>9
<1> QED BY <1>3, <1>4

(* Each log keeps at least its synced records, the manifest says one of *)
(* the things it may say, finished tables stay. *)
LEMMA PowerLossFacts ==
  ASSUME DiskShape, HistShape, PowerLoss
  PROVE  /\ DiskShape' /\ HistShape' /\ Forget
         /\ \E cut, x : Lost(cut, x) /\ LostPromises(cut, x)
<1>1. PICK cut \in [DOMAIN disk.logs -> 0 .. Budget], x \in Current.left :
       /\ \A n \in DOMAIN cut : cut[n] \in disk.logs[n].synced .. Len(disk.logs[n].recs)
       /\ disk' = [disk EXCEPT
            !.logs = [n \in DOMAIN @ |-> [recs |-> SubSeq(@[n].recs, 1, cut[n]), synced |-> cut[n]]],
            !.manifests = [n \in DOMAIN @ |-> [@[n] EXCEPT !.all = x, !.left = {x}]],
            !.tables = Without(@, {n \in DOMAIN @ : ~@[n].whole})]
       /\ hist' = [hist EXCEPT !.spent = @ + 1, !.lost = @ \cup Archived,
                               !.acked = @ \cap (hist.synced \cup Recovered(x, cut))]
  BY DEF PowerLoss
<1>4. PICK L, M, T :
        /\ L = [n \in DOMAIN disk.logs |-> [recs |-> SubSeq(disk.logs[n].recs, 1, cut[n]),
                                            synced |-> cut[n]]]
        /\ M = [n \in DOMAIN disk.manifests |-> [disk.manifests[n] EXCEPT !.all = x, !.left = {x}]]
        /\ T = Without(disk.tables, {n \in DOMAIN disk.tables : ~disk.tables[n].whole})
  OBVIOUS
<1>5. disk' = [disk EXCEPT !.logs = L, !.manifests = M, !.tables = T] BY <1>1, <1>4
<1>6. disk' = [logs |-> L, tables |-> T, manifests |-> M, current |-> disk.current]
  BY <1>5 DEF DiskShape
<1>7. PICK a, o : a = hist.acked \cap (hist.synced \cup Recovered(x, cut)) /\ o = Archived
  OBVIOUS
<1>8. hist' = [hist EXCEPT !.spent = @ + 1, !.lost = @ \cup o, !.acked = a] BY <1>1, <1>7
<1>9. hist.synced \subseteq a BY <1>7 DEF HistShape
<1>10. HistShape' /\ LostPromises(cut, x)
  <2>1. /\ hist'.acked = a /\ hist'.synced = hist.synced /\ hist'.lost = hist.lost \cup o
        /\ hist'.opened = hist.opened /\ hist'.repaired = hist.repaired
    BY <1>8 DEF HistShape
  <2>2. HistShape' BY <1>8, <1>9, <2>1 DEF HistShape
  <2> QED BY <1>7, <2>1, <2>2 DEF LostPromises
<1>11. ASSUME NEW n \in DOMAIN disk.logs
       PROVE  /\ n \in Nat /\ n \in DOMAIN L /\ IsLog(L[n])
              /\ ReadLog(L[n], Len(L[n].recs)) = ReadLog(disk.logs[n], cut[n])
              /\ ReadLog(L[n], L[n].synced) = ReadLog(disk.logs[n], cut[n])
              /\ ReadLog(disk.logs[n], cut[n]) \subseteq LogData(n)
              /\ SafeLogData(n) \subseteq ReadLog(disk.logs[n], cut[n])
  <2>1. PICK l, k : l = disk.logs[n] /\ k = cut[n] OBVIOUS
  <2>2. IsLog(l) /\ n \in Nat BY <2>1 DEF DiskShape
  <2>3. k \in l.synced .. Len(l.recs) /\ l.synced \in Nat /\ Len(l.recs) \in Nat
    BY <1>1, <2>1, <2>2 DEF IsLog
  <2>4. k \in 0 .. Len(l.recs) /\ k \in Nat /\ l.synced <= k /\ k <= Len(l.recs) BY <2>3
  <2>5. PICK c : c = [recs |-> SubSeq(l.recs, 1, k), synced |-> k] OBVIOUS
  <2>6. IsLog(c) /\ Len(c.recs) = k /\ c.synced = k /\ ReadLog(c, k) = ReadLog(l, k)
    BY <2>2, <2>4, <2>5, ReadLogCut
  <2>7. n \in DOMAIN L /\ L[n] = c BY <1>4, <2>1, <2>5
  <2>8. ReadLog(l, k) \subseteq ReadLog(l, Len(l.recs)) /\ ReadLog(l, l.synced) \subseteq ReadLog(l, k)
    BY <2>3, <2>4, ReadLogGrows
  <2> QED BY <2>1, <2>2, <2>6, <2>7, <2>8 DEF LogData, SafeLogData
<1>12. DOMAIN L = DOMAIN disk.logs /\ DOMAIN M = DOMAIN disk.manifests BY <1>4
<1>13. DOMAIN T = Scanned /\ \A n \in Scanned : T[n] = disk.tables[n]
  BY <1>4 DEF Without, Scanned
<1>14. IsSaid(x) /\ \A n \in DOMAIN M : IsManifest(M[n])
  <2>1. IsSaid(x) BY <1>1, CurrentShape DEF IsManifest
  <2> SUFFICES ASSUME NEW n \in DOMAIN M PROVE IsManifest(M[n]) BY <2>1
  <2>2. IsManifest(disk.manifests[n]) /\ M[n] = [disk.manifests[n] EXCEPT !.all = x, !.left = {x}]
    BY <1>4, <1>12 DEF DiskShape
  <2>3. M[n] = [all |-> x, left |-> {x}, torn |-> disk.manifests[n].torn] BY <2>2 DEF IsManifest
  <2>4. disk.manifests[n].torn \in BOOLEAN BY <2>2 DEF IsManifest
  <2>5. PICK y : y = M[n] OBVIOUS
  <2>6. y = [all |-> x, left |-> {x}, torn |-> disk.manifests[n].torn] BY <2>3, <2>5
  <2>7. y = [all |-> y.all, left |-> y.left, torn |-> y.torn] /\ y.all = x /\ y.left = {x}
        /\ y.torn = disk.manifests[n].torn
    BY <2>6
  <2> QED BY <2>1, <2>4, <2>5, <2>7 DEF IsManifest
<1>15. \A n \in DOMAIN T : n \in Nat /\ IsTable(T[n]) BY <1>13 DEF DiskShape, Scanned
<1>16. DiskShape'
  <2>1. DOMAIN L \subseteq Nat /\ (\A n \in DOMAIN L : IsLog(L[n])) /\ DOMAIN T \subseteq Nat
    BY <1>11, <1>12, <1>15
  <2>2. disk.current \in Nat BY DEF DiskShape
  <2> QED BY <2>1, <2>2, <1>6, <1>14, <1>15 DEF DiskShape
<1>17. disk'.logs = L /\ disk'.tables = T /\ disk'.manifests = M /\ disk'.current = disk.current
  BY <1>6
<1>18. x \in Saids /\ Current' = [all |-> x, left |-> {x}, torn |-> Current.torn]
  <2>1. x \in Saids BY <1>1 DEF Saids
  <2>2. CASE disk.current \in DOMAIN disk.manifests
    <3>1. Current' = M[disk.current] /\ Current = disk.manifests[disk.current]
      BY <2>2, <1>12, <1>17 DEF Current
    <3>2. M[disk.current] = [Current EXCEPT !.all = x, !.left = {x}] BY <3>1, <2>2, <1>4
    <3> QED BY <3>1, <3>2, <2>1, CurrentShape DEF IsManifest
  <2>3. CASE disk.current \notin DOMAIN disk.manifests
    <3>1. Current = Synced(Nothing) /\ Current' = Synced(Nothing)
      BY <2>3, <1>12, <1>17 DEF Current
    <3>2. Current' = [all |-> Nothing, left |-> {Nothing}, torn |-> FALSE] /\ Current.torn = FALSE
          /\ Saids = {Nothing}
      BY <3>1 DEF Synced, Saids
    <3> QED BY <3>2, <2>1
  <2> QED BY <2>2, <2>3
<1>19. Lost(cut, x)
  <2>1. \A n \in DOMAIN disk.logs :
          /\ LogData(n)' = ReadLog(disk.logs[n], cut[n]) /\ SafeLogData(n)' = ReadLog(disk.logs[n], cut[n])
          /\ ReadLog(disk.logs[n], cut[n]) \subseteq LogData(n)
          /\ SafeLogData(n) \subseteq ReadLog(disk.logs[n], cut[n])
    BY <1>11, <1>17 DEF LogData, SafeLogData
  <2>2. Scanned' = Scanned BY <1>13, <1>17 DEF Scanned
  <2> QED BY <2>1, <2>2, <1>12, <1>13, <1>17, <1>18 DEF Lost
<1>20. Forget BY DEF PowerLoss
<1> QED BY <1>10, <1>16, <1>19, <1>20

(* What a power failure leaves of the manifest says as much as before. *)
LEMMA LostSays ==
  ASSUME DiskShape, ManifestInv, NEW cut, NEW x, Lost(cut, x)
  PROVE  /\ TablesKept /\ TableData' = TableData
         /\ x # Nothing => Valid(x) /\ Valid(x)'
         /\ SaidKept(x)
<1>1. /\ DOMAIN disk'.tables = Scanned /\ Scanned' = Scanned /\ Scanned \subseteq DOMAIN disk.tables
      /\ \A n \in Scanned : disk'.tables[n] = disk.tables[n]
  BY DEF Lost, Scanned
<1>2. TablesKept BY <1>1 DEF TablesKept
<1>3. ASSUME NEW S \in SUBSET Scanned
      PROVE  Data(S)' = Data(S)
  BY <1>1 DEF Data
<1>4. TableData' = TableData
  <2>1. Data(DOMAIN disk'.tables) = TableData BY <1>1, AllScanned
  <2>2. TableData' = (UNION {disk'.tables[n].data : n \in Scanned}) BY <1>1 DEF TableData, Data
  <2>3. (UNION {disk'.tables[n].data : n \in Scanned}) = Data(Scanned) BY <1>1 DEF Data
  <2> QED BY <1>1, <2>1, <2>2, <2>3
<1>5. x # Nothing => Valid(x) /\ Valid(x)'
  <2>1. x = Nothing \/ Valid(x) BY DEF Lost, ManifestInv
  <2> QED BY <2>1, <1>2, ValidKept
<1>6. SaidKept(x)
  <2>1. CASE x = Nothing
    <3>1. ~Complete(x) /\ None \in {x.next, x.log, x.last} BY <2>1, NothingIs
    <3> QED BY <3>1, <1>4 DEF SaidKept
  <2>2. CASE x # Nothing
    <3>1. Complete(x) /\ DOMAIN x.files \subseteq Scanned BY <2>2, <1>5, ValidFacts DEF Valid
    <3>2. Data(DOMAIN x.files)' = Data(DOMAIN x.files) BY <3>1, <1>3
    <3> QED BY <3>1, <3>2, <1>1 DEF SaidKept
  <2> QED BY <2>1, <2>2
<1> QED BY <1>2, <1>4, <1>5, <1>6

(* A power failure at any step: what was synced survives, and so does what *)
(* still can be found. *)
LEMMA PowerLossStep ==
  ASSUME Stored, PowerLoss
  PROVE  Down'
<1>1. /\ DiskShape /\ HistShape /\ ManifestInv /\ DurableInv BY DEF Stored
<1>2. DiskShape' /\ HistShape' /\ Forget /\ \E cut, x : Lost(cut, x) /\ LostPromises(cut, x)
  BY <1>1, PowerLossFacts
<1>3. PICK cut, x : Lost(cut, x) /\ LostPromises(cut, x) BY <1>2
<1>4. phase' = "down" BY <1>2, ForgetFacts
<1>5. /\ TablesKept /\ TableData' = TableData
      /\ x # Nothing => Valid(x) /\ Valid(x)'
      /\ SaidKept(x)
  BY <1>1, <1>3, LostSays
<1>6. /\ Current'.all = x /\ Current'.torn = Current.torn /\ Saids' = {x} /\ x \in Saids
      /\ DOMAIN disk'.logs = DOMAIN disk.logs /\ disk'.current = disk.current
      /\ \A n \in DOMAIN disk.logs :
           /\ LogData(n)' = ReadLog(disk.logs[n], cut[n]) /\ SafeLogData(n)' = ReadLog(disk.logs[n], cut[n])
           /\ ReadLog(disk.logs[n], cut[n]) \subseteq LogData(n)
           /\ SafeLogData(n) \subseteq ReadLog(disk.logs[n], cut[n])
  BY <1>3 DEF Lost, Saids
<1>7. /\ hist'.synced = hist.synced
      /\ hist'.acked = hist.acked \cap (hist.synced \cup Recovered(x, cut))
      /\ hist'.lost = hist.lost \cup Archived
      /\ hist'.opened = hist.opened /\ hist'.repaired = hist.repaired
  BY <1>3 DEF LostPromises
<1>8. hist'.acked \subseteq hist.acked BY <1>7
<1>9. ManifestInv'
  <2>1. x = Nothing \/ x.next <= x.next BY <1>5 DEF Valid
  <2>2. disk'.current = 0 => ~hist'.opened /\ hist'.acked = {}
    BY <1>1, <1>6, <1>7, <1>8 DEF ManifestInv
  <2>3. \/ hist'.acked = {} \/ \A n \in DOMAIN disk'.logs : LogData(n)' = {}
        \/ x = Nothing \/ disk'.current < x.next
    BY <1>1, <1>6, <1>8 DEF ManifestInv
  <2>4. hist'.opened /\ ~hist'.repaired =>
          /\ x = Nothing => Current'.torn
          /\ x = Nothing \/ disk'.current < x.next
    BY <1>1, <1>6, <1>7 DEF ManifestInv
  <2> QED BY <2>1, <2>2, <2>3, <2>4, <1>4, <1>5, <1>6 DEF ManifestInv
<1>10. EnteredStay(TRUE) BY <1>6 DEF EnteredStay, Entered
<1>11. ASSUME NEW w \in hist'.synced \ hist'.lost
       PROVE  Survives(w, x, TRUE)'
  <2>1. w \in hist.synced \ hist.lost /\ w \notin Archived BY <1>7, <1>11
  <2>2. Survives(w, x, TRUE) BY <2>1, <1>1, <1>6 DEF DurableInv, Kept
  <2> QED BY <2>1, <2>2, <1>5, <1>10, SurvivesEntered
<1>12. ASSUME NEW w \in hist'.acked \ hist'.lost
       PROVE  Survives(w, x, FALSE)'
  <2>1. w \in hist.synced \cup Recovered(x, cut) BY <1>7, <1>12
  <2>2. CASE w \in hist.synced
    <3>1. Survives(w, x, TRUE)' BY <2>2, <1>7, <1>11, <1>12
    <3>2. \A n \in DOMAIN disk'.logs : LogData(n)' = SafeLogData(n)' BY <1>6
    <3> QED BY <3>1, <3>2 DEF Survives, Entered
  <2>3. CASE w \in Recovered(x, cut)
    <3>1. CASE Complete(x)
      <4>1. Complete(x)' /\ Data(DOMAIN x.files) \subseteq Data(DOMAIN x.files)'
        BY <3>1, <1>5 DEF SaidKept, Complete
      <4>2. w \in Writes(Data(DOMAIN x.files) \cup
                           UNION {ReadLog(disk.logs[n], cut[n]) :
                                    n \in {k \in DOMAIN disk.logs : k >= x.log}})
        BY <2>3, <3>1 DEF Recovered
      <4>3. \/ w \in Writes(Data(DOMAIN x.files))
            \/ \E n \in DOMAIN disk.logs : n >= x.log /\ w \in Writes(ReadLog(disk.logs[n], cut[n]))
        BY <4>2 DEF Writes
      <4>4. \/ w \in Writes(Data(DOMAIN x.files)')
            \/ \E n \in DOMAIN disk'.logs : n >= x.log /\ w \in Writes(LogData(n)')
        BY <4>1, <4>3, <1>6, WritesGrow
      <4> QED BY <4>1, <4>4 DEF Survives, Entered
    <3>2. CASE ~Complete(x)
      <4>1. ~Complete(x)' BY <3>2, <1>5 DEF SaidKept, Complete
      <4>2. w \in Writes(TableData \cup
                           UNION {ReadLog(disk.logs[n], cut[n]) : n \in DOMAIN disk.logs})
        BY <2>3, <3>2 DEF Recovered, TableData
      <4>3. \/ w \in Writes(TableData)
            \/ \E n \in DOMAIN disk.logs : w \in Writes(ReadLog(disk.logs[n], cut[n]))
        BY <4>2 DEF Writes
      <4>4. \/ w \in Writes(TableData')
            \/ \E n \in DOMAIN disk'.logs : w \in Writes(LogData(n)')
        BY <4>3, <1>5, <1>6
      <4> QED BY <4>1, <4>4 DEF Survives, Entered, TableData
    <3> QED BY <3>1, <3>2
  <2> QED BY <2>1, <2>2, <2>3
<1>13. DurableInv' BY <1>4, <1>6, <1>11, <1>12 DEF DurableInv, Kept
<1>14. /\ DOMAIN disk'.tables \subseteq DOMAIN disk.tables
       /\ \A n \in DOMAIN disk'.tables : disk'.tables[n].data \subseteq AllEntries
  BY <1>3, AllIs DEF Lost, Scanned
<1>15. \A n \in DOMAIN disk'.logs : LogData(n)' \subseteq AllEntries BY <1>6, AllIs
<1> QED BY <1>2, <1>6, <1>9, <1>13, <1>14, <1>15, ForgetStep
-----------------------------------------------------------------------------
(* The invariant *)

(* An empty directory. *)
LEMMA InitInv ==
  ASSUME Init
  PROVE  Down
<1>1. /\ DOMAIN disk.logs = {} /\ DOMAIN disk.tables = {} /\ DOMAIN disk.manifests = {}
      /\ disk.current = 0 /\ phase = "down" /\ DOMAIN db.memtables = {}
      /\ hist.acked = {} /\ hist.synced = {} /\ ~hist.opened
  BY DEF Init, NoFiles, EmptyDB
<1>2. DiskShape BY <1>1 DEF Init, DiskShape
<1>3. VersionShape /\ OpeningShape /\ HistShape
  BY DEF Init, VersionShape, OpeningShape, HistShape, EmptyVersions, NotOpening, NoFiles, IsFiles
<1>4. DBShape BY DEF Init, DBShape, EmptyDB, NoFiles
<1>5. ThreadShape
  <2>1. Idle \in [pc : Pcs, sync : BOOLEAN, id : Nat, delay : BOOLEAN,
                  force : BOOLEAN, done : BOOLEAN, ok : BOOLEAN, group : Seq(Threads)]
    BY DEF Idle, Pcs
  <2> QED BY <2>1 DEF Init, ThreadShape
<1>6. BgShape
  <2>1. PICK e : e = Edit(NoFiles, {}) OBVIOUS
  <2>2. IsEdit(e) BY <2>1 DEF IsEdit, Edit, IsFiles, NoFiles, None
  <2>3. bg = [pc |-> "idle", file |-> 0, edit |-> e, ok |-> TRUE, job |-> "none",
              manual |-> FALSE, inputs |-> {}, outputs |-> {}, files |-> NoFiles]
    BY <2>1 DEF Init, Resting
  <2> QED BY <2>2, <2>3 DEF BgShape
<1>7. ReaderShape BY DEF Init, ReaderShape, Ready
<1>8. AllEntries = {}
  <2>1. ASSUME NEW e \in AllEntries PROVE FALSE BY <2>1, <1>1, AllIs
  <2> QED BY <2>1
<1>9. Bounded /\ SequencesUnique BY <1>1, <1>8, UniqueIs DEF Bounded
<1>10. Quiet BY DEF Init, Quiet
<1>11. Saids = {Nothing} /\ Current.all = Nothing BY <1>1 DEF Saids, Current, Synced
<1>12. ManifestInv /\ DurableInv BY <1>1, <1>11 DEF ManifestInv, DurableInv
<1>13. ReplayInv /\ LogInv /\ WrittenInv /\ RepairInv
  BY <1>1 DEF ReplayInv, LogInv, WrittenInv, RepairInv
<1> QED
  BY <1>1, <1>2, <1>3, <1>4, <1>5, <1>6, <1>7, <1>9, <1>10, <1>12, <1>13
     DEF Down, Shape, DownInv, Phases

(* Nothing happens. *)
LEMMA UpStutters ==
  ASSUME Up, UNCHANGED vars
  PROVE  Up'
<1>1. /\ disk' = disk /\ phase' = phase /\ opening' = opening /\ vset' = vset /\ db' = db
      /\ queue' = queue /\ thread' = thread /\ bg' = bg /\ reader' = reader /\ hist' = hist
      /\ awake' = awake
  BY DEF vars
<1>2. ThreadShape /\ QueueInv /\ DBShape /\ HistShape BY DEF Up, Shape, UpInv
<1>3. Calm BY <1>1 DEF Calm
<1>4. OwedKept BY <1>1 DEF OwedKept, Owed, OwedSynced, Answered
<1>5. WritersKept BY <1>1 DEF WritersKept
<1>6. QueueInv' BY <1>1, <1>2 DEF QueueInv
<1>7. ThreadShape' /\ DBShape' /\ HistShape' BY <1>1, <1>2 DEF ThreadShape, DBShape, HistShape
<1> QED BY <1>1, <1>3, <1>4, <1>5, <1>6, <1>7, CalmUp

(* The same while the database is not open. *)
LEMMA DownStutters ==
  ASSUME Down, UNCHANGED vars
  PROVE  Down'
<1>1. /\ disk' = disk /\ phase' = phase /\ opening' = opening /\ vset' = vset /\ db' = db
      /\ queue' = queue /\ thread' = thread /\ bg' = bg /\ reader' = reader /\ hist' = hist
      /\ awake' = awake
  BY DEF vars
<1>2. /\ DiskShape /\ VersionShape /\ OpeningShape /\ HistShape /\ Bounded /\ SequencesUnique
      /\ ManifestInv /\ DurableInv /\ ReplayInv /\ LogInv /\ WrittenInv /\ RepairInv
      /\ phase \in Phases \ {"up"}
  BY DEF Down, Shape, DownInv
<1>3. Unmoved /\ SameFiles /\ Current' = Current BY <1>1 DEF Unmoved, SameFiles, Current
<1>4. DiskShape' /\ VersionShape' /\ OpeningShape' /\ HistShape'
  BY <1>1, <1>2 DEF DiskShape, VersionShape, OpeningShape, HistShape
<1>5. Bounded' /\ SequencesUnique' BY <1>1, <1>2, <1>3, SameEntries
<1>6. /\ Scanned' = Scanned
      /\ \A n : LogData(n)' = LogData(n) /\ SafeLogData(n)' = SafeLogData(n)
      /\ \A S : Data(S)' = Data(S)
      /\ \A s : Complete(s)' = Complete(s) /\ Valid(s)' = Valid(s)
  BY <1>3, SameData
<1>7. ManifestInv'
  <2>1. hist.opened /\ ~hist.repaired => /\ phase' \notin {"newdb", "repair", "described"}
                                         /\ phase' = "corrupt" => Current.all = Nothing
    BY <1>1, <1>2 DEF ManifestInv
  <2> QED BY <2>1, <1>1, <1>2, <1>3, ManifestKept DEF SameStore, SameHist, HistStays
<1>8. DurableInv'
  <2>1. PICK m : m = Current OBVIOUS
  <2>2. m = Current' /\ Saids = m.left /\ Saids' = m.left /\ Archived' = Archived
    BY <1>1, <1>3, <2>1 DEF Saids, Archived
  <2>3. ASSUME NEW w, NEW s, NEW safe \in BOOLEAN, Survives(w, s, safe)
        PROVE  Survives(w, s, safe)'
    <3>1. SaidKept(s) /\ LogsStay BY <1>3, SameData
    <3> QED BY <2>3, <3>1, SurvivesKept
  <2>4. ASSUME NEW w, NEW s, NEW safe \in BOOLEAN, Kept(w, s, safe)
        PROVE  Kept(w, s, safe)'
    <3>1. /\ phase = "repair" => Survives(w, Nothing, safe)
          /\ w \in Archived \/ Survives(w, s, safe)
      BY <2>4 DEF Kept
    <3>2. /\ phase' = "repair" => Survives(w, Nothing, safe)'
          /\ w \in Archived' \/ Survives(w, s, safe)'
      BY <3>1, <2>2, <2>3, <1>1
    <3> QED BY <3>2 DEF Kept
  <2>5. /\ \A w \in hist'.acked \ hist'.lost : Kept(w, m.all, FALSE)
        /\ \A w \in hist'.synced \ hist'.lost : \A s \in m.left : Kept(w, s, TRUE)
    BY <1>1, <1>2, <2>1, <2>2 DEF DurableInv
  <2> QED BY <2>2, <2>4, <2>5 DEF DurableInv
<1>9. LogInv' BY <1>1, <1>2 DEF LogInv
<1>10. NewManifest' = NewManifest BY <1>1 DEF NewManifest, OpeningEdit
<1>11. WrittenInv'
  <2>1. PICK m : m = NewManifest OBVIOUS
  <2>2. m = NewManifest' BY <1>10, <2>1
  <2> QED BY <1>1, <1>2, <1>6, <2>1, <2>2 DEF WrittenInv
<1>12. ReplayInv' BY <1>1, <1>2, <1>3 DEF ReplayInv, LogData, Data, Scanned
<1>13. RepairInv' BY <1>1, <1>2 DEF RepairInv, Valid, Data, Scanned
<1> QED
  BY <1>1, <1>2, <1>3, <1>4, <1>5, <1>7, <1>8, <1>9, <1>11, <1>12, <1>13, UnmovedFacts
     DEF Down, Shape, DownInv, Phases

(* One action after the other, while the database is open ... *)
LEMMA UpStep ==
  ASSUME Up, Next
  PROVE  Up' \/ Down'
<1>1. phase = "up" /\ Stored BY StoredIs DEF Up
<1>2. ASSUME NEW t \in Threads, NEW sync \in BOOLEAN, Write(t, sync)
      PROVE  Up'
  BY <1>2, WriteStep
<1>3. ASSUME NEW t \in Threads, CompactRange(t)
      PROVE  Up'
  BY <1>3, CompactRangeStep
<1>4. ASSUME NEW t \in Threads, CallerStep(t)
      PROVE  Up'
  BY <1>4, ReturnStep, YieldErrorStep, DelayStep, HaveRoomStep, WaitForRoomStep,
     SwitchMemTableStep, SwitchFailsStep, AddRecordStep, SyncLogStep, FinishWriteStep,
     WaitForFlushStep, RunManualStep DEF CallerStep
<1>5. ASSUME NEW r \in Readers, Get(r) \/ EndGet(r)
      PROVE  Up'
  BY <1>5, GetStep, EndGetStep
<1>6. CASE BackgroundStep
  BY <1>6, ClosedStep, BackgroundNothingStep, CompactMemTableStep, BuildTableStep, FlushEditStep,
     AppendManifestStep, SyncManifestStep, InstallFlushStep, ManualDoneStep, TrivialMoveStep,
     DoCompactionWorkStep, OpenCompactionOutputFileStep, FinishCompactionOutputFileStep,
     AbandonCompactionStep, InstallCompactionResultsStep, FinishCompactionStep
     DEF BackgroundStep
<1>7. CASE OpenStep
  BY <1>1, <1>7 DEF OpenStep, NewDB, SetFirstCurrent, Recover, RecoverLogFile, NewLogFile,
     WriteManifest, SetCurrentFile, Opened, FindFiles, ConvertLogToTable, WriteDescriptor,
     InstallDescriptor, OpenFails
<1>8. CASE Close BY <1>8, CloseStep
<1>9. CASE Closed BY <1>9, ClosedStep
<1>10. CASE Kill BY <1>1, <1>10, KillStep
<1>11. CASE PowerLoss BY <1>1, <1>11, PowerLossStep
<1> QED BY <1>2, <1>3, <1>4, <1>5, <1>6, <1>7, <1>8, <1>9, <1>10, <1>11 DEF Next

(* ... and while it is not: who is not there does nothing. *)
LEMMA QuietCallers ==
  ASSUME Quiet, phase # "up", NEW t \in Threads
  PROVE  /\ ~CallerStep(t) /\ ~CompactRange(t)
         /\ \A sync \in BOOLEAN : ~Write(t, sync)
<1>1. queue = <<>> /\ awake = {} /\ thread[t].pc = "idle" BY DEF Quiet, Idle
<1>2. ~AtFront(t) BY <1>1 DEF AtFront
<1> QED
  BY <1>1, <1>2 DEF CallerStep, CompactRange, Write, Enqueue, Return, YieldError, Delay, HaveRoom,
     WaitForRoom, SwitchMemTable, SwitchFails, AddRecord, SyncLog, FinishWrite, WaitForFlush,
     RunManual

(* Neither does the background thread, nor a reader. *)
LEMMA QuietBackground ==
  ASSUME Quiet, phase # "up"
  PROVE  ~BackgroundStep /\ ~Close /\ ~Closed /\ \A r \in Readers : ~Get(r) /\ ~EndGet(r)
<1>1. bg.pc = "idle" /\ ~db.closing /\ \A r \in Readers : reader[r].pc = "idle"
  BY DEF Quiet, Resting, EmptyDB, Ready
<1>2. ~Dispatch /\ ~MayCompact BY DEF Dispatch, MayCompact
<1>3. ~BackgroundStep
  BY <1>1, <1>2 DEF BackgroundStep, BackgroundNothing, CompactMemTable, BuildTable, FlushEdit,
     AppendManifest, SyncManifest, InstallFlush, ManualDone, TrivialMove, DoCompactionWork,
     OpenCompactionOutputFile, FinishCompactionOutputFile, AbandonCompaction,
     InstallCompactionResults, FinishCompaction, DereferenceNull
<1>4. ~Close /\ ~Closed BY <1>1 DEF Close, Closed
<1>5. \A r \in Readers : ~Get(r) /\ ~EndGet(r) BY <1>1 DEF Get, EndGet
<1> QED BY <1>3, <1>4, <1>5

(* So only opening, repairing and crashing are left. *)
LEMMA DownStep ==
  ASSUME Down, Next
  PROVE  Up' \/ Down'
<1>1. phase # "up" /\ Quiet /\ Stored BY StoredIs DEF Down, DownInv
<1>2. OpenStep \/ Kill \/ PowerLoss BY <1>1, QuietCallers, QuietBackground DEF Next
<1>3. CASE OpenStep
  BY <1>3, NewDBStep, SetFirstCurrentStep, RecoverStep, RecoverLogFileStep, NewLogFileStep,
     WriteManifestStep, SetCurrentFileStep, OpenedStep, FindFilesStep, ConvertLogToTableStep,
     WriteDescriptorStep, InstallDescriptorStep, OpenFailsStep DEF OpenStep
<1>4. CASE Kill BY <1>1, <1>4, KillStep
<1>5. CASE PowerLoss BY <1>1, <1>5, PowerLossStep
<1> QED BY <1>2, <1>3, <1>4, <1>5

(* The invariant is inductive, and so holds of every behaviour. *)
THEOREM Invariant == Spec => []IInv
<1>1. Init => IInv BY InitInv DEF IInv
<1>2. IInv /\ [Next]_vars => IInv' BY UpStep, DownStep, UpStutters, DownStutters DEF IInv
<1> QED BY <1>1, <1>2, PTL DEF Spec
-----------------------------------------------------------------------------
(* What follows from it *)

(* What survives is recovered: the two say the same of the files. *)
LEMMA SurvivesRecovered ==
  ASSUME NEW w, NEW s, NEW safe \in BOOLEAN, Survives(w, s, safe), NEW cut,
         \A n \in DOMAIN disk.logs : ReadLog(disk.logs[n], cut[n]) = Entered(n, safe)
  PROVE  w \in Recovered(s, cut)
<1>1. CASE Complete(s)
  <2>1. Recovered(s, cut) =
          Writes(Data(DOMAIN s.files) \cup
                   UNION {ReadLog(disk.logs[n], cut[n]) :
                            n \in {k \in DOMAIN disk.logs : k >= s.log}})
    BY <1>1 DEF Recovered
  <2>2. CASE w \in Writes(Data(DOMAIN s.files)) BY <2>1, <2>2 DEF Writes
  <2>3. CASE \E n \in DOMAIN disk.logs : n >= s.log /\ w \in Writes(Entered(n, safe))
    BY <2>1, <2>3 DEF Writes
  <2> QED BY <1>1, <2>2, <2>3 DEF Survives
<1>2. CASE ~Complete(s)
  <2>1. Recovered(s, cut) =
          Writes(Data(DOMAIN disk.tables) \cup
                   UNION {ReadLog(disk.logs[n], cut[n]) : n \in DOMAIN disk.logs})
    BY <1>2 DEF Recovered
  <2>2. CASE w \in Writes(Data(DOMAIN disk.tables)) BY <2>1, <2>2 DEF Writes
  <2>3. CASE \E n \in DOMAIN disk.logs : w \in Writes(Entered(n, safe)) BY <2>1, <2>3 DEF Writes
  <2> QED BY <1>2, <2>2, <2>3 DEF Survives
<1> QED BY <1>1, <1>2

(* What survives is recovered, whatever is cut from the logs. *)
LEMMA StoredRecoverable ==
  ASSUME Stored
  PROVE  AckedRecoverable /\ SyncedDurable /\ Reopens
<1>1. DurableInv /\ ManifestInv BY DEF Stored
<1>5. ASSUME NEW w, NEW s, NEW safe, Kept(w, s, safe)
      PROVE  Survives(w, IF phase = "repair" THEN Nothing ELSE s, safe)
  BY <1>5, KeptIs DEF Kept
<1>6. Current.all \in Current.left BY CurrentShape DEF Stored, IsManifest
<1>2. AckedRecoverable
  <2>1. PICK m, cut : /\ m = IF phase = "repair" THEN Nothing ELSE Current.all
                      /\ cut = [n \in DOMAIN disk.logs |-> Len(disk.logs[n].recs)]
    OBVIOUS
  <2>2. \A n \in DOMAIN disk.logs : ReadLog(disk.logs[n], cut[n]) = Entered(n, FALSE)
    BY <2>1 DEF Entered, LogData
  <2>3. ASSUME NEW w \in hist.acked \ hist.lost
        PROVE  w \in Recovered(m, cut)
    <3>1. Kept(w, Current.all, FALSE) BY <1>1 DEF DurableInv
    <3>2. Survives(w, m, FALSE) BY <3>1, <1>5, <2>1
    <3> QED BY <3>2, <2>2, SurvivesRecovered
  <2> QED BY <2>1, <2>3 DEF AckedRecoverable
<1>3. SyncedDurable
  <2>1. PICK cut : cut = [n \in DOMAIN disk.logs |-> disk.logs[n].synced] OBVIOUS
  <2>2. \A n \in DOMAIN disk.logs : ReadLog(disk.logs[n], cut[n]) = Entered(n, TRUE)
    BY <2>1 DEF Entered, SafeLogData
  <2>3. ASSUME NEW m \in IF phase = "repair" THEN {Nothing} ELSE Current.left,
               NEW w \in hist.synced \ hist.lost
        PROVE  w \in Recovered(m, cut)
    <3>1. PICK s \in Current.left : m = IF phase = "repair" THEN Nothing ELSE s BY <1>6
    <3>2. Kept(w, s, TRUE) BY <1>1, <3>1 DEF DurableInv, Saids
    <3>3. Survives(w, m, TRUE) BY <3>1, <3>2, <1>5
    <3> QED BY <3>3, <2>2, SurvivesRecovered
  <2> QED BY <2>1, <2>3 DEF SyncedDurable
<1>4. Reopens BY <1>1 DEF ManifestInv, Reopens
<1> QED BY <1>2, <1>3, <1>4

(* The type invariant. *)
LEMMA TypeIs ==
  ASSUME IInv
  PROVE  TypeOK
<1>1. /\ phase \in Phases /\ VersionShape /\ ThreadShape /\ DBShape
      /\ phase = "up" => NumbersInv
  BY DEF IInv, Up, Down, Shape, UpInv, Phases
<1>2. vset.files \in [DOMAIN vset.files -> {0, 1}] BY <1>1 DEF VersionShape, IsFiles
<1>3. \A t \in Threads : thread[t].group \in Seq(Threads) BY <1>1 DEF ThreadShape
<1>4. ToSet(queue) \cup awake \subseteq Threads BY <1>1 DEF ThreadShape, ToSet
<1>5. phase = "up" => /\ db.log \in DOMAIN disk.logs
                      /\ {db.log, db.imm} \ {0} \subseteq DOMAIN db.memtables
  <2> SUFFICES ASSUME phase = "up" PROVE db.log \in DOMAIN disk.logs
                                         /\ {db.log, db.imm} \ {0} \subseteq DOMAIN db.memtables
    OBVIOUS
  <2>1. InMem \subseteq DOMAIN disk.logs \cap DOMAIN db.memtables /\ 0 < db.log /\ db.log \in Nat
    BY <1>1 DEF NumbersInv, DBShape
  <2>2. db.log \in InMem BY <2>1 DEF InMem
  <2> QED BY <2>1, <2>2 DEF InMem
<1> QED BY <1>1, <1>2, <1>3, <1>4, <1>5 DEF TypeOK, Phases

(* What a writer was told is kept (PromisesKept), but for the writes that *)
(* the code loses, hist.lost (AckedRecoverable says which): an *)
(* acknowledged write is in the tables of the manifest or in a log that it *)
(* does not rule out, at every step of writing, flushing, compacting, *)
(* deleting files and opening, and while RepairDB runs in some table or *)
(* log, with a crash or a failed operation at any of them; a synced one *)
(* also when what was not synced is gone; the database opens again, but *)
(* for a manifest with a record behind part of one (Reopens); sequence *)
(* numbers are unique. *)
THEOREM Promises == Spec => []PromisesKept
<1>1. IInv => PromisesKept
  <2> SUFFICES ASSUME IInv PROVE PromisesKept OBVIOUS
  <2>1. Stored /\ SequencesUnique BY StoredIs DEF IInv, Stored
  <2> QED BY <2>1, TypeIs, StoredRecoverable DEF PromisesKept
<1> QED BY <1>1, Invariant, PTL

(* A reader sees what was acknowledged before it began, but for hist.lost, *)
(* though the memtable is switched, flushed and compacted meanwhile, and *)
(* what it refers to stays (Get, DeleteObsoleteFiles). *)
THEOREM Reads == Spec => []ReadsComplete
<1>1. IInv => ReadsComplete
  <2> SUFFICES ASSUME IInv, NEW r \in Readers, reader[r].pc = "reading"
               PROVE  /\ DOMAIN reader[r].files \subseteq {n \in DOMAIN disk.tables : disk.tables[n].whole}
                      /\ {reader[r].mem, reader[r].imm} \ {0} \subseteq DOMAIN db.memtables
                      /\ reader[r].expect \ hist.lost \subseteq
                           Writes({f \in Found(r) : f[1] <= reader[r].snap})
    BY DEF ReadsComplete
  <2>1. Up BY DEF IInv, Down, DownInv, Quiet, Ready
  <2>2. /\ DOMAIN reader[r].files \subseteq Scanned
        /\ {reader[r].mem, reader[r].imm} \ {0} \subseteq DOMAIN db.memtables
        /\ \A w \in reader[r].expect \ hist.lost :
             \E e \in Found(r) : e[1] <= reader[r].snap /\ e[2] = w
    BY <2>1 DEF Up, UpInv, ReaderInv
  <2> QED BY <2>2 DEF Scanned, Writes
<1> QED BY <1>1, Invariant, PTL
===============================================================================
