--------------------------- MODULE MediaStoreProofs ---------------------------
(***************************************************************************)
(* Theorems about MediaStore, for any number of clients, notepads, items,  *)
(* followers and kills: type correctness, that a listed item has its       *)
(* record, that a removed item stays away, that the store implements       *)
(* MediaContract, that the journal is never behind the lists and that the  *)
(* news of a feed lead somewhere.  For a single notepad, with any number   *)
(* of items: no body outlives its thread on its list, and no edit leaves a *)
(* part of a record behind.                                                *)
(*                                                                         *)
(* The argument of the second half: what a notepad writes at once begins   *)
(* with the journal item, or follows one it wrote before, and names its    *)
(* item's own paths only (StepSays); a queue is delivered in order and cut *)
(* off as a whole, so what is ahead of a write is never lost without it.   *)
(* A single notepad sees every write there is: what it finds on a list     *)
(* stands, and what it does not find leaves the list before anything it    *)
(* writes next.                                                            *)
(***************************************************************************)
EXTENDS MediaStore, BackendTheorems

-----------------------------------------------------------------------------
(* The inductive invariant.                                                *)

(* What a notepad holds fits what it is doing.                             *)
SlotFits(r) ==
  /\ r.act = "none" <=> r.step = "closed"
  /\ r.on = NoMedia <=> r.step = "closed" \/ (r.step = "open" /\ r.act = "add")
  /\ r.step = "open" => r.act \in {"add", "update"}
  /\ r.step = "upload" => r.act = "add"
  /\ r.step \in {"checkBodies", "checkPhotos", "checkAudio", "checkFilm"} => r.act = "remove"

SlotsFit == \A c \in Clients, s \in Slots : SlotFits(slot[c][s])

(* Nothing was ever written of the record or the index entry of m.         *)
Untouched(m) ==
  /\ m \notin gone /\ Record(m) \notin db /\ Index(m) \notin db
  /\ \A c \in Clients : ~Mentions(queue[c], Record(m)) /\ ~Mentions(queue[c], Index(m))

(* An id that was not taken is nowhere to be found.                        *)
FreshIds == \A m \in Media : m \notin used =>
  /\ Untouched(m)
  /\ \A c \in Clients, s \in Slots : slot[c][s].on # m

(* An item that is being added is in one notepad only.                     *)
AddedOnce == \A m \in Media, c \in Clients, s \in Slots :
  slot[c][s].on = m /\ slot[c][s].act = "add" =>
    /\ Untouched(m)
    /\ \A d \in Clients, t \in Slots : slot[d][t].on = m => d = c /\ t = s

(* An index entry on its way is known to its own client alone, has its     *)
(* record before it and no removal ahead of it.                            *)
OnItsWay == \A m \in Media, c \in Clients : \A i \in DOMAIN queue[c] :
  queue[c][i] = SetValue(Index(m)) =>
    /\ m \notin gone /\ Index(m) \notin db
    /\ \A d \in Clients \ {c} :
         /\ ~Mentions(queue[d], Record(m)) /\ ~Mentions(queue[d], Index(m))
         /\ \A s \in Slots : slot[d][s].on # m
    /\ \A j \in DOMAIN queue[c] :
         queue[c][j] \in {SetValue(Index(m)), RemoveValue(Index(m)), RemoveValue(Record(m))}
           => j >= i
    /\ \/ Record(m) \in db
       \/ \E j \in DOMAIN queue[c] : j < i /\ queue[c][j] = SetValue(Record(m))

(* A record is removed after its index entry.                              *)
IndexFirst == \A m \in Media, c \in Clients : \A i \in DOMAIN queue[c] :
  queue[c][i] = RemoveValue(Record(m)) =>
    \/ m \in gone
    \/ \E j \in DOMAIN queue[c] : j < i /\ queue[c][j] = RemoveValue(Index(m))

StoreInv == /\ FreshIds /\ AddedOnce /\ OnItsWay /\ IndexFirst
            /\ IndexBacked /\ StaysGone
-----------------------------------------------------------------------------
(* Paths and writes.                                                       *)

LEMMA PathsTyped ==
  ASSUME NEW m \in Media
  PROVE  /\ Record(m) \in Path /\ Fields(m) \in Path /\ Index(m) \in Path
         /\ \A a \in Acts : Journal(Owner, a, m) \in Path
         /\ \A a \in Acts, u \in Readers : Feed(u, a, m) \in Path
  BY DEF Path

LEMMA PathsDiffer ==
  ASSUME NEW m \in Media, NEW n \in Media
  PROVE  /\ Record(m) = Record(n) => m = n
         /\ Index(m) = Index(n) => m = n
         /\ Record(m) # Index(n)
         /\ Fields(m) # Record(n) /\ Fields(m) # Index(n)
         /\ \A u, a : /\ Journal(u, a, m) # Record(n) /\ Journal(u, a, m) # Index(n)
                      /\ Feed(u, a, m) # Record(n) /\ Feed(u, a, m) # Index(n)
<1>1. /\ Collection(m) \in {"Thread_", "Body", "Photo"}
      /\ Collection(n) \in {"Thread_", "Body", "Photo"}
      /\ ListOf(n) \in {"Threads", "Bodies", "Photos"}
  BY DEF Collection, ListOf
<1>2. QED
  BY <1>1 DEF Record, Fields, Index, Journal, Feed

LEMMA WritesDiffer ==
  ASSUME NEW p, NEW q
  PROVE  /\ SetValue(p).path = p /\ RemoveValue(p).path = p
         /\ SetValue(p).to = TRUE /\ RemoveValue(p).to = FALSE
         /\ SetValue(p) # RemoveValue(q)
         /\ SetValue(p) = SetValue(q) => p = q
         /\ RemoveValue(p) = RemoveValue(q) => p = q
<1>1. /\ SetValue(p).path = p /\ RemoveValue(p).path = p
      /\ SetValue(p).to = TRUE /\ RemoveValue(p).to = FALSE
      /\ SetValue(q).path = q /\ RemoveValue(q).path = q
      /\ RemoveValue(q).to = FALSE
  BY DEF SetValue, RemoveValue
<1>2. QED
  BY <1>1

LEMMA IssuedIsMentioned ==
  ASSUME NEW q, NEW p, NEW i \in DOMAIN q, q[i] \in {SetValue(p), RemoveValue(p)}
  PROVE  Mentions(q, p)
  BY WritesDiffer DEF Mentions

(* Writes that leave records and index entries alone.                      *)
Quiet(ws) == /\ ws \in Seq(Writes(Path))
             /\ \A i \in DOMAIN ws, m \in Media :
                  ws[i].path # Record(m) /\ ws[i].path # Index(m)

LEMMA QuietAppend ==
  ASSUME NEW v, NEW w, Quiet(v), Quiet(w)
  PROVE  Quiet(v \o w)
<1>1. v \in Seq(Writes(Path)) /\ w \in Seq(Writes(Path))
  BY DEF Quiet
<1>2. v \o w \in Seq(Writes(Path))
  BY <1>1
<1>3. ASSUME NEW i \in DOMAIN (v \o w), NEW m \in Media
      PROVE  (v \o w)[i].path # Record(m) /\ (v \o w)[i].path # Index(m)
  BY <1>1, AppendPositions DEF Quiet
<1>4. QED
  BY <1>2, <1>3 DEF Quiet

LEMMA OneQuiet ==
  ASSUME NEW p \in Path, \A m \in Media : p # Record(m) /\ p # Index(m)
  PROVE  Quiet(<<SetValue(p)>>)
<1> DEFINE w == SetValue(p)
<1>1. w \in Writes(Path) /\ w.path = p
  BY WritesDiffer DEF SetValue, Writes
<1> HIDE DEF w
<1>2. Quiet(<<w>>)
  BY <1>1 DEF Quiet
<1>3. QED
  BY <1>2 DEF w

LEMMA NewsIsQuiet ==
  ASSUME NEW m \in Media, NEW a \in Acts
  PROVE  /\ Quiet(<<>>) /\ Quiet(<<SetValue(Fields(m))>>)
         /\ Quiet(JournalWrites(a, m))
         /\ \A ws \in UpdateWrites(m) : Quiet(ws)
         /\ \A fs \in Seq(Followers) : Quiet(FeedWrites(a, m, fs))
<1>1. Quiet(<<>>)
  BY DEF Quiet
<1>2. Quiet(<<SetValue(Fields(m))>>)
  BY PathsTyped, PathsDiffer, OneQuiet
<1>3. Quiet(JournalWrites(a, m))
  BY PathsTyped, PathsDiffer, OneQuiet DEF JournalWrites
<1>4. ASSUME NEW ws \in UpdateWrites(m) PROVE Quiet(ws)
  BY <1>1, <1>2 DEF UpdateWrites
<1>5. ASSUME NEW fs \in Seq(Followers) PROVE Quiet(FeedWrites(a, m, fs))
  <2> DEFINE gs == [i \in DOMAIN fs |-> SetValue(Feed(fs[i], a, m))]
  <2>1. Quiet(<<SetValue(Feed(Owner, a, m))>>)
    BY PathsTyped, PathsDiffer, OneQuiet DEF Readers
  <2>2. ASSUME NEW i \in DOMAIN fs
        PROVE  /\ gs[i] \in Writes(Path)
               /\ \A n \in Media : gs[i].path # Record(n) /\ gs[i].path # Index(n)
    <3>1. fs[i] \in Readers
      BY DEF Readers
    <3>2. /\ Feed(fs[i], a, m) \in Path
          /\ \A n \in Media : Feed(fs[i], a, m) # Record(n) /\ Feed(fs[i], a, m) # Index(n)
      BY <3>1, PathsTyped, PathsDiffer
    <3>3. SetValue(Feed(fs[i], a, m)) \in Writes(Path)
      BY <3>2 DEF SetValue, Writes
    <3>4. QED
      BY <3>2, <3>3, WritesDiffer
  <2>3. DOMAIN gs = 1 .. Len(fs) /\ DOMAIN fs = 1 .. Len(fs) /\ Len(fs) \in Nat
    OBVIOUS
  <2> HIDE DEF gs
  <2>4. gs \in Seq(Writes(Path))
    <3>1. gs \in [1 .. Len(fs) -> Writes(Path)]
      BY <2>2, <2>3 DEF gs
    <3>2. QED
      BY <2>3, <3>1
  <2>5. Quiet(gs)
    BY <2>2, <2>3, <2>4 DEF Quiet
  <2>6. QED
    BY <2>1, <2>5, QuietAppend DEF FeedWrites, gs
<1>6. QED
  BY <1>1, <1>2, <1>3, <1>4, <1>5

LEMMA AddRemoveTyped ==
  ASSUME NEW m \in Media
  PROVE  AddWrites(m) \in Seq(Writes(Path)) /\ RemoveWrites(m) \in Seq(Writes(Path))
<1>1. /\ SetValue(Record(m)) \in Writes(Path) /\ SetValue(Index(m)) \in Writes(Path)
      /\ RemoveValue(Record(m)) \in Writes(Path) /\ RemoveValue(Index(m)) \in Writes(Path)
  BY PathsTyped DEF SetValue, RemoveValue, Writes
<1>2. QED
  BY <1>1 DEF AddWrites, RemoveWrites
-----------------------------------------------------------------------------
(* Type correctness.                                                       *)

TypeInv == TypeOK /\ SlotsFit

(* The steps at which an act can be.                                       *)
StepFits(step, act) ==
  /\ step \in Steps \ {"open", "closed"} /\ act \in Acts
  /\ step = "upload" => act = "add"
  /\ step \in {"checkBodies", "checkPhotos", "checkAudio", "checkFilm"} => act = "remove"

GoodSlot(r) == r \in Slot /\ SlotFits(r)

LEMMA GoodSlots ==
  /\ GoodSlot(Closed)
  /\ \A t \in Threads \union {NoMedia} : GoodSlot(Empty(t))
  /\ \A m \in Media : GoodSlot(Editing(m))
  /\ \A m \in Media, v \in BOOLEAN : \A step, act :
       StepFits(step, act) => GoodSlot(Working(step, act, m, v))
  /\ \A m \in Media, act \in Acts : GoodSlot(BackTo(m, act))
<1>1. GoodSlot(Closed)
  BY DEF GoodSlot, Closed, Slot, Steps, SlotFits
<1>2. ASSUME NEW t \in Threads \union {NoMedia} PROVE GoodSlot(Empty(t))
  BY <1>2 DEF GoodSlot, Empty, Slot, Steps, Acts, SlotFits
<1>3. ASSUME NEW m \in Media PROVE GoodSlot(Editing(m))
  BY MediaAssumption DEF GoodSlot, Editing, Slot, Steps, Acts, SlotFits
<1>4. ASSUME NEW m \in Media, NEW v \in BOOLEAN, NEW step, NEW act, StepFits(step, act)
      PROVE  GoodSlot(Working(step, act, m, v))
  BY <1>4, MediaAssumption DEF GoodSlot, Working, Slot, Steps, Acts, SlotFits, StepFits
<1>5. ASSUME NEW m \in Media, NEW act \in Acts PROVE GoodSlot(BackTo(m, act))
  <2>1. m \notin Threads => Parent[m] \in Threads
    BY MediaAssumption DEF Media
  <2>2. QED
    BY <1>2, <1>3, <2>1 DEF BackTo
<1>6. QED
  BY <1>1, <1>2, <1>3, <1>4, <1>5

LEMMA SlotsGood ==
  ASSUME TypeInv, NEW c \in Clients, NEW s \in Slots
  PROVE  /\ slot[c][s] \in Slot /\ SlotFits(slot[c][s])
         /\ slot[c][s].step \notin {"open", "closed"} =>
              slot[c][s].on \in Media /\ slot[c][s].act \in Acts
         /\ slot[c][s].act \in {"update", "remove"} => slot[c][s].on \in Media
         /\ slot[c][s].visible \in BOOLEAN
<1>1. slot[c][s] \in Slot /\ SlotFits(slot[c][s])
  BY DEF TypeInv, TypeOK, SlotsFit
<1>2. QED
  BY <1>1 DEF Slot, SlotFits, Acts

LEMMA PutGood ==
  ASSUME TypeInv, NEW c \in Clients, NEW s \in Slots, NEW r, GoodSlot(r), Put(c, s, r)
  PROVE  /\ slot' \in [Clients -> [Slots -> Slot]] /\ SlotsFit'
         /\ \A d \in Clients, t \in Slots :
              slot'[d][t] = IF d = c /\ t = s THEN r ELSE slot[d][t]
<1>1. slot \in [Clients -> [Slots -> Slot]] /\ r \in Slot
  BY DEF TypeInv, TypeOK, GoodSlot
<1>2. slot' \in [Clients -> [Slots -> Slot]]
  BY <1>1 DEF Put
<1>3. \A d \in Clients, t \in Slots :
        slot'[d][t] = IF d = c /\ t = s THEN r ELSE slot[d][t]
  BY <1>1 DEF Put
<1>4. SlotsFit'
  BY <1>3 DEF SlotsFit, TypeInv, GoodSlot
<1>5. QED
  BY <1>2, <1>3, <1>4

(* The record a step puts into slot s of c; the other slots stay.          *)
Puts(c, s, r) == GoodSlot(r) /\ Put(c, s, r)

LEMMA ReturnPuts ==
  ASSUME TypeInv, NEW c \in Clients, NEW s \in Slots, Return(c, s),
         slot[c][s].step \notin {"open", "closed"}
  PROVE  Puts(c, s, BackTo(slot[c][s].on, slot[c][s].act))
  BY SlotsGood, GoodSlots DEF Return, Puts

LEMMA IssueTyped ==
  ASSUME TypeInv, NEW c \in Clients, NEW ws \in Seq(Writes(Path)), Issue(c, ws)
  PROVE  /\ queue' \in [Clients -> Seq(Writes(Path))] /\ db' = db
         /\ queue'[c] = queue[c] \o ws
         /\ \A d \in Clients \ {c} : queue'[d] = queue[d]
<1>1. queue \in [Clients -> Seq(Writes(Path))]
  BY DEF TypeInv, TypeOK
<1>2. queue[c] \o ws \in Seq(Writes(Path))
  BY <1>1
<1>3. QED
  BY <1>1, <1>2 DEF Issue

(* What every step of a notepad puts into it, and what it writes.          *)
LEMMA TapSteps ==
  ASSUME TypeInv, NEW c \in Clients, NEW s \in Slots
  PROVE  /\ \A t \in Threads \union {NoMedia} : OpenEmpty(c, s, t) => Puts(c, s, Empty(t))
         /\ \A m \in Media : OpenItem(c, s, m) => Puts(c, s, Editing(m))
         /\ Close(c, s) => Puts(c, s, Closed)
         /\ \A m \in Media, v \in BOOLEAN : SaveNew(c, s, m, v) =>
              Puts(c, s, Working(IF m \in Photos THEN "upload" ELSE "journal", "add", m, v))
         /\ \A v \in BOOLEAN : SaveItem(c, s, v) =>
              \E step \in {"journal", "unanswered"} :
                 Puts(c, s, Working(step, "update", slot[c][s].on, v))
         /\ Trash(c, s) =>
              \E step : Puts(c, s, Working(step, "remove", slot[c][s].on, FALSE))
<1>1. ASSUME NEW t \in Threads \union {NoMedia}, OpenEmpty(c, s, t)
      PROVE  Puts(c, s, Empty(t))
  BY <1>1, GoodSlots DEF OpenEmpty, Puts
<1>2. ASSUME NEW m \in Media, OpenItem(c, s, m) PROVE Puts(c, s, Editing(m))
  BY <1>2, GoodSlots DEF OpenItem, Puts
<1>3. ASSUME Close(c, s) PROVE Puts(c, s, Closed)
  BY <1>3, GoodSlots DEF Close, Puts
<1>4. ASSUME NEW m \in Media, NEW v \in BOOLEAN, SaveNew(c, s, m, v)
      PROVE  Puts(c, s, Working(IF m \in Photos THEN "upload" ELSE "journal", "add", m, v))
  <2>1. StepFits(IF m \in Photos THEN "upload" ELSE "journal", "add")
    BY DEF StepFits, Steps, Acts
  <2>2. QED
    BY <1>4, <2>1, GoodSlots DEF SaveNew, Puts
<1>5. ASSUME NEW v \in BOOLEAN, SaveItem(c, s, v)
      PROVE  \E step \in {"journal", "unanswered"} :
               Puts(c, s, Working(step, "update", slot[c][s].on, v))
  <2>1. PICK step \in {"journal", "unanswered"} :
          Put(c, s, Working(step, "update", slot[c][s].on, v))
    BY <1>5 DEF SaveItem
  <2>2. StepFits(step, "update") /\ slot[c][s].on \in Media
    BY <1>5, SlotsGood DEF StepFits, Steps, Acts, SaveItem, OnItem
  <2>3. QED
    BY <1>5, <2>1, <2>2, GoodSlots DEF Puts
<1>6. ASSUME Trash(c, s)
      PROVE  \E step : Puts(c, s, Working(step, "remove", slot[c][s].on, FALSE))
  <2> DEFINE step == IF slot[c][s].on \in Threads THEN "checkBodies" ELSE "journal"
  <2>1. StepFits(step, "remove") /\ slot[c][s].on \in Media
    BY <1>6, SlotsGood DEF StepFits, Steps, Acts, Trash, OnItem
  <2>2. Put(c, s, Working(step, "remove", slot[c][s].on, FALSE))
    BY <1>6 DEF Trash, OnItem
  <2> HIDE DEF step
  <2>3. QED
    BY <2>1, <2>2, GoodSlots DEF Puts
<1>7. QED
  BY <1>1, <1>2, <1>3, <1>4, <1>5, <1>6

LEMMA AnswerSteps ==
  ASSUME TypeInv, NEW c \in Clients, NEW s \in Slots
  PROVE  /\ UploadEnds(c, s) =>
              \/ Puts(c, s, Working("journal", "add", slot[c][s].on, slot[c][s].visible))
              \/ Puts(c, s, BackTo(slot[c][s].on, slot[c][s].act))
         /\ CheckThread(c, s) =>
              /\ slot[c][s].act = "remove"
              /\ \/ \E step : Puts(c, s, Working(step, "remove", slot[c][s].on, FALSE))
                 \/ Puts(c, s, BackTo(slot[c][s].on, slot[c][s].act))
         /\ Journaled(c, s) => Puts(c, s, Working("feed", slot[c][s].act, slot[c][s].on,
                                                  slot[c][s].visible))
         /\ Remove(c, s) => Puts(c, s, Closed) /\ slot[c][s].on \in Media
         /\ Add(c, s) \/ Update(c, s) \/ UpdateFails(c, s) =>
              Puts(c, s, BackTo(slot[c][s].on, slot[c][s].act)) /\ slot[c][s].on \in Media
<1> DEFINE r == slot[c][s]
<1>0. /\ SlotFits(r) /\ r.visible \in BOOLEAN
      /\ r.step \notin {"open", "closed"} => r.on \in Media /\ r.act \in Acts
  BY SlotsGood
<1>1. ASSUME UploadEnds(c, s)
      PROVE  \/ Puts(c, s, Working("journal", "add", r.on, r.visible))
             \/ Puts(c, s, BackTo(r.on, r.act))
  <2>1. StepFits("journal", "add")
    BY DEF StepFits, Steps, Acts
  <2>2. QED
    BY <1>0, <1>1, <2>1, GoodSlots, ReturnPuts DEF UploadEnds, Puts
<1>2. ASSUME CheckThread(c, s)
      PROVE  /\ r.act = "remove"
             /\ \/ \E step : Puts(c, s, Working(step, "remove", r.on, FALSE))
                \/ Puts(c, s, BackTo(r.on, r.act))
  <2>1. PICK step, list, next :
          /\ step \in {"checkBodies", "checkPhotos", "checkAudio", "checkFilm"}
          /\ next \in {"checkPhotos", "checkAudio", "checkFilm", "journal"}
          /\ Check(c, s, step, list, next)
    BY <1>2 DEF CheckThread
  <2>2. r.step = step /\ r.act = "remove" /\ r.on \in Media
    BY <1>0, <2>1 DEF Check, SlotFits
  <2>3. StepFits(next, "remove")
    BY <2>1 DEF StepFits, Steps, Acts
  <2>4. Return(c, s) => Puts(c, s, BackTo(r.on, r.act))
    BY <2>1, <2>2, ReturnPuts
  <2>5. Put(c, s, Working(next, "remove", r.on, FALSE))
          => Puts(c, s, Working(next, "remove", r.on, FALSE))
    BY <2>2, <2>3, GoodSlots DEF Puts
  <2>6. QED
    BY <2>1, <2>2, <2>4, <2>5 DEF Check
<1>3. ASSUME Journaled(c, s)
      PROVE  Puts(c, s, Working("feed", r.act, r.on, r.visible))
  <2>1. StepFits("feed", r.act)
    BY <1>0, <1>3 DEF StepFits, Steps, Acts, Journaled
  <2>2. QED
    BY <1>0, <1>3, <2>1, GoodSlots DEF Journaled, Puts
<1>4. ASSUME Remove(c, s) PROVE Puts(c, s, Closed) /\ r.on \in Media
  BY <1>0, <1>4, GoodSlots DEF Remove, Puts
<1>5. ASSUME Add(c, s) \/ Update(c, s) \/ UpdateFails(c, s)
      PROVE  Puts(c, s, BackTo(r.on, r.act)) /\ r.on \in Media
  <2>1. r.step \in {"journal", "feed"} /\ Return(c, s)
    BY <1>5 DEF Add, Update, UpdateFails, Announces
  <2>2. QED
    BY <1>0, <2>1, ReturnPuts
<1>6. QED
  BY <1>1, <1>2, <1>3, <1>4, <1>5

(* A step that changes neither the bounds nor what has happened, except    *)
(* within their types, is well typed if its slots and writes are.          *)
LEMMA UserStepTyped ==
  ASSUME TypeInv, NEW c \in Clients, NEW s \in Slots, UserStep(c, s)
  PROVE  TypeInv'
<1> USE DEF backendVars, ghostVars
<1>0. ASSUME NEW r, Puts(c, s, r)
      PROVE  slot' \in [Clients -> [Slots -> Slot]] /\ SlotsFit'
  BY <1>0, PutGood DEF Puts
<1>1. ASSUME NEW t \in Threads \union {NoMedia}, OpenEmpty(c, s, t) PROVE TypeInv'
  <2>1. slot' \in [Clients -> [Slots -> Slot]] /\ SlotsFit'
    BY <1>0, <1>1, TapSteps
  <2>2. QED
    BY <1>1, <2>1 DEF TypeInv, TypeOK, OpenEmpty
<1>2. ASSUME NEW m \in Media, OpenItem(c, s, m) PROVE TypeInv'
  <2>1. slot' \in [Clients -> [Slots -> Slot]] /\ SlotsFit'
    BY <1>0, <1>2, TapSteps
  <2>2. QED
    BY <1>2, <2>1 DEF TypeInv, TypeOK, OpenItem
<1>3. CASE Close(c, s)
  <2>1. slot' \in [Clients -> [Slots -> Slot]] /\ SlotsFit'
    BY <1>0, <1>3, TapSteps
  <2>2. QED
    BY <1>3, <2>1 DEF TypeInv, TypeOK, Close
<1>4. ASSUME Tap(c) PROVE taps' \in [Clients -> 0 .. MaxTaps]
  BY <1>4, MediaAssumption DEF Tap, TypeInv, TypeOK
<1>5. ASSUME NEW m \in Media, NEW v \in BOOLEAN, SaveNew(c, s, m, v) PROVE TypeInv'
  <2>1. slot' \in [Clients -> [Slots -> Slot]] /\ SlotsFit'
    BY <1>0, <1>5, TapSteps
  <2>2. QED
    BY <1>4, <1>5, <2>1 DEF TypeInv, TypeOK, SaveNew
<1>6. ASSUME NEW v \in BOOLEAN, SaveItem(c, s, v) PROVE TypeInv'
  <2>1. slot' \in [Clients -> [Slots -> Slot]] /\ SlotsFit'
    BY <1>0, <1>6, TapSteps DEF TypeInv, TypeOK, SlotsFit
  <2>2. slot[c][s].on \in Media
    BY <1>6, SlotsGood DEF SaveItem, OnItem
  <2>3. <<SetValue(Fields(slot[c][s].on))>> \in Seq(Writes(Path))
    BY <2>2, NewsIsQuiet DEF Quiet, Acts
  <2>4. queue' \in [Clients -> Seq(Writes(Path))] /\ db' = db
    BY <1>6, <2>3, IssueTyped DEF SaveItem
  <2>5. QED
    BY <1>4, <1>6, <2>1, <2>4 DEF TypeInv, TypeOK, SaveItem
<1>7. CASE Trash(c, s)
  <2>1. slot' \in [Clients -> [Slots -> Slot]] /\ SlotsFit'
    BY <1>0, <1>7, TapSteps
  <2>2. QED
    BY <1>4, <1>7, <2>1 DEF TypeInv, TypeOK, Trash
<1>8. QED
  BY <1>1, <1>2, <1>3, <1>5, <1>6, <1>7 DEF UserStep

(* The writes of an answer.                                                *)
LEMMA AnswerWrites ==
  ASSUME TypeInv, NEW c \in Clients, NEW s \in Slots
  PROVE  /\ Journaled(c, s) => \E ws : Quiet(ws) /\ Issue(c, ws)
         /\ Remove(c, s) =>
              \E ws : Quiet(ws) /\ Issue(c, ws \o RemoveWrites(slot[c][s].on))
         /\ Add(c, s) => \E ws : Quiet(ws) /\ Issue(c, ws \o AddWrites(slot[c][s].on))
         /\ Update(c, s) => \E ws : Quiet(ws) /\ Issue(c, ws)
<1> DEFINE r == slot[c][s]
<1>0. r.step \notin {"open", "closed"} => r.on \in Media /\ r.act \in Acts
  BY SlotsGood
<1>1. ASSUME Journaled(c, s) PROVE \E ws : Quiet(ws) /\ Issue(c, ws)
  BY <1>0, <1>1, NewsIsQuiet DEF Journaled
<1>2. ASSUME Remove(c, s) PROVE \E ws : Quiet(ws) /\ Issue(c, ws \o RemoveWrites(r.on))
  <2>1. Quiet(JournalWrites("remove", r.on))
    BY <1>0, <1>2, NewsIsQuiet DEF Remove, Acts
  <2>2. QED
    BY <1>2, <2>1 DEF Remove
<1>3. ASSUME Add(c, s) \/ Update(c, s) PROVE Quiet(News(c, s)) /\ r.on \in Media
  <2>1. r.step \in {"journal", "feed"}
    BY <1>3 DEF Add, Update, Announces
  <2>2. followers[c] \in Seq(Followers)
    BY DEF TypeInv, TypeOK
  <2>3. QED
    BY <1>0, <2>1, <2>2, NewsIsQuiet DEF News
<1>4. ASSUME Add(c, s) PROVE \E ws : Quiet(ws) /\ Issue(c, ws \o AddWrites(r.on))
  BY <1>3, <1>4 DEF Add
<1>5. ASSUME Update(c, s) PROVE \E ws : Quiet(ws) /\ Issue(c, ws)
  <2>1. PICK ws \in UpdateWrites(r.on) : Issue(c, News(c, s) \o ws)
    BY <1>5 DEF Update
  <2>2. Quiet(ws)
    BY <1>3, <1>5, <2>1, NewsIsQuiet DEF Acts
  <2>3. QED
    BY <1>3, <1>5, <2>1, <2>2, QuietAppend
<1>6. QED
  BY <1>1, <1>2, <1>4, <1>5

LEMMA AnswerTyped ==
  ASSUME TypeInv, NEW c \in Clients, NEW s \in Slots, Answer(c, s)
  PROVE  TypeInv'
<1> USE DEF backendVars, ghostVars
<1>0. ASSUME NEW r, Puts(c, s, r)
      PROVE  slot' \in [Clients -> [Slots -> Slot]] /\ SlotsFit'
  BY <1>0, PutGood DEF Puts
<1>1. slot' \in [Clients -> [Slots -> Slot]] /\ SlotsFit'
  BY <1>0, AnswerSteps DEF Answer
<1>2. ASSUME NEW ws, ws \in Seq(Writes(Path)), Issue(c, ws)
      PROVE  queue' \in [Clients -> Seq(Writes(Path))] /\ db' = db
  BY <1>2, IssueTyped
<1>3. CASE UploadEnds(c, s) \/ CheckThread(c, s) \/ UpdateFails(c, s)
  BY <1>1, <1>3 DEF TypeInv, TypeOK, UploadEnds, CheckThread, UpdateFails
<1>4. CASE Journaled(c, s)
  <2>1. queue' \in [Clients -> Seq(Writes(Path))] /\ db' = db
    BY <1>2, <1>4, AnswerWrites DEF Quiet
  <2>2. QED
    BY <1>1, <1>4, <2>1 DEF TypeInv, TypeOK, Journaled
<1>5. CASE Remove(c, s)
  <2>1. slot[c][s].on \in Media
    BY <1>5, AnswerSteps
  <2>2. PICK ws : Quiet(ws) /\ Issue(c, ws \o RemoveWrites(slot[c][s].on))
    BY <1>5, AnswerWrites
  <2>3. ws \o RemoveWrites(slot[c][s].on) \in Seq(Writes(Path))
    BY <2>1, <2>2, AddRemoveTyped DEF Quiet
  <2>4. queue' \in [Clients -> Seq(Writes(Path))] /\ db' = db
    BY <1>2, <2>2, <2>3
  <2>5. QED
    BY <1>1, <1>5, <2>1, <2>4 DEF TypeInv, TypeOK, Remove
<1>6. CASE Add(c, s)
  <2>1. slot[c][s].on \in Media
    BY <1>6, AnswerSteps
  <2>2. PICK ws : Quiet(ws) /\ Issue(c, ws \o AddWrites(slot[c][s].on))
    BY <1>6, AnswerWrites
  <2>3. ws \o AddWrites(slot[c][s].on) \in Seq(Writes(Path))
    BY <2>1, <2>2, AddRemoveTyped DEF Quiet
  <2>4. queue' \in [Clients -> Seq(Writes(Path))] /\ db' = db
    BY <1>2, <2>2, <2>3
  <2>5. QED
    BY <1>1, <1>6, <2>1, <2>4 DEF TypeInv, TypeOK, Add
<1>7. CASE Update(c, s)
  <2>1. queue' \in [Clients -> Seq(Writes(Path))] /\ db' = db
    BY <1>2, <1>7, AnswerWrites DEF Quiet
  <2>2. QED
    BY <1>1, <1>7, <2>1 DEF TypeInv, TypeOK, Update
<1>8. QED
  BY <1>3, <1>4, <1>5, <1>6, <1>7 DEF Answer

LEMMA ClientStepTyped ==
  ASSUME TypeInv, NEW c \in Clients
  PROVE  /\ \A f \in Followers : LoadFollower(c, f) => TypeInv'
         /\ Deliver(c) => TypeInv'
         /\ Crash(c) => TypeInv'
<1> USE DEF backendVars, ghostVars
<1>1. ASSUME NEW f \in Followers, LoadFollower(c, f) PROVE TypeInv'
  <2>1. followers' \in [Clients -> Seq(Followers)]
    <3>1. Append(followers[c], f) \in Seq(Followers)
      BY DEF TypeInv, TypeOK
    <3>2. QED
      BY <1>1, <3>1 DEF TypeInv, TypeOK, LoadFollower
  <2>2. QED
    BY <1>1, <2>1 DEF TypeInv, TypeOK, SlotsFit, LoadFollower
<1>2. ASSUME Deliver(c) PROVE TypeInv'
  <2>1. queue[c] \in Seq(Writes(Path)) /\ queue[c] # <<>>
    BY <1>2 DEF TypeInv, TypeOK, Deliver
  <2>2. Head(queue[c]) \in Writes(Path) /\ Tail(queue[c]) \in Seq(Writes(Path))
    BY <2>1
  <2>3. db' \subseteq Path
    BY <1>2, <2>2 DEF TypeInv, TypeOK, Deliver, Land, Writes
  <2>4. queue' \in [Clients -> Seq(Writes(Path))]
    BY <1>2, <2>2 DEF TypeInv, TypeOK, Deliver
  <2>5. QED
    BY <1>2, <2>3, <2>4 DEF TypeInv, TypeOK, SlotsFit, Deliver
<1>3. ASSUME Crash(c) PROVE TypeInv'
  <2>1. /\ crashes' \in [Clients -> 0 .. MaxCrashes]
        /\ queue' \in [Clients -> Seq(Writes(Path))]
        /\ followers' \in [Clients -> Seq(Followers)]
        /\ lost' \subseteq Media
    BY <1>3, MediaAssumption DEF TypeInv, TypeOK, Crash
  <2>2. Closed \in Slot /\ SlotFits(Closed)
    BY GoodSlots DEF GoodSlot
  <2>3. slot' \in [Clients -> [Slots -> Slot]]
    BY <1>3, <2>2 DEF TypeInv, TypeOK, Crash
  <2>4. ASSUME NEW d \in Clients, NEW t \in Slots
        PROVE  slot'[d][t] = Closed \/ slot'[d][t] = slot[d][t]
    BY <1>3 DEF TypeInv, TypeOK, Crash
  <2>5. SlotsFit'
    BY <2>2, <2>4 DEF TypeInv, SlotsFit
  <2>6. QED
    BY <1>3, <2>1, <2>3, <2>5 DEF TypeInv, TypeOK, Crash
<1>4. QED
  BY <1>1, <1>2, <1>3

LEMMA TypeInvariant == Spec => []TypeInv
<1>1. Init => TypeInv
  <2>1. Closed \in Slot /\ SlotFits(Closed)
    BY GoodSlots DEF GoodSlot
  <2>2. QED
    BY <2>1, MediaAssumption DEF Init, TypeInv, TypeOK, SlotsFit
<1>2. TypeInv /\ [Next]_vars => TypeInv'
  <2>1. SUFFICES ASSUME TypeInv, [Next]_vars PROVE TypeInv'
    OBVIOUS
  <2>2. CASE UNCHANGED vars
    BY <2>1, <2>2 DEF vars, backendVars, ghostVars, TypeInv, TypeOK, SlotsFit
  <2>3. ASSUME NEW c \in Clients, NEW s \in Slots, UserStep(c, s) \/ Answer(c, s)
        PROVE  TypeInv'
    BY <2>1, <2>3, UserStepTyped, AnswerTyped
  <2>4. ASSUME NEW c \in Clients,
               (\E f \in Followers : LoadFollower(c, f)) \/ Deliver(c) \/ Crash(c)
        PROVE  TypeInv'
    BY <2>1, <2>4, ClientStepTyped
  <2>5. QED
    BY <2>1, <2>2, <2>3, <2>4 DEF Next
<1>3. QED
  BY <1>1, <1>2, PTL DEF Spec

(* Every reachable state is well typed.                                    *)
THEOREM TypeCorrect == Spec => []TypeOK
<1>1. TypeInv => TypeOK
  BY DEF TypeInv
<1>2. QED
  BY <1>1, TypeInvariant, PTL
-----------------------------------------------------------------------------
(* Most steps keep to the items their notepads are on, and write nothing   *)
(* of a record or of an index entry.                                       *)

SlotsKept == \A d \in Clients, t \in Slots : slot'[d][t].on \in Media =>
  /\ slot'[d][t].on = slot[d][t].on
  /\ slot'[d][t].act = "add" <=> slot[d][t].act = "add"

QueuesKept == \A d \in Clients :
  /\ \A i \in DOMAIN queue[d] : i \in DOMAIN queue'[d] /\ queue'[d][i] = queue[d][i]
  /\ \A i \in DOMAIN queue'[d], m \in Media :
       queue'[d][i].path \in {Record(m), Index(m)} =>
         i \in DOMAIN queue[d] /\ queue'[d][i] = queue[d][i]

LEMMA PutKeepsSlots ==
  ASSUME TypeInv, NEW c \in Clients, NEW s \in Slots, NEW r, Puts(c, s, r),
         r.on \in Media => /\ r.on = slot[c][s].on
                           /\ r.act = "add" <=> slot[c][s].act = "add"
  PROVE  SlotsKept
  BY PutGood DEF Puts, SlotsKept

LEMMA SlotFields ==
  /\ Closed.on = NoMedia /\ NoMedia \notin Media
  /\ \A t : Empty(t).on = NoMedia
  /\ \A m : Editing(m).on = m /\ Editing(m).act = "update"
  /\ \A step, act, m, v : Working(step, act, m, v).on = m /\ Working(step, act, m, v).act = act
  /\ \A m, act : BackTo(m, act).on \in Media =>
       /\ BackTo(m, act).on = m
       /\ BackTo(m, act).act = "add" <=> act = "add"
  BY MediaAssumption DEF Closed, Empty, Editing, Working, BackTo

LEMMA IssueKeepsQueues ==
  ASSUME TypeInv, NEW c \in Clients, NEW ws, Quiet(ws), Issue(c, ws)
  PROVE  QueuesKept /\ db' = db
<1>1. queue[c] \in Seq(Writes(Path)) /\ ws \in Seq(Writes(Path))
  BY DEF TypeInv, TypeOK, Quiet
<1>2. /\ db' = db /\ queue'[c] = queue[c] \o ws
      /\ \A d \in Clients \ {c} : queue'[d] = queue[d]
  BY <1>1, IssueTyped
<1>3. ASSUME NEW i \in DOMAIN queue[c]
      PROVE  i \in DOMAIN queue'[c] /\ queue'[c][i] = queue[c][i]
  BY <1>1, <1>2, AppendPositions
<1>4. ASSUME NEW i \in DOMAIN queue'[c], NEW m \in Media,
             queue'[c][i].path \in {Record(m), Index(m)}
      PROVE  i \in DOMAIN queue[c] /\ queue'[c][i] = queue[c][i]
  <2>1. CASE i \in DOMAIN queue[c]
    BY <1>3, <2>1
  <2>2. CASE i \notin DOMAIN queue[c]
    <3>1. PICK j \in DOMAIN ws : i = Len(queue[c]) + j
      BY <1>1, <1>2, <2>2, AppendPositions
    <3>2. queue'[c][i] = ws[j]
      BY <1>1, <1>2, <3>1, AppendPositions
    <3>3. QED
      BY <1>4, <3>2 DEF Quiet
  <2>3. QED
    BY <2>1, <2>2
<1>5. QED
  BY <1>2, <1>3, <1>4 DEF QueuesKept

(* Such a step mentions no record and no index entry anew.                 *)
LEMMA KeptMentions ==
  ASSUME QueuesKept, NEW m \in Media, NEW d \in Clients
  PROVE  /\ Mentions(queue'[d], Record(m)) <=> Mentions(queue[d], Record(m))
         /\ Mentions(queue'[d], Index(m)) <=> Mentions(queue[d], Index(m))
<1>1. ASSUME NEW p \in {Record(m), Index(m)}
      PROVE  Mentions(queue'[d], p) <=> Mentions(queue[d], p)
  <2>1. ASSUME Mentions(queue'[d], p) PROVE Mentions(queue[d], p)
    <3>1. PICK i \in DOMAIN queue'[d] : queue'[d][i].path = p
      BY <2>1 DEF Mentions
    <3>2. i \in DOMAIN queue[d] /\ queue[d][i].path = p
      BY <3>1 DEF QueuesKept
    <3>3. QED
      BY <3>2 DEF Mentions
  <2>2. ASSUME Mentions(queue[d], p) PROVE Mentions(queue'[d], p)
    <3>1. PICK i \in DOMAIN queue[d] : queue[d][i].path = p
      BY <2>2 DEF Mentions
    <3>2. i \in DOMAIN queue'[d] /\ queue'[d][i].path = p
      BY <3>1 DEF QueuesKept
    <3>3. QED
      BY <3>2 DEF Mentions
  <2>3. QED
    BY <2>1, <2>2
<1>2. QED
  BY <1>1

LEMMA QuietStepKeepsOnItsWay ==
  ASSUME TypeInv, StoreInv, QueuesKept, UNCHANGED <<db, gone>>,
         \A m \in Media, d \in Clients, t \in Slots :
           slot'[d][t].on = m =>
             \/ slot[d][t].on = m
             \/ \A c \in Clients \ {d} : \A i \in DOMAIN queue[c] :
                  queue[c][i] # SetValue(Index(m))
  PROVE  OnItsWay' /\ IndexFirst'
<1>1. OnItsWay'
  <2>1. SUFFICES ASSUME NEW m \in Media, NEW c \in Clients, NEW i \in DOMAIN queue'[c],
                        queue'[c][i] = SetValue(Index(m))
                 PROVE  /\ m \notin gone /\ Index(m) \notin db
                        /\ \A d \in Clients \ {c} :
                             /\ ~Mentions(queue'[d], Record(m))
                             /\ ~Mentions(queue'[d], Index(m))
                             /\ \A s \in Slots : slot'[d][s].on # m
                        /\ \A j \in DOMAIN queue'[c] :
                             queue'[c][j] \in {SetValue(Index(m)), RemoveValue(Index(m)),
                                               RemoveValue(Record(m))} => j >= i
                        /\ \/ Record(m) \in db
                           \/ \E j \in DOMAIN queue'[c] :
                                j < i /\ queue'[c][j] = SetValue(Record(m))
    BY DEF OnItsWay
  <2>2. i \in DOMAIN queue[c] /\ queue[c][i] = SetValue(Index(m))
    <3>1. queue'[c][i].path \in {Record(m), Index(m)}
      BY <2>1, WritesDiffer
    <3>2. QED
      BY <2>1, <3>1 DEF QueuesKept
  <2>3. /\ m \notin gone /\ Index(m) \notin db
        /\ \A d \in Clients \ {c} :
             /\ ~Mentions(queue[d], Record(m)) /\ ~Mentions(queue[d], Index(m))
             /\ \A s \in Slots : slot[d][s].on # m
        /\ \A j \in DOMAIN queue[c] :
             queue[c][j] \in {SetValue(Index(m)), RemoveValue(Index(m)),
                              RemoveValue(Record(m))} => j >= i
        /\ \/ Record(m) \in db
           \/ \E j \in DOMAIN queue[c] : j < i /\ queue[c][j] = SetValue(Record(m))
    BY <2>2 DEF StoreInv, OnItsWay
  <2>4. ASSUME NEW d \in Clients \ {c}
        PROVE  /\ ~Mentions(queue'[d], Record(m)) /\ ~Mentions(queue'[d], Index(m))
               /\ \A s \in Slots : slot'[d][s].on # m
    BY <2>2, <2>3, <2>4, KeptMentions
  <2>5. ASSUME NEW j \in DOMAIN queue'[c],
               queue'[c][j] \in {SetValue(Index(m)), RemoveValue(Index(m)),
                                 RemoveValue(Record(m))}
        PROVE  j >= i
    <3>1. queue'[c][j].path \in {Record(m), Index(m)}
      BY <2>5, WritesDiffer
    <3>2. j \in DOMAIN queue[c] /\ queue'[c][j] = queue[c][j]
      BY <3>1 DEF QueuesKept
    <3>3. QED
      BY <2>3, <2>5, <3>2
  <2>6. \/ Record(m) \in db
        \/ \E j \in DOMAIN queue'[c] : j < i /\ queue'[c][j] = SetValue(Record(m))
    BY <2>3 DEF QueuesKept
  <2>7. QED
    BY <2>3, <2>4, <2>5, <2>6
<1>2. IndexFirst'
  <2>1. SUFFICES ASSUME NEW m \in Media, NEW c \in Clients, NEW i \in DOMAIN queue'[c],
                        queue'[c][i] = RemoveValue(Record(m))
                 PROVE  \/ m \in gone
                        \/ \E j \in DOMAIN queue'[c] :
                             j < i /\ queue'[c][j] = RemoveValue(Index(m))
    BY DEF IndexFirst
  <2>2. i \in DOMAIN queue[c] /\ queue[c][i] = RemoveValue(Record(m))
    <3>1. queue'[c][i].path \in {Record(m), Index(m)}
      BY <2>1, WritesDiffer
    <3>2. QED
      BY <2>1, <3>1 DEF QueuesKept
  <2>3. QED
    BY <2>2 DEF StoreInv, IndexFirst, QueuesKept
<1>3. QED
  BY <1>1, <1>2

LEMMA QuietStepKeepsStore ==
  ASSUME TypeInv, StoreInv, SlotsKept, QueuesKept, UNCHANGED <<db, gone, used>>
  PROVE  StoreInv'
<1>1. ASSUME NEW m \in Media PROVE Untouched(m)' <=> Untouched(m)
  BY KeptMentions DEF Untouched
<1>2. ASSUME NEW m \in Media, NEW d \in Clients, NEW t \in Slots, slot'[d][t].on = m
      PROVE  slot[d][t].on = m /\ (slot'[d][t].act = "add" <=> slot[d][t].act = "add")
  BY <1>2 DEF SlotsKept
<1>3. FreshIds'
  BY <1>1, <1>2 DEF StoreInv, FreshIds
<1>4. AddedOnce'
  BY <1>1, <1>2 DEF StoreInv, AddedOnce
<1>5. OnItsWay' /\ IndexFirst'
  BY <1>2, QuietStepKeepsOnItsWay
<1>6. IndexBacked' /\ StaysGone'
  BY DEF StoreInv, IndexBacked, StaysGone
<1>7. QED
  BY <1>3, <1>4, <1>5, <1>6 DEF StoreInv

(* What a client reads of an index entry is in the database, or is on its  *)
(* way from that client.                                                   *)
LEMMA SeenIsKnown ==
  ASSUME NEW c \in Clients, NEW m \in Media, SeenBy(c, Index(m))
  PROVE  /\ Index(m) \in db \/ \E i \in DOMAIN queue[c] : queue[c][i] = SetValue(Index(m))
         /\ ~Untouched(m)
<1>1. Index(m) \in db \/ \E i \in DOMAIN queue[c] : queue[c][i] = SetValue(Index(m))
  BY DEF SeenBy, Sees, LastSets
<1>2. ASSUME NEW i \in DOMAIN queue[c], queue[c][i] = SetValue(Index(m))
      PROVE  Mentions(queue[c], Index(m))
  BY <1>2, WritesDiffer DEF Mentions
<1>3. QED
  BY <1>1, <1>2 DEF Untouched

LEMMA SameQueuesKept ==
  ASSUME queue' = queue PROVE QueuesKept
  BY DEF QueuesKept

LEMMA OpenItemKeepsStore ==
  ASSUME TypeInv, StoreInv, NEW c \in Clients, NEW s \in Slots, NEW m \in Media,
         OpenItem(c, s, m)
  PROVE  StoreInv'
<1>1. /\ QueuesKept /\ UNCHANGED <<db, queue, gone, used>>
      /\ SeenBy(c, Index(m))
  BY SameQueuesKept DEF OpenItem, backendVars, ghostVars
<1>2. \A d \in Clients, t \in Slots :
        slot'[d][t] = IF d = c /\ t = s THEN Editing(m) ELSE slot[d][t]
  <2>1. Puts(c, s, Editing(m))
    BY TapSteps
  <2>2. QED
    BY <2>1, PutGood DEF Puts
<1>3. ASSUME NEW n \in Media PROVE Untouched(n)' <=> Untouched(n)
  BY <1>1, KeptMentions DEF Untouched
<1>4. ~Untouched(m) /\ m \in used
  BY <1>1, SeenIsKnown DEF StoreInv, FreshIds
<1>5. FreshIds'
  BY <1>1, <1>2, <1>3, <1>4, SlotFields DEF StoreInv, FreshIds
<1>6. AddedOnce'
  <2>1. SUFFICES ASSUME NEW n \in Media, NEW d \in Clients, NEW t \in Slots,
                        slot'[d][t].on = n, slot'[d][t].act = "add"
                 PROVE  /\ Untouched(n)'
                        /\ \A e \in Clients, u \in Slots :
                             slot'[e][u].on = n => e = d /\ u = t
    BY DEF AddedOnce
  <2>2. ~(d = c /\ t = s) /\ slot[d][t].on = n /\ slot[d][t].act = "add"
    BY <1>2, <2>1, SlotFields
  <2>3. Untouched(n) /\ n # m
    BY <1>4, <2>2 DEF StoreInv, AddedOnce
  <2>4. QED
    BY <1>2, <1>3, <2>2, <2>3, SlotFields DEF StoreInv, AddedOnce
<1>7. ASSUME NEW n \in Media, NEW d \in Clients, NEW t \in Slots, slot'[d][t].on = n
      PROVE  \/ slot[d][t].on = n
             \/ \A e \in Clients \ {d} : \A i \in DOMAIN queue[e] :
                  queue[e][i] # SetValue(Index(n))
  <2>1. CASE d = c /\ t = s
    <3>1. n = m
      BY <1>2, <1>7, <2>1, SlotFields
    <3>2. SUFFICES ASSUME NEW e \in Clients \ {c}, NEW i \in DOMAIN queue[e],
                          queue[e][i] = SetValue(Index(m))
                   PROVE  FALSE
      BY <2>1, <3>1
    <3>3. Index(m) \notin db /\ ~Mentions(queue[c], Index(m))
      BY <3>2 DEF StoreInv, OnItsWay
    <3>4. PICK j \in DOMAIN queue[c] : queue[c][j] = SetValue(Index(m))
      BY <1>1, <3>3, SeenIsKnown
    <3>5. QED
      BY <3>3, <3>4, WritesDiffer DEF Mentions
  <2>2. CASE ~(d = c /\ t = s)
    BY <1>2, <1>7, <2>2
  <2>3. QED
    BY <2>1, <2>2
<1>8. OnItsWay' /\ IndexFirst'
  BY <1>1, <1>7, QuietStepKeepsOnItsWay
<1>9. IndexBacked' /\ StaysGone'
  BY <1>1 DEF StoreInv, IndexBacked, StaysGone
<1>10. QED
  BY <1>5, <1>6, <1>8, <1>9 DEF StoreInv

LEMMA SaveNewKeepsStore ==
  ASSUME TypeInv, StoreInv, NEW c \in Clients, NEW s \in Slots, NEW m \in Media,
         NEW v \in BOOLEAN, SaveNew(c, s, m, v)
  PROVE  StoreInv'
<1> DEFINE r == Working(IF m \in Photos THEN "upload" ELSE "journal", "add", m, v)
<1>1. /\ QueuesKept /\ UNCHANGED <<db, queue, gone>>
      /\ m \notin used /\ used' = used \union {m}
  BY SameQueuesKept DEF SaveNew, backendVars, ghostVars
<1>2. \A d \in Clients, t \in Slots :
        slot'[d][t] = IF d = c /\ t = s THEN r ELSE slot[d][t]
  <2>1. Puts(c, s, r)
    BY TapSteps
  <2>2. QED
    BY <2>1, PutGood DEF Puts
<1>3. r.on = m /\ r.act = "add"
  BY SlotFields
<1> HIDE DEF r
<1>4. ASSUME NEW n \in Media PROVE Untouched(n)' <=> Untouched(n)
  BY <1>1, KeptMentions DEF Untouched
<1>5. Untouched(m) /\ \A d \in Clients, t \in Slots : slot[d][t].on # m
  BY <1>1 DEF StoreInv, FreshIds
<1>6. FreshIds'
  BY <1>1, <1>2, <1>3, <1>4 DEF StoreInv, FreshIds
<1>7. AddedOnce'
  BY <1>2, <1>3, <1>4, <1>5 DEF StoreInv, AddedOnce
<1>8. \A d \in Clients : \A i \in DOMAIN queue[d] : queue[d][i] # SetValue(Index(m))
  BY <1>5, IssuedIsMentioned DEF Untouched
<1>9. OnItsWay' /\ IndexFirst'
  BY <1>1, <1>2, <1>3, <1>8, QuietStepKeepsOnItsWay
<1>10. IndexBacked' /\ StaysGone'
  BY <1>1 DEF StoreInv, IndexBacked, StaysGone
<1>11. QED
  BY <1>6, <1>7, <1>9, <1>10 DEF StoreInv

(* An operation that ends issues, after its news, two writes on its item.  *)
LEMMA TwoIssued ==
  ASSUME TypeInv, NEW c \in Clients, NEW m \in Media, NEW ws, Quiet(ws),
         NEW x \in Writes(Path), NEW y \in Writes(Path),
         x.path \in {Record(m), Index(m)}, y.path \in {Record(m), Index(m)},
         Issue(c, ws \o <<x, y>>)
  PROVE  /\ db' = db
         /\ \A d \in Clients \ {c} : queue'[d] = queue[d]
         /\ \E k \in Nat :
              /\ k + 1 \in DOMAIN queue'[c] /\ queue'[c][k + 1] = x
              /\ k + 2 \in DOMAIN queue'[c] /\ queue'[c][k + 2] = y
              /\ \A i \in DOMAIN queue[c] :
                   i \in Nat /\ i <= k /\ i \in DOMAIN queue'[c] /\ queue'[c][i] = queue[c][i]
              /\ \A i \in DOMAIN queue'[c], n \in Media :
                   queue'[c][i].path \in {Record(n), Index(n)} =>
                     \/ i \in DOMAIN queue[c]
                     \/ (i = k + 1 \/ i = k + 2) /\ n = m
<1> DEFINE q == queue[c]
           xy == <<x, y>>
           zs == ws \o xy
           k == Len(q) + Len(ws)
<1>1. q \in Seq(Writes(Path)) /\ ws \in Seq(Writes(Path)) /\ xy \in Seq(Writes(Path))
  BY DEF TypeInv, TypeOK, Quiet
<1>2. /\ xy[1] = x /\ xy[2] = y /\ DOMAIN xy = 1 .. 2
      /\ Len(q) \in Nat /\ Len(ws) \in Nat /\ k \in Nat
      /\ DOMAIN q = 1 .. Len(q) /\ DOMAIN ws = 1 .. Len(ws)
  BY <1>1
<1> HIDE DEF q, xy
<1>3. /\ zs \in Seq(Writes(Path)) /\ DOMAIN zs = 1 .. Len(ws) + 2
      /\ \A i \in DOMAIN ws : zs[i] = ws[i]
      /\ zs[Len(ws) + 1] = x /\ zs[Len(ws) + 2] = y
  <2>1. /\ zs \in Seq(Writes(Path)) /\ DOMAIN zs = 1 .. (Len(ws) + Len(xy))
        /\ \A i \in DOMAIN ws : zs[i] = ws[i]
        /\ \A i \in DOMAIN xy : zs[Len(ws) + i] = xy[i]
    BY <1>1, AppendPositions
  <2>2. Len(xy) = 2 /\ 1 \in DOMAIN xy /\ 2 \in DOMAIN xy
    BY <1>1, <1>2
  <2>3. QED
    BY <1>2, <2>1, <2>2
<1> HIDE DEF zs
<1>4. /\ db' = db /\ queue'[c] = q \o zs
      /\ \A d \in Clients \ {c} : queue'[d] = queue[d]
  BY <1>3, IssueTyped DEF q, xy, zs
<1>5. /\ DOMAIN (q \o zs) = 1 .. k + 2
      /\ \A i \in DOMAIN q : (q \o zs)[i] = q[i]
      /\ \A i \in DOMAIN ws : (q \o zs)[Len(q) + i] = ws[i]
      /\ (q \o zs)[k + 1] = x /\ (q \o zs)[k + 2] = y
  <2>1. Len(zs) = Len(ws) + 2
    BY <1>2, <1>3
  <2>2. /\ DOMAIN (q \o zs) = 1 .. (Len(q) + Len(zs))
        /\ \A i \in DOMAIN q : (q \o zs)[i] = q[i]
        /\ \A i \in DOMAIN zs : (q \o zs)[Len(q) + i] = zs[i]
    BY <1>1, <1>3, AppendPositions
  <2>3. Len(q) + Len(zs) = k + 2
    BY <1>2, <2>1
  <2>4. /\ Len(ws) + 1 \in DOMAIN zs /\ Len(ws) + 2 \in DOMAIN zs
        /\ k + 1 = Len(q) + (Len(ws) + 1) /\ k + 2 = Len(q) + (Len(ws) + 2)
        /\ \A i \in DOMAIN ws : i \in DOMAIN zs
    BY <1>2, <1>3
  <2> HIDE DEF k
  <2>5. QED
    BY <1>3, <2>2, <2>3, <2>4
<1>6. ASSUME NEW i \in DOMAIN (q \o zs), i \notin DOMAIN q, i # k + 1, i # k + 2
      PROVE  \E j \in DOMAIN ws : (q \o zs)[i] = ws[j]
  <2>1. i \in Nat /\ 1 <= i /\ i <= k + 2 /\ ~(i <= Len(q))
    <3>1. i \in 1 .. k + 2 /\ i \notin 1 .. Len(q)
      BY <1>2, <1>5, <1>6
    <3> HIDE DEF k
    <3>2. QED
      BY <1>2, <3>1
  <2>2. k = Len(q) + Len(ws)
    OBVIOUS
  <2> HIDE DEF k
  <2>3. i <= k
    BY <1>2, <1>6, <2>1
  <2>4. i - Len(q) \in 1 .. Len(ws) /\ Len(q) + (i - Len(q)) = i
    BY <1>2, <2>1, <2>2, <2>3
  <2>5. i - Len(q) \in DOMAIN ws /\ (q \o zs)[i] = ws[i - Len(q)]
    BY <1>2, <1>5, <2>4
  <2>6. QED
    BY <2>5
<1>7. x.path \in {Record(m), Index(m)} /\ y.path \in {Record(m), Index(m)}
  OBVIOUS
<1>8. ASSUME NEW i \in DOMAIN (q \o zs), NEW n \in Media,
             (q \o zs)[i].path \in {Record(n), Index(n)}
      PROVE  i \in DOMAIN q \/ ((i = k + 1 \/ i = k + 2) /\ n = m)
  <2>1. CASE i = k + 1 \/ i = k + 2
    BY <1>5, <1>7, <1>8, <2>1, PathsDiffer
  <2>2. CASE i # k + 1 /\ i # k + 2
    BY <1>6, <1>8, <2>2 DEF Quiet
  <2>3. QED
    BY <2>1, <2>2
<1>9. \A i \in DOMAIN q : i \in Nat /\ i <= k /\ i \in DOMAIN (q \o zs)
  BY <1>2, <1>5
<1>10. k + 1 \in DOMAIN (q \o zs) /\ k + 2 \in DOMAIN (q \o zs)
  BY <1>2, <1>5
<1> HIDE DEF k
<1>11. QED
  BY <1>2, <1>4, <1>5, <1>8, <1>9, <1>10 DEF q

LEMMA TwoIssuedMentions ==
  ASSUME TypeInv, NEW c \in Clients, NEW m \in Media, NEW ws, Quiet(ws),
         NEW x \in Writes(Path), NEW y \in Writes(Path),
         x.path \in {Record(m), Index(m)}, y.path \in {Record(m), Index(m)},
         Issue(c, ws \o <<x, y>>), NEW n \in Media, n # m, NEW d \in Clients
  PROVE  /\ Mentions(queue'[d], Record(n)) <=> Mentions(queue[d], Record(n))
         /\ Mentions(queue'[d], Index(n)) <=> Mentions(queue[d], Index(n))
<1>1. CASE d # c
  BY <1>1, TwoIssued
<1>2. CASE d = c
  <2>1. /\ \A i \in DOMAIN queue[c] :
             i \in DOMAIN queue'[c] /\ queue'[c][i] = queue[c][i]
        /\ \A i \in DOMAIN queue'[c] :
             queue'[c][i].path \in {Record(n), Index(n)} => i \in DOMAIN queue[c]
    <3>1. PICK k \in Nat :
            /\ \A i \in DOMAIN queue[c] :
                 i \in Nat /\ i <= k /\ i \in DOMAIN queue'[c] /\ queue'[c][i] = queue[c][i]
            /\ \A i \in DOMAIN queue'[c], p \in Media :
                 queue'[c][i].path \in {Record(p), Index(p)} =>
                   \/ i \in DOMAIN queue[c]
                   \/ (i = k + 1 \/ i = k + 2) /\ p = m
      BY TwoIssued
    <3>2. QED
      BY <3>1
  <2>2. QED
    BY <1>2, <2>1 DEF Mentions
<1>3. QED
  BY <1>1, <1>2

LEMMA EndWritesTyped ==
  ASSUME NEW m \in Media
  PROVE  /\ \A p \in {Record(m), Index(m)} :
              SetValue(p) \in Writes(Path) /\ RemoveValue(p) \in Writes(Path)
  BY PathsTyped DEF SetValue, RemoveValue, Writes

LEMMA RemoveKeepsStore ==
  ASSUME TypeInv, StoreInv, NEW c \in Clients, NEW s \in Slots, Remove(c, s)
  PROVE  StoreInv'
<1> DEFINE m == slot[c][s].on
           x == RemoveValue(Index(m))
           y == RemoveValue(Record(m))
<1>1. /\ m \in Media /\ slot[c][s].act = "remove"
      /\ UNCHANGED <<gone, used>>
  BY AnswerSteps DEF Remove
<1>2. \A d \in Clients, t \in Slots :
        slot'[d][t] = IF d = c /\ t = s THEN Closed ELSE slot[d][t]
  <2>1. Puts(c, s, Closed)
    BY AnswerSteps
  <2>2. QED
    BY <2>1, PutGood DEF Puts
<1>3. PICK ws : Quiet(ws) /\ Issue(c, ws \o <<x, y>>)
  BY AnswerWrites DEF RemoveWrites
<1> HIDE DEF m
<1>4. /\ x \in Writes(Path) /\ y \in Writes(Path)
      /\ x.path = Index(m) /\ y.path = Record(m)
  BY <1>1, EndWritesTyped, WritesDiffer
<1>5. /\ \A n \in Media : x # SetValue(Index(n)) /\ y # SetValue(Index(n))
      /\ \A n \in Media : x # RemoveValue(Record(n))
  BY <1>1, WritesDiffer, PathsDiffer
<1> HIDE DEF x, y
<1>6. /\ db' = db
      /\ \A d \in Clients \ {c} : queue'[d] = queue[d]
  BY <1>1, <1>3, <1>4, TwoIssued
<1>7. PICK k \in Nat :
        /\ k + 1 \in DOMAIN queue'[c] /\ queue'[c][k + 1] = x
        /\ k + 2 \in DOMAIN queue'[c] /\ queue'[c][k + 2] = y
        /\ \A i \in DOMAIN queue[c] :
             i \in Nat /\ i <= k /\ i \in DOMAIN queue'[c] /\ queue'[c][i] = queue[c][i]
        /\ \A i \in DOMAIN queue'[c], n \in Media :
             queue'[c][i].path \in {Record(n), Index(n)} =>
               \/ i \in DOMAIN queue[c]
               \/ (i = k + 1 \/ i = k + 2) /\ n = m
  BY <1>1, <1>3, <1>4, TwoIssued
<1>8. ASSUME NEW n \in Media, n # m, NEW d \in Clients
      PROVE  /\ Mentions(queue'[d], Record(n)) <=> Mentions(queue[d], Record(n))
             /\ Mentions(queue'[d], Index(n)) <=> Mentions(queue[d], Index(n))
  BY <1>1, <1>3, <1>4, <1>8, TwoIssuedMentions
<1>9. ASSUME NEW n \in Media, n # m PROVE Untouched(n)' <=> Untouched(n)
  BY <1>1, <1>6, <1>8, <1>9 DEF Untouched
<1>10. ASSUME NEW n \in Media, NEW d \in Clients, NEW t \in Slots, slot'[d][t].on = n
       PROVE  slot[d][t].on = n /\ slot'[d][t].act = slot[d][t].act
  BY <1>2, <1>10, SlotFields
<1>11. m \in used
  BY <1>1 DEF StoreInv, FreshIds, m
<1>12. FreshIds'
  BY <1>1, <1>9, <1>10, <1>11 DEF StoreInv, FreshIds
<1>13. AddedOnce'
  <2>1. SUFFICES ASSUME NEW n \in Media, NEW d \in Clients, NEW t \in Slots,
                        slot'[d][t].on = n, slot'[d][t].act = "add"
                 PROVE  /\ Untouched(n)'
                        /\ \A e \in Clients, u \in Slots :
                             slot'[e][u].on = n => e = d /\ u = t
    BY DEF AddedOnce
  <2>2. slot[d][t].on = n /\ slot[d][t].act = "add"
    BY <1>10, <2>1
  <2>3. /\ Untouched(n)
        /\ \A e \in Clients, u \in Slots : slot[e][u].on = n => e = d /\ u = t
    BY <2>2 DEF StoreInv, AddedOnce
  <2>4. n # m
    BY <1>1, <2>2, <2>3 DEF m
  <2>5. QED
    BY <1>9, <1>10, <2>3, <2>4
<1>14. OnItsWay'
  <2>1. SUFFICES ASSUME NEW n \in Media, NEW d \in Clients, NEW i \in DOMAIN queue'[d],
                        queue'[d][i] = SetValue(Index(n))
                 PROVE  /\ n \notin gone /\ Index(n) \notin db
                        /\ \A e \in Clients \ {d} :
                             /\ ~Mentions(queue'[e], Record(n))
                             /\ ~Mentions(queue'[e], Index(n))
                             /\ \A u \in Slots : slot'[e][u].on # n
                        /\ \A j \in DOMAIN queue'[d] :
                             queue'[d][j] \in {SetValue(Index(n)), RemoveValue(Index(n)),
                                               RemoveValue(Record(n))} => j >= i
                        /\ \/ Record(n) \in db
                           \/ \E j \in DOMAIN queue'[d] :
                                j < i /\ queue'[d][j] = SetValue(Record(n))
    BY <1>1, <1>6 DEF OnItsWay
  <2>2. i \in DOMAIN queue[d] /\ queue[d][i] = SetValue(Index(n))
    <3>1. queue'[d][i].path = Index(n)
      BY <2>1, WritesDiffer
    <3>2. CASE d = c
      BY <1>5, <1>7, <2>1, <3>1, <3>2
    <3>3. CASE d # c
      BY <1>6, <2>1, <3>3
    <3>4. QED
      BY <3>2, <3>3
  <2>3. /\ n \notin gone /\ Index(n) \notin db
        /\ \A e \in Clients \ {d} :
             /\ ~Mentions(queue[e], Record(n)) /\ ~Mentions(queue[e], Index(n))
             /\ \A u \in Slots : slot[e][u].on # n
        /\ \A j \in DOMAIN queue[d] :
             queue[d][j] \in {SetValue(Index(n)), RemoveValue(Index(n)),
                              RemoveValue(Record(n))} => j >= i
        /\ \/ Record(n) \in db
           \/ \E j \in DOMAIN queue[d] : j < i /\ queue[d][j] = SetValue(Record(n))
    BY <2>2 DEF StoreInv, OnItsWay
  <2>4. n = m => d = c
    BY <2>3 DEF m
  <2>5. ASSUME NEW e \in Clients \ {d}
        PROVE  /\ ~Mentions(queue'[e], Record(n)) /\ ~Mentions(queue'[e], Index(n))
               /\ \A u \in Slots : slot'[e][u].on # n
    BY <1>6, <1>8, <1>10, <2>3, <2>4
  <2>6. ASSUME NEW j \in DOMAIN queue'[d],
               queue'[d][j] \in {SetValue(Index(n)), RemoveValue(Index(n)),
                                 RemoveValue(Record(n))}
        PROVE  j >= i
    <3>1. queue'[d][j].path \in {Record(n), Index(n)}
      BY <2>6, WritesDiffer
    <3>2. CASE d # c
      BY <1>6, <2>3, <2>6, <3>2
    <3>3. CASE d = c /\ j \in DOMAIN queue[c]
      BY <1>7, <2>3, <2>6, <3>3
    <3>4. CASE d = c /\ j \notin DOMAIN queue[c]
      BY <1>7, <2>2, <3>1, <3>4
    <3>5. QED
      BY <3>2, <3>3, <3>4
  <2>7. \/ Record(n) \in db
        \/ \E j \in DOMAIN queue'[d] : j < i /\ queue'[d][j] = SetValue(Record(n))
    BY <1>6, <1>7, <2>3
  <2>8. QED
    BY <2>3, <2>5, <2>6, <2>7
<1>15. IndexFirst'
  <2>1. SUFFICES ASSUME NEW n \in Media, NEW d \in Clients, NEW i \in DOMAIN queue'[d],
                        queue'[d][i] = RemoveValue(Record(n))
                 PROVE  \/ n \in gone
                        \/ \E j \in DOMAIN queue'[d] :
                             j < i /\ queue'[d][j] = RemoveValue(Index(n))
    BY <1>1 DEF IndexFirst
  <2>2. queue'[d][i].path = Record(n)
    BY <2>1, WritesDiffer
  <2>3. CASE d # c
    BY <1>6, <2>1, <2>3 DEF StoreInv, IndexFirst
  <2>4. CASE d = c /\ i \in DOMAIN queue[c]
    BY <1>7, <2>1, <2>4 DEF StoreInv, IndexFirst
  <2>5. CASE d = c /\ i \notin DOMAIN queue[c]
    <3>1. i = k + 2 /\ n = m
      BY <1>5, <1>7, <2>1, <2>2, <2>5
    <3>2. QED
      BY <1>7, <2>5, <3>1 DEF x
  <2>6. QED
    BY <2>3, <2>4, <2>5
<1>16. IndexBacked' /\ StaysGone'
  BY <1>1, <1>6 DEF StoreInv, IndexBacked, StaysGone
<1>17. QED
  BY <1>12, <1>13, <1>14, <1>15, <1>16 DEF StoreInv

LEMMA AddKeepsStore ==
  ASSUME TypeInv, StoreInv, NEW c \in Clients, NEW s \in Slots, Add(c, s)
  PROVE  StoreInv'
<1> DEFINE m == slot[c][s].on
           x == SetValue(Record(m))
           y == SetValue(Index(m))
<1>1. /\ m \in Media /\ slot[c][s].act = "add"
      /\ UNCHANGED <<gone, used>>
  BY AnswerSteps DEF Add, Announces
<1>2. ASSUME NEW d \in Clients, NEW t \in Slots
      PROVE  /\ slot'[c][s].on = NoMedia
             /\ ~(d = c /\ t = s) => slot'[d][t] = slot[d][t]
  <2>1. Puts(c, s, BackTo(m, "add"))
    BY <1>1, AnswerSteps
  <2>2. BackTo(m, "add").on = NoMedia
    BY SlotFields DEF BackTo
  <2>3. QED
    BY <2>1, <2>2, PutGood DEF Puts
<1>3. PICK ws : Quiet(ws) /\ Issue(c, ws \o <<x, y>>)
  BY AnswerWrites DEF AddWrites
<1> HIDE DEF m
<1>4. /\ x \in Writes(Path) /\ y \in Writes(Path)
      /\ x.path = Record(m) /\ y.path = Index(m)
  BY <1>1, EndWritesTyped, WritesDiffer
<1>5. /\ \A n \in Media : x # RemoveValue(Record(n)) /\ y # RemoveValue(Record(n))
      /\ \A n \in Media : x # SetValue(Index(n)) /\ x # RemoveValue(Index(n))
  BY <1>1, WritesDiffer, PathsDiffer
<1> HIDE DEF x, y
<1>6. /\ db' = db
      /\ \A d \in Clients \ {c} : queue'[d] = queue[d]
  BY <1>1, <1>3, <1>4, TwoIssued
<1>7. PICK k \in Nat :
        /\ k + 1 \in DOMAIN queue'[c] /\ queue'[c][k + 1] = x
        /\ k + 2 \in DOMAIN queue'[c] /\ queue'[c][k + 2] = y
        /\ \A i \in DOMAIN queue[c] :
             i \in Nat /\ i <= k /\ i \in DOMAIN queue'[c] /\ queue'[c][i] = queue[c][i]
        /\ \A i \in DOMAIN queue'[c], n \in Media :
             queue'[c][i].path \in {Record(n), Index(n)} =>
               \/ i \in DOMAIN queue[c]
               \/ (i = k + 1 \/ i = k + 2) /\ n = m
  BY <1>1, <1>3, <1>4, TwoIssued
<1>8. ASSUME NEW n \in Media, n # m, NEW d \in Clients
      PROVE  /\ Mentions(queue'[d], Record(n)) <=> Mentions(queue[d], Record(n))
             /\ Mentions(queue'[d], Index(n)) <=> Mentions(queue[d], Index(n))
  BY <1>1, <1>3, <1>4, <1>8, TwoIssuedMentions
<1>9. ASSUME NEW n \in Media, n # m PROVE Untouched(n)' <=> Untouched(n)
  BY <1>1, <1>6, <1>8, <1>9 DEF Untouched
(* Until now nothing was known of the item but to this notepad.            *)
<1>10. /\ Untouched(m)
       /\ \A d \in Clients, t \in Slots : slot[d][t].on = m => d = c /\ t = s
  BY <1>1 DEF StoreInv, AddedOnce, m
<1>11. ASSUME NEW n \in Media, NEW d \in Clients, NEW t \in Slots, slot'[d][t].on = n
       PROVE  n # m /\ slot[d][t] = slot'[d][t]
  BY <1>2, <1>10, <1>11, SlotFields
<1>12. FreshIds'
  <2>1. m \in used
    BY <1>1 DEF StoreInv, FreshIds, m
  <2>2. QED
    BY <1>1, <1>9, <1>11, <2>1 DEF StoreInv, FreshIds
<1>13. AddedOnce'
  <2>1. SUFFICES ASSUME NEW n \in Media, NEW d \in Clients, NEW t \in Slots,
                        slot'[d][t].on = n, slot'[d][t].act = "add"
                 PROVE  /\ Untouched(n)'
                        /\ \A e \in Clients, u \in Slots :
                             slot'[e][u].on = n => e = d /\ u = t
    BY DEF AddedOnce
  <2>2. n # m /\ slot[d][t].on = n /\ slot[d][t].act = "add"
    BY <1>11, <2>1
  <2>3. /\ Untouched(n)
        /\ \A e \in Clients, u \in Slots : slot[e][u].on = n => e = d /\ u = t
    BY <2>2 DEF StoreInv, AddedOnce
  <2>4. QED
    BY <1>9, <1>11, <2>2, <2>3
<1>14. OnItsWay'
  <2>1. SUFFICES ASSUME NEW n \in Media, NEW d \in Clients, NEW i \in DOMAIN queue'[d],
                        queue'[d][i] = SetValue(Index(n))
                 PROVE  /\ n \notin gone /\ Index(n) \notin db
                        /\ \A e \in Clients \ {d} :
                             /\ ~Mentions(queue'[e], Record(n))
                             /\ ~Mentions(queue'[e], Index(n))
                             /\ \A u \in Slots : slot'[e][u].on # n
                        /\ \A j \in DOMAIN queue'[d] :
                             queue'[d][j] \in {SetValue(Index(n)), RemoveValue(Index(n)),
                                               RemoveValue(Record(n))} => j >= i
                        /\ \/ Record(n) \in db
                           \/ \E j \in DOMAIN queue'[d] :
                                j < i /\ queue'[d][j] = SetValue(Record(n))
    BY <1>1, <1>6 DEF OnItsWay
  <2>2. queue'[d][i].path = Index(n)
    BY <2>1, WritesDiffer
  <2>3. ASSUME NEW j \in DOMAIN queue'[d],
               queue'[d][j] \in {SetValue(Index(n)), RemoveValue(Index(n)),
                                 RemoveValue(Record(n))}
        PROVE  queue'[d][j].path \in {Record(n), Index(n)}
    BY <2>3, WritesDiffer
  <2>4. CASE i \in DOMAIN queue[d] /\ queue[d][i] = SetValue(Index(n))
    <3>1. /\ n \notin gone /\ Index(n) \notin db
          /\ \A e \in Clients \ {d} :
               /\ ~Mentions(queue[e], Record(n)) /\ ~Mentions(queue[e], Index(n))
               /\ \A u \in Slots : slot[e][u].on # n
          /\ \A j \in DOMAIN queue[d] :
               queue[d][j] \in {SetValue(Index(n)), RemoveValue(Index(n)),
                                RemoveValue(Record(n))} => j >= i
          /\ \/ Record(n) \in db
             \/ \E j \in DOMAIN queue[d] : j < i /\ queue[d][j] = SetValue(Record(n))
      BY <2>4 DEF StoreInv, OnItsWay
    <3>2. n # m
      BY <1>10, <2>4, IssuedIsMentioned DEF Untouched
    <3>3. ASSUME NEW e \in Clients \ {d}
          PROVE  /\ ~Mentions(queue'[e], Record(n)) /\ ~Mentions(queue'[e], Index(n))
                 /\ \A u \in Slots : slot'[e][u].on # n
      BY <1>8, <1>11, <3>1, <3>2
    <3>4. ASSUME NEW j \in DOMAIN queue'[d],
                 queue'[d][j] \in {SetValue(Index(n)), RemoveValue(Index(n)),
                                   RemoveValue(Record(n))}
          PROVE  j >= i
      <4>1. CASE d # c
        BY <1>6, <3>1, <3>4, <4>1
      <4>2. CASE d = c
        BY <1>7, <2>3, <3>1, <3>2, <3>4, <4>2
      <4>3. QED
        BY <4>1, <4>2
    <3>5. \/ Record(n) \in db
          \/ \E j \in DOMAIN queue'[d] : j < i /\ queue'[d][j] = SetValue(Record(n))
      BY <1>6, <1>7, <3>1
    <3>6. QED
      BY <3>1, <3>3, <3>4, <3>5
  <2>5. CASE ~(i \in DOMAIN queue[d] /\ queue[d][i] = SetValue(Index(n)))
    <3>1. d = c
      BY <1>6, <2>1, <2>5
    <3>2. i = k + 2 /\ n = m
      BY <1>5, <1>7, <2>1, <2>2, <2>5, <3>1
    <3>3. /\ n \notin gone /\ Index(n) \notin db
          /\ \A e \in Clients : ~Mentions(queue[e], Record(n)) /\ ~Mentions(queue[e], Index(n))
      BY <1>10, <3>2 DEF Untouched
    <3>4. ASSUME NEW e \in Clients \ {d}
          PROVE  /\ ~Mentions(queue'[e], Record(n)) /\ ~Mentions(queue'[e], Index(n))
                 /\ \A u \in Slots : slot'[e][u].on # n
      BY <1>1, <1>6, <1>11, <3>1, <3>2, <3>3
    <3>5. ASSUME NEW j \in DOMAIN queue'[d],
                 queue'[d][j] \in {SetValue(Index(n)), RemoveValue(Index(n)),
                                   RemoveValue(Record(n))}
          PROVE  j >= i
      <4>1. j \notin DOMAIN queue[c]
        <5>1. SUFFICES ASSUME j \in DOMAIN queue[c] PROVE FALSE
          OBVIOUS
        <5>2. queue[c][j].path \in {Record(n), Index(n)}
          BY <1>7, <2>3, <3>1, <3>5, <5>1
        <5>3. QED
          BY <3>3, <5>1, <5>2 DEF Mentions
      <4>2. j = k + 1 \/ j = k + 2
        BY <1>7, <2>3, <3>1, <3>5, <4>1
      <4>3. j # k + 1
        BY <1>5, <1>7, <3>1, <3>2, <3>5, <1>1
      <4>4. QED
        BY <3>2, <4>2, <4>3
    <3>6. \E j \in DOMAIN queue'[d] : j < i /\ queue'[d][j] = SetValue(Record(n))
      BY <1>7, <3>1, <3>2 DEF x
    <3>7. QED
      BY <3>3, <3>4, <3>5, <3>6
  <2>6. QED
    BY <2>4, <2>5
<1>15. IndexFirst'
  <2>1. SUFFICES ASSUME NEW n \in Media, NEW d \in Clients, NEW i \in DOMAIN queue'[d],
                        queue'[d][i] = RemoveValue(Record(n))
                 PROVE  \/ n \in gone
                        \/ \E j \in DOMAIN queue'[d] :
                             j < i /\ queue'[d][j] = RemoveValue(Index(n))
    BY <1>1 DEF IndexFirst
  <2>2. queue'[d][i].path = Record(n)
    BY <2>1, WritesDiffer
  <2>3. CASE d # c
    BY <1>6, <2>1, <2>3 DEF StoreInv, IndexFirst
  <2>4. CASE d = c
    <3>1. i \in DOMAIN queue[c] /\ queue[c][i] = RemoveValue(Record(n))
      BY <1>5, <1>7, <2>1, <2>2, <2>4
    <3>2. QED
      BY <1>7, <2>4, <3>1 DEF StoreInv, IndexFirst
  <2>5. QED
    BY <2>3, <2>4
<1>16. IndexBacked' /\ StaysGone'
  BY <1>1, <1>6 DEF StoreInv, IndexBacked, StaysGone
<1>17. QED
  BY <1>12, <1>13, <1>14, <1>15, <1>16 DEF StoreInv

(* What the head of a queue does to the database, and which of the writes  *)
(* on an item are left behind it.                                          *)
LEMMA DeliverSteps ==
  ASSUME TypeInv, NEW c \in Clients, Deliver(c)
  PROVE  /\ queue[c] \in Seq(Writes(Path)) /\ 1 \in DOMAIN queue[c]
         /\ db' = Land(queue[c][1])
         /\ gone' = gone \union {m \in Media : queue[c][1] = RemoveValue(Index(m))}
         /\ UNCHANGED <<slot, used>>
         /\ \A d \in Clients \ {c} : queue'[d] = queue[d]
         /\ \A i \in DOMAIN queue[c] : i \in Nat /\ i >= 1
         /\ \A i \in DOMAIN queue'[c] : i \in Nat /\ i + 1 \in DOMAIN queue[c]
                                        /\ queue'[c][i] = queue[c][i + 1]
         /\ \A i \in DOMAIN queue[c] : i = 1 \/ (i - 1 \in DOMAIN queue'[c]
                                                 /\ queue'[c][i - 1] = queue[c][i])
<1>1. /\ queue[c] \in Seq(Writes(Path)) /\ queue[c] # <<>>
      /\ queue \in [Clients -> Seq(Writes(Path))]
  BY DEF Deliver, TypeInv, TypeOK
<1>2. /\ queue'[c] = Tail(queue[c]) /\ \A d \in Clients \ {c} : queue'[d] = queue[d]
  BY <1>1 DEF Deliver
<1>3. /\ Head(queue[c]) = queue[c][1] /\ 1 \in DOMAIN queue[c]
      /\ \A i \in DOMAIN queue'[c] : i + 1 \in DOMAIN queue[c]
                                     /\ queue'[c][i] = queue[c][i + 1]
      /\ \A i \in DOMAIN queue[c] : i = 1 \/ (i - 1 \in DOMAIN queue'[c]
                                              /\ queue'[c][i - 1] = queue[c][i])
  BY <1>1, <1>2, TailPositions
<1>4. /\ \A i \in DOMAIN queue[c] : i \in Nat /\ i >= 1
      /\ \A i \in DOMAIN queue'[c] : i \in Nat
  BY <1>1, <1>2
<1>5. QED
  BY <1>1, <1>2, <1>3, <1>4 DEF Deliver

LEMMA WriteForms ==
  ASSUME NEW w \in Writes(Path)
  PROVE  w = SetValue(w.path) \/ w = RemoveValue(w.path)
<1>1. w = [path |-> w.path, to |-> w.to] /\ w.to \in BOOLEAN
  BY DEF Writes
<1>2. CASE w.to = TRUE
  BY <1>1, <1>2 DEF SetValue
<1>3. CASE w.to = FALSE
  BY <1>1, <1>3 DEF RemoveValue
<1>4. QED
  BY <1>1, <1>2, <1>3

LEMMA LandEffect ==
  ASSUME NEW w \in Writes(Path), NEW m \in Media
  PROVE  /\ Record(m) \in Land(w) <=>
              \/ w = SetValue(Record(m))
              \/ Record(m) \in db /\ w # RemoveValue(Record(m))
         /\ Index(m) \in Land(w) <=>
              \/ w = SetValue(Index(m))
              \/ Index(m) \in db /\ w # RemoveValue(Index(m))
<1>1. \A n \in Media : /\ Record(m) # Fields(n) /\ Index(m) # Fields(n)
                       /\ Record(n) # Index(m)
                       /\ Record(m) = Record(n) => m = n
  BY PathsDiffer
<1>2. /\ SetValue(w.path).to = TRUE /\ RemoveValue(w.path).to = FALSE
      /\ SetValue(w.path) # RemoveValue(w.path)
      /\ \A p : /\ SetValue(p) = SetValue(w.path) => p = w.path
                /\ RemoveValue(p) = RemoveValue(w.path) => p = w.path
                /\ SetValue(p) # RemoveValue(w.path) /\ SetValue(w.path) # RemoveValue(p)
  BY WritesDiffer
<1>3. CASE w = SetValue(w.path)
  <2>1. Land(w) = db \union {w.path}
    BY <1>2, <1>3 DEF Land
  <2>2. QED
    BY <1>2, <1>3, <2>1
<1>4. CASE w = RemoveValue(w.path)
  <2>1. Land(w) = {p \in db : p # w.path /\ \A n \in Media : w.path = Record(n) => p # Fields(n)}
    BY <1>2, <1>4 DEF Land
  <2>2. /\ Record(m) \in Land(w) <=> Record(m) \in db /\ Record(m) # w.path
        /\ Index(m) \in Land(w) <=> Index(m) \in db /\ Index(m) # w.path
    BY <1>1, <2>1
  <2>3. QED
    BY <1>2, <1>4, <2>2
<1>5. QED
  BY <1>3, <1>4, WriteForms

LEMMA DeliverKeepsStore ==
  ASSUME TypeInv, StoreInv, NEW c \in Clients, Deliver(c)
  PROVE  StoreInv'
<1> DEFINE w == queue[c][1]
<1>1. /\ w \in Writes(Path) /\ 1 \in DOMAIN queue[c]
      /\ db' = Land(w)
      /\ UNCHANGED <<slot, used>>
      /\ \A d \in Clients \ {c} : queue'[d] = queue[d]
      /\ \A i \in DOMAIN queue[c] : i \in Nat /\ i >= 1
  BY DeliverSteps
<1>2. \A m \in Media : m \in gone' <=> m \in gone \/ w = RemoveValue(Index(m))
  BY DeliverSteps
<1>3. \A i \in DOMAIN queue'[c] :
        i \in Nat /\ i + 1 \in DOMAIN queue[c] /\ queue'[c][i] = queue[c][i + 1]
  BY DeliverSteps
<1>4. \A i \in DOMAIN queue[c] :
        i = 1 \/ (i - 1 \in DOMAIN queue'[c] /\ queue'[c][i - 1] = queue[c][i])
  BY DeliverSteps
<1> HIDE DEF w
<1>5. ASSUME NEW d \in Clients, NEW p, Mentions(queue'[d], p) PROVE Mentions(queue[d], p)
  BY <1>1, <1>3, <1>5 DEF Mentions
<1>6. ASSUME NEW p, ~Mentions(queue[c], p) PROVE w # SetValue(p) /\ w # RemoveValue(p)
  BY <1>1, <1>6, IssuedIsMentioned DEF w
<1>7. ASSUME NEW m \in Media, Untouched(m) PROVE Untouched(m)'
  BY <1>1, <1>2, <1>5, <1>6, <1>7, LandEffect DEF Untouched
<1>8. FreshIds'
  BY <1>1, <1>7 DEF StoreInv, FreshIds
<1>9. AddedOnce'
  BY <1>1, <1>7 DEF StoreInv, AddedOnce
<1>10. OnItsWay'
  <2>1. SUFFICES ASSUME NEW m \in Media, NEW d \in Clients, NEW i \in DOMAIN queue'[d],
                        queue'[d][i] = SetValue(Index(m))
                 PROVE  /\ m \notin gone' /\ Index(m) \notin db'
                        /\ \A e \in Clients \ {d} :
                             /\ ~Mentions(queue'[e], Record(m))
                             /\ ~Mentions(queue'[e], Index(m))
                             /\ \A s \in Slots : slot'[e][s].on # m
                        /\ \A j \in DOMAIN queue'[d] :
                             queue'[d][j] \in {SetValue(Index(m)), RemoveValue(Index(m)),
                                               RemoveValue(Record(m))} => j >= i
                        /\ \/ Record(m) \in db'
                           \/ \E j \in DOMAIN queue'[d] :
                                j < i /\ queue'[d][j] = SetValue(Record(m))
    BY DEF OnItsWay
  <2>2. CASE d = c
    <3>1. i \in Nat /\ i + 1 \in DOMAIN queue[c] /\ queue[c][i + 1] = SetValue(Index(m))
      BY <1>3, <2>1, <2>2
    <3>2. /\ m \notin gone /\ Index(m) \notin db
          /\ \A e \in Clients \ {c} :
               /\ ~Mentions(queue[e], Record(m)) /\ ~Mentions(queue[e], Index(m))
               /\ \A s \in Slots : slot[e][s].on # m
          /\ \A j \in DOMAIN queue[c] :
               queue[c][j] \in {SetValue(Index(m)), RemoveValue(Index(m)),
                                RemoveValue(Record(m))} => j >= i + 1
          /\ \/ Record(m) \in db
             \/ \E j \in DOMAIN queue[c] : j < i + 1 /\ queue[c][j] = SetValue(Record(m))
      BY <3>1 DEF StoreInv, OnItsWay
    <3>3. w \notin {SetValue(Index(m)), RemoveValue(Index(m)), RemoveValue(Record(m))}
      <4>1. i >= 1
        <5>1. DOMAIN queue'[c] = 1 .. Len(queue'[c])
          BY ClientStepTyped DEF TypeInv, TypeOK
        <5>2. QED
          BY <2>2, <3>1, <5>1
      <4>2. QED
        BY <1>1, <3>1, <3>2, <4>1 DEF w
    <3>4. m \notin gone' /\ Index(m) \notin db'
      BY <1>1, <1>2, <3>2, <3>3, LandEffect
    <3>5. ASSUME NEW j \in DOMAIN queue'[c],
                 queue'[c][j] \in {SetValue(Index(m)), RemoveValue(Index(m)),
                                   RemoveValue(Record(m))}
          PROVE  j >= i
      <4>1. j \in Nat /\ j + 1 >= i + 1
        BY <1>3, <3>2, <3>5
      <4>2. QED
        BY <3>1, <4>1
    <3>6. CASE Record(m) \in db
      <4>1. Record(m) \in db'
        BY <1>1, <3>3, <3>6, LandEffect
      <4>2. QED
        BY <1>1, <2>2, <3>2, <3>4, <3>5, <4>1
    <3>7. CASE \E j \in DOMAIN queue[c] : j < i + 1 /\ queue[c][j] = SetValue(Record(m))
      <4>1. PICK j \in DOMAIN queue[c] : j < i + 1 /\ queue[c][j] = SetValue(Record(m))
        BY <3>7
      <4>2. CASE j = 1
        <5>1. Record(m) \in db'
          BY <1>1, <4>1, <4>2, LandEffect DEF w
        <5>2. QED
          BY <1>1, <2>2, <3>2, <3>4, <3>5, <5>1
      <4>3. CASE j # 1
        <5>1. /\ j - 1 \in DOMAIN queue'[c] /\ queue'[c][j - 1] = SetValue(Record(m))
              /\ j - 1 < i
          BY <1>1, <1>4, <3>1, <4>1, <4>3
        <5>2. QED
          BY <1>1, <2>2, <3>2, <3>4, <3>5, <5>1
      <4>4. QED
        BY <4>2, <4>3
    <3>8. QED
      BY <3>2, <3>6, <3>7
  <2>3. CASE d # c
    <3>1. queue[d][i] = SetValue(Index(m)) /\ i \in DOMAIN queue[d] /\ queue'[d] = queue[d]
      BY <1>1, <2>1, <2>3
    <3>2. /\ m \notin gone /\ Index(m) \notin db
          /\ \A e \in Clients \ {d} :
               /\ ~Mentions(queue[e], Record(m)) /\ ~Mentions(queue[e], Index(m))
               /\ \A s \in Slots : slot[e][s].on # m
          /\ \A j \in DOMAIN queue[d] :
               queue[d][j] \in {SetValue(Index(m)), RemoveValue(Index(m)),
                                RemoveValue(Record(m))} => j >= i
          /\ \/ Record(m) \in db
             \/ \E j \in DOMAIN queue[d] : j < i /\ queue[d][j] = SetValue(Record(m))
      BY <3>1 DEF StoreInv, OnItsWay
    <3>3. /\ w # SetValue(Index(m)) /\ w # RemoveValue(Index(m))
          /\ w # RemoveValue(Record(m))
      BY <1>6, <2>3, <3>2
    <3>4. /\ m \notin gone' /\ Index(m) \notin db'
          /\ Record(m) \in db => Record(m) \in db'
      BY <1>1, <1>2, <3>2, <3>3, LandEffect
    <3>5. \A e \in Clients \ {d} : /\ ~Mentions(queue'[e], Record(m))
                                   /\ ~Mentions(queue'[e], Index(m))
      BY <1>5, <3>2
    <3>6. QED
      BY <1>1, <3>1, <3>2, <3>4, <3>5
  <2>4. QED
    BY <2>2, <2>3
<1>11. IndexFirst'
  <2>1. SUFFICES ASSUME NEW m \in Media, NEW d \in Clients, NEW i \in DOMAIN queue'[d],
                        queue'[d][i] = RemoveValue(Record(m))
                 PROVE  \/ m \in gone'
                        \/ \E j \in DOMAIN queue'[d] :
                             j < i /\ queue'[d][j] = RemoveValue(Index(m))
    BY DEF IndexFirst
  <2>2. CASE d # c
    BY <1>1, <1>2, <2>1, <2>2 DEF StoreInv, IndexFirst
  <2>3. CASE d = c
    <3>1. i \in Nat /\ i + 1 \in DOMAIN queue[c] /\ queue[c][i + 1] = RemoveValue(Record(m))
      BY <1>3, <2>1, <2>3
    <3>2. \/ m \in gone
          \/ \E j \in DOMAIN queue[c] : j < i + 1 /\ queue[c][j] = RemoveValue(Index(m))
      BY <3>1 DEF StoreInv, IndexFirst
    <3>3. CASE \E j \in DOMAIN queue[c] : j < i + 1 /\ queue[c][j] = RemoveValue(Index(m))
      <4>1. PICK j \in DOMAIN queue[c] : j < i + 1 /\ queue[c][j] = RemoveValue(Index(m))
        BY <3>3
      <4>2. CASE j = 1
        BY <1>2, <4>1, <4>2 DEF w
      <4>3. CASE j # 1
        <5>1. /\ j - 1 \in DOMAIN queue'[c] /\ queue'[c][j - 1] = RemoveValue(Index(m))
              /\ j - 1 < i
          BY <1>1, <1>4, <3>1, <4>1, <4>3
        <5>2. QED
          BY <2>3, <5>1
      <4>4. QED
        BY <4>2, <4>3
    <3>4. QED
      BY <1>2, <3>2, <3>3
  <2>4. QED
    BY <2>2, <2>3
(* The head is not a write that has to wait: nothing is ahead of it.       *)
<1>12. ASSUME NEW m \in Media
       PROVE  /\ w = SetValue(Index(m)) => m \notin gone /\ Record(m) \in db
              /\ w = RemoveValue(Record(m)) => m \in gone
  <2>1. \A j \in DOMAIN queue[c] : ~(j < 1)
    BY <1>1
  <2>2. QED
    BY <1>1, <2>1 DEF StoreInv, OnItsWay, IndexFirst, w
<1>13. IndexBacked'
  <2>1. SUFFICES ASSUME NEW m \in Media, Index(m) \in db' PROVE Record(m) \in db'
    BY DEF IndexBacked
  <2>2. Record(m) \in db /\ w # RemoveValue(Record(m))
    <3>1. CASE w = SetValue(Index(m))
      BY <1>12, <3>1, WritesDiffer
    <3>2. CASE w # SetValue(Index(m))
      <4>1. Index(m) \in db
        BY <1>1, <2>1, <3>2, LandEffect
      <4>2. Record(m) \in db /\ m \notin gone
        BY <4>1 DEF StoreInv, IndexBacked, StaysGone
      <4>3. QED
        BY <1>12, <4>2
    <3>3. QED
      BY <3>1, <3>2
  <2>3. QED
    BY <1>1, <2>2, LandEffect
<1>14. StaysGone'
  <2>1. SUFFICES ASSUME NEW m \in Media, m \in gone' PROVE Index(m) \notin db'
    BY ClientStepTyped DEF StaysGone, TypeInv, TypeOK
  <2>2. CASE m \in gone
    <3>1. Index(m) \notin db /\ w # SetValue(Index(m))
      BY <1>12, <2>2 DEF StoreInv, StaysGone
    <3>2. QED
      BY <1>1, <3>1, LandEffect
  <2>3. CASE w = RemoveValue(Index(m))
    BY <1>1, <2>3, LandEffect, WritesDiffer
  <2>4. QED
    BY <1>2, <2>1, <2>2, <2>3
<1>15. QED
  BY <1>8, <1>9, <1>10, <1>11, <1>13, <1>14 DEF StoreInv

LEMMA CrashKeepsStore ==
  ASSUME TypeInv, StoreInv, NEW c \in Clients, Crash(c)
  PROVE  StoreInv'
<1>1. /\ UNCHANGED <<db, used, gone>>
      /\ queue'[c] = <<>> /\ \A d \in Clients \ {c} : queue'[d] = queue[d]
  BY DEF Crash, TypeInv, TypeOK
<1>2. \A d \in Clients, t \in Slots :
        slot'[d][t] = IF d = c THEN Closed ELSE slot[d][t]
  BY DEF Crash, TypeInv, TypeOK
<1>3. ASSUME NEW d \in Clients, NEW i \in DOMAIN queue'[d]
      PROVE  d # c /\ queue'[d] = queue[d]
  BY <1>1
<1>4. ASSUME NEW d \in Clients, NEW p, Mentions(queue'[d], p) PROVE Mentions(queue[d], p)
  BY <1>3, <1>4 DEF Mentions
<1>5. ASSUME NEW m \in Media, Untouched(m) PROVE Untouched(m)'
  BY <1>1, <1>4, <1>5 DEF Untouched
<1>6. ASSUME NEW m \in Media, NEW d \in Clients, NEW t \in Slots, slot'[d][t].on = m
      PROVE  slot'[d][t] = slot[d][t]
  BY <1>2, <1>6, SlotFields
<1>7. FreshIds'
  BY <1>1, <1>5, <1>6 DEF StoreInv, FreshIds
<1>8. AddedOnce'
  <2>1. SUFFICES ASSUME NEW m \in Media, NEW d \in Clients, NEW t \in Slots,
                        slot'[d][t].on = m, slot'[d][t].act = "add"
                 PROVE  /\ Untouched(m)'
                        /\ \A e \in Clients, u \in Slots :
                             slot'[e][u].on = m => e = d /\ u = t
    BY DEF AddedOnce
  <2>2. slot[d][t].on = m /\ slot[d][t].act = "add"
    BY <1>6, <2>1
  <2>3. QED
    BY <1>5, <1>6, <2>2 DEF StoreInv, AddedOnce
<1>9. OnItsWay'
  <2>1. SUFFICES ASSUME NEW m \in Media, NEW d \in Clients, NEW i \in DOMAIN queue'[d],
                        queue'[d][i] = SetValue(Index(m))
                 PROVE  /\ m \notin gone' /\ Index(m) \notin db'
                        /\ \A e \in Clients \ {d} :
                             /\ ~Mentions(queue'[e], Record(m))
                             /\ ~Mentions(queue'[e], Index(m))
                             /\ \A s \in Slots : slot'[e][s].on # m
                        /\ \A j \in DOMAIN queue'[d] :
                             queue'[d][j] \in {SetValue(Index(m)), RemoveValue(Index(m)),
                                               RemoveValue(Record(m))} => j >= i
                        /\ \/ Record(m) \in db'
                           \/ \E j \in DOMAIN queue'[d] :
                                j < i /\ queue'[d][j] = SetValue(Record(m))
    BY DEF OnItsWay
  <2>2. d # c /\ queue'[d] = queue[d]
    BY <1>3
  <2>3. /\ m \notin gone /\ Index(m) \notin db
        /\ \A e \in Clients \ {d} :
             /\ ~Mentions(queue[e], Record(m)) /\ ~Mentions(queue[e], Index(m))
             /\ \A s \in Slots : slot[e][s].on # m
        /\ \A j \in DOMAIN queue[d] :
             queue[d][j] \in {SetValue(Index(m)), RemoveValue(Index(m)),
                              RemoveValue(Record(m))} => j >= i
        /\ \/ Record(m) \in db
           \/ \E j \in DOMAIN queue[d] : j < i /\ queue[d][j] = SetValue(Record(m))
    BY <2>1, <2>2 DEF StoreInv, OnItsWay
  <2>4. \A e \in Clients \ {d} :
          /\ ~Mentions(queue'[e], Record(m)) /\ ~Mentions(queue'[e], Index(m))
          /\ \A s \in Slots : slot'[e][s].on # m
    BY <1>4, <1>6, <2>3
  <2>5. QED
    BY <1>1, <2>2, <2>3, <2>4
<1>10. IndexFirst'
  BY <1>1, <1>3 DEF StoreInv, IndexFirst
<1>11. IndexBacked' /\ StaysGone'
  BY <1>1 DEF StoreInv, IndexBacked, StaysGone
<1>12. QED
  BY <1>7, <1>8, <1>9, <1>10, <1>11 DEF StoreInv

(* Every other step keeps to the items its notepad is on, and writes       *)
(* nothing of a record or of an index entry.                               *)
QuietSteps(c, s) ==
  \/ \E t \in Threads \union {NoMedia} : OpenEmpty(c, s, t)
  \/ Close(c, s)
  \/ \E v \in BOOLEAN : SaveItem(c, s, v)
  \/ Trash(c, s)
  \/ UploadEnds(c, s) \/ CheckThread(c, s) \/ UpdateFails(c, s)
  \/ Journaled(c, s) \/ Update(c, s)

LEMMA QuietStepsKeepSlots ==
  ASSUME TypeInv, NEW c \in Clients, NEW s \in Slots, QuietSteps(c, s)
  PROVE  SlotsKept
<1> DEFINE r == slot[c][s]
<1>1. ASSUME NEW step, NEW v, Puts(c, s, Working(step, r.act, r.on, v)) PROVE SlotsKept
  BY <1>1, PutKeepsSlots, SlotFields
<1>2. ASSUME Puts(c, s, BackTo(r.on, r.act)) PROVE SlotsKept
  BY <1>2, PutKeepsSlots, SlotFields
<1>3. ASSUME NEW t \in Threads \union {NoMedia}, OpenEmpty(c, s, t) PROVE SlotsKept
  <2>1. Puts(c, s, Empty(t))
    BY <1>3, TapSteps
  <2>2. QED
    BY <2>1, PutKeepsSlots, SlotFields
<1>4. CASE Close(c, s)
  <2>1. Puts(c, s, Closed)
    BY <1>4, TapSteps
  <2>2. QED
    BY <2>1, PutKeepsSlots, SlotFields
<1>5. ASSUME NEW v \in BOOLEAN, SaveItem(c, s, v) PROVE SlotsKept
  <2>1. r.act = "update"
    BY <1>5 DEF SaveItem, OnItem
  <2>2. PICK step : Puts(c, s, Working(step, "update", r.on, v))
    BY <1>5, TapSteps
  <2>3. QED
    BY <1>1, <2>1, <2>2
<1>6. CASE Trash(c, s)
  <2>1. PICK step : Puts(c, s, Working(step, "remove", r.on, FALSE))
    BY <1>6, TapSteps
  <2>2. r.act = "update"
    BY <1>6 DEF Trash, OnItem
  <2>3. /\ Working(step, "remove", r.on, FALSE).on = r.on
        /\ Working(step, "remove", r.on, FALSE).act = "remove"
    BY DEF Working
  <2>4. QED
    BY <2>1, <2>2, <2>3, PutKeepsSlots
<1>7. CASE UploadEnds(c, s)
  <2>1. r.act = "add"
    BY <1>7, SlotsGood DEF UploadEnds, SlotFits
  <2>2. QED
    BY <1>1, <1>2, <1>7, <2>1, AnswerSteps
<1>8. CASE CheckThread(c, s)
  <2>1. /\ r.act = "remove"
        /\ \/ \E step : Puts(c, s, Working(step, "remove", r.on, FALSE))
           \/ Puts(c, s, BackTo(r.on, r.act))
    BY <1>8, AnswerSteps
  <2>2. QED
    BY <1>1, <1>2, <2>1
<1>9. CASE UpdateFails(c, s) \/ Update(c, s)
  BY <1>2, <1>9, AnswerSteps
<1>10. CASE Journaled(c, s)
  BY <1>1, <1>10, AnswerSteps
<1>11. QED
  BY <1>3, <1>4, <1>5, <1>6, <1>7, <1>8, <1>9, <1>10 DEF QuietSteps

LEMMA QuietStepsKeepQueues ==
  ASSUME TypeInv, NEW c \in Clients, NEW s \in Slots, QuietSteps(c, s)
  PROVE  QueuesKept /\ UNCHANGED <<db, gone, used>>
<1>1. ASSUME NEW ws, Quiet(ws), Issue(c, ws) PROVE QueuesKept /\ db' = db
  BY <1>1, IssueKeepsQueues
<1>2. CASE \/ \E t \in Threads \union {NoMedia} : OpenEmpty(c, s, t)
           \/ Close(c, s) \/ Trash(c, s)
           \/ UploadEnds(c, s) \/ CheckThread(c, s) \/ UpdateFails(c, s)
  BY <1>2, SameQueuesKept DEF OpenEmpty, Close, Trash, UploadEnds, CheckThread,
                              UpdateFails, backendVars, ghostVars
<1>3. ASSUME NEW v \in BOOLEAN, SaveItem(c, s, v)
      PROVE  QueuesKept /\ UNCHANGED <<db, gone, used>>
  <2>1. slot[c][s].on \in Media
    BY <1>3, SlotsGood DEF SaveItem, OnItem
  <2>2. Quiet(<<SetValue(Fields(slot[c][s].on))>>)
    BY <2>1, NewsIsQuiet DEF Acts
  <2>3. Issue(c, <<SetValue(Fields(slot[c][s].on))>>) /\ UNCHANGED <<gone, used>>
    BY <1>3 DEF SaveItem, ghostVars
  <2>4. QED
    BY <1>1, <2>2, <2>3
<1>4. CASE Journaled(c, s) \/ Update(c, s)
  <2>1. \E ws : Quiet(ws) /\ Issue(c, ws)
    BY <1>4, AnswerWrites
  <2>2. UNCHANGED <<gone, used>>
    BY <1>4 DEF Journaled, Update, ghostVars
  <2>3. QED
    BY <1>1, <2>1, <2>2
<1>5. QED
  BY <1>2, <1>3, <1>4 DEF QuietSteps

LEMMA StoreInvariant == Spec => [](TypeInv /\ StoreInv)
<1>1. Init => StoreInv
  <2>1. SUFFICES ASSUME Init PROVE StoreInv
    OBVIOUS
  <2>2. /\ db = {} /\ gone = {}
        /\ \A c \in Clients : queue[c] = <<>>
        /\ \A c \in Clients, s \in Slots : slot[c][s].on = NoMedia
    BY <2>1, SlotFields DEF Init
  <2>3. \A c \in Clients : \A p : ~Mentions(queue[c], p)
    BY <2>2 DEF Mentions
  <2>4. FreshIds /\ AddedOnce
    <3>1. \A c \in Clients, s \in Slots : \A m \in Media : slot[c][s].on # m
      BY <2>2, MediaAssumption
    <3>2. \A m \in Media : Untouched(m)
      BY <2>2, <2>3 DEF Untouched
    <3>3. QED
      BY <3>1, <3>2 DEF FreshIds, AddedOnce
  <2>5. OnItsWay /\ IndexFirst /\ IndexBacked /\ StaysGone
    BY <2>2 DEF OnItsWay, IndexFirst, IndexBacked, StaysGone
  <2>6. QED
    BY <2>4, <2>5 DEF StoreInv
<1>2. TypeInv /\ StoreInv /\ [Next]_vars => StoreInv'
  <2>1. SUFFICES ASSUME TypeInv, StoreInv, [Next]_vars PROVE StoreInv'
    OBVIOUS
  <2>2. CASE UNCHANGED vars
    <3>1. QueuesKept /\ SlotsKept /\ UNCHANGED <<db, gone, used>>
      BY <2>2, SameQueuesKept DEF vars, backendVars, ghostVars, SlotsKept
    <3>2. QED
      BY <2>1, <3>1, QuietStepKeepsStore
  <2>3. ASSUME NEW c \in Clients, NEW s \in Slots, QuietSteps(c, s) PROVE StoreInv'
    BY <2>1, <2>3, QuietStepsKeepSlots, QuietStepsKeepQueues, QuietStepKeepsStore
  <2>4. ASSUME NEW c \in Clients, NEW s \in Slots, UserStep(c, s) \/ Answer(c, s)
        PROVE  StoreInv'
    <3>1. \/ QuietSteps(c, s)
          \/ \E m \in Media : OpenItem(c, s, m)
          \/ \E m \in Media, v \in BOOLEAN : SaveNew(c, s, m, v)
          \/ Remove(c, s)
          \/ Add(c, s)
      BY <2>4 DEF UserStep, Answer, QuietSteps
    <3>2. QED
      BY <2>1, <2>3, <3>1, OpenItemKeepsStore, SaveNewKeepsStore, RemoveKeepsStore,
         AddKeepsStore
  <2>5. ASSUME NEW c \in Clients, NEW f \in Followers, LoadFollower(c, f) PROVE StoreInv'
    <3>1. QueuesKept /\ SlotsKept /\ UNCHANGED <<db, gone, used>>
      BY <2>5, SameQueuesKept DEF LoadFollower, backendVars, ghostVars, SlotsKept
    <3>2. QED
      BY <2>1, <3>1, QuietStepKeepsStore
  <2>6. ASSUME NEW c \in Clients, Deliver(c) \/ Crash(c) PROVE StoreInv'
    BY <2>1, <2>6, DeliverKeepsStore, CrashKeepsStore
  <2>7. QED
    BY <2>1, <2>2, <2>4, <2>5, <2>6 DEF Next
<1>3. QED
  BY <1>1, <1>2, TypeInvariant, PTL DEF Spec

(* An item that is listed has its record in the database, for any number   *)
(* of clients, notepads, items and kills.                                  *)
THEOREM ItemsBacked == Spec => []IndexBacked
<1>1. StoreInv => IndexBacked
  BY DEF StoreInv
<1>2. QED
  BY <1>1, StoreInvariant, PTL

(* What was taken off a list never comes back to it.                       *)
THEOREM RemovedStayAway == Spec => []StaysGone
<1>1. StoreInv => StaysGone
  BY DEF StoreInv
<1>2. QED
  BY <1>1, StoreInvariant, PTL
-----------------------------------------------------------------------------
(* The store implements MediaContract.                                     *)

LEMMA DeliverImplements ==
  ASSUME TypeInv, StoreInv, NEW c \in Clients, Deliver(c)
  PROVE  [Contract!Next]_(Contract!vars)
<1> DEFINE w == queue[c][1]
           R == {m \in Media : Record(m) \in db}
           L == {m \in Media : Index(m) \in db}
<1>1. /\ w \in Writes(Path) /\ 1 \in DOMAIN queue[c]
      /\ db' = Land(w)
      /\ gone' = gone \union {m \in Media : w = RemoveValue(Index(m))}
      /\ \A i \in DOMAIN queue[c] : ~(i < 1)
  BY DeliverSteps
<1>2. /\ \A m \in Media : w = SetValue(Index(m)) => m \in R \ gone /\ m \notin L
      /\ \A m \in Media : w = RemoveValue(Record(m)) => m \notin L
  BY <1>1 DEF StoreInv, OnItsWay, IndexFirst, StaysGone
<1> HIDE DEF w
<1>3. \A m \in Media : /\ m \in R' <=> \/ w = SetValue(Record(m))
                                       \/ m \in R /\ w # RemoveValue(Record(m))
                       /\ m \in L' <=> \/ w = SetValue(Index(m))
                                       \/ m \in L /\ w # RemoveValue(Index(m))
  BY <1>1, LandEffect
<1>4. R \subseteq Media /\ R' \subseteq Media /\ L \subseteq Media /\ L' \subseteq Media
  OBVIOUS
<1> HIDE DEF R, L
<1>5. CASE \E m \in Media : w = SetValue(Record(m))
  <2>1. PICK m \in Media : w = SetValue(Record(m))
    BY <1>5
  <2>2. \A n \in Media : /\ w = SetValue(Record(n)) <=> n = m
                         /\ w # RemoveValue(Record(n)) /\ w # SetValue(Index(n))
                         /\ w # RemoveValue(Index(n))
    BY <2>1, WritesDiffer, PathsDiffer
  <2>3. R' = R \union {m} /\ L' = L /\ gone' = gone
    BY <1>1, <1>3, <1>4, <2>2
  <2>4. Contract!Store(m)
    BY <2>3 DEF Contract!Store, R, L
  <2>5. QED
    BY <2>4 DEF Contract!Next
<1>6. CASE \E m \in Media : w = SetValue(Index(m))
  <2>1. PICK m \in Media : w = SetValue(Index(m))
    BY <1>6
  <2>2. \A n \in Media : /\ w = SetValue(Index(n)) <=> n = m
                         /\ w # RemoveValue(Record(n)) /\ w # SetValue(Record(n))
                         /\ w # RemoveValue(Index(n))
    BY <2>1, WritesDiffer, PathsDiffer
  <2>3. R' = R /\ L' = L \union {m} /\ gone' = gone
    BY <1>1, <1>3, <1>4, <2>2
  <2>4. Contract!Publish(m)
    BY <1>2, <2>1, <2>3 DEF Contract!Publish, R, L
  <2>5. QED
    BY <2>4 DEF Contract!Next
<1>7. CASE \E m \in Media : w = RemoveValue(Index(m))
  <2>1. PICK m \in Media : w = RemoveValue(Index(m))
    BY <1>7
  <2>2. \A n \in Media : /\ w = RemoveValue(Index(n)) <=> n = m
                         /\ w # RemoveValue(Record(n)) /\ w # SetValue(Record(n))
                         /\ w # SetValue(Index(n))
    BY <2>1, WritesDiffer, PathsDiffer
  <2>3. R' = R /\ L' = L \ {m} /\ gone' = gone \union {m}
    BY <1>1, <1>3, <1>4, <2>2
  <2>4. Contract!Withdraw(m)
    BY <2>3 DEF Contract!Withdraw, R, L
  <2>5. QED
    BY <2>4 DEF Contract!Next
<1>8. CASE \E m \in Media : w = RemoveValue(Record(m))
  <2>1. PICK m \in Media : w = RemoveValue(Record(m))
    BY <1>8
  <2>2. \A n \in Media : /\ w = RemoveValue(Record(n)) <=> n = m
                         /\ w # SetValue(Index(n)) /\ w # SetValue(Record(n))
                         /\ w # RemoveValue(Index(n))
    BY <2>1, WritesDiffer, PathsDiffer
  <2>3. R' = R \ {m} /\ L' = L /\ gone' = gone
    BY <1>1, <1>3, <1>4, <2>2
  <2>4. Contract!Erase(m)
    BY <1>2, <2>1, <2>3 DEF Contract!Erase, R, L
  <2>5. QED
    BY <2>4 DEF Contract!Next
<1>9. CASE \A m \in Media : w \notin {SetValue(Record(m)), SetValue(Index(m)),
                                     RemoveValue(Record(m)), RemoveValue(Index(m))}
  <2>1. R' = R /\ L' = L /\ gone' = gone
    BY <1>1, <1>3, <1>4, <1>9
  <2>2. QED
    BY <2>1 DEF Contract!vars, R, L
<1>10. QED
  BY <1>5, <1>6, <1>7, <1>8, <1>9

(* Every step but the arrival of a write leaves what readers see alone.    *)
LEMMA OthersStutter ==
  ASSUME [Next]_vars, \A c \in Clients : ~Deliver(c)
  PROVE  UNCHANGED Contract!vars
<1>1. ASSUME NEW c \in Clients, NEW s \in Slots, UserStep(c, s) PROVE UNCHANGED <<db, gone>>
  BY <1>1 DEF UserStep, OpenEmpty, OpenItem, Close, SaveNew, SaveItem, Trash, Issue,
              backendVars, ghostVars
<1>2. ASSUME NEW c \in Clients, NEW s \in Slots, Answer(c, s) PROVE UNCHANGED <<db, gone>>
  <2>1. CASE UploadEnds(c, s) \/ CheckThread(c, s) \/ UpdateFails(c, s) \/ Journaled(c, s)
    BY <2>1 DEF UploadEnds, CheckThread, UpdateFails, Journaled, Issue, backendVars, ghostVars
  <2>2. CASE Remove(c, s) \/ Add(c, s) \/ Update(c, s)
    BY <2>2 DEF Remove, Add, Update, Issue, ghostVars
  <2>3. QED
    BY <1>2, <2>1, <2>2 DEF Answer
<1>3. UNCHANGED <<db, gone>>
  BY <1>1, <1>2 DEF Next, vars, backendVars, ghostVars, LoadFollower, Crash
<1>4. QED
  BY <1>3 DEF Contract!vars

(* The clients, queues and journals implement the contract: the initial    *)
(* states are its initial states, and each step a step of it or a stutter. *)
THEOREM Implements == Spec => ImplementsContract
<1>1. Init => Contract!Init
  BY DEF Init, Contract!Init
<1>2. TypeInv /\ StoreInv /\ [Next]_vars => [Contract!Next]_(Contract!vars)
  BY DeliverImplements, OthersStutter
<1>3. QED
  BY <1>1, <1>2, StoreInvariant, PTL DEF Spec, ImplementsContract, Contract!Spec

-----------------------------------------------------------------------------
(* What a notepad writes.                                                  *)

(* A write of a notepad in state r: of the item it is on, or of the news   *)
(* of what it does to it.                                                  *)
Belongs(r, w) ==
  \/ w = SetValue(Journal(Owner, r.act, r.on))
  \/ \E u \in Readers : w = SetValue(Feed(u, r.act, r.on))
  \/ r.act = "add" /\ w \in {SetValue(Record(r.on)), SetValue(Index(r.on))}
  \/ r.act = "update" /\ w = SetValue(Fields(r.on))
  \/ r.act = "remove" /\ w \in {RemoveValue(Index(r.on)), RemoveValue(Record(r.on))}

(* What it writes at once: the index entry comes after the journal, unless *)
(* the journal was written before, and the news of an item that is added   *)
(* come with its record.                                                   *)
Says(r, ws) ==
  /\ ws \in Seq(Writes(Path))
  /\ \A j \in DOMAIN ws :
       /\ r.on \in Media /\ r.act \in Acts
       /\ Belongs(r, ws[j])
       /\ ws[j].path = Index(r.on) =>
            \/ r.act = "add" /\ r.step = "feed"
            \/ \E k \in DOMAIN ws : k < j /\ ws[k] = SetValue(Journal(Owner, r.act, r.on))
       /\ \A u \in Readers : ws[j] = SetValue(Feed(u, "add", r.on)) =>
            \E k \in DOMAIN ws : ws[k] = SetValue(Record(r.on))

(* Client c adds ws to its queue.                                          *)
Extends(c, ws) ==
  /\ ws \in Seq(Writes(Path))
  /\ UNCHANGED <<db, gone>>
  /\ queue'[c] = queue[c] \o ws
  /\ \A d \in Clients \ {c} : queue'[d] = queue[d]

LEMMA NewsPathsDiffer ==
  ASSUME NEW m \in Media, NEW n \in Media
  PROVE  \A u, v, a, b :
           /\ Journal(u, a, m) # Fields(n) /\ Feed(u, a, m) # Fields(n)
           /\ Journal(u, a, m) # Feed(v, b, n)
           /\ Journal(u, a, m) = Journal(v, b, n) => a = b /\ m = n
           /\ Feed(u, a, m) = Feed(v, b, n) => u = v /\ a = b /\ m = n
           /\ Fields(m) = Fields(n) => m = n
<1>1. /\ Collection(m) \in {"Thread_", "Body", "Photo"}
      /\ Collection(n) \in {"Thread_", "Body", "Photo"}
  BY DEF Collection
<1>2. QED
  BY <1>1 DEF Journal, Feed, Fields

LEMMA ExtendsPositions ==
  ASSUME TypeInv, NEW c \in Clients, NEW ws, Extends(c, ws)
  PROVE  /\ Len(queue[c]) \in Nat
         /\ \A d \in Clients : \A i \in DOMAIN queue[d] :
              /\ i \in Nat /\ i <= Len(queue[d]) /\ i >= 1
              /\ i \in DOMAIN queue'[d] /\ queue'[d][i] = queue[d][i]
         /\ \A d \in Clients : \A i \in DOMAIN queue'[d] :
              \/ i \in DOMAIN queue[d]
              \/ d = c /\ \E j \in DOMAIN ws : i = Len(queue[c]) + j /\ queue'[c][i] = ws[j]
         /\ \A j \in DOMAIN ws :
              /\ j \in Nat /\ j >= 1
              /\ Len(queue[c]) + j \in DOMAIN queue'[c]
              /\ queue'[c][Len(queue[c]) + j] = ws[j]
              /\ Len(queue[c]) + j <= Len(queue'[c])
         /\ \A d \in Clients : Len(queue[d]) \in Nat /\ Len(queue'[d]) \in Nat
                               /\ Len(queue[d]) <= Len(queue'[d])
<1>1. /\ \A d \in Clients : queue[d] \in Seq(Writes(Path)) /\ Len(queue[d]) \in Nat
      /\ ws \in Seq(Writes(Path)) /\ Len(ws) \in Nat
      /\ \A d \in Clients : DOMAIN queue[d] = 1 .. Len(queue[d])
      /\ DOMAIN ws = 1 .. Len(ws)
  BY DEF TypeInv, TypeOK, Extends
<1> DEFINE q == queue[c]
<1>2. /\ queue'[c] = q \o ws /\ q \in Seq(Writes(Path))
      /\ \A d \in Clients \ {c} : queue'[d] = queue[d]
  BY <1>1 DEF Extends
<1> HIDE DEF q
<1>3. /\ Len(q \o ws) = Len(q) + Len(ws)
      /\ DOMAIN (q \o ws) = 1 .. (Len(q) + Len(ws))
      /\ \A i \in DOMAIN q : (q \o ws)[i] = q[i]
      /\ \A i \in DOMAIN ws : (q \o ws)[Len(q) + i] = ws[i]
      /\ \A i \in DOMAIN (q \o ws) :
           i \in DOMAIN q \/ \E j \in DOMAIN ws : i = Len(q) + j
  <2>1. q \in Seq(Writes(Path)) /\ ws \in Seq(Writes(Path))
    BY <1>1, <1>2
  <2>2. Len(q \o ws) = Len(q) + Len(ws)
    BY <2>1
  <2>3. QED
    BY <2>1, <2>2, AppendPositions
<1>4. /\ Len(queue'[c]) = Len(queue[c]) + Len(ws)
      /\ DOMAIN queue'[c] = 1 .. (Len(queue[c]) + Len(ws))
      /\ \A i \in DOMAIN queue[c] : queue'[c][i] = queue[c][i]
      /\ \A i \in DOMAIN ws : queue'[c][Len(queue[c]) + i] = ws[i]
      /\ \A i \in DOMAIN queue'[c] :
           i \in DOMAIN queue[c] \/ \E j \in DOMAIN ws : i = Len(queue[c]) + j
  BY <1>2, <1>3 DEF q
<1>5. ASSUME NEW d \in Clients, NEW i \in DOMAIN queue[d]
      PROVE  /\ i \in Nat /\ i <= Len(queue[d]) /\ i >= 1
             /\ i \in DOMAIN queue'[d] /\ queue'[d][i] = queue[d][i]
  BY <1>1, <1>2, <1>4
<1>6. ASSUME NEW d \in Clients, NEW i \in DOMAIN queue'[d]
      PROVE  \/ i \in DOMAIN queue[d]
             \/ d = c /\ \E j \in DOMAIN ws : i = Len(queue[c]) + j /\ queue'[c][i] = ws[j]
  BY <1>2, <1>4
<1>7. ASSUME NEW j \in DOMAIN ws
      PROVE  /\ j \in Nat /\ j >= 1
             /\ Len(queue[c]) + j \in DOMAIN queue'[c]
             /\ queue'[c][Len(queue[c]) + j] = ws[j]
             /\ Len(queue[c]) + j <= Len(queue'[c])
  BY <1>1, <1>4
<1>8. ASSUME NEW d \in Clients
      PROVE  Len(queue[d]) \in Nat /\ Len(queue'[d]) \in Nat /\ Len(queue[d]) <= Len(queue'[d])
  BY <1>1, <1>2, <1>4
<1>9. QED
  BY <1>1, <1>5, <1>6, <1>7, <1>8

LEMMA IssueExtends ==
  ASSUME TypeInv, NEW c \in Clients, NEW ws \in Seq(Writes(Path)), Issue(c, ws), gone' = gone
  PROVE  Extends(c, ws)
  BY IssueTyped DEF Extends

LEMMA SilenceExtends ==
  ASSUME TypeInv, NEW c \in Clients, UNCHANGED <<db, queue, gone>>
  PROVE  Extends(c, <<>>)
<1>1. queue[c] \in Seq(Writes(Path))
  BY DEF TypeInv, TypeOK
<1>2. queue[c] \o <<>> = queue[c] /\ <<>> \in Seq(Writes(Path))
  BY <1>1
<1>3. QED
  BY <1>2 DEF Extends

(* Which paths of two items can be the same.                               *)
LEMMA PathsOf ==
  ASSUME NEW o \in Media, NEW m \in Media
  PROVE  /\ Record(o) = Record(m) => o = m
         /\ Index(o) = Index(m) => o = m
         /\ Fields(o) = Fields(m) => o = m
         /\ Record(o) # Index(m) /\ Record(m) # Index(o)
         /\ Fields(o) # Record(m) /\ Fields(o) # Index(m)
         /\ Fields(m) # Record(o) /\ Fields(m) # Index(o)
         /\ \A u, a : Feed(u, a, m) \notin {Record(o), Index(o), Fields(o)}
         /\ \A v, b, u, a :
              /\ Journal(v, b, o) \notin {Record(m), Index(m), Fields(m), Feed(u, a, m)}
              /\ Feed(v, b, o) \notin {Record(m), Index(m), Fields(m)}
              /\ Feed(v, b, o) = Feed(u, a, m) => v = u /\ b = a /\ o = m
<1>1. /\ Record(o) = Record(m) => o = m
      /\ Index(o) = Index(m) => o = m
      /\ Fields(o) = Fields(m) => o = m
      /\ Record(o) # Index(m) /\ Record(m) # Index(o)
      /\ Fields(o) # Record(m) /\ Fields(o) # Index(m)
      /\ Fields(m) # Record(o) /\ Fields(m) # Index(o)
  BY PathsDiffer, NewsPathsDiffer
<1>2. \A u, a : /\ Feed(u, a, m) # Record(o) /\ Feed(u, a, m) # Index(o)
                /\ Feed(u, a, m) # Fields(o)
  BY PathsDiffer, NewsPathsDiffer
<1>3. \A v, b, u, a :
        /\ Journal(v, b, o) \notin {Record(m), Index(m), Fields(m), Feed(u, a, m)}
        /\ Feed(v, b, o) \notin {Record(m), Index(m), Fields(m)}
        /\ Feed(v, b, o) = Feed(u, a, m) => v = u /\ b = a /\ o = m
  BY PathsDiffer, NewsPathsDiffer
<1>4. QED
  BY <1>1, <1>2, <1>3

(* What is written at a path of item m belongs to m and to the operation.  *)
LEMMA BelongsPaths ==
  ASSUME NEW r, NEW w, r.on \in Media, r.act \in Acts, Belongs(r, w), NEW m \in Media
  PROVE  /\ w.path = Index(m)  => /\ m = r.on
                                  /\ \/ r.act = "add" /\ w = SetValue(Index(m))
                                     \/ r.act = "remove" /\ w = RemoveValue(Index(m))
         /\ w.path = Record(m) => /\ m = r.on
                                  /\ \/ r.act = "add" /\ w = SetValue(Record(m))
                                     \/ r.act = "remove" /\ w = RemoveValue(Record(m))
         /\ w.path = Fields(m) => m = r.on /\ r.act = "update" /\ w = SetValue(Fields(m))
         /\ \A u, a : w.path = Feed(u, a, m) =>
              m = r.on /\ a = r.act /\ u \in Readers /\ w = SetValue(Feed(u, a, m))
         /\ \A u, a : w.path = Journal(u, a, m) => w = SetValue(Journal(u, a, m))
<1> DEFINE o == r.on
<1>1. CASE w = SetValue(Journal(Owner, r.act, o))
  <2>1. w.path = Journal(Owner, r.act, o)
    BY <1>1, WritesDiffer
  <2>2. QED
    BY <1>1, <2>1, PathsOf
<1>2. CASE \E u \in Readers : w = SetValue(Feed(u, r.act, o))
  <2>1. PICK v \in Readers : w = SetValue(Feed(v, r.act, o))
    BY <1>2
  <2>2. w.path = Feed(v, r.act, o)
    BY <2>1, WritesDiffer
  <2>3. QED
    BY <2>1, <2>2, PathsOf
<1>3. CASE r.act = "add" /\ w \in {SetValue(Record(o)), SetValue(Index(o))}
  <2>1. \/ w.path = Record(o) /\ w = SetValue(Record(o))
        \/ w.path = Index(o) /\ w = SetValue(Index(o))
    BY <1>3, WritesDiffer
  <2>2. QED
    BY <1>3, <2>1, PathsOf
<1>4. CASE r.act = "update" /\ w = SetValue(Fields(o))
  <2>1. w.path = Fields(o)
    BY <1>4, WritesDiffer
  <2>2. QED
    BY <1>4, <2>1, PathsOf
<1>5. CASE r.act = "remove" /\ w \in {RemoveValue(Index(o)), RemoveValue(Record(o))}
  <2>1. \/ w.path = Record(o) /\ w = RemoveValue(Record(o))
        \/ w.path = Index(o) /\ w = RemoveValue(Index(o))
    BY <1>5, WritesDiffer
  <2>2. QED
    BY <1>5, <2>1, PathsOf
<1>6. QED
  BY <1>1, <1>2, <1>3, <1>4, <1>5 DEF Belongs

(* The feed items of an operation.                                         *)
LEMMA FeedWritesAre ==
  ASSUME NEW m \in Media, NEW a \in Acts, NEW fs \in Seq(Followers)
  PROVE  /\ FeedWrites(a, m, fs) \in Seq(Writes(Path))
         /\ \A i \in DOMAIN FeedWrites(a, m, fs) :
              \E u \in Readers : FeedWrites(a, m, fs)[i] = SetValue(Feed(u, a, m))
<1> DEFINE one == <<SetValue(Feed(Owner, a, m))>>
           gs == [i \in DOMAIN fs |-> SetValue(Feed(fs[i], a, m))]
           W == {SetValue(Feed(u, a, m)) : u \in Readers}
<1>1. W \subseteq Writes(Path)
  <2>1. ASSUME NEW u \in Readers PROVE SetValue(Feed(u, a, m)) \in Writes(Path)
    <3>1. Feed(u, a, m) \in Path
      BY PathsTyped
    <3>2. QED
      BY <3>1 DEF SetValue, Writes
  <2>2. QED
    BY <2>1
<1>2. one \in Seq(W)
  BY DEF Readers
<1>3. gs \in Seq(W)
  <2>1. \A i \in DOMAIN fs : gs[i] \in W
    BY DEF Readers
  <2>2. DOMAIN fs = 1 .. Len(fs) /\ Len(fs) \in Nat
    OBVIOUS
  <2>3. gs \in [1 .. Len(fs) -> W]
    BY <2>1, <2>2
  <2> HIDE DEF gs, W
  <2>4. QED
    BY <2>2, <2>3
<1> HIDE DEF W, one, gs
<1>4. FeedWrites(a, m, fs) = one \o gs
  BY DEF FeedWrites, one, gs
<1>5. one \o gs \in Seq(W) /\ one \o gs \in Seq(Writes(Path))
  BY <1>1, <1>2, <1>3
<1>6. \A i \in DOMAIN (one \o gs) : (one \o gs)[i] \in W
  BY <1>5
<1>7. QED
  BY <1>4, <1>5, <1>6 DEF W

(* Of the writes on one item only one is at its index entry, and news of   *)
(* its addition are told apart from all others.                            *)
LEMMA WritesOf ==
  ASSUME NEW o \in Media, NEW act
  PROVE  /\ SetValue(Journal(Owner, act, o)).path # Index(o)
         /\ \A u : SetValue(Feed(u, act, o)).path # Index(o)
         /\ SetValue(Fields(o)).path # Index(o)
         /\ SetValue(Record(o)).path # Index(o) /\ RemoveValue(Record(o)).path # Index(o)
         /\ \A u : /\ SetValue(Journal(Owner, act, o)) # SetValue(Feed(u, "add", o))
                   /\ SetValue(Fields(o)) # SetValue(Feed(u, "add", o))
                   /\ SetValue(Record(o)) # SetValue(Feed(u, "add", o))
                   /\ SetValue(Index(o)) # SetValue(Feed(u, "add", o))
                   /\ RemoveValue(Record(o)) # SetValue(Feed(u, "add", o))
                   /\ RemoveValue(Index(o)) # SetValue(Feed(u, "add", o))
         /\ act # "add" =>
              \A u, v : SetValue(Feed(u, act, o)) # SetValue(Feed(v, "add", o))
<1>1. /\ Journal(Owner, act, o) # Index(o) /\ \A u : Feed(u, act, o) # Index(o)
      /\ Fields(o) # Index(o) /\ Record(o) # Index(o)
      /\ \A u : /\ Journal(Owner, act, o) # Feed(u, "add", o)
                /\ Fields(o) # Feed(u, "add", o) /\ Record(o) # Feed(u, "add", o)
                /\ Index(o) # Feed(u, "add", o)
      /\ \A u, v : Feed(u, act, o) = Feed(v, "add", o) => act = "add"
  BY PathsOf
<1>2. \A p : SetValue(p).path = p /\ RemoveValue(p).path = p
  BY WritesDiffer
<1>3. /\ SetValue(Journal(Owner, act, o)).path # Index(o)
      /\ \A u : SetValue(Feed(u, act, o)).path # Index(o)
      /\ SetValue(Fields(o)).path # Index(o)
      /\ SetValue(Record(o)).path # Index(o) /\ RemoveValue(Record(o)).path # Index(o)
  BY <1>1, <1>2
<1>4. ASSUME NEW u
      PROVE  /\ SetValue(Journal(Owner, act, o)) # SetValue(Feed(u, "add", o))
             /\ SetValue(Fields(o)) # SetValue(Feed(u, "add", o))
             /\ SetValue(Record(o)) # SetValue(Feed(u, "add", o))
             /\ SetValue(Index(o)) # SetValue(Feed(u, "add", o))
             /\ RemoveValue(Record(o)) # SetValue(Feed(u, "add", o))
             /\ RemoveValue(Index(o)) # SetValue(Feed(u, "add", o))
  BY <1>1, <1>2
<1>5. ASSUME act # "add", NEW u, NEW v
      PROVE  SetValue(Feed(u, act, o)) # SetValue(Feed(v, "add", o))
  BY <1>1, <1>2, <1>5
<1>6. QED
  BY <1>3, <1>4, <1>5

LEMMA SaysFew ==
  ASSUME NEW r, NEW ws \in Seq(Writes(Path)), r.on \in Media, r.act \in Acts,
         \A j \in DOMAIN ws : \/ ws[j] = SetValue(Journal(Owner, r.act, r.on))
                              \/ \E u \in Readers : ws[j] = SetValue(Feed(u, r.act, r.on))
                              \/ r.act = "update" /\ ws[j] = SetValue(Fields(r.on)),
         r.act = "add" => \A j \in DOMAIN ws : ws[j] = SetValue(Journal(Owner, r.act, r.on))
  PROVE  Says(r, ws)
<1>1. ASSUME NEW j \in DOMAIN ws
      PROVE  /\ Belongs(r, ws[j]) /\ ws[j].path # Index(r.on)
             /\ \A u \in Readers : ws[j] # SetValue(Feed(u, "add", r.on))
  <2>1. Belongs(r, ws[j])
    BY DEF Belongs
  <2>2. ws[j].path # Index(r.on)
    BY WritesOf
  <2>3. ASSUME NEW u \in Readers PROVE ws[j] # SetValue(Feed(u, "add", r.on))
    BY WritesOf
  <2>4. QED
    BY <2>1, <2>2, <2>3
<1>2. QED
  BY <1>1 DEF Says

LEMMA SaysNothing ==
  ASSUME NEW r
  PROVE  Says(r, <<>>)
  BY DEF Says

(* What is said may be said in two parts.                                  *)
LEMMA SaysAll ==
  ASSUME NEW r, NEW v, NEW w, Says(r, v), Says(r, w)
  PROVE  Says(r, v \o w)
<1>1. v \in Seq(Writes(Path)) /\ w \in Seq(Writes(Path))
  BY DEF Says
<1>2. /\ v \o w \in Seq(Writes(Path))
      /\ \A i \in DOMAIN v : i \in DOMAIN (v \o w) /\ (v \o w)[i] = v[i] /\ i \in Nat
      /\ \A i \in DOMAIN w : /\ i \in Nat /\ Len(v) + i \in DOMAIN (v \o w)
                             /\ (v \o w)[Len(v) + i] = w[i]
      /\ \A i \in DOMAIN (v \o w) : i \in DOMAIN v \/ \E j \in DOMAIN w : i = Len(v) + j
      /\ Len(v) \in Nat
  BY <1>1, AppendPositions
<1>3. ASSUME NEW i \in DOMAIN (v \o w)
      PROVE  /\ r.on \in Media /\ r.act \in Acts
             /\ Belongs(r, (v \o w)[i])
             /\ (v \o w)[i].path = Index(r.on) =>
                  \/ r.act = "add" /\ r.step = "feed"
                  \/ \E k \in DOMAIN (v \o w) :
                       k < i /\ (v \o w)[k] = SetValue(Journal(Owner, r.act, r.on))
             /\ \A u \in Readers : (v \o w)[i] = SetValue(Feed(u, "add", r.on)) =>
                  \E k \in DOMAIN (v \o w) : (v \o w)[k] = SetValue(Record(r.on))
  <2>1. CASE i \in DOMAIN v
    BY <1>2, <2>1 DEF Says
  <2>2. CASE i \notin DOMAIN v
    <3>1. PICK j \in DOMAIN w : i = Len(v) + j /\ (v \o w)[i] = w[j]
      BY <1>2, <2>2
    <3>2. /\ r.on \in Media /\ r.act \in Acts /\ Belongs(r, w[j])
      BY DEF Says
    <3>3. ASSUME w[j].path = Index(r.on), ~(r.act = "add" /\ r.step = "feed")
          PROVE  \E k \in DOMAIN (v \o w) :
                   k < i /\ (v \o w)[k] = SetValue(Journal(Owner, r.act, r.on))
      <4>1. PICK k \in DOMAIN w : k < j /\ w[k] = SetValue(Journal(Owner, r.act, r.on))
        BY <3>3 DEF Says
      <4>2. Len(v) + k < i
        BY <1>2, <3>1, <4>1
      <4>3. QED
        BY <1>2, <4>1, <4>2
    <3>4. ASSUME NEW u \in Readers, w[j] = SetValue(Feed(u, "add", r.on))
          PROVE  \E k \in DOMAIN (v \o w) : (v \o w)[k] = SetValue(Record(r.on))
      <4>1. PICK k \in DOMAIN w : w[k] = SetValue(Record(r.on))
        BY <3>4 DEF Says
      <4>2. QED
        BY <1>2, <4>1
    <3>5. QED
      BY <3>1, <3>2, <3>3, <3>4
  <2>3. QED
    BY <2>1, <2>2
<1>4. QED
  BY <1>2, <1>3 DEF Says

(* What a notepad writes when it has added its item, or removes it: two    *)
(* writes on the item after the news.                                      *)
LEMMA SaysEnding ==
  ASSUME NEW r, r.on \in Media, r.act \in Acts, NEW news \in Seq(Writes(Path)),
         NEW x \in Writes(Path), NEW y \in Writes(Path), Belongs(r, x), Belongs(r, y),
         \A i \in DOMAIN news : Belongs(r, news[i]) /\ news[i].path # Index(r.on),
         \/ r.act = "add" /\ r.step = "feed"
         \/ 1 \in DOMAIN news /\ news[1] = SetValue(Journal(Owner, r.act, r.on)),
         r.act = "add" => x = SetValue(Record(r.on))
  PROVE  Says(r, news \o <<x, y>>)
<1> DEFINE ws == news \o <<x, y>>
           k == Len(news)
<1>1. /\ ws \in Seq(Writes(Path)) /\ k \in Nat
      /\ \A i \in DOMAIN news : i \in Nat /\ i <= k /\ i \in DOMAIN ws /\ ws[i] = news[i]
      /\ k + 1 \in DOMAIN ws /\ ws[k + 1] = x /\ ws[k + 2] = y
      /\ \A i \in DOMAIN ws : i \in DOMAIN news \/ i = k + 1 \/ i = k + 2
  <2> DEFINE xy == <<x, y>>
  <2>1. /\ xy \in Seq(Writes(Path)) /\ Len(xy) = 2 /\ DOMAIN xy = 1 .. 2
        /\ xy[1] = x /\ xy[2] = y
    OBVIOUS
  <2> HIDE DEF xy
  <2>0. k \in Nat /\ DOMAIN news = 1 .. k
    OBVIOUS
  <2>2. /\ news \o xy \in Seq(Writes(Path))
        /\ DOMAIN (news \o xy) = 1 .. (k + Len(xy))
        /\ \A i \in DOMAIN news : (news \o xy)[i] = news[i]
        /\ \A i \in DOMAIN xy : (news \o xy)[k + i] = xy[i]
    BY <2>1, AppendPositions
  <2> HIDE DEF k
  <2>3. /\ 1 \in DOMAIN xy /\ 2 \in DOMAIN xy /\ k + Len(xy) = k + 2
    BY <2>0, <2>1
  <2>4. /\ DOMAIN (news \o xy) = 1 .. (k + 2)
        /\ (news \o xy)[k + 1] = x /\ (news \o xy)[k + 2] = y
    BY <2>0, <2>1, <2>2, <2>3
  <2>5. ws = news \o xy
    BY DEF xy
  <2> HIDE DEF ws, xy
  <2>6. ASSUME NEW i \in DOMAIN news
        PROVE  i \in Nat /\ i <= k /\ i \in DOMAIN ws /\ ws[i] = news[i]
    <3>1. i \in Nat /\ i <= k /\ i \in 1 .. (k + 2)
      BY <2>0
    <3>2. QED
      BY <2>2, <2>4, <2>5, <3>1
  <2>7. k + 1 \in 1 .. (k + 2) /\ \A i \in 1 .. (k + 2) : i \in 1 .. k \/ i = k + 1 \/ i = k + 2
    BY <2>0
  <2>8. QED
    BY <2>0, <2>2, <2>4, <2>5, <2>6, <2>7
<1> HIDE DEF ws, k
<1>2. ASSUME NEW j \in DOMAIN ws
      PROVE  /\ Belongs(r, ws[j])
             /\ ws[j].path = Index(r.on) =>
                  \/ r.act = "add" /\ r.step = "feed"
                  \/ \E i \in DOMAIN ws :
                       i < j /\ ws[i] = SetValue(Journal(Owner, r.act, r.on))
             /\ \A u \in Readers : ws[j] = SetValue(Feed(u, "add", r.on)) =>
                  \E i \in DOMAIN ws : ws[i] = SetValue(Record(r.on))
  <2>1. Belongs(r, ws[j])
    BY <1>1
  <2>2. ASSUME ws[j].path = Index(r.on), ~(r.act = "add" /\ r.step = "feed")
        PROVE  \E i \in DOMAIN ws : i < j /\ ws[i] = SetValue(Journal(Owner, r.act, r.on))
    <3>1. j = k + 1 \/ j = k + 2
      BY <1>1, <2>2
    <3>2. 1 \in DOMAIN ws /\ ws[1] = SetValue(Journal(Owner, r.act, r.on)) /\ 1 < j
      BY <1>1, <2>2, <3>1
    <3>3. QED
      BY <3>2
  <2>3. ASSUME NEW u \in Readers, ws[j] = SetValue(Feed(u, "add", r.on))
        PROVE  \E i \in DOMAIN ws : ws[i] = SetValue(Record(r.on))
    <3>1. ws[j].path = Feed(u, "add", r.on)
      BY <2>3, WritesDiffer
    <3>2. r.act = "add"
      BY <2>1, <3>1, BelongsPaths
    <3>3. QED
      BY <1>1, <3>2
  <2>4. QED
    BY <2>1, <2>2, <2>3
<1>3. QED
  BY <1>1, <1>2 DEF Says, ws

LEMMA SaysRemoval ==
  ASSUME NEW r, r.on \in Media, r.act = "remove"
  PROVE  Says(r, JournalWrites("remove", r.on) \o RemoveWrites(r.on))
<1> DEFINE j == SetValue(Journal(Owner, "remove", r.on))
           x == RemoveValue(Index(r.on))
           y == RemoveValue(Record(r.on))
<1>1. x \in Writes(Path) /\ y \in Writes(Path) /\ j \in Writes(Path)
  <2>1. /\ Journal(Owner, "remove", r.on) \in Path
        /\ Index(r.on) \in Path /\ Record(r.on) \in Path
    BY PathsTyped DEF Acts
  <2>2. QED
    BY <2>1 DEF SetValue, RemoveValue, Writes
<1>2. Belongs(r, x) /\ Belongs(r, y) /\ Belongs(r, j) /\ r.act \in Acts
  BY DEF Belongs, Acts
<1>3. j.path # Index(r.on) /\ j = SetValue(Journal(Owner, r.act, r.on))
  BY WritesOf
<1>4. /\ JournalWrites("remove", r.on) = <<j>>
      /\ RemoveWrites(r.on) = <<x, y>>
  BY DEF JournalWrites, RemoveWrites
<1> HIDE DEF j, x, y
<1>5. /\ <<j>> \in Seq(Writes(Path)) /\ 1 \in DOMAIN <<j>> /\ <<j>>[1] = j
      /\ \A i \in DOMAIN <<j>> : <<j>>[i] = j
  BY <1>1
<1>6. r.act # "add"
  OBVIOUS
<1>7. Says(r, <<j>> \o <<x, y>>)
  BY <1>1, <1>2, <1>3, <1>5, <1>6, SaysEnding
<1>8. QED
  BY <1>4, <1>7

LEMMA SaysAddition ==
  ASSUME NEW r, r.on \in Media, r.act = "add", NEW news \in Seq(Writes(Path)),
         \/ news = JournalWrites("add", r.on)
         \/ /\ r.step = "feed"
            /\ \A i \in DOMAIN news : \E u \in Readers : news[i] = SetValue(Feed(u, "add", r.on))
  PROVE  Says(r, news \o AddWrites(r.on))
<1> DEFINE x == SetValue(Record(r.on))
           y == SetValue(Index(r.on))
<1>1. x \in Writes(Path) /\ y \in Writes(Path)
  <2>1. Index(r.on) \in Path /\ Record(r.on) \in Path
    BY PathsTyped
  <2>2. QED
    BY <2>1 DEF SetValue, Writes
<1>2. Belongs(r, x) /\ Belongs(r, y) /\ r.act \in Acts
  BY DEF Belongs, Acts
<1>3. ASSUME NEW i \in DOMAIN news
      PROVE  Belongs(r, news[i]) /\ news[i].path # Index(r.on)
  <2>1. CASE news = JournalWrites("add", r.on)
    <3>1. news[i] = SetValue(Journal(Owner, r.act, r.on))
      BY <2>1 DEF JournalWrites
    <3>2. QED
      BY <3>1, WritesOf DEF Belongs
  <2>2. CASE \E u \in Readers : news[i] = SetValue(Feed(u, "add", r.on))
    <3>1. PICK u \in Readers : news[i] = SetValue(Feed(u, "add", r.on))
      BY <2>2
    <3>2. QED
      BY <3>1, WritesOf DEF Belongs
  <2>3. QED
    BY <2>1, <2>2
<1>4. \/ r.step = "feed"
      \/ 1 \in DOMAIN news /\ news[1] = SetValue(Journal(Owner, r.act, r.on))
  BY DEF JournalWrites
<1>5. AddWrites(r.on) = <<x, y>> /\ x = SetValue(Record(r.on))
  BY DEF AddWrites
<1> HIDE DEF x, y
<1>6. Says(r, news \o <<x, y>>)
  BY <1>1, <1>2, <1>3, <1>4, <1>5, SaysEnding
<1>7. QED
  BY <1>5, <1>6

(* Every step of a notepad adds to the queue what the notepad may say.     *)
LEMMA StepSays ==
  ASSUME TypeInv, NEW c \in Clients, NEW s \in Slots, UserStep(c, s) \/ Answer(c, s)
  PROVE  \E ws : Extends(c, ws) /\ Says(slot[c][s], ws)
<1> DEFINE r == slot[c][s]
           Goal == \E ws : Extends(c, ws) /\ Says(r, ws)
<1>0. /\ r.step \notin {"open", "closed"} => r.on \in Media /\ r.act \in Acts
      /\ r.act \in {"update", "remove"} => r.on \in Media
      /\ followers[c] \in Seq(Followers)
  BY SlotsGood DEF TypeInv, TypeOK
<1>1. CASE UNCHANGED <<db, queue, gone>>
  BY <1>1, SilenceExtends, SaysNothing
<1>2. ASSUME NEW ws, Says(r, ws), Issue(c, ws), gone' = gone PROVE Goal
  BY <1>2, IssueExtends DEF Says
<1>3. CASE \/ \E t \in Threads \union {NoMedia} : OpenEmpty(c, s, t)
           \/ \E m \in Media : OpenItem(c, s, m)
           \/ Close(c, s)
           \/ \E m \in Media, v \in BOOLEAN : SaveNew(c, s, m, v)
           \/ Trash(c, s) \/ UploadEnds(c, s) \/ CheckThread(c, s) \/ UpdateFails(c, s)
  BY <1>1, <1>3 DEF OpenEmpty, OpenItem, Close, SaveNew, Trash, UploadEnds, CheckThread,
                    UpdateFails, backendVars, ghostVars
<1>4. ASSUME NEW v \in BOOLEAN, SaveItem(c, s, v) PROVE Goal
  <2>1. r.act = "update" /\ r.on \in Media
    BY <1>0, <1>4 DEF SaveItem, OnItem
  <2>2. Issue(c, <<SetValue(Fields(r.on))>>) /\ gone' = gone
    BY <1>4 DEF SaveItem, OnItem, ghostVars
  <2>3. <<SetValue(Fields(r.on))>> \in Seq(Writes(Path))
    BY <2>1, NewsIsQuiet DEF Quiet, Acts
  <2>4. \A j \in DOMAIN <<SetValue(Fields(r.on))>> :
          <<SetValue(Fields(r.on))>>[j] = SetValue(Fields(r.on))
    OBVIOUS
  <2>5. Says(r, <<SetValue(Fields(r.on))>>)
    BY <2>1, <2>3, <2>4, SaysFew DEF Acts
  <2>6. QED
    BY <1>2, <2>2, <2>5
<1>5. ASSUME r.on \in Media, r.act \in Acts PROVE Says(r, JournalWrites(r.act, r.on))
  <2>1. JournalWrites(r.act, r.on) \in Seq(Writes(Path))
    BY <1>5, NewsIsQuiet DEF Quiet
  <2>2. \A j \in DOMAIN JournalWrites(r.act, r.on) :
          JournalWrites(r.act, r.on)[j] = SetValue(Journal(Owner, r.act, r.on))
    BY DEF JournalWrites
  <2>3. QED
    BY <1>5, <2>1, <2>2, SaysFew
<1>6. CASE Journaled(c, s)
  BY <1>0, <1>2, <1>5, <1>6 DEF Journaled, ghostVars
<1>7. CASE Remove(c, s)
  <2>1. r.on \in Media /\ r.act = "remove"
    BY <1>0, <1>7 DEF Remove
  <2>2. Issue(c, JournalWrites("remove", r.on) \o RemoveWrites(r.on)) /\ gone' = gone
    BY <1>7 DEF Remove
  <2>3. QED
    BY <1>2, <2>1, <2>2, SaysRemoval
<1>8. CASE Add(c, s)
  <2>1. r.on \in Media /\ r.act = "add" /\ r.act \in Acts /\ r.step \in {"feed", "journal"}
    BY <1>0, <1>8 DEF Add, Announces
  <2>2. Issue(c, News(c, s) \o AddWrites(r.on)) /\ gone' = gone
    BY <1>8 DEF Add
  <2>3. /\ News(c, s) \in Seq(Writes(Path))
        /\ \/ News(c, s) = JournalWrites("add", r.on)
           \/ /\ r.step = "feed"
              /\ \A i \in DOMAIN News(c, s) :
                   \E u \in Readers : News(c, s)[i] = SetValue(Feed(u, "add", r.on))
    BY <1>0, <2>1, FeedWritesAre, NewsIsQuiet DEF News, Quiet
  <2>4. QED
    BY <1>2, <2>1, <2>2, <2>3, SaysAddition
<1>9. CASE Update(c, s)
  <2>1. r.on \in Media /\ r.act = "update" /\ r.act \in Acts /\ r.step \in {"feed", "journal"}
    BY <1>0, <1>9 DEF Update, Announces
  <2>2. PICK ws \in UpdateWrites(r.on) : Issue(c, News(c, s) \o ws)
    BY <1>9 DEF Update
  <2>3. Says(r, News(c, s))
    <3>1. CASE r.step = "feed"
      <4> DEFINE news == News(c, s)
      <4>1. news = FeedWrites(r.act, r.on, followers[c])
        BY <3>1 DEF News
      <4>2. /\ news \in Seq(Writes(Path)) /\ r.act \in Acts /\ r.on \in Media /\ r.act # "add"
            /\ \A i \in DOMAIN news : \E u \in Readers : news[i] = SetValue(Feed(u, r.act, r.on))
        BY <1>0, <2>1, <4>1, FeedWritesAre
      <4> HIDE DEF news, r
      <4>3. Says(r, news)
        BY <4>2, SaysFew
      <4>4. QED
        BY <4>3 DEF news
    <3>2. CASE r.step # "feed"
      BY <1>5, <2>1, <3>2 DEF News
    <3>3. QED
      BY <3>1, <3>2
  <2>4. Says(r, ws)
    <3>1. CASE ws = <<SetValue(Fields(r.on))>>
      <4>1. ws \in Seq(Writes(Path))
        BY <2>1, <3>1, NewsIsQuiet DEF Quiet
      <4>2. \A j \in DOMAIN ws : ws[j] = SetValue(Fields(r.on))
        BY <3>1
      <4>3. r.on \in Media /\ r.act \in Acts /\ r.act = "update" /\ r.act # "add"
        BY <2>1
      <4> HIDE DEF r
      <4>4. QED
        BY <4>1, <4>2, <4>3, SaysFew
    <3>2. QED
      BY <2>2, <3>1, SaysNothing DEF UpdateWrites
  <2>5. gone' = gone
    BY <1>9 DEF Update, ghostVars
  <2>6. QED
    BY <1>2, <2>2, <2>3, <2>4, <2>5, SaysAll
<1>10. QED
  BY <1>3, <1>4, <1>6, <1>7, <1>8, <1>9 DEF UserStep, Answer

(* How a notepad comes to be on an item: it was; it opens on a listed one; *)
(* or the item is about to be added.                                       *)
LEMMA SlotMoves ==
  ASSUME TypeInv, NEW c \in Clients, NEW s \in Slots, UserStep(c, s) \/ Answer(c, s),
         NEW d \in Clients, NEW t \in Slots, slot'[d][t].on \in Media
  PROVE  \/ /\ slot'[d][t].on = slot[d][t].on
            /\ slot'[d][t].act = "add" <=> slot[d][t].act = "add"
            /\ slot'[d][t].step = "feed" =>
                 \/ slot[d][t].step = "feed"
                 \/ d = c /\ t = s /\ Journaled(c, s)
         \/ d = c /\ t = s /\ SeenBy(c, Index(slot'[d][t].on))
         \/ /\ slot'[d][t].act = "add" /\ slot'[d][t].step # "feed"
            /\ \A e \in Clients, u \in Slots : slot'[e][u].on = slot'[d][t].on =>
                 slot[e][u].on = slot'[d][t].on \/ (e = d /\ u = t)
<1> DEFINE r == slot[c][s]
<1>0. ASSUME NEW p, Puts(c, s, p)
      PROVE  slot'[d][t] = IF d = c /\ t = s THEN p ELSE slot[d][t]
  BY <1>0, PutGood DEF Puts
<1>1. ASSUME NEW p, Puts(c, s, p), p.step # "feed",
             p.on \in Media => p.on = r.on /\ (p.act = "add" <=> r.act = "add")
      PROVE  /\ slot'[d][t].on = slot[d][t].on
             /\ slot'[d][t].act = "add" <=> slot[d][t].act = "add"
             /\ slot'[d][t].step = "feed" => slot[d][t].step = "feed"
  BY <1>0, <1>1
<1>2. /\ Closed.step # "feed"
      /\ \A m : Editing(m).step # "feed"
      /\ (\A n : Empty(n).step # "feed")
      /\ (\A m, act : BackTo(m, act).step # "feed")
      /\ \A step, act, m, v : Working(step, act, m, v).step = step
  BY DEF Closed, Editing, Empty, BackTo, Working
<1>3. CASE \E n \in Threads \union {NoMedia} : OpenEmpty(c, s, n)
  <2>1. PICK n \in Threads \union {NoMedia} : Puts(c, s, Empty(n))
    BY <1>3, TapSteps
  <2>2. QED
    BY <1>1, <1>2, <2>1, SlotFields
<1>4. CASE \E m \in Media : OpenItem(c, s, m)
  <2>1. PICK m \in Media : OpenItem(c, s, m) /\ Puts(c, s, Editing(m))
    BY <1>4, TapSteps
  <2>2. QED
    BY <1>0, <2>1, SlotFields DEF OpenItem
<1>5. CASE Close(c, s) \/ Remove(c, s)
  <2>1. Puts(c, s, Closed)
    BY <1>5, TapSteps, AnswerSteps
  <2>2. QED
    BY <1>1, <1>2, <2>1, SlotFields
<1>6. CASE UploadEnds(c, s) \/ CheckThread(c, s)
           \/ UpdateFails(c, s) \/ Add(c, s) \/ Update(c, s) \/ Trash(c, s)
           \/ \E v \in BOOLEAN : SaveItem(c, s, v)
  <2>1. ASSUME Puts(c, s, BackTo(r.on, r.act))
        PROVE  /\ slot'[d][t].on = slot[d][t].on
               /\ slot'[d][t].act = "add" <=> slot[d][t].act = "add"
               /\ slot'[d][t].step = "feed" => slot[d][t].step = "feed"
    BY <1>1, <1>2, <2>1, SlotFields
  <2>2. CASE UpdateFails(c, s) \/ Add(c, s) \/ Update(c, s)
    BY <2>1, <2>2, AnswerSteps
  <2>3. CASE UploadEnds(c, s)
    <3>1. r.act = "add"
      BY <2>3, SlotsGood DEF UploadEnds, SlotFits
    <3>2. CASE Puts(c, s, Working("journal", "add", r.on, r.visible))
      BY <1>1, <1>2, <3>1, <3>2, SlotFields
    <3>3. QED
      BY <2>1, <2>3, <3>2, AnswerSteps
  <2>4. CASE CheckThread(c, s) \/ Trash(c, s)
    <3>1. /\ r.act \in {"update", "remove"} /\ r.on \in Media
          /\ \/ \E step \in {"checkBodies", "checkPhotos", "checkAudio", "checkFilm", "journal"} :
                  Put(c, s, Working(step, "remove", r.on, FALSE))
             \/ Puts(c, s, BackTo(r.on, r.act))
      <4>1. CASE CheckThread(c, s)
        <5>1. r.act = "remove" /\ r.on \in Media
          BY <4>1, AnswerSteps, SlotsGood
        <5>2. r.step \notin {"open", "closed"}
          BY <4>1 DEF CheckThread, Check
        <5>3. Return(c, s) => Puts(c, s, BackTo(r.on, r.act))
          BY <5>2, ReturnPuts
        <5>4. QED
          BY <4>1, <5>1, <5>3 DEF CheckThread, Check
      <4>2. CASE Trash(c, s)
        BY <4>2, SlotsGood DEF Trash, OnItem
      <4>3. QED
        BY <2>4, <4>1, <4>2
    <3>2. ASSUME NEW step \in {"checkBodies", "checkPhotos", "checkAudio", "checkFilm", "journal"},
                 Put(c, s, Working(step, "remove", r.on, FALSE))
          PROVE  /\ slot'[d][t].on = slot[d][t].on
                 /\ slot'[d][t].act = "add" <=> slot[d][t].act = "add"
                 /\ slot'[d][t].step = "feed" => slot[d][t].step = "feed"
      <4> DEFINE p == Working(step, "remove", r.on, FALSE)
      <4>1. StepFits(step, "remove") /\ step # "feed"
        BY <3>2 DEF StepFits, Steps, Acts
      <4>2. GoodSlot(p)
        BY <3>1, <4>1, GoodSlots
      <4>3. p.step # "feed" /\ p.on = r.on /\ p.act = "remove"
        BY <4>1 DEF Working
      <4>4. Puts(c, s, p)
        BY <3>2, <4>2 DEF Puts
      <4> HIDE DEF p
      <4>5. QED
        BY <1>1, <3>1, <4>3, <4>4
    <3>3. QED
      BY <2>1, <3>1, <3>2
  <2>5. ASSUME NEW v \in BOOLEAN, SaveItem(c, s, v)
        PROVE  /\ slot'[d][t].on = slot[d][t].on
               /\ slot'[d][t].act = "add" <=> slot[d][t].act = "add"
               /\ slot'[d][t].step = "feed" => slot[d][t].step = "feed"
    <3>1. r.act = "update"
      BY <2>5 DEF SaveItem, OnItem
    <3>2. PICK step \in {"journal", "unanswered"} :
            Puts(c, s, Working(step, "update", r.on, v))
      BY <2>5, TapSteps
    <3>3. QED
      BY <1>1, <1>2, <3>1, <3>2, SlotFields
  <2>6. QED
    BY <1>6, <2>2, <2>3, <2>4, <2>5
<1>7. CASE Journaled(c, s)
  <2>1. Puts(c, s, Working("feed", r.act, r.on, r.visible))
    BY <1>7, AnswerSteps
  <2>2. QED
    BY <1>0, <1>7, <2>1, SlotFields
<1>8. CASE \E m \in Media, v \in BOOLEAN : SaveNew(c, s, m, v)
  <2>1. PICK m \in Media, v \in BOOLEAN : SaveNew(c, s, m, v)
    BY <1>8
  <2> DEFINE p == Working(IF m \in Photos THEN "upload" ELSE "journal", "add", m, v)
  <2>2. Puts(c, s, p)
    BY <2>1, TapSteps
  <2>3. p.act = "add" /\ p.on = m /\ p.step # "feed"
    BY DEF Working
  <2> HIDE DEF p
  <2>4. \A e \in Clients, u \in Slots : slot'[e][u] = IF e = c /\ u = s THEN p ELSE slot[e][u]
    BY <2>2, PutGood DEF Puts
  <2>5. CASE d = c /\ t = s
    <3>1. slot'[d][t] = p
      BY <2>4, <2>5
    <3>2. ASSUME NEW e \in Clients, NEW u \in Slots, ~(e = d /\ u = t)
          PROVE  slot[e][u] = slot'[e][u]
      BY <2>4, <2>5, <3>2
    <3>3. \A e \in Clients, u \in Slots : slot'[e][u].on = slot'[d][t].on =>
            slot[e][u].on = slot'[d][t].on \/ (e = d /\ u = t)
      BY <3>2
    <3>4. slot'[d][t].act = "add" /\ slot'[d][t].step # "feed"
      BY <2>3, <3>1
    <3>5. QED
      BY <3>3, <3>4
  <2>6. CASE ~(d = c /\ t = s)
    <3>1. slot'[d][t] = slot[d][t]
      BY <2>4, <2>6
    <3>2. QED
      BY <3>1
  <2>7. QED
    BY <2>5, <2>6
<1>9. QED
  BY <1>3, <1>4, <1>5, <1>6, <1>7, <1>8 DEF UserStep, Answer
-----------------------------------------------------------------------------
(* The journal.                                                            *)

(* The journal item is in the database, or among the first n - 1 writes of *)
(* client c.                                                               *)
Told(a, c, m, n) ==
  \/ Journal(Owner, a, m) \in db
  \/ \E j \in DOMAIN queue[c] : j < n /\ queue[c][j] = SetValue(Journal(Owner, a, m))

(* Every write of an index entry comes after the journal items of it.      *)
JournalFirst == \A c \in Clients, m \in Media : \A i \in DOMAIN queue[c] :
  /\ queue[c][i].path = Index(m) => Told("add", c, m, i)
  /\ queue[c][i] = RemoveValue(Index(m)) => Told("remove", c, m, i)

(* No journal item is ever taken back.                                     *)
JournalStays == \A c \in Clients, m \in Media, a \in Acts : \A i \in DOMAIN queue[c] :
  queue[c][i].path = Journal(Owner, a, m) => queue[c][i] = SetValue(Journal(Owner, a, m))

(* A notepad on an item that was listed, or that the journal has already,  *)
(* knows the journal item of its addition to be ahead of what it writes.   *)
Journals(r) == r.act # "add" \/ r.step = "feed"

NotepadsTold == \A c \in Clients, s \in Slots, m \in Media :
  slot[c][s].on = m /\ Journals(slot[c][s]) => Told("add", c, m, Len(queue[c]) + 1)

JournalInv == JournalComplete /\ JournalFirst /\ JournalStays /\ NotepadsTold

(* A journal item stays ahead of the writes it was ahead of.               *)
LEMMA ToldExtends ==
  ASSUME TypeInv, NEW c \in Clients, NEW ws, Extends(c, ws), NEW d \in Clients,
         NEW m \in Media, NEW a, NEW n, Told(a, d, m, n)
  PROVE  Told(a, d, m, n)'
<1>1. db' = db /\ \A i \in DOMAIN queue[d] : i \in DOMAIN queue'[d] /\ queue'[d][i] = queue[d][i]
  BY ExtendsPositions DEF Extends
<1>2. QED
  BY <1>1 DEF Told

LEMMA JournalExtends ==
  ASSUME TypeInv, JournalInv, NEW c \in Clients, NEW ws, Extends(c, ws), NEW r, Says(r, ws),
         r.on \in Media /\ Journals(r) => Told("add", c, r.on, Len(queue[c]) + 1)
  PROVE  JournalComplete' /\ JournalFirst' /\ JournalStays'
<1> DEFINE k == Len(queue[c])
<1>0. /\ k \in Nat
      /\ \A d \in Clients : \A i \in DOMAIN queue[d] :
           i \in DOMAIN queue'[d] /\ queue'[d][i] = queue[d][i]
      /\ \A d \in Clients : \A i \in DOMAIN queue'[d] :
           \/ i \in DOMAIN queue[d]
           \/ d = c /\ \E j \in DOMAIN ws : i = k + j /\ queue'[c][i] = ws[j]
      /\ \A j \in DOMAIN ws : j \in Nat /\ j >= 1 /\ k + j \in DOMAIN queue'[c]
                              /\ queue'[c][k + j] = ws[j]
  BY ExtendsPositions
<1>1. JournalComplete'
  BY DEF JournalInv, JournalComplete, Extends
<1>2. JournalStays'
  <2>1. SUFFICES ASSUME NEW d \in Clients, NEW m \in Media, NEW a \in Acts, NEW i \in DOMAIN queue'[d],
                        queue'[d][i].path = Journal(Owner, a, m)
                 PROVE  queue'[d][i] = SetValue(Journal(Owner, a, m))
    BY DEF JournalStays
  <2>2. CASE i \in DOMAIN queue[d]
    BY <1>0, <2>1, <2>2 DEF JournalInv, JournalStays
  <2>3. CASE i \notin DOMAIN queue[d]
    <3>1. PICK j \in DOMAIN ws : queue'[d][i] = ws[j]
      BY <1>0, <2>3
    <3>2. r.on \in Media /\ r.act \in Acts /\ Belongs(r, ws[j])
      BY DEF Says
    <3>3. QED
      BY <2>1, <3>1, <3>2, BelongsPaths
  <2>4. QED
    BY <2>2, <2>3
<1>3. JournalFirst'
  <2>1. SUFFICES ASSUME NEW d \in Clients, NEW m \in Media, NEW i \in DOMAIN queue'[d]
                 PROVE  /\ queue'[d][i].path = Index(m) => Told("add", d, m, i)'
                        /\ queue'[d][i] = RemoveValue(Index(m)) => Told("remove", d, m, i)'
    BY DEF JournalFirst
  <2>2. CASE i \in DOMAIN queue[d]
    <3>1. /\ queue[d][i].path = Index(m) => Told("add", d, m, i)
          /\ queue[d][i] = RemoveValue(Index(m)) => Told("remove", d, m, i)
      BY <2>2 DEF JournalInv, JournalFirst
    <3>2. queue'[d][i] = queue[d][i]
      BY <1>0, <2>2
    <3>3. QED
      BY <3>1, <3>2, ToldExtends
  <2>3. CASE i \notin DOMAIN queue[d]
    <3>1. PICK j \in DOMAIN ws : d = c /\ i = k + j /\ queue'[c][i] = ws[j]
      BY <1>0, <2>3
    <3>2. r.on \in Media /\ r.act \in Acts /\ Belongs(r, ws[j])
      BY DEF Says
    <3>3. queue'[d][i] = RemoveValue(Index(m)) => queue'[d][i].path = Index(m)
      BY WritesDiffer
    <3>4. SUFFICES ASSUME ws[j].path = Index(m)
                   PROVE  /\ Told("add", d, m, i)'
                          /\ ws[j] = RemoveValue(Index(m)) => Told("remove", d, m, i)'
      BY <3>1, <3>3
    <3>5. /\ m = r.on /\ \/ r.act = "add" /\ ws[j] = SetValue(Index(m))
                         \/ r.act = "remove" /\ ws[j] = RemoveValue(Index(m))
      BY <3>2, <3>4, BelongsPaths
    <3>6. ASSUME Told("add", c, m, k + 1) PROVE Told("add", d, m, i)'
      <4>1. ASSUME NEW p \in DOMAIN queue[c], p < k + 1 PROVE p < i
        <5>1. p \in Nat /\ k \in Nat /\ j \in Nat /\ j >= 1 /\ i = k + j
          BY <1>0, <3>1, ExtendsPositions
        <5> HIDE DEF k
        <5>2. QED
          BY <4>1, <5>1
      <4>2. QED
        BY <1>0, <3>1, <3>6, <4>1 DEF Told, Extends
    <3>7. ASSUME NEW p \in DOMAIN ws, p < j, NEW a, ws[p] = SetValue(Journal(Owner, a, m))
          PROVE  Told(a, d, m, i)'
      <4>1. k + p \in DOMAIN queue'[c] /\ k + p < i
            /\ queue'[c][k + p] = SetValue(Journal(Owner, a, m))
        BY <1>0, <3>1, <3>7
      <4>2. QED
        BY <3>1, <4>1 DEF Told
    <3>8. CASE r.act = "add"
      <4>1. ws[j] # RemoveValue(Index(m))
        BY <3>5, <3>8, WritesDiffer
      <4>2. \/ r.step = "feed"
            \/ \E p \in DOMAIN ws : p < j /\ ws[p] = SetValue(Journal(Owner, "add", m))
        BY <3>4, <3>5, <3>8 DEF Says
      <4>3. CASE r.step = "feed"
        BY <3>2, <3>5, <3>6, <4>1, <4>3 DEF Journals
      <4>4. QED
        BY <3>7, <4>1, <4>2, <4>3
    <3>9. CASE r.act = "remove"
      <4>1. \E p \in DOMAIN ws : p < j /\ ws[p] = SetValue(Journal(Owner, "remove", m))
        BY <3>4, <3>5, <3>9 DEF Says
      <4>2. Told("remove", d, m, i)'
        BY <3>7, <4>1
      <4>3. Told("add", d, m, i)'
        BY <3>2, <3>5, <3>6, <3>9 DEF Journals
      <4>4. QED
        BY <4>2, <4>3
    <3>10. QED
      BY <3>5, <3>8, <3>9
  <2>4. QED
    BY <2>2, <2>3
<1>4. QED
  BY <1>1, <1>2, <1>3

(* What was written to the end of a queue stays ahead of what comes next.  *)
LEMMA ToldNext ==
  ASSUME TypeInv, NEW c \in Clients, NEW ws, Extends(c, ws), NEW d \in Clients, NEW m \in Media,
         NEW a, \/ Journal(Owner, a, m) \in db
                \/ \E j \in DOMAIN queue'[d] : queue'[d][j] = SetValue(Journal(Owner, a, m))
                \/ Told(a, d, m, Len(queue[d]) + 1)
  PROVE  Told(a, d, m, Len(queue[d]) + 1)'
<1>1. /\ db' = db
      /\ \A i \in DOMAIN queue[d] : i \in DOMAIN queue'[d] /\ queue'[d][i] = queue[d][i]
  BY ExtendsPositions DEF Extends
<1>2. queue'[d] \in Seq(Writes(Path))
  <2>1. queue[d] \in Seq(Writes(Path)) /\ ws \in Seq(Writes(Path))
    BY DEF TypeInv, TypeOK, Extends
  <2>2. queue'[d] = queue[d] \/ queue'[d] = queue[d] \o ws
    BY DEF Extends
  <2>3. queue[d] \o ws \in Seq(Writes(Path))
    BY <2>1, AppendPositions
  <2>4. QED
    BY <2>1, <2>2, <2>3
<1>3. \A j \in DOMAIN queue'[d] : j < Len(queue'[d]) + 1
  BY <1>2
<1>4. \/ Journal(Owner, a, m) \in db
      \/ \E j \in DOMAIN queue'[d] : queue'[d][j] = SetValue(Journal(Owner, a, m))
  BY <1>1 DEF Told
<1>5. QED
  BY <1>1, <1>3, <1>4 DEF Told

(* An item a client reads on a list has been journaled as far as it knows. *)
LEMMA SeenIsTold ==
  ASSUME TypeInv, JournalInv, NEW c \in Clients, NEW m \in Media, SeenBy(c, Index(m))
  PROVE  \/ Journal(Owner, "add", m) \in db
         \/ \E j \in DOMAIN queue[c] : queue[c][j] = SetValue(Journal(Owner, "add", m))
<1>1. CASE Index(m) \in db
  BY <1>1 DEF JournalInv, JournalComplete
<1>2. CASE \E i \in DOMAIN queue[c] : queue[c][i] = SetValue(Index(m))
  <2>1. PICK i \in DOMAIN queue[c] : queue[c][i] = SetValue(Index(m))
    BY <1>2
  <2>2. queue[c][i].path = Index(m)
    BY <2>1, WritesDiffer
  <2>3. QED
    BY <2>2 DEF JournalInv, JournalFirst, Told
<1>3. QED
  BY <1>1, <1>2, SeenIsKnown

LEMMA StepKeepsJournal ==
  ASSUME TypeInv, JournalInv, NEW c \in Clients, NEW s \in Slots, UserStep(c, s) \/ Answer(c, s)
  PROVE  JournalInv'
<1> DEFINE r == slot[c][s]
<1>1. PICK ws : Extends(c, ws) /\ Says(r, ws)
  BY StepSays
<1>2. JournalComplete' /\ JournalFirst' /\ JournalStays'
  <2>1. r.on \in Media /\ Journals(r) => Told("add", c, r.on, Len(queue[c]) + 1)
    BY DEF JournalInv, NotepadsTold
  <2>2. QED
    BY <1>1, <2>1, JournalExtends
<1>3. NotepadsTold'
  <2>1. SUFFICES ASSUME NEW d \in Clients, NEW t \in Slots, NEW m \in Media,
                        slot'[d][t].on = m, Journals(slot'[d][t])
                 PROVE  Told("add", d, m, Len(queue[d]) + 1)'
    BY DEF NotepadsTold
  <2>2. CASE slot[d][t].on = m /\ Journals(slot[d][t])
    <3>1. Told("add", d, m, Len(queue[d]) + 1)
      BY <2>2 DEF JournalInv, NotepadsTold
    <3>2. QED
      BY <1>1, <3>1, ToldNext
  <2>3. CASE /\ d = c /\ t = s /\ Journaled(c, s) /\ slot[d][t].on = m
             /\ slot[d][t].act = "add"
    <3>1. Issue(c, JournalWrites("add", m))
      BY <2>3 DEF Journaled
    <3> DEFINE news == JournalWrites("add", m)
    <3>2. queue'[c] = queue[c] \o news /\ news \in Seq(Writes(Path))
          /\ queue[c] \in Seq(Writes(Path))
      <4>1. news \in Seq(Writes(Path)) /\ queue[c] \in Seq(Writes(Path))
        BY NewsIsQuiet DEF Quiet, Acts, TypeInv, TypeOK
      <4> HIDE DEF news
      <4>2. QED
        BY <3>1, <4>1, IssueTyped DEF news
    <3>3. 1 \in DOMAIN news /\ news[1] = SetValue(Journal(Owner, "add", m))
      BY DEF JournalWrites
    <3> HIDE DEF news
    <3>4. \E j \in DOMAIN queue'[c] : queue'[c][j] = SetValue(Journal(Owner, "add", m))
      <4>1. /\ Len(queue[c]) + 1 \in DOMAIN (queue[c] \o news)
            /\ (queue[c] \o news)[Len(queue[c]) + 1] = news[1]
        BY <3>2, <3>3, AppendPositions
      <4>2. QED
        BY <3>2, <3>3, <4>1
    <3>5. QED
      BY <1>1, <2>3, <3>4, ToldNext
  <2>4. CASE d = c /\ t = s /\ SeenBy(c, Index(m))
    <3>1. \/ Journal(Owner, "add", m) \in db
          \/ \E j \in DOMAIN queue[c] : queue[c][j] = SetValue(Journal(Owner, "add", m))
      BY <2>4, SeenIsTold
    <3>2. \A i \in DOMAIN queue[c] : i \in DOMAIN queue'[c] /\ queue'[c][i] = queue[c][i]
      BY <1>1, ExtendsPositions
    <3>3. QED
      BY <1>1, <2>4, <3>1, <3>2, ToldNext
  <2>5. \/ /\ slot[d][t].on = m
           /\ slot'[d][t].act = "add" <=> slot[d][t].act = "add"
           /\ slot'[d][t].step = "feed" =>
                \/ slot[d][t].step = "feed"
                \/ d = c /\ t = s /\ Journaled(c, s)
        \/ d = c /\ t = s /\ SeenBy(c, Index(m))
        \/ slot'[d][t].act = "add" /\ slot'[d][t].step # "feed"
    BY <2>1, SlotMoves
  <2>6. QED
    BY <2>1, <2>2, <2>3, <2>4, <2>5 DEF Journals
<1>4. QED
  BY <1>2, <1>3 DEF JournalInv

LEMMA DeliverKeepsJournal ==
  ASSUME TypeInv, JournalInv, NEW c \in Clients, Deliver(c)
  PROVE  JournalInv'
<1> DEFINE w == queue[c][1]
           J(a, m) == Journal(Owner, a, m)
<1>1. /\ w \in Writes(Path) /\ 1 \in DOMAIN queue[c]
      /\ db' = Land(w)
      /\ slot' = slot
      /\ \A d \in Clients \ {c} : queue'[d] = queue[d]
      /\ \A i \in DOMAIN queue[c] : i \in Nat /\ i >= 1
      /\ \A m \in Media : m \in gone' <=> m \in gone \/ w = RemoveValue(Index(m))
  BY DeliverSteps
<1>2. \A i \in DOMAIN queue'[c] :
        i \in Nat /\ i + 1 \in DOMAIN queue[c] /\ queue'[c][i] = queue[c][i + 1]
  BY DeliverSteps
<1>3. \A i \in DOMAIN queue[c] :
        i = 1 \/ (i - 1 \in DOMAIN queue'[c] /\ queue'[c][i - 1] = queue[c][i])
  BY DeliverSteps
<1>4. \A m \in Media, a \in Acts : w.path = J(a, m) => w = SetValue(J(a, m))
  BY <1>1 DEF JournalInv, JournalStays
<1> HIDE DEF w
(* What the database has of the journal stays, what arrives is added.      *)
<1>5. ASSUME NEW m \in Media, NEW a \in Acts
      PROVE  J(a, m) \in db' <=> J(a, m) \in db \/ w = SetValue(J(a, m))
  <2>1. /\ SetValue(J(a, m)).to = TRUE /\ SetValue(J(a, m)).path = J(a, m)
        /\ RemoveValue(w.path).to = FALSE /\ SetValue(w.path).to = TRUE
        /\ SetValue(w.path) = SetValue(J(a, m)) => w.path = J(a, m)
    BY WritesDiffer
  <2>2. \A n \in Media : J(a, m) # Fields(n)
    BY NewsPathsDiffer
  <2> HIDE DEF J
  <2>3. CASE w = SetValue(w.path)
    BY <1>1, <2>1, <2>3 DEF Land
  <2>4. CASE w = RemoveValue(w.path)
    <3>1. w.path # J(a, m) /\ w # SetValue(J(a, m)) /\ ~w.to
      BY <1>4, <2>1, <2>4 DEF J
    <3>2. QED
      BY <1>1, <2>2, <3>1 DEF Land
  <2>5. QED
    BY <1>1, <2>3, <2>4, WriteForms
<1>6. ASSUME NEW d \in Clients, NEW m \in Media, NEW a \in Acts, NEW n \in Nat, NEW k,
             Told(a, d, m, n), k = IF d = c THEN n - 1 ELSE n
      PROVE  Told(a, d, m, k)'
  <2>1. CASE J(a, m) \in db
    BY <1>5, <2>1 DEF Told
  <2>2. CASE \E j \in DOMAIN queue[d] : j < n /\ queue[d][j] = SetValue(J(a, m))
    <3>1. PICK j \in DOMAIN queue[d] : j < n /\ queue[d][j] = SetValue(J(a, m))
      BY <2>2
    <3>2. CASE d # c
      BY <1>1, <1>6, <3>1, <3>2 DEF Told
    <3>3. CASE d = c /\ j = 1
      BY <1>5, <3>1, <3>3 DEF Told, w
    <3>4. CASE d = c /\ j # 1
      <4>1. /\ j - 1 \in DOMAIN queue'[c] /\ j - 1 < k
            /\ queue'[c][j - 1] = SetValue(J(a, m))
        BY <1>1, <1>3, <1>6, <3>1, <3>4
      <4>2. QED
        BY <3>4, <4>1 DEF Told
    <3>5. QED
      BY <3>2, <3>3, <3>4
  <2>3. QED
    BY <1>6, <2>1, <2>2 DEF Told
<1>7. JournalComplete'
  <2>1. ASSUME NEW m \in Media, NEW a \in {"add", "remove"}, Told(a, c, m, 1)
        PROVE  J(a, m) \in db'
    <3>1. J(a, m) \in db
      BY <1>1, <2>1 DEF Told
    <3>2. QED
      BY <1>5, <3>1 DEF Acts
  <2>2. ASSUME NEW m \in Media, Index(m) \in db' PROVE J("add", m) \in db'
    <3>1. CASE w = SetValue(Index(m))
      <4>1. w.path = Index(m)
        BY <3>1, WritesDiffer
      <4>2. Told("add", c, m, 1)
        BY <1>1, <4>1 DEF JournalInv, JournalFirst, w
      <4>3. QED
        BY <2>1, <4>2
    <3>2. CASE Index(m) \in db
      BY <1>5, <3>2 DEF JournalInv, JournalComplete, Acts
    <3>3. QED
      BY <1>1, <2>2, <3>1, <3>2, LandEffect
  <2>3. ASSUME NEW m \in Media, m \in gone' PROVE {J("add", m), J("remove", m)} \subseteq db'
    <3>1. CASE m \in gone
      BY <1>5, <3>1 DEF JournalInv, JournalComplete, Acts
    <3>2. CASE w = RemoveValue(Index(m))
      <4>1. w.path = Index(m)
        BY <3>2, WritesDiffer
      <4>2. Told("add", c, m, 1) /\ Told("remove", c, m, 1)
        BY <1>1, <3>2, <4>1 DEF JournalInv, JournalFirst, w
      <4>3. QED
        BY <2>1, <4>2
    <3>3. QED
      BY <1>1, <2>3, <3>1, <3>2
  <2>4. gone' \subseteq Media
    BY DeliverSteps DEF TypeInv, TypeOK
  <2>5. QED
    BY <2>2, <2>3, <2>4 DEF JournalComplete
<1>8. JournalFirst'
  <2>1. SUFFICES ASSUME NEW d \in Clients, NEW m \in Media, NEW i \in DOMAIN queue'[d]
                 PROVE  /\ queue'[d][i].path = Index(m) => Told("add", d, m, i)'
                        /\ queue'[d][i] = RemoveValue(Index(m)) => Told("remove", d, m, i)'
    BY DEF JournalFirst
  <2>2. CASE d = c
    <3>1. i \in Nat /\ i + 1 \in DOMAIN queue[c] /\ queue'[c][i] = queue[c][i + 1]
      BY <1>2, <2>2
    <3>2. /\ queue[c][i + 1].path = Index(m) => Told("add", c, m, i + 1)
          /\ queue[c][i + 1] = RemoveValue(Index(m)) => Told("remove", c, m, i + 1)
      BY <3>1 DEF JournalInv, JournalFirst
    <3>3. i + 1 \in Nat /\ i = (i + 1) - 1
      BY <3>1
    <3>4. \A a \in Acts : Told(a, c, m, i + 1) => Told(a, c, m, i)'
      BY <1>6, <3>3
    <3>5. QED
      BY <2>2, <3>1, <3>2, <3>4 DEF Acts
  <2>3. CASE d # c
    <3>1. /\ queue'[d] = queue[d] /\ i \in DOMAIN queue[d]
          /\ queue[d] \in Seq(Writes(Path))
      BY <1>1, <2>3 DEF TypeInv, TypeOK
    <3>2. i \in Nat
      BY <3>1
    <3>3. \A a \in Acts : Told(a, d, m, i) => Told(a, d, m, i)'
      BY <1>6, <2>3, <3>2
    <3>4. QED
      BY <3>1, <3>3 DEF JournalInv, JournalFirst, Acts
  <2>4. QED
    BY <2>2, <2>3
<1>9. JournalStays'
  BY <1>1, <1>2 DEF JournalInv, JournalStays
<1>10. NotepadsTold'
  <2>1. SUFFICES ASSUME NEW d \in Clients, NEW s \in Slots, NEW m \in Media,
                        slot'[d][s].on = m, Journals(slot'[d][s])
                 PROVE  Told("add", d, m, Len(queue[d]) + 1)'
    BY DEF NotepadsTold
  <2>2. Told("add", d, m, Len(queue[d]) + 1)
    BY <1>1, <2>1 DEF JournalInv, NotepadsTold
  <2>3. queue[d] \in Seq(Writes(Path)) /\ Len(queue[d]) \in Nat
    BY DEF TypeInv, TypeOK
  <2>4. Len(queue'[d]) = IF d = c THEN Len(queue[d]) - 1 ELSE Len(queue[d])
    <3>1. queue \in [Clients -> Seq(Writes(Path))] /\ queue[c] # <<>>
          /\ queue' = [queue EXCEPT ![c] = Tail(@)]
      BY DEF Deliver, TypeInv, TypeOK
    <3>2. CASE d = c
      <4>1. queue'[c] = Tail(queue[c])
        BY <3>1
      <4>2. QED
        BY <2>3, <3>1, <3>2, <4>1
    <3>3. QED
      BY <1>1, <3>2
  <2>5. /\ Len(queue[d]) + 1 \in Nat
        /\ Len(queue'[d]) + 1 = IF d = c THEN (Len(queue[d]) + 1) - 1 ELSE Len(queue[d]) + 1
    BY <2>3, <2>4
  <2>6. Told("add", d, m, Len(queue[d]) + 1)'
    BY <1>6, <2>2, <2>5 DEF Acts
  <2>7. QED
    BY <2>6
<1>11. QED
  BY <1>7, <1>8, <1>9, <1>10 DEF JournalInv

LEMMA CrashKeepsJournal ==
  ASSUME TypeInv, JournalInv, NEW c \in Clients, Crash(c)
  PROVE  JournalInv'
<1>1. /\ UNCHANGED <<db, gone>>
      /\ queue'[c] = <<>> /\ \A d \in Clients \ {c} : queue'[d] = queue[d]
      /\ \A d \in Clients, t \in Slots : slot'[d][t] = IF d = c THEN Closed ELSE slot[d][t]
  BY DEF Crash, TypeInv, TypeOK
<1>2. ASSUME NEW d \in Clients, NEW i \in DOMAIN queue'[d]
      PROVE  d # c /\ queue'[d] = queue[d]
  BY <1>1
<1>3. ASSUME NEW d \in Clients \ {c}, NEW a, NEW m, NEW n, Told(a, d, m, n)
      PROVE  Told(a, d, m, n)'
  BY <1>1, <1>3 DEF Told
<1>4. JournalComplete'
  BY <1>1 DEF JournalInv, JournalComplete
<1>5. JournalFirst'
  BY <1>2, <1>3 DEF JournalInv, JournalFirst
<1>6. JournalStays'
  BY <1>2 DEF JournalInv, JournalStays
<1>7. NotepadsTold'
  <2>1. SUFFICES ASSUME NEW d \in Clients, NEW s \in Slots, NEW m \in Media,
                        slot'[d][s].on = m, Journals(slot'[d][s])
                 PROVE  Told("add", d, m, Len(queue[d]) + 1)'
    BY DEF NotepadsTold
  <2>2. d # c /\ slot'[d][s] = slot[d][s] /\ queue'[d] = queue[d]
    BY <1>1, <2>1, SlotFields
  <2>3. Told("add", d, m, Len(queue[d]) + 1)
    BY <2>1, <2>2 DEF JournalInv, NotepadsTold
  <2>4. QED
    BY <1>1, <2>2, <2>3 DEF Told
<1>8. QED
  BY <1>4, <1>5, <1>6, <1>7 DEF JournalInv

LEMMA StutterKeepsJournal ==
  ASSUME JournalInv, UNCHANGED <<db, queue, slot, gone>>
  PROVE  JournalInv'
<1>1. \A a, d, m, n : Told(a, d, m, n)' <=> Told(a, d, m, n)
  BY DEF Told
<1>2. JournalComplete' /\ JournalStays'
  BY DEF JournalInv, JournalComplete, JournalStays
<1>3. JournalFirst'
  BY <1>1 DEF JournalInv, JournalFirst
<1>4. NotepadsTold'
  BY DEF JournalInv, NotepadsTold, Told
<1>5. QED
  BY <1>2, <1>3, <1>4 DEF JournalInv

(* The journal of an item on its list has its addition, that of an item    *)
(* taken off its list its addition and its removal, whatever was killed:   *)
(* the journal item is written first (performUpdate).                      *)
THEOREM JournalIsComplete == Spec => []JournalComplete
<1>1. Init => JournalInv
  <2>1. SUFFICES ASSUME Init PROVE JournalInv
    OBVIOUS
  <2>2. /\ db = {} /\ gone = {} /\ \A c \in Clients : queue[c] = <<>>
        /\ \A c \in Clients, s \in Slots : slot[c][s].on = NoMedia
    BY <2>1, SlotFields DEF Init
  <2>3. JournalComplete /\ JournalFirst /\ JournalStays
    BY <2>2 DEF JournalComplete, JournalFirst, JournalStays
  <2>4. NotepadsTold
    BY <2>2, SlotFields DEF NotepadsTold
  <2>5. QED
    BY <2>3, <2>4 DEF JournalInv
<1>2. TypeInv /\ JournalInv /\ [Next]_vars => JournalInv'
  <2>1. SUFFICES ASSUME TypeInv, JournalInv, [Next]_vars PROVE JournalInv'
    OBVIOUS
  <2>2. CASE UNCHANGED vars
    BY <2>1, <2>2, StutterKeepsJournal DEF vars, backendVars, ghostVars
  <2>3. ASSUME NEW c \in Clients, NEW s \in Slots, UserStep(c, s) \/ Answer(c, s)
        PROVE  JournalInv'
    BY <2>1, <2>3, StepKeepsJournal
  <2>4. ASSUME NEW c \in Clients, NEW f \in Followers, LoadFollower(c, f) PROVE JournalInv'
    BY <2>1, <2>4, StutterKeepsJournal DEF LoadFollower, backendVars, ghostVars
  <2>5. ASSUME NEW c \in Clients, Deliver(c) \/ Crash(c) PROVE JournalInv'
    BY <2>1, <2>5, DeliverKeepsJournal, CrashKeepsJournal
  <2>6. QED
    BY <2>1, <2>2, <2>3, <2>4, <2>5 DEF Next
<1>3. JournalInv => JournalComplete
  BY DEF JournalInv
<1>4. QED
  BY <1>1, <1>2, <1>3, TypeInvariant, PTL DEF Spec
-----------------------------------------------------------------------------
(* The news.                                                               *)

(* The record of m is there, or on its way, or why it is not is known.     *)
LeadsTo(m) == \/ Record(m) \in db
              \/ \E c \in Clients : Mentions(queue[c], Record(m))
              \/ m \in trashed \union lost

(* News of an addition or of an edit, arrived or on its way, lead there.   *)
NewsBacked == \A u \in Readers, a \in {"add", "update"}, m \in Media :
  \/ Feed(u, a, m) \in db
  \/ \E c \in Clients : Mentions(queue[c], Feed(u, a, m))
  => LeadsTo(m)

(* A record is removed by its user only.                                   *)
RemovalsMeant == \A c \in Clients, m \in Media : \A i \in DOMAIN queue[c] :
  queue[c][i] = RemoveValue(Record(m)) => m \in trashed

(* A notepad that edits or trashes an item has an item that was saved.     *)
SlotsLead == \A c \in Clients, s \in Slots, m \in Media :
  slot[c][s].on = m /\ slot[c][s].act # "add" => LeadsTo(m)

NewsInv == NewsBacked /\ RemovalsMeant /\ SlotsLead

LEMMA LeadsExtends ==
  ASSUME TypeInv, NEW c \in Clients, NEW ws, Extends(c, ws), trashed \subseteq trashed',
         lost' = lost, NEW m \in Media,
         LeadsTo(m) \/ \E j \in DOMAIN ws : ws[j].path = Record(m)
  PROVE  LeadsTo(m)'
<1>1. /\ db' = db
      /\ \A d \in Clients : \A i \in DOMAIN queue[d] :
           i \in DOMAIN queue'[d] /\ queue'[d][i] = queue[d][i]
      /\ \A j \in DOMAIN ws : /\ Len(queue[c]) + j \in DOMAIN queue'[c]
                              /\ queue'[c][Len(queue[c]) + j] = ws[j]
  <2>1. db' = db
    BY DEF Extends
  <2>2. QED
    BY <2>1, ExtendsPositions
<1>2. \A d \in Clients : Mentions(queue[d], Record(m)) => Mentions(queue'[d], Record(m))
  BY <1>1 DEF Mentions
<1>3. CASE LeadsTo(m)
  BY <1>1, <1>2, <1>3 DEF LeadsTo
<1>4. CASE \E j \in DOMAIN ws : ws[j].path = Record(m)
  <2>1. Mentions(queue'[c], Record(m))
    BY <1>1, <1>4 DEF Mentions
  <2>2. QED
    BY <2>1 DEF LeadsTo
<1>5. QED
  BY <1>3, <1>4

(* Of the steps of a notepad only the end of a removal trashes an item,    *)
(* and no other step writes while it trashes one.                          *)
LEMMA StepTrashes ==
  ASSUME TypeInv, NEW c \in Clients, NEW s \in Slots, UserStep(c, s) \/ Answer(c, s)
  PROVE  /\ trashed \subseteq trashed' /\ lost' = lost
         /\ slot[c][s].act = "remove" => queue' = queue \/ slot[c][s].on \in trashed'
<1>1. CASE UserStep(c, s)
  BY <1>1 DEF UserStep, OpenEmpty, OpenItem, Close, SaveNew, SaveItem, Trash, OnItem, backendVars,
              ghostVars
<1>2. CASE UploadEnds(c, s) \/ CheckThread(c, s) \/ UpdateFails(c, s)
  BY <1>2 DEF UploadEnds, CheckThread, UpdateFails, backendVars, ghostVars
<1>3. CASE Journaled(c, s) \/ Remove(c, s)
  BY <1>3 DEF Journaled, Remove, ghostVars
<1>4. CASE Add(c, s) \/ Update(c, s)
  BY <1>4 DEF Add, Update, Announces, ghostVars
<1>5. QED
  BY <1>1, <1>2, <1>3, <1>4 DEF Answer

LEMMA SeenLeads ==
  ASSUME StoreInv, NEW c \in Clients, NEW m \in Media, SeenBy(c, Index(m))
  PROVE  LeadsTo(m)
<1>1. CASE Index(m) \in db
  BY <1>1 DEF StoreInv, IndexBacked, LeadsTo
<1>2. CASE \E i \in DOMAIN queue[c] : queue[c][i] = SetValue(Index(m))
  <2>1. Record(m) \in db \/ \E j \in DOMAIN queue[c] : queue[c][j] = SetValue(Record(m))
    BY <1>2 DEF StoreInv, OnItsWay
  <2>2. Record(m) \in db \/ Mentions(queue[c], Record(m))
    BY <2>1, IssuedIsMentioned
  <2>3. QED
    BY <2>2 DEF LeadsTo
<1>3. QED
  BY <1>1, <1>2, SeenIsKnown

LEMMA StepKeepsNews ==
  ASSUME TypeInv, StoreInv, NewsInv, NEW c \in Clients, NEW s \in Slots,
         UserStep(c, s) \/ Answer(c, s)
  PROVE  NewsInv'
<1> DEFINE r == slot[c][s]
<1>1. PICK ws : Extends(c, ws) /\ Says(r, ws)
  BY StepSays
<1>2. /\ trashed \subseteq trashed' /\ lost' = lost /\ db' = db
      /\ r.act = "remove" => queue' = queue \/ r.on \in trashed'
  BY <1>1, StepTrashes DEF Extends
<1>3. ASSUME NEW m \in Media, LeadsTo(m) \/ \E j \in DOMAIN ws : ws[j].path = Record(m)
      PROVE  LeadsTo(m)'
  BY <1>1, <1>2, <1>3, LeadsExtends
<1>4. ASSUME NEW d \in Clients, NEW i \in DOMAIN queue'[d]
      PROVE  \/ i \in DOMAIN queue[d] /\ queue'[d][i] = queue[d][i]
             \/ d = c /\ \E j \in DOMAIN ws : /\ queue'[d][i] = ws[j] /\ r.on \in Media
                                              /\ r.act \in Acts /\ Belongs(r, ws[j])
  <2>1. CASE i \in DOMAIN queue[d]
    BY <1>1, <2>1, ExtendsPositions
  <2>2. CASE i \notin DOMAIN queue[d]
    BY <1>1, <1>4, <2>2, ExtendsPositions DEF Says
  <2>3. QED
    BY <2>1, <2>2
<1> HIDE DEF r
<1>5. RemovalsMeant'
  <2>1. SUFFICES ASSUME NEW d \in Clients, NEW m \in Media, NEW i \in DOMAIN queue'[d],
                        queue'[d][i] = RemoveValue(Record(m))
                 PROVE  m \in trashed'
    BY DEF RemovalsMeant
  <2>2. CASE i \in DOMAIN queue[d] /\ queue'[d][i] = queue[d][i]
    BY <1>2, <2>1, <2>2 DEF NewsInv, RemovalsMeant
  <2>3. CASE queue' = queue
    BY <1>2, <2>1, <2>3 DEF NewsInv, RemovalsMeant
  <2>4. ASSUME NEW j \in DOMAIN ws, queue'[d][i] = ws[j], r.on \in Media, r.act \in Acts,
               Belongs(r, ws[j]), queue' # queue
        PROVE  m \in trashed'
    <3>1. ws[j].path = Record(m) /\ ws[j] # SetValue(Record(m))
      BY <2>1, <2>4, WritesDiffer
    <3>2. m = r.on /\ r.act = "remove"
      BY <2>4, <3>1, BelongsPaths
    <3>3. QED
      BY <1>2, <2>4, <3>2
  <2>5. QED
    BY <1>4, <2>1, <2>2, <2>3, <2>4
<1>6. NewsBacked'
  <2>1. SUFFICES ASSUME NEW u \in Readers, NEW a \in {"add", "update"}, NEW m \in Media,
                        \/ Feed(u, a, m) \in db'
                        \/ \E d \in Clients : Mentions(queue'[d], Feed(u, a, m))
                 PROVE  LeadsTo(m)'
    BY DEF NewsBacked
  <2>2. CASE Feed(u, a, m) \in db
    BY <1>3, <2>2 DEF NewsInv, NewsBacked
  <2>3. ASSUME NEW d \in Clients, Mentions(queue'[d], Feed(u, a, m)) PROVE LeadsTo(m)'
    <3>1. PICK i \in DOMAIN queue'[d] : queue'[d][i].path = Feed(u, a, m)
      BY <2>3 DEF Mentions
    <3>2. CASE i \in DOMAIN queue[d] /\ queue'[d][i] = queue[d][i]
      <4>1. Mentions(queue[d], Feed(u, a, m))
        BY <3>1, <3>2 DEF Mentions
      <4>2. LeadsTo(m)
        BY <4>1 DEF NewsInv, NewsBacked
      <4>3. QED
        BY <1>3, <4>2
    <3>3. ASSUME NEW j \in DOMAIN ws, queue'[d][i] = ws[j], r.on \in Media, r.act \in Acts,
                 Belongs(r, ws[j])
          PROVE  LeadsTo(m)'
      <4>1. m = r.on /\ a = r.act /\ ws[j] = SetValue(Feed(u, a, m))
        BY <3>1, <3>3, BelongsPaths
      <4>2. CASE a = "update"
        <5>1. LeadsTo(m)
          BY <4>1, <4>2 DEF NewsInv, SlotsLead, r
        <5>2. QED
          BY <1>3, <5>1
      <4>3. CASE a = "add"
        <5>1. \E k \in DOMAIN ws : ws[k] = SetValue(Record(m))
          BY <1>1, <4>1, <4>3 DEF Says
        <5>2. QED
          BY <1>3, <5>1, WritesDiffer
      <4>4. QED
        BY <4>2, <4>3
    <3>4. QED
      BY <1>4, <3>2, <3>3
  <2>4. QED
    BY <1>2, <2>1, <2>2, <2>3
<1>7. SlotsLead'
  <2>1. SUFFICES ASSUME NEW d \in Clients, NEW t \in Slots, NEW m \in Media,
                        slot'[d][t].on = m, slot'[d][t].act # "add"
                 PROVE  LeadsTo(m)'
    BY DEF SlotsLead
  <2>2. LeadsTo(m)
    <3>1. \/ slot[d][t].on = m /\ slot[d][t].act # "add"
          \/ SeenBy(c, Index(m))
      BY <2>1, SlotMoves
    <3>2. QED
      BY <3>1, SeenLeads DEF NewsInv, SlotsLead
  <2>3. QED
    BY <1>3, <2>2
<1>8. QED
  BY <1>5, <1>6, <1>7 DEF NewsInv

LEMMA DeliverKeepsNews ==
  ASSUME TypeInv, NewsInv, NEW c \in Clients, Deliver(c)
  PROVE  NewsInv'
<1> DEFINE w == queue[c][1]
<1>1. /\ w \in Writes(Path) /\ 1 \in DOMAIN queue[c]
      /\ db' = Land(w)
      /\ slot' = slot
      /\ \A d \in Clients \ {c} : queue'[d] = queue[d]
      /\ \A i \in DOMAIN queue'[c] : i + 1 \in DOMAIN queue[c] /\ queue'[c][i] = queue[c][i + 1]
      /\ \A i \in DOMAIN queue[c] :
           i = 1 \/ (i - 1 \in DOMAIN queue'[c] /\ queue'[c][i - 1] = queue[c][i])
  BY DeliverSteps
<1>0. UNCHANGED <<trashed, lost>>
  BY DEF Deliver
<1>2. \A m \in Media : w = RemoveValue(Record(m)) => m \in trashed
  BY <1>1 DEF NewsInv, RemovalsMeant
<1>3. \A d \in Clients : \A p : Mentions(queue'[d], p) => Mentions(queue[d], p)
  BY <1>1 DEF Mentions
<1>4. \A d \in Clients : \A p : Mentions(queue[d], p) =>
        Mentions(queue'[d], p) \/ (d = c /\ w.path = p)
  BY <1>1 DEF Mentions
<1>5. \A p \in db' : p \in db \/ Mentions(queue[c], p)
  BY <1>1 DEF Land, Mentions
<1> HIDE DEF w
<1>6. ASSUME NEW m \in Media, LeadsTo(m) PROVE LeadsTo(m)'
  <2>1. CASE m \in trashed \union lost
    BY <1>0, <2>1 DEF LeadsTo
  <2>2. CASE Record(m) \in db
    BY <1>0, <1>1, <1>2, <2>2, LandEffect DEF LeadsTo
  <2>3. ASSUME NEW d \in Clients, Mentions(queue[d], Record(m)) PROVE LeadsTo(m)'
    <3>1. CASE Mentions(queue'[d], Record(m))
      BY <3>1 DEF LeadsTo
    <3>2. CASE w.path = Record(m)
      <4>1. w = SetValue(Record(m)) \/ w = RemoveValue(Record(m))
        BY <1>1, <3>2, WriteForms
      <4>2. QED
        BY <1>0, <1>1, <1>2, <4>1, LandEffect DEF LeadsTo
    <3>3. QED
      BY <1>4, <2>3, <3>1, <3>2
  <2>4. QED
    BY <1>6, <2>1, <2>2, <2>3 DEF LeadsTo
<1>7. NewsBacked'
  BY <1>3, <1>5, <1>6 DEF NewsInv, NewsBacked
<1>8. RemovalsMeant'
  BY <1>0, <1>1 DEF NewsInv, RemovalsMeant
<1>9. SlotsLead'
  BY <1>1, <1>6 DEF NewsInv, SlotsLead
<1>10. QED
  BY <1>7, <1>8, <1>9 DEF NewsInv

LEMMA CrashKeepsNews ==
  ASSUME TypeInv, NewsInv, NEW c \in Clients, Crash(c)
  PROVE  NewsInv'
<1>1. /\ UNCHANGED <<db, trashed>>
      /\ queue'[c] = <<>> /\ \A d \in Clients \ {c} : queue'[d] = queue[d]
      /\ \A d \in Clients, t \in Slots : slot'[d][t] = IF d = c THEN Closed ELSE slot[d][t]
  BY DEF Crash, TypeInv, TypeOK
<1>2. /\ lost \subseteq lost'
      /\ \A m \in Media : Mentions(queue[c], Record(m)) => m \in lost'
  BY DEF Crash
<1>3. \A d \in Clients : \A p : Mentions(queue'[d], p) => d # c /\ Mentions(queue[d], p)
  BY <1>1 DEF Mentions
<1>4. ASSUME NEW m \in Media, LeadsTo(m) PROVE LeadsTo(m)'
  BY <1>1, <1>2, <1>4 DEF LeadsTo
<1>5. NewsBacked'
  BY <1>1, <1>3, <1>4 DEF NewsInv, NewsBacked
<1>6. RemovalsMeant'
  BY <1>1 DEF NewsInv, RemovalsMeant
<1>7. SlotsLead'
  BY <1>1, <1>4, SlotFields DEF NewsInv, SlotsLead
<1>8. QED
  BY <1>5, <1>6, <1>7 DEF NewsInv

LEMMA StutterKeepsNews ==
  ASSUME NewsInv, UNCHANGED <<db, queue, slot, trashed, lost>>
  PROVE  NewsInv'
<1>1. \A m : LeadsTo(m)' <=> LeadsTo(m)
  BY DEF LeadsTo
<1>2. QED
  BY <1>1 DEF NewsInv, NewsBacked, RemovalsMeant, SlotsLead

(* The news of a new thread, or of an edit, lead their reader to a record  *)
(* that is there or on its way, unless the item was trashed or a kill cut  *)
(* its save off: an item is announced with the writes that add it, or once *)
(* it is on a list.                                                        *)
THEOREM NewsAreBacked == Spec => []NewsLeadSomewhere
<1>1. Init => NewsInv
  <2>1. SUFFICES ASSUME Init PROVE NewsInv
    OBVIOUS
  <2>2. /\ db = {} /\ \A c \in Clients : queue[c] = <<>>
        /\ \A c \in Clients, s \in Slots : slot[c][s].on = NoMedia
    BY <2>1, SlotFields DEF Init
  <2>3. QED
    BY <2>2, SlotFields DEF NewsInv, NewsBacked, RemovalsMeant, SlotsLead, Mentions
<1>2. TypeInv /\ StoreInv /\ NewsInv /\ [Next]_vars => NewsInv'
  <2>1. SUFFICES ASSUME TypeInv, StoreInv, NewsInv, [Next]_vars PROVE NewsInv'
    OBVIOUS
  <2>2. CASE UNCHANGED vars
    BY <2>1, <2>2, StutterKeepsNews DEF vars, backendVars, ghostVars
  <2>3. ASSUME NEW c \in Clients, NEW s \in Slots, UserStep(c, s) \/ Answer(c, s)
        PROVE  NewsInv'
    BY <2>1, <2>3, StepKeepsNews
  <2>4. ASSUME NEW c \in Clients, NEW f \in Followers, LoadFollower(c, f) PROVE NewsInv'
    BY <2>1, <2>4, StutterKeepsNews DEF LoadFollower, backendVars, ghostVars
  <2>5. ASSUME NEW c \in Clients, Deliver(c) \/ Crash(c) PROVE NewsInv'
    BY <2>1, <2>5, DeliverKeepsNews, CrashKeepsNews
  <2>6. QED
    BY <2>1, <2>2, <2>3, <2>4, <2>5 DEF Next
<1>3. TypeInv /\ NewsInv => NewsLeadSomewhere
  <2>1. \A t \in Threads : Pointed("add", t) = Record(t)
    BY MediaAssumption DEF Pointed, Target, Record
  <2>2. \A m \in Media : Pointed("update", m) = Record(m)
    BY DEF Pointed, Target, Record
  <2>3. QED
    BY <2>1, <2>2 DEF NewsInv, NewsBacked, NewsLeadSomewhere, Leads, LeadsTo, Media
<1>4. QED
  BY <1>1, <1>2, <1>3, StoreInvariant, PTL DEF Spec
-----------------------------------------------------------------------------
(* One notepad at a time.                                                  *)

(* Path p holds a value, or will once the queue has arrived, and nothing   *)
(* queued takes it away.                                                   *)
Stands(c, p) ==
  /\ p \in db \/ \E i \in DOMAIN queue[c] : queue[c][i] = SetValue(p)
  /\ \A i \in DOMAIN queue[c] : queue[c][i] # RemoveValue(p)

(* Body b is off its list before write n of the queue is delivered.        *)
Leaves(c, b, n) ==
  /\ Index(b) \in db => \E i \in DOMAIN queue[c] : i < n /\ queue[c][i] = RemoveValue(Index(b))
  /\ \A j \in DOMAIN queue[c] : queue[c][j] = SetValue(Index(b)) =>
       \E i \in DOMAIN queue[c] : j < i /\ i < n /\ queue[c][i] = RemoveValue(Index(b))

(* A body is listed after its thread, and a thread taken off its list      *)
(* after its bodies.                                                       *)
BodiesInside(c) == \A b \in Bodies : \A i \in DOMAIN queue[c] :
  /\ queue[c][i] = SetValue(Index(b)) =>
       \/ Index(Parent[b]) \in db
       \/ \E j \in DOMAIN queue[c] : j < i /\ queue[c][j] = SetValue(Index(Parent[b]))
  /\ queue[c][i] = RemoveValue(Index(Parent[b])) => Leaves(c, b, i)

(* The thread an empty notepad, or a save of a new item, is about.         *)
ThreadOf(r) == IF r.on \in Children THEN Parent[r.on] ELSE r.under

(* A notepad adds to a thread that stands, and once it has found no body   *)
(* of a thread it trashes there is none.                                   *)
NotepadInside(c, r) ==
  /\ r.act = "add" /\ ThreadOf(r) \in Threads => Stands(c, Index(ThreadOf(r)))
  /\ r.act = "remove" /\ r.step # "checkBodies" =>
       \A b \in Bodies : Parent[b] = r.on => Leaves(c, b, Len(queue[c]) + 1)

BodiesInv == /\ BodiesKeepThread
             /\ \A c \in Clients, s \in Slots : BodiesInside(c) /\ NotepadInside(c, slot[c][s])

(* The fields of an item are written while its record stands, and so they  *)
(* are only by a notepad on it.                                            *)
FieldsInside(c) == \A m \in Media : \A i \in DOMAIN queue[c] :
  queue[c][i] = SetValue(Fields(m)) =>
    /\ \/ Record(m) \in db
       \/ \E j \in DOMAIN queue[c] : j < i /\ queue[c][j] = SetValue(Record(m))
    /\ \A j \in DOMAIN queue[c] : j < i => queue[c][j] # RemoveValue(Record(m))

EditsInside(c, r) == r.act \in {"update", "remove"} => Stands(c, Record(r.on))

FieldsInv == /\ NoPartialRecord
             /\ \A c \in Clients, s \in Slots : FieldsInside(c) /\ EditsInside(c, slot[c][s])

LEMMA SeenStands ==
  ASSUME TypeInv, StoreInv, NEW c \in Clients, NEW m \in Media, SeenBy(c, Index(m))
  PROVE  Stands(c, Index(m)) /\ Stands(c, Record(m))
<1>1. \A i \in DOMAIN queue[c] : i \in Nat
  BY DEF TypeInv, TypeOK
<1>2. RemoveValue(Index(m)).path = Index(m) /\ RemoveValue(Index(m)) # SetValue(Index(m))
  BY WritesDiffer
<1>3. CASE ~Mentions(queue[c], Index(m)) /\ Index(m) \in db
  <2>1. \A i \in DOMAIN queue[c] : queue[c][i] # RemoveValue(Index(m))
    BY <1>2, <1>3 DEF Mentions
  <2>2. Record(m) \in db /\ m \notin gone
    BY <1>3 DEF StoreInv, IndexBacked, StaysGone
  <2>3. \A i \in DOMAIN queue[c] : queue[c][i] # RemoveValue(Record(m))
    BY <2>1, <2>2 DEF StoreInv, IndexFirst
  <2>4. QED
    BY <1>3, <2>1, <2>2, <2>3 DEF Stands
<1>4. CASE LastSets(queue[c], Index(m))
  <2>1. PICK i \in DOMAIN queue[c] :
          /\ queue[c][i] = SetValue(Index(m))
          /\ \A j \in DOMAIN queue[c] : j > i => queue[c][j].path # Index(m)
    BY <1>4 DEF LastSets
  <2>2. /\ m \notin gone
        /\ \A j \in DOMAIN queue[c] :
             queue[c][j] \in {SetValue(Index(m)), RemoveValue(Index(m)), RemoveValue(Record(m))}
               => j >= i
        /\ \/ Record(m) \in db
           \/ \E j \in DOMAIN queue[c] : j < i /\ queue[c][j] = SetValue(Record(m))
    BY <2>1 DEF StoreInv, OnItsWay
  <2>3. ASSUME NEW j \in DOMAIN queue[c], queue[c][j] = RemoveValue(Index(m)) PROVE FALSE
    <3>1. j >= i /\ j # i
      BY <1>2, <2>1, <2>2, <2>3
    <3>2. j > i
      BY <1>1, <3>1
    <3>3. QED
      BY <1>2, <2>1, <2>3, <3>2
  <2>4. \A j \in DOMAIN queue[c] : queue[c][j] # RemoveValue(Record(m))
    BY <2>2, <2>3 DEF StoreInv, IndexFirst
  <2>5. QED
    BY <2>1, <2>2, <2>3, <2>4 DEF Stands
<1>5. QED
  BY <1>3, <1>4 DEF SeenBy, Sees

(* A body that is not seen has its removal queued, behind its addition.    *)
LEMMA UnseenLeaves ==
  ASSUME TypeInv, StoreInv, NEW c \in Clients, NEW b \in Bodies, ~SeenBy(c, Index(b))
  PROVE  Leaves(c, b, Len(queue[c]) + 1)
<1>1. /\ Len(queue[c]) \in Nat
      /\ \A i \in DOMAIN queue[c] : /\ i \in Nat /\ i < Len(queue[c]) + 1
                                    /\ queue[c][i] \in Writes(Path)
  BY DEF TypeInv, TypeOK
<1>2. b \in Media
  BY DEF Media, Children
<1>3. \A i \in DOMAIN queue[c] : queue[c][i].path = Index(b) =>
        queue[c][i] = SetValue(Index(b)) \/ queue[c][i] = RemoveValue(Index(b))
  BY <1>1, WriteForms
<1>4. ASSUME Index(b) \in db
      PROVE  \E i \in DOMAIN queue[c] : i < Len(queue[c]) + 1 /\ queue[c][i] = RemoveValue(Index(b))
  <2>1. PICK i \in DOMAIN queue[c] : queue[c][i].path = Index(b)
    BY <1>4 DEF SeenBy, Sees, Mentions
  <2>2. queue[c][i] # SetValue(Index(b))
    BY <1>2, <1>4 DEF StoreInv, OnItsWay
  <2>3. QED
    BY <1>1, <1>3, <2>1, <2>2
<1>5. ASSUME NEW j \in DOMAIN queue[c], queue[c][j] = SetValue(Index(b))
      PROVE  \E i \in DOMAIN queue[c] : /\ j < i /\ i < Len(queue[c]) + 1
                                        /\ queue[c][i] = RemoveValue(Index(b))
  <2>1. PICK i \in DOMAIN queue[c] : i > j /\ queue[c][i].path = Index(b)
    BY <1>5 DEF SeenBy, Sees, LastSets
  <2>2. ASSUME queue[c][i] = SetValue(Index(b)) PROVE FALSE
    <3>1. j >= i
      BY <1>2, <1>5, <2>2 DEF StoreInv, OnItsWay
    <3>2. QED
      BY <1>1, <2>1, <3>1
  <2>3. j < i
    BY <1>1, <2>1
  <2>4. QED
    BY <1>1, <1>3, <2>1, <2>2, <2>3
<1>6. QED
  BY <1>4, <1>5 DEF Leaves

(* The own queue of a client that adds to it.                              *)
LEMMA ExtendsOwn ==
  ASSUME TypeInv, NEW c \in Clients, NEW ws, Extends(c, ws)
  PROVE  /\ db' = db
         /\ \A i \in DOMAIN queue[c] : i \in DOMAIN queue'[c] /\ queue'[c][i] = queue[c][i]
         /\ \A i \in DOMAIN queue'[c] :
              \/ i \in DOMAIN queue[c]
              \/ \E j \in DOMAIN ws : queue'[c][i] = ws[j]
<1>1. db' = db
  BY DEF Extends
<1>2. QED
  BY <1>1, ExtendsPositions

LEMMA StandsExtends ==
  ASSUME TypeInv, NEW c \in Clients, NEW ws, Extends(c, ws), NEW p, Stands(c, p),
         \A j \in DOMAIN ws : ws[j] # RemoveValue(p)
  PROVE  Stands(c, p)'
<1>1. /\ db' = db
      /\ \A i \in DOMAIN queue[c] : i \in DOMAIN queue'[c] /\ queue'[c][i] = queue[c][i]
      /\ \A i \in DOMAIN queue'[c] :
           \/ i \in DOMAIN queue[c]
           \/ \E j \in DOMAIN ws : queue'[c][i] = ws[j]
  BY ExtendsOwn
<1>2. QED
  BY <1>1 DEF Stands

LEMMA LeavesExtends ==
  ASSUME TypeInv, NEW c \in Clients, NEW ws, Extends(c, ws), NEW b \in Bodies, NEW n,
         Leaves(c, b, n), \A j \in DOMAIN ws : ws[j] # SetValue(Index(b))
  PROVE  Leaves(c, b, n)'
<1>1. /\ db' = db
      /\ \A i \in DOMAIN queue[c] : i \in DOMAIN queue'[c] /\ queue'[c][i] = queue[c][i]
      /\ \A i \in DOMAIN queue'[c] :
           \/ i \in DOMAIN queue[c]
           \/ \E j \in DOMAIN ws : queue'[c][i] = ws[j]
  BY ExtendsOwn
<1>2. QED
  BY <1>1 DEF Leaves

LEMMA LeavesLater ==
  ASSUME TypeInv, NEW c \in Clients, NEW b \in Bodies, NEW n \in Nat, NEW k \in Nat, n <= k,
         Leaves(c, b, n)
  PROVE  Leaves(c, b, k)
<1>1. \A i \in DOMAIN queue[c] : i \in Nat /\ (i < n => i < k)
  BY DEF TypeInv, TypeOK
<1>2. QED
  BY <1>1 DEF Leaves

LEMMA StandsDeliver ==
  ASSUME TypeInv, NEW c \in Clients, Deliver(c), NEW m \in Media,
         NEW p \in {Index(m), Record(m)}, Stands(c, p)
  PROVE  Stands(c, p)'
<1> DEFINE w == queue[c][1]
<1>1. /\ w \in Writes(Path) /\ 1 \in DOMAIN queue[c] /\ db' = Land(w)
      /\ \A i \in DOMAIN queue'[c] : i + 1 \in DOMAIN queue[c] /\ queue'[c][i] = queue[c][i + 1]
      /\ \A i \in DOMAIN queue[c] : i = 1 \/ (i - 1 \in DOMAIN queue'[c]
                                              /\ queue'[c][i - 1] = queue[c][i])
  BY DeliverSteps
<1>2. w = SetValue(p) \/ (p \in db /\ w # RemoveValue(p)) => p \in db'
  BY <1>1, LandEffect
<1>3. w # RemoveValue(p) /\ \A i \in DOMAIN queue'[c] : queue'[c][i] # RemoveValue(p)
  BY <1>1 DEF Stands
<1>4. p \in db' \/ \E i \in DOMAIN queue'[c] : queue'[c][i] = SetValue(p)
  <2>1. CASE p \in db
    BY <1>2, <1>3, <2>1
  <2>2. CASE p \notin db
    <3>1. PICK i \in DOMAIN queue[c] : queue[c][i] = SetValue(p)
      BY <2>2 DEF Stands
    <3>2. QED
      BY <1>1, <1>2, <3>1
  <2>3. QED
    BY <2>1, <2>2
<1>5. QED
  BY <1>3, <1>4 DEF Stands

LEMMA LeavesDeliver ==
  ASSUME TypeInv, NEW c \in Clients, Deliver(c), NEW b \in Bodies, NEW n \in Nat,
         Leaves(c, b, n + 1)
  PROVE  Leaves(c, b, n)'
<1> DEFINE w == queue[c][1]
           q == queue[c]
           t == queue'[c]
<1>1. /\ w \in Writes(Path) /\ 1 \in DOMAIN q /\ db' = Land(w)
      /\ \A i \in DOMAIN q : i \in Nat /\ i >= 1
      /\ \A i \in DOMAIN t : i \in Nat /\ i + 1 \in DOMAIN q /\ t[i] = q[i + 1]
      /\ \A i \in DOMAIN q : i = 1 \/ (i - 1 \in DOMAIN t /\ t[i - 1] = q[i])
  BY DeliverSteps
<1>2. b \in Media
  BY DEF Media, Children
<1>3. Index(b) \in db' <=> w = SetValue(Index(b)) \/ (Index(b) \in db /\ w # RemoveValue(Index(b)))
  BY <1>1, <1>2, LandEffect
<1>4. /\ Index(b) \in db => \E i \in DOMAIN q : i < n + 1 /\ q[i] = RemoveValue(Index(b))
      /\ \A j \in DOMAIN q : q[j] = SetValue(Index(b)) =>
           \E i \in DOMAIN q : j < i /\ i < n + 1 /\ q[i] = RemoveValue(Index(b))
  BY DEF Leaves
<1> HIDE DEF w, q, t
<1>5. \A i \in DOMAIN q : i # 1 /\ i < n + 1 => i - 1 < n /\ i - 1 \in DOMAIN t /\ t[i - 1] = q[i]
  BY <1>1
<1>6. ASSUME Index(b) \in db'
      PROVE  \E i \in DOMAIN t : i < n /\ t[i] = RemoveValue(Index(b))
  <2>1. PICK i \in DOMAIN q : i # 1 /\ i < n + 1 /\ q[i] = RemoveValue(Index(b))
    <3>1. CASE w = SetValue(Index(b))
      <4>1. PICK i \in DOMAIN q : 1 < i /\ i < n + 1 /\ q[i] = RemoveValue(Index(b))
        BY <1>1, <1>4, <3>1 DEF w, q
      <4>2. i # 1
        BY <1>1, <4>1
      <4>3. QED
        BY <4>1, <4>2
    <3>2. CASE Index(b) \in db /\ w # RemoveValue(Index(b))
      BY <1>4, <3>2 DEF w, q
    <3>3. QED
      BY <1>3, <1>6, <3>1, <3>2
  <2>2. QED
    BY <1>5, <2>1
<1>7. ASSUME NEW j \in DOMAIN t, t[j] = SetValue(Index(b))
      PROVE  \E i \in DOMAIN t : j < i /\ i < n /\ t[i] = RemoveValue(Index(b))
  <2>1. j \in Nat /\ j + 1 \in DOMAIN q /\ q[j + 1] = SetValue(Index(b))
    BY <1>1, <1>7
  <2>2. PICK i \in DOMAIN q : j + 1 < i /\ i < n + 1 /\ q[i] = RemoveValue(Index(b))
    BY <1>4, <2>1
  <2>3. i # 1 /\ j < i - 1
    BY <1>1, <2>1, <2>2
  <2>4. QED
    BY <1>5, <2>2, <2>3
<1>8. QED
  BY <1>6, <1>7 DEF Leaves, t

(* What a notepad in state r writes of an item's entry or record.          *)
LEMMA SaysPaths ==
  ASSUME NEW r, NEW ws, Says(r, ws), NEW j \in DOMAIN ws, NEW m \in Media
  PROVE  /\ ws[j] = SetValue(Index(m)) => r.on = m /\ r.act = "add"
         /\ ws[j] = RemoveValue(Index(m)) => r.on = m /\ r.act = "remove"
         /\ ws[j] = RemoveValue(Record(m)) => r.on = m /\ r.act = "remove"
         /\ ws[j] = SetValue(Fields(m)) => r.on = m /\ r.act = "update"
<1> DEFINE w == ws[j]
<1>1. r.on \in Media /\ r.act \in Acts /\ Belongs(r, w)
  BY DEF Says
<1>2. /\ w = SetValue(Index(m)) \/ w = RemoveValue(Index(m)) => w.path = Index(m)
      /\ w = RemoveValue(Record(m)) => w.path = Record(m)
      /\ w = SetValue(Fields(m)) => w.path = Fields(m)
      /\ SetValue(Index(m)) # RemoveValue(Index(m))
      /\ SetValue(Record(m)) # RemoveValue(Record(m))
  BY WritesDiffer
<1> HIDE DEF w
<1>3. /\ w.path = Index(m)  => /\ m = r.on
                               /\ \/ r.act = "add" /\ w = SetValue(Index(m))
                                  \/ r.act = "remove" /\ w = RemoveValue(Index(m))
      /\ w.path = Record(m) => /\ m = r.on
                               /\ \/ r.act = "add" /\ w = SetValue(Record(m))
                                  \/ r.act = "remove" /\ w = RemoveValue(Record(m))
      /\ w.path = Fields(m) => m = r.on /\ r.act = "update"
  BY <1>1, BelongsPaths
<1>4. QED
  BY <1>2, <1>3 DEF w

LEMMA InsideExtends ==
  ASSUME TypeInv, NEW c \in Clients, NEW r, BodiesInside(c), NotepadInside(c, r),
         NEW ws, Extends(c, ws), Says(r, ws), r.act = "remove" => r.step # "checkBodies"
  PROVE  BodiesInside(c)'
<1> DEFINE q == queue[c]
           z == queue'[c]
           k == Len(q)
<1>1. /\ db' = db /\ k \in Nat
      /\ \A i \in DOMAIN q : i \in Nat /\ i <= k /\ i \in DOMAIN z /\ z[i] = q[i]
      /\ \A i \in DOMAIN z : /\ i \in Nat
                             /\ \/ i \in DOMAIN q
                                \/ \E j \in DOMAIN ws : i = k + j /\ j >= 1 /\ z[i] = ws[j]
  <2>1. db' = db
    BY DEF Extends
  <2>2. k \in Nat /\ \A i \in DOMAIN q : i \in Nat /\ i <= k /\ i \in DOMAIN z /\ z[i] = q[i]
    BY ExtendsPositions
  <2>3. \A i \in DOMAIN z : \/ i \in DOMAIN q
                            \/ \E j \in DOMAIN ws : i = k + j /\ z[i] = ws[j]
    BY ExtendsPositions
  <2>4. \A j \in DOMAIN ws : j \in Nat /\ j >= 1
    BY ExtendsPositions
  <2> HIDE DEF q, z, k
  <2>5. QED
    BY <2>1, <2>2, <2>3, <2>4
<1> HIDE DEF q, z, k
<1>2. SUFFICES ASSUME NEW b \in Bodies, NEW i \in DOMAIN z
               PROVE  /\ z[i] = SetValue(Index(b)) =>
                           \/ Index(Parent[b]) \in db
                           \/ \E j \in DOMAIN z : j < i /\ z[j] = SetValue(Index(Parent[b]))
                      /\ z[i] = RemoveValue(Index(Parent[b])) => Leaves(c, b, i)'
  BY <1>1 DEF BodiesInside, z
<1>3. /\ b \in Media /\ b \in Children /\ Parent[b] \in Threads /\ Parent[b] \in Media
      /\ b \notin Threads
  BY MediaAssumption DEF Media, Children
<1>4. ASSUME NEW j \in DOMAIN ws, ws[j] = SetValue(Index(b))
      PROVE  r.act = "add" /\ Stands(c, Index(Parent[b]))
  <2>1. r.act = "add" /\ r.on = b
    BY <1>3, <1>4, SaysPaths
  <2>2. ThreadOf(r) = Parent[b]
    BY <1>3, <2>1 DEF ThreadOf
  <2>3. QED
    BY <1>3, <2>1, <2>2 DEF NotepadInside
<1>5. CASE i \in DOMAIN q
  <2>1. ASSUME z[i] = SetValue(Index(b))
        PROVE  \/ Index(Parent[b]) \in db
               \/ \E j \in DOMAIN z : j < i /\ z[j] = SetValue(Index(Parent[b]))
    <3>1. \/ Index(Parent[b]) \in db
          \/ \E j \in DOMAIN q : j < i /\ q[j] = SetValue(Index(Parent[b]))
      BY <1>1, <1>5, <2>1 DEF BodiesInside, q
    <3>2. QED
      BY <1>1, <3>1
  <2>2. ASSUME z[i] = RemoveValue(Index(Parent[b])) PROVE Leaves(c, b, i)'
    <3>1. q[i] = RemoveValue(Index(Parent[b])) /\ Leaves(c, b, i)
      BY <1>1, <1>5, <2>2 DEF BodiesInside, q
    <3>2. \A j \in DOMAIN ws : ws[j] # SetValue(Index(b))
      BY <1>4, <1>5, <3>1 DEF Stands, q
    <3>3. QED
      BY <3>1, <3>2, LeavesExtends
  <2>3. QED
    BY <2>1, <2>2
<1>6. ASSUME NEW j \in DOMAIN ws, i = k + j, j >= 1, z[i] = ws[j], i \in Nat
      PROVE  /\ z[i] = SetValue(Index(b)) =>
                  \/ Index(Parent[b]) \in db
                  \/ \E h \in DOMAIN z : h < i /\ z[h] = SetValue(Index(Parent[b]))
             /\ z[i] = RemoveValue(Index(Parent[b])) => Leaves(c, b, i)'
  <2>0. j \in Nat
    BY ExtendsPositions
  <2>1. ASSUME z[i] = SetValue(Index(b))
        PROVE  \/ Index(Parent[b]) \in db
               \/ \E h \in DOMAIN z : h < i /\ z[h] = SetValue(Index(Parent[b]))
    <3>1. Stands(c, Index(Parent[b]))
      BY <1>4, <1>6, <2>1
    <3>2. \/ Index(Parent[b]) \in db
          \/ \E h \in DOMAIN q : q[h] = SetValue(Index(Parent[b]))
      BY <3>1 DEF Stands, q
    <3>3. \A h \in DOMAIN q : h < i /\ h \in DOMAIN z /\ z[h] = q[h]
      BY <1>1, <1>6, <2>0
    <3>4. QED
      BY <3>2, <3>3
  <2>2. ASSUME z[i] = RemoveValue(Index(Parent[b])) PROVE Leaves(c, b, i)'
    <3>1. r.act = "remove" /\ r.on = Parent[b]
      <4> DEFINE t == Parent[b]
      <4>1. t \in Media /\ ws[j] = RemoveValue(Index(t))
        BY <1>3, <1>6, <2>2
      <4> HIDE DEF t
      <4>2. r.on = t /\ r.act = "remove"
        BY <4>1, SaysPaths
      <4>3. QED
        BY <4>2 DEF t
    <3>2. Leaves(c, b, k + 1)
      BY <3>1 DEF NotepadInside, k, q
    <3>3. Leaves(c, b, i)
      <4>1. k + 1 \in Nat /\ i \in Nat /\ k + 1 <= i
        BY <1>1, <1>6, <2>0
      <4>2. QED
        BY <3>2, <4>1, LeavesLater
    <3>4. \A h \in DOMAIN ws : ws[h] # SetValue(Index(b))
      BY <1>4, <3>1
    <3>5. QED
      BY <3>3, <3>4, LeavesExtends
  <2>3. QED
    BY <2>1, <2>2
<1>7. QED
  BY <1>1, <1>5, <1>6

(* What a notepad is about when it is not on an item of its own.           *)
LEMMA ThreadsOf ==
  /\ NoMedia \notin Threads /\ NoMedia \notin Children
  /\ Closed.act = "none"
  /\ \A t : Empty(t).act = "add" /\ (ThreadOf(Empty(t)) = t) /\ Empty(t).step = "open"
  /\ \A m : Editing(m).act = "update" /\ Editing(m).on = m
  /\ \A step, act, m, v :
       /\ Working(step, act, m, v).act = act /\ Working(step, act, m, v).step = step
       /\ Working(step, act, m, v).on = m
       /\ ThreadOf(Working(step, act, m, v)) \in Threads =>
            m \in Children /\ ThreadOf(Working(step, act, m, v)) = Parent[m]
  /\ \A m \in Media, act \in Acts :
       /\ act = "add" => /\ BackTo(m, act).act = "add"
                         /\ ThreadOf(BackTo(m, act)) \in Threads =>
                              m \in Children /\ ThreadOf(BackTo(m, act)) = Parent[m]
       /\ act # "add" => BackTo(m, act).act = "update" /\ BackTo(m, act).on = m
<1>1. NoMedia \notin Threads /\ NoMedia \notin Children
  BY MediaAssumption DEF Media
<1>2. Closed.act = "none"
  BY DEF Closed
<1>3. ASSUME NEW t
      PROVE  Empty(t).act = "add" /\ ThreadOf(Empty(t)) = t /\ Empty(t).step = "open"
  BY <1>1 DEF Empty, ThreadOf
<1>4. \A m : Editing(m).act = "update" /\ Editing(m).on = m
  BY DEF Editing
<1>5. ASSUME NEW step, NEW act, NEW m, NEW v
      PROVE  /\ Working(step, act, m, v).act = act /\ Working(step, act, m, v).step = step
             /\ Working(step, act, m, v).on = m
             /\ ThreadOf(Working(step, act, m, v)) \in Threads =>
                  m \in Children /\ ThreadOf(Working(step, act, m, v)) = Parent[m]
  BY <1>1 DEF Working, ThreadOf
<1>6. ASSUME NEW m \in Media, NEW act \in Acts
      PROVE  /\ act = "add" => /\ BackTo(m, act).act = "add"
                               /\ ThreadOf(BackTo(m, act)) \in Threads =>
                                    m \in Children /\ ThreadOf(BackTo(m, act)) = Parent[m]
             /\ act # "add" => BackTo(m, act).act = "update" /\ BackTo(m, act).on = m
  <2>1. CASE act = "add" /\ m \in Threads
    BY <1>1, <1>3, <2>1 DEF BackTo
  <2>2. CASE act = "add" /\ m \notin Threads
    BY <1>3, <2>2 DEF BackTo, Media
  <2>3. CASE act # "add"
    BY <1>4, <2>3 DEF BackTo
  <2>4. QED
    BY <2>1, <2>2, <2>3
<1>7. QED
  BY <1>1, <1>2, <1>3, <1>4, <1>5, <1>6

(* Where a notepad may get to in one step, with its client's queue.        *)
Moves(c, r, p) ==
  /\ p.act = "add" /\ ThreadOf(p) \in Threads =>
       \/ r.act = "add" /\ ThreadOf(p) = ThreadOf(r)
       \/ queue' = queue /\ SeenBy(c, Index(ThreadOf(p)))
  /\ p.act = "remove" /\ p.step # "checkBodies" /\ p.on \in Threads =>
       /\ queue' = queue /\ r.act = "remove" /\ p.on = r.on
       /\ r.step # "checkBodies" \/ ~HasChildren(c, "Bodies", r.on)
  /\ p.act \in {"update", "remove"} =>
       /\ p.on \in Media
       /\ \/ r.act \in {"update", "remove"} /\ p.on = r.on
          \/ queue' = queue /\ SeenBy(c, Index(p.on))
  /\ r.act = "remove" => queue' = queue \/ (r.step # "checkBodies" /\ p.act = "none")

LEMMA NotepadMoves ==
  ASSUME TypeInv, NEW c \in Clients, NEW s \in Slots, UserStep(c, s) \/ Answer(c, s)
  PROVE  Moves(c, slot[c][s], slot'[c][s])
<1> DEFINE r == slot[c][s]
           p == slot'[c][s]
<1>a. SUFFICES Moves(c, r, p)
  OBVIOUS
<1>0. /\ r.step \notin {"open", "closed"} => r.on \in Media /\ r.act \in Acts
      /\ r.act \in {"update", "remove"} => r.on \in Media
      /\ SlotFits(r)
  BY SlotsGood
<1>1. ASSUME NEW n, Puts(c, s, n) PROVE p = n
  BY <1>1, PutGood DEF Puts
<1>2. ASSUME NEW n, Put(c, s, n) PROVE p = n
  BY <1>2 DEF Put, TypeInv, TypeOK
<1>3. ASSUME r.on \in Media, r.act \in Acts, p = BackTo(r.on, r.act),
             r.act = "remove" => queue' = queue
      PROVE  Moves(c, r, p)
  <2>1. CASE r.act = "add"
    <3>1. p.act = "add" /\ (ThreadOf(p) \in Threads => r.on \in Children /\ ThreadOf(p) = Parent[r.on])
      BY <1>3, <2>1, ThreadsOf
    <3>2. ThreadOf(p) \in Threads => ThreadOf(p) = ThreadOf(r)
      BY <3>1 DEF ThreadOf
    <3> HIDE DEF r, p
    <3>3. QED
      BY <2>1, <3>1, <3>2 DEF Moves
  <2>2. CASE r.act # "add"
    <3>1. p.act = "update" /\ p.on = r.on /\ r.act \in {"update", "remove"}
      BY <1>3, <2>2, ThreadsOf DEF Acts
    <3> HIDE DEF r, p
    <3>2. QED
      BY <1>3, <3>1 DEF Moves
  <2>3. QED
    BY <2>1, <2>2
<1>4. ASSUME r.on \in Media, NEW step, NEW v, r.act \in {"add", "update"},
             p = Working(step, r.act, r.on, v)
      PROVE  Moves(c, r, p)
  <2>1. /\ p.act = r.act /\ p.on = r.on
        /\ ThreadOf(p) \in Threads => ThreadOf(p) = ThreadOf(r)
    BY <1>4, ThreadsOf DEF ThreadOf
  <2> HIDE DEF r, p
  <2>2. QED
    BY <1>4, <2>1 DEF Moves
<1>5. ASSUME NEW t \in Threads \union {NoMedia}, OpenEmpty(c, s, t) PROVE Moves(c, r, p)
  <2>1. p = Empty(t) /\ queue' = queue /\ (t \in Threads => SeenBy(c, Index(t)))
    BY <1>1, <1>5, TapSteps, ThreadsOf DEF OpenEmpty, backendVars
  <2>2. p.act = "add" /\ ThreadOf(p) = t
    BY <2>1, ThreadsOf
  <2> HIDE DEF r, p
  <2>3. QED
    BY <2>1, <2>2 DEF Moves
<1>6. ASSUME NEW m \in Media, OpenItem(c, s, m) PROVE Moves(c, r, p)
  <2>1. p = Editing(m) /\ queue' = queue /\ SeenBy(c, Index(m))
    BY <1>1, <1>6, TapSteps DEF OpenItem, backendVars
  <2>2. p.act = "update" /\ p.on = m
    BY <2>1, ThreadsOf
  <2> HIDE DEF r, p
  <2>3. QED
    BY <2>1, <2>2 DEF Moves
<1>7. CASE Close(c, s)
  <2>1. p = Closed /\ queue' = queue
    BY <1>1, <1>7, TapSteps DEF Close, backendVars
  <2>2. p.act = "none"
    BY <2>1, ThreadsOf
  <2> HIDE DEF r, p
  <2>3. QED
    BY <2>1, <2>2 DEF Moves
<1>8. ASSUME NEW m \in Media, NEW v \in BOOLEAN, SaveNew(c, s, m, v) PROVE Moves(c, r, p)
  <2>1. /\ p = Working(IF m \in Photos THEN "upload" ELSE "journal", "add", m, v)
        /\ queue' = queue /\ r.step = "open" /\ r.act = "add"
        /\ IF r.under = NoMedia THEN m \in Threads ELSE m \in Children /\ Parent[m] = r.under
    BY <1>1, <1>8, TapSteps DEF SaveNew, backendVars
  <2>2. r.on = NoMedia
    BY <1>0, <2>1 DEF SlotFits
  <2>3. p.act = "add" /\ (ThreadOf(p) \in Threads => m \in Children /\ ThreadOf(p) = Parent[m])
    BY <2>1, ThreadsOf
  <2>4. m \in Children => m \notin Threads
    BY MediaAssumption
  <2>5. ThreadOf(p) \in Threads => ThreadOf(p) = ThreadOf(r)
    BY <2>1, <2>2, <2>3, <2>4, ThreadsOf DEF ThreadOf
  <2> HIDE DEF r, p
  <2>6. QED
    BY <2>1, <2>3, <2>5 DEF Moves
<1>9. ASSUME NEW v \in BOOLEAN, SaveItem(c, s, v) PROVE Moves(c, r, p)
  <2>1. r.act = "update" /\ r.on \in Media
    BY <1>0, <1>9 DEF SaveItem, OnItem
  <2>2. PICK step : Puts(c, s, Working(step, "update", r.on, v))
    BY <1>9, TapSteps
  <2>3. QED
    BY <1>1, <1>4, <2>1, <2>2
<1>10. CASE Trash(c, s)
  <2>1. /\ r.act = "update" /\ r.on \in Media /\ queue' = queue
        /\ p = Working(IF r.on \in Threads THEN "checkBodies" ELSE "journal", "remove", r.on, FALSE)
    BY <1>0, <1>2, <1>10 DEF Trash, OnItem, backendVars
  <2>2. /\ p.act = "remove" /\ p.on = r.on
        /\ r.on \in Threads => p.step = "checkBodies"
    BY <2>1 DEF Working
  <2> HIDE DEF r, p
  <2>3. QED
    BY <2>1, <2>2 DEF Moves
<1>11. CASE UploadEnds(c, s)
  <2>1. r.step = "upload" /\ r.act = "add" /\ r.on \in Media /\ queue' = queue /\ r.act \in Acts
    BY <1>0, <1>11 DEF UploadEnds, SlotFits, backendVars
  <2>2. \/ p = Working("journal", "add", r.on, r.visible)
        \/ p = BackTo(r.on, r.act)
    BY <1>1, <1>11, AnswerSteps
  <2>3. QED
    BY <1>3, <1>4, <2>1, <2>2
<1>12. CASE CheckThread(c, s)
  <2>1. /\ r.act = "remove" /\ r.on \in Media /\ queue' = queue /\ r.act \in Acts
        /\ r.step \notin {"open", "closed"}
    BY <1>0, <1>12, AnswerSteps DEF CheckThread, Check, backendVars, Acts
  <2>2. ASSUME Return(c, s) PROVE p = BackTo(r.on, r.act)
    BY <1>2, <2>2 DEF Return
  <2>3. CASE Check(c, s, "checkBodies", "Bodies", "checkPhotos")
    <3>1. CASE HasChildren(c, "Bodies", r.on)
      BY <1>3, <2>1, <2>2, <2>3, <3>1 DEF Check
    <3>2. CASE ~HasChildren(c, "Bodies", r.on)
      <4>1. p = Working("checkPhotos", "remove", r.on, FALSE)
        BY <1>2, <2>3, <3>2 DEF Check
      <4>2. p.act = "remove" /\ p.on = r.on
        BY <4>1 DEF Working
      <4> HIDE DEF r, p
      <4>3. QED
        BY <2>1, <3>2, <4>2 DEF Moves
    <3>3. QED
      BY <3>1, <3>2
  <2>4. ASSUME NEW step, NEW list, NEW next, Check(c, s, step, list, next), step # "checkBodies"
        PROVE  Moves(c, r, p)
    <3>1. r.step # "checkBodies"
      BY <2>4 DEF Check
    <3>2. CASE HasChildren(c, list, r.on)
      BY <1>3, <2>1, <2>2, <2>4, <3>2 DEF Check
    <3>3. CASE ~HasChildren(c, list, r.on)
      <4>1. p = Working(next, "remove", r.on, FALSE)
        BY <1>2, <2>4, <3>3 DEF Check
      <4>2. p.act = "remove" /\ p.on = r.on
        BY <4>1 DEF Working
      <4> HIDE DEF r, p
      <4>3. QED
        BY <2>1, <3>1, <4>2 DEF Moves
    <3>4. QED
      BY <3>2, <3>3
  <2>5. QED
    BY <1>12, <2>3, <2>4 DEF CheckThread
<1>13. CASE UpdateFails(c, s)
  <2>1. queue' = queue /\ p = BackTo(r.on, r.act) /\ r.on \in Media /\ r.act \in Acts
    BY <1>0, <1>1, <1>13, AnswerSteps DEF UpdateFails, backendVars
  <2>2. QED
    BY <1>3, <2>1
<1>14. CASE Journaled(c, s)
  <2>1. /\ r.act \in {"add", "update"} /\ r.on \in Media
        /\ p = Working("feed", r.act, r.on, r.visible)
    BY <1>0, <1>1, <1>14, AnswerSteps DEF Journaled, Acts
  <2>2. QED
    BY <1>4, <2>1
<1>15. CASE Remove(c, s)
  <2>1. p = Closed /\ r.step # "checkBodies"
    BY <1>1, <1>15, AnswerSteps DEF Remove
  <2>2. p.act = "none"
    BY <2>1, ThreadsOf
  <2> HIDE DEF r, p
  <2>3. QED
    BY <2>1, <2>2 DEF Moves
<1>16. CASE Add(c, s) \/ Update(c, s)
  <2>1. r.act \in {"add", "update"} /\ r.step \notin {"open", "closed"}
    BY <1>16 DEF Add, Update, Announces
  <2>2. p = BackTo(r.on, r.act) /\ r.on \in Media /\ r.act \in Acts
    BY <1>0, <1>1, <1>16, <2>1, AnswerSteps
  <2>3. QED
    BY <1>3, <2>1, <2>2
<1>17. QED
  BY <1>5, <1>6, <1>7, <1>8, <1>9, <1>10, <1>11, <1>12, <1>13, <1>14, <1>15, <1>16
     DEF UserStep, Answer

(* Nothing changes for a client whose queue does not.                      *)
LEMMA SameInside ==
  ASSUME NEW c, queue' = queue, db' = db
  PROVE  /\ \A p : Stands(c, p) => Stands(c, p)'
         /\ \A b, n : Leaves(c, b, n) => Leaves(c, b, n)'
         /\ BodiesInside(c) => BodiesInside(c)'
         /\ FieldsInside(c) => FieldsInside(c)'
  BY DEF Stands, Leaves, BodiesInside, FieldsInside

(* A body of a thread without bodies.                                      *)
LEMMA NoBodies ==
  ASSUME TypeInv, StoreInv, NEW c \in Clients, NEW b \in Bodies,
         ~HasChildren(c, "Bodies", Parent[b])
  PROVE  Leaves(c, b, Len(queue[c]) + 1)
<1>1. b \in Media /\ b \notin Threads /\ b \in Children
  BY MediaAssumption DEF Media, Children
<1>2. Index(b) = <<"Bodies", Parent[b], b>>
  BY <1>1 DEF Index, ListOf, Home
<1>3. Index(b) \in Path
  BY <1>1 DEF Path
<1>4. ~SeenBy(c, Index(b))
  BY <1>2, <1>3 DEF HasChildren
<1>5. QED
  BY <1>4, UnseenLeaves

LEMMA StepKeepsBodies ==
  ASSUME TypeInv, StoreInv, NEW c \in Clients, NEW s \in Slots, UserStep(c, s) \/ Answer(c, s),
         BodiesInside(c), NotepadInside(c, slot[c][s])
  PROVE  db' = db /\ BodiesInside(c)' /\ NotepadInside(c, slot[c][s])'
<1> DEFINE r == slot[c][s]
           p == slot'[c][s]
<1>1. PICK ws : Extends(c, ws) /\ Says(r, ws)
  BY StepSays
<1>2. Moves(c, r, p)
  BY NotepadMoves
<1>3. db' = db /\ NotepadInside(c, r) /\ BodiesInside(c)
  BY <1>1 DEF Extends
<1>4. \A b \in Bodies : Parent[b] \in Threads
  BY MediaAssumption DEF Children
<1> HIDE DEF r, p
<1>5. BodiesInside(c)'
  <2>1. CASE queue' = queue
    BY <1>3, <2>1, SameInside
  <2>2. CASE queue' # queue
    <3>1. r.act = "remove" => r.step # "checkBodies"
      BY <1>2, <2>2 DEF Moves
    <3>2. QED
      BY <1>1, <1>3, <3>1, InsideExtends
  <2>3. QED
    BY <2>1, <2>2
<1>6. ASSUME NEW t \in Threads, p.act = "add", ThreadOf(p) = t PROVE Stands(c, Index(t))'
  <2>1. t \in Media
    BY <1>6 DEF Media
  <2>2. CASE r.act = "add" /\ ThreadOf(p) = ThreadOf(r)
    <3>1. Stands(c, Index(t))
      BY <1>3, <1>6, <2>2 DEF NotepadInside
    <3>2. \A j \in DOMAIN ws : ws[j] # RemoveValue(Index(t))
      BY <1>1, <2>1, <2>2, SaysPaths
    <3>3. QED
      BY <1>1, <3>1, <3>2, StandsExtends
  <2>3. CASE queue' = queue /\ SeenBy(c, Index(t))
    BY <1>3, <2>1, <2>3, SeenStands, SameInside
  <2>4. QED
    BY <1>2, <1>6, <2>2, <2>3 DEF Moves
<1>7. ASSUME p.act = "remove", p.step # "checkBodies", NEW b \in Bodies, Parent[b] = p.on
      PROVE  Leaves(c, b, Len(queue[c]) + 1)'
  <2>1. /\ queue' = queue /\ r.act = "remove" /\ Parent[b] = r.on
        /\ r.step # "checkBodies" \/ ~HasChildren(c, "Bodies", Parent[b])
    BY <1>2, <1>4, <1>7 DEF Moves
  <2>2. Leaves(c, b, Len(queue[c]) + 1)
    <3>1. CASE r.step # "checkBodies"
      BY <1>3, <2>1, <3>1 DEF NotepadInside
    <3>2. CASE ~HasChildren(c, "Bodies", Parent[b])
      BY <3>2, NoBodies
    <3>3. QED
      BY <2>1, <3>1, <3>2
  <2>3. QED
    BY <1>3, <2>1, <2>2 DEF Leaves
<1>8. NotepadInside(c, slot[c][s])'
  <2>1. \A t \in Threads : p.act = "add" /\ ThreadOf(p) = t => Stands(c, Index(t))'
    BY <1>6
  <2>2. QED
    BY <1>7, <2>1 DEF NotepadInside, Stands, p
<1>9. QED
  BY <1>3, <1>5, <1>8

(* The fields of an item are written by a notepad on it, and its record    *)
(* stands.                                                                 *)
LEMMA StepKeepsFields ==
  ASSUME TypeInv, StoreInv, NEW c \in Clients, NEW s \in Slots, UserStep(c, s) \/ Answer(c, s),
         FieldsInside(c), EditsInside(c, slot[c][s])
  PROVE  db' = db /\ FieldsInside(c)' /\ EditsInside(c, slot[c][s])'
<1> DEFINE r == slot[c][s]
           p == slot'[c][s]
           q == queue[c]
           z == queue'[c]
           k == Len(q)
<1>1. PICK ws : Extends(c, ws) /\ Says(r, ws)
  BY StepSays
<1>2. Moves(c, r, p)
  BY NotepadMoves
<1>3. db' = db /\ EditsInside(c, r)
  BY <1>1 DEF Extends
<1>4. /\ k \in Nat
      /\ \A i \in DOMAIN q : i \in Nat /\ i <= k /\ i \in DOMAIN z /\ z[i] = q[i]
      /\ \A i \in DOMAIN z : \/ i \in DOMAIN q
                             \/ \E j \in DOMAIN ws : i = k + j /\ z[i] = ws[j]
      /\ \A j \in DOMAIN ws : j \in Nat /\ j >= 1 /\ k + j \in DOMAIN z /\ z[k + j] = ws[j]
  BY <1>1, ExtendsPositions
<1> HIDE DEF r, p, k, q, z
<1>5. ASSUME NEW m \in Media, NEW i \in DOMAIN z, z[i] = SetValue(Fields(m))
      PROVE  /\ \/ Record(m) \in db
                \/ \E j \in DOMAIN z : j < i /\ z[j] = SetValue(Record(m))
             /\ \A j \in DOMAIN z : j < i => z[j] # RemoveValue(Record(m))
  <2>1. CASE i \in DOMAIN q
    <3>1. /\ \/ Record(m) \in db
             \/ \E j \in DOMAIN q : j < i /\ q[j] = SetValue(Record(m))
          /\ \A j \in DOMAIN q : j < i => q[j] # RemoveValue(Record(m))
      BY <1>4, <1>5, <2>1 DEF FieldsInside, q
    <3>2. \A j \in DOMAIN z : j < i => j \in DOMAIN q
      BY <1>4, <2>1
    <3>3. QED
      BY <1>4, <3>1, <3>2
  <2>2. ASSUME NEW j \in DOMAIN ws, i = k + j, z[i] = ws[j]
        PROVE  /\ \/ Record(m) \in db
                  \/ \E h \in DOMAIN z : h < i /\ z[h] = SetValue(Record(m))
               /\ \A h \in DOMAIN z : h < i => z[h] # RemoveValue(Record(m))
    <3>1. r.on = m /\ r.act = "update"
      BY <1>1, <1>5, <2>2, SaysPaths
    <3>2. Stands(c, Record(m))
      BY <1>3, <3>1 DEF EditsInside
    <3>3. /\ Record(m) \in db \/ \E h \in DOMAIN q : q[h] = SetValue(Record(m))
          /\ \A h \in DOMAIN q : q[h] # RemoveValue(Record(m))
      BY <3>2 DEF Stands, q
    <3>4. \A h \in DOMAIN ws : ws[h] # RemoveValue(Record(m))
      BY <1>1, <3>1, SaysPaths
    <3>5. \A h \in DOMAIN q : h < i
      BY <1>4, <2>2
    <3>6. QED
      BY <1>4, <3>3, <3>4, <3>5
  <2>3. QED
    BY <1>4, <2>1, <2>2
<1>6. FieldsInside(c)'
  BY <1>3, <1>5 DEF FieldsInside, z
<1>7. ASSUME NEW m \in Media, p.act \in {"update", "remove"}, p.on = m
      PROVE  Stands(c, Record(m))'
  <2>1. CASE queue' = queue /\ SeenBy(c, Index(m))
    BY <1>3, <2>1, SeenStands, SameInside
  <2>2. CASE r.act \in {"update", "remove"} /\ m = r.on
    <3>1. Stands(c, Record(m))
      BY <1>3, <2>2 DEF EditsInside
    <3>2. CASE queue' = queue
      BY <1>3, <3>1, <3>2, SameInside
    <3>3. CASE queue' # queue
      <4>1. r.act # "remove"
        BY <1>2, <1>7, <3>3 DEF Moves
      <4>2. \A j \in DOMAIN ws : ws[j] # RemoveValue(Record(m))
        BY <1>1, <4>1, SaysPaths
      <4>3. QED
        BY <1>1, <3>1, <4>2, StandsExtends
    <3>4. QED
      BY <3>2, <3>3
  <2>3. QED
    BY <1>2, <1>7, <2>1, <2>2 DEF Moves
<1>8. EditsInside(c, slot[c][s])'
  <2>1. p.act \in {"update", "remove"} => p.on \in Media
    BY <1>2 DEF Moves
  <2>2. \A m \in Media : p.act \in {"update", "remove"} /\ p.on = m => Stands(c, Record(m))'
    BY <1>7
  <2>3. QED
    BY <2>1, <2>2 DEF EditsInside, Stands, p
<1>9. QED
  BY <1>3, <1>6, <1>8

LEMMA FieldsLand ==
  ASSUME NEW w \in Writes(Path), NEW m \in Media, Fields(m) \in Land(w)
  PROVE  \/ w = SetValue(Fields(m))
         \/ Fields(m) \in db /\ w # RemoveValue(Record(m))
<1>1. CASE w = SetValue(w.path)
  <2>1. w.to = TRUE /\ w # RemoveValue(Record(m))
    BY <1>1, WritesDiffer
  <2>2. Fields(m) \in db \union {w.path}
    BY <2>1 DEF Land
  <2>3. QED
    BY <1>1, <2>1, <2>2
<1>2. CASE w = RemoveValue(w.path)
  <2>1. w.to = FALSE /\ RemoveValue(Record(m)).path = Record(m)
    BY <1>2, WritesDiffer
  <2>2. Fields(m) \in {p \in db : p # w.path /\ \A n \in Media : w.path = Record(n) => p # Fields(n)}
    BY <2>1 DEF Land
  <2>3. Fields(m) \in db /\ w.path # Record(m)
    BY <2>2
  <2>4. QED
    BY <2>1, <2>3
<1>3. QED
  BY <1>1, <1>2, WriteForms

(* What a delivery does to the queue, and to the entries and records.      *)
LEMMA Delivered ==
  ASSUME TypeInv, NEW c \in Clients, Deliver(c)
  PROVE  /\ 1 \in DOMAIN queue[c] /\ queue[c][1] \in Writes(Path) /\ db' = Land(queue[c][1])
         /\ Len(queue'[c]) \in Nat /\ Len(queue[c]) = Len(queue'[c]) + 1
         /\ \A i \in DOMAIN queue[c] : /\ i \in Nat /\ i >= 1
                                       /\ \/ i = 1
                                          \/ i - 1 \in DOMAIN queue'[c] /\ queue'[c][i - 1] = queue[c][i]
         /\ \A i \in DOMAIN queue'[c] : /\ i \in Nat /\ i >= 1 /\ i + 1 \in DOMAIN queue[c]
                                        /\ queue'[c][i] = queue[c][i + 1]
<1>1. /\ Len(queue'[c]) \in Nat /\ Len(queue[c]) = Len(queue'[c]) + 1
      /\ \A i \in DOMAIN queue'[c] : i \in Nat /\ i >= 1
  <2>1. queue[c] \in Seq(Writes(Path)) /\ queue[c] # <<>> /\ queue'[c] = Tail(queue[c])
    BY DEF Deliver, TypeInv, TypeOK
  <2>2. QED
    BY <2>1
<1>2. queue[c][1] \in Writes(Path)
  BY DeliverSteps
<1>3. QED
  BY <1>1, <1>2, DeliverSteps

LEMMA DeliverKeepsBodies ==
  ASSUME TypeInv, NEW c \in Clients, NEW s \in Slots, Deliver(c),
         BodiesKeepThread, BodiesInside(c), NotepadInside(c, slot[c][s])
  PROVE  BodiesKeepThread' /\ BodiesInside(c)' /\ NotepadInside(c, slot[c][s])'
<1> DEFINE q == queue[c]
           z == queue'[c]
           w == queue[c][1]
<1>1. /\ 1 \in DOMAIN q /\ w = q[1] /\ w \in Writes(Path) /\ db' = Land(w)
      /\ Len(z) \in Nat /\ Len(q) = Len(z) + 1
      /\ \A i \in DOMAIN q : /\ i \in Nat /\ i >= 1
                             /\ i = 1 \/ (i - 1 \in DOMAIN z /\ z[i - 1] = q[i])
      /\ \A i \in DOMAIN z : i \in Nat /\ i + 1 \in DOMAIN q /\ z[i] = q[i + 1]
  BY Delivered
<1>2. slot' = slot
  BY DEF Deliver
<1>3. ASSUME NEW m \in Media
      PROVE  Index(m) \in db' <=> w = SetValue(Index(m)) \/ (Index(m) \in db /\ w # RemoveValue(Index(m)))
  BY <1>1, LandEffect
<1> HIDE DEF q, z, w
<1>4. ASSUME NEW b \in Bodies, w = RemoveValue(Index(Parent[b]))
      PROVE  Index(b) \notin db /\ \A j \in DOMAIN q : q[j] # SetValue(Index(b))
  <2>1. Leaves(c, b, 1)
    BY <1>1, <1>4 DEF BodiesInside, q
  <2>2. \A i \in DOMAIN q : ~(i < 1)
    BY <1>1
  <2>3. QED
    BY <2>1, <2>2 DEF Leaves, q
<1>5. \A b \in Bodies : b \in Media /\ Parent[b] \in Media
  BY MediaAssumption DEF Media, Children
<1>6. \A p, e : SetValue(p) # RemoveValue(e)
  BY WritesDiffer
<1>7. ASSUME NEW b \in Bodies, Index(Parent[b]) \in db,
             Index(b) \in db \/ \E j \in DOMAIN q : q[j] = SetValue(Index(b))
      PROVE  Index(Parent[b]) \in db'
  BY <1>3, <1>4, <1>5, <1>7
<1>8. BodiesKeepThread'
  <2>1. SUFFICES ASSUME NEW b \in Bodies, Index(b) \in db' PROVE Index(Parent[b]) \in db'
    BY DEF BodiesKeepThread
  <2>2. CASE Index(b) \in db
    BY <1>7, <2>2 DEF BodiesKeepThread
  <2>3. CASE w = SetValue(Index(b))
    <3>1. Index(Parent[b]) \in db
      <4>1. \A j \in DOMAIN q : ~(j < 1)
        BY <1>1
      <4>2. QED
        BY <1>1, <2>3, <4>1 DEF BodiesInside, q
    <3>2. QED
      BY <1>1, <1>7, <2>3, <3>1
  <2>4. QED
    BY <1>3, <1>5, <2>1, <2>2, <2>3
<1>9. BodiesInside(c)'
  <2>1. SUFFICES ASSUME NEW b \in Bodies, NEW i \in DOMAIN z
                 PROVE  /\ z[i] = SetValue(Index(b)) =>
                             \/ Index(Parent[b]) \in db'
                             \/ \E j \in DOMAIN z : j < i /\ z[j] = SetValue(Index(Parent[b]))
                        /\ z[i] = RemoveValue(Index(Parent[b])) => Leaves(c, b, i)'
    BY DEF BodiesInside, z
  <2>2. i \in Nat /\ i + 1 \in DOMAIN q /\ z[i] = q[i + 1]
    BY <1>1
  <2>3. ASSUME z[i] = SetValue(Index(b))
        PROVE  \/ Index(Parent[b]) \in db'
               \/ \E j \in DOMAIN z : j < i /\ z[j] = SetValue(Index(Parent[b]))
    <3>1. \/ Index(Parent[b]) \in db
          \/ \E j \in DOMAIN q : j < i + 1 /\ q[j] = SetValue(Index(Parent[b]))
      BY <2>2, <2>3 DEF BodiesInside, q
    <3>2. CASE Index(Parent[b]) \in db
      BY <1>7, <2>2, <2>3, <3>2
    <3>3. ASSUME NEW j \in DOMAIN q, j < i + 1, q[j] = SetValue(Index(Parent[b]))
          PROVE  \/ Index(Parent[b]) \in db'
                 \/ \E h \in DOMAIN z : h < i /\ z[h] = SetValue(Index(Parent[b]))
      <4>1. CASE j = 1
        BY <1>1, <1>3, <1>5, <3>3, <4>1
      <4>2. CASE j # 1
        <5>1. j \in Nat /\ j - 1 \in DOMAIN z /\ z[j - 1] = q[j] /\ j - 1 < i
          BY <1>1, <2>2, <3>3, <4>2
        <5>2. QED
          BY <3>3, <5>1
      <4>3. QED
        BY <4>1, <4>2
    <3>4. QED
      BY <3>1, <3>2, <3>3
  <2>4. ASSUME z[i] = RemoveValue(Index(Parent[b])) PROVE Leaves(c, b, i)'
    <3>1. Leaves(c, b, i + 1)
      BY <2>2, <2>4 DEF BodiesInside, q
    <3>2. QED
      BY <2>2, <3>1, LeavesDeliver
  <2>5. QED
    BY <2>3, <2>4
<1>10. NotepadInside(c, slot[c][s])'
  <2> DEFINE r == slot[c][s]
  <2>1. ASSUME NEW t \in Threads, Stands(c, Index(t)) PROVE Stands(c, Index(t))'
    <3>1. t \in Media
      BY DEF Media
    <3>2. QED
      BY <2>1, <3>1, StandsDeliver
  <2>2. ASSUME NEW b \in Bodies, Leaves(c, b, Len(queue[c]) + 1)
        PROVE  Leaves(c, b, Len(queue[c]) + 1)'
    <3>1. PICK n \in Nat : n = Len(q) /\ n = Len(z) + 1
      BY <1>1
    <3>2. Leaves(c, b, n)'
      BY <2>2, <3>1, LeavesDeliver DEF q
    <3>3. QED
      BY <3>1, <3>2 DEF Leaves, z
  <2>3. QED
    BY <1>2, <2>1, <2>2 DEF NotepadInside, Stands, Leaves
<1>11. QED
  BY <1>8, <1>9, <1>10

LEMMA DeliverKeepsFields ==
  ASSUME TypeInv, NEW c \in Clients, NEW s \in Slots, Deliver(c),
         NoPartialRecord, FieldsInside(c), EditsInside(c, slot[c][s])
  PROVE  NoPartialRecord' /\ FieldsInside(c)' /\ EditsInside(c, slot[c][s])'
<1> DEFINE q == queue[c]
           z == queue'[c]
           w == queue[c][1]
<1>1. /\ 1 \in DOMAIN q /\ w = q[1] /\ w \in Writes(Path) /\ db' = Land(w)
      /\ \A i \in DOMAIN q : /\ i \in Nat /\ i >= 1
                             /\ i = 1 \/ (i - 1 \in DOMAIN z /\ z[i - 1] = q[i])
      /\ \A i \in DOMAIN z : i \in Nat /\ i >= 1 /\ i + 1 \in DOMAIN q /\ z[i] = q[i + 1]
  BY Delivered
<1>2. slot' = slot
  BY DEF Deliver
<1>3. ASSUME NEW m \in Media
      PROVE  /\ Fields(m) \in db' =>
                  w = SetValue(Fields(m)) \/ (Fields(m) \in db /\ w # RemoveValue(Record(m)))
             /\ w = SetValue(Record(m)) \/ (Record(m) \in db /\ w # RemoveValue(Record(m)))
                  => Record(m) \in db'
  BY <1>1, FieldsLand, LandEffect
<1> HIDE DEF q, z, w
<1>4. NoPartialRecord'
  <2>1. SUFFICES ASSUME NEW m \in Media, Fields(m) \in db' PROVE Record(m) \in db'
    BY DEF NoPartialRecord
  <2>2. CASE w = SetValue(Fields(m))
    <3>1. \A j \in DOMAIN q : ~(j < 1)
      BY <1>1
    <3>2. Record(m) \in db
      BY <1>1, <2>2, <3>1 DEF FieldsInside, q
    <3>3. w # RemoveValue(Record(m))
      BY <2>2, WritesDiffer
    <3>4. QED
      BY <1>3, <3>2, <3>3
  <2>3. CASE Fields(m) \in db /\ w # RemoveValue(Record(m))
    BY <1>3, <2>3 DEF NoPartialRecord
  <2>4. QED
    BY <1>3, <2>1, <2>2, <2>3
<1>5. FieldsInside(c)'
  <2>1. SUFFICES ASSUME NEW m \in Media, NEW i \in DOMAIN z, z[i] = SetValue(Fields(m))
                 PROVE  /\ \/ Record(m) \in db'
                           \/ \E j \in DOMAIN z : j < i /\ z[j] = SetValue(Record(m))
                        /\ \A j \in DOMAIN z : j < i => z[j] # RemoveValue(Record(m))
    BY DEF FieldsInside, z
  <2>2. i \in Nat /\ i + 1 \in DOMAIN q /\ q[i + 1] = SetValue(Fields(m))
    BY <1>1, <2>1
  <2>3. /\ \/ Record(m) \in db
           \/ \E j \in DOMAIN q : j < i + 1 /\ q[j] = SetValue(Record(m))
        /\ \A j \in DOMAIN q : j < i + 1 => q[j] # RemoveValue(Record(m))
    BY <2>2 DEF FieldsInside, q
  <2>4. w # RemoveValue(Record(m))
    <3>1. i >= 1
      BY <1>1, <2>2
    <3>2. 1 < i + 1
      BY <2>2, <3>1
    <3>3. QED
      BY <1>1, <2>3, <3>2
  <2>5. ASSUME NEW j \in DOMAIN q, j < i + 1, q[j] = SetValue(Record(m))
        PROVE  \/ Record(m) \in db'
               \/ \E h \in DOMAIN z : h < i /\ z[h] = SetValue(Record(m))
    <3>1. CASE j = 1
      BY <1>1, <1>3, <2>5, <3>1
    <3>2. CASE j # 1
      <4>1. j \in Nat /\ j - 1 \in DOMAIN z /\ z[j - 1] = q[j] /\ j - 1 < i
        BY <1>1, <2>2, <2>5, <3>2
      <4>2. QED
        BY <2>5, <4>1
    <3>3. QED
      BY <3>1, <3>2
  <2>6. ASSUME NEW j \in DOMAIN z, j < i PROVE z[j] # RemoveValue(Record(m))
    <3>1. j + 1 \in DOMAIN q /\ z[j] = q[j + 1] /\ j + 1 < i + 1
      BY <1>1, <2>2, <2>6
    <3>2. QED
      BY <2>3, <3>1
  <2>7. QED
    BY <1>3, <2>3, <2>4, <2>5, <2>6
<1>6. EditsInside(c, slot[c][s])'
  <2>1. ASSUME NEW m \in Media, Stands(c, Record(m)) PROVE Stands(c, Record(m))'
    BY <2>1, StandsDeliver
  <2>2. slot[c][s].act \in {"update", "remove"} => slot[c][s].on \in Media
    BY SlotsGood
  <2>3. QED
    BY <1>2, <2>1, <2>2 DEF EditsInside, Stands
<1>7. QED
  BY <1>4, <1>5, <1>6

(* The ends of a queue that is cut off, and of the notepads.               *)
LEMMA CrashInside ==
  ASSUME TypeInv, NEW c \in Clients, NEW s \in Slots, Crash(c)
  PROVE  /\ db' = db /\ BodiesInside(c)' /\ NotepadInside(c, slot[c][s])'
         /\ FieldsInside(c)' /\ EditsInside(c, slot[c][s])'
<1>1. db' = db /\ queue'[c] = <<>> /\ slot'[c][s] = Closed
  BY DEF Crash, TypeInv, TypeOK
<1>2. slot'[c][s].act = "none"
  BY <1>1 DEF Closed
<1>3. BodiesInside(c)' /\ FieldsInside(c)'
  BY <1>1 DEF BodiesInside, FieldsInside
<1>4. NotepadInside(c, slot[c][s])' /\ EditsInside(c, slot[c][s])'
  BY <1>2 DEF NotepadInside, EditsInside
<1>5. QED
  BY <1>1, <1>3, <1>4

LEMMA StutterInside ==
  ASSUME NEW c, NEW s, UNCHANGED <<db, queue, slot>>
  PROVE  /\ BodiesInside(c) /\ NotepadInside(c, slot[c][s])
              => BodiesInside(c)' /\ NotepadInside(c, slot[c][s])'
         /\ FieldsInside(c) /\ EditsInside(c, slot[c][s])
              => FieldsInside(c)' /\ EditsInside(c, slot[c][s])'
<1>1. BodiesInside(c) => BodiesInside(c)'
  BY SameInside
<1>2. FieldsInside(c) => FieldsInside(c)'
  BY SameInside
<1>3. NotepadInside(c, slot[c][s]) => NotepadInside(c, slot[c][s])'
  BY DEF NotepadInside, Stands, Leaves
<1>4. EditsInside(c, slot[c][s]) => EditsInside(c, slot[c][s])'
  BY DEF EditsInside, Stands
<1>5. QED
  BY <1>1, <1>2, <1>3, <1>4

LEMMA InitInside ==
  ASSUME Init
  PROVE  BodiesInv /\ FieldsInv
<1>1. /\ db = {} /\ \A c \in Clients : queue[c] = <<>>
      /\ \A c \in Clients, s \in Slots : slot[c][s].act = "none"
  BY DEF Init, Closed
<1>2. BodiesKeepThread /\ NoPartialRecord
  BY <1>1 DEF BodiesKeepThread, NoPartialRecord
<1>3. \A c \in Clients : BodiesInside(c) /\ FieldsInside(c)
  BY <1>1 DEF BodiesInside, FieldsInside
<1>4. \A c \in Clients, s \in Slots : NotepadInside(c, slot[c][s]) /\ EditsInside(c, slot[c][s])
  BY <1>1 DEF NotepadInside, EditsInside
<1>5. QED
  BY <1>2, <1>3, <1>4 DEF BodiesInv, FieldsInv

(* With one notepad of one client, a body is on the list of its thread     *)
(* only while the thread is on the list of the account: the notepad adds   *)
(* to a thread it sees, and trashes a thread once it sees no body of it    *)
(* (isReadyForRemove), and no write overtakes another, whatever is killed. *)
THEOREM BodiesStayInside ==
  ASSUME NEW c, NEW s, Clients = {c}, Slots = {s}
  PROVE  Spec => []BodiesKeepThread
<1>1. TypeInv /\ StoreInv /\ BodiesInv /\ [Next]_vars => BodiesInv'
  <2>1. SUFFICES ASSUME TypeInv, StoreInv, BodiesInv, [Next]_vars PROVE BodiesInv'
    OBVIOUS
  <2>2. /\ c \in Clients /\ s \in Slots
        /\ BodiesKeepThread /\ BodiesInside(c) /\ NotepadInside(c, slot[c][s])
    BY <2>1 DEF BodiesInv
  <2>3. SUFFICES BodiesKeepThread' /\ BodiesInside(c)' /\ NotepadInside(c, slot[c][s])'
    BY DEF BodiesInv
  <2>4. db' = db => BodiesKeepThread'
    BY <2>2 DEF BodiesKeepThread
  <2>5. CASE UserStep(c, s) \/ Answer(c, s)
    BY <2>1, <2>2, <2>4, <2>5, StepKeepsBodies
  <2>6. CASE Deliver(c)
    BY <2>1, <2>2, <2>6, DeliverKeepsBodies
  <2>7. CASE Crash(c)
    BY <2>1, <2>2, <2>4, <2>7, CrashInside
  <2>8. CASE UNCHANGED <<db, queue, slot>>
    BY <2>2, <2>4, <2>8, StutterInside
  <2>9. (\E f \in Followers : LoadFollower(c, f)) \/ UNCHANGED vars => UNCHANGED <<db, queue, slot>>
    BY DEF LoadFollower, vars, backendVars
  <2>10. QED
    BY <2>1, <2>5, <2>6, <2>7, <2>8, <2>9 DEF Next
<1>2. Init => BodiesInv
  BY InitInside
<1>3. BodiesInv => BodiesKeepThread
  BY DEF BodiesInv
<1>4. QED
  BY <1>1, <1>2, <1>3, StoreInvariant, PTL DEF Spec

(* With one notepad of one client, the fields an edit writes never outlive *)
(* the record: only a notepad on an item that stands writes them, and the  *)
(* one that trashes it is closed with that.                                *)
THEOREM RecordsStayWhole ==
  ASSUME NEW c, NEW s, Clients = {c}, Slots = {s}
  PROVE  Spec => []NoPartialRecord
<1>1. TypeInv /\ StoreInv /\ FieldsInv /\ [Next]_vars => FieldsInv'
  <2>1. SUFFICES ASSUME TypeInv, StoreInv, FieldsInv, [Next]_vars PROVE FieldsInv'
    OBVIOUS
  <2>2. /\ c \in Clients /\ s \in Slots
        /\ NoPartialRecord /\ FieldsInside(c) /\ EditsInside(c, slot[c][s])
    BY <2>1 DEF FieldsInv
  <2>3. SUFFICES NoPartialRecord' /\ FieldsInside(c)' /\ EditsInside(c, slot[c][s])'
    BY DEF FieldsInv
  <2>4. db' = db => NoPartialRecord'
    BY <2>2 DEF NoPartialRecord
  <2>5. CASE UserStep(c, s) \/ Answer(c, s)
    BY <2>1, <2>2, <2>4, <2>5, StepKeepsFields
  <2>6. CASE Deliver(c)
    BY <2>1, <2>2, <2>6, DeliverKeepsFields
  <2>7. CASE Crash(c)
    BY <2>1, <2>2, <2>4, <2>7, CrashInside
  <2>8. CASE UNCHANGED <<db, queue, slot>>
    BY <2>2, <2>4, <2>8, StutterInside
  <2>9. (\E f \in Followers : LoadFollower(c, f)) \/ UNCHANGED vars => UNCHANGED <<db, queue, slot>>
    BY DEF LoadFollower, vars, backendVars
  <2>10. QED
    BY <2>1, <2>5, <2>6, <2>7, <2>8, <2>9 DEF Next
<1>2. Init => FieldsInv
  BY InitInside
<1>3. FieldsInv => NoPartialRecord
  BY DEF FieldsInv
<1>4. QED
  BY <1>1, <1>2, <1>3, StoreInvariant, PTL DEF Spec
================================================================================
