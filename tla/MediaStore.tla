----------------------------- MODULE MediaStore -----------------------------
(***************************************************************************)
(* Threads, their bodies and their photos: how the clients of one account  *)
(* add, edit and trash them, and the journal and feed items that tell of   *)
(* it.                                                                     *)
(*                                                                         *)
(* A slot is one use of the notepad (NotepadVC, NotepadManager): it opens  *)
(* on a listed item, or empty on the account or on a thread, and then      *)
(* saves or trashes.  Each of these writes a journal item (performUpdate,  *)
(* which may fail), for most of them then a feed item, and with the last   *)
(* of these the record and the index entry of the item itself.  Slots run  *)
(* concurrently: nothing stops the user while an operation is under way,   *)
(* and an account can be signed in on several clients.                     *)
(*                                                                         *)
(* Audio and film cannot be added by the app and are left out.             *)
(***************************************************************************)
EXTENDS Backend, FiniteSets

CONSTANTS
  Clients,                  \* devices signed in to the account
  Slots,                    \* uses of the notepad on one client
  Threads, Bodies, Photos,  \* the ids childByAutoId can produce
  Parent,                   \* the thread each body and photo id is used under
  Owner, Followers,         \* the account, and the users following it
  NoMedia,
  MaxTaps,                  \* bound on the saves and trashes of each client
  MaxCrashes                \* bound on the times each client is killed

Children == Bodies \union Photos
Media    == Threads \union Children

ASSUME MediaAssumption ==
  /\ Threads \intersect Children = {} /\ Bodies \intersect Photos = {}
  /\ Parent \in [Children -> Threads]
  /\ Owner \notin Followers /\ NoMedia \notin Media
  /\ MaxTaps \in Nat /\ MaxCrashes \in Nat

(* Paths of the backend: the record of an item (its required attributes,   *)
(* written together, and its single fields), its entry in the index of its *)
(* parent, and the entries of journals and feeds.  The item such an entry  *)
(* points to is written just before the entry and never again: one path    *)
(* stands for both.                                                        *)
Collection(m) == CASE m \in Threads -> "Thread_" [] m \in Bodies -> "Body" [] OTHER -> "Photo"
ListOf(m)     == CASE m \in Threads -> "Threads" [] m \in Bodies -> "Bodies" [] OTHER -> "Photos"
Home(m)       == IF m \in Threads THEN Owner ELSE Parent[m]

Acts == {"add", "update", "remove"}

Record(m)          == <<Collection(m), m, "core">>
Fields(m)          == <<Collection(m), m, "fields">>
Index(m)           == <<ListOf(m), Home(m), m>>
Journal(u, a, m)   == <<"Journal", u, <<a, m>>>>
Feed(u, a, m)      == <<"Feed", u, <<a, m>>>>

Readers == Followers \union {Owner}

(* What a feed item leads its reader to: the record, in the collection of  *)
(* the item, of the target it names.  The news of a body or photo added    *)
(* (or removed) name the thread as the target; an edit names the item.     *)
Target(a, m)  == IF a # "update" /\ m \in Children THEN Parent[m] ELSE m
Pointed(a, m) == <<Collection(m), Target(a, m), "core">>

Path == {Record(m) : m \in Media} \union {Fields(m) : m \in Media}
        \union {Index(m) : m \in Media}
        \union {Journal(Owner, a, m) : a \in Acts, m \in Media}
        \union {Feed(u, a, m) : u \in Readers, a \in Acts, m \in Media}

(* "unanswered": the notepad waits for a save that never ends.             *)
Steps == {"closed", "open", "unanswered", "upload", "checkBodies", "checkPhotos", "checkAudio",
          "checkFilm", "journal", "feed"}
Slot  == [step : Steps,
          act : Acts \union {"none"},          \* "add" in an empty notepad
          on : Media \union {NoMedia},         \* the item, when it has an id
          under : Threads \union {NoMedia},    \* an empty notepad's thread
          visible : BOOLEAN]

VARIABLES
  db,             \* the backend: the paths that hold a value
  queue,          \* queue[c]: writes of client c that have not arrived
  slot,           \* slot[c][s]: the notepad
  followers,      \* followers[c]: the followers client c has loaded
  used,           \* ids taken from childByAutoId
  taps, crashes,  \* what is left of the bounds
  (* What has happened so far; no action reads these.                      *)
  saved,          \* items whose save was reported successful
  trashed,        \* items whose removal was issued
  gone,           \* items whose index entry has been removed
  lost            \* items with writes of the record cut off by a kill

backendVars == <<db, queue>>
ghostVars   == <<saved, trashed, gone, lost>>
vars        == <<backendVars, slot, followers, used, taps, crashes, ghostVars>>

TypeOK ==
  /\ db \subseteq Path
  /\ queue \in [Clients -> Seq(Writes(Path))]
  /\ slot \in [Clients -> [Slots -> Slot]]
  /\ followers \in [Clients -> Seq(Followers)]
  /\ used \subseteq Media
  /\ taps \in [Clients -> 0..MaxTaps]
  /\ crashes \in [Clients -> 0..MaxCrashes]
  /\ saved \subseteq Media /\ trashed \subseteq Media
  /\ gone \subseteq Media /\ lost \subseteq Media
-----------------------------------------------------------------------------
Closed == [step |-> "closed", act |-> "none", on |-> NoMedia, under |-> NoMedia,
           visible |-> FALSE]

Empty(t)   == [step |-> "open", act |-> "add", on |-> NoMedia, under |-> t, visible |-> FALSE]
Editing(m) == [step |-> "open", act |-> "update", on |-> m, under |-> NoMedia, visible |-> FALSE]

Working(step, act, m, v) ==
  [step |-> step, act |-> act, on |-> m, under |-> NoMedia, visible |-> v]

Tap(c) == /\ taps[c] > 0
          /\ taps' = [taps EXCEPT ![c] = @ - 1]

Put(c, s, r) == slot' = [slot EXCEPT ![c][s] = r]

(* What client c reads at path.                                            *)
SeenBy(c, path) == Sees(db, queue[c], path)

(* Anything below list/t (isReadyForRemove).                               *)
HasChildren(c, list, t) == \E p \in Path : p[1] = list /\ p[2] = t /\ SeenBy(c, p)

Issue(c, ws) == /\ queue' = [queue EXCEPT ![c] = @ \o ws]
                /\ UNCHANGED db

Init ==
  /\ db = {}
  /\ queue = [c \in Clients |-> <<>>]
  /\ slot = [c \in Clients |-> [s \in Slots |-> Closed]]
  /\ followers = [c \in Clients |-> <<>>]
  /\ used = {}
  /\ taps = [c \in Clients |-> MaxTaps]
  /\ crashes = [c \in Clients |-> MaxCrashes]
  /\ saved = {} /\ trashed = {} /\ gone = {} /\ lost = {}
-----------------------------------------------------------------------------
(* The notepad.                                                            *)

OpenEmpty(c, s, t) ==
  /\ slot[c][s].step = "closed"
  /\ t = NoMedia \/ (t \in Threads /\ SeenBy(c, Index(t)))
  /\ Put(c, s, Empty(t))
  /\ UNCHANGED <<backendVars, followers, used, taps, crashes, ghostVars>>

OpenItem(c, s, m) ==
  /\ slot[c][s].step = "closed"
  /\ SeenBy(c, Index(m))
  /\ Put(c, s, Editing(m))
  /\ UNCHANGED <<backendVars, followers, used, taps, crashes, ghostVars>>

(* The user goes back; a save without an answer keeps nobody from it.      *)
Close(c, s) ==
  /\ slot[c][s].step \in {"open", "unanswered"}
  /\ Put(c, s, Closed)
  /\ UNCHANGED <<backendVars, followers, used, taps, crashes, ghostVars>>

(* Save of an empty notepad: an id of its own for every save.              *)
SaveNew(c, s, m, v) ==
  /\ slot[c][s].step = "open" /\ slot[c][s].act = "add"
  /\ Tap(c)
  /\ m \notin used
  /\ IF slot[c][s].under = NoMedia THEN m \in Threads
     ELSE m \in Children /\ Parent[m] = slot[c][s].under
  /\ used' = used \union {m}
  /\ Put(c, s, Working(IF m \in Photos THEN "upload" ELSE "journal", "add", m, v))
  /\ UNCHANGED <<backendVars, followers, crashes, ghostVars>>

(* The bar above an item's notepad takes taps, while it waits for a save   *)
(* that does not end too; its text does not change any more then.          *)
OnItem(c, s) == slot[c][s].step \in {"open", "unanswered"} /\ slot[c][s].act = "update"

(* Save of an item: the visibility goes out at once; then the sections.    *)
(* When a photo's text was not changed nothing more is done, and the       *)
(* completion is not called.                                               *)
SaveItem(c, s, v) ==
  LET m == slot[c][s].on
  IN /\ OnItem(c, s)
     /\ Tap(c)
     /\ Issue(c, <<SetValue(Fields(m))>>)
     /\ \/ /\ slot[c][s].step = "open"
           /\ Put(c, s, Working("journal", "update", m, v))
        \/ /\ m \in Photos
           /\ Put(c, s, Working("unanswered", "update", m, v))
     /\ UNCHANGED <<followers, used, crashes, ghostVars>>

Trash(c, s) ==
  LET m == slot[c][s].on
  IN /\ OnItem(c, s)
     /\ Tap(c)
     /\ Put(c, s, Working(IF m \in Threads THEN "checkBodies" ELSE "journal",
                          "remove", m, FALSE))
     /\ UNCHANGED <<backendVars, followers, used, crashes, ghostVars>>
-----------------------------------------------------------------------------
(* The answers to an operation.                                            *)

(* After a failure, or a success, the notepad is back on its item, or      *)
(* empty; the one that was trashed, or saved, is closed as well.           *)
BackTo(m, act) == IF act = "add" THEN Empty(IF m \in Threads THEN NoMedia ELSE Parent[m])
                  ELSE Editing(m)

Return(c, s) == Put(c, s, BackTo(slot[c][s].on, slot[c][s].act))

(* Mutant: a photo goes straight to the feed.                              *)
UploadUnjournaled(c, s) ==
  /\ slot[c][s].step = "upload"
  /\ \/ Put(c, s, Working("feed", "add", slot[c][s].on, slot[c][s].visible))
     \/ Return(c, s)
  /\ UNCHANGED <<backendVars, followers, used, taps, crashes, ghostVars>>

UploadEnds(c, s) ==
  /\ slot[c][s].step = "upload"
  /\ \/ Put(c, s, Working("journal", "add", slot[c][s].on, slot[c][s].visible))
     \/ Return(c, s)
  /\ UNCHANGED <<backendVars, followers, used, taps, crashes, ghostVars>>

(* Mutant: no completion when the list is not empty.                       *)
CheckInSilence(c, s, step, list, next) ==
  /\ slot[c][s].step = step
  /\ ~HasChildren(c, list, slot[c][s].on)
  /\ Put(c, s, Working(next, "remove", slot[c][s].on, FALSE))

(* removeThread checks the lists of the thread one after the other; the    *)
(* photos are looked for in Photo, the collection of their records.        *)
Check(c, s, step, list, next) ==
  /\ slot[c][s].step = step
  /\ IF HasChildren(c, list, slot[c][s].on)
     THEN Return(c, s)
     ELSE Put(c, s, Working(next, "remove", slot[c][s].on, FALSE))

(* Mutant: the bodies too are looked for among the records.                *)
CheckRecords(c, s) ==
  /\ \/ Check(c, s, "checkBodies", "Body", "checkPhotos")
     \/ Check(c, s, "checkPhotos", "Photo", "checkAudio")
     \/ Check(c, s, "checkAudio", "Audio", "checkFilm")
     \/ Check(c, s, "checkFilm", "Film", "journal")
  /\ UNCHANGED <<backendVars, followers, used, taps, crashes, ghostVars>>

CheckThread(c, s) ==
  /\ \/ Check(c, s, "checkBodies", "Bodies", "checkPhotos")
     \/ Check(c, s, "checkPhotos", "Photo", "checkAudio")
     \/ Check(c, s, "checkAudio", "Audio", "checkFilm")
     \/ Check(c, s, "checkFilm", "Film", "journal")
  /\ UNCHANGED <<backendVars, followers, used, taps, crashes, ghostVars>>

(* Mutants: the journal of an item kept at its parent; the feed told along *)
(* with the journal; removals not journaled.                               *)
JournalAtHome(a, m)   == <<SetValue(Journal(Home(m), a, m))>>
JournalAndFeed(a, m)  == <<SetValue(Journal(Owner, a, m)), SetValue(Feed(Owner, a, m))>>
JournalNoEnd(a, m)    == IF a = "remove" THEN <<>> ELSE <<SetValue(Journal(Owner, a, m))>>

(* Mutants: the index entry before the record; no index entry; the record  *)
(* before the index entry; an edit that lists the item again.              *)
AddSwapped(m)    == <<SetValue(Index(m)), SetValue(Record(m))>>
AddUnlisted(m)   == <<SetValue(Record(m))>>
RemoveSwapped(m) == <<RemoveValue(Record(m)), RemoveValue(Index(m))>>
UpdateRelists(m) == {<<>>, <<SetValue(Fields(m)), SetValue(Index(m))>>}

(* performUpdate: the item, then the entries of its list; a feed item goes *)
(* to the followers the client has loaded.                                 *)
JournalWrites(a, m) == <<SetValue(Journal(Owner, a, m))>>

FeedWrites(a, m, fs) ==
  <<SetValue(Feed(Owner, a, m))>>
  \o [i \in DOMAIN fs |-> SetValue(Feed(fs[i], a, m))]

AddWrites(m)    == <<SetValue(Record(m)), SetValue(Index(m))>>
RemoveWrites(m) == <<RemoveValue(Index(m)), RemoveValue(Record(m))>>

(* The sections that changed, if any.                                      *)
UpdateWrites(m) == {<<>>, <<SetValue(Fields(m))>>}

(* Only a hidden body, and an update that leaves an item hidden, skip the  *)
(* feed.                                                                   *)
SkipsFeed(r) == ~r.visible /\ (r.act = "update" \/ r.on \in Bodies)

(* Mutant: the notepad stays on the item.                                  *)
RemoveAndStay(c, s) ==
  LET m == slot[c][s].on
  IN /\ slot[c][s].step = "journal" /\ slot[c][s].act = "remove"
     /\ Issue(c, JournalWrites("remove", m) \o RemoveWrites(m))
     /\ Return(c, s)
     /\ trashed' = trashed \union {m}
     /\ UNCHANGED <<followers, used, taps, crashes, saved, gone, lost>>

(* The journal has the removal: the item goes, and with it the notepad.    *)
Remove(c, s) ==
  LET m == slot[c][s].on
  IN /\ slot[c][s].step = "journal" /\ slot[c][s].act = "remove"
     /\ Issue(c, JournalWrites("remove", m) \o RemoveWrites(m))
     /\ Put(c, s, Closed)
     /\ trashed' = trashed \union {m}
     /\ UNCHANGED <<followers, used, taps, crashes, saved, gone, lost>>

(* The journal has it: next the feed.                                      *)
Journaled(c, s) ==
  LET r == slot[c][s]
  IN /\ r.step = "journal" /\ r.act # "remove" /\ ~SkipsFeed(r)
     /\ Issue(c, JournalWrites(r.act, r.on))
     /\ Put(c, s, Working("feed", r.act, r.on, r.visible))
     /\ UNCHANGED <<followers, used, taps, crashes, ghostVars>>

(* The journal, and the feed unless the item skips it, have it.            *)
Announces(c, s, act) ==
  LET r == slot[c][s]
  IN /\ r.act = act
     /\ \/ r.step = "feed"
        \/ r.step = "journal" /\ SkipsFeed(r)

News(c, s) ==
  LET r == slot[c][s]
  IN IF r.step = "feed" THEN FeedWrites(r.act, r.on, followers[c])
     ELSE JournalWrites(r.act, r.on)

Add(c, s) ==
  LET m == slot[c][s].on
  IN /\ Announces(c, s, "add")
     /\ Issue(c, News(c, s) \o AddWrites(m))
     /\ Return(c, s)
     /\ saved' = saved \union {m}
     /\ UNCHANGED <<followers, used, taps, crashes, trashed, gone, lost>>

Update(c, s) ==
  /\ Announces(c, s, "update")
  /\ \E ws \in UpdateWrites(slot[c][s].on) : Issue(c, News(c, s) \o ws)
  /\ Return(c, s)
  /\ UNCHANGED <<followers, used, taps, crashes, ghostVars>>

(* performUpdate fails: nothing of it, or after it, is written.            *)
UpdateFails(c, s) ==
  /\ slot[c][s].step \in {"journal", "feed"}
  /\ Return(c, s)
  /\ UNCHANGED <<backendVars, followers, used, taps, crashes, ghostVars>>
-----------------------------------------------------------------------------
(* The client loads a follower into its cache (a page of a list, or an     *)
(* observer).                                                              *)
LoadFollower(c, f) ==
  /\ \A i \in DOMAIN followers[c] : followers[c][i] # f
  /\ followers' = [followers EXCEPT ![c] = Append(@, f)]
  /\ UNCHANGED <<backendVars, slot, used, taps, crashes, ghostVars>>

(* A removed record takes its fields with it.                              *)
Land(w) == IF w.to THEN db \union {w.path}
           ELSE {p \in db : p # w.path /\ \A m \in Media :
                              w.path = Record(m) => p # Fields(m)}

Deliver(c) ==
  /\ queue[c] # <<>>
  /\ db' = Land(Head(queue[c]))
  /\ queue' = [queue EXCEPT ![c] = Tail(@)]
  /\ gone' = gone \union {m \in Media : Head(queue[c]) = RemoveValue(Index(m))}
  /\ UNCHANGED <<slot, followers, used, taps, crashes, saved, trashed, lost>>

(* The app is killed; the next launch clears its cache.                    *)
Crash(c) ==
  /\ crashes[c] > 0
  /\ crashes' = [crashes EXCEPT ![c] = @ - 1]
  /\ queue' = [queue EXCEPT ![c] = <<>>]
  /\ slot' = [slot EXCEPT ![c] = [s \in Slots |-> Closed]]
  /\ followers' = [followers EXCEPT ![c] = <<>>]
  /\ lost' = lost \union {m \in Media : \/ Mentions(queue[c], Record(m))
                                        \/ Mentions(queue[c], Index(m))}
  /\ UNCHANGED <<db, used, taps, saved, trashed, gone>>

UserStep(c, s) ==
  \/ \E t \in Threads \union {NoMedia} : OpenEmpty(c, s, t)
  \/ \E m \in Media : OpenItem(c, s, m)
  \/ Close(c, s)
  \/ \E m \in Media, v \in BOOLEAN : SaveNew(c, s, m, v)
  \/ \E v \in BOOLEAN : SaveItem(c, s, v)
  \/ Trash(c, s)

Answer(c, s) == \/ UploadEnds(c, s) \/ CheckThread(c, s) \/ UpdateFails(c, s)
                \/ Journaled(c, s) \/ Remove(c, s) \/ Add(c, s) \/ Update(c, s)

Next == \E c \in Clients : \/ \E s \in Slots : UserStep(c, s) \/ Answer(c, s)
                           \/ \E f \in Followers : LoadFollower(c, f)
                           \/ Deliver(c) \/ Crash(c)

Spec == Init /\ [][Next]_vars

(* The network delivers and answers; users are free to do nothing.         *)
Fairness == \A c \in Clients : /\ WF_vars(Deliver(c))
                               /\ \A s \in Slots : WF_vars(Answer(c, s))

FairSpec == Spec /\ Fairness
-----------------------------------------------------------------------------
(* Properties.                                                             *)

(* An item that is listed can be opened: its record is in the database,    *)
(* whatever was killed or overtaken while it was added, edited or trashed. *)
IndexBacked == \A m \in Media : Index(m) \in db => Record(m) \in db

(* What has been taken off a list never comes back to it, an edit or a     *)
(* save that ends late on another client included.                         *)
StaysGone == \A m \in gone : Index(m) \notin db

(* What a feed item leads its reader to is there, or on its way, or the    *)
(* item was trashed, or a kill cut its save off.                           *)
Leads(a, m) == \/ Pointed(a, m) \in db
               \/ \E c \in Clients : Mentions(queue[c], Pointed(a, m))
               \/ m \in trashed \union lost

(* The news of a new thread, or of an edit, leads the reader to a record.  *)
NewsLeadSomewhere == \A u \in Readers :
  /\ \A t \in Threads : Feed(u, "add", t) \in db => Leads("add", t)
  /\ \A m \in Media : Feed(u, "update", m) \in db => Leads("update", m)

(* The journal is never behind: an item on its list has been journaled as  *)
(* added, one that is gone as added and as removed, whatever was cut off.  *)
JournalComplete ==
  /\ \A m \in Media : Index(m) \in db => Journal(Owner, "add", m) \in db
  /\ \A m \in gone : {Journal(Owner, "add", m), Journal(Owner, "remove", m)} \subseteq db

(* With one use of the notepad at a time, no body outlives its thread on   *)
(* its list (isReadyForRemove), killed clients included.                   *)
BodiesKeepThread ==
  \A b \in Bodies : Index(b) \in db => Index(Parent[b]) \in db

(* With one use of the notepad at a time, no edit leaves a part of a       *)
(* record behind once its item is gone.                                    *)
NoPartialRecord == \A m \in Media : Fields(m) \in db => Record(m) \in db

(* Readers see items appear, disappear and stay away as MediaContract      *)
(* says.                                                                   *)
Contract == INSTANCE MediaContract WITH
              readable <- {m \in Media : Record(m) \in db},
              listed   <- {m \in Media : Index(m) \in db}

ImplementsContract == Contract!Spec

(* A save that was reported successful is listed in the end, unless the    *)
(* item is trashed or a kill overtakes its writes.                         *)
SavesLand == \A m \in Media :
  m \in saved ~> (Index(m) \in db \/ m \in trashed \union lost)

(* Every save and every trash comes to an end, and its feed item with it,  *)
(* but for one: the save of a photo whose text is as it was.  That one     *)
(* never ends: its notepad stays as it is until the user does something.   *)
OperationsEnd == \A c \in Clients, s \in Slots :
  slot[c][s].step \notin {"open", "closed", "unanswered"} ~> slot[c][s].step \in {"open", "closed"}

(* "Item has existing children.  Please remove the existing children       *)
(* before attempting to trash item." (NotepadManager): no photo outlives   *)
(* its thread either.                                                      *)
PhotosKeepThread ==
  \A p \in Photos : Index(p) \in db => Index(Parent[p]) \in db
=============================================================================
