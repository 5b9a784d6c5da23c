# threadsApp: verification

threadsApp is an iOS app (Swift, `src/threadsApp/threadsApp/`) in which users
write *threads* made of bodies and photos, follow one another, and read a feed
of what the people they follow do.  There is no server code: every client edits
a Firebase realtime database directly, by unconditional writes, and keeps a Core
Data cache of what it has read.  What is hard in it is therefore not any single
function but what several clients, each with a queue of unsent writes and a
cache of its own, do to the same few lists.

The repository also holds, under `src/threadsApp/Pods/`, the libraries the app
links.  Two of them are there in source: LevelDB, in which the Firebase SDK can keep
its data on the device, and nanopb, with which it encodes protocol buffers.  They
are vendored: third-party code that this repository carries and builds, and all the
C and C++ there is in it.  They are modelled too, apart from the app: no module of
the one group uses a module of the other.

This directory holds TLA+ models of that code, TLC runs that check them on small
instances, and TLAPS proofs of the main results for instances of any size.

## 1. Inventory

| Component | State it keeps | Operations | Talks to |
|---|---|---|---|
| Follow graph (`UserStructure+ext+SocialStates.swift`) | backend lists Followers, Following, Requested, Pending | follow, unfollow, withdrawRequest, acceptPending, cancelPending | journal (performUpdate), the four lists of two users |
| Follow buttons (`UserProfileManager`, `ViewController`, `UserListVC+ext+TableView`) | title of the button, profile captured at the tap, dialog | getFollowState (three reads), dispatch on the title, dialogs | follow graph |
| Profiles (`User.swift`, `User+ext+Core`, `UserStructure+ext+Modify`) | name, bio, image, visibility; cached copy | edit, updateProfileImage, removeProfileImage, observers | follow (visibility), storage |
| Threads, bodies, photos (`UserStructure+ext+CreateThread`, `ThreadStructure`, `BodyStructure`, `PhotoStructure`) | records Thread_, Body, Photo; lists Threads, Bodies, Photos | add, update, updateVisibility, remove, isReadyForRemove | journal, feed, storage |
| Notepad (`NotepadVC`, `NotepadManager`) | mode, item, button state | open, save, trash, feedback | threads, bodies, photos |
| Journal and feed (`*StructureProtocol.getLogRelatedItemValuesAndId`, `performUpdate`, `FeedItem`, `Journal`) | items, one list per user | append to own journal, to own feed and the cached followers' feeds; resolve a target | everything above |
| Shares, bookmarks (`UserStructure+ext+ObjectRelationshipStates`) | two lists for each relation | share, removeShare, bookmark, removeBookmark, get states | journal, feed |
| Lists (`UserListManager`, `UserListVC`, `UserStructure.observe`) | pages, observers, fetched results | load a page, observe additions and removals | cache, backend |
| Cache (`User`, `Thread_`, `Body`, `Photo`, `FeedItem`, `Journal`; Core Data) | one object for each id | get (fetch or create), connect, clear | backend |
| Session (`WelcomeVC`, `RegisterAssistant`, `LoginAssistant`, `ClearAssistant`, `AuthenticationAssistant`) | signed-in user, stack of pages, blocks on the main queue, cleared cache | register, login, sign out, clear at launch | auth service, cache |
| Thread profile (`ThreadProfileVC`, `ThreadProfileManager`) | sections, access level | show, open the notepad | cache, notepad |
| Realtime database and SDK (Pods, external) | the data; each client's unsent writes | setValue, removeValue, observeSingleEvent, observe | – |
| LevelDB: database (`db/db_impl.cc`, `version_set.cc`, `repair.cc`) | writers in a queue, memtables and logs, versions, the manifest, files on disk | Write, CompactRange, Get, flush, compaction, DB::Open, RepairDB | one background thread, callers, the file system |
| LevelDB: versions (`version_set.cc`, compaction in `db_impl.cc`) | tables by level, compaction pointers, snapshots | Get, iterate, flush, pick and install compactions | tables |
| LevelDB: memtable (`skiplist.h`, `memtable.cc`, `arena.cc`) | skip list, arena | insert by one writer, search by readers without a lock | – |
| LevelDB: tables and iterators (`table/`, `db_iter.cc`) | blocks, index, filter; positions and directions of nested iterators | build, seek, next, prev, get | caches |
| LevelDB: caches (`cache.cc`, `table_cache.cc`, `env_posix.cc`) | handles with references, hash table, LRU list, mappings left | lookup, insert, release, erase, open, evict | tables |
| LevelDB: log and formats (`log_*.cc`, `coding.cc`, `version_edit.cc`, `write_batch.cc`, `filename.cc`, ...) | bytes | encode, decode, recover from cuts and changes | – |
| nanopb (`pb_encode.c`, `pb_decode.c`) | streams, structures described by field tables | encode, decode | callbacks |

Large parts of the tree are not the program: `Pods/` is vendored, and besides the two
libraries above it holds headers of binary frameworks; `User+ext+connections.swift`,
`User+ext+setup+e.swift`, `ViewControllerWithFollowState.swift` and the `Edit User`
directory are commented out in full.

What makes the behaviour hard, and the properties it calls for:

* **Two-sided relationships written by one side.**  A follow is an entry in my
  list and one in yours; an acceptance is four writes.  Both users edit the same
  pair, neither waits for the other.  Wanted: no follow nobody consented to, and two sides
  that agree once everything has arrived.
* **Deciding on what was read earlier.**  Three reads make a title, a title
  makes an operation, a modal dialog may lie between, and visibility is a cached copy.
* **Record and index.**  An item is a record plus an entry that lists it.
  Wanted: whatever is listed can be opened, whatever is gone stays gone.
* **Several writes per operation and no transactions.**  The app can be killed
  between any two; several notepads and several devices work on one account.
* **News before facts.**  Journal and feed items are written before what they
  tell of.
* **Completions.**  Buttons are disabled until a chain of callbacks ends.
* **Observers that never go.**  The first `User.get` of a user leaves an observer
  that runs the completion it was given again on every later value of the profile;
  every page of a list adds one to the list.  Completions written to run once, late
  or early, run again and out of order.

* **A database under crashes.**  LevelDB's writers share one log record, its files
  replace one another, and a process or a power failure may end it between any two
  operations.  Wanted: what was acknowledged is found again, what was synced survives
  the power, readers keep what they read, every call returns.
* **Structures read while they change.**  A skip list without locks, versions and
  tables that are replaced under readers, iterators that turn around.
* **Bytes that were cut or changed.**  Logs, edits and messages are decoded from
  whatever a crash has left.

PROJECT.json lists each of these hazards at its line, with the properties for it.

## 2. Modules

    Backend            what one write does, what a client reads through its queue
      FollowGraph      the follow graph with its buttons        (extends Backend)
        FollowContract what a relationship may do, abstractly   (refined by FollowGraph)
        FollowGraphProofs
      MediaStore       threads, bodies, photos, notepad, journal, feed (extends Backend)
        MediaContract  what readers of the store may see        (refined by MediaStore)
        MediaStoreProofs
      Marks            shares and bookmarks of a thread, with their buttons (extends Backend)
        MarksProofs
      BackendTheorems  lemmas on queues, used by the proof modules
    Session            from launch into the app and out of it
      SessionProofs
    ListSync           a list of users: pages, observers, cache
      ListSyncProofs   (uses BackendTheorems too: the main queue is a sequence like the others)
    MCFollowGraph, MCMediaStore   instances for TLC (a common budget, parameter values)

    DBImpl             LevelDB: writers, background thread, files, crashes, recovery, repair
      DBImplInvariant   its inductive invariant
        DBImplProofs    (extends DBImplInvariant)
    Versions           LevelDB: levels, compactions, snapshots
    SkipList           LevelDB: memtable and arena
      SkipListProofs
    TableCache         LevelDB: caches of open tables and of blocks
    Table, DBIter      LevelDB: a table file; an iterator over a memtable and a table
    LogFormat, Formats LevelDB: the log; the other byte formats
    ProtoBuf, MessageTypes   nanopb, and message types to try it on
    MCParts            SkipList beside one instance each of TableCache, DBIter, LogFormat,
                       Formats and ProtoBuf

### Backend

External code, modelled from how `src/` uses it.  The database is the set of
paths that hold a value.  `setValue` and `removeValue` return at once (no call
in `src/` passes a completion block) and are queued; a client's writes arrive
one at a time, in the order issued.  A client's reads see its own queued writes
over the database (`Sees`).  Nothing in `src/` turns on disk persistence, so a
queue is lost when the app is killed.

### FollowGraph

* `db`, `queue[c]`: the lists, and the writes of client `c` under way.
* `slot[c][s]`: one row of a list or a profile: the title its button shows, the
  step of the operation under way on it, the profile captured when it was tapped.
* `visible[u]`, and each client's cached copy of it.
* ghost variables (who asked, which pairs were torn by a kill) that no action reads.

Each operation is an action per step of the code: `Tap` (which of
`handleFollowState`'s branches), `Decide`/`Confirm`/`Cancel` (dialogs),
`ReadFollowState` and `ReadAgain` (one backend read each), `Follow`,
`CancelPending`, `AcceptPending`, `WithdrawRequest` (the completion of the
journal item, which issues the writes, in the code's order), `UnfollowLocally`
then `Unfollow`, `JournalFails`, `UnfollowFails`.  `EditVisibility`,
`ObserveProfile`, `Deliver` and `Crash` are the environment.

### MediaStore

* `db`, `queue[c]` as above.  A path is `Record(m)` (the required attributes,
  one `updateChildValues`), `Fields(m)` (the single fields an edit sets),
  `Index(m)` (the entry in Threads, Bodies or Photos), `Journal(u, a, m)` or
  `Feed(u, a, m)`.  Erasing a record erases its fields with it.
* `slot[c][s]`: one use of the notepad: step (open, upload, the four checks of
  `removeThread`, journal, feed), what it is doing, the item, the visibility chosen.
* `followers[c]`: the followers client `c` has cached; `used`: ids handed out by
  `childByAutoId`.
* `saved`, `trashed`, `gone`, `lost`: what has happened, read by no action.

`OpenEmpty`, `OpenItem`, `Close`, `SaveNew`, `SaveItem` and `Trash` are the user;
`UploadEnds`, `CheckThread`, `Journaled`, `Remove`, `Add`, `Update`, `UpdateFails`
are completions.  `Add` stands for `addThread`, `addBody` and `addPhoto`, which
have one shape: journal item, feed item (skipped for a hidden body), record,
index entry.  `Remove` stands for `removeThread`, `removeBody`, `removePhoto`:
journal item, index entry, record.  A trashed thread goes through the four reads
of `isReadyForRemove` first, one action each.  The save of a photo whose text is as it
was sends its visibility and never calls its completion (NotepadManager.swift:182-196):
the notepad, disabled (NotepadVC.swift:402-404), stays in the step `unanswered`, which
its user can leave only by going back or by the buttons of the bar (`OnItem`).

### Marks

One user, one client, one thread, and the two marks the user can set on it.

* `db`, `queue`: as above; a path is a mark's entry, its journal item or its feed item.
* `visit`, `title[r]`: the visits of the thread profile so far, and what the button of
  each mark shows on the last one: nothing yet, Loading, a state, or (the code's slip) a
  state of the other mark.
* `slot[s]`: operations in flight: the visit that started it, the button, the kind, the step.
* ghost: marks on which operations have overlapped (`strained`), read by no action.

`Open` and `Appear` load the page and read the states, `Tap` is
`handeShareStateButtonTapped` and `handeBookmarkStateButtonTapped`: it sets Loading
and starts `Add` or `Remove` by the title, or reads again when the title is Loading
(`TapLoading`, `Reread`).  `ShareJournaled`, `Share`, `Bookmark`, `RemoveMark` are
the completions with their writes, `UpdateFails` the failures.

### Session

* `main`: the blocks that wait on the main queue, in order.  Every step of
  the code that goes through `context.perform` or `DispatchQueue.main.async` is a
  block of its own.
* `stack`: the navigation stack (welcome, login, register, app of a user).
* `object[u]`: the cached `User`: none, waiting for its profile, ready, or left by
  the launch before.
* `auth`, `accounts`, `record`, `unsent`, `request`: the authentication service and the
  profiles, with requests under way.
* ghosts: `refused`, `overlapped`.

`Launch` deletes the objects and queues the saves of `ClearAssistant`; `Saved`
counts them and registers the listener with the last; `State` is the listener;
`Get`, `CoreArrives`, `CoreSaved` are `User.get` up to the completion that queues
the segue, `LaunchUser` the segue.  `EditProfile` is a later value of the profile:
the observer runs the completion again.  `TapLogin`, `TapCreate`, `SignOut` are
the user, `LoginSucceeds` and its kin the service, `LoggedIn`,
`Registered`, `Refused` the completions on the two pages.

### ListSync

* `list`: the backend list as this client sees it; `shown`: the relationship in the
  cache that the rows are fetched from; `Rows` are those with a profile.
* `pages`: for each tap the step of its two observers, the number asked for, the
  count of additions completed, how often its completion was called.
* `events`: reports of observers waiting on the main queue.
* `object[e]`, `made[e]`: the cached `User` and the call of `initiate` that made it,
  whose completion its profile observer runs.
* ghosts: `unobserved`, `contrary`, `dropped`.

`Open` is the tap on Requested (or any list of users), `LoadMore` the last
row; `Count` and `Register` are `getTotalNumberOfItems` and the observer that
follows; `Put` and `Drop` change the list and raise the events of all observers, the
removals first, then the additions observer by observer, each in the order of the keys
(`Before`); `Initiate` is
`User.initiate` for the next event; `CoreArrives` and `EditProfile` run the
completion of the call that made the object.

### DBImpl

* `disk`: logs, tables and manifests by number, and what CURRENT names.  A log is its
  records and how many of them are synced; a manifest what it says now (`all`), whatever it
  may say after a power failure (`left`), and whether a failed append has left part of a record
  (`torn`); a table its entries, and whether it is finished.
* `phase`, `opening`: how far DB::Open or RepairDB is.
* `vset`, `db`: fields of `VersionSet` and `DBImpl`; `queue`, `thread`, `awake`: the
  writers, where in Write or CompactRange each is, and whose condition variable was
  signalled; `bg`: the background thread; `reader`: callers of Get.
* `hist`: what callers were told, the writes that the code loses (`lost`), and the one
  counter of the bounds.

An action is what the code does between taking and releasing `mutex_`, or one file
operation while it is released.  What may fail:

* the append to a log and its sync, the opening of a new log, the building of a table, the
  work of a compaction, the append to the manifest and its sync (`AddRecord`, `SyncLog`,
  `SwitchFails`, `BuildTable`, `AbandonCompaction`, `AppendManifest`, `SyncManifest`).  A failed append may
  have written all of the record, part of it, or nothing.  The rest of a log behind part of a
  record is not read; of a manifest with a record behind part of one, VersionSet::Recover reads
  nothing (`Extended`);
* in DB::Open, the reading of each log and the building of each of its tables
  (`RecoverLogFile`), the new log, manifest and CURRENT; in RepairDB, the reading of each log and the
  building of its table (`ConvertLogToTable`), the new descriptor and CURRENT (`OpenFails`).  The
  status of a log is replaced by the next one's, and a log is archived whatever became of
  its conversion, as in the code.

What does not fail in the model: the deletion of obsolete files, RepairDB's renames into
`lost`, and reading a finished table back.  `Kill` forgets the memory; `PowerLoss` also cuts
every log anywhere after its synced part, and leaves the manifest saying any of `left`.
`DereferenceNull` is the end of the process when the background thread finishes a manual
compaction that its caller has given up (Findings).  A batch has one entry; a compaction keeps all
entries, since which ones it may drop is the subject of Versions.

### Versions

`mem`, `imm`, `levels` hold entries (key, sequence number, deletion or not); `job` is
the compaction that runs, fixed when it was picked and installed in a later step, with
writes, snapshots and flushes in between; `manual` a CompactRange; `seek` the table
that reads have used up.  `Get`, `VersionGet`, `GetOverlappingInputs`,
`SetupOtherInputs`, `IsBaseLevelForKey`, `Kept` translate the functions of those
names.  Sizes are numbers of entries, and where an output ends is left open.
`hist.split` collects keys whose versions an output boundary has cut apart: for them
reads do go wrong (Findings), and `ReadsRight` is about all others.  `hist.inside`
would record a flush into a gap of a running compaction's inputs; within the bounds of
the run it never happens.

### SkipList, TableCache, Table, DBIter

SkipList inserts a node level by level, one pointer per step, between the steps of
readers that search, go forward and back; `Publish` is the sequence number that makes
an entry visible.  TableCache has a step for each cache operation, each opening and
each failure of it, two readers, and deletion of files in between.  Table is a file
built from the entries added to it (blocks, restart points, index keys, Bloom filter) with
the positions of an iterator in it as values; DBIter composes it with a memtable under
`MergingIterator` and `DBIter`, one call of the user per step.

### LogFormat, Formats, ProtoBuf

LogFormat writes records as fragments in blocks, cuts the file or changes one fragment
of it, and reads it with every check of `ReadPhysicalRecord`.  Formats encodes and
decodes varints, batches, version edits, footers, file names and keys, over bytes with
fewer values and words of fewer bits than the code's: every branch on a size is
reached.  ProtoBuf is nanopb's encoder and decoder over the field tables of
MessageTypes; `Overlooked` are the submessages the encoder leaves out although they hold
something, `WholeWords` the types whose check of required fields is a shift by the width of a word
(its result is left open).

## 3. Runs

| Run | Instance | Shows |
|---|---|---|
| `follow` | 2 users, 1 operation in flight each, 3 things each in all: taps, 1 change of visibility, 1 kill; fairness | `TypeOK`; `Consent`: nobody follows a profile that neither was visible to the follower nor accepted; `PairAgreement`: the two sides of a pair agree whenever nothing is on its way and its edits were neither cut by a kill nor overlapped; `ImplementsContract`: every step is a step of `FollowContract` or a stutter; `Converges`: pairs settle on agreement; `ButtonSettles`: no button loads for ever |
| `media_crash` | 2 clients, 1 notepad each, 1 thread, 1 body, 2 taps each, 1 kill each | `TypeOK`; `IndexBacked`, `StaysGone`, `JournalComplete`, `NewsLeadSomewhere` against the late writes of another device; `ImplementsContract` |
| `media_notepad` | 1 client, 1 notepad, 1 thread, body, photo, follower, 3 taps, 1 kill, fairness | `BodiesKeepThread`, `NoPartialRecord`, `SavesLand`; `OperationsEnd`: every operation ends, except the save of a photo whose text is as it was |
| `media_photos` | 1 client, 1 thread, 1 photo, 3 taps | violation of `PhotosKeepThread` |
| `marks` | 2 visits, 2 operations in flight, 4 taps, 1 kill, fairness | `TypeOK`; `MarksExplained`: no mark without its journal and feed items; `ButtonsAgree`: a button at rest tells the mark, unless operations on it overlapped; `ButtonsSettle`: every button comes to show a state |
| `session` | 2 users, 2 kinds of objects, 2 requests at once, 3 in all, 1 change of a profile, 2 launches, fairness | `TypeOK`; `AppAfterProfile`: the app opens on a profile read in this launch; `LoginOffered`: whoever is out finds a login page; `ReachesApp`: whoever is in gets into the app |
| `lists` | 2 users, pages of 2, 2 taps, 2 changes of the list, 1 of a profile, 1 failure, fairness | `TypeOK`; `StaleExplained`, `WindowShown`: rows and list differ for two reasons only; `OnePagePerTap`; `PageOpens` |
| `ldb` | 2 writers, 1 reader, 5 units (a Write costs two; a CompactRange, read, failure, close, repair, kill or power failure one), memtables of one write, compactions at one table; fairness | `PromisesKept` (`TypeOK`; `AckedRecoverable`, `SyncedDurable`: acknowledged writes would be found, were the process killed or the power lost now, but for `hist.lost`, the writes that the code loses: behind a torn record of a log, not saved or converted because of a failure while opening or repairing, or archived by a repair that was cut short; `Reopens`, but for a manifest that was never synced, or has a record behind part of one; `SequencesUnique`); `ReadsComplete`, with the same exemption; `WritesReturn`: every Write and CompactRange returns, unless the process ends |
| `ldb_open` | the same | violation of `ErrorsReflected`: the error of a log is replaced by the next log's success, and DB::Open goes on |
| `versions` | 2 keys, 4 calls, 3 levels, limits of 1 and 2 entries; fairness | `VersionsRight` (`TypeOK`; `ReadsRight`, `MergedRight`: gets and iterators, now and of every snapshot, see the newest write; `LevelsDisjoint`); `Settles`: compactions end |
| `versions_split` | the same | violation of `ReadsNewest` |
| `parts` | skip list: 2 keys, 3 writes, 1 reader; caches: 2 readers, 2 files, 3 openings, 1 failure; iterator: 2 keys, 3 entries in a table, 3 moves, 1 newer entry; log: 3 records of 1 or 6 units in blocks of 7, 1 change or cut; formats: 2 operations, 2 bits of payload a byte, 7 keys; messages: 2, of each type of MessageTypes, words of 5 bits, one type with as many required fields as that | `MemtableRight` (`MissesNothing`, `GetRight`, `LevelsNested`, `MemorySafe`, `SearchesEnd`); `CachesRight` (`RefsExact`, `HeldAlive`, `CachesAgree`, `MapsCounted`, `EvictedGone`); `IteratorsRight` (`IterationRight`, `GetsRight`, `TurnsBounded`); what is decoded is what was encoded, for the log (`LogRight`: `OnlyWritten`, `WholeReturned`, `PrefixReturned`, `LossReported`, `NoFalseAlarm`), LevelDB's other formats (`FormatsRight`: `BatchesRight`, `EditsRight`, `FootersRight`, `NamesRight`, `SeparatorsRight`) and, but for `Overlooked` submessages, nanopb (`MessagesRight`: `SizeExact`, `Received`; `CutNoticed`: a message that was cut is accepted just if the cut is between fields or within a tag and the required fields precede it) |

**Bounds.**  `MaxTaps`, `MaxEdits` and `MaxCrashes` bound how often users start
operations, edit their profile, and are killed; everything else is unbounded in
the model and finite by consequence (a queue only grows by operations).  Two
users are a pair, and a pair is what every property of the follow graph is about:
nothing an operation reads or writes concerns a third user.  Three taps each
reach request – withdraw – request again against an acceptance or decline of the
first request.  In MediaStore an item's life is add, edit, trash: three taps in one notepad; with two
devices two taps each.  One thread with one child of each kind has
every parent relation the code tests.  Two notepads, of two clients, are the
least that interleave.  In Marks, four taps set and take back both marks, and two
visits see each other's effects.  In Session, `MaxRequests`, `MaxEdits` and
`MaxLaunches` allow a login, a sign-out and the login of another user in one launch,
and a launch on what they left; `Kinds` is 8 in the code, and only that there is more
than one matters.  In ListSync, `PageSize` is 10 or 1 in the code; with two entries a
window is shorter than, as long as, and cut down to the list, and an entry is
put in, pushed out and taken out of it.  In `ldb`, memtables of one write
and a compaction for each table make every second write switch, flush and compact;
five units are two writes and one mishap, or one write, a CompactRange and two mishaps: a write
that goes on while its neighbour's memtable is flushed is among them, and so are a log that
cannot be replayed in front of one that can, and a compaction that outlives its caller.  In `versions` four calls fill
three levels with two versions of a key, a deletion and a snapshot.  The six parts of
`parts` share a run, in which the first state chooses the part; with two keys no table of
`iterator` has a shortened index key, which `formats` tries instead.
The proofs remove these bounds for the properties they cover.

**Deadlock** is not checked: users may stop tapping, and the bounds make every
behaviour stop.

**Fairness.**  `FairSpec` asks weak fairness of delivering a queued write
(`Deliver`) and of each answer the app is waiting for (reads and the completion
of `performUpdate`): the SDK keeps trying while the app runs, and answers, with a
value or an error.  No fairness is asked of users, failures are always possible, and
no fairness forces a kill or prevents one within its bound.  In Session and ListSync
the blocks of the main queue run (`MainQueue`, `Initiate`), the services answer, and
profiles that exist arrive; a profile that is missing, or whose observer is
cancelled, does not.  In DBImpl the callers inside Write and CompactRange and the
background thread go on (threads are scheduled, condition variables wake who waits);
nobody has to call.  In Versions it is the background thread alone, stated as `Fairness`
with its enabling condition `Due` written out.

## 4. Proofs

All proofs are checked by TLAPS with SMT, Zenon and PTL, for arbitrary sets of
users, clients, slots, items, and arbitrary bounds.  The assumptions are
`BoundsAssumption`, `MediaAssumption`, `MarksAssumption`, `SessionAssumption`,
`ListAssumption` and `ParametersAssumption`, named in the modules that declare the
constants (disjoint kinds of ids, a special value outside a set, finitely many users,
bounds in Nat, at least one level and no empty entry in a skip list); TLC evaluates them on
every run.

**FollowGraphProofs**: `TypeCorrect`, `PairsAgree` (`Spec => []PairAgreement`),
`ConsentHolds` (`Spec => []Consent`) and
`Implements` (FollowGraph refines FollowContract).  The two sides of a pair are
edited by one operation, so their writes are neighbours in one queue; the inductive
invariant says that at every point of a queue the remaining writes bring an untorn
pair to agreement, and consent is carried by the writes on their way as well
as by the entries that have arrived.

**MediaStoreProofs**: `TypeCorrect`, `ItemsBacked` (`IndexBacked`),
`RemovedStayAway` (`StaysGone`) and `Implements` (MediaStore refines
MediaContract).  Neither invariant is inductive: both say nothing about queues.
`StoreInv` adds

* `FreshIds`: an id not taken yet is mentioned nowhere;
* `AddedOnce`: while an item is being added, one notepad knows of it, and none of
  its record or entry has been written;
* `OnItsWay`: an index entry on its way has its record in the database or before
  it in the same queue, no removal ahead of it, and no other client knows the item;
* `IndexFirst`: the erasure of a record comes after the removal of its entry.

Most actions write nothing of a record or an index entry and keep every notepad
on its item (`QuietSteps`); they keep `StoreInv` by one lemma.  `OpenItem`,
`SaveNew`, `Remove`, `Add`, `Deliver` and `Crash` have a lemma each.  The
refinement follows: only `Deliver` changes what readers see, by one of
`Store`, `Publish`, `Withdraw`, `Erase`, whose guards are what `StoreInv` says of the
head of a queue.

The same module proves `JournalIsComplete` (`JournalComplete`) and `NewsAreBacked`
(`NewsLeadSomewhere`), for any number of clients, notepads and kills.  The common lemma is
`StepSays`: whatever a step of a notepad adds to its client's queue concerns the item and
the act of that notepad only, its index entry comes behind the journal item of the
act, or that item was written in an earlier step, and the news of an addition come with the
record.  Neither property is inductive, since what it is about is still queued:

* `JournalInv` adds that the same order holds at every point of every queue
  (`JournalFirst`), that no journal item is taken back (`JournalStays`), and that a notepad
  past its journal item, or on an item it found listed, has it in the database or
  in its own queue (`NotepadsTold`).  Queues are cut off as a whole and delivered from the
  front, so what is behind goes before, or with, what is ahead.
* `NewsInv` says of news on their way what the property says of news that have arrived
  (`NewsBacked`), that every queued erasure of a record was meant by its user
  (`RemovalsMeant`), and that a notepad on an item has one that leads somewhere (`SlotsLead`).

`BodiesStayInside` (`BodiesKeepThread`) and `RecordsStayWhole` (`NoPartialRecord`) have the
hypothesis `Clients = {c}`, `Slots = {s}`, because with two notepads both are false, and
allow any items, taps and kills.  A single notepad sees every write there is:
a list entry it sees *stands* (`Stands`: nothing queued removes it, `SeenStands`), one it
does not see *leaves* before anything it writes next (`Leaves`, `UnseenLeaves`).  `BodiesInv`
says that a body is listed behind its thread and the thread unlisted behind its bodies, at
every point of the queue (`BodiesInside`), and that the notepad adds to a thread that stands
and, past its first check, trashes a thread whose bodies leave (`NotepadInside`).
`FieldsInv` says the same of fields and records (`FieldsInside`, `EditsInside`).
`NotepadMoves` is the one lemma about where the notepad may get to.

**MarksProofs**: `TypeCorrect`, `Explained` (`MarksExplained`) and `Agreement`
(`ButtonsAgree`), from `MarksAssumption`.  `ExplainedInv` says of the queue that a write that
sets a mark has its journal and feed items in the database or ahead of it
(`TellsFirst`), that no write removes such an item (`RemovesMarks`), and of the
operations that one about to share has journalled (`FeedsJournaled`).  `AgreeInv` says that an
unstrained mark has at most one operation in flight, and that until its writes are
issued the client still sees the state it was tapped on (`Steady`).

**SessionProofs**: `TypeCorrect` and `OpensOnProfiles` (`AppAfterProfile`), from
`SessionAssumption`.  What makes it inductive is what a block waiting on the main queue
may rely on: one that launches has a ready object, one that writes a new profile has its
account, and the saves of a clear are each counted once (`BlocksFit`).  `PagesFit` keeps
the welcome page at the bottom and empties what belongs to a launch when the app does not run;
`CacheFit` gives every ready object a profile of this launch.  `WayIn` (`LoginOffered`)
has an invariant of its own, `OfferInv`: while nobody is signed in, the block of
the listener is still to come with nothing behind it that pops a page (`Coming`), or the login
page is there and nothing queued pops one (`Kept`), or a registration is being refused.

**ListSyncProofs**: `ListTyped` (`TypeOK`), `TapsPushOnce` (`OnePagePerTap`),
`StaleRowsHaveAReason` (`StaleExplained`) and `WindowsAreShown` (`WindowShown`), for any finite
set of users.  The properties speak of the moments at which no report is queued; the
invariant `ListInv` says of every moment what the queue will make of the rows.
`DropsFollow`: behind every queued addition of an entry that is no longer listed, unless
nobody observed its removal, a removal is queued.  `WindowsFill`: for an entry in a window the last
report queued is its addition, or no removal is queued and it is shown, or its
profile has not come.  `PagesCalled` counts the calls of a tap's completion against its
failures, `CallsLive` and `ObjectsMade` type what a profile observer will run.
Three lemmas carry it: what a change of the list raises goes behind what was queued, removals
first (`RaiseKeeps`); the front of the queue is run (`TakeKeeps`); a profile runs a
completion a second time, past the queue, which is what `contrary` records (`ReplayKeeps`).

**BackendTheorems** has the lemmas about appending to and taking from a queue of
writes, and how `Sees` changes with them.

**SkipListProofs**: `MemtableIsRight` (`Spec => []MemtableRight`), for any number of writes,
readers, keys, levels and any sizes of entries and blocks.  `ListInv` says that every link
that is set leads to the next node of its level (`Ordered`), that every entry has a
place at every level (`Placed`), and that the writer, who looked its places up before
the first link was set, still has the right ones for the levels above (`Inserting`): only
`PlaceStays` makes it safe that `Insert` does not search again.  Levels being in order is not enough
for readers.  `ReadersInv` says of a search that it has passed the node it is at, by a link
that is set, and counts the nodes behind it against its loads; of a reader that is done, that
nothing visible when it began lies between its target and its result.  It survives the
writer's steps because these only add (`Grows`, `ReaderStays`).  `ArenaInv` says of the arena
that what it handed out is apart, in blocks that exist, and before what is left of the current one.

**DBImplProofs**: `Promises` (`PromisesKept`) and `Reads` (`ReadsComplete`), from
`DBAssumption`, for any number of callers and readers, any budget of writes, failures and
crashes, and any limits on memtables and tables.  `IInv`, in DBImplInvariant, has a form for
each half of a database's life.

* `Up`, while it is open.  `QueueInv`: the group being written is a prefix of the queue, its
  leader syncs if one of its members asked for it, and nobody in the queue is answered.
  `BatchInv`, `SeqInv`: what the leader has appended, and synced, is in the log, and only it has entries
  beyond the last sequence number.  `NumbersInv`: files have numbers below the next one, and
  the memtables their logs.  `StoreInv`: what is *owed* (a caller was told, or waits in the queue
  with its answer) is in a table or in a memtable, what was synced also in the synced
  part of that memtable's log (`Covers`), and a memtable is in its log.  `ExactInv`:
  without an error the manifest says what is installed, or what is about to be.  `BgInv`: what the
  background thread holds between its steps: an edit it may append loses no entry
  (`SafeEdit`), its outputs are pending, its inputs are there; no failed
  append has spoiled the manifest unless an error is kept, or is about to be.  `ReaderInv`: what a reader
  holds has what it expects.
* `Down`, while it is closed, opened or repaired.  `Quiet`: the memory is empty.
  `ManifestInv`, `DurableInv`: each owed write survives on the disk, by the manifest and
  the logs it does not cover, or, before a repair, by any table or log.  `ReplayInv`, `LogInv`,
  `WrittenInv`: what DB::Open has replayed is in its new tables, its new log is empty, and its new
  manifest is complete before CURRENT names it.  `RepairInv`: the same of NewDB and RepairDB.

Two facts make it inductive.  After an append that is not synced, or failed, the manifest
may say several things (`Saids`), whichever a crash leaves.  Each of them is `Fine` at every
step: its tables are there, and it rules no log out that is still needed.  It may say Nothing
only behind part of a record (`Sound`), which `Reopens` exempts.  No file goes that one of them
needs, since `DeleteObsoleteFiles` does nothing after an error and otherwise runs when all say
what is installed (`ExactInv`).  And what a reader found stays found, whatever is installed
meanwhile, because the tables of its version and the memtables it refers to stay
(`ReaderKeeps`).  The lemmas come in the order of the argument: the operators (`ReadLog...`,
`EntriesAre`), what keeps each part of the invariant (`...Kept`), callers, the writer in the log,
the background thread, then DB::Open, RepairDB, Kill and PowerLoss.

What the promises leave out is `hist.lost`, and the proof shows that nothing else is lost.  A
write gets there when its record goes behind a torn one, when CURRENT comes to name a manifest
that rules out a log whose entries were not all saved (`opening.lost`, until then nothing
is lost, and a crash takes DB::Open back to where it began), when RepairDB could not convert it,
or when a repair is cut short and its log is already archived (`Archived`, `Kept`).

Every safety property that a run checks of the app, of LevelDB's writers and recovery and of its
memtable is so proved.  Only model-checked are:

* everything under fairness (`Converges`, `ButtonSettles`, `SavesLand`, `OperationsEnd`,
  `ButtonsSettle`, `ReachesApp`, `PageOpens`, `WritesReturn`, `Settles`), which is beyond this
  prover;
* the other modules of LevelDB, and nanopb.  `Formats` and `ProtoBuf` are recursive, `LogFormat`
  and `Table` fold over sequences, and DBIter stands on Table: what they compute for every
  input needs induction over data, which is beyond it as well (`LogRight`, `FormatsRight`,
  `MessagesRight`, `IteratorsRight`).  `VersionsRight` and `CachesRight` are
  within its reach (see the plan).

## 5. Findings

1. **`media_photos`.**  `isReadyForRemove` looks for photos under `Photo` instead
   of `Photos`: a thread with photos can be trashed, contrary to the message shown to the user.
2. **`versions_split`.**  LevelDB's "if we find data in a smaller level, later levels
   are irrelevant" (version_set.cc:337) fails for a key whose versions, kept apart by a
   snapshot, end up in two tables of one level: the next compaction moves the newer one
   below the older.  Gets return the older value; iterators, which merge, the newer.
3. **`ldb_open`.**  A log whose table cannot be built is to make DB::Open fail: "Reflect errors
   immediately so that conditions like full file-systems cause the DB::Open() to fail"
   (db_impl.cc:435-438).  The loop over the logs assigns the status of each and looks at it once,
   at the end (343-352): only the last log's error counts.  DB::Open succeeds, its edit rules the
   failed log out, and `DeleteObsoleteFiles` deletes it with the acknowledged writes in it.

Met while modelling and left without a run (under hazards in PROJECT.json where one is listed):

* The data model declares Pending/Requested (and Followers/Following) inverse relationships.
  A decline tapped while the other user withdraws and asks again removes half of the new request;
  when all has been delivered the lists disagree.
* A tap on the bookmark button while it loads gives it the title of the share button, after
  which it does nothing.
* The segue "taking the active user into the application" is performed again on each change of
  a profile read at login, also after its user has signed out.
* A removal observed while the profile of the entry is on its way is undone when the profile arrives.
* `follow` checks visibility on a cached profile; "the feed of all followers" is the feed of
  the followers in the cache; the feed item of a new body or photo names the thread as its
  target; a refused registration is reported as a success and strands the user on an
  empty page; an empty list never opens.
* The save of a photo whose text was not changed never calls its completion: the notepad stays
  disabled, with its save never reported.
* LevelDB: the background thread dereferences `manual_compaction_` at the end of a manual
  compaction (db_impl.cc:725-733), which `TEST_CompactRange`, awake after an error of another
  write or of a flush, has set to NULL (576-587): the process ends.
* LevelDB: "No more background work after a background error." (db_impl.cc:642) holds of work not yet
  begun; a compaction goes on after the error of a flush in its midst (886-895), and appends its edit
  behind the part of a record that the flush may have left.  VersionSet::Recover then reports
  Corruption (version_set.cc:897-938): the database does not open without RepairDB.
* LevelDB: RepairDB archives a log also when its conversion failed (repair.cc:152-158).  In an
  empty directory it leaves a descriptor by which the next opening takes manifest number 1 again.
* LevelDB: the first manifest, and RepairDB's, is not synced before CURRENT names it; writes
  acknowledged after a torn log record are lost; a repair that is cut short loses what it has
  converted; repair.cc:185-191 says it makes the log reader checksum and passes
  `false/*do not checksum*/`; a log reader with an initial offset reports corruption
  where there is none.
* nanopb: a proto3 submessage whose scalars are zero and whose array begins with a zero is left
  out of the message, with the rest of the array: the first entry is compared with zero, not the
  count (pb_encode.c:225-267).
* nanopb: required fields in a multiple of 32 are checked with a shift by the width of the word,
  and with 64 of them the word that is read is behind the array (pb_decode.c:930-948).
* nanopb: a message that ends within a tag is accepted as if it ended before it
  (pb_decode.c:258-262).

## 6. Not modelled, and the plan

Left out for good: layout, cells and wording; the vendored SDK beyond Backend; code
that is commented out; audio and film, which no screen can add.  Of LevelDB: statistics and
properties, the lock file, compression, block checksums, the C binding, benchmarks and ports;
that a version is freed with its last reference is taken as given.  Of nanopb: builds with
malloc, and without 64-bit support.

Planned, in this order:

1. `ObjectCache`: `Thread_.get`, `Body.get`, `Photo.get`, `FeedItem.get` and their
   `connectCore`: fetch, else read and create, chains of owners and parents, with two
   reads of one id under way; the lists of threads and of feed items on top of it.
2. Proofs for LevelDB: the references of TableCache (`CachesRight`), `VersionsRight`.
3. `ProfileImages`: upload, then two writes.
4. The notepad's two-second delay before it closes, and marks of threads that are trashed.
