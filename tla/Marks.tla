-------------------------------- MODULE Marks --------------------------------
(***************************************************************************)
(* Sharing and bookmarking a thread: the two buttons of the thread profile *)
(* (ThreadProfileVC, ThreadProfileManager) and the operations behind them  *)
(* (UserStructure+ext+ObjectRelationshipStates).                           *)
(*                                                                         *)
(* The module is about one user, on one client, and one thread: a mark of  *)
(* another user or on another thread is another path, which no operation   *)
(* on this one reads or writes.  Each visit of the thread profile makes    *)
(* new buttons.  An operation outlives the visit it was tapped in; it then *)
(* sets the title of a button nobody sees any more.                        *)
(***************************************************************************)
EXTENDS Backend

CONSTANTS
  Slots,        \* operations that may be in flight together
  MaxVisits,    \* bound on the visits of the thread profile
  MaxTaps,      \* bound on the taps
  MaxCrashes    \* bound on the times the app is killed

ASSUME MarksAssumption == MaxVisits \in Nat /\ MaxTaps \in Nat /\ MaxCrashes \in Nat

Relations == {"share", "bookmark"}
Acts      == {"share", "removeShare", "bookmark", "removeBookmark"}

(* The paths: the user's entry for the thread in SharedThreads and in      *)
(* BookmarkedThreads, and the items in the journal and the feed that tell  *)
(* of an operation.  The items of two operations of one kind are one path. *)
Mark(r)    == <<"mark", r>>
Journal(a) == <<"journal", a>>
FeedItem   == <<"feed", "share">>
Path       == {Mark(r) : r \in Relations} \union {Journal(a) : a \in Acts} \union {FeedItem}

(* "None": no thread profile is shown.  "Absent": it is, and the button    *)
(* waits for its first state.                                              *)
States == {"Share", "Shared", "Bookmark", "Bookmarked"}
Titles == States \union {"None", "Absent", "Loading"}

Op == [kind : Acts \union {"free", "getState"}, button : Relations,
       visit : 0..MaxVisits, step : {"idle", "journal", "feed", "read"}]

VARIABLES
  db,              \* the backend: the paths that hold a value
  queue,           \* the client's writes that have not arrived
  visit,           \* the visits of the thread profile so far
  title,           \* title[r]: the button for r of the last visit
  slot,            \* slot[s]: an operation in flight
  taps, crashes,   \* what is left of the bounds
  strained         \* relations whose operations overlapped; no action reads it

vars == <<db, queue, visit, title, slot, taps, crashes, strained>>

TypeOK ==
  /\ db \subseteq Path
  /\ queue \in Seq(Writes(Path))
  /\ visit \in 0..MaxVisits
  /\ title \in [Relations -> Titles]
  /\ slot \in [Slots -> Op]
  /\ taps \in 0..MaxTaps
  /\ crashes \in 0..MaxCrashes
  /\ strained \subseteq Relations
-----------------------------------------------------------------------------
Free == [kind |-> "free", button |-> "share", visit |-> 0, step |-> "idle"]

Off(r) == IF r = "share" THEN "Share" ELSE "Bookmark"
On(r)  == IF r = "share" THEN "Shared" ELSE "Bookmarked"

(* getShareState, getBookmarkState: one read of the client's view.         *)
StateSeen(r) == IF Sees(db, queue, Mark(r)) THEN On(r) ELSE Off(r)

Busy(r) == \E s \in Slots : slot[s].kind # "free" /\ slot[s].button = r

(* The operation a title names, and the titles it goes between.            *)
Add(r)    == r
Remove(r) == IF r = "share" THEN "removeShare" ELSE "removeBookmark"
Adds(a)   == a \in {"share", "bookmark"}

Before(op) == IF Adds(op.kind) THEN Off(op.button) ELSE On(op.button)
After(op)  == IF Adds(op.kind) THEN On(op.button) ELSE Off(op.button)

(* The operation of slot s ends with its button showing t.                 *)
EndShowing(s, t) ==
  /\ slot' = [slot EXCEPT ![s] = Free]
  /\ title' = IF slot[s].visit = visit THEN [title EXCEPT ![slot[s].button] = t]
              ELSE title

Issue(ws) == queue' = queue \o ws /\ UNCHANGED db

Init ==
  /\ db = {} /\ queue = <<>>
  /\ visit = 0 /\ title = [r \in Relations |-> "None"]
  /\ slot = [s \in Slots |-> Free]
  /\ taps = MaxTaps /\ crashes = MaxCrashes
  /\ strained = {}
-----------------------------------------------------------------------------
(* viewDidLoad: a visit, with buttons that appear when their state is read *)
(* (performAdditionalUpdatesToNavigationItem).                             *)
Open ==
  /\ visit < MaxVisits
  /\ visit' = visit + 1
  /\ title' = [r \in Relations |-> "Absent"]
  /\ strained' = strained \union {r \in Relations : Busy(r)}
  /\ UNCHANGED <<db, queue, slot, taps, crashes>>

Appear(r) ==
  /\ title[r] = "Absent"
  /\ title' = [title EXCEPT ![r] = StateSeen(r)]
  /\ UNCHANGED <<db, queue, visit, slot, taps, crashes, strained>>

(* handeShareStateButtonTapped, handeBookmarkStateButtonTapped.  A title   *)
(* that is not one of its own leaves a button without an answer.           *)
Start(r, s, kind, step) ==
  /\ taps > 0 /\ taps' = taps - 1
  /\ slot[s].kind = "free"
  /\ slot' = [slot EXCEPT ![s] = [kind |-> kind, button |-> r, visit |-> visit, step |-> step]]
  /\ strained' = IF Busy(r) THEN strained \union {r} ELSE strained
  /\ UNCHANGED <<db, queue, visit, crashes>>

Tap(r, s) ==
  /\ \/ title[r] = Off(r) /\ Start(r, s, Add(r), "journal")
     \/ title[r] = On(r) /\ Start(r, s, Remove(r), "journal")
  /\ title' = [title EXCEPT ![r] = "Loading"]

TapLoading(r, s) ==
  /\ title[r] = "Loading"
  /\ Start(r, s, "getState", "read")
  /\ UNCHANGED title

(* Both buttons read the share state when tapped while loading.            *)
Reread(s) ==
  /\ slot[s].step = "read"
  /\ EndShowing(s, StateSeen("share"))
  /\ UNCHANGED <<db, queue, visit, taps, crashes, strained>>
-----------------------------------------------------------------------------
(* performUpdate has written the journal item of a share: next the feed.   *)
ShareJournaled(s) ==
  /\ slot[s].step = "journal" /\ slot[s].kind = "share"
  /\ Issue(<<SetValue(Journal("share"))>>)
  /\ slot' = [slot EXCEPT ![s].step = "feed"]
  /\ UNCHANGED <<visit, title, taps, crashes, strained>>

(* Mutation: the share ahead of the news of it.                            *)
ShareUntold(s) ==
  /\ slot[s].step = "feed"
  /\ Issue(<<SetValue(Mark("share")), SetValue(FeedItem)>>)
  /\ EndShowing(s, "Shared")
  /\ UNCHANGED <<visit, taps, crashes, strained>>

Share(s) ==
  /\ slot[s].step = "feed"
  /\ Issue(<<SetValue(FeedItem), SetValue(Mark("share"))>>)
  /\ EndShowing(s, "Shared")
  /\ UNCHANGED <<visit, taps, crashes, strained>>

(* Mutation: the entry under the name the list is shown with.              *)
BookmarkShownName(s) ==
  /\ slot[s].step = "journal" /\ slot[s].kind = "bookmark"
  /\ Issue(<<SetValue(Journal("bookmark")), SetValue(<<"mark", "Bookmarked Threads">>)>>)
  /\ EndShowing(s, "Bookmarked")
  /\ UNCHANGED <<visit, taps, crashes, strained>>

Bookmark(s) ==
  /\ slot[s].step = "journal" /\ slot[s].kind = "bookmark"
  /\ Issue(<<SetValue(Journal("bookmark")), SetValue(Mark("bookmark"))>>)
  /\ EndShowing(s, "Bookmarked")
  /\ UNCHANGED <<visit, taps, crashes, strained>>

(* removeShare, removeBookmark.                                            *)
RemoveMark(s) ==
  /\ slot[s].step = "journal" /\ slot[s].kind \in {"removeShare", "removeBookmark"}
  /\ Issue(<<SetValue(Journal(slot[s].kind)), RemoveValue(Mark(slot[s].button))>>)
  /\ EndShowing(s, After(slot[s]))
  /\ UNCHANGED <<visit, taps, crashes, strained>>

(* Mutations: a failed operation shown as done; a failure not reported.    *)
FailsShownDone(s) ==
  /\ slot[s].step \in {"journal", "feed"}
  /\ EndShowing(s, After(slot[s]))
  /\ UNCHANGED <<db, queue, visit, taps, crashes, strained>>

FailsSilently(s) ==
  /\ slot[s].step \in {"journal", "feed"}
  /\ slot' = [slot EXCEPT ![s] = Free]
  /\ UNCHANGED <<db, queue, visit, title, taps, crashes, strained>>

(* performUpdate fails, for the journal or for the feed: the title is put  *)
(* back, and the mark is not touched.                                      *)
UpdateFails(s) ==
  /\ slot[s].step \in {"journal", "feed"}
  /\ EndShowing(s, Before(slot[s]))
  /\ UNCHANGED <<db, queue, visit, taps, crashes, strained>>

Deliver ==
  /\ queue # <<>>
  /\ db' = Apply(db, Head(queue))
  /\ queue' = Tail(queue)
  /\ UNCHANGED <<visit, title, slot, taps, crashes, strained>>

(* The app is killed: unsent writes, operations and the page are gone.     *)
Crash ==
  /\ crashes > 0 /\ crashes' = crashes - 1
  /\ queue' = <<>>
  /\ title' = [r \in Relations |-> "None"]
  /\ slot' = [s \in Slots |-> Free]
  /\ UNCHANGED <<db, visit, taps, strained>>

Answer(s) == \/ Reread(s) \/ ShareJournaled(s) \/ Share(s) \/ Bookmark(s)
             \/ RemoveMark(s) \/ UpdateFails(s)

Next == \/ Open
        \/ \E r \in Relations : Appear(r) \/ \E s \in Slots : Tap(r, s) \/ TapLoading(r, s)
        \/ \E s \in Slots : Answer(s)
        \/ Deliver \/ Crash

Spec == Init /\ [][Next]_vars

(* The network delivers and answers; the user is free to do nothing.       *)
Fairness == /\ WF_vars(Deliver)
            /\ \A r \in Relations : WF_vars(Appear(r))
            /\ \A s \in Slots : WF_vars(Answer(s))

FairSpec == Spec /\ Fairness
-----------------------------------------------------------------------------
(* Properties.                                                             *)

(* No mark without the items that tell of it, wherever a kill cuts the     *)
(* writes of an operation off: a bookmark has been journaled, a share has  *)
(* been journaled and announced in the feed.                               *)
MarksExplained ==
  /\ Mark("share") \in db => {Journal("share"), FeedItem} \subseteq db
  /\ Mark("bookmark") \in db => Journal("bookmark") \in db

(* A button at rest tells the state of its mark as the client sees it,     *)
(* after any operation, failed ones included - as long as no tap came      *)
(* while it was loading, and no visit began, with an operation under way.  *)
ButtonsAgree ==
  \A r \in Relations : r \in strained \/ Busy(r) \/ title[r] \in {"None", "Absent", StateSeen(r)}

(* Every button comes to show a state.                                     *)
ButtonsSettle == \A r \in Relations : title[r] \in {"Absent", "Loading"}
                                        ~> title[r] \notin {"Absent", "Loading"}
=============================================================================
