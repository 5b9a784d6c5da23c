----------------------------- MODULE FollowGraph -----------------------------
(***************************************************************************)
(* Following, requesting, accepting, declining, withdrawing and            *)
(* unfollowing: the four social lists of the backend, the clients that     *)
(* edit them, and the follow buttons the users act on.                     *)
(*                                                                         *)
(* Each user is signed in on one client, named by the user.  A client      *)
(* shows a row for another user (UserListVC); the title of the row's       *)
(* button is the follow state last read, and tapping it starts the         *)
(* operation the title names.  Every operation first writes a journal item *)
(* (performUpdate, which may fail), later edits two or four list entries,  *)
(* and then either reads the follow state again or sets the title from its *)
(* own feedback.  Up to |Slots| operations of a client are in flight: the  *)
(* buttons stay enabled while an operation runs.                           *)
(***************************************************************************)
EXTENDS Backend, FiniteSets

CONSTANTS
  Users,          \* users, and the clients they are signed in on
  Slots,          \* operations of one client that may be in flight together
  MaxTaps,        \* bound on the taps of each user
  MaxEdits,       \* bound on the changes of visibility of each user
  MaxCrashes      \* bound on the times each client is killed

ASSUME BoundsAssumption ==
  MaxTaps \in Nat /\ MaxEdits \in Nat /\ MaxCrashes \in Nat

(* The lists.  <<"Following", a, b>> is the path Following/a/b, and so on. *)
Lists == {"Following", "Followers", "Requested", "Pending"}
Path  == Lists \X Users \X Users

Titles    == {"Absent", "Loading", "Follow", "Following", "Requested", "Pending"}
SlotKinds == {"free", "getFollowState", "decide", "follow", "unfollow",
              "acceptPending", "cancelPending", "withdrawRequest"}
SlotSteps == {"idle", "confirm", "journal", "local",
              "checkPending", "checkFollowing", "checkRequested"}
Slot      == [kind : SlotKinds, on : Users, visibility : BOOLEAN, step : SlotSteps]

VARIABLES
  db,             \* the backend: the list entries that are present
  queue,          \* queue[c]: writes issued by client c that have not arrived
  visible,        \* visible[u]: User/u/visibility at the backend
  cached,         \* cached[c][u]: client c's Core Data copy of visible[u]
  title,          \* title[c][u]: the follow button of the row c shows for u
  slot,           \* slot[c][s]: an operation of c in flight
  taps, edits, crashes,   \* what is left of the bounds
  (* What has happened so far; no action reads these.                      *)
  asked,          \* <<a, b>>: a has tapped Follow on b
  accepted,       \* <<a, b>>: b has confirmed that a may follow
  wasPublic,      \* users whose profile has been visible
  wasPrivate,     \* users whose profile has been hidden
  torn            \* {a, b}: edits of the pair overlapped or were cut by a crash

backendVars == <<db, queue>>
profileVars == <<visible, cached>>
rowVars     == <<title, slot>>
boundVars   == <<taps, edits, crashes>>
ghostVars   == <<asked, accepted, wasPublic, wasPrivate, torn>>
vars        == <<backendVars, profileVars, rowVars, boundVars, ghostVars>>

TypeOK ==
  /\ db \subseteq Path
  /\ queue \in [Users -> Seq(Writes(Path))]
  /\ visible \in [Users -> BOOLEAN]
  /\ cached \in [Users -> [Users -> BOOLEAN]]
  /\ title \in [Users -> [Users -> Titles]]
  /\ slot \in [Users -> [Slots -> Slot]]
  /\ taps \in [Users -> 0..MaxTaps]
  /\ edits \in [Users -> 0..MaxEdits]
  /\ crashes \in [Users -> 0..MaxCrashes]
  /\ asked \subseteq Users \X Users
  /\ accepted \subseteq Users \X Users
  /\ wasPublic \subseteq Users
  /\ wasPrivate \subseteq Users
  /\ torn \subseteq SUBSET Users
-----------------------------------------------------------------------------
(* A row is acted on in the context of one slot.                           *)

Free(c)    == [kind |-> "free", on |-> c, visibility |-> FALSE, step |-> "idle"]
Reading(u) == [kind |-> "getFollowState", on |-> u,
               visibility |-> FALSE, step |-> "checkPending"]

(* The alert of handleFollowState covers the screen until it is answered.  *)
Modal(c) == \E s \in Slots : slot[c][s].step = "confirm"

PairOf(path) == {path[2], path[3]}
Touches(q, pair) == \E i \in DOMAIN q : PairOf(q[i].path) = pair

(* Client c issues the writes ws, all on entries of the pair {c, u}, in    *)
(* one turn of its main queue.                                             *)
Issue(c, u, ws) ==
  /\ queue' = [queue EXCEPT ![c] = @ \o ws]
  /\ torn' = IF \E d \in Users \ {c} : Touches(queue[d], {c, u})
             THEN torn \union {{c, u}} ELSE torn
  /\ UNCHANGED <<db, asked, accepted, wasPublic, wasPrivate>>

Goto(c, s, step) == slot' = [slot EXCEPT ![c][s].step = step]
Finish(c, s)     == slot' = [slot EXCEPT ![c][s] = Free(c)]
Show(c, u, t)    == title' = [title EXCEPT ![c][u] = t]

(* Finish the operation of slot s with the button showing t; or read the   *)
(* follow state again.                                                     *)
FinishShowing(c, s, t) == Finish(c, s) /\ Show(c, slot[c][s].on, t)
ReadAgain(c, s) == /\ slot' = [slot EXCEPT ![c][s] = Reading(slot[c][s].on)]
                   /\ UNCHANGED title
-----------------------------------------------------------------------------
Init ==
  /\ db = {}
  /\ queue = [c \in Users |-> <<>>]
  /\ visible \in [Users -> BOOLEAN]
  /\ cached = [c \in Users |-> visible]
  /\ title = [c \in Users |-> [u \in Users |-> "Absent"]]
  /\ slot = [c \in Users |-> [s \in Slots |-> Free(c)]]
  /\ taps = [c \in Users |-> MaxTaps]
  /\ edits = [c \in Users |-> MaxEdits]
  /\ crashes = [c \in Users |-> MaxCrashes]
  /\ asked = {} /\ accepted = {} /\ torn = {}
  /\ wasPublic = {u \in Users : visible[u]}
  /\ wasPrivate = {u \in Users : ~visible[u]}

(* cellForRowAt: show the row, its button loading, and read the follow     *)
(* state.  The first display follows the load of the user's profile.       *)
Display(c, u, s) ==
  /\ c # u /\ taps[c] > 0
  /\ slot[c][s].kind = "free"
  /\ taps' = [taps EXCEPT ![c] = @ - 1]
  /\ slot' = [slot EXCEPT ![c][s] = Reading(u)]
  /\ Show(c, u, "Loading")
  /\ cached' = IF title[c][u] = "Absent"
               THEN [cached EXCEPT ![c][u] = visible[u]] ELSE cached
  /\ UNCHANGED <<backendVars, visible, edits, crashes, ghostVars>>

(* Mutation: a user who is nobody's yet gets no answer.                    *)
ReadWithoutFallback(c, s) ==
  LET u == slot[c][s].on
      Read(list, found, next) ==
        IF Sees(db, queue[c], <<list, c, u>>)
        THEN FinishShowing(c, s, found)
        ELSE Goto(c, s, next) /\ UNCHANGED title
  IN /\ \/ slot[c][s].step = "checkPending" /\ Read("Pending", "Pending", "checkFollowing")
        \/ slot[c][s].step = "checkFollowing" /\ Read("Following", "Following", "checkRequested")
        \/ /\ slot[c][s].step = "checkRequested"
           /\ Sees(db, queue[c], <<"Requested", c, u>>)
           /\ FinishShowing(c, s, "Requested")
     /\ UNCHANGED <<backendVars, profileVars, boundVars, ghostVars>>

(* UserProfileManager.getFollowState: three single reads, one after the    *)
(* other, with anything in between.                                        *)
ReadFollowState(c, s) ==
  LET u == slot[c][s].on
      Read(list, found, next) ==
        IF Sees(db, queue[c], <<list, c, u>>)
        THEN FinishShowing(c, s, found)
        ELSE Goto(c, s, next) /\ UNCHANGED title
  IN /\ \/ /\ slot[c][s].step = "checkPending"
           /\ Read("Pending", "Pending", "checkFollowing")
        \/ /\ slot[c][s].step = "checkFollowing"
           /\ Read("Following", "Following", "checkRequested")
        \/ /\ slot[c][s].step = "checkRequested"
           /\ FinishShowing(c, s, IF Sees(db, queue[c], <<"Requested", c, u>>)
                                  THEN "Requested" ELSE "Follow")
     /\ UNCHANGED <<backendVars, profileVars, boundVars, ghostVars>>

(* userFollowStateButtonTapped and handleFollowState: the operation is the *)
(* one the title names, whatever the backend holds by now, and it keeps    *)
(* the cached profile it starts from.                                      *)
OperationOf(t) == CASE t = "Follow"    -> "follow"
                    [] t = "Following" -> "unfollow"
                    [] t = "Requested" -> "withdrawRequest"
                    [] t = "Pending"   -> "decide"
                    [] t = "Loading"   -> "getFollowState"

FirstStep(kind) == CASE kind = "follow"         -> "journal"
                     [] kind = "getFollowState" -> "checkPending"
                     [] OTHER                   -> "confirm"

Tap(c, u, s) ==
  LET kind == OperationOf(title[c][u])
  IN /\ c # u /\ taps[c] > 0
     /\ title[c][u] # "Absent" /\ ~Modal(c)
     /\ slot[c][s].kind = "free"
     /\ taps' = [taps EXCEPT ![c] = @ - 1]
     /\ slot' = [slot EXCEPT ![c][s] = [kind |-> kind, on |-> u,
                                        visibility |-> cached[c][u],
                                        step |-> FirstStep(kind)]]
     /\ asked' = IF kind = "follow" THEN asked \union {<<c, u>>} ELSE asked
     /\ UNCHANGED <<backendVars, profileVars, title, edits, crashes,
                    accepted, wasPublic, wasPrivate, torn>>

(* The alerts shouldProceedWithUnFollow, -Withdraw and -Pending.           *)
Decide(c, s, kind) ==
  /\ slot[c][s].kind = "decide"
  /\ slot' = [slot EXCEPT ![c][s] = [kind |-> kind, on |-> slot[c][s].on,
                                     visibility |-> slot[c][s].visibility,
                                     step |-> "journal"]]

Confirm(c, s) ==
  /\ slot[c][s].step = "confirm"
  /\ \/ /\ slot[c][s].kind \in {"unfollow", "withdrawRequest"}
        /\ Goto(c, s, "journal")
        /\ UNCHANGED accepted
     \/ Decide(c, s, "cancelPending") /\ UNCHANGED accepted
     \/ /\ Decide(c, s, "acceptPending")
        /\ accepted' = accepted \union {<<slot[c][s].on, c>>}
  /\ UNCHANGED <<backendVars, profileVars, title, boundVars,
                 asked, wasPublic, wasPrivate, torn>>

(* Cancel: only the Pending alert calls the completion.                    *)
Cancel(c, s) ==
  /\ slot[c][s].step = "confirm"
  /\ IF slot[c][s].kind = "decide"
     THEN FinishShowing(c, s, "Pending")
     ELSE Finish(c, s) /\ UNCHANGED title
  /\ UNCHANGED <<backendVars, profileVars, boundVars, ghostVars>>
-----------------------------------------------------------------------------
(* The operations of UserStructure+ext+SocialStates, from the answer to    *)
(* performUpdate on.                                                       *)

JournalWritten(c, s, kind) == slot[c][s].step = "journal" /\ slot[c][s].kind = kind

(* Mutations: a path in the wrong order, the users of a pair swapped, and  *)
(* operations that forget or mistake the other side.                       *)
FollowMispathed(c, u)   == <<SetValue(<<c, "Following", u>>), SetValue(<<"Followers", u, c>>)>>
FollowSwapped(c, u)     == <<SetValue(<<"Following", u, c>>), SetValue(<<"Followers", c, u>>)>>
AcceptOneSided(c, u)    == <<RemoveValue(<<"Pending", c, u>>), RemoveValue(<<"Requested", u, c>>),
                             SetValue(<<"Followers", c, u>>)>>
UnfollowOneSided(c, u)  == <<RemoveValue(<<"Following", c, u>>)>>

(* The entries each operation edits, in the order the code edits them; c   *)
(* is the user who acts, u the user of the row.                            *)
FollowWrites(c, u)   == <<SetValue(<<"Following", c, u>>), SetValue(<<"Followers", u, c>>)>>
RequestWrites(c, u)  == <<SetValue(<<"Requested", c, u>>), SetValue(<<"Pending", u, c>>)>>
CancelWrites(c, u)   == <<RemoveValue(<<"Pending", c, u>>), RemoveValue(<<"Requested", u, c>>)>>
AcceptWrites(c, u)   == <<RemoveValue(<<"Pending", c, u>>), RemoveValue(<<"Requested", u, c>>),
                          SetValue(<<"Followers", c, u>>), SetValue(<<"Following", u, c>>)>>
WithdrawWrites(c, u) == <<RemoveValue(<<"Requested", c, u>>), RemoveValue(<<"Pending", u, c>>)>>
UnfollowWrites(c, u) == <<RemoveValue(<<"Following", c, u>>), RemoveValue(<<"Followers", u, c>>)>>

(* Mutation: the visibility of the profile is not looked at.               *)
FollowUnchecked(c, s) ==
  /\ JournalWritten(c, s, "follow")
  /\ Issue(c, slot[c][s].on, FollowWrites(c, slot[c][s].on))
  /\ ReadAgain(c, s)
  /\ UNCHANGED <<profileVars, boundVars>>

Follow(c, s) ==
  /\ JournalWritten(c, s, "follow")
  /\ LET u == slot[c][s].on
     IN Issue(c, u, IF slot[c][s].visibility THEN FollowWrites(c, u)
                                             ELSE RequestWrites(c, u))
  /\ ReadAgain(c, s)
  /\ UNCHANGED <<profileVars, boundVars>>

CancelPending(c, s) ==
  /\ JournalWritten(c, s, "cancelPending")
  /\ Issue(c, slot[c][s].on, CancelWrites(c, slot[c][s].on))
  /\ ReadAgain(c, s)
  /\ UNCHANGED <<profileVars, boundVars>>

AcceptPending(c, s) ==
  /\ JournalWritten(c, s, "acceptPending")
  /\ Issue(c, slot[c][s].on, AcceptWrites(c, slot[c][s].on))
  /\ ReadAgain(c, s)
  /\ UNCHANGED <<profileVars, boundVars>>

WithdrawRequest(c, s) ==
  /\ JournalWritten(c, s, "withdrawRequest")
  /\ Issue(c, slot[c][s].on, WithdrawWrites(c, slot[c][s].on))
  /\ FinishShowing(c, s, "Follow")
  /\ UNCHANGED <<profileVars, boundVars>>

(* unfollow edits the local relationship sets between the journal item and *)
(* the two removals ...                                                    *)
UnfollowLocally(c, s) ==
  /\ JournalWritten(c, s, "unfollow")
  /\ Goto(c, s, "local")
  /\ UNCHANGED <<backendVars, profileVars, title, boundVars, ghostVars>>

Unfollow(c, s) ==
  /\ slot[c][s].step = "local"
  /\ Issue(c, slot[c][s].on, UnfollowWrites(c, slot[c][s].on))
  /\ FinishShowing(c, s, "Follow")
  /\ UNCHANGED <<profileVars, boundVars>>

(* ... and a user it cannot get locally makes it fail, or makes initiate   *)
(* drop the completion, which leaves the button as it was.                 *)
UnfollowFails(c, s) ==
  /\ slot[c][s].step = "local"
  /\ \/ FinishShowing(c, s, "Following")
     \/ Finish(c, s) /\ UNCHANGED title
  /\ UNCHANGED <<backendVars, profileVars, boundVars, ghostVars>>

(* performUpdate fails: no entry is edited.                                *)
JournalFails(c, s) ==
  /\ slot[c][s].step = "journal"
  /\ \/ slot[c][s].kind = "follow" /\ ReadAgain(c, s)
     \/ /\ slot[c][s].kind \in {"acceptPending", "cancelPending"}
        /\ FinishShowing(c, s, "Pending")
     \/ slot[c][s].kind = "unfollow" /\ FinishShowing(c, s, "Following")
     \/ slot[c][s].kind = "withdrawRequest" /\ FinishShowing(c, s, "Requested")
  /\ UNCHANGED <<backendVars, profileVars, boundVars, ghostVars>>
-----------------------------------------------------------------------------
(* A user edits the visibility of the own profile (UserStructure.edit), in *)
(* one write to the backend.                                               *)
EditVisibility(u) ==
  /\ edits[u] > 0
  /\ edits' = [edits EXCEPT ![u] = @ - 1]
  /\ visible' = [visible EXCEPT ![u] = ~@]
  /\ IF visible[u] THEN wasPrivate' = wasPrivate \union {u} /\ UNCHANGED wasPublic
                   ELSE wasPublic' = wasPublic \union {u} /\ UNCHANGED wasPrivate
  /\ UNCHANGED <<backendVars, cached, rowVars, taps, crashes, asked, accepted, torn>>

(* User.connectCore: the profile observer of client c hears of user u.     *)
ObserveProfile(c, u) ==
  /\ title[c][u] # "Absent" /\ cached[c][u] # visible[u]
  /\ cached' = [cached EXCEPT ![c][u] = visible[u]]
  /\ UNCHANGED <<backendVars, visible, rowVars, boundVars, ghostVars>>

(* The oldest unsent write of client c arrives.                            *)
Deliver(c) ==
  /\ queue[c] # <<>>
  /\ db' = Apply(db, Head(queue[c]))
  /\ queue' = [queue EXCEPT ![c] = Tail(@)]
  /\ UNCHANGED <<profileVars, rowVars, boundVars, ghostVars>>

(* The app is killed: unsent writes and operations in flight are gone.     *)
Crash(c) ==
  /\ crashes[c] > 0
  /\ crashes' = [crashes EXCEPT ![c] = @ - 1]
  /\ queue' = [queue EXCEPT ![c] = <<>>]
  /\ title' = [title EXCEPT ![c] = [u \in Users |-> "Absent"]]
  /\ slot' = [slot EXCEPT ![c] = [s \in Slots |-> Free(c)]]
  /\ torn' = torn \union {p \in SUBSET Users : Touches(queue[c], p)}
  /\ UNCHANGED <<db, profileVars, taps, edits, asked, accepted, wasPublic, wasPrivate>>

UserStep(c) ==
  \/ \E u \in Users, s \in Slots : Display(c, u, s) \/ Tap(c, u, s)
  \/ \E s \in Slots : Confirm(c, s) \/ Cancel(c, s)
  \/ EditVisibility(c)

(* What the SDK and Core Data answer to an operation in flight.            *)
Answer(c, s) ==
  \/ ReadFollowState(c, s)
  \/ Follow(c, s) \/ CancelPending(c, s) \/ AcceptPending(c, s)
  \/ WithdrawRequest(c, s)
  \/ UnfollowLocally(c, s) \/ Unfollow(c, s) \/ UnfollowFails(c, s)
  \/ JournalFails(c, s)

ClientStep(c) ==
  \/ UserStep(c)
  \/ \E s \in Slots : Answer(c, s)
  \/ \E u \in Users : ObserveProfile(c, u)
  \/ Deliver(c)
  \/ Crash(c)

Next == \E c \in Users : ClientStep(c)

Spec == Init /\ [][Next]_vars

(* The network delivers and answers; users are free to do nothing.         *)
Fairness == \A c \in Users : /\ WF_vars(Deliver(c))
                             /\ \A s \in Slots : WF_vars(Answer(c, s))

FairSpec == Spec /\ Fairness
-----------------------------------------------------------------------------
(* Properties.                                                             *)

Linked(a, b)   == <<"Following", a, b>> \in db \/ <<"Followers", b, a>> \in db
Requests(a, b) == <<"Requested", a, b>> \in db \/ <<"Pending", b, a>> \in db

(* Nobody follows a user who neither had a public profile at some time nor *)
(* accepted the request, and nobody follows, or is shown as requesting,    *)
(* without having tapped Follow; a request is only made of a user who hid  *)
(* the profile at some time; and only real requests are accepted.  follow  *)
(* decides on a cached profile, acceptPending on a title read earlier, and *)
(* neither looks at the backend again before it writes.                    *)
Consent ==
  /\ \A a, b \in Users :
       /\ Linked(a, b) => /\ <<a, b>> \in asked
                          /\ b \in wasPublic \/ <<a, b>> \in accepted
       /\ Requests(a, b) => <<a, b>> \in asked /\ b \in wasPrivate
  /\ accepted \subseteq asked

(* The contract of the follow operations, of which the lists are an        *)
(* implementation: a pair is linked, or requested, when either side is.    *)
links    == {p \in Users \X Users : Linked(p[1], p[2])}
requests == {p \in Users \X Users : Requests(p[1], p[2])}

Contract == INSTANCE FollowContract WITH opened <- wasPublic

(* The lists implement the contract: each step of a client asks, accepts,  *)
(* opens a profile, adds or ends one link or one request, or shows nothing *)
(* of itself.                                                              *)
ImplementsContract == Contract!Spec

(* The two sides of a relationship: a is in b's followers exactly when b   *)
(* is in a's following, and likewise for requests.                         *)
Agree(a, b) == /\ <<"Following", a, b>> \in db <=> <<"Followers", b, a>> \in db
               /\ <<"Requested", a, b>> \in db <=> <<"Pending", b, a>> \in db

Unsent(pair) == \E c \in Users : Touches(queue[c], pair)

(* Every operation edits both sides in two separate writes.  The sides     *)
(* still agree whenever no write on the pair is on its way, unless writes  *)
(* of both users on the pair were on their way together at some time, or a *)
(* client was killed with some unsent.                                     *)
PairAgreement ==
  \A a, b \in Users : {a, b} \in torn \/ Unsent({a, b}) \/ Agree(a, b)

(* Once the users stop, the lists settle on two sides that agree, for      *)
(* every pair whose edits were not torn.                                   *)
Converges == <>[](\A a, b \in Users : {a, b} \in torn \/ Agree(a, b))

(* A loading button does not load for ever: the chain of reads of          *)
(* getFollowState always ends in a title.                                  *)
ButtonSettles == \A c, u \in Users : title[c][u] = "Loading" ~> title[c][u] # "Loading"
=============================================================================
