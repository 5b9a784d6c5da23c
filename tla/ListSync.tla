------------------------------ MODULE ListSync ------------------------------
(***************************************************************************)
(* One list of users on one client: UserListManager.observe,               *)
(* UserStructure.observe, User.initiate and User.get, as UserListVC and    *)
(* the profile page call them.  A tap registers an observer of additions   *)
(* to the first entries of the backend list and one of removals; the next  *)
(* page is another observer of additions.  What the observers report goes  *)
(* through the cache: the first User.get of a user makes an object and an  *)
(* observer of the profile, which runs the completion of that call again   *)
(* on each later value of the profile.                                     *)
(***************************************************************************)
EXTENDS Integers, Sequences, FiniteSets

CONSTANTS
  Entries,      \* users who may be listed: naturals, in the order of their keys
  PageSize,     \* entries asked for by the tap that opens the list
  MaxTaps,      \* bound on the taps
  MaxChanges,   \* bound on the changes of the backend list
  MaxEdits,     \* bound on the changes of profiles
  MaxFails      \* bound on failing saves and cancelled observers

ASSUME ListAssumption ==
  /\ Entries \subseteq Nat /\ IsFiniteSet(Entries)
  /\ PageSize \in Nat \ {0}
  /\ MaxTaps \in Nat /\ MaxChanges \in Nat /\ MaxEdits \in Nat /\ MaxFails \in Nat

Acts      == {"add", "remove"}
Elsewhere == [act |-> "none", page |-> 0]    \* the object was made for something else

VARIABLES
  list,         \* the entries of the backend list, as this client sees it
  object,       \* the cached User object of each user
  made,         \* the call of initiate each object was made for
  shown,        \* the relationship of the owner's object that holds the list
  pages,        \* what each tap has set up
  events,       \* what observers have to report: blocks on the main queue
  taps, changes, edits, fails,  \* what is left of the bounds
  unobserved,   \* entries last dropped while no removal was observed; no action reads it
  contrary,     \* entries a completion run late has put or taken last; no action reads it
  dropped       \* an entry has been dropped; no action reads it

vars   == <<list, object, made, shown, pages, events, taps, changes, edits, fails,
            unobserved, contrary, dropped>>
cache  == <<object, made, shown>>
bounds == <<taps, changes, edits, fails>>
ghosts == <<unobserved, contrary, dropped>>

Steps == {"count", "register", "live", "silent", "none"}
Pages == [add : Steps, remove : Steps, toFirst : Nat, opens : BOOLEAN,
          completed : Nat, called : Nat, failed : Nat]

TypeOK ==
  /\ list \subseteq Entries /\ shown \subseteq Entries
  /\ object \in [Entries -> {"none", "waiting", "ready", "dead"}]
  /\ made \in [Entries -> [act : Acts \union {"none"}, page : 0..Len(pages)]]
  /\ pages \in Seq(Pages)
  /\ events \in Seq([act : Acts, page : 1..Len(pages), entry : Entries])
  /\ taps \in 0..MaxTaps /\ changes \in 0..MaxChanges
  /\ edits \in 0..MaxEdits /\ fails \in 0..MaxFails
  /\ unobserved \subseteq Entries /\ contrary \subseteq Entries /\ dropped \in BOOLEAN
-----------------------------------------------------------------------------
Rows        == shown \intersect {e \in Entries : object[e] = "ready"}  \* getFRC: username != nil
First(n, S) == {e \in S : Cardinality({f \in S : f < e}) < n}          \* queryLimited(toFirst:)
Window(p)   == IF pages[p].add = "live" THEN First(pages[p].toFirst, list) ELSE {}

Reports(act, p, S) == [act : {act}, page : {p}, entry : S]
Observing(act)     == {p \in DOMAIN pages : pages[p][act] = "live"}

(* The events of a change of the list to l, taking out or putting in e.    *)
Removals(e)  == UNION {Reports("remove", p, {e}) : p \in Observing("remove")}
Additions(l) ==
  UNION {Reports("add", p, First(pages[p].toFirst, l) \ Window(p)) : p \in Observing("add")}

(* They are raised together: removals first, then observer by observer, in *)
(* the order of the keys.                                                  *)
Before(x, y) ==
  \/ x.act = "remove" /\ y.act = "add"
  \/ x.act = y.act /\ x.page < y.page
  \/ x.act = y.act /\ x.page = y.page /\ x.entry < y.entry

Raised(N) == {s \in [1..Cardinality(N) -> N] :
  {s[i] : i \in DOMAIN s} = N /\ \A i, j \in DOMAIN s : i < j => Before(s[i], s[j])}

Raise(N) == \E s \in Raised(N) : events' = events \o s

Init ==
  /\ list \in SUBSET Entries
  /\ object \in [Entries -> {"none", "ready"}]
  /\ made = [e \in Entries |-> Elsewhere]
  /\ shown = {} /\ pages = <<>> /\ events = <<>>
  /\ taps = MaxTaps /\ changes = MaxChanges /\ edits = MaxEdits /\ fails = MaxFails
  /\ unobserved = {} /\ contrary = {} /\ dropped = FALSE
-----------------------------------------------------------------------------
Asks(page) ==
  /\ taps > 0 /\ taps' = taps - 1
  /\ pages' = Append(pages, page)
  /\ UNCHANGED <<list, cache, events, changes, edits, fails, ghosts>>

(* The list is opened: observe both actions; the page comes later.         *)
Open ==
  Asks([add |-> "count", remove |-> "count", toFirst |-> PageSize, opens |-> TRUE,
        completed |-> 0, called |-> 0, failed |-> 0])

(* Mutation: one entry less.                                               *)
LoadLess ==
  /\ \E p \in DOMAIN pages : pages[p].opens /\ pages[p].called > 0
  /\ Asks([add |-> "count", remove |-> "none", toFirst |-> Cardinality(Rows) - 1,
           opens |-> FALSE, completed |-> 0, called |-> 0, failed |-> 0])

(* The row below the last one of a page on display: one more entry.        *)
LoadMore ==
  /\ \E p \in DOMAIN pages : pages[p].opens /\ pages[p].called > 0
  /\ Asks([add |-> "count", remove |-> "none", toFirst |-> Cardinality(Rows) + 1,
           opens |-> FALSE, completed |-> 0, called |-> 0, failed |-> 0])

(* Mutation: what is asked for is not cut down to what there is.           *)
CountUncut(p, act) ==
  /\ pages[p][act] = "count"
  /\ pages' = [pages EXCEPT ![p][act] = IF list = {} THEN "silent" ELSE "register"]
  /\ UNCHANGED <<list, cache, events, bounds, ghosts>>

(* getTotalNumberOfItems: nothing is called when there is no list.         *)
Count(p, act) ==
  /\ pages[p][act] = "count"
  /\ pages' = [pages EXCEPT
       ![p][act] = IF list = {} THEN "silent" ELSE "register",
       ![p].toFirst = IF act = "add" /\ Cardinality(list) < @ THEN Cardinality(list) ELSE @]
  /\ UNCHANGED <<list, cache, events, bounds, ghosts>>

(* The observer is set, for additions with what is there already.          *)
Register(p, act) ==
  /\ pages[p][act] = "register"
  /\ pages' = [pages EXCEPT ![p][act] = "live"]
  /\ Raise(IF act = "add" THEN Reports("add", p, First(pages[p].toFirst, list)) ELSE {})
  /\ UNCHANGED <<list, cache, bounds, ghosts>>

(* The backend list changes, from anywhere.                                *)
Put(e) ==
  /\ changes > 0 /\ changes' = changes - 1
  /\ e \notin list /\ list' = list \union {e}
  /\ Raise(Additions(list'))
  /\ unobserved' = unobserved \ {e}
  /\ UNCHANGED <<cache, pages, taps, edits, fails, contrary, dropped>>

Drop(e) ==
  /\ changes > 0 /\ changes' = changes - 1
  /\ e \in list /\ list' = list \ {e}
  /\ Raise(Removals(e) \union Additions(list'))
  /\ unobserved' = IF Removals(e) = {} THEN unobserved \union {e} ELSE unobserved
  /\ dropped' = TRUE
  /\ UNCHANGED <<cache, pages, taps, edits, fails, contrary>>
-----------------------------------------------------------------------------
(* Mutation: the completion is called for every addition past the number.  *)
CountedAtLeast(call, failed) ==
  LET g    == pages[call.page]
      told == IF g.completed + 1 >= g.toFirst THEN 1 ELSE 0
  IN pages' = IF call.act = "remove" THEN pages
              ELSE [pages EXCEPT ![call.page] =
                     [g EXCEPT !.completed = g.completed + 1, !.failed = g.failed + failed,
                               !.called = g.called + failed + told]]

(* The completions of UserStructure.observe: an addition is counted; the   *)
(* caller is told of a failed save, and when the count reaches the number. *)
Counted(call, failed) ==
  LET g    == pages[call.page]
      told == IF g.completed + 1 = g.toFirst THEN 1 ELSE 0
  IN pages' = IF call.act = "remove" THEN pages
              ELSE [pages EXCEPT ![call.page] =
                     [g EXCEPT !.completed = g.completed + 1, !.failed = g.failed + failed,
                               !.called = g.called + failed + told]]

(* Mutation: a removal is not told from an addition.                       *)
EditedAdding(call, e) ==
  \E failed \in 0..1 :
    /\ failed <= fails /\ fails' = fails - failed
    /\ shown' = shown \union {e}
    /\ Counted(call, failed)

(* What initiate does with the user it gets: edit the relationship, save.  *)
Edited(call, e) ==
  \E failed \in 0..1 :
    /\ failed <= fails /\ fails' = fails - failed
    /\ shown' = IF call.act = "add" THEN shown \union {e} ELSE shown \ {e}
    /\ Counted(call, failed)

(* Mutation: a user who is in the cache is taken to be listed.             *)
InitiateOnce ==
  /\ events # <<>> /\ events' = Tail(events)
  /\ LET call == [act |-> events[1].act, page |-> events[1].page]
         e    == events[1].entry IN
     IF object[e] = "none"
     THEN /\ object' = [object EXCEPT ![e] = "waiting"]
          /\ made' = [made EXCEPT ![e] = call]
          /\ UNCHANGED <<shown, pages, fails, contrary>>
     ELSE /\ Counted(call, 0)
          /\ contrary' = contrary \ {e}
          /\ UNCHANGED <<object, made, shown, fails>>
  /\ UNCHANGED <<list, taps, changes, edits, unobserved, dropped>>

(* The next report: User.initiate, User.get.  An object that is there, on  *)
(* whatever profile it waits, is used at once; a new one waits for it.     *)
Initiate ==
  /\ events # <<>> /\ events' = Tail(events)
  /\ LET call == [act |-> events[1].act, page |-> events[1].page]
         e    == events[1].entry IN
     IF object[e] = "none"
     THEN /\ object' = [object EXCEPT ![e] = "waiting"]
          /\ made' = [made EXCEPT ![e] = call]
          /\ UNCHANGED <<shown, pages, fails, contrary>>
     ELSE /\ Edited(call, e)
          /\ contrary' = contrary \ {e}
          /\ UNCHANGED <<object, made>>
  /\ UNCHANGED <<list, taps, changes, edits, unobserved, dropped>>

(* The observer of the profile of e runs the completion e was made with.   *)
Replay(e) ==
  /\ Edited(made[e], e)
  /\ contrary' = IF (made[e].act = "add") = (e \in list) THEN contrary \ {e} ELSE contrary \union {e}
  /\ UNCHANGED <<list, made, events, taps, changes, unobserved, dropped>>

(* connectCore: the first value of the profile, later ones, and the end of *)
(* the observer before the first, after which initiate calls nothing.      *)
CoreArrives(e) ==
  /\ object[e] = "waiting" /\ object' = [object EXCEPT ![e] = "ready"]
  /\ Replay(e)
  /\ UNCHANGED edits

EditProfile(e) ==
  /\ edits > 0 /\ edits' = edits - 1
  /\ object[e] = "ready" /\ made[e] # Elsewhere
  /\ Replay(e)
  /\ UNCHANGED object

CoreCancelled(e) ==
  /\ fails > 0 /\ fails' = fails - 1
  /\ object[e] = "waiting" /\ object' = [object EXCEPT ![e] = "dead"]
  /\ UNCHANGED <<list, made, shown, pages, events, taps, changes, edits, ghosts>>

Next == \/ Open \/ LoadMore \/ Initiate
        \/ \E p \in DOMAIN pages, act \in Acts : Count(p, act) \/ Register(p, act)
        \/ \E e \in Entries : \/ Put(e) \/ Drop(e)
                              \/ CoreArrives(e) \/ EditProfile(e) \/ CoreCancelled(e)

Spec == Init /\ [][Next]_vars

(* The SDK answers, and the main queue runs.                               *)
Answer == \E p \in DOMAIN pages, act \in Acts : Count(p, act) \/ Register(p, act)

Fairness == /\ WF_vars(Initiate) /\ WF_vars(Answer)
            /\ \A e \in Entries : WF_vars(CoreArrives(e))

FairSpec == Spec /\ Fairness
-----------------------------------------------------------------------------
(* Properties.                                                             *)

Quiet == events = <<>>

(* A row that is not in the list is there for one of two reasons: it was   *)
(* dropped while nothing observed removals, or the completion of the call  *)
(* that made its object ran late, after the removal.                       *)
StaleExplained == Quiet => Rows \ list \subseteq unobserved \union contrary

(* Whatever an observer of additions has in its window is in the rows once *)
(* its profile is there, unless such a late completion took it out.        *)
WindowShown ==
  Quiet => \A p \in DOMAIN pages, e \in Entries :
             e \in Window(p) /\ object[e] = "ready" => e \in shown \union contrary

(* The caller is told once, and once more for each failed save: no list is *)
(* pushed twice for one tap.                                               *)
OnePagePerTap == \A p \in DOMAIN pages : pages[p].called <= 1 + pages[p].failed

(* A list that is not empty opens, if nothing is dropped meanwhile and all *)
(* profiles can be read.                                                   *)
Opening(p) == \E q \in DOMAIN pages : q = p /\ pages[q].add = "register"
Opened(p)  == \E q \in DOMAIN pages : q = p /\ pages[q].called > 0

PageOpens ==
  \A p \in 1..MaxTaps :
    Opening(p) ~> Opened(p) \/ dropped \/ \E e \in Entries : object[e] = "dead"
=============================================================================
