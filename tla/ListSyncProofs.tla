---------------------------- MODULE ListSyncProofs ----------------------------
(***************************************************************************)
(* Theorems about ListSync, for any finite set of users, any page size and *)
(* any number of taps, changes of the list, edits and failures: what the   *)
(* rows show when the queue is empty, and how often a tap pushes a list.   *)
(*                                                                         *)
(* None of these can be proved by itself: what the rows will show is still *)
(* in the queue.  The inductive invariant follows the reports of an entry: *)
(* of an entry that is not listed any more, every addition still queued is *)
(* followed by a removal (DropsFollow); of an entry in a window, the last  *)
(* report queued is an addition, or none is and the entry has landed       *)
(* (WindowsFill).  A change of the list raises its reports behind those of *)
(* earlier changes (RaiseKeeps), and the queue is run from the front       *)
(* (TakeKeeps); a profile that arrives or changes runs a completion past   *)
(* the queue, and is what contrary is there for (ReplayKeeps).             *)
(***************************************************************************)
EXTENDS ListSync, BackendTheorems, FiniteSetTheorems

-----------------------------------------------------------------------------
(* The inductive invariant.                                                *)

(* Reports of an addition and of a removal of e.                           *)
Adds(i, e)  == events[i].act = "add" /\ events[i].entry = e
Drops(i, e) == events[i].act = "remove" /\ events[i].entry = e

(* A call of initiate, which may have come from an observer.               *)
Live(call) == /\ call.act \in Acts /\ call.page \in DOMAIN pages
              /\ call.act = "add" => pages[call.page].add = "live"

CallsLive == /\ \A i \in DOMAIN events : Live(events[i])
             /\ \A e \in Entries : made[e] = Elsewhere \/ Live(made[e])

(* The caller was told once, if at all, when the count reached the number; *)
(* the number changes before anything is counted only.                     *)
PagesCalled == \A p \in DOMAIN pages :
  /\ pages[p].add = "count" => pages[p].called = 0
  /\ pages[p].called <= 1 + pages[p].failed
  /\ pages[p].completed < pages[p].toFirst => pages[p].called <= pages[p].failed

(* What is shown has an object, and one that waits was made by a call.     *)
ObjectsMade == \A e \in Entries :
  /\ object[e] = "none" => e \notin shown
  /\ object[e] = "waiting" => made[e] # Elsewhere

(* The removal of an entry that is no longer listed is still to come,      *)
(* after whatever is to come of its additions, or has been run last.       *)
DropsFollow == \A e \in Entries \ (list \union unobserved) :
  /\ \A i \in DOMAIN events : Adds(i, e) => \E j \in DOMAIN events : j > i /\ Drops(j, e)
  /\ e \in shown => e \in contrary \/ \E j \in DOMAIN events : Drops(j, e)

(* The addition of an entry in a window is still to come, after whatever   *)
(* is to come of its removals, or nothing but its profile is missing.      *)
Awaited(e) == \E i \in DOMAIN events :
  Adds(i, e) /\ \A j \in DOMAIN events : Drops(j, e) => j < i

Landed(e) == /\ \A j \in DOMAIN events : ~Drops(j, e)
             /\ e \in shown \union contrary \/ object[e] \in {"waiting", "dead"}

WindowsFill == \A p \in DOMAIN pages : \A e \in Window(p) : Awaited(e) \/ Landed(e)

ListInv == CallsLive /\ PagesCalled /\ ObjectsMade /\ DropsFollow /\ WindowsFill
-----------------------------------------------------------------------------
(* Sets, and what a change of the list raises.                             *)

Calls(n) == [act : Acts, page : 1..n, entry : Entries]

LEMMA EntriesFinite ==
  /\ \A S \in SUBSET Entries : IsFiniteSet(S) /\ Cardinality(S) \in Nat
  /\ \A n \in Nat : \A N \in SUBSET Calls(n) : IsFiniteSet(N) /\ Cardinality(N) \in Nat
<1>1. \A S \in SUBSET Entries : IsFiniteSet(S) /\ Cardinality(S) \in Nat
  BY ListAssumption, FS_Subset, FS_CardinalityType
<1>2. ASSUME NEW n \in Nat, NEW N \in SUBSET Calls(n)
      PROVE  IsFiniteSet(N) /\ Cardinality(N) \in Nat
  <2> DEFINE P == (Acts \X (1..n)) \X Entries
             f == [r \in Calls(n) |-> <<<<r.act, r.page>>, r.entry>>]
  <2>1. IsFiniteSet(Acts)
    <3>1. IsFiniteSet({"add"}) /\ IsFiniteSet({"remove"})
      BY FS_Singleton
    <3>2. Acts = {"add"} \union {"remove"}
      BY DEF Acts
    <3>3. QED
      BY <3>1, <3>2, FS_Union
  <2>2. IsFiniteSet(Acts \X (1..n))
    <3>1. IsFiniteSet(1..n)
      <4>1. 1 \in Int /\ n \in Int
        OBVIOUS
      <4>2. QED
        BY <4>1, FS_Interval
    <3>2. QED
      BY <2>1, <3>1, FS_Product
  <2>3. IsFiniteSet(P)
    BY <2>2, ListAssumption, FS_Product
  <2>4. f \in Injection(Calls(n), P)
    <3>1. f \in [Calls(n) -> P]
      BY DEF Calls
    <3>2. ASSUME NEW x \in Calls(n), NEW y \in Calls(n), f[x] = f[y] PROVE x = y
      BY <3>2 DEF Calls
    <3>3. QED
      BY <3>1, <3>2 DEF Injection, IsInjective
  <2>5. IsFiniteSet(Calls(n))
    BY <2>3, <2>4, FS_Injection
  <2>6. QED
    BY <2>5, FS_Subset, FS_CardinalityType
<1>3. QED
  BY <1>1, <1>2

(* The events that are raised come after the others, each at some place.   *)
LEMMA RaisePositions ==
  ASSUME NEW n \in Nat, events \in Seq(Calls(n)), NEW N \in SUBSET Calls(n), Raise(N)
  PROVE  /\ events' \in Seq(Calls(n))
         /\ \A i \in DOMAIN events : i \in Nat /\ i \in DOMAIN events' /\ events'[i] = events[i]
         /\ \A i \in DOMAIN events' : i \in Nat /\ (i \in DOMAIN events \/ events'[i] \in N)
         /\ \A x \in N : \E i \in DOMAIN events' :
              events'[i] = x /\ \A j \in DOMAIN events : j < i
<1>1. PICK s \in Raised(N) : events' = events \o s
  BY DEF Raise
<1>2. /\ s \in [1..Cardinality(N) -> N] /\ Cardinality(N) \in Nat
      /\ \A x \in N : \E i \in DOMAIN s : s[i] = x
  <2>1. {s[i] : i \in DOMAIN s} = N
    BY DEF Raised
  <2>2. QED
    BY <2>1, EntriesFinite DEF Raised
<1>3. s \in Seq(Calls(n)) /\ \A i \in DOMAIN s : s[i] \in N
  BY <1>2
<1>4. /\ events' \in Seq(Calls(n))
      /\ DOMAIN events' = 1 .. (Len(events) + Len(s))
      /\ \A i \in DOMAIN events : events'[i] = events[i]
      /\ \A i \in DOMAIN s : events'[Len(events) + i] = s[i]
      /\ \A i \in DOMAIN events' : i \in DOMAIN events \/ \E j \in DOMAIN s : i = Len(events) + j
  BY <1>1, <1>3, AppendPositions
<1>5. /\ DOMAIN events = 1 .. Len(events) /\ Len(events) \in Nat
      /\ DOMAIN s = 1 .. Len(s) /\ Len(s) \in Nat
  BY <1>3
<1>6. ASSUME NEW x \in N
      PROVE  \E i \in DOMAIN events' : events'[i] = x /\ \A j \in DOMAIN events : j < i
  <2>1. PICK i \in DOMAIN s : s[i] = x
    BY <1>2
  <2>2. /\ Len(events) + i \in DOMAIN events' /\ events'[Len(events) + i] = x
        /\ \A j \in DOMAIN events : j < Len(events) + i
    BY <1>4, <1>5, <2>1
  <2>3. QED
    BY <2>2
<1>7. \A i \in DOMAIN events : i \in Nat /\ i \in DOMAIN events'
  BY <1>4, <1>5
<1>8. \A i \in DOMAIN events' : i \in Nat /\ (i \in DOMAIN events \/ events'[i] \in N)
  BY <1>3, <1>4, <1>5
<1>9. QED
  BY <1>4, <1>6, <1>7, <1>8

(* What an observer has to report, and who reports it.                     *)
LEMMA ReportsAre ==
  ASSUME TypeOK
  PROVE  /\ Len(pages) \in Nat /\ DOMAIN pages = 1 .. Len(pages)
         /\ \A e \in Entries :
              /\ Removals(e) \subseteq Calls(Len(pages))
              /\ \A x \in Removals(e) : /\ x.act = "remove" /\ x.entry = e
                                        /\ x.page \in DOMAIN pages
         /\ \A l \in SUBSET Entries :
              /\ Additions(l) \subseteq Calls(Len(pages))
              /\ \A x \in Additions(l) : /\ x.act = "add" /\ x.entry \in l
                                         /\ x.page \in DOMAIN pages
                                         /\ pages[x.page].add = "live"
              /\ \A p \in DOMAIN pages : pages[p].add = "live" =>
                   \A e \in First(pages[p].toFirst, l) \ Window(p) :
                     [act |-> "add", page |-> p, entry |-> e] \in Additions(l)
<1>1. Len(pages) \in Nat /\ DOMAIN pages = 1 .. Len(pages)
  BY DEF TypeOK
<1>2. ASSUME NEW e \in Entries, NEW x \in Removals(e)
      PROVE  /\ x \in Calls(Len(pages)) /\ x.act = "remove" /\ x.entry = e
             /\ x.page \in DOMAIN pages
  <2>1. PICK p \in DOMAIN pages : x \in Reports("remove", p, {e})
    BY DEF Removals, Observing
  <2>2. QED
    BY <1>1, <2>1 DEF Reports, Calls, Acts
<1>3. ASSUME NEW l \in SUBSET Entries, NEW x \in Additions(l)
      PROVE  /\ x \in Calls(Len(pages)) /\ x.act = "add" /\ x.entry \in l
             /\ x.page \in DOMAIN pages /\ pages[x.page].add = "live"
  <2>1. PICK p \in Observing("add") :
          x \in Reports("add", p, First(pages[p].toFirst, l) \ Window(p))
    BY DEF Additions
  <2>2. p \in DOMAIN pages /\ pages[p].add = "live"
    BY <2>1 DEF Observing
  <2>3. First(pages[p].toFirst, l) \subseteq l
    BY DEF First
  <2>4. QED
    BY <1>1, <2>1, <2>2, <2>3 DEF Reports, Calls, Acts
<1>4. ASSUME NEW l \in SUBSET Entries, NEW p \in DOMAIN pages, pages[p].add = "live",
             NEW e \in First(pages[p].toFirst, l) \ Window(p)
      PROVE  [act |-> "add", page |-> p, entry |-> e] \in Additions(l)
  <2>1. p \in Observing("add")
    BY <1>4 DEF Observing
  <2>2. [act |-> "add", page |-> p, entry |-> e]
          \in Reports("add", p, First(pages[p].toFirst, l) \ Window(p))
    BY DEF Reports
  <2>3. QED
    BY <2>1, <2>2 DEF Additions
<1>5. QED
  BY <1>1, <1>2, <1>3, <1>4
-----------------------------------------------------------------------------
(* What the steps do to the pages.                                         *)

(* The same taps, asking for the same.                                     *)
SamePages == /\ pages' \in Seq(Pages) /\ Len(pages') = Len(pages)
             /\ DOMAIN pages' = DOMAIN pages

LEMMA PageSet ==
  ASSUME TypeOK, NEW p \in DOMAIN pages, NEW g \in Pages, pages' = [pages EXCEPT ![p] = g]
  PROVE  SamePages /\ \A q \in DOMAIN pages : pages'[q] = IF q = p THEN g ELSE pages[q]
<1>1. pages \in Seq(Pages) /\ DOMAIN pages = 1 .. Len(pages) /\ Len(pages) \in Nat
  BY DEF TypeOK
<1>2. \A q \in DOMAIN pages : pages'[q] = IF q = p THEN g ELSE pages[q]
  BY <1>1
<1>3. DOMAIN pages' = 1 .. Len(pages)
  BY <1>1
<1>4. pages' \in [1 .. Len(pages) -> Pages]
  BY <1>1
<1>5. pages' \in Seq(Pages) /\ Len(pages') = Len(pages)
  BY <1>1, <1>3, <1>4
<1>6. QED
  BY <1>1, <1>2, <1>3, <1>5 DEF SamePages

LEMMA PageFields ==
  ASSUME TypeOK, NEW p \in DOMAIN pages
  PROVE  /\ pages[p] \in Pages
         /\ pages[p].add \in Steps /\ pages[p].remove \in Steps
         /\ pages[p].toFirst \in Nat /\ pages[p].opens \in BOOLEAN
         /\ pages[p].completed \in Nat /\ pages[p].called \in Nat /\ pages[p].failed \in Nat
<1>1. pages[p] \in Pages
  BY DEF TypeOK
<1>2. QED
  BY <1>1 DEF Pages

(* A completion counts an addition, on the page of its call.               *)
Counts(p, call, failed) ==
  /\ call.act = "add" /\ p = call.page
  /\ pages'[p].completed = pages[p].completed + 1
  /\ pages'[p].failed = pages[p].failed + failed
  /\ pages'[p].called = pages[p].called + failed
       + (IF pages[p].completed + 1 = pages[p].toFirst THEN 1 ELSE 0)

LEMMA CountedPages ==
  ASSUME TypeOK, NEW call, call.act \in Acts, call.page \in DOMAIN pages, NEW failed \in 0..1,
         Counted(call, failed)
  PROVE  /\ SamePages
         /\ \A p \in DOMAIN pages :
              /\ pages'[p].add = pages[p].add /\ pages'[p].remove = pages[p].remove
              /\ pages'[p].toFirst = pages[p].toFirst
              /\ pages'[p] = pages[p] \/ Counts(p, call, failed)
         /\ call.act = "remove" => pages' = pages
<1> DEFINE p == call.page
           told == IF pages[p].completed + 1 = pages[p].toFirst THEN 1 ELSE 0
           g == [pages[p] EXCEPT !.completed = pages[p].completed + 1,
                                 !.failed = pages[p].failed + failed,
                                 !.called = pages[p].called + failed + told]
<1>1. CASE call.act = "remove"
  BY <1>1 DEF Counted, SamePages, TypeOK
<1>2. CASE call.act # "remove"
  <2>1. /\ p \in DOMAIN pages /\ pages[p] \in Pages /\ failed \in Nat /\ told \in Nat
        /\ pages[p].completed \in Nat /\ pages[p].called \in Nat /\ pages[p].failed \in Nat
    BY PageFields
  <2>2. /\ g.add = pages[p].add /\ g.remove = pages[p].remove /\ g.toFirst = pages[p].toFirst
        /\ g.completed = pages[p].completed + 1 /\ g.failed = pages[p].failed + failed
        /\ g.called = pages[p].called + failed + told
        /\ g \in Pages
    <3> HIDE DEF told
    <3>1. /\ pages[p].completed + 1 \in Nat /\ pages[p].failed + failed \in Nat
          /\ pages[p].called + failed + told \in Nat
      BY <2>1
    <3>2. g \in Pages
      BY <2>1, <3>1 DEF Pages
    <3>3. QED
      BY <2>1, <3>2 DEF Pages
  <2>3. pages' = [pages EXCEPT ![p] = g]
    BY <1>2 DEF Counted
  <2> HIDE DEF g
  <2>4. SamePages /\ \A q \in DOMAIN pages : pages'[q] = IF q = p THEN g ELSE pages[q]
    BY <2>1, <2>2, <2>3, PageSet
  <2>5. QED
    BY <1>2, <2>2, <2>4 DEF Counts, Acts
<1>3. QED
  BY <1>1, <1>2

LEMMA CountPages ==
  ASSUME TypeOK, NEW p \in DOMAIN pages, NEW act \in Acts, Count(p, act)
  PROVE  /\ SamePages /\ pages[p][act] = "count"
         /\ \A q \in DOMAIN pages :
              /\ q # p => pages'[q] = pages[q]
              /\ pages'[q].completed = pages[q].completed /\ pages'[q].failed = pages[q].failed
              /\ pages'[q].called = pages[q].called
              /\ \/ pages'[q].add = pages[q].add /\ pages'[q].toFirst = pages[q].toFirst
                 \/ pages[q].add = "count" /\ pages'[q].add \in {"silent", "register"}
<1> DEFINE r == pages[p]
           x == IF list = {} THEN "silent" ELSE "register"
           y == IF Cardinality(list) < r.toFirst THEN Cardinality(list) ELSE r.toFirst
<1>0. /\ r \in Pages /\ r[act] = "count" /\ x \in Steps /\ x \in {"silent", "register"}
      /\ r.toFirst \in Nat
  BY PageFields DEF Count, Steps
<1>1. y \in Nat
  BY <1>0, EntriesFinite DEF TypeOK
<1>2. CASE act = "add"
  <2> DEFINE g == [r EXCEPT !.add = x, !.toFirst = y]
  <2>1. pages' = [pages EXCEPT ![p] = g]
    BY <1>2 DEF Count, TypeOK
  <2> HIDE DEF x, y
  <2>2. /\ g \in Pages /\ g.add = x /\ g.completed = r.completed /\ g.failed = r.failed
        /\ g.called = r.called /\ r.add = "count"
    BY <1>0, <1>1, <1>2 DEF Pages
  <2> HIDE DEF g
  <2>3. SamePages /\ \A q \in DOMAIN pages : pages'[q] = IF q = p THEN g ELSE pages[q]
    BY <2>1, <2>2, PageSet
  <2>4. QED
    BY <1>0, <2>2, <2>3
<1>3. CASE act = "remove"
  <2> DEFINE g == [r EXCEPT !.remove = x]
  <2>0. pages \in Seq(Pages)
    BY DEF TypeOK
  <2>1. pages' = [pages EXCEPT ![p] = g]
    BY <1>3, <2>0 DEF Count, Pages
  <2> HIDE DEF x, y
  <2>2. /\ g \in Pages /\ g.add = r.add /\ g.toFirst = r.toFirst
        /\ g.completed = r.completed /\ g.failed = r.failed /\ g.called = r.called
    BY <1>0, <1>1 DEF Pages
  <2> HIDE DEF g
  <2>3. SamePages /\ \A q \in DOMAIN pages : pages'[q] = IF q = p THEN g ELSE pages[q]
    BY <2>1, <2>2, PageSet
  <2>4. QED
    BY <1>0, <2>2, <2>3
<1>4. QED
  BY <1>2, <1>3 DEF Acts

LEMMA RegisterPages ==
  ASSUME TypeOK, NEW p \in DOMAIN pages, NEW act \in Acts, Register(p, act)
  PROVE  /\ SamePages /\ pages[p][act] = "register"
         /\ \A q \in DOMAIN pages :
              /\ pages'[q].completed = pages[q].completed /\ pages'[q].failed = pages[q].failed
              /\ pages'[q].called = pages[q].called /\ pages'[q].toFirst = pages[q].toFirst
              /\ pages'[q].add = IF q = p /\ act = "add" THEN "live" ELSE pages[q].add
<1> DEFINE r == pages[p]
<1>0. /\ r \in Pages /\ r[act] = "register" /\ "live" \in Steps /\ pages \in Seq(Pages)
  BY PageFields DEF Register, Steps, TypeOK
<1>1. CASE act = "add"
  <2> DEFINE g == [r EXCEPT !.add = "live"]
  <2>1. pages' = [pages EXCEPT ![p] = g]
    BY <1>0, <1>1 DEF Register, Pages
  <2>2. /\ g \in Pages /\ g.add = "live" /\ g.completed = r.completed /\ g.failed = r.failed
        /\ g.called = r.called /\ g.toFirst = r.toFirst
    BY <1>0 DEF Pages
  <2> HIDE DEF g
  <2>3. SamePages /\ \A q \in DOMAIN pages : pages'[q] = IF q = p THEN g ELSE pages[q]
    BY <2>1, <2>2, PageSet
  <2>4. QED
    BY <1>0, <1>1, <2>2, <2>3
<1>2. CASE act = "remove"
  <2> DEFINE g == [r EXCEPT !.remove = "live"]
  <2>1. pages' = [pages EXCEPT ![p] = g]
    BY <1>0, <1>2 DEF Register, Pages
  <2>2. /\ g \in Pages /\ g.add = r.add /\ g.completed = r.completed /\ g.failed = r.failed
        /\ g.called = r.called /\ g.toFirst = r.toFirst
    BY <1>0 DEF Pages
  <2> HIDE DEF g
  <2>3. SamePages /\ \A q \in DOMAIN pages : pages'[q] = IF q = p THEN g ELSE pages[q]
    BY <2>1, <2>2, PageSet
  <2>4. QED
    BY <1>0, <1>2, <2>2, <2>3
<1>3. QED
  BY <1>1, <1>2 DEF Acts

(* A page is empty until it is observed, and follows the list afterwards.  *)
LEMMA WindowsAre ==
  ASSUME TypeOK, SamePages, list' = list, NEW p \in DOMAIN pages,
         \/ pages'[p].add = pages[p].add /\ pages'[p].toFirst = pages[p].toFirst
         \/ pages[p].add # "live" /\ pages'[p].add # "live"
  PROVE  Window(p)' = Window(p)
  BY DEF Window, First

LEMMA CallsStayLive ==
  ASSUME SamePages, \A p \in DOMAIN pages : pages[p].add = "live" => pages'[p].add = "live",
         NEW call, Live(call)
  PROVE  Live(call)'
  BY DEF Live, SamePages
-----------------------------------------------------------------------------
(* Taps.                                                                   *)

LEMMA SeqGrows ==
  ASSUME NEW S, NEW T, S \subseteq T, NEW q \in Seq(S)
  PROVE  q \in Seq(T)
<1>1. /\ q \in [1 .. Len(q) -> S] /\ Len(q) \in Nat
  OBVIOUS
<1>2. q \in [1 .. Len(q) -> T]
  BY <1>1
<1>3. QED
  BY <1>1, <1>2

LEMMA AsksKeeps ==
  ASSUME TypeOK, ListInv, NEW page \in Pages, page.add = "count", page.called = 0,
         page.completed = 0, page.failed = 0, Asks(page)
  PROVE  TypeOK' /\ ListInv'
<1>1. /\ pages \in Seq(Pages) /\ pages' = Append(pages, page)
      /\ UNCHANGED <<list, object, made, shown, events, changes, edits, fails, unobserved,
                     contrary, dropped>>
      /\ taps' \in 0..MaxTaps
  BY ListAssumption DEF Asks, cache, ghosts, TypeOK
<1>2. /\ pages' \in Seq(Pages) /\ Len(pages') = Len(pages) + 1 /\ Len(pages) \in Nat
      /\ DOMAIN pages = 1 .. Len(pages) /\ DOMAIN pages' = 1 .. (Len(pages) + 1)
      /\ \A p \in DOMAIN pages : pages'[p] = pages[p]
      /\ pages'[Len(pages) + 1] = page
  BY <1>1
<1>3. \A p \in DOMAIN pages' : \/ p \in DOMAIN pages /\ pages'[p] = pages[p]
                               \/ pages'[p] = page
  <2>1. \A p \in 1 .. (Len(pages) + 1) : p \in 1 .. Len(pages) \/ p = Len(pages) + 1
    BY <1>2
  <2>2. QED
    BY <1>2, <2>1
<1>4. DOMAIN pages \subseteq DOMAIN pages' /\ 1 .. Len(pages) \subseteq 1 .. Len(pages')
      /\ 0 .. Len(pages) \subseteq 0 .. Len(pages')
  BY <1>2
<1>5. TypeOK'
  <2>1. made' \in [Entries -> [act : Acts \union {"none"}, page : 0..Len(pages')]]
    <3>1. [act : Acts \union {"none"}, page : 0..Len(pages)]
            \subseteq [act : Acts \union {"none"}, page : 0..Len(pages')]
      BY <1>4
    <3>2. made \in [Entries -> [act : Acts \union {"none"}, page : 0..Len(pages)]]
      BY DEF TypeOK
    <3>3. QED
      BY <1>1, <3>1, <3>2
  <2>2. events' \in Seq([act : Acts, page : 1..Len(pages'), entry : Entries])
    <3> DEFINE S == [act : Acts, page : 1..Len(pages), entry : Entries]
               T == [act : Acts, page : 1..Len(pages'), entry : Entries]
    <3>1. S \subseteq T
      BY <1>4
    <3>2. events \in Seq(S)
      BY DEF TypeOK
    <3> HIDE DEF S, T
    <3>3. events \in Seq(T)
      BY <3>1, <3>2, SeqGrows
    <3>4. QED
      BY <1>1, <3>3 DEF T
  <2>3. QED
    BY <1>1, <1>2, <2>1, <2>2 DEF TypeOK
<1>6. \A call : Live(call) => Live(call)'
  BY <1>2, <1>4 DEF Live
<1>7. CallsLive'
  BY <1>1, <1>6 DEF ListInv, CallsLive
<1>8. PagesCalled'
  <2>1. SUFFICES ASSUME NEW p \in DOMAIN pages'
                 PROVE  /\ pages'[p].add = "count" => pages'[p].called = 0
                        /\ pages'[p].called <= 1 + pages'[p].failed
                        /\ pages'[p].completed < pages'[p].toFirst =>
                             pages'[p].called <= pages'[p].failed
    BY DEF PagesCalled
  <2>2. QED
    BY <1>3 DEF ListInv, PagesCalled
<1>9. ObjectsMade' /\ DropsFollow'
  BY <1>1 DEF ListInv, ObjectsMade, DropsFollow, Adds, Drops
<1>10. WindowsFill'
  <2>1. \A p \in DOMAIN pages' : Window(p)' # {} => p \in DOMAIN pages /\ Window(p)' = Window(p)
    BY <1>1, <1>3 DEF Window, First
  <2>2. \A e : Awaited(e)' <=> Awaited(e)
    BY <1>1 DEF Awaited, Adds, Drops
  <2>3. \A e : Landed(e)' <=> Landed(e)
    BY <1>1 DEF Landed, Drops
  <2>4. QED
    BY <2>1, <2>2, <2>3 DEF ListInv, WindowsFill
<1>11. QED
  BY <1>5, <1>7, <1>8, <1>9, <1>10 DEF ListInv

LEMMA TapsKeep ==
  ASSUME TypeOK, ListInv, Open \/ LoadMore
  PROVE  TypeOK' /\ ListInv'
<1>1. CASE Open
  <2> DEFINE page == [add |-> "count", remove |-> "count", toFirst |-> PageSize, opens |-> TRUE,
                      completed |-> 0, called |-> 0, failed |-> 0]
  <2>1. page \in Pages
    BY ListAssumption DEF Pages, Steps
  <2>2. Asks(page)
    BY <1>1 DEF Open
  <2>3. page.add = "count" /\ page.called = 0 /\ page.completed = 0 /\ page.failed = 0
    OBVIOUS
  <2> HIDE DEF page
  <2>4. QED
    BY <2>1, <2>2, <2>3, AsksKeeps
<1>2. CASE LoadMore
  <2> DEFINE page == [add |-> "count", remove |-> "none", toFirst |-> Cardinality(Rows) + 1,
                      opens |-> FALSE, completed |-> 0, called |-> 0, failed |-> 0]
  <2>1. page \in Pages
    <3>1. Rows \in SUBSET Entries
      BY DEF Rows, TypeOK
    <3>2. Cardinality(Rows) + 1 \in Nat
      BY <3>1, EntriesFinite
    <3>3. QED
      BY <3>2 DEF Pages, Steps
  <2>2. Asks(page)
    BY <1>2 DEF LoadMore
  <2>3. page.add = "count" /\ page.called = 0 /\ page.completed = 0 /\ page.failed = 0
    OBVIOUS
  <2> HIDE DEF page
  <2>4. QED
    BY <2>1, <2>2, <2>3, AsksKeeps
<1>3. QED
  BY <1>1, <1>2
-----------------------------------------------------------------------------
(* The SDK answers: the number of entries, and the setting of an observer. *)

LEMMA CountKeeps ==
  ASSUME TypeOK, ListInv, NEW p \in DOMAIN pages, NEW act \in Acts, Count(p, act)
  PROVE  TypeOK' /\ ListInv'
<1>1. /\ UNCHANGED <<list, object, made, shown, events, taps, changes, edits, fails, unobserved,
                     contrary, dropped>>
  BY DEF Count, cache, bounds, ghosts
<1>2. /\ SamePages
      /\ \A q \in DOMAIN pages :
           /\ pages'[q].completed = pages[q].completed /\ pages'[q].failed = pages[q].failed
           /\ pages'[q].called = pages[q].called
           /\ \/ pages'[q].add = pages[q].add /\ pages'[q].toFirst = pages[q].toFirst
              \/ pages[q].add = "count" /\ pages'[q].add \in {"silent", "register"}
  BY CountPages
<1>3. TypeOK'
  BY <1>1, <1>2 DEF TypeOK, SamePages
<1>4. CallsLive'
  <2>1. \A call : Live(call) => Live(call)'
    BY <1>2, CallsStayLive
  <2>2. QED
    BY <1>1, <2>1 DEF ListInv, CallsLive
<1>5. PagesCalled'
  <2>1. SUFFICES ASSUME NEW q \in DOMAIN pages
                 PROVE  /\ pages'[q].add = "count" => pages'[q].called = 0
                        /\ pages'[q].called <= 1 + pages'[q].failed
                        /\ pages'[q].completed < pages'[q].toFirst =>
                             pages'[q].called <= pages'[q].failed
    BY <1>2 DEF PagesCalled, SamePages
  <2>2. /\ pages[q].add = "count" => pages[q].called = 0
        /\ pages[q].called <= 1 + pages[q].failed
        /\ pages[q].completed < pages[q].toFirst => pages[q].called <= pages[q].failed
        /\ pages[q].called \in Nat /\ pages[q].failed \in Nat
    BY PageFields DEF ListInv, PagesCalled
  <2>3. QED
    BY <1>2, <2>2
<1>6. ObjectsMade' /\ DropsFollow'
  BY <1>1 DEF ListInv, ObjectsMade, DropsFollow, Adds, Drops
<1>7. WindowsFill'
  <2>1. \A q \in DOMAIN pages : Window(q)' = Window(q)
    BY <1>1, <1>2, WindowsAre
  <2>2. \A e : /\ Awaited(e)' <=> Awaited(e)
               /\ Landed(e)' <=> Landed(e)
    BY <1>1 DEF Awaited, Landed, Adds, Drops
  <2>3. QED
    BY <1>2, <2>1, <2>2 DEF ListInv, WindowsFill, SamePages
<1>8. QED
  BY <1>3, <1>4, <1>5, <1>6, <1>7 DEF ListInv

(* What is raised, when it is of entries that are listed but for those     *)
(* that are taken out, keeps to the order of additions and removals.       *)
LEMMA RaiseKeeps ==
  ASSUME TypeOK, ListInv, NEW N \in SUBSET Calls(Len(pages)), Raise(N), SamePages,
         NEW out \in SUBSET Entries,
         UNCHANGED <<object, made, shown, contrary>>,
         list' \subseteq Entries, list' \intersect out = {},
         \A x \in N : \/ x.act = "add" /\ x.entry \in list'
                      \/ x.act = "remove" /\ x.entry \in out,
         \A e \in Entries \ (list' \union unobserved') :
           \/ e \notin list \union unobserved
           \/ e \in out /\ \E x \in N : x.act = "remove" /\ x.entry = e,
         \A p \in DOMAIN pages, e \in Entries : e \in Window(p)' =>
           \/ e \in Window(p)
           \/ \E x \in N : x.act = "add" /\ x.entry = e,
         \A p \in DOMAIN pages : pages[p].add = "live" => pages'[p].add = "live",
         \A x \in N : Live(x)'
  PROVE  /\ events' \in Seq(Calls(Len(pages)))
         /\ CallsLive' /\ DropsFollow' /\ WindowsFill'
<1>0. Len(pages) \in Nat /\ events \in Seq(Calls(Len(pages)))
  BY DEF TypeOK, Calls
<1>1. /\ events' \in Seq(Calls(Len(pages)))
      /\ \A i \in DOMAIN events : i \in Nat /\ i \in DOMAIN events' /\ events'[i] = events[i]
      /\ \A i \in DOMAIN events' : i \in Nat /\ (i \in DOMAIN events \/ events'[i] \in N)
      /\ \A x \in N : \E i \in DOMAIN events' :
           events'[i] = x /\ \A j \in DOMAIN events : j < i
  BY <1>0, RaisePositions
<1>2. CallsLive'
  <2>1. \A call : Live(call) => Live(call)'
    BY CallsStayLive
  <2>2. QED
    BY <1>1, <2>1 DEF ListInv, CallsLive
<1>3. DropsFollow'
  <2>1. SUFFICES ASSUME NEW e \in Entries, e \notin list', e \notin unobserved'
                 PROVE  /\ \A i \in DOMAIN events' : Adds(i, e)' =>
                             \E j \in DOMAIN events' : j > i /\ Drops(j, e)'
                        /\ e \in shown' => e \in contrary' \/ \E j \in DOMAIN events' : Drops(j, e)'
    BY DEF DropsFollow
  <2>2. ASSUME NEW i \in DOMAIN events', Adds(i, e)' PROVE i \in DOMAIN events /\ Adds(i, e)
    BY <1>1, <2>1, <2>2 DEF Adds
  <2>3. CASE e \notin list \union unobserved
    BY <1>1, <2>2, <2>3 DEF ListInv, DropsFollow, Drops
  <2>4. CASE \E x \in N : x.act = "remove" /\ x.entry = e
    <3>1. PICK x \in N : x.act = "remove" /\ x.entry = e
      BY <2>4
    <3>2. PICK j \in DOMAIN events' : events'[j] = x /\ \A i \in DOMAIN events : i < j
      BY <1>1, <3>1
    <3>3. Drops(j, e)' /\ j \in Nat
      BY <1>1, <3>1, <3>2 DEF Drops
    <3>4. \A i \in DOMAIN events' : Adds(i, e)' => j > i
      BY <1>1, <2>2, <3>2, <3>3
    <3>5. QED
      BY <3>3, <3>4
  <2>5. QED
    BY <2>1, <2>3, <2>4
<1>4. WindowsFill'
  <2>1. SUFFICES ASSUME NEW p \in DOMAIN pages, NEW e \in Window(p)'
                 PROVE  Awaited(e)' \/ Landed(e)'
    BY DEF WindowsFill, SamePages
  <2>2. e \in list' /\ e \in Entries
    BY <2>1 DEF Window, First
  <2>3. ASSUME NEW j \in DOMAIN events', Drops(j, e)' PROVE j \in DOMAIN events /\ Drops(j, e)
    BY <1>1, <2>2, <2>3 DEF Drops
  <2>4. CASE Awaited(e)
    <3>1. PICK i \in DOMAIN events :
            Adds(i, e) /\ \A j \in DOMAIN events : Drops(j, e) => j < i
      BY <2>4 DEF Awaited
    <3>2. i \in DOMAIN events' /\ Adds(i, e)'
      BY <1>1, <3>1 DEF Adds
    <3>3. QED
      BY <2>3, <3>1, <3>2 DEF Awaited
  <2>5. CASE Landed(e)
    BY <2>3, <2>5 DEF Landed
  <2>6. CASE \E x \in N : x.act = "add" /\ x.entry = e
    <3>1. PICK x \in N : x.act = "add" /\ x.entry = e
      BY <2>6
    <3>2. PICK i \in DOMAIN events' : events'[i] = x /\ \A j \in DOMAIN events : j < i
      BY <1>1, <3>1
    <3>3. Adds(i, e)'
      BY <3>1, <3>2 DEF Adds
    <3>4. QED
      BY <2>3, <3>2, <3>3 DEF Awaited
  <2>7. QED
    BY <2>1, <2>2, <2>4, <2>5, <2>6 DEF ListInv, WindowsFill
<1>5. QED
  BY <1>1, <1>2, <1>3, <1>4

LEMMA RegisterKeeps ==
  ASSUME TypeOK, ListInv, NEW p \in DOMAIN pages, NEW act \in Acts, Register(p, act)
  PROVE  TypeOK' /\ ListInv'
<1> DEFINE N == IF act = "add" THEN Reports("add", p, First(pages[p].toFirst, list)) ELSE {}
<1>1. /\ UNCHANGED <<list, object, made, shown, taps, changes, edits, fails, unobserved,
                     contrary, dropped>>
      /\ Raise(N)
  BY DEF Register, cache, bounds, ghosts
<1>2. /\ SamePages /\ pages[p][act] = "register"
      /\ \A q \in DOMAIN pages :
           /\ pages'[q].completed = pages[q].completed /\ pages'[q].failed = pages[q].failed
           /\ pages'[q].called = pages[q].called /\ pages'[q].toFirst = pages[q].toFirst
           /\ pages'[q].add = IF q = p /\ act = "add" THEN "live" ELSE pages[q].add
  BY RegisterPages
<1>3. /\ DOMAIN pages = 1 .. Len(pages)
      /\ list \subseteq Entries /\ First(pages[p].toFirst, list) \subseteq list
  BY DEF TypeOK, First
<1>4. \A x \in N : /\ x \in Calls(Len(pages)) /\ x.act = "add" /\ x.entry \in list
                   /\ x.page = p /\ pages'[p].add = "live"
  BY <1>2, <1>3 DEF Reports, Calls, Acts
<1>5. ASSUME NEW q \in DOMAIN pages, NEW e \in Window(q)'
      PROVE  e \in Window(q) \/ \E x \in N : x.act = "add" /\ x.entry = e
  <2>1. CASE q = p /\ act = "add"
    <3>1. e \in First(pages[p].toFirst, list)
      BY <1>1, <1>2, <1>5, <2>1 DEF Window, First
    <3>2. [act |-> "add", page |-> p, entry |-> e] \in N
      BY <2>1, <3>1 DEF Reports
    <3>3. QED
      BY <3>2
  <2>2. CASE ~(q = p /\ act = "add")
    <3>1. Window(q)' = Window(q)
      BY <1>1, <1>2, <2>2, WindowsAre
    <3>2. QED
      BY <1>5, <3>1
  <2>3. QED
    BY <2>1, <2>2
<1>6. \A q \in DOMAIN pages : pages[q].add = "live" => pages'[q].add = "live"
  BY <1>2
<1>7. \A x \in N : Live(x)'
  BY <1>2, <1>4 DEF Live, SamePages, Acts
<1> HIDE DEF N
<1>8. /\ events' \in Seq(Calls(Len(pages)))
      /\ CallsLive' /\ DropsFollow' /\ WindowsFill'
  <2>1. N \in SUBSET Calls(Len(pages)) /\ {} \in SUBSET Entries
    BY <1>4
  <2>2. /\ list' \subseteq Entries /\ list' \intersect {} = {}
        /\ \A x \in N : x.act = "add" /\ x.entry \in list'
        /\ \A e \in Entries \ (list' \union unobserved') : e \notin list \union unobserved
    BY <1>1, <1>3, <1>4
  <2>3. \A q \in DOMAIN pages, e \in Entries : e \in Window(q)' =>
          e \in Window(q) \/ \E x \in N : x.act = "add" /\ x.entry = e
    BY <1>5
  <2>4. QED
    BY <1>1, <1>2, <1>6, <1>7, <2>1, <2>2, <2>3, RaiseKeeps
<1>9. TypeOK'
  BY <1>1, <1>2, <1>8 DEF TypeOK, SamePages, Calls
<1>10. PagesCalled' /\ ObjectsMade'
  BY <1>1, <1>2 DEF ListInv, PagesCalled, ObjectsMade, SamePages
<1>11. QED
  BY <1>8, <1>9, <1>10 DEF ListInv
-----------------------------------------------------------------------------
(* The list changes.                                                       *)

(* The windows after a change of the list hold what they held, and what    *)
(* the observers of additions report.                                      *)
LEMMA WindowsChange ==
  ASSUME TypeOK, pages' = pages, list' \in SUBSET Entries, NEW p \in DOMAIN pages,
         NEW e \in Window(p)'
  PROVE  e \in Window(p) \/ \E x \in Additions(list') : x.act = "add" /\ x.entry = e
<1>1. CASE e \notin Window(p)
  <2>1. pages[p].add = "live" /\ e \in First(pages[p].toFirst, list')
    BY DEF Window, First
  <2>2. [act |-> "add", page |-> p, entry |-> e] \in Additions(list')
    BY <1>1, <2>1, ReportsAre
  <2>3. QED
    BY <2>2
<1>2. QED
  BY <1>1

LEMMA PutKeeps ==
  ASSUME TypeOK, ListInv, NEW e \in Entries, Put(e)
  PROVE  TypeOK' /\ ListInv'
<1>1. /\ UNCHANGED <<object, made, shown, pages, taps, edits, fails, contrary, dropped>>
      /\ Raise(Additions(list')) /\ list' = list \union {e} /\ unobserved' = unobserved \ {e}
      /\ changes' \in 0..MaxChanges
  BY ListAssumption DEF Put, cache, TypeOK
<1>2. SamePages /\ list' \in SUBSET Entries /\ unobserved' \subseteq Entries
  BY <1>1 DEF SamePages, TypeOK
<1>3. /\ Additions(list') \in SUBSET Calls(Len(pages)) /\ {} \in SUBSET Entries
      /\ \A x \in Additions(list') : x.act = "add" /\ x.entry \in list' /\ Live(x)'
  BY <1>1, <1>2, ReportsAre DEF Live, Acts
<1>4. \A p \in DOMAIN pages, f \in Entries : f \in Window(p)' =>
        f \in Window(p) \/ \E x \in Additions(list') : x.act = "add" /\ x.entry = f
  BY <1>1, <1>2, WindowsChange
<1>5. \A f \in Entries \ (list' \union unobserved') : f \notin list \union unobserved
  BY <1>1
<1>6. /\ events' \in Seq(Calls(Len(pages)))
      /\ CallsLive' /\ DropsFollow' /\ WindowsFill'
  <2>1. list' \subseteq Entries /\ list' \intersect {} = {}
        /\ \A p \in DOMAIN pages : pages[p].add = "live" => pages'[p].add = "live"
    BY <1>1, <1>2
  <2>2. QED
    BY <1>1, <1>2, <1>3, <1>4, <1>5, <2>1, RaiseKeeps
<1>7. TypeOK'
  BY <1>1, <1>2, <1>6 DEF TypeOK, SamePages, Calls
<1>8. PagesCalled' /\ ObjectsMade'
  BY <1>1 DEF ListInv, PagesCalled, ObjectsMade
<1>9. QED
  BY <1>6, <1>7, <1>8 DEF ListInv

LEMMA DropKeeps ==
  ASSUME TypeOK, ListInv, NEW e \in Entries, Drop(e)
  PROVE  TypeOK' /\ ListInv'
<1> DEFINE N == Removals(e) \union Additions(list')
<1>1. /\ UNCHANGED <<object, made, shown, pages, taps, edits, fails, contrary>>
      /\ Raise(N) /\ list' = list \ {e}
      /\ unobserved' = IF Removals(e) = {} THEN unobserved \union {e} ELSE unobserved
      /\ changes' \in 0..MaxChanges /\ dropped' \in BOOLEAN
  BY ListAssumption DEF Drop, cache, TypeOK
<1>2. SamePages /\ list' \in SUBSET Entries /\ unobserved' \subseteq Entries
  BY <1>1 DEF SamePages, TypeOK
<1>3. /\ N \in SUBSET Calls(Len(pages)) /\ {e} \in SUBSET Entries
      /\ \A x \in Removals(e) : x.act = "remove" /\ x.entry = e /\ Live(x)'
      /\ \A x \in Additions(list') : x.act = "add" /\ x.entry \in list' /\ Live(x)'
  BY <1>1, <1>2, ReportsAre DEF Live, Acts
<1>4. \A p \in DOMAIN pages, f \in Entries : f \in Window(p)' =>
        f \in Window(p) \/ \E x \in N : x.act = "add" /\ x.entry = f
  BY <1>1, <1>2, WindowsChange
<1>5. \A x \in N : /\ Live(x)'
                   /\ \/ x.act = "add" /\ x.entry \in list'
                      \/ x.act = "remove" /\ x.entry \in {e}
  BY <1>3
<1>6. \A f \in Entries \ (list' \union unobserved') :
        \/ f \notin list \union unobserved
        \/ f \in {e} /\ \E x \in N : x.act = "remove" /\ x.entry = f
  BY <1>1, <1>3
<1> HIDE DEF N
<1>7. /\ events' \in Seq(Calls(Len(pages)))
      /\ CallsLive' /\ DropsFollow' /\ WindowsFill'
  <2>1. list' \subseteq Entries /\ list' \intersect {e} = {}
        /\ \A p \in DOMAIN pages : pages[p].add = "live" => pages'[p].add = "live"
    BY <1>1, <1>2
  <2>2. QED
    BY <1>1, <1>2, <1>3, <1>4, <1>5, <1>6, <2>1, RaiseKeeps
<1>8. TypeOK'
  BY <1>1, <1>2, <1>7 DEF TypeOK, SamePages, Calls
<1>9. PagesCalled' /\ ObjectsMade'
  BY <1>1 DEF ListInv, PagesCalled, ObjectsMade
<1>10. QED
  BY <1>7, <1>8, <1>9 DEF ListInv
-----------------------------------------------------------------------------
(* The cache.                                                              *)

(* A completion for e edits e alone, and counts on the page of its call.   *)
LEMMA EditedEffect ==
  ASSUME TypeOK, ListInv, NEW e \in Entries, NEW call, Live(call), Edited(call, e), list' = list
  PROVE  /\ SamePages /\ PagesCalled'
         /\ shown' \subseteq Entries /\ fails' \in 0..MaxFails
         /\ e \in shown' <=> call.act = "add"
         /\ \A f : f # e => (f \in shown' <=> f \in shown)
         /\ \A other : Live(other) => Live(other)'
         /\ \A p \in DOMAIN pages : Window(p)' = Window(p)
<1>1. PICK failed \in 0..1 :
        /\ failed <= fails /\ fails' = fails - failed
        /\ shown' = IF call.act = "add" THEN shown \union {e} ELSE shown \ {e}
        /\ Counted(call, failed)
  BY DEF Edited
<1>2. call.act \in Acts /\ call.page \in DOMAIN pages /\ (call.act = "add" => pages[call.page].add = "live")
  BY DEF Live
<1>3. /\ SamePages
      /\ \A p \in DOMAIN pages :
           /\ pages'[p].add = pages[p].add /\ pages'[p].remove = pages[p].remove
           /\ pages'[p].toFirst = pages[p].toFirst
           /\ pages'[p] = pages[p] \/ Counts(p, call, failed)
  BY <1>1, <1>2, CountedPages
<1>4. PagesCalled'
  <2>1. SUFFICES ASSUME NEW p \in DOMAIN pages
                 PROVE  /\ pages'[p].add = "count" => pages'[p].called = 0
                        /\ pages'[p].called <= 1 + pages'[p].failed
                        /\ pages'[p].completed < pages'[p].toFirst =>
                             pages'[p].called <= pages'[p].failed
    BY <1>3 DEF PagesCalled, SamePages
  <2>2. /\ pages[p].add = "count" => pages[p].called = 0
        /\ pages[p].called <= 1 + pages[p].failed
        /\ pages[p].completed < pages[p].toFirst => pages[p].called <= pages[p].failed
    BY DEF ListInv, PagesCalled
  <2>3. CASE pages'[p] = pages[p]
    BY <2>2, <2>3
  <2>4. CASE Counts(p, call, failed)
    <3>1. /\ pages[p].completed \in Nat /\ pages[p].called \in Nat /\ pages[p].failed \in Nat
          /\ pages[p].toFirst \in Nat
      BY PageFields
    <3>2. pages'[p].add # "count"
      BY <1>2, <1>3, <2>4 DEF Counts
    <3>3. /\ pages'[p].completed = pages[p].completed + 1
          /\ pages'[p].failed = pages[p].failed + failed
          /\ pages'[p].called = pages[p].called + failed
               + (IF pages[p].completed + 1 = pages[p].toFirst THEN 1 ELSE 0)
          /\ pages'[p].toFirst = pages[p].toFirst
      BY <1>3, <2>4 DEF Counts
    <3>4. CASE pages[p].completed + 1 = pages[p].toFirst
      BY <2>2, <3>1, <3>2, <3>3, <3>4
    <3>5. CASE pages[p].completed + 1 # pages[p].toFirst
      BY <2>2, <3>1, <3>2, <3>3, <3>5
    <3>6. QED
      BY <3>4, <3>5
  <2>5. QED
    BY <1>3, <2>3, <2>4
<1>5. fails' \in 0..MaxFails /\ shown' \subseteq Entries
  BY <1>1, ListAssumption DEF TypeOK
<1>6. \A p \in DOMAIN pages : Window(p)' = Window(p)
  BY <1>3, WindowsAre
<1>7. \A other : Live(other) => Live(other)'
  BY <1>3, CallsStayLive
<1>8. e \in shown' <=> call.act = "add"
  BY <1>1
<1>9. \A f : f # e => (f \in shown' <=> f \in shown)
  BY <1>1
<1>10. QED
  BY <1>3, <1>4, <1>5, <1>6, <1>7, <1>8, <1>9

(* The next report is taken off; the others move up.                       *)
LEMMA TailEvents ==
  ASSUME TypeOK, events # <<>>, events' = Tail(events)
  PROVE  /\ 1 \in DOMAIN events /\ events' \in Seq(Calls(Len(pages)))
         /\ events[1] \in Calls(Len(pages))
         /\ \A i \in DOMAIN events' : /\ i \in Nat /\ i + 1 \in DOMAIN events
                                      /\ events'[i] = events[i + 1]
         /\ \A i \in DOMAIN events : /\ i \in Nat /\ i >= 1
                                     /\ i # 1 => /\ i - 1 \in DOMAIN events'
                                                 /\ events'[i - 1] = events[i]
<1>1. events \in Seq(Calls(Len(pages)))
  BY DEF TypeOK, Calls
<1>2. /\ 1 \in DOMAIN events /\ events' \in Seq(Calls(Len(pages)))
      /\ \A i \in DOMAIN events' : i + 1 \in DOMAIN events /\ events'[i] = events[i + 1]
      /\ \A i \in DOMAIN events : i = 1 \/ (i - 1 \in DOMAIN events' /\ events'[i - 1] = events[i])
  BY <1>1, TailPositions
<1>3. events[1] \in Calls(Len(pages)) /\ \A i \in DOMAIN events : i \in Nat /\ i >= 1
  BY <1>1, <1>2
<1>4. \A i \in DOMAIN events' : i \in Nat
  BY <1>2
<1>5. QED
  BY <1>2, <1>3, <1>4

(* The order of additions and removals is kept when a report is taken off, *)
(* if what it says is done.                                                *)
LEMMA TakeKeeps ==
  ASSUME TypeOK, ListInv, events # <<>>, events' = Tail(events),
         UNCHANGED <<list, unobserved>>, SamePages,
         \A p \in DOMAIN pages : Window(p)' = Window(p),
         \A f \in Entries : f # events[1].entry =>
           /\ f \in shown' <=> f \in shown
           /\ f \in contrary' <=> f \in contrary
           /\ object'[f] = object[f],
         events[1].act = "remove" => events[1].entry \notin shown',
         events[1].act = "add" =>
           events[1].entry \in shown' \/ object'[events[1].entry] = "waiting"
  PROVE  DropsFollow' /\ WindowsFill'
<1> DEFINE x == events[1]
<1>1. /\ 1 \in DOMAIN events /\ x \in Calls(Len(pages))
      /\ \A i \in DOMAIN events' : /\ i \in Nat /\ i + 1 \in DOMAIN events
                                   /\ events'[i] = events[i + 1]
      /\ \A i \in DOMAIN events : /\ i \in Nat /\ i >= 1
                                  /\ i # 1 => /\ i - 1 \in DOMAIN events'
                                              /\ events'[i - 1] = events[i]
  BY TailEvents
<1>2. /\ x.act \in {"add", "remove"} /\ x.entry \in Entries
  BY <1>1 DEF Calls, Acts
<1>3. \A f, i : i \in DOMAIN events' =>
        /\ Adds(i, f)' <=> Adds(i + 1, f)
        /\ Drops(i, f)' <=> Drops(i + 1, f)
  BY <1>1 DEF Adds, Drops
<1>4. \A f, i : i \in DOMAIN events /\ i # 1 =>
        /\ i - 1 \in DOMAIN events'
        /\ Adds(i, f) => Adds(i - 1, f)'
        /\ Drops(i, f) => Drops(i - 1, f)'
  BY <1>1 DEF Adds, Drops
<1>5. \A f : /\ Adds(1, f) <=> x.act = "add" /\ f = x.entry
             /\ Drops(1, f) <=> x.act = "remove" /\ f = x.entry
  BY DEF Adds, Drops
<1> HIDE DEF x
<1>6. DropsFollow'
  <2>1. SUFFICES ASSUME NEW e \in Entries, e \notin list, e \notin unobserved
                 PROVE  /\ \A i \in DOMAIN events' : Adds(i, e)' =>
                             \E j \in DOMAIN events' : j > i /\ Drops(j, e)'
                        /\ e \in shown' => e \in contrary' \/ \E j \in DOMAIN events' : Drops(j, e)'
    BY DEF DropsFollow
  <2>2. /\ \A i \in DOMAIN events : Adds(i, e) => \E j \in DOMAIN events : j > i /\ Drops(j, e)
        /\ e \in shown => e \in contrary \/ \E j \in DOMAIN events : Drops(j, e)
    BY <2>1 DEF ListInv, DropsFollow
  <2>3. ASSUME NEW i \in DOMAIN events', Adds(i, e)'
        PROVE  \E j \in DOMAIN events' : j > i /\ Drops(j, e)'
    <3>1. PICK j \in DOMAIN events : j > i + 1 /\ Drops(j, e)
      BY <1>1, <1>3, <2>2, <2>3
    <3>2. j # 1 /\ j - 1 > i
      BY <1>1, <3>1
    <3>3. QED
      BY <1>4, <3>1, <3>2
  <2>4. ASSUME e \in shown'
        PROVE  e \in contrary' \/ \E j \in DOMAIN events' : Drops(j, e)'
    <3>1. CASE e # x.entry
      <4>1. e \in contrary' \/ \E j \in DOMAIN events : Drops(j, e)
        BY <2>2, <2>4, <3>1 DEF x
      <4>2. QED
        BY <1>4, <1>5, <3>1, <4>1
    <3>2. CASE e = x.entry
      <4>1. Adds(1, e)
        BY <1>2, <1>5, <2>4, <3>2 DEF x
      <4>2. PICK j \in DOMAIN events : j > 1 /\ Drops(j, e)
        BY <1>1, <2>2, <4>1
      <4>3. j # 1
        BY <1>1, <4>2
      <4>4. QED
        BY <1>4, <4>2, <4>3
    <3>3. QED
      BY <3>1, <3>2
  <2>5. QED
    BY <2>3, <2>4
<1>7. WindowsFill'
  <2>1. SUFFICES ASSUME NEW p \in DOMAIN pages, NEW e \in Window(p)
                 PROVE  Awaited(e)' \/ Landed(e)'
    BY DEF WindowsFill, SamePages
  <2>2. e \in Entries
    BY <2>1 DEF Window, First, TypeOK
  <2>3. CASE Awaited(e)
    <3>1. PICK i \in DOMAIN events :
            Adds(i, e) /\ \A j \in DOMAIN events : Drops(j, e) => j < i
      BY <2>3 DEF Awaited
    <3>2. CASE i # 1
      <4>1. i - 1 \in DOMAIN events' /\ Adds(i - 1, e)'
        BY <1>4, <3>1, <3>2
      <4>2. ASSUME NEW j \in DOMAIN events', Drops(j, e)' PROVE j < i - 1
        <5>1. j + 1 \in DOMAIN events /\ Drops(j + 1, e) /\ j \in Nat /\ i \in Nat
          BY <1>1, <1>3, <4>2
        <5>2. j + 1 < i
          BY <3>1, <5>1
        <5>3. QED
          BY <5>1, <5>2
      <4>3. QED
        BY <4>1, <4>2 DEF Awaited
    <3>3. CASE i = 1
      <4>1. x.act = "add" /\ e = x.entry
        BY <1>5, <3>1, <3>3
      <4>2. ASSUME NEW j \in DOMAIN events, Drops(j, e) PROVE FALSE
        <5>1. j < i
          BY <3>1, <4>2
        <5>2. j \in Nat /\ j >= 1
          BY <1>1
        <5>3. QED
          BY <3>3, <5>1, <5>2
      <4>3. \A j \in DOMAIN events' : ~Drops(j, e)'
        BY <1>1, <1>3, <4>2
      <4>4. e \in shown' \/ object'[e] = "waiting"
        BY <4>1 DEF x
      <4>5. QED
        BY <4>3, <4>4 DEF Landed
    <3>4. QED
      BY <3>2, <3>3
  <2>4. CASE Landed(e)
    <3>1. /\ \A j \in DOMAIN events : ~Drops(j, e)
          /\ e \in shown \union contrary \/ object[e] \in {"waiting", "dead"}
      BY <2>4 DEF Landed
    <3>2. \A j \in DOMAIN events' : ~Drops(j, e)'
      BY <1>1, <1>3, <3>1
    <3>3. e \in shown' \union contrary' \/ object'[e] \in {"waiting", "dead"}
      <4>1. CASE e = x.entry
        <5>1. x.act = "add"
          BY <1>1, <1>2, <1>5, <3>1, <4>1
        <5>2. QED
          BY <4>1, <5>1 DEF x
      <4>2. CASE e # x.entry
        BY <2>2, <3>1, <4>2 DEF x
      <4>3. QED
        BY <4>1, <4>2
    <3>4. QED
      BY <3>2, <3>3 DEF Landed
  <2>5. QED
    BY <2>1, <2>3, <2>4 DEF ListInv, WindowsFill
<1>8. QED
  BY <1>6, <1>7

LEMMA InitiateKeeps ==
  ASSUME TypeOK, ListInv, Initiate
  PROVE  TypeOK' /\ ListInv'
<1> DEFINE x == events[1]
           call == [act |-> x.act, page |-> x.page]
           e == x.entry
<1>1. /\ events # <<>> /\ events' = Tail(events)
      /\ UNCHANGED <<list, taps, changes, edits, unobserved, dropped>>
  BY DEF Initiate
<1>2. /\ 1 \in DOMAIN events /\ events' \in Seq(Calls(Len(pages))) /\ x \in Calls(Len(pages))
      /\ \A i \in DOMAIN events' : i + 1 \in DOMAIN events /\ events'[i] = events[i + 1]
  BY <1>1, TailEvents
<1>3. e \in Entries /\ x.act \in {"add", "remove"} /\ x.page \in 1..Len(pages)
  BY <1>2 DEF Calls, Acts
<1>4. Live(x) /\ \A i \in DOMAIN events' : Live(events'[i])
  BY <1>2 DEF ListInv, CallsLive
<1>5. /\ call.act = x.act /\ call.page = x.page
      /\ call \in [act : Acts \union {"none"}, page : 0..Len(pages)]
      /\ call # Elsewhere
  <2>1. Len(pages) \in Nat
    BY DEF TypeOK
  <2>2. QED
    BY <1>3, <2>1 DEF Acts, Elsewhere
<1>6. Live(call)
  BY <1>4, <1>5 DEF Live
<1>7. CASE object[e] = "none"
  <2>1. /\ object' = [object EXCEPT ![e] = "waiting"]
        /\ made' = [made EXCEPT ![e] = call]
        /\ UNCHANGED <<shown, pages, fails, contrary>>
    BY <1>7 DEF Initiate
  <2> HIDE DEF call, e, x
  <2>2. /\ object' \in [Entries -> {"none", "waiting", "ready", "dead"}]
        /\ made' \in [Entries -> [act : Acts \union {"none"}, page : 0..Len(pages)]]
        /\ \A f \in Entries : /\ object'[f] = IF f = e THEN "waiting" ELSE object[f]
                              /\ made'[f] = IF f = e THEN call ELSE made[f]
    BY <1>3, <1>5, <2>1 DEF TypeOK
  <2>3. TypeOK'
    BY <1>1, <1>2, <2>1, <2>2 DEF TypeOK, Calls
  <2>4. SamePages /\ (\A p \in DOMAIN pages : Window(p)' = Window(p))
        /\ \A other : Live(other)' <=> Live(other)
    BY <1>1, <2>1 DEF SamePages, TypeOK, Window, First, Live
  <2>5. CallsLive'
    BY <1>4, <1>6, <2>1, <2>2, <2>4 DEF ListInv, CallsLive
  <2>6. PagesCalled' /\ ObjectsMade'
    BY <1>5, <1>7, <2>1, <2>2 DEF ListInv, PagesCalled, ObjectsMade
  <2>7. e \notin shown
    BY <1>3, <1>7 DEF ListInv, ObjectsMade
  <2>8. DropsFollow' /\ WindowsFill'
    <3>1. \A f \in Entries : f # x.entry =>
            /\ f \in shown' <=> f \in shown
            /\ f \in contrary' <=> f \in contrary
            /\ object'[f] = object[f]
      BY <2>1, <2>2 DEF e
    <3>2. x.entry \notin shown' /\ object'[x.entry] = "waiting"
      BY <1>3, <2>1, <2>2, <2>7 DEF e
    <3>3. QED
      BY <1>1, <2>4, <3>1, <3>2, TakeKeeps DEF x
  <2>9. QED
    BY <2>3, <2>5, <2>6, <2>8 DEF ListInv
<1>8. CASE object[e] # "none"
  <2>1. Edited(call, e) /\ contrary' = contrary \ {e} /\ UNCHANGED <<object, made>>
    BY <1>8 DEF Initiate
  <2> HIDE DEF call, e, x
  <2>2. /\ SamePages /\ PagesCalled'
        /\ shown' \subseteq Entries /\ fails' \in 0..MaxFails
        /\ e \in shown' <=> call.act = "add"
        /\ \A f : f # e => (f \in shown' <=> f \in shown)
        /\ \A other : Live(other) => Live(other)'
        /\ \A p \in DOMAIN pages : Window(p)' = Window(p)
    BY <1>1, <1>3, <1>6, <2>1, EditedEffect
  <2>3. TypeOK'
    BY <1>1, <1>2, <2>1, <2>2 DEF TypeOK, Calls, SamePages
  <2>4. CallsLive'
    BY <1>4, <2>1, <2>2 DEF ListInv, CallsLive
  <2>5. ObjectsMade'
    BY <1>8, <2>1, <2>2 DEF ListInv, ObjectsMade
  <2>6. DropsFollow' /\ WindowsFill'
    <3>1. \A f \in Entries : f # x.entry =>
            /\ f \in shown' <=> f \in shown
            /\ f \in contrary' <=> f \in contrary
            /\ object'[f] = object[f]
      BY <2>1, <2>2 DEF e
    <3>2. /\ x.act = "remove" => x.entry \notin shown'
          /\ x.act = "add" => x.entry \in shown'
      BY <1>5, <2>2 DEF e
    <3>3. QED
      BY <1>1, <2>2, <3>1, <3>2, TakeKeeps DEF x
  <2>7. QED
    BY <2>2, <2>3, <2>4, <2>5, <2>6 DEF ListInv
<1>9. QED
  BY <1>7, <1>8

(* A completion that a profile runs late.                                  *)
LEMMA ReplayKeeps ==
  ASSUME TypeOK, ListInv, NEW e \in Entries, made[e] # Elsewhere, Replay(e),
         edits' \in 0..MaxEdits,
         object' \in [Entries -> {"none", "waiting", "ready", "dead"}],
         object[e] # "none", object'[e] = "ready",
         \A f \in Entries : f # e => object'[f] = object[f]
  PROVE  TypeOK' /\ ListInv'
<1>1. /\ Edited(made[e], e)
      /\ contrary' = IF (made[e].act = "add") = (e \in list) THEN contrary \ {e}
                                                             ELSE contrary \union {e}
      /\ UNCHANGED <<list, made, events, taps, changes, unobserved, dropped>>
  BY DEF Replay
<1>2. Live(made[e])
  BY DEF ListInv, CallsLive
<1>3. /\ SamePages /\ PagesCalled'
      /\ shown' \subseteq Entries /\ fails' \in 0..MaxFails
      /\ e \in shown' <=> made[e].act = "add"
      /\ \A f : f # e => (f \in shown' <=> f \in shown)
      /\ \A other : Live(other) => Live(other)'
      /\ \A p \in DOMAIN pages : Window(p)' = Window(p)
  <2>1. list' = list
    BY <1>1
  <2>2. QED
    BY <1>1, <1>2, <2>1, EditedEffect
<1>4. /\ \A f \in Entries : f # e => (f \in contrary' <=> f \in contrary)
      /\ e \in contrary' <=> ~((made[e].act = "add") <=> (e \in list))
      /\ contrary' \subseteq Entries
  <2>1. CASE (made[e].act = "add") <=> (e \in list)
    <3>1. contrary' = contrary \ {e}
      BY <1>1, <2>1
    <3>2. QED
      BY <2>1, <3>1 DEF TypeOK
  <2>2. CASE ~((made[e].act = "add") <=> (e \in list))
    <3>1. contrary' = contrary \union {e}
      BY <1>1, <2>2
    <3>2. QED
      BY <2>2, <3>1 DEF TypeOK
  <2>3. QED
    BY <2>1, <2>2
<1>5. TypeOK'
  BY <1>1, <1>3, <1>4 DEF TypeOK, SamePages, Calls
<1>6. CallsLive'
  BY <1>1, <1>3 DEF ListInv, CallsLive
<1>7. ObjectsMade'
  BY <1>1, <1>3 DEF ListInv, ObjectsMade
<1>8. \A f, i : /\ Adds(i, f)' <=> Adds(i, f)
                /\ Drops(i, f)' <=> Drops(i, f)
  BY <1>1 DEF Adds, Drops
<1>9. DropsFollow'
  <2>1. SUFFICES ASSUME NEW f \in Entries, f \notin list, f \notin unobserved
                 PROVE  /\ \A i \in DOMAIN events : Adds(i, f) =>
                             \E j \in DOMAIN events : j > i /\ Drops(j, f)
                        /\ f \in shown' => f \in contrary' \/ \E j \in DOMAIN events : Drops(j, f)
    BY <1>1, <1>8 DEF DropsFollow
  <2>2. /\ \A i \in DOMAIN events : Adds(i, f) => \E j \in DOMAIN events : j > i /\ Drops(j, f)
        /\ f \in shown => f \in contrary \/ \E j \in DOMAIN events : Drops(j, f)
    BY <2>1 DEF ListInv, DropsFollow
  <2>3. CASE f = e
    BY <1>3, <1>4, <2>1, <2>2, <2>3
  <2>4. CASE f # e
    BY <1>3, <1>4, <2>2, <2>4
  <2>5. QED
    BY <2>3, <2>4
<1>10. WindowsFill'
  <2>1. SUFFICES ASSUME NEW p \in DOMAIN pages, NEW f \in Window(p)
                 PROVE  Awaited(f)' \/ Landed(f)'
    BY <1>3 DEF WindowsFill, SamePages
  <2>2. f \in Entries /\ f \in list
    BY <2>1 DEF Window, First, TypeOK
  <2>3. CASE Awaited(f)
    BY <1>1, <1>8, <2>3 DEF Awaited
  <2>4. CASE Landed(f)
    <3>1. /\ \A j \in DOMAIN events : ~Drops(j, f)
          /\ f \in shown \union contrary \/ object[f] \in {"waiting", "dead"}
      BY <2>4 DEF Landed
    <3>2. f \in shown' \union contrary' \/ object'[f] \in {"waiting", "dead"}
      <4>1. CASE f = e
        BY <1>3, <1>4, <2>2, <4>1
      <4>2. CASE f # e
        BY <1>3, <1>4, <2>2, <3>1, <4>2
      <4>3. QED
        BY <4>1, <4>2
    <3>3. QED
      BY <1>1, <1>8, <3>1, <3>2 DEF Landed
  <2>5. QED
    BY <2>1, <2>3, <2>4 DEF ListInv, WindowsFill
<1>11. QED
  BY <1>3, <1>5, <1>6, <1>7, <1>9, <1>10 DEF ListInv

LEMMA ProfilesKeep ==
  ASSUME TypeOK, ListInv, NEW e \in Entries, CoreArrives(e) \/ EditProfile(e)
  PROVE  TypeOK' /\ ListInv'
<1>1. CASE CoreArrives(e)
  <2>1. /\ object[e] = "waiting" /\ object' = [object EXCEPT ![e] = "ready"]
        /\ Replay(e) /\ edits' = edits
    BY <1>1 DEF CoreArrives
  <2>2. made[e] # Elsewhere
    BY <2>1 DEF ListInv, ObjectsMade
  <2>3. /\ object' \in [Entries -> {"none", "waiting", "ready", "dead"}]
        /\ object'[e] = "ready" /\ \A f \in Entries : f # e => object'[f] = object[f]
    BY <2>1 DEF TypeOK
  <2>4. edits' \in 0..MaxEdits
    BY <2>1 DEF TypeOK
  <2>5. QED
    BY <2>1, <2>2, <2>3, <2>4, ReplayKeeps
<1>2. CASE EditProfile(e)
  <2>1. /\ object[e] = "ready" /\ object' = object /\ made[e] # Elsewhere /\ Replay(e)
        /\ edits > 0 /\ edits' = edits - 1
    BY <1>2 DEF EditProfile
  <2>2. edits' \in 0..MaxEdits
    BY <2>1, ListAssumption DEF TypeOK
  <2>3. object' \in [Entries -> {"none", "waiting", "ready", "dead"}]
    BY <2>1 DEF TypeOK
  <2>4. QED
    BY <2>1, <2>2, <2>3, ReplayKeeps
<1>3. QED
  BY <1>1, <1>2

LEMMA CancelKeeps ==
  ASSUME TypeOK, ListInv, NEW e \in Entries, CoreCancelled(e)
  PROVE  TypeOK' /\ ListInv'
<1>1. /\ object[e] = "waiting" /\ object' = [object EXCEPT ![e] = "dead"]
      /\ fails' \in 0..MaxFails
      /\ UNCHANGED <<list, made, shown, pages, events, taps, changes, edits, unobserved, contrary,
                     dropped>>
  BY ListAssumption DEF CoreCancelled, TypeOK, ghosts
<1>2. /\ object' \in [Entries -> {"none", "waiting", "ready", "dead"}]
      /\ \A f \in Entries : object'[f] = IF f = e THEN "dead" ELSE object[f]
  BY <1>1 DEF TypeOK
<1>3. TypeOK'
  BY <1>1, <1>2 DEF TypeOK
<1>4. CallsLive' /\ PagesCalled' /\ DropsFollow'
  BY <1>1 DEF ListInv, CallsLive, Live, PagesCalled, DropsFollow, Adds, Drops
<1>5. ObjectsMade'
  BY <1>1, <1>2 DEF ListInv, ObjectsMade
<1>6. WindowsFill'
  <2>1. SUFFICES ASSUME NEW p \in DOMAIN pages, NEW f \in Window(p)
                 PROVE  Awaited(f)' \/ Landed(f)'
    BY <1>1 DEF WindowsFill, Window, First
  <2>2. f \in Entries
    BY <2>1 DEF Window, First, TypeOK
  <2>3. CASE Awaited(f)
    BY <1>1, <2>3 DEF Awaited, Adds, Drops
  <2>4. CASE Landed(f)
    BY <1>1, <1>2, <2>2, <2>4 DEF Landed, Drops
  <2>5. QED
    BY <2>1, <2>3, <2>4 DEF ListInv, WindowsFill
<1>7. QED
  BY <1>3, <1>4, <1>5, <1>6 DEF ListInv
-----------------------------------------------------------------------------
(* The theorems.                                                           *)

(* The inductive invariant holds in every state of the specification.      *)
THEOREM ListInvariant == Spec => [](TypeOK /\ ListInv)
<1>1. Init => TypeOK /\ ListInv
  <2>1. SUFFICES ASSUME Init PROVE TypeOK /\ ListInv
    OBVIOUS
  <2>2. /\ list \subseteq Entries /\ object \in [Entries -> {"none", "ready"}]
        /\ made = [e \in Entries |-> Elsewhere] /\ shown = {} /\ pages = <<>> /\ events = <<>>
        /\ taps = MaxTaps /\ changes = MaxChanges /\ edits = MaxEdits /\ fails = MaxFails
        /\ unobserved = {} /\ contrary = {} /\ dropped = FALSE
    BY <2>1 DEF Init
  <2>3. Elsewhere \in [act : Acts \union {"none"}, page : 0..Len(pages)]
    BY <2>2 DEF Elsewhere
  <2>4. TypeOK
    <3>1. made \in [Entries -> [act : Acts \union {"none"}, page : 0..Len(pages)]]
      BY <2>2, <2>3
    <3>2. object \in [Entries -> {"none", "waiting", "ready", "dead"}]
      BY <2>2
    <3>3. /\ pages \in Seq(Pages)
          /\ events \in Seq([act : Acts, page : 1..Len(pages), entry : Entries])
      BY <2>2
    <3>4. /\ taps \in 0..MaxTaps /\ changes \in 0..MaxChanges
          /\ edits \in 0..MaxEdits /\ fails \in 0..MaxFails
      BY <2>2, ListAssumption
    <3>5. QED
      BY <2>2, <3>1, <3>2, <3>3, <3>4 DEF TypeOK
  <2>5. DOMAIN pages = {} /\ DOMAIN events = {} /\ \A e \in Entries : made[e] = Elsewhere
    BY <2>2
  <2>6. \A e \in Entries : object[e] # "waiting" /\ e \notin shown
    BY <2>2
  <2>7. ListInv
    BY <2>5, <2>6 DEF ListInv, CallsLive, PagesCalled, ObjectsMade, DropsFollow, WindowsFill
  <2>8. QED
    BY <2>4, <2>7
<1>2. TypeOK /\ ListInv /\ [Next]_vars => (TypeOK /\ ListInv)'
  <2>1. SUFFICES ASSUME TypeOK, ListInv, [Next]_vars PROVE TypeOK' /\ ListInv'
    OBVIOUS
  <2>2. CASE Open \/ LoadMore
    BY <2>1, <2>2, TapsKeep
  <2>3. CASE Initiate
    BY <2>1, <2>3, InitiateKeeps
  <2>4. ASSUME NEW p \in DOMAIN pages, NEW act \in Acts, Count(p, act) \/ Register(p, act)
        PROVE  TypeOK' /\ ListInv'
    BY <2>1, <2>4, CountKeeps, RegisterKeeps
  <2>5. ASSUME NEW e \in Entries, Put(e) \/ Drop(e)
        PROVE  TypeOK' /\ ListInv'
    BY <2>1, <2>5, PutKeeps, DropKeeps
  <2>6. ASSUME NEW e \in Entries, CoreArrives(e) \/ EditProfile(e) \/ CoreCancelled(e)
        PROVE  TypeOK' /\ ListInv'
    BY <2>1, <2>6, ProfilesKeep, CancelKeeps
  <2>7. CASE UNCHANGED vars
    <3>1. UNCHANGED <<list, object, made, shown, pages, events, taps, changes, edits, fails,
                      unobserved, contrary, dropped>>
      BY <2>7 DEF vars
    <3>2. TypeOK'
      BY <2>1, <3>1 DEF TypeOK
    <3>3. CallsLive' /\ PagesCalled' /\ ObjectsMade' /\ DropsFollow'
      BY <2>1, <3>1 DEF ListInv, CallsLive, Live, PagesCalled, ObjectsMade, DropsFollow, Adds, Drops
    <3>4. WindowsFill'
      BY <2>1, <3>1 DEF ListInv, WindowsFill, Window, First, Awaited, Landed, Adds, Drops
    <3>5. QED
      BY <3>2, <3>3, <3>4 DEF ListInv
  <2>8. QED
    BY <2>1, <2>2, <2>3, <2>4, <2>5, <2>6, <2>7 DEF Next
<1>3. QED
  BY <1>1, <1>2, PTL DEF Spec

(* Every variable has its type, in every state of the specification.       *)
THEOREM ListTyped == Spec => []TypeOK
<1>1. TypeOK /\ ListInv => TypeOK
  OBVIOUS
<1>2. QED
  BY <1>1, ListInvariant, PTL

(* Whatever the list and the profiles do while a tap is answered, and      *)
(* however many saves fail, the caller is told at most once more than      *)
(* there are failed saves of that tap: the completions of                  *)
(* UserStructure.observe push no list twice for one tap.                   *)
THEOREM TapsPushOnce == Spec => []OnePagePerTap
<1>1. TypeOK /\ ListInv => OnePagePerTap
  BY DEF ListInv, PagesCalled, OnePagePerTap
<1>2. QED
  BY <1>1, ListInvariant, PTL

(* When nothing is left to report, a row of a user who is not listed is    *)
(* one dropped while no removal was observed, or one that the completion   *)
(* its object was made with has put back.                                  *)
THEOREM StaleRowsHaveAReason == Spec => []StaleExplained
<1>1. TypeOK /\ ListInv => StaleExplained
  <2>1. SUFFICES ASSUME TypeOK, ListInv, events = <<>>, NEW e \in Rows \ list
                 PROVE  e \in unobserved \union contrary
    BY DEF StaleExplained, Quiet
  <2>2. e \in Entries /\ e \in shown /\ e \notin list
    BY <2>1 DEF Rows
  <2>3. DOMAIN events = {}
    BY <2>1
  <2>4. QED
    BY <2>1, <2>2, <2>3 DEF ListInv, DropsFollow
<1>2. QED
  BY <1>1, ListInvariant, PTL

(* When nothing is left to report, whoever is among the first entries an   *)
(* observer of additions asked for, and whose profile is there, is shown,  *)
(* but for a completion that took him out late.                            *)
THEOREM WindowsAreShown == Spec => []WindowShown
<1>1. TypeOK /\ ListInv => WindowShown
  <2>1. SUFFICES ASSUME TypeOK, ListInv, events = <<>>, NEW p \in DOMAIN pages, NEW e \in Entries,
                        e \in Window(p), object[e] = "ready"
                 PROVE  e \in shown \union contrary
    BY DEF WindowShown, Quiet
  <2>2. DOMAIN events = {}
    BY <2>1
  <2>3. Landed(e)
    BY <2>1, <2>2 DEF ListInv, WindowsFill, Awaited
  <2>4. QED
    BY <2>1, <2>3 DEF Landed
<1>2. QED
  BY <1>1, ListInvariant, PTL
=============================================================================
