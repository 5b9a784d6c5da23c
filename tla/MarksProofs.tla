----------------------------- MODULE MarksProofs -----------------------------
(***************************************************************************)
(* Theorems about Marks, for every set of slots and every value of the     *)
(* bounds: type correctness, that no mark is left unexplained, and that    *)
(* buttons at rest agree with the marks.                                   *)
(***************************************************************************)
EXTENDS Marks, BackendTheorems

-----------------------------------------------------------------------------
(* What an operation in flight can be: its kind goes with its button and   *)
(* its step.                                                               *)
OpsFit ==
  \A s \in Slots :
    LET op == slot[s]
    IN /\ op.kind = "free" <=> op.step = "idle"
       /\ op.kind = "getState" <=> op.step = "read"
       /\ op.step = "feed" => op.kind = "share"
       /\ op.kind \in {"share", "removeShare"} => op.button = "share"
       /\ op.kind \in {"bookmark", "removeBookmark"} => op.button = "bookmark"

(* The pairs of writes that end an operation: one that tells of it, and    *)
(* the edit of its mark.                                                   *)
Ending(op) ==
  CASE op.step = "feed" -> <<SetValue(FeedItem), SetValue(Mark("share"))>>
    [] op.kind = "bookmark" -> <<SetValue(Journal("bookmark")), SetValue(Mark("bookmark"))>>
    [] OTHER -> <<SetValue(Journal(op.kind)), RemoveValue(Mark(op.button))>>

(* An operation that succeeds.                                             *)
Ends(s) ==
  /\ slot[s].kind \in Acts
  /\ slot[s].kind = "share" => slot[s].step = "feed"
  /\ Issue(Ending(slot[s]))
  /\ EndShowing(s, After(slot[s]))
  /\ UNCHANGED <<visit, taps, crashes, strained>>

(* The operations and the answers of Next, with the endings as one.        *)
LEMMA Endings ==
  ASSUME TypeOK, OpsFit, NEW s \in Slots
  PROVE  Share(s) \/ Bookmark(s) \/ RemoveMark(s) => Ends(s)
<1>1. slot[s] \in Op
  BY DEF TypeOK
<1>2. CASE Share(s)
  <2>1. slot[s].step = "feed" /\ slot[s].kind = "share" /\ slot[s].button = "share"
    BY <1>2 DEF Share, OpsFit
  <2>2. After(slot[s]) = "Shared" /\ slot[s].kind \in Acts
    BY <2>1 DEF After, Adds, On, Acts
  <2>3. QED
    BY <1>2, <2>1, <2>2 DEF Share, Ends, Ending
<1>3. CASE Bookmark(s)
  <2>1. slot[s].step = "journal" /\ slot[s].kind = "bookmark" /\ slot[s].button = "bookmark"
    BY <1>3 DEF Bookmark, OpsFit
  <2>2. After(slot[s]) = "Bookmarked" /\ slot[s].kind \in Acts
    BY <2>1 DEF After, Adds, On, Acts
  <2>3. QED
    BY <1>3, <2>1, <2>2 DEF Bookmark, Ends, Ending
<1>4. CASE RemoveMark(s)
  <2>1. slot[s].step = "journal" /\ slot[s].kind \in {"removeShare", "removeBookmark"}
    BY <1>4 DEF RemoveMark
  <2>2. Ending(slot[s]) = <<SetValue(Journal(slot[s].kind)), RemoveValue(Mark(slot[s].button))>>
    BY <2>1 DEF Ending
  <2>3. QED
    BY <1>4, <2>1, <2>2 DEF RemoveMark, Ends, Acts
<1>5. QED
  BY <1>2, <1>3, <1>4

LEMMA EndingTyped ==
  ASSUME TypeOK, NEW s \in Slots, slot[s].kind \in Acts
  PROVE  \E v, w \in Writes(Path) : Ending(slot[s]) = <<v, w>>
<1>1. slot[s].button \in Relations
  BY DEF TypeOK, Op
<1>2. /\ \A a \in Acts : SetValue(Journal(a)) \in Writes(Path)
      /\ SetValue(FeedItem) \in Writes(Path)
      /\ \A r \in Relations : /\ SetValue(Mark(r)) \in Writes(Path)
                              /\ RemoveValue(Mark(r)) \in Writes(Path)
  BY DEF SetValue, RemoveValue, Writes, Path
<1>3. "share" \in Relations /\ "bookmark" \in Relations /\ "bookmark" \in Acts
  BY DEF Relations, Acts
<1>4. QED
  BY <1>1, <1>2, <1>3 DEF Ending

-----------------------------------------------------------------------------
(* Type correctness.                                                       *)

Typed == TypeOK /\ OpsFit

LEMMA EndShowingTyped ==
  ASSUME Typed, NEW s \in Slots, NEW t \in Titles, EndShowing(s, t)
  PROVE  /\ slot' \in [Slots -> Op] /\ title' \in [Relations -> Titles] /\ OpsFit'
<1>1. Free \in Op
  BY MarksAssumption DEF Free, Op, Relations
<1>2. slot' \in [Slots -> Op] /\ title' \in [Relations -> Titles]
  BY <1>1 DEF EndShowing, Typed, TypeOK, Op
<1>3. \A x \in Slots : slot'[x] = IF x = s THEN Free ELSE slot[x]
  BY DEF EndShowing, Typed, TypeOK
<1>4. QED
  BY <1>2, <1>3 DEF OpsFit, Typed, Free

LEMMA StartTyped ==
  ASSUME Typed, NEW r \in Relations, NEW s \in Slots,
         NEW kind \in Acts \union {"getState"}, NEW step \in {"journal", "read"},
         Start(r, s, kind, step),
         kind = "getState" <=> step = "read",
         kind \in {"share", "removeShare"} => r = "share",
         kind \in {"bookmark", "removeBookmark"} => r = "bookmark"
  PROVE  /\ slot' \in [Slots -> Op] /\ OpsFit'
         /\ taps' \in 0..MaxTaps /\ strained' \subseteq Relations
<1> DEFINE op == [kind |-> kind, button |-> r, visit |-> visit, step |-> step]
<1>1. op \in Op
  BY DEF Op, Typed, TypeOK
<1>2. slot' \in [Slots -> Op]
  BY <1>1 DEF Start, Typed, TypeOK
<1>3. \A x \in Slots : slot'[x] = IF x = s THEN op ELSE slot[x]
  BY DEF Start, Typed, TypeOK
<1>4. op.kind = kind /\ op.step = step /\ op.button = r /\ kind # "free" /\ step # "idle"
  BY DEF Acts
<1>5. OpsFit'
  BY <1>2, <1>3, <1>4 DEF OpsFit, Typed
<1>6. taps' \in 0..MaxTaps
  BY MarksAssumption DEF Start, Typed, TypeOK
<1>7. QED
  BY <1>2, <1>5, <1>6 DEF Start, Typed, TypeOK

LEMMA TypedStep ==
  ASSUME Typed, [Next]_vars
  PROVE  Typed'
<1> USE MarksAssumption
<1>0. TypeOK /\ OpsFit
  BY DEF Typed
<1>1. CASE Open
  BY <1>0, <1>1 DEF Open, Typed, TypeOK, OpsFit, Titles
<1>2. ASSUME NEW r \in Relations, Appear(r)
      PROVE  Typed'
  <2>1. StateSeen(r) \in Titles
    BY DEF StateSeen, On, Off, Titles, States
  <2>2. QED
    BY <1>0, <1>2, <2>1 DEF Appear, Typed, TypeOK, OpsFit
<1>3. ASSUME NEW r \in Relations, NEW s \in Slots, Tap(r, s)
      PROVE  Typed'
  <2>1. title' \in [Relations -> Titles]
    BY <1>0, <1>3 DEF Tap, TypeOK, Titles
  <2>2. PICK kind \in {Add(r), Remove(r)} : Start(r, s, kind, "journal")
    BY <1>3 DEF Tap
  <2>3. /\ kind \in Acts
        /\ kind \in {"share", "removeShare"} => r = "share"
        /\ kind \in {"bookmark", "removeBookmark"} => r = "bookmark"
    BY <2>2 DEF Add, Remove, Acts, Relations
  <2>4. kind # "getState"
    BY <2>3 DEF Acts
  <2>5. /\ slot' \in [Slots -> Op] /\ OpsFit'
        /\ taps' \in 0..MaxTaps /\ strained' \subseteq Relations
    BY <2>2, <2>3, <2>4, StartTyped
  <2>6. QED
    BY <1>0, <2>1, <2>2, <2>5 DEF Start, Typed, TypeOK
<1>4. ASSUME NEW r \in Relations, NEW s \in Slots, TapLoading(r, s)
      PROVE  Typed'
  <2>1. "getState" \notin Acts
    BY DEF Acts
  <2>2. Start(r, s, "getState", "read") /\ UNCHANGED title
    BY <1>4 DEF TapLoading
  <2>3. /\ slot' \in [Slots -> Op] /\ OpsFit'
        /\ taps' \in 0..MaxTaps /\ strained' \subseteq Relations
    BY <2>1, <2>2, StartTyped
  <2>4. QED
    BY <1>0, <2>2, <2>3 DEF Start, Typed, TypeOK
<1>5. ASSUME NEW s \in Slots, Reread(s)
      PROVE  Typed'
  <2>1. StateSeen("share") \in Titles /\ EndShowing(s, StateSeen("share"))
    BY <1>5 DEF Reread, StateSeen, On, Off, Titles, States
  <2>2. slot' \in [Slots -> Op] /\ title' \in [Relations -> Titles] /\ OpsFit'
    BY <2>1, EndShowingTyped
  <2>3. QED
    BY <1>0, <1>5, <2>2 DEF Reread, Typed, TypeOK
<1>6. ASSUME NEW s \in Slots, ShareJournaled(s)
      PROVE  Typed'
  <2>1. SetValue(Journal("share")) \in Writes(Path)
    BY DEF SetValue, Writes, Path, Acts
  <2>2. queue' \in Seq(Writes(Path))
    BY <1>0, <1>6, <2>1 DEF ShareJournaled, Issue, TypeOK
  <2>3. slot' \in [Slots -> Op]
    BY <1>0, <1>6 DEF ShareJournaled, TypeOK, Op
  <2>4. \A x \in Slots : slot'[x] = IF x = s THEN [slot[s] EXCEPT !.step = "feed"] ELSE slot[x]
    BY <1>0, <1>6 DEF ShareJournaled, TypeOK
  <2>5. slot[s] \in Op /\ slot[s].kind = "share"
    BY <1>0, <1>6 DEF ShareJournaled, TypeOK
  <2>6. [slot[s] EXCEPT !.step = "feed"].kind = "share"
        /\ [slot[s] EXCEPT !.step = "feed"].step = "feed"
        /\ [slot[s] EXCEPT !.step = "feed"].button = slot[s].button
    BY <2>5 DEF Op
  <2>7. OpsFit'
    BY <1>0, <2>4, <2>5, <2>6 DEF OpsFit
  <2>8. QED
    BY <1>0, <1>6, <2>2, <2>3, <2>7 DEF ShareJournaled, Issue, Typed, TypeOK
<1>7. ASSUME NEW s \in Slots, Ends(s)
      PROVE  Typed'
  <2>1. After(slot[s]) \in Titles
    BY <1>0 DEF After, On, Off, Titles, States
  <2>2. slot' \in [Slots -> Op] /\ title' \in [Relations -> Titles] /\ OpsFit'
    BY <1>7, <2>1, EndShowingTyped DEF Ends
  <2>3. Ending(slot[s]) \in Seq(Writes(Path))
    <3>1. PICK v, w \in Writes(Path) : Ending(slot[s]) = <<v, w>>
      BY <1>0, <1>7, EndingTyped DEF Ends
    <3>2. QED
      BY <3>1
  <2>4. queue' \in Seq(Writes(Path)) /\ UNCHANGED db
    BY <1>0, <1>7, <2>3 DEF Ends, Issue, TypeOK
  <2>5. QED
    BY <1>0, <1>7, <2>2, <2>4 DEF Ends, Typed, TypeOK
<1>8. ASSUME NEW s \in Slots, UpdateFails(s)
      PROVE  Typed'
  <2>1. Before(slot[s]) \in Titles /\ EndShowing(s, Before(slot[s]))
    BY <1>8 DEF UpdateFails, Before, On, Off, Titles, States
  <2>2. slot' \in [Slots -> Op] /\ title' \in [Relations -> Titles] /\ OpsFit'
    BY <2>1, EndShowingTyped
  <2>3. QED
    BY <1>0, <1>8, <2>2 DEF UpdateFails, Typed, TypeOK
<1>9. CASE Deliver
  <2>1. Head(queue) \in Writes(Path) /\ Tail(queue) \in Seq(Writes(Path))
    BY <1>0, <1>9 DEF Deliver, TypeOK
  <2>2. QED
    BY <1>0, <1>9, <2>1 DEF Deliver, Typed, TypeOK, OpsFit, Apply, Writes
<1>10. CASE Crash
  <2>1. Free \in Op /\ Free.kind = "free" /\ Free.step = "idle"
    BY MarksAssumption DEF Free, Op, Relations
  <2>2. QED
    BY <1>0, <1>10, <2>1 DEF Crash, Typed, TypeOK, OpsFit, Titles
<1>11. CASE UNCHANGED vars
  BY <1>0, <1>11 DEF vars, Typed, TypeOK, OpsFit
<1>12. QED
  BY <1>0, <1>1, <1>2, <1>3, <1>4, <1>5, <1>6, <1>7, <1>8, <1>9, <1>10, <1>11, Endings
  DEF Next, Answer

LEMMA TypedInit == Init => Typed
<1>1. Free \in Op /\ Free.kind = "free" /\ Free.step = "idle"
  BY MarksAssumption DEF Free, Op, Relations
<1>2. QED
  BY <1>1, MarksAssumption DEF Init, Typed, TypeOK, OpsFit, Titles

(* Every variable of Marks keeps its type.                                 *)
THEOREM TypeCorrect == Spec => []TypeOK
<1>1. Typed => TypeOK
  BY DEF Typed
<1>2. QED
  BY <1>1, TypedInit, TypedStep, PTL DEF Spec
-----------------------------------------------------------------------------
(* No mark without what tells of it.  p is told by position i of the queue *)
(* when it has arrived or is ahead of i; what tells is never removed.      *)
Tellings == {Journal(a) : a \in Acts} \union {FeedItem}

Told(p, i) == \/ p \in db
              \/ \E j \in DOMAIN queue : j < i /\ queue[j] = SetValue(p)

TellsFirst ==
  \A i \in DOMAIN queue :
    /\ queue[i] = SetValue(Mark("share")) => Told(Journal("share"), i) /\ Told(FeedItem, i)
    /\ queue[i] = SetValue(Mark("bookmark")) => Told(Journal("bookmark"), i)

RemovesMarks == \A i \in DOMAIN queue : queue[i].to \/ queue[i].path \notin Tellings

FeedsJournaled == \A s \in Slots : slot[s].step = "feed" => Told(Journal("share"), Len(queue) + 1)

ExplainedInv == Typed /\ MarksExplained /\ TellsFirst /\ RemovesMarks /\ FeedsJournaled

(* The journal, the feed and the marks are different paths.                *)
LEMMA PathsApart ==
  /\ \A r \in Relations : Mark(r) \notin Tellings
  /\ \A r, q \in Relations : Mark(r) = Mark(q) => r = q
  /\ Journal("share") \in Tellings /\ Journal("bookmark") \in Tellings /\ FeedItem \in Tellings
  BY DEF Tellings, Mark, Journal, FeedItem, Acts

LEMMA ToldAppend ==
  ASSUME TypeOK, NEW ws \in Seq(Writes(Path)), Issue(ws), NEW p,
         NEW i \in 1 .. Len(queue) + 1, Told(p, i), NEW k \in Nat, k >= i
  PROVE  Told(p, k)'
<1>1. CASE p \in db
  BY <1>1 DEF Told, Issue
<1>2. ASSUME NEW j \in DOMAIN queue, j < i, queue[j] = SetValue(p)
      PROVE  Told(p, k)'
  <2>1. queue' = queue \o ws /\ queue \in Seq(Writes(Path))
    BY DEF Issue, TypeOK
  <2>2. j \in DOMAIN queue' /\ queue'[j] = queue[j]
    BY <2>1, <1>2
  <2>3. j < k
    BY <1>2, <2>1
  <2>4. QED
    BY <1>2, <2>2, <2>3 DEF Told, SetValue
<1>3. QED
  BY <1>1, <1>2 DEF Told

(* What has been told stays told when the head of the queue arrives.       *)
LEMMA ToldDeliver ==
  ASSUME TypeOK, RemovesMarks, Deliver, NEW p \in Tellings,
         NEW i \in 2 .. Len(queue) + 1, Told(p, i)
  PROVE  Told(p, i - 1)'
<1>0. queue \in Seq(Writes(Path)) /\ queue # <<>> /\ queue' = Tail(queue)
  BY DEF TypeOK, Deliver
<1>1. /\ Head(queue) = queue[1] /\ 1 \in DOMAIN queue
      /\ \A j \in DOMAIN queue : j = 1 \/ (j - 1 \in DOMAIN queue' /\ queue'[j - 1] = queue[j])
  BY <1>0, TailPositions
<1>2. db' = Apply(db, queue[1])
  BY <1>1 DEF Deliver
<1>3. CASE p \in db
  <2>1. p \in db'
    BY <1>1, <1>2, <1>3 DEF Apply, RemovesMarks
  <2>2. QED
    BY <2>1 DEF Told
<1>4. ASSUME NEW j \in DOMAIN queue, j < i, queue[j] = SetValue(p)
      PROVE  Told(p, i - 1)'
  <2>1. CASE j = 1
    BY <1>2, <1>4, <2>1 DEF Told, Apply, SetValue
  <2>2. CASE j # 1
    <3>1. j - 1 \in DOMAIN queue' /\ queue'[j - 1] = SetValue(p)
      BY <1>1, <1>4, <2>2
    <3>2. j - 1 < i - 1
      BY <1>0, <1>4
    <3>3. QED
      BY <3>1, <3>2 DEF Told, SetValue
  <2>3. QED
    BY <2>1, <2>2
<1>5. QED
  BY <1>3, <1>4 DEF Told

(* Nothing but the queue, the database and the steps "feed" matters.       *)
LEMMA ExplainedQuiet ==
  ASSUME ExplainedInv, Typed', UNCHANGED <<db, queue>>,
         \A s \in Slots : slot'[s].step = "feed" => slot[s].step = "feed"
  PROVE  ExplainedInv'
  BY DEF ExplainedInv, MarksExplained, TellsFirst, RemovesMarks, FeedsJournaled, Told

(* Appending writes keeps what is told; what is left to show is the writes *)
(* themselves, and the operations that come to the step "feed".            *)
LEMMA ExplainedIssue ==
  ASSUME ExplainedInv, Typed', NEW ws \in Seq(Writes(Path)), Issue(ws),
         NEW len \in Nat, len = Len(queue),
         \A s \in Slots : slot'[s].step = "feed" =>
            slot[s].step = "feed" \/ Told(Journal("share"), len + Len(ws) + 1)',
         \A n \in DOMAIN ws :
            /\ ws[n] = SetValue(Mark("share"))
                 => Told(Journal("share"), len + n)' /\ Told(FeedItem, len + n)'
            /\ ws[n] = SetValue(Mark("bookmark")) => Told(Journal("bookmark"), len + n)'
            /\ ws[n].to \/ ws[n].path \notin Tellings
  PROVE  ExplainedInv'
<1>0. TypeOK /\ queue \in Seq(Writes(Path)) /\ queue' = queue \o ws /\ db' = db
  BY DEF ExplainedInv, Typed, TypeOK, Issue
<1>1. /\ \A i \in DOMAIN queue : queue'[i] = queue[i] /\ i \in 1 .. len
      /\ \A n \in DOMAIN ws : queue'[len + n] = ws[n]
      /\ \A i \in DOMAIN queue' :
           i \in DOMAIN queue \/ \E n \in DOMAIN ws : i = len + n
  <2>1. /\ \A i \in DOMAIN queue : (queue \o ws)[i] = queue[i]
        /\ \A n \in DOMAIN ws : (queue \o ws)[Len(queue) + n] = ws[n]
        /\ \A i \in DOMAIN (queue \o ws) :
             i \in DOMAIN queue \/ \E n \in DOMAIN ws : i = Len(queue) + n
    <3> DEFINE W == Writes(Path)
    <3>1. queue \in Seq(W) /\ ws \in Seq(W)
      BY <1>0
    <3> HIDE DEF W
    <3>2. QED
      BY <3>1, AppendPositions
  <2>2. \A i \in DOMAIN queue : i \in 1 .. len
    BY <1>0
  <2>3. QED
    BY <1>0, <2>1, <2>2
<1>2. Len(queue) \in Nat /\ Len(queue') = Len(queue) + Len(ws) /\ Len(ws) \in Nat
  BY <1>0
<1>3. ASSUME NEW p, NEW i \in 1 .. len, Told(p, i)
      PROVE  Told(p, i)'
  <2>1. i \in 1 .. Len(queue) + 1 /\ i \in Nat /\ i >= i
    BY <1>2
  <2>2. QED
    BY <1>0, <1>3, <2>1, ToldAppend
<1>4. TellsFirst'
  <2>1. ASSUME NEW i \in DOMAIN queue
        PROVE  /\ queue'[i] = SetValue(Mark("share"))
                    => Told(Journal("share"), i)' /\ Told(FeedItem, i)'
               /\ queue'[i] = SetValue(Mark("bookmark")) => Told(Journal("bookmark"), i)'
    BY <1>1, <1>3 DEF ExplainedInv, TellsFirst
  <2>2. \A i \in DOMAIN queue' :
          /\ queue'[i] = SetValue(Mark("share"))
               => Told(Journal("share"), i)' /\ Told(FeedItem, i)'
          /\ queue'[i] = SetValue(Mark("bookmark")) => Told(Journal("bookmark"), i)'
    BY <1>1, <2>1
  <2>3. QED
    BY <2>2 DEF TellsFirst, Told, SetValue, Mark, Journal, FeedItem
<1>5. RemovesMarks'
  BY <1>1 DEF ExplainedInv, RemovesMarks, Tellings, Journal, FeedItem
<1>6. ASSUME NEW p, Told(p, len + 1)
      PROVE  Told(p, len + Len(ws) + 1)'
  <2>1. /\ len + 1 \in 1 .. Len(queue) + 1
        /\ len + Len(ws) + 1 \in Nat /\ len + Len(ws) + 1 >= len + 1
    BY <1>2
  <2>2. QED
    BY <1>0, <1>6, <2>1, ToldAppend
<1>7. FeedsJournaled'
  <2>1. ASSUME NEW s \in Slots, slot'[s].step = "feed"
        PROVE  Told(Journal("share"), len + Len(ws) + 1)'
    BY <1>6, <2>1 DEF ExplainedInv, FeedsJournaled
  <2>2. QED
    BY <1>2, <2>1 DEF FeedsJournaled, Told
<1>8. QED
  BY <1>0, <1>4, <1>5, <1>7 DEF ExplainedInv, MarksExplained

LEMMA ExplainedEnds ==
  ASSUME ExplainedInv, Typed', NEW s \in Slots, Ends(s)
  PROVE  ExplainedInv'
<1> DEFINE op == slot[s]
<1>0. TypeOK /\ OpsFit /\ queue \in Seq(Writes(Path)) /\ op.kind \in Acts
  BY DEF ExplainedInv, Typed, TypeOK, Ends
<1>1. PICK v, w \in Writes(Path) : Ending(op) = <<v, w>>
  BY <1>0, EndingTyped
<1>2. \A x \in Slots : slot'[x].step = "feed" => slot[x].step = "feed"
  BY <1>0 DEF Ends, EndShowing, Free, TypeOK
<1>3. PICK len \in Nat : len = Len(queue)
  BY <1>0
<1>4. queue' = queue \o <<v, w>> /\ Issue(<<v, w>>) /\ <<v, w>> \in Seq(Writes(Path))
  BY <1>1 DEF Ends, Issue
<1>5. len + 1 \in DOMAIN queue' /\ queue'[len + 1] = v
  BY <1>0, <1>3, <1>4
<1>6. /\ v.to = TRUE /\ v.path \in Tellings
      /\ w = SetValue(Mark("share")) => v = SetValue(FeedItem) /\ op.step = "feed"
      /\ w = SetValue(Mark("bookmark")) => v = SetValue(Journal("bookmark"))
      /\ w.path \notin Tellings
  <2>1. CASE op.step = "feed"
    <3>0. Ending(op) = <<SetValue(FeedItem), SetValue(Mark("share"))>>
      BY <1>0, <2>1 DEF Ending, OpsFit
    <3>1. v = SetValue(FeedItem) /\ w = SetValue(Mark("share"))
      BY <1>1, <3>0
    <3>2. QED
      BY <3>1, <2>1, PathsApart DEF SetValue, Relations
  <2>2. CASE op.step # "feed" /\ op.kind = "bookmark"
    <3>1. v = SetValue(Journal("bookmark")) /\ w = SetValue(Mark("bookmark"))
      BY <1>1, <2>2 DEF Ending
    <3>2. QED
      BY <3>1, PathsApart DEF SetValue, Relations
  <2>3. CASE op.step # "feed" /\ op.kind # "bookmark"
    <3>1. v = SetValue(Journal(op.kind)) /\ w = RemoveValue(Mark(op.button))
      BY <1>1, <2>3 DEF Ending
    <3>2. op.button \in Relations /\ Journal(op.kind) \in Tellings
      BY <1>0 DEF TypeOK, Op, Tellings
    <3>3. QED
      BY <3>1, <3>2, PathsApart DEF SetValue, RemoveValue
  <2>4. QED
    BY <2>1, <2>2, <2>3
<1>7. v # SetValue(Mark("share")) /\ v # SetValue(Mark("bookmark"))
  BY <1>6, PathsApart DEF SetValue, Relations
<1>8. op.step = "feed" => Told(Journal("share"), len + 2)'
  <2>1. SUFFICES ASSUME op.step = "feed"
                 PROVE  Told(Journal("share"), len + 2)'
    OBVIOUS
  <2>2. Told(Journal("share"), len + 1)
    BY <2>1, <1>3 DEF ExplainedInv, FeedsJournaled
  <2>3. len + 1 \in 1 .. Len(queue) + 1 /\ len + 2 \in Nat /\ len + 2 >= len + 1
    BY <1>3
  <2>4. QED
    BY <1>0, <1>4, <2>2, <2>3, ToldAppend
<1>9. /\ w = SetValue(Mark("share"))
           => Told(Journal("share"), len + 2)' /\ Told(FeedItem, len + 2)'
      /\ w = SetValue(Mark("bookmark")) => Told(Journal("bookmark"), len + 2)'
  <2>1. \A p : v = SetValue(p) => Told(p, len + 2)'
    <3>1. len + 1 < len + 2
      BY <1>3
    <3>2. QED
      BY <1>5, <3>1 DEF Told, SetValue
  <2>2. QED
    BY <1>6, <1>8, <2>1 DEF FeedItem, Journal
<1>10. \A n \in DOMAIN <<v, w>> : n = 1 \/ n = 2
  OBVIOUS
<1>11. \A n \in DOMAIN <<v, w>> :
         /\ <<v, w>>[n] = SetValue(Mark("share"))
              => Told(Journal("share"), len + n)' /\ Told(FeedItem, len + n)'
         /\ <<v, w>>[n] = SetValue(Mark("bookmark")) => Told(Journal("bookmark"), len + n)'
         /\ <<v, w>>[n].to \/ <<v, w>>[n].path \notin Tellings
  <2>1. ASSUME NEW n \in DOMAIN <<v, w>>, n = 1
        PROVE  /\ <<v, w>>[n] # SetValue(Mark("share"))
               /\ <<v, w>>[n] # SetValue(Mark("bookmark"))
               /\ <<v, w>>[n].to
    BY <2>1, <1>6, <1>7
  <2>2. <<v, w>>[2] = w
    OBVIOUS
  <2>3. QED
    BY <1>6, <1>9, <1>10, <2>1, <2>2
<1>12. QED
  BY <1>2, <1>3, <1>4, <1>11, ExplainedIssue

LEMMA ExplainedStep ==
  ASSUME ExplainedInv, [Next]_vars
  PROVE  ExplainedInv'
<1>0. Typed /\ TypeOK /\ OpsFit /\ Typed'
  BY TypedStep DEF ExplainedInv, Typed
<1>1. CASE Open
  BY <1>0, <1>1, ExplainedQuiet DEF Open
<1>2. ASSUME NEW r \in Relations, Appear(r)
      PROVE  ExplainedInv'
  BY <1>0, <1>2, ExplainedQuiet DEF Appear
<1>3. ASSUME NEW r \in Relations, NEW s \in Slots, NEW kind, NEW step \in {"journal", "read"},
             Start(r, s, kind, step)
      PROVE  ExplainedInv'
  <2>1. \A x \in Slots : slot'[x].step = "feed" => slot[x].step = "feed"
    BY <1>0, <1>3 DEF Start, TypeOK
  <2>2. QED
    BY <1>0, <1>3, <2>1, ExplainedQuiet DEF Start
<1>4. ASSUME NEW s \in Slots, NEW t, EndShowing(s, t), UNCHANGED <<db, queue>>
      PROVE  ExplainedInv'
  <2>1. \A x \in Slots : slot'[x].step = "feed" => slot[x].step = "feed"
    BY <1>0, <1>4 DEF EndShowing, Free, TypeOK
  <2>2. QED
    BY <1>0, <1>4, <2>1, ExplainedQuiet
<1>5. ASSUME NEW s \in Slots, ShareJournaled(s)
      PROVE  ExplainedInv'
  <2> DEFINE v == SetValue(Journal("share"))
             ws == <<v>>
  <2>1. ws \in Seq(Writes(Path)) /\ Issue(ws) /\ \A n \in DOMAIN ws : n = 1 /\ ws[n] = v
    <3>1. v \in Writes(Path)
      BY DEF SetValue, Writes, Path, Acts
    <3>2. Issue(ws)
      BY <1>5 DEF ShareJournaled
    <3> HIDE DEF v
    <3>3. QED
      BY <3>1, <3>2
  <2>2. /\ v # SetValue(Mark("share")) /\ v # SetValue(Mark("bookmark")) /\ v.to
    BY PathsApart DEF SetValue, Relations
  <2>3. PICK len \in Nat : len = Len(queue)
    BY <1>0 DEF TypeOK
  <2>4. \A x \in Slots : slot'[x].step = "feed" => slot[x].step = "feed" \/ x = s
    BY <1>0, <1>5 DEF ShareJournaled, TypeOK
  <2>5. len + 1 \in DOMAIN queue' /\ queue'[len + 1] = v
    BY <1>0, <2>1, <2>3 DEF Issue, TypeOK
  <2>6. Told(Journal("share"), len + 2)'
    <3>1. len + 1 < len + 2
      BY <2>3
    <3>2. QED
      BY <2>5, <3>1 DEF Told, SetValue
  <2>7. Len(ws) = 1 /\ len + Len(ws) + 1 = len + 2
    BY <2>3
  <2>8. QED
    BY <1>0, <2>1, <2>2, <2>3, <2>4, <2>6, <2>7, ExplainedIssue
<1>6. CASE Deliver
  <2>0. queue \in Seq(Writes(Path)) /\ queue # <<>> /\ queue' = Tail(queue)
    BY <1>0, <1>6 DEF TypeOK, Deliver
  <2>1. /\ Head(queue) = queue[1] /\ 1 \in DOMAIN queue
        /\ \A i \in DOMAIN queue' : i + 1 \in DOMAIN queue /\ queue'[i] = queue[i + 1]
    BY <2>0, TailPositions
  <2>2. PICK len \in Nat : len = Len(queue) /\ Len(queue') + 1 = len
    BY <2>0
  <2>3. \A i \in DOMAIN queue' : i + 1 \in 2 .. Len(queue) + 1 /\ (i + 1) - 1 = i
    BY <2>0
  <2>4. ASSUME NEW p \in Tellings, NEW i \in DOMAIN queue', Told(p, i + 1)
        PROVE  Told(p, i)'
    BY <1>0, <1>6, <2>3, <2>4, ToldDeliver DEF ExplainedInv
  <2>5. TellsFirst'
    <3>1. \A i \in DOMAIN queue' :
            /\ queue'[i] = SetValue(Mark("share"))
                 => Told(Journal("share"), i)' /\ Told(FeedItem, i)'
            /\ queue'[i] = SetValue(Mark("bookmark")) => Told(Journal("bookmark"), i)'
      BY <2>1, <2>4, PathsApart DEF ExplainedInv, TellsFirst
    <3>2. QED
      BY <3>1 DEF TellsFirst, Told, SetValue, Mark, Journal, FeedItem
  <2>6. RemovesMarks'
    BY <2>1 DEF ExplainedInv, RemovesMarks, Tellings, Journal, FeedItem
  <2>7. FeedsJournaled'
    <3>1. ASSUME NEW s \in Slots, slot[s].step = "feed"
          PROVE  Told(Journal("share"), len)'
      <4>1. Told(Journal("share"), len + 1)
        BY <2>2, <3>1 DEF ExplainedInv, FeedsJournaled
      <4>2. len + 1 \in 2 .. Len(queue) + 1 /\ (len + 1) - 1 = len
        BY <2>0, <2>2
      <4>3. QED
        BY <1>0, <1>6, <4>1, <4>2, ToldDeliver, PathsApart DEF ExplainedInv
    <3>2. QED
      BY <1>6, <2>2, <3>1 DEF FeedsJournaled, Told, Deliver
  <2>8. MarksExplained'
    <3>1. \A p : Told(p, 1) => p \in db
      BY <2>0 DEF Told
    <3>2. db' = Apply(db, queue[1])
      BY <1>6, <2>1 DEF Deliver
    <3>3. \A p \in Tellings : p \in db => p \in db'
      BY <2>1, <3>2 DEF ExplainedInv, RemovesMarks, Apply
    <3>4. ASSUME NEW r \in Relations, Mark(r) \in db'
          PROVE  Mark(r) \in db \/ queue[1] = SetValue(Mark(r))
      <4>1. queue[1] \in Writes(Path)
        BY <2>0, <2>1
      <4>2. QED
        BY <3>2, <3>4, <4>1 DEF Apply, SetValue, Writes
    <3>5. queue[1] = SetValue(Mark("share")) => {Journal("share"), FeedItem} \subseteq db
      BY <2>1, <3>1 DEF ExplainedInv, TellsFirst
    <3>6. queue[1] = SetValue(Mark("bookmark")) => Journal("bookmark") \in db
      BY <2>1, <3>1 DEF ExplainedInv, TellsFirst
    <3>7. "share" \in Relations /\ "bookmark" \in Relations
      BY DEF Relations
    <3>8. /\ Mark("share") \in db' => {Journal("share"), FeedItem} \subseteq db'
          /\ Mark("bookmark") \in db' => Journal("bookmark") \in db'
      BY <3>3, <3>4, <3>5, <3>6, <3>7, PathsApart DEF ExplainedInv, MarksExplained
    <3>9. QED
      BY <3>8 DEF MarksExplained, Mark, Journal, FeedItem
  <2>9. QED
    BY <1>0, <2>5, <2>6, <2>7, <2>8 DEF ExplainedInv
<1>7. CASE Crash
  <2>1. queue' = <<>> /\ db' = db /\ \A s \in Slots : slot'[s].step = "idle"
    BY <1>7 DEF Crash, Free
  <2>2. QED
    BY <1>0, <2>1 DEF ExplainedInv, MarksExplained, TellsFirst, RemovesMarks, FeedsJournaled
<1>8. CASE UNCHANGED vars
  BY <1>0, <1>8, ExplainedQuiet DEF vars
<1>9. ASSUME NEW r \in Relations, NEW s \in Slots, Tap(r, s) \/ TapLoading(r, s)
      PROVE  ExplainedInv'
  BY <1>3, <1>9 DEF Tap, TapLoading
<1>10. ASSUME NEW s \in Slots, Reread(s) \/ UpdateFails(s)
       PROVE  ExplainedInv'
  BY <1>4, <1>10 DEF Reread, UpdateFails
<1>11. ASSUME NEW s \in Slots, Share(s) \/ Bookmark(s) \/ RemoveMark(s)
       PROVE  ExplainedInv'
  BY <1>0, <1>11, Endings, ExplainedEnds
<1>12. QED
  BY <1>1, <1>2, <1>5, <1>6, <1>7, <1>8, <1>9, <1>10, <1>11 DEF Next, Answer

(* However the app is killed, no mark stands without the items that tell   *)
(* of it (share, bookmark).                                                *)
THEOREM Explained == Spec => []MarksExplained
<1>1. Init => ExplainedInv
  <2>1. Init => \A s \in Slots : slot[s].step = "idle"
    BY DEF Init, Free
  <2>2. QED
    BY <2>1, TypedInit
    DEF Init, ExplainedInv, MarksExplained, TellsFirst, RemovesMarks, FeedsJournaled
<1>2. ExplainedInv => MarksExplained
  BY DEF ExplainedInv
<1>3. QED
  BY <1>1, <1>2, ExplainedStep, PTL DEF Spec
-----------------------------------------------------------------------------
(* Buttons.  While the operations on r have not overlapped, one at most is *)
(* in flight, tapped in this visit; its button is loading, and the mark is *)
(* still as the operation found it.                                        *)
AloneOn(s, r) ==
  /\ slot[s].kind \in Acts
  /\ slot[s].visit = visit /\ title[r] = "Loading"
  /\ StateSeen(r) = Before(slot[s])
  /\ \A x \in Slots : slot[x].kind # "free" /\ slot[x].button = r => x = s

Steady(r) ==
  /\ Busy(r) \/ title[r] \in {"None", "Absent", StateSeen(r)}
  /\ \A s \in Slots : slot[s].kind # "free" /\ slot[s].button = r => AloneOn(s, r)

AgreeInv == Typed /\ \A r \in Relations \ strained : Steady(r)

LEMMA TitlesApart ==
  \A r \in Relations : /\ On(r) # Off(r)
                       /\ StateSeen(r) \in {On(r), Off(r)}
                       /\ On(r) \notin {"None", "Absent", "Loading"}
                       /\ Off(r) \notin {"None", "Absent", "Loading"}
  BY DEF On, Off, StateSeen, Relations

(* What is seen of a mark does not depend on how far its writes have come. *)
LEMMA SeenDelivered ==
  ASSUME TypeOK, Deliver, NEW r \in Relations
  PROVE  StateSeen(r)' = StateSeen(r)
<1>1. queue \in Seq(Writes(Path)) /\ queue # <<>>
  BY DEF TypeOK, Deliver
<1>2. Sees(Apply(db, Head(queue)), Tail(queue), Mark(r)) <=> Sees(db, queue, Mark(r))
  BY <1>1, SeesDeliver
<1>3. db' = Apply(db, Head(queue)) /\ queue' = Tail(queue)
  BY DEF Deliver
<1>4. QED
  BY <1>2, <1>3 DEF StateSeen, Mark, On, Off, Sees, Mentions, LastSets, SetValue

(* A step that touches neither the operations, the button, nor what is     *)
(* seen of the mark of r keeps r steady.                                   *)
LEMMA SteadyQuiet ==
  ASSUME NEW r \in Relations, Steady(r), visit' = visit, title'[r] = title[r],
         StateSeen(r)' = StateSeen(r),
         \A s \in Slots : slot'[s].kind # "free" /\ slot'[s].button = r
            => /\ slot[s].kind # "free" /\ slot[s].button = r
               /\ slot'[s].kind = slot[s].kind /\ slot'[s].visit = slot[s].visit,
         Busy(r) => Busy(r)'
  PROVE  Steady(r)'
<1>1. (title[r] \in {"None", "Absent", StateSeen(r)}) => (title[r] \in {"None", "Absent", StateSeen(r)})'
  OBVIOUS
<1>2. Busy(r)' \/ (title[r] \in {"None", "Absent", StateSeen(r)})'
  BY <1>1 DEF Steady
<1>3. ASSUME NEW s \in Slots, slot'[s].kind # "free", slot'[s].button = r
      PROVE  AloneOn(s, r)'
  BY <1>3 DEF Steady, AloneOn, Before, Adds, On, Off, StateSeen
<1>4. QED
  BY <1>2, <1>3 DEF Steady, StateSeen

(* An operation that ends with the state of its mark on its button.        *)
LEMMA SteadyEnd ==
  ASSUME AgreeInv, Typed', NEW s \in Slots, NEW t, EndShowing(s, t), slot[s].kind # "free",
         NEW b \in Relations, b = slot[s].button,
         UNCHANGED <<visit, strained>>,
         \A r \in Relations : r # b => StateSeen(r)' = StateSeen(r),
         b \notin strained => t = StateSeen(b)'
  PROVE  AgreeInv'
<1>0. slot \in [Slots -> Op] /\ title \in [Relations -> Titles]
  BY DEF AgreeInv, Typed, TypeOK, Op
<1>1. \A x \in Slots : slot'[x] = IF x = s THEN Free ELSE slot[x]
  BY <1>0 DEF EndShowing
<1>2. Free.kind = "free"
  BY DEF Free
<1>3. ASSUME NEW r \in Relations \ strained, r # b
      PROVE  Steady(r)'
  <2>1. title'[r] = title[r]
    BY <1>0, <1>3 DEF EndShowing
  <2>2. \A x \in Slots : slot'[x].kind # "free" /\ slot'[x].button = r => slot'[x] = slot[x]
    BY <1>1, <1>2
  <2>3. Busy(r) => Busy(r)'
    BY <1>1, <1>3 DEF Busy
  <2>4. Steady(r) /\ StateSeen(r)' = StateSeen(r)
    BY <1>3 DEF AgreeInv
  <2>5. QED
    BY <2>1, <2>2, <2>3, <2>4, SteadyQuiet
<1>4. CASE b \notin strained
  <2>1. AloneOn(s, b)
    BY <1>0, <1>4 DEF AgreeInv, Steady
  <2>2. \A x \in Slots : ~(slot'[x].kind # "free" /\ slot'[x].button = b)
    BY <1>1, <1>2, <2>1 DEF AloneOn
  <2>3. title'[b] = StateSeen(b)'
    BY <1>0, <1>4, <2>1 DEF EndShowing, AloneOn
  <2>4. Steady(b)'
    BY <2>2, <2>3 DEF Steady, StateSeen
  <2>5. QED
    BY <1>3, <2>4 DEF AgreeInv
<1>5. CASE b \in strained
  BY <1>3, <1>5 DEF AgreeInv
<1>6. QED
  BY <1>4, <1>5

(* The writes that end an operation leave its mark as it wants it, and the *)
(* other mark alone.                                                       *)
LEMMA EndingSeen ==
  ASSUME Typed, NEW s \in Slots, slot[s].kind \in Acts,
         slot[s].kind = "share" => slot[s].step = "feed", Issue(Ending(slot[s])),
         NEW b \in Relations, b = slot[s].button
  PROVE  /\ StateSeen(b)' = After(slot[s])
         /\ \A r \in Relations : r # b => StateSeen(r)' = StateSeen(r)
<1> DEFINE op == slot[s]
<1>0. TypeOK /\ OpsFit /\ op.button \in Relations /\ queue \in Seq(Writes(Path))
  BY DEF Typed, TypeOK, Op
<1>1. PICK v, w \in Writes(Path) : Ending(op) = <<v, w>>
  BY <1>0, EndingTyped
<1>2. /\ v.path \in Tellings
      /\ w = IF Adds(op.kind) THEN SetValue(Mark(op.button)) ELSE RemoveValue(Mark(op.button))
  <2>1. CASE op.kind = "share"
    <3>1. Ending(op) = <<SetValue(FeedItem), SetValue(Mark("share"))>>
      BY <1>0, <2>1 DEF Ending, OpsFit
    <3>2. v = SetValue(FeedItem) /\ w = SetValue(Mark("share")) /\ op.button = "share"
      BY <1>0, <1>1, <2>1, <3>1 DEF OpsFit
    <3>3. QED
      BY <2>1, <3>2, PathsApart DEF SetValue, Adds
  <2>2. CASE op.kind = "bookmark"
    <3>1. Ending(op) = <<SetValue(Journal("bookmark")), SetValue(Mark("bookmark"))>>
      BY <1>0, <2>2 DEF Ending, OpsFit
    <3>2. v = SetValue(Journal("bookmark")) /\ w = SetValue(Mark("bookmark")) /\ op.button = "bookmark"
      BY <1>0, <1>1, <2>2, <3>1 DEF OpsFit
    <3>3. QED
      BY <2>2, <3>2, PathsApart DEF SetValue, Adds
  <2>3. CASE op.kind \notin {"share", "bookmark"}
    <3>1. Ending(op) = <<SetValue(Journal(op.kind)), RemoveValue(Mark(op.button))>>
      BY <1>0, <2>3 DEF Ending, OpsFit
    <3>2. v = SetValue(Journal(op.kind)) /\ w = RemoveValue(Mark(op.button))
      BY <1>1, <3>1
    <3>3. QED
      BY <2>3, <3>2 DEF SetValue, Adds, Tellings
  <2>4. QED
    BY <2>1, <2>2, <2>3
<1>3. db' = db /\ queue' = queue \o <<v, w>> /\ <<v, w>> \in Seq(Writes(Path))
  BY <1>1 DEF Issue
<1>4. ASSUME NEW r \in Relations
      PROVE  /\ v.path # Mark(r) /\ v # SetValue(Mark(r))
             /\ Sees(db, queue \o <<v, w>>, Mark(r))
                  <=> \/ w = SetValue(Mark(r))
                      \/ w.path # Mark(r) /\ Sees(db, queue, Mark(r))
  <2>1. v.path # Mark(r) /\ v # SetValue(Mark(r))
    BY <1>2, PathsApart DEF SetValue
  <2>2. /\ Mentions(<<v, w>>, Mark(r)) <=> v.path = Mark(r) \/ w.path = Mark(r)
        /\ LastSets(<<v, w>>, Mark(r))
             <=> w = SetValue(Mark(r)) \/ (v = SetValue(Mark(r)) /\ w.path # Mark(r))
    BY TwoWrites
  <2>3. Sees(db, queue \o <<v, w>>, Mark(r))
          <=> \/ LastSets(<<v, w>>, Mark(r))
              \/ ~Mentions(<<v, w>>, Mark(r)) /\ Sees(db, queue, Mark(r))
    BY <1>0, <1>3, SeesAppend
  <2>4. QED
    BY <2>1, <2>2, <2>3
<1>5. \A r \in Relations :
        StateSeen(r)' = IF Sees(db, queue \o <<v, w>>, Mark(r)) THEN On(r) ELSE Off(r)
  BY <1>3 DEF StateSeen, Sees, Mentions, LastSets, SetValue, Mark, On, Off
<1>6. /\ \A r \in Relations : r # b => w.path # Mark(r) /\ w # SetValue(Mark(r))
      /\ w.path = Mark(op.button)
      /\ w = SetValue(Mark(op.button)) <=> Adds(op.kind)
  BY <1>0, <1>2, PathsApart DEF SetValue, RemoveValue
<1>7. StateSeen(b)' = After(op)
  BY <1>4, <1>5, <1>6 DEF After
<1>8. QED
  BY <1>4, <1>5, <1>6, <1>7 DEF StateSeen

(* A tap on a button starts the only operation on its mark, or strains it. *)
LEMMA SteadyStart ==
  ASSUME AgreeInv, Typed', NEW b \in Relations, NEW s \in Slots,
         NEW kind \in Acts \union {"getState"}, NEW step, Start(b, s, kind, step),
         \A r \in Relations : r # b => title'[r] = title[r],
         ~Busy(b) => /\ kind \in Acts /\ title'[b] = "Loading"
                     /\ title[b] = IF Adds(kind) THEN Off(b) ELSE On(b)
  PROVE  AgreeInv'
<1> DEFINE op == [kind |-> kind, button |-> b, visit |-> visit, step |-> step]
<1>0. slot \in [Slots -> Op] /\ UNCHANGED <<db, queue, visit>> /\ slot[s].kind = "free"
  BY DEF AgreeInv, Typed, TypeOK, Start
<1>1. \A x \in Slots : slot'[x] = IF x = s THEN op ELSE slot[x]
  BY <1>0 DEF Start
<1>2. op.kind = kind /\ op.button = b /\ op.visit = visit /\ kind # "free"
  BY DEF Acts
<1>3. \A r \in Relations : StateSeen(r)' = StateSeen(r)
  BY <1>0 DEF StateSeen, On, Off, Sees, Mentions, LastSets, SetValue, Mark
<1>4. strained' = IF Busy(b) THEN strained \union {b} ELSE strained
  BY DEF Start
<1>5. ASSUME NEW r \in Relations \ strained, r # b
      PROVE  Steady(r)'
  <2>1. \A x \in Slots : slot'[x].kind # "free" /\ slot'[x].button = r => slot'[x] = slot[x]
    BY <1>1, <1>2, <1>5
  <2>2. Busy(r) => Busy(r)'
    BY <1>0, <1>1 DEF Busy
  <2>3. Steady(r)
    BY <1>5 DEF AgreeInv
  <2>4. QED
    BY <1>0, <1>3, <1>5, <2>1, <2>2, <2>3, SteadyQuiet
<1>6. ASSUME ~Busy(b), b \notin strained
      PROVE  Steady(b)'
  <2>1. StateSeen(b) = IF Adds(kind) THEN Off(b) ELSE On(b)
    BY <1>6, TitlesApart DEF AgreeInv, Steady
  <2>2. Before(op) = IF Adds(kind) THEN Off(b) ELSE On(b)
    BY <1>2 DEF Before
  <2>3. \A x \in Slots : slot'[x].kind # "free" /\ slot'[x].button = b => x = s
    BY <1>1, <1>6 DEF Busy
  <2>4. slot'[s] = op
    BY <1>1
  <2>5. Before(slot[s])' = Before(op)
    BY <2>4 DEF Before, Adds, On, Off
  <2>6. AloneOn(s, b)'
    BY <1>0, <1>2, <1>3, <1>6, <2>1, <2>2, <2>3, <2>4, <2>5 DEF AloneOn
  <2>7. Busy(b)'
    BY <1>2, <2>4 DEF Busy
  <2>8. QED
    BY <2>3, <2>6, <2>7 DEF Steady
<1>7. QED
  BY <1>4, <1>5, <1>6 DEF AgreeInv

LEMMA AgreeStep ==
  ASSUME AgreeInv, [Next]_vars
  PROVE  AgreeInv'
<1>0. Typed /\ TypeOK /\ OpsFit /\ Typed'
  BY TypedStep DEF AgreeInv, Typed
<1>1. CASE Open
  <2>1. ASSUME NEW r \in Relations \ strained'
        PROVE  Steady(r)'
    <3>1. r \notin strained /\ ~Busy(r) /\ title'[r] = "Absent" /\ slot' = slot
      BY <1>1, <2>1 DEF Open
    <3>2. QED
      BY <3>1 DEF Steady, Busy
  <2>2. QED
    BY <1>0, <2>1 DEF AgreeInv
<1>2. ASSUME NEW b \in Relations, Appear(b)
      PROVE  AgreeInv'
  <2>0. UNCHANGED <<db, queue, visit, slot, strained>>
    BY <1>2 DEF Appear
  <2>1. \A r \in Relations : StateSeen(r)' = StateSeen(r)
    BY <2>0 DEF StateSeen, On, Off, Sees, Mentions, LastSets, SetValue, Mark
  <2>2. ASSUME NEW r \in Relations \ strained, r # b
        PROVE  Steady(r)'
    <3>1. title'[r] = title[r]
      BY <1>0, <1>2, <2>2 DEF Appear, TypeOK
    <3>2. Steady(r) /\ (Busy(r) => Busy(r)')
      BY <2>0, <2>2 DEF AgreeInv, Busy
    <3>3. QED
      BY <2>0, <2>1, <3>1, <3>2, SteadyQuiet
  <2>3. ASSUME b \notin strained
        PROVE  Steady(b)'
    <3>1. Steady(b) /\ title[b] = "Absent"
      BY <1>2, <2>3 DEF AgreeInv, Appear
    <3>2. \A s \in Slots : ~(slot[s].kind # "free" /\ slot[s].button = b)
      BY <3>1 DEF Steady, AloneOn
    <3>3. title'[b] = StateSeen(b)'
      BY <1>0, <1>2, <2>1 DEF Appear, TypeOK
    <3>4. QED
      BY <2>0, <3>2, <3>3 DEF Steady, StateSeen
  <2>4. QED
    BY <1>0, <2>0, <2>2, <2>3 DEF AgreeInv
<1>3. ASSUME NEW b \in Relations, NEW s \in Slots, Tap(b, s)
      PROVE  AgreeInv'
  <2>1. PICK kind \in {Add(b), Remove(b)} :
          Start(b, s, kind, "journal") /\ title[b] = IF kind = Add(b) THEN Off(b) ELSE On(b)
    BY <1>3 DEF Tap, Add, Remove, Relations
  <2>2. kind \in Acts /\ (Adds(kind) <=> kind = Add(b))
    BY <2>1 DEF Add, Remove, Adds, Acts, Relations
  <2>3. title'[b] = "Loading" /\ \A r \in Relations : r # b => title'[r] = title[r]
    BY <1>0, <1>3 DEF Tap, TypeOK
  <2>4. QED
    BY <1>0, <2>1, <2>2, <2>3, SteadyStart
<1>4. ASSUME NEW b \in Relations, NEW s \in Slots, TapLoading(b, s)
      PROVE  AgreeInv'
  <2>0. Start(b, s, "getState", "read") /\ title' = title /\ title[b] = "Loading"
    BY <1>4 DEF TapLoading
  <2>1. CASE Busy(b)
    BY <1>0, <2>0, <2>1, SteadyStart
  <2>2. CASE ~Busy(b)
    <3>1. b \in strained
      BY <2>0, <2>2, TitlesApart DEF AgreeInv, Steady
    <3>2. ASSUME NEW r \in Relations \ strained
          PROVE  Steady(r)'
      <4>0. slot \in [Slots -> Op] /\ UNCHANGED <<db, queue, visit, title>> /\ slot[s].kind = "free"
        BY <1>0, <2>0 DEF TypeOK, Start
      <4>1. StateSeen(r)' = StateSeen(r)
        BY <4>0 DEF StateSeen, On, Off, Sees, Mentions, LastSets, SetValue, Mark
      <4>2. \A x \in Slots : slot'[x].kind # "free" /\ slot'[x].button = r => slot'[x] = slot[x]
        BY <2>0, <3>1, <3>2, <4>0 DEF Start
      <4>3. Busy(r) => Busy(r)'
        BY <2>0, <4>0 DEF Busy, Start
      <4>4. QED
        BY <3>2, <4>0, <4>1, <4>2, <4>3, SteadyQuiet DEF AgreeInv
    <3>3. QED
      BY <1>0, <2>0, <2>2, <3>2 DEF AgreeInv, Start
  <2>3. QED
    BY <2>1, <2>2
<1>5. ASSUME NEW s \in Slots, Reread(s) \/ UpdateFails(s)
      PROVE  AgreeInv'
  <2>0. PICK b \in Relations : b = slot[s].button
    BY <1>0 DEF TypeOK, Op
  <2>1. UNCHANGED <<db, queue, visit, strained>>
    BY <1>5 DEF Reread, UpdateFails
  <2>2. \A r \in Relations : StateSeen(r)' = StateSeen(r)
    BY <2>1 DEF StateSeen, On, Off, Sees, Mentions, LastSets, SetValue, Mark
  <2>3. slot[s].kind # "free"
    BY <1>0, <1>5 DEF OpsFit, Reread, UpdateFails
  <2>4. b \notin strained => AloneOn(s, b)
    BY <2>0, <2>3 DEF AgreeInv, Steady
  <2>5. Reread(s) => b \in strained
    BY <1>0, <2>4 DEF AloneOn, Reread, OpsFit, Acts
  <2>6. CASE Reread(s)
    BY <1>0, <2>0, <2>1, <2>2, <2>3, <2>5, <2>6, SteadyEnd DEF Reread
  <2>7. CASE UpdateFails(s)
    <3>1. b \notin strained => Before(slot[s]) = StateSeen(b)'
      BY <2>2, <2>4 DEF AloneOn
    <3>2. EndShowing(s, Before(slot[s]))
      BY <2>7 DEF UpdateFails
    <3>3. QED
      BY <1>0, <2>0, <2>1, <2>2, <2>3, <3>1, <3>2, SteadyEnd
  <2>8. QED
    BY <1>5, <2>6, <2>7
<1>6. ASSUME NEW s \in Slots, ShareJournaled(s)
      PROVE  AgreeInv'
  <2> DEFINE v == SetValue(Journal("share"))
  <2>1. queue \in Seq(Writes(Path)) /\ <<v>> \in Seq(Writes(Path)) /\ v.path = Journal("share")
    <3>1. v \in Writes(Path) /\ v.path = Journal("share")
      BY DEF SetValue, Writes, Path, Acts
    <3> HIDE DEF v
    <3>2. QED
      BY <1>0, <3>1 DEF TypeOK
  <2>2. ASSUME NEW r \in Relations
        PROVE  StateSeen(r)' = StateSeen(r)
    <3>1. ~Mentions(<<v>>, Mark(r)) /\ ~LastSets(<<v>>, Mark(r))
      <4>1. v.path # Mark(r) /\ v # SetValue(Mark(r))
        BY <2>1, PathsApart DEF SetValue
      <4> HIDE DEF v
      <4>2. QED
        BY <4>1 DEF Mentions, LastSets
    <3>2. Sees(db, queue \o <<v>>, Mark(r)) <=> Sees(db, queue, Mark(r))
      BY <2>1, <3>1, SeesAppend
    <3>3. db' = db /\ queue' = queue \o <<v>>
      BY <1>6 DEF ShareJournaled, Issue
    <3>4. QED
      BY <3>2, <3>3 DEF StateSeen, On, Off, Sees, Mentions, LastSets, SetValue, Mark
  <2>3. \A x \in Slots : /\ slot'[x].kind = slot[x].kind /\ slot'[x].button = slot[x].button
                         /\ slot'[x].visit = slot[x].visit
    BY <1>0, <1>6 DEF ShareJournaled, TypeOK, Op
  <2>4. UNCHANGED <<visit, title, strained>>
    BY <1>6 DEF ShareJournaled
  <2>5. \A r \in Relations : Busy(r) => Busy(r)'
    BY <2>3 DEF Busy
  <2>6. QED
    BY <1>0, <2>2, <2>3, <2>4, <2>5, SteadyQuiet DEF AgreeInv
<1>7. ASSUME NEW s \in Slots, Share(s) \/ Bookmark(s) \/ RemoveMark(s)
      PROVE  AgreeInv'
  <2>0. PICK b \in Relations : b = slot[s].button
    BY <1>0 DEF TypeOK, Op
  <2>1. Ends(s) /\ slot[s].kind # "free"
    BY <1>0, <1>7, Endings DEF Ends, Acts
  <2>2. /\ StateSeen(b)' = After(slot[s])
        /\ \A r \in Relations : r # b => StateSeen(r)' = StateSeen(r)
    BY <1>0, <2>0, <2>1, EndingSeen DEF Ends
  <2>3. EndShowing(s, After(slot[s])) /\ UNCHANGED <<visit, strained>>
    BY <2>1 DEF Ends
  <2>4. QED
    BY <1>0, <2>0, <2>1, <2>2, <2>3, SteadyEnd
<1>8. CASE Deliver
  <2>1. UNCHANGED <<visit, title, slot, strained>>
    BY <1>8 DEF Deliver
  <2>2. \A r \in Relations : StateSeen(r)' = StateSeen(r)
    BY <1>0, <1>8, SeenDelivered
  <2>3. \A r \in Relations : Busy(r) => Busy(r)'
    BY <2>1 DEF Busy
  <2>4. QED
    BY <1>0, <2>1, <2>2, <2>3, SteadyQuiet DEF AgreeInv
<1>9. CASE Crash
  <2>1. (\A r \in Relations : title'[r] = "None") /\ \A s \in Slots : slot'[s].kind = "free"
    BY <1>9 DEF Crash, Free
  <2>2. QED
    BY <1>0, <2>1 DEF AgreeInv, Steady
<1>10. CASE UNCHANGED vars
  <2>1. UNCHANGED <<db, queue, visit, title, slot, strained>>
    BY <1>10 DEF vars
  <2>2. \A r \in Relations : StateSeen(r)' = StateSeen(r)
    BY <2>1 DEF StateSeen, On, Off, Sees, Mentions, LastSets, SetValue, Mark
  <2>3. \A r \in Relations : Busy(r) => Busy(r)'
    BY <2>1 DEF Busy
  <2>4. QED
    BY <1>0, <2>1, <2>2, <2>3, SteadyQuiet DEF AgreeInv
<1>11. QED
  BY <1>1, <1>2, <1>3, <1>4, <1>5, <1>6, <1>7, <1>8, <1>9, <1>10 DEF Next, Answer

(* A share or bookmark button at rest agrees with the mark its client sees *)
(* unless the operations on it have overlapped.                            *)
THEOREM Agreement == Spec => []ButtonsAgree
<1>1. Init => AgreeInv
  <2>1. Init => /\ \A s \in Slots : slot[s].kind = "free"
                /\ \A r \in Relations : title[r] = "None"
    BY DEF Init, Free
  <2>2. QED
    BY <2>1, TypedInit DEF AgreeInv, Steady
<1>2. AgreeInv => ButtonsAgree
  BY DEF AgreeInv, Steady, ButtonsAgree
<1>3. QED
  BY <1>1, <1>2, AgreeStep, PTL DEF Spec
=============================================================================
