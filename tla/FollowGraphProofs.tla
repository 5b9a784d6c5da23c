-------------------------- MODULE FollowGraphProofs --------------------------
(***************************************************************************)
(* Theorems about FollowGraph, for every set of users and slots and every  *)
(* value of the bounds: type correctness, consent, agreement of the two    *)
(* sides of a pair, and that the lists implement FollowContract.           *)
(***************************************************************************)
EXTENDS FollowGraph, BackendTheorems

-----------------------------------------------------------------------------
(* Type correctness.                                                       *)

LEMMA SlotsTyped ==
  ASSUME TypeOK, NEW c \in Users, NEW s \in Slots
  PROVE  /\ slot[c][s] \in Slot
         /\ \A x \in Slot : [slot EXCEPT ![c][s] = x] \in [Users -> [Slots -> Slot]]
         /\ \A st \in SlotSteps : Goto(c, s, st) => slot' \in [Users -> [Slots -> Slot]]
         /\ Finish(c, s) => slot' \in [Users -> [Slots -> Slot]]
         /\ ReadAgain(c, s) => slot' \in [Users -> [Slots -> Slot]]
<1>1. slot \in [Users -> [Slots -> Slot]] /\ slot[c][s] \in Slot
  BY DEF TypeOK
<1>2. \A x \in Slot : [slot EXCEPT ![c][s] = x] \in [Users -> [Slots -> Slot]]
  BY <1>1
<1>3. ASSUME NEW st \in SlotSteps, Goto(c, s, st)
      PROVE  slot' \in [Users -> [Slots -> Slot]]
  BY <1>1, <1>3 DEF Goto, Slot
<1>4. Free(c) \in Slot /\ Reading(slot[c][s].on) \in Slot
  BY <1>1 DEF Free, Reading, Slot, SlotKinds, SlotSteps
<1>5. QED
  BY <1>1, <1>2, <1>3, <1>4 DEF Finish, ReadAgain

LEMMA TitlesTyped ==
  ASSUME TypeOK, NEW c \in Users, NEW u \in Users, NEW t \in Titles, Show(c, u, t)
  PROVE  title' \in [Users -> [Users -> Titles]]
  BY DEF TypeOK, Show

LEMMA IssueTyped ==
  ASSUME TypeOK, NEW c \in Users, NEW u \in Users,
         NEW ws \in Seq(Writes(Path)), Issue(c, u, ws)
  PROVE  /\ queue' \in [Users -> Seq(Writes(Path))]
         /\ torn' \subseteq SUBSET Users
         /\ UNCHANGED <<db, asked, accepted, wasPublic, wasPrivate>>
<1>1. queue[c] \o ws \in Seq(Writes(Path))
  BY DEF TypeOK
<1>2. QED
  BY <1>1 DEF TypeOK, Issue

(* The writes of an operation of c on u are all on the pair {c, u}, and    *)
(* set or remove both sides of what they edit.                             *)
Mirrored(ws, c, u) ==
  /\ ws \in Seq(Writes(Path)) /\ DOMAIN ws # {}
  /\ \A i \in DOMAIN ws : PairOf(ws[i].path) = {c, u}
  /\ \A a, b \in Users :
       /\ Mentions(ws, <<"Following", a, b>>) <=> Mentions(ws, <<"Followers", b, a>>)
       /\ LastSets(ws, <<"Following", a, b>>) <=> LastSets(ws, <<"Followers", b, a>>)
       /\ Mentions(ws, <<"Requested", a, b>>) <=> Mentions(ws, <<"Pending", b, a>>)
       /\ LastSets(ws, <<"Requested", a, b>>) <=> LastSets(ws, <<"Pending", b, a>>)

(* The two sides of a relationship, in either order.                       *)
Sides == {<<"Following", "Followers">>, <<"Followers", "Following">>,
          <<"Requested", "Pending">>, <<"Pending", "Requested">>}

LEMMA TwoMirrored ==
  ASSUME NEW c \in Users, NEW u \in Users, NEW t \in BOOLEAN, NEW l, NEW m,
         <<l, m>> \in Sides
  PROVE  Mirrored(<<[path |-> <<l, c, u>>, to |-> t], [path |-> <<m, u, c>>, to |-> t]>>, c, u)
<1> DEFINE v  == [path |-> <<l, c, u>>, to |-> t]
           w  == [path |-> <<m, u, c>>, to |-> t]
           ws == <<v, w>>
<1>1. v \in Writes(Path) /\ w \in Writes(Path)
  BY DEF Writes, Path, Lists, Sides
<1>2. PairOf(v.path) = {c, u} /\ PairOf(w.path) = {c, u}
  BY DEF PairOf
<1>3. v.path = <<l, c, u>> /\ w.path = <<m, u, c>>
  OBVIOUS
<1>4. \A path : /\ v = SetValue(path) <=> path = <<l, c, u>> /\ t = TRUE
                /\ w = SetValue(path) <=> path = <<m, u, c>> /\ t = TRUE
  BY DEF SetValue
<1> HIDE DEF v, w
<1>5. ws \in Seq(Writes(Path)) /\ DOMAIN ws = 1 .. 2 /\ ws[1] = v /\ ws[2] = w
  BY <1>1, TwoWrites
<1>6. \A path : /\ Mentions(ws, path) <=> path = <<l, c, u>> \/ path = <<m, u, c>>
                /\ LastSets(ws, path)
                     <=> t = TRUE /\ (path = <<l, c, u>> \/ path = <<m, u, c>>)
  BY <1>1, <1>3, <1>4, TwoWrites
<1> HIDE DEF ws
<1>7. \A i \in DOMAIN ws : PairOf(ws[i].path) = {c, u}
  BY <1>2, <1>5
<1>8. ASSUME NEW a \in Users, NEW b \in Users
      PROVE  /\ Mentions(ws, <<"Following", a, b>>) <=> Mentions(ws, <<"Followers", b, a>>)
             /\ LastSets(ws, <<"Following", a, b>>) <=> LastSets(ws, <<"Followers", b, a>>)
             /\ Mentions(ws, <<"Requested", a, b>>) <=> Mentions(ws, <<"Pending", b, a>>)
             /\ LastSets(ws, <<"Requested", a, b>>) <=> LastSets(ws, <<"Pending", b, a>>)
  BY <1>6 DEF Sides
<1>9. Mirrored(ws, c, u)
  BY <1>5, <1>7, <1>8 DEF Mirrored
<1>10. QED
  BY <1>9 DEF ws, v, w

LEMMA AcceptMirrored ==
  ASSUME NEW c \in Users, NEW u \in Users
  PROVE  Mirrored(AcceptWrites(c, u), c, u)
<1> DEFINE v  == RemoveValue(<<"Pending", c, u>>)
           w  == RemoveValue(<<"Requested", u, c>>)
           x  == SetValue(<<"Followers", c, u>>)
           y  == SetValue(<<"Following", u, c>>)
           ws == <<v, w, x, y>>
<1>1. v \in Writes(Path) /\ w \in Writes(Path) /\ x \in Writes(Path) /\ y \in Writes(Path)
  BY DEF Writes, Path, Lists, SetValue, RemoveValue
<1>2. /\ v.path = <<"Pending", c, u>> /\ w.path = <<"Requested", u, c>>
      /\ x.path = <<"Followers", c, u>> /\ y.path = <<"Following", u, c>>
  BY DEF SetValue, RemoveValue
<1>3. \A path : /\ v # SetValue(path) /\ w # SetValue(path)
                /\ x = SetValue(path) <=> path = <<"Followers", c, u>>
                /\ y = SetValue(path) <=> path = <<"Following", u, c>>
  BY DEF SetValue, RemoveValue
<1> HIDE DEF v, w, x, y
<1>4. /\ ws \in Seq(Writes(Path)) /\ DOMAIN ws = 1 .. 4
      /\ ws[1] = v /\ ws[2] = w /\ ws[3] = x /\ ws[4] = y
  BY <1>1, FourWrites
<1>5. ASSUME NEW path
      PROVE  /\ Mentions(ws, path) <=> \/ path = <<"Pending", c, u>>
                                       \/ path = <<"Requested", u, c>>
                                       \/ path = <<"Followers", c, u>>
                                       \/ path = <<"Following", u, c>>
             /\ LastSets(ws, path) <=> \/ path = <<"Followers", c, u>>
                                       \/ path = <<"Following", u, c>>
  <2>1. /\ Mentions(ws, path)
             <=> v.path = path \/ w.path = path \/ x.path = path \/ y.path = path
        /\ LastSets(ws, path)
             <=> \/ y = SetValue(path)
                 \/ x = SetValue(path) /\ y.path # path
                 \/ w = SetValue(path) /\ x.path # path /\ y.path # path
                 \/ v = SetValue(path) /\ w.path # path /\ x.path # path /\ y.path # path
    BY <1>1, FourWrites
  <2>2. LastSets(ws, path) <=> path = <<"Following", u, c>>
                               \/ (path = <<"Followers", c, u>> /\ y.path # path)
    BY <1>3, <2>1
  <2>3. QED
    BY <1>2, <2>1, <2>2
<1>6. ASSUME NEW i \in DOMAIN ws PROVE PairOf(ws[i].path) = {c, u}
  <2>1. i = 1 \/ i = 2 \/ i = 3 \/ i = 4
    BY <1>4
  <2>2. QED
    BY <1>2, <1>4, <2>1 DEF PairOf
<1> HIDE DEF ws
<1>7. Mirrored(ws, c, u)
  BY <1>4, <1>5, <1>6 DEF Mirrored
<1>8. QED
  BY <1>7 DEF ws, v, w, x, y, AcceptWrites

LEMMA OperationsMirrored ==
  ASSUME NEW c \in Users, NEW u \in Users
  PROVE  /\ Mirrored(FollowWrites(c, u), c, u)
         /\ Mirrored(RequestWrites(c, u), c, u)
         /\ Mirrored(CancelWrites(c, u), c, u)
         /\ Mirrored(AcceptWrites(c, u), c, u)
         /\ Mirrored(WithdrawWrites(c, u), c, u)
         /\ Mirrored(UnfollowWrites(c, u), c, u)
<1>1. /\ <<"Following", "Followers">> \in Sides
      /\ <<"Requested", "Pending">> \in Sides
      /\ <<"Pending", "Requested">> \in Sides
  BY DEF Sides
<1>2. Mirrored(FollowWrites(c, u), c, u)
  BY <1>1, TwoMirrored DEF FollowWrites, SetValue
<1>3. Mirrored(RequestWrites(c, u), c, u)
  BY <1>1, TwoMirrored DEF RequestWrites, SetValue
<1>4. Mirrored(CancelWrites(c, u), c, u)
  BY <1>1, TwoMirrored DEF CancelWrites, RemoveValue
<1>5. Mirrored(WithdrawWrites(c, u), c, u)
  BY <1>1, TwoMirrored DEF WithdrawWrites, RemoveValue
<1>6. Mirrored(UnfollowWrites(c, u), c, u)
  BY <1>1, TwoMirrored DEF UnfollowWrites, RemoveValue
<1>7. QED
  BY <1>2, <1>3, <1>4, <1>5, <1>6, AcceptMirrored

LEMMA AnswerTyped ==
  ASSUME TypeOK, NEW c \in Users, NEW s \in Slots, Answer(c, s)
  PROVE  TypeOK'
<1> DEFINE u == slot[c][s].on
<1>1. u \in Users /\ c \in Users
  BY SlotsTyped DEF Slot
<1>2. \A t \in Titles : FinishShowing(c, s, t) =>
        /\ slot' \in [Users -> [Slots -> Slot]]
        /\ title' \in [Users -> [Users -> Titles]]
  BY <1>1, SlotsTyped, TitlesTyped DEF FinishShowing
<1>3. \A ws : Mirrored(ws, c, u) => ws \in Seq(Writes(Path))
  BY DEF Mirrored
<1>4. ReadAgain(c, s) => /\ slot' \in [Users -> [Slots -> Slot]]
                         /\ title' \in [Users -> [Users -> Titles]]
  BY SlotsTyped DEF ReadAgain, TypeOK
<1> HIDE DEF u
<1>5. CASE ReadFollowState(c, s)
  <2>1. /\ slot' \in [Users -> [Slots -> Slot]]
        /\ title' \in [Users -> [Users -> Titles]]
    BY <1>5, <1>2, SlotsTyped DEF ReadFollowState, Titles, SlotSteps, TypeOK
  <2>2. QED
    BY <1>5, <2>1 DEF ReadFollowState, TypeOK, backendVars, profileVars, boundVars, ghostVars
<1>6. CASE Follow(c, s)
  <2>1. PICK ws \in Seq(Writes(Path)) : Issue(c, u, ws)
    BY <1>6, <1>3, <1>1, OperationsMirrored DEF Follow, u
  <2>2. QED
    BY <1>6, <1>4, <1>1, <2>1, IssueTyped DEF Follow, TypeOK, profileVars, boundVars
<1>7. CASE CancelPending(c, s)
  <2>1. PICK ws \in Seq(Writes(Path)) : Issue(c, u, ws)
    BY <1>7, <1>3, <1>1, OperationsMirrored DEF CancelPending, u
  <2>2. QED
    BY <1>7, <1>4, <1>1, <2>1, IssueTyped DEF CancelPending, TypeOK, profileVars, boundVars
<1>8. CASE AcceptPending(c, s)
  <2>1. PICK ws \in Seq(Writes(Path)) : Issue(c, u, ws)
    BY <1>8, <1>3, <1>1, OperationsMirrored DEF AcceptPending, u
  <2>2. QED
    BY <1>8, <1>4, <1>1, <2>1, IssueTyped DEF AcceptPending, TypeOK, profileVars, boundVars
<1>9. CASE WithdrawRequest(c, s)
  <2>1. PICK ws \in Seq(Writes(Path)) : Issue(c, u, ws)
    BY <1>9, <1>3, <1>1, OperationsMirrored DEF WithdrawRequest, u
  <2>2. "Follow" \in Titles
    BY DEF Titles
  <2>3. QED
    BY <1>9, <1>2, <1>1, <2>1, <2>2, IssueTyped DEF WithdrawRequest, TypeOK, profileVars, boundVars
<1>10. CASE Unfollow(c, s)
  <2>1. PICK ws \in Seq(Writes(Path)) : Issue(c, u, ws)
    BY <1>10, <1>3, <1>1, OperationsMirrored DEF Unfollow, u
  <2>2. "Follow" \in Titles
    BY DEF Titles
  <2>3. QED
    BY <1>10, <1>2, <1>1, <2>1, <2>2, IssueTyped DEF Unfollow, TypeOK, profileVars, boundVars
<1>11. CASE UnfollowLocally(c, s)
  BY <1>11, SlotsTyped DEF UnfollowLocally, TypeOK, SlotSteps,
     backendVars, profileVars, boundVars, ghostVars
<1>12. CASE UnfollowFails(c, s)
  <2>1. /\ slot' \in [Users -> [Slots -> Slot]]
        /\ title' \in [Users -> [Users -> Titles]]
    BY <1>12, <1>2, SlotsTyped DEF UnfollowFails, Titles, TypeOK
  <2>2. QED
    BY <1>12, <2>1 DEF UnfollowFails, TypeOK, backendVars, profileVars, boundVars, ghostVars
<1>13. CASE JournalFails(c, s)
  <2>1. /\ slot' \in [Users -> [Slots -> Slot]]
        /\ title' \in [Users -> [Users -> Titles]]
    BY <1>13, <1>2, <1>4 DEF JournalFails, Titles
  <2>2. QED
    BY <1>13, <2>1 DEF JournalFails, TypeOK, backendVars, profileVars, boundVars, ghostVars
<1>14. QED
  BY <1>5, <1>6, <1>7, <1>8, <1>9, <1>10, <1>11, <1>12, <1>13 DEF Answer

LEMMA UserStepTyped ==
  ASSUME TypeOK, NEW c \in Users, UserStep(c)
  PROVE  TypeOK'
<1> USE BoundsAssumption
<1>1. ASSUME NEW u \in Users, NEW s \in Slots, Display(c, u, s)
      PROVE  TypeOK'
  <2>1. Reading(u) \in Slot /\ "Loading" \in Titles
    BY DEF Reading, Slot, SlotKinds, SlotSteps, Titles
  <2>2. slot' \in [Users -> [Slots -> Slot]] /\ title' \in [Users -> [Users -> Titles]]
    BY <1>1, <2>1, SlotsTyped, TitlesTyped DEF Display
  <2>3. cached' \in [Users -> [Users -> BOOLEAN]] /\ taps' \in [Users -> 0..MaxTaps]
    BY <1>1 DEF Display, TypeOK
  <2>4. QED
    BY <1>1, <2>2, <2>3 DEF Display, TypeOK, backendVars, ghostVars
<1>2. ASSUME NEW u \in Users, NEW s \in Slots, Tap(c, u, s)
      PROVE  TypeOK'
  <2>1. title[c][u] \in Titles \ {"Absent"}
    BY <1>2 DEF Tap, TypeOK
  <2>2. OperationOf(title[c][u]) \in SlotKinds
    BY <2>1 DEF OperationOf, Titles, SlotKinds
  <2>3. \A k \in SlotKinds : FirstStep(k) \in SlotSteps
    BY DEF FirstStep, SlotSteps
  <2>4. [kind |-> OperationOf(title[c][u]), on |-> u, visibility |-> cached[c][u],
         step |-> FirstStep(OperationOf(title[c][u]))] \in Slot
    BY <2>2, <2>3 DEF Slot, TypeOK
  <2>5. slot' = [slot EXCEPT ![c][s] =
                  [kind |-> OperationOf(title[c][u]), on |-> u, visibility |-> cached[c][u],
                   step |-> FirstStep(OperationOf(title[c][u]))]]
    BY <1>2 DEF Tap
  <2>8. slot' \in [Users -> [Slots -> Slot]]
    BY <2>4, <2>5, SlotsTyped
  <2>9. taps' \in [Users -> 0..MaxTaps]
    BY <1>2 DEF Tap, TypeOK
  <2>6. asked' \subseteq Users \X Users
    BY <1>2 DEF Tap, TypeOK
  <2>7. QED
    BY <1>2, <2>6, <2>8, <2>9 DEF Tap, TypeOK, backendVars, profileVars
<1>3. ASSUME NEW s \in Slots, Confirm(c, s)
      PROVE  TypeOK'
  <2>1. slot[c][s].on \in Users /\ slot \in [Users -> [Slots -> Slot]]
    BY SlotsTyped DEF Slot, TypeOK
  <2>2. \A k \in SlotKinds :
          [kind |-> k, on |-> slot[c][s].on,
           visibility |-> slot[c][s].visibility, step |-> "journal"] \in Slot
    BY SlotsTyped DEF Slot, SlotSteps
  <2>3. slot' \in [Users -> [Slots -> Slot]]
    <3>1. CASE Goto(c, s, "journal")
      BY <3>1, SlotsTyped DEF SlotSteps
    <3>2. ASSUME NEW k \in SlotKinds, Decide(c, s, k)
          PROVE  slot' \in [Users -> [Slots -> Slot]]
      <4>1. slot' = [slot EXCEPT ![c][s] =
                       [kind |-> k, on |-> slot[c][s].on,
                        visibility |-> slot[c][s].visibility, step |-> "journal"]]
        BY <3>2 DEF Decide
      <4>2. QED
        BY <2>2, <4>1, SlotsTyped
    <3>3. Decide(c, s, "cancelPending") \/ Decide(c, s, "acceptPending")
            \/ Goto(c, s, "journal")
      BY <1>3 DEF Confirm
    <3>4. "cancelPending" \in SlotKinds /\ "acceptPending" \in SlotKinds
      BY DEF SlotKinds
    <3>5. QED
      BY <3>1, <3>2, <3>3, <3>4
  <2>4. accepted' \subseteq Users \X Users /\ UNCHANGED title
    BY <1>3, <2>1 DEF Confirm, TypeOK
  <2>5. QED
    BY <1>3, <2>3, <2>4 DEF Confirm, TypeOK, backendVars, profileVars, boundVars
<1>4. ASSUME NEW s \in Slots, Cancel(c, s)
      PROVE  TypeOK'
  <2>1. slot[c][s].on \in Users /\ "Pending" \in Titles
    BY SlotsTyped DEF Slot, Titles
  <2>2. slot' \in [Users -> [Slots -> Slot]] /\ title' \in [Users -> [Users -> Titles]]
    BY <1>4, <2>1, SlotsTyped, TitlesTyped DEF Cancel, FinishShowing, TypeOK
  <2>3. QED
    BY <1>4, <2>2 DEF Cancel, TypeOK, backendVars, profileVars, boundVars, ghostVars
<1>5. CASE EditVisibility(c)
  BY <1>5 DEF EditVisibility, TypeOK, backendVars, rowVars
<1>6. QED
  BY <1>1, <1>2, <1>3, <1>4, <1>5 DEF UserStep

(* Every reachable state is well typed: in particular, a title other than  *)
(* the six the button can have, or a step of an operation that its kind    *)
(* does not have a place for, never arises.                                *)
THEOREM TypeCorrect == Spec => []TypeOK
<1>1. Init => TypeOK
  <2>1. SUFFICES ASSUME Init PROVE TypeOK
    OBVIOUS
  <2>2. slot \in [Users -> [Slots -> Slot]]
    BY <2>1 DEF Init, Free, Slot, SlotKinds, SlotSteps
  <2>3. title \in [Users -> [Users -> Titles]]
    BY <2>1 DEF Init, Titles
  <2>4. QED
    BY <2>1, <2>2, <2>3, BoundsAssumption DEF Init, TypeOK
<1>2. TypeOK /\ [Next]_vars => TypeOK'
  <2>1. SUFFICES ASSUME TypeOK, [Next]_vars PROVE TypeOK'
    OBVIOUS
  <2>2. ASSUME NEW c \in Users, UserStep(c) PROVE TypeOK'
    BY <2>1, <2>2, UserStepTyped
  <2>3. ASSUME NEW c \in Users, NEW s \in Slots, Answer(c, s) PROVE TypeOK'
    BY <2>1, <2>3, AnswerTyped
  <2>4. ASSUME NEW c \in Users, NEW u \in Users, ObserveProfile(c, u) PROVE TypeOK'
    BY <2>1, <2>4 DEF ObserveProfile, TypeOK, backendVars, rowVars, boundVars, ghostVars
  <2>5. ASSUME NEW c \in Users, Deliver(c) PROVE TypeOK'
    <3>1. queue[c] \in Seq(Writes(Path)) /\ queue[c] # <<>>
      BY <2>1, <2>5 DEF TypeOK, Deliver
    <3>2. Head(queue[c]) \in Writes(Path) /\ Tail(queue[c]) \in Seq(Writes(Path))
      BY <3>1
    <3>3. db' \subseteq Path /\ queue' \in [Users -> Seq(Writes(Path))]
      BY <2>1, <2>5, <3>2 DEF Deliver, TypeOK, Apply, Writes
    <3>4. QED
      BY <2>1, <2>5, <3>3 DEF Deliver, TypeOK, profileVars, rowVars, boundVars, ghostVars
  <2>6. ASSUME NEW c \in Users, Crash(c) PROVE TypeOK'
    <3>1. Free(c) \in Slot /\ "Absent" \in Titles /\ <<>> \in Seq(Writes(Path))
      BY DEF Free, Slot, SlotKinds, SlotSteps, Titles
    <3>2. /\ slot' \in [Users -> [Slots -> Slot]]
          /\ title' \in [Users -> [Users -> Titles]]
          /\ queue' \in [Users -> Seq(Writes(Path))]
      BY <2>1, <2>6, <3>1 DEF Crash, TypeOK
    <3>3. torn' \subseteq SUBSET Users /\ crashes' \in [Users -> 0..MaxCrashes]
      BY <2>1, <2>6, BoundsAssumption DEF Crash, TypeOK
    <3>4. QED
      BY <2>1, <2>6, <3>2, <3>3 DEF Crash, TypeOK, profileVars
  <2>7. CASE UNCHANGED vars
    BY <2>1, <2>7 DEF vars, TypeOK, backendVars, profileVars, rowVars, boundVars, ghostVars
  <2>8. QED
    BY <2>1, <2>2, <2>3, <2>4, <2>5, <2>6, <2>7 DEF Next, ClientStep
<1>3. QED
  BY <1>1, <1>2, PTL DEF Spec

-----------------------------------------------------------------------------
(* Agreement of the two sides of a pair.                                   *)
(*                                                                         *)
(* PairAgreement speaks of pairs with no write on the way, which tells     *)
(* nothing of the pair while a write is.  What every step keeps is that an *)
(* untorn pair has at most one writer, and that the two sides agree in     *)
(* what that writer reads, its unsent writes included.                     *)

AgreeSeen(c, a, b) ==
  /\ Sees(db, queue[c], <<"Following", a, b>>) <=> Sees(db, queue[c], <<"Followers", b, a>>)
  /\ Sees(db, queue[c], <<"Requested", a, b>>) <=> Sees(db, queue[c], <<"Pending", b, a>>)

OneWriter ==
  \A p \in (SUBSET Users) \ torn : \A c, d \in Users :
     Touches(queue[c], p) /\ Touches(queue[d], p) => c = d

WriterAgrees ==
  \A a, b, c \in Users :
     \/ {a, b} \in torn
     \/ \E d \in Users \ {c} : Touches(queue[d], {a, b})
     \/ AgreeSeen(c, a, b)

PairInv == OneWriter /\ WriterAgrees

LEMMA MentionsTouches ==
  ASSUME NEW q, NEW l, NEW a, NEW b, Mentions(q, <<l, a, b>>)
  PROVE  Touches(q, {a, b})
  BY DEF Mentions, Touches, PairOf

LEMMA TouchesAppend ==
  ASSUME NEW q \in Seq(Writes(Path)), NEW ws \in Seq(Writes(Path)), NEW p
  PROVE  Touches(q \o ws, p) <=> Touches(q, p) \/ Touches(ws, p)
<1>1. ASSUME NEW i \in DOMAIN q, PairOf(q[i].path) = p PROVE Touches(q \o ws, p)
  BY <1>1, AppendPositions DEF Touches
<1>2. ASSUME NEW i \in DOMAIN ws, PairOf(ws[i].path) = p PROVE Touches(q \o ws, p)
  <2>1. Len(q) + i \in DOMAIN (q \o ws) /\ (q \o ws)[Len(q) + i] = ws[i]
    BY AppendPositions
  <2>2. QED
    BY <1>2, <2>1 DEF Touches
<1>3. ASSUME NEW i \in DOMAIN (q \o ws), PairOf((q \o ws)[i].path) = p
      PROVE  Touches(q, p) \/ Touches(ws, p)
  BY <1>3, AppendPositions DEF Touches
<1>4. QED
  BY <1>1, <1>2, <1>3 DEF Touches

LEMMA IssueKeepsPairInv ==
  ASSUME TypeOK, PairInv, NEW c \in Users, NEW u \in Users, NEW ws,
         Mirrored(ws, c, u), Issue(c, u, ws)
  PROVE  PairInv'
<1>1. /\ ws \in Seq(Writes(Path)) /\ queue[c] \in Seq(Writes(Path))
      /\ db' = db /\ queue' = [queue EXCEPT ![c] = queue[c] \o ws]
      /\ queue'[c] = queue[c] \o ws
      /\ \A d \in Users \ {c} : queue'[d] = queue[d]
  BY DEF TypeOK, Mirrored, Issue
<1>2. \A p : Touches(ws, p) <=> p = {c, u}
  BY DEF Mirrored, Touches
<1>3. \A p : Touches(queue'[c], p) <=> Touches(queue[c], p) \/ p = {c, u}
  <2>1. \A p : Touches(queue[c] \o ws, p) <=> Touches(queue[c], p) \/ Touches(ws, p)
    BY <1>1, TouchesAppend
  <2>2. QED
    BY <1>1, <1>2, <2>1, Zenon
<1>4. torn \subseteq torn'
  BY DEF Issue
<1>5. {c, u} \in torn' \/ \A d \in Users \ {c} : ~Touches(queue[d], {c, u})
  BY DEF Issue
<1>6. OneWriter'
  <2>1. SUFFICES ASSUME NEW p \in SUBSET Users, p \notin torn', NEW d \in Users, NEW e \in Users,
                        Touches(queue'[d], p), Touches(queue'[e], p)
                 PROVE  d = e
    BY DEF OneWriter
  <2>2. p \notin torn
    BY <1>4, <2>1
  <2>3. CASE p = {c, u}
    <3>1. d = c
      BY <1>1, <1>5, <2>1, <2>3
    <3>2. e = c
      BY <1>1, <1>5, <2>1, <2>3
    <3>3. QED
      BY <3>1, <3>2
  <2>4. CASE p # {c, u}
    <3>1. Touches(queue[d], p) /\ Touches(queue[e], p)
      BY <1>1, <1>3, <2>1, <2>4
    <3>2. QED
      BY <2>2, <3>1 DEF PairInv, OneWriter
  <2>5. QED
    BY <2>3, <2>4
<1>7. WriterAgrees'
  <2>1. SUFFICES ASSUME NEW a \in Users, NEW b \in Users, NEW e \in Users,
                        {a, b} \notin torn',
                        \A d \in Users \ {e} : ~Touches(queue'[d], {a, b})
                 PROVE  AgreeSeen(e, a, b)'
    BY DEF WriterAgrees
  <2>2. {a, b} \notin torn
    BY <1>4, <2>1
  <2>3. \A d \in Users \ {e} : ~Touches(queue[d], {a, b})
    BY <1>1, <1>3, <2>1
  <2>4. AgreeSeen(e, a, b)
    BY <2>2, <2>3 DEF PairInv, WriterAgrees
  <2>5. CASE e = c
    <3>1. \A path : Sees(db, queue'[c], path)
            <=> LastSets(ws, path) \/ (~Mentions(ws, path) /\ Sees(db, queue[c], path))
      BY <1>1, SeesAppend
    <3>2. /\ Mentions(ws, <<"Following", a, b>>) <=> Mentions(ws, <<"Followers", b, a>>)
          /\ LastSets(ws, <<"Following", a, b>>) <=> LastSets(ws, <<"Followers", b, a>>)
          /\ Mentions(ws, <<"Requested", a, b>>) <=> Mentions(ws, <<"Pending", b, a>>)
          /\ LastSets(ws, <<"Requested", a, b>>) <=> LastSets(ws, <<"Pending", b, a>>)
      BY DEF Mirrored
    <3>3. QED
      BY <1>1, <2>4, <2>5, <3>1, <3>2 DEF AgreeSeen
  <2>6. CASE e # c
    BY <1>1, <2>4, <2>6 DEF AgreeSeen
  <2>7. QED
    BY <2>5, <2>6
<1>8. QED
  BY <1>6, <1>7 DEF PairInv

LEMMA DeliverKeepsPairInv ==
  ASSUME TypeOK, PairInv, NEW c \in Users, Deliver(c)
  PROVE  PairInv'
<1>1. /\ queue[c] \in Seq(Writes(Path)) /\ queue[c] # <<>>
      /\ db' = Apply(db, Head(queue[c])) /\ torn' = torn
      /\ queue'[c] = Tail(queue[c])
      /\ \A d \in Users \ {c} : queue'[d] = queue[d]
  BY DEF TypeOK, Deliver, ghostVars
<1>2. \A p : Touches(queue'[c], p) => Touches(queue[c], p)
  <2>1. \A i \in DOMAIN Tail(queue[c]) : /\ i + 1 \in DOMAIN queue[c]
                                         /\ Tail(queue[c])[i] = queue[c][i + 1]
    BY <1>1, TailPositions
  <2>2. \A p : Touches(Tail(queue[c]), p) => Touches(queue[c], p)
    BY <2>1 DEF Touches
  <2>3. QED
    BY <1>1, <2>2, Zenon
<1>3. \A d \in Users, p \in SUBSET Users : Touches(queue'[d], p) => Touches(queue[d], p)
  BY <1>1, <1>2
<1>4. OneWriter'
  BY <1>1, <1>3 DEF PairInv, OneWriter
<1>5. \A path : Sees(db', queue'[c], path) <=> Sees(db, queue[c], path)
  <2>1. \A path : Sees(Apply(db, Head(queue[c])), Tail(queue[c]), path)
                    <=> Sees(db, queue[c], path)
    BY <1>1, SeesDeliver
  <2>2. QED
    BY <1>1, <2>1, Zenon
<1>6. WriterAgrees'
  <2>1. SUFFICES ASSUME NEW a \in Users, NEW b \in Users, NEW e \in Users,
                        {a, b} \notin torn,
                        \A d \in Users \ {e} : ~Touches(queue'[d], {a, b})
                 PROVE  AgreeSeen(e, a, b)'
    BY <1>1 DEF WriterAgrees
  <2>2. CASE Touches(queue[c], {a, b})
    (* c was the only writer of the pair, so the two sides agree in what c *)
    (* reads; if e is another client, no write on the pair is left.        *)
    <3>1. \A d \in Users \ {c} : ~Touches(queue[d], {a, b})
      BY <2>1, <2>2 DEF PairInv, OneWriter
    <3>2. AgreeSeen(c, a, b)
      BY <2>1, <3>1 DEF PairInv, WriterAgrees
    <3>3. AgreeSeen(c, a, b)'
      BY <1>5, <3>2 DEF AgreeSeen
    <3>4. CASE e = c
      BY <3>3, <3>4
    <3>5. CASE e # c
      <4>1. ~Touches(queue'[c], {a, b}) /\ ~Touches(queue'[e], {a, b})
        BY <1>1, <2>1, <3>1, <3>5
      <4>2. \A d \in {c, e}, l \in Lists :
              /\ Sees(db', queue'[d], <<l, a, b>>) <=> <<l, a, b>> \in db'
              /\ Sees(db', queue'[d], <<l, b, a>>) <=> <<l, b, a>> \in db'
        <5>1. ASSUME NEW d \in {c, e}, NEW l \in Lists
              PROVE  /\ ~Mentions(queue'[d], <<l, a, b>>) /\ ~LastSets(queue'[d], <<l, a, b>>)
                     /\ ~Mentions(queue'[d], <<l, b, a>>) /\ ~LastSets(queue'[d], <<l, b, a>>)
          <6>1. ~Touches(queue'[d], {a, b}) /\ ~Touches(queue'[d], {b, a})
            BY <4>1
          <6>2. ~Mentions(queue'[d], <<l, a, b>>) /\ ~Mentions(queue'[d], <<l, b, a>>)
            BY <6>1, MentionsTouches
          <6>3. \A path : LastSets(queue'[d], path) => Mentions(queue'[d], path)
            BY DEF LastSets, Mentions, SetValue
          <6>4. QED
            BY <6>2, <6>3
        <5>2. QED
          BY <5>1 DEF Sees
      <4>3. QED
        BY <3>3, <4>2 DEF AgreeSeen, Lists
    <3>6. QED
      BY <3>4, <3>5
  <2>3. CASE ~Touches(queue[c], {a, b})
    <3>1. \A d \in Users \ {e} : ~Touches(queue[d], {a, b})
      BY <1>1, <2>1, <2>3
    <3>2. AgreeSeen(e, a, b)
      BY <2>1, <3>1 DEF PairInv, WriterAgrees
    <3>3. CASE e = c
      BY <1>5, <3>2, <3>3 DEF AgreeSeen
    <3>4. CASE e # c
      <4>1. Head(queue[c]) \in Writes(Path) /\ PairOf(Head(queue[c]).path) # {a, b}
        BY <1>1, <2>3, TailPositions DEF Touches
      <4>2. \A l \in Lists : /\ <<l, a, b>> \in db' <=> <<l, a, b>> \in db
                             /\ <<l, b, a>> \in db' <=> <<l, b, a>> \in db
        BY <1>1, <4>1 DEF Apply, PairOf
      <4>3. \A l \in Lists :
              /\ Sees(db', queue'[e], <<l, a, b>>) <=> Sees(db, queue[e], <<l, a, b>>)
              /\ Sees(db', queue'[e], <<l, b, a>>) <=> Sees(db, queue[e], <<l, b, a>>)
        BY <1>1, <3>4, <4>2 DEF Sees
      <4>4. QED
        BY <3>2, <4>3 DEF AgreeSeen, Lists
    <3>5. QED
      BY <3>3, <3>4
  <2>4. QED
    BY <2>2, <2>3
<1>7. QED
  BY <1>4, <1>6 DEF PairInv

LEMMA CrashKeepsPairInv ==
  ASSUME TypeOK, PairInv, NEW c \in Users, Crash(c)
  PROVE  PairInv'
<1>1. /\ db' = db /\ queue'[c] = <<>>
      /\ \A d \in Users \ {c} : queue'[d] = queue[d]
      /\ torn' = torn \union {p \in SUBSET Users : Touches(queue[c], p)}
  BY DEF TypeOK, Crash
<1>2. \A p : ~Touches(queue'[c], p)
  BY <1>1 DEF Touches
<1>3. OneWriter'
  BY <1>1, <1>2 DEF PairInv, OneWriter
<1>4. WriterAgrees'
  <2>1. SUFFICES ASSUME NEW a \in Users, NEW b \in Users, NEW e \in Users,
                        {a, b} \notin torn',
                        \A d \in Users \ {e} : ~Touches(queue'[d], {a, b})
                 PROVE  AgreeSeen(e, a, b)'
    BY DEF WriterAgrees
  <2>2. {a, b} \notin torn /\ ~Touches(queue[c], {a, b})
    BY <1>1, <2>1
  <2>3. \A d \in Users \ {e} : ~Touches(queue[d], {a, b})
    BY <1>1, <2>1, <2>2
  <2>4. AgreeSeen(e, a, b)
    BY <2>2, <2>3 DEF PairInv, WriterAgrees
  <2>5. CASE e # c
    BY <1>1, <2>4, <2>5 DEF AgreeSeen
  <2>6. CASE e = c
    (* c had no unsent write on the pair: it reads what it read before.    *)
    <3>1. \A l \in Lists : /\ ~Mentions(queue[c], <<l, a, b>>) /\ ~LastSets(queue[c], <<l, a, b>>)
                           /\ ~Mentions(queue[c], <<l, b, a>>) /\ ~LastSets(queue[c], <<l, b, a>>)
      <4>1. {a, b} = {b, a}
        OBVIOUS
      <4>2. \A l \in Lists : /\ ~Mentions(queue[c], <<l, a, b>>)
                             /\ ~Mentions(queue[c], <<l, b, a>>)
        BY <2>2, <4>1, MentionsTouches
      <4>3. \A path : LastSets(queue[c], path) => Mentions(queue[c], path)
        BY DEF LastSets, Mentions, SetValue
      <4>4. QED
        BY <4>2, <4>3
    <3>2. \A path : ~Mentions(<<>>, path) /\ ~LastSets(<<>>, path)
      BY DEF Mentions, LastSets
    <3>3. \A l \in Lists :
            /\ Sees(db', queue'[c], <<l, a, b>>) <=> Sees(db, queue[c], <<l, a, b>>)
            /\ Sees(db', queue'[c], <<l, b, a>>) <=> Sees(db, queue[c], <<l, b, a>>)
      BY <1>1, <3>1, <3>2 DEF Sees
    <3>4. QED
      BY <2>4, <2>6, <3>3 DEF AgreeSeen, Lists
  <2>7. QED
    BY <2>5, <2>6
<1>5. QED
  BY <1>3, <1>4 DEF PairInv

(* Of the answers, the five operations issue mirrored writes; the others   *)
(* touch neither the backend nor the queues.                               *)
LEMMA AnswerIssues ==
  ASSUME TypeOK, NEW c \in Users, NEW s \in Slots, Answer(c, s)
  PROVE  \/ \E ws : \E u \in Users : Mirrored(ws, c, u) /\ Issue(c, u, ws)
         \/ UNCHANGED <<db, queue, torn>>
<1> DEFINE u == slot[c][s].on
<1>1. u \in Users
  BY SlotsTyped DEF Slot
<1>2. CASE Follow(c, s)
  <2>1. Issue(c, u, FollowWrites(c, u)) \/ Issue(c, u, RequestWrites(c, u))
    BY <1>2 DEF Follow
  <2>2. QED
    BY <1>1, <2>1, OperationsMirrored
<1>3. CASE CancelPending(c, s)
  BY <1>1, <1>3, OperationsMirrored DEF CancelPending
<1>4. CASE AcceptPending(c, s)
  BY <1>1, <1>4, OperationsMirrored DEF AcceptPending
<1>5. CASE WithdrawRequest(c, s)
  BY <1>1, <1>5, OperationsMirrored DEF WithdrawRequest
<1>6. CASE Unfollow(c, s)
  BY <1>1, <1>6, OperationsMirrored DEF Unfollow
<1>7. CASE ReadFollowState(c, s) \/ UnfollowLocally(c, s) \/ UnfollowFails(c, s)
             \/ JournalFails(c, s)
  BY <1>7 DEF ReadFollowState, UnfollowLocally, UnfollowFails, JournalFails,
     backendVars, ghostVars
<1>8. QED
  BY <1>2, <1>3, <1>4, <1>5, <1>6, <1>7 DEF Answer

LEMMA PairInvIsInvariant == Spec => []PairInv
<1>1. Init => PairInv
  <2>1. SUFFICES ASSUME Init PROVE PairInv
    OBVIOUS
  <2>2. \A c \in Users : queue[c] = <<>> /\ db = {}
    BY <2>1 DEF Init
  <2>3. \A c \in Users : \A p : ~Touches(queue[c], p)
    BY <2>2 DEF Touches
  <2>4. \A c \in Users : \A path : ~Sees(db, queue[c], path)
    BY <2>2 DEF Sees, LastSets
  <2>5. QED
    BY <2>3, <2>4 DEF PairInv, OneWriter, WriterAgrees, AgreeSeen
<1>2. TypeOK /\ PairInv /\ [Next]_vars => PairInv'
  <2>1. SUFFICES ASSUME TypeOK, PairInv, [Next]_vars PROVE PairInv'
    OBVIOUS
  <2>2. ASSUME UNCHANGED <<db, queue, torn>> PROVE PairInv'
    BY <2>1, <2>2 DEF PairInv, OneWriter, WriterAgrees, AgreeSeen
  <2>3. ASSUME NEW c \in Users, UserStep(c) PROVE PairInv'
    BY <2>2, <2>3 DEF UserStep, Display, Tap, Confirm, Cancel, EditVisibility,
       backendVars, ghostVars
  <2>4. ASSUME NEW c \in Users, NEW s \in Slots, Answer(c, s) PROVE PairInv'
    <3>1. CASE UNCHANGED <<db, queue, torn>>
      BY <2>2, <3>1
    <3>2. CASE \E ws : \E u \in Users : Mirrored(ws, c, u) /\ Issue(c, u, ws)
      <4>1. PICK ws : \E u \in Users : Mirrored(ws, c, u) /\ Issue(c, u, ws)
        BY <3>2
      <4>2. QED
        BY <2>1, <4>1, IssueKeepsPairInv
    <3>3. QED
      BY <2>1, <2>4, <3>1, <3>2, AnswerIssues
  <2>5. ASSUME NEW c \in Users, NEW u \in Users, ObserveProfile(c, u) PROVE PairInv'
    BY <2>2, <2>5 DEF ObserveProfile, backendVars, ghostVars
  <2>6. ASSUME NEW c \in Users, Deliver(c) PROVE PairInv'
    BY <2>1, <2>6, DeliverKeepsPairInv
  <2>7. ASSUME NEW c \in Users, Crash(c) PROVE PairInv'
    BY <2>1, <2>7, CrashKeepsPairInv
  <2>8. CASE UNCHANGED vars
    BY <2>2, <2>8 DEF vars, backendVars, ghostVars
  <2>9. QED
    BY <2>1, <2>3, <2>4, <2>5, <2>6, <2>7, <2>8 DEF Next, ClientStep
<1>3. QED
  BY <1>1, <1>2, TypeCorrect, PTL DEF Spec

(* Whatever the interleaving of reads, taps, answers, deliveries and       *)
(* crashes: with no write on a pair on its way, its two sides agree,       *)
(* unless the edits of the pair were torn.                                 *)
THEOREM PairsAgree == Spec => []PairAgreement
<1>1. PairInv => PairAgreement
  <2>1. SUFFICES ASSUME PairInv, NEW a \in Users, NEW b \in Users,
                        {a, b} \notin torn, \A c \in Users : ~Touches(queue[c], {a, b})
                 PROVE  Agree(a, b)
    BY DEF PairAgreement, Unsent
  <2>2. AgreeSeen(a, a, b)
    BY <2>1 DEF PairInv, WriterAgrees
  <2>3. \A l \in Lists : ~Mentions(queue[a], <<l, a, b>>) /\ ~Mentions(queue[a], <<l, b, a>>)
    <3>1. {a, b} = {b, a}
      OBVIOUS
    <3>2. QED
      BY <2>1, <3>1, MentionsTouches
  <2>4. \A path : LastSets(queue[a], path) => Mentions(queue[a], path)
    BY DEF LastSets, Mentions, SetValue
  <2>5. \A l \in Lists : /\ Sees(db, queue[a], <<l, a, b>>) <=> <<l, a, b>> \in db
                         /\ Sees(db, queue[a], <<l, b, a>>) <=> <<l, b, a>> \in db
    BY <2>3, <2>4 DEF Sees
  <2>6. QED
    BY <2>2, <2>5 DEF Agree, AgreeSeen, Lists
<1>2. QED
  BY <1>1, PairInvIsInvariant, PTL

-----------------------------------------------------------------------------
(* Consent.                                                                *)
(*                                                                         *)
(* Consent speaks of the entries that have arrived.  To keep it, every     *)
(* write under way, every title that offers a decision, every operation in *)
(* flight and every cached profile must be traceable to what its user once *)
(* did or saw.                                                             *)

MayLink(a, b)    == <<a, b>> \in asked /\ (b \in wasPublic \/ <<a, b>> \in accepted)
MayRequest(a, b) == <<a, b>> \in asked /\ b \in wasPrivate

Justified(path) ==
  /\ path[1] = "Following" => MayLink(path[2], path[3])
  /\ path[1] = "Followers" => MayLink(path[3], path[2])
  /\ path[1] = "Requested" => MayRequest(path[2], path[3])
  /\ path[1] = "Pending"   => MayRequest(path[3], path[2])

EntriesJustified == \A p \in db : Justified(p)

WritesJustified ==
  \A c \in Users : \A i \in DOMAIN queue[c] :
     queue[c][i].to => Justified(queue[c][i].path)

WasSeen(u, shown) == IF shown THEN u \in wasPublic ELSE u \in wasPrivate

ProfilesSeen == \A u \in Users : /\ WasSeen(u, visible[u])
                                 /\ \A c \in Users : WasSeen(u, cached[c][u])

TitlesHonest == \A c, u \in Users : title[c][u] = "Pending" => <<u, c>> \in asked

SlotHonest(c, r) ==
  /\ r.kind \in {"decide", "acceptPending", "cancelPending"} => <<r.on, c>> \in asked
  /\ r.kind = "acceptPending" => <<r.on, c>> \in accepted
  /\ r.kind = "follow" => <<c, r.on>> \in asked /\ WasSeen(r.on, r.visibility)

SlotsHonest == \A c \in Users, s \in Slots : SlotHonest(c, slot[c][s])

ConsentInv == /\ EntriesJustified /\ WritesJustified /\ ProfilesSeen
              /\ TitlesHonest /\ SlotsHonest /\ accepted \subseteq asked

(* What a user once did or saw stays done or seen.                         *)
Grows == /\ asked \subseteq asked' /\ accepted \subseteq accepted'
         /\ wasPublic \subseteq wasPublic' /\ wasPrivate \subseteq wasPrivate'

LEMMA GrowthKeeps ==
  ASSUME Grows
  PROVE  /\ \A p : Justified(p) => Justified(p)'
         /\ \A u, v : WasSeen(u, v) => WasSeen(u, v)'
         /\ \A c, r : SlotHonest(c, r) => SlotHonest(c, r)'
  BY DEF Grows, Justified, MayLink, MayRequest, WasSeen, SlotHonest

LEMMA SeesJustified ==
  ASSUME ConsentInv, NEW c \in Users, NEW path, Sees(db, queue[c], path)
  PROVE  Justified(path)
<1>1. CASE path \in db
  BY <1>1 DEF ConsentInv, EntriesJustified
<1>2. CASE LastSets(queue[c], path)
  <2>1. PICK i \in DOMAIN queue[c] : queue[c][i] = SetValue(path)
    BY <1>2 DEF LastSets
  <2>2. queue[c][i].to = TRUE /\ queue[c][i].path = path
    BY <2>1 DEF SetValue
  <2>3. QED
    BY <2>2 DEF ConsentInv, WritesJustified
<1>3. QED
  BY <1>1, <1>2 DEF Sees

(* A step that replaces one slot by an honest one keeps all honest; and so *)
(* for a title.                                                            *)
LEMMA SlotStepHonest ==
  ASSUME TypeOK, ConsentInv, Grows,
         NEW c \in Users, NEW s \in Slots, NEW r, SlotHonest(c, r)',
         slot' = [slot EXCEPT ![c][s] = r]
  PROVE  SlotsHonest'
<1>1. SUFFICES ASSUME NEW d \in Users, NEW z \in Slots, NEW x, x = slot'[d][z]
               PROVE  SlotHonest(d, x)'
  BY DEF SlotsHonest, SlotHonest
<1>2. x = IF d = c /\ z = s THEN r ELSE slot[d][z]
  BY <1>1 DEF TypeOK
<1>3. CASE d = c /\ z = s
  BY <1>2, <1>3
<1>4. CASE ~(d = c /\ z = s)
  <2>1. SlotHonest(d, x)
    BY <1>2, <1>4 DEF ConsentInv, SlotsHonest
  <2>2. QED
    BY <2>1, GrowthKeeps
<1>5. QED
  BY <1>3, <1>4

LEMMA TitleStepHonest ==
  ASSUME TypeOK, ConsentInv, Grows,
         NEW c \in Users, NEW u \in Users, NEW t,
         Show(c, u, t), t = "Pending" => <<u, c>> \in asked'
  PROVE  TitlesHonest'
<1>1. SUFFICES ASSUME NEW d \in Users, NEW x \in Users, title'[d][x] = "Pending"
               PROVE  <<x, d>> \in asked'
  BY DEF TitlesHonest
<1>2. title[d][x] = "Pending" => <<x, d>> \in asked'
  BY DEF ConsentInv, TitlesHonest, Grows
<1>3. title'[d][x] = IF d = c /\ x = u THEN t ELSE title[d][x]
  BY DEF TypeOK, Show
<1>4. QED
  BY <1>1, <1>2, <1>3

LEMMA TitlesKept ==
  ASSUME ConsentInv, Grows, UNCHANGED title
  PROVE  TitlesHonest'
  BY DEF ConsentInv, TitlesHonest, Grows

LEMMA QuietStepKeepsEntries ==
  ASSUME ConsentInv, Grows, UNCHANGED <<db, queue>>
  PROVE  EntriesJustified' /\ WritesJustified'
  BY GrowthKeeps DEF ConsentInv, EntriesJustified, WritesJustified

(* The writes of an operation are justified when those that set an entry   *)
(* are.                                                                    *)
LEMMA IssueKeepsEntries ==
  ASSUME TypeOK, ConsentInv, NEW c \in Users, NEW u \in Users,
         NEW ws \in Seq(Writes(Path)), Issue(c, u, ws),
         \A i \in DOMAIN ws : ws[i].to => Justified(ws[i].path)
  PROVE  /\ EntriesJustified' /\ WritesJustified' /\ Grows
         /\ UNCHANGED <<asked, accepted, wasPublic, wasPrivate>>
<1>1. /\ UNCHANGED <<db, asked, accepted, wasPublic, wasPrivate>>
      /\ queue' = [queue EXCEPT ![c] = queue[c] \o ws]
      /\ queue[c] \in Seq(Writes(Path))
  BY DEF Issue, TypeOK
<1>2. Grows
  BY <1>1 DEF Grows
<1>3. EntriesJustified'
  BY <1>1, <1>2, GrowthKeeps DEF ConsentInv, EntriesJustified
<1>4. WritesJustified'
  <2>1. SUFFICES ASSUME NEW d \in Users, NEW i \in DOMAIN queue'[d], NEW w,
                        w = queue'[d][i], w.to
                 PROVE  Justified(w.path)'
    BY DEF WritesJustified, Justified, MayLink, MayRequest
  <2>2. CASE d # c
    <3>1. i \in DOMAIN queue[d] /\ w = queue[d][i]
      BY <1>1, <2>1, <2>2 DEF TypeOK
    <3>2. Justified(w.path)
      BY <2>1, <3>1 DEF ConsentInv, WritesJustified
    <3>3. QED
      BY <1>2, <3>2, GrowthKeeps
  <2>3. CASE d = c
    <3>1. i \in DOMAIN (queue[c] \o ws) /\ w = (queue[c] \o ws)[i]
      BY <1>1, <2>1, <2>3 DEF TypeOK
    <3>2. \/ i \in DOMAIN queue[c] /\ w = queue[c][i]
          \/ \E j \in DOMAIN ws : w = ws[j]
      BY <1>1, <3>1, AppendPositions
    <3>3. Justified(w.path)
      BY <2>1, <3>2 DEF ConsentInv, WritesJustified
    <3>4. QED
      BY <1>2, <3>3, GrowthKeeps
  <2>4. QED
    BY <2>2, <2>3
<1>5. QED
  BY <1>1, <1>2, <1>3, <1>4

(* What an honest operation may write.                                     *)
LEMMA WritesAreJustified ==
  ASSUME NEW c \in Users, NEW u \in Users
  PROVE  /\ MayLink(c, u) => \A i \in DOMAIN FollowWrites(c, u) :
              Justified(FollowWrites(c, u)[i].path)
         /\ MayRequest(c, u) => \A i \in DOMAIN RequestWrites(c, u) :
              Justified(RequestWrites(c, u)[i].path)
         /\ MayLink(u, c) => \A i \in DOMAIN AcceptWrites(c, u) :
              AcceptWrites(c, u)[i].to => Justified(AcceptWrites(c, u)[i].path)
         /\ \A i \in DOMAIN CancelWrites(c, u) : ~CancelWrites(c, u)[i].to
         /\ \A i \in DOMAIN WithdrawWrites(c, u) : ~WithdrawWrites(c, u)[i].to
         /\ \A i \in DOMAIN UnfollowWrites(c, u) : ~UnfollowWrites(c, u)[i].to
<1>1. ASSUME NEW v, NEW w, NEW i \in DOMAIN <<v, w>> PROVE <<v, w>>[i] = v \/ <<v, w>>[i] = w
  OBVIOUS
<1>2. ASSUME NEW v, NEW w, NEW x, NEW y, NEW i \in DOMAIN <<v, w, x, y>>
      PROVE  \/ <<v, w, x, y>>[i] = v \/ <<v, w, x, y>>[i] = w
             \/ <<v, w, x, y>>[i] = x \/ <<v, w, x, y>>[i] = y
  OBVIOUS
<1>3. \A p : ~RemoveValue(p).to
  BY DEF RemoveValue
<1>4. \A p : SetValue(p).path = p
  BY DEF SetValue
<1>5. MayLink(c, u) => /\ Justified(<<"Following", c, u>>)
                       /\ Justified(<<"Followers", u, c>>)
  BY DEF Justified
<1>6. MayRequest(c, u) => /\ Justified(<<"Requested", c, u>>)
                          /\ Justified(<<"Pending", u, c>>)
  BY DEF Justified
<1>7. MayLink(u, c) => /\ Justified(<<"Followers", c, u>>)
                       /\ Justified(<<"Following", u, c>>)
  BY DEF Justified
<1>8. MayLink(c, u) => \A i \in DOMAIN FollowWrites(c, u) :
              Justified(FollowWrites(c, u)[i].path)
  BY <1>1, <1>4, <1>5 DEF FollowWrites
<1>9. MayRequest(c, u) => \A i \in DOMAIN RequestWrites(c, u) :
              Justified(RequestWrites(c, u)[i].path)
  BY <1>1, <1>4, <1>6 DEF RequestWrites
<1>10. MayLink(u, c) => \A i \in DOMAIN AcceptWrites(c, u) :
              AcceptWrites(c, u)[i].to => Justified(AcceptWrites(c, u)[i].path)
  BY <1>2, <1>3, <1>4, <1>7 DEF AcceptWrites
<1>11. \A i \in DOMAIN CancelWrites(c, u) : ~CancelWrites(c, u)[i].to
  BY <1>1, <1>3 DEF CancelWrites
<1>12. \A i \in DOMAIN WithdrawWrites(c, u) : ~WithdrawWrites(c, u)[i].to
  BY <1>1, <1>3 DEF WithdrawWrites
<1>13. \A i \in DOMAIN UnfollowWrites(c, u) : ~UnfollowWrites(c, u)[i].to
  BY <1>1, <1>3 DEF UnfollowWrites
<1>14. QED
  BY <1>8, <1>9, <1>10, <1>11, <1>12, <1>13

LEMMA UserStepKeepsConsent ==
  ASSUME TypeOK, ConsentInv, NEW c \in Users, UserStep(c)
  PROVE  ConsentInv'
<1>1. ASSUME NEW u \in Users, NEW s \in Slots, Display(c, u, s)
      PROVE  ConsentInv'
  <2>1. Grows /\ UNCHANGED <<db, queue, visible, asked, accepted, wasPublic, wasPrivate>>
    BY <1>1 DEF Display, Grows, backendVars, ghostVars
  <2>2. PICK r : r = Reading(u)
    OBVIOUS
  <2>3. SlotHonest(c, r)'
    BY <2>2 DEF SlotHonest, Reading
  <2>4. TitlesHonest' /\ SlotsHonest'
    <3>1. slot' = [slot EXCEPT ![c][s] = r]
      BY <1>1, <2>2 DEF Display
    <3>2. Show(c, u, "Loading")
      BY <1>1 DEF Display
    <3>3. SlotsHonest'
      BY <2>1, <2>3, <3>1, SlotStepHonest
    <3>4. "Loading" # "Pending"
      OBVIOUS
    <3>5. TitlesHonest'
      BY <2>1, <3>2, <3>4, TitleStepHonest
    <3>6. QED
      BY <3>3, <3>5
  <2>5. ProfilesSeen'
    BY <1>1, <2>1 DEF Display, ConsentInv, ProfilesSeen, WasSeen, TypeOK
  <2>6. QED
    BY <2>1, <2>4, <2>5, QuietStepKeepsEntries DEF ConsentInv
<1>2. ASSUME NEW u \in Users, NEW s \in Slots, Tap(c, u, s)
      PROVE  ConsentInv'
  <2>1. /\ Grows
        /\ UNCHANGED <<db, queue, visible, cached, title, accepted, wasPublic, wasPrivate>>
    BY <1>2 DEF Tap, Grows, backendVars, profileVars
  <2>2. PICK r : r = [kind |-> OperationOf(title[c][u]), on |-> u, visibility |-> cached[c][u],
                      step |-> FirstStep(OperationOf(title[c][u]))]
    OBVIOUS
  <2>3. slot' = [slot EXCEPT ![c][s] = r]
    BY <1>2, <2>2 DEF Tap
  <2>4. /\ r.on = u /\ r.visibility = cached[c][u]
        /\ r.kind = "follow" => <<c, u>> \in asked'
    BY <1>2, <2>2 DEF Tap
  <2>5. title[c][u] \in Titles \ {"Absent"}
    BY <1>2 DEF Tap, TypeOK
  <2>6. r.kind \in {"decide", "acceptPending", "cancelPending"} =>
          r.kind = "decide" /\ title[c][u] = "Pending"
    BY <2>2, <2>5 DEF OperationOf, Titles
  <2>7. SlotHonest(c, r)'
    <3>1. r.kind \in {"decide", "acceptPending", "cancelPending"} => <<u, c>> \in asked'
      BY <2>1, <2>6 DEF ConsentInv, TitlesHonest, Grows
    <3>2. WasSeen(u, cached[c][u])
      BY DEF ConsentInv, ProfilesSeen
    <3>3. WasSeen(r.on, r.visibility)'
      BY <2>1, <2>4, <3>2 DEF WasSeen
    <3>4. QED
      BY <2>4, <2>6, <3>1, <3>3 DEF SlotHonest
  <2>8. TitlesHonest' /\ SlotsHonest'
    BY <2>1, <2>3, <2>7, SlotStepHonest, TitlesKept
  <2>9. ProfilesSeen' /\ accepted' \subseteq asked'
    BY <2>1 DEF ConsentInv, ProfilesSeen, WasSeen, Grows
  <2>10. QED
    BY <2>1, <2>8, <2>9, QuietStepKeepsEntries DEF ConsentInv
<1>3. ASSUME NEW s \in Slots, Confirm(c, s)
      PROVE  ConsentInv'
  <2>1. /\ Grows
        /\ UNCHANGED <<db, queue, visible, cached, title, asked, wasPublic, wasPrivate>>
    BY <1>3 DEF Confirm, Grows, backendVars, profileVars
  <2>2. SlotHonest(c, slot[c][s]) /\ slot[c][s] \in Slot /\ slot[c][s].on \in Users
    BY SlotsTyped DEF ConsentInv, SlotsHonest, Slot
  <2>3. ProfilesSeen'
    BY <2>1 DEF ConsentInv, ProfilesSeen, WasSeen
  <2>4. accepted' \subseteq asked'
    BY <1>3, <2>1, <2>2 DEF Confirm, Decide, ConsentInv, SlotHonest
  <2>5. \E r : SlotHonest(c, r)' /\ slot' = [slot EXCEPT ![c][s] = r]
    <3>1. CASE slot[c][s].kind # "decide"
      <4>1. PICK r : r = [slot[c][s] EXCEPT !.step = "journal"]
        OBVIOUS
      <4>2. slot' = [slot EXCEPT ![c][s] = r]
        BY <1>3, <3>1, <4>1 DEF Confirm, Decide, Goto
      <4>3. r.kind = slot[c][s].kind /\ slot[c][s].kind \in {"unfollow", "withdrawRequest"}
        BY <1>3, <2>2, <3>1, <4>1 DEF Confirm, Decide, Slot
      <4>4. QED
        BY <4>2, <4>3 DEF SlotHonest
    <3>2. ASSUME NEW k, Decide(c, s, k), k \in {"acceptPending", "cancelPending"},
                 k = "acceptPending" => <<slot[c][s].on, c>> \in accepted'
          PROVE  \E r : SlotHonest(c, r)' /\ slot' = [slot EXCEPT ![c][s] = r]
      <4>1. PICK r : r = [kind |-> k, on |-> slot[c][s].on,
                          visibility |-> slot[c][s].visibility, step |-> "journal"]
        OBVIOUS
      <4>2. slot' = [slot EXCEPT ![c][s] = r] /\ slot[c][s].kind = "decide"
        BY <3>2, <4>1 DEF Decide
      <4>3. r.on = slot[c][s].on /\ r.kind = k
        BY <4>1
      <4>4. <<r.on, c>> \in asked'
        BY <2>1, <2>2, <4>2, <4>3 DEF SlotHonest
      <4>5. QED
        BY <3>2, <4>2, <4>3, <4>4 DEF SlotHonest
    <3>3. QED
      BY <1>3, <3>1, <3>2 DEF Confirm
  <2>6. TitlesHonest' /\ SlotsHonest'
    <3>1. PICK r : SlotHonest(c, r)' /\ slot' = [slot EXCEPT ![c][s] = r]
      BY <2>5
    <3>2. QED
      BY <2>1, <3>1, SlotStepHonest, TitlesKept
  <2>7. QED
    BY <2>1, <2>3, <2>4, <2>6, QuietStepKeepsEntries DEF ConsentInv
<1>4. ASSUME NEW s \in Slots, Cancel(c, s)
      PROVE  ConsentInv'
  <2>1. /\ Grows
        /\ UNCHANGED <<db, queue, visible, cached, asked, accepted, wasPublic, wasPrivate>>
    BY <1>4 DEF Cancel, Grows, backendVars, profileVars, ghostVars
  <2>2. SlotHonest(c, slot[c][s]) /\ slot[c][s].on \in Users
    BY SlotsTyped DEF ConsentInv, SlotsHonest, Slot
  <2>3. PICK r : r = Free(c)
    OBVIOUS
  <2>4. SlotHonest(c, r)'
    BY <2>3 DEF SlotHonest, Free
  <2>5. slot' = [slot EXCEPT ![c][s] = r]
    BY <1>4, <2>3 DEF Cancel, FinishShowing, Finish
  <2>6. \/ title' = title
        \/ /\ Show(c, slot[c][s].on, "Pending")
           /\ <<slot[c][s].on, c>> \in asked'
    BY <1>4, <2>1, <2>2 DEF Cancel, FinishShowing, SlotHonest
  <2>7. TitlesHonest' /\ SlotsHonest'
    BY <2>1, <2>2, <2>4, <2>5, <2>6, SlotStepHonest, TitleStepHonest, TitlesKept
  <2>8. ProfilesSeen' /\ accepted' \subseteq asked'
    BY <2>1 DEF ConsentInv, ProfilesSeen, WasSeen
  <2>9. QED
    BY <2>1, <2>7, <2>8, QuietStepKeepsEntries DEF ConsentInv
<1>5. CASE EditVisibility(c)
  <2>1. Grows /\ UNCHANGED <<db, queue, cached, title, slot, asked, accepted>>
    BY <1>5 DEF EditVisibility, Grows, backendVars, rowVars
  <2>2. ProfilesSeen'
    BY <1>5, <2>1 DEF EditVisibility, TypeOK, ConsentInv, ProfilesSeen, WasSeen, Grows
  <2>3. TitlesHonest' /\ accepted' \subseteq asked'
    BY <2>1 DEF ConsentInv, TitlesHonest
  <2>4. SlotsHonest'
    BY <2>1, GrowthKeeps DEF ConsentInv, SlotsHonest
  <2>5. QED
    BY <2>1, <2>2, <2>3, <2>4, QuietStepKeepsEntries DEF ConsentInv
<1>6. QED
  BY <1>1, <1>2, <1>3, <1>4, <1>5 DEF UserStep

(* Finishing an operation, or reading the follow state again, leaves an    *)
(* honest slot behind.                                                     *)
LEMMA ResetsAreHonest ==
  ASSUME TypeOK, ConsentInv, Grows, NEW c \in Users, NEW s \in Slots
  PROVE  /\ Finish(c, s) => SlotsHonest'
         /\ slot' = [slot EXCEPT ![c][s] = Reading(slot[c][s].on)] => SlotsHonest'
<1>1. ASSUME Finish(c, s) PROVE SlotsHonest'
  <2>1. PICK r : r = Free(c)
    OBVIOUS
  <2>2. SlotHonest(c, r)'
    BY <2>1 DEF SlotHonest, Free
  <2>3. slot' = [slot EXCEPT ![c][s] = r]
    BY <1>1, <2>1 DEF Finish
  <2>4. QED
    BY <2>2, <2>3, SlotStepHonest
<1>2. ASSUME slot' = [slot EXCEPT ![c][s] = Reading(slot[c][s].on)] PROVE SlotsHonest'
  <2>1. PICK r : r = Reading(slot[c][s].on)
    OBVIOUS
  <2>2. SlotHonest(c, r)'
    BY <2>1 DEF SlotHonest, Reading
  <2>3. slot' = [slot EXCEPT ![c][s] = r]
    BY <1>2, <2>1
  <2>4. QED
    BY <2>2, <2>3, SlotStepHonest
<1>3. QED
  BY <1>1, <1>2

(* An operation that moves on to another of its steps stays honest.        *)
LEMMA GotoIsHonest ==
  ASSUME TypeOK, ConsentInv, Grows, NEW c \in Users, NEW s \in Slots, NEW step,
         Goto(c, s, step)
  PROVE  SlotsHonest'
<1>1. PICK r : r = [slot[c][s] EXCEPT !.step = step]
  OBVIOUS
<1>2. slot' = [slot EXCEPT ![c][s] = r]
  BY <1>1 DEF Goto
<1>3. slot[c][s] \in Slot /\ SlotHonest(c, slot[c][s])
  BY SlotsTyped DEF ConsentInv, SlotsHonest
<1>4. r.kind = slot[c][s].kind /\ r.on = slot[c][s].on /\ r.visibility = slot[c][s].visibility
  BY <1>1, <1>3 DEF Slot
<1>5. SlotHonest(c, r)
  BY <1>3, <1>4 DEF SlotHonest
<1>6. QED
  BY <1>2, <1>5, GrowthKeeps, SlotStepHonest

(* The two outcomes of a row that an operation leaves.                     *)
LEMMA RowsAreHonest ==
  ASSUME TypeOK, ConsentInv, Grows, NEW c \in Users, NEW s \in Slots, NEW u \in Users,
         u = slot[c][s].on
  PROVE  /\ \A t : (t = "Pending" => <<u, c>> \in asked') /\ FinishShowing(c, s, t)
                   => TitlesHonest' /\ SlotsHonest'
         /\ ReadAgain(c, s) => TitlesHonest' /\ SlotsHonest'
<1>1. ASSUME NEW t, t = "Pending" => <<u, c>> \in asked', FinishShowing(c, s, t)
      PROVE  TitlesHonest' /\ SlotsHonest'
  <2>1. Finish(c, s) /\ Show(c, u, t)
    BY <1>1 DEF FinishShowing
  <2>2. QED
    BY <1>1, <2>1, ResetsAreHonest, TitleStepHonest
<1>2. ReadAgain(c, s) => TitlesHonest' /\ SlotsHonest'
  BY ResetsAreHonest, TitlesKept DEF ReadAgain
<1>3. QED
  BY <1>1, <1>2

(* A step of a row alone.                                                  *)
LEMMA RowStepKeepsConsent ==
  ASSUME ConsentInv, TitlesHonest', SlotsHonest',
         UNCHANGED <<backendVars, profileVars, ghostVars>>
  PROVE  ConsentInv'
<1>1. Grows /\ UNCHANGED <<db, queue, visible, cached, asked, accepted, wasPublic, wasPrivate>>
  BY DEF Grows, backendVars, profileVars, ghostVars
<1>2. ProfilesSeen' /\ accepted' \subseteq asked'
  BY <1>1 DEF ConsentInv, ProfilesSeen, WasSeen
<1>3. QED
  BY <1>1, <1>2, QuietStepKeepsEntries DEF ConsentInv

(* An operation that issues justified writes and leaves its row honest.    *)
LEMMA OperationKeepsConsent ==
  ASSUME TypeOK, ConsentInv, NEW c \in Users, NEW s \in Slots, NEW u \in Users,
         u = slot[c][s].on,
         NEW ws \in Seq(Writes(Path)), Issue(c, u, ws),
         \A i \in DOMAIN ws : ws[i].to => Justified(ws[i].path),
         ReadAgain(c, s) \/ FinishShowing(c, s, "Follow"),
         UNCHANGED profileVars
  PROVE  ConsentInv'
<1>1. /\ EntriesJustified' /\ WritesJustified' /\ Grows
      /\ UNCHANGED <<asked, accepted, wasPublic, wasPrivate>>
  BY IssueKeepsEntries
<1>2. "Follow" # "Pending"
  OBVIOUS
<1>3. TitlesHonest' /\ SlotsHonest'
  BY <1>1, <1>2, RowsAreHonest
<1>4. ProfilesSeen' /\ accepted' \subseteq asked'
  BY <1>1 DEF ConsentInv, ProfilesSeen, WasSeen, profileVars
<1>5. QED
  BY <1>1, <1>3, <1>4 DEF ConsentInv

LEMMA AnswerKeepsConsent ==
  ASSUME TypeOK, ConsentInv, NEW c \in Users, NEW s \in Slots, Answer(c, s)
  PROVE  ConsentInv'
<1> DEFINE u == slot[c][s].on
<1>1. u \in Users /\ slot[c][s] \in Slot /\ SlotHonest(c, slot[c][s])
  BY SlotsTyped DEF Slot, ConsentInv, SlotsHonest
<1>2. CASE Follow(c, s)
  <2>1. <<c, u>> \in asked /\ WasSeen(u, slot[c][s].visibility)
    BY <1>1, <1>2 DEF Follow, JournalWritten, SlotHonest
  <2>2. CASE slot[c][s].visibility
    <3>1. \A i \in DOMAIN FollowWrites(c, u) : Justified(FollowWrites(c, u)[i].path)
      BY <1>1, <2>1, <2>2, WritesAreJustified DEF WasSeen, MayLink
    <3>2. Issue(c, u, FollowWrites(c, u)) /\ ReadAgain(c, s) /\ UNCHANGED profileVars
      BY <1>2, <2>2 DEF Follow
    <3>3. QED
      BY <1>1, <3>1, <3>2, OperationsMirrored, OperationKeepsConsent DEF Mirrored
  <2>3. CASE ~slot[c][s].visibility
    <3>1. \A i \in DOMAIN RequestWrites(c, u) : Justified(RequestWrites(c, u)[i].path)
      BY <1>1, <2>1, <2>3, WritesAreJustified DEF WasSeen, MayRequest
    <3>2. Issue(c, u, RequestWrites(c, u)) /\ ReadAgain(c, s) /\ UNCHANGED profileVars
      BY <1>2, <2>3 DEF Follow
    <3>3. QED
      BY <1>1, <3>1, <3>2, OperationsMirrored, OperationKeepsConsent DEF Mirrored
  <2>4. QED
    BY <2>2, <2>3
<1>3. CASE CancelPending(c, s)
  BY <1>1, <1>3, WritesAreJustified, OperationsMirrored, OperationKeepsConsent
     DEF CancelPending, Mirrored
<1>4. CASE AcceptPending(c, s)
  <2>1. MayLink(u, c)
    BY <1>1, <1>4 DEF AcceptPending, JournalWritten, SlotHonest, MayLink
  <2>2. \A i \in DOMAIN AcceptWrites(c, u) :
          AcceptWrites(c, u)[i].to => Justified(AcceptWrites(c, u)[i].path)
    BY <1>1, <2>1, WritesAreJustified
  <2>3. QED
    BY <1>1, <1>4, <2>2, OperationsMirrored, OperationKeepsConsent DEF AcceptPending, Mirrored
<1>5. CASE WithdrawRequest(c, s)
  BY <1>1, <1>5, WritesAreJustified, OperationsMirrored, OperationKeepsConsent
     DEF WithdrawRequest, Mirrored
<1>6. CASE Unfollow(c, s)
  BY <1>1, <1>6, WritesAreJustified, OperationsMirrored, OperationKeepsConsent
     DEF Unfollow, Mirrored
<1>7. CASE ReadFollowState(c, s)
  <2>1. Grows /\ UNCHANGED <<backendVars, profileVars, ghostVars>>
    BY <1>7 DEF ReadFollowState, Grows, ghostVars
  <2>2. \/ \E step : Goto(c, s, step) /\ UNCHANGED title
        \/ \E t : /\ FinishShowing(c, s, t)
                  /\ t = "Pending" => Sees(db, queue[c], <<"Pending", c, u>>)
    <3>1. CASE /\ slot[c][s].step = "checkPending"
               /\ IF Sees(db, queue[c], <<"Pending", c, u>>)
                  THEN FinishShowing(c, s, "Pending")
                  ELSE Goto(c, s, "checkFollowing") /\ UNCHANGED title
      BY <3>1
    <3>2. CASE /\ slot[c][s].step = "checkFollowing"
               /\ IF Sees(db, queue[c], <<"Following", c, u>>)
                  THEN FinishShowing(c, s, "Following")
                  ELSE Goto(c, s, "checkRequested") /\ UNCHANGED title
      <4>1. "Following" # "Pending"
        OBVIOUS
      <4>2. QED
        BY <3>2, <4>1
    <3>3. CASE FinishShowing(c, s, IF Sees(db, queue[c], <<"Requested", c, u>>)
                                   THEN "Requested" ELSE "Follow")
      <4>1. "Requested" # "Pending" /\ "Follow" # "Pending"
        OBVIOUS
      <4>2. QED
        BY <3>3, <4>1
    <3>4. QED
      BY <1>7, <3>1, <3>2, <3>3 DEF ReadFollowState
  <2>3. Sees(db, queue[c], <<"Pending", c, u>>) => <<u, c>> \in asked'
    <3>1. PICK path : path = <<"Pending", c, u>>
      OBVIOUS
    <3>2. Justified(path) => <<u, c>> \in asked
      BY <3>1 DEF Justified, MayRequest
    <3>3. Sees(db, queue[c], path) => Justified(path)
      BY SeesJustified
    <3>4. QED
      BY <2>1, <3>1, <3>2, <3>3 DEF Grows
  <2>4. TitlesHonest' /\ SlotsHonest'
    <3>1. CASE \E step : Goto(c, s, step) /\ UNCHANGED title
      BY <2>1, <3>1, GotoIsHonest, TitlesKept
    <3>2. CASE \E t : /\ FinishShowing(c, s, t)
                      /\ t = "Pending" => Sees(db, queue[c], <<"Pending", c, u>>)
      BY <1>1, <2>1, <2>3, <3>2, RowsAreHonest
    <3>3. QED
      BY <2>2, <3>1, <3>2
  <2>5. QED
    BY <2>1, <2>4, RowStepKeepsConsent
<1>8. CASE UnfollowLocally(c, s)
  <2>1. Grows /\ UNCHANGED <<backendVars, profileVars, ghostVars, title>>
        /\ Goto(c, s, "local")
    BY <1>8 DEF UnfollowLocally, Grows, ghostVars
  <2>2. QED
    BY <2>1, GotoIsHonest, TitlesKept, RowStepKeepsConsent
<1>9. CASE UnfollowFails(c, s)
  <2>1. Grows /\ UNCHANGED <<backendVars, profileVars, ghostVars>>
    BY <1>9 DEF UnfollowFails, Grows, ghostVars
  <2>2. \/ FinishShowing(c, s, "Following")
        \/ Finish(c, s) /\ UNCHANGED title
    BY <1>9 DEF UnfollowFails
  <2>3. "Following" # "Pending"
    OBVIOUS
  <2>4. TitlesHonest' /\ SlotsHonest'
    BY <1>1, <2>1, <2>2, <2>3, ResetsAreHonest, TitlesKept, RowsAreHonest
  <2>5. QED
    BY <2>1, <2>4, RowStepKeepsConsent
<1>10. CASE JournalFails(c, s)
  <2>1. Grows /\ UNCHANGED <<backendVars, profileVars, ghostVars>>
    BY <1>10 DEF JournalFails, Grows, ghostVars
  <2>2. \/ ReadAgain(c, s)
        \/ slot[c][s].kind \in {"acceptPending", "cancelPending"}
           /\ FinishShowing(c, s, "Pending")
        \/ FinishShowing(c, s, "Following") \/ FinishShowing(c, s, "Requested")
    BY <1>10 DEF JournalFails
  <2>3. "Following" # "Pending" /\ "Requested" # "Pending"
    OBVIOUS
  <2>4. slot[c][s].kind \in {"acceptPending", "cancelPending"} => <<u, c>> \in asked'
    BY <1>1, <2>1 DEF SlotHonest, Grows
  <2>5. TitlesHonest' /\ SlotsHonest'
    BY <1>1, <2>1, <2>2, <2>3, <2>4, RowsAreHonest
  <2>6. QED
    BY <2>1, <2>5, RowStepKeepsConsent
<1>11. QED
  BY <1>2, <1>3, <1>4, <1>5, <1>6, <1>7, <1>8, <1>9, <1>10 DEF Answer

LEMMA DeliverKeepsConsent ==
  ASSUME TypeOK, ConsentInv, NEW c \in Users, Deliver(c)
  PROVE  ConsentInv'
<1> DEFINE w == Head(queue[c])
<1>1. /\ Grows
      /\ UNCHANGED <<visible, cached, title, slot, asked, accepted, wasPublic, wasPrivate>>
  BY DEF Deliver, Grows, profileVars, rowVars, ghostVars
<1>2. /\ queue[c] \in Seq(Writes(Path)) /\ queue[c] # <<>>
      /\ queue' = [queue EXCEPT ![c] = Tail(queue[c])]
      /\ db' = Apply(db, w)
  BY DEF Deliver, TypeOK
<1>3. 1 \in DOMAIN queue[c] /\ w = queue[c][1]
  BY <1>2
<1>4. w.to => Justified(w.path)
  BY <1>3 DEF ConsentInv, WritesJustified
<1>5. EntriesJustified'
  <2>1. SUFFICES ASSUME NEW p, p \in db' PROVE Justified(p)'
    BY DEF EntriesJustified, Justified, MayLink, MayRequest
  <2>2. p \in db \/ (w.to /\ p = w.path)
    BY <1>2, <2>1 DEF Apply
  <2>3. Justified(p)
    BY <1>4, <2>2 DEF ConsentInv, EntriesJustified
  <2>4. QED
    BY <1>1, <2>3, GrowthKeeps
<1>6. WritesJustified'
  <2>1. SUFFICES ASSUME NEW d \in Users, NEW i \in DOMAIN queue'[d], NEW x,
                        x = queue'[d][i], x.to
                 PROVE  Justified(x.path)'
    BY DEF WritesJustified, Justified, MayLink, MayRequest
  <2>2. \E j \in DOMAIN queue[d] : x = queue[d][j]
    <3>1. CASE d # c
      BY <1>2, <2>1, <3>1 DEF TypeOK
    <3>2. CASE d = c
      <4>1. queue'[d] = Tail(queue[c])
        BY <1>2, <3>2 DEF TypeOK
      <4>2. i + 1 \in DOMAIN queue[c] /\ Tail(queue[c])[i] = queue[c][i + 1]
        BY <1>2, <2>1, <4>1, TailPositions
      <4>3. QED
        BY <2>1, <3>2, <4>1, <4>2
    <3>3. QED
      BY <3>1, <3>2
  <2>3. Justified(x.path)
    BY <2>1, <2>2 DEF ConsentInv, WritesJustified
  <2>4. QED
    BY <1>1, <2>3, GrowthKeeps
<1>7. ProfilesSeen' /\ accepted' \subseteq asked' /\ TitlesHonest'
  BY <1>1 DEF ConsentInv, ProfilesSeen, WasSeen, TitlesHonest
<1>8. SlotsHonest'
  BY <1>1, GrowthKeeps DEF ConsentInv, SlotsHonest
<1>9. QED
  BY <1>5, <1>6, <1>7, <1>8 DEF ConsentInv

LEMMA CrashKeepsConsent ==
  ASSUME TypeOK, ConsentInv, NEW c \in Users, Crash(c)
  PROVE  ConsentInv'
<1>1. /\ Grows
      /\ UNCHANGED <<db, visible, cached, asked, accepted, wasPublic, wasPrivate>>
  BY DEF Crash, Grows, profileVars
<1>2. EntriesJustified'
  BY <1>1, GrowthKeeps DEF ConsentInv, EntriesJustified
<1>3. WritesJustified'
  <2>1. \A d \in Users : queue'[d] = IF d = c THEN <<>> ELSE queue[d]
    BY DEF Crash, TypeOK
  <2>2. QED
    BY <1>1, <2>1, GrowthKeeps DEF ConsentInv, WritesJustified
<1>4. ProfilesSeen' /\ accepted' \subseteq asked'
  BY <1>1 DEF ConsentInv, ProfilesSeen, WasSeen
<1>5. TitlesHonest'
  <2>1. \A d, x \in Users : title'[d][x] = IF d = c THEN "Absent" ELSE title[d][x]
    BY DEF Crash, TypeOK
  <2>2. "Absent" # "Pending"
    OBVIOUS
  <2>3. QED
    BY <1>1, <2>1, <2>2 DEF ConsentInv, TitlesHonest
<1>6. SlotsHonest'
  <2>1. \A d \in Users, z \in Slots : slot'[d][z] = IF d = c THEN Free(c) ELSE slot[d][z]
    BY DEF Crash, TypeOK
  <2>2. SUFFICES ASSUME NEW d \in Users, NEW z \in Slots, NEW r, r = slot'[d][z]
                 PROVE  SlotHonest(d, r)'
    BY DEF SlotsHonest, SlotHonest
  <2>3. CASE d = c
    BY <2>1, <2>2, <2>3 DEF SlotHonest, Free
  <2>4. CASE d # c
    <3>1. SlotHonest(d, r)
      BY <2>1, <2>2, <2>4 DEF ConsentInv, SlotsHonest
    <3>2. QED
      BY <1>1, <3>1, GrowthKeeps
  <2>5. QED
    BY <2>3, <2>4
<1>7. QED
  BY <1>2, <1>3, <1>4, <1>5, <1>6 DEF ConsentInv

LEMMA ConsentInvIsInvariant == Spec => []ConsentInv
<1>1. Init => ConsentInv
  <2>1. SUFFICES ASSUME Init PROVE ConsentInv
    OBVIOUS
  <2>2. EntriesJustified /\ WritesJustified /\ accepted \subseteq asked
    BY <2>1 DEF Init, EntriesJustified, WritesJustified
  <2>3. ProfilesSeen
    BY <2>1 DEF Init, ProfilesSeen, WasSeen
  <2>4. TitlesHonest
    <3>1. "Absent" # "Pending"
      OBVIOUS
    <3>2. QED
      BY <2>1, <3>1 DEF Init, TitlesHonest
  <2>5. SlotsHonest
    <3>1. \A c : Free(c).kind = "free"
      BY DEF Free
    <3>2. \A c \in Users, s \in Slots : slot[c][s] = Free(c)
      BY <2>1 DEF Init
    <3>3. \A c \in Users, s \in Slots : slot[c][s].kind = "free"
      BY <3>1, <3>2
    <3>4. QED
      BY <3>3 DEF SlotsHonest, SlotHonest
  <2>6. QED
    BY <2>2, <2>3, <2>4, <2>5 DEF ConsentInv
<1>2. TypeOK /\ ConsentInv /\ [Next]_vars => ConsentInv'
  <2>1. SUFFICES ASSUME TypeOK, ConsentInv, [Next]_vars PROVE ConsentInv'
    OBVIOUS
  <2>2. ASSUME NEW c \in Users, UserStep(c) PROVE ConsentInv'
    BY <2>1, <2>2, UserStepKeepsConsent
  <2>3. ASSUME NEW c \in Users, NEW s \in Slots, Answer(c, s) PROVE ConsentInv'
    BY <2>1, <2>3, AnswerKeepsConsent
  <2>4. ASSUME NEW c \in Users, NEW u \in Users, ObserveProfile(c, u) PROVE ConsentInv'
    <3>1. Grows /\ UNCHANGED <<db, queue, visible, title, slot, asked, accepted,
                               wasPublic, wasPrivate>>
      BY <2>4 DEF ObserveProfile, Grows, backendVars, rowVars, ghostVars
    <3>2. ProfilesSeen'
      BY <2>1, <2>4, <3>1 DEF ObserveProfile, TypeOK, ConsentInv, ProfilesSeen, WasSeen
    <3>3. TitlesHonest' /\ accepted' \subseteq asked'
      BY <2>1, <3>1 DEF ConsentInv, TitlesHonest
    <3>4. SlotsHonest'
      BY <2>1, <3>1, GrowthKeeps DEF ConsentInv, SlotsHonest
    <3>5. QED
      BY <2>1, <3>1, <3>2, <3>3, <3>4, QuietStepKeepsEntries DEF ConsentInv
  <2>5. ASSUME NEW c \in Users, Deliver(c) PROVE ConsentInv'
    BY <2>1, <2>5, DeliverKeepsConsent
  <2>6. ASSUME NEW c \in Users, Crash(c) PROVE ConsentInv'
    BY <2>1, <2>6, CrashKeepsConsent
  <2>7. CASE UNCHANGED vars
    <3>1. UNCHANGED <<backendVars, profileVars, rowVars, ghostVars>>
      BY <2>7 DEF vars
    <3>2. TitlesHonest' /\ SlotsHonest'
      BY <2>1, <3>1 DEF ConsentInv, TitlesHonest, SlotsHonest, SlotHonest, WasSeen,
         rowVars, ghostVars
    <3>3. QED
      BY <2>1, <3>1, <3>2, RowStepKeepsConsent
  <2>8. QED
    BY <2>1, <2>2, <2>3, <2>4, <2>5, <2>6, <2>7 DEF Next, ClientStep
<1>3. QED
  BY <1>1, <1>2, TypeCorrect, PTL DEF Spec

(* For any number of users and operations in flight: nobody follows or is  *)
(* shown as following without having asked, and without the other's        *)
(* profile having been visible or the request accepted; and requests are   *)
(* only made of users who were hidden at some time.                        *)
THEOREM ConsentHolds == Spec => []Consent
<1>1. ConsentInv => Consent
  BY DEF ConsentInv, EntriesJustified, Justified, MayLink, MayRequest, Consent,
     Linked, Requests
<1>2. QED
  BY <1>1, ConsentInvIsInvariant, PTL
-----------------------------------------------------------------------------
(* The lists implement the contract.                                       *)

(* What a write on the pair <<a, b>> alone does to links and requests.     *)
LEMMA LinksChange ==
  ASSUME NEW a \in Users, NEW b \in Users,
         \A d, e \in Users : d # a \/ e # b => (Linked(d, e)' <=> Linked(d, e))
  PROVE  links' = IF Linked(a, b)' THEN links \union {<<a, b>>} ELSE links \ {<<a, b>>}
<1>1. \A p : p \in links' <=> p \in Users \X Users /\ Linked(p[1], p[2])'
  BY DEF links
<1>2. \A p : p \in links <=> p \in Users \X Users /\ Linked(p[1], p[2])
  BY DEF links
<1>3. \A p \in Users \X Users : /\ p[1] \in Users /\ p[2] \in Users
                               /\ p # <<a, b>> => p[1] # a \/ p[2] # b
  OBVIOUS
<1>4. \A p : p # <<a, b>> => (p \in links' <=> p \in links)
  BY <1>1, <1>2, <1>3
<1>5. <<a, b>> \in links' <=> Linked(a, b)'
  BY DEF links
<1>6. QED
  BY <1>4, <1>5

LEMMA RequestsChange ==
  ASSUME NEW a \in Users, NEW b \in Users,
         \A d, e \in Users : d # a \/ e # b => (Requests(d, e)' <=> Requests(d, e))
  PROVE  requests' = IF Requests(a, b)' THEN requests \union {<<a, b>>}
                                        ELSE requests \ {<<a, b>>}
<1>1. \A p : p \in requests' <=> p \in Users \X Users /\ Requests(p[1], p[2])'
  BY DEF requests
<1>2. \A p : p \in requests <=> p \in Users \X Users /\ Requests(p[1], p[2])
  BY DEF requests
<1>3. \A p \in Users \X Users : /\ p[1] \in Users /\ p[2] \in Users
                               /\ p # <<a, b>> => p[1] # a \/ p[2] # b
  OBVIOUS
<1>4. \A p : p # <<a, b>> => (p \in requests' <=> p \in requests)
  BY <1>1, <1>2, <1>3
<1>5. <<a, b>> \in requests' <=> Requests(a, b)'
  BY DEF requests
<1>6. QED
  BY <1>4, <1>5

LEMMA SameDbSameLinks ==
  ASSUME UNCHANGED db
  PROVE  UNCHANGED <<links, requests>>
  BY DEF links, requests, Linked, Requests

LEMMA DeliverImplements ==
  ASSUME TypeOK, ConsentInv, NEW c \in Users, Deliver(c)
  PROVE  [Contract!Next]_(Contract!vars)
<1> DEFINE w == Head(queue[c])
<1>1. queue[c] \in Seq(Writes(Path)) /\ queue[c] # <<>> /\ db' = Apply(db, w)
  BY DEF Deliver, TypeOK
<1>2. w \in Writes(Path) /\ 1 \in DOMAIN queue[c] /\ w = queue[c][1]
  BY <1>1
<1>3. w.to => Justified(w.path)
  BY <1>2 DEF ConsentInv, WritesJustified
<1>4. UNCHANGED <<asked, accepted, wasPublic>>
  BY DEF Deliver, ghostVars
<1>5. PICK l \in Lists, x \in Users, y \in Users : w.path = <<l, x, y>>
  BY <1>2 DEF Writes, Path
<1>6. \A m, d, e : <<m, d, e>> # <<l, x, y>> => (<<m, d, e>> \in db' <=> <<m, d, e>> \in db)
  BY <1>1, <1>5 DEF Apply
<1>7. <<l, x, y>> \in db' <=> w.to
  BY <1>1, <1>2, <1>5 DEF Apply, Writes
<1>8. ASSUME NEW a \in Users, NEW b \in Users,
             \/ l = "Following" /\ a = x /\ b = y
             \/ l = "Followers" /\ a = y /\ b = x
      PROVE  [Contract!Next]_(Contract!vars)
  <2>1. \A d, e \in Users : /\ Requests(d, e)' <=> Requests(d, e)
                            /\ d # a \/ e # b => (Linked(d, e)' <=> Linked(d, e))
    BY <1>6, <1>8 DEF Requests, Linked
  <2>2. requests' = requests
    BY <2>1 DEF requests
  <2>3. links' = IF Linked(a, b)' THEN links \union {<<a, b>>} ELSE links \ {<<a, b>>}
    BY <2>1, LinksChange
  <2>4. CASE w.to
    <3>1. Linked(a, b)' /\ MayLink(a, b)
      BY <1>3, <1>5, <1>7, <1>8, <2>4 DEF Linked, Justified
    <3>2. <<a, b>> \in Contract!MayLink
      BY <3>1 DEF MayLink, Contract!MayLink, Contract!Pairs
    <3>3. Contract!Link(<<a, b>>)
      BY <1>4, <2>2, <2>3, <3>1, <3>2 DEF Contract!Link
    <3>4. QED
      BY <3>3 DEF Contract!Next, Contract!Pairs
  <2>5. CASE ~w.to /\ Linked(a, b)'
    <3>1. Linked(a, b)
      BY <1>6, <1>7, <2>5 DEF Linked
    <3>2. <<a, b>> \in links
      BY <3>1 DEF links
    <3>3. links' = links
      BY <2>3, <2>5, <3>2
    <3>4. QED
      BY <1>4, <2>2, <3>3 DEF Contract!vars
  <2>6. CASE ~Linked(a, b)'
    <3>1. Contract!Unlink(<<a, b>>)
      BY <1>4, <2>2, <2>3, <2>6 DEF Contract!Unlink
    <3>2. QED
      BY <3>1 DEF Contract!Next, Contract!Pairs
  <2>7. QED
    BY <2>4, <2>5, <2>6
<1>9. ASSUME NEW a \in Users, NEW b \in Users,
             \/ l = "Requested" /\ a = x /\ b = y
             \/ l = "Pending"   /\ a = y /\ b = x
      PROVE  [Contract!Next]_(Contract!vars)
  <2>1. \A d, e \in Users : /\ Linked(d, e)' <=> Linked(d, e)
                            /\ d # a \/ e # b => (Requests(d, e)' <=> Requests(d, e))
    BY <1>6, <1>9 DEF Requests, Linked
  <2>2. links' = links
    BY <2>1 DEF links
  <2>3. requests' = IF Requests(a, b)' THEN requests \union {<<a, b>>}
                                       ELSE requests \ {<<a, b>>}
    BY <2>1, RequestsChange
  <2>4. CASE w.to
    <3>1. Requests(a, b)' /\ <<a, b>> \in asked
      BY <1>3, <1>5, <1>7, <1>9, <2>4 DEF Requests, Justified, MayRequest
    <3>2. Contract!Request(<<a, b>>)
      BY <1>4, <2>2, <2>3, <3>1 DEF Contract!Request
    <3>3. QED
      BY <3>2 DEF Contract!Next, Contract!Pairs
  <2>5. CASE ~w.to /\ Requests(a, b)'
    <3>1. Requests(a, b)
      BY <1>6, <1>7, <2>5 DEF Requests
    <3>2. <<a, b>> \in requests
      BY <3>1 DEF requests
    <3>3. requests' = requests
      BY <2>3, <2>5, <3>2
    <3>4. QED
      BY <1>4, <2>2, <3>3 DEF Contract!vars
  <2>6. CASE ~Requests(a, b)'
    <3>1. Contract!Unrequest(<<a, b>>)
      BY <1>4, <2>2, <2>3, <2>6 DEF Contract!Unrequest
    <3>2. QED
      BY <3>1 DEF Contract!Next, Contract!Pairs
  <2>7. QED
    BY <2>4, <2>5, <2>6
<1>10. QED
  BY <1>5, <1>8, <1>9 DEF Lists

LEMMA UserStepImplements ==
  ASSUME TypeOK, ConsentInv, NEW c \in Users, UserStep(c)
  PROVE  [Contract!Next]_(Contract!vars)
<1>1. ASSUME UNCHANGED <<db, asked, accepted, wasPublic>>
      PROVE  [Contract!Next]_(Contract!vars)
  BY <1>1, SameDbSameLinks DEF Contract!vars
<1>2. ASSUME NEW u \in Users, NEW s \in Slots, Display(c, u, s)
      PROVE  [Contract!Next]_(Contract!vars)
  BY <1>1, <1>2 DEF Display, backendVars, ghostVars
<1>3. ASSUME NEW u \in Users, NEW s \in Slots, Tap(c, u, s)
      PROVE  [Contract!Next]_(Contract!vars)
  <2>1. /\ UNCHANGED <<db, accepted, wasPublic>>
        /\ asked' = asked \/ asked' = asked \union {<<c, u>>}
    BY <1>3 DEF Tap, backendVars
  <2>2. UNCHANGED <<links, requests>>
    BY <2>1, SameDbSameLinks
  <2>3. asked' = asked \union {<<c, u>>} => Contract!Ask(c, u)
    BY <2>1, <2>2 DEF Contract!Ask
  <2>4. QED
    BY <1>1, <2>1, <2>3 DEF Contract!Next
<1>4. ASSUME NEW s \in Slots, Confirm(c, s)
      PROVE  [Contract!Next]_(Contract!vars)
  <2>1. /\ UNCHANGED <<db, asked, wasPublic>>
        /\ \/ accepted' = accepted
           \/ /\ slot[c][s].kind = "decide"
              /\ accepted' = accepted \union {<<slot[c][s].on, c>>}
    BY <1>4 DEF Confirm, Decide, backendVars
  <2>2. slot[c][s].on \in Users /\ SlotHonest(c, slot[c][s])
    BY SlotsTyped DEF ConsentInv, SlotsHonest, Slot
  <2>3. UNCHANGED <<links, requests>>
    BY <2>1, SameDbSameLinks
  <2>4. accepted' = accepted \/ Contract!Accept(c, slot[c][s].on)
    BY <2>1, <2>2, <2>3 DEF SlotHonest, Contract!Accept
  <2>5. QED
    BY <1>1, <2>1, <2>2, <2>4 DEF Contract!Next
<1>5. ASSUME NEW s \in Slots, Cancel(c, s)
      PROVE  [Contract!Next]_(Contract!vars)
  BY <1>1, <1>5 DEF Cancel, backendVars, ghostVars
<1>6. CASE EditVisibility(c)
  <2>1. /\ UNCHANGED <<db, asked, accepted>>
        /\ wasPublic' = wasPublic \/ wasPublic' = wasPublic \union {c}
    BY <1>6 DEF EditVisibility, backendVars
  <2>2. UNCHANGED <<links, requests>>
    BY <2>1, SameDbSameLinks
  <2>3. wasPublic' = wasPublic \union {c} => Contract!Open(c)
    BY <2>1, <2>2 DEF Contract!Open
  <2>4. QED
    BY <1>1, <2>1, <2>3 DEF Contract!Next
<1>7. QED
  BY <1>2, <1>3, <1>4, <1>5, <1>6 DEF UserStep

LEMMA AnswerImplements ==
  ASSUME NEW c \in Users, NEW s \in Slots, Answer(c, s)
  PROVE  UNCHANGED <<db, asked, accepted, wasPublic>>
  BY DEF Answer, ReadFollowState, Follow, CancelPending, AcceptPending, WithdrawRequest,
     UnfollowLocally, Unfollow, UnfollowFails, JournalFails, Issue, backendVars, ghostVars

(* For any number of users and operations in flight, the lists, with their *)
(* two sides, queues, caches and stale buttons, implement the contract of  *)
(* FollowContract.                                                         *)
THEOREM Implements == Spec => ImplementsContract
<1>1. Init => Contract!Init
  BY DEF Init, Contract!Init, links, requests, Linked, Requests
<1>2. TypeOK /\ ConsentInv /\ [Next]_vars => [Contract!Next]_(Contract!vars)
  <2>1. SUFFICES ASSUME TypeOK, ConsentInv, [Next]_vars
                 PROVE  [Contract!Next]_(Contract!vars)
    OBVIOUS
  <2>2. ASSUME UNCHANGED <<db, asked, accepted, wasPublic>>
        PROVE  [Contract!Next]_(Contract!vars)
    BY <2>2, SameDbSameLinks DEF Contract!vars
  <2>3. ASSUME NEW c \in Users, UserStep(c) PROVE [Contract!Next]_(Contract!vars)
    BY <2>1, <2>3, UserStepImplements
  <2>4. ASSUME NEW c \in Users, NEW s \in Slots, Answer(c, s)
        PROVE  [Contract!Next]_(Contract!vars)
    BY <2>2, <2>4, AnswerImplements
  <2>5. ASSUME NEW c \in Users, NEW u \in Users, ObserveProfile(c, u)
        PROVE  [Contract!Next]_(Contract!vars)
    BY <2>2, <2>5 DEF ObserveProfile, backendVars, ghostVars
  <2>6. ASSUME NEW c \in Users, Deliver(c) PROVE [Contract!Next]_(Contract!vars)
    BY <2>1, <2>6, DeliverImplements
  <2>7. ASSUME NEW c \in Users, Crash(c) PROVE [Contract!Next]_(Contract!vars)
    BY <2>2, <2>7 DEF Crash
  <2>8. CASE UNCHANGED vars
    BY <2>2, <2>8 DEF vars, backendVars, ghostVars
  <2>9. QED
    BY <2>1, <2>3, <2>4, <2>5, <2>6, <2>7, <2>8 DEF Next, ClientStep
<1>3. QED
  BY <1>1, <1>2, TypeCorrect, ConsentInvIsInvariant, PTL DEF Spec, ImplementsContract, Contract!Spec
==============================================================================
