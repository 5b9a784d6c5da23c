---------------------------- MODULE SessionProofs ----------------------------
(***************************************************************************)
(* Theorems about Session, for any users, any number of requests and every *)
(* value of the bounds: type correctness, that the app opens only on a     *)
(* profile that was read in this launch, and that nobody is left without a *)
(* login page.                                                             *)
(***************************************************************************)
EXTENDS Session, BackendTheorems

-----------------------------------------------------------------------------
(* What a block that waits on the main queue may rely on: a launch on the  *)
(* profile having been read, the write of a new profile on its account,    *)
(* and the saves of ClearAssistant on each being counted once.             *)
Fits(b, cached, registered) ==
  /\ b.run \in {"saved", "launch"} => cached[b.user] = "ready"
  /\ b.run = "registered" => b.user \in registered

BlocksFit ==
  \A i \in DOMAIN main : /\ Fits(main[i], object, accounts)
                         /\ main[i].run = "save" => cleared + i <= Kinds

(* The welcome page stays below all others while the app runs.             *)
PagesFit == /\ running => stack # <<>> /\ stack[1] = Page("welcome")
            /\ ~running => /\ stack = <<>> /\ main = <<>> /\ unsent = {}
                           /\ \A r \in Requests : request[r] = Free

(* A ready object has a profile behind it, and is of this launch.          *)
CacheFit == \A u \in Users : /\ object[u] = "ready" => u \in Profiles
                             /\ running => object[u] # "old"

SessionInv == TypeOK /\ BlocksFit /\ PagesFit /\ CacheFit /\ AppAfterProfile

(* What no step but a launch or a kill takes back.                         *)
Grows == /\ \A u \in Users : object[u] = "ready" => object'[u] = "ready"
         /\ accounts \subseteq accounts' /\ Profiles \subseteq Profiles'
         /\ running' = running

-----------------------------------------------------------------------------
(* Blocks and pages as members of their types.                             *)
LEMMA BlockTypes ==
  /\ \A r \in {"save", "state", "loggedIn", "refused"} : Block(r) \in Blocks /\ Block(r).run = r
  /\ \A r \in {"get", "saved", "launch", "registered"}, u \in Users :
        For(r, u) \in Blocks /\ For(r, u).run = r /\ For(r, u).user = u
  /\ \A b \in Blocks : /\ b.run \in {"get", "saved", "launch", "registered"} => b.user \in Users
                       /\ b \in [run : {"save", "state", "loggedIn", "refused", "get", "saved",
                                        "launch", "registered"}, user : Users \union {NoUser}]
  BY DEF Blocks, Block, For

LEMMA PageTypes ==
  /\ \A n \in {"welcome", "login", "register"} : Page(n) \in Pages /\ Page(n).name = n
  /\ \A u \in Users : App(u) \in Pages /\ App(u).user = u
  /\ \A p \in Pages : p.name = "app" => p.user \in Users
  BY DEF Pages, Page, App

(* A block of the main queue is run: the others move up, new ones join.    *)
LEMMA Popped ==
  ASSUME TypeOK, BlocksFit, Grows, main # <<>>,
         NEW bs \in Seq(Blocks), main' = Tail(main) \o bs,
         cleared' \in {cleared, cleared + 1},
         \A j \in DOMAIN bs : bs[j].run # "save" /\ Fits(bs[j], object', accounts')
  PROVE  main' \in Seq(Blocks) /\ BlocksFit'
<1> DEFINE t == Tail(main)
<1>1. /\ main \in Seq(Blocks) /\ t \in Seq(Blocks) /\ cleared \in Nat /\ Kinds \in Nat
      /\ \A i \in DOMAIN t : i + 1 \in DOMAIN main /\ t[i] = main[i + 1]
  BY TailPositions, SessionAssumption DEF TypeOK
<1> HIDE DEF t
<1>2. /\ t \o bs \in Seq(Blocks)
      /\ \A i \in DOMAIN t : (t \o bs)[i] = t[i]
      /\ \A i \in DOMAIN bs : (t \o bs)[Len(t) + i] = bs[i]
      /\ \A i \in DOMAIN (t \o bs) : i \in DOMAIN t \/ \E j \in DOMAIN bs : i = Len(t) + j
  BY <1>1, AppendPositions
<1>3. ASSUME NEW i \in DOMAIN main'
      PROVE  Fits(main'[i], object', accounts') /\ (main'[i].run = "save" => cleared' + i <= Kinds)
  <2>0. i \in DOMAIN (t \o bs)
    BY DEF t
  <2>1. CASE i \in DOMAIN t
    <3>1. main'[i] = main[i + 1] /\ i + 1 \in DOMAIN main /\ main[i + 1] \in Blocks /\ i \in Nat
      BY <2>1, <1>1, <1>2 DEF t
    <3>2. Fits(main[i + 1], object, accounts) /\ (main[i + 1].run = "save" => cleared + (i + 1) <= Kinds)
      BY <3>1 DEF BlocksFit
    <3>3. Fits(main[i + 1], object', accounts')
      BY <3>1, <3>2, BlockTypes DEF Fits, Grows
    <3>4. QED
      BY <3>1, <3>2, <3>3, <1>1
  <2>2. CASE \E j \in DOMAIN bs : i = Len(t) + j
    <3>1. PICK j \in DOMAIN bs : i = Len(t) + j
      BY <2>2
    <3>2. main'[i] = bs[j]
      BY <3>1, <1>2 DEF t
    <3>3. QED
      BY <3>1, <3>2
  <2>3. QED
    BY <2>0, <2>1, <2>2, <1>2
<1>4. main' \in Seq(Blocks)
  BY <1>2 DEF t
<1>5. QED
  BY <1>3, <1>4 DEF BlocksFit

(* Blocks join the main queue.                                             *)
LEMMA Pushed ==
  ASSUME TypeOK, BlocksFit, Grows,
         NEW bs \in Seq(Blocks), main' = main \o bs, cleared' = cleared,
         \A j \in DOMAIN bs : bs[j].run # "save" /\ Fits(bs[j], object', accounts')
  PROVE  main' \in Seq(Blocks) /\ BlocksFit'
<1>1. main \in Seq(Blocks)
  BY DEF TypeOK
<1>2. /\ main \o bs \in Seq(Blocks)
      /\ \A i \in DOMAIN main : (main \o bs)[i] = main[i]
      /\ \A i \in DOMAIN bs : (main \o bs)[Len(main) + i] = bs[i]
      /\ \A i \in DOMAIN (main \o bs) : i \in DOMAIN main \/ \E j \in DOMAIN bs : i = Len(main) + j
  BY <1>1, AppendPositions
<1>3. ASSUME NEW i \in DOMAIN main'
      PROVE  Fits(main'[i], object', accounts') /\ (main'[i].run = "save" => cleared' + i <= Kinds)
  <2>1. CASE i \in DOMAIN main
    <3>1. main'[i] = main[i] /\ main[i] \in Blocks
      BY <2>1, <1>1, <1>2
    <3>2. Fits(main[i], object, accounts) /\ (main[i].run = "save" => cleared + i <= Kinds)
      BY <2>1 DEF BlocksFit
    <3>3. Fits(main[i], object', accounts')
      BY <3>1, <3>2, BlockTypes DEF Fits, Grows
    <3>4. QED
      BY <3>1, <3>2, <3>3
  <2>2. CASE \E j \in DOMAIN bs : i = Len(main) + j
    <3>1. PICK j \in DOMAIN bs : i = Len(main) + j
      BY <2>2
    <3>2. main'[i] = bs[j]
      BY <3>1, <1>2
    <3>3. QED
      BY <3>1, <3>2
  <2>3. QED
    BY <2>1, <2>2, <1>2
<1>4. QED
  BY <1>2, <1>3 DEF BlocksFit

(* The main queue is left alone.                                           *)
LEMMA Waited ==
  ASSUME TypeOK, BlocksFit, Grows, main' = main, cleared' = cleared
  PROVE  main' \in Seq(Blocks) /\ BlocksFit'
<1>1. main \in Seq(Blocks) /\ \A i \in DOMAIN main : main[i] \in Blocks
  BY DEF TypeOK
<1>2. ASSUME NEW i \in DOMAIN main PROVE Fits(main[i], object', accounts')
  BY <1>1, BlockTypes DEF BlocksFit, Fits, Grows
<1>3. QED
  BY <1>1, <1>2 DEF BlocksFit

(* One block joins, as an appended or a concatenated one.                  *)
LEMMA One ==
  ASSUME NEW b \in Blocks, b.run # "save", Fits(b, object', accounts')
  PROVE  /\ <<b>> \in Seq(Blocks)
         /\ \A j \in DOMAIN <<b>> : <<b>>[j].run # "save" /\ Fits(<<b>>[j], object', accounts')
  OBVIOUS

LEMMA Two ==
  ASSUME NEW b \in Blocks, b.run # "save", Fits(b, object', accounts'),
         NEW c \in Blocks, c.run # "save", Fits(c, object', accounts')
  PROVE  /\ <<b, c>> \in Seq(Blocks)
         /\ \A j \in DOMAIN <<b, c>> :
               <<b, c>>[j].run # "save" /\ Fits(<<b, c>>[j], object', accounts')
  OBVIOUS

LEMMA Appended ==
  ASSUME NEW S, NEW s \in Seq(S), NEW b
  PROVE  Append(s, b) = s \o <<b>>
  OBVIOUS

(* Blocks that rely on nothing.                                            *)
LEMMA Light ==
  ASSUME NEW b \in Blocks, b.run \in {"state", "get", "loggedIn", "refused"}
  PROVE  Fits(b, object', accounts') /\ b.run # "save"
  BY DEF Fits
-----------------------------------------------------------------------------
(* The stack is left alone, gets a page, or is cut.                        *)
LEMMA StackKept ==
  ASSUME TypeOK, PagesFit, CacheFit, AppAfterProfile, Grows, stack' = stack
  PROVE  stack' \in Seq(Pages) /\ AppAfterProfile' /\ (running => stack' # <<>> /\ stack'[1] = Page("welcome"))
<1>1. stack \in Seq(Pages) /\ \A i \in DOMAIN stack : stack[i] \in Pages
  BY DEF TypeOK
<1>2. QED
  BY <1>1, PageTypes DEF AppAfterProfile, Grows, PagesFit

LEMMA StackPushed ==
  ASSUME TypeOK, PagesFit, CacheFit, AppAfterProfile, Grows,
         NEW p \in Pages, stack' = Append(stack, p),
         p.name = "app" => object[p.user] = "ready"
  PROVE  stack' \in Seq(Pages) /\ AppAfterProfile' /\ (running => stack' # <<>> /\ stack'[1] = Page("welcome"))
<1>1. /\ stack \in Seq(Pages) /\ \A i \in DOMAIN stack : stack[i] \in Pages
      /\ stack' \in Seq(Pages) /\ stack' # <<>> /\ Len(stack') = Len(stack) + 1
      /\ DOMAIN stack' = 1..Len(stack')
      /\ \A i \in DOMAIN stack' : (i \in DOMAIN stack /\ stack'[i] = stack[i]) \/ stack'[i] = p
  BY DEF TypeOK
<1>2. \A i \in DOMAIN stack : stack[i].name = "app" =>
        object'[stack[i].user] = "ready" /\ stack[i].user \in Profiles'
  BY <1>1, PageTypes DEF AppAfterProfile, Grows
<1>3. p.name = "app" => object'[p.user] = "ready" /\ p.user \in Profiles'
  BY PageTypes DEF CacheFit, Grows
<1>4. running => stack'[1] = Page("welcome")
  BY <1>1 DEF PagesFit
<1>5. QED
  BY <1>1, <1>2, <1>3, <1>4 DEF AppAfterProfile

LEMMA StackCut ==
  ASSUME TypeOK, PagesFit, CacheFit, AppAfterProfile, Grows,
         NEW n \in 1..Len(stack), stack' = SubSeq(stack, 1, n)
  PROVE  stack' \in Seq(Pages) /\ AppAfterProfile' /\ (running => stack' # <<>> /\ stack'[1] = Page("welcome"))
<1>1. /\ stack \in Seq(Pages) /\ \A i \in DOMAIN stack : stack[i] \in Pages
      /\ stack' \in Seq(Pages) /\ Len(stack') = n /\ DOMAIN stack' = 1..n /\ stack' # <<>>
      /\ \A i \in DOMAIN stack' : i \in DOMAIN stack /\ stack'[i] = stack[i]
  BY DEF TypeOK
<1>2. \A i \in DOMAIN stack : stack[i].name = "app" =>
        object'[stack[i].user] = "ready" /\ stack[i].user \in Profiles'
  BY <1>1, PageTypes DEF AppAfterProfile, Grows
<1>3. QED
  BY <1>1, <1>2 DEF AppAfterProfile, PagesFit
-----------------------------------------------------------------------------
(* The actions, by what they do to the main queue.                         *)
Calm == \/ MainQueue \/ TapRegister \/ TapBack \/ SignOut
        \/ \E u \in Users : CoreArrives(u) \/ EditProfile(u) \/ Deliver(u)
        \/ \E r \in Requests : Reply(r) \/ \E u \in Users : TapLogin(r, u) \/ TapCreate(r, u)

(* The next block, its user, and the app that runs it.                     *)
LEMMA NextBlock ==
  ASSUME SessionInv, NEW r, NEW bs, Runs(r, bs)
  PROVE  /\ main # <<>> /\ running /\ main[1] \in Blocks /\ main[1].run = r
         /\ main' = Tail(main) \o bs
         /\ Fits(main[1], object, accounts)
         /\ r = "save" => cleared + 1 <= Kinds
         /\ r \in {"get", "saved", "launch", "registered"} => main[1].user \in Users
<1>1. main # <<>> /\ main \in Seq(Blocks) /\ main[1].run = r
  BY DEF Runs, SessionInv, TypeOK
<1>2. 1 \in DOMAIN main /\ main[1] \in Blocks
  BY <1>1
<1>3. QED
  BY <1>1, <1>2, BlockTypes DEF Runs, SessionInv, BlocksFit, PagesFit

(* The user of a request.                                                  *)
LEMMA Asker ==
  ASSUME SessionInv, NEW r \in Requests, NEW kind \in {"login", "register"}, Answers(r, kind)
  PROVE  /\ request[r].user \in Users /\ running
         /\ request' \in [Requests -> [kind : {"login", "register"}, user : Users] \union {Free}]
<1>1. request[r] \in [kind : {"login", "register"}, user : Users] \union {Free}
  BY DEF SessionInv, TypeOK
<1>2. request[r] # Free
  BY DEF Answers, Free
<1>3. QED
  BY <1>1, <1>2 DEF Answers, SessionInv, TypeOK, PagesFit

LEMMA CalmGrows ==
  ASSUME SessionInv, Calm
  PROVE  Grows /\ running
<1>1. CASE Saved \/ SaveFails \/ State \/ CoreSaved \/ LaunchUser \/ LoggedIn \/ Refused
  BY <1>1, NextBlock DEF Saved, SaveFails, State, CoreSaved, LaunchUser, LoggedIn, Refused, Grows, Profiles
<1>2. CASE Get
  <2>1. object \in [Users -> {"none", "waiting", "ready", "old"}]
    BY DEF SessionInv, TypeOK
  <2>2. QED
    BY <1>2, <2>1, NextBlock DEF Get, Grows, Profiles
<1>3. CASE Registered
  BY <1>3, NextBlock DEF Registered, Grows, Profiles
<1>4. CASE TapRegister \/ TapBack \/ SignOut
  BY <1>4 DEF TapRegister, TapBack, SignOut, On, Grows, Profiles
<1>5. ASSUME NEW u \in Users, CoreArrives(u) \/ EditProfile(u) \/ Deliver(u)
      PROVE  Grows /\ running
  BY <1>5 DEF CoreArrives, EditProfile, Deliver, Grows, Profiles, SessionInv, TypeOK, PagesFit
<1>6. ASSUME NEW r \in Requests, Reply(r)
      PROVE  Grows /\ running
  BY <1>6, Asker DEF Reply, LoginSucceeds, LoginFails, RegistrationSucceeds, RegistrationFails,
                     Grows, Profiles
<1>7. ASSUME NEW r \in Requests, NEW u \in Users, TapLogin(r, u) \/ TapCreate(r, u)
      PROVE  Grows /\ running
  BY <1>7 DEF TapLogin, TapCreate, Ask, On, Grows, Profiles
<1>8. QED
  BY <1>1, <1>2, <1>3, <1>4, <1>5, <1>6, <1>7 DEF Calm, MainQueue

LEMMA CalmBlocks ==
  ASSUME SessionInv, Calm
  PROVE  main' \in Seq(Blocks) /\ BlocksFit'
<1> USE CalmGrows
<1>0. TypeOK /\ BlocksFit /\ Grows /\ running
  BY DEF SessionInv
<1>n. <<>> \in Seq(Blocks) /\ DOMAIN <<>> = {}
  OBVIOUS
<1>st. /\ Block("state") \in Blocks /\ Block("state").run = "state"
       /\ Block("loggedIn") \in Blocks /\ Block("loggedIn").run = "loggedIn"
       /\ Block("refused") \in Blocks /\ Block("refused").run = "refused"
  BY BlockTypes
<1>1. CASE SaveFails \/ LaunchUser \/ LoggedIn \/ Registered \/ Refused
  <2>1. main # <<>> /\ main' = Tail(main) \o <<>> /\ cleared' = cleared
    BY <1>1, NextBlock DEF SaveFails, LaunchUser, LoggedIn, Registered, Refused
  <2>2. QED
    BY <1>0, <1>n, <2>1, Popped
<1>2. CASE Saved
  <2>1. CASE cleared' = Kinds
    <3>1. main # <<>> /\ main' = Tail(main) \o <<Block("state")>> /\ cleared' = cleared + 1
      BY <1>2, <2>1, NextBlock DEF Saved
    <3>2. QED
      BY <1>0, <1>st, <3>1, One, Popped, Light
  <2>2. CASE cleared' # Kinds
    <3>1. main # <<>> /\ main' = Tail(main) \o <<>> /\ cleared' = cleared + 1
      BY <1>2, <2>2, NextBlock DEF Saved
    <3>2. QED
      BY <1>0, <1>n, <3>1, Popped
  <2>3. QED
    BY <2>1, <2>2
<1>3. CASE State
  <2>1. CASE auth = NoUser
    <3>1. main # <<>> /\ main' = Tail(main) \o <<>> /\ cleared' = cleared
      BY <1>3, <2>1, NextBlock DEF State
    <3>2. QED
      BY <1>0, <1>n, <3>1, Popped
  <2>2. CASE auth # NoUser
    <3>1. main # <<>> /\ main' = Tail(main) \o <<For("get", auth)>> /\ cleared' = cleared
      BY <1>3, <2>2, NextBlock DEF State
    <3>2. For("get", auth) \in Blocks /\ For("get", auth).run = "get"
      BY <2>2, <1>0, BlockTypes DEF TypeOK
    <3>3. QED
      BY <1>0, <3>1, <3>2, One, Popped, Light
  <2>3. QED
    BY <2>1, <2>2
<1>4. CASE Get
  <2> DEFINE u == main[1].user
  <2>1. u \in Users /\ cleared' = cleared /\ main # <<>>
    BY <1>4, NextBlock DEF Get
  <2>2. For("launch", u) \in Blocks /\ For("launch", u).run = "launch" /\ For("launch", u).user = u
    BY <2>1, BlockTypes
  <2>3. CASE object[u] \in {"ready", "old"}
    <3>1. main' = Tail(main) \o <<For("launch", u)>>
      BY <1>4, <2>3, NextBlock DEF Get
    <3>2. object[u] = "ready"
      BY <1>0, <2>1, <2>3 DEF SessionInv, CacheFit
    <3>3. Fits(For("launch", u), object', accounts')
      BY <1>0, <2>1, <2>2, <3>2 DEF Fits, Grows
    <3>4. QED
      BY <1>0, <2>1, <2>2, <3>1, <3>3, One, Popped
  <2>4. CASE object[u] \notin {"ready", "old"}
    <3>1. main' = Tail(main) \o <<>>
      BY <1>4, <2>4, NextBlock DEF Get
    <3>2. QED
      BY <1>0, <1>n, <2>1, <3>1, Popped
  <2>5. QED
    BY <2>3, <2>4
<1>5. CASE CoreSaved
  <2> DEFINE u == main[1].user
  <2>0. Runs("saved", <<For("launch", u)>>) /\ cleared' = cleared
    BY <1>5 DEF CoreSaved
  <2>a. /\ u \in Users /\ main # <<>> /\ main' = Tail(main) \o <<For("launch", u)>>
        /\ main[1].run = "saved" /\ Fits(main[1], object, accounts)
    BY <2>0, NextBlock
  <2>1. /\ u \in Users /\ main # <<>> /\ object[u] = "ready"
        /\ main' = Tail(main) \o <<For("launch", u)>>
    BY <2>a DEF Fits
  <2>2. For("launch", u) \in Blocks /\ For("launch", u).run = "launch" /\ For("launch", u).user = u
    BY <2>1, BlockTypes
  <2>3. Fits(For("launch", u), object', accounts')
    BY <1>0, <2>1, <2>2 DEF Fits, Grows
  <2>4. QED
    BY <1>0, <2>0, <2>1, <2>2, <2>3, One, Popped
<1>6. ASSUME NEW u \in Users, CoreArrives(u) \/ EditProfile(u)
      PROVE  main' \in Seq(Blocks) /\ BlocksFit'
  <2>1. For("saved", u) \in Blocks /\ For("saved", u).run = "saved" /\ For("saved", u).user = u
    BY BlockTypes
  <2>2. main' = main \o <<For("saved", u)>> /\ cleared' = cleared
    BY <1>0, <1>6, Appended DEF CoreArrives, EditProfile, TypeOK
  <2>3. object'[u] = "ready"
    BY <1>0, <1>6 DEF CoreArrives, EditProfile, TypeOK
  <2>4. Fits(For("saved", u), object', accounts')
    BY <2>1, <2>3 DEF Fits
  <2>5. QED
    BY <1>0, <2>1, <2>2, <2>4, One, Pushed
<1>7. CASE SignOut
  <2>1. main' = main \o <<Block("state")>> /\ cleared' = cleared
    BY <1>0, <1>7, <1>st DEF SignOut, TypeOK
  <2>2. QED
    BY <1>0, <1>st, <2>1, One, Pushed, Light
<1>8. ASSUME NEW b \in Blocks, NEW u, SignsIn(u, b), Fits(b, object', accounts'), b.run # "save",
             cleared' = cleared
      PROVE  main' \in Seq(Blocks) /\ BlocksFit'
  <2>1. CASE auth = u
    <3>1. main' = main \o <<b>>
      BY <1>0, <1>8, <2>1 DEF SignsIn, TypeOK
    <3>2. QED
      BY <1>0, <1>8, <3>1, One, Pushed
  <2>2. CASE auth # u
    <3>1. main' = main \o <<Block("state"), b>>
      BY <1>0, <1>8, <1>st, <2>2 DEF SignsIn, TypeOK
    <3>2. QED
      BY <1>0, <1>8, <1>st, <3>1, Two, Pushed, Light
  <2>3. QED
    BY <2>1, <2>2
<1>9. ASSUME NEW r \in Requests, Reply(r)
      PROVE  main' \in Seq(Blocks) /\ BlocksFit'
  <2>1. CASE LoginSucceeds(r)
    BY <1>8, <1>st, <2>1, Light DEF LoginSucceeds
  <2>2. CASE LoginFails(r)
    BY <1>0, <2>2, Waited DEF LoginFails
  <2>3. CASE RegistrationSucceeds(r)
    <3> DEFINE u == request[r].user
    <3>1. u \in Users /\ u \in accounts' /\ cleared' = cleared /\ SignsIn(u, For("registered", u))
      BY <2>3, Asker DEF RegistrationSucceeds
    <3>2. /\ For("registered", u) \in Blocks /\ For("registered", u).run = "registered"
          /\ For("registered", u).user = u
      BY <3>1, BlockTypes
    <3>3. Fits(For("registered", u), object', accounts')
      BY <3>1, <3>2 DEF Fits
    <3>4. QED
      BY <1>8, <3>1, <3>2, <3>3
  <2>4. CASE RegistrationFails(r)
    <3>1. main' = main \o <<Block("refused")>> /\ cleared' = cleared
      BY <1>0, <2>4, <1>st DEF RegistrationFails, TypeOK
    <3>2. QED
      BY <1>0, <1>st, <3>1, One, Pushed, Light
  <2>5. QED
    BY <1>9, <2>1, <2>2, <2>3, <2>4 DEF Reply
<1>10. ASSUME NEW u \in Users, \/ Deliver(u)
                               \/ \E r \in Requests : TapLogin(r, u) \/ TapCreate(r, u)
       PROVE  main' \in Seq(Blocks) /\ BlocksFit'
  BY <1>0, <1>10, Waited DEF Deliver, TapLogin, TapCreate, Ask
<1>11. CASE TapRegister \/ TapBack
  BY <1>0, <1>11, Waited DEF TapRegister, TapBack
<1>12. QED
  BY <1>1, <1>2, <1>3, <1>4, <1>5, <1>6, <1>7, <1>9, <1>10, <1>11 DEF Calm, MainQueue

LEMMA CalmStack ==
  ASSUME SessionInv, Calm
  PROVE  stack' \in Seq(Pages) /\ AppAfterProfile' /\ stack' # <<>> /\ stack'[1] = Page("welcome")
<1>0. /\ TypeOK /\ PagesFit /\ CacheFit /\ AppAfterProfile /\ Grows /\ running
      /\ stack \in Seq(Pages) /\ stack # <<>> /\ stack[1] = Page("welcome") /\ Len(stack) \in Nat \ {0}
  BY CalmGrows DEF SessionInv, TypeOK, PagesFit
<1>1. CASE stack' = stack
  BY <1>0, <1>1, StackKept
<1>2. ASSUME NEW n \in {"login", "register"}, stack' = Append(stack, Page(n))
      PROVE  stack' \in Seq(Pages) /\ AppAfterProfile' /\ stack' # <<>> /\ stack'[1] = Page("welcome")
  <2>1. Page(n) \in Pages /\ Page(n).name # "app"
    BY PageTypes
  <2>2. QED
    BY <1>0, <1>2, <2>1, StackPushed
<1>3. CASE stack' = Root
  <2>1. stack' = SubSeq(stack, 1, 1) /\ 1 \in 1..Len(stack)
    BY <1>0, <1>3 DEF Root
  <2>2. QED
    BY <1>0, <2>1, StackCut
<1>4. CASE State
  BY <1>1, <1>2, <1>4 DEF State
<1>5. CASE LaunchUser
  <2> DEFINE u == main[1].user
  <2>1. Runs("launch", <<>>) /\ stack' = Append(stack, App(u))
    BY <1>5 DEF LaunchUser
  <2>2. u \in Users /\ main[1].run = "launch" /\ Fits(main[1], object, accounts)
    BY <2>1, NextBlock
  <2>3. object[u] = "ready"
    BY <2>2 DEF Fits
  <2>4. App(u) \in Pages /\ App(u).user = u
    BY <2>2, PageTypes
  <2>5. QED
    BY <1>0, <2>1, <2>3, <2>4, StackPushed
<1>6. CASE TapBack
  <2>1. stack' = SubSeq(stack, 1, Len(stack) - 1) /\ stack[Len(stack)].name = "register"
    BY <1>6 DEF TapBack, On
  <2>2. Len(stack) # 1
    BY <1>0, <2>1, PageTypes
  <2>a. Len(stack) \in Nat \ {0}
    BY <1>0
  <2>3. Len(stack) - 1 \in 1..Len(stack)
    BY <2>a, <2>2
  <2>4. QED
    BY <1>0, <2>1, <2>3, StackCut
<1>7. CASE Saved \/ SaveFails \/ Get \/ CoreSaved \/ SignOut
  BY <1>1, <1>7 DEF Saved, SaveFails, Get, CoreSaved, SignOut
<1>8. CASE LoggedIn \/ Registered \/ Refused
  BY <1>3, <1>8 DEF LoggedIn, Registered, Refused
<1>9. CASE TapRegister
  BY <1>2, <1>9 DEF TapRegister
<1>10. ASSUME NEW u \in Users, CoreArrives(u) \/ EditProfile(u) \/ Deliver(u)
       PROVE  stack' = stack
  BY <1>10 DEF CoreArrives, EditProfile, Deliver
<1>11. ASSUME NEW r \in Requests, Reply(r)
       PROVE  stack' = stack
  BY <1>11 DEF Reply, LoginSucceeds, LoginFails, RegistrationSucceeds, RegistrationFails
<1>12. ASSUME NEW r \in Requests, NEW u \in Users, TapLogin(r, u) \/ TapCreate(r, u)
       PROVE  stack' = stack
  BY <1>12 DEF TapLogin, TapCreate, Ask
<1>13. QED
  BY <1>1, <1>4, <1>5, <1>6, <1>7, <1>8, <1>9, <1>10, <1>11, <1>12 DEF Calm, MainQueue

(* The variables that are neither the main queue nor the stack.            *)
Others ==
  /\ running \in BOOLEAN /\ cleared \in 0..Kinds
  /\ object \in [Users -> {"none", "waiting", "ready", "old"}]
  /\ auth \in Users \union {NoUser}
  /\ accounts \subseteq Users /\ record \subseteq accounts /\ unsent \subseteq accounts
  /\ request \in [Requests -> [kind : {"login", "register"}, user : Users] \union {Free}]
  /\ launches \in 0..MaxLaunches /\ requests \in 0..MaxRequests /\ edits \in 0..MaxEdits
  /\ refused \in BOOLEAN /\ overlapped \in BOOLEAN

LEMMA CalmOthers ==
  ASSUME SessionInv, Calm
  PROVE  Others' /\ CacheFit'
<1>0. Others /\ CacheFit /\ running
  BY CalmGrows DEF SessionInv, TypeOK, Others
<1>1. CASE Saved
  <2>1. cleared' = cleared + 1 /\ cleared + 1 <= Kinds
    BY <1>1, NextBlock DEF Saved
  <2>2. cleared' \in 0..Kinds
    BY <1>0, <2>1, SessionAssumption DEF Others
  <2>3. QED
    BY <1>0, <1>1, <2>2 DEF Saved, Others, CacheFit, Profiles, bounds, ghosts
<1>2. CASE SaveFails \/ State \/ CoreSaved \/ LaunchUser \/ LoggedIn \/ Refused \/ TapRegister \/ TapBack
  BY <1>0, <1>2 DEF SaveFails, State, CoreSaved, LaunchUser, LoggedIn, Refused, TapRegister, TapBack,
                    Others, CacheFit, Profiles, bounds, ghosts
<1>3. CASE Get
  BY <1>0, <1>3 DEF Get, Others, CacheFit, Profiles, bounds, ghosts
<1>4. CASE Registered
  <2>1. Runs("registered", <<>>) /\ unsent' = unsent \union {main[1].user}
    BY <1>4 DEF Registered
  <2>2. main[1].run = "registered" /\ Fits(main[1], object, accounts)
    BY <2>1, NextBlock
  <2>3. main[1].user \in accounts
    BY <2>2 DEF Fits
  <2>4. QED
    BY <1>0, <1>4, <2>3 DEF Registered, Others, CacheFit, Profiles, bounds, ghosts
<1>5. CASE SignOut
  BY <1>0, <1>5 DEF SignOut, Others, CacheFit, Profiles, bounds, ghosts
<1>6. ASSUME NEW u \in Users, CoreArrives(u) \/ EditProfile(u) \/ Deliver(u)
      PROVE  Others' /\ CacheFit'
  <2>a. edits \in 0..MaxEdits /\ MaxEdits \in Nat
    BY <1>0, SessionAssumption DEF Others
  <2>b. edits' = edits \/ (edits > 0 /\ edits' = edits - 1)
    BY <1>6 DEF CoreArrives, EditProfile, Deliver, bounds
  <2>1. edits' \in 0..MaxEdits
    BY <2>a, <2>b
  <2>2. QED
    BY <1>0, <1>6, <2>1 DEF CoreArrives, EditProfile, Deliver, Others, CacheFit, Profiles, bounds, ghosts
<1>7. ASSUME NEW r \in Requests, Reply(r)
      PROVE  Others' /\ CacheFit'
  <2>1. CASE LoginSucceeds(r)
    <3>1. auth' \in Users /\ request' \in [Requests -> [kind : {"login", "register"}, user : Users] \union {Free}]
      BY <2>1, Asker DEF LoginSucceeds, SignsIn
    <3>2. QED
      BY <1>0, <2>1, <3>1 DEF LoginSucceeds, Others, CacheFit, Profiles, bounds, ghosts
  <2>2. CASE LoginFails(r)
    <3>1. request' \in [Requests -> [kind : {"login", "register"}, user : Users] \union {Free}]
      BY <2>2, Asker DEF LoginFails
    <3>2. QED
      BY <1>0, <2>2, <3>1 DEF LoginFails, Others, CacheFit, Profiles, bounds, ghosts
  <2>3. CASE RegistrationSucceeds(r)
    <3>1. /\ auth' \in Users /\ accounts' \subseteq Users /\ accounts \subseteq accounts'
          /\ request' \in [Requests -> [kind : {"login", "register"}, user : Users] \union {Free}]
      BY <1>0, <2>3, Asker DEF RegistrationSucceeds, SignsIn, Others
    <3>2. QED
      BY <1>0, <2>3, <3>1 DEF RegistrationSucceeds, Others, CacheFit, Profiles, bounds, ghosts
  <2>4. CASE RegistrationFails(r)
    <3>1. request' \in [Requests -> [kind : {"login", "register"}, user : Users] \union {Free}]
      BY <2>4, Asker DEF RegistrationFails
    <3>2. QED
      BY <1>0, <2>4, <3>1 DEF RegistrationFails, Others, CacheFit, Profiles, bounds, ghosts
  <2>5. QED
    BY <1>7, <2>1, <2>2, <2>3, <2>4 DEF Reply
<1>8. ASSUME NEW r \in Requests, NEW u \in Users, NEW kind \in {"login", "register"}, Ask(r, kind, u)
      PROVE  Others' /\ CacheFit'
  <2>1. requests' \in 0..MaxRequests
    BY <1>0, <1>8, SessionAssumption DEF Ask, Others
  <2>2. request' \in [Requests -> [kind : {"login", "register"}, user : Users] \union {Free}]
    BY <1>0, <1>8 DEF Ask, Others
  <2>3. overlapped' \in BOOLEAN
    BY <1>0, <1>8 DEF Ask, Others, Asked
  <2>4. QED
    BY <1>0, <1>8, <2>1, <2>2, <2>3 DEF Ask, Others, CacheFit, Profiles
<1>9. QED
  BY <1>1, <1>2, <1>3, <1>4, <1>5, <1>6, <1>7, <1>8 DEF Calm, MainQueue, TapLogin, TapCreate
-----------------------------------------------------------------------------
LEMMA CalmSteps ==
  ASSUME SessionInv, Calm
  PROVE  SessionInv'
<1>1. running /\ running' = running
  BY CalmGrows DEF Grows
<1>2. PagesFit'
  BY <1>1, CalmStack DEF PagesFit
<1>3. TypeOK'
  BY CalmBlocks, CalmStack, CalmOthers DEF TypeOK, Others
<1>4. QED
  BY <1>2, <1>3, CalmBlocks, CalmStack, CalmOthers DEF SessionInv

LEMMA Launches ==
  ASSUME SessionInv, Launch
  PROVE  SessionInv'
<1>1. Kinds \in Nat \ {0}
  BY SessionAssumption
<1>2. Block("save") \in Blocks /\ Block("save").run = "save" /\ Page("welcome") \in Pages
      /\ Page("welcome").name = "welcome"
  BY BlockTypes, PageTypes
<1>3. main' \in Seq(Blocks) /\ BlocksFit'
  <2>1. main' = [k \in 1..Kinds |-> Block("save")] /\ cleared' = 0
    BY DEF Launch
  <2>2. main' \in Seq(Blocks) /\ DOMAIN main' = 1..Kinds
    BY <1>1, <1>2, <2>1
  <2>3. \A i \in DOMAIN main' : main'[i] = Block("save") /\ cleared' + i <= Kinds
    BY <1>1, <2>1
  <2>4. Fits(Block("save"), object', accounts')
    BY <1>2 DEF Fits
  <2>5. QED
    BY <2>2, <2>3, <2>4 DEF BlocksFit
<1>4. stack' = <<Page("welcome")>> /\ stack' \in Seq(Pages)
  BY <1>2 DEF Launch
<1>5. PagesFit' /\ AppAfterProfile'
  BY <1>2, <1>4 DEF PagesFit, AppAfterProfile, Launch
<1>6. CacheFit'
  BY DEF CacheFit, Launch
<1>7. launches' \in 0..MaxLaunches /\ cleared' \in 0..Kinds
  BY <1>1, SessionAssumption DEF Launch, SessionInv, TypeOK
<1>8. TypeOK'
  BY <1>3, <1>4, <1>7 DEF Launch, SessionInv, TypeOK
<1>9. QED
  BY <1>3, <1>5, <1>6, <1>8 DEF SessionInv

LEMMA Kills ==
  ASSUME SessionInv, Kill
  PROVE  SessionInv'
<1>1. main' = <<>> /\ stack' = <<>> /\ running' = FALSE /\ unsent' = {}
  BY DEF Kill
<1>a. TypeOK
  BY DEF SessionInv
<1>b. object' \in [Users -> {"none", "waiting", "ready", "old"}]
  BY DEF Kill
<1>c. request' \in [Requests -> [kind : {"login", "register"}, user : Users] \union {Free}]
  BY DEF Kill
<1>d. main' \in Seq(Blocks) /\ stack' \in Seq(Pages)
  BY <1>1
<1>2. TypeOK'
  BY <1>1, <1>a, <1>b, <1>c, <1>d DEF Kill, TypeOK, bounds, ghosts
<1>3. BlocksFit' /\ AppAfterProfile'
  BY <1>1 DEF BlocksFit, AppAfterProfile
<1>4. PagesFit' /\ CacheFit'
  BY <1>1 DEF Kill, PagesFit, CacheFit, SessionInv, TypeOK
<1>5. QED
  BY <1>2, <1>3, <1>4 DEF SessionInv

LEMMA Initial ==
  Init => SessionInv
<1> SUFFICES ASSUME Init PROVE SessionInv
  OBVIOUS
<1>1. main = <<>> /\ stack = <<>> /\ ~running /\ unsent = {} /\ cleared = 0
  BY DEF Init
<1>a. main \in Seq(Blocks) /\ stack \in Seq(Pages)
  BY <1>1
<1>b. /\ cleared \in 0..Kinds /\ launches \in 0..MaxLaunches
      /\ requests \in 0..MaxRequests /\ edits \in 0..MaxEdits
  BY <1>1, SessionAssumption DEF Init
<1>2. TypeOK
  BY <1>1, <1>a, <1>b DEF Init, TypeOK
<1>3. BlocksFit /\ AppAfterProfile
  BY <1>1 DEF BlocksFit, AppAfterProfile
<1>4. PagesFit /\ CacheFit
  BY <1>1 DEF Init, PagesFit, CacheFit
<1>5. QED
  BY <1>2, <1>3, <1>4 DEF SessionInv

LEMMA Inductive ==
  SessionInv /\ [Next]_vars => SessionInv'
<1> SUFFICES ASSUME SessionInv, [Next]_vars PROVE SessionInv'
  OBVIOUS
<1>1. CASE Launch
  BY <1>1, Launches
<1>2. CASE Kill
  BY <1>2, Kills
<1>3. CASE Calm
  BY <1>3, CalmSteps
<1>4. CASE UNCHANGED vars
  BY <1>4 DEF vars, bounds, ghosts, SessionInv, TypeOK, BlocksFit, Fits, PagesFit, CacheFit,
              AppAfterProfile, Profiles
<1>5. QED
  BY <1>1, <1>2, <1>3, <1>4 DEF Next, Calm

(* Every reachable state of Session is well typed: no block runs for a     *)
(* user it was not made for, and no save is counted twice.                 *)
THEOREM TypeCorrect == Spec => []TypeOK
<1>1. SessionInv => TypeOK
  BY DEF SessionInv
<1>2. QED
  BY <1>1, Initial, Inductive, PTL DEF Spec

(* The app is only ever open for users whose profile was read in this      *)
(* launch (ClearAssistant clears the cache before the listener can fill    *)
(* the stack; a registration writes the profile before it is read).        *)
THEOREM OpensOnProfiles == Spec => []AppAfterProfile
<1>1. SessionInv => AppAfterProfile
  BY DEF SessionInv
<1>2. QED
  BY <1>1, Initial, Inductive, PTL DEF Spec
-----------------------------------------------------------------------------
(* A login page for whoever is signed out.  A sign-out, or the last save   *)
(* of the clearing, queues the block of the listener, and only the blocks  *)
(* that end a request pop pages; none of these can follow that block       *)
(* unless somebody is signed in again, or a registration is refused.       *)
Pops == {"loggedIn", "registered", "refused"}

NoneAfter(i) == \A j \in DOMAIN main : j > i => main[j].run \notin Pops

Refusing == refused \/ \E j \in DOMAIN main : main[j].run = "refused"
Coming   == \E i \in DOMAIN main : main[i].run = "state" /\ NoneAfter(i)
Kept     == Shows(Page("login")) /\ NoneAfter(0)

OfferInv == Listening /\ auth = NoUser => Refusing \/ Coming \/ Kept

(* Blocks that join, none of which pops a page.                            *)
Mild(bs) == bs \in Seq(Blocks) /\ \A j \in DOMAIN bs : bs[j].run \notin Pops

LEMMA MildBlocks ==
  /\ Mild(<<>>)
  /\ \A b \in Blocks : b.run \notin Pops => Mild(<<b>>)
  BY DEF Mild

(* What may come behind the queue leaves the promise of a page in place.   *)
LEMMA Joined ==
  ASSUME TypeOK, NEW bs, Mild(bs), main' = main \o bs, Refusing \/ Coming \/ Kept,
         refused' = refused, Shows(Page("login")) => Shows(Page("login"))'
  PROVE  (Refusing \/ Coming \/ Kept)'
<1>1. /\ main \in Seq(Blocks) /\ bs \in Seq(Blocks)
      /\ \A i \in DOMAIN main : i \in DOMAIN main' /\ main'[i] = main[i]
      /\ \A i \in DOMAIN main' : \/ i \in DOMAIN main /\ main'[i] = main[i]
                                 \/ \E j \in DOMAIN bs : main'[i] = bs[j]
  BY AppendPositions DEF TypeOK, Mild
<1>2. ASSUME NEW i, NoneAfter(i) PROVE NoneAfter(i)'
  BY <1>1, <1>2 DEF NoneAfter, Mild
<1>3. Refusing => Refusing'
  BY <1>1 DEF Refusing
<1>4. Coming => Coming'
  BY <1>1, <1>2 DEF Coming
<1>5. Kept => Kept'
  BY <1>2 DEF Kept
<1>6. QED
  BY <1>3, <1>4, <1>5

(* The block at the front is run.                                          *)
LEMMA Ran ==
  ASSUME TypeOK, main # <<>>, NEW bs, Mild(bs), main' = Tail(main) \o bs,
         Refusing \/ Coming \/ Kept,
         main[1].run = "refused" => refused', refused => refused',
         main[1].run = "state" => Shows(Page("login"))',
         main[1].run \in Pops \/ (Shows(Page("login")) => Shows(Page("login"))')
  PROVE  (Refusing \/ Coming \/ Kept)'
<1> DEFINE t == Tail(main)
<1>1. /\ main \in Seq(Blocks) /\ bs \in Seq(Blocks) /\ t \in Seq(Blocks) /\ 1 \in DOMAIN main
      /\ \A i \in DOMAIN t : i + 1 \in DOMAIN main /\ t[i] = main[i + 1]
      /\ \A i \in DOMAIN main : i = 1 \/ (i - 1 \in DOMAIN t /\ t[i - 1] = main[i])
  BY TailPositions DEF TypeOK, Mild
<1>2. /\ \A i \in DOMAIN t : i \in DOMAIN main' /\ main'[i] = t[i]
      /\ \A i \in DOMAIN main' : \/ i \in DOMAIN t /\ main'[i] = t[i]
                                 \/ \E j \in DOMAIN bs : main'[i] = bs[j]
      /\ \A i \in DOMAIN main : i \in Nat /\ i >= 1
  BY <1>1, AppendPositions
<1> HIDE DEF t
<1>3. ASSUME NEW i \in Nat, NoneAfter(i), i >= 1 PROVE NoneAfter(i - 1)'
  <2>1. SUFFICES ASSUME NEW j \in DOMAIN main', j > i - 1 PROVE main'[j].run \notin Pops
    BY DEF NoneAfter
  <2>2. CASE j \in DOMAIN t /\ main'[j] = t[j]
    <3>1. j + 1 \in DOMAIN main /\ main'[j] = main[j + 1] /\ j \in Nat
      BY <1>1, <2>2
    <3>2. QED
      BY <1>3, <2>1, <3>1 DEF NoneAfter
  <2>3. QED
    BY <1>2, <2>1, <2>2 DEF Mild
<1>4. ASSUME Refusing PROVE Refusing'
  <2>1. CASE refused
    BY <2>1 DEF Refusing
  <2>2. CASE \E j \in DOMAIN main : main[j].run = "refused"
    <3>1. PICK j \in DOMAIN main : main[j].run = "refused"
      BY <2>2
    <3>2. CASE j = 1
      BY <3>1, <3>2 DEF Refusing
    <3>3. CASE j - 1 \in DOMAIN t /\ t[j - 1] = main[j]
      <4>1. j - 1 \in DOMAIN main' /\ main'[j - 1].run = "refused"
        BY <1>2, <3>1, <3>3
      <4>2. QED
        BY <4>1 DEF Refusing
    <3>4. QED
      BY <1>1, <3>2, <3>3
  <2>3. QED
    BY <1>4, <2>1, <2>2 DEF Refusing
<1>5. ASSUME Coming PROVE Coming' \/ Kept'
  <2>1. PICK i \in DOMAIN main : main[i].run = "state" /\ NoneAfter(i)
    BY <1>5 DEF Coming
  <2>2. NoneAfter(i - 1)'
    BY <1>2, <1>3, <2>1
  <2>3. CASE i = 1
    BY <2>1, <2>2, <2>3 DEF Kept
  <2>4. CASE i # 1
    <3>1. i - 1 \in DOMAIN main' /\ main'[i - 1] = main[i]
      BY <1>1, <1>2, <2>4
    <3>2. QED
      BY <2>1, <2>2, <3>1 DEF Coming
  <2>5. QED
    BY <2>3, <2>4
<1>6. ASSUME Kept PROVE Kept'
  <2>1. main[1].run \notin Pops /\ NoneAfter(1)
    BY <1>1, <1>6 DEF Kept, NoneAfter
  <2>2. NoneAfter(0)'
    BY <1>3, <2>1
  <2>3. QED
    BY <1>6, <2>1, <2>2 DEF Kept
<1>7. QED
  BY <1>4, <1>5, <1>6

(* The block of the listener is queued last.                               *)
LEMMA Announced ==
  ASSUME NEW s \in Seq(Blocks), main' = Append(s, Block("state"))
  PROVE  Coming'
<1>1. Len(s) + 1 \in DOMAIN main' /\ main'[Len(s) + 1].run = "state"
      /\ \A j \in DOMAIN main' : ~(j > Len(s) + 1)
  BY BlockTypes
<1>2. QED
  BY <1>1 DEF Coming, NoneAfter

(* No page but the one on top goes away, and a page that is pushed stays.  *)
LEMMA LoginStays ==
  ASSUME TypeOK
  PROVE  /\ stack' = stack => (Shows(Page("login")) => Shows(Page("login"))')
         /\ \A p \in Pages : stack' = Append(stack, p) =>
              /\ Shows(Page("login")) => Shows(Page("login"))'
              /\ p = Page("login") => Shows(Page("login"))'
         /\ TapBack => (Shows(Page("login")) => Shows(Page("login"))')
<1>1. stack' = stack => (Shows(Page("login")) => Shows(Page("login"))')
  BY DEF Shows
<1>2. ASSUME NEW p \in Pages, stack' = Append(stack, p)
      PROVE  /\ Shows(Page("login")) => Shows(Page("login"))'
             /\ p = Page("login") => Shows(Page("login"))'
  <2>1. /\ stack \in Seq(Pages)
        /\ \A i \in DOMAIN stack : i \in DOMAIN stack' /\ stack'[i] = stack[i]
        /\ Len(stack) + 1 \in DOMAIN stack' /\ stack'[Len(stack) + 1] = p
    BY <1>2 DEF TypeOK
  <2>2. QED
    BY <2>1 DEF Shows
<1>3. ASSUME TapBack, Shows(Page("login")) PROVE Shows(Page("login"))'
  <2>1. /\ stack \in Seq(Pages) /\ stack # <<>> /\ stack[Len(stack)].name = "register"
        /\ stack' = SubSeq(stack, 1, Len(stack) - 1)
    BY <1>3 DEF TapBack, On, TypeOK
  <2>2. PICK i \in DOMAIN stack : stack[i] = Page("login")
    BY <1>3 DEF Shows
  <2>3. i # Len(stack)
    BY <2>1, <2>2, PageTypes
  <2>4. i \in DOMAIN stack' /\ stack'[i] = stack[i]
    BY <2>1, <2>2, <2>3
  <2>5. QED
    BY <2>2, <2>4 DEF Shows
<1>4. QED
  BY <1>1, <1>2, <1>3

LEMMA OfferStep ==
  ASSUME SessionInv, OfferInv, [Next]_vars
  PROVE  OfferInv'
<1> USE DEF ghosts, bounds
<1> DEFINE Promise == Refusing \/ Coming \/ Kept
<1>0. TypeOK /\ main \in Seq(Blocks) /\ SessionAssumption /\ main \o <<>> = main
  BY SessionAssumption DEF SessionInv, TypeOK
<1>1. SUFFICES ASSUME Listening', auth' = NoUser PROVE Promise'
  BY DEF OfferInv
<1>2. ASSUME Listening, auth = NoUser PROVE Promise
  BY <1>2 DEF OfferInv
<1>3. CASE Launch \/ Kill
  BY <1>0, <1>1, <1>3 DEF Launch, Kill, Listening, SessionAssumption
<1>4. CASE Saved
  <2>1. main' = Tail(main) \o (IF cleared' = Kinds THEN <<Block("state")>> ELSE <<>>)
    BY <1>4 DEF Saved, Runs
  <2>2. /\ cleared' = Kinds
        /\ main # <<>>
    BY <1>1, <1>4 DEF Listening, Saved, Runs
  <2>3. /\ main' = Tail(main) \o <<Block("state")>>
        /\ Tail(main) \in Seq(Blocks)
    BY <1>0, <2>1, <2>2
  <2>4. main' = Append(Tail(main), Block("state"))
    BY <2>3
  <2>5. QED
    BY <2>3, <2>4, Announced
<1>5. ASSUME Listening, auth = NoUser, main # <<>>, refused' = refused, stack' = stack,
             NEW bs, Mild(bs), main' = Tail(main) \o bs, main[1].run \notin Pops \union {"state"}
      PROVE  Promise'
  BY <1>0, <1>2, <1>5, LoginStays, Ran DEF Pops
<1>6. CASE SaveFails
  <2>1. /\ Listening /\ auth = NoUser /\ main # <<>> /\ refused' = refused /\ stack' = stack
        /\ main' = Tail(main) \o <<>> /\ main[1].run = "save"
    BY <1>1, <1>6 DEF SaveFails, Runs, Listening
  <2>2. QED
    BY <1>5, <2>1, MildBlocks DEF Pops
<1>7. CASE State
  <2>1. /\ Listening /\ auth = NoUser /\ main # <<>> /\ refused' = refused
        /\ stack' = Append(stack, Page("login"))
        /\ main' = Tail(main) \o <<>> /\ main[1].run = "state"
    BY <1>1, <1>7 DEF State, Runs, Listening
  <2>2. Page("login") \in Pages
    BY PageTypes
  <2>3. Shows(Page("login"))'
    BY <1>0, <2>1, <2>2, LoginStays
  <2>4. QED
    BY <1>0, <1>2, <2>1, <2>3, MildBlocks, Ran
<1>8. CASE Get
  <2> DEFINE bs == IF object[main[1].user] \in {"ready", "old"}
                   THEN <<For("launch", main[1].user)>> ELSE <<>>
  <2>1. /\ Listening /\ auth = NoUser /\ main # <<>> /\ refused' = refused /\ stack' = stack
        /\ main' = Tail(main) \o bs /\ main[1].run = "get"
    BY <1>1, <1>8 DEF Get, Runs, Listening
  <2>2. main[1].user \in Users
    BY <1>8, NextBlock DEF Get
  <2>3. Mild(bs)
    BY <2>2, MildBlocks, BlockTypes DEF Pops
  <2> HIDE DEF bs
  <2>4. QED
    BY <1>5, <2>1, <2>3 DEF Pops
<1>9. CASE CoreSaved
  <2>1. /\ Listening /\ auth = NoUser /\ main # <<>> /\ refused' = refused /\ stack' = stack
        /\ main' = Tail(main) \o <<For("launch", main[1].user)>> /\ main[1].run = "saved"
    BY <1>1, <1>9 DEF CoreSaved, Runs, Listening
  <2>2. main[1].user \in Users
    BY <1>9, NextBlock DEF CoreSaved
  <2>3. Mild(<<For("launch", main[1].user)>>)
    BY <2>2, MildBlocks, BlockTypes DEF Pops
  <2>4. QED
    BY <1>5, <2>1, <2>3 DEF Pops
<1>10. CASE LaunchUser
  <2>1. /\ Listening /\ auth = NoUser /\ main # <<>> /\ refused' = refused
        /\ stack' = Append(stack, App(main[1].user))
        /\ main' = Tail(main) \o <<>> /\ main[1].run = "launch"
    BY <1>1, <1>10 DEF LaunchUser, Runs, Listening
  <2>2. App(main[1].user) \in Pages
    BY <1>10, NextBlock, PageTypes DEF LaunchUser
  <2>3. Shows(Page("login")) => Shows(Page("login"))'
    BY <1>0, <2>1, <2>2, LoginStays
  <2>4. QED
    BY <1>0, <1>2, <2>1, <2>3, MildBlocks, Ran DEF Pops
<1>11. CASE LoggedIn \/ Registered
  <2>1. /\ Listening /\ auth = NoUser /\ main # <<>> /\ refused' = refused
        /\ main' = Tail(main) \o <<>> /\ main[1].run \in {"loggedIn", "registered"}
    BY <1>1, <1>11 DEF LoggedIn, Registered, Runs, Listening
  <2>2. QED
    BY <1>0, <1>2, <2>1, MildBlocks, Ran DEF Pops
<1>12. CASE Refused
  BY <1>12 DEF Refused, Refusing
<1>13. ASSUME Listening, auth = NoUser, refused' = refused, NEW bs, Mild(bs),
              main' = main \o bs, Shows(Page("login")) => Shows(Page("login"))'
       PROVE  Promise'
  BY <1>0, <1>2, <1>13, Joined
<1>14. CASE TapRegister \/ TapBack
  <2>1. /\ Listening /\ auth = NoUser /\ refused' = refused /\ main' = main
    BY <1>0, <1>1, <1>14 DEF TapRegister, TapBack, Listening
  <2>2. Shows(Page("login")) => Shows(Page("login"))'
    BY <1>0, <1>14, LoginStays, PageTypes DEF TapRegister
  <2>3. QED
    BY <1>0, <1>13, <2>1, <2>2, MildBlocks
<1>15. CASE SignOut
  BY <1>0, <1>15, Announced DEF SignOut
<1>16. ASSUME NEW u \in Users, CoreArrives(u) \/ EditProfile(u) \/ Deliver(u) PROVE Promise'
  <2>1. /\ Listening /\ auth = NoUser /\ refused' = refused /\ stack' = stack
        /\ main' = main \o <<For("saved", u)>> \/ main' = main
    BY <1>0, <1>1, <1>16, Appended DEF CoreArrives, EditProfile, Deliver, Listening
  <2>2. Mild(<<For("saved", u)>>) /\ Mild(<<>>)
    BY MildBlocks, BlockTypes DEF Pops
  <2>3. QED
    BY <1>0, <1>13, <2>1, <2>2, LoginStays
<1>17. ASSUME NEW r \in Requests, Reply(r) PROVE Promise'
  <2>1. CASE LoginSucceeds(r) \/ RegistrationSucceeds(r)
    <3>1. auth' \in Users
      BY <2>1, Asker DEF LoginSucceeds, RegistrationSucceeds, SignsIn
    <3>2. QED
      BY <1>0, <1>1, <3>1 DEF SessionAssumption
  <2>2. CASE LoginFails(r)
    <3>1. /\ Listening /\ auth = NoUser /\ refused' = refused /\ stack' = stack
          /\ main' = main \o <<>>
      BY <1>0, <1>1, <2>2 DEF LoginFails, Listening
    <3>2. QED
      BY <1>0, <1>13, <3>1, MildBlocks, LoginStays
  <2>3. CASE RegistrationFails(r)
    <3>1. Len(main) + 1 \in DOMAIN main' /\ main'[Len(main) + 1].run = "refused"
      BY <1>0, <2>3, BlockTypes DEF RegistrationFails
    <3>2. QED
      BY <3>1 DEF Refusing
  <2>4. QED
    BY <1>17, <2>1, <2>2, <2>3 DEF Reply
<1>18. ASSUME NEW r \in Requests, NEW u \in Users, TapLogin(r, u) \/ TapCreate(r, u)
       PROVE  Promise'
  <2>1. /\ Listening /\ auth = NoUser /\ refused' = refused /\ stack' = stack
        /\ main' = main
    BY <1>0, <1>1, <1>18 DEF TapLogin, TapCreate, Ask, Listening
  <2>2. QED
    BY <1>0, <1>13, <2>1, MildBlocks, LoginStays
<1>19. CASE UNCHANGED vars
  <2>1. /\ Listening /\ auth = NoUser /\ refused' = refused /\ stack' = stack
        /\ main' = main \o <<>>
    BY <1>0, <1>1, <1>19 DEF vars, Listening
  <2>2. QED
    BY <1>0, <1>13, <2>1, MildBlocks, LoginStays
<1>20. QED
  BY <1>3, <1>4, <1>6, <1>7, <1>8, <1>9, <1>10, <1>11, <1>12, <1>14, <1>15, <1>16, <1>17,
     <1>18, <1>19 DEF Next, MainQueue

(* Nobody is left without a way in: once the queue is empty, no request is *)
(* under way and nobody is signed in, a login page is on the stack, unless *)
(* a registration was refused (setupHandle, handleSuccessfulLogin).        *)
THEOREM WayIn == Spec => []LoginOffered
<1>1. Init => OfferInv
  BY DEF Init, OfferInv, Listening
<1>2. OfferInv => LoginOffered
  BY DEF OfferInv, LoginOffered, Quiet, Refusing, Coming, Kept
<1>3. QED
  BY <1>1, <1>2, Initial, Inductive, OfferStep, PTL DEF Spec
=============================================================================
