------------------------------- MODULE Session -------------------------------
(***************************************************************************)
(* Getting into the app: clearing the cache at launch, the listener of the *)
(* authentication state, login, registration, sign-out, and the navigation *)
(* stack they all push to and pop from (WelcomeVC, ClearAssistant,         *)
(* AuthenticationAssistant, LoginAssistant, RegisterAssistant).            *)
(*                                                                         *)
(* Everything runs on the main queue: `main` holds the blocks that wait    *)
(* there.  The observer that User.get leaves on a profile calls the        *)
(* completion it was created with on each value, for as long as the app    *)
(* runs; here that completion takes the user into the app.                 *)
(***************************************************************************)
EXTENDS Integers, Sequences, FiniteSets

CONSTANTS
  Users,        \* the people who may use this device
  NoUser,       \* nobody
  Requests,     \* requests to the authentication service under way together
  Kinds,        \* the kinds of objects ClearAssistant clears
  MaxRequests,  \* bound on the requests made
  MaxEdits,     \* bound on the changes of a profile, from anywhere
  MaxLaunches   \* bound on the launches

ASSUME SessionAssumption ==
  /\ NoUser \notin Users
  /\ Kinds \in Nat \ {0}
  /\ MaxRequests \in Nat /\ MaxEdits \in Nat /\ MaxLaunches \in Nat

Pages  == [name : {"welcome", "login", "register"}, user : {NoUser}]
            \union [name : {"app"}, user : Users]
Blocks == [run : {"save", "state", "loggedIn", "refused"}, user : {NoUser}]
            \union [run : {"get", "saved", "launch", "registered"}, user : Users]
Free   == [kind |-> "none", user |-> NoUser]

VARIABLES
  running,      \* the app runs
  cleared,      \* saves that have succeeded since launch
  main,         \* blocks waiting for the main queue
  stack,        \* the navigation stack
  object,       \* the cached User object of each user, and whether it is of this launch
  auth,         \* the user the authentication service has signed in on this device
  accounts,     \* users with an account
  record,       \* users whose profile is in the database
  unsent,       \* users whose profile this client has yet to send
  request,      \* the requests under way
  launches, requests, edits,  \* what is left of the bounds
  refused,      \* a registration has failed since launch; no action reads it
  overlapped    \* a request was made before the last was done with; no action reads it

vars == <<running, cleared, main, stack, object, auth, accounts, record, unsent, request,
          launches, requests, edits, refused, overlapped>>
bounds == <<launches, requests, edits>>
ghosts == <<refused, overlapped>>

TypeOK ==
  /\ running \in BOOLEAN /\ cleared \in 0..Kinds
  /\ main \in Seq(Blocks) /\ stack \in Seq(Pages)
  /\ object \in [Users -> {"none", "waiting", "ready", "old"}]
  /\ auth \in Users \union {NoUser}
  /\ accounts \subseteq Users /\ record \subseteq accounts /\ unsent \subseteq accounts
  /\ request \in [Requests -> [kind : {"login", "register"}, user : Users] \union {Free}]
  /\ launches \in 0..MaxLaunches /\ requests \in 0..MaxRequests /\ edits \in 0..MaxEdits
  /\ refused \in BOOLEAN /\ overlapped \in BOOLEAN
-----------------------------------------------------------------------------
Page(n)     == [name |-> n, user |-> NoUser]
App(u)      == [name |-> "app", user |-> u]
Block(r)    == [run |-> r, user |-> NoUser]
For(r, u)   == [run |-> r, user |-> u]

Profiles    == record \union unsent          \* what this client reads
Shows(p)    == \E i \in DOMAIN stack : stack[i] = p
On(n)       == running /\ stack # <<>> /\ stack[Len(stack)].name = n
Root        == SubSeq(stack, 1, 1)
Asked       == \/ \E r \in Requests : request[r] # Free   \* a request not yet done with
               \/ \E i \in DOMAIN main : main[i].run \in {"loggedIn", "registered", "refused"}
Listening   == running /\ cleared = Kinds    \* the listener is registered

Init ==
  /\ running = FALSE /\ cleared = 0
  /\ main = <<>> /\ stack = <<>>
  /\ object = [u \in Users |-> "none"]
  /\ auth = NoUser
  /\ \E us \in SUBSET Users : accounts = us /\ record = us
  /\ unsent = {}
  /\ request = [r \in Requests |-> Free]
  /\ launches = MaxLaunches /\ requests = MaxRequests /\ edits = MaxEdits
  /\ refused = FALSE /\ overlapped = FALSE
-----------------------------------------------------------------------------
(* Mutation: the objects of the last launch are kept.                      *)
LaunchKeeping ==
  /\ ~running /\ launches > 0
  /\ running' = TRUE /\ launches' = launches - 1
  /\ cleared' = 0 /\ main' = [k \in 1..Kinds |-> Block("save")]
  /\ stack' = <<Page("welcome")>>
  /\ refused' = FALSE /\ overlapped' = FALSE
  /\ UNCHANGED <<object, auth, accounts, record, unsent, request, requests, edits>>

(* WelcomeVC.viewDidLoad, ClearAssistant.handleClear: every object is      *)
(* deleted at once, and a save is queued for each kind.                    *)
Launch ==
  /\ ~running /\ launches > 0
  /\ running' = TRUE /\ launches' = launches - 1
  /\ object' = [u \in Users |-> "none"]
  /\ cleared' = 0 /\ main' = [k \in 1..Kinds |-> Block("save")]
  /\ stack' = <<Page("welcome")>>
  /\ refused' = FALSE /\ overlapped' = FALSE
  /\ UNCHANGED <<auth, accounts, record, unsent, request, requests, edits>>

(* The app is killed.  Core Data keeps the objects and the authentication  *)
(* service the user; the unsent profile and the requests are lost.         *)
Kill ==
  /\ running /\ running' = FALSE
  /\ main' = <<>> /\ stack' = <<>>
  /\ object' = [u \in Users |-> IF object[u] = "none" THEN "none" ELSE "old"]
  /\ unsent' = {} /\ request' = [r \in Requests |-> Free]
  /\ UNCHANGED <<cleared, auth, accounts, record, bounds, ghosts>>

(* The next block of the main queue is of kind r; it queues `blocks`.      *)
Runs(r, blocks) ==
  /\ main # <<>> /\ main[1].run = r
  /\ main' = Tail(main) \o blocks

(* A save of handleClear: when all have succeeded the listener is          *)
(* registered, and told the present state.  After a failed one the app     *)
(* stays where it is.                                                      *)
Saved ==
  /\ cleared' = cleared + 1
  /\ Runs("save", IF cleared' = Kinds THEN <<Block("state")>> ELSE <<>>)
  /\ UNCHANGED <<running, stack, object, auth, accounts, record, unsent, request, bounds, ghosts>>

SaveFails ==
  /\ Runs("save", <<>>)
  /\ UNCHANGED <<running, cleared, stack, object, auth, accounts, record, unsent, request,
                 bounds, ghosts>>

(* Mutation: only a user who is signed in is news.                         *)
StateOnlyIn ==
  /\ Runs("state", IF auth = NoUser THEN <<>> ELSE <<For("get", auth)>>)
  /\ UNCHANGED <<running, cleared, object, stack, auth, accounts, record, unsent, request,
                 bounds, ghosts>>

(* The listener (setupHandle, didSetAuthenticationAssistantProtocol).      *)
State ==
  /\ Runs("state", IF auth = NoUser THEN <<>> ELSE <<For("get", auth)>>)
  /\ stack' = IF auth = NoUser THEN Append(stack, Page("login")) ELSE stack
  /\ UNCHANGED <<running, cleared, object, auth, accounts, record, unsent, request, bounds, ghosts>>

(* Mutation: an object that is there is not reported.                      *)
GetSilent ==
  /\ main # <<>>
  /\ LET u == main[1].user IN
     /\ Runs("get", <<>>)
     /\ object' = IF object[u] = "none" THEN [object EXCEPT ![u] = "waiting"] ELSE object
  /\ UNCHANGED <<running, cleared, stack, auth, accounts, record, unsent, request, bounds, ghosts>>

(* User.get: the object if there is one, else a new one with an observer.  *)
(* createStructure is nil while the object waits for its profile.          *)
Get ==
  /\ main # <<>>
  /\ LET u == main[1].user IN
     /\ Runs("get", IF object[u] \in {"ready", "old"} THEN <<For("launch", u)>> ELSE <<>>)
     /\ object' = IF object[u] = "none" THEN [object EXCEPT ![u] = "waiting"] ELSE object
  /\ UNCHANGED <<running, cleared, stack, auth, accounts, record, unsent, request, bounds, ghosts>>

(* connectCore: the first value of the profile; a missing one is a failure *)
(* that leaves the observer in place.                                      *)
CoreArrives(u) ==
  /\ running /\ object[u] = "waiting" /\ u \in Profiles
  /\ object' = [object EXCEPT ![u] = "ready"]
  /\ main' = Append(main, For("saved", u))
  /\ UNCHANGED <<running, cleared, stack, auth, accounts, record, unsent, request, bounds, ghosts>>

(* The profile is changed (UserStructure.edit here or on another device):  *)
(* the observer of a cached object runs its completion again.              *)
EditProfile(u) ==
  /\ edits > 0 /\ edits' = edits - 1
  /\ running /\ object[u] = "ready"
  /\ main' = Append(main, For("saved", u))
  /\ UNCHANGED <<running, cleared, stack, object, auth, accounts, record, unsent, request,
                 launches, requests, ghosts>>

(* saveToContext has saved what connectCore read: the completion sets      *)
(* currentUserStructure, which queues the segue.                           *)
CoreSaved ==
  /\ main # <<>>
  /\ Runs("saved", <<For("launch", main[1].user)>>)
  /\ UNCHANGED <<running, cleared, stack, object, auth, accounts, record, unsent, request,
                 bounds, ghosts>>

(* didSetCurrentUser: the segue pushes the app.                            *)
LaunchUser ==
  /\ Runs("launch", <<>>)
  /\ stack' = Append(stack, App(main[1].user))
  /\ UNCHANGED <<running, cleared, object, auth, accounts, record, unsent, request, bounds, ghosts>>
-----------------------------------------------------------------------------
(* The user, on the page on top of the stack.  Nothing disables the login  *)
(* or the done button while a request is under way.                        *)
Ask(r, kind, u) ==
  /\ requests > 0 /\ requests' = requests - 1
  /\ request[r] = Free
  /\ request' = [request EXCEPT ![r] = [kind |-> kind, user |-> u]]
  /\ overlapped' = (overlapped \/ Asked)
  /\ UNCHANGED <<running, cleared, main, stack, object, auth, accounts, record, unsent,
                 launches, edits, refused>>

TapLogin(r, u)  == On("login") /\ u \in accounts /\ Ask(r, "login", u)
TapCreate(r, u) == On("register") /\ Ask(r, "register", u)

TapRegister ==
  /\ On("login")
  /\ stack' = Append(stack, Page("register"))
  /\ UNCHANGED <<running, cleared, main, object, auth, accounts, record, unsent, request, bounds, ghosts>>

TapBack ==
  /\ On("register")
  /\ stack' = SubSeq(stack, 1, Len(stack) - 1)
  /\ UNCHANGED <<running, cleared, main, object, auth, accounts, record, unsent, request, bounds, ghosts>>

(* ThreadsData.signOut, from the profile page of the app.  Its completion  *)
(* looks for a ProfileViewController as parent and finds a navigation      *)
(* controller: only the listener acts.                                     *)
SignOut ==
  /\ On("app") /\ auth # NoUser
  /\ auth' = NoUser
  /\ main' = Append(main, Block("state"))
  /\ UNCHANGED <<running, cleared, stack, object, accounts, record, unsent, request, bounds, ghosts>>

(* The service signs u in: the listener is told if that is a change, and   *)
(* then the completion of the request runs.                                *)
SignsIn(u, completion) ==
  /\ auth' = u
  /\ main' = main \o (IF auth = u THEN <<>> ELSE <<Block("state")>>) \o <<completion>>

Answers(r, kind) == request[r].kind = kind /\ request' = [request EXCEPT ![r] = Free]

LoginSucceeds(r) ==
  /\ Answers(r, "login")
  /\ SignsIn(request[r].user, Block("loggedIn"))
  /\ UNCHANGED <<running, cleared, stack, object, accounts, record, unsent, bounds, ghosts>>

(* An alert; the page stays.                                               *)
LoginFails(r) ==
  /\ Answers(r, "login")
  /\ UNCHANGED <<running, cleared, main, stack, object, auth, accounts, record, unsent, bounds, ghosts>>

RegistrationSucceeds(r) ==
  /\ Answers(r, "register")
  /\ request[r].user \notin accounts
  /\ accounts' = accounts \union {request[r].user}
  /\ SignsIn(request[r].user, For("registered", request[r].user))
  /\ UNCHANGED <<running, cleared, stack, object, record, unsent, bounds, ghosts>>

(* Mutation: the profile is written whatever the answer.                   *)
RegistrationFailsWriting(r) ==
  /\ Answers(r, "register")
  /\ unsent' = unsent \union {request[r].user}
  /\ main' = Append(main, Block("refused"))
  /\ UNCHANGED <<running, cleared, stack, object, auth, accounts, record, bounds, ghosts>>

(* An error, for one when the account exists.                              *)
RegistrationFails(r) ==
  /\ Answers(r, "register")
  /\ main' = Append(main, Block("refused"))
  /\ UNCHANGED <<running, cleared, stack, object, auth, accounts, record, unsent, bounds, ghosts>>

(* The completion of a login pops to the welcome page.                     *)
LoggedIn ==
  /\ Runs("loggedIn", <<>>)
  /\ stack' = Root
  /\ UNCHANGED <<running, cleared, object, auth, accounts, record, unsent, request, bounds, ghosts>>

(* That of a registration writes the profile first.                        *)
Registered ==
  /\ Runs("registered", <<>>)
  /\ unsent' = unsent \union {main[1].user}
  /\ stack' = Root
  /\ UNCHANGED <<running, cleared, object, auth, accounts, record, request, bounds, ghosts>>

(* ThreadsData.register reports an error as success: pop all the same.     *)
Refused ==
  /\ Runs("refused", <<>>)
  /\ stack' = Root
  /\ refused' = TRUE
  /\ UNCHANGED <<running, cleared, object, auth, accounts, record, unsent, request, bounds, overlapped>>

Deliver(u) ==
  /\ u \in unsent
  /\ unsent' = unsent \ {u} /\ record' = record \union {u}
  /\ UNCHANGED <<running, cleared, main, stack, object, auth, accounts, request, bounds, ghosts>>

MainQueue == \/ Saved \/ SaveFails \/ State \/ Get \/ CoreSaved \/ LaunchUser
             \/ LoggedIn \/ Registered \/ Refused

Reply(r) == LoginSucceeds(r) \/ LoginFails(r) \/ RegistrationSucceeds(r) \/ RegistrationFails(r)

Next == \/ Launch \/ Kill \/ MainQueue
        \/ TapRegister \/ TapBack \/ SignOut
        \/ \E u \in Users : CoreArrives(u) \/ EditProfile(u) \/ Deliver(u)
        \/ \E r \in Requests : Reply(r) \/ \E u \in Users : TapLogin(r, u) \/ TapCreate(r, u)

Spec == Init /\ [][Next]_vars

(* The main queue runs, and the services answer; users do as they like.    *)
Fairness == /\ WF_vars(MainQueue)
            /\ \A u \in Users : WF_vars(CoreArrives(u)) /\ WF_vars(Deliver(u))
            /\ \A r \in Requests : WF_vars(Reply(r))

FairSpec == Spec /\ Fairness
-----------------------------------------------------------------------------
(* Properties.                                                             *)

(* The app is shown for a user only after the user's profile has been read *)
(* in this launch: nothing the last user left in the cache is used, and a  *)
(* registration has written the profile by then.                           *)
AppAfterProfile ==
  \A i \in DOMAIN stack : stack[i].name = "app" =>
    object[stack[i].user] = "ready" /\ stack[i].user \in Profiles

(* Nobody is left without a way in: when all is quiet and nobody is signed *)
(* in, a login page is on the stack - unless a registration was refused.   *)
Quiet == Listening /\ main = <<>> /\ \A r \in Requests : request[r] = Free

LoginOffered == Quiet /\ auth = NoUser => refused \/ Shows(Page("login"))

(* Whoever is signed in and has a profile gets into the app, if the login  *)
(* button is not tapped twice.                                             *)
ReachesApp ==
  \A u \in Users : Listening /\ auth = u /\ u \in Profiles
                     ~> ~Listening \/ auth # u \/ overlapped \/ Shows(App(u))
=============================================================================
