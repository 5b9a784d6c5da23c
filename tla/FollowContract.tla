--------------------------- MODULE FollowContract ---------------------------
(***************************************************************************)
(* What the follow operations promise the users, with clients, queues and  *)
(* buttons left out: a user links to another (follows, or is counted as a  *)
(* follower) only after asking to, and only if the other had opened the    *)
(* profile or accepted; a request exists only after asking; an accepted    *)
(* request had been asked.  Links and requests may disappear at any time.  *)
(***************************************************************************)
CONSTANT Users

VARIABLES asked, accepted, opened, links, requests

vars == <<asked, accepted, opened, links, requests>>

Pairs == Users \X Users

MayLink == {p \in Pairs : p \in asked /\ (p[2] \in opened \/ p \in accepted)}

Init == /\ asked = {} /\ accepted = {} /\ links = {} /\ requests = {}
        /\ opened \in SUBSET Users

Ask(a, b) == /\ asked' = asked \union {<<a, b>>}
             /\ UNCHANGED <<accepted, opened, links, requests>>

Accept(b, a) == /\ <<a, b>> \in asked
                /\ accepted' = accepted \union {<<a, b>>}
                /\ UNCHANGED <<asked, opened, links, requests>>

Open(u) == /\ opened' = opened \union {u}
           /\ UNCHANGED <<asked, accepted, links, requests>>

Link(p) == /\ p \in MayLink
           /\ links' = links \union {p}
           /\ UNCHANGED <<asked, accepted, opened, requests>>

Unlink(p) == /\ links' = links \ {p}
             /\ UNCHANGED <<asked, accepted, opened, requests>>

Request(p) == /\ p \in asked
              /\ requests' = requests \union {p}
              /\ UNCHANGED <<asked, accepted, opened, links>>

Unrequest(p) == /\ requests' = requests \ {p}
                /\ UNCHANGED <<asked, accepted, opened, links>>

Next == \/ \E a, b \in Users : Ask(a, b) \/ Accept(b, a)
        \/ \E u \in Users : Open(u)
        \/ \E p \in Pairs : Link(p) \/ Unlink(p) \/ Request(p) \/ Unrequest(p)

Spec == Init /\ [][Next]_vars
=============================================================================
