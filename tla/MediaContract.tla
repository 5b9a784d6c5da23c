---------------------------- MODULE MediaContract ----------------------------
(***************************************************************************)
(* What the store of threads, bodies and photos promises whoever reads it, *)
(* with clients, queues and journals left out: an item is listed only      *)
(* while its record can be read, at most once in its life, and not again   *)
(* once it has been taken off the list.                                    *)
(***************************************************************************)
CONSTANT Media

VARIABLES readable, listed, gone

vars == <<readable, listed, gone>>

Init == readable = {} /\ listed = {} /\ gone = {}

Store(m) == /\ readable' = readable \union {m}
            /\ UNCHANGED <<listed, gone>>

Publish(m) == /\ m \in readable \ gone
              /\ m \notin listed
              /\ listed' = listed \union {m}
              /\ UNCHANGED <<readable, gone>>

Withdraw(m) == /\ listed' = listed \ {m}
               /\ gone' = gone \union {m}
               /\ UNCHANGED readable

Erase(m) == /\ m \notin listed
            /\ readable' = readable \ {m}
            /\ UNCHANGED <<listed, gone>>

Next == \E m \in Media : Store(m) \/ Publish(m) \/ Withdraw(m) \/ Erase(m)

Spec == Init /\ [][Next]_vars
=============================================================================
