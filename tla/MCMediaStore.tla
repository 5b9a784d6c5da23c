---------------------------- MODULE MCMediaStore ----------------------------
(* Model-checking instances of MediaStore: all of the children under one   *)
(* thread.                                                                 *)
EXTENDS MediaStore, TLC

OneThread == [m \in Children |-> CHOOSE t \in Threads : TRUE]

Symmetry == Permutations(Clients) \union Permutations(Slots)
            \union Permutations(Followers)
==============================================================================
