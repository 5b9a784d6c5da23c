------------------------------- MODULE Backend -------------------------------
(***************************************************************************)
(* The Firebase realtime database as the app uses it, and what one client  *)
(* of it reads.  The SDK is not part of this repository: the operators     *)
(* below are modelled from how the calls in src/ use it.                   *)
(*                                                                         *)
(*  - The database is the set of the paths that hold a value.              *)
(*  - setValue and removeValue return at once (no call in src/ passes a    *)
(*    completion block).  A client's writes wait in its own queue, reach   *)
(*    the database one at a time in the order they were issued, and are    *)
(*    lost when the app is killed: nothing in src/ enables the SDK's disk  *)
(*    persistence.                                                         *)
(*  - A client's reads are answered with its own queued writes laid over   *)
(*    the database.                                                        *)
(***************************************************************************)
EXTENDS Naturals, Sequences

(* child(...).setValue(...) and child(...).removeValue().                  *)
SetValue(path)    == [path |-> path, to |-> TRUE]
RemoveValue(path) == [path |-> path, to |-> FALSE]

Writes(Path) == [path : Path, to : BOOLEAN]

(* The database after one write has reached it.                            *)
Apply(db, w) == IF w.to THEN db \union {w.path} ELSE db \ {w.path}

Mentions(q, path) == \E i \in DOMAIN q : q[i].path = path

(* The last write of q on path sets it.                                    *)
LastSets(q, path) ==
  \E i \in DOMAIN q : /\ q[i] = SetValue(path)
                      /\ \A j \in DOMAIN q : j > i => q[j].path # path

(* What a client with the queue q of unsent writes reads at path.          *)
Sees(db, q, path) == \/ ~Mentions(q, path) /\ path \in db
                     \/ LastSets(q, path)
==============================================================================
