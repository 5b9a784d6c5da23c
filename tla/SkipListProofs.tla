--------------------------- MODULE SkipListProofs ---------------------------
(***************************************************************************)
(* LevelDB's memtable for any number of writes, readers, keys and levels:  *)
(* what SkipList states of it holds in every state.                        *)
(*                                                                         *)
(* The list is in order at each level as far as its links are set, with    *)
(* one node, the last, between levels (ListInv).  A reader only relies on  *)
(* what such an insertion cannot take back: nodes and links that are set   *)
(* stay, and so does what is visible (Grows).  Where it is it has passed,  *)
(* and what it passed is behind it (ReadersInv), so that where it ends     *)
(* nothing visible is missed.  The arena is apart (ArenaInv).              *)
(***************************************************************************)
EXTENDS SkipList, FiniteSetTheorems, TLAPS

(* Nodes, in the order of their entries.                                   *)
Less(a, b) == Before(Entry(a), Entry(b))

(* The link of n at level l has been set: of the node that is being        *)
(* inserted, the links below the current level.                            *)
Linked(n, l) == /\ n \in DOMAIN next /\ l \in DOMAIN next[n]
                /\ n = Top \/ n # insert.node \/ l < insert.level

(* p is where an entry e belongs behind at level l.                        *)
IsPrev(p, e, l) ==
  /\ Linked(p, l)
  /\ p = Top \/ Before(Entry(p), e)
  /\ next[p][l] = Nil \/ ~Before(Entry(next[p][l]), e)

(* What nodes are compared with: an entry, or a target.                    *)
Entries == [key : Int, seq : Int]

(* Nodes are numbered as they come and link to nodes.                      *)
ListTyped ==
  /\ last \in Nat
  /\ Nodes = 1 .. last \/ Nodes = 1 .. last + 1
  /\ key \in [Nodes -> Int]
  /\ DOMAIN next = Nodes \cup {Top}
  /\ \A n \in DOMAIN next : \E h \in 1 .. MaxHeight : next[n] \in [1 .. h -> Nodes \cup {Nil}]
  /\ DOMAIN next[Top] = 1 .. MaxHeight
  /\ heights \subseteq 1 .. MaxHeight

(* The writer is at one level of the node it inserts, the last.            *)
Inserting ==
  /\ Nodes = 1 .. last + 1
  /\ insert.node = last + 1
  /\ insert.level \in DOMAIN next[insert.node]
  /\ insert = [node |-> insert.node, level |-> insert.level, prev |-> insert.prev]
  /\ \A l \in DOMAIN next[insert.node] : l >= insert.level =>
       /\ next[insert.node][l] = Nil
       /\ \E p \in DOMAIN next, e \in Entries :
            p = insert.prev[l] /\ e = Entry(insert.node) /\ IsPrev(p, e, l)

(* At every level a node is followed by the one that is due after it.      *)
Follows(n, l, m) ==
  /\ m # Nil => Linked(m, l) /\ (n = Top \/ Less(n, m))
  /\ \A o \in Nodes : Linked(o, l) /\ (n = Top \/ Less(n, o)) =>
       m # Nil /\ (o = m \/ Less(m, o))

Ordered ==
  \A n \in DOMAIN next : \A l \in DOMAIN next[n] : Linked(n, l) =>
    \E m \in Nodes \cup {Nil} : m = next[n][l] /\ Follows(n, l, m)

(* Every entry has its place at every level.                               *)
Placed == \A e \in Entries, l \in 1 .. MaxHeight : \E p \in DOMAIN next : IsPrev(p, e, l)

(* The invariant of the list.                                              *)
ListInv == ListTyped /\ (insert = Resting \/ Inserting) /\ Ordered /\ Placed

-----------------------------------------------------------------------------
(* Entries are in a strict order, that of internal keys.                   *)
LEMMA EntryOrder ==
  /\ \A a, b, c \in Entries : Before(a, b) /\ Before(b, c) => Before(a, c)
  /\ \A a \in Entries : ~Before(a, a)
  /\ \A a, b \in Entries : a.seq # b.seq => Before(a, b) \/ Before(b, a)
  /\ \A a, b, c \in Entries : ~Before(b, a) /\ Before(b, c) => Before(a, c)
  /\ \A a, b, c \in Entries : Before(a, b) /\ ~Before(c, b) => Before(a, c)
BY DEF Entries, Before

(* So are nodes, no two of which have the same sequence number.            *)
LEMMA NodeOrder ==
  ASSUME ListTyped
  PROVE  /\ \A a \in Nodes : a \in Nat /\ a >= 1 /\ a # Top /\ a # Nil
                             /\ Entry(a) \in Entries /\ Entry(a).seq = a
         /\ \A a, b, c \in Nodes : Less(a, b) /\ Less(b, c) => Less(a, c)
         /\ \A a, b \in Nodes : /\ ~(Less(a, b) /\ Less(b, a))
                                /\ a = b \/ Less(a, b) \/ Less(b, a)
         /\ \A a \in Nodes : ~Less(a, a)
<1>1. \A a \in Nodes : a \in Nat /\ a >= 1 /\ a # Top /\ a # Nil
  BY DEF ListTyped, Top, Nil
<1>2. \A a \in Nodes : Entry(a) \in Entries /\ Entry(a).seq = a
  BY <1>1 DEF ListTyped, Entry, Entries
<1>3. \A a, b, c \in Nodes : Less(a, b) /\ Less(b, c) => Less(a, c)
  BY <1>2, EntryOrder DEF Less
<1>4. \A a \in Nodes : ~Less(a, a)
  BY <1>2, EntryOrder DEF Less
<1>5. \A a, b \in Nodes : a = b \/ Less(a, b) \/ Less(b, a)
  BY <1>2, EntryOrder DEF Less
<1>6. QED
  BY <1>1, <1>2, <1>3, <1>4, <1>5

(* The links of a node are those of the levels up to its height.           *)
LEMMA Heights ==
  ASSUME ListTyped, NEW n \in DOMAIN next
  PROVE  \E h \in 1 .. MaxHeight : /\ DOMAIN next[n] = 1 .. h /\ Height(n) = h
                                   /\ next[n] \in [1 .. h -> Nodes \cup {Nil}]
                                   /\ \A l \in 1 .. MaxHeight : l \in DOMAIN next[n] <=> l <= Height(n)
<1>1. PICK h \in 1 .. MaxHeight : next[n] \in [1 .. h -> Nodes \cup {Nil}]
  BY DEF ListTyped
<1>2. Height(n) = h /\ h \in Nat
  BY <1>1, FS_Interval, ParametersAssumption DEF Height
<1>3. QED
  BY <1>1, <1>2, ParametersAssumption

(* What an insertion begins with.                                          *)
LEMMA AddShape ==
  ASSUME ListTyped, insert = Resting, NEW k \in 1 .. MaxKey, NEW size,
         NEW height \in 1 .. MaxHeight, Add(k, size, height)
  PROVE  /\ Nodes = 1 .. last /\ Nodes' = 1 .. last + 1 /\ last' = last
         /\ \A n \in Nodes : key'[n] = key[n]
         /\ key'[last + 1] = k
         /\ DOMAIN next' = DOMAIN next \cup {last + 1}
         /\ \A n \in DOMAIN next : next'[n] = next[n]
         /\ next'[last + 1] = [l \in 1 .. height |-> Nil]
         /\ insert' = [node |-> last + 1, level |-> 1,
                       prev |-> [l \in 1 .. height |-> Prev([key |-> k, seq |-> last + 1], l)]]
         /\ heights' \subseteq heights \cup {height}
<1>1. last \in Nat /\ Cardinality(Nodes) = last
  BY DEF Add, ListTyped
<1>2. Nodes = 1 .. last
  <2>1. Nodes # 1 .. last + 1
    BY <1>1, FS_Interval
  <2>2. QED
    BY <2>1 DEF ListTyped
<1>3. /\ key' = [m \in Nodes \cup {last + 1} |-> IF m = last + 1 THEN k ELSE key[m]]
      /\ next' = [m \in DOMAIN next \cup {last + 1} |->
                    IF m = last + 1 THEN [l \in 1 .. height |-> Nil] ELSE next[m]]
  BY DEF Add
<1>4. last + 1 \notin DOMAIN next /\ last + 1 \notin Nodes
  BY <1>1, <1>2 DEF ListTyped, Top
<1>5. /\ Nodes' = Nodes \cup {last + 1} /\ DOMAIN next' = DOMAIN next \cup {last + 1}
      /\ \A n \in Nodes : key'[n] = key[n]
      /\ key'[last + 1] = k
      /\ \A n \in DOMAIN next : next'[n] = next[n]
      /\ next'[last + 1] = [l \in 1 .. height |-> Nil]
  BY <1>3, <1>4 DEF Nodes
<1>6. Nodes' = 1 .. last + 1
  BY <1>1, <1>2, <1>5
<1>7. QED
  BY <1>2, <1>5, <1>6 DEF Add

(* The place the writer looks for is there.                                *)
LEMMA PrevFound ==
  ASSUME ListInv, insert = Resting, NEW e \in Entries, NEW l \in 1 .. MaxHeight
  PROVE  Prev(e, l) \in DOMAIN next /\ IsPrev(Prev(e, l), e, l)
<1> DEFINE P(n) == /\ l <= Height(n)
                   /\ n = Top \/ Before(Entry(n), e)
                   /\ next[n][l] = Nil \/ ~Before(Entry(next[n][l]), e)
<1>1. PICK p \in DOMAIN next : IsPrev(p, e, l)
  BY DEF ListInv, Placed
<1>2. \A n \in DOMAIN next : l <= Height(n) <=> l \in DOMAIN next[n]
  BY Heights DEF ListInv
<1>3. P(p)
  BY <1>1, <1>2 DEF IsPrev, Linked
<1>4. Prev(e, l) \in DOMAIN next /\ P(Prev(e, l))
  <2>1. Prev(e, l) = CHOOSE n \in DOMAIN next : P(n)
    BY DEF Prev
  <2> HIDE DEF P
  <2>2. QED
    BY <1>3, <2>1
<1>5. \A n \in DOMAIN next : \A h \in DOMAIN next[n] : Linked(n, h)
  <2>1. insert.node = Top
    BY DEF Resting, Top
  <2>2. QED
    BY <2>1 DEF Linked
<1>6. QED
  BY <1>2, <1>4, <1>5 DEF IsPrev

(* The beginning of an insertion changes no node but its own.              *)
LEMMA AddKeeps ==
  ASSUME ListInv, insert = Resting, NEW k \in 1 .. MaxKey, NEW size,
         NEW height \in 1 .. MaxHeight, Add(k, size, height)
  PROVE  /\ last + 1 \notin Nodes /\ last + 1 \notin DOMAIN next
         /\ Nodes' = Nodes \cup {last + 1}
         /\ DOMAIN next' = DOMAIN next \cup {last + 1}
         /\ \A n \in Nodes : Entry(n)' = Entry(n)
         /\ \A n \in DOMAIN next : next'[n] = next[n]
         /\ \A n \in DOMAIN next : \A l : Linked(n, l) <=> Linked(n, l)'
         /\ \A n \in DOMAIN next : \A l \in DOMAIN next[n] : Linked(n, l)
         /\ \A n, l : n = last + 1 => ~Linked(n, l)'
<1>1. /\ Nodes = 1 .. last /\ Nodes' = 1 .. last + 1 /\ last \in Nat
      /\ \A n \in Nodes : key'[n] = key[n]
      /\ DOMAIN next' = DOMAIN next \cup {last + 1} /\ DOMAIN next = Nodes \cup {0}
      /\ \A n \in DOMAIN next : next'[n] = next[n]
      /\ next'[last + 1] = [l \in 1 .. height |-> Nil]
      /\ insert'.node = last + 1 /\ insert'.level = 1
  <2>1. ListTyped
    BY DEF ListInv
  <2>2. last \in Nat /\ DOMAIN next = Nodes \cup {0}
    BY <2>1 DEF ListTyped, Top
  <2>3. insert'.node = last + 1 /\ insert'.level = 1
    BY DEF Add
  <2>4. QED
    BY <2>1, <2>2, <2>3, AddShape
<1>2. insert.node = 0
  BY DEF Resting
<1>3. /\ last + 1 \notin Nodes /\ last + 1 \notin DOMAIN next
      /\ Nodes' = Nodes \cup {last + 1}
  BY <1>1
<1>4. \A n \in DOMAIN next : n # last + 1 /\ (n = 0 \/ n # 0)
  BY <1>3
<1>5. \A n \in DOMAIN next : \A l \in DOMAIN next[n] : Linked(n, l)
  BY <1>2 DEF Linked, Top
<1>6. ASSUME NEW n \in DOMAIN next, NEW l
      PROVE  Linked(n, l) <=> Linked(n, l)'
  <2>1. Linked(n, l) <=> l \in DOMAIN next[n]
    BY <1>5 DEF Linked
  <2>2. Linked(n, l)' <=> l \in DOMAIN next[n]
    BY <1>1, <1>4 DEF Linked
  <2>3. QED
    BY <2>1, <2>2
<1>7. ASSUME NEW n, NEW l, n = last + 1 PROVE ~Linked(n, l)'
  <2>1. n # Top
    BY <1>1, <1>7 DEF Top
  <2>2. \A j \in 1 .. height : ~(j < 1)
    BY ParametersAssumption
  <2>3. QED
    BY <1>1, <1>7, <2>1, <2>2 DEF Linked
<1>8. \A n \in Nodes : Entry(n)' = Entry(n)
  BY <1>1 DEF Entry
<1>9. QED
  BY <1>1, <1>3, <1>5, <1>6, <1>7, <1>8

(* An insertion begins with the place of its entry at each level.          *)
LEMMA AddKeepsList ==
  ASSUME ListInv, insert = Resting, NEW k \in 1 .. MaxKey, NEW size,
         NEW height \in 1 .. MaxHeight, Add(k, size, height)
  PROVE  ListInv' /\ insert' # Resting
<1>0. PICK n : n = last + 1 /\ n \in Nat /\ n >= 1 /\ last \in Nat
  BY DEF ListInv, ListTyped
<1>1. /\ Nodes = 1 .. last /\ Nodes' = 1 .. n /\ last' = last
      /\ \A m \in Nodes : key'[m] = key[m]
      /\ key'[n] = k /\ k \in Int
      /\ next'[n] = [l \in 1 .. height |-> Nil]
      /\ insert' = [node |-> n, level |-> 1,
                    prev |-> [l \in 1 .. height |-> Prev([key |-> k, seq |-> n], l)]]
      /\ heights' \subseteq heights \cup {height}
  BY <1>0, AddShape, ParametersAssumption DEF ListInv
<1>2. /\ n \notin Nodes /\ n \notin DOMAIN next
      /\ Nodes' = Nodes \cup {n}
      /\ DOMAIN next' = DOMAIN next \cup {n}
      /\ \A m \in Nodes : Entry(m)' = Entry(m)
      /\ \A m \in DOMAIN next : next'[m] = next[m]
      /\ \A m \in DOMAIN next : \A l : Linked(m, l) <=> Linked(m, l)'
      /\ \A m \in DOMAIN next : \A l \in DOMAIN next[m] : Linked(m, l)
      /\ \A l : ~Linked(n, l)'
  BY <1>0, AddKeeps
<1>3. /\ ListTyped /\ Ordered /\ Placed /\ DOMAIN next = Nodes \cup {Top}
      /\ \A m \in DOMAIN next : \A l \in DOMAIN next[m] : next[m][l] \in Nodes \cup {Nil}
  BY DEF ListInv, ListTyped
<1>4. DOMAIN key' = Nodes' /\ DOMAIN key = Nodes
  BY DEF Nodes
<1>5. 1 \in 1 .. height /\ 1 .. height \subseteq 1 .. MaxHeight /\ height \in Nat
  BY ParametersAssumption
<1>6. ListTyped'
  <2>1. key' \in [Nodes' -> Int]
    <3>1. key' = [m \in Nodes' |-> key'[m]]
      BY <1>1, <1>4 DEF Add, Nodes
    <3>2. \A m \in Nodes' : key'[m] \in Int
      BY <1>1, <1>2, <1>3 DEF ListTyped
    <3>3. QED
      BY <3>1, <3>2
  <2>2. \A m \in DOMAIN next' : \E h \in 1 .. MaxHeight : next'[m] \in [1 .. h -> Nodes' \cup {Nil}]
    <3>1. next'[n] \in [1 .. height -> Nodes' \cup {Nil}]
      BY <1>1
    <3>2. ASSUME NEW m \in DOMAIN next
          PROVE  \E h \in 1 .. MaxHeight : next'[m] \in [1 .. h -> Nodes' \cup {Nil}]
      <4>1. PICK h \in 1 .. MaxHeight : next[m] \in [1 .. h -> Nodes \cup {Nil}]
        BY <1>3 DEF ListTyped
      <4>2. next'[m] \in [1 .. h -> Nodes' \cup {Nil}]
        BY <1>2, <4>1
      <4>3. QED
        BY <4>2
    <3>3. QED
      BY <1>2, <3>1, <3>2
  <2>3. DOMAIN next'[Top] = 1 .. MaxHeight /\ DOMAIN next' = Nodes' \cup {Top}
    BY <1>2, <1>3 DEF ListTyped
  <2>4. heights' \subseteq 1 .. MaxHeight
    BY <1>1, <1>3 DEF ListTyped
  <2>5. Nodes' = 1 .. last' + 1 /\ last' \in Nat
    BY <1>0, <1>1
  <2>6. QED
    BY <2>1, <2>2, <2>3, <2>4, <2>5 DEF ListTyped
<1>7. ASSUME NEW p \in DOMAIN next, NEW e, NEW l, IsPrev(p, e, l)
      PROVE  IsPrev(p, e, l)'
  <2>1. Linked(p, l)' /\ next'[p] = next[p] /\ l \in DOMAIN next[p]
    BY <1>2, <1>7 DEF IsPrev, Linked
  <2>2. \A m \in Nodes : Before(Entry(m), e)' <=> Before(Entry(m), e)
    BY <1>2 DEF Before
  <2>3. p = Top \/ p \in Nodes
    BY <1>3
  <2>4. next[p][l] = Nil \/ next[p][l] \in Nodes
    BY <1>3, <2>1
  <2>5. p = Top \/ Before(Entry(p), e)'
    BY <1>7, <2>2, <2>3 DEF IsPrev
  <2>6. next'[p][l] = Nil \/ ~Before(Entry(next[p][l]), e)'
    BY <1>7, <2>1, <2>2, <2>4 DEF IsPrev
  <2>7. QED
    BY <2>1, <2>5, <2>6 DEF IsPrev
<1>8. Inserting'
  <2>1. PICK e \in Entries : e = [key |-> k, seq |-> n]
    BY <1>0, <1>1 DEF Entries
  <2>2. Entry(n)' = e
    BY <1>1, <2>1 DEF Entry
  <2>3. ASSUME NEW l \in 1 .. height
        PROVE  \E p \in DOMAIN next : p = insert'.prev[l] /\ IsPrev(p, e, l)'
    <3>1. PICK p \in DOMAIN next : p = Prev(e, l) /\ IsPrev(p, e, l)
      BY <1>5, PrevFound
    <3>2. IsPrev(p, e, l)'
      BY <1>7, <3>1
    <3>3. insert'.prev[l] = Prev(e, l)
      BY <1>1, <2>1
    <3>4. QED
      BY <3>1, <3>2, <3>3
  <2>4. /\ Nodes' = 1 .. last' + 1 /\ insert'.node = n /\ insert'.node = last' + 1
        /\ insert'.level = 1 /\ DOMAIN next'[n] = 1 .. height
        /\ \A l \in 1 .. height : next'[n][l] = Nil
    BY <1>0, <1>1
  <2>5. insert' = [node |-> insert'.node, level |-> insert'.level, prev |-> insert'.prev]
    BY <1>1
  <2>6. Entry(insert.node)' = e
    BY <2>2, <2>4 DEF Entry
  <2>7. \A l \in 1 .. height : \E p \in DOMAIN next', f \in Entries :
          p = insert'.prev[l] /\ f = Entry(insert.node)' /\ IsPrev(p, f, l)'
    BY <1>2, <2>3, <2>6
  <2>8. QED
    BY <1>5, <2>4, <2>5, <2>7 DEF Inserting
<1>9. Ordered'
  <2>1. \A a, b \in Nodes : Less(a, b)' <=> Less(a, b)
    BY <1>2 DEF Less, Before
  <2>2. SUFFICES ASSUME NEW m \in DOMAIN next', NEW l \in DOMAIN next'[m], Linked(m, l)'
                 PROVE  \E x \in Nodes' \cup {Nil} : x = next'[m][l] /\ Follows(m, l, x)'
    BY DEF Ordered
  <2>3. m \in DOMAIN next /\ m # n /\ next'[m] = next[m] /\ Linked(m, l) /\ l \in DOMAIN next[m]
    BY <1>2, <2>2
  <2>4. PICK x \in Nodes \cup {Nil} : x = next[m][l] /\ x = next'[m][l] /\ Follows(m, l, x)
    BY <1>3, <2>3 DEF Ordered
  <2>5. /\ x # Nil => Linked(x, l) /\ x \in Nodes /\ (m = Top \/ Less(m, x))
        /\ \A o \in Nodes : Linked(o, l) /\ (m = Top \/ Less(m, o)) =>
             x # Nil /\ (o = x \/ Less(x, o))
    BY <2>4 DEF Follows
  <2>6. m = Top \/ m \in Nodes
    BY <1>3, <2>3
  <2>7. x # Nil => Linked(x, l)' /\ x \in Nodes' /\ (m = Top \/ Less(m, x)')
    BY <1>2, <1>3, <2>1, <2>5, <2>6
  <2>8. ASSUME NEW o \in Nodes', Linked(o, l)', m = Top \/ Less(m, o)'
        PROVE  x # Nil /\ (o = x \/ Less(x, o)')
    <3>1. o \in Nodes
      BY <1>2, <2>8
    <3>2. Linked(o, l) /\ (m = Top \/ Less(m, o))
      BY <1>2, <1>3, <2>1, <2>6, <2>8, <3>1
    <3>3. QED
      BY <2>1, <2>5, <3>1, <3>2
  <2>9. Follows(m, l, x)'
    BY <2>7, <2>8 DEF Follows
  <2>10. QED
    BY <1>2, <2>4, <2>9
<1>10. Placed'
  <2>1. SUFFICES ASSUME NEW e \in Entries, NEW l \in 1 .. MaxHeight
                 PROVE  \E p \in DOMAIN next' : IsPrev(p, e, l)'
    BY DEF Placed
  <2>2. PICK p \in DOMAIN next : IsPrev(p, e, l)
    BY <1>3 DEF Placed
  <2>3. QED
    BY <1>2, <1>7, <2>2
<1>11. insert' # Resting
  BY <1>0, <1>1 DEF Resting
<1>12. QED
  BY <1>6, <1>8, <1>9, <1>10, <1>11 DEF ListInv

-----------------------------------------------------------------------------
(* One step of an insertion: node n comes behind p at level l.             *)
Joins(n, l, p) ==
  /\ n \in Nodes /\ n = insert.node /\ l \in 1 .. MaxHeight /\ p \in DOMAIN next
  /\ l = insert.level /\ l \in DOMAIN next[n]
  /\ Entry(n) \in Entries /\ IsPrev(p, Entry(n), l) /\ p # n /\ next[n][l] = Nil
  /\ UNCHANGED <<key, last, heights>>
  /\ DOMAIN next' = DOMAIN next
  /\ \A m \in DOMAIN next : /\ DOMAIN next'[m] = DOMAIN next[m]
                            /\ \A j \in DOMAIN next[m] :
                                 next'[m][j] = IF j = l /\ m = n THEN next[p][l]
                                               ELSE IF j = l /\ m = p THEN n ELSE next[m][j]
  /\ \A m \in DOMAIN next, h \in 1 .. MaxHeight :
       next[m] \in [1 .. h -> Nodes \cup {Nil}] => next'[m] \in [1 .. h -> Nodes \cup {Nil}]
  /\ \A m, j : Linked(m, j)' <=> Linked(m, j) \/ (m = n /\ j = l)

(* The step of Insert's loop is of this kind.                              *)
LEMMA LinkShape ==
  ASSUME ListInv, Link
  PROVE  Inserting /\ \E n, l, p : Joins(n, l, p)
<1>0. PICK n, l : n = insert.node /\ l = insert.level
  OBVIOUS
<1>1. Inserting /\ insert # Resting
  BY DEF Link, ListInv
<1>2. /\ n = last + 1 /\ last \in Nat /\ n \in Nodes /\ n \in DOMAIN next /\ l \in DOMAIN next[n]
      /\ DOMAIN next = Nodes \cup {Top} /\ n # Top
  BY <1>0, <1>1, NodeOrder DEF Inserting, ListInv, ListTyped
<1>3. PICK h \in 1 .. MaxHeight : DOMAIN next[n] = 1 .. h /\ Height(n) = h
  BY <1>2, Heights DEF ListInv
<1>4. l \in Nat /\ l >= 1 /\ l <= h /\ h \in Nat
  BY <1>2, <1>3, ParametersAssumption
<1>5. PICK p \in DOMAIN next, e \in Entries :
        p = insert.prev[l] /\ e = Entry(n) /\ IsPrev(p, e, l) /\ next[n][l] = Nil
  <2>1. insert.node = n /\ insert.level <= l
    BY <1>0, <1>4
  <2>2. PICK p \in DOMAIN next, e \in Entries :
          p = insert.prev[l] /\ e = Entry(insert.node) /\ IsPrev(p, e, l) /\ next[insert.node][l] = Nil
    BY <1>0, <1>1, <1>2, <1>4 DEF Inserting
  <2>3. e = Entry(n)
    BY <2>1, <2>2
  <2>4. QED
    BY <2>1, <2>2, <2>3
<1>6. ~Linked(n, l)
  BY <1>0, <1>2, <1>4 DEF Linked
<1>7. p # n /\ l \in DOMAIN next[p]
  BY <1>5, <1>6 DEF IsPrev, Linked
<1>8. /\ next' = [next EXCEPT ![n][l] = next[p][l], ![p][l] = n]
      /\ insert' = IF l = h THEN Resting ELSE [insert EXCEPT !.level = @ + 1]
      /\ UNCHANGED <<key, heights, last>>
  BY <1>0, <1>3, <1>5 DEF Link
<1>9. \A m \in DOMAIN next : next'[m] = IF m = n THEN [next[n] EXCEPT ![l] = next[p][l]]
                                        ELSE IF m = p THEN [next[p] EXCEPT ![l] = n] ELSE next[m]
  BY <1>2, <1>5, <1>7, <1>8
<1>10. /\ DOMAIN next' = DOMAIN next
       /\ \A m \in DOMAIN next : /\ DOMAIN next'[m] = DOMAIN next[m]
                                 /\ \A j \in DOMAIN next[m] :
                                      next'[m][j] = IF j = l /\ m = n THEN next[p][l]
                                                    ELSE IF j = l /\ m = p THEN n ELSE next[m][j]
  BY <1>7, <1>8, <1>9
<1>11. ASSUME NEW m, NEW j PROVE Linked(m, j)' <=> Linked(m, j) \/ (m = n /\ j = l)
  <2>1. CASE m \notin DOMAIN next \/ j \notin DOMAIN next[m]
    BY <1>2, <1>10, <2>1 DEF Linked
  <2>2. CASE m \in DOMAIN next /\ j \in DOMAIN next[m] /\ m # n
    <3>1. Linked(m, j)
      BY <1>0, <2>2 DEF Linked
    <3>2. m = Top \/ m # insert'.node
      <4>1. insert'.node = n \/ insert'.node = Top
        BY <1>0, <1>1, <1>8 DEF Resting, Top, Inserting
      <4>2. QED
        BY <2>2, <4>1
    <3>3. Linked(m, j)'
      BY <1>10, <2>2, <3>2 DEF Linked
    <3>4. QED
      BY <2>2, <3>1, <3>3
  <2>3. CASE m = n /\ j \in DOMAIN next[n]
    <3>1. j \in Nat /\ j >= 1 /\ j <= h
      BY <1>3, <1>4, <2>3
    <3>2. Linked(n, j) <=> j < l
      BY <1>0, <1>2, <2>3 DEF Linked
    <3>3. CASE l = h
      <4>1. insert'.node = Top
        BY <1>8, <3>3 DEF Resting, Top
      <4>2. Linked(n, j)'
        BY <1>2, <1>10, <2>3, <4>1 DEF Linked
      <4>3. QED
        BY <1>4, <2>3, <3>1, <3>2, <3>3, <4>2
    <3>4. CASE l # h
      <4>1. insert'.node = n /\ insert'.level = l + 1
        BY <1>0, <1>1, <1>8, <3>4 DEF Inserting
      <4>2. Linked(n, j)' <=> j < l + 1
        BY <1>2, <1>10, <2>3, <4>1 DEF Linked
      <4>3. QED
        BY <1>4, <2>3, <3>1, <3>2, <4>2
    <3>5. QED
      BY <3>3, <3>4
  <2>4. QED
    BY <2>1, <2>2, <2>3
<1>12. l \in 1 .. MaxHeight
  BY <1>4, ParametersAssumption
<1>13. ASSUME NEW m \in DOMAIN next, NEW i \in 1 .. MaxHeight, next[m] \in [1 .. i -> Nodes \cup {Nil}]
       PROVE  next'[m] \in [1 .. i -> Nodes \cup {Nil}]
  <2>1. next[p][l] \in Nodes \cup {Nil}
    BY <1>5, <1>7 DEF ListInv, ListTyped
  <2>2. QED
    BY <1>2, <1>9, <1>13, <2>1
<1>14. Joins(n, l, p)
  BY <1>0, <1>2, <1>5, <1>7, <1>8, <1>10, <1>11, <1>12, <1>13 DEF Joins
<1>15. QED
  BY <1>1, <1>14

(* A link that is set is one the node has.                                 *)
LEMMA LinkedAt ==
  ASSUME NEW m, NEW j, Linked(m, j)
  PROVE  m \in DOMAIN next /\ j \in DOMAIN next[m]
BY DEF Linked

(* It leads where it should.                                               *)
LEMMA OrderedAt ==
  ASSUME Ordered, NEW m, NEW j, Linked(m, j)
  PROVE  \E x \in Nodes \cup {Nil} : x = next[m][j] /\ Follows(m, j, x)
BY LinkedAt DEF Ordered

(* The node that is being inserted is not yet at the current level.        *)
LEMMA NotYet ==
  ASSUME ListTyped, NEW n, NEW l, NEW p, Joins(n, l, p)
  PROVE  ~Linked(n, l) /\ n \in DOMAIN next
<1>1. l = insert.level /\ n = insert.node /\ l \in 1 .. MaxHeight /\ n \in Nodes
  BY DEF Joins
<1>2. ~(l < l) /\ n # Top /\ n \in DOMAIN next
  BY <1>1, NodeOrder DEF ListTyped
<1>3. QED
  BY <1>1, <1>2 DEF Linked

(* A node that joins a level leaves it in order.                           *)
LEMMA LinkKeepsOrder ==
  ASSUME ListInv, NEW n, NEW l, NEW p, Joins(n, l, p)
  PROVE  Ordered'
<1>1. /\ n \in Nodes /\ p \in DOMAIN next /\ l \in DOMAIN next[n] /\ p # n
      /\ Linked(p, l)
      /\ p = Top \/ Less(p, n)
      /\ next[p][l] = Nil \/ ~Before(Entry(next[p][l]), Entry(n))
      /\ Nodes' = Nodes /\ DOMAIN next' = DOMAIN next
      /\ \A m \in DOMAIN next : /\ DOMAIN next'[m] = DOMAIN next[m]
                                /\ \A j \in DOMAIN next[m] :
                                     next'[m][j] = IF j = l /\ m = n THEN next[p][l]
                                                   ELSE IF j = l /\ m = p THEN n ELSE next[m][j]
      /\ \A m, j : Linked(m, j)' <=> Linked(m, j) \/ (m = n /\ j = l)
  BY DEF Joins, IsPrev, Less, Nodes
<1>2. /\ DOMAIN next = Nodes \cup {Top} /\ n # Top
      /\ \A a \in Nodes : a # Nil /\ a # Top
      /\ \A a, b, c \in Nodes : Less(a, b) /\ Less(b, c) => Less(a, c)
      /\ \A a, b \in Nodes : ~(Less(a, b) /\ Less(b, a)) /\ (a = b \/ Less(a, b) \/ Less(b, a))
  BY <1>1, NodeOrder DEF ListInv, ListTyped
<1>3. \A a, b : Less(a, b)' <=> Less(a, b)
  BY DEF Joins, Less, Entry
<1>4. PICK x \in Nodes \cup {Nil} : x = next[p][l] /\ Follows(p, l, x)
  <2>1. Linked(p, l) /\ Ordered
    BY DEF Joins, IsPrev, ListInv
  <2>2. QED
    BY <2>1, OrderedAt
<1>5. /\ x # Nil => Linked(x, l) /\ x \in Nodes /\ (p = Top \/ Less(p, x))
      /\ \A o \in Nodes : Linked(o, l) /\ (p = Top \/ Less(p, o)) =>
           x # Nil /\ (o = x \/ Less(x, o))
      /\ p = Top \/ (p \in Nodes /\ Linked(p, l) /\ Less(p, n))
  <2>1. /\ x # Nil => Linked(x, l) /\ (p = Top \/ Less(p, x))
        /\ \A o \in Nodes : Linked(o, l) /\ (p = Top \/ Less(p, o)) =>
             x # Nil /\ (o = x \/ Less(x, o))
    BY <1>4 DEF Follows
  <2>2. p = Top \/ (p \in Nodes /\ Linked(p, l) /\ Less(p, n))
    BY <1>1, <1>2
  <2>3. x # Nil => x \in Nodes
    OBVIOUS
  <2>4. QED
    BY <2>1, <2>2, <2>3
<1>6. x # Nil /\ x # n => Less(n, x)
  BY <1>1, <1>2, <1>4, <1>5 DEF Less
<1>7. ~Linked(n, l)
  BY NotYet DEF ListInv
<1>8. x # n
  BY <1>1, <1>2, <1>5, <1>7
<1>9. SUFFICES ASSUME NEW a \in DOMAIN next, NEW j \in DOMAIN next[a], Linked(a, j)'
               PROVE  \E m \in Nodes \cup {Nil} :
                        /\ m = next'[a][j]
                        /\ m # Nil => Linked(m, j)' /\ (a = Top \/ Less(a, m))
                        /\ \A o \in Nodes : Linked(o, j)' /\ (a = Top \/ Less(a, o)) =>
                             m # Nil /\ (o = m \/ Less(m, o))
  <2>1. \A a, j, m : Follows(a, j, m)' <=>
               /\ m # Nil => Linked(m, j)' /\ (a = Top \/ Less(a, m))
               /\ \A o \in Nodes : Linked(o, j)' /\ (a = Top \/ Less(a, o)) =>
                    m # Nil /\ (o = m \/ Less(m, o))
    BY <1>1, <1>3 DEF Follows
  <2>2. QED
    BY <1>1, <2>1 DEF Ordered
<1>10. CASE j # l
  <2>1. next'[a][j] = next[a][j] /\ Linked(a, j)
    BY <1>1, <1>9, <1>10
  <2>2. PICK m \in Nodes \cup {Nil} : m = next[a][j] /\ Follows(a, j, m)
    <3>1. Ordered
      BY DEF ListInv
    <3>2. QED
      BY <2>1, <3>1, OrderedAt
  <2>3. /\ m # Nil => Linked(m, j)' /\ (a = Top \/ Less(a, m))
        /\ \A o \in Nodes : Linked(o, j)' /\ (a = Top \/ Less(a, o)) =>
             m # Nil /\ (o = m \/ Less(m, o))
    BY <1>1, <1>10, <2>2 DEF Follows
  <2>4. QED
    BY <2>1, <2>2, <2>3
<1>11. CASE j = l /\ a = p
  <2>1. next'[a][j] = n
    BY <1>1, <1>9, <1>11
  <2>2. ASSUME NEW o \in Nodes, Linked(o, l)', p = Top \/ Less(p, o)
        PROVE  o = n \/ Less(n, o)
    BY <1>1, <1>2, <1>5, <1>6, <1>8, <2>2
  <2>3. QED
    BY <1>1, <1>2, <1>11, <2>1, <2>2
<1>12. CASE j = l /\ a = n
  <2>1. next'[a][j] = x
    BY <1>1, <1>4, <1>9, <1>12
  <2>2. ASSUME NEW o \in Nodes, Linked(o, l)', Less(n, o)
        PROVE  x # Nil /\ (o = x \/ Less(x, o))
    <3>1. Linked(o, l)
      BY <1>1, <1>2, <2>2
    <3>2. p = Top \/ Less(p, o)
      BY <1>1, <1>2, <2>2
    <3>3. QED
      BY <1>5, <3>1, <3>2
  <2>3. QED
    BY <1>1, <1>2, <1>5, <1>6, <1>8, <1>12, <2>1, <2>2
<1>13. CASE j = l /\ a # n /\ a # p
  <2>1. next'[a][j] = next[a][l] /\ Linked(a, l) /\ l \in DOMAIN next[a]
    BY <1>1, <1>9, <1>13
  <2>0. PICK m \in Nodes \cup {Nil} : m = next[a][l] /\ Follows(a, l, m)
    <3>1. Ordered
      BY DEF ListInv
    <3>2. QED
      BY <2>1, <3>1, OrderedAt
  <2>2. /\ m # Nil => Linked(m, l) /\ m \in Nodes /\ (a = Top \/ Less(a, m))
        /\ \A o \in Nodes : Linked(o, l) /\ (a = Top \/ Less(a, o)) =>
             m # Nil /\ (o = m \/ Less(m, o))
    BY <2>0 DEF Follows
  <2>3. ASSUME a = Top \/ Less(a, n) PROVE m # Nil /\ Less(m, n)
    <3>1. CASE p # Top /\ (a = Top \/ Less(a, p))
      <4>1. p \in Nodes /\ Less(p, n) /\ Linked(p, l)
        BY <1>5, <3>1
      <4>2. m # Nil /\ (p = m \/ Less(m, p)) /\ m \in Nodes
        BY <2>2, <3>1, <4>1
      <4>3. QED
        BY <1>1, <1>2, <4>1, <4>2
    <3>2. CASE a # Top /\ (p = Top \/ Less(p, a))
      <4>1. a \in Nodes /\ Less(a, n)
        BY <1>2, <2>3, <3>2
      <4>2. x # Nil /\ (a = x \/ Less(x, a)) /\ x \in Nodes
        BY <1>5, <2>1, <3>2, <4>1
      <4>3. Less(x, n) /\ Less(n, x)
        BY <1>1, <1>2, <1>6, <1>8, <4>1, <4>2
      <4>4. QED
        BY <1>1, <1>2, <4>2, <4>3
    <3>3. QED
      BY <1>1, <1>2, <1>13, <3>1, <3>2
  <2>4. /\ m # Nil => Linked(m, l)' /\ (a = Top \/ Less(a, m))
        /\ \A o \in Nodes : Linked(o, l)' /\ (a = Top \/ Less(a, o)) =>
             m # Nil /\ (o = m \/ Less(m, o))
    BY <1>1, <2>2, <2>3
  <2>5. QED
    BY <1>13, <2>0, <2>1, <2>4
<1>14. QED
  BY <1>10, <1>11, <1>12, <1>13

(* The place of an entry at a level stays, or moves to the node that       *)
(* joined.                                                                 *)
LEMMA PlaceStays ==
  ASSUME ListTyped, NEW n, NEW l, NEW p, Joins(n, l, p), NEW q, NEW e, NEW j, IsPrev(q, e, j)
  PROVE  IF j = l /\ q = p /\ Before(Entry(n), e) THEN IsPrev(n, e, l)' ELSE IsPrev(q, e, j)'
<1>1. /\ Linked(q, j) /\ q \in DOMAIN next /\ j \in DOMAIN next[q]
      /\ q = Top \/ Before(Entry(q), e)
      /\ next[q][j] = Nil \/ ~Before(Entry(next[q][j]), e)
  BY LinkedAt DEF IsPrev
<1>2. /\ n \in Nodes /\ l \in DOMAIN next[n] /\ p # n /\ n = insert.node /\ l = insert.level
      /\ l \in 1 .. MaxHeight
      /\ \A m \in DOMAIN next : \A i \in DOMAIN next[m] :
           next'[m][i] = IF i = l /\ m = n THEN next[p][l] ELSE IF i = l /\ m = p THEN n ELSE next[m][i]
      /\ \A m, i : Linked(m, i)' <=> Linked(m, i) \/ (m = n /\ i = l)
  BY DEF Joins
<1>3. n \in DOMAIN next
  BY NotYet
<1>4. \A m : Entry(m)' = Entry(m)
  BY DEF Joins, Entry
<1>5. CASE j = l /\ q = p /\ Before(Entry(n), e)
  <2>1. next'[n][l] = next[p][l] /\ Linked(n, l)'
    BY <1>2, <1>3
  <2>2. IsPrev(n, e, l)'
    BY <1>1, <1>4, <1>5, <2>1 DEF IsPrev
  <2>3. QED
    BY <1>5, <2>2
<1>6. CASE j = l /\ q = p /\ ~Before(Entry(n), e)
  <2>1. next'[p][l] = n /\ Linked(p, l)'
    BY <1>1, <1>2, <1>6
  <2>2. IsPrev(p, e, l)'
    BY <1>1, <1>4, <1>6, <2>1 DEF IsPrev
  <2>3. QED
    BY <1>6, <2>2
<1>7. CASE ~(j = l /\ q = p)
  <2>1. ~(j = l /\ q = n)
    BY <1>1, NotYet
  <2>2. next'[q][j] = next[q][j] /\ Linked(q, j)'
    BY <1>1, <1>2, <1>7, <2>1
  <2>3. IsPrev(q, e, j)'
    BY <1>1, <1>4, <2>2 DEF IsPrev
  <2>4. QED
    BY <1>7, <2>3
<1>8. QED
  BY <1>5, <1>6, <1>7

(* So every entry still has one.                                           *)
LEMMA LinkKeepsPlaced ==
  ASSUME ListTyped, Placed, NEW n, NEW l, NEW p, Joins(n, l, p)
  PROVE  Placed'
<1>1. SUFFICES ASSUME NEW e \in Entries, NEW j \in 1 .. MaxHeight
               PROVE  \E q \in DOMAIN next' : IsPrev(q, e, j)'
  BY DEF Placed
<1>2. PICK q \in DOMAIN next : IsPrev(q, e, j)
  BY DEF Placed
<1>3. IF j = l /\ q = p /\ Before(Entry(n), e) THEN IsPrev(n, e, l)' ELSE IsPrev(q, e, j)'
  BY <1>2, PlaceStays
<1>4. DOMAIN next' = DOMAIN next /\ (IsPrev(n, e, l)' => n \in DOMAIN next')
  BY DEF Joins, IsPrev, Linked
<1>5. QED
  BY <1>2, <1>3, <1>4

(* Links still lead to nodes.                                              *)
LEMMA LinkKeepsTyped ==
  ASSUME ListTyped, NEW n, NEW l, NEW p, Joins(n, l, p)
  PROVE  ListTyped'
<1>1. /\ n \in Nodes /\ l \in DOMAIN next[p] /\ p \in DOMAIN next
      /\ UNCHANGED <<key, last, heights>> /\ DOMAIN next' = DOMAIN next
      /\ \A m \in DOMAIN next : /\ DOMAIN next'[m] = DOMAIN next[m]
                                /\ \A j \in DOMAIN next[m] :
                                     next'[m][j] = IF j = l /\ m = n THEN next[p][l]
                                                   ELSE IF j = l /\ m = p THEN n ELSE next[m][j]
  BY DEF Joins, IsPrev, Linked
<1>2. next[p][l] \in Nodes \cup {Nil}
  BY <1>1 DEF ListTyped
<1>3. Nodes' = Nodes
  BY <1>1 DEF Nodes
<1>4. ASSUME NEW m \in DOMAIN next
      PROVE  \E h \in 1 .. MaxHeight : next'[m] \in [1 .. h -> Nodes \cup {Nil}]
  BY DEF Joins, ListTyped
<1>5. DOMAIN next'[Top] = DOMAIN next[Top]
  BY <1>1 DEF ListTyped
<1>6. QED
  BY <1>1, <1>3, <1>4, <1>5 DEF ListTyped

(* The places of the levels above, which were looked up before, are        *)
(* still right.                                                            *)
LEMMA LinkKeepsInserting ==
  ASSUME ListInv, Inserting, Link, NEW n, NEW l, NEW p, Joins(n, l, p)
  PROVE  insert' = Resting \/ Inserting'
<1>1. /\ n = insert.node /\ l = insert.level /\ n \in Nodes /\ l \in DOMAIN next[n] /\ n \in DOMAIN next
      /\ UNCHANGED <<key, last>> /\ Nodes' = Nodes /\ DOMAIN next' = DOMAIN next
  BY DEF Joins, ListInv, ListTyped, Nodes
<1>2. PICK h \in 1 .. MaxHeight : DOMAIN next[n] = 1 .. h /\ Height(n) = h /\ h \in Nat
  <2>1. ListTyped
    BY DEF ListInv
  <2>2. QED
    BY <1>1, <2>1, Heights, ParametersAssumption
<1>3. insert' = IF l = h THEN Resting ELSE [insert EXCEPT !.level = @ + 1]
  BY <1>1, <1>2 DEF Link
<1>4. SUFFICES ASSUME l # h PROVE Inserting'
  BY <1>3
<1>5. /\ insert' = [node |-> n, level |-> l + 1, prev |-> insert.prev]
      /\ insert'.node = n /\ insert'.level = l + 1 /\ insert'.prev = insert.prev
  BY <1>1, <1>3, <1>4 DEF Inserting
<1>6. DOMAIN next'[n] = 1 .. h /\ l + 1 \in 1 .. h
  BY <1>1, <1>2, <1>4 DEF Joins
<1>7. ASSUME NEW j \in 1 .. h, j >= l + 1
      PROVE  /\ next'[n][j] = Nil
             /\ \E q \in DOMAIN next, e \in Entries : q = insert.prev[j] /\ e = Entry(n)' /\ IsPrev(q, e, j)'
  <2>1. j >= l /\ j # l
    BY <1>1, <1>2, <1>7
  <2>2. /\ next[n][j] = Nil
        /\ \E q \in DOMAIN next, e \in Entries : q = insert.prev[j] /\ e = Entry(n) /\ IsPrev(q, e, j)
    BY <1>1, <1>2, <2>1 DEF Inserting
  <2>3. PICK q \in DOMAIN next, e \in Entries : q = insert.prev[j] /\ e = Entry(n) /\ IsPrev(q, e, j)
    BY <2>2
  <2>4. IsPrev(q, e, j)'
    <3>1. ListTyped
      BY DEF ListInv
    <3>2. QED
      BY <2>1, <2>3, <3>1, PlaceStays
  <2>5. Entry(n)' = Entry(n)
    BY <1>1 DEF Entry
  <2>6. next'[n][j] = next[n][j]
    BY <1>1, <1>2, <2>1 DEF Joins
  <2>7. QED
    BY <2>2, <2>3, <2>4, <2>5, <2>6
<1>8. Nodes' = 1 .. last' + 1 /\ n = last' + 1
  BY <1>1 DEF Inserting
<1>9. Entry(insert.node)' = Entry(n)'
  BY <1>5 DEF Entry
<1>10. \A j \in DOMAIN next'[n] : j >= l + 1 =>
         /\ next'[n][j] = Nil
         /\ \E q \in DOMAIN next', e \in Entries :
              q = insert'.prev[j] /\ e = Entry(insert.node)' /\ IsPrev(q, e, j)'
  BY <1>1, <1>5, <1>6, <1>7, <1>9
<1>11. QED
  BY <1>5, <1>6, <1>8, <1>10 DEF Inserting

(* A step of Insert's loop keeps the invariant of the list.                *)
LEMMA LinkKeepsList ==
  ASSUME ListInv, Link
  PROVE  ListInv'
<1>1. Inserting
  BY LinkShape
<1>2. PICK n, l, p : Joins(n, l, p)
  BY LinkShape
<1>3. ListTyped /\ Placed
  BY DEF ListInv
<1>4. ListTyped' /\ Ordered' /\ Placed'
  BY <1>2, <1>3, LinkKeepsTyped, LinkKeepsOrder, LinkKeepsPlaced
<1>5. insert' = Resting \/ Inserting'
  BY <1>1, <1>2, LinkKeepsInserting
<1>6. QED
  BY <1>4, <1>5 DEF ListInv

-----------------------------------------------------------------------------
(* The part of the state that only the writer changes.                     *)
ListVars == <<key, next, heights, insert, last>>

(* What a step of the writer leaves to readers: nodes and links that are   *)
(* set stay, and what is visible stays visible.                            *)
Grows ==
  /\ Nodes \subseteq Nodes' /\ last <= last'
  /\ \A n \in Nodes : Entry(n)' = Entry(n)
  /\ \A n \in DOMAIN next : \A l : Linked(n, l) => Linked(n, l)'

(* A new list has it.                                                      *)
LEMMA InitList ==
  ASSUME Init
  PROVE  ListInv
<1>1. /\ Nodes = {} /\ DOMAIN key = {} /\ key = [n \in {} |-> 0] /\ last = 0 /\ heights = {1}
      /\ next = [n \in {Top} |-> [l \in 1 .. MaxHeight |-> Nil]] /\ insert = Resting
  BY DEF Init, Nodes
<1>2. ListTyped
  <2>1. Nodes = 1 .. last
    BY <1>1
  <2>2. key \in [Nodes -> Int]
    BY <1>1
  <2>3. next[Top] \in [1 .. MaxHeight -> Nodes \cup {Nil}] /\ MaxHeight \in 1 .. MaxHeight
    BY <1>1, ParametersAssumption
  <2>4. \A n \in DOMAIN next : \E h \in 1 .. MaxHeight : next[n] \in [1 .. h -> Nodes \cup {Nil}]
    BY <1>1, <2>3
  <2>5. QED
    BY <1>1, <2>1, <2>2, <2>4, ParametersAssumption DEF ListTyped
<1>3. \A l \in 1 .. MaxHeight : Linked(Top, l) /\ next[Top][l] = Nil
  BY <1>1 DEF Linked
<1>4. Ordered
  BY <1>1, <1>3 DEF Ordered, Follows
<1>5. Placed
  BY <1>1, <1>3 DEF Placed, IsPrev
<1>6. QED
  BY <1>1, <1>2, <1>4, <1>5 DEF ListInv

(* Nothing of it depends on what readers may see.                          *)
LEMMA PublishKeepsList ==
  ASSUME ListInv, Publish
  PROVE  ListInv'
<1>1. /\ insert = Resting /\ last \in Nat /\ ListTyped /\ Ordered /\ Placed
      /\ Cardinality(Nodes) = last + 1 /\ last' = last + 1
      /\ UNCHANGED <<key, next, heights, insert>>
  BY DEF ListInv, ListTyped, Publish
<1>2. Nodes = 1 .. last + 1
  <2>1. Cardinality(1 .. last) = last
    BY <1>1, FS_Interval
  <2>2. QED
    BY <1>1, <2>1 DEF ListTyped
<1>3. Nodes' = Nodes /\ Nodes' = 1 .. last'
  BY <1>1, <1>2 DEF Nodes
<1>4. ListTyped'
  BY <1>1, <1>3 DEF ListTyped
<1>5. \A n, l : /\ Linked(n, l)' <=> Linked(n, l)
                /\ Entry(n)' = Entry(n)
  BY <1>1 DEF Linked, Entry
<1>6. Ordered'
  <2>1. \A n, l, m : Follows(n, l, m)' <=> Follows(n, l, m)
    BY <1>3, <1>5 DEF Follows, Less
  <2>2. QED
    BY <1>1, <1>3, <1>5, <2>1 DEF Ordered
<1>7. Placed'
  <2>1. \A n, e, l : IsPrev(n, e, l)' <=> IsPrev(n, e, l)
    BY <1>1, <1>5 DEF IsPrev
  <2>2. QED
    BY <1>1, <2>1 DEF Placed
<1>8. QED
  BY <1>1, <1>4, <1>6, <1>7 DEF ListInv

(* A step that leaves the list alone keeps it.                             *)
LEMMA SameList ==
  ASSUME ListInv, UNCHANGED ListVars
  PROVE  ListInv'
<1>1. UNCHANGED <<key, next, heights, insert, last>> /\ Nodes' = Nodes
  BY DEF ListVars, Nodes
<1>2. \A n, l : /\ Linked(n, l)' <=> Linked(n, l)
                /\ Entry(n)' = Entry(n)
  BY <1>1 DEF Linked, Entry
<1>3. \A n, e, l : IsPrev(n, e, l)' <=> IsPrev(n, e, l)
  BY <1>1, <1>2 DEF IsPrev
<1>4. \A n, l, m : Follows(n, l, m)' <=> Follows(n, l, m)
  BY <1>1, <1>2 DEF Follows, Less
<1>5. ListTyped'
  BY <1>1 DEF ListTyped, ListInv
<1>6. Ordered' /\ Placed'
  BY <1>1, <1>2, <1>3, <1>4 DEF Ordered, Placed, ListInv
<1>7. (insert = Resting \/ Inserting)'
  <2>1. CASE insert = Resting
    BY <1>1, <2>1
  <2>2. CASE Inserting
    <3>1. Entry(insert.node)' = Entry(insert.node)
      BY <1>1 DEF Entry
    <3>2. QED
      BY <1>1, <1>3, <2>2, <3>1 DEF Inserting
  <2>3. QED
    BY <2>1, <2>2 DEF ListInv
<1>8. QED
  BY <1>5, <1>6, <1>7 DEF ListInv

(* The writer keeps it, and takes nothing away from readers.               *)
LEMMA WriterGrows ==
  ASSUME ListInv,
         \/ \E k \in 1 .. MaxKey, size \in EntrySizes, height \in 1 .. MaxHeight : Add(k, size, height)
         \/ Link \/ Publish
  PROVE  ListInv' /\ Grows
<1>1. ASSUME NEW k \in 1 .. MaxKey, NEW size \in EntrySizes, NEW height \in 1 .. MaxHeight, Add(k, size, height)
      PROVE  ListInv' /\ Grows
  <2>1. insert = Resting
    BY <1>1 DEF Add
  <2>2. ListInv'
    BY <1>1, <2>1, AddKeepsList
  <2>3. last' = last /\ last \in Nat
    BY <1>1 DEF Add, ListInv, ListTyped
  <2>4. QED
    BY <1>1, <2>1, <2>2, <2>3, AddKeeps DEF Grows
<1>2. CASE Link
  <2>1. PICK n, l, p : Joins(n, l, p)
    BY <1>2, LinkShape
  <2>2. Nodes' = Nodes /\ last' = last /\ last \in Nat /\ \A m : Entry(m)' = Entry(m)
    BY <2>1 DEF Joins, Nodes, Entry, ListInv, ListTyped
  <2>3. \A m, j : Linked(m, j) => Linked(m, j)'
    BY <2>1 DEF Joins
  <2>4. QED
    BY <1>2, <2>2, <2>3, LinkKeepsList DEF Grows
<1>3. CASE Publish
  <2>1. last' = last + 1 /\ last \in Nat /\ UNCHANGED <<key, next, insert>>
    BY <1>3 DEF Publish, ListInv, ListTyped
  <2>2. Nodes' = Nodes /\ \A m : Entry(m)' = Entry(m)
    BY <2>1 DEF Nodes, Entry
  <2>3. \A m, j : Linked(m, j)' <=> Linked(m, j)
    BY <2>1 DEF Linked
  <2>4. QED
    BY <1>3, <2>1, <2>2, <2>3, PublishKeepsList DEF Grows
<1>4. QED
  BY <1>1, <1>2, <1>3

(* Nor do readers.                                                         *)
LEMMA OnlyReaders ==
  ASSUME ListInv, UNCHANGED ListVars
  PROVE  Grows
BY DEF Grows, ListVars, Nodes, Entry, Linked, ListInv, ListTyped

(* A visible node is linked at all its levels.                             *)
LEMMA VisibleLinked ==
  ASSUME ListInv, NEW m \in 1 .. last, NEW l \in DOMAIN next[m]
  PROVE  Linked(m, l) /\ m \in Nodes
<1>1. last \in Nat /\ m \in Nodes /\ m \in DOMAIN next
  BY DEF ListInv, ListTyped
<1>2. m # insert.node
  BY <1>1 DEF ListInv, Inserting, Resting
<1>3. QED
  BY <1>1, <1>2 DEF Linked

(* LevelsNested follows.                                                   *)
LEMMA ListNested ==
  ASSUME ListInv
  PROVE  LevelsNested
<1>1. SUFFICES ASSUME NEW n \in DOMAIN next, NEW l \in DOMAIN next[n], next[n][l] # Nil
               PROVE  /\ n = Top \/ Before(Entry(n), Entry(next[n][l]))
                      /\ l \in DOMAIN next[next[n][l]]
                      /\ \A o \in 1 .. last :
                           /\ Before(Entry(o), Entry(next[n][l]))
                           /\ n = Top \/ Before(Entry(n), Entry(o))
                           => Height(o) < l
  BY DEF LevelsNested
<1>2. ListTyped /\ Ordered /\ last \in Nat
  BY DEF ListInv, ListTyped
<1>3. PICK h \in 1 .. MaxHeight : DOMAIN next[n] = 1 .. h /\ h \in Nat /\ l \in 1 .. MaxHeight
  BY <1>2, Heights, ParametersAssumption
<1>4. Linked(n, l)
  <2>1. CASE n = insert.node /\ n # Top /\ l >= insert.level
    <3>1. Inserting
      BY <2>1 DEF ListInv, Resting, Top
    <3>2. QED
      BY <1>1, <2>1, <3>1 DEF Inserting
  <2>2. CASE ~(n = insert.node /\ n # Top /\ l >= insert.level)
    <3>1. n = insert.node => l < insert.level \/ n = Top
      <4>1. CASE insert = Resting
        BY <4>1 DEF Resting, Top
      <4>2. CASE Inserting /\ n = insert.node
        <5>1. insert.level \in 1 .. h
          BY <1>3, <4>2 DEF Inserting
        <5>2. QED
          BY <1>3, <2>2, <4>2, <5>1
      <4>3. QED
        BY <4>1, <4>2 DEF ListInv
    <3>2. QED
      BY <1>1, <3>1 DEF Linked
  <2>3. QED
    BY <2>1, <2>2
<1>5. PICK m \in Nodes \cup {Nil} : m = next[n][l] /\ Follows(n, l, m)
  BY <1>2, <1>4, OrderedAt
<1>6. /\ m # Nil /\ m \in Nodes /\ Linked(m, l) /\ (n = Top \/ Less(n, m))
      /\ \A o \in Nodes : Linked(o, l) /\ (n = Top \/ Less(n, o)) => o = m \/ Less(m, o)
  BY <1>1, <1>5 DEF Follows
<1>7. l \in DOMAIN next[m]
  BY <1>6, LinkedAt
<1>8. ASSUME NEW o \in 1 .. last, Less(o, m), n = Top \/ Less(n, o)
      PROVE  Height(o) < l
  <2>1. o \in Nodes /\ o \in DOMAIN next
    BY <1>2 DEF ListTyped
  <2>2. ~Linked(o, l)
    BY <1>2, <1>6, <1>8, <2>1, NodeOrder
  <2>3. l \notin DOMAIN next[o]
    BY <2>2, VisibleLinked
  <2>4. QED
    BY <1>2, <1>3, <2>1, <2>3, Heights, ParametersAssumption
<1>9. QED
  BY <1>5, <1>6, <1>7, <1>8 DEF Less

-----------------------------------------------------------------------------
(* The state of a search.                                                  *)
Searches == [pc : {"search"}, mode : {"ge", "lt", "last"}, target : Entries, x : Nat, level : Nat,
             loads : Nat, seen : Nat, result : {Nil}]

(* The nodes that a search which is at x has behind it.                    *)
Behind(x) == {m \in Nodes : x # Top /\ ~Less(x, m)}

(* A search has passed where it is and has only gone forward or down.      *)
SearchInv(s) ==
  /\ s \in Searches
  /\ Linked(s.x, s.level)
  /\ s.x = Top \/ Passes(s, s.x)
  /\ s.seen <= last
  /\ s.mode = "ge" => s.target.seq = s.seen
  /\ s.loads + s.level <= MaxHeight + Cardinality(Behind(s.x))

(* The result is on its side of the target, with nothing visible between.  *)
Hit(s) ==
  /\ s.result # Nil => (Forwards(s) <=> ~Passes(s, s.result))
  /\ \A m \in 1 .. s.seen :
       IF Forwards(s) THEN Passes(s, m) \/ (s.result # Nil /\ ~Less(m, s.result))
       ELSE Passes(s, m) => s.result # Nil /\ ~Less(s.result, m)

(* A reader that is done.                                                  *)
DoneInv(s) ==
  /\ s.pc = "done" /\ s.target \in Entries /\ s.seen \in Nat /\ s.seen <= last
  /\ s.mode \in {"ge", "lt", "last", "first", "next"}
  /\ s.result \in Nodes \cup {Nil}
  /\ s.result # Nil => Linked(s.result, 1)
  /\ s.mode = "ge" => s.target.seq = s.seen
  /\ Hit(s)

(* The invariant of a reader.                                              *)
ReaderInv(s) == s = Ready \/ SearchInv(s) \/ DoneInv(s)

ReadersInv == /\ DOMAIN reader = Readers
              /\ \A r \in Readers : \E s : s = reader[r] /\ ReaderInv(s)

(* Nodes can be counted.                                                   *)
LEMMA BehindFinite ==
  ASSUME ListTyped, NEW x
  PROVE  IsFiniteSet(Nodes) /\ IsFiniteSet(Behind(x)) /\ Cardinality(Behind(x)) \in Nat
         /\ Cardinality(Nodes) \in Nat /\ Cardinality(Behind(x)) <= Cardinality(Nodes)
<1>1. IsFiniteSet(Nodes)
  <2>1. last \in Nat /\ (Nodes = 1 .. last \/ Nodes = 1 .. last + 1)
    BY DEF ListTyped
  <2>2. IsFiniteSet(1 .. last) /\ IsFiniteSet(1 .. last + 1)
    BY <2>1, FS_Interval
  <2>3. QED
    BY <2>1, <2>2
<1>2. Behind(x) \subseteq Nodes
  BY DEF Behind
<1>3. QED
  BY <1>1, <1>2, FS_Subset, FS_CardinalityType

(* What a reader knows stays true, whatever the writer does.               *)
LEMMA ReaderStays ==
  ASSUME ListInv, ListInv', Grows, NEW s, ReaderInv(s)
  PROVE  ReaderInv(s)'
<1>1. /\ ListTyped /\ ListTyped' /\ last \in Nat /\ last' \in Nat
      /\ Nodes \subseteq Nodes' /\ last <= last'
      /\ \A n \in Nodes : Entry(n)' = Entry(n)
      /\ \A n, l : Linked(n, l) => Linked(n, l)'
      /\ \A n, l : Linked(n, l) => n = Top \/ n \in Nodes
      /\ 1 .. last \subseteq Nodes
  BY DEF ListInv, ListTyped, Grows, Linked
<1>2. /\ \A n \in Nodes : Passes(s, n)' <=> Passes(s, n)
      /\ \A m, n \in Nodes : Less(m, n)' <=> Less(m, n)
  BY <1>1 DEF Passes, Less, Before
<1>3. CASE s = Ready
  BY <1>3 DEF ReaderInv
<1>4. CASE SearchInv(s)
  <2>1. /\ s \in Searches /\ Linked(s.x, s.level) /\ (s.x = Top \/ Passes(s, s.x)) /\ s.seen <= last
        /\ (s.mode = "ge" => s.target.seq = s.seen)
        /\ s.loads + s.level <= MaxHeight + Cardinality(Behind(s.x))
    BY <1>4 DEF SearchInv
  <2>2. /\ s.x = Top \/ s.x \in Nodes
        /\ s.loads \in Nat /\ s.level \in Nat /\ s.seen \in Nat /\ MaxHeight \in Nat
    BY <1>1, <2>1, ParametersAssumption DEF Searches
  <2>3. Behind(s.x) \subseteq Behind(s.x)'
    BY <1>1, <1>2, <2>2 DEF Behind
  <2>4. /\ Cardinality(Behind(s.x)) <= Cardinality(Behind(s.x)')
        /\ Cardinality(Behind(s.x)) \in Nat /\ Cardinality(Behind(s.x)') \in Nat
    <3>1. last' \in Nat /\ (Nodes' = 1 .. last' \/ Nodes' = 1 .. last' + 1)
      BY <1>1 DEF ListTyped
    <3>2. IsFiniteSet(1 .. last') /\ IsFiniteSet(1 .. last' + 1)
      BY <3>1, FS_Interval
    <3>3. IsFiniteSet(Nodes') /\ Behind(s.x)' \subseteq Nodes'
      BY <3>1, <3>2 DEF Behind
    <3>4. IsFiniteSet(Behind(s.x)') /\ Cardinality(Behind(s.x)') \in Nat
      BY <3>3, FS_Subset, FS_CardinalityType
    <3>5. Cardinality(Behind(s.x)) \in Nat
      BY <1>1, BehindFinite
    <3>6. QED
      BY <2>3, <3>4, <3>5, FS_Subset
  <2>5. s.loads + s.level <= MaxHeight + Cardinality(Behind(s.x)')
    BY <2>1, <2>2, <2>4
  <2>6. Linked(s.x, s.level)' /\ (s.x = Top \/ Passes(s, s.x)') /\ s.seen <= last'
    BY <1>1, <1>2, <2>1, <2>2
  <2>7. SearchInv(s)'
    BY <2>1, <2>5, <2>6 DEF SearchInv
  <2>8. QED
    BY <2>7 DEF ReaderInv
<1>5. CASE DoneInv(s)
  <2>1. /\ s.pc = "done" /\ s.target \in Entries /\ s.seen \in Nat /\ s.seen <= last
        /\ s.mode \in {"ge", "lt", "last", "first", "next"}
        /\ s.result \in Nodes \cup {Nil}
        /\ s.result # Nil => Linked(s.result, 1)
        /\ s.mode = "ge" => s.target.seq = s.seen
        /\ Hit(s)
    BY <1>5 DEF DoneInv
  <2>2. \A m \in 1 .. s.seen : m \in Nodes
    BY <1>1, <2>1
  <2>3. Hit(s)'
    BY <1>2, <2>1, <2>2 DEF Hit
  <2>4. s.seen <= last' /\ s.result \in Nodes' \cup {Nil} /\ (s.result # Nil => Linked(s.result, 1)')
    BY <1>1, <2>1
  <2>5. DoneInv(s)'
    BY <2>1, <2>3, <2>4 DEF DoneInv
  <2>6. QED
    BY <2>5 DEF ReaderInv
<1>6. QED
  BY <1>3, <1>4, <1>5 DEF ReaderInv

(* A search has nothing behind it when it begins, at any height the list   *)
(* has had.                                                                *)
LEMMA SearchStarts ==
  ASSUME ListInv, NEW mode \in {"ge", "lt", "last"}, NEW target \in Entries,
         mode = "ge" => target.seq = last, NEW h \in heights
  PROVE  SearchInv([pc |-> "search", mode |-> mode, target |-> target,
                    x |-> Top, level |-> h, loads |-> 0, seen |-> last, result |-> Nil])
<1>1. ListTyped /\ last \in Nat /\ h \in 1 .. MaxHeight /\ DOMAIN next[Top] = 1 .. MaxHeight /\ Top \in DOMAIN next
  BY DEF ListInv, ListTyped
<1>2. Linked(Top, h)
  BY <1>1 DEF Linked
<1>3. Cardinality(Behind(Top)) \in Nat
  BY <1>1, BehindFinite
<1>4. h \in Nat /\ h <= MaxHeight /\ MaxHeight \in Nat /\ Top \in Nat
  BY <1>1, ParametersAssumption DEF Top
<1>5. QED
  BY <1>1, <1>2, <1>3, <1>4 DEF SearchInv, Searches

(* The link a reader loads leads over no node that it may see.             *)
LEMMA LinkRight ==
  ASSUME ListInv, NEW x, NEW l, Linked(x, l), NEW seen \in Nat, seen <= last
  PROVE  \E n \in Nodes \cup {Nil} :
           /\ n = next[x][l] /\ x \in Nodes \cup {Top}
           /\ n # Nil => Linked(n, l) /\ (x = Top \/ Less(x, n))
           /\ l = 1 => \A m \in 1 .. seen :
                /\ m \in Nodes
                /\ x = Top \/ Less(x, m) => n # Nil /\ ~Less(m, n)
<1>1. Ordered /\ ListTyped /\ last \in Nat
  BY DEF ListInv, ListTyped
<1>2. PICK n \in Nodes \cup {Nil} : n = next[x][l] /\ Follows(x, l, n)
  BY <1>1, OrderedAt
<1>3. x \in Nodes \cup {Top}
  BY <1>1, LinkedAt DEF ListTyped
<1>4. ASSUME NEW m \in 1 .. seen, l = 1
      PROVE  m \in Nodes /\ (x = Top \/ Less(x, m) => n # Nil /\ ~Less(m, n))
  <2>1. m \in 1 .. last /\ m \in DOMAIN next
    BY <1>1 DEF ListTyped
  <2>2. 1 \in DOMAIN next[m]
    BY <1>1, <2>1, ParametersAssumption DEF ListTyped
  <2>3. Linked(m, 1) /\ m \in Nodes
    BY <2>1, <2>2, VisibleLinked
  <2>4. x = Top \/ Less(x, m) => n # Nil /\ (m = n \/ Less(n, m))
    BY <1>2, <1>4, <2>3 DEF Follows
  <2>5. QED
    BY <1>1, <2>3, <2>4, NodeOrder
<1>5. QED
  BY <1>2, <1>3, <1>4 DEF Follows

(* A search that goes on has one more node behind it.                      *)
LEMMA OnwardCounts ==
  ASSUME ListTyped, NEW x \in Nodes \cup {Top}, NEW n \in Nodes, x = Top \/ Less(x, n)
  PROVE  Cardinality(Behind(x)) + 1 <= Cardinality(Behind(n))
<1>1. n \notin Behind(x) /\ n \in Behind(n) /\ n # Top
  BY NodeOrder DEF Behind
<1>2. Behind(x) \subseteq Behind(n)
  <2>1. SUFFICES ASSUME NEW m \in Nodes, x # Top, ~Less(x, m), Less(n, m) PROVE FALSE
    BY <1>1 DEF Behind
  <2>2. x \in Nodes /\ Less(x, n)
    BY <2>1
  <2>3. QED
    BY <2>1, <2>2, NodeOrder
<1>3. /\ IsFiniteSet(Behind(n)) /\ Cardinality(Behind(n)) \in Nat
      /\ Cardinality(Behind(x)) \in Nat
  BY BehindFinite
<1>4. Cardinality(Behind(x)) <= Cardinality(Behind(n)) /\ Cardinality(Behind(x)) # Cardinality(Behind(n))
  BY <1>1, <1>2, <1>3, FS_Subset
<1>5. QED
  BY <1>3, <1>4

(* A load of a link keeps what a search knows, or ends it where it should. *)
LEMMA StepKeeps ==
  ASSUME ListInv, NEW s, SearchInv(s), NEW n, n = next[s.x][s.level], NEW onward,
         onward = (n # Nil /\ (s.mode = "last" \/ Before(Entry(n), s.target))), NEW t,
         t = IF onward THEN [s EXCEPT !.x = n, !.loads = @ + 1]
             ELSE IF s.level > 1 THEN Lower(s)
             ELSE [s EXCEPT !.pc = "done",
                            !.result = IF s.mode = "ge" THEN n ELSE IF s.x = Top THEN Nil ELSE s.x]
  PROVE  ReaderInv(t)
<1>1. /\ s \in Searches /\ Linked(s.x, s.level) /\ (s.x = Top \/ Passes(s, s.x)) /\ s.seen <= last
      /\ (s.mode = "ge" => s.target.seq = s.seen)
      /\ s.loads + s.level <= MaxHeight + Cardinality(Behind(s.x))
  BY DEF SearchInv
<1>2. PICK x, l : x = s.x /\ l = s.level
  OBVIOUS
<1>3. /\ x \in Nat /\ l \in Nat /\ s.loads \in Nat /\ s.seen \in Nat /\ s.target \in Entries
      /\ s.mode \in {"ge", "lt", "last"} /\ s.pc = "search" /\ s.result = Nil
  BY <1>1, <1>2 DEF Searches
<1>4. /\ ListTyped /\ last \in Nat /\ MaxHeight \in Nat
      /\ x \in Nodes \cup {Top} /\ Linked(x, l)
      /\ \A m \in Nodes : m \in Nat /\ m # Nil /\ m # Top /\ Entry(m) \in Entries
  BY <1>1, <1>2, NodeOrder, LinkedAt, ParametersAssumption DEF ListInv, ListTyped
<1>5. /\ n \in Nodes \cup {Nil}
      /\ n # Nil => Linked(n, l) /\ (x = Top \/ Less(x, n))
      /\ l = 1 => \A m \in 1 .. s.seen :
           /\ m \in Nodes
           /\ x = Top \/ Less(x, m) => n # Nil /\ ~Less(m, n)
  BY <1>1, <1>2, <1>3, <1>4, LinkRight
<1>6. CASE onward
  <2>1. t = [s EXCEPT !.x = n, !.loads = @ + 1] /\ n # Nil /\ n \in Nodes
        /\ (s.mode = "last" \/ Before(Entry(n), s.target))
    BY <1>5, <1>6
  <2>2. t \in Searches /\ t.x = n /\ t.level = l /\ t.loads = s.loads + 1 /\ t.mode = s.mode
        /\ t.target = s.target /\ t.seen = s.seen
    <3>1. n \in Nat /\ s.loads + 1 \in Nat /\ t = [s EXCEPT !.x = n, !.loads = s.loads + 1]
      BY <1>3, <1>4, <2>1
    <3>2. PICK m \in {"ge", "lt", "last"}, g \in Entries, y \in Nat, k \in Nat, i \in Nat, v \in Nat :
            s = [pc |-> "search", mode |-> m, target |-> g, x |-> y, level |-> k,
                 loads |-> i, seen |-> v, result |-> Nil]
      BY <1>1 DEF Searches
    <3>3. t = [pc |-> "search", mode |-> m, target |-> g, x |-> n, level |-> k,
               loads |-> i + 1, seen |-> v, result |-> Nil]
      BY <3>1, <3>2
    <3>4. QED
      BY <1>2, <3>1, <3>2, <3>3 DEF Searches
  <2>3. Passes(t, n)
    BY <1>3, <2>1, <2>2 DEF Passes
  <2>4. /\ Cardinality(Behind(x)) + 1 <= Cardinality(Behind(n))
        /\ Cardinality(Behind(x)) \in Nat /\ Cardinality(Behind(n)) \in Nat
    BY <1>4, <1>5, <2>1, OnwardCounts, BehindFinite
  <2>5. t.loads + t.level <= MaxHeight + Cardinality(Behind(t.x))
    BY <1>1, <1>2, <1>3, <1>4, <2>2, <2>4
  <2>6. SearchInv(t)
    BY <1>1, <1>5, <2>1, <2>2, <2>3, <2>5 DEF SearchInv
  <2>7. QED
    BY <2>6 DEF ReaderInv
<1>7. CASE ~onward /\ l > 1
  <2>1. t = [s EXCEPT !.level = @ - 1, !.loads = @ + 1]
    BY <1>2, <1>7 DEF Lower
  <2>2. t \in Searches /\ t.x = x /\ t.level = l - 1 /\ t.loads = s.loads + 1 /\ t.mode = s.mode
        /\ t.target = s.target /\ t.seen = s.seen
    <3>1. l - 1 \in Nat /\ s.loads + 1 \in Nat /\ t = [s EXCEPT !.level = l - 1, !.loads = s.loads + 1]
      BY <1>2, <1>3, <1>7, <2>1
    <3>2. PICK m \in {"ge", "lt", "last"}, g \in Entries, y \in Nat, k \in Nat, i \in Nat, v \in Nat :
            s = [pc |-> "search", mode |-> m, target |-> g, x |-> y, level |-> k,
                 loads |-> i, seen |-> v, result |-> Nil]
      BY <1>1 DEF Searches
    <3>3. t = [pc |-> "search", mode |-> m, target |-> g, x |-> y, level |-> l - 1,
               loads |-> i + 1, seen |-> v, result |-> Nil]
      BY <3>1, <3>2
    <3>4. QED
      BY <1>2, <3>1, <3>2, <3>3 DEF Searches
  <2>3. Linked(x, l - 1)
    <3>1. PICK h \in 1 .. MaxHeight : DOMAIN next[x] = 1 .. h
      BY <1>4, LinkedAt DEF ListTyped
    <3>2. l \in 1 .. h /\ x \in DOMAIN next /\ h \in Nat
      BY <1>4, <3>1, LinkedAt
    <3>3. x = Top \/ x # insert.node \/ l - 1 < insert.level
      <4>1. SUFFICES ASSUME x # Top, x = insert.node PROVE l - 1 < insert.level
        OBVIOUS
      <4>2. Inserting
        BY <4>1 DEF ListInv, Resting, Top
      <4>3. insert.level \in Int
        <5>1. insert.level \in DOMAIN next[insert.node]
          BY <4>2 DEF Inserting
        <5>2. QED
          BY <3>1, <4>1, <5>1
      <4>4. l < insert.level
        BY <1>4, <4>1 DEF Linked
      <4>5. QED
        BY <1>3, <4>3, <4>4
    <3>4. l - 1 \in 1 .. h
      BY <1>3, <1>7, <3>2
    <3>5. QED
      BY <3>1, <3>2, <3>3, <3>4 DEF Linked
  <2>4. x = Top \/ Passes(t, x)
    BY <1>1, <1>2, <2>2 DEF Passes
  <2>5. Cardinality(Behind(x)) \in Nat
    BY <1>4, BehindFinite
  <2>6. t.loads + t.level <= MaxHeight + Cardinality(Behind(t.x))
    BY <1>1, <1>2, <1>3, <1>4, <2>2, <2>5
  <2>7. SearchInv(t)
    BY <1>1, <2>2, <2>3, <2>4, <2>6 DEF SearchInv
  <2>8. QED
    BY <2>7 DEF ReaderInv
<1>8. CASE ~onward /\ ~(l > 1)
  <2>0. PICK found : found = IF s.mode = "ge" THEN n ELSE IF x = Top THEN Nil ELSE x
    OBVIOUS
  <2>1. t = [s EXCEPT !.pc = "done", !.result = found]
    BY <1>2, <1>8, <2>0
  <2>2. /\ t.pc = "done" /\ t.target = s.target /\ t.seen = s.seen /\ t.mode = s.mode
        /\ t.result = found
    BY <1>1, <2>1 DEF Searches
  <2>3. l = 1
    <3>1. l \in DOMAIN next[x] /\ x \in DOMAIN next
      BY <1>4, LinkedAt
    <3>2. l >= 1
      BY <1>3, <1>4, <3>1 DEF ListTyped
    <3>3. QED
      BY <1>3, <1>8, <3>2
  <2>4. \A m \in 1 .. s.seen : m \in Nodes /\ (x = Top \/ Less(x, m) => n # Nil /\ ~Less(m, n))
    BY <1>5, <2>3
  <2>5. n # Nil => s.mode # "last" /\ ~Before(Entry(n), s.target) /\ n \in Nodes /\ Linked(n, 1)
    BY <1>5, <1>8, <2>3
  <2>6. \A m : Passes(t, m) <=> s.mode = "last" \/ Before(Entry(m), s.target)
    BY <1>3, <2>2 DEF Passes
  <2>7. x = Top \/ s.mode = "last" \/ Before(Entry(x), s.target)
    BY <1>1, <1>2, <1>3 DEF Passes
  <2>8. CASE s.mode = "ge"
    <3>1. found = n /\ Forwards(t)
      BY <2>0, <2>2, <2>8 DEF Forwards
    <3>2. \A m \in 1 .. s.seen : Passes(t, m) \/ (n # Nil /\ ~Less(m, n))
      <4>1. SUFFICES ASSUME NEW m \in 1 .. s.seen, ~Passes(t, m) PROVE x = Top \/ Less(x, m)
        BY <2>4
      <4>2. ~Before(Entry(m), s.target) /\ m \in Nodes /\ Entry(m) \in Entries
        BY <1>4, <2>4, <2>6, <4>1
      <4>3. CASE x # Top
        <5>1. Before(Entry(x), s.target) /\ Entry(x) \in Entries
          BY <1>4, <2>7, <2>8, <4>3
        <5>2. QED
          BY <1>3, <4>2, <5>1, EntryOrder DEF Less
      <4>4. QED
        BY <4>3
    <3>3. n # Nil => ~Passes(t, n)
      BY <2>5, <2>6, <2>8
    <3>4. Hit(t)
      BY <2>2, <3>1, <3>2, <3>3 DEF Hit
    <3>5. DoneInv(t)
      BY <1>1, <1>3, <1>5, <2>2, <2>5, <3>1, <3>4 DEF DoneInv
    <3>6. QED
      BY <3>5 DEF ReaderInv
  <2>9. CASE s.mode # "ge"
    <3>1. /\ found = IF x = Top THEN Nil ELSE x
          /\ ~Forwards(t) /\ t.mode \in {"lt", "last"}
      BY <1>3, <2>0, <2>2, <2>9 DEF Forwards
    <3>2. ASSUME NEW m \in 1 .. s.seen, Passes(t, m) PROVE x # Top /\ ~Less(x, m)
      <4>1. SUFFICES ASSUME x = Top \/ Less(x, m) PROVE FALSE
        OBVIOUS
      <4>2. n # Nil /\ ~Less(m, n) /\ m \in Nodes
        BY <2>4, <4>1
      <4>3. s.mode # "last" /\ ~Before(Entry(n), s.target) /\ n \in Nodes /\ Before(Entry(m), s.target)
        BY <2>5, <2>6, <3>2, <4>2
      <4>4. Entry(m) \in Entries /\ Entry(n) \in Entries
        BY <1>4, <4>2, <4>3
      <4>5. Before(Entry(m), Entry(n))
        BY <1>3, <4>3, <4>4, EntryOrder
      <4>6. QED
        BY <4>2, <4>5 DEF Less
    <3>3. x # Top => x # Nil /\ x \in Nodes /\ Passes(t, x) /\ Linked(x, 1)
      BY <1>4, <2>3, <2>6, <2>7
    <3>4. Hit(t)
      BY <2>2, <3>1, <3>2, <3>3 DEF Hit
    <3>5. DoneInv(t)
      BY <1>1, <1>3, <2>2, <2>9, <3>1, <3>3, <3>4 DEF DoneInv
    <3>6. QED
      BY <3>5 DEF ReaderInv
  <2>10. QED
    BY <2>8, <2>9
<1>9. QED
  BY <1>2, <1>6, <1>7, <1>8

(* One link followed at the lowest level leads to the next entry.          *)
LEMMA FollowKeeps ==
  ASSUME ListInv, NEW n, Linked(n, 1), NEW mode, mode = IF n = Top THEN "first" ELSE "next",
         NEW t, t = [pc |-> "done", mode |-> mode, x |-> n, level |-> 1, seen |-> last,
                     target |-> IF n = Top THEN [key |-> 0, seq |-> 0] ELSE Entry(n), result |-> next[n][1]]
  PROVE  ReaderInv(t)
<1>1. last \in Nat /\ ListTyped
  BY DEF ListInv, ListTyped
<1>2. PICK m \in Nodes \cup {Nil} :
        /\ m = next[n][1] /\ n \in Nodes \cup {Top}
        /\ m # Nil => Linked(m, 1) /\ (n = Top \/ Less(n, m))
        /\ \A o \in 1 .. last : o \in Nodes /\ (n = Top \/ Less(n, o) => m # Nil /\ ~Less(o, m))
  BY <1>1, LinkRight
<1>3. /\ t.pc = "done" /\ t.seen = last /\ t.result = m /\ t.mode = mode /\ mode \in {"first", "next"}
      /\ t.target = IF n = Top THEN [key |-> 0, seq |-> 0] ELSE Entry(n)
  BY <1>2
<1>4. n # Top => Entry(n) \in Entries /\ n \in Nodes
  BY <1>1, <1>2, NodeOrder
<1>5. t.target \in Entries
  BY <1>3, <1>4 DEF Entries
<1>6. \A o \in Nodes : Passes(t, o) <=> n # Top /\ ~Less(n, o)
  <2>1. SUFFICES ASSUME NEW o \in Nodes PROVE Passes(t, o) <=> n # Top /\ ~Less(n, o)
    OBVIOUS
  <2>2. CASE n = Top
    BY <1>3, <2>2 DEF Passes
  <2>3. CASE n # Top
    <3>1. Passes(t, o) <=> Less(o, n) \/ Entry(o) = Entry(n)
      BY <1>3, <2>3 DEF Passes, Less
    <3>2. Entry(o) = Entry(n) <=> o = n
      BY <1>1, <1>4, <2>3, NodeOrder
    <3>3. QED
      BY <1>1, <1>4, <2>3, <3>1, <3>2, NodeOrder
  <2>4. QED
    BY <2>2, <2>3
<1>7. Forwards(t)
  BY <1>3 DEF Forwards
<1>8. Hit(t)
  BY <1>2, <1>3, <1>6, <1>7 DEF Hit
<1>9. DoneInv(t)
  BY <1>1, <1>2, <1>3, <1>5, <1>8 DEF DoneInv
<1>10. QED
  BY <1>9 DEF ReaderInv

-----------------------------------------------------------------------------
(* The steps of the writer.                                                *)
Writes == \/ \E k \in 1 .. MaxKey, size \in EntrySizes, height \in 1 .. MaxHeight : Add(k, size, height)
          \/ Link \/ Publish

(* A reader's operation leaves the list, and other readers, alone.         *)
LEMMA ReaderMoves ==
  ASSUME ListInv, ReadersInv, NEW r \in Readers, NEW t, ReaderInv(t),
         reader' = [reader EXCEPT ![r] = t], UNCHANGED ListVars
  PROVE  ReadersInv'
<1>1. ListInv' /\ Grows
  BY SameList, OnlyReaders
<1>2. DOMAIN reader' = Readers /\ \A q \in Readers : reader'[q] = IF q = r THEN t ELSE reader[q]
  BY DEF ReadersInv
<1>3. ASSUME NEW q \in Readers PROVE \E s : s = reader'[q] /\ ReaderInv(s)'
  <2>1. PICK s : s = reader'[q] /\ ReaderInv(s)
    BY <1>2 DEF ReadersInv
  <2>2. ReaderInv(s)'
    BY <1>1, <2>1, ReaderStays
  <2>3. QED
    BY <2>1, <2>2
<1>4. QED
  BY <1>2, <1>3 DEF ReadersInv

(* The three searches begin well.                                          *)
LEMMA SearchKeeps ==
  ASSUME ListInv, ReadersInv, NEW r \in Readers, NEW mode \in {"ge", "lt", "last"},
         NEW target \in Entries, mode = "ge" => target.seq = last, Search(r, mode, target)
  PROVE  ReadersInv' /\ UNCHANGED ListVars
<1>1. PICK h \in heights :
        reader' = [reader EXCEPT ![r] = [pc |-> "search", mode |-> mode, target |-> target,
                                         x |-> Top, level |-> h, loads |-> 0, seen |-> last, result |-> Nil]]
  BY DEF Search
<1>2. PICK t : t = [pc |-> "search", mode |-> mode, target |-> target,
                    x |-> Top, level |-> h, loads |-> 0, seen |-> last, result |-> Nil]
  OBVIOUS
<1>3. ReaderInv(t)
  BY <1>2, SearchStarts DEF ReaderInv
<1>4. UNCHANGED ListVars
  BY DEF Search, ListVars
<1>5. reader' = [reader EXCEPT ![r] = t]
  BY <1>1, <1>2
<1>6. QED
  BY <1>3, <1>4, <1>5, ReaderMoves

(* An iterator that is valid is at a node that stays.                      *)
LEMMA ValidAt ==
  ASSUME ListInv, ReadersInv, NEW r \in Readers, Valid(r)
  PROVE  LET n == reader[r].result IN n \in Nodes /\ n # Top /\ Linked(n, 1) /\ Entry(n) \in Entries
<1>1. PICK s : s = reader[r] /\ ReaderInv(s)
  BY DEF ReadersInv
<1>2. s.pc = "done" /\ s.result \in Nodes
  BY <1>1 DEF Valid
<1>3. DoneInv(s)
  <2>1. s # Ready
    BY <1>2 DEF Ready
  <2>2. ~SearchInv(s)
    BY <1>2 DEF SearchInv, Searches
  <2>3. QED
    BY <1>1, <2>1, <2>2 DEF ReaderInv
<1>4. s.result # Top /\ s.result # Nil /\ Entry(s.result) \in Entries
  BY <1>2, NodeOrder DEF ListInv
<1>5. QED
  BY <1>1, <1>2, <1>3, <1>4 DEF DoneInv

(* SeekToFirst and Next end well.                                          *)
LEMMA FollowKeepsReaders ==
  ASSUME ListInv, ReadersInv, NEW r \in Readers, NEW n, Linked(n, 1),
         Follow(r, n, IF n = Top THEN "first" ELSE "next")
  PROVE  ReadersInv' /\ UNCHANGED ListVars
<1>1. PICK mode : mode = IF n = Top THEN "first" ELSE "next"
  OBVIOUS
<1>2. PICK t : t = [pc |-> "done", mode |-> mode, x |-> n, level |-> 1, seen |-> last,
                    target |-> IF n = Top THEN [key |-> 0, seq |-> 0] ELSE Entry(n), result |-> next[n][1]]
  OBVIOUS
<1>3. ReaderInv(t)
  BY <1>1, <1>2, FollowKeeps
<1>4. reader' = [reader EXCEPT ![r] = t] /\ UNCHANGED ListVars
  BY <1>1, <1>2 DEF Follow, ListVars
<1>5. QED
  BY <1>3, <1>4, ReaderMoves

(* Each load of a search is sound.                                         *)
LEMMA StepKeepsReaders ==
  ASSUME ListInv, ReadersInv, NEW r \in Readers, Step(r)
  PROVE  ReadersInv' /\ UNCHANGED ListVars
<1>1. PICK s : s = reader[r] /\ ReaderInv(s)
  BY DEF ReadersInv
<1>2. s.pc = "search"
  BY <1>1 DEF Step
<1>3. SearchInv(s)
  <2>1. s # Ready
    BY <1>2 DEF Ready
  <2>2. ~DoneInv(s)
    BY <1>2 DEF DoneInv
  <2>3. QED
    BY <1>1, <2>1, <2>2 DEF ReaderInv
<1>4. PICK n : n = next[s.x][s.level]
  OBVIOUS
<1>5. PICK onward : onward = (n # Nil /\ (s.mode = "last" \/ Before(Entry(n), s.target)))
  OBVIOUS
<1>6. PICK t : t = IF onward THEN [s EXCEPT !.x = n, !.loads = @ + 1]
                   ELSE IF s.level > 1 THEN Lower(s)
                   ELSE [s EXCEPT !.pc = "done",
                                  !.result = IF s.mode = "ge" THEN n ELSE IF s.x = Top THEN Nil ELSE s.x]
  OBVIOUS
<1>7. ReaderInv(t)
  BY <1>3, <1>4, <1>5, <1>6, StepKeeps
<1>8. reader' = [reader EXCEPT ![r] = t]
  BY <1>1, <1>4, <1>5, <1>6 DEF Step
<1>9. UNCHANGED ListVars
  BY DEF Step, ListVars
<1>10. QED
  BY <1>7, <1>8, <1>9, ReaderMoves

(* Every step keeps the invariants of the list and of readers.             *)
LEMMA StepSound ==
  ASSUME ListInv, ReadersInv, [Next]_vars
  PROVE  ListInv' /\ ReadersInv'
<1>1. CASE Writes
  <2>1. ListInv' /\ Grows
    BY <1>1, WriterGrows DEF Writes
  <2>2. reader' = reader
    BY <1>1 DEF Writes, Add, Link, Publish
  <2>3. ASSUME NEW q \in Readers PROVE \E s : s = reader'[q] /\ ReaderInv(s)'
    <3>1. PICK s : s = reader[q] /\ ReaderInv(s)
      BY DEF ReadersInv
    <3>2. ReaderInv(s)'
      BY <2>1, <3>1, ReaderStays
    <3>3. QED
      BY <2>2, <3>1, <3>2
  <2>4. QED
    BY <2>1, <2>2, <2>3 DEF ReadersInv
<1>2. ASSUME NEW r \in Readers,
             \/ \E k \in 1 .. MaxKey : Seek(r, k)
             \/ SeekToLast(r) \/ Back(r) \/ Step(r) \/ SeekToFirst(r) \/ Forward(r)
      PROVE  ReadersInv' /\ UNCHANGED ListVars
  <2>1. last \in Nat /\ MaxKey \in Nat /\ ListTyped
    BY ParametersAssumption DEF ListInv, ListTyped
  <2>2. ASSUME NEW k \in 1 .. MaxKey, Seek(r, k) PROVE ReadersInv' /\ UNCHANGED ListVars
    <3>1. PICK e \in Entries : e = [key |-> k, seq |-> last] /\ e.seq = last
      <4>1. PICK e : e = [key |-> k, seq |-> last]
        OBVIOUS
      <4>2. k \in Int /\ last \in Int
        BY <2>1
      <4>3. e \in Entries /\ e.seq = last
        BY <4>1, <4>2 DEF Entries
      <4>4. QED
        BY <4>1, <4>3
    <3>2. Search(r, "ge", e)
      BY <2>2, <3>1 DEF Seek
    <3>3. QED
      BY <3>1, <3>2, SearchKeeps
  <2>3. CASE SeekToLast(r)
    <3>1. PICK e \in Entries : e = [key |-> MaxKey + 1, seq |-> 0]
      <4>1. PICK e : e = [key |-> MaxKey + 1, seq |-> 0]
        OBVIOUS
      <4>2. MaxKey + 1 \in Int /\ 0 \in Int
        BY <2>1
      <4>3. e \in Entries
        BY <4>1, <4>2 DEF Entries
      <4>4. QED
        BY <4>1, <4>3
    <3>2. Search(r, "last", e)
      BY <2>3, <3>1 DEF SeekToLast
    <3>3. QED
      BY <3>2, SearchKeeps
  <2>4. CASE Back(r)
    <3>1. PICK e \in Entries : e = Entry(reader[r].result)
      BY <2>4, ValidAt DEF Back
    <3>2. Search(r, "lt", e)
      BY <2>4, <3>1 DEF Back
    <3>3. QED
      BY <3>2, SearchKeeps
  <2>5. CASE Step(r)
    BY <2>5, StepKeepsReaders
  <2>6. CASE SeekToFirst(r)
    <3>1. Linked(Top, 1)
      BY <2>1, ParametersAssumption DEF ListTyped, Linked
    <3>2. Follow(r, Top, IF Top = Top THEN "first" ELSE "next")
      BY <2>6 DEF SeekToFirst
    <3>3. QED
      BY <3>1, <3>2, FollowKeepsReaders
  <2>7. CASE Forward(r)
    <3>1. PICK n : n = reader[r].result
      OBVIOUS
    <3>2. Linked(n, 1) /\ n # Top
      BY <2>7, <3>1, ValidAt DEF Forward
    <3>3. Follow(r, n, IF n = Top THEN "first" ELSE "next")
      BY <2>7, <3>1, <3>2 DEF Forward
    <3>4. QED
      BY <3>2, <3>3, FollowKeepsReaders
  <2>8. QED
    BY <1>2, <2>2, <2>3, <2>4, <2>5, <2>6, <2>7
<1>3. CASE UNCHANGED vars
  <2>1. UNCHANGED ListVars /\ reader' = reader
    BY <1>3 DEF vars, ListVars
  <2>2. ListInv' /\ Grows
    BY <2>1, SameList, OnlyReaders
  <2>3. ASSUME NEW q \in Readers PROVE \E s : s = reader'[q] /\ ReaderInv(s)'
    <3>1. PICK s : s = reader[q] /\ ReaderInv(s)
      BY DEF ReadersInv
    <3>2. ReaderInv(s)'
      BY <2>2, <3>1, ReaderStays
    <3>3. QED
      BY <2>1, <3>1, <3>2
  <2>4. QED
    BY <2>1, <2>2, <2>3 DEF ReadersInv
<1>4. CASE Writes \/ \E r \in Readers :
             \/ \E k \in 1 .. MaxKey : Seek(r, k)
             \/ SeekToLast(r) \/ Back(r) \/ Step(r) \/ SeekToFirst(r) \/ Forward(r)
  BY <1>1, <1>2, <1>4, SameList
<1>5. QED
  BY <1>3, <1>4 DEF Next, Writes

(* MissesNothing, GetRight, SearchesEnd and TypeOK are about what the list *)
(* and the readers' invariants say.                                        *)
LEMMA ReadersRight ==
  ASSUME ListInv, ReadersInv
  PROVE  TypeOK /\ MissesNothing /\ GetRight /\ SearchesEnd
<1>1. /\ ListTyped /\ last \in Nat /\ (Nodes = 1 .. last \/ Nodes = 1 .. last + 1)
      /\ \A m \in Nodes : m \in Nat /\ Entry(m) = [key |-> key[m], seq |-> m] /\ key[m] \in Int
  BY DEF ListInv, ListTyped, Entry
<1>2. TypeOK
  <2>1. \A n \in DOMAIN next : \A l \in DOMAIN next[n] : next[n][l] \in Nodes \cup {Nil}
    BY <1>1 DEF ListTyped
  <2>2. QED
    BY <1>1, <2>1 DEF TypeOK, ListTyped
<1>3. ASSUME NEW r \in Readers, NEW s, s = reader[r], ReaderInv(s), s.pc = "done"
      PROVE  DoneInv(s) /\ Results(r) = 1 .. s.seen
  <2>1. s # Ready
    BY <1>3 DEF Ready
  <2>2. ~SearchInv(s)
    BY <1>3 DEF SearchInv, Searches
  <2>3. DoneInv(s)
    BY <1>3, <2>1, <2>2 DEF ReaderInv
  <2>4. Results(r) = 1 .. s.seen
    BY <1>1, <1>3, <2>3 DEF DoneInv, Results
  <2>5. QED
    BY <2>3, <2>4
<1>4. MissesNothing
  <2>1. SUFFICES ASSUME NEW r \in Readers, NEW s, s = reader[r], s.pc = "done"
                 PROVE  /\ s.result # Nil => (Forwards(s) <=> ~Passes(s, s.result))
                        /\ \A m \in Results(r) :
                             IF Forwards(s) THEN Passes(s, m) \/ (s.result # Nil /\ ~Before(Entry(m), Entry(s.result)))
                             ELSE Passes(s, m) => s.result # Nil /\ ~Before(Entry(s.result), Entry(m))
    BY DEF MissesNothing
  <2>2. ReaderInv(s)
    BY <2>1 DEF ReadersInv
  <2>3. DoneInv(s) /\ Results(r) = 1 .. s.seen
    BY <1>3, <2>1, <2>2
  <2>4. QED
    BY <2>3 DEF DoneInv, Hit, Less
<1>5. GetRight
  <2>1. SUFFICES ASSUME NEW r \in Readers, NEW s, s = reader[r], s.pc = "done", s.mode = "ge", NEW vs,
                        vs = {n \in Results(r) : key[n] = s.target.key /\ n <= s.target.seq}
                 PROVE  IF vs = {} THEN s.result = Nil \/ key[s.result] # s.target.key
                        ELSE s.result = Max(vs)
    BY DEF GetRight
  <2>2. ReaderInv(s)
    BY <2>1 DEF ReadersInv
  <2>3. DoneInv(s) /\ Results(r) = 1 .. s.seen
    BY <1>3, <2>1, <2>2
  <2>4. PICK g \in Entries, n \in Nodes \cup {Nil} : g = s.target /\ n = s.result /\ g.seq = s.seen
    BY <2>1, <2>3 DEF DoneInv
  <2>5. g.key \in Int /\ g.seq \in Nat /\ g.seq <= last /\ Forwards(s)
    BY <2>1, <2>3, <2>4 DEF DoneInv, Entries, Forwards
  <2>6. \A m \in Nodes : Passes(s, m) <=> key[m] < g.key \/ (key[m] = g.key /\ m > g.seq)
    BY <1>1, <2>1, <2>4 DEF Passes, Before
  <2>7. n # Nil => n \in Nodes /\ n \in Nat /\ key[n] \in Int /\ ~Passes(s, n)
    BY <1>1, <2>3, <2>4, <2>5 DEF DoneInv, Hit
  <2>8. \A m \in 1 .. g.seq : m \in Nodes /\ (Passes(s, m) \/ (n # Nil /\ ~Less(m, n)))
    BY <1>1, <2>3, <2>4, <2>5 DEF DoneInv, Hit
  <2>9. vs = {m \in 1 .. g.seq : key[m] = g.key}
    BY <1>1, <2>1, <2>3, <2>4, <2>5
  <2>10. CASE vs = {}
    <3>1. ASSUME n # Nil, key[n] = g.key PROVE FALSE
      <4>1. n <= g.seq /\ n >= 1
        BY <1>1, <2>5, <2>6, <2>7, <3>1
      <4>2. n \in vs
        BY <2>5, <2>7, <2>9, <3>1, <4>1
      <4>3. QED
        BY <2>10, <4>2
    <3>2. QED
      BY <2>4, <2>10, <3>1
  <2>11. CASE vs # {}
    <3>1. ASSUME NEW v \in vs PROVE n # Nil /\ key[n] = g.key /\ n >= v /\ n <= g.seq
      <4>1. v \in 1 .. g.seq /\ key[v] = g.key /\ v \in Nodes /\ v \in Nat
        BY <1>1, <2>8, <2>9
      <4>2. n # Nil /\ ~Less(v, n)
        BY <2>5, <2>6, <2>8, <4>1
      <4>3. ~(key[v] < key[n]) /\ ~(key[v] = key[n] /\ v > n)
        BY <1>1, <2>7, <4>1, <4>2 DEF Less, Before
      <4>4. QED
        BY <2>5, <2>6, <2>7, <4>1, <4>2, <4>3
    <3>2. n \in vs /\ \A v \in vs : n >= v
      BY <2>5, <2>7, <2>9, <2>11, <3>1
    <3>3. \A x \in vs : (\A v \in vs : x >= v) => x = n
      BY <2>5, <2>9, <3>2
    <3>4. Max(vs) = n
      BY <3>2, <3>3 DEF Max
    <3>5. QED
      BY <2>4, <2>11, <3>4
  <2>12. QED
    BY <2>10, <2>11
<1>6. SearchesEnd
  <2>1. SUFFICES ASSUME NEW r \in Readers, NEW s, s = reader[r], s.pc = "search"
                 PROVE  s.loads < MaxHeight + Cardinality(Nodes)
    BY DEF SearchesEnd
  <2>2. SearchInv(s)
    <3>1. ReaderInv(s) /\ s # Ready
      BY <2>1 DEF ReadersInv, Ready
    <3>2. ~DoneInv(s)
      BY <2>1 DEF DoneInv
    <3>3. QED
      BY <3>1, <3>2 DEF ReaderInv
  <2>3. PICK x, l : x = s.x /\ l = s.level
    OBVIOUS
  <2>4. l \in DOMAIN next[x] /\ x \in DOMAIN next
    BY <2>2, <2>3, LinkedAt DEF SearchInv
  <2>5. l \in Nat /\ l >= 1 /\ s.loads \in Nat /\ MaxHeight \in Nat
    BY <1>1, <2>2, <2>3, <2>4, ParametersAssumption DEF SearchInv, Searches, ListTyped
  <2>6. Cardinality(Behind(x)) <= Cardinality(Nodes) /\ Cardinality(Behind(x)) \in Nat /\ Cardinality(Nodes) \in Nat
    BY <1>1, BehindFinite
  <2>7. s.loads + l <= MaxHeight + Cardinality(Behind(x))
    BY <2>2, <2>3 DEF SearchInv
  <2>8. QED
    BY <2>5, <2>6, <2>7
<1>7. QED
  BY <1>2, <1>4, <1>5, <1>6

-----------------------------------------------------------------------------
(* Memory that is handed out.                                              *)
Pieces == [block : Nat, from : Nat, to : Nat]

(* Pieces are in the blocks there are, apart from each other, and those in *)
(* the current block are before what is left of it.                        *)
ArenaOK(a) ==
  /\ a \in [blocks : Nat, current : Nat, at : Nat, remaining : Nat, used : SUBSET Pieces]
  /\ a.current <= a.blocks
  /\ IF a.current = 0 THEN a.remaining = 0 ELSE a.at + a.remaining = BlockSize
  /\ IsFiniteSet(a.used)
  /\ \A u \in a.used : /\ 1 <= u.block /\ u.block <= a.blocks /\ u.from < u.to
                       /\ u.block = a.current => u.to <= a.at
  /\ \A u, v \in a.used : u = v \/ u.block # v.block \/ u.to <= v.from \/ v.to <= u.from

(* A piece handed out is apart from all others.                            *)
LEMMA Bumped ==
  ASSUME NEW a, ArenaOK(a), NEW slop \in Nat, NEW bytes \in Nat \ {0}, NEW b, b = Bump(a, slop, bytes)
  PROVE  ArenaOK(b) /\ Cardinality(b.used) = Cardinality(a.used) + 1 /\ Cardinality(a.used) \in Nat
<1>1. PICK B \in Nat, C \in Nat, A \in Nat, R \in Nat, U \in SUBSET Pieces :
        a = [blocks |-> B, current |-> C, at |-> A, remaining |-> R, used |-> U]
  BY DEF ArenaOK
<1>2. /\ C <= B /\ (IF C = 0 THEN R = 0 ELSE A + R = BlockSize) /\ IsFiniteSet(U)
      /\ \A u \in U : /\ u.block \in Nat /\ u.from \in Nat /\ u.to \in Nat
                      /\ 1 <= u.block /\ u.block <= B /\ u.from < u.to
                      /\ u.block = C => u.to <= A
      /\ \A u, v \in U : u = v \/ u.block # v.block \/ u.to <= v.from \/ v.to <= u.from
  BY <1>1 DEF ArenaOK, Pieces
<1>3. PICK n, c, f, t, r, w :
        /\ b = [blocks |-> n, current |-> c, at |-> t, remaining |-> r, used |-> U \cup {w}]
        /\ w = [block |-> f.block, from |-> f.from, to |-> f.from + bytes]
        /\ \/ slop + bytes <= R /\ n = B /\ c = C /\ t = A + slop + bytes /\ r = R - slop - bytes
              /\ f.block = C /\ f.from = A + slop
           \/ bytes > BlockSize \div 4 /\ n = B + 1 /\ c = C /\ t = A /\ r = R /\ f.block = B + 1 /\ f.from = 0
           \/ ~(bytes > BlockSize \div 4) /\ n = B + 1 /\ c = B + 1 /\ t = bytes /\ r = BlockSize - bytes
              /\ f.block = B + 1 /\ f.from = 0
  <2>1. CASE slop + bytes <= R
    <3>1. b = [blocks |-> B, current |-> C, at |-> A + slop + bytes, remaining |-> R - slop - bytes,
               used |-> U \cup {[block |-> C, from |-> A + slop, to |-> A + slop + bytes]}]
      BY <1>1, <2>1 DEF Bump, Hand
    <3>2. PICK f : f = [block |-> C, from |-> A + slop]
      OBVIOUS
    <3>3. f.block = C /\ f.from = A + slop
      BY <3>2
    <3>4. QED
      BY <2>1, <3>1, <3>3
  <2>2. CASE ~(slop + bytes <= R) /\ bytes > BlockSize \div 4
    <3>1. b = [blocks |-> B + 1, current |-> C, at |-> A, remaining |-> R,
               used |-> U \cup {[block |-> B + 1, from |-> 0, to |-> 0 + bytes]}]
      BY <1>1, <2>2 DEF Bump, Hand, AllocateFallback
    <3>2. PICK f : f = [block |-> B + 1, from |-> 0]
      OBVIOUS
    <3>3. f.block = B + 1 /\ f.from = 0
      BY <3>2
    <3>4. QED
      BY <2>2, <3>1, <3>3
  <2>3. CASE ~(slop + bytes <= R) /\ ~(bytes > BlockSize \div 4)
    <3>1. b = [blocks |-> B + 1, current |-> B + 1, at |-> bytes, remaining |-> BlockSize - bytes,
               used |-> U \cup {[block |-> B + 1, from |-> 0, to |-> 0 + bytes]}]
      BY <1>1, <2>3 DEF Bump, Hand, AllocateFallback
    <3>2. PICK f : f = [block |-> B + 1, from |-> 0]
      OBVIOUS
    <3>3. f.block = B + 1 /\ f.from = 0
      BY <3>2
    <3>4. QED
      BY <2>3, <3>1, <3>3
  <2>4. QED
    BY <2>1, <2>2, <2>3
<1>4. BlockSize \in Nat /\ (~(bytes > BlockSize \div 4) => bytes <= BlockSize)
  BY ParametersAssumption
<1>5. /\ n \in Nat /\ c \in Nat /\ t \in Nat /\ r \in Nat /\ f.block \in Nat /\ f.from \in Nat
      /\ B <= n /\ c <= n /\ (IF c = 0 THEN r = 0 ELSE t + r = BlockSize)
      /\ 1 <= f.block /\ f.block <= n
      /\ f.block = c => f.from + bytes <= t
      /\ (c = C /\ A <= t) \/ (c = n /\ n = B + 1)
      /\ (f.block = n /\ n = B + 1) \/ (f.block = C /\ A <= f.from)
  <2>1. /\ B \in Nat /\ C \in Nat /\ A \in Nat /\ R \in Nat /\ slop \in Nat /\ bytes \in Nat /\ bytes > 0
        /\ C <= B /\ (IF C = 0 THEN R = 0 ELSE A + R = BlockSize)
    BY <1>2
  <2>2. CASE slop + bytes <= R /\ n = B /\ c = C /\ t = A + slop + bytes /\ r = R - slop - bytes
              /\ f.block = C /\ f.from = A + slop
    BY <2>1, <2>2
  <2>3. CASE bytes > BlockSize \div 4 /\ n = B + 1 /\ c = C /\ t = A /\ r = R /\ f.block = B + 1 /\ f.from = 0
    BY <2>1, <2>3
  <2>4. CASE ~(bytes > BlockSize \div 4) /\ n = B + 1 /\ c = B + 1 /\ t = bytes /\ r = BlockSize - bytes
              /\ f.block = B + 1 /\ f.from = 0
    BY <1>4, <2>1, <2>4
  <2>5. QED
    BY <1>3, <2>2, <2>3, <2>4
<1>6. /\ w.block = f.block /\ w.from = f.from /\ w.to = f.from + bytes /\ w.from < w.to /\ w \in Pieces
  BY <1>3, <1>5 DEF Pieces
<1>7. \A u \in U : u.block # w.block \/ u.to <= w.from
  BY <1>2, <1>5, <1>6
<1>8. w \notin U
  BY <1>2, <1>5, <1>6, <1>7
<1>9. IsFiniteSet(U \cup {w}) /\ Cardinality(U \cup {w}) = Cardinality(U) + 1 /\ Cardinality(U) \in Nat
  BY <1>2, <1>8, FS_AddElement, FS_CardinalityType
<1>10. \A u \in U \cup {w} : /\ 1 <= u.block /\ u.block <= n /\ u.from < u.to
                             /\ u.block = c => u.to <= t
  BY <1>2, <1>5, <1>6
<1>11. \A u, v \in U \cup {w} : u = v \/ u.block # v.block \/ u.to <= v.from \/ v.to <= u.from
  BY <1>2, <1>7
<1>12. /\ b.blocks = n /\ b.current = c /\ b.at = t /\ b.remaining = r /\ b.used = U \cup {w} /\ a.used = U
       /\ b \in [blocks : Nat, current : Nat, at : Nat, remaining : Nat, used : SUBSET Pieces]
  BY <1>1, <1>3, <1>5, <1>6
<1>13. QED
  BY <1>5, <1>9, <1>10, <1>11, <1>12 DEF ArenaOK

(* What alignment adds is not negative, and a node is not empty.           *)
LEMMA Aligned ==
  ASSUME NEW at \in Nat, NEW height \in 1 .. MaxHeight
  PROVE  (Align - (at % Align)) % Align \in Nat /\ NodeSize(height) \in Nat \ {0}
<1>1. Align \in Nat /\ Align > 0 /\ at % Align \in Int
  BY ParametersAssumption
<1>2. (Align - (at % Align)) % Align \in Nat
  BY <1>1
<1>3. NodeSize(height) = Align + Align * height /\ Align * height \in Nat
  BY <1>1, ParametersAssumption DEF NodeSize
<1>4. QED
  BY <1>1, <1>2, <1>3

(* The invariant of the arena: a piece for the head, two for each entry.   *)
ArenaInv == /\ ArenaOK(arena)
            /\ Cardinality(arena.used) = 1 + 2 * Cardinality(Nodes)

(* The list's head is the first piece.                                     *)
LEMMA InitArena ==
  ASSUME Init
  PROVE  ArenaInv
<1>1. PICK a : a = NewArena
  OBVIOUS
<1>2. ArenaOK(a) /\ a.at = 0 /\ a.used = {}
  BY <1>1, FS_EmptySet, ParametersAssumption DEF NewArena, ArenaOK
<1>3. Cardinality(a.used) = 0 /\ Cardinality(Nodes) = 0
  BY <1>2, FS_EmptySet DEF Init, Nodes
<1>4. PICK slop, bytes : slop = (Align - (a.at % Align)) % Align /\ bytes = NodeSize(MaxHeight)
  OBVIOUS
<1>5. slop \in Nat /\ bytes \in Nat \ {0}
  <2>1. MaxHeight \in 1 .. MaxHeight /\ a.at \in Nat
    BY <1>2, ParametersAssumption
  <2>2. QED
    BY <1>4, <2>1, Aligned
<1>6. PICK b : b = arena /\ b = Bump(a, slop, bytes)
  BY <1>1, <1>4 DEF Init, AllocateAligned
<1>7. ArenaOK(b) /\ Cardinality(b.used) = Cardinality(a.used) + 1
  <2>1. ArenaOK(a)
    BY <1>2
  <2>2. b = Bump(a, slop, bytes)
    BY <1>6
  <2>3. QED
    BY <1>5, <2>1, <2>2, Bumped
<1>8. QED
  BY <1>3, <1>6, <1>7 DEF ArenaInv

(* An insertion takes two, one of the entry and one of its node.           *)
LEMMA AddKeepsArena ==
  ASSUME ListInv, ArenaInv, NEW k \in 1 .. MaxKey, NEW size \in EntrySizes,
         NEW height \in 1 .. MaxHeight, Add(k, size, height)
  PROVE  ArenaInv'
<1>1. PICK a, b, c : a = arena /\ b = Allocate(a, size) /\ c = AllocateAligned(b, NodeSize(height))
  OBVIOUS
<1>2. arena' = c
  BY <1>1 DEF Add
<1>3. ArenaOK(a) /\ 0 \in Nat /\ size \in Nat \ {0}
  BY <1>1, ParametersAssumption DEF ArenaInv
<1>4. ArenaOK(b) /\ Cardinality(b.used) = Cardinality(a.used) + 1 /\ Cardinality(a.used) \in Nat
  BY <1>1, <1>3, Bumped DEF Allocate
<1>5. PICK slop, bytes : slop = (Align - (b.at % Align)) % Align /\ bytes = NodeSize(height)
  OBVIOUS
<1>6. slop \in Nat /\ bytes \in Nat \ {0}
  <2>1. b.at \in Nat
    BY <1>4 DEF ArenaOK
  <2>2. QED
    BY <1>5, <2>1, Aligned
<1>7. c = Bump(b, slop, bytes)
  BY <1>1, <1>5 DEF AllocateAligned
<1>8. ArenaOK(c) /\ Cardinality(c.used) = Cardinality(b.used) + 1
  BY <1>4, <1>6, <1>7, Bumped
<1>9. Cardinality(Nodes) = last /\ last \in Nat /\ Cardinality(Nodes') = last + 1
  <2>1. Cardinality(Nodes) = last /\ last \in Nat /\ insert = Resting /\ ListTyped
    BY DEF Add, ListInv, ListTyped
  <2>2. Nodes' = 1 .. last + 1
    BY <2>1, AddShape
  <2>3. Cardinality(1 .. last + 1) = last + 1
    BY <2>1, FS_Interval
  <2>4. QED
    BY <2>1, <2>2, <2>3
<1>10. ArenaOK(arena)'
  BY <1>2, <1>8 DEF ArenaOK
<1>11. Cardinality(a.used) = 1 + 2 * last
  BY <1>1, <1>9 DEF ArenaInv
<1>12. Cardinality(c.used) = 1 + 2 * (last + 1)
  BY <1>4, <1>8, <1>9, <1>11
<1>13. QED
  BY <1>2, <1>9, <1>10, <1>12 DEF ArenaInv

(* Nothing else takes memory.                                              *)
LEMMA StepKeepsArena ==
  ASSUME ListInv, ArenaInv, [Next]_vars
  PROVE  ArenaInv'
<1>1. ASSUME UNCHANGED <<arena, key>> PROVE ArenaInv'
  BY <1>1 DEF ArenaInv, ArenaOK, Nodes
<1>2. CASE Link \/ Publish \/ UNCHANGED vars
  <2>1. UNCHANGED key /\ (arena' = arena)
    BY <1>2 DEF Link, Publish, vars
  <2>2. QED
    BY <1>1, <2>1
<1>3. ASSUME NEW r \in Readers,
             \/ \E k \in 1 .. MaxKey : Seek(r, k)
             \/ SeekToLast(r) \/ Back(r) \/ Step(r) \/ SeekToFirst(r) \/ Forward(r)
      PROVE  ArenaInv'
  <2>1. UNCHANGED key /\ (arena' = arena)
    BY <1>3 DEF Seek, SeekToLast, Back, Step, SeekToFirst, Forward, Search, Follow
  <2>2. QED
    BY <1>1, <2>1
<1>4. QED
  BY <1>2, <1>3, AddKeepsArena DEF Next

(* MemorySafe follows.                                                     *)
LEMMA ArenaSafe ==
  ASSUME ArenaInv
  PROVE  MemorySafe
<1>1. PICK a : a = arena /\ ArenaOK(a)
  BY DEF ArenaInv
<1>2. \A u, v \in a.used : u = v \/ u.block # v.block \/ u.to <= v.from \/ v.to <= u.from
  BY <1>1 DEF ArenaOK
<1>3. \A u \in a.used : u.block # a.current \/ (u.to <= a.at /\ a.at + a.remaining = BlockSize)
  BY <1>1 DEF ArenaOK, Pieces
<1>4. a.remaining >= 0
  BY <1>1 DEF ArenaOK
<1>5. QED
  BY <1>1, <1>2, <1>3, <1>4 DEF MemorySafe, ArenaInv

-----------------------------------------------------------------------------
(* The inductive invariant.                                                *)
MemInv == ListInv /\ ReadersInv /\ ArenaInv

(* The invariant holds in every state: the list is in order at each level  *)
(* while a node is linked, each reader is where it has passed what is      *)
(* behind it, and the arena's pieces are apart.                            *)
THEOREM MemInvariant ==
  Spec => []MemInv
<1>1. Init => MemInv
  <2>1. SUFFICES ASSUME Init PROVE MemInv
    OBVIOUS
  <2>2. ListInv /\ ArenaInv
    BY <2>1, InitList, InitArena
  <2>3. ReadersInv
    BY <2>1 DEF Init, ReadersInv, ReaderInv
  <2>4. QED
    BY <2>2, <2>3 DEF MemInv
<1>2. MemInv /\ [Next]_vars => MemInv'
  <2>1. SUFFICES ASSUME MemInv, [Next]_vars PROVE MemInv'
    OBVIOUS
  <2>2. ListInv /\ ReadersInv /\ ArenaInv
    BY <2>1 DEF MemInv
  <2>3. QED
    BY <2>1, <2>2, StepSound, StepKeepsArena DEF MemInv
<1>3. QED
  BY <1>1, <1>2, PTL DEF Spec

(* The memtable is right for every number of writes, readers and levels: a *)
(* reader without a lock misses nothing that was visible when it began and *)
(* finds the newest version of a key, each level is in order at every      *)
(* moment of an insertion, a search loads at most as many links as there   *)
(* are levels and nodes, and no two pieces of the arena overlap (SkipList, *)
(* MemTable::Get, Arena).                                                  *)
THEOREM MemtableIsRight ==
  Spec => []MemtableRight
<1>1. MemInv => MemtableRight
  BY ListNested, ReadersRight, ArenaSafe DEF MemInv, MemtableRight
<1>2. QED
  BY <1>1, MemInvariant, PTL
=============================================================================
