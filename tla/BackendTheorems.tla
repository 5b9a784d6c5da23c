--------------------------- MODULE BackendTheorems ---------------------------
(* Facts about a client's queue and what the client reads, for any queue   *)
(* and any set of paths.                                                   *)
EXTENDS Backend, TLAPS

(* Issuing writes appends them: a position of the longer queue is one of   *)
(* the old queue or one of the new writes.                                 *)
LEMMA AppendPositions ==
  ASSUME NEW S, NEW q \in Seq(S), NEW ws \in Seq(S)
  PROVE  /\ q \o ws \in Seq(S)
         /\ DOMAIN (q \o ws) = 1 .. (Len(q) + Len(ws))
         /\ \A i \in DOMAIN q : (q \o ws)[i] = q[i]
         /\ \A i \in DOMAIN ws : (q \o ws)[Len(q) + i] = ws[i]
         /\ \A i \in DOMAIN (q \o ws) :
              \/ i \in DOMAIN q
              \/ \E j \in DOMAIN ws : i = Len(q) + j
<1>1. /\ q \o ws \in Seq(S)
      /\ Len(q \o ws) = Len(q) + Len(ws)
      /\ DOMAIN (q \o ws) = 1 .. (Len(q) + Len(ws))
  OBVIOUS
<1>2. \A i \in DOMAIN q : (q \o ws)[i] = q[i]
  OBVIOUS
<1>3. \A i \in DOMAIN ws : (q \o ws)[Len(q) + i] = ws[i]
  OBVIOUS
<1>4. ASSUME NEW i \in DOMAIN (q \o ws), i \notin DOMAIN q
      PROVE  \E j \in DOMAIN ws : i = Len(q) + j
  <2>1. i - Len(q) \in DOMAIN ws /\ i = Len(q) + (i - Len(q))
    BY <1>1, <1>4
  <2>2. QED
    BY <2>1
<1>5. QED
  BY <1>1, <1>2, <1>3, <1>4

(* Delivering the oldest write shifts the others by one position.          *)
LEMMA TailPositions ==
  ASSUME NEW S, NEW q \in Seq(S), q # <<>>
  PROVE  /\ Head(q) = q[1] /\ 1 \in DOMAIN q
         /\ Tail(q) \in Seq(S)
         /\ \A i \in DOMAIN Tail(q) : i + 1 \in DOMAIN q /\ Tail(q)[i] = q[i + 1]
         /\ \A i \in DOMAIN q : i = 1 \/ (i - 1 \in DOMAIN Tail(q) /\ Tail(q)[i - 1] = q[i])
  OBVIOUS

LEMMA MentionsAppend ==
  ASSUME NEW P, NEW q \in Seq(Writes(P)), NEW ws \in Seq(Writes(P)), NEW path
  PROVE  Mentions(q \o ws, path) <=> Mentions(q, path) \/ Mentions(ws, path)
<1>1. ASSUME NEW i \in DOMAIN q, q[i].path = path
      PROVE  Mentions(q \o ws, path)
  BY <1>1, AppendPositions DEF Mentions
<1>2. ASSUME NEW i \in DOMAIN ws, ws[i].path = path
      PROVE  Mentions(q \o ws, path)
  <2>1. Len(q) + i \in DOMAIN (q \o ws) /\ (q \o ws)[Len(q) + i] = ws[i]
    BY AppendPositions
  <2>2. QED
    BY <1>2, <2>1 DEF Mentions
<1>3. ASSUME NEW i \in DOMAIN (q \o ws), (q \o ws)[i].path = path
      PROVE  Mentions(q, path) \/ Mentions(ws, path)
  BY <1>3, AppendPositions DEF Mentions
<1>4. QED
  BY <1>1, <1>2, <1>3 DEF Mentions

LEMMA LastSetsAppend ==
  ASSUME NEW P, NEW q \in Seq(Writes(P)), NEW ws \in Seq(Writes(P)), NEW path
  PROVE  LastSets(q \o ws, path)
           <=> LastSets(ws, path) \/ (~Mentions(ws, path) /\ LastSets(q, path))
<1>1. ASSUME LastSets(ws, path)
      PROVE  LastSets(q \o ws, path)
  <2>1. PICK i \in DOMAIN ws : /\ ws[i] = SetValue(path)
                               /\ \A j \in DOMAIN ws : j > i => ws[j].path # path
    BY <1>1 DEF LastSets
  <2>2. /\ Len(q) + i \in DOMAIN (q \o ws)
        /\ (q \o ws)[Len(q) + i] = SetValue(path)
    BY <2>1, AppendPositions
  <2>3. ASSUME NEW k \in DOMAIN (q \o ws), k > Len(q) + i
        PROVE  (q \o ws)[k].path # path
    <3>1. k \notin DOMAIN q
      BY <2>3
    <3>2. PICK j \in DOMAIN ws : k = Len(q) + j
      BY <3>1, AppendPositions
    <3>3. j > i /\ (q \o ws)[k] = ws[j]
      BY <2>3, <3>2, AppendPositions
    <3>4. QED
      BY <2>1, <3>3
  <2>4. QED
    BY <2>2, <2>3 DEF LastSets
<1>2. ASSUME ~Mentions(ws, path), LastSets(q, path)
      PROVE  LastSets(q \o ws, path)
  <2>1. PICK i \in DOMAIN q : /\ q[i] = SetValue(path)
                              /\ \A j \in DOMAIN q : j > i => q[j].path # path
    BY <1>2 DEF LastSets
  <2>2. i \in DOMAIN (q \o ws) /\ (q \o ws)[i] = SetValue(path)
    BY <2>1, AppendPositions
  <2>3. ASSUME NEW k \in DOMAIN (q \o ws), k > i
        PROVE  (q \o ws)[k].path # path
    BY <2>1, <2>3, <1>2, AppendPositions DEF Mentions
  <2>4. QED
    BY <2>2, <2>3 DEF LastSets
<1>3. ASSUME LastSets(q \o ws, path)
      PROVE  LastSets(ws, path) \/ (~Mentions(ws, path) /\ LastSets(q, path))
  <2>1. PICK k \in DOMAIN (q \o ws) :
               /\ (q \o ws)[k] = SetValue(path)
               /\ \A m \in DOMAIN (q \o ws) : m > k => (q \o ws)[m].path # path
    BY <1>3 DEF LastSets
  <2>2. CASE k \in DOMAIN q
    <3>1. ASSUME NEW j \in DOMAIN ws PROVE ws[j].path # path
      <4>1. Len(q) + j \in DOMAIN (q \o ws) /\ Len(q) + j > k
        BY <2>2, AppendPositions
      <4>2. QED
        BY <2>1, <4>1, AppendPositions
    <3>2. ASSUME NEW j \in DOMAIN q, j > k PROVE q[j].path # path
      BY <2>1, <3>2, AppendPositions
    <3>3. q[k] = SetValue(path)
      BY <2>1, <2>2, AppendPositions
    <3>4. QED
      BY <2>2, <3>1, <3>2, <3>3 DEF LastSets, Mentions
  <2>3. CASE k \notin DOMAIN q
    <3>1. PICK i \in DOMAIN ws : k = Len(q) + i
      BY <2>3, AppendPositions
    <3>2. ws[i] = SetValue(path)
      BY <2>1, <3>1, AppendPositions
    <3>3. ASSUME NEW j \in DOMAIN ws, j > i PROVE ws[j].path # path
      <4>1. Len(q) + j \in DOMAIN (q \o ws) /\ Len(q) + j > k
        BY <3>1, <3>3, AppendPositions
      <4>2. QED
        BY <2>1, <4>1, AppendPositions
    <3>4. QED
      BY <3>2, <3>3 DEF LastSets
  <2>4. QED
    BY <2>2, <2>3
<1>4. QED
  BY <1>1, <1>2, <1>3

(* A client at once reads what it has just written, and its other reads    *)
(* are not changed by it.                                                  *)
LEMMA SeesAppend ==
  ASSUME NEW P, NEW db, NEW q \in Seq(Writes(P)), NEW ws \in Seq(Writes(P)), NEW path
  PROVE  Sees(db, q \o ws, path)
           <=> LastSets(ws, path) \/ (~Mentions(ws, path) /\ Sees(db, q, path))
<1>1. LastSets(ws, path) => Mentions(ws, path)
  BY DEF LastSets, Mentions, SetValue
<1>2. QED
  BY <1>1, MentionsAppend, LastSetsAppend DEF Sees

(* The arrival of a client's own write is invisible to that client.        *)
LEMMA SeesDeliver ==
  ASSUME NEW P, NEW db, NEW q \in Seq(Writes(P)), q # <<>>, NEW path
  PROVE  Sees(Apply(db, Head(q)), Tail(q), path) <=> Sees(db, q, path)
<1> DEFINE t == Tail(q)
<1>0. /\ 1 \in DOMAIN q
      /\ \A i \in DOMAIN q : i \in Nat /\ i > 0
      /\ \A i \in DOMAIN t : i \in Nat /\ i > 0
      /\ \A i \in DOMAIN t : i + 1 \in DOMAIN q /\ t[i] = q[i + 1]
      /\ \A i \in DOMAIN q : i = 1 \/ (i - 1 \in DOMAIN t /\ t[i - 1] = q[i])
  BY TailPositions
<1> HIDE DEF t
<1>1. Mentions(q, path) <=> q[1].path = path \/ Mentions(t, path)
  <2>1. Mentions(q, path) => q[1].path = path \/ Mentions(t, path)
    BY <1>0 DEF Mentions
  <2>2. Mentions(t, path) => Mentions(q, path)
    BY <1>0 DEF Mentions
  <2>3. q[1].path = path => Mentions(q, path)
    BY <1>0 DEF Mentions
  <2>4. QED
    BY <2>1, <2>2, <2>3
<1>2. LastSets(t, path) => LastSets(q, path)
  <2>1. ASSUME NEW i \in DOMAIN t, t[i] = SetValue(path),
               \A j \in DOMAIN t : j > i => t[j].path # path
        PROVE  LastSets(q, path)
    <3>1. i + 1 \in DOMAIN q /\ q[i + 1] = SetValue(path)
      BY <2>1, <1>0
    <3>2. ASSUME NEW j \in DOMAIN q, j > i + 1 PROVE q[j].path # path
      <4>1. j # 1 /\ j - 1 > i
        BY <3>2, <1>0
      <4>2. j - 1 \in DOMAIN t /\ t[j - 1] = q[j]
        BY <4>1, <1>0
      <4>3. QED
        BY <2>1, <4>1, <4>2
    <3>3. QED
      BY <3>1, <3>2 DEF LastSets
  <2>2. QED
    BY <2>1 DEF LastSets
<1>3. ASSUME LastSets(q, path), Mentions(t, path)
      PROVE  LastSets(t, path)
  <2>1. PICK i \in DOMAIN q : /\ q[i] = SetValue(path)
                              /\ \A j \in DOMAIN q : j > i => q[j].path # path
    BY <1>3 DEF LastSets
  <2>2. PICK m \in DOMAIN t : t[m].path = path
    BY <1>3 DEF Mentions
  <2>3. m + 1 \in DOMAIN q /\ q[m + 1].path = path /\ m >= 1
    BY <2>2, <1>0
  <2>4. i # 1
    BY <2>1, <2>3, <1>0
  <2>5. i - 1 \in DOMAIN t /\ t[i - 1] = SetValue(path)
    BY <2>1, <2>4, <1>0
  <2>6. ASSUME NEW j \in DOMAIN t, j > i - 1 PROVE t[j].path # path
    <3>1. j + 1 \in DOMAIN q /\ j + 1 > i /\ t[j] = q[j + 1]
      BY <2>6, <1>0
    <3>2. QED
      BY <2>1, <3>1
  <2>7. QED
    BY <2>5, <2>6 DEF LastSets
<1>4. ASSUME ~Mentions(t, path)
      PROVE  LastSets(q, path) <=> q[1] = SetValue(path)
  <2>1. ASSUME q[1] = SetValue(path) PROVE LastSets(q, path)
    <3>1. ASSUME NEW j \in DOMAIN q, j > 1 PROVE q[j].path # path
      <4>1. j - 1 \in DOMAIN t /\ t[j - 1] = q[j]
        BY <3>1, <1>0
      <4>2. QED
        BY <1>4, <4>1 DEF Mentions
    <3>2. QED
      BY <2>1, <3>1, <1>0 DEF LastSets
  <2>2. ASSUME NEW i \in DOMAIN q, q[i] = SetValue(path) PROVE q[1] = SetValue(path)
    <3>1. q[i].path = path
      BY <2>2 DEF SetValue
    <3>2. QED
      BY <1>4, <2>2, <3>1, <1>0 DEF Mentions
  <2>3. QED
    BY <2>1, <2>2 DEF LastSets
<1>5. LastSets(t, path) => Mentions(t, path)
  BY DEF LastSets, Mentions, SetValue
<1>6. q[1] \in Writes(P) /\ Head(q) = q[1]
  BY TailPositions
<1>7. CASE Mentions(t, path)
  BY <1>1, <1>2, <1>3, <1>7 DEF Sees, t
<1>8. CASE ~Mentions(t, path)
  <2>1. q[1].path = path => (q[1].to <=> q[1] = SetValue(path))
    <3>1. q[1].to \in BOOLEAN /\ q[1] = [path |-> q[1].path, to |-> q[1].to]
      BY <1>6 DEF Writes
    <3>2. SetValue(path).to = TRUE
      BY DEF SetValue
    <3>3. CASE q[1].to = TRUE
      BY <3>1, <3>3 DEF SetValue
    <3>4. CASE q[1].to = FALSE
      BY <3>2, <3>4
    <3>5. QED
      BY <3>1, <3>3, <3>4
  <2>2. q[1].path # path => q[1] # SetValue(path)
    BY DEF SetValue
  <2>3. path \in Apply(db, q[1]) <=> IF q[1].path = path THEN q[1].to ELSE path \in db
    BY <1>6 DEF Apply, Writes
  <2>4. QED
    BY <1>1, <1>4, <1>5, <1>6, <1>8, <2>1, <2>2, <2>3 DEF Sees, t
<1>9. QED
  BY <1>7, <1>8

(* Short queues, written out.                                              *)
LEMMA TwoWrites ==
  ASSUME NEW P, NEW v \in Writes(P), NEW w \in Writes(P), NEW path
  PROVE  /\ <<v, w>> \in Seq(Writes(P)) /\ DOMAIN <<v, w>> = 1 .. 2
         /\ Mentions(<<v, w>>, path) <=> v.path = path \/ w.path = path
         /\ LastSets(<<v, w>>, path)
              <=> \/ w = SetValue(path)
                  \/ v = SetValue(path) /\ w.path # path
  BY DEF Mentions, LastSets

LEMMA FourWrites ==
  ASSUME NEW P, NEW v \in Writes(P), NEW w \in Writes(P), NEW x \in Writes(P),
         NEW y \in Writes(P), NEW path
  PROVE  /\ <<v, w, x, y>> \in Seq(Writes(P)) /\ DOMAIN <<v, w, x, y>> = 1 .. 4
         /\ Mentions(<<v, w, x, y>>, path)
              <=> v.path = path \/ w.path = path \/ x.path = path \/ y.path = path
         /\ LastSets(<<v, w, x, y>>, path)
              <=> \/ y = SetValue(path)
                  \/ x = SetValue(path) /\ y.path # path
                  \/ w = SetValue(path) /\ x.path # path /\ y.path # path
                  \/ v = SetValue(path) /\ w.path # path /\ x.path # path /\ y.path # path
  BY DEF Mentions, LastSets
==============================================================================
