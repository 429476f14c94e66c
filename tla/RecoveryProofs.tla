--------------------------- MODULE RecoveryProofs ---------------------------
(***************************************************************************)
(* What holds of Recovery for every tree, every plan and any number of     *)
(* removals and restores.                                                  *)
(***************************************************************************)
EXTENDS Recovery, TLAPS, SequenceTheorems, FiniteSetTheorems

(* The records of the events a command will append, those in the log, and  *)
(* the items that the log, or a running restore, says are restored.        *)
BatchOf(c) == {batch[c][j].record : j \in DOMAIN batch[c]}
Logged == {log[j].record : j \in Trashings}
Known == Logged \cup UNION {BatchOf(o) : o \in Removals}
Restorings == {j \in DOMAIN log : log[j].action = "restored"}
Ended == {log[j].record.item : j \in Restorings}
Returned == {i \in Item : \E u \in Restores : \E r \in BatchOf(u) : r.item = i}
-----------------------------------------------------------------------------
(* The inductive invariant *)

Event == [action : {"trashed", "restored"}, record : Record]
Types ==
    /\ policy \in Policies /\ home \in [Node -> Kind \cup {None}]
    /\ trash \in [Item -> {None} \cup UNION {[part -> Kind \cup {None}] : part \in SUBSET Node}]
    /\ aside \subseteq Node /\ now \in Nat /\ log \in Seq(Event) /\ torn \in BOOLEAN
    /\ pc \in [Commands -> {"idle", "run", "done", "failed", "refused"}]
    /\ at \in [Removals -> Nat]
    /\ todo \in [Restores -> Seq(Record)]
    /\ batch \in [Commands -> Seq(Event)]
    /\ failed \subseteq Restores /\ hurt \subseteq failed
    /\ DOMAIN aim = Restores

(* An item is trashed and restored at most once, in this order. *)
LogOrder ==
    /\ \A j, h \in DOMAIN log :
          log[j].action = log[h].action /\ log[j].record.item = log[h].record.item => j = h
    /\ \A h \in Restorings : \E j \in Trashings : j < h /\ log[j].record = log[h].record

(* A restore runs alone.  The events a command will append, and after it   *)
(* those it could not: of a removal those of its own targets, which the    *)
(* log has nothing of; of a restore those of records that are active, each *)
(* brought back by one restore.                                            *)
Alone == \A u \in Restores, c \in Commands : Running(u) /\ Running(c) => c = u
Distinct ==
    \A c \in Commands : \A j, h \in DOMAIN batch[c] :
        batch[c][j].record.item = batch[c][h].record.item => j = h
OfOneRestore ==
    \A u, v \in Restores : \A r \in BatchOf(u), s \in BatchOf(v) : r.item = s.item => u = v
Batches ==
    /\ \A c \in Commands : pc[c] = "idle" => batch[c] = <<>>
    /\ Distinct /\ OfOneRestore
    /\ \A o \in Removals : \A j \in DOMAIN batch[o] :
          /\ batch[o][j].action = "trashed" /\ batch[o][j].record.item[1] = o
          /\ \A r \in Logged : r.item # batch[o][j].record.item
    /\ \A u \in Restores : \A j \in DOMAIN batch[u] :
          /\ batch[u][j].action = "restored" /\ batch[u][j].record \in Logged
          /\ batch[u][j].record.item \notin Ended

(* What is known of an item is one record, and the clock orders the        *)
(* records of an operation as its plan does.                               *)
Records ==
    /\ \A r \in Known : r.orig = Target(r.item) /\ r.time < now /\ r.item[2] <= at[r.item[1]]
    /\ \A r, s \in Known :
          /\ r.item = s.item \/ r.time = s.time => r = s
          /\ r.item[1] = s.item[1] /\ r.time < s.time => r.item[2] < s.item[2]
    /\ \A r \in Logged : pc[r.item[1]] \in {"done", "failed"}

(* An item is in the trash from its move until it is restored. *)
InTrash ==
    \A i \in Item :
        trash[i] # None <=> (\E r \in Known : r.item = i) /\ i \notin Ended \cup Returned

(* A restore has still to do what is in the log, in order.                 *)
Todos ==
    \A u \in Restores : Running(u) =>
        /\ \A j \in DOMAIN todo[u] : todo[u][j] \in Logged
        /\ \A j, h \in DOMAIN todo[u] : j < h => todo[u][j].time > todo[u][h].time

(* Below what exists and above it: at home, and in an item of the trash.   *)
HomeTree == \A n \in Node : home[n] # None => \A a \in Above[n] : home[a] \in {"own", "made"}
TrashTrees ==
    \A i \in Item : trash[i] # None =>
        /\ trash[i] \in [AtOrBelow(Target(i)) -> Kind \cup {None}]
        /\ trash[i][Target(i)] # None
        /\ \A n \in AtOrBelow(Target(i)) : trash[i][n] # None =>
              \A a \in Above[n] : a \in AtOrBelow(Target(i)) => trash[i][a] \in {"own", "made"}

(* While a removal runs nothing comes back to where its items were, and    *)
(* directories could be made above them.                                   *)
StaysClear ==
    \A o \in Removals : Running(o) =>
        \A r \in BatchOf(o) : home[r.orig] = None /\ ParentsMakeable(r.orig)

(* Two items of one operation: the later is not below the earlier, nor at  *)
(* its path, and where it is above it holds nothing that is in its way.    *)
Nested ==
    \A i, l \in Item : i[1] = l[1] /\ i[2] < l[2] /\ trash[i] # None /\ trash[l] # None =>
        /\ Target(l) \notin AtOrBelow(Target(i))
        /\ Target(i) \in AtOrBelow(Target(l)) =>
              /\ trash[l][Target(i)] = None
              /\ \A a \in Above[Target(i)] :
                    a \in AtOrBelow(Target(l)) => trash[l][a] \in {None, "own", "made"}

(* What the user had at a path is at one place: at home, aside, or in one  *)
(* item.                                                                   *)
Holding(n) == {i \in Item : trash[i] # None /\ n \in DOMAIN trash[i] /\ trash[i][n] = "own"}
OnePlace ==
    \A n \in Node :
        \/ home[n] = "own" /\ n \notin aside /\ Holding(n) = {}
        \/ home[n] # "own" /\ n \in aside /\ Holding(n) = {}
        \/ home[n] # "own" /\ n \notin aside /\ \E i \in Item : Holding(n) = {i}

(* A restore of an operation still has all of it to do that is in the      *)
(* trash, unless something of it failed, or was not written by the removal. *)
Whole ==
    \A u \in Restores : Running(u) /\ aim[u].operation # None /\ u \notin failed =>
        \A i \in Item : i[1] = aim[u].operation /\ trash[i] # None =>
            (\E j \in DOMAIN todo[u] : todo[u][j].item = i) \/ i \in UnwrittenBy(i[1])

(* A restore of one operation's items, with nothing in its way and nothing *)
(* that failed: what is to come has nothing in its way either, and what    *)
(* the items held is at home or still to come.                             *)
Undoing ==
    \A u \in Restores : Running(u) /\ aim[u].one /\ aim[u].clear /\ u \notin hurt =>
        /\ u \notin failed
        /\ \A j, h \in DOMAIN todo[u] : todo[u][j].item[1] = todo[u][h].item[1]
        /\ \A j \in DOMAIN todo[u] :
              /\ trash[todo[u][j].item] # None
              /\ home[todo[u][j].orig] = None /\ ParentsMakeable(todo[u][j].orig)
        /\ \A entry \in aim[u].held :
              /\ entry[1] \in Node /\ entry[2] # None
              /\ \/ home[entry[1]] = entry[2]
                 \/ \E j \in DOMAIN todo[u] :
                       entry[1] \in AtOrBelow(todo[u][j].orig) /\ trash[todo[u][j].item][entry[1]] = entry[2]

Inv ==
    /\ Types /\ LogOrder /\ Alone /\ Batches /\ Records /\ InTrash /\ Todos
    /\ HomeTree /\ TrashTrees /\ StaysClear /\ Nested /\ OnePlace
-----------------------------------------------------------------------------
(* Facts of the constants *)

LEMMA TreeFacts ==
  /\ Dir \subseteq Node /\ None \notin Kind
  /\ \A n \in Node :
        /\ Above[n] \subseteq Dir /\ n \notin Above[n]
        /\ \A a \in Above[n] : a \in Node /\ Above[a] \subseteq Above[n]
        /\ \A a, b \in Above[n] : a = b \/ a \in Above[b] \/ b \in Above[a]
        /\ AtOrBelow(n) \subseteq Node /\ n \in AtOrBelow(n)
  /\ \A part \in SUBSET Node : \A f \in [part -> Kind \cup {None}] : f # None
<1>1. \A n \in Node : Above[n] \subseteq Dir
  BY RecoveryAssumption
<1>2. \A part \in SUBSET Node : None \notin [part -> Kind \cup {None}]
  BY RecoveryAssumption
<1>3. \A part \in SUBSET Node : \A f \in [part -> Kind \cup {None}] : f # None
  BY <1>2
<1>4. \A n \in Node :
        /\ n \notin Above[n]
        /\ \A a \in Above[n] : Above[a] \subseteq Above[n]
        /\ \A a, b \in Above[n] : a = b \/ a \in Above[b] \/ b \in Above[a]
  BY RecoveryAssumption
<1>5. Dir \subseteq Node /\ None \notin Kind
  BY RecoveryAssumption
<1> QED
  BY <1>1, <1>3, <1>4, <1>5 DEF AtOrBelow

(* Two paths that a third is at or below are one below the other. *)
LEMMA Comparable ==
  ASSUME NEW a \in Node, NEW b \in Node, NEW n \in AtOrBelow(a), n \in AtOrBelow(b)
  PROVE  a \in AtOrBelow(b) \/ b \in AtOrBelow(a)
<1>1. n \in Node
  BY DEF AtOrBelow
<1>2. \A c, d \in Above[n] : c = d \/ c \in Above[d] \/ d \in Above[c]
  BY <1>1, TreeFacts
<1> QED
  BY <1>2 DEF AtOrBelow

LEMMA BelowIsTransitive ==
  ASSUME NEW a \in Node, NEW b \in AtOrBelow(a), NEW n \in AtOrBelow(b)
  PROVE  n \in AtOrBelow(a)
<1>1. n \in Node /\ b \in Node
  BY DEF AtOrBelow
<1>2. \A c \in Above[n] : Above[c] \subseteq Above[n]
  BY <1>1, TreeFacts
<1> QED
  BY <1>1, <1>2 DEF AtOrBelow

LEMMA ItemFacts ==
  /\ \A i \in Item : i[1] \in Removals /\ i[2] \in DOMAIN Plan[i[1]] /\ i[2] \in Nat /\ i = <<i[1], i[2]>>
                     /\ Target(i) \in Node
  /\ \A o \in Removals : \A j \in DOMAIN Plan[o] :
        <<o, j>> \in Item /\ <<o, j>>[1] = o /\ <<o, j>>[2] = j
  /\ \A o \in Removals : Plan[o] \in Seq(Node)
<1>1. \A o \in Removals : Plan[o] \in Seq(Node)
  BY RecoveryAssumption
<1>2. ASSUME NEW i \in Item
      PROVE  i[1] \in Removals /\ i[2] \in DOMAIN Plan[i[1]] /\ i[2] \in Nat /\ i = <<i[1], i[2]>>
                     /\ Target(i) \in Node
  <2>1. PICK o \in Removals : i \in {o} \X DOMAIN Plan[o]
    BY DEF Item
  <2>2. i[1] = o /\ i[2] \in DOMAIN Plan[o] /\ i = <<i[1], i[2]>>
    BY <2>1
  <2>3. DOMAIN Plan[o] = 1 .. Len(Plan[o]) /\ \A j \in 1 .. Len(Plan[o]) : Plan[o][j] \in Node
    BY <1>1
  <2> QED
    BY <2>2, <2>3 DEF Target
<1>3. \A o \in Removals : \A j \in DOMAIN Plan[o] :
        <<o, j>> \in Item /\ <<o, j>>[1] = o /\ <<o, j>>[2] = j
  BY DEF Item
<1> QED
  BY <1>1, <1>2, <1>3

LEMMA ItemsAreFinite == IsFiniteSet(Item)
<1> DEFINE f == [o \in Removals |-> {o} \X DOMAIN Plan[o]]
           S == {{o} \X DOMAIN Plan[o] : o \in Removals}
<1>1. f \in Surjection(Removals, S)
  BY DEF Surjection
<1>2. IsFiniteSet(S)
  BY <1>1, FS_Surjection, RecoveryAssumption
<1>3. ASSUME NEW o \in Removals PROVE IsFiniteSet({o} \X DOMAIN Plan[o])
  <2>1. DOMAIN Plan[o] = 1 .. Len(Plan[o]) /\ Len(Plan[o]) \in Nat
    BY ItemFacts
  <2>2. IsFiniteSet(1 .. Len(Plan[o])) /\ IsFiniteSet({o})
    <3>1. IsFiniteSet(1 .. Len(Plan[o]))
      BY <2>1, FS_Interval
    <3> QED
      BY <3>1, FS_Singleton
  <2> QED
    BY <2>1, <2>2, FS_Product
<1>4. \A T \in S : IsFiniteSet(T)
  BY <1>3
<1> QED
  BY <1>2, <1>4, FS_UNION DEF Item
-----------------------------------------------------------------------------
(* Newest first *)

Smaller == {p \in Nat \X Nat : p[1] < p[2]}

(* A set of numbers that is not empty has a least one. *)
LEMMA Least ==
  ASSUME NEW T, T \subseteq Nat, T # {}
  PROVE  \E n \in T : \A m \in T : n <= m
<1>1. IsWellFoundedOn(Smaller, Nat)
  BY NatLessThanWellFounded DEF OpToRel, Smaller
<1>2. PICK n \in T : \A m \in T : ~ (<<m, n>> \in Smaller)
  BY <1>1, WFMin
<1>3. ASSUME NEW m \in T PROVE n <= m
  <2>1. m \in Nat /\ n \in Nat /\ ~(<<m, n>> \in Smaller)
    BY <1>2
  <2>2. <<m, n>> \in Nat \X Nat /\ <<m, n>>[1] = m /\ <<m, n>>[2] = n
    BY <2>1
  <2>3. ~(m < n)
    BY <2>1, <2>2 DEF Smaller
  <2> QED
    BY <2>1, <2>3
<1> QED
  BY <1>3

IsSorted(rs) == \A j, l \in DOMAIN rs : j < l => rs[j].time > rs[l].time

LEMMA SortExists ==
  ASSUME NEW S, IsFiniteSet(S), \A r \in S : r.time \in Nat, \A r, s \in S : r.time = s.time => r = s
  PROVE  \E rs \in Sequences(S) : IsSorted(rs)
<1> DEFINE Bad == {n \in Nat : \E T \in SUBSET S : Cardinality(T) = n /\ \A rs \in Sequences(T) : ~IsSorted(rs)}
<1>1. ASSUME Bad # {} PROVE FALSE
  <2>1. Bad \subseteq Nat
    OBVIOUS
  <2>2. PICK n \in Bad : \A m \in Bad : n <= m
    BY <1>1, <2>1, Least
  <2>3. PICK T \in SUBSET S : Cardinality(T) = n /\ \A rs \in Sequences(T) : ~IsSorted(rs)
    BY <2>2
  <2>4. IsFiniteSet(T) /\ n \in Nat
    BY <2>2, FS_Subset
  <2>5. n # 0
    <3>1. ASSUME n = 0 PROVE FALSE
      <4> DEFINE e == [j \in 1 .. 0 |-> 0]
      <4>1. e \in [1 .. 0 -> T] /\ \A j \in DOMAIN e : FALSE
        OBVIOUS
      <4>2. e \in Sequences(T) /\ IsSorted(e)
        BY <2>3, <3>1, <4>1 DEF Sequences, IsSorted
      <4> QED
        BY <2>3, <4>2
    <3> QED
      BY <3>1
  <2>6. T # {}
    BY <2>3, <2>4, <2>5, FS_EmptySet
  <2> DEFINE times == {r.time : r \in T}
  <2>7. times \subseteq Nat /\ times # {}
    BY <2>6
  <2>8. PICK time \in times : \A m \in times : time <= m
    BY <2>7, Least
  <2>9. PICK last \in T : last.time = time
    BY <2>8
  <2>10. ASSUME NEW r \in T \ {last} PROVE r.time > last.time
    <3>1. r \in S /\ last \in S /\ r # last
      OBVIOUS
    <3>2. r.time # last.time /\ r.time \in Nat /\ last.time \in Nat
      BY <3>1
    <3>3. last.time <= r.time
      BY <2>8, <2>9
    <3> QED
      BY <3>2, <3>3
  <2> DEFINE U == T \ {last}
  <2>11. Cardinality(U) = n - 1 /\ U \in SUBSET S
    BY <2>3, <2>4, FS_RemoveElement
  <2>12. n - 1 \in Nat /\ ~(n <= n - 1)
    BY <2>4, <2>5
  <2>13. PICK rs \in Sequences(U) : IsSorted(rs)
    BY <2>2, <2>11, <2>12
  <2>14. rs \in [1 .. n - 1 -> U]
    BY <2>11, <2>13 DEF Sequences
  <2> DEFINE q == [j \in 1 .. n |-> IF j < n THEN rs[j] ELSE last]
  <2>15. q \in [1 .. n -> T] /\ DOMAIN q = 1 .. n
    BY <2>4, <2>14
  <2>16. ASSUME NEW j \in 1 .. n, NEW l \in 1 .. n, j < l PROVE q[j].time > q[l].time
    <3>1. j \in 1 .. n - 1 /\ q[j] = rs[j] /\ rs[j] \in U
      BY <2>4, <2>14, <2>16
    <3>2. CASE l < n
      <4>1. l \in 1 .. n - 1 /\ q[l] = rs[l] /\ DOMAIN rs = 1 .. n - 1
        BY <2>4, <2>14, <3>2
      <4> QED
        BY <2>13, <2>16, <3>1, <4>1 DEF IsSorted
    <3>3. CASE l = n
      <4>1. q[l] = last
        BY <2>4, <2>5, <3>3
      <4> QED
        BY <2>10, <3>1, <4>1
    <3> QED
      BY <2>4, <3>2, <3>3
  <2>17. q \in Sequences(T) /\ IsSorted(q)
    BY <2>3, <2>15, <2>16 DEF Sequences, IsSorted
  <2> QED
    BY <2>3, <2>17
<1>2. Cardinality(S) \in Nat
  BY FS_CardinalityType
<1> QED
  BY <1>1, <1>2

(* NewestFirst lists each of the records once, the newest first. *)
LEMMA NewestFirstSorts ==
  ASSUME NEW S, IsFiniteSet(S), \A r \in S : r.time \in Nat, \A r, s \in S : r.time = s.time => r = s
  PROVE  /\ NewestFirst(S) \in Seq(S) /\ IsSorted(NewestFirst(S))
         /\ \A r \in S : \E j \in DOMAIN NewestFirst(S) : NewestFirst(S)[j] = r
<1> DEFINE rs == NewestFirst(S)
           n == Cardinality(S)
<1>1. rs \in Sequences(S) /\ IsSorted(rs)
  BY SortExists DEF NewestFirst, IsSorted
<1> HIDE DEF rs
<1>2. n \in Nat /\ rs \in [1 .. n -> S]
  BY <1>1, FS_CardinalityType DEF Sequences
<1>3. rs \in Seq(S)
  BY <1>2, SeqDef
<1>4. \A j \in 1 .. n : rs[j] \in S /\ rs[j].time \in Nat
  BY <1>2
<1>5. ASSUME NEW j \in 1 .. n, NEW l \in 1 .. n, rs[j] = rs[l] PROVE j = l
  <2>1. j < l => rs[j].time > rs[l].time
    BY <1>1, <1>2 DEF IsSorted
  <2>2. l < j => rs[l].time > rs[j].time
    BY <1>1, <1>2 DEF IsSorted
  <2> QED
    BY <1>4, <1>5, <2>1, <2>2
<1>6. rs \in Injection(1 .. n, S)
  BY <1>2, <1>5 DEF Injection, IsInjective
<1>7. Cardinality(1 .. n) = n
  BY <1>2, FS_Interval
<1>8. rs \in Surjection(1 .. n, S)
  BY <1>6, <1>7, FS_Injection
<1>9. \A r \in S : \E j \in 1 .. n : rs[j] = r
  BY <1>8 DEF Surjection
<1>10. DOMAIN rs = 1 .. n
  BY <1>2
<1> QED
  BY <1>1, <1>3, <1>9, <1>10 DEF rs
-----------------------------------------------------------------------------
(* What is active *)

LEMMA LogTypes ==
  ASSUME Types
  PROVE  /\ Len(log) \in Nat /\ DOMAIN log = 1 .. Len(log)
         /\ \A j \in DOMAIN log : log[j] \in Event /\ log[j].record \in Record
                                  /\ log[j].action \in {"trashed", "restored"}
         /\ \A r \in Logged : r \in Record /\ r.item \in Item /\ r.time \in Nat
         /\ \A c \in Commands : batch[c] \in Seq(Event) /\ \A r \in BatchOf(c) : r \in Record
         /\ Ended \subseteq Item
<1>1. log \in Seq(Event) /\ \A c \in Commands : batch[c] \in Seq(Event)
  BY DEF Types
<1>2. Len(log) \in Nat /\ DOMAIN log = 1 .. Len(log) /\ \A j \in DOMAIN log : log[j] \in Event
  BY <1>1
<1>3. \A e \in Event : e.record \in Record /\ e.action \in {"trashed", "restored"}
  BY DEF Event
<1>4. \A r \in Record : r.item \in Item /\ r.time \in Nat
  BY DEF Record
<1>5. \A r \in Logged : r \in Record
  BY <1>2, <1>3 DEF Logged, Trashings
<1>6. ASSUME NEW c \in Commands PROVE \A r \in BatchOf(c) : r \in Record
  <2>1. batch[c] \in Seq(Event)
    BY <1>1
  <2>2. \A j \in DOMAIN batch[c] : batch[c][j] \in Event
    BY <2>1
  <2> QED
    BY <1>3, <2>2 DEF BatchOf
<1>7. Ended \subseteq Item
  BY <1>2, <1>3, <1>4 DEF Ended, Restorings
<1> QED
  BY <1>1, <1>2, <1>3, <1>4, <1>5, <1>6, <1>7

LEMMA ActiveIsNotEnded ==
  ASSUME Types, LogOrder
  PROVE  Active = {r \in Logged : r.item \notin Ended}
<1>0. DOMAIN log = 1 .. Len(log) /\ Len(log) \in Nat
      /\ \A j \in DOMAIN log : log[j].action \in {"trashed", "restored"}
  BY LogTypes
<1>1. ASSUME NEW j \in Trashings, \A h \in DOMAIN log : log[h].record.item = log[j].record.item => h <= j
      PROVE  log[j].record.item \notin Ended
  <2> SUFFICES ASSUME NEW h \in Restorings, log[h].record.item = log[j].record.item
               PROVE  FALSE
    BY DEF Ended
  <2>1. PICK l \in Trashings : l < h /\ log[l].record = log[h].record
    BY DEF LogOrder
  <2>2. l = j
    BY <2>1 DEF LogOrder, Trashings
  <2>3. h <= j /\ h \in Nat /\ j \in Nat
    BY <1>0, <1>1 DEF Restorings, Trashings
  <2> QED
    BY <2>1, <2>2, <2>3
<1>2. ASSUME NEW j \in Trashings, log[j].record.item \notin Ended,
             NEW h \in DOMAIN log, log[h].record.item = log[j].record.item
      PROVE  h <= j
  <2>1. h \notin Restorings
    BY <1>2 DEF Ended
  <2>2. h \in Trashings
    BY <1>0, <2>1 DEF Restorings, Trashings
  <2>3. h = j
    BY <1>2, <2>2 DEF LogOrder, Trashings
  <2> QED
    BY <1>0, <2>3
<1>3. ASSUME NEW r \in Active PROVE r \in Logged /\ r.item \notin Ended
  BY <1>1 DEF Active, Logged
<1>4. ASSUME NEW r \in Logged, r.item \notin Ended PROVE r \in Active
  <2>1. PICK j \in Trashings : r = log[j].record
    BY DEF Logged
  <2> QED
    BY <1>2, <1>4, <2>1 DEF Active
<1> QED
  BY <1>3, <1>4

LEMMA LoggedIsFinite == ASSUME Types PROVE IsFiniteSet(Logged)
<1> DEFINE f == [j \in Trashings |-> log[j].record]
<1>1. IsFiniteSet(DOMAIN log)
  <2>1. DOMAIN log = 1 .. Len(log) /\ Len(log) \in Nat
    BY LogTypes
  <2>2. IsFiniteSet(1 .. Len(log))
    BY <2>1, FS_Interval
  <2> QED
    BY <2>1, <2>2
<1>2. IsFiniteSet(Trashings)
  BY <1>1, FS_Subset DEF Trashings
<1>3. f \in Surjection(Trashings, Logged)
  BY DEF Surjection, Logged
<1> QED
  BY <1>2, <1>3, FS_Surjection
-----------------------------------------------------------------------------
(* What a step does to the journal and to the batches *)

LEMMA SameLog ==
  ASSUME log' = log
  PROVE  Trashings' = Trashings /\ Restorings' = Restorings /\ Logged' = Logged /\ Ended' = Ended
BY DEF Trashings, Restorings, Logged, Ended

LEMMA SameBatches ==
  ASSUME batch' = batch
  PROVE  Returned' = Returned /\ \A c \in Commands : BatchOf(c)' = BatchOf(c)
BY DEF Returned, BatchOf

LEMMA SameRecords ==
  ASSUME log' = log, batch' = batch
  PROVE  Known' = Known
BY DEF Trashings, Logged, BatchOf, Known

(* One event more for c. *)
LEMMA OneEvent ==
  ASSUME Types, NEW c \in Commands, NEW e \in Event, batch' = [batch EXCEPT ![c] = Append(batch[c], e)]
  PROVE  /\ batch' \in [Commands -> Seq(Event)]
         /\ \A d \in Commands : d # c => batch'[d] = batch[d] /\ BatchOf(d)' = BatchOf(d)
         /\ Len(batch[c]) \in Nat /\ DOMAIN batch[c] = 1 .. Len(batch[c])
         /\ DOMAIN batch'[c] = 1 .. Len(batch[c]) + 1
         /\ \A j \in DOMAIN batch[c] : batch'[c][j] = batch[c][j]
         /\ batch'[c][Len(batch[c]) + 1] = e
         /\ BatchOf(c)' = BatchOf(c) \cup {e.record}
<1>1. batch \in [Commands -> Seq(Event)] /\ batch[c] \in Seq(Event)
  BY DEF Types
<1> DEFINE s == batch[c]
           t == Append(s, e)
           n == Len(s)
<1>2. /\ t \in Seq(Event) /\ n \in Nat /\ DOMAIN s = 1 .. n /\ DOMAIN t = 1 .. n + 1
      /\ \A j \in 1 .. n : t[j] = s[j]
      /\ t[n + 1] = e
  BY <1>1
<1>3. batch'[c] = t /\ \A d \in Commands : d # c => batch'[d] = batch[d]
  BY <1>1
<1>4. batch' \in [Commands -> Seq(Event)]
  BY <1>1, <1>2
<1> HIDE DEF t
<1>5. BatchOf(c)' = {t[j].record : j \in 1 .. n + 1}
  BY <1>2, <1>3 DEF BatchOf
<1>6. BatchOf(c) = {s[j].record : j \in 1 .. n}
  BY <1>2 DEF BatchOf
<1>7. \A j : j \in 1 .. n + 1 <=> j \in 1 .. n \/ j = n + 1
  BY <1>2
<1>8. BatchOf(c)' = BatchOf(c) \cup {e.record}
  BY <1>2, <1>5, <1>6, <1>7
<1>9. \A d \in Commands : d # c => BatchOf(d)' = BatchOf(d)
  BY <1>3 DEF BatchOf
<1> QED
  BY <1>2, <1>3, <1>4, <1>8, <1>9

(* The first k events of the batch of c come after the log, the others     *)
(* stay in the batch.                                                      *)
Appends(c, k) ==
    /\ k \in 0 .. Len(batch[c])
    /\ log' = log \o SubSeq(batch[c], 1, k)
    /\ batch' = [batch EXCEPT ![c] = SubSeq(batch[c], k + 1, Len(batch[c]))]
FirstOf(c, k) == {batch[c][j].record : j \in 1 .. k}

(* All of the batch, or a part of it. *)
LEMMA AppendsSome ==
  ASSUME Types, NEW c \in Commands, AppendBatch(c) \/ AppendPart(c)
  PROVE  torn' \in BOOLEAN /\ \E k \in Nat : Appends(c, k)
<1>1. batch[c] \in Seq(Event) /\ Len(batch[c]) \in Nat /\ torn \in BOOLEAN
  BY DEF Types
<1>2. CASE AppendBatch(c)
  <2>1. SubSeq(batch[c], 1, Len(batch[c])) = batch[c]
    BY <1>1, SubSeqFull
  <2>2. SubSeq(batch[c], Len(batch[c]) + 1, Len(batch[c])) = <<>>
    BY <1>1, SubSeqEmpty
  <2>3. torn' \in BOOLEAN /\ Len(batch[c]) \in 0 .. Len(batch[c])
        /\ log' = log \o batch[c] /\ batch' = [batch EXCEPT ![c] = <<>>]
    BY <1>1, <1>2 DEF AppendBatch
  <2>4. Appends(c, Len(batch[c]))
    BY <2>1, <2>2, <2>3 DEF Appends
  <2> QED
    BY <1>1, <2>3, <2>4
<1>3. CASE AppendPart(c)
  <2>1. PICK k \in 0 .. Len(batch[c]) :
          /\ log' = log \o SubSeq(batch[c], 1, k)
          /\ torn' \in {torn, torn \/ k < Len(batch[c])}
          /\ batch' = [batch EXCEPT ![c] = SubSeq(@, k + 1, Len(@))]
    BY <1>3 DEF AppendPart
  <2>2. Appends(c, k) /\ k \in Nat
    BY <1>1, <2>1 DEF Appends
  <2>3. torn' \in BOOLEAN
    BY <1>1, <2>1
  <2> QED
    BY <2>2, <2>3
<1> QED
  BY <1>2, <1>3

LEMMA LogGrows ==
  ASSUME Types, NEW c \in Commands, NEW k, Appends(c, k)
  PROVE  /\ log' \in Seq(Event) /\ batch' \in [Commands -> Seq(Event)]
         /\ BatchOf(c) = FirstOf(c, k) \cup BatchOf(c)'
         /\ \A d \in Commands : d # c => batch'[d] = batch[d] /\ BatchOf(d)' = BatchOf(d)
         /\ Len(log) \in Nat /\ DOMAIN log = 1 .. Len(log)
         /\ k \in Nat /\ \A j \in 1 .. k : j \in DOMAIN batch[c]
         /\ \A j \in DOMAIN batch'[c] :
               j + k \in DOMAIN batch[c] /\ j + k \notin 1 .. k /\ batch'[c][j] = batch[c][j + k] /\ j \in Int
         /\ \A j \in DOMAIN log : log'[j] = log[j] /\ j \in DOMAIN log'
         /\ \A j \in 1 .. k : log'[Len(log) + j] = batch[c][j] /\ Len(log) + j \in DOMAIN log'
         /\ \A j \in DOMAIN log' : j \in Int /\ (j \in DOMAIN log \/ (j - Len(log) \in 1 .. k /\ j > Len(log)))
<1> DEFINE n == Len(log)
           m == Len(batch[c])
           s == SubSeq(batch[c], 1, k)
           t == SubSeq(batch[c], k + 1, m)
<1>1. batch \in [Commands -> Seq(Event)] /\ batch[c] \in Seq(Event) /\ log \in Seq(Event)
  BY DEF Types
<1>2. k \in 0 .. m /\ log' = log \o s /\ batch' = [batch EXCEPT ![c] = t]
  BY DEF Appends
<1>3. /\ m \in Nat /\ n \in Nat /\ DOMAIN batch[c] = 1 .. m /\ DOMAIN log = 1 .. n
      /\ \A j \in 1 .. m : batch[c][j] \in Event
  BY <1>1
<1>4. /\ s \in Seq(Event) /\ Len(s) = k /\ \A j \in 1 .. k : s[j] = batch[c][j]
  <2>1. \A j \in 1 .. k : batch[c][j] \in Event
    BY <1>2, <1>3
  <2>2. /\ s \in Seq(Event) /\ Len(s) = (IF 1 <= k THEN k - 1 + 1 ELSE 0)
        /\ \A j \in 1 .. k - 1 + 1 : s[j] = batch[c][1 + j - 1]
    BY <1>2, <1>3, <2>1, SubSeqProperties
  <2> QED
    BY <1>2, <1>3, <2>2
<1>5. /\ t \in Seq(Event) /\ Len(t) = m - k /\ \A j \in 1 .. m - k : t[j] = batch[c][j + k]
  <2>1. \A j \in k + 1 .. m : batch[c][j] \in Event
    BY <1>2, <1>3
  <2>2. /\ t \in Seq(Event) /\ Len(t) = (IF k + 1 <= m THEN m - (k + 1) + 1 ELSE 0)
        /\ \A j \in 1 .. m - (k + 1) + 1 : t[j] = batch[c][k + 1 + j - 1]
    BY <1>2, <1>3, <2>1, SubSeqProperties
  <2>3. \A j \in 1 .. m - k : t[j] = batch[c][j + k]
    <3>1. \A j \in 1 .. m - k : j \in 1 .. m - (k + 1) + 1 /\ k + 1 + j - 1 = j + k
      BY <1>2, <1>3
    <3> QED
      BY <2>2, <3>1
  <2> QED
    BY <1>2, <1>3, <2>2, <2>3
<1> HIDE DEF s, t, n, m
<1>6. /\ log' \in Seq(Event) /\ Len(log') = n + k
      /\ \A j \in 1 .. n + k : log'[j] = IF j <= n THEN log[j] ELSE s[j - n]
  <2>1. s \in Seq(Event) /\ Len(s) = k /\ k \in Nat
    BY <1>2, <1>3, <1>4
  <2> QED
    BY <1>1, <1>2, <2>1, ConcatProperties DEF n
<1>7. DOMAIN log' = 1 .. n + k
  BY <1>6
<1>8. /\ batch'[c] = t /\ batch' \in [Commands -> Seq(Event)] /\ DOMAIN t = 1 .. m - k
      /\ \A d \in Commands : d # c => batch'[d] = batch[d]
  BY <1>1, <1>2, <1>5
<1>9. \A d \in Commands : d # c => BatchOf(d)' = BatchOf(d)
  BY <1>8 DEF BatchOf
<1>10. \A j \in 1 .. m - k : j + k \in 1 .. m /\ j + k \notin 1 .. k /\ j \in Int
  BY <1>2, <1>3
<1>11. BatchOf(c) = FirstOf(c, k) \cup BatchOf(c)'
  <2>1. BatchOf(c)' = {t[j].record : j \in 1 .. m - k}
    BY <1>8 DEF BatchOf
  <2>2. BatchOf(c) = {batch[c][j].record : j \in 1 .. m}
    BY <1>3 DEF BatchOf
  <2>3. \A j \in 1 .. m : j \in 1 .. k \/ (j - k \in 1 .. m - k /\ t[j - k] = batch[c][j])
    <3>1. \A j \in 1 .. m : j \in 1 .. k \/ (j - k \in 1 .. m - k /\ (j - k) + k = j)
      BY <1>2, <1>3
    <3> QED
      BY <1>5, <3>1
  <2>4. \A j \in 1 .. k : j \in 1 .. m
    BY <1>2, <1>3
  <2> QED
    BY <1>5, <1>10, <2>1, <2>2, <2>3, <2>4 DEF FirstOf
<1>12. \A j \in 1 .. n : log'[j] = log[j] /\ j \in 1 .. n + k
  BY <1>2, <1>3, <1>6
<1>13. \A j \in 1 .. k : log'[n + j] = batch[c][j] /\ n + j \in 1 .. n + k
  <2> SUFFICES ASSUME NEW j \in 1 .. k PROVE log'[n + j] = batch[c][j] /\ n + j \in 1 .. n + k
    OBVIOUS
  <2>1. n + j \in 1 .. n + k /\ ~(n + j <= n) /\ (n + j) - n = j
    BY <1>2, <1>3
  <2> QED
    BY <1>4, <1>6, <2>1
<1>14. \A j \in 1 .. n + k : j \in Int /\ (j \in 1 .. n \/ (j - n \in 1 .. k /\ j > n))
  BY <1>2, <1>3
<1>15. k \in Nat /\ \A j \in 1 .. k : j \in 1 .. m
  BY <1>2, <1>3
<1> QED
  BY <1>3, <1>5, <1>6, <1>7, <1>8, <1>9, <1>10, <1>11, <1>12, <1>13, <1>14, <1>15 DEF n

LEMMA KindsOfCommands ==
  /\ \A o \in Removals : o \in Commands /\ o \notin Restores
  /\ \A u \in Restores : u \in Commands /\ u \notin Removals
  /\ \A c \in Commands : c \in Removals \/ c \in Restores
BY RecoveryAssumption DEF Commands

(* What is left of a batch is as distinct as the batch was, and none of    *)
(* what was appended.                                                      *)
LEMMA RestOfBatch ==
  ASSUME Types, Distinct, NEW c \in Commands, NEW k, Appends(c, k)
  PROVE  /\ Distinct'
         /\ \A d \in Commands : BatchOf(d)' \subseteq BatchOf(d)
         /\ \A d \in Commands : \A j \in DOMAIN batch'[d] : \E h \in DOMAIN batch[d] : batch'[d][j] = batch[d][h]
         /\ \A j \in DOMAIN batch'[c] : \A r \in FirstOf(c, k) : r.item # batch'[c][j].record.item
<1>1. /\ BatchOf(c) = FirstOf(c, k) \cup BatchOf(c)'
      /\ \A d \in Commands : d # c => batch'[d] = batch[d] /\ BatchOf(d)' = BatchOf(d)
      /\ k \in Nat /\ \A j \in 1 .. k : j \in DOMAIN batch[c]
      /\ \A j \in DOMAIN batch'[c] :
            j + k \in DOMAIN batch[c] /\ j + k \notin 1 .. k /\ batch'[c][j] = batch[c][j + k] /\ j \in Int
  BY LogGrows
<1>2. \A j, h \in DOMAIN batch[c] : batch[c][j].record.item = batch[c][h].record.item => j = h
  BY DEF Distinct
<1>3. ASSUME NEW j \in DOMAIN batch'[c], NEW h \in DOMAIN batch'[c],
             batch'[c][j].record.item = batch'[c][h].record.item
      PROVE  j = h
  <2>1. j + k = h + k /\ j \in Int /\ h \in Int
    BY <1>1, <1>2, <1>3
  <2> QED
    BY <1>1, <2>1
<1>4. Distinct'
  <2>1. \A d \in Commands : d # c => \A j, h \in DOMAIN batch'[d] :
           batch'[d][j].record.item = batch'[d][h].record.item => j = h
    BY <1>1 DEF Distinct
  <2> QED
    BY <1>3, <2>1 DEF Distinct
<1>5. ASSUME NEW j \in DOMAIN batch'[c], NEW r \in FirstOf(c, k) PROVE r.item # batch'[c][j].record.item
  <2>1. PICK h \in 1 .. k : r = batch[c][h].record
    BY DEF FirstOf
  <2> QED
    BY <1>1, <1>2, <2>1
<1> QED
  BY <1>1, <1>4, <1>5

(* The events of a removal come after the log: its items are known as      *)
(* before, and now they are logged.                                        *)
LEMMA RemovalLogs ==
  ASSUME Types, LogOrder, Batches, Records, NEW o \in Removals, Running(o), NEW k, Appends(o, k)
  PROVE  /\ Logged' = Logged \cup FirstOf(o, k) /\ Ended' = Ended
         /\ Known' = Known /\ Returned' = Returned /\ LogOrder'
<1> DEFINE n == Len(log)
<1>0. o \in Commands /\ o \notin Restores
  BY KindsOfCommands
<1>1. /\ BatchOf(o) = FirstOf(o, k) \cup BatchOf(o)'
      /\ \A d \in Commands : d # o => BatchOf(d)' = BatchOf(d)
      /\ n \in Nat /\ DOMAIN log = 1 .. n
      /\ \A j \in 1 .. k : j \in DOMAIN batch[o]
      /\ \A j \in DOMAIN log : log'[j] = log[j] /\ j \in DOMAIN log'
      /\ \A j \in 1 .. k : log'[n + j] = batch[o][j] /\ n + j \in DOMAIN log'
      /\ \A j \in DOMAIN log' : j \in Int /\ (j \in DOMAIN log \/ (j - n \in 1 .. k /\ j > n))
  BY <1>0, LogGrows
<1>2. \A j \in DOMAIN batch[o] : batch[o][j].action = "trashed" /\ batch[o][j].record.item[1] = o
  BY DEF Batches
<1> HIDE DEF n
<1>3. ASSUME NEW j \in DOMAIN log', j \notin DOMAIN log
      PROVE  /\ j - n \in 1 .. k /\ j - n \in DOMAIN batch[o] /\ j = n + (j - n) /\ log'[j] = batch[o][j - n]
             /\ log'[j].action = "trashed" /\ log'[j].record \in FirstOf(o, k)
  <2>1. j - n \in 1 .. k /\ j - n \in DOMAIN batch[o] /\ j \in Int
    BY <1>1, <1>3
  <2>2. j = n + (j - n)
    BY <1>1, <2>1
  <2> QED
    BY <1>1, <1>2, <2>1, <2>2 DEF FirstOf
<1>4. Restorings' = Restorings /\ Ended' = Ended
  <2>1. Restorings' = Restorings
    BY <1>1, <1>3 DEF Restorings
  <2>2. \A j \in Restorings : log'[j] = log[j]
    BY <1>1 DEF Restorings
  <2> QED
    BY <2>1, <2>2 DEF Ended
<1>5. \A j \in Trashings : j \in Trashings' /\ log'[j] = log[j]
  BY <1>1 DEF Trashings
<1>6. Logged' = Logged \cup FirstOf(o, k)
  <2>1. ASSUME NEW r \in Logged' PROVE r \in Logged \cup FirstOf(o, k)
    <3>1. PICK j \in Trashings' : r = log'[j].record
      BY DEF Logged
    <3>2. CASE j \in DOMAIN log
      BY <1>1, <3>1, <3>2 DEF Trashings, Logged
    <3>3. CASE j \notin DOMAIN log
      BY <1>3, <3>1, <3>3 DEF Trashings
    <3> QED
      BY <3>2, <3>3
  <2>2. ASSUME NEW r \in Logged PROVE r \in Logged'
    BY <1>5 DEF Logged
  <2>3. ASSUME NEW r \in FirstOf(o, k) PROVE r \in Logged'
    <3>1. PICK j \in 1 .. k : r = batch[o][j].record
      BY DEF FirstOf
    <3>2. n + j \in Trashings' /\ log'[n + j].record = r
      BY <1>1, <1>2, <3>1 DEF Trashings
    <3> QED
      BY <3>2 DEF Logged
  <2> QED
    BY <2>1, <2>2, <2>3
<1>7. Known' = Known
  <2>1. \A d \in Removals : d # o => BatchOf(d)' = BatchOf(d)
    BY <1>1, KindsOfCommands
  <2>2. Known' = Logged' \cup BatchOf(o)' \cup UNION {BatchOf(d) : d \in Removals \ {o}}
    BY <2>1 DEF Known
  <2>3. Known = Logged \cup BatchOf(o) \cup UNION {BatchOf(d) : d \in Removals \ {o}}
    BY DEF Known
  <2> QED
    BY <1>1, <1>6, <2>2, <2>3
<1>8. Returned' = Returned
  <2>1. \A u \in Restores : BatchOf(u)' = BatchOf(u)
    BY <1>0, <1>1, KindsOfCommands
  <2> QED
    BY <2>1 DEF Returned
<1>9. LogOrder'
  <2>1. ASSUME NEW j \in DOMAIN log', NEW h \in DOMAIN log', log'[j].action = log'[h].action,
               log'[j].record.item = log'[h].record.item
        PROVE  j = h
    <3>1. ASSUME NEW x \in DOMAIN log, NEW y \in DOMAIN log', y \notin DOMAIN log,
                 log'[x].action = log'[y].action, log'[x].record.item = log'[y].record.item
          PROVE  FALSE
      <4>1. log[x].record \in Logged
        BY <1>1, <1>3, <3>1 DEF Logged, Trashings
      <4>2. pc[log[x].record.item[1]] # "run"
        BY <4>1 DEF Records
      <4>3. log'[y].record.item[1] = o
        BY <1>2, <1>3, <3>1
      <4> QED
        BY <1>1, <3>1, <4>2, <4>3 DEF Running
    <3>2. CASE j \in DOMAIN log /\ h \in DOMAIN log
      BY <1>1, <2>1, <3>2 DEF LogOrder
    <3>3. CASE j \notin DOMAIN log /\ h \notin DOMAIN log
      <4>1. j - n = h - n
        BY <1>0, <1>3, <2>1, <3>3 DEF Batches, Distinct
      <4> QED
        BY <1>3, <3>3, <4>1
    <3> QED
      BY <2>1, <3>1, <3>2, <3>3
  <2>2. ASSUME NEW h \in Restorings'
        PROVE  \E j \in Trashings' : j < h /\ log'[j].record = log'[h].record
    <3>1. h \in Restorings /\ log'[h] = log[h]
      BY <1>1, <1>4 DEF Restorings
    <3>2. PICK j \in Trashings : j < h /\ log[j].record = log[h].record
      BY <3>1 DEF LogOrder
    <3> QED
      BY <1>5, <3>1, <3>2
  <2> QED
    BY <2>1, <2>2 DEF LogOrder
<1> QED
  BY <1>4, <1>6, <1>7, <1>8, <1>9

(* The events of a restore end what is active. *)
LEMMA RestoreLogs ==
  ASSUME Types, LogOrder, Batches, Records, NEW u \in Restores, NEW k, Appends(u, k)
  PROVE  /\ Logged' = Logged /\ (Ended \cup Returned)' = Ended \cup Returned
         /\ Ended' = Ended \cup {r.item : r \in FirstOf(u, k)}
         /\ Known' = Known /\ LogOrder'
<1> DEFINE n == Len(log)
<1>0. u \in Commands /\ u \notin Removals
  BY KindsOfCommands
<1>1. /\ BatchOf(u) = FirstOf(u, k) \cup BatchOf(u)'
      /\ \A d \in Commands : d # u => BatchOf(d)' = BatchOf(d)
      /\ n \in Nat /\ DOMAIN log = 1 .. n
      /\ \A j \in 1 .. k : j \in DOMAIN batch[u]
      /\ \A j \in DOMAIN log : log'[j] = log[j] /\ j \in DOMAIN log'
      /\ \A j \in 1 .. k : log'[n + j] = batch[u][j] /\ n + j \in DOMAIN log'
      /\ \A j \in DOMAIN log' : j \in Int /\ (j \in DOMAIN log \/ (j - n \in 1 .. k /\ j > n))
  BY <1>0, LogGrows
<1>2. \A j \in DOMAIN batch[u] : /\ batch[u][j].action = "restored" /\ batch[u][j].record \in Logged
                                 /\ batch[u][j].record.item \notin Ended
  BY DEF Batches
<1> HIDE DEF n
<1>3. ASSUME NEW j \in DOMAIN log', j \notin DOMAIN log
      PROVE  /\ j - n \in 1 .. k /\ j - n \in DOMAIN batch[u] /\ j = n + (j - n) /\ log'[j] = batch[u][j - n] /\ j > n
             /\ log'[j].action = "restored" /\ log'[j].record \in FirstOf(u, k)
  <2>1. j - n \in 1 .. k /\ j - n \in DOMAIN batch[u] /\ j \in Int /\ j > n
    BY <1>1, <1>3
  <2>2. j = n + (j - n)
    BY <1>1, <2>1
  <2> QED
    BY <1>1, <1>2, <2>1, <2>2 DEF FirstOf
<1>4. Trashings' = Trashings /\ \A j \in Trashings : log'[j] = log[j]
  BY <1>1, <1>3 DEF Trashings
<1>5. Logged' = Logged
  BY <1>4 DEF Logged
<1>6. \A j \in Restorings : j \in Restorings' /\ log'[j] = log[j]
  BY <1>1 DEF Restorings
<1>7. Ended' = Ended \cup {r.item : r \in FirstOf(u, k)}
  <2>1. ASSUME NEW i \in Ended' PROVE i \in Ended \cup {r.item : r \in FirstOf(u, k)}
    <3>1. PICK j \in Restorings' : i = log'[j].record.item
      BY DEF Ended
    <3>2. CASE j \in DOMAIN log
      BY <1>1, <3>1, <3>2 DEF Restorings, Ended
    <3>3. CASE j \notin DOMAIN log
      BY <1>3, <3>1, <3>3 DEF Restorings
    <3> QED
      BY <3>2, <3>3
  <2>2. ASSUME NEW i \in Ended PROVE i \in Ended'
    BY <1>6 DEF Ended
  <2>3. ASSUME NEW r \in FirstOf(u, k) PROVE r.item \in Ended'
    <3>1. PICK j \in 1 .. k : r = batch[u][j].record
      BY DEF FirstOf
    <3>2. n + j \in Restorings' /\ log'[n + j].record = r
      BY <1>1, <1>2, <3>1 DEF Restorings
    <3> QED
      BY <3>2 DEF Ended
  <2> QED
    BY <2>1, <2>2, <2>3
<1>8. Known' = Known
  <2>1. \A d \in Removals : BatchOf(d)' = BatchOf(d)
    BY <1>0, <1>1, KindsOfCommands
  <2> QED
    BY <1>5, <2>1 DEF Known
<1>9. Ended' \cup Returned' = Ended \cup Returned
  <2>1. \A d \in Restores : d # u => BatchOf(d)' = BatchOf(d)
    BY <1>1, KindsOfCommands
  <2>2. \A r \in BatchOf(u) : r.item \in Item
    BY <1>0, LogTypes DEF Record
  <2> DEFINE others == {i \in Item : \E d \in Restores : d # u /\ \E r \in BatchOf(d) : r.item = i}
  <2>3. Returned' = others \cup {r.item : r \in BatchOf(u)'}
    <3>1. \A r \in BatchOf(u)' : r.item \in Item
      BY <1>1, <2>2
    <3> QED
      BY <2>1, <3>1 DEF Returned
  <2>4. Returned = others \cup {r.item : r \in BatchOf(u)}
    BY <2>2 DEF Returned
  <2>5. {r.item : r \in BatchOf(u)} = {r.item : r \in FirstOf(u, k)} \cup {r.item : r \in BatchOf(u)'}
    BY <1>1
  <2> QED
    BY <1>7, <2>3, <2>4, <2>5
<1>10. LogOrder'
  <2>1. ASSUME NEW j \in DOMAIN log', NEW h \in DOMAIN log', log'[j].action = log'[h].action,
               log'[j].record.item = log'[h].record.item
        PROVE  j = h
    <3>1. ASSUME NEW x \in DOMAIN log, NEW y \in DOMAIN log', y \notin DOMAIN log,
                 log'[x].action = log'[y].action, log'[x].record.item = log'[y].record.item
          PROVE  FALSE
      <4>1. x \in Restorings
        BY <1>1, <1>3, <3>1 DEF Restorings
      <4>2. log[x].record.item \in Ended
        BY <4>1 DEF Ended
      <4> QED
        BY <1>1, <1>2, <1>3, <3>1, <4>2
    <3>2. CASE j \in DOMAIN log /\ h \in DOMAIN log
      BY <1>1, <2>1, <3>2 DEF LogOrder
    <3>3. CASE j \notin DOMAIN log /\ h \notin DOMAIN log
      <4>1. j - n = h - n
        BY <1>0, <1>3, <2>1, <3>3 DEF Batches, Distinct
      <4> QED
        BY <1>3, <3>3, <4>1
    <3> QED
      BY <2>1, <3>1, <3>2, <3>3
  <2>2. ASSUME NEW h \in Restorings'
        PROVE  \E j \in Trashings' : j < h /\ log'[j].record = log'[h].record
    <3>1. CASE h \in DOMAIN log
      <4>1. h \in Restorings /\ log'[h] = log[h]
        BY <1>1, <3>1 DEF Restorings
      <4>2. PICK j \in Trashings : j < h /\ log[j].record = log[h].record
        BY <4>1 DEF LogOrder
      <4> QED
        BY <1>4, <4>1, <4>2
    <3>2. CASE h \notin DOMAIN log
      <4>1. log'[h].record \in Logged /\ h > n /\ h \in Int
        BY <1>1, <1>2, <1>3, <3>2 DEF Restorings
      <4>2. PICK j \in Trashings : log[j].record = log'[h].record
        BY <4>1 DEF Logged
      <4>3. j \in 1 .. n
        BY <1>1 DEF Trashings
      <4>4. j < h
        BY <1>1, <4>1, <4>3
      <4> QED
        BY <1>4, <4>2, <4>4
    <3> QED
      BY <3>1, <3>2
  <2> QED
    BY <2>1, <2>2 DEF LogOrder
<1> QED
  BY <1>5, <1>7, <1>8, <1>9, <1>10
-----------------------------------------------------------------------------
(* The journal, the trash and what runs: one action after the other *)

Journal == LogOrder /\ Alone /\ Batches /\ Records /\ InTrash /\ Todos

LEMMA KnownFacts ==
  ASSUME Types, Journal
  PROVE  /\ \A r \in Known : r \in Record /\ r.item \in Item /\ r.time \in Nat /\ r.time < now
                             /\ r.item[1] \in Removals /\ r.item[2] <= at[r.item[1]]
         /\ \A i \in Ended \cup Returned : \E r \in Known : r.item = i
         /\ Logged \subseteq Known /\ now \in Nat
         /\ \A o \in Removals : BatchOf(o) \subseteq Known /\ \A r \in BatchOf(o) : r.item[1] = o
<1>1. Logged \subseteq Known /\ \A o \in Removals : BatchOf(o) \subseteq Known
  BY DEF Known
<1>2. \A r \in Known : r \in Record
  BY LogTypes, KindsOfCommands DEF Known
<1>3. \A r \in Record : r.item \in Item /\ r.time \in Nat /\ r.item[1] \in Removals
  BY ItemFacts DEF Record
<1>4. ASSUME NEW i \in Ended PROVE \E r \in Known : r.item = i
  <2>1. PICK h \in Restorings : i = log[h].record.item
    BY DEF Ended
  <2>2. PICK j \in Trashings : log[j].record = log[h].record
    BY DEF Journal, LogOrder
  <2> QED
    BY <1>1, <2>1, <2>2 DEF Logged
<1>5. ASSUME NEW i \in Returned PROVE \E r \in Known : r.item = i
  <2>1. PICK u \in Restores : \E r \in BatchOf(u) : r.item = i
    BY DEF Returned
  <2>2. \A r \in BatchOf(u) : r \in Logged
    BY DEF Journal, Batches, BatchOf
  <2> QED
    BY <1>1, <2>1, <2>2
<1>6. \A o \in Removals : \A r \in BatchOf(o) : r.item[1] = o
  BY DEF Journal, Batches, BatchOf
<1> QED
  BY <1>1, <1>2, <1>3, <1>4, <1>5, <1>6 DEF Types, Journal, Records

LEMMA StartJournal ==
  ASSUME Types, Journal, NEW o \in Removals, Start(o)
  PROVE  /\ Types' /\ Journal' /\ (\A u \in Restores : Running(u)' <=> Running(u))
         /\ BatchOf(o) = {} /\ \A d \in Removals : d # o /\ Running(d)' => Running(d)
<1>1. /\ pc[o] = "idle" /\ \A u \in Restores : ~Running(u)
      /\ pc' = [pc EXCEPT ![o] = "run"]
      /\ UNCHANGED <<policy, home, trash, aside, now, log, torn, at, todo, batch, failed, hurt, aim>>
  BY DEF Start, Goto, tree, journal, work, ends
<1>2. o \in Commands /\ o \notin Restores /\ pc \in [Commands -> {"idle", "run", "done", "failed", "refused"}]
  BY KindsOfCommands DEF Types
<1>3. \A c \in Commands : pc'[c] = IF c = o THEN "run" ELSE pc[c]
  BY <1>1, <1>2
<1>4. Types'
  BY <1>1, <1>2 DEF Types, Event
<1>5. \A u \in Restores : Running(u)' <=> Running(u)
  BY <1>2, <1>3, KindsOfCommands DEF Running
<1>6. Known' = Known /\ Logged' = Logged /\ Ended' = Ended /\ Returned' = Returned /\ Restorings' = Restorings
      /\ Trashings' = Trashings
  BY <1>1, SameLog, SameBatches, SameRecords
<1>7. LogOrder'
  BY <1>1, <1>6 DEF Journal, LogOrder
<1>8. Alone'
  BY <1>1, <1>5 DEF Alone
<1>9. Batches'
  <2>1. \A c \in Commands : pc'[c] = "idle" => batch'[c] = <<>>
    BY <1>1, <1>3 DEF Journal, Batches
  <2>2. Distinct' /\ OfOneRestore'
    BY <1>1 DEF Journal, Batches, Distinct, OfOneRestore, BatchOf
  <2> QED
    BY <1>1, <1>6, <2>1, <2>2 DEF Journal, Batches
<1>10. Records'
  <2>1. \A r \in Logged : pc'[r.item[1]] \in {"done", "failed"}
    <3>1. \A r \in Logged : r.item[1] \in Commands
      BY KnownFacts, KindsOfCommands
    <3>2. \A r \in Logged : pc[r.item[1]] \in {"done", "failed"}
      BY DEF Journal, Records
    <3> QED
      BY <1>1, <1>3, <3>1, <3>2
  <2>2. Records
    BY DEF Journal
  <2> QED
    BY <1>1, <1>6, <2>1, <2>2 DEF Records, Target
<1>11. InTrash'
  BY <1>1, <1>6 DEF Journal, InTrash
<1>12. Todos'
  BY <1>1, <1>5, <1>6 DEF Todos
<1>13. BatchOf(o) = {}
  <2>1. batch[o] = <<>> /\ DOMAIN <<>> = {}
    BY <1>1, <1>2 DEF Journal, Batches
  <2> QED
    BY <2>1 DEF BatchOf
<1>14. \A d \in Removals : d # o /\ Running(d)' => Running(d)
  BY <1>3, KindsOfCommands DEF Running
<1> QED
  BY <1>4, <1>5, <1>7, <1>8, <1>9, <1>10, <1>11, <1>12, <1>13, <1>14 DEF Journal

(* A target that is not moved. *)
LEMMA SkipJournal ==
  ASSUME Types, Journal, NEW o \in Removals, Running(o), at' = [at EXCEPT ![o] = @ + 1],
         UNCHANGED <<policy, tree, now, log, torn, pc, todo, batch, ends, aim>>
  PROVE  Types' /\ Journal'
<1>1. /\ UNCHANGED <<policy, home, trash, aside, now, log, torn, pc, todo, batch, failed, hurt, aim>>
      /\ at \in [Removals -> Nat]
  BY DEF tree, ends, Types
<1>2. at' \in [Removals -> Nat] /\ \A c \in Removals : at[c] \in Nat /\ at'[c] \in Nat /\ at[c] <= at'[c]
  BY <1>1
<1>3. Types'
  BY <1>1, <1>2 DEF Types
<1>4. Known' = Known /\ Logged' = Logged /\ Ended' = Ended /\ Returned' = Returned /\ Restorings' = Restorings
      /\ Trashings' = Trashings
  BY <1>1, SameLog, SameBatches, SameRecords
<1>5. LogOrder' /\ Alone' /\ Batches' /\ InTrash' /\ Todos'
  BY <1>1, <1>4 DEF Journal, LogOrder, Alone, Batches, Distinct, OfOneRestore, BatchOf, InTrash, Todos, Running
<1>6. Records'
  <2>1. ASSUME NEW r \in Known PROVE r.item[2] <= at'[r.item[1]]
    <3>1. r.item[1] \in Removals /\ r.item[2] <= at[r.item[1]] /\ r.item[2] \in Nat
      BY KnownFacts, ItemFacts
    <3> QED
      BY <1>2, <3>1
  <2>2. Records
    BY DEF Journal
  <2> QED
    BY <1>1, <1>4, <2>1, <2>2 DEF Records
<1> QED
  BY <1>3, <1>5, <1>6 DEF Journal

(* One record more is known: of a new item, and the newest of all. *)
LEMMA MoveJournal ==
  ASSUME Types, Journal, NEW o \in Removals, Running(o), at[o] < Len(Plan[o]),
         NEW i, i = <<o, at[o] + 1>>,
         NEW r, r = [item |-> i, orig |-> Target(i), time |-> now],
         at' = [at EXCEPT ![o] = @ + 1], now' = now + 1,
         trash' = [trash EXCEPT ![i] = [n \in AtOrBelow(Target(i)) |-> home[n]]],
         home' = [n \in Node |-> IF n \in AtOrBelow(Target(i)) THEN None ELSE home[n]],
         batch' = [batch EXCEPT ![o] = Append(@, [action |-> "trashed", record |-> r])],
         UNCHANGED <<policy, aside, log, torn, pc, todo, ends, aim>>
  PROVE  /\ Types' /\ Journal' /\ i \in Item /\ trash[i] = None /\ \A u \in Restores : ~Running(u)
         /\ \A s \in Known : s.item # i
<1>1. UNCHANGED <<policy, aside, log, torn, pc, todo, failed, hurt, aim>>
  BY DEF ends
<1>2. o \in Commands /\ o \notin Restores /\ at \in [Removals -> Nat] /\ at[o] \in Nat /\ now \in Nat
  BY KindsOfCommands DEF Types
<1>3. i \in Item /\ i[1] = o /\ i[2] = at[o] + 1 /\ Target(i) \in Node
  <2>1. Len(Plan[o]) \in Nat /\ DOMAIN Plan[o] = 1 .. Len(Plan[o])
    BY ItemFacts
  <2>2. at[o] + 1 \in DOMAIN Plan[o]
    BY <1>2, <2>1
  <2> QED
    BY <2>2, ItemFacts
<1>4. r \in Record /\ r.item = i /\ r.time = now /\ r.orig = Target(i)
  BY <1>2, <1>3 DEF Record
<1> DEFINE e == [action |-> "trashed", record |-> r]
<1>5. e \in Event /\ e.record = r /\ e.action = "trashed"
  BY <1>4 DEF Event
<1>6. /\ batch' \in [Commands -> Seq(Event)]
      /\ \A d \in Commands : d # o => batch'[d] = batch[d] /\ BatchOf(d)' = BatchOf(d)
      /\ Len(batch[o]) \in Nat /\ DOMAIN batch[o] = 1 .. Len(batch[o])
      /\ DOMAIN batch'[o] = 1 .. Len(batch[o]) + 1
      /\ \A j \in DOMAIN batch[o] : batch'[o][j] = batch[o][j]
      /\ batch'[o][Len(batch[o]) + 1] = e
      /\ BatchOf(o)' = BatchOf(o) \cup {r}
  <2>1. batch' = [batch EXCEPT ![o] = Append(batch[o], e)]
    OBVIOUS
  <2> HIDE DEF e
  <2> QED
    BY ONLY Types, <1>2, <1>5, <2>1, OneEvent
<1> HIDE DEF e
<1>7. Logged' = Logged /\ Ended' = Ended /\ Restorings' = Restorings /\ Trashings' = Trashings
  BY <1>1, SameLog
<1>8. Returned' = Returned /\ \A u \in Restores : u # o /\ batch'[u] = batch[u]
  <2>1. \A u \in Restores : BatchOf(u)' = BatchOf(u) /\ u # o /\ batch'[u] = batch[u]
    BY <1>2, <1>6, KindsOfCommands
  <2> QED
    BY <2>1 DEF Returned
<1>9. Known' = Known \cup {r}
  <2>1. \A d \in Removals : BatchOf(d)' = IF d = o THEN BatchOf(o) \cup {r} ELSE BatchOf(d)
    BY <1>6, KindsOfCommands
  <2> QED
    BY <1>7, <2>1 DEF Known
<1>10. \A s \in Known : s.item # i
  BY <1>2, <1>3, KnownFacts, ItemFacts
<1>11. i \notin Ended \cup Returned /\ trash[i] = None
  BY <1>3, <1>10, KnownFacts DEF Journal, InTrash
<1>12. \A u \in Restores : ~Running(u)
  BY <1>2 DEF Journal, Alone
<1>13. Types'
  <2>1. home \in [Node -> Kind \cup {None}] /\ AtOrBelow(Target(i)) \in SUBSET Node
    BY <1>3, TreeFacts DEF Types
  <2>2. [n \in AtOrBelow(Target(i)) |-> home[n]] \in [AtOrBelow(Target(i)) -> Kind \cup {None}]
    BY <2>1
  <2>3. home' \in [Node -> Kind \cup {None}]
    BY <2>1
  <2>4. [n \in AtOrBelow(Target(i)) |-> home[n]] \in UNION {[part -> Kind \cup {None}] : part \in SUBSET Node}
    BY <2>1, <2>2
  <2>5. trash' \in [Item -> {None} \cup UNION {[part -> Kind \cup {None}] : part \in SUBSET Node}]
    BY <2>4 DEF Types
  <2>6. at' \in [Removals -> Nat] /\ now' \in Nat
    BY <1>2
  <2> QED
    BY <1>1, <1>6, <2>3, <2>5, <2>6 DEF Types
<1>14. LogOrder' /\ Alone'
  BY <1>1, <1>7 DEF Journal, LogOrder, Alone, Running
<1>15. Batches'
  <2> USE DEF Journal, Batches, Distinct
  <2>1. \A c \in Commands : pc'[c] = "idle" => batch'[c] = <<>>
    BY <1>1, <1>6 DEF Running
  <2>2. \A c \in Commands : \A j, h \in DOMAIN batch'[c] :
          batch'[c][j].record.item = batch'[c][h].record.item => j = h
    <3>1. ASSUME NEW j \in DOMAIN batch'[o], NEW h \in DOMAIN batch'[o],
                 batch'[o][j].record.item = batch'[o][h].record.item
          PROVE  j = h
      <4>1. \A x \in DOMAIN batch[o] : batch'[o][x].record.item # i
        <5>1. \A x \in DOMAIN batch[o] : batch[o][x].record \in Known
          BY KnownFacts DEF BatchOf
        <5> QED
          BY <1>6, <1>10, <5>1
      <4>2. \A x \in DOMAIN batch'[o] : x \in DOMAIN batch[o] \/ x = Len(batch[o]) + 1
        BY <1>6
      <4>3. batch'[o][Len(batch[o]) + 1].record.item = i
        BY <1>4, <1>5, <1>6
      <4>4. CASE j \in DOMAIN batch[o] /\ h \in DOMAIN batch[o]
        <5>1. \A x, y \in DOMAIN batch[o] : batch[o][x].record.item = batch[o][y].record.item => x = y
          BY <1>2
        <5> QED
          BY ONLY <1>6, <3>1, <4>4, <5>1
      <4> QED
        BY ONLY <3>1, <4>1, <4>2, <4>3, <4>4
    <3>2. \A c \in Commands : c # o => \A j, h \in DOMAIN batch'[c] :
          batch'[c][j].record.item = batch'[c][h].record.item => j = h
      <4>1. \A c \in Commands : \A j, h \in DOMAIN batch[c] :
          batch[c][j].record.item = batch[c][h].record.item => j = h
        OBVIOUS
      <4> QED
        BY ONLY <1>6, <4>1
    <3> QED
      BY ONLY <3>1, <3>2
  <2>3. \A d \in Removals : \A j \in DOMAIN batch'[d] :
          /\ batch'[d][j].action = "trashed" /\ batch'[d][j].record.item[1] = d
          /\ \A s \in Logged' : s.item # batch'[d][j].record.item
    <3>1. ASSUME NEW j \in DOMAIN batch'[o]
          PROVE  /\ batch'[o][j].action = "trashed" /\ batch'[o][j].record.item[1] = o
                 /\ \A s \in Logged : s.item # batch'[o][j].record.item
      <4>1. j \in DOMAIN batch[o] \/ j = Len(batch[o]) + 1
        BY <1>6
      <4>2. \A x \in DOMAIN batch[o] : /\ batch[o][x].action = "trashed" /\ batch[o][x].record.item[1] = o
                                       /\ \A s \in Logged : s.item # batch[o][x].record.item
        OBVIOUS
      <4>3. \A s \in Logged : s.item # i
        BY <1>10, KnownFacts
      <4> QED
        BY ONLY <1>3, <1>4, <1>5, <1>6, <4>1, <4>2, <4>3
    <3>2. \A d \in Removals : d # o => batch'[d] = batch[d]
      BY <1>6, KindsOfCommands
    <3>3. \A d \in Removals : \A j \in DOMAIN batch[d] :
            /\ batch[d][j].action = "trashed" /\ batch[d][j].record.item[1] = d
            /\ \A s \in Logged : s.item # batch[d][j].record.item
      OBVIOUS
    <3> QED
      BY ONLY <1>7, <3>1, <3>2, <3>3
  <2>4. \A u \in Restores : \A j \in DOMAIN batch'[u] :
          /\ batch'[u][j].action = "restored" /\ batch'[u][j].record \in Logged'
          /\ batch'[u][j].record.item \notin Ended'
    <3>1. \A u \in Restores : \A j \in DOMAIN batch[u] :
            /\ batch[u][j].action = "restored" /\ batch[u][j].record \in Logged
            /\ batch[u][j].record.item \notin Ended
      OBVIOUS
    <3> QED
      BY ONLY <1>7, <1>8, <3>1
  <2>5. OfOneRestore'
    <3>1. OfOneRestore
      OBVIOUS
    <3>2. \A u \in Restores : BatchOf(u)' = BatchOf(u)
      BY <1>8 DEF BatchOf
    <3> QED
      BY ONLY <3>1, <3>2 DEF OfOneRestore
  <2> QED
    BY <2>1, <2>2, <2>3, <2>4, <2>5
<1>16. Records'
  <2> USE DEF Journal, Records
  <2>1. ASSUME NEW s \in Known'
        PROVE  s.orig = Target(s.item) /\ s.time < now' /\ s.item[2] <= at'[s.item[1]]
    <3>1. CASE s = r
      BY <1>2, <1>3, <1>4, <3>1
    <3>2. CASE s \in Known
      <4>1. s.item[1] \in Removals /\ s.item[2] <= at[s.item[1]] /\ s.item[2] \in Nat /\ s.time \in Nat /\ s.time < now
        BY <3>2, KnownFacts, ItemFacts
      <4>2. \A c \in Removals : at[c] \in Nat /\ at'[c] \in Nat /\ at[c] <= at'[c]
        BY <1>2
      <4> QED
        BY <1>2, <3>2, <4>1, <4>2
    <3> QED
      BY <1>9, <3>1, <3>2
  <2>2. ASSUME NEW s \in Known PROVE s.time < r.time /\ s.time \in Nat /\ r.time \in Nat
                                      /\ (s.item[1] = o => s.item[2] < i[2]) /\ s.item # i
    BY <1>2, <1>3, <1>4, <1>10, KnownFacts, ItemFacts
  <2>3. ASSUME NEW s \in Known', NEW t \in Known'
        PROVE  /\ s.item = t.item \/ s.time = t.time => s = t
               /\ s.item[1] = t.item[1] /\ s.time < t.time => s.item[2] < t.item[2]
    <3>1. CASE s \in Known /\ t \in Known
      BY <3>1
    <3>2. CASE s = r /\ t \in Known
      BY <1>4, <2>2, <3>2
    <3>3. CASE s \in Known /\ t = r
      BY <1>3, <1>4, <2>2, <3>3
    <3>4. CASE s = r /\ t = r
      BY <1>2, <1>4, <3>4
    <3> QED
      BY <1>9, <3>1, <3>2, <3>3, <3>4
  <2> QED
    BY <1>1, <1>7, <2>1, <2>3
<1>17. InTrash'
  <2>1. ASSUME NEW k \in Item
        PROVE  trash'[k] # None <=> (\E s \in Known' : s.item = k) /\ k \notin Ended' \cup Returned'
    <3>1. CASE k = i
      <4>1. home \in [Node -> Kind \cup {None}] /\ AtOrBelow(Target(i)) \in SUBSET Node
        BY <1>3, TreeFacts DEF Types
      <4>2. [n \in AtOrBelow(Target(i)) |-> home[n]] \in [AtOrBelow(Target(i)) -> Kind \cup {None}]
        BY <4>1
      <4>3. trash'[i] = [n \in AtOrBelow(Target(i)) |-> home[n]]
        BY <1>3 DEF Types
      <4>4. trash'[i] # None
        BY <4>1, <4>2, <4>3, TreeFacts
      <4> QED
        BY <1>4, <1>7, <1>8, <1>9, <1>11, <3>1, <4>4
    <3>2. CASE k # i
      <4>1. trash'[k] = trash[k]
        BY <3>2 DEF Types
      <4>2. (\E s \in Known' : s.item = k) <=> \E s \in Known : s.item = k
        BY <1>4, <1>9, <3>2
      <4> QED
        BY <1>7, <1>8, <4>1, <4>2 DEF Journal, InTrash
    <3> QED
      BY <3>1, <3>2
  <2> QED
    BY <2>1 DEF InTrash
<1>18. Todos'
  BY <1>1, <1>12 DEF Todos, Running
<1> QED
  BY <1>3, <1>10, <1>11, <1>12, <1>13, <1>14, <1>15, <1>16, <1>17, <1>18 DEF Journal

(* What a removal did is in the log, or a beginning of it, and it is over.  *)
LEMMA FinishRemovalJournal ==
  ASSUME Types, Journal, NEW o \in Removals, FinishRemoval(o)
  PROVE  /\ Types' /\ Journal' /\ \A u \in Restores : ~Running(u)
         /\ \A d \in Removals : Running(d)' => Running(d) /\ BatchOf(d)' = BatchOf(d)
<1>1. /\ Running(o) /\ (AppendBatch(o) \/ AppendPart(o))
      /\ \E label \in {"done", "failed"} : pc' = [pc EXCEPT ![o] = label]
      /\ UNCHANGED <<policy, home, trash, aside, now, at, todo, failed, hurt, aim>>
  BY DEF FinishRemoval, Goto, tree, ends
<1>2. o \in Commands /\ o \notin Restores /\ pc \in [Commands -> {"idle", "run", "done", "failed", "refused"}]
  BY KindsOfCommands DEF Types
<1>3. /\ \A c \in Commands : c # o => pc'[c] = pc[c]
      /\ pc'[o] \in {"done", "failed"} /\ pc' \in [Commands -> {"idle", "run", "done", "failed", "refused"}]
  BY <1>1, <1>2
<1>4. PICK k \in Nat : Appends(o, k) /\ torn' \in BOOLEAN
  BY <1>1, <1>2, AppendsSome
<1>5. /\ log' \in Seq(Event) /\ batch' \in [Commands -> Seq(Event)]
      /\ BatchOf(o) = FirstOf(o, k) \cup BatchOf(o)'
      /\ \A d \in Commands : d # o => batch'[d] = batch[d] /\ BatchOf(d)' = BatchOf(d)
  BY <1>2, <1>4, LogGrows
<1>6. /\ Logged' = Logged \cup FirstOf(o, k) /\ Ended' = Ended
      /\ Known' = Known /\ Returned' = Returned /\ LogOrder'
  BY <1>1, <1>4, RemovalLogs DEF Journal
<1>7. \A u \in Restores : ~Running(u)
  BY <1>1, <1>2 DEF Journal, Alone
<1>8. \A u \in Restores : ~Running(u)'
  BY <1>2, <1>3, <1>7, KindsOfCommands DEF Running
<1>9. Types'
  BY <1>1, <1>3, <1>4, <1>5 DEF Types
<1>10. Alone' /\ Todos'
  BY <1>8 DEF Alone, Todos
<1>11. \A r \in FirstOf(o, k) : r.item[1] = o
  BY <1>5, KnownFacts
<1>12. Batches'
  <2>1. \A c \in Commands : pc'[c] = "idle" => batch'[c] = <<>>
    <3>1. \A c \in Commands : pc[c] = "idle" => batch[c] = <<>>
      BY DEF Journal, Batches
    <3> QED
      BY ONLY <1>3, <1>5, <3>1
  <2>2. /\ Distinct' /\ \A d \in Commands : BatchOf(d)' \subseteq BatchOf(d)
        /\ \A d \in Commands : \A j \in DOMAIN batch'[d] : \E h \in DOMAIN batch[d] : batch'[d][j] = batch[d][h]
        /\ \A j \in DOMAIN batch'[o] : \A r \in FirstOf(o, k) : r.item # batch'[o][j].record.item
    BY <1>2, <1>4, RestOfBatch DEF Journal, Batches
  <2>3. OfOneRestore'
    BY <2>2, KindsOfCommands DEF Journal, Batches, OfOneRestore
  <2>4. ASSUME NEW d \in Removals, NEW j \in DOMAIN batch'[d]
        PROVE  /\ batch'[d][j].action = "trashed" /\ batch'[d][j].record.item[1] = d
               /\ \A r \in Logged' : r.item # batch'[d][j].record.item
    <3>1. PICK h \in DOMAIN batch[d] : batch'[d][j] = batch[d][h]
      BY <2>2, KindsOfCommands
    <3>2. /\ batch[d][h].action = "trashed" /\ batch[d][h].record.item[1] = d
          /\ \A r \in Logged : r.item # batch[d][h].record.item
      BY DEF Journal, Batches
    <3> QED
      BY <1>6, <1>11, <2>2, <3>1, <3>2
  <2>5. \A u \in Restores : \A j \in DOMAIN batch'[u] :
          /\ batch'[u][j].action = "restored" /\ batch'[u][j].record \in Logged'
          /\ batch'[u][j].record.item \notin Ended'
    <3>1. \A u \in Restores : batch'[u] = batch[u]
      BY <1>2, <1>5, KindsOfCommands
    <3> QED
      BY <1>6, <3>1 DEF Journal, Batches
  <2> QED
    BY <2>1, <2>2, <2>3, <2>4, <2>5 DEF Batches
<1>13. Records'
  <2>1. \A r \in Logged' : pc'[r.item[1]] \in {"done", "failed"}
    <3>1. \A r \in Logged : r.item[1] \in Commands /\ pc[r.item[1]] \in {"done", "failed"}
      BY KnownFacts, KindsOfCommands DEF Journal, Records
    <3> QED
      BY <1>2, <1>3, <1>6, <1>11, <3>1
  <2>2. Records
    BY DEF Journal
  <2> QED
    BY <1>1, <1>6, <2>1, <2>2 DEF Records, Target
<1>14. InTrash'
  BY <1>1, <1>6 DEF Journal, InTrash
<1>15. \A d \in Removals : Running(d)' => Running(d) /\ BatchOf(d)' = BatchOf(d)
  BY <1>3, <1>5, KindsOfCommands DEF Running
<1> QED
  BY <1>6, <1>7, <1>9, <1>10, <1>12, <1>13, <1>14, <1>15 DEF Journal

(* What a restore brought back has ended, or a beginning of it, and the    *)
(* restore is over.                                                        *)
LEMMA FinishRestoreJournal ==
  ASSUME Types, Journal, NEW u \in Restores, FinishRestore(u)
  PROVE  Types' /\ Journal' /\ (\A v \in Restores : ~Running(v)') /\ \A o \in Removals : ~Running(o)'
<1>1. /\ Running(u) /\ (AppendBatch(u) \/ AppendPart(u))
      /\ \E label \in {"done", "failed"} : pc' = [pc EXCEPT ![u] = label]
      /\ todo' = [todo EXCEPT ![u] = <<>>] /\ aim' = [aim EXCEPT ![u] = None]
      /\ failed' = failed \ {u} /\ hurt' = hurt \ {u}
      /\ UNCHANGED <<policy, home, trash, aside, now, at>>
  BY DEF FinishRestore, Goto, tree
<1>2. u \in Commands /\ u \notin Removals /\ pc \in [Commands -> {"idle", "run", "done", "failed", "refused"}]
  BY KindsOfCommands DEF Types
<1>3. /\ \A c \in Commands : c # u => pc'[c] = pc[c]
      /\ pc'[u] \in {"done", "failed"} /\ pc' \in [Commands -> {"idle", "run", "done", "failed", "refused"}]
  BY <1>1, <1>2
<1>4. PICK k \in Nat : Appends(u, k) /\ torn' \in BOOLEAN
  BY <1>1, <1>2, AppendsSome
<1>5. /\ log' \in Seq(Event) /\ batch' \in [Commands -> Seq(Event)]
      /\ BatchOf(u) = FirstOf(u, k) \cup BatchOf(u)'
      /\ \A d \in Commands : d # u => batch'[d] = batch[d] /\ BatchOf(d)' = BatchOf(d)
  BY <1>2, <1>4, LogGrows
<1>6. /\ Logged' = Logged /\ (Ended \cup Returned)' = Ended \cup Returned
      /\ Ended' = Ended \cup {r.item : r \in FirstOf(u, k)}
      /\ Known' = Known /\ LogOrder'
  BY <1>4, RestoreLogs DEF Journal
<1>7. \A c \in Commands : c # u => ~Running(c)
  BY <1>1, <1>2 DEF Journal, Alone
<1>8. \A c \in Commands : ~Running(c)'
  BY <1>2, <1>3, <1>7 DEF Running
<1>9. (\A v \in Restores : ~Running(v)') /\ \A o \in Removals : ~Running(o)'
  BY <1>8, KindsOfCommands
<1>10. Types'
  <2>1. todo' \in [Restores -> Seq(Record)] /\ DOMAIN aim' = Restores
    BY <1>1 DEF Types
  <2> QED
    BY <1>1, <1>3, <1>4, <1>5, <2>1 DEF Types
<1>11. Alone' /\ Todos'
  BY <1>9 DEF Alone, Todos
<1>12. Batches'
  <2>1. \A c \in Commands : pc'[c] = "idle" => batch'[c] = <<>>
    <3>1. \A c \in Commands : pc[c] = "idle" => batch[c] = <<>>
      BY DEF Journal, Batches
    <3> QED
      BY ONLY <1>3, <1>5, <3>1
  <2>2. /\ Distinct' /\ \A d \in Commands : BatchOf(d)' \subseteq BatchOf(d)
        /\ \A d \in Commands : \A j \in DOMAIN batch'[d] : \E h \in DOMAIN batch[d] : batch'[d][j] = batch[d][h]
        /\ \A j \in DOMAIN batch'[u] : \A r \in FirstOf(u, k) : r.item # batch'[u][j].record.item
    BY <1>2, <1>4, RestOfBatch DEF Journal, Batches
  <2>3. OfOneRestore'
    BY <2>2, KindsOfCommands DEF Journal, Batches, OfOneRestore
  <2>4. \A d \in Removals : \A j \in DOMAIN batch'[d] :
          /\ batch'[d][j].action = "trashed" /\ batch'[d][j].record.item[1] = d
          /\ \A r \in Logged' : r.item # batch'[d][j].record.item
    <3>1. \A d \in Removals : batch'[d] = batch[d]
      BY <1>2, <1>5, KindsOfCommands
    <3> QED
      BY <1>6, <3>1 DEF Journal, Batches
  <2>5. ASSUME NEW v \in Restores, NEW j \in DOMAIN batch'[v]
        PROVE  /\ batch'[v][j].action = "restored" /\ batch'[v][j].record \in Logged'
               /\ batch'[v][j].record.item \notin Ended'
    <3>1. PICK h \in DOMAIN batch[v] : batch'[v][j] = batch[v][h]
      BY <2>2, KindsOfCommands
    <3>2. /\ batch[v][h].action = "restored" /\ batch[v][h].record \in Logged
          /\ batch[v][h].record.item \notin Ended /\ batch[v][h].record \in BatchOf(v)
      BY DEF Journal, Batches, BatchOf
    <3>3. \A r \in FirstOf(u, k) : r.item # batch'[v][j].record.item
      <4>1. CASE v = u
        BY <2>2, <4>1
      <4>2. CASE v # u
        BY <1>5, <3>1, <3>2, <4>2 DEF Journal, Batches, OfOneRestore
      <4> QED
        BY <4>1, <4>2
    <3> QED
      BY <1>6, <3>1, <3>2, <3>3
  <2> QED
    BY <2>1, <2>2, <2>3, <2>4, <2>5 DEF Batches
<1>13. Records'
  <2>1. \A r \in Logged : pc'[r.item[1]] \in {"done", "failed"}
    <3>1. \A r \in Logged : r.item[1] \in Commands /\ r.item[1] # u /\ pc[r.item[1]] \in {"done", "failed"}
      BY <1>2, KnownFacts, KindsOfCommands DEF Journal, Records
    <3> QED
      BY <1>3, <3>1
  <2>2. Records
    BY DEF Journal
  <2> QED
    BY <1>1, <1>6, <2>1, <2>2 DEF Records, Target
<1>14. InTrash'
  BY <1>1, <1>6 DEF Journal, InTrash
<1> QED
  BY <1>6, <1>9, <1>10, <1>11, <1>12, <1>13, <1>14 DEF Journal

(* A restore goes on to its next record. *)
LEMMA TodoTail ==
  ASSUME Types, NEW u \in Restores, todo[u] # <<>>, todo' = [todo EXCEPT ![u] = Tail(@)]
  PROVE  /\ todo' \in [Restores -> Seq(Record)]
         /\ 1 \in DOMAIN todo[u] /\ Current(u) = todo[u][1]
         /\ \A j \in DOMAIN todo'[u] : j + 1 \in DOMAIN todo[u] /\ todo'[u][j] = todo[u][j + 1] /\ j \in Nat /\ j > 0
         /\ \A j \in DOMAIN todo[u] : j \in Nat /\ (j = 1 \/ (j - 1 \in DOMAIN todo'[u] /\ todo'[u][j - 1] = todo[u][j]))
         /\ \A v \in Restores : v # u => todo'[v] = todo[v]
<1>1. todo \in [Restores -> Seq(Record)] /\ todo[u] \in Seq(Record)
  BY DEF Types
<1>2. /\ Tail(todo[u]) \in Seq(Record) /\ Len(todo[u]) \in Nat /\ Len(todo[u]) >= 1
      /\ DOMAIN todo[u] = 1 .. Len(todo[u])
      /\ Len(Tail(todo[u])) = Len(todo[u]) - 1
      /\ DOMAIN Tail(todo[u]) = 1 .. Len(todo[u]) - 1
      /\ \A j \in 1 .. Len(todo[u]) - 1 : Tail(todo[u])[j] = todo[u][j + 1]
  BY <1>1, HeadTailProperties, EmptySeq
<1>3. todo' \in [Restores -> Seq(Record)] /\ todo'[u] = Tail(todo[u]) /\ \A v \in Restores : v # u => todo'[v] = todo[v]
  BY <1>1, <1>2
<1>4. 1 \in DOMAIN todo[u] /\ Current(u) = todo[u][1]
  BY <1>1, <1>2 DEF Current
<1>5. \A j \in DOMAIN todo'[u] : j + 1 \in DOMAIN todo[u] /\ todo'[u][j] = todo[u][j + 1] /\ j \in Nat /\ j > 0
  BY <1>2, <1>3
<1>6. ASSUME NEW j \in DOMAIN todo[u]
      PROVE  j \in Nat /\ (j = 1 \/ (j - 1 \in DOMAIN todo'[u] /\ todo'[u][j - 1] = todo[u][j]))
  <2>1. j \in 1 .. Len(todo[u])
    BY <1>2
  <2>2. CASE j = 1
    BY <2>2
  <2>3. CASE j # 1
    <3>1. j - 1 \in 1 .. Len(todo[u]) - 1 /\ (j - 1) + 1 = j
      BY <1>2, <2>1, <2>3
    <3> QED
      BY <1>2, <1>3, <2>1, <3>1
  <2> QED
    BY <2>2, <2>3
<1> QED
  BY <1>3, <1>4, <1>5, <1>6

(* The record in hand stays what it is. *)
LEMMA DropJournal ==
  ASSUME Types, Journal, NEW u \in Restores, Running(u), todo[u] # <<>>,
         todo' = [todo EXCEPT ![u] = Tail(@)],
         UNCHANGED <<policy, trash, aside, now, log, torn, pc, at, batch, aim>>,
         home' \in [Node -> Kind \cup {None}], failed' \subseteq Restores, hurt' \subseteq failed'
  PROVE  Types' /\ Journal'
<1>1. /\ todo' \in [Restores -> Seq(Record)]
      /\ \A j \in DOMAIN todo'[u] : j + 1 \in DOMAIN todo[u] /\ todo'[u][j] = todo[u][j + 1] /\ j \in Nat
      /\ \A v \in Restores : v # u => todo'[v] = todo[v]
  BY TodoTail
<1>2. Types'
  BY <1>1 DEF Types
<1>3. Known' = Known /\ Logged' = Logged /\ Ended' = Ended /\ Returned' = Returned /\ Restorings' = Restorings
      /\ Trashings' = Trashings
  BY SameLog, SameBatches, SameRecords
<1>4. LogOrder' /\ Alone' /\ Batches' /\ InTrash'
  BY <1>3 DEF Journal, LogOrder, Alone, Batches, Distinct, OfOneRestore, BatchOf, InTrash, Running
<1>5. Records'
  <2>1. Records
    BY DEF Journal
  <2> QED
    BY <1>3, <2>1 DEF Records
<1>6. Todos'
  <2>1. ASSUME NEW v \in Restores, Running(v)'
        PROVE  /\ \A j \in DOMAIN todo'[v] : todo'[v][j] \in Logged'
               /\ \A j, h \in DOMAIN todo'[v] : j < h => todo'[v][j].time > todo'[v][h].time
    <3>1. Running(v)
      BY <2>1 DEF Running
    <3>2. /\ \A j \in DOMAIN todo[v] : todo[v][j] \in Logged
          /\ \A j, h \in DOMAIN todo[v] : j < h => todo[v][j].time > todo[v][h].time
      BY <3>1 DEF Journal, Todos
    <3>3. CASE v # u
      BY <1>1, <1>3, <3>2, <3>3
    <3>4. CASE v = u
      <4>1. \A j \in DOMAIN todo'[u] : todo'[u][j] \in Logged'
        BY <1>1, <1>3, <3>2, <3>4
      <4>2. \A j, h \in DOMAIN todo'[u] : j < h => j + 1 < h + 1
        BY <1>1
      <4>3. \A j, h \in DOMAIN todo'[u] : j < h => todo'[u][j].time > todo'[u][h].time
        BY <1>1, <3>2, <3>4, <4>2
      <4> QED
        BY <3>4, <4>1, <4>3
    <3> QED
      BY <3>3, <3>4
  <2> QED
    BY <2>1 DEF Todos
<1> QED
  BY <1>2, <1>4, <1>5, <1>6 DEF Journal

(* The item of the record in hand leaves the trash, and no other does. *)
LEMMA ReturnJournal ==
  ASSUME Types, Journal, NEW u \in Restores, Running(u), todo[u] # <<>>,
         NEW r, r = Current(u), todo' = [todo EXCEPT ![u] = Tail(@)],
         Restored(u), trash[r.item] # None, UNCHANGED <<policy, now, log, torn, pc, at, aim>>,
         home' \in [Node -> Kind \cup {None}], aside' \subseteq Node
  PROVE  /\ Types' /\ Journal'
         /\ r \in Logged /\ r \in Record /\ r.orig = Target(r.item)
         /\ \A j \in DOMAIN todo'[u] : todo'[u][j].item # r.item /\ todo'[u][j].time < r.time
<1>1. /\ todo' \in [Restores -> Seq(Record)]
      /\ 1 \in DOMAIN todo[u] /\ r = todo[u][1]
      /\ \A j \in DOMAIN todo'[u] : j + 1 \in DOMAIN todo[u] /\ todo'[u][j] = todo[u][j + 1] /\ j \in Nat /\ j > 0
      /\ \A v \in Restores : v # u => todo'[v] = todo[v]
  BY TodoTail
<1>2. u \in Commands /\ u \notin Removals
  BY KindsOfCommands
<1>3. /\ r \in Logged
      /\ \A j, h \in DOMAIN todo[u] : j < h => todo[u][j].time > todo[u][h].time
      /\ \A j \in DOMAIN todo[u] : todo[u][j] \in Logged
  BY <1>1 DEF Journal, Todos
<1>4. r \in Record /\ r.item \in Item /\ r \in Known
  BY <1>3, KnownFacts
<1>5. r.item \notin Ended /\ r.item \notin Returned
  BY <1>4 DEF Journal, InTrash
<1> DEFINE e == [action |-> "restored", record |-> r]
<1>6. e \in Event /\ e.record = r /\ e.action = "restored"
  BY <1>4 DEF Event
<1>7. /\ batch' \in [Commands -> Seq(Event)]
      /\ \A d \in Commands : d # u => batch'[d] = batch[d] /\ BatchOf(d)' = BatchOf(d)
      /\ Len(batch[u]) \in Nat /\ DOMAIN batch[u] = 1 .. Len(batch[u])
      /\ DOMAIN batch'[u] = 1 .. Len(batch[u]) + 1
      /\ \A j \in DOMAIN batch[u] : batch'[u][j] = batch[u][j]
      /\ batch'[u][Len(batch[u]) + 1] = e
      /\ BatchOf(u)' = BatchOf(u) \cup {r}
  <2>1. batch' = [batch EXCEPT ![u] = Append(batch[u], e)]
    BY DEF Restored
  <2> HIDE DEF e
  <2> QED
    BY ONLY Types, <1>2, <1>6, <2>1, OneEvent
<1> HIDE DEF e
<1>8. Logged' = Logged /\ Ended' = Ended /\ Restorings' = Restorings /\ Trashings' = Trashings
  BY SameLog
<1>9. Known' = Known /\ \A d \in Removals : batch'[d] = batch[d]
  <2>1. \A d \in Removals : BatchOf(d)' = BatchOf(d) /\ batch'[d] = batch[d]
    BY <1>2, <1>7, KindsOfCommands
  <2> QED
    BY <1>8, <2>1 DEF Known
<1>10. Returned' = Returned \cup {r.item}
  <2>1. \A v \in Restores : BatchOf(v)' = IF v = u THEN BatchOf(u) \cup {r} ELSE BatchOf(v)
    BY <1>7, KindsOfCommands
  <2>2. \A i \in Item : i \in Returned' <=> i \in Returned \/ i = r.item
    BY <2>1 DEF Returned
  <2>3. Returned' \subseteq Item /\ Returned \subseteq Item
    BY DEF Returned
  <2> QED
    BY <1>4, <2>2, <2>3
<1>11. /\ trash' \in [Item -> {None} \cup UNION {[part -> Kind \cup {None}] : part \in SUBSET Node}]
       /\ trash'[r.item] = None /\ \A i \in Item : i # r.item => trash'[i] = trash[i]
  BY <1>4 DEF Types, Restored
<1>12. failed' \subseteq Restores /\ hurt' \subseteq failed'
  BY DEF Types, Restored, ends
<1>13. Types'
  BY <1>1, <1>7, <1>11, <1>12 DEF Types
<1>14. LogOrder' /\ Alone'
  BY <1>8 DEF Journal, LogOrder, Alone, Running
<1>15. Batches'
  <2> USE DEF Journal, Batches, Distinct
  <2>1. \A c \in Commands : pc'[c] = "idle" => batch'[c] = <<>>
    BY <1>7 DEF Running
  <2>2. \A c \in Commands : \A j, h \in DOMAIN batch'[c] :
          batch'[c][j].record.item = batch'[c][h].record.item => j = h
    <3>1. ASSUME NEW j \in DOMAIN batch'[u], NEW h \in DOMAIN batch'[u],
                 batch'[u][j].record.item = batch'[u][h].record.item
          PROVE  j = h
      <4>1. \A x \in DOMAIN batch[u] : batch'[u][x].record.item # r.item
        <5>1. \A x \in DOMAIN batch[u] : batch[u][x].record \in BatchOf(u) /\ batch[u][x].record \in Logged
          BY DEF BatchOf
        <5>2. \A x \in DOMAIN batch[u] : batch[u][x].record.item \in Returned
          BY <5>1, KnownFacts DEF Returned
        <5> QED
          BY <1>5, <1>7, <5>2
      <4>2. \A x \in DOMAIN batch'[u] : x \in DOMAIN batch[u] \/ x = Len(batch[u]) + 1
        BY <1>7
      <4>3. batch'[u][Len(batch[u]) + 1].record.item = r.item
        BY <1>6, <1>7
      <4>4. CASE j \in DOMAIN batch[u] /\ h \in DOMAIN batch[u]
        <5>1. \A x, y \in DOMAIN batch[u] : batch[u][x].record.item = batch[u][y].record.item => x = y
          BY <1>2
        <5> QED
          BY ONLY <1>7, <3>1, <4>4, <5>1
      <4> QED
        BY ONLY <3>1, <4>1, <4>2, <4>3, <4>4
    <3>2. \A c \in Commands : c # u => \A j, h \in DOMAIN batch'[c] :
          batch'[c][j].record.item = batch'[c][h].record.item => j = h
      BY <1>7
    <3> QED
      BY <3>1, <3>2
  <2>3. \A d \in Removals : \A j \in DOMAIN batch'[d] :
          /\ batch'[d][j].action = "trashed" /\ batch'[d][j].record.item[1] = d
          /\ \A s \in Logged' : s.item # batch'[d][j].record.item
    BY <1>8, <1>9
  <2>4. \A v \in Restores : \A j \in DOMAIN batch'[v] :
          /\ batch'[v][j].action = "restored" /\ batch'[v][j].record \in Logged'
          /\ batch'[v][j].record.item \notin Ended'
    <3>1. ASSUME NEW j \in DOMAIN batch'[u]
          PROVE  /\ batch'[u][j].action = "restored" /\ batch'[u][j].record \in Logged
                 /\ batch'[u][j].record.item \notin Ended
      <4>1. j \in DOMAIN batch[u] \/ j = Len(batch[u]) + 1
        BY <1>7
      <4> QED
        BY <1>3, <1>5, <1>6, <1>7, <4>1
    <3>2. \A v \in Restores : v # u => batch'[v] = batch[v]
      BY <1>7, KindsOfCommands
    <3> QED
      BY <1>8, <3>1, <3>2
  <2>5. OfOneRestore'
    <3>1. \A v \in Restores : \A s \in BatchOf(v) : s.item # r.item
      <4>1. \A v \in Restores : \A s \in BatchOf(v) : s \in Logged
        BY DEF BatchOf
      <4>2. \A v \in Restores : \A s \in BatchOf(v) : s.item \in Returned
        BY <4>1, KnownFacts DEF Returned
      <4> QED
        BY <1>5, <4>2
    <3>2. \A v \in Restores : BatchOf(v)' = IF v = u THEN BatchOf(u) \cup {r} ELSE BatchOf(v)
      BY <1>7, KindsOfCommands
    <3>3. OfOneRestore
      OBVIOUS
    <3> QED
      BY ONLY <3>1, <3>2, <3>3 DEF OfOneRestore
  <2> QED
    BY <2>1, <2>2, <2>3, <2>4, <2>5
<1>16. Records'
  <2>1. Records
    BY DEF Journal
  <2> QED
    BY <1>8, <1>9, <2>1 DEF Records
<1>17. InTrash'
  <2>1. \A i \in Item : trash[i] # None <=> (\E s \in Known : s.item = i) /\ i \notin Ended \cup Returned
    BY DEF Journal, InTrash
  <2> QED
    BY <1>8, <1>9, <1>10, <1>11, <2>1 DEF InTrash
<1>18. ASSUME NEW j \in DOMAIN todo'[u]
       PROVE  /\ todo'[u][j].item # r.item /\ todo'[u][j].time < r.time
              /\ todo'[u][j] \in Logged
  <2>1. j + 1 \in DOMAIN todo[u] /\ 1 < j + 1 /\ todo'[u][j] = todo[u][j + 1]
    BY <1>1
  <2>2. todo[u][j + 1] \in Logged /\ r.time > todo[u][j + 1].time
    BY <1>1, <1>3, <2>1
  <2>3. todo[u][j + 1] \in Known /\ todo[u][j + 1].item \in Item /\ todo[u][j + 1].time \in Nat /\ r.time \in Nat
    BY <1>4, <2>2, KnownFacts
  <2>4. todo[u][j + 1].item # r.item
    <3>1. todo[u][j + 1].item = r.item => todo[u][j + 1] = r
      BY <1>4, <2>3 DEF Journal, Records
    <3> QED
      BY <2>2, <2>3, <3>1
  <2> QED
    BY <1>11, <2>1, <2>2, <2>3, <2>4
<1>19. Todos'
  <2>1. \A v \in Restores : Running(v)' => v = u
    BY <1>2 DEF Journal, Alone, Running
  <2>2. \A j, h \in DOMAIN todo'[u] : j < h => j + 1 < h + 1
    BY <1>1
  <2>3. \A j, h \in DOMAIN todo'[u] : j < h => todo'[u][j].time > todo'[u][h].time
    BY <1>1, <1>3, <2>2
  <2> QED
    BY <1>8, <1>18, <2>1, <2>3 DEF Todos
<1>20. r.orig = Target(r.item)
  BY <1>4 DEF Journal, Records
<1> QED
  BY <1>3, <1>4, <1>13, <1>14, <1>15, <1>16, <1>17, <1>18, <1>19, <1>20 DEF Journal

(* What a restore selects, unless it is refused. *)
LEMMA Selected ==
  ASSUME NEW u \in Restores, Select(u)
  PROVE  /\ pc[u] = "idle" /\ Quiet
         /\ UNCHANGED <<policy, home, trash, aside, now, log, torn, at, batch, failed, hurt>>
         /\ \/ pc' = [pc EXCEPT ![u] = "refused"] /\ UNCHANGED <<todo, aim>>
            \/ \E o : \E S \in SUBSET Active :
                  Chosen(u, o, S) /\ (o = None \/ S = OfOperation(o))
<1>1. /\ pc[u] = "idle" /\ Quiet
      /\ UNCHANGED <<policy, home, trash, aside, now, log, torn, at, batch, failed, hurt>>
  BY DEF Select, tree, journal, ends
<1>2. \A ids : FindItems(ids) \subseteq Active
  BY DEF FindItems
<1>3. \A o : OfOperation(o) \subseteq Active
  BY DEF OfOperation
<1>4. CASE \E ids \in SUBSET Item : AllFound(ids) /\ Chosen(u, None, FindItems(ids))
  BY <1>1, <1>2, <1>4
<1>5. CASE \E o \in Removals : Chosen(u, o, OfOperation(o))
  BY <1>1, <1>3, <1>5
<1>6. CASE Active # {} /\ Chosen(u, (CHOOSE r \in LatestOperation : TRUE).item[1], LatestOperation)
  <2>1. PICK newest : LatestOperation = OfOperation(newest.item[1])
    BY DEF LatestOperation
  <2>2. LatestOperation # {}
    BY <1>6 DEF Chosen
  <2> DEFINE r == CHOOSE r \in LatestOperation : TRUE
  <2>3. r \in LatestOperation
    BY <2>2
  <2> HIDE DEF r
  <2>4. r.item[1] = newest.item[1] /\ r \in Active
    BY <2>1, <2>3 DEF OfOperation
  <2>5. Chosen(u, r.item[1], OfOperation(r.item[1]))
    BY <1>6, <2>1, <2>4 DEF r
  <2> QED
    BY <1>1, <1>3, <2>4, <2>5
<1>7. CASE pc' = [pc EXCEPT ![u] = "refused"] /\ UNCHANGED <<todo, aim>>
  BY <1>1, <1>7
<1> QED
  BY <1>1, <1>4, <1>5, <1>6, <1>7 DEF Select, Goto

(* A selection is sorted, and has what is active. *)
LEMMA ChosenFacts ==
  ASSUME Types, Journal, NEW S \in SUBSET Active
  PROVE  /\ NewestFirst(S) \in Seq(S) /\ NewestFirst(S) \in Seq(Record)
         /\ \A j, h \in DOMAIN NewestFirst(S) : j < h => NewestFirst(S)[j].time > NewestFirst(S)[h].time
         /\ \A r \in S : \E j \in DOMAIN NewestFirst(S) : NewestFirst(S)[j] = r
         /\ \A j \in DOMAIN NewestFirst(S) : NewestFirst(S)[j] \in S
         /\ \A r \in S : r \in Logged /\ r \in Record /\ r.item \notin Ended
<1>1. Active = {r \in Logged : r.item \notin Ended}
  BY ActiveIsNotEnded DEF Journal
<1>2. Logged \subseteq Known
  BY KnownFacts
<1>3. \A r \in S : r \in Logged /\ r \in Record /\ r.item \in Item /\ r.time \in Nat /\ r.item \notin Ended /\ r \in Known
  BY <1>1, <1>2, LogTypes
<1>4. IsFiniteSet(S)
  BY <1>3, LoggedIsFinite, FS_Subset
<1>5. \A r, s \in S : r.time = s.time => r = s
  BY <1>3 DEF Journal, Records
<1>6. /\ NewestFirst(S) \in Seq(S) /\ IsSorted(NewestFirst(S))
      /\ \A r \in S : \E j \in DOMAIN NewestFirst(S) : NewestFirst(S)[j] = r
  BY <1>3, <1>4, <1>5, NewestFirstSorts
<1>7. \A j \in DOMAIN NewestFirst(S) : NewestFirst(S)[j] \in S
  BY <1>6
<1>8. NewestFirst(S) \in Seq(Record)
  BY <1>3, <1>6
<1> QED
  BY <1>3, <1>6, <1>7, <1>8 DEF IsSorted

LEMMA SelectJournal ==
  ASSUME Types, Journal, NEW u \in Restores, Select(u)
  PROVE  Types' /\ Journal' /\ UNCHANGED <<home, trash, aside, batch>> /\ (\A v \in Restores : ~Running(v))
         /\ \A o \in Removals : ~Running(o)'
<1>1. /\ pc[u] = "idle" /\ Quiet
      /\ UNCHANGED <<policy, home, trash, aside, now, log, torn, at, batch, failed, hurt>>
      /\ \/ pc' = [pc EXCEPT ![u] = "refused"] /\ UNCHANGED <<todo, aim>>
         \/ \E o : \E S \in SUBSET Active : Chosen(u, o, S) /\ (o = None \/ S = OfOperation(o))
  BY Selected
<1>2. u \in Commands /\ u \notin Removals /\ pc \in [Commands -> {"idle", "run", "done", "failed", "refused"}]
  BY KindsOfCommands DEF Types
<1>3. /\ pc' \in [Commands -> {"idle", "run", "done", "failed", "refused"}]
      /\ pc'[u] \in {"run", "refused"} /\ \A c \in Commands : c # u => pc'[c] = pc[c]
  BY <1>1, <1>2 DEF Chosen, Goto
<1>4. \A c \in Commands : ~Running(c) /\ (Running(c)' => c = u)
  BY <1>1, <1>3 DEF Quiet, Running
<1>5. Known' = Known /\ Logged' = Logged /\ Ended' = Ended /\ Returned' = Returned /\ Restorings' = Restorings
      /\ Trashings' = Trashings
  BY <1>1, SameLog, SameBatches, SameRecords
<1>6. /\ todo' \in [Restores -> Seq(Record)] /\ DOMAIN aim' = Restores
      /\ Running(u)' =>
            /\ \A j \in DOMAIN todo'[u] : todo'[u][j] \in Logged
            /\ \A j, h \in DOMAIN todo'[u] : j < h => todo'[u][j].time > todo'[u][h].time
  <2>1. CASE pc' = [pc EXCEPT ![u] = "refused"] /\ UNCHANGED <<todo, aim>>
    BY <1>2, <2>1 DEF Types, Running
  <2>2. ASSUME NEW o, NEW S \in SUBSET Active, Chosen(u, o, S)
        PROVE  /\ todo' \in [Restores -> Seq(Record)] /\ DOMAIN aim' = Restores
               /\ \A j \in DOMAIN todo'[u] : todo'[u][j] \in Logged
               /\ \A j, h \in DOMAIN todo'[u] : j < h => todo'[u][j].time > todo'[u][h].time
    <3>1. todo' = [todo EXCEPT ![u] = NewestFirst(S)] /\ DOMAIN aim' = DOMAIN aim
      BY <2>2 DEF Chosen
    <3>2. /\ NewestFirst(S) \in Seq(Record)
          /\ \A j, h \in DOMAIN NewestFirst(S) : j < h => NewestFirst(S)[j].time > NewestFirst(S)[h].time
          /\ \A j \in DOMAIN NewestFirst(S) : NewestFirst(S)[j] \in S
          /\ \A r \in S : r \in Logged /\ r \in Record
      BY <1>1, ChosenFacts
    <3>3. todo' \in [Restores -> Seq(Record)] /\ todo'[u] = NewestFirst(S)
      BY <3>1, <3>2 DEF Types
    <3> QED
      BY <3>1, <3>2, <3>3 DEF Types
  <2> QED
    BY <1>1, <2>1, <2>2
<1>7. Types'
  BY <1>1, <1>3, <1>6 DEF Types
<1>8. LogOrder' /\ InTrash'
  BY <1>1, <1>5 DEF Journal, LogOrder, InTrash
<1>9. Alone'
  BY <1>4, KindsOfCommands DEF Alone
<1>10. Batches'
  <2>1. \A c \in Commands : pc'[c] = "idle" => batch'[c] = <<>>
    BY <1>1, <1>3 DEF Journal, Batches
  <2>2. Distinct' /\ OfOneRestore'
    BY <1>1 DEF Journal, Batches, Distinct, OfOneRestore, BatchOf
  <2> QED
    BY <1>1, <1>5, <2>1, <2>2 DEF Journal, Batches
<1>11. Records'
  <2>1. \A r \in Logged : pc'[r.item[1]] \in {"done", "failed"}
    <3>1. \A r \in Logged : r.item[1] \in Commands /\ r.item[1] # u /\ pc[r.item[1]] \in {"done", "failed"}
      BY <1>2, KnownFacts, KindsOfCommands DEF Journal, Records
    <3> QED
      BY <1>3, <3>1
  <2>2. Records
    BY DEF Journal
  <2> QED
    BY <1>1, <1>5, <2>1, <2>2 DEF Records, Target
<1>12. Todos'
  BY <1>1, <1>4, <1>5, <1>6, KindsOfCommands DEF Todos
<1> QED
  BY <1>1, <1>4, <1>7, <1>8, <1>9, <1>10, <1>11, <1>12, KindsOfCommands DEF Journal

(* The events do not tell of what the user makes and repairs. *)
LEMMA CreateJournal ==
  ASSUME Types, Journal, home' \in [Node -> Kind \cup {None}], torn' \in BOOLEAN,
         UNCHANGED <<policy, trash, aside, now, log, pc, work, ends, aim>>
  PROVE  Types' /\ Journal'
<1>1. UNCHANGED <<policy, trash, aside, now, log, pc, at, todo, batch, failed, hurt, aim>>
  BY DEF work, ends
<1>2. Known' = Known /\ Logged' = Logged /\ Ended' = Ended /\ Returned' = Returned /\ Restorings' = Restorings
      /\ Trashings' = Trashings
  BY <1>1, SameLog, SameBatches, SameRecords
<1>3. Types'
  BY <1>1 DEF Types
<1>4. LogOrder' /\ Alone' /\ Batches' /\ InTrash' /\ Todos'
  BY <1>1, <1>2 DEF Journal, LogOrder, Alone, Batches, Distinct, OfOneRestore, BatchOf, InTrash, Todos, Running
<1>5. Records'
  <2>1. Records
    BY DEF Journal
  <2> QED
    BY <1>1, <1>2, <2>1 DEF Records
<1> QED
  BY <1>3, <1>4, <1>5 DEF Journal
-----------------------------------------------------------------------------
(* The trees at home and in the trash: one action after the other *)

Trees == HomeTree /\ TrashTrees /\ StaysClear /\ Nested /\ OnePlace

LEMMA TypeFacts ==
  ASSUME Types
  PROVE  /\ home \in [Node -> Kind \cup {None}]
         /\ DOMAIN trash = Item /\ failed \subseteq Restores
         /\ \A n \in Node : home[n] = None \/ home[n] \in {"own", "made", "other"}
BY DEF Types, Kind

(* What is below a missing path is missing. *)
LEMMA NothingBelow ==
  ASSUME HomeTree, NEW n \in Node, home[n] = None, NEW m \in AtOrBelow(n)
  PROVE  home[m] = None
<1>1. m \in Node /\ (m = n \/ n \in Above[m])
  BY DEF AtOrBelow
<1>2. home[n] \notin {"own", "made"}
  BY TreeFacts DEF Kind
<1> QED
  BY <1>1, <1>2 DEF HomeTree

(* The trees stay when no path and no item changes. *)
LEMMA TreesStay ==
  ASSUME Trees, UNCHANGED <<home, trash, aside>>,
         \A o \in Removals : Running(o)' => BatchOf(o)' = {} \/ (Running(o) /\ BatchOf(o)' = BatchOf(o))
  PROVE  Trees'
<1>1. HomeTree' /\ TrashTrees' /\ Nested'
  BY DEF Trees, HomeTree, TrashTrees, Nested, AtOrBelow, Target
<1>2. StaysClear'
  BY DEF Trees, StaysClear, ParentsMakeable
<1>3. OnePlace'
  BY DEF Trees, OnePlace, Holding
<1> QED
  BY <1>1, <1>2, <1>3 DEF Trees

(* MkdirAll: missing directories are made where nothing else stands.       *)
LEMMA MadeDirs ==
  ASSUME Types, HomeTree, NEW D \in SUBSET Node,
         \A d \in D : Above[d] \subseteq D /\ home[d] \in {None, "own", "made"}
  PROVE  /\ WithDirs(D) \in [Node -> Kind \cup {None}]
         /\ \A n \in Node : home[n] # None => WithDirs(D)[n] = home[n]
         /\ \A n \in Node : WithDirs(D)[n] \in {home[n], "made"}
         /\ \A n \in Node \ D : WithDirs(D)[n] = home[n]
         /\ \A d \in D : WithDirs(D)[d] \in {"own", "made"}
         /\ \A n \in Node : WithDirs(D)[n] = "own" <=> home[n] = "own"
         /\ \A n \in Node : WithDirs(D)[n] # None => \A a \in Above[n] : WithDirs(D)[a] \in {"own", "made"}
<1> DEFINE W == WithDirs(D)
<1>1. home \in [Node -> Kind \cup {None}] /\ None \notin Kind
  BY TypeFacts, TreeFacts
<1>2. W = [n \in Node |-> IF n \in D /\ home[n] = None THEN "made" ELSE home[n]]
  BY DEF WithDirs
<1>3. /\ W \in [Node -> Kind \cup {None}]
      /\ \A n \in Node : home[n] # None => W[n] = home[n]
      /\ \A n \in Node : W[n] \in {home[n], "made"}
      /\ \A n \in Node \ D : W[n] = home[n]
  BY <1>1, <1>2 DEF Kind
<1>4. \A d \in D : W[d] \in {"own", "made"}
  BY <1>2
<1>5. \A n \in Node : W[n] = "own" <=> home[n] = "own"
  BY <1>1, <1>2 DEF Kind
<1>6. ASSUME NEW n \in Node, W[n] # None, NEW a \in Above[n]
      PROVE  W[a] \in {"own", "made"}
  <2>1. a \in Node
    BY TreeFacts
  <2>2. CASE n \in D
    BY <1>4, <2>2
  <2>3. CASE n \notin D
    <3>1. home[a] \in {"own", "made"}
      BY <1>3, <1>6, <2>3 DEF HomeTree
    <3> QED
      BY <1>1, <1>3, <2>1, <3>1 DEF Kind
  <2> QED
    BY <2>2, <2>3
<1> QED
  BY <1>3, <1>4, <1>5, <1>6

(* A restore runs alone. *)
LEMMA NoRemovalRuns ==
  ASSUME Journal, \/ Quiet
                  \/ \E u \in Restores : Running(u)
  PROVE  \A o \in Removals : ~Running(o)
BY KindsOfCommands DEF Quiet, Journal, Alone

(* Only missing directories are made, by a restore or by the user. *)
LEMMA HomeGrows ==
  ASSUME Types, Trees, UNCHANGED <<trash, aside>>, \A o \in Removals : ~Running(o)', HomeTree',
         \A n \in Node : home'[n] = "own" <=> home[n] = "own"
  PROVE  Trees'
<1>1. TrashTrees' /\ Nested'
  <2>1. TrashTrees /\ Nested /\ trash' = trash
    BY DEF Trees
  <2>2. TrashTrees'
    BY ONLY <2>1 DEF TrashTrees, AtOrBelow, Target
  <2>3. Nested'
    BY ONLY <2>1 DEF Nested, AtOrBelow, Target
  <2> QED
    BY <2>2, <2>3
<1>2. StaysClear'
  BY DEF StaysClear
<1>3. OnePlace'
  BY DEF Trees, OnePlace, Holding
<1> QED
  BY <1>1, <1>2, <1>3 DEF Trees

(* A target moves, with all that is below it. *)
LEMMA MoveTrees ==
  ASSUME Types, Journal, Trees, NEW o \in Removals, Running(o), at[o] \in Nat,
         NEW i \in Item, i = <<o, at[o] + 1>>, trash[i] = None, home[Target(i)] # None,
         NEW r, r = [item |-> i, orig |-> Target(i), time |-> now],
         trash' = [trash EXCEPT ![i] = [n \in AtOrBelow(Target(i)) |-> home[n]]],
         home' = [n \in Node |-> IF n \in AtOrBelow(Target(i)) THEN None ELSE home[n]],
         aside' = aside, pc' = pc,
         \A d \in Removals : BatchOf(d)' = IF d = o THEN BatchOf(o) \cup {r} ELSE BatchOf(d)
  PROVE  Trees'
<1> DEFINE t == Target(i)
           M == AtOrBelow(t)
<1>1. t \in Node /\ M \subseteq Node /\ t \in M
  BY ItemFacts, TreeFacts
<1>2. i[1] = o /\ i[2] = at[o] + 1 /\ i[2] \in Nat
  OBVIOUS
<1>3. home \in [Node -> Kind \cup {None}] /\ None \notin {"own", "made"}
  BY TypeFacts, TreeFacts DEF Kind
<1>4. \A n \in Node : home'[n] = IF n \in M THEN None ELSE home[n]
  OBVIOUS
<1>5. /\ trash'[i] = [n \in M |-> home[n]] /\ trash'[i] # None
      /\ \A k \in Item : k # i => trash'[k] = trash[k]
  <2>1. [n \in M |-> home[n]] \in [M -> Kind \cup {None}]
    BY <1>1, <1>3
  <2> QED
    BY <1>1, <2>1, TypeFacts, TreeFacts
<1>6. \A n \in Node : \A a \in Above[n] : a \in Node /\ (a \in M => n \in M)
  <2>1. \A n \in Node : \A a \in Above[n] : a \in Node /\ n \in AtOrBelow(a)
    BY TreeFacts DEF AtOrBelow
  <2> QED
    BY <1>1, <2>1, BelowIsTransitive
<1>7. \A a \in Above[t] : a \in Node /\ a \notin M
  BY <1>1, TreeFacts DEF AtOrBelow
<1> HIDE DEF M, t
<1>8. HomeTree'
  BY <1>3, <1>4, <1>6 DEF Trees, HomeTree
<1>9. TrashTrees'
  <2>1. ASSUME NEW k \in Item, trash'[k] # None
        PROVE  /\ trash'[k] \in [AtOrBelow(Target(k)) -> Kind \cup {None}]
               /\ trash'[k][Target(k)] # None
               /\ \A n \in AtOrBelow(Target(k)) : trash'[k][n] # None =>
                     \A a \in Above[n] : a \in AtOrBelow(Target(k)) => trash'[k][a] \in {"own", "made"}
    <3>1. CASE k = i
      <4>1. Target(k) = t /\ AtOrBelow(Target(k)) = M
        BY <3>1 DEF t, M
      <4>2. \A n \in M : trash'[i][n] = home[n] /\ n \in Node
        BY <1>1, <1>5
      <4>3. trash'[i] \in [M -> Kind \cup {None}] /\ trash'[i][t] # None
        BY <1>1, <1>3, <1>5, <4>2 DEF t
      <4>4. \A n \in M : home[n] # None => \A a \in Above[n] : home[a] \in {"own", "made"}
        BY <4>2 DEF Trees, HomeTree
      <4>5. \A n \in M : trash'[i][n] # None =>
               \A a \in Above[n] : a \in M => trash'[i][a] \in {"own", "made"}
        BY ONLY <4>2, <4>4
      <4> QED
        BY ONLY <3>1, <4>1, <4>3, <4>5
    <3>2. CASE k # i
      BY <1>5, <2>1, <3>2 DEF Trees, TrashTrees
    <3> QED
      BY <3>1, <3>2
  <2> QED
    BY <2>1 DEF TrashTrees, AtOrBelow, Target
<1>10. StaysClear'
  <2>1. home'[t] = None /\ \A a \in Above[t] : home'[a] \in {None, "own", "made"}
    <3>1. \A a \in Above[t] : home[a] \in {"own", "made"}
      BY <1>1 DEF Trees, HomeTree, t
    <3> QED
      BY <1>1, <1>4, <1>7, <3>1
  <2>2. ASSUME NEW d \in Removals, Running(d), NEW s \in BatchOf(d)
        PROVE  home'[s.orig] = None /\ \A a \in Above[s.orig] : home'[a] \in {None, "own", "made"}
    <3>1. home[s.orig] = None /\ \A a \in Above[s.orig] : home[a] \in {None, "own", "made"}
      BY <2>2 DEF Trees, StaysClear, ParentsMakeable
    <3>2. s.orig \in Node
      BY KnownFacts DEF Record
    <3> QED
      BY <1>4, <1>6, <3>1, <3>2
  <2>3. r.orig = t
    BY DEF t
  <2>4. \A d \in Removals : Running(d)' => \A s \in BatchOf(d)' :
          home'[s.orig] = None /\ \A a \in Above[s.orig] : home'[a] \in {None, "own", "made"}
    <3>1. \A d \in Removals : Running(d)' => Running(d)
      BY DEF Running
    <3>2. \A d \in Removals : \A s \in BatchOf(d)' : s = r \/ s \in BatchOf(d)
      OBVIOUS
    <3> QED
      BY ONLY <2>1, <2>2, <2>3, <3>1, <3>2
  <2> QED
    BY <2>4 DEF StaysClear, ParentsMakeable
<1>11. Nested'
  <2>1. ASSUME NEW k \in Item, k[1] = o, k[2] < i[2], trash[k] # None
        PROVE  home[Target(k)] = None /\ \A a \in Above[Target(k)] : home[a] \in {None, "own", "made"}
    <3>1. PICK s \in Known : s.item = k
      BY <2>1 DEF Journal, InTrash
    <3>2. s \notin Logged
      BY <2>1, <3>1 DEF Journal, Records, Running
    <3>3. s \in BatchOf(o)
      BY <2>1, <3>1, <3>2, KnownFacts DEF Known
    <3>4. s.orig = Target(k)
      BY <3>1 DEF Journal, Records
    <3> QED
      BY <3>3, <3>4 DEF Trees, StaysClear, ParentsMakeable
  <2>2. ASSUME NEW l \in Item, l[1] = o, i[2] < l[2] PROVE trash[l] = None
    <3>1. \A s \in Known : s.item # l
      <4>1. l[2] \in Nat
        BY ItemFacts
      <4> QED
        BY <1>2, <2>2, <4>1, KnownFacts
    <3> QED
      BY <3>1 DEF Journal, InTrash
  <2>3. ASSUME NEW k \in Item, NEW l \in Item, k[1] = l[1], k[2] < l[2], trash'[k] # None, trash'[l] # None
        PROVE  /\ Target(l) \notin AtOrBelow(Target(k))
               /\ Target(k) \in AtOrBelow(Target(l)) =>
                     /\ trash'[l][Target(k)] = None
                     /\ \A a \in Above[Target(k)] :
                           a \in AtOrBelow(Target(l)) => trash'[l][a] \in {None, "own", "made"}
    <3>1. k[2] \in Nat /\ l[2] \in Nat /\ k # l
      BY <2>3, ItemFacts
    <3>2. CASE k # i /\ l # i
      <4>1. trash'[k] = trash[k] /\ trash'[l] = trash[l]
        BY <1>5, <3>2
      <4> QED
        BY <2>3, <4>1 DEF Trees, Nested
    <3>3. CASE k = i
      <4>1. l[1] = o /\ i[2] < l[2] /\ trash'[l] = trash[l]
        BY <1>2, <1>5, <2>3, <3>1, <3>3
      <4> QED
        BY <2>2, <2>3, <4>1
    <3>4. CASE l = i
      <4>1. k[1] = o /\ k[2] < i[2] /\ trash'[k] = trash[k]
        BY <1>2, <1>5, <2>3, <3>1, <3>4
      <4>2. home[Target(k)] = None /\ \A a \in Above[Target(k)] : home[a] \in {None, "own", "made"}
        BY <2>1, <2>3, <4>1
      <4>3. Target(k) \in Node /\ Target(l) = t /\ AtOrBelow(Target(l)) = M
        BY <3>4, ItemFacts DEF t, M
      <4>4. t \notin AtOrBelow(Target(k))
        BY <4>2, <4>3, NothingBelow DEF Trees, t
      <4>5. \A n \in M : trash'[l][n] = home[n]
        BY <1>5, <3>4
      <4> QED
        BY <4>2, <4>3, <4>4, <4>5
    <3> QED
      BY <3>2, <3>3, <3>4
  <2> QED
    BY <2>3 DEF Nested, AtOrBelow, Target
<1>12. OnePlace'
  <2>1. \A n : Holding(n)' = {k \in Item : trash'[k] # None /\ n \in DOMAIN trash'[k] /\ trash'[k][n] = "own"}
    BY DEF Holding
  <2>2. ASSUME NEW n \in Node
        PROVE  Holding(n)' = IF n \in M /\ home[n] = "own" THEN Holding(n) \cup {i} ELSE Holding(n)
    <3>1. \A k \in Item : k # i => (k \in Holding(n)' <=> k \in Holding(n))
      BY <1>5, <2>1 DEF Holding
    <3>2. i \in Holding(n)' <=> n \in M /\ home[n] = "own"
      BY <1>5, <2>1
    <3>3. i \notin Holding(n) /\ Holding(n) \subseteq Item /\ Holding(n)' \subseteq Item
      BY <2>1 DEF Holding
    <3>4. CASE n \in M /\ home[n] = "own"
      <4>1. \A k \in Item : k \in Holding(n)' <=> k \in Holding(n) \cup {i}
        BY ONLY <3>1, <3>2, <3>4
      <4> QED
        BY ONLY <3>3, <3>4, <4>1, i \in Item
    <3>5. CASE ~(n \in M /\ home[n] = "own")
      <4>1. \A k \in Item : k \in Holding(n)' <=> k \in Holding(n)
        BY ONLY <3>1, <3>2, <3>3, <3>5
      <4> QED
        BY ONLY <3>3, <3>5, <4>1
    <3> QED
      BY ONLY <3>4, <3>5
  <2>3. ASSUME NEW n \in Node
        PROVE  \/ home'[n] = "own" /\ n \notin aside' /\ Holding(n)' = {}
               \/ home'[n] # "own" /\ n \in aside' /\ Holding(n)' = {}
               \/ home'[n] # "own" /\ n \notin aside' /\ \E k \in Item : Holding(n)' = {k}
    <3>1. \/ home[n] = "own" /\ n \notin aside /\ Holding(n) = {}
          \/ home[n] # "own" /\ n \in aside /\ Holding(n) = {}
          \/ home[n] # "own" /\ n \notin aside /\ \E k \in Item : Holding(n) = {k}
      BY DEF Trees, OnePlace
    <3> QED
      BY <1>3, <1>4, <2>2, <3>1
  <2> QED
    BY <2>3 DEF OnePlace
<1> QED
  BY <1>8, <1>9, <1>10, <1>11, <1>12 DEF Trees

(* The item of record r is back at its path, below the parents it needs.   *)
LEMMA BackHome ==
  ASSUME Types, Trees, NEW r \in Record, r.orig = Target(r.item), trash[r.item] # None,
         ParentsMakeable(r.orig), home[r.orig] = None, home' = WithItem(r)
  PROVE  /\ home' \in [Node -> Kind \cup {None}] /\ HomeTree'
         /\ \A n \in AtOrBelow(r.orig) : home[n] = None /\ home'[n] = trash[r.item][n]
         /\ \A n \in Node \ AtOrBelow(r.orig) :
               /\ home'[n] \in {home[n], "made"} /\ (home[n] # None => home'[n] = home[n])
               /\ n \notin Above[r.orig] => home'[n] = home[n]
               /\ home'[n] = "own" <=> home[n] = "own"
         /\ DOMAIN trash[r.item] = AtOrBelow(r.orig)
<1> DEFINE t == r.orig
           M == AtOrBelow(t)
           W == WithDirs(Above[t])
<1>1. r.item \in Item /\ t \in Node /\ M \subseteq Node
  BY TreeFacts DEF Record
<1>2. Above[t] \in SUBSET Node /\ \A d \in Above[t] : Above[d] \subseteq Above[t] /\ home[d] \in {None, "own", "made"}
  BY <1>1, TreeFacts DEF ParentsMakeable
<1>3. /\ W \in [Node -> Kind \cup {None}]
      /\ \A n \in Node : home[n] # None => W[n] = home[n]
      /\ \A n \in Node : W[n] \in {home[n], "made"}
      /\ \A n \in Node \ Above[t] : W[n] = home[n]
      /\ \A d \in Above[t] : W[d] \in {"own", "made"}
      /\ \A n \in Node : W[n] = "own" <=> home[n] = "own"
      /\ \A n \in Node : W[n] # None => \A a \in Above[n] : W[a] \in {"own", "made"}
  BY <1>2, MadeDirs DEF Trees
<1>4. /\ trash[r.item] \in [M -> Kind \cup {None}]
      /\ \A n \in M : trash[r.item][n] # None =>
            \A a \in Above[n] : a \in M => trash[r.item][a] \in {"own", "made"}
  BY <1>1 DEF Trees, TrashTrees
<1>5. home' = [n \in Node |-> IF n \in M THEN trash[r.item][n] ELSE W[n]]
  BY DEF WithItem
<1>6. /\ home' \in [Node -> Kind \cup {None}]
      /\ \A n \in M : home'[n] = trash[r.item][n]
      /\ \A n \in Node \ M : home'[n] = W[n]
  BY <1>1, <1>3, <1>4, <1>5
<1>7. \A n \in M : home[n] = None
  BY <1>1, NothingBelow DEF Trees
<1>8. ASSUME NEW n \in Node, NEW a \in Above[n]
      PROVE  /\ a \in Node /\ (a \in M => n \in M)
             /\ n \in M /\ a \notin M => a \in Above[t]
  <2>1. a \in Node /\ n \in AtOrBelow(a)
    BY TreeFacts DEF AtOrBelow
  <2>2. a \in M => n \in M
    BY <1>1, <2>1, BelowIsTransitive
  <2>3. n \in M /\ a \notin M => t \in AtOrBelow(a) /\ t # a
    BY <1>1, <2>1, Comparable, TreeFacts
  <2> QED
    BY <2>1, <2>2, <2>3 DEF AtOrBelow
<1> HIDE DEF W, M, t
<1>9. HomeTree'
  <2>1. ASSUME NEW n \in Node, home'[n] # None, NEW a \in Above[n]
        PROVE  home'[a] \in {"own", "made"}
    <3>1. CASE n \in M /\ a \in M
      BY <1>4, <1>6, <2>1, <3>1
    <3>2. CASE n \in M /\ a \notin M
      BY <1>3, <1>6, <1>8, <3>2
    <3>3. CASE n \notin M
      BY <1>3, <1>6, <1>8, <2>1, <3>3
    <3> QED
      BY <3>1, <3>2, <3>3
  <2> QED
    BY <2>1 DEF HomeTree
<1> QED
  BY <1>3, <1>4, <1>6, <1>7, <1>9 DEF M, t

LEMMA PutBackTrees ==
  ASSUME Types, Trees, NEW r \in Record, r.orig = Target(r.item), trash[r.item] # None,
         ParentsMakeable(r.orig), home[r.orig] = None, home' = WithItem(r),
         trash' = [trash EXCEPT ![r.item] = None], aside' = aside, \A o \in Removals : ~Running(o)'
  PROVE  Trees'
<1> DEFINE M == AtOrBelow(r.orig)
           i == r.item
<1>1. i \in Item /\ M \subseteq Node
  BY TreeFacts DEF Record
<1>2. /\ HomeTree' /\ DOMAIN trash[i] = M
      /\ \A n \in M : home[n] = None /\ home'[n] = trash[i][n]
      /\ \A n \in Node \ M : home'[n] = "own" <=> home[n] = "own"
  BY BackHome
<1>3. trash'[i] = None /\ \A k \in Item : k # i => trash'[k] = trash[k]
  BY <1>1, TypeFacts
<1> HIDE DEF M, i
<1>4. TrashTrees' /\ Nested'
  <2>1. TrashTrees'
    BY <1>3 DEF Trees, TrashTrees, AtOrBelow, Target
  <2>2. \A k \in Item : trash'[k] # None => trash[k] # None /\ trash'[k] = trash[k]
    BY <1>3
  <2>3. Nested
    BY DEF Trees
  <2>4. Nested'
    BY ONLY <2>2, <2>3 DEF Nested, AtOrBelow, Target
  <2> QED
    BY <2>1, <2>4
<1>5. StaysClear'
  BY DEF StaysClear
<1>6. OnePlace'
  <2>1. \A n : Holding(n)' = {k \in Item : trash'[k] # None /\ n \in DOMAIN trash'[k] /\ trash'[k][n] = "own"}
    BY DEF Holding
  <2>2. \A n : Holding(n)' = Holding(n) \ {i}
    BY <1>3, <2>1 DEF Holding
  <2>3. \A n : i \in Holding(n) <=> n \in M /\ trash[i][n] = "own"
    BY <1>1, <1>2 DEF Holding, i
  <2>4. None # "own"
    BY TreeFacts DEF Kind
  <2>5. ASSUME NEW n \in Node
        PROVE  \/ home'[n] = "own" /\ n \notin aside /\ Holding(n)' = {}
               \/ home'[n] # "own" /\ n \in aside /\ Holding(n)' = {}
               \/ home'[n] # "own" /\ n \notin aside /\ \E k \in Item : Holding(n)' = {k}
    <3>1. \/ home[n] = "own" /\ n \notin aside /\ Holding(n) = {}
          \/ home[n] # "own" /\ n \in aside /\ Holding(n) = {}
          \/ home[n] # "own" /\ n \notin aside /\ \E k \in Item : Holding(n) = {k}
      BY DEF Trees, OnePlace
    <3>2. CASE i \in Holding(n)
      <4>1. Holding(n) = {i} /\ n \notin aside /\ home'[n] = "own"
        BY <1>2, <2>3, <3>1, <3>2
      <4> QED
        BY <2>2, <4>1
    <3>3. CASE i \notin Holding(n)
      <4>1. Holding(n)' = Holding(n)
        BY <2>2, <3>3
      <4>2. home'[n] = "own" <=> home[n] = "own"
        BY <1>2, <2>3, <2>4, <3>3
      <4> QED
        BY <3>1, <4>1, <4>2
    <3> QED
      BY <3>2, <3>3
  <2> QED
    BY <2>5 DEF OnePlace
<1> QED
  BY <1>2, <1>4, <1>5, <1>6 DEF Trees

(* The item of record r is beside its path, under another name.            *)
LEMMA AsideTrees ==
  ASSUME Types, Trees, NEW r \in Record, r.orig = Target(r.item), trash[r.item] # None, home' = home,
         trash' = [trash EXCEPT ![r.item] = None],
         aside' = aside \cup {n \in DOMAIN trash[r.item] : trash[r.item][n] = "own"},
         \A o \in Removals : ~Running(o)'
  PROVE  Trees'
<1> DEFINE i == r.item
<1>1. i \in Item
  BY DEF Record
<1>2. trash'[i] = None /\ \A k \in Item : k # i => trash'[k] = trash[k]
  BY <1>1, TypeFacts
<1>3. \A n : n \in aside' <=> n \in aside \/ (n \in DOMAIN trash[i] /\ trash[i][n] = "own")
  OBVIOUS
<1>4. trash[i] # None
  OBVIOUS
<1> HIDE DEF i
<1>5. TrashTrees' /\ Nested'
  <2>1. TrashTrees'
    BY <1>2 DEF Trees, TrashTrees, AtOrBelow, Target
  <2>2. \A k \in Item : trash'[k] # None => trash[k] # None /\ trash'[k] = trash[k]
    BY <1>2
  <2>3. Nested
    BY DEF Trees
  <2>4. Nested'
    BY ONLY <2>2, <2>3 DEF Nested, AtOrBelow, Target
  <2> QED
    BY <2>1, <2>4
<1>6. StaysClear' /\ HomeTree'
  BY DEF Trees, StaysClear, HomeTree
<1>7. OnePlace'
  <2>1. \A n : Holding(n)' = {k \in Item : trash'[k] # None /\ n \in DOMAIN trash'[k] /\ trash'[k][n] = "own"}
    BY DEF Holding
  <2>2. \A n : Holding(n)' = Holding(n) \ {i}
    BY <1>2, <2>1 DEF Holding
  <2>3. \A n : i \in Holding(n) <=> n \in DOMAIN trash[i] /\ trash[i][n] = "own"
    BY <1>1, <1>4 DEF Holding
  <2>4. ASSUME NEW n \in Node
        PROVE  \/ home'[n] = "own" /\ n \notin aside' /\ Holding(n)' = {}
               \/ home'[n] # "own" /\ n \in aside' /\ Holding(n)' = {}
               \/ home'[n] # "own" /\ n \notin aside' /\ \E k \in Item : Holding(n)' = {k}
    <3>1. \/ home[n] = "own" /\ n \notin aside /\ Holding(n) = {}
          \/ home[n] # "own" /\ n \in aside /\ Holding(n) = {}
          \/ home[n] # "own" /\ n \notin aside /\ \E k \in Item : Holding(n) = {k}
      BY DEF Trees, OnePlace
    <3>2. CASE i \in Holding(n)
      <4>1. Holding(n) = {i} /\ home'[n] # "own" /\ n \in aside'
        BY <1>3, <2>3, <3>1, <3>2
      <4> QED
        BY <2>2, <4>1
    <3>3. CASE i \notin Holding(n)
      <4>1. Holding(n)' = Holding(n) /\ (n \in aside' <=> n \in aside)
        BY <1>3, <2>2, <2>3, <3>3
      <4> QED
        BY <3>1, <4>1
    <3> QED
      BY <3>2, <3>3
  <2> QED
    BY <2>4 DEF OnePlace
<1> QED
  BY <1>5, <1>6, <1>7 DEF Trees

(* A record that fails: some of its parents may have been made.            *)
LEMMA FailsAtHome ==
  ASSUME Types, HomeTree, NEW u \in Restores, RestoreFails(u), Current(u).orig \in Node
  PROVE  /\ home' \in [Node -> Kind \cup {None}] /\ HomeTree'
         /\ \A n \in Node : home'[n] = "own" <=> home[n] = "own"
<1> DEFINE reached == {a \in Above[Current(u).orig] : ParentsMakeable(a) /\ home[a] # "other"}
<1>1. home' = home \/ \E a \in reached : home' = WithDirs(Above[a] \cup {a})
  BY DEF RestoreFails
<1>2. CASE home' = home
  BY <1>2, TypeFacts DEF HomeTree
<1>3. ASSUME NEW a \in reached, home' = WithDirs(Above[a] \cup {a})
      PROVE  /\ home' \in [Node -> Kind \cup {None}] /\ HomeTree'
             /\ \A n \in Node : home'[n] = "own" <=> home[n] = "own"
  <2>1. a \in Node /\ Above[a] \subseteq Node
    BY TreeFacts
  <2>2. home[a] \in {None, "own", "made"}
    BY <2>1, TypeFacts
  <2>3. \A d \in Above[a] : Above[d] \subseteq Above[a] /\ home[d] \in {None, "own", "made"}
    BY <2>1, TreeFacts DEF ParentsMakeable
  <2>4. Above[a] \cup {a} \in SUBSET Node
        /\ \A d \in Above[a] \cup {a} : Above[d] \subseteq Above[a] \cup {a} /\ home[d] \in {None, "own", "made"}
    BY <2>1, <2>2, <2>3
  <2>5. /\ home' \in [Node -> Kind \cup {None}]
        /\ \A n \in Node : home'[n] = "own" <=> home[n] = "own"
        /\ \A n \in Node : home'[n] # None => \A b \in Above[n] : home'[b] \in {"own", "made"}
    BY <1>3, <2>4, MadeDirs
  <2> QED
    BY <2>5 DEF HomeTree
<1> QED
  BY <1>1, <1>2, <1>3

(* The user makes a file or a directory in a directory. *)
LEMMA CreatedAtHome ==
  ASSUME Types, HomeTree, NEW n \in Node, Create(n)
  PROVE  /\ home' \in [Node -> Kind \cup {None}] /\ HomeTree'
         /\ \A m \in Node : home'[m] = "own" <=> home[m] = "own"
<1>1. PICK kind \in {"other", "made"} : home' = [home EXCEPT ![n] = kind]
  BY DEF Create
<1>2. /\ home \in [Node -> Kind \cup {None}] /\ home[n] = None /\ None \notin Kind
      /\ \A a \in Above[n] : home[a] \in {"own", "made"}
  BY TypeFacts, TreeFacts DEF Create
<1>3. /\ home' \in [Node -> Kind \cup {None}] /\ home'[n] = kind
      /\ \A m \in Node : m # n => home'[m] = home[m]
  BY <1>1, <1>2 DEF Kind
<1>4. \A m \in Node : home'[m] = "own" <=> home[m] = "own"
  BY <1>2, <1>3 DEF Kind
<1>5. HomeTree'
  <2>1. ASSUME NEW m \in Node, home'[m] # None, NEW a \in Above[m] PROVE home'[a] \in {"own", "made"}
    <3>1. a \in Node /\ n \notin Above[n]
      BY TreeFacts
    <3>2. home[a] \in {"own", "made"}
      BY <1>2, <1>3, <2>1 DEF HomeTree
    <3>3. a # n
      BY <1>2, <3>2 DEF Kind
    <3> QED
      BY <1>3, <3>1, <3>2, <3>3
  <2> QED
    BY <2>1 DEF HomeTree
<1> QED
  BY <1>3, <1>4, <1>5
-----------------------------------------------------------------------------
(* The invariant *)

LEMMA InvInit == Init => Inv
<1> SUFFICES ASSUME Init PROVE Inv
  OBVIOUS
<1>1. <<>> \in Seq(Event) /\ <<>> \in Seq(Record) /\ DOMAIN <<>> = {}
  OBVIOUS
<1>2. Types
  <2>1. home \in [Node -> Kind \cup {None}] /\ "own" \in Kind
    BY DEF Init, Kind
  <2>2. trash \in [Item -> {None} \cup UNION {[part -> Kind \cup {None}] : part \in SUBSET Node}]
    BY DEF Init
  <2>3. pc \in [Commands -> {"idle", "run", "done", "failed", "refused"}] /\ at \in [Removals -> Nat]
    BY DEF Init
  <2>4. todo \in [Restores -> Seq(Record)] /\ batch \in [Commands -> Seq(Event)] /\ log \in Seq(Event)
    BY <1>1 DEF Init
  <2> QED
    BY <2>1, <2>2, <2>3, <2>4 DEF Init, Types
<1>3. Logged = {} /\ Restorings = {} /\ Ended = {}
  <2>1. Trashings = {} /\ Restorings = {}
    BY <1>1 DEF Init, Trashings, Restorings
  <2> QED
    BY <2>1 DEF Logged, Ended
<1>4. \A c \in Commands : batch[c] = <<>> /\ BatchOf(c) = {} /\ ~Running(c)
  BY <1>1 DEF Init, BatchOf, Running
<1>5. Known = {} /\ Returned = {}
  BY <1>3, <1>4, KindsOfCommands DEF Known, Returned
<1>6. LogOrder
  BY <1>1, <1>3 DEF Init, LogOrder
<1>7. Alone /\ Todos
  BY <1>4, KindsOfCommands DEF Alone, Todos
<1>8. Batches
  BY <1>1, <1>3, <1>4, KindsOfCommands DEF Batches, Distinct, OfOneRestore
<1>9. Records
  BY <1>3, <1>5 DEF Records
<1>10. \A i \in Item : trash[i] = None
  BY DEF Init
<1>11. InTrash /\ TrashTrees /\ Nested
  BY <1>5, <1>10 DEF InTrash, TrashTrees, Nested
<1>12. \A n \in Node : home[n] = "own" /\ n \notin aside
  BY DEF Init
<1>13. HomeTree
  BY <1>12, TreeFacts DEF HomeTree
<1>14. StaysClear
  BY <1>4, KindsOfCommands DEF StaysClear
<1>15. OnePlace
  BY <1>10, <1>12 DEF OnePlace, Holding
<1> QED
  BY <1>2, <1>6, <1>7, <1>8, <1>9, <1>11, <1>13, <1>14, <1>15 DEF Inv

LEMMA InvIsAllOfIt == Inv <=> Types /\ Journal /\ Trees
BY DEF Inv, Journal, Trees

LEMMA MoveKeepsInv ==
  ASSUME Inv, NEW o \in Removals, MoveTarget(o)
  PROVE  Inv'
<1>1. Types /\ Journal /\ Trees
  BY InvIsAllOfIt
<1>2. /\ Running(o) /\ at[o] < Len(Plan[o]) /\ at' = [at EXCEPT ![o] = @ + 1]
      /\ UNCHANGED <<policy, aside, log, torn, pc, todo, ends, aim>>
  BY DEF MoveTarget, journal
<1>3. CASE UNCHANGED <<home, trash, now, batch>>
  <2>1. Types' /\ Journal'
    BY <1>1, <1>2, <1>3, SkipJournal DEF tree
  <2>2. \A d \in Removals : Running(d)' => Running(d) /\ BatchOf(d)' = BatchOf(d)
    BY <1>2, <1>3, SameBatches, KindsOfCommands DEF Running
  <2>3. Trees'
    BY <1>1, <1>2, <1>3, <2>2, TreesStay
  <2> QED
    BY <2>1, <2>3 DEF Inv, Journal, Trees
<1>4. CASE ~UNCHANGED <<home, trash, now, batch>>
  <2>1. PICK i : i = <<o, at[o] + 1>>
    OBVIOUS
  <2>2. PICK r : r = [item |-> i, orig |-> Target(i), time |-> now]
    OBVIOUS
  <2>3. /\ home[Target(i)] # None
        /\ trash' = [trash EXCEPT ![i] = [n \in AtOrBelow(Target(i)) |-> home[n]]]
        /\ home' = [n \in Node |-> IF n \in AtOrBelow(Target(i)) THEN None ELSE home[n]]
        /\ now' = now + 1
        /\ batch' = [batch EXCEPT ![o] = Append(@, [action |-> "trashed", record |-> r])]
    BY <1>4, <2>1, <2>2 DEF MoveTarget
  <2>4. Types' /\ Journal' /\ i \in Item /\ trash[i] = None
    BY <1>1, <1>2, <2>1, <2>2, <2>3, MoveJournal
  <2>5. \A d \in Removals : BatchOf(d)' = IF d = o THEN BatchOf(o) \cup {r} ELSE BatchOf(d)
    <3> DEFINE e == [action |-> "trashed", record |-> r]
    <3>1. r \in Record
      BY <1>1, <2>2, <2>4, ItemFacts DEF Record, Types
    <3>2. e \in Event /\ e.record = r
      BY <3>1 DEF Event
    <3>3. batch' = [batch EXCEPT ![o] = Append(batch[o], e)]
      BY <2>3
    <3> HIDE DEF e
    <3>4. o \in Commands
      BY KindsOfCommands
    <3>5. /\ \A d \in Commands : d # o => BatchOf(d)' = BatchOf(d)
          /\ BatchOf(o)' = BatchOf(o) \cup {r}
      BY ONLY <1>1, <3>2, <3>3, <3>4, OneEvent
    <3> QED
      BY <3>5, KindsOfCommands
  <2>6. at[o] \in Nat /\ aside' = aside /\ pc' = pc
    BY <1>1, <1>2 DEF Types
  <2>7. Trees'
    BY ONLY <1>1, <1>2, <2>1, <2>2, <2>3, <2>4, <2>5, <2>6, MoveTrees
  <2> QED
    BY <2>4, <2>7 DEF Inv, Journal, Trees
<1> QED
  BY <1>3, <1>4

LEMMA PutBackKeepsInv ==
  ASSUME Inv, NEW u \in Restores, PutBack(u)
  PROVE  Inv'
<1>1. Types /\ Journal /\ Trees
  BY InvIsAllOfIt
<1>2. PICK r : r = Current(u)
  OBVIOUS
<1>3. /\ Running(u) /\ todo[u] # <<>> /\ trash[r.item] # None /\ ParentsMakeable(r.orig) /\ home[r.orig] = None
      /\ home' = WithItem(r) /\ todo' = [todo EXCEPT ![u] = Tail(@)] /\ Restored(u)
      /\ UNCHANGED <<policy, aside, now, log, torn, pc, at, aim>>
  BY <1>2 DEF PutBack, journal
<1>4. r \in Record /\ r \in Logged /\ r.orig = Target(r.item)
  <2>1. 1 \in DOMAIN todo[u] /\ r = todo[u][1]
    BY <1>1, <1>2, <1>3, TodoTail
  <2>2. r \in Logged
    BY <1>1, <1>3, <2>1 DEF Journal, Todos
  <2>3. r \in Known /\ r \in Record
    BY <1>1, <2>2, KnownFacts
  <2> QED
    BY <1>1, <2>2, <2>3 DEF Journal, Records
<1>5. home' \in [Node -> Kind \cup {None}]
  BY <1>1, <1>3, <1>4, BackHome
<1>6. aside' \subseteq Node
  BY <1>1, <1>3 DEF Types
<1>7. Types' /\ Journal'
  BY ONLY <1>1, <1>2, <1>3, <1>5, <1>6, ReturnJournal
<1>8. \A o \in Removals : ~Running(o)'
  BY <1>1, <1>3, NoRemovalRuns DEF Running
<1>9. trash' = [trash EXCEPT ![r.item] = None]
  BY <1>2, <1>3 DEF Restored
<1>10. Trees'
  BY ONLY <1>1, <1>3, <1>4, <1>8, <1>9, PutBackTrees
<1> QED
  BY <1>7, <1>10 DEF Inv, Journal, Trees

LEMMA CollideKeepsInv ==
  ASSUME Inv, NEW u \in Restores, Collide(u)
  PROVE  Inv'
<1>1. Types /\ Journal /\ Trees
  BY InvIsAllOfIt
<1>2. PICK r : r = Current(u)
  OBVIOUS
<1>3. /\ Running(u) /\ todo[u] # <<>> /\ trash[r.item] # None
      /\ todo' = [todo EXCEPT ![u] = Tail(@)]
      /\ UNCHANGED <<policy, home, now, log, torn, pc, at, aim>>
  BY <1>2 DEF Collide, journal
<1>4. home' \in [Node -> Kind \cup {None}]
  BY <1>1, <1>3, TypeFacts
<1>5. CASE failed' = failed \cup {u} /\ UNCHANGED <<trash, aside, batch, hurt>>
  <2>1. failed' \subseteq Restores /\ hurt' \subseteq failed'
    BY <1>1, <1>5 DEF Types
  <2>2. Types' /\ Journal'
    BY ONLY <1>1, <1>3, <1>4, <1>5, <2>1, DropJournal
  <2>3. \A o \in Removals : ~Running(o)'
    BY <1>1, <1>3, NoRemovalRuns DEF Running
  <2>4. Trees'
    BY <1>1, <1>3, <1>5, <2>3, TreesStay
  <2> QED
    BY <2>2, <2>4 DEF Inv, Journal, Trees
<1>6. CASE /\ Restored(u)
           /\ aside' = aside \cup {n \in DOMAIN trash[r.item] : trash[r.item][n] = "own"}
  <2>1. r \in Record /\ r \in Logged /\ r.orig = Target(r.item)
    <3>1. 1 \in DOMAIN todo[u] /\ r = todo[u][1]
      BY <1>1, <1>2, <1>3, TodoTail
    <3>2. r \in Logged
      BY <1>1, <1>3, <3>1 DEF Journal, Todos
    <3>3. r \in Known /\ r \in Record
      BY <1>1, <3>2, KnownFacts
    <3> QED
      BY <1>1, <3>2, <3>3 DEF Journal, Records
  <2>2. aside' \subseteq Node
    <3>1. DOMAIN trash[r.item] \subseteq Node
      BY <1>1, <1>3, <2>1, TreeFacts, ItemFacts DEF Trees, TrashTrees, Record
    <3> QED
      BY <1>1, <1>6, <3>1 DEF Types
  <2>3. Types' /\ Journal'
    BY ONLY <1>1, <1>2, <1>3, <1>4, <1>6, <2>2, ReturnJournal
  <2>4. \A o \in Removals : ~Running(o)'
    BY <1>1, <1>3, NoRemovalRuns DEF Running
  <2>5. trash' = [trash EXCEPT ![r.item] = None] /\ home' = home
    BY <1>2, <1>3, <1>6 DEF Restored
  <2>6. Trees'
    BY ONLY <1>1, <1>3, <1>6, <2>1, <2>4, <2>5, AsideTrees
  <2> QED
    BY <2>3, <2>6 DEF Inv, Journal, Trees
<1> QED
  BY <1>2, <1>5, <1>6 DEF Collide

LEMMA FailsKeepsInv ==
  ASSUME Inv, NEW u \in Restores, RestoreFails(u)
  PROVE  Inv'
<1>1. Types /\ Journal /\ Trees
  BY InvIsAllOfIt
<1>2. /\ Running(u) /\ todo[u] # <<>>
      /\ todo' = [todo EXCEPT ![u] = Tail(@)]
      /\ failed' = failed \cup {u} /\ hurt' = hurt \cup {u}
      /\ UNCHANGED <<policy, trash, aside, now, log, torn, pc, at, batch, aim>>
  BY DEF RestoreFails, journal
<1>3. Current(u).orig \in Node
  <2>1. 1 \in DOMAIN todo[u] /\ Current(u) = todo[u][1] /\ todo[u] \in Seq(Record)
    BY <1>1, <1>2, TodoTail DEF Types
  <2>2. Current(u) \in Record
    BY <2>1
  <2> QED
    BY <2>2 DEF Record
<1>4. /\ home' \in [Node -> Kind \cup {None}] /\ HomeTree'
      /\ \A n \in Node : home'[n] = "own" <=> home[n] = "own"
  BY <1>1, <1>3, FailsAtHome DEF Trees
<1>5. failed' \subseteq Restores /\ hurt' \subseteq failed'
  BY <1>1, <1>2 DEF Types
<1>6. Types' /\ Journal'
  BY ONLY <1>1, <1>2, <1>4, <1>5, DropJournal
<1>7. \A o \in Removals : ~Running(o)'
  BY <1>1, <1>2, NoRemovalRuns DEF Running
<1>8. Trees'
  BY ONLY <1>1, <1>2, <1>4, <1>7, HomeGrows
<1> QED
  BY <1>6, <1>8 DEF Inv, Journal, Trees

LEMMA CreateKeepsInv ==
  ASSUME Inv, NEW n \in Node, Create(n)
  PROVE  Inv'
<1>1. Types /\ Journal /\ Trees
  BY InvIsAllOfIt
<1>2. Quiet /\ UNCHANGED <<policy, trash, aside, now, log, torn, pc, work, ends, aim>> /\ torn' \in BOOLEAN
  BY <1>1 DEF Create, journal, Types
<1>3. /\ home' \in [Node -> Kind \cup {None}] /\ HomeTree'
      /\ \A m \in Node : home'[m] = "own" <=> home[m] = "own"
  BY <1>1, CreatedAtHome DEF Trees
<1>4. Types' /\ Journal'
  BY ONLY <1>1, <1>2, <1>3, CreateJournal
<1>5. \A o \in Removals : ~Running(o)'
  BY <1>1, <1>2, NoRemovalRuns DEF Running
<1>6. UNCHANGED <<trash, aside>>
  BY <1>2
<1>7. Trees'
  BY ONLY <1>1, <1>3, <1>5, <1>6, HomeGrows
<1> QED
  BY <1>4, <1>7 DEF Inv, Journal, Trees

LEMMA RepairKeepsInv == ASSUME Inv, Repair PROVE Inv'
<1>1. Types /\ Journal /\ Trees
  BY InvIsAllOfIt
<1>2. Quiet /\ UNCHANGED <<policy, home, trash, aside, now, log, pc, work, ends, aim>> /\ torn' \in BOOLEAN
  BY DEF Repair, tree
<1>3. Types' /\ Journal'
  <2>1. home' \in [Node -> Kind \cup {None}]
    BY <1>1, <1>2, TypeFacts
  <2> QED
    BY ONLY <1>1, <1>2, <2>1, CreateJournal
<1>4. \A o \in Removals : ~Running(o)'
  BY <1>1, <1>2, NoRemovalRuns DEF Running
<1>5. Trees'
  BY <1>1, <1>2, <1>4, TreesStay
<1> QED
  BY <1>3, <1>5 DEF Inv, Journal, Trees

LEMMA InvNext == Inv /\ [Next]_vars => Inv'
<1> SUFFICES ASSUME Inv, [Next]_vars PROVE Inv'
  OBVIOUS
<1>1. Types /\ Journal /\ Trees
  BY InvIsAllOfIt
<1>2. ASSUME NEW o \in Removals, Start(o) PROVE Inv'
  <2>1. /\ Types' /\ Journal' /\ BatchOf(o) = {} /\ UNCHANGED <<home, trash, aside, batch>>
        /\ \A d \in Removals : d # o /\ Running(d)' => Running(d)
    BY <1>1, <1>2, StartJournal DEF Start, tree, work
  <2>2. \A d \in Removals : BatchOf(d)' = BatchOf(d)
    BY <2>1, SameBatches, KindsOfCommands
  <2>3. Trees'
    BY <1>1, <2>1, <2>2, TreesStay
  <2> QED
    BY <2>1, <2>3 DEF Inv, Journal, Trees
<1>3. ASSUME NEW o \in Removals, FinishRemoval(o) PROVE Inv'
  <2>1. /\ Types' /\ Journal' /\ UNCHANGED <<home, trash, aside>>
        /\ \A d \in Removals : Running(d)' => Running(d) /\ BatchOf(d)' = BatchOf(d)
    BY <1>1, <1>3, FinishRemovalJournal DEF FinishRemoval, tree
  <2>2. Trees'
    BY <1>1, <2>1, TreesStay
  <2> QED
    BY <2>1, <2>2 DEF Inv, Journal, Trees
<1>4. ASSUME NEW u \in Restores, Select(u) PROVE Inv'
  <2>1. Types' /\ Journal' /\ UNCHANGED <<home, trash, aside, batch>> /\ \A o \in Removals : ~Running(o)'
    BY <1>1, <1>4, SelectJournal
  <2>2. Trees'
    BY <1>1, <2>1, TreesStay
  <2> QED
    BY <2>1, <2>2 DEF Inv, Journal, Trees
<1>5. ASSUME NEW u \in Restores, FinishRestore(u) PROVE Inv'
  <2>1. Types' /\ Journal' /\ UNCHANGED <<home, trash, aside>> /\ \A o \in Removals : ~Running(o)'
    BY <1>1, <1>5, FinishRestoreJournal DEF FinishRestore, tree
  <2>2. Trees'
    BY <1>1, <2>1, TreesStay
  <2> QED
    BY <2>1, <2>2 DEF Inv, Journal, Trees
<1>6. CASE UNCHANGED vars
  <2>1. UNCHANGED <<policy, home, trash, aside, now, log, torn, pc, at, todo, batch, failed, hurt, aim>>
    BY <1>6 DEF vars, tree, journal, work, ends
  <2>2. Types' /\ Journal'
    <3>1. torn' \in BOOLEAN /\ home' \in [Node -> Kind \cup {None}]
      BY <1>1, <2>1, TypeFacts DEF Types
    <3> QED
      BY <1>1, <2>1, <3>1, CreateJournal DEF work, ends
  <2>3. \A o \in Removals : Running(o)' => Running(o) /\ BatchOf(o)' = BatchOf(o)
    BY <2>1, SameBatches, KindsOfCommands DEF Running
  <2>4. Trees'
    BY <1>1, <2>1, <2>3, TreesStay
  <2> QED
    BY <2>2, <2>4 DEF Inv, Journal, Trees
<1> QED
  BY <1>2, <1>3, <1>4, <1>5, <1>6, MoveKeepsInv, PutBackKeepsInv, CollideKeepsInv, FailsKeepsInv,
     CreateKeepsInv, RepairKeepsInv DEF Next

(* The journal, the trash and the home agree, whatever commands run,       *)
(* wherever they stop or are killed, and whatever part of a batch the      *)
(* journal takes: what separates them is what is left in the batches       *)
(* (internal/journal, internal/removal, internal/restore).                 *)
THEOREM InvAlways == Spec => []Inv
BY InvInit, InvNext, PTL DEF Spec
-----------------------------------------------------------------------------
(* What the runs check *)

(* Whenever no command runs, list and restore show the items that are in   *)
(* the trash, but for exactly those whose event a failed append or a       *)
(* killed command left out (ActiveItems, internal/journal; Execute,        *)
(* internal/removal; Restore, internal/restore).                           *)
THEOREM ListIsTheTrash == Spec => []TrashIsListed
<1>1. ASSUME Inv PROVE TrashIsListed
  <2>1. Types /\ Journal
    BY <1>1, InvIsAllOfIt
  <2>2. Active = {r \in Logged : r.item \notin Ended}
    BY <2>1, ActiveIsNotEnded DEF Journal
  <2>3. ASSUME NEW i \in Item
        PROVE  trash[i] # None <=> (\E r \in Known : r.item = i) /\ i \notin Ended \cup Returned
    BY <2>1 DEF Journal, InTrash
  <2>4. ASSUME NEW i \in Item PROVE i \in Returned => i \notin Ended /\ \E r \in Logged : r.item = i
    BY <2>1 DEF Journal, Batches, Returned, BatchOf
  <2>5. \A i \in Ended : \E r \in Logged : r.item = i
    <3>1. \A h \in Restorings : \E j \in Trashings : log[j].record = log[h].record
      BY <2>1 DEF Journal, LogOrder
    <3> QED
      BY <3>1 DEF Ended, Logged
  <2>6. ASSUME NEW i, NEW o \in Removals, i \in UnwrittenBy(o)
        PROVE  (\E r \in Known : r.item = i) /\ \A r \in Logged : r.item # i
    <3>1. PICK j \in DOMAIN batch[o] : i = batch[o][j].record.item
      BY <2>6 DEF UnwrittenBy
    <3>2. batch[o][j].record \in Known
      BY DEF Known, BatchOf
    <3> QED
      BY <2>1, <3>1, <3>2 DEF Journal, Batches
  <2>7. ASSUME NEW i \in Item PROVE i \in Unwritten <=> i \in Returned \/ \E o \in Removals : i \in UnwrittenBy(o)
    <3>1. i \in Returned <=> \E u \in Restores : i \in UnwrittenBy(u)
      BY DEF Returned, UnwrittenBy, BatchOf
    <3>2. i \in Unwritten <=> \E c \in Commands : i \in UnwrittenBy(c)
      BY DEF Unwritten
    <3> QED
      BY <3>1, <3>2, KindsOfCommands
  <2>8. ASSUME NEW i \in Item, \A o \in Removals : i \notin UnwrittenBy(o)
        PROVE  (\E r \in Known : r.item = i) => \E r \in Logged : r.item = i
    BY <2>8 DEF Known, UnwrittenBy, BatchOf
  <2>9. ASSUME NEW i \in Item PROVE (trash[i] # None) # (\E r \in Active : r.item = i) <=> i \in Unwritten
    <3>1. (\E r \in Active : r.item = i) <=> (\E r \in Logged : r.item = i) /\ i \notin Ended
      BY <2>2
    <3>2. CASE \E o \in Removals : i \in UnwrittenBy(o)
      <4>1. (\E r \in Known : r.item = i) /\ ~\E r \in Logged : r.item = i
        BY <2>6, <3>2
      <4>2. i \notin Ended /\ i \notin Returned
        BY <2>4, <2>5, <4>1
      <4> QED
        BY <2>3, <2>7, <3>1, <3>2, <4>1, <4>2
    <3>3. CASE \A o \in Removals : i \notin UnwrittenBy(o)
      <4>1. (\E r \in Known : r.item = i) <=> \E r \in Logged : r.item = i
        BY <2>1, <2>8, <3>3, KnownFacts
      <4>2. i \in Unwritten <=> i \in Returned
        BY <2>7, <3>3
      <4>3. CASE i \in Returned
        BY <2>3, <2>4, <3>1, <4>2, <4>3
      <4>4. CASE i \notin Returned
        BY <2>3, <3>1, <4>1, <4>2, <4>4
      <4> QED
        BY <4>3, <4>4
    <3> QED
      BY <3>2, <3>3
  <2>10. Unwritten \subseteq Item
    <3>1. \A c \in Commands : \A r \in BatchOf(c) : r.item \in Item
      BY <2>1, LogTypes DEF Record
    <3> QED
      BY <3>1 DEF Unwritten, UnwrittenBy, BatchOf
  <2>11. {i \in Item : (trash[i] # None) # (\E r \in Active : r.item = i)} = Unwritten
    BY ONLY <2>9, <2>10
  <2> QED
    BY <2>11 DEF TrashIsListed
<1> QED
  BY <1>1, InvAlways, PTL

(* No removal and no restore loses or doubles what the user had: it moves  *)
(* between the home, the trash and a sibling name (the renames of          *)
(* MoveToTrash and of Restore).                                            *)
THEOREM NoEntryIsLost == Spec => []EntriesSurvive
<1>1. ASSUME Inv PROVE EntriesSurvive
  <2> SUFFICES ASSUME NEW n \in Node
               PROVE  Cardinality(Holding(n)) + (IF home[n] = "own" THEN 1 ELSE 0)
                        + (IF n \in aside THEN 1 ELSE 0) = 1
    BY DEF EntriesSurvive, Holding
  <2>1. \/ home[n] = "own" /\ n \notin aside /\ Holding(n) = {}
        \/ home[n] # "own" /\ n \in aside /\ Holding(n) = {}
        \/ home[n] # "own" /\ n \notin aside /\ \E i \in Item : Holding(n) = {i}
    BY <1>1 DEF Inv, OnePlace
  <2>2. Cardinality({}) = 0
    BY FS_EmptySet
  <2>3. \A i \in Item : Cardinality({i}) = 1
    BY FS_Singleton
  <2> QED
    BY <2>1, <2>2, <2>3
<1> QED
  BY <1>1, InvAlways, PTL

(* The clock counts the moves, of which there is one for a target. *)
Past == {i \in Item : i[2] <= at[i[1]]}
Counted == now <= Cardinality(Past)

LEMMA PastIsFinite ==
  IsFiniteSet(Past) /\ Cardinality(Past) \in Nat /\ Cardinality(Item) \in Nat /\ Cardinality(Past) <= Cardinality(Item)
<1>1. Past \subseteq Item
  BY DEF Past
<1> QED
  BY <1>1, ItemsAreFinite, FS_Subset, FS_CardinalityType

LEMMA CountedNext == Inv /\ Counted /\ [Next]_vars => Counted'
<1> SUFFICES ASSUME Inv, Counted, [Next]_vars PROVE Counted'
  OBVIOUS
<1>1. Types /\ Journal
  BY InvIsAllOfIt
<1>2. now \in Nat /\ at \in [Removals -> Nat]
  BY <1>1 DEF Types
<1>3. ASSUME NEW o \in Removals, MoveTarget(o) PROVE Counted'
  <2>1. /\ at[o] < Len(Plan[o]) /\ at' = [at EXCEPT ![o] = @ + 1] /\ at[o] \in Nat
        /\ now' = now \/ now' = now + 1
    BY <1>2, <1>3 DEF MoveTarget
  <2>2. PICK i : i = <<o, at[o] + 1>>
    OBVIOUS
  <2>3. i \in Item /\ i[1] = o /\ i[2] = at[o] + 1
    <3>1. Len(Plan[o]) \in Nat /\ DOMAIN Plan[o] = 1 .. Len(Plan[o])
      BY ItemFacts
    <3>2. at[o] + 1 \in DOMAIN Plan[o]
      BY <2>1, <3>1
    <3> QED
      BY <2>2, <3>2, ItemFacts
  <2>4. Past' = Past \cup {i} /\ i \notin Past
    <3>1. \A k \in Item : k \in Past' <=> k \in Past \/ k = i
      <4> SUFFICES ASSUME NEW k \in Item PROVE k[2] <= at'[k[1]] <=> k[2] <= at[k[1]] \/ k = i
        BY DEF Past
      <4>1. k[1] \in Removals /\ k[2] \in Nat /\ k = <<k[1], k[2]>>
        BY ItemFacts
      <4>2. CASE k[1] = o
        <5>1. at'[k[1]] = at[o] + 1
          BY <1>2, <2>1, <4>2
        <5>2. k = i <=> k[2] = at[o] + 1
          BY <2>2, <2>3, <4>1, <4>2
        <5> QED
          BY <2>1, <4>1, <4>2, <5>1, <5>2
      <4>3. CASE k[1] # o
        <5>1. at'[k[1]] = at[k[1]] /\ k # i
          BY <1>2, <2>1, <2>3, <4>1, <4>3
        <5> QED
          BY <5>1
      <4> QED
        BY <4>2, <4>3
    <3>2. Past' \subseteq Item /\ Past \subseteq Item
      BY DEF Past
    <3>3. i \notin Past
      BY <2>1, <2>3 DEF Past
    <3> QED
      BY <2>3, <3>1, <3>2, <3>3
  <2>5. Cardinality(Past') = Cardinality(Past) + 1 /\ Cardinality(Past) \in Nat
    BY <2>4, PastIsFinite, FS_AddElement
  <2> QED
    BY <1>2, <2>1, <2>5 DEF Counted
<1>4. ASSUME UNCHANGED <<now, at>> PROVE Counted'
  BY <1>4 DEF Counted, Past
<1> QED
  BY <1>3, <1>4 DEF Next, vars, tree, work, Start, FinishRemoval, Select, RestoreFails, PutBack, Collide,
     FinishRestore, Create, Repair, AppendBatch, AppendPart

(* The types, what an item holds, the bound of the clock and the failed    *)
(* results of every command (internal/removal, internal/restore).          *)
THEOREM TypeCorrect == Spec => []TypeOK
<1>1. Init => Counted
  <2>1. Cardinality(Past) \in Nat
    BY PastIsFinite
  <2> QED
    BY <2>1 DEF Init, Counted
<1>2. ASSUME Inv, Counted PROVE TypeOK
  <2>1. Types /\ TrashTrees
    BY <1>2 DEF Inv
  <2>2. now \in 0 .. Cardinality(Item)
    BY <1>2, <2>1, PastIsFinite DEF Counted, Types
  <2>3. \A i \in Item : trash[i] = None \/
          /\ trash[i] \in [AtOrBelow(Target(i)) -> Kind \cup {None}]
          /\ trash[i][Target(i)] # None
    BY <2>1 DEF TrashTrees
  <2>4. log \in Seq([action : {"trashed", "restored"}, record : Record])
    BY <2>1 DEF Types, Event
  <2> QED
    BY <2>1, <2>2, <2>3, <2>4 DEF TypeOK, Types
<1> QED
  BY <1>1, <1>2, InvInit, InvNext, CountedNext, PTL DEF Spec
-----------------------------------------------------------------------------
(* What a restore has done and has yet to do *)

OnlyRunningFail == \A u \in failed : Running(u)
Progress == OnlyRunningFail /\ Whole /\ Undoing

(* Where no restore runs there is nothing to say. *)
LEMMA NothingRestores ==
  ASSUME \A v \in Restores : ~Running(v)', failed' = {}
  PROVE  Progress'
BY DEF Progress, OnlyRunningFail, Whole, Undoing

LEMMA NoneFailed ==
  ASSUME Types, Progress, \A v \in Restores : ~Running(v)
  PROVE  failed = {}
BY DEF Types, Progress, OnlyRunningFail

(* The only restore that runs. *)
LEMMA TheOneThatRuns ==
  ASSUME Journal, NEW u \in Restores, Running(u), pc' = pc
  PROVE  \A v \in Restores : (Running(v) => v = u) /\ (Running(v)' => v = u)
BY KindsOfCommands DEF Journal, Alone, Running

LEMMA SelectProgress ==
  ASSUME Inv, Progress, NEW u \in Restores, Select(u)
  PROVE  Progress'
<1>1. Types /\ Journal /\ Trees
  BY InvIsAllOfIt
<1>2. /\ pc[u] = "idle" /\ Quiet
      /\ UNCHANGED <<policy, home, trash, aside, now, log, torn, at, batch, failed, hurt>>
      /\ \/ pc' = [pc EXCEPT ![u] = "refused"] /\ UNCHANGED <<todo, aim>>
         \/ \E o : \E S \in SUBSET Active : Chosen(u, o, S) /\ (o = None \/ S = OfOperation(o))
  BY Selected
<1>3. (\A v \in Restores : ~Running(v)) /\ failed = {}
  BY <1>1, NoneFailed, SelectJournal
<1>4. u \in Commands /\ pc \in [Commands -> {"idle", "run", "done", "failed", "refused"}]
  BY <1>1, KindsOfCommands DEF Types
<1>5. CASE pc' = [pc EXCEPT ![u] = "refused"]
  <2>1. \A v \in Restores : ~Running(v)'
    BY <1>3, <1>4, <1>5, KindsOfCommands DEF Running
  <2> QED
    BY <1>2, <1>3, <2>1, NothingRestores
<1>6. ASSUME NEW o, NEW S \in SUBSET Active, Chosen(u, o, S), o = None \/ S = OfOperation(o)
      PROVE  Progress'
  <2>1. pc' = [pc EXCEPT ![u] = "run"] /\ aim' = [aim EXCEPT ![u] = Aim(o, S)]
        /\ todo' = [todo EXCEPT ![u] = NewestFirst(S)]
    BY <1>6 DEF Chosen, Goto
  <2>2. \A v \in Restores : Running(v)' => v = u
    BY <1>3, <1>4, <2>1, KindsOfCommands DEF Running
  <2> DEFINE rs == NewestFirst(S)
  <2>3. todo'[u] = rs /\ aim'[u] = Aim(o, S)
    BY <1>1, <2>1 DEF Types
  <2>4. /\ \A r \in S : \E j \in DOMAIN rs : rs[j] = r
        /\ \A j \in DOMAIN rs : rs[j] \in S
        /\ \A r \in S : r \in Logged /\ r \in Record
    BY <1>1, ChosenFacts
  <2> HIDE DEF rs
  <2>5. OnlyRunningFail'
    BY <1>2, <1>3 DEF OnlyRunningFail
  <2>6. Whole'
    <3>1. ASSUME o # None, NEW i \in Item, i[1] = o, trash[i] # None
          PROVE  (\E j \in DOMAIN rs : rs[j].item = i) \/ i \in UnwrittenBy(i[1])
      <4>1. Active = {r \in Logged : r.item \notin Ended}
        BY <1>1, ActiveIsNotEnded DEF Journal
      <4>2. PICK r \in Known : r.item = i /\ i \notin Ended
        BY <1>1, <3>1 DEF Journal, InTrash
      <4>3. CASE r \in Logged
        <5>1. r \in S
          BY <1>6, <3>1, <4>1, <4>2, <4>3 DEF OfOperation
        <5> QED
          BY <2>4, <4>2, <5>1
      <4>4. ASSUME NEW d \in Removals, r \in BatchOf(d) PROVE i \in UnwrittenBy(i[1])
        <5>1. i[1] = d
          BY <1>1, <4>2, <4>4, KnownFacts
        <5> QED
          BY <4>2, <4>4, <5>1 DEF UnwrittenBy, BatchOf
      <4> QED
        BY <4>3, <4>4 DEF Known
    <3>2. aim'[u].operation = o
      BY <2>3 DEF Aim
    <3> QED
      BY <1>2, <2>2, <2>3, <3>1, <3>2 DEF Whole, UnwrittenBy
  <2>7. Undoing'
    <3> DEFINE held == Aim(o, S).held
    <3>1. ASSUME NEW entry \in held
          PROVE  /\ entry[1] \in Node /\ entry[2] # None
                 /\ \E j \in DOMAIN rs :
                       entry[1] \in AtOrBelow(rs[j].orig) /\ trash[rs[j].item][entry[1]] = entry[2]
      <4>1. PICK r \in S : trash[r.item] # None /\ \E n \in DOMAIN trash[r.item] :
               trash[r.item][n] # None /\ entry = <<n, trash[r.item][n]>>
        BY DEF Aim, Held
      <4>2. PICK n \in DOMAIN trash[r.item] :
               trash[r.item][n] # None /\ entry[1] = n /\ entry[2] = trash[r.item][n]
        BY <4>1
      <4>3. r.item \in Item /\ r.orig = Target(r.item) /\ trash[r.item] # None
        BY <1>1, <2>4, <4>1, KnownFacts DEF Journal, Records
      <4>4. DOMAIN trash[r.item] = AtOrBelow(r.orig) /\ AtOrBelow(r.orig) \subseteq Node
        BY <1>1, <4>3, ItemFacts, TreeFacts DEF Trees, TrashTrees
      <4>5. PICK j \in DOMAIN rs : rs[j] = r
        BY <2>4
      <4> QED
        BY <4>2, <4>4, <4>5
    <3>2. ASSUME Aim(o, S).one, Aim(o, S).clear
          PROVE  /\ \A j, h \in DOMAIN rs : rs[j].item[1] = rs[h].item[1]
                 /\ \A j \in DOMAIN rs : /\ trash[rs[j].item] # None
                                        /\ home[rs[j].orig] = None /\ ParentsMakeable(rs[j].orig)
      BY <2>4, <3>2 DEF Aim
    <3> HIDE DEF held
    <3>3. aim'[u].one = Aim(o, S).one /\ aim'[u].clear = Aim(o, S).clear /\ aim'[u].held = held
      BY <2>3 DEF held
    <3>4. ASSUME NEW v \in Restores, Running(v)', aim'[v].one, aim'[v].clear
          PROVE  /\ v \notin failed'
                 /\ \A j, h \in DOMAIN todo'[v] : todo'[v][j].item[1] = todo'[v][h].item[1]
                 /\ \A j \in DOMAIN todo'[v] :
                       /\ trash'[todo'[v][j].item] # None
                       /\ home'[todo'[v][j].orig] = None
                       /\ \A a \in Above[todo'[v][j].orig] : home'[a] \in {None, "own", "made"}
                 /\ \A entry \in aim'[v].held :
                       /\ entry[1] \in Node /\ entry[2] # None
                       /\ \/ home'[entry[1]] = entry[2]
                          \/ \E j \in DOMAIN todo'[v] :
                                /\ entry[1] \in AtOrBelow(todo'[v][j].orig)
                                /\ trash'[todo'[v][j].item][entry[1]] = entry[2]
      <4>1. v = u
        BY <2>2, <3>4
      <4>2. Aim(o, S).one /\ Aim(o, S).clear
        BY <3>3, <3>4, <4>1
      <4>3. \A j \in DOMAIN rs : /\ trash'[rs[j].item] # None
                               /\ home'[rs[j].orig] = None
                               /\ \A a \in Above[rs[j].orig] : home'[a] \in {None, "own", "made"}
        BY <1>2, <3>2, <4>2 DEF ParentsMakeable
      <4>4. \A j, h \in DOMAIN rs : rs[j].item[1] = rs[h].item[1]
        BY <3>2, <4>2
      <4>5. \A j \in DOMAIN todo'[v] :
                       /\ trash'[todo'[v][j].item] # None
                       /\ home'[todo'[v][j].orig] = None
                       /\ \A a \in Above[todo'[v][j].orig] : home'[a] \in {None, "own", "made"}
        BY ONLY <2>3, <4>1, <4>3
      <4>6. \A entry \in aim'[v].held :
                       /\ entry[1] \in Node /\ entry[2] # None
                       /\ \E j \in DOMAIN todo'[v] :
                                /\ entry[1] \in AtOrBelow(todo'[v][j].orig)
                                /\ trash'[todo'[v][j].item][entry[1]] = entry[2]
        BY ONLY <1>2, <2>3, <3>1, <3>3, <4>1
      <4> QED
        BY ONLY <1>2, <1>3, <2>3, <4>1, <4>4, <4>5, <4>6
    <3> QED
      BY ONLY <3>4 DEF Undoing, AtOrBelow, ParentsMakeable
  <2> QED
    BY <2>5, <2>6, <2>7 DEF Progress
<1> QED
  BY <1>2, <1>5, <1>6

(* The item of the record in hand leaves the trash: the others are left. *)
LEMMA WholeStays ==
  ASSUME Types, Journal, Whole, NEW u \in Restores, Running(u), todo[u] # <<>>,
         todo' = [todo EXCEPT ![u] = Tail(@)], trash' = [trash EXCEPT ![Current(u).item] = None],
         UNCHANGED <<pc, aim>>, \A o \in Removals : batch'[o] = batch[o], failed \subseteq failed'
  PROVE  Whole'
<1>1. /\ Current(u) = todo[u][1]
      /\ \A j \in DOMAIN todo[u] : j = 1 \/ (j - 1 \in DOMAIN todo'[u] /\ todo'[u][j - 1] = todo[u][j])
  BY TodoTail
<1>2. \A v \in Restores : Running(v)' => v = u
  BY TheOneThatRuns
<1>3. \A i \in Item : trash'[i] # None => trash[i] # None /\ i # Current(u).item
  BY DEF Types
<1>4. ASSUME aim[u].operation # None, u \notin failed', NEW i \in Item, i[1] = aim[u].operation, trash'[i] # None
      PROVE  (\E j \in DOMAIN todo'[u] : todo'[u][j].item = i) \/ i \in UnwrittenBy(i[1])
  <2>1. (\E j \in DOMAIN todo[u] : todo[u][j].item = i) \/ i \in UnwrittenBy(i[1])
    BY <1>3, <1>4 DEF Whole
  <2>2. ASSUME NEW j \in DOMAIN todo[u], todo[u][j].item = i
        PROVE  \E h \in DOMAIN todo'[u] : todo'[u][h].item = i
    BY <1>1, <1>3, <1>4, <2>2
  <2> QED
    BY <2>1, <2>2
<1>5. \A i \in Item : UnwrittenBy(i[1])' = UnwrittenBy(i[1])
  BY ItemFacts DEF UnwrittenBy
<1> QED
  BY <1>2, <1>4, <1>5 DEF Whole

(* A record that fails is told. *)
LEMMA FailsProgress ==
  ASSUME Inv, Progress, NEW u \in Restores, Running(u), pc' = pc, aim' = aim,
         failed' = failed \cup {u}, u \in hurt' \/ ~aim[u].one \/ ~aim[u].clear
  PROVE  Progress'
<1>1. Types /\ Journal
  BY InvIsAllOfIt
<1>2. \A v \in Restores : (Running(v) => v = u) /\ (Running(v)' => v = u)
  BY <1>1, TheOneThatRuns
<1>3. OnlyRunningFail'
  BY DEF Progress, OnlyRunningFail, Running
<1>4. Whole'
  BY <1>2 DEF Whole
<1>5. Undoing'
  BY <1>2 DEF Undoing
<1> QED
  BY <1>3, <1>4, <1>5 DEF Progress

(* The record that is put back is of a later target than those to come, so *)
(* it leaves their way free, and theirs are the entries that it lacks.     *)
LEMMA PutBackProgress ==
  ASSUME Inv, Progress, NEW u \in Restores, PutBack(u)
  PROVE  Progress'
<1>1. Types /\ Journal /\ Trees
  BY InvIsAllOfIt
<1>2. PICK r : r = Current(u)
  OBVIOUS
<1>3. /\ Running(u) /\ todo[u] # <<>> /\ trash[r.item] # None /\ ParentsMakeable(r.orig) /\ home[r.orig] = None
      /\ home' = WithItem(r) /\ todo' = [todo EXCEPT ![u] = Tail(@)] /\ Restored(u)
      /\ UNCHANGED <<policy, aside, now, log, torn, pc, at, aim>>
      /\ trash' = [trash EXCEPT ![r.item] = None]
      /\ UNCHANGED ends \/ (failed' = failed \cup {u} /\ hurt' = hurt \cup {u})
  BY <1>2 DEF PutBack, Restored, journal
<1>4. \A v \in Restores : (Running(v) => v = u) /\ (Running(v)' => v = u)
  BY <1>1, <1>3, TheOneThatRuns
<1>5. CASE failed' = failed \cup {u} /\ hurt' = hurt \cup {u}
  BY <1>3, <1>5, FailsProgress
<1>6. CASE UNCHANGED ends
  <2>1. failed' = failed /\ hurt' = hurt
    BY <1>6 DEF ends
  <2>2. OnlyRunningFail'
    BY <1>3, <2>1 DEF Progress, OnlyRunningFail, Running
  <2>3. Whole'
    <3>1. \A o \in Removals : batch'[o] = batch[o]
      BY <1>3, KindsOfCommands DEF Restored
    <3>2. Whole /\ failed \subseteq failed'
      BY <2>1 DEF Progress
    <3>3. UNCHANGED <<pc, aim>> /\ trash' = [trash EXCEPT ![Current(u).item] = None]
      BY <1>2, <1>3
    <3> QED
      BY ONLY <1>1, <1>3, <3>1, <3>2, <3>3, WholeStays
  <2>4. /\ 1 \in DOMAIN todo[u] /\ r = todo[u][1]
        /\ \A j \in DOMAIN todo'[u] : j + 1 \in DOMAIN todo[u] /\ todo'[u][j] = todo[u][j + 1]
        /\ \A j \in DOMAIN todo[u] : j = 1 \/ (j - 1 \in DOMAIN todo'[u] /\ todo'[u][j - 1] = todo[u][j])
    BY <1>1, <1>2, <1>3, TodoTail
  <2>5. \A j \in DOMAIN todo[u] : todo[u][j] \in Known
    BY <1>1, <1>3, KnownFacts DEF Journal, Todos
  <2>6. \A s \in Known : s \in Record /\ s.item \in Item /\ s.orig = Target(s.item) /\ s.orig \in Node
    BY <1>1, KnownFacts, ItemFacts DEF Journal, Records
  <2>7. r \in Known /\ r \in Record /\ r.item \in Item /\ r.orig = Target(r.item) /\ trash[r.item] # None
        /\ r.orig \in Node
    BY <1>3, <2>4, <2>5, <2>6
  <2>8. ASSUME NEW j \in DOMAIN todo'[u]
        PROVE  todo'[u][j].item # r.item /\ todo'[u][j].time < r.time
    <3>1. j + 1 \in DOMAIN todo[u] /\ 1 < j + 1
      <4>1. j + 1 \in DOMAIN todo[u] /\ j \in Nat /\ j > 0
        <5>1. todo' = [todo EXCEPT ![u] = Tail(@)]
          BY <1>3
        <5> QED
          BY ONLY <1>1, <1>3, <5>1, TodoTail
      <4> QED
        BY <4>1
    <3>2. r.time > todo[u][j + 1].time
      BY <1>1, <1>3, <2>4, <3>1 DEF Journal, Todos
    <3>3. todo[u][j + 1] \in Known /\ r.time \in Nat /\ todo[u][j + 1].time \in Nat
      BY <1>1, <2>5, <2>7, <3>1, KnownFacts
    <3>4. todo[u][j + 1].item = r.item => todo[u][j + 1] = r
      BY <1>1, <2>7, <3>3 DEF Journal, Records
    <3> QED
      BY ONLY <2>4, <3>2, <3>3, <3>4
  <2>9. /\ \A n \in AtOrBelow(r.orig) : home[n] = None /\ home'[n] = trash[r.item][n]
        /\ \A n \in Node \ AtOrBelow(r.orig) :
              /\ home'[n] \in {home[n], "made"} /\ (home[n] # None => home'[n] = home[n])
              /\ n \notin Above[r.orig] => home'[n] = home[n]
    BY ONLY <1>1, <1>3, <2>7, BackHome
  <2>10. \A i \in Item : i # r.item => trash'[i] = trash[i]
    BY <1>1, <1>3, TypeFacts
  <2>11. ASSUME aim[u].one, aim[u].clear, u \notin hurt
         PROVE  /\ u \notin failed
                /\ \A j, h \in DOMAIN todo[u] : todo[u][j].item[1] = todo[u][h].item[1]
                /\ \A j \in DOMAIN todo[u] : /\ trash[todo[u][j].item] # None
                                             /\ home[todo[u][j].orig] = None
                                             /\ \A a \in Above[todo[u][j].orig] : home[a] \in {None, "own", "made"}
                /\ \A entry \in aim[u].held :
                      /\ entry[1] \in Node /\ entry[2] # None
                      /\ \/ home[entry[1]] = entry[2]
                         \/ \E j \in DOMAIN todo[u] :
                               /\ entry[1] \in AtOrBelow(todo[u][j].orig)
                               /\ trash[todo[u][j].item][entry[1]] = entry[2]
    BY <1>3, <2>11 DEF Progress, Undoing, ParentsMakeable
  <2>12. ASSUME aim[u].one, aim[u].clear, u \notin hurt, NEW j \in DOMAIN todo'[u]
         PROVE  /\ trash'[todo'[u][j].item] # None
                /\ home'[todo'[u][j].orig] = None
                /\ \A a \in Above[todo'[u][j].orig] : home'[a] \in {None, "own", "made"}
    <3>1. PICK s : s = todo'[u][j]
      OBVIOUS
    <3>2. /\ s \in Known /\ trash[s.item] # None /\ s.item[1] = r.item[1]
          /\ home[s.orig] = None /\ \A a \in Above[s.orig] : home[a] \in {None, "own", "made"}
      BY <2>4, <2>5, <2>11, <2>12, <3>1
    <3>3. s.time < r.time /\ s.item \in Item /\ s.orig = Target(s.item) /\ s.orig \in Node
      BY <2>6, <2>8, <3>1, <3>2
    <3>4. s.item[2] < r.item[2]
      BY <1>1, <2>7, <3>2, <3>3 DEF Journal, Records
    <3>5. /\ r.orig \notin AtOrBelow(s.orig)
          /\ s.orig \in AtOrBelow(r.orig) =>
                /\ trash[r.item][s.orig] = None
                /\ \A a \in Above[s.orig] : a \in AtOrBelow(r.orig) => trash[r.item][a] \in {None, "own", "made"}
      BY <1>1, <2>7, <3>2, <3>3, <3>4 DEF Trees, Nested
    <3>6. s.orig \notin Above[r.orig]
      BY <2>7, <3>5 DEF AtOrBelow
    <3>7. home'[s.orig] = None
      BY <2>9, <3>2, <3>3, <3>5, <3>6
    <3>8. ASSUME NEW a \in Above[s.orig] PROVE home'[a] \in {None, "own", "made"}
      <4>1. a \in Node /\ s.orig \in AtOrBelow(a)
        BY <3>3, TreeFacts DEF AtOrBelow
      <4>2. CASE a \in AtOrBelow(r.orig)
        <5>1. s.orig \in AtOrBelow(r.orig)
          BY <2>7, <4>1, <4>2, BelowIsTransitive
        <5> QED
          BY <2>9, <3>5, <4>2, <5>1
      <4>3. CASE a \notin AtOrBelow(r.orig)
        <5>1. home'[a] \in {home[a], "made"}
          BY <2>9, <4>1, <4>3
        <5> QED
          BY <3>2, <5>1
      <4> QED
        BY <4>2, <4>3
    <3>9. trash'[s.item] # None
      BY <2>8, <2>10, <3>1, <3>2, <3>3
    <3> QED
      BY <3>1, <3>7, <3>8, <3>9
  <2>13. ASSUME aim[u].one, aim[u].clear, u \notin hurt, NEW entry \in aim[u].held
         PROVE  /\ entry[1] \in Node /\ entry[2] # None
                /\ \/ home'[entry[1]] = entry[2]
                   \/ \E j \in DOMAIN todo'[u] :
                         /\ entry[1] \in AtOrBelow(todo'[u][j].orig)
                         /\ trash'[todo'[u][j].item][entry[1]] = entry[2]
    <3>1. entry[1] \in Node /\ entry[2] # None
      BY <2>11, <2>13
    <3>2. CASE home[entry[1]] = entry[2]
      BY <2>9, <3>1, <3>2
    <3>3. ASSUME NEW j \in DOMAIN todo[u], entry[1] \in AtOrBelow(todo[u][j].orig),
                 trash[todo[u][j].item][entry[1]] = entry[2]
          PROVE  \/ home'[entry[1]] = entry[2]
                 \/ \E h \in DOMAIN todo'[u] :
                       /\ entry[1] \in AtOrBelow(todo'[u][h].orig)
                       /\ trash'[todo'[u][h].item][entry[1]] = entry[2]
      <4>1. CASE j = 1
        BY <2>4, <2>9, <3>3, <4>1
      <4>2. CASE j # 1
        <5>1. PICK h \in DOMAIN todo'[u] : todo'[u][h] = todo[u][j]
          BY ONLY <2>4, <3>3, <4>2
        <5>2. trash'[todo'[u][h].item] = trash[todo[u][j].item]
          BY <2>5, <2>6, <2>8, <2>10, <5>1
        <5> QED
          BY <3>3, <5>1, <5>2
      <4> QED
        BY <4>1, <4>2
    <3> QED
      BY <2>11, <2>13, <3>1, <3>2, <3>3
  <2>14. Undoing'
    <3>1. ASSUME aim[u].one, aim[u].clear, u \notin hurt
          PROVE  \A j, h \in DOMAIN todo'[u] : todo'[u][j].item[1] = todo'[u][h].item[1]
      BY <2>4, <2>11, <3>1
    <3>2. aim' = aim
      BY <1>3
    <3> QED
      BY ONLY <1>4, <2>1, <2>11, <2>12, <2>13, <3>1, <3>2 DEF Undoing, AtOrBelow, ParentsMakeable
  <2> QED
    BY <2>2, <2>3, <2>14 DEF Progress
<1> QED
  BY <1>3, <1>5, <1>6

LEMMA CollideProgress ==
  ASSUME Inv, Progress, NEW u \in Restores, Collide(u)
  PROVE  Progress'
<1>1. Types /\ Journal
  BY InvIsAllOfIt
<1>2. /\ Running(u) /\ todo[u] # <<>> /\ home[Current(u).orig] # None
      /\ todo' = [todo EXCEPT ![u] = Tail(@)] /\ pc' = pc /\ aim' = aim
      /\ failed \subseteq failed' /\ failed' \subseteq failed \cup {u} /\ hurt \subseteq hurt'
      /\ u \in failed' \/ trash' = [trash EXCEPT ![Current(u).item] = None]
      /\ \A o \in Removals : batch'[o] = batch[o]
  <2>1. Restored(u) => \A o \in Removals : batch'[o] = batch[o]
    BY KindsOfCommands DEF Restored
  <2> QED
    BY <2>1 DEF Collide, Restored, ends
<1>3. 1 \in DOMAIN todo[u] /\ Current(u) = todo[u][1]
  BY <1>1, <1>2, TodoTail
<1>4. u \in hurt \/ ~aim[u].one \/ ~aim[u].clear
  BY <1>2, <1>3 DEF Progress, Undoing
<1>5. \A v \in Restores : (Running(v) => v = u) /\ (Running(v)' => v = u)
  BY <1>1, <1>2, TheOneThatRuns
<1>6. OnlyRunningFail'
  BY <1>2 DEF Progress, OnlyRunningFail, Running
<1>7. Whole'
  <2>1. CASE u \in failed'
    BY <1>5, <2>1 DEF Whole
  <2>2. CASE trash' = [trash EXCEPT ![Current(u).item] = None]
    BY <1>1, <1>2, <2>2, WholeStays DEF Progress
  <2> QED
    BY <1>2, <2>1, <2>2
<1>8. Undoing'
  BY <1>2, <1>4, <1>5 DEF Undoing
<1> QED
  BY <1>6, <1>7, <1>8 DEF Progress

LEMMA ProgressInit == Init => Progress
<1> SUFFICES ASSUME Init PROVE Progress
  OBVIOUS
<1>1. \A v \in Restores : ~Running(v)
  BY KindsOfCommands DEF Init, Running
<1> QED
  BY <1>1 DEF Init, Progress, OnlyRunningFail, Whole, Undoing

LEMMA ProgressNext == Inv /\ Progress /\ [Next]_vars => Progress'
<1> SUFFICES ASSUME Inv, Progress, [Next]_vars PROVE Progress'
  OBVIOUS
<1>1. Types /\ Journal
  BY InvIsAllOfIt
<1>2. ASSUME NEW o \in Removals, Start(o) PROVE Progress'
  <2>1. (\A u \in Restores : ~Running(u) /\ ~Running(u)') /\ failed' = failed
    BY <1>1, <1>2, StartJournal DEF Start, ends
  <2> QED
    BY <1>1, <2>1, NoneFailed, NothingRestores
<1>3. ASSUME NEW o \in Removals, MoveTarget(o) PROVE Progress'
  <2>1. Running(o) /\ pc' = pc /\ failed' = failed
    BY <1>3 DEF MoveTarget, ends
  <2>2. \A u \in Restores : ~Running(u) /\ ~Running(u)'
    BY <1>1, <2>1, KindsOfCommands DEF Journal, Alone, Running
  <2> QED
    BY <1>1, <2>1, <2>2, NoneFailed, NothingRestores
<1>4. ASSUME NEW o \in Removals, FinishRemoval(o) PROVE Progress'
  <2>1. failed' = failed /\ \E label \in {"done", "failed"} : pc' = [pc EXCEPT ![o] = label]
    BY <1>4 DEF FinishRemoval, Goto, ends
  <2>2. \A u \in Restores : ~Running(u)
    BY <1>1, <1>4, FinishRemovalJournal
  <2>3. \A u \in Restores : ~Running(u)'
    BY <1>1, <2>1, <2>2, KindsOfCommands DEF Types, Running
  <2> QED
    BY <1>1, <2>1, <2>2, <2>3, NoneFailed, NothingRestores
<1>5. ASSUME NEW u \in Restores, FinishRestore(u) PROVE Progress'
  <2>1. \A v \in Restores : ~Running(v)'
    BY <1>1, <1>5, FinishRestoreJournal
  <2>2. failed' = failed \ {u} /\ Running(u)
    BY <1>5 DEF FinishRestore
  <2>3. failed \subseteq {u}
    BY <1>1, <2>2, KindsOfCommands DEF Types, Progress, OnlyRunningFail, Journal, Alone
  <2> QED
    BY <2>1, <2>2, <2>3, NothingRestores
<1>6. ASSUME NEW u \in Restores, RestoreFails(u) PROVE Progress'
  BY <1>6, FailsProgress DEF RestoreFails
<1>7. ASSUME NEW n \in Node, Create(n) PROVE Progress'
  <2>1. Quiet /\ pc' = pc /\ failed' = failed
    BY <1>7 DEF Create, ends
  <2>2. \A u \in Restores : ~Running(u) /\ ~Running(u)'
    BY <2>1, KindsOfCommands DEF Quiet, Running
  <2> QED
    BY <1>1, <2>1, <2>2, NoneFailed, NothingRestores
<1>8. CASE UNCHANGED <<home, trash, pc, todo, batch, failed, hurt, aim>>
  BY <1>8 DEF Progress, OnlyRunningFail, Whole, UnwrittenBy, Undoing, Running, ParentsMakeable
<1>9. CASE Repair \/ UNCHANGED vars
  BY <1>8, <1>9 DEF Repair, vars, tree, work, ends
<1> QED
  BY <1>2, <1>3, <1>4, <1>5, <1>6, <1>7, <1>9, SelectProgress, PutBackProgress, CollideProgress DEF Next

(* A restore of one operation's items that nothing is in the way of does   *)
(* not get in its own way, for every tree and every plan: the newest-first *)
(* order of ActiveItems undoes the moves one by one (internal/restore).    *)
THEOREM UndoComesBack == Spec => []UndoBringsBack
<1>1. ASSUME Inv, Progress PROVE UndoBringsBack
  <2> SUFFICES ASSUME NEW u \in Restores, Running(u), todo[u] = <<>>, u \notin hurt, aim[u].one, aim[u].clear
               PROVE  u \notin failed /\ \A entry \in aim[u].held : home[entry[1]] = entry[2]
    BY DEF UndoBringsBack
  <2>1. DOMAIN todo[u] = {}
    OBVIOUS
  <2> QED
    BY <1>1, <2>1 DEF Progress, Undoing
<1> QED
  BY <1>1, InvInit, InvNext, ProgressInit, ProgressNext, PTL DEF Spec

(* restore --operation and --last take all active records of the           *)
(* operation (runRestore, ActiveItems): exit status 0 leaves none of its   *)
(* items in the trash but those the removal could not write to the journal *)
(* (Execute, internal/removal).                                            *)
THEOREM UndoneWhole == Spec => OperationIsUndoneWhole
<1> DEFINE Undone ==
       \A u \in Restores :
          /\ Running(u) /\ pc'[u] = "done"
          /\ aim[u].operation # None
          => \A i \in Item : i[1] = aim[u].operation /\ trash[i] # None => i \in UnwrittenBy(i[1])
<1>1. ASSUME Inv, Progress, [Next]_vars PROVE Undone
  <2> SUFFICES ASSUME NEW u \in Restores, Running(u), pc'[u] = "done", aim[u].operation # None,
                      NEW i \in Item, i[1] = aim[u].operation, trash[i] # None
               PROVE  i \in UnwrittenBy(i[1])
    OBVIOUS
  <2>1. Types /\ Journal
    BY <1>1, InvIsAllOfIt
  <2>2. pc[u] = "run" /\ u \in Commands /\ pc \in [Commands -> {"idle", "run", "done", "failed", "refused"}]
    BY <2>1, KindsOfCommands DEF Running, Types
  <2>3. pc' # pc
    BY <2>2
  <2>4. \A c \in Commands : \A label : pc' = [pc EXCEPT ![c] = label] => c = u
    BY <2>2
  <2>5. FinishRestore(u)
    <3>1. ASSUME NEW o \in Removals PROVE ~Start(o) /\ ~FinishRemoval(o)
      BY <2>4, KindsOfCommands DEF Start, FinishRemoval, Goto
    <3>2. ASSUME NEW v \in Restores, Select(v) PROVE FALSE
      <4>1. pc[v] = "idle" /\ \E label : pc' = [pc EXCEPT ![v] = label]
        BY <3>2, Selected DEF Chosen, Goto
      <4> QED
        BY <2>2, <2>4, <4>1, KindsOfCommands
    <3>3. ASSUME NEW v \in Restores, FinishRestore(v) PROVE v = u
      BY <2>4, <3>3, KindsOfCommands DEF FinishRestore, Goto
    <3> QED
      BY <1>1, <2>3, <3>1, <3>2, <3>3
      DEF Next, vars, MoveTarget, RestoreFails, PutBack, Collide, Create, Repair
  <2>6. todo[u] = <<>> /\ u \notin failed
    BY <2>2, <2>5 DEF FinishRestore, Goto, ExitStatus
  <2>7. DOMAIN todo[u] = {}
    BY <2>6
  <2> QED
    BY <1>1, <2>6, <2>7 DEF Progress, Whole
<1>2. Spec => [][Undone]_vars
  <2> HIDE DEF Undone
  <2> QED
    BY <1>1, InvInit, InvNext, ProgressInit, ProgressNext, PTL DEF Spec
<1> QED
  BY <1>2 DEF OperationIsUndoneWhole, Undone
=============================================================================
