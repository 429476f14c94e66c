-------------------------- MODULE TrashSerialProofs --------------------------
(***************************************************************************)
(* What holds of Trash when no two undoing commands run at once, none of   *)
(* them is killed and the journal can be written: removals still run       *)
(* beside each other and beside an undoing command, and may be killed.     *)
(***************************************************************************)
EXTENDS TrashProofs

(* The hypothesis of this module. The run trash_stale shows what fails     *)
(* without it: a record outlives its item, and a later one gets its name.  *)
Serial == ~Overlap /\ ~JournalFails /\ MayDie \cap Undoers = {}

(* Two events are about one item. *)
SameItem(e, f) == e.record.item = f.record.item

(* At most one undoing command is under way. *)
OneUndoer == \A u, v \in Undoers : Running(u) /\ Running(v) => u = v

(* In the order of the journal an item is trashed first, once, and undone  *)
(* at most once after that.                                                *)
Lives ==
    /\ \A k \in 1 .. Len(log) : \A j \in 1 .. k - 1 :
          SameItem(log[j], log[k]) => log[j].action = "trashed" /\ log[k].action # "trashed"
    /\ \A k \in 1 .. Len(log) :
          log[k].action # "trashed" => \E j \in 1 .. k - 1 : SameItem(log[j], log[k])

(* What is in the journal was written by a removal that has ended.         *)
Written == \A k \in 1 .. Len(log) : pc[log[k].record.item[1]] \in Ended

(* An item exists from its move on: its number is of a target the removal  *)
(* has come to, and not the one it is still moving.                        *)
OwnedBefore == \A i \in Item : owns[i] # None =>
    i[2] <= at[i[1]] /\ (pc[i[1]] \in Moving => i[2] # at[i[1]])

(* Each item has one event in the batch b. *)
Distinct(b) == \A k \in 1 .. Len(b) : \A j \in 1 .. k - 1 : ~SameItem(b[j], b[k])

(* A removal writes of its own items, that they were trashed.              *)
Pending(p) ==
    /\ Distinct(batch[p])
    /\ \A k \in 1 .. Len(batch[p]) :
          batch[p][k].action = "trashed" /\ batch[p][k].record.item[1] = p

(* An undoing command has records that are active, each once, in what it   *)
(* has still to do and in what it will write.                              *)
IsActive(i) == \E r \in Active : r.item = i
Undoing(u) ==
    /\ Distinct(batch[u])
    /\ \A k \in 1 .. Len(batch[u]) :
          batch[u][k].action # "trashed" /\ IsActive(batch[u][k].record.item)
    /\ \A k \in 1 .. Len(todo[u]) :
          /\ todo[u][k] \in Active
          /\ \A j \in 1 .. k - 1 : todo[u][j].item # todo[u][k].item
          /\ \A h \in 1 .. Len(batch[u]) : batch[u][h].record.item # todo[u][k].item
(* What the batches hold, before they are appended.                        *)
Batches ==
    /\ \A p \in Removers : Pending(p)
    /\ \A u \in Undoers : Running(u) => Undoing(u)
    /\ \A u \in Undoers : pc[u] \in {"idle", "confirm"} => batch[u] = <<>>

(* u has taken item i out of the trash, and the journal does not say so    *)
(* yet.                                                                    *)
TakenBy(u, i) ==
    /\ Running(u)
    /\ \/ pc[u] = "unmeta" /\ Current(u).item = i
       \/ \E k \in 1 .. Len(batch[u]) : batch[u][k].record.item = i
(* The item and the metadata of record r are in their places: for every    *)
(* active record but one in hand, and for every record that a removal is   *)
(* still to write.                                                         *)
Intact(r) == owns[r.item] # None /\ files[r.slot] = owns[r.item] /\ meta[r.slot] = r.item
LiveIntact == \A r \in Active : Intact(r) \/ \E u \in Undoers : TakenBy(u, r.item)
Holding(p, r) == \E k \in 1 .. Len(batch[p]) : batch[p][k].record = r
PendingIntact == \A p \in Removers : pc[p] \notin Ended =>
    \A r \in Record : Holding(p, r) => Intact(r)

SerialInv ==
    /\ torn = FALSE /\ OneUndoer /\ Lives /\ Written /\ OwnedBefore /\ Batches
    /\ LiveIntact /\ PendingIntact
-----------------------------------------------------------------------------
(* What an append does to the journal *)

LEMMA SerialAppend ==
  ASSUME Serial, TypeInv, torn = FALSE, NEW p \in Procs, AppendBatch(p)
  PROVE  /\ pc[p] = "append" /\ pc'[p] = "done" /\ torn' = FALSE
         /\ log' = log \o batch[p] /\ UNCHANGED <<disk, fresh, work, owns>>
<1>1. pc \in [Procs -> Labels] /\ ~torn /\ ~JournalFails
  BY DEF TypeInv, TypeOK, Serial
<1>2. Goto(p, "done") /\ (UNCHANGED journal \/ Journal!AppendAll(batch[p]))
  BY <1>1 DEF AppendBatch
<1>3. pc'[p] = "done"
  BY <1>1, <1>2, GotoTypes DEF Labels, Ended
<1>4. torn' = FALSE
  BY <1>2 DEF journal, Journal!AppendAll
<1> QED
  BY <1>3, <1>4, AppendWrites DEF AppendBatch

(* n is l followed by b.                                                   *)
Extended(l, b, n) ==
    /\ n \in Seq(Event) /\ Len(n) = Len(l) + Len(b) /\ Len(l) \in Nat /\ Len(b) \in Nat
    /\ \A k \in 1 .. Len(l) : n[k] = l[k]
    /\ \A k \in 1 .. Len(b) : n[Len(l) + k] = b[k] /\ Len(l) + k \in 1 .. Len(n)
    /\ \A k \in 1 .. Len(n) : k \in 1 .. Len(l) \/ \E j \in 1 .. Len(b) : k = Len(l) + j
LEMMA Longer ==
  ASSUME NEW l \in Seq(Event), NEW b \in Seq(Event)
  PROVE  Extended(l, b, l \o b)
<1> DEFINE n == l \o b
<1>1. /\ n \in Seq(Event) /\ Len(n) = Len(l) + Len(b)
      /\ \A k \in 1 .. Len(l) : n[k] = l[k]
      /\ \A k \in 1 .. Len(b) : n[Len(l) + k] = b[k]
  BY ConcatProperties
<1>2. Len(l) \in Nat /\ Len(b) \in Nat
  OBVIOUS
<1> HIDE DEF n
<1>3. ASSUME NEW k \in 1 .. Len(n), k \notin 1 .. Len(l)
      PROVE  k - Len(l) \in 1 .. Len(b) /\ k = Len(l) + (k - Len(l))
  BY <1>1, <1>2, <1>3
<1>4. ASSUME NEW k \in 1 .. Len(n)
      PROVE  k \in 1 .. Len(l) \/ \E j \in 1 .. Len(b) : k = Len(l) + j
  BY <1>3
<1>5. ASSUME NEW k \in 1 .. Len(b) PROVE Len(l) + k \in 1 .. Len(n)
  BY <1>1, <1>2
<1>6. Extended(l, b, n)
  BY <1>1, <1>2, <1>4, <1>5 DEF Extended
<1> QED
  BY <1>6 DEF n

LEMMA ActiveAt ==
  ASSUME NEW r
  PROVE  r \in Active <=> \E k \in 1 .. Len(log) :
           /\ log[k].action = "trashed" /\ log[k].record = r
           /\ \A j \in k + 1 .. Len(log) : log[j].record.item # r.item
  BY DEF Active

(* The last event of an item says whether it is active.                    *)
LEMMA ActiveGrows ==
  ASSUME log \in Seq(Event), NEW b \in Seq(Event), log' = log \o b
  PROVE  /\ \A r \in Active' :
               \/ r \in Active /\ \A k \in 1 .. Len(b) : b[k].record.item # r.item
               \/ \E k \in 1 .. Len(b) : b[k].action = "trashed" /\ b[k].record = r
         /\ \A r \in Active : (\A k \in 1 .. Len(b) : b[k].record.item # r.item) => r \in Active'
<1>a. Extended(log, b, log')
  BY Longer
<1>0. /\ Len(log') = Len(log) + Len(b) /\ Len(log) \in Nat /\ Len(b) \in Nat
      /\ \A k \in 1 .. Len(log) : log'[k] = log[k]
      /\ \A k \in 1 .. Len(b) : log'[Len(log) + k] = b[k] /\ Len(log) + k \in 1 .. Len(log')
      /\ \A k \in 1 .. Len(log') : k \in 1 .. Len(log) \/ \E j \in 1 .. Len(b) : k = Len(log) + j
  BY <1>a DEF Extended
<1>1. ASSUME NEW r \in Active'
      PROVE  \/ r \in Active /\ \A k \in 1 .. Len(b) : b[k].record.item # r.item
             \/ \E k \in 1 .. Len(b) : b[k].action = "trashed" /\ b[k].record = r
  <2>1. PICK k \in 1 .. Len(log') :
           /\ log'[k].action = "trashed" /\ log'[k].record = r
           /\ \A j \in k + 1 .. Len(log') : log'[j].record.item # r.item
    BY <1>1 DEF Active
  <2>2. CASE k \in 1 .. Len(log)
    <3>1. ASSUME NEW j \in 1 .. Len(b) PROVE b[j].record.item # r.item
      <4>1. Len(log) + j \in k + 1 .. Len(log') /\ log'[Len(log) + j] = b[j]
        BY <1>0, <2>2
      <4> QED
        BY <2>1, <4>1
    <3>2. ASSUME NEW j \in k + 1 .. Len(log) PROVE log[j].record.item # r.item
      <4>1. j \in k + 1 .. Len(log') /\ log'[j] = log[j]
        BY <1>0, <2>2
      <4> QED
        BY <2>1, <4>1
    <3>3. r \in Active
      BY <1>0, <2>1, <2>2, <3>2, ActiveAt
    <3> QED
      BY <3>1, <3>3
  <2>3. CASE \E j \in 1 .. Len(b) : k = Len(log) + j
    BY <1>0, <2>1, <2>3
  <2> QED
    BY <1>0, <2>2, <2>3
<1>2. ASSUME NEW r \in Active, \A k \in 1 .. Len(b) : b[k].record.item # r.item
      PROVE  r \in Active'
  <2>1. PICK k \in 1 .. Len(log) :
           /\ log[k].action = "trashed" /\ log[k].record = r
           /\ \A j \in k + 1 .. Len(log) : log[j].record.item # r.item
    BY <1>2, ActiveAt
  <2>2. ASSUME NEW j \in k + 1 .. Len(log') PROVE log'[j].record.item # r.item
    <3>1. CASE j \in 1 .. Len(log)
      BY <1>0, <2>1, <2>2, <3>1
    <3>2. CASE \E h \in 1 .. Len(b) : j = Len(log) + h
      BY <1>0, <1>2, <3>2
    <3>3. j \in 1 .. Len(log')
      BY <2>1, <2>2
    <3> QED
      BY <1>0, <3>1, <3>2, <3>3
  <2>3. k \in 1 .. Len(log') /\ log'[k] = log[k]
    BY <1>0
  <2> QED
    BY <2>1, <2>2, <2>3 DEF Active
<1> QED
  BY <1>1, <1>2

LEMMA ActiveUnique ==
  ASSUME NEW r \in Active, NEW s \in Active, r.item = s.item, log \in Seq(Event)
  PROVE  r = s
<1>1. PICK j \in 1 .. Len(log) :
         /\ log[j].record = r
         /\ \A i \in j + 1 .. Len(log) : log[i].record.item # r.item
  BY ActiveAt
<1>2. PICK k \in 1 .. Len(log) :
         /\ log[k].record = s
         /\ \A i \in k + 1 .. Len(log) : log[i].record.item # s.item
  BY ActiveAt
<1>3. Len(log) \in Nat
  OBVIOUS
<1>4. ~(j < k) /\ ~(k < j)
  BY <1>1, <1>2, <1>3
<1>5. j = k
  BY <1>3, <1>4
<1> QED
  BY <1>1, <1>2, <1>5

(* A batch of new items, or of undone active ones, keeps one life per item.*)
LEMMA LivesGrow ==
  ASSUME log \in Seq(Event), NEW b \in Seq(Event), log' = log \o b, Lives, Distinct(b),
         \A k \in 1 .. Len(b) : b[k].action = "trashed" =>
            \A j \in 1 .. Len(log) : ~SameItem(log[j], b[k]),
         \A k \in 1 .. Len(b) : b[k].action # "trashed" => IsActive(b[k].record.item)
  PROVE  Lives'
<1>a. Extended(log, b, log')
  BY Longer
<1>0. /\ Len(log') = Len(log) + Len(b) /\ Len(log) \in Nat /\ Len(b) \in Nat
      /\ \A k \in 1 .. Len(log) : log'[k] = log[k]
      /\ \A k \in 1 .. Len(b) : log'[Len(log) + k] = b[k] /\ Len(log) + k \in 1 .. Len(log')
      /\ \A k \in 1 .. Len(log') : k \in 1 .. Len(log) \/ \E j \in 1 .. Len(b) : k = Len(log) + j
  BY <1>a DEF Extended
<1>1. ASSUME NEW k \in 1 .. Len(b), b[k].action # "trashed"
      PROVE  /\ \E m \in 1 .. Len(log) : SameItem(log[m], b[k])
             /\ \A j \in 1 .. Len(log) : SameItem(log[j], b[k]) => log[j].action = "trashed"
  <2>1. PICK r \in Active : r.item = b[k].record.item
    BY <1>1 DEF IsActive
  <2>2. PICK m \in 1 .. Len(log) :
           /\ log[m].action = "trashed" /\ log[m].record = r
           /\ \A j \in m + 1 .. Len(log) : log[j].record.item # r.item
    BY ActiveAt
  <2>3. SameItem(log[m], b[k])
    BY <2>1, <2>2 DEF SameItem
  <2>4. ASSUME NEW j \in 1 .. Len(log), SameItem(log[j], b[k]) PROVE log[j].action = "trashed"
    <3>1. ~(j > m)
      BY <1>0, <2>1, <2>2, <2>4 DEF SameItem
    <3>2. CASE j = m
      BY <2>2, <3>2
    <3>3. CASE j < m
      <4>1. j \in 1 .. m - 1 /\ SameItem(log[j], log[m])
        BY <1>0, <2>3, <2>4, <3>3 DEF SameItem
      <4> QED
        BY <4>1 DEF Lives
    <3> QED
      BY <1>0, <3>1, <3>2, <3>3
  <2> QED
    BY <2>3, <2>4
<1>2. ASSUME NEW k \in 1 .. Len(log'), NEW j \in 1 .. k - 1, SameItem(log'[j], log'[k])
      PROVE  log'[j].action = "trashed" /\ log'[k].action # "trashed"
  <2>1. CASE k \in 1 .. Len(log)
    <3>1. j \in 1 .. Len(log) /\ log'[k] = log[k] /\ log'[j] = log[j]
      BY <1>0, <2>1
    <3> QED
      BY <1>2, <2>1, <3>1 DEF Lives
  <2>2. ASSUME NEW h \in 1 .. Len(b), k = Len(log) + h
        PROVE  log'[j].action = "trashed" /\ log'[k].action # "trashed"
    <3>0. log'[k] = b[h]
      BY <1>0, <2>2
    <3>1. CASE j \in 1 .. Len(log)
      <4>1. SameItem(log[j], b[h]) /\ log'[j] = log[j]
        BY <1>0, <1>2, <3>0, <3>1
      <4> QED
        BY <1>1, <3>0, <3>1, <4>1
    <3>2. ASSUME NEW i \in 1 .. Len(b), j = Len(log) + i PROVE FALSE
      <4>0. j < k /\ j \in Int /\ k \in Int /\ Len(log) \in Nat /\ h \in Int /\ i \in Int
        BY <1>0, <1>2, <2>2, <3>2
      <4>1. j < k /\ i < h
        BY ONLY <4>0, <2>2, <3>2
      <4>2. i \in 1 .. h - 1
        <5>1. i \in 1 .. Len(b)
          OBVIOUS
        <5>2. i \in Int /\ i >= 1
          BY ONLY <5>1, <1>0
        <5> QED
          BY ONLY <4>0, <4>1, <5>2
      <4>3. log'[j] = b[i]
        BY ONLY <1>0, <3>2
      <4> QED
        BY <1>2, <3>0, <4>2, <4>3 DEF Distinct
    <3>3. j \in 1 .. Len(log')
      BY <1>0, <1>2, <2>2
    <3> QED
      BY <1>0, <3>1, <3>2, <3>3
  <2> QED
    BY <1>0, <2>1, <2>2
<1>3. ASSUME NEW k \in 1 .. Len(log'), log'[k].action # "trashed"
      PROVE  \E j \in 1 .. k - 1 : SameItem(log'[j], log'[k])
  <2>1. CASE k \in 1 .. Len(log)
    <3>1. PICK j \in 1 .. k - 1 : SameItem(log[j], log[k])
      BY <1>0, <1>3, <2>1 DEF Lives
    <3>2. log'[k] = log[k] /\ log'[j] = log[j]
      BY <1>0, <2>1
    <3> QED
      BY <3>1, <3>2
  <2>2. ASSUME NEW h \in 1 .. Len(b), k = Len(log) + h
        PROVE  \E j \in 1 .. k - 1 : SameItem(log'[j], log'[k])
    <3>0. log'[k] = b[h] /\ b[h].action # "trashed"
      BY <1>0, <1>3, <2>2
    <3>1. PICK m \in 1 .. Len(log) : SameItem(log[m], b[h])
      BY <1>1, <3>0
    <3>2. m \in 1 .. k - 1 /\ log'[m] = log[m]
      BY <1>0, <2>2
    <3> QED
      BY <3>0, <3>1, <3>2
  <2> QED
    BY <1>0, <2>1, <2>2
<1> QED
  BY <1>2, <1>3 DEF Lives
-----------------------------------------------------------------------------
(* Removals *)

(* The suffix a removal has reserved holds nothing that was moved, so what *)
(* it does there leaves every intact record intact.                        *)
LEMMA RemovalKeepsIntact ==
  ASSUME TypeInv, ExclusiveInv, OwnedBefore, NEW p \in Removers, RemovalStep(p),
         NEW r \in Record, Intact(r)
  PROVE  Intact(r)'
<1>0. /\ meta \in [Slot -> Item \cup {None}] /\ files \in [Slot -> Content \cup {None}]
      /\ owns \in [Item -> Content \cup {None}] /\ None \notin Item /\ HasOperand
      /\ r.item \in Item /\ r.slot \in Slot
  BY TrashAssumption DEF TypeInv, TypeOK, DiskOK, Record
<1>1. ASSUME pc[p] \in {"rename", "rollback"}
      PROVE  /\ slot[p] \in Slot /\ ItemOf(p) \in Item
             /\ r.slot # slot[p] /\ r.item # ItemOf(p)
  <2>1. slot[p] \in Slot /\ ItemOf(p) \in Item
    BY <1>1, ItemInHand DEF TypeInv, TypeOK, RemovalsOK, Moving
  <2>2. meta[slot[p]] = ItemOf(p)
    BY <1>1 DEF ExclusiveInv, Reservations, Holds, Reserved
  <2>3. owns[ItemOf(p)] = None
    BY <1>1, <2>1 DEF OwnedBefore, Moving, ItemOf
  <2> QED
    BY <2>1, <2>2, <2>3 DEF Intact
<1>2. CASE CreateMetadata(p)
  <2>1. files' = files /\ owns' = owns
    BY <1>2 DEF CreateMetadata
  <2>2. meta'[r.slot] = meta[r.slot]
    BY <1>0, <1>2 DEF CreateMetadata, Intact
  <2> QED
    BY <2>1, <2>2 DEF Intact
<1>3. CASE MoveToTrash(p)
  <2>1. meta' = meta
    BY <1>3 DEF MoveToTrash
  <2>2. files'[r.slot] = files[r.slot] /\ owns'[r.item] = owns[r.item]
    BY <1>0, <1>1, <1>3 DEF MoveToTrash
  <2> QED
    BY <2>1, <2>2 DEF Intact
<1>4. CASE Rollback(p)
  BY <1>0, <1>1, <1>4 DEF Rollback, Intact
<1>5. CASE UNCHANGED <<files, meta, owns>>
  BY <1>5 DEF Intact
<1> QED
  BY <1>2, <1>3, <1>4, <1>5 DEF RemovalStep, NextTarget, ProbeTarget, LstatTarget, AppendBatch, disk

LEMMA RemovalOwns ==
  ASSUME TypeInv, OwnedBefore, NEW p \in Removers, RemovalStep(p)
  PROVE  OwnedBefore'
<1>0. /\ at \in [Removers -> Nat] /\ pc \in [Procs -> Labels] /\ p \in Procs /\ HasOperand
      /\ owns \in [Item -> Content \cup {None}] /\ Removers \subseteq Procs
  BY DEF TypeInv, TypeOK, DiskOK, RemovalsOK, Procs
<1>1. /\ \A q \in Procs \ {p} : pc'[q] = pc[q]
      /\ \A q \in Removers \ {p} : at'[q] = at[q]
      /\ pc' \in [Procs -> Labels]
  BY RemovalTouches
<1> SUFFICES ASSUME NEW i \in Item, owns'[i] # None
             PROVE  i[2] <= at'[i[1]] /\ (pc'[i[1]] \in Moving => i[2] # at'[i[1]])
  BY DEF OwnedBefore
<1>i. i[1] \in Removers /\ i = <<i[1], i[2]>> /\ i[2] \in Nat
  <2>1. PICK q \in Removers : i \in {q} \X DOMAIN Operands[q]
    BY DEF Item
  <2>2. Operands[q] \in Seq(Path)
    BY TrashAssumption
  <2> QED
    BY <2>1, <2>2
<1>2. ASSUME owns'[i] = owns[i]
      PROVE  i[2] <= at[i[1]] /\ (pc[i[1]] \in Moving => i[2] # at[i[1]])
  BY <1>2 DEF OwnedBefore
<1>3. CASE i[1] # p
  <2>1. owns'[i] = owns[i]
    <3>1. CASE MoveToTrash(p)
      BY <1>0, <1>3, <3>1 DEF MoveToTrash, ItemOf
    <3>2. CASE owns' = owns
      BY <3>2
    <3> QED
      BY <3>1, <3>2 DEF RemovalStep, NextTarget, ProbeTarget, CreateMetadata, LstatTarget,
        Rollback, AppendBatch
  <2> QED
    BY <1>0, <1>1, <1>2, <1>3, <1>i, <2>1
<1>4. CASE i[1] = p
  <2>1. ASSUME owns' = owns, at' = at, pc'[p] \in Moving => pc[p] \in Moving
        PROVE  i[2] <= at'[i[1]] /\ (pc'[i[1]] \in Moving => i[2] # at'[i[1]])
    BY <1>2, <1>4, <2>1
  <2>2. CASE NextTarget(p)
    <3>1. CASE at' = [at EXCEPT ![p] = @ + 1]
      <4>1. at'[p] = at[p] + 1 /\ at[p] \in Nat /\ owns' = owns
        BY <1>0, <2>2, <3>1 DEF NextTarget
      <4>2. i[2] <= at[p]
        BY <1>2, <1>4, <4>1
      <4> QED
        BY <1>4, <1>i, <4>1, <4>2
    <3>2. CASE Goto(p, "append") /\ at' = at
      BY <1>0, <2>1, <2>2, <3>2, GotoTypes DEF NextTarget, Labels, Moving
    <3> QED
      BY <2>2, <3>1, <3>2 DEF NextTarget
  <2>3. CASE MoveToTrash(p)
    <3>1. CASE owns' = owns
      BY <2>1, <2>3, <3>1 DEF MoveToTrash, Moving
    <3>2. CASE Goto(p, "next") /\ owns' = [owns EXCEPT ![ItemOf(p)] = home[Source(p)]]
      <4>1. at' = at /\ pc'[p] = "next" /\ at[p] \in Nat
        BY <1>0, <2>3, <3>2, GotoTypes DEF MoveToTrash, Labels
      <4>2. CASE i = ItemOf(p)
        BY <1>4, <4>1, <4>2 DEF ItemOf, Moving
      <4>3. CASE i # ItemOf(p)
        BY <1>0, <1>2, <1>4, <3>2, <4>1, <4>3 DEF Moving
      <4> QED
        BY <4>2, <4>3
    <3> QED
      BY <2>3, <3>1, <3>2 DEF MoveToTrash
  <2>4. CASE AppendBatch(p)
    <3>1. Goto(p, "done") \/ Goto(p, "failed")
      BY <2>4 DEF AppendBatch
    <3> QED
      BY <1>0, <2>1, <2>4, <3>1, GotoTypes DEF AppendBatch, work, Labels, Ended, Moving
  <2>5. CASE owns' = owns /\ at' = at /\ pc[p] \in Moving
    BY <2>1, <2>5
  <2> QED
    BY <2>2, <2>3, <2>4, <2>5 DEF RemovalStep, ProbeTarget, CreateMetadata, LstatTarget,
      Rollback, work, Moving
<1> QED
  BY <1>3, <1>4

(* A step of p leaves what q took, q another command, as it was.           *)
LEMMA TakenFrame ==
  ASSUME NEW q \in Undoers, pc'[q] = pc[q], batch'[q] = batch[q], todo'[q] = todo[q], NEW i
  PROVE  TakenBy(q, i)' <=> TakenBy(q, i)
  BY DEF TakenBy, Running, Current

(* A removal that has not ended has nothing in the journal. *)
LEMMA NotWritten ==
  ASSUME TypeInv, Written, NEW p \in Removers, pc[p] \notin Ended, NEW k \in 1 .. Len(log)
  PROVE  log[k].record.item[1] # p
  BY DEF Written

LEMMA ActiveWritten ==
  ASSUME Written, NEW r \in Active
  PROVE  pc[r.item[1]] \in Ended
  BY ActiveAt DEF Written

LEMMA RemovalBatch ==
  ASSUME TypeInv, ExclusiveInv, SerialInv, NEW p \in Removers, RemovalStep(p)
  PROVE  /\ pc[p] \notin Ended
         /\ \A q \in Removers : Pending(q)'
         /\ \A r \in Record : Holding(p, r)' => Intact(r)'
<1>0. /\ p \in Procs /\ pc \in [Procs -> Labels] /\ pc[p] \notin Ended
      /\ batch \in [Procs -> Seq(Event)] /\ HasOperand
      /\ home \in [Path -> Content \cup {None}] /\ slot \in [Removers -> Slot]
      /\ owns \in [Item -> Content \cup {None}] /\ files \in [Slot -> Content \cup {None}]
  BY DEF TypeInv, TypeOK, DiskOK, RemovalsOK, Procs, RemovalStep, NextTarget,
    ProbeTarget, CreateMetadata, LstatTarget, MoveToTrash, Rollback, AppendBatch, Ended
<1>1. \A q \in Procs \ {p} : batch'[q] = batch[q]
  BY RemovalTouches
<1>2. \A q \in Removers \ {p} : Pending(q)'
  BY <1>1 DEF SerialInv, Batches, Pending, Procs
<1>3. Pending(p) /\ OwnedBefore /\ \A r \in Record : Holding(p, r) => Intact(r)
  BY <1>0 DEF SerialInv, Batches, PendingIntact
<1>4. \A r \in Record : Holding(p, r) => Intact(r)'
  BY <1>3, RemovalKeepsIntact
<1>5. CASE batch' = batch
  <2>1. Pending(p)'
    BY <1>3, <1>5 DEF Pending
  <2>2. \A r \in Record : Holding(p, r)' => Holding(p, r)
    BY <1>5 DEF Holding
  <2> QED
    BY <1>0, <1>2, <1>4, <2>1, <2>2
<1>6. CASE /\ MoveToTrash(p) /\ home[Source(p)] # None
           /\ files' = [files EXCEPT ![slot[p]] = home[Source(p)]]
           /\ owns' = [owns EXCEPT ![ItemOf(p)] = home[Source(p)]]
           /\ batch' = [batch EXCEPT ![p] = Append(@, ItemEvent(p))]
  <2>1. /\ pc[p] = "rename" /\ meta' = meta
        /\ ItemOf(p) \in Item /\ slot[p] \in Slot /\ Source(p) \in Path
    BY <1>0, <1>6, ItemInHand DEF MoveToTrash, Moving, TypeInv
  <2> DEFINE e == ItemEvent(p)
  <2>2. /\ e \in Event /\ e.action = "trashed" /\ e.record.item = ItemOf(p)
        /\ e.record.slot = slot[p] /\ e.record.item[1] = p /\ e.record \in Record
    BY <2>1 DEF ItemEvent, ItemOf, Event, Record
  <2> HIDE DEF e
  <2>3. /\ Len(batch'[p]) = Len(batch[p]) + 1 /\ Len(batch[p]) \in Nat
        /\ \A k \in 1 .. Len(batch[p]) : batch'[p][k] = batch[p][k]
        /\ batch'[p][Len(batch[p]) + 1] = e
    BY <1>0, <1>6, <2>2, BatchGrows DEF e
  <2>4. \A k \in 1 .. Len(batch'[p]) : k \in 1 .. Len(batch[p]) \/ batch'[p][k] = e
    BY <2>3
  <2>5. \A r \in Record : r = e.record => Intact(r)'
    <3>1. meta[slot[p]] = ItemOf(p)
      BY <2>1 DEF ExclusiveInv, Reservations, Holds, Reserved
    <3>2. /\ owns'[ItemOf(p)] # None /\ files'[slot[p]] = owns'[ItemOf(p)]
          /\ meta'[slot[p]] = ItemOf(p)
      BY <1>0, <1>6, <2>1, <3>1
    <3> QED
      BY <2>2, <3>2 DEF Intact
  <2>6. \A k \in 1 .. Len(batch[p]) : batch[p][k].record.item # e.record.item
    <3>1. owns[ItemOf(p)] = None
      BY <1>3, <2>1 DEF OwnedBefore, Moving, ItemOf
    <3>2. ASSUME NEW k \in 1 .. Len(batch[p]) PROVE Intact(batch[p][k].record)
      <4>1. batch[p][k] \in Event
        BY <1>0
      <4>2. batch[p][k].record \in Record /\ Holding(p, batch[p][k].record)
        BY <4>1 DEF Event, Holding
      <4> QED
        BY <1>3, <4>2
    <3> QED
      BY <2>2, <3>1, <3>2 DEF Intact
  <2>7. Pending(p)'
    <3>1. ASSUME NEW k \in 1 .. Len(batch'[p])
          PROVE  batch'[p][k].action = "trashed" /\ batch'[p][k].record.item[1] = p
      <4>1. CASE k \in 1 .. Len(batch[p])
        BY <1>3, <2>3, <4>1 DEF Pending
      <4> QED
        BY <2>2, <2>4, <4>1
    <3>2. ASSUME NEW k \in 1 .. Len(batch'[p]), NEW j \in 1 .. k - 1
          PROVE  batch'[p][j].record.item # batch'[p][k].record.item
      <4>1. j \in 1 .. Len(batch[p]) /\ batch'[p][j] = batch[p][j]
        BY <2>3, <3>2
      <4>2. CASE k \in 1 .. Len(batch[p])
        BY <1>3, <2>3, <4>1, <4>2 DEF Pending, Distinct, SameItem
      <4> QED
        BY <2>4, <2>6, <4>1, <4>2
    <3> QED
      BY <3>1, <3>2 DEF Pending, Distinct, SameItem
  <2>8. \A r \in Record : Holding(p, r)' => Holding(p, r) \/ r = e.record
    BY <2>3, <2>4 DEF Holding
  <2> QED
    BY <1>0, <1>2, <1>4, <2>5, <2>7, <2>8
<1>7. batch' = batch \/ MoveToTrash(p)
  BY DEF RemovalStep, NextTarget, ProbeTarget, CreateMetadata, LstatTarget, Rollback,
    AppendBatch, work
<1> QED
  BY <1>5, <1>6, <1>7 DEF MoveToTrash, ItemEvent

LEMMA SerialRemoval ==
  ASSUME Serial, TypeInv, ExclusiveInv, SerialInv, NEW p \in Removers, RemovalStep(p)
  PROVE  SerialInv'
<1>0. /\ TypeInv' /\ p \in Procs /\ pc \in [Procs -> Labels] /\ pc[p] \notin Ended
      /\ log \in Seq(Event) /\ batch \in [Procs -> Seq(Event)]
      /\ Removers \subseteq Procs /\ \A u \in Undoers : u \in Procs \ {p}
      /\ todo \in [Undoers -> Seq(Record)]
  BY RemovalTypes, RemovalBatch, TrashAssumption
  DEF TypeInv, TypeOK, JournalOK, UndosOK, Procs
<1>1. /\ \A q \in Procs \ {p} : pc'[q] = pc[q] /\ batch'[q] = batch[q]
      /\ todo' = todo /\ pc' \in [Procs -> Labels] /\ pc'[p] # "idle"
  BY RemovalTouches
<1>2. /\ \A q \in Removers : Pending(q)'
      /\ \A r \in Record : Holding(p, r)' => Intact(r)'
  BY RemovalBatch
<1>3. OwnedBefore'
  BY RemovalOwns DEF SerialInv
<1>4. \A u \in Undoers : /\ Running(u)' <=> Running(u)
                         /\ pc'[u] = pc[u] /\ batch'[u] = batch[u]
                         /\ \A i \in Item : TakenBy(u, i)' <=> TakenBy(u, i)
  BY <1>0, <1>1, TakenFrame DEF Running
<1>5. OneUndoer' /\ \A u \in Undoers : pc'[u] \in {"idle", "confirm"} => batch'[u] = <<>>
  BY <1>4 DEF SerialInv, OneUndoer, Batches
<1>6. PendingIntact'
  <2>1. ASSUME NEW q \in Removers \ {p}, pc[q] \notin Ended, NEW r \in Record, Holding(q, r)'
        PROVE  Intact(r)'
    <3>1. Holding(q, r)
      BY <1>0, <1>1, <2>1 DEF Holding
    <3>2. Intact(r)
      BY <2>1, <3>1 DEF SerialInv, PendingIntact
    <3> QED
      BY <3>2, RemovalKeepsIntact DEF SerialInv
  <2> QED
    BY <1>0, <1>1, <1>2, <2>1 DEF PendingIntact
<1>7. ASSUME NEW r \in Active
      PROVE  Intact(r)' \/ \E u \in Undoers : TakenBy(u, r.item)'
  <2>1. r \in Record /\ r.item \in Item
    BY ActiveRecords DEF TypeInv, Record
  <2>2. CASE Intact(r)
    BY <2>1, <2>2, RemovalKeepsIntact DEF SerialInv
  <2> QED
    BY <1>4, <2>1, <2>2 DEF SerialInv, LiveIntact
<1>8. CASE log' = log /\ torn' = torn
  <2>1. Active' = Active
    BY <1>8 DEF Active
  <2>2. torn' = FALSE /\ Lives'
    BY <1>8 DEF SerialInv, Lives
  <2>3. Written'
    <3> SUFFICES ASSUME NEW k \in 1 .. Len(log) PROVE pc'[log[k].record.item[1]] \in Ended
      BY <1>8 DEF Written
    <3>1. log[k].record.item[1] \in Procs \ {p} /\ pc[log[k].record.item[1]] \in Ended
      <4>1. log[k] \in Event
        BY <1>0
      <4>2. log[k].record.item \in Item
        BY <4>1 DEF Event, Record
      <4> QED
        BY <1>0, <4>2, ItemTypes DEF SerialInv, Written
    <3> QED
      BY <1>1, <3>1
  <2>4. \A u \in Undoers : Undoing(u) => Undoing(u)'
    BY <1>1, <1>4, <2>1 DEF Undoing, IsActive
  <2>5. Batches'
    BY <1>2, <1>4, <1>5, <2>4 DEF SerialInv, Batches
  <2>6. LiveIntact'
    BY <1>7, <2>1 DEF LiveIntact
  <2> QED
    BY <1>3, <1>5, <1>6, <2>2, <2>3, <2>5, <2>6 DEF SerialInv
<1>9. CASE AppendBatch(p)
  <2>0. /\ pc'[p] = "done" /\ torn' = FALSE /\ log' = log \o batch[p] /\ batch[p] \in Seq(Event)
        /\ UNCHANGED <<files, meta, owns>>
    BY <1>0, <1>9, SerialAppend DEF SerialInv, disk
  <2>1. Pending(p) /\ Lives /\ Written /\ \A k \in 1 .. Len(batch[p]) : batch[p][k] \in Event
    BY <2>0 DEF SerialInv, Batches
  <2>2. \A k \in 1 .. Len(batch[p]) : \A j \in 1 .. Len(log) : ~SameItem(log[j], batch[p][k])
    BY <1>0, <2>1, NotWritten DEF Pending, SameItem
  <2>3. Lives'
    BY <1>0, <2>0, <2>1, <2>2, LivesGrow DEF Pending
  <2>4. \A r \in Active : \A k \in 1 .. Len(batch[p]) : batch[p][k].record.item # r.item
    BY <1>0, <2>1, ActiveWritten DEF Pending
  <2>5. /\ \A r \in Active : r \in Active'
        /\ \A r \in Active' : r \in Active \/ \E k \in 1 .. Len(batch[p]) : batch[p][k].record = r
    BY <1>0, <2>0, <2>4, ActiveGrows
  <2>6. Written'
    <3> SUFFICES ASSUME NEW k \in 1 .. Len(log') PROVE pc'[log'[k].record.item[1]] \in Ended
      BY DEF Written
    <3>a. Extended(log, batch[p], log')
      BY <1>0, <2>0, Longer
    <3>1. CASE k \in 1 .. Len(log)
      <4>0. log[k] \in Event
        BY <1>0, <3>1
      <4>1. log'[k] = log[k] /\ log[k] \in Event
        BY <3>1, <3>a, <4>0 DEF Extended
      <4>2. log[k].record.item \in Item
        BY <4>1 DEF Event, Record
      <4>3. log[k].record.item[1] \in Procs /\ pc[log[k].record.item[1]] \in Ended
        BY <2>1, <3>1, <4>2, ItemTypes DEF Written
      <4> QED
        BY <1>0, <1>1, <4>1, <4>3
    <3>2. CASE \E j \in 1 .. Len(batch[p]) : log'[k] = batch[p][j]
      BY <2>0, <2>1, <3>2 DEF Pending, Ended
    <3> QED
      BY <3>1, <3>2, <3>a DEF Extended
  <2>7. \A u \in Undoers : Undoing(u) => Undoing(u)'
    BY <1>1, <1>4, <2>5 DEF Undoing, IsActive
  <2>8. Batches'
    BY <1>2, <1>4, <1>5, <2>7 DEF SerialInv, Batches
  <2>9. LiveIntact'
    <3> SUFFICES ASSUME NEW r \in Active', r \notin Active PROVE Intact(r)'
      BY <1>7 DEF LiveIntact
    <3>1. r \in Record
      BY <2>1, <2>5 DEF Event
    <3>2. Holding(p, r)
      BY <2>5 DEF Holding
    <3>3. Intact(r)
      BY <1>0, <3>1, <3>2 DEF SerialInv, PendingIntact
    <3> QED
      BY <3>1, <3>3, RemovalKeepsIntact DEF SerialInv
  <2> QED
    BY <1>3, <1>5, <1>6, <2>0, <2>3, <2>6, <2>8, <2>9 DEF SerialInv
<1> QED
  BY <1>8, <1>9 DEF RemovalStep, NextTarget, ProbeTarget, CreateMetadata, LstatTarget,
    MoveToTrash, Rollback, journal
-----------------------------------------------------------------------------
(* Restores and purges *)

(* While u steps, no other command undoes anything. *)
LEMMA Alone ==
  ASSUME Serial, TypeInv, SerialInv, NEW u \in Undoers, UndoStep(u)
  PROVE  /\ \A v \in Undoers \ {u} : ~Running(v) /\ ~Running(v)'
         /\ pc[u] # "idle" => Running(u)
<1>0. \A v \in Undoers \ {u} : pc'[v] = pc[v]
  BY UndoTouches DEF Procs
<1>1. CASE Select(u)
  <2>1. \A v \in Undoers : ~Running(v)
    BY <1>1 DEF Select, Serial
  <2> QED
    BY <1>0, <1>1, <2>1 DEF Running, Select
<1>2. CASE ~Select(u)
  <2>1. pc[u] \notin Ended /\ pc[u] # "idle"
    BY <1>2 DEF UndoStep, ConfirmPurge, NextRecord, LstatDestination, MoveBack, RemoveAll,
      RemoveMetadata, AppendBatch, Ended
  <2> QED
    BY <1>0, <2>1 DEF SerialInv, OneUndoer, Running
<1> QED
  BY <1>1, <1>2

LEMMA UndoneFrame ==
  ASSUME Serial, TypeInv, SerialInv, NEW u \in Undoers, UndoStep(u)
  PROVE  /\ \A r \in Active : Intact(r) \/ TakenBy(u, r.item)
         /\ \A p \in Removers : Pending(p)' /\ pc'[p] = pc[p]
               /\ \A r \in Record : Holding(p, r)' <=> Holding(p, r)
         /\ \A p \in Removers : pc[p] \notin Ended =>
               \A r \in Record : Holding(p, r) => Intact(r) /\ \A s \in Active : s.item # r.item
         /\ OwnedBefore' /\ OneUndoer'
<1>0. \A v \in Undoers \ {u} : ~Running(v) /\ ~Running(v)'
  BY Alone
<1>1. UNCHANGED <<at, owns>> /\ \A p \in Removers : pc'[p] = pc[p] /\ batch'[p] = batch[p]
  BY UndoTouches, TrashAssumption DEF Procs
<1>2. \A r \in Active : Intact(r) \/ TakenBy(u, r.item)
  BY <1>0 DEF SerialInv, LiveIntact, TakenBy
<1>3. \A p \in Removers : Pending(p)' /\ \A r \in Record : Holding(p, r)' <=> Holding(p, r)
  BY <1>1 DEF SerialInv, Batches, Pending, Holding
<1>4. ASSUME NEW p \in Removers, pc[p] \notin Ended, NEW r \in Record, Holding(p, r)
      PROVE  Intact(r) /\ \A s \in Active : s.item # r.item
  <2>1. Intact(r)
    BY <1>4 DEF SerialInv, PendingIntact
  <2>2. r.item[1] = p
    BY <1>4 DEF SerialInv, Batches, Pending, Holding
  <2> QED
    BY <1>4, <2>1, <2>2, ActiveWritten DEF SerialInv
<1>5. OwnedBefore'
  BY <1>1, ItemTypes DEF SerialInv, OwnedBefore
<1>6. OneUndoer'
  BY <1>0 DEF OneUndoer
<1> QED
  BY <1>1, <1>2, <1>3, <1>4, <1>5, <1>6

(* What is left to show of a step of u that does not write the journal.    *)
LEMMA SerialUndoStep ==
  ASSUME Serial, TypeInv, SerialInv, NEW u \in Undoers, UndoStep(u),
         log' = log, torn' = torn,
         Running(u)' => Undoing(u)',
         pc'[u] \in {"idle", "confirm"} => batch'[u] = <<>>,
         \A r \in Active : Intact(r)' \/ TakenBy(u, r.item)',
         \A r \in Record : (Intact(r) /\ \A s \in Active : s.item # r.item) => Intact(r)'
  PROVE  SerialInv'
<1>1. /\ \A p \in Removers : Pending(p)' /\ pc'[p] = pc[p]
            /\ \A r \in Record : Holding(p, r)' <=> Holding(p, r)
      /\ \A p \in Removers : pc[p] \notin Ended =>
            \A r \in Record : Holding(p, r) => Intact(r) /\ \A s \in Active : s.item # r.item
      /\ OwnedBefore' /\ OneUndoer'
  BY UndoneFrame
<1>2. \A v \in Undoers \ {u} : ~Running(v)'
  BY Alone
<1>3. torn' = FALSE /\ Lives' /\ Active' = Active
  BY DEF SerialInv, Lives, Active
<1>4. Written'
  <2>1. \A k \in 1 .. Len(log) : log[k].record.item[1] \in Removers
    <3> SUFFICES ASSUME NEW k \in 1 .. Len(log) PROVE log[k].record.item[1] \in Removers
      OBVIOUS
    <3>1. log[k] \in Event
      BY DEF TypeInv, TypeOK, JournalOK
    <3> QED
      BY <3>1, ItemTypes DEF Event, Record
  <2> QED
    BY <1>1, <2>1 DEF SerialInv, Written
<1>5. \A v \in Undoers : pc'[v] \in {"idle", "confirm"} => batch'[v] = <<>>
  <2>1. \A v \in Undoers \ {u} : pc'[v] = pc[v] /\ batch'[v] = batch[v]
    BY UndoTouches DEF Procs
  <2> QED
    BY <2>1 DEF SerialInv, Batches
<1>6. Batches'
  BY <1>1, <1>2, <1>5 DEF Batches
<1>7. LiveIntact'
  BY <1>3 DEF LiveIntact
<1>8. PendingIntact'
  BY <1>1 DEF PendingIntact
<1> QED
  BY <1>1, <1>3, <1>4, <1>6, <1>7, <1>8 DEF SerialInv

(* The records left to undo are still so when one is dropped. *)
LEMMA UndoingTail ==
  ASSUME NEW u \in Undoers, Undoing(u), todo[u] \in Seq(Record), log' = log, batch'[u] = batch[u],
         todo'[u] = todo[u] \/ (todo[u] # <<>> /\ todo'[u] = Tail(todo[u]))
  PROVE  Undoing(u)'
<1>1. Active' = Active
  BY DEF Active
<1>2. CASE todo'[u] = todo[u]
  BY <1>1, <1>2 DEF Undoing, IsActive
<1>3. CASE todo[u] # <<>> /\ todo'[u] = Tail(todo[u])
  <2>1. /\ Len(todo'[u]) = Len(todo[u]) - 1 /\ Len(todo[u]) \in Nat
        /\ \A k \in 1 .. Len(todo'[u]) : todo'[u][k] = todo[u][k + 1] /\ k + 1 \in 1 .. Len(todo[u])
    BY <1>3
  <2>2. ASSUME NEW k \in 1 .. Len(todo'[u])
        PROVE  /\ todo'[u][k] \in Active'
               /\ \A j \in 1 .. k - 1 : todo'[u][j].item # todo'[u][k].item
               /\ \A h \in 1 .. Len(batch[u]) : batch[u][h].record.item # todo'[u][k].item
    <3>1. /\ todo[u][k + 1] \in Active
          /\ \A j \in 1 .. k : todo[u][j].item # todo[u][k + 1].item
          /\ \A h \in 1 .. Len(batch[u]) : batch[u][h].record.item # todo[u][k + 1].item
      BY <2>1 DEF Undoing
    <3>2. ASSUME NEW j \in 1 .. k - 1 PROVE todo'[u][j].item # todo'[u][k].item
      <4>1. j \in 1 .. Len(todo'[u]) /\ j + 1 \in 1 .. k
        BY <2>1, <3>2
      <4> QED
        BY <2>1, <3>1, <4>1
    <3> QED
      BY <1>1, <2>1, <3>1, <3>2
  <2> QED
    BY <1>1, <2>2 DEF Undoing, IsActive
<1> QED
  BY <1>2, <1>3

(* A step that leaves the disk and the batch alone. *)
LEMMA QuietUndo ==
  ASSUME Serial, TypeInv, SerialInv, NEW u \in Undoers, UndoStep(u),
         UNCHANGED <<files, meta, owns, log, torn>>, batch' = batch,
         pc[u] \notin {"idle", "unmeta"}, pc'[u] \notin {"idle", "confirm"},
         Running(u)' \/ batch[u] = <<>>,
         todo'[u] = todo[u] \/ (todo[u] # <<>> /\ todo'[u] = Tail(todo[u]))
  PROVE  SerialInv'
<1>1. Running(u) /\ Undoing(u) /\ todo[u] \in Seq(Record)
  BY Alone DEF SerialInv, Batches, TypeInv, TypeOK, UndosOK
<1>2. Undoing(u)'
  BY <1>1, UndoingTail
<1>3. \A r \in Record : Intact(r)' <=> Intact(r)
  BY DEF Intact
<1>4. ASSUME NEW r \in Active PROVE Intact(r)' \/ TakenBy(u, r.item)'
  <2>1. r \in Record
    BY ActiveRecords DEF TypeInv
  <2>2. Intact(r) \/ TakenBy(u, r.item)
    BY UndoneFrame
  <2>3. TakenBy(u, r.item) => TakenBy(u, r.item)'
    BY DEF TakenBy
  <2> QED
    BY <1>3, <2>1, <2>2, <2>3
<1> QED
  BY <1>2, <1>3, <1>4, SerialUndoStep

(* The record in hand is the first of those left to undo. *)
LEMMA CurrentOfUndoing ==
  ASSUME TypeInv, NEW u \in Undoers, pc[u] \in {"lstat", "undo", "unmeta"}, Undoing(u)
  PROVE  /\ Current(u) \in Active /\ Current(u) \in Record
         /\ \A h \in 1 .. Len(batch[u]) : batch[u][h].record.item # Current(u).item
         /\ todo[u] \in Seq(Record) /\ todo[u] # <<>>
         /\ \A k \in 1 .. Len(Tail(todo[u])) : Tail(todo[u])[k].item # Current(u).item
<1>2. todo[u] \in Seq(Record) /\ todo[u] # <<>> /\ Current(u) \in Record
  BY RecordInHand DEF TypeInv, TypeOK, UndosOK, HasRecord
<1>3. Current(u) = todo[u][1] /\ 1 \in 1 .. Len(todo[u])
  BY <1>2 DEF Current
<1>4. ASSUME NEW k \in 1 .. Len(Tail(todo[u])) PROVE Tail(todo[u])[k].item # Current(u).item
  <2>1. Tail(todo[u])[k] = todo[u][k + 1] /\ k + 1 \in 1 .. Len(todo[u]) /\ 1 \in 1 .. (k + 1) - 1
    BY <1>2, <1>4
  <2> QED
    BY <1>3, <2>1 DEF Undoing
<1> QED
  BY <1>2, <1>3, <1>4 DEF Undoing

LEMMA CurrentRecord ==
  ASSUME TypeInv, SerialInv, NEW u \in Undoers, pc[u] \in {"lstat", "undo", "unmeta"}
  PROVE  /\ Running(u) /\ Undoing(u) /\ Current(u) \in Active /\ Current(u) \in Record
         /\ \A h \in 1 .. Len(batch[u]) : batch[u][h].record.item # Current(u).item
         /\ todo[u] \in Seq(Record) /\ todo[u] # <<>>
         /\ \A k \in 1 .. Len(Tail(todo[u])) : Tail(todo[u])[k].item # Current(u).item
<1>1. Running(u)
  BY DEF Running, Ended
<1>2. Undoing(u)
  BY <1>1 DEF SerialInv, Batches
<1> QED
  BY <1>1, <1>2, CurrentOfUndoing

(* What a command is about to take out of the trash is what it selected.   *)
LEMMA CurrentIntact ==
  ASSUME TypeInv, SerialInv, NEW u \in Undoers, pc[u] = "undo"
  PROVE  Intact(Current(u))
<1>1. /\ Running(u) /\ Current(u) \in Active
      /\ \A h \in 1 .. Len(batch[u]) : batch[u][h].record.item # Current(u).item
  BY CurrentRecord
<1>2. \A v \in Undoers : ~TakenBy(v, Current(u).item)
  BY <1>1 DEF SerialInv, OneUndoer, TakenBy
<1> QED
  BY <1>1, <1>2 DEF SerialInv, LiveIntact

LEMMA SerialEmpties ==
  ASSUME Serial, TypeInv, SerialInv, NEW u \in Undoers, UndoStep(u), pc[u] = "undo",
         files' = [files EXCEPT ![Current(u).slot] = None],
         UNCHANGED <<meta, owns, log, torn, batch, todo>>, pc'[u] = "unmeta"
  PROVE  SerialInv'
<1>0. files \in [Slot -> Content \cup {None}]
  BY DEF TypeInv, TypeOK, DiskOK
<1>1. /\ Undoing(u) /\ Current(u) \in Active /\ todo[u] \in Seq(Record)
      /\ Intact(Current(u)) /\ Current(u).slot \in Slot
  BY CurrentRecord, CurrentIntact DEF Record
<1>2. Undoing(u)'
  BY <1>1, UndoingTail
<1>3. ASSUME NEW r \in Record, Intact(r), r.item # Current(u).item PROVE Intact(r)'
  <2>1. r.slot # Current(u).slot
    BY <1>1, <1>3 DEF Intact
  <2> QED
    BY <1>0, <1>1, <1>3, <2>1 DEF Intact
<1>4. ASSUME NEW r \in Active PROVE Intact(r)' \/ TakenBy(u, r.item)'
  <2>1. r \in Record /\ (Intact(r) \/ TakenBy(u, r.item))
    BY ActiveRecords, UndoneFrame DEF TypeInv
  <2>2. Running(u)' /\ Current(u)' = Current(u)
    BY DEF Running, Ended, Current
  <2>3. CASE r.item = Current(u).item
    BY <2>2, <2>3 DEF TakenBy
  <2>4. CASE r.item # Current(u).item
    BY <1>3, <2>1, <2>2, <2>4 DEF TakenBy
  <2> QED
    BY <2>3, <2>4
<1> QED
  BY <1>1, <1>2, <1>3, <1>4, SerialUndoStep

(* The record in hand is done with: its event is in the batch, and the     *)
(* records that are left are of other items.                               *)
LEMMA UndoingDone ==
  ASSUME TypeInv, NEW u \in Undoers, RemoveMetadata(u), Undoing(u)
  PROVE  /\ Undoing(u)'
         /\ Len(batch'[u]) = Len(batch[u]) + 1 /\ Len(batch[u]) \in Nat
         /\ \A k \in 1 .. Len(batch[u]) : batch'[u][k] = batch[u][k]
         /\ batch'[u][Len(batch[u]) + 1].record.item = Current(u).item
<1>0. /\ pc[u] = "unmeta" /\ log' = log /\ todo' = [todo EXCEPT ![u] = Tail(@)]
      /\ batch \in [Procs -> Seq(Event)] /\ u \in Procs /\ todo \in [Undoers -> Seq(Record)]
  BY DEF RemoveMetadata, Skip, journal, TypeInv, TypeOK, UndosOK, Procs
<1>1. /\ Undoing(u) /\ Current(u) \in Active /\ Current(u) \in Record
      /\ \A h \in 1 .. Len(batch[u]) : batch[u][h].record.item # Current(u).item
      /\ todo[u] # <<>>
      /\ \A k \in 1 .. Len(Tail(todo[u])) : Tail(todo[u])[k].item # Current(u).item
  BY <1>0, CurrentOfUndoing
<1> DEFINE e == UndoEvent(u)
<1>2. e \in Event /\ e.action # "trashed" /\ e.record.item = Current(u).item
  <2>1. Destination(u) \in Path
    BY <1>0, RecordInHand DEF TypeInv
  <2> QED
    BY <1>1, <2>1 DEF UndoEvent, Event, Record
<1> HIDE DEF e
<1>3. /\ Len(batch'[u]) = Len(batch[u]) + 1 /\ Len(batch[u]) \in Nat
      /\ \A k \in 1 .. Len(batch[u]) : batch'[u][k] = batch[u][k]
      /\ batch'[u][Len(batch[u]) + 1] = e
  <2>1. batch' = [batch EXCEPT ![u] = Append(@, e)]
    BY DEF RemoveMetadata, UndoEvent, e
  <2> QED
    BY <1>0, <1>2, <2>1, BatchGrows
<1>4. \A k \in 1 .. Len(batch'[u]) : k \in 1 .. Len(batch[u]) \/ batch'[u][k] = e
  BY <1>3
<1>5. Active' = Active /\ todo'[u] = Tail(todo[u])
  BY <1>0 DEF Active
<1>6. Undoing(u)'
  <2>1. Distinct(batch'[u])
    <3> SUFFICES ASSUME NEW k \in 1 .. Len(batch'[u]), NEW j \in 1 .. k - 1
                 PROVE  batch'[u][j].record.item # batch'[u][k].record.item
      BY DEF Distinct, SameItem
    <3>1. j \in 1 .. Len(batch[u]) /\ batch'[u][j] = batch[u][j]
      BY <1>3
    <3>2. CASE k \in 1 .. Len(batch[u])
      BY <1>1, <1>3, <3>1, <3>2 DEF Undoing, Distinct, SameItem
    <3> QED
      BY <1>1, <1>2, <1>4, <3>1, <3>2
  <2>2. ASSUME NEW k \in 1 .. Len(batch'[u])
        PROVE  batch'[u][k].action # "trashed" /\ IsActive(batch'[u][k].record.item)
    <3>1. CASE k \in 1 .. Len(batch[u])
      BY <1>1, <1>3, <3>1 DEF Undoing
    <3> QED
      BY <1>1, <1>2, <1>4, <3>1 DEF IsActive
  <2>3. ASSUME NEW k \in 1 .. Len(todo'[u])
        PROVE  /\ todo'[u][k] \in Active
               /\ \A j \in 1 .. k - 1 : todo'[u][j].item # todo'[u][k].item
               /\ \A h \in 1 .. Len(batch[u]) : batch[u][h].record.item # todo'[u][k].item
               /\ Current(u).item # todo'[u][k].item
    <3>1. /\ Len(todo'[u]) = Len(todo[u]) - 1 /\ Len(todo[u]) \in Nat
          /\ \A i \in 1 .. Len(todo'[u]) : todo'[u][i] = todo[u][i + 1] /\ i + 1 \in 1 .. Len(todo[u])
      BY <1>0, <1>1, <1>5
    <3>2. /\ todo[u][k + 1] \in Active
          /\ \A j \in 1 .. k : todo[u][j].item # todo[u][k + 1].item
          /\ \A h \in 1 .. Len(batch[u]) : batch[u][h].record.item # todo[u][k + 1].item
      <4>1. k + 1 \in 1 .. Len(todo[u]) /\ (k + 1) - 1 = k
        BY <3>1
      <4>2. /\ todo[u][k + 1] \in Active
            /\ \A j \in 1 .. (k + 1) - 1 : todo[u][j].item # todo[u][k + 1].item
            /\ \A h \in 1 .. Len(batch[u]) : batch[u][h].record.item # todo[u][k + 1].item
        BY <1>1, <4>1 DEF Undoing
      <4> QED
        BY <4>1, <4>2
    <3>3. ASSUME NEW j \in 1 .. k - 1 PROVE todo'[u][j].item # todo'[u][k].item
      <4>1. j \in 1 .. Len(todo'[u]) /\ j + 1 \in 1 .. k
        BY <3>1, <3>3
      <4> QED
        BY <3>1, <3>2, <4>1
    <3> QED
      BY <1>1, <1>5, <3>1, <3>2, <3>3
  <2>4. ASSUME NEW k \in 1 .. Len(todo'[u]), NEW h \in 1 .. Len(batch'[u])
        PROVE  batch'[u][h].record.item # todo'[u][k].item
    <3>1. CASE h \in 1 .. Len(batch[u])
      BY <1>3, <2>3, <3>1
    <3> QED
      BY <1>2, <1>4, <2>3, <3>1
  <2>5. \A i : IsActive(i)' <=> IsActive(i)
    BY <1>5 DEF IsActive
  <2> QED
    BY <1>5, <2>1, <2>2, <2>3, <2>4, <2>5 DEF Undoing
<1> QED
  BY <1>2, <1>3, <1>6

LEMMA SerialUnmeta ==
  ASSUME Serial, TypeInv, ExclusiveInv, SerialInv, NEW u \in Undoers, RemoveMetadata(u)
  PROVE  SerialInv'
<1>0. /\ UndoStep(u) /\ pc[u] = "unmeta" /\ pc'[u] = "next"
      /\ UNCHANGED <<files, owns, log, torn>>
      /\ meta \in [Slot -> Item \cup {None}]
  BY GotoTypes DEF UndoStep, RemoveMetadata, Skip, journal, TypeInv, TypeOK, DiskOK, Labels, Procs
<1>1. Undoing(u) /\ Current(u) \in Record
  BY <1>0, CurrentRecord
<1>3. /\ Undoing(u)'
      /\ Len(batch'[u]) = Len(batch[u]) + 1 /\ Len(batch[u]) \in Nat
      /\ \A k \in 1 .. Len(batch[u]) : batch'[u][k] = batch[u][k]
      /\ batch'[u][Len(batch[u]) + 1].record.item = Current(u).item
  BY <1>1, UndoingDone
(* The suffix is empty, so no intact record is there. *)
<1>7. ASSUME NEW r \in Record, Intact(r) PROVE Intact(r)'
  <2>1. files[Current(u).slot] = None /\ Current(u).slot \in Slot
    BY <1>0, <1>1 DEF ExclusiveInv, Emptying, Emptied, Record
  <2>2. r.slot # Current(u).slot
    BY <1>7, <2>1 DEF Intact
  <2>s. r.slot \in Slot
    BY DEF Record
  <2>3. meta'[r.slot] = meta[r.slot]
    BY <1>0, <2>1, <2>2, <2>s DEF RemoveMetadata
  <2> QED
    BY <1>0, <1>7, <2>3 DEF Intact
<1>8. ASSUME NEW r \in Active PROVE Intact(r)' \/ TakenBy(u, r.item)'
  <2>1. r \in Record /\ (Intact(r) \/ TakenBy(u, r.item))
    BY <1>0, ActiveRecords, UndoneFrame DEF TypeInv
  <2>2. Running(u)'
    BY <1>0 DEF Running, Ended
  <2>3. ASSUME TakenBy(u, r.item) PROVE \E k \in 1 .. Len(batch'[u]) : batch'[u][k].record.item = r.item
    <3>1. CASE Current(u).item = r.item
      <4>1. Len(batch[u]) + 1 \in 1 .. Len(batch'[u])
        BY <1>3
      <4> QED
        BY <1>3, <3>1, <4>1
    <3>2. CASE \E k \in 1 .. Len(batch[u]) : batch[u][k].record.item = r.item
      BY <1>3, <3>2
    <3> QED
      BY <2>3, <3>1, <3>2 DEF TakenBy
  <2> QED
    BY <1>7, <2>1, <2>2, <2>3 DEF TakenBy
<1> QED
  BY <1>0, <1>3, <1>7, <1>8, SerialUndoStep

(* What is selected are active records, each once. *)
LEMMA UndoingSelect ==
  ASSUME TypeInv, NEW u \in Undoers, Select(u), batch[u] = <<>>, Running(u)'
  PROVE  Undoing(u)'
<1>0. /\ batch' = batch /\ log' = log /\ log \in Seq(Event)
      /\ todo \in [Undoers -> Seq(Record)] /\ pc \in [Procs -> Labels] /\ u \in Procs
  BY DEF Select, journal, TypeInv, TypeOK, JournalOK, UndosOK, Procs
<1>1. ~Goto(u, "failed")
  BY <1>0, GotoTypes DEF Running, Ended, Labels
<1>2. PICK n \in 1 .. Len(log) : \E rs \in [1 .. n -> Active] :
         /\ \A j, k \in 1 .. n : rs[j] = rs[k] => j = k
         /\ todo' = [todo EXCEPT ![u] = rs]
  BY <1>1 DEF Select
<1>3. PICK rs \in [1 .. n -> Active] :
         /\ \A j, k \in 1 .. n : rs[j] = rs[k] => j = k
         /\ todo' = [todo EXCEPT ![u] = rs]
  BY <1>2
<1>4. todo'[u] = rs /\ Len(rs) = n /\ n \in Nat /\ Active' = Active
  BY <1>0, <1>3 DEF Active
<1>5. \A k \in 1 .. n : \A j \in 1 .. k - 1 : rs[j].item # rs[k].item
  <2> SUFFICES ASSUME NEW k \in 1 .. n, NEW j \in 1 .. k - 1, rs[j].item = rs[k].item
               PROVE  FALSE
    OBVIOUS
  <2>1. j \in 1 .. n /\ j # k
    BY <1>4
  <2>2. rs[j] \in Active /\ rs[k] \in Active
    BY <2>1
  <2>3. rs[j] = rs[k]
    BY <1>0, <2>2, ActiveUnique
  <2> QED
    BY <1>3, <2>1, <2>3
<1>6. batch'[u] = <<>> /\ Len(batch'[u]) = 0
  BY <1>0
<1>7. \A k \in 1 .. Len(todo'[u]) : todo'[u][k] \in Active'
  BY <1>3, <1>4
<1> QED
  BY <1>4, <1>5, <1>6, <1>7 DEF Undoing, Distinct

LEMMA SerialSelect ==
  ASSUME Serial, TypeInv, SerialInv, NEW u \in Undoers, Select(u)
  PROVE  SerialInv'
<1>0. /\ UndoStep(u) /\ pc[u] = "idle" /\ batch[u] = <<>> /\ ~Running(u)
      /\ UNCHANGED <<files, meta, owns, log, torn, batch>> /\ log \in Seq(Event)
      /\ todo \in [Undoers -> Seq(Record)] /\ pc \in [Procs -> Labels] /\ u \in Procs
  BY DEF UndoStep, Select, SerialInv, Batches, Running, disk, journal, TypeInv, TypeOK, JournalOK,
    UndosOK, Procs
<1>1. \A r : Intact(r)' <=> Intact(r)
  BY <1>0 DEF Intact
<1>2. \A r \in Active : Intact(r)
  BY <1>0, UndoneFrame DEF TakenBy
<1>3. pc'[u] \in {"confirm", "next", "failed"}
  <2>1. \E label \in {"confirm", "next", "failed"} : Goto(u, label)
    BY DEF Select
  <2> QED
    BY <1>0, <2>1, GotoTypes DEF Labels, Ended
<1>4. Running(u)' => Undoing(u)'
  BY <1>0, UndoingSelect
<1> QED
  BY <1>0, <1>1, <1>2, <1>3, <1>4, SerialUndoStep

LEMMA SerialUndoAppend ==
  ASSUME Serial, TypeInv, SerialInv, NEW u \in Undoers, AppendBatch(u)
  PROVE  SerialInv'
<1>0. /\ UndoStep(u) /\ pc[u] = "append" /\ pc'[u] = "done" /\ torn' = FALSE
      /\ log' = log \o batch[u] /\ batch[u] \in Seq(Event) /\ log \in Seq(Event)
      /\ UNCHANGED <<files, meta, owns, batch>> /\ u \in Procs
  BY SerialAppend DEF UndoStep, SerialInv, disk, work, TypeInv, TypeOK, JournalOK, Procs
<1>1. Running(u) /\ ~Running(u)'
  BY <1>0 DEF Running, Ended
<1>2. /\ \A p \in Removers : Pending(p)' /\ pc'[p] = pc[p]
            /\ \A r \in Record : Holding(p, r)' <=> Holding(p, r)
      /\ OwnedBefore' /\ OneUndoer'
  BY <1>0, UndoneFrame
<1>3. Undoing(u) /\ Lives /\ Written
  BY <1>1 DEF SerialInv, Batches
<1>4. Lives'
  BY <1>0, <1>3, LivesGrow DEF Undoing
<1>5. \A r \in Active' : r \in Active /\ \A k \in 1 .. Len(batch[u]) : batch[u][k].record.item # r.item
  BY <1>0, <1>3, ActiveGrows DEF Undoing
<1>6. \A r : Intact(r)' <=> Intact(r)
  BY <1>0 DEF Intact
<1>7. LiveIntact'
  <2> SUFFICES ASSUME NEW r \in Active' PROVE Intact(r)
    BY <1>6 DEF LiveIntact
  <2>1. r \in Active /\ ~TakenBy(u, r.item)
    BY <1>0, <1>5 DEF TakenBy
  <2> QED
    BY <1>0, <2>1, UndoneFrame
<1>8. PendingIntact'
  BY <1>2, <1>6 DEF SerialInv, PendingIntact
<1>9. Batches'
  <2>1. \A v \in Undoers \ {u} : ~Running(v)' /\ pc'[v] = pc[v] /\ batch'[v] = batch[v]
    BY <1>0, Alone, UndoTouches DEF Procs
  <2> QED
    BY <1>0, <1>1, <1>2, <2>1 DEF SerialInv, Batches
<1>10. Written'
  <2> SUFFICES ASSUME NEW k \in 1 .. Len(log') PROVE pc'[log'[k].record.item[1]] \in Ended
    BY DEF Written
  <2>a. Extended(log, batch[u], log')
    BY <1>0, Longer
  <2>1. log'[k].record.item[1] \in Removers
    <3>1. log' \in Seq(Event)
      BY <2>a DEF Extended
    <3>2. log'[k] \in Event
      BY <3>1
    <3> QED
      BY <3>2, ItemTypes DEF Event, Record
  <2>2. CASE k \in 1 .. Len(log)
    <3>1. log'[k] = log[k]
      BY <2>2, <2>a DEF Extended
    <3> QED
      BY <1>2, <1>3, <2>1, <2>2, <3>1 DEF Written
  <2>3. CASE \E j \in 1 .. Len(batch[u]) : log'[k] = batch[u][j]
    <3>1. IsActive(log'[k].record.item)
      BY <1>3, <2>3 DEF Undoing
    <3> QED
      BY <1>2, <1>3, <2>1, <3>1, ActiveWritten DEF IsActive
  <2> QED
    BY <2>2, <2>3, <2>a DEF Extended
<1> QED
  BY <1>0, <1>2, <1>4, <1>7, <1>8, <1>9, <1>10 DEF SerialInv

LEMMA SerialUndo ==
  ASSUME Serial, TypeInv, ExclusiveInv, SerialInv, NEW u \in Undoers, UndoStep(u)
  PROVE  SerialInv'
<1>0. /\ u \in Procs /\ pc \in [Procs -> Labels] /\ todo \in [Undoers -> Seq(Record)]
  BY DEF TypeInv, TypeOK, UndosOK, Procs
<1>s. ASSUME Skip(u), pc[u] \in {"lstat", "undo", "unmeta"}
      PROVE  pc'[u] = "next" /\ todo[u] # <<>> /\ todo'[u] = Tail(todo[u])
  BY <1>0, <1>s, GotoTypes DEF Skip, Labels, TypeInv, HasRecord
<1>c. ASSUME Collide(u), pc[u] \in {"lstat", "undo"}
      PROVE  /\ pc'[u] \in {pc[u], "next"}
             /\ todo'[u] = todo[u] \/ (todo[u] # <<>> /\ todo'[u] = Tail(todo[u]))
  BY <1>s, <1>c DEF Collide
<1>q. ASSUME UNCHANGED <<files, meta, owns, log, torn>>, batch' = batch,
             pc[u] \notin {"idle", "unmeta"},
             pc'[u] \in {"next", "lstat", "undo", "append"},
             todo'[u] = todo[u] \/ (todo[u] # <<>> /\ todo'[u] = Tail(todo[u]))
      PROVE  SerialInv'
  BY <1>q, QuietUndo DEF Running, Ended
<1>1. CASE Select(u)
  BY <1>1, SerialSelect
<1>2. CASE ConfirmPurge(u)
  <2>1. UNCHANGED <<files, meta, owns, log, torn, batch, todo>> /\ pc[u] = "confirm"
    BY <1>2 DEF ConfirmPurge, disk, journal, work
  <2>2. pc'[u] \in {"failed", "next", "refused"}
    BY <1>0, <1>2, GotoTypes DEF ConfirmPurge, Labels, Ended
  <2>3. batch[u] = <<>>
    BY <2>1 DEF SerialInv, Batches
  <2> QED
    BY <2>1, <2>2, <2>3, QuietUndo
<1>3. CASE NextRecord(u)
  <2>1. UNCHANGED <<files, meta, owns, log, torn, batch, todo>> /\ pc[u] = "next"
    BY <1>3 DEF NextRecord, disk, journal, work
  <2>2. pc'[u] \in {"lstat", "undo", "append"}
    BY <1>0, <1>3, GotoTypes DEF NextRecord, Labels
  <2> QED
    BY <1>q, <2>1, <2>2
<1>4. CASE LstatDestination(u)
  <2>1. UNCHANGED <<files, meta, owns, log, torn, batch>> /\ pc[u] = "lstat"
    BY <1>4 DEF LstatDestination, disk, journal
  <2>2. CASE Collide(u)
    BY <1>c, <1>q, <2>1, <2>2
  <2>3. CASE Goto(u, "undo") /\ todo' = todo
    <3>1. pc'[u] = "undo"
      BY <1>0, <2>3, GotoTypes DEF Labels
    <3> QED
      BY <1>q, <2>1, <2>3, <3>1
  <2> QED
    BY <1>4, <2>2, <2>3 DEF LstatDestination
<1>5. CASE MoveBack(u)
  <2>1. UNCHANGED <<meta, owns, log, torn, batch>> /\ pc[u] = "undo"
    BY <1>5 DEF MoveBack, journal
  <2>2. CASE Skip(u) /\ files' = files
    BY <1>s, <1>q, <2>1, <2>2
  <2>3. CASE Collide(u) /\ files' = files
    BY <1>c, <1>q, <2>1, <2>3
  <2>4. CASE /\ files' = [files EXCEPT ![Current(u).slot] = None]
             /\ Goto(u, "unmeta") /\ todo' = todo
    <3>1. pc'[u] = "unmeta"
      BY <1>0, <2>4, GotoTypes DEF Labels
    <3> QED
      BY <2>1, <2>4, <3>1, SerialEmpties
  <2> QED
    BY <1>5, <2>2, <2>3, <2>4 DEF MoveBack
<1>6. CASE RemoveAll(u)
  <2>1. UNCHANGED <<meta, owns, log, torn, batch>> /\ pc[u] = "undo"
    BY <1>6 DEF RemoveAll, journal
  <2>2. CASE Skip(u) /\ files' = files
    BY <1>s, <1>q, <2>1, <2>2
  <2>3. CASE /\ files' = [files EXCEPT ![Current(u).slot] = None]
             /\ Goto(u, "unmeta") /\ todo' = todo
    <3>1. pc'[u] = "unmeta"
      BY <1>0, <2>3, GotoTypes DEF Labels
    <3> QED
      BY <2>1, <2>3, <3>1, SerialEmpties
  <2> QED
    BY <1>6, <2>2, <2>3 DEF RemoveAll
<1>7. CASE RemoveMetadata(u)
  BY <1>7, SerialUnmeta
<1>8. CASE AppendBatch(u)
  BY <1>8, SerialUndoAppend
<1> QED
  BY <1>1, <1>2, <1>3, <1>4, <1>5, <1>6, <1>7, <1>8 DEF UndoStep
-----------------------------------------------------------------------------
(* The invariant, and what follows from it *)

LEMMA SerialInit == Init => SerialInv
<1> SUFFICES ASSUME Init PROVE SerialInv
  OBVIOUS
<1>1. /\ Len(log) = 0 /\ torn = FALSE /\ Active = {}
      /\ \A p \in Procs : batch[p] = <<>> /\ Len(batch[p]) = 0 /\ pc[p] \in {"next", "idle"}
      /\ \A u \in Undoers : pc[u] = "idle" /\ u \in Procs
      /\ \A i \in Item : owns[i] = None
  BY TrashAssumption DEF Init, Procs, Active
<1>2. OneUndoer /\ Lives /\ Written /\ OwnedBefore /\ LiveIntact
  BY <1>1 DEF OneUndoer, Lives, Written, OwnedBefore, LiveIntact, Running
<1>3. Batches /\ PendingIntact
  BY <1>1 DEF Batches, Pending, Distinct, PendingIntact, Holding, Running, Procs
<1> QED
  BY <1>1, <1>2, <1>3 DEF SerialInv

LEMMA SerialKill ==
  ASSUME Serial, TypeInv, SerialInv, NEW p \in Procs, Kill(p)
  PROVE  SerialInv'
<1>1. /\ pc'[p] = "dead" /\ \A q \in Procs \ {p} : pc'[q] = pc[q]
      /\ UNCHANGED <<files, meta, owns, log, torn, batch, todo, at>>
      /\ p \notin Undoers /\ Removers \subseteq Procs /\ Undoers \subseteq Procs \ {p}
  BY GotoTypes DEF Kill, Serial, TypeInv, TypeOK, disk, journal, work, Labels, Ended, Procs
<1>2. Active' = Active
  BY <1>1 DEF Active
<1>3. \A u \in Undoers : pc'[u] = pc[u] /\ (Running(u)' <=> Running(u)) /\ (Undoing(u)' <=> Undoing(u))
                         /\ \A i : TakenBy(u, i)' <=> TakenBy(u, i)
  BY <1>1, <1>2 DEF Running, Undoing, IsActive, TakenBy, Current
<1>4. \A r : Intact(r)' <=> Intact(r)
  BY <1>1 DEF Intact
<1>5. \A q \in Removers : pc'[q] = pc[q] \/ pc'[q] = "dead"
  BY <1>1
<1>6. OneUndoer' /\ Lives' /\ LiveIntact'
  BY <1>1, <1>2, <1>3, <1>4 DEF SerialInv, OneUndoer, Lives, LiveIntact
<1>7. Batches'
  BY <1>1, <1>3 DEF SerialInv, Batches, Pending
<1>8. OwnedBefore' /\ PendingIntact'
  BY <1>1, <1>4, <1>5, ItemTypes DEF SerialInv, OwnedBefore, PendingIntact, Holding, Moving, Ended
<1>9. Written'
  <2> SUFFICES ASSUME NEW k \in 1 .. Len(log) PROVE pc'[log[k].record.item[1]] \in Ended
    BY <1>1 DEF Written
  <2>1. log[k] \in Event
    BY DEF TypeInv, TypeOK, JournalOK
  <2>2. log[k].record.item[1] \in Removers
    BY <2>1, ItemTypes DEF Event, Record
  <2> QED
    BY <1>5, <2>2 DEF SerialInv, Written, Ended
<1> QED
  BY <1>1, <1>6, <1>7, <1>8, <1>9 DEF SerialInv

LEMMA SerialFrame ==
  ASSUME SerialInv, UNCHANGED <<files, meta, owns, log, torn, pc, batch, todo, at>>
  PROVE  SerialInv'
<1>1. Active' = Active
  BY DEF Active
<1>2. /\ \A r : Intact(r)' <=> Intact(r)
      /\ \A u \in Undoers : (Running(u)' <=> Running(u)) /\ (Undoing(u)' <=> Undoing(u))
                            /\ \A i : TakenBy(u, i)' <=> TakenBy(u, i)
  BY <1>1 DEF Intact, Running, Undoing, IsActive, TakenBy, Current
<1>3. OneUndoer' /\ Lives' /\ Written' /\ OwnedBefore' /\ LiveIntact' /\ PendingIntact' /\ torn' = FALSE
  BY <1>1, <1>2 DEF SerialInv, OneUndoer, Lives, Written, OwnedBefore, LiveIntact, PendingIntact,
    Holding
<1>4. Batches'
  BY <1>2 DEF SerialInv, Batches, Pending
<1> QED
  BY <1>3, <1>4 DEF SerialInv

LEMMA SerialNext ==
  ASSUME Serial, TypeInv, ExclusiveInv, SerialInv, [Next]_vars
  PROVE  SerialInv'
<1>1. ASSUME NEW p \in Removers, RemovalStep(p) PROVE SerialInv'
  BY <1>1, SerialRemoval
<1>2. ASSUME NEW u \in Undoers, UndoStep(u) PROVE SerialInv'
  BY <1>2, SerialUndo
<1>3. ASSUME NEW p \in Procs, Kill(p) PROVE SerialInv'
  BY <1>3, SerialKill
<1>4. ASSUME NEW d \in Path, Create(d) PROVE SerialInv'
  BY <1>4, SerialFrame DEF Create, journal, work
<1>5. CASE UNCHANGED vars
  BY <1>5, SerialFrame DEF vars, disk, journal, work
<1> QED
  BY <1>1, <1>2, <1>3, <1>4, <1>5 DEF Next

(* A purge has the suffix it deletes under for itself: the item it was     *)
(* given is there, moved long since, so no reservation is.                 *)
LEMMA SerialPurges ==
  ASSUME TypeInv, ExclusiveInv, SerialInv
  PROVE  PurgesAlone
<1> SUFFICES ASSUME NEW u \in Purgers, pc[u] = "undo" PROVE HasAlone(u)
  BY DEF PurgesAlone
<1>0. u \in Undoers
  BY DEF Undoers
<1>1. Intact(Current(u)) /\ Running(u) /\ Current(u) \in Record /\ None \notin Item
  BY <1>0, CurrentIntact, CurrentRecord, TrashAssumption
<1>2. meta[Current(u).slot] # None
  BY <1>1 DEF Intact, Record
<1>3. ASSUME NEW p \in Removers, Reserved(p), slot[p] = Current(u).slot PROVE FALSE
  <2>1. meta[slot[p]] = ItemOf(p) /\ ItemOf(p) \in Item
    BY <1>3, ItemInHand DEF ExclusiveInv, Reservations, Holds, TypeInv, Reserved, Moving
  <2>2. owns[ItemOf(p)] # None
    BY <1>1, <1>3, <2>1 DEF Intact
  <2> QED
    BY <1>3, <2>1, <2>2 DEF SerialInv, OwnedBefore, Reserved, Moving, ItemOf
<1>4. \A v \in Undoers \ {u} : pc[v] # "unmeta"
  BY <1>0, <1>1 DEF SerialInv, OneUndoer, Running, Ended
<1> QED
  BY <1>2, <1>3, <1>4 DEF HasAlone

AllInv == TypeInv /\ ExclusiveInv /\ SerialInv

LEMMA SerialAlways ==
  ASSUME Serial
  PROVE  Spec => []AllInv
<1>1. Init => AllInv
  BY TypeInit, ExclusiveInit, SerialInit DEF AllInv
<1>2. AllInv /\ [Next]_vars => AllInv'
  <2> SUFFICES ASSUME AllInv, [Next]_vars PROVE AllInv'
    OBVIOUS
  <2>1. TypeInv /\ ExclusiveInv /\ SerialInv /\ PurgesAlone
    BY SerialPurges DEF AllInv
  <2>2. TypeInv'
    BY <2>1, TypeNext
  <2>3. ExclusiveInv'
    BY <2>1, ExclusiveNext
  <2>4. SerialInv'
    BY <2>1, SerialNext
  <2> QED
    BY <2>2, <2>3, <2>4 DEF AllInv
<1> QED
  BY <1>1, <1>2, PTL DEF Spec

(* A listed item can be recovered: its content and its metadata are where  *)
(* its record says, unless a running command has it in hand.               *)
THEOREM ActiveStaysIntact ==
  ASSUME Serial
  PROVE  Spec => []ActiveIntact
<1>1. AllInv => ActiveIntact
  <2> SUFFICES ASSUME AllInv, NEW r \in Active, ~InHand(r), ~Undone(r)
               PROVE  files[r.slot] = owns[r.item] /\ meta[r.slot] = r.item
    BY DEF ActiveIntact
  <2>1. ASSUME NEW u \in Undoers, TakenBy(u, r.item) PROVE FALSE
    <3>1. Running(u) /\ pc[u] = "unmeta" /\ Current(u).item = r.item
      BY <2>1 DEF TakenBy, Undone
    <3>2. Current(u) \in Active /\ todo[u] \in Seq(Record) /\ todo[u] # <<>> /\ log \in Seq(Event)
      BY <3>1, CurrentRecord DEF AllInv, TypeInv, TypeOK, JournalOK
    <3>3. Current(u) = r
      BY <3>1, <3>2, ActiveUnique
    <3>4. todo[u][1] = r /\ 1 \in 1 .. Len(todo[u])
      BY <3>2, <3>3 DEF Current
    <3> QED
      BY <3>1, <3>4 DEF InHand
  <2> QED
    BY <2>1 DEF AllInv, SerialInv, LiveIntact, Intact
<1> QED
  BY <1>1, SerialAlways, PTL

(* What leaves the trash is the item whose record the command was given:   *)
(* a restore or purge never touches a later item under the same name.      *)
THEOREM SelectedLeaves ==
  ASSUME Serial
  PROVE  Spec => OnlySelectedLeaves
<1> DEFINE Leaves(s) == \E u \in Undoers :
              /\ pc[u] = "undo" /\ pc'[u] = "unmeta"
              /\ Current(u).slot = s /\ owns[Current(u).item] = files[s]
<1>1. AllInv /\ [Next]_vars => [\A s \in Slot : files[s] # None /\ files'[s] # files[s] => Leaves(s)]_vars
  <2> SUFFICES ASSUME AllInv, Next, NEW s \in Slot, files[s] # None, files'[s] # files[s]
               PROVE  Leaves(s)
    OBVIOUS
  <2>0. TypeInv /\ ExclusiveInv /\ SerialInv /\ pc \in [Procs -> Labels]
        /\ files \in [Slot -> Content \cup {None}] /\ Undoers \subseteq Procs
    BY DEF AllInv, TypeInv, TypeOK, DiskOK, Procs
  <2>1. ASSUME NEW p \in Removers, RemovalStep(p) PROVE FALSE
    BY <2>0, <2>1, ExclusiveRemoval
  <2>2. ASSUME NEW u \in Undoers, UndoStep(u) PROVE Leaves(s)
    <3>1. pc[u] = "undo" /\ Goto(u, "unmeta") /\ files' = [files EXCEPT ![Current(u).slot] = None]
      BY <2>2 DEF UndoStep, Select, ConfirmPurge, NextRecord, LstatDestination, MoveBack, RemoveAll,
        RemoveMetadata, AppendBatch, disk
    <3>2. pc'[u] = "unmeta"
      BY <2>0, <3>1, GotoTypes DEF Labels
    <3>3. Current(u).slot = s
      BY <2>0, <3>1
    <3>4. owns[Current(u).item] = files[s]
      BY <2>0, <3>1, <3>3, CurrentIntact DEF Intact
    <3> QED
      BY <3>1, <3>2, <3>3, <3>4
  <2> QED
    BY <2>1, <2>2 DEF Next, Kill, Create, disk
<1> QED
  BY <1>1, SerialAlways, PTL DEF Spec, OnlySelectedLeaves

(* With purges too, as long as undoing commands take turns, a reservation  *)
(* is its removal's alone ...                                              *)
THEOREM ExclusiveWithPurges ==
  ASSUME Serial
  PROVE  Spec => []ReservationsExclusive
<1>1. AllInv => ReservationsExclusive
  BY DEF AllInv, ExclusiveInv, Reservations, Holds, ReservationsExclusive
<1> QED
  BY <1>1, SerialAlways, PTL

(* ... and no step puts one trash item in the place of another.            *)
THEOREM NeverOverwrittenWithPurges ==
  ASSUME Serial
  PROVE  Spec => TrashNeverOverwritten
<1>1. AllInv /\ [Next]_vars =>
        [\A s \in Slot : files[s] # None => files'[s] \in {files[s], None}]_vars
  BY NoOverwrite DEF AllInv
<1> QED
  BY <1>1, SerialAlways, PTL DEF Spec, TrashNeverOverwritten

(* Removals, and purges in turn, lose no content that is not purged, even  *)
(* where rename replaces its target.                                       *)
THEOREM PurgesLoseNothingElse ==
  ASSUME Serial, Restorers = {}
  PROVE  Spec => NothingLost
<1>1. AllInv => Unreplaced /\ TypeInv
  BY DEF AllInv, Unreplaced
<1> QED
  BY <1>1, SerialAlways, PlacesInit, LostNext, PTL DEF Spec, NothingLost
=============================================================================
