----------------------------- MODULE TrashProofs -----------------------------
(***************************************************************************)
(* What holds of Trash for any commands, paths, contents and suffixes.     *)
(***************************************************************************)
EXTENDS Trash, TLAPS, SequenceTheorems, FiniteSetTheorems

(* A removal that has a suffix in hand has an operand in hand. *)
Moving == {"probe", "create", "lstat", "rename", "rollback"}
HasOperand == \A p \in Removers : pc[p] \in Moving => at[p] > 0

(* An undoing command in the middle of a record has one, and the           *)
(* destination it tries is one of those of the record.                     *)
HasRecord == \A u \in Undoers :
    /\ pc[u] \in {"lstat", "undo", "unmeta"} => todo[u] # <<>>
    /\ pc[u] = "idle" => try[u] = 1
    /\ todo[u] # <<>> => try[u] <= Len(Destinations(Current(u).orig))

(* The event of the item that p has in hand.                               *)
ItemEvent(p) == [action |-> "trashed",
    record |-> [item |-> ItemOf(p), slot |-> slot[p], orig |-> Source(p)]]

(* The event of the record that u has in hand.                             *)
UndoEvent(u) ==
    IF u \in Restorers
    THEN [action |-> "restored", record |-> [Current(u) EXCEPT !.orig = Destination(u)]]
    ELSE [action |-> "purged", record |-> Current(u)]

TypeInv == TypeOK /\ HasOperand /\ HasRecord
-----------------------------------------------------------------------------
(* Types *)

LEMMA ItemInHand ==
  ASSUME TypeOK, HasOperand, NEW p \in Removers, pc[p] \in Moving
  PROVE  ItemOf(p) \in Item /\ Source(p) \in Path /\ at[p] \in DOMAIN Operands[p]
<1>1. at[p] \in Nat /\ at[p] > 0 /\ at[p] <= Len(Operands[p])
  BY DEF TypeOK, RemovalsOK, HasOperand
<1>2. Operands[p] \in Seq(Path)
  BY TrashAssumption
<1>3. at[p] \in DOMAIN Operands[p]
  BY <1>1, <1>2
<1> QED
  BY <1>2, <1>3 DEF ItemOf, Source, Item

LEMMA DestinationTypes ==
  ASSUME NEW d \in Path
  PROVE  Destinations(d) \in Seq(Path) /\ Len(Destinations(d)) >= 1
<1>1. Siblings[d] \in Seq(Path)
  BY TrashAssumption
<1> QED
  BY <1>1 DEF Destinations

LEMMA RecordInHand ==
  ASSUME TypeOK, HasRecord, NEW u \in Undoers, pc[u] \in {"lstat", "undo", "unmeta"}
  PROVE  Current(u) \in Record /\ Tail(todo[u]) \in Seq(Record) /\ Destination(u) \in Path
<1>1. todo[u] \in Seq(Record) /\ todo[u] # <<>>
  BY DEF TypeOK, UndosOK, HasRecord
<1>2. Current(u) \in Record
  BY <1>1 DEF Current
<1>3. Tail(todo[u]) \in Seq(Record)
  BY <1>1
<1>4. try[u] \in 1 .. Len(Destinations(Current(u).orig))
  BY <1>1, <1>2, DestinationTypes DEF TypeOK, UndosOK, HasRecord, Record
<1> QED
  BY <1>2, <1>3, <1>4, DestinationTypes DEF Destination, Record

LEMMA ActiveRecords ==
  ASSUME TypeOK
  PROVE  /\ Active \subseteq Record
         /\ \A r \in Active : \E k \in 1 .. Len(log) :
               log[k].record = r /\ log[k].action = "trashed"
<1>1. \A k \in 1 .. Len(log) : log[k].record \in Record
  <2>1. log \in Seq(Event)
    BY DEF TypeOK, JournalOK
  <2>2. \A e \in Event : e.record \in Record
    BY DEF Event
  <2> QED
    BY <2>1, <2>2
<1>2. ASSUME NEW r \in Active
      PROVE  \E k \in 1 .. Len(log) : log[k].record = r /\ log[k].action = "trashed"
  BY <1>2 DEF Active
<1> QED
  BY <1>1, <1>2

LEMMA TypeInit == Init => TypeInv
<1> SUFFICES ASSUME Init PROVE TypeInv
  OBVIOUS
<1> USE TrashAssumption DEF Init
<1>1. home \in [Path -> Content \cup {None}] /\ files \in [Slot -> Content \cup {None}]
      /\ meta \in [Slot -> Item \cup {None}] /\ fresh \in SUBSET Content
  OBVIOUS
<1>2. log \in Seq(Event) /\ kept \in 0 .. Len(log) /\ torn \in BOOLEAN
  <2>1. log \in Seq(Event) /\ Len(log) = 0 /\ kept = 0
    OBVIOUS
  <2>2. torn = FALSE
    OBVIOUS
  <2>3. kept \in 0 .. Len(log)
    BY <2>1
  <2>4. torn \in BOOLEAN
    BY <2>2
  <2> QED
    BY <2>1, <2>3, <2>4
<1>3. pc \in [Procs -> {"next", "idle"}]
  OBVIOUS
<1>4. at \in [Removers -> Nat] /\ \A p \in Removers : at[p] <= Len(Operands[p])
  OBVIOUS
<1>5. slot \in [Removers -> Slot] /\ todo \in [Undoers -> Seq(Record)]
      /\ try \in [Undoers -> Nat \ {0}]
  OBVIOUS
<1>6. batch \in [Procs -> Seq(Event)] /\ owns \in [Item -> Content \cup {None}]
      /\ stuck \in SUBSET Item
  OBVIOUS
<1>7. HasOperand /\ HasRecord
  BY DEF HasOperand, HasRecord, Moving, Procs
<1> QED
  BY <1>1, <1>2, <1>3, <1>4, <1>5, <1>6, <1>7 DEF TypeInv, TypeOK, DiskOK, JournalOK, RemovalsOK, UndosOK, Labels

(* An append leaves a sequence of events, of which the old one is the      *)
(* beginning.                                                              *)
LEMMA AppendTypes ==
  ASSUME TypeOK, NEW p \in Procs, AppendBatch(p)
  PROVE  /\ log' \in Seq(Event) /\ kept' \in 0 .. Len(log') /\ torn' \in BOOLEAN
         /\ Len(log) <= Len(log') /\ \A k \in 1 .. Len(log) : log'[k] = log[k]
<1>1. log \in Seq(Event) /\ kept \in 0 .. Len(log) /\ torn \in BOOLEAN /\ batch[p] \in Seq(Event)
  BY DEF TypeOK, JournalOK
<1>2. CASE UNCHANGED journal
  BY <1>1, <1>2 DEF journal
<1>3. CASE Journal!AppendAll(batch[p])
  BY <1>1, <1>3 DEF Journal!AppendAll
<1>4. CASE Journal!AppendPart(batch[p])
  <2>1. PICK k \in 0 .. Len(batch[p]) : /\ log' = log \o SubSeq(batch[p], 1, k)
                                       /\ torn' \in {FALSE, k < Len(batch[p])}
    BY <1>4 DEF Journal!AppendPart
  <2>2. SubSeq(batch[p], 1, k) \in Seq(Event)
    BY <1>1
  <2>3. log' \in Seq(Event) /\ Len(log') = Len(log) + Len(SubSeq(batch[p], 1, k))
        /\ \A j \in 1 .. Len(log) : log'[j] = log[j]
    BY <1>1, <2>1, <2>2, ConcatProperties
  <2>4. torn' \in BOOLEAN
    <3>1. (k < Len(batch[p])) \in BOOLEAN
      OBVIOUS
    <3>2. torn' = FALSE \/ torn' = (k < Len(batch[p]))
      BY <2>1
    <3> QED
      BY <3>1, <3>2, Zenon
  <2>5. kept' = kept /\ Len(SubSeq(batch[p], 1, k)) \in Nat /\ Len(log) \in Nat
    BY <1>1, <1>4, <2>2 DEF Journal!AppendPart
  <2> QED
    BY <1>1, <2>3, <2>4, <2>5
<1> QED
  BY <1>2, <1>3, <1>4 DEF AppendBatch

(* One event more in the batch of p.                                       *)
LEMMA BatchGrows ==
  ASSUME batch \in [Procs -> Seq(Event)], NEW p \in Procs, NEW e \in Event,
         batch' = [batch EXCEPT ![p] = Append(@, e)]
  PROVE  /\ batch' \in [Procs -> Seq(Event)]
         /\ \A q \in Procs \ {p} : batch'[q] = batch[q]
         /\ Len(batch'[p]) = Len(batch[p]) + 1
         /\ \A k \in 1 .. Len(batch[p]) : batch'[p][k] = batch[p][k]
         /\ batch'[p][Len(batch[p]) + 1] = e
<1>1. batch[p] \in Seq(Event)
  OBVIOUS
<1>2. Append(batch[p], e) \in Seq(Event)
  BY <1>1
<1>3. batch' \in [Procs -> Seq(Event)] /\ batch'[p] = Append(batch[p], e)
      /\ \A q \in Procs \ {p} : batch'[q] = batch[q]
  BY <1>2, Zenon
<1> QED
  BY <1>1, <1>3, AppendProperties

LEMMA GotoTypes ==
  ASSUME pc \in [Procs -> Labels], NEW p \in Procs, NEW label \in Labels, Goto(p, label)
  PROVE  /\ pc' \in [Procs -> Labels] /\ pc'[p] = label
         /\ \A q \in Procs \ {p} : pc'[q] = pc[q]
  BY DEF Goto

LEMMA NextSuffixTypes ==
  ASSUME RemovalsOK, pc \in [Procs -> Labels], NEW p \in Removers, NextSuffix(p)
  PROVE  /\ slot' \in [Removers -> Slot] /\ \A q \in Removers \ {p} : slot'[q] = slot[q]
         /\ pc' \in [Procs -> Labels] /\ pc'[p] \in {"probe", "next"}
         /\ \A q \in Procs \ {p} : pc'[q] = pc[q]
<1>1. slot \in [Removers -> Slot] /\ p \in Procs /\ MaxSuffix \in Nat /\ Slot = 0 .. MaxSuffix
  BY TrashAssumption DEF RemovalsOK, Procs
<1>2. CASE slot[p] < MaxSuffix
  <2>1. slot' = [slot EXCEPT ![p] = @ + 1] /\ Goto(p, "probe")
    BY <1>2 DEF NextSuffix
  <2>2. slot[p] + 1 \in Slot
    BY <1>1, <1>2
  <2>3. slot' \in [Removers -> Slot] /\ \A q \in Removers \ {p} : slot'[q] = slot[q]
    BY <1>1, <2>1, <2>2
  <2> QED
    BY <1>1, <2>1, <2>3, GotoTypes DEF Labels
<1>3. CASE ~(slot[p] < MaxSuffix)
  <2>1. slot' = slot /\ Goto(p, "next")
    BY <1>3 DEF NextSuffix
  <2> QED
    BY <1>1, <2>1, GotoTypes DEF Labels
<1> QED
  BY <1>2, <1>3

(* What a step of a removal leaves alone.                                  *)
LEMMA RemovalTouches ==
  ASSUME TypeInv, NEW p \in Removers, RemovalStep(p)
  PROVE  /\ UNCHANGED <<fresh, todo, try>>
         /\ \A q \in Procs \ {p} : pc'[q] = pc[q] /\ batch'[q] = batch[q]
         /\ \A q \in Removers \ {p} : at'[q] = at[q] /\ slot'[q] = slot[q]
         /\ pc' \in [Procs -> Labels] /\ pc'[p] # "idle"
<1>0. /\ p \in Procs /\ pc \in [Procs -> Labels] /\ RemovalsOK
      /\ at \in [Removers -> Nat] /\ slot \in [Removers -> Slot] /\ batch \in [Procs -> Seq(Event)]
  BY DEF TypeInv, TypeOK, RemovalsOK, Procs
<1>1. CASE NextTarget(p)
  BY <1>0, <1>1, GotoTypes DEF NextTarget, Labels
<1>2. CASE ProbeTarget(p)
  BY <1>0, <1>2, GotoTypes, NextSuffixTypes DEF ProbeTarget, Labels
<1>3. CASE CreateMetadata(p)
  <2>1. at' = at /\ batch' = batch /\ UNCHANGED <<fresh, todo, try>>
    BY <1>3 DEF CreateMetadata
  <2>2. NextSuffix(p) \/ (slot' = slot /\ \E label \in {"next", "rename", "lstat", "rollback"} : Goto(p, label))
    BY <1>3 DEF CreateMetadata
  <2> QED
    BY <1>0, <2>1, <2>2, GotoTypes, NextSuffixTypes DEF Labels
<1>4. CASE LstatTarget(p)
  BY <1>0, <1>4, GotoTypes DEF LstatTarget, Labels, work
<1>5. CASE MoveToTrash(p)
  BY <1>0, <1>5, GotoTypes DEF MoveToTrash, Labels
<1>6. CASE Rollback(p)
  BY <1>0, <1>6, GotoTypes DEF Rollback, Labels, work
<1>7. CASE AppendBatch(p)
  BY <1>0, <1>7, GotoTypes DEF AppendBatch, Labels, work, Ended
<1> QED
  BY <1>1, <1>2, <1>3, <1>4, <1>5, <1>6, <1>7 DEF RemovalStep

LEMMA RemovalTypes ==
  ASSUME TypeInv, NEW p \in Removers, RemovalStep(p)
  PROVE  TypeInv'
<1>0. /\ TypeOK /\ HasOperand /\ HasRecord /\ RemovalsOK /\ DiskOK /\ JournalOK
      /\ p \in Procs /\ p \notin Undoers
      /\ pc \in [Procs -> Labels] /\ batch \in [Procs -> Seq(Event)]
  BY TrashAssumption DEF TypeInv, TypeOK, Procs
<1>1. /\ UNCHANGED <<fresh, todo, try>>
      /\ \A q \in Procs \ {p} : pc'[q] = pc[q] /\ batch'[q] = batch[q]
      /\ \A q \in Removers \ {p} : at'[q] = at[q] /\ slot'[q] = slot[q]
      /\ pc' \in [Procs -> Labels]
  BY RemovalTouches
<1>2. UndosOK' /\ HasRecord'
  BY <1>0, <1>1 DEF TypeOK, UndosOK, HasRecord, Current, Procs
<1>3. /\ at \in [Removers -> Nat] /\ \A q \in Removers : at[q] <= Len(Operands[q])
      /\ slot \in [Removers -> Slot] /\ 0 \in Slot
      /\ \A q \in Removers : Len(Operands[q]) \in Nat
  BY <1>0, TrashAssumption DEF RemovalsOK
<1>4. ASSUME at' = at, slot' \in [Removers -> Slot], pc'[p] \in Moving => pc[p] \in Moving
      PROVE  RemovalsOK' /\ HasOperand'
  BY <1>0, <1>1, <1>3, <1>4 DEF RemovalsOK, HasOperand, Procs
<1>5. CASE NextTarget(p)
  <2>1. at' \in [Removers -> Nat] /\ \A q \in Removers : at'[q] <= Len(Operands[q])
    BY <1>3, <1>5 DEF NextTarget
  <2>2. slot' \in [Removers -> Slot]
    BY <1>3, <1>5 DEF NextTarget
  <2>3. pc'[p] \in Moving => at'[p] > 0
    <3>1. CASE at' = [at EXCEPT ![p] = @ + 1]
      BY <1>3, <3>1
    <3>2. CASE Goto(p, "append")
      BY <1>0, <3>2, GotoTypes DEF Labels, Moving
    <3> QED
      BY <1>5, <3>1, <3>2 DEF NextTarget
  <2>4. HasOperand'
    BY <1>0, <1>1, <2>3 DEF HasOperand, Procs
  <2>5. DiskOK' /\ JournalOK' /\ batch' = batch
    BY <1>0, <1>5 DEF NextTarget, DiskOK, JournalOK, disk, journal
  <2> QED
    BY <1>0, <1>1, <1>2, <2>1, <2>2, <2>4, <2>5 DEF TypeInv, TypeOK, RemovalsOK
<1>6. CASE ProbeTarget(p)
  <2>1. slot' \in [Removers -> Slot] /\ at' = at /\ pc[p] = "probe"
    BY <1>0, <1>3, <1>6, NextSuffixTypes DEF ProbeTarget
  <2>2. DiskOK' /\ JournalOK' /\ batch' = batch
    BY <1>0, <1>6 DEF ProbeTarget, DiskOK, JournalOK, disk, journal
  <2> QED
    BY <1>0, <1>1, <1>2, <1>4, <2>1, <2>2 DEF TypeInv, TypeOK, Moving
<1>7. CASE CreateMetadata(p)
  <2>1. slot' \in [Removers -> Slot] /\ at' = at /\ pc[p] = "create"
    BY <1>0, <1>3, <1>7, NextSuffixTypes DEF CreateMetadata
  <2>2. ItemOf(p) \in Item
    BY <1>0, <2>1, ItemInHand DEF Moving
  <2>3. meta' \in [Slot -> Item \cup {None}]
    BY <1>0, <1>7, <2>2 DEF CreateMetadata, DiskOK
  <2>4. DiskOK' /\ JournalOK' /\ batch' = batch
    BY <1>0, <1>7, <2>3 DEF CreateMetadata, DiskOK, JournalOK, journal
  <2> QED
    BY <1>0, <1>1, <1>2, <1>4, <2>1, <2>4 DEF TypeInv, TypeOK, Moving
<1>8. CASE LstatTarget(p)
  <2>1. slot' = slot /\ at' = at /\ pc[p] = "lstat"
    BY <1>8 DEF LstatTarget, work
  <2>2. DiskOK' /\ JournalOK' /\ batch' = batch
    BY <1>0, <1>8 DEF LstatTarget, DiskOK, JournalOK, disk, journal, work
  <2> QED
    BY <1>0, <1>1, <1>2, <1>3, <1>4, <2>1, <2>2 DEF TypeInv, TypeOK, Moving
<1>9. CASE MoveToTrash(p)
  <2>1. slot' = slot /\ at' = at /\ pc[p] = "rename" /\ meta' = meta
    BY <1>9 DEF MoveToTrash
  <2>2. ItemOf(p) \in Item /\ Source(p) \in Path /\ slot[p] \in Slot
    BY <1>0, <1>3, <2>1, ItemInHand DEF Moving
  <2>3. home' \in [Path -> Content \cup {None}] /\ files' \in [Slot -> Content \cup {None}]
    BY <1>0, <1>9, <2>2 DEF MoveToTrash, DiskOK
  <2>4. owns' \in [Item -> Content \cup {None}]
    BY <1>0, <1>9, <2>2 DEF MoveToTrash, DiskOK
  <2>5. ItemEvent(p) \in Event
    BY <2>2 DEF Event, Record, ItemEvent
  <2>6. batch' \in [Procs -> Seq(Event)]
    <3>1. batch' = batch \/ batch' = [batch EXCEPT ![p] = Append(@, ItemEvent(p))]
      BY <1>9 DEF MoveToTrash, ItemEvent
    <3> QED
      BY <1>0, <2>5, <3>1, BatchGrows
  <2>7. DiskOK' /\ JournalOK'
    BY <1>0, <1>9, <2>1, <2>3, <2>4 DEF MoveToTrash, DiskOK, JournalOK, journal
  <2> QED
    BY <1>0, <1>1, <1>2, <1>3, <1>4, <2>1, <2>6, <2>7 DEF TypeInv, TypeOK, Moving
<1>10. CASE Rollback(p)
  <2>1. slot' = slot /\ at' = at /\ pc[p] = "rollback" /\ ItemOf(p) \in Item
    BY <1>0, <1>10, ItemInHand DEF Rollback, work, Moving
  <2>2. DiskOK' /\ JournalOK' /\ batch' = batch
    BY <1>0, <1>10, <2>1 DEF Rollback, DiskOK, JournalOK, journal, work
  <2> QED
    BY <1>0, <1>1, <1>2, <1>3, <1>4, <2>1, <2>2 DEF TypeInv, TypeOK, Moving
<1>11. CASE AppendBatch(p)
  <2>1. slot' = slot /\ at' = at /\ batch' = batch /\ DiskOK'
    BY <1>0, <1>11 DEF AppendBatch, work, disk, DiskOK
  <2>2. JournalOK'
    BY <1>0, <1>11, AppendTypes DEF JournalOK
  <2>3. pc'[p] \notin Moving
    <3>1. Goto(p, "done") \/ Goto(p, "failed")
      BY <1>11 DEF AppendBatch
    <3> QED
      BY <1>0, <3>1, GotoTypes DEF Labels, Moving, Ended
  <2> QED
    BY <1>0, <1>1, <1>2, <1>3, <1>4, <2>1, <2>2, <2>3 DEF TypeInv, TypeOK
<1> QED
  BY <1>5, <1>6, <1>7, <1>8, <1>9, <1>10, <1>11 DEF RemovalStep

(* What a step of an undoing command leaves alone.                         *)
LEMMA UndoTouches ==
  ASSUME TypeInv, NEW u \in Undoers, UndoStep(u)
  PROVE  /\ UNCHANGED <<fresh, at, slot, owns, stuck>>
         /\ \A q \in Procs \ {u} : pc'[q] = pc[q] /\ batch'[q] = batch[q]
         /\ \A v \in Undoers \ {u} : todo'[v] = todo[v] /\ try'[v] = try[v]
         /\ pc' \in [Procs -> Labels] /\ pc'[u] # "idle"
<1>0. /\ u \in Procs /\ pc \in [Procs -> Labels] /\ batch \in [Procs -> Seq(Event)]
      /\ todo \in [Undoers -> Seq(Record)] /\ try \in [Undoers -> Nat \ {0}]
  BY DEF TypeInv, TypeOK, UndosOK, Procs
<1>s. ASSUME Skip(u)
      PROVE  /\ pc' \in [Procs -> Labels] /\ pc'[u] # "idle"
             /\ \A q \in Procs \ {u} : pc'[q] = pc[q]
             /\ \A v \in Undoers \ {u} : todo'[v] = todo[v] /\ try'[v] = try[v]
  BY <1>0, <1>s, GotoTypes DEF Skip, Labels
<1>c. ASSUME Collide(u), pc[u] # "idle"
      PROVE  /\ pc' \in [Procs -> Labels] /\ pc'[u] # "idle"
             /\ \A q \in Procs \ {u} : pc'[q] = pc[q]
             /\ \A v \in Undoers \ {u} : todo'[v] = todo[v] /\ try'[v] = try[v]
  BY <1>0, <1>s, <1>c DEF Collide
<1>1. CASE Select(u)
  <2>1. UNCHANGED <<fresh, at, slot, owns, stuck, try, batch>>
    BY <1>1 DEF Select
  <2>2. \A v \in Undoers \ {u} : todo'[v] = todo[v]
    BY <1>0, <1>1 DEF Select
  <2>3. \E label \in {"confirm", "next", "failed"} : Goto(u, label)
    BY <1>1 DEF Select
  <2> QED
    BY <1>0, <2>1, <2>2, <2>3, GotoTypes DEF Labels, Ended
<1>2. CASE ConfirmPurge(u)
  BY <1>0, <1>2, GotoTypes DEF ConfirmPurge, Labels, Ended, work
<1>3. CASE NextRecord(u)
  BY <1>0, <1>3, GotoTypes DEF NextRecord, Labels, work
<1>4. CASE LstatDestination(u)
  BY <1>0, <1>4, <1>c, GotoTypes DEF LstatDestination, Labels
<1>5. CASE MoveBack(u)
  <2>1. UNCHANGED <<fresh, at, slot, batch, owns, stuck>> /\ pc[u] # "idle"
    BY <1>5 DEF MoveBack
  <2>2. Skip(u) \/ Collide(u) \/ (Goto(u, "unmeta") /\ UNCHANGED <<todo, try>>)
    BY <1>5 DEF MoveBack
  <2> QED
    BY <1>0, <1>s, <1>c, <2>1, <2>2, GotoTypes DEF Labels
<1>6. CASE RemoveAll(u)
  BY <1>0, <1>6, <1>s, GotoTypes DEF RemoveAll, Labels
<1>7. CASE RemoveMetadata(u)
  <2>1. UNCHANGED <<fresh, at, slot, owns, stuck>> /\ Skip(u)
    BY <1>7 DEF RemoveMetadata
  <2>2. \A q \in Procs \ {u} : batch'[q] = batch[q]
    BY <1>0, <1>7 DEF RemoveMetadata
  <2> QED
    BY <1>s, <2>1, <2>2
<1>8. CASE AppendBatch(u)
  BY <1>0, <1>8, GotoTypes DEF AppendBatch, Labels, Ended, work
<1> QED
  BY <1>1, <1>2, <1>3, <1>4, <1>5, <1>6, <1>7, <1>8 DEF UndoStep

LEMMA SkipTypes ==
  ASSUME TypeInv, NEW u \in Undoers, pc[u] \in {"lstat", "undo", "unmeta"}, Skip(u)
  PROVE  UndosOK' /\ HasRecord'
<1>0. /\ u \in Procs /\ pc \in [Procs -> Labels] /\ TypeOK /\ HasRecord
      /\ todo \in [Undoers -> Seq(Record)] /\ try \in [Undoers -> Nat \ {0}]
  BY DEF TypeInv, TypeOK, UndosOK, Procs
<1>1. Tail(todo[u]) \in Seq(Record)
  BY <1>0, RecordInHand
<1>2. todo' = [todo EXCEPT ![u] = Tail(@)] /\ try' = [try EXCEPT ![u] = 1]
  BY DEF Skip
<1>3. UndosOK'
  BY <1>0, <1>1, <1>2 DEF UndosOK
<1>4. pc'[u] = "next" /\ \A v \in Undoers \ {u} : pc'[v] = pc[v]
  BY <1>0, GotoTypes DEF Skip, Labels, Procs
<1>5. todo'[u] # <<>> => try'[u] <= Len(Destinations(Head(todo'[u]).orig))
  <2>1. ASSUME todo'[u] # <<>> PROVE Head(todo'[u]).orig \in Path
    <3>1. todo'[u] \in Seq(Record)
      BY <1>3 DEF UndosOK
    <3>2. Head(todo'[u]) \in Record
      BY <2>1, <3>1
    <3> QED
      BY <3>2 DEF Record
  <2>2. try'[u] = 1
    BY <1>0, <1>2
  <2> QED
    BY <2>1, <2>2, DestinationTypes
<1> QED
  BY <1>0, <1>2, <1>3, <1>4, <1>5 DEF HasRecord, Current

LEMMA CollideTypes ==
  ASSUME TypeInv, NEW u \in Undoers, pc[u] \in {"lstat", "undo", "unmeta"}, Collide(u)
  PROVE  UndosOK' /\ HasRecord'
<1>0. /\ TypeOK /\ HasRecord
      /\ todo \in [Undoers -> Seq(Record)] /\ try \in [Undoers -> Nat \ {0}]
  BY DEF TypeInv, TypeOK, UndosOK
<1>1. CASE try[u] < Len(Destinations(Current(u).orig))
  <2>1. try' = [try EXCEPT ![u] = @ + 1] /\ UNCHANGED <<todo, pc>>
    BY <1>1 DEF Collide
  <2>2. Current(u).orig \in Path
    BY <1>0, RecordInHand DEF Record
  <2>3. Len(Destinations(Current(u).orig)) \in Nat
    BY <2>2, DestinationTypes
  <2> QED
    BY <1>0, <1>1, <2>1, <2>3 DEF UndosOK, HasRecord, Current
<1>2. CASE ~(try[u] < Len(Destinations(Current(u).orig)))
  BY <1>2, SkipTypes DEF Collide
<1> QED
  BY <1>1, <1>2

LEMMA UndoTypes ==
  ASSUME TypeInv, NEW u \in Undoers, UndoStep(u)
  PROVE  TypeInv'
<1>0. /\ TypeOK /\ HasOperand /\ HasRecord /\ RemovalsOK /\ DiskOK /\ JournalOK /\ UndosOK
      /\ u \in Procs /\ u \notin Removers
      /\ pc \in [Procs -> Labels] /\ batch \in [Procs -> Seq(Event)]
  BY TrashAssumption DEF TypeInv, TypeOK, Procs
<1>1. /\ UNCHANGED <<fresh, at, slot, owns, stuck>>
      /\ \A q \in Procs \ {u} : pc'[q] = pc[q] /\ batch'[q] = batch[q]
      /\ \A v \in Undoers \ {u} : todo'[v] = todo[v] /\ try'[v] = try[v]
      /\ pc' \in [Procs -> Labels] /\ pc'[u] # "idle"
  BY UndoTouches
<1>2. RemovalsOK' /\ HasOperand'
  BY <1>0, <1>1 DEF RemovalsOK, HasOperand, Procs
<1>3. ASSUME UNCHANGED <<todo, try>>,
             pc'[u] \in {"lstat", "undo", "unmeta"} => todo[u] # <<>>
      PROVE  UndosOK' /\ HasRecord'
  BY <1>0, <1>1, <1>3 DEF UndosOK, HasRecord, Current, Procs
<1>4. ASSUME DiskOK', JournalOK', UndosOK' /\ HasRecord', batch' = batch
      PROVE  TypeInv'
  BY <1>0, <1>1, <1>2, <1>4 DEF TypeInv, TypeOK
<1>5. CASE Select(u)
  <2>1. DiskOK' /\ JournalOK' /\ batch' = batch /\ try' = try /\ pc[u] = "idle"
    BY <1>0, <1>5 DEF Select, DiskOK, JournalOK, disk, journal
  <2>2. todo' \in [Undoers -> Seq(Record)]
    <3>1. CASE todo' = todo
      BY <1>0, <3>1 DEF UndosOK
    <3>2. CASE \E n \in 1 .. Len(log) : \E rs \in [1 .. n -> Active] :
                  todo' = [todo EXCEPT ![u] = rs]
      <4>1. PICK n \in 1 .. Len(log) :
               \E rs \in [1 .. n -> Active] : todo' = [todo EXCEPT ![u] = rs]
        BY <3>2
      <4>2. PICK rs \in [1 .. n -> Active] : todo' = [todo EXCEPT ![u] = rs]
        BY <4>1
      <4>3. n \in Nat /\ rs \in [1 .. n -> Record]
        BY <1>0, ActiveRecords
      <4>4. rs \in Seq(Record)
        BY <4>3
      <4> QED
        BY <1>0, <4>2, <4>4 DEF UndosOK
    <3> QED
      BY <1>5, <3>1, <3>2 DEF Select
  <2>3. UndosOK'
    BY <1>0, <2>1, <2>2 DEF UndosOK
  <2>4. pc'[u] \in {"confirm", "next", "failed"}
    <3>1. \E label \in {"confirm", "next", "failed"} : Goto(u, label)
      BY <1>5 DEF Select
    <3> QED
      BY <1>0, <3>1, GotoTypes DEF Labels, Ended
  <2>5. todo'[u] # <<>> => try'[u] <= Len(Destinations(Head(todo'[u]).orig))
    <3>1. try'[u] = 1
      BY <1>0, <2>1 DEF HasRecord
    <3>2. ASSUME todo'[u] # <<>> PROVE Head(todo'[u]).orig \in Path
      <4>1. todo'[u] \in Seq(Record)
        BY <2>2
      <4>2. Head(todo'[u]) \in Record
        BY <3>2, <4>1
      <4> QED
        BY <4>2 DEF Record
    <3> QED
      BY <3>1, <3>2, DestinationTypes
  <2>6. HasRecord'
    BY <1>0, <1>1, <2>4, <2>5 DEF HasRecord, Current, Procs
  <2> QED
    BY <1>4, <2>1, <2>3, <2>6
<1>6. CASE ConfirmPurge(u)
  <2>1. DiskOK' /\ JournalOK' /\ batch' = batch /\ UNCHANGED <<todo, try>>
    BY <1>0, <1>6 DEF ConfirmPurge, DiskOK, JournalOK, disk, journal, work
  <2>2. pc'[u] \in {"failed", "next", "refused"}
    BY <1>0, <1>6, GotoTypes DEF ConfirmPurge, Labels, Ended
  <2> QED
    BY <1>3, <1>4, <2>1, <2>2
<1>7. CASE NextRecord(u)
  <2>1. DiskOK' /\ JournalOK' /\ batch' = batch /\ UNCHANGED <<todo, try>>
    BY <1>0, <1>7 DEF NextRecord, DiskOK, JournalOK, disk, journal, work
  <2>2. todo[u] # <<>> \/ pc'[u] = "append"
    BY <1>0, <1>7, GotoTypes DEF NextRecord, Labels
  <2> QED
    BY <1>3, <1>4, <2>1, <2>2
<1>8. CASE LstatDestination(u)
  <2>1. DiskOK' /\ JournalOK' /\ batch' = batch /\ pc[u] = "lstat"
    BY <1>0, <1>8 DEF LstatDestination, DiskOK, JournalOK, disk, journal
  <2>2. CASE Collide(u)
    BY <1>4, <2>1, <2>2, CollideTypes
  <2>3. CASE UNCHANGED <<todo, try>>
    BY <1>0, <1>3, <1>4, <2>1, <2>3 DEF HasRecord
  <2> QED
    BY <1>8, <2>2, <2>3 DEF LstatDestination
<1>9. CASE MoveBack(u)
  <2>1. JournalOK' /\ batch' = batch /\ pc[u] = "undo" /\ meta' = meta
    BY <1>0, <1>9 DEF MoveBack, JournalOK, journal
  <2>2. Current(u).slot \in Slot /\ Destination(u) \in Path
    BY <1>0, <2>1, RecordInHand DEF Record
  <2>3. home' \in [Path -> Content \cup {None}] /\ files' \in [Slot -> Content \cup {None}]
    BY <1>0, <1>9, <2>2 DEF MoveBack, DiskOK
  <2>4. DiskOK'
    BY <1>0, <1>1, <2>1, <2>3 DEF DiskOK
  <2>5. CASE Skip(u)
    BY <1>4, <2>1, <2>4, <2>5, SkipTypes
  <2>6. CASE Collide(u)
    BY <1>4, <2>1, <2>4, <2>6, CollideTypes
  <2>7. CASE UNCHANGED <<todo, try>>
    BY <1>0, <1>3, <1>4, <2>1, <2>4, <2>7 DEF HasRecord
  <2> QED
    BY <1>9, <2>5, <2>6, <2>7 DEF MoveBack
<1>10. CASE RemoveAll(u)
  <2>1. JournalOK' /\ batch' = batch /\ pc[u] = "undo" /\ meta' = meta /\ home' = home
    BY <1>0, <1>10 DEF RemoveAll, JournalOK, journal
  <2>2. files' \in [Slot -> Content \cup {None}]
    BY <1>0, <1>10 DEF RemoveAll, DiskOK
  <2>3. DiskOK'
    BY <1>0, <1>1, <2>1, <2>2 DEF DiskOK
  <2>4. CASE Skip(u)
    BY <1>4, <2>1, <2>3, <2>4, SkipTypes
  <2>5. CASE UNCHANGED <<todo, try>>
    BY <1>0, <1>3, <1>4, <2>1, <2>3, <2>5 DEF HasRecord
  <2> QED
    BY <1>10, <2>4, <2>5 DEF RemoveAll
<1>11. CASE RemoveMetadata(u)
  <2>1. JournalOK' /\ pc[u] = "unmeta" /\ home' = home /\ files' = files
    BY <1>0, <1>11 DEF RemoveMetadata, JournalOK, journal
  <2>2. meta' \in [Slot -> Item \cup {None}]
    BY <1>0, <1>11 DEF RemoveMetadata, DiskOK
  <2>3. DiskOK'
    BY <1>0, <1>1, <2>1, <2>2 DEF DiskOK
  <2>4. UndosOK' /\ HasRecord'
    BY <1>11, <2>1, SkipTypes DEF RemoveMetadata
  <2>5. batch' \in [Procs -> Seq(Event)]
    <3>1. UndoEvent(u) \in Event
      BY <1>0, <2>1, RecordInHand DEF UndoEvent, Event, Record
    <3>2. batch' = [batch EXCEPT ![u] = Append(@, UndoEvent(u))]
      BY <1>11 DEF RemoveMetadata, UndoEvent
    <3> QED
      BY <1>0, <3>1, <3>2, BatchGrows
  <2> QED
    BY <1>0, <1>1, <1>2, <2>1, <2>3, <2>4, <2>5 DEF TypeInv, TypeOK
<1>12. CASE AppendBatch(u)
  <2>1. DiskOK' /\ batch' = batch /\ UNCHANGED <<todo, try>>
    BY <1>0, <1>12 DEF AppendBatch, work, disk, DiskOK
  <2>2. JournalOK'
    BY <1>0, <1>12, AppendTypes DEF JournalOK
  <2>3. pc'[u] \in {"done", "failed"}
    <3>1. Goto(u, "done") \/ Goto(u, "failed")
      BY <1>12 DEF AppendBatch
    <3> QED
      BY <1>0, <3>1, GotoTypes DEF Labels, Ended
  <2> QED
    BY <1>3, <1>4, <2>1, <2>2, <2>3
<1> QED
  BY <1>5, <1>6, <1>7, <1>8, <1>9, <1>10, <1>11, <1>12 DEF UndoStep

LEMMA TypeNext == TypeInv /\ [Next]_vars => TypeInv'
<1> SUFFICES ASSUME TypeInv, [Next]_vars PROVE TypeInv'
  OBVIOUS
<1>1. ASSUME NEW p \in Removers, RemovalStep(p) PROVE TypeInv'
  BY <1>1, RemovalTypes
<1>2. ASSUME NEW u \in Undoers, UndoStep(u) PROVE TypeInv'
  BY <1>2, UndoTypes
<1>3. ASSUME NEW p \in Procs, Kill(p) PROVE TypeInv'
  <2>1. DiskOK' /\ JournalOK' /\ RemovalsOK' /\ UndosOK' /\ batch' = batch
    BY <1>3 DEF Kill, TypeInv, TypeOK, DiskOK, JournalOK, RemovalsOK, UndosOK, disk, journal, work
  <2>2. pc' \in [Procs -> Labels] /\ pc'[p] = "dead" /\ \A q \in Procs \ {p} : pc'[q] = pc[q]
    BY <1>3, GotoTypes DEF Kill, TypeInv, TypeOK, Labels, Ended
  <2>3. HasOperand' /\ HasRecord'
    BY <1>3, <2>2 DEF Kill, TypeInv, HasOperand, HasRecord, Moving, Current, work, Procs
  <2> QED
    BY <2>1, <2>2, <2>3 DEF TypeInv, TypeOK
<1>4. ASSUME NEW d \in Path, Create(d) PROVE TypeInv'
  <2>1. DiskOK'
    BY <1>4 DEF Create, TypeInv, TypeOK, DiskOK
  <2> QED
    BY <1>4, <2>1 DEF Create, TypeInv, TypeOK, JournalOK, RemovalsOK, UndosOK, HasOperand, HasRecord,
      Current, Destinations, journal, work
<1>5. CASE UNCHANGED vars
  BY <1>5 DEF vars, disk, journal, work, TypeInv, TypeOK, DiskOK, JournalOK, RemovalsOK, UndosOK,
    HasOperand, HasRecord, Current, Destinations
<1> QED
  BY <1>1, <1>2, <1>3, <1>4, <1>5 DEF Next

THEOREM TypeAlways == Spec => []TypeInv
  BY TypeInit, TypeNext, PTL DEF Spec

(* Every variable keeps its type, whatever the commands do and however     *)
(* they interleave, fail or are killed.                                    *)
THEOREM TypeCorrect == Spec => []TypeOK
  BY TypeAlways, PTL DEF TypeInv
-----------------------------------------------------------------------------
(* Reservations are not leaked *)

(* An undoing command only ever takes metadata away.                       *)
LEMMA UndoClears ==
  ASSUME TypeInv, NEW u \in Undoers, UndoStep(u)
  PROVE  \A s \in Slot : meta'[s] \in {meta[s], None} /\ files'[s] \in {files[s], None}
<1>0. meta \in [Slot -> Item \cup {None}] /\ files \in [Slot -> Content \cup {None}]
  BY DEF TypeInv, TypeOK, DiskOK
<1>1. CASE meta' = meta /\ files' = files
  BY <1>1
<1>2. CASE MoveBack(u)
  BY <1>0, <1>2 DEF MoveBack
<1>3. CASE RemoveAll(u)
  BY <1>0, <1>3 DEF RemoveAll
<1>4. CASE RemoveMetadata(u)
  BY <1>0, <1>4 DEF RemoveMetadata
<1> QED
  BY <1>1, <1>2, <1>3, <1>4 DEF UndoStep, Select, ConfirmPurge, NextRecord, LstatDestination,
    AppendBatch, disk

LEMMA ItemTypes ==
  \A i \in Item : i[1] \in Removers /\ i[1] \in Procs /\ i = <<i[1], i[2]>>
<1> SUFFICES ASSUME NEW i \in Item PROVE i[1] \in Removers /\ i = <<i[1], i[2]>>
  BY DEF Procs
<1>1. PICK p \in Removers : i \in {p} \X DOMAIN Operands[p]
  BY DEF Item
<1> QED
  BY <1>1

(* Metadata of an item that was not moved is the reservation of its        *)
(* removal, which has that very suffix and operand in hand, or was killed, *)
(* or could not remove it.                                                 *)
Unmoved(s) == meta[s] # None /\ owns[meta[s]] = None
HasInHand(p, s) == Reserved(p) /\ slot[p] = s /\ meta[s] = ItemOf(p)
Excused(i) == pc[i[1]] = "dead" \/ i \in stuck
Accounted(s) == Unmoved(s) => Excused(meta[s]) \/ HasInHand(meta[s][1], s)
LeakInv == \A s \in Slot : Accounted(s)

LEMMA StuckGrows ==
  ASSUME NEW p \in Removers, RemovalStep(p)
  PROVE  stuck \subseteq stuck'
BY DEF RemovalStep, NextTarget, ProbeTarget, CreateMetadata, LstatTarget, MoveToTrash, Rollback,
  AppendBatch

LEMMA LeakRemoval ==
  ASSUME TypeInv, LeakInv, NEW p \in Removers, RemovalStep(p)
  PROVE  LeakInv'
<1>0. /\ TypeOK /\ HasOperand /\ p \in Procs /\ pc \in [Procs -> Labels] /\ TypeInv'
      /\ meta \in [Slot -> Item \cup {None}] /\ owns \in [Item -> Content \cup {None}]
      /\ \A i \in Item : i[1] \in Removers /\ i[1] \in Procs
      /\ slot[p] \in Slot /\ None \notin Item
  BY RemovalTypes, ItemTypes, TrashAssumption DEF TypeInv, TypeOK, DiskOK, RemovalsOK, Procs
<1>1. /\ \A q \in Procs \ {p} : pc'[q] = pc[q]
      /\ \A q \in Removers \ {p} : at'[q] = at[q] /\ slot'[q] = slot[q]
      /\ pc' \in [Procs -> Labels]
      /\ stuck \subseteq stuck'
  BY RemovalTouches, StuckGrows
(* Others keep what they have in hand, and what is stuck stays so. *)
<1>2. ASSUME NEW s \in Slot, Unmoved(s)', meta'[s] = meta[s], owns[meta[s]] = None,
             meta[s][1] # p \/ meta[s] \in stuck
      PROVE  Accounted(s)'
  <2>1. meta[s] \in Item /\ Unmoved(s)
    BY <1>0, <1>2 DEF Unmoved
  <2>2. CASE meta[s] \in stuck
    BY <1>1, <1>2, <2>2 DEF Accounted, Excused
  <2>3. CASE meta[s] \notin stuck
    <3>1. PICK q \in Removers : q = meta[s][1] /\ q # p /\ q \in Procs
      BY <1>0, <1>2, <2>1, <2>3
    <3>2. pc[q] = "dead" \/ HasInHand(q, s)
      BY <2>1, <2>3, <3>1 DEF LeakInv, Accounted, Excused
    <3>3. pc'[q] = pc[q] /\ at'[q] = at[q] /\ slot'[q] = slot[q]
      BY <1>1, <3>1
    <3>4. pc'[q] = "dead" \/ HasInHand(q, s)'
      BY <1>2, <3>2, <3>3 DEF HasInHand, Reserved, ItemOf
    <3> QED
      BY <1>2, <3>1, <3>4 DEF Accounted, Excused
  <2> QED
    BY <2>2, <2>3
<1>3. ASSUME UNCHANGED <<meta, owns, stuck>>,
             pc[p] # "dead", ~Reserved(p) \/ (Reserved(p)' /\ UNCHANGED <<at, slot>>)
      PROVE  LeakInv'
  <2> SUFFICES ASSUME NEW s \in Slot, Unmoved(s)' PROVE Accounted(s)'
    BY DEF LeakInv, Accounted
  <2>1. CASE meta[s][1] = p
    BY <1>3, <2>1 DEF LeakInv, Accounted, Excused, Unmoved, HasInHand, Reserved, ItemOf
  <2> QED
    BY <1>2, <1>3, <2>1 DEF Unmoved
<1>4. CASE NextTarget(p)
  BY <1>3, <1>4 DEF NextTarget, disk, Reserved
<1>5. CASE ProbeTarget(p)
  BY <1>3, <1>5 DEF ProbeTarget, disk, Reserved
<1>6. CASE CreateMetadata(p)
  <2>1. UNCHANGED <<owns, at, stuck>> /\ pc[p] = "create"
    BY <1>6 DEF CreateMetadata
  <2>2. CASE meta' = meta
    BY <1>3, <2>1, <2>2 DEF Reserved
  <2>3. CASE /\ meta' = [meta EXCEPT ![slot[p]] = ItemOf(p)] /\ slot' = slot
             /\ \E label \in {"lstat", "rename", "rollback"} : Goto(p, label)
    <3>1. Reserved(p)'
      BY <1>0, <2>3, GotoTypes DEF Reserved, Labels
    <3>2. ItemOf(p) \in Item /\ ItemOf(p)[1] = p /\ ItemOf(p)' = ItemOf(p)
      BY <1>0, <2>1, ItemInHand DEF Moving, ItemOf
    <3> SUFFICES ASSUME NEW s \in Slot, Unmoved(s)' PROVE Accounted(s)'
      BY DEF LeakInv, Accounted
    <3>3. CASE s = slot[p]
      BY <1>0, <2>3, <3>1, <3>2, <3>3 DEF HasInHand, Accounted
    <3>4. CASE s # slot[p]
      <4>1. meta'[s] = meta[s] /\ Unmoved(s)
        BY <1>0, <2>1, <2>3, <3>4 DEF Unmoved
      <4>2. meta[s][1] # p \/ meta[s] \in stuck
        BY <2>1, <4>1 DEF LeakInv, Accounted, Excused, HasInHand, Reserved
      <4> QED
        BY <1>2, <4>1, <4>2 DEF Unmoved
    <3> QED
      BY <3>3, <3>4
  <2> QED
    BY <1>6, <2>2, <2>3 DEF CreateMetadata
<1>7. CASE LstatTarget(p)
  <2>1. Reserved(p)'
    BY <1>0, <1>7, GotoTypes DEF LstatTarget, Reserved, Labels
  <2> QED
    BY <1>3, <1>7, <2>1 DEF LstatTarget, disk, work
<1>8. CASE MoveToTrash(p)
  <2>1. CASE Goto(p, "rollback") /\ UNCHANGED <<meta, owns, at, slot, stuck>>
    BY <1>0, <1>3, <1>8, <2>1, GotoTypes DEF Reserved, Labels, MoveToTrash
  <2>2. CASE /\ home[Source(p)] # None /\ owns' = [owns EXCEPT ![ItemOf(p)] = home[Source(p)]]
             /\ meta' = meta
    <3> SUFFICES ASSUME NEW s \in Slot, Unmoved(s)' PROVE Accounted(s)'
      BY DEF LeakInv, Accounted
    <3>1. ItemOf(p) \in Item /\ pc[p] = "rename"
      BY <1>0, <1>8, ItemInHand DEF Moving, MoveToTrash
    <3>2. meta[s] \in Item /\ meta[s] # ItemOf(p) /\ owns[meta[s]] = None
      BY <1>0, <2>2, <3>1 DEF Unmoved
    <3>3. meta[s][1] # p \/ meta[s] \in stuck
      BY <2>2, <3>1, <3>2 DEF LeakInv, Accounted, Excused, Unmoved, HasInHand
    <3> QED
      BY <1>2, <2>2, <3>2, <3>3
  <2> QED
    BY <1>8, <2>1, <2>2 DEF MoveToTrash
<1>9. CASE Rollback(p)
  <2> SUFFICES ASSUME NEW s \in Slot, Unmoved(s)' PROVE Accounted(s)'
    BY DEF LeakInv, Accounted
  <2>1. owns' = owns /\ pc[p] = "rollback"
    BY <1>9 DEF Rollback
  <2>2. meta'[s] = meta[s] /\ Unmoved(s)
    BY <1>0, <1>9, <2>1 DEF Rollback, Unmoved
  <2>3. CASE meta[s][1] # p \/ meta[s] \in stuck
    BY <1>2, <2>1, <2>2, <2>3 DEF Unmoved
  <2>4. CASE meta[s][1] = p /\ meta[s] \notin stuck
    <3>1. slot[p] = s /\ meta[s] = ItemOf(p)
      BY <2>1, <2>2, <2>4 DEF LeakInv, Accounted, Excused, HasInHand
    <3>2. meta[s] \in stuck'
      BY <1>0, <1>9, <2>2, <3>1 DEF Rollback, Unmoved
    <3> QED
      BY <2>2, <3>2 DEF Accounted, Excused
  <2> QED
    BY <2>3, <2>4
<1>10. CASE AppendBatch(p)
  BY <1>3, <1>10 DEF AppendBatch, Reserved, disk
<1> QED
  BY <1>4, <1>5, <1>6, <1>7, <1>8, <1>9, <1>10 DEF RemovalStep

LEMMA LeakNext == TypeInv /\ LeakInv /\ [Next]_vars => LeakInv'
<1> SUFFICES ASSUME TypeInv, LeakInv, [Next]_vars PROVE LeakInv'
  OBVIOUS
<1>0. /\ meta \in [Slot -> Item \cup {None}] /\ None \notin Item /\ pc \in [Procs -> Labels]
      /\ \A i \in Item : i[1] \in Removers /\ i[1] \in Procs
  BY ItemTypes, TrashAssumption DEF TypeInv, TypeOK, DiskOK
<1>1. ASSUME NEW p \in Removers, RemovalStep(p) PROVE LeakInv'
  BY <1>1, LeakRemoval
<1>2. ASSUME NEW u \in Undoers, UndoStep(u) PROVE LeakInv'
  <2>1. \A s \in Slot : meta'[s] \in {meta[s], None}
    BY <1>2, UndoClears
  <2>2. UNCHANGED <<at, slot, owns, stuck>> /\ \A p \in Removers : pc'[p] = pc[p]
    BY <1>2, UndoTouches, TrashAssumption DEF Procs
  <2> QED
    BY <1>0, <2>1, <2>2 DEF LeakInv, Accounted, Excused, Unmoved, HasInHand, Reserved, ItemOf
<1>3. ASSUME NEW p \in Procs, Kill(p) PROVE LeakInv'
  <2>1. UNCHANGED <<at, slot, owns, stuck, meta>> /\ pc'[p] = "dead" /\ \A q \in Procs \ {p} : pc'[q] = pc[q]
    BY <1>0, <1>3, GotoTypes DEF Kill, work, disk, Labels, Ended
  <2> QED
    BY <1>0, <2>1 DEF LeakInv, Accounted, Excused, Unmoved, HasInHand, Reserved, ItemOf
<1>4. CASE UNCHANGED <<meta, pc, at, slot, owns, stuck>>
  BY <1>0, <1>4 DEF LeakInv, Accounted, Excused, Unmoved, HasInHand, Reserved, ItemOf
<1> QED
  BY <1>1, <1>2, <1>3, <1>4 DEF Next, vars, disk, work, Create

(* Metadata of an item that was not moved is that of a reservation of now, *)
(* or its removal was killed, or os.Remove failed.  The unmoved item of a  *)
(* reservation is the one that its removal works on: that is what keeps    *)
(* the property from step to step.                                         *)
THEOREM NothingLeaks == Spec => []NoLeakedReservation
<1>1. Init => LeakInv
  BY DEF Init, LeakInv, Accounted, Unmoved
<1>2. LeakInv => NoLeakedReservation
  BY DEF LeakInv, Accounted, Excused, NoLeakedReservation, Unmoved, HasInHand
<1> QED
  BY <1>1, <1>2, LeakNext, TypeAlways, PTL DEF Spec
-----------------------------------------------------------------------------
(* A removal that ends well has its moves in the journal *)

LogHas(i) == \E k \in 1 .. Len(log) : log[k].action = "trashed" /\ log[k].record.item = i
BatchHas(p, i) ==
    \E k \in 1 .. Len(batch[p]) : batch[p][k].action = "trashed" /\ batch[p][k].record.item = i

(* From its rename to the append an item that p moved is in the batch of   *)
(* p, and after the append it is in the log, which only grows.             *)
Known(p, i) ==
    \/ pc[p] \in {"dead", "failed"}
    \/ pc[p] # "done" /\ BatchHas(p, i)
    \/ LogHas(i)
RecordInv == \A p \in Removers : \A i \in Item : i[1] = p /\ owns[i] # None => Known(p, i)

LEMMA LogKeeps ==
  ASSUME TypeInv, NEW q \in Procs, AppendBatch(q), NEW i
  PROVE  LogHas(i) => LogHas(i)'
<1>1. log \in Seq(Event) /\ log' \in Seq(Event) /\ Len(log) <= Len(log')
      /\ \A k \in 1 .. Len(log) : log'[k] = log[k]
  BY AppendTypes DEF TypeInv, TypeOK, JournalOK
<1> QED
  BY <1>1 DEF LogHas

(* An append that succeeds writes the whole batch.                         *)
LEMMA AppendWrites ==
  ASSUME TypeInv, NEW p \in Procs, AppendBatch(p), pc'[p] = "done"
  PROVE  log' = log \o batch[p]
<1>1. pc \in [Procs -> Labels] /\ log \in Seq(Event) /\ batch[p] \in Seq(Event)
  BY DEF TypeInv, TypeOK, JournalOK
<1>2. ~Goto(p, "failed")
  BY <1>1, GotoTypes DEF Labels, Ended
<1>3. CASE batch[p] = <<>> /\ UNCHANGED journal
  BY <1>1, <1>3 DEF journal
<1>4. CASE Journal!AppendAll(batch[p])
  BY <1>4 DEF Journal!AppendAll
<1> QED
  BY <1>2, <1>3, <1>4 DEF AppendBatch

LEMMA RecordRemoval ==
  ASSUME TypeInv, RecordInv, NEW p \in Removers, RemovalStep(p)
  PROVE  RecordInv'
<1>0. /\ TypeInv' /\ HasOperand /\ p \in Procs /\ pc \in [Procs -> Labels]
      /\ owns \in [Item -> Content \cup {None}]
      /\ log \in Seq(Event) /\ batch \in [Procs -> Seq(Event)]
  BY RemovalTypes DEF TypeInv, TypeOK, DiskOK, JournalOK, Procs
<1>1. /\ \A q \in Procs \ {p} : pc'[q] = pc[q] /\ batch'[q] = batch[q]
      /\ pc' \in [Procs -> Labels]
  BY RemovalTouches
<1>2. ASSUME UNCHANGED <<owns, batch, log>>, pc[p] \notin Ended, pc'[p] # "done"
      PROVE  RecordInv'
  <2> SUFFICES ASSUME NEW q \in Removers, NEW i \in Item, i[1] = q, owns[i] # None
               PROVE  Known(q, i)'
    BY <1>2 DEF RecordInv
  <2>1. Known(q, i) /\ (BatchHas(q, i) => BatchHas(q, i)') /\ (LogHas(i) => LogHas(i)')
    BY <1>2 DEF RecordInv, BatchHas, LogHas
  <2>2. pc[q] \in {"dead", "failed"} => pc'[q] = pc[q]
    BY <1>1, <1>2 DEF Ended, Procs
  <2>3. pc'[q] = "done" => pc[q] = "done"
    BY <1>1, <1>2 DEF Procs
  <2> QED
    BY <2>1, <2>2, <2>3 DEF Known
<1>3. CASE NextTarget(p)
  BY <1>0, <1>2, <1>3, GotoTypes DEF NextTarget, journal, Labels, Ended
<1>4. CASE ProbeTarget(p)
  BY <1>0, <1>2, <1>4, NextSuffixTypes, GotoTypes DEF ProbeTarget, journal, Labels, Ended, TypeInv, TypeOK
<1>5. CASE CreateMetadata(p)
  <2>1. UNCHANGED <<owns, batch, log>> /\ pc[p] = "create"
    BY <1>5 DEF CreateMetadata, journal
  <2>2. NextSuffix(p) \/ \E label \in {"next", "rename", "lstat", "rollback"} : Goto(p, label)
    BY <1>5 DEF CreateMetadata
  <2>3. pc'[p] # "done"
    BY <1>0, <2>2, NextSuffixTypes, GotoTypes DEF Labels, TypeInv, TypeOK
  <2> QED
    BY <1>2, <2>1, <2>3 DEF Ended
<1>6. CASE LstatTarget(p)
  BY <1>0, <1>2, <1>6, GotoTypes DEF LstatTarget, journal, work, Labels, Ended
<1>7. CASE Rollback(p)
  BY <1>0, <1>2, <1>7, GotoTypes DEF Rollback, journal, work, Labels, Ended
<1>8. CASE MoveToTrash(p)
  <2>1. CASE Goto(p, "rollback") /\ UNCHANGED <<batch, owns>>
    BY <1>0, <1>2, <1>8, <2>1, GotoTypes DEF MoveToTrash, journal, Labels, Ended
  <2>2. CASE /\ owns' = [owns EXCEPT ![ItemOf(p)] = home[Source(p)]]
             /\ batch' = [batch EXCEPT ![p] = Append(@, ItemEvent(p))]
             /\ Goto(p, "next")
    <3>1. /\ ItemEvent(p).action = "trashed" /\ ItemEvent(p).record.item = ItemOf(p)
          /\ ItemEvent(p) \in Event
      <4>1. ItemOf(p) \in Item /\ slot[p] \in Slot /\ Source(p) \in Path
        BY <1>8, ItemInHand DEF MoveToTrash, Moving, TypeInv, TypeOK, RemovalsOK
      <4> QED
        BY <4>1 DEF ItemEvent, Event, Record
    <3>2. /\ Len(batch'[p]) = Len(batch[p]) + 1
          /\ \A k \in 1 .. Len(batch[p]) : batch'[p][k] = batch[p][k]
          /\ batch'[p][Len(batch[p]) + 1] = ItemEvent(p)
      BY <1>0, <2>2, <3>1, BatchGrows
    <3>3. log' = log /\ pc'[p] = "next" /\ pc[p] = "rename"
      BY <1>0, <1>8, <2>2, GotoTypes DEF MoveToTrash, journal, Labels
    <3>4. ASSUME NEW i, BatchHas(p, i) \/ i = ItemOf(p) PROVE BatchHas(p, i)'
      <4>0. Len(batch[p]) \in Nat
        BY <1>0
      <4>1. CASE BatchHas(p, i)
        BY <3>2, <4>0, <4>1 DEF BatchHas
      <4>2. CASE i = ItemOf(p)
        <5>1. Len(batch'[p]) \in 1 .. Len(batch'[p]) /\ batch'[p][Len(batch'[p])] = ItemEvent(p)
          BY <3>2, <4>0
        <5> QED
          BY <3>1, <4>2, <5>1 DEF BatchHas
      <4> QED
        BY <3>4, <4>1, <4>2
    <3> SUFFICES ASSUME NEW q \in Removers, NEW i \in Item, i[1] = q, owns'[i] # None
                 PROVE  Known(q, i)'
      BY DEF RecordInv
    <3>5. CASE i = ItemOf(p)
      <4>1. q = p
        BY <3>5 DEF ItemOf
      <4> QED
        BY <3>3, <3>4, <3>5, <4>1 DEF Known
    <3>6. CASE i # ItemOf(p) /\ q = p
      <4>1. owns[i] # None
        BY <1>0, <2>2, <3>6
      <4>2. Known(p, i)
        BY <3>6, <4>1 DEF RecordInv
      <4> QED
        BY <3>3, <3>4, <3>6, <4>2 DEF Known, LogHas
    <3>7. CASE q # p
      <4>1. owns[i] # None
        BY <1>0, <2>2, <3>7 DEF ItemOf
      <4>2. Known(q, i)
        BY <4>1 DEF RecordInv
      <4>3. pc'[q] = pc[q] /\ batch'[q] = batch[q]
        BY <1>1, <3>7 DEF Procs
      <4> QED
        BY <3>3, <4>2, <4>3 DEF Known, LogHas, BatchHas
    <3> QED
      BY <3>5, <3>6, <3>7
  <2> QED
    BY <1>8, <2>1, <2>2 DEF MoveToTrash, ItemEvent
<1>9. CASE AppendBatch(p)
  <2>1. owns' = owns /\ batch' = batch /\ pc'[p] \in {"done", "failed"} /\ pc[p] = "append"
    BY <1>0, <1>9, GotoTypes DEF AppendBatch, work, Labels, Ended
  <2> SUFFICES ASSUME NEW q \in Removers, NEW i \in Item, i[1] = q, owns[i] # None
               PROVE  Known(q, i)'
    BY <2>1 DEF RecordInv
  <2>2. Known(q, i) /\ (LogHas(i) => LogHas(i)')
    BY <1>0, <1>9, LogKeeps DEF RecordInv
  <2>3. CASE q # p
    BY <1>1, <2>1, <2>2, <2>3 DEF Known, BatchHas, Procs
  <2>4. CASE q = p /\ pc'[p] = "done"
    <3>1. log' = log \o batch[p]
      BY <1>0, <1>9, <2>4, AppendWrites
    <3>2. batch[p] \in Seq(Event)
      BY <1>0
    <3>3. /\ Len(log') = Len(log) + Len(batch[p])
          /\ \A k \in 1 .. Len(batch[p]) : log'[Len(log) + k] = batch[p][k]
      BY <1>0, <3>1, <3>2, ConcatProperties
    <3>4. ASSUME BatchHas(p, i) PROVE LogHas(i)'
      <4>1. PICK k \in 1 .. Len(batch[p]) :
               batch[p][k].action = "trashed" /\ batch[p][k].record.item = i
        BY <3>4 DEF BatchHas
      <4>2. Len(log) + k \in 1 .. Len(log') /\ log'[Len(log) + k] = batch[p][k]
        BY <1>0, <3>2, <3>3
      <4> QED
        BY <4>1, <4>2 DEF LogHas
    <3> QED
      BY <2>1, <2>2, <2>4, <3>4 DEF Known
  <2> QED
    BY <2>1, <2>3, <2>4 DEF Known
<1> QED
  BY <1>3, <1>4, <1>5, <1>6, <1>7, <1>8, <1>9 DEF RemovalStep

LEMMA RecordNext == TypeInv /\ RecordInv /\ [Next]_vars => RecordInv'
<1> SUFFICES ASSUME TypeInv, RecordInv, [Next]_vars PROVE RecordInv'
  OBVIOUS
<1>0. pc \in [Procs -> Labels] /\ Removers \subseteq Procs /\ Removers \cap Undoers = {}
  BY TrashAssumption DEF TypeInv, TypeOK, Procs
<1>1. ASSUME NEW p \in Removers, RemovalStep(p) PROVE RecordInv'
  BY <1>1, RecordRemoval
<1>2. ASSUME NEW u \in Undoers, UndoStep(u) PROVE RecordInv'
  <2>1. owns' = owns /\ \A p \in Removers : pc'[p] = pc[p] /\ batch'[p] = batch[p]
    BY <1>0, <1>2, UndoTouches
  <2>2. ASSUME NEW i PROVE LogHas(i) => LogHas(i)'
    <3>1. CASE AppendBatch(u)
      BY <3>1, LogKeeps DEF Procs
    <3>2. CASE log' = log
      BY <3>2 DEF LogHas
    <3> QED
      BY <1>2, <3>1, <3>2 DEF UndoStep, Select, ConfirmPurge, NextRecord, LstatDestination, MoveBack,
        RemoveAll, RemoveMetadata, journal
  <2> QED
    BY <2>1, <2>2 DEF RecordInv, Known, BatchHas
<1>3. ASSUME NEW p \in Procs, Kill(p) PROVE RecordInv'
  <2>1. UNCHANGED <<log, batch, owns>> /\ pc'[p] = "dead" /\ \A q \in Procs \ {p} : pc'[q] = pc[q]
    BY <1>0, <1>3, GotoTypes DEF Kill, work, journal, Labels, Ended
  <2> QED
    BY <1>0, <2>1 DEF RecordInv, Known, BatchHas, LogHas
<1>4. CASE UNCHANGED <<log, pc, batch, owns>>
  BY <1>4 DEF RecordInv, Known, BatchHas, LogHas
<1> QED
  BY <1>1, <1>2, <1>3, <1>4 DEF Next, vars, journal, work, Create

(* A removal that ended well, cut short by a cancellation or not, has      *)
(* every item it moved in the journal, although the journal is written     *)
(* only at its end.                                                        *)
THEOREM MovesRecorded == Spec => []MovesAreRecorded
<1>1. Init => RecordInv
  BY DEF Init, RecordInv
<1>2. RecordInv => MovesAreRecorded
  BY DEF RecordInv, MovesAreRecorded, Known, LogHas
<1> QED
  BY <1>1, <1>2, RecordNext, TypeAlways, PTL DEF Spec
-----------------------------------------------------------------------------
(* Reservations are exclusive *)

(* What is in the trash has metadata. *)
Covered == \A s \in Slot : files[s] # None => meta[s] # None

(* A reservation is a suffix with the metadata of its removal, and empty.  *)
Holds(p) == meta[slot[p]] = ItemOf(p) /\ files[slot[p]] = None
Reservations == \A p \in Removers : Reserved(p) => Holds(p)

(* The suffix of the record that u works on is no removal's reservation,   *)
(* and no other command is about to take the metadata from it.             *)
HasAlone(u) ==
    /\ meta[Current(u).slot] # None
    /\ \A p \in Removers : Reserved(p) => slot[p] # Current(u).slot
    /\ \A v \in Undoers \ {u} : pc[v] = "unmeta" => Current(v).slot # Current(u).slot
Emptied(u) == files[Current(u).slot] = None /\ HasAlone(u)
Emptying == \A u \in Undoers : pc[u] = "unmeta" => Emptied(u)

ExclusiveInv == Covered /\ Reservations /\ Emptying

(* A purge deletes under a suffix it has alone.                            *)
PurgesAlone == \A u \in Purgers : pc[u] = "undo" => HasAlone(u)

LEMMA ExclusiveRemoval ==
  ASSUME TypeInv, ExclusiveInv, NEW p \in Removers, RemovalStep(p)
  PROVE  ExclusiveInv' /\ \A s \in Slot : files[s] # None => files'[s] = files[s]
<1>0. /\ HasOperand /\ p \in Procs /\ pc \in [Procs -> Labels]
      /\ meta \in [Slot -> Item \cup {None}] /\ files \in [Slot -> Content \cup {None}]
      /\ home \in [Path -> Content \cup {None}]
      /\ slot \in [Removers -> Slot] /\ None \notin Item /\ Removers \subseteq Procs
      /\ \A u \in Undoers : u \in Procs \ {p}
  BY TrashAssumption DEF TypeInv, TypeOK, DiskOK, RemovalsOK, Procs
<1>1. /\ \A q \in Procs \ {p} : pc'[q] = pc[q]
      /\ \A q \in Removers \ {p} : at'[q] = at[q] /\ slot'[q] = slot[q]
      /\ todo' = todo /\ pc' \in [Procs -> Labels]
  BY RemovalTouches
<1>2. /\ \A q \in Removers \ {p} : (Reserved(q)' <=> Reserved(q)) /\ ItemOf(q)' = ItemOf(q)
      /\ \A u \in Undoers : pc'[u] = pc[u] /\ Current(u)' = Current(u)
  BY <1>0, <1>1 DEF Reserved, ItemOf, Current
<1>3. \A u \in Undoers : pc[u] = "unmeta" => Current(u).slot \in Slot
  BY RecordInHand DEF TypeInv, Record
<1>4. \A q \in Removers \ {p} : Reserved(q) /\ Reserved(p) => slot[q] # slot[p]
  BY DEF ExclusiveInv, Reservations, Holds, ItemOf
(* The step reserves nothing and leaves the disk alone. *)
<1>5. ASSUME UNCHANGED <<files, meta>>, Reserved(p)' => Reserved(p) /\ UNCHANGED <<at, slot>>
      PROVE  ExclusiveInv' /\ \A s \in Slot : files[s] # None => files'[s] = files[s]
  <2>1. Covered'
    BY <1>5 DEF ExclusiveInv, Covered
  <2>2. Reservations'
    BY <1>1, <1>2, <1>5 DEF ExclusiveInv, Reservations, Holds, ItemOf
  <2>3. Emptying'
    BY <1>1, <1>2, <1>5 DEF ExclusiveInv, Emptying, Emptied, HasAlone
  <2> QED
    BY <1>5, <2>1, <2>2, <2>3 DEF ExclusiveInv
<1>6. CASE NextTarget(p)
  BY <1>0, <1>5, <1>6, GotoTypes DEF NextTarget, disk, Labels, Reserved
<1>7. CASE ProbeTarget(p)
  <2>1. pc'[p] \in {"probe", "next", "create"}
    BY <1>0, <1>7, NextSuffixTypes, GotoTypes DEF ProbeTarget, Labels, TypeInv, TypeOK
  <2> QED
    BY <1>5, <1>7, <2>1 DEF ProbeTarget, disk, Reserved
<1>8. CASE CreateMetadata(p)
  <2>0. files' = files /\ at' = at /\ pc[p] = "create"
    BY <1>8 DEF CreateMetadata
  <2>1. CASE NextSuffix(p) /\ meta' = meta
    BY <1>0, <1>5, <2>0, <2>1, NextSuffixTypes DEF Reserved, TypeInv, TypeOK
  <2>2. CASE Goto(p, "next") /\ meta' = meta
    BY <1>0, <1>5, <2>0, <2>2, GotoTypes DEF Reserved, Labels
  <2>3. CASE meta[slot[p]] = None /\ meta' = [meta EXCEPT ![slot[p]] = ItemOf(p)] /\ slot' = slot
    <3>1. ItemOf(p) \in Item /\ ItemOf(p)' = ItemOf(p) /\ slot[p] \in Slot
      BY <1>0, <2>0, ItemInHand DEF Moving, ItemOf, TypeInv
    <3>2. files[slot[p]] = None
      BY <2>3, <3>1 DEF ExclusiveInv, Covered
    <3>3. Covered'
      BY <1>0, <2>0, <2>3, <3>1 DEF ExclusiveInv, Covered
    <3>4. \A q \in Removers \ {p} : Reserved(q) => slot[q] # slot[p]
      <4>1. ASSUME NEW q \in Removers, Reserved(q) PROVE meta[slot[q]] # None
        <5>1. ItemOf(q) \in Item
          BY <4>1, ItemInHand, RemovalTouches DEF Reserved, Moving, TypeInv
        <5> QED
          BY <1>0, <4>1, <5>1 DEF ExclusiveInv, Reservations, Holds
      <4> QED
        BY <2>3, <4>1
    <3>5. Reservations'
      <4>1. Holds(p)'
        BY <1>0, <2>0, <2>3, <3>1, <3>2 DEF Holds
      <4>2. ASSUME NEW q \in Removers \ {p}, Reserved(q)' PROVE Holds(q)'
        BY <1>0, <1>1, <1>2, <2>0, <2>3, <3>4, <4>2 DEF ExclusiveInv, Reservations, Holds
      <4> QED
        BY <4>1, <4>2 DEF Reservations
    <3>6. Emptying'
      <4> SUFFICES ASSUME NEW u \in Undoers, pc[u] = "unmeta" PROVE Emptied(u)'
        BY <1>2 DEF Emptying
      <4>1. Emptied(u) /\ Current(u).slot \in Slot
        BY <1>3 DEF ExclusiveInv, Emptying
      <4>2. Current(u).slot # slot[p] /\ meta'[Current(u).slot] # None
        BY <1>0, <2>3, <3>1, <4>1 DEF Emptied, HasAlone
      <4> QED
        BY <1>1, <1>2, <2>0, <2>3, <4>1, <4>2 DEF Emptied, HasAlone
    <3> QED
      BY <2>0, <3>3, <3>5, <3>6 DEF ExclusiveInv
  <2> QED
    BY <1>8, <2>1, <2>2, <2>3 DEF CreateMetadata
<1>9. CASE LstatTarget(p)
  BY <1>5, <1>9 DEF LstatTarget, disk, work, Reserved
<1>10. CASE MoveToTrash(p)
  <2>0. pc[p] = "rename" /\ UNCHANGED <<meta, at, slot>> /\ slot[p] \in Slot /\ Source(p) \in Path
        /\ ItemOf(p) \in Item
    BY <1>0, <1>10, ItemInHand DEF MoveToTrash, Moving, TypeInv
  <2>1. Holds(p) /\ Reserved(p)
    BY <2>0 DEF ExclusiveInv, Reservations, Reserved
  <2>2. CASE Goto(p, "rollback") /\ UNCHANGED files
    BY <1>5, <2>0, <2>1, <2>2
  <2>3. CASE files' = [files EXCEPT ![slot[p]] = home[Source(p)]] /\ Goto(p, "next")
    <3>1. ~Reserved(p)'
      BY <1>0, <2>3, GotoTypes DEF Labels, Reserved
    <3>2. \A s \in Slot : s # slot[p] => files'[s] = files[s]
      BY <1>0, <2>3
    <3>3. Covered'
      BY <1>0, <2>0, <2>1, <3>2 DEF ExclusiveInv, Covered, Holds
    <3>4. Reservations'
      BY <1>0, <1>1, <1>2, <1>4, <2>0, <2>1, <3>1, <3>2 DEF ExclusiveInv, Reservations, Holds
    <3>5. Emptying'
      <4> SUFFICES ASSUME NEW u \in Undoers, pc[u] = "unmeta" PROVE Emptied(u)'
        BY <1>2 DEF Emptying
      <4>1. Emptied(u) /\ Current(u).slot \in Slot
        BY <1>3 DEF ExclusiveInv, Emptying
      <4>2. Current(u).slot # slot[p]
        BY <2>1, <4>1 DEF Emptied, HasAlone
      <4> QED
        BY <1>1, <1>2, <2>0, <3>1, <3>2, <4>1, <4>2 DEF Emptied, HasAlone
    <3> QED
      BY <2>1, <3>2, <3>3, <3>4, <3>5 DEF ExclusiveInv, Holds
  <2> QED
    BY <1>10, <2>2, <2>3 DEF MoveToTrash
<1>11. CASE Rollback(p)
  <2>0. pc[p] = "rollback" /\ UNCHANGED <<files, at, slot>> /\ slot[p] \in Slot
    BY <1>0, <1>11 DEF Rollback, work
  <2>1. Holds(p) /\ Reserved(p)
    BY <2>0 DEF ExclusiveInv, Reservations, Reserved
  <2>2. ~Reserved(p)'
    BY <1>0, <1>11, GotoTypes DEF Rollback, Labels, Reserved
  <2>m. CASE meta' = meta
    BY <1>5, <2>0, <2>2, <2>m
  <2>c. CASE meta' = [meta EXCEPT ![slot[p]] = None]
    <3>1. Covered'
      BY <1>0, <2>0, <2>1, <2>c DEF ExclusiveInv, Covered, Holds
    <3>2. Reservations'
      BY <1>0, <1>1, <1>2, <1>4, <2>0, <2>1, <2>2, <2>c DEF ExclusiveInv, Reservations, Holds
    <3>3. Emptying'
      <4> SUFFICES ASSUME NEW u \in Undoers, pc[u] = "unmeta" PROVE Emptied(u)'
        BY <1>2 DEF Emptying
      <4>1. Emptied(u) /\ Current(u).slot \in Slot
        BY <1>3 DEF ExclusiveInv, Emptying
      <4>2. Current(u).slot # slot[p]
        BY <2>1, <4>1 DEF Emptied, HasAlone
      <4> QED
        BY <1>0, <1>1, <1>2, <2>0, <2>2, <2>c, <4>1, <4>2 DEF Emptied, HasAlone
    <3> QED
      BY <2>0, <3>1, <3>2, <3>3 DEF ExclusiveInv
  <2> QED
    BY <1>11, <2>m, <2>c DEF Rollback
<1>12. CASE AppendBatch(p)
  <2>1. pc'[p] \in {"done", "failed"}
    BY <1>0, <1>12, GotoTypes DEF AppendBatch, Labels, Ended
  <2> QED
    BY <1>5, <1>12, <2>1 DEF AppendBatch, disk, Reserved
<1> QED
  BY <1>6, <1>7, <1>8, <1>9, <1>10, <1>11, <1>12 DEF RemovalStep

LEMMA ExclusiveUndo ==
  ASSUME TypeInv, ExclusiveInv, PurgesAlone, NEW u \in Undoers, UndoStep(u)
  PROVE  ExclusiveInv'
<1>0. /\ u \in Procs /\ pc \in [Procs -> Labels]
      /\ meta \in [Slot -> Item \cup {None}] /\ files \in [Slot -> Content \cup {None}]
      /\ \A p \in Removers : p \in Procs \ {u} /\ slot[p] \in Slot
      /\ Undoers \subseteq Procs
  BY TrashAssumption DEF TypeInv, TypeOK, DiskOK, RemovalsOK, Procs
<1>1. /\ UNCHANGED <<at, slot>>
      /\ \A q \in Procs \ {u} : pc'[q] = pc[q]
      /\ \A v \in Undoers \ {u} : todo'[v] = todo[v]
  BY UndoTouches
<1>2. /\ \A p \in Removers : (Reserved(p)' <=> Reserved(p)) /\ ItemOf(p)' = ItemOf(p)
      /\ \A v \in Undoers \ {u} : pc'[v] = pc[v] /\ Current(v)' = Current(v)
  BY <1>0, <1>1 DEF Reserved, ItemOf, Current
<1>3. \A v \in Undoers : pc[v] = "unmeta" => Current(v).slot \in Slot
  BY RecordInHand DEF TypeInv, Record
(* The step takes no record in hand and leaves the disk alone. *)
<1>4. ASSUME UNCHANGED <<files, meta>>, pc'[u] # "unmeta"
      PROVE  ExclusiveInv'
  <2>1. Covered' /\ Reservations'
    BY <1>1, <1>2, <1>4 DEF ExclusiveInv, Covered, Reservations, Holds
  <2>2. Emptying'
    BY <1>1, <1>2, <1>4 DEF ExclusiveInv, Emptying, Emptied, HasAlone
  <2> QED
    BY <2>1, <2>2 DEF ExclusiveInv
(* The step empties the suffix of the record in hand. *)
<1>5. ASSUME pc[u] = "undo", HasAlone(u), UNCHANGED <<meta, todo>>, Goto(u, "unmeta"),
             files' = [files EXCEPT ![Current(u).slot] = None]
      PROVE  ExclusiveInv'
  <2>0. Current(u).slot \in Slot /\ Current(u)' = Current(u) /\ pc'[u] = "unmeta"
    BY <1>0, <1>5, RecordInHand, GotoTypes DEF TypeInv, Record, Current, Labels
  <2>1. Covered'
    BY <1>0, <1>5 DEF ExclusiveInv, Covered
  <2>2. Reservations'
    BY <1>0, <1>1, <1>2, <1>5, <2>0 DEF ExclusiveInv, Reservations, Holds
  <2>3. Emptying'
    <3>1. Emptied(u)'
      BY <1>0, <1>1, <1>2, <1>5, <2>0 DEF Emptied, HasAlone
    <3>2. ASSUME NEW v \in Undoers \ {u}, pc[v] = "unmeta" PROVE Emptied(v)'
      BY <1>0, <1>1, <1>2, <1>3, <1>5, <2>0, <3>2 DEF ExclusiveInv, Emptying, Emptied, HasAlone
    <3> QED
      BY <1>2, <3>1, <3>2 DEF Emptying
  <2> QED
    BY <2>1, <2>2, <2>3 DEF ExclusiveInv
<1>s. ASSUME Skip(u) PROVE pc'[u] = "next"
  BY <1>0, <1>s, GotoTypes DEF Skip, Labels
<1>c. ASSUME Collide(u), pc[u] # "unmeta" PROVE pc'[u] # "unmeta"
  BY <1>s, <1>c DEF Collide
<1>6. CASE Select(u)
  <2>1. \E label \in {"confirm", "next", "failed"} : Goto(u, label)
    BY <1>6 DEF Select
  <2>2. pc'[u] # "unmeta" /\ UNCHANGED <<files, meta>>
    BY <1>0, <1>6, <2>1, GotoTypes DEF Select, disk, Labels, Ended
  <2> QED
    BY <1>4, <2>2
<1>7. CASE ConfirmPurge(u)
  BY <1>0, <1>4, <1>7, GotoTypes DEF ConfirmPurge, disk, Labels, Ended
<1>8. CASE NextRecord(u)
  BY <1>0, <1>4, <1>8, GotoTypes DEF NextRecord, disk, Labels
<1>9. CASE LstatDestination(u)
  BY <1>0, <1>4, <1>9, <1>c, GotoTypes DEF LstatDestination, disk, Labels
<1>10. CASE MoveBack(u)
  <2>0. pc[u] = "undo" /\ meta' = meta /\ Current(u).slot \in Slot
    BY <1>10, RecordInHand DEF MoveBack, TypeInv, Record
  <2>1. CASE files' = files /\ (Skip(u) \/ Collide(u))
    BY <1>4, <1>s, <1>c, <2>0, <2>1
  <2>2. CASE /\ files[Current(u).slot] # None
             /\ files' = [files EXCEPT ![Current(u).slot] = None]
             /\ Goto(u, "unmeta") /\ UNCHANGED todo
    <3>1. HasAlone(u)
      BY <1>3, <2>0, <2>2
      DEF ExclusiveInv, Covered, Reservations, Holds, Emptying, Emptied, HasAlone
    <3> QED
      BY <1>5, <2>0, <2>2, <3>1
  <2> QED
    BY <1>10, <2>1, <2>2 DEF MoveBack
<1>11. CASE RemoveAll(u)
  <2>1. pc[u] = "undo" /\ meta' = meta /\ HasAlone(u)
    BY <1>11 DEF RemoveAll, PurgesAlone
  <2>2. CASE Skip(u) /\ files' = files
    BY <1>4, <1>s, <2>1, <2>2
  <2> QED
    BY <1>5, <1>11, <2>1, <2>2 DEF RemoveAll
<1>12. CASE RemoveMetadata(u)
  <2>0. pc[u] = "unmeta" /\ files' = files /\ Current(u).slot \in Slot /\ pc'[u] = "next"
    BY <1>3, <1>12, <1>s DEF RemoveMetadata
  <2>1. CASE meta' = meta
    BY <1>4, <2>0, <2>1
  <2>2. CASE meta' = [meta EXCEPT ![Current(u).slot] = None]
    <3>0. Emptied(u)
      BY <2>0 DEF ExclusiveInv, Emptying
    <3>1. Covered'
      BY <1>0, <2>0, <2>2, <3>0 DEF ExclusiveInv, Covered, Emptied
    <3>2. Reservations'
      BY <1>0, <1>1, <1>2, <2>0, <2>2, <3>0 DEF ExclusiveInv, Reservations, Holds, Emptied, HasAlone
    <3>3. Emptying'
      BY <1>0, <1>1, <1>2, <1>3, <2>0, <2>2, <3>0 DEF ExclusiveInv, Emptying, Emptied, HasAlone
    <3> QED
      BY <3>1, <3>2, <3>3 DEF ExclusiveInv
  <2> QED
    BY <1>12, <2>1, <2>2 DEF RemoveMetadata
<1>13. CASE AppendBatch(u)
  BY <1>0, <1>4, <1>13, GotoTypes DEF AppendBatch, disk, Labels, Ended
<1> QED
  BY <1>6, <1>7, <1>8, <1>9, <1>10, <1>11, <1>12, <1>13 DEF UndoStep

LEMMA ExclusiveNext ==
  TypeInv /\ ExclusiveInv /\ PurgesAlone /\ [Next]_vars => ExclusiveInv'
<1> SUFFICES ASSUME TypeInv, ExclusiveInv, PurgesAlone, [Next]_vars PROVE ExclusiveInv'
  OBVIOUS
<1>1. ASSUME NEW p \in Removers, RemovalStep(p) PROVE ExclusiveInv'
  BY <1>1, ExclusiveRemoval
<1>2. ASSUME NEW u \in Undoers, UndoStep(u) PROVE ExclusiveInv'
  BY <1>2, ExclusiveUndo
<1>3. ASSUME NEW p \in Procs, Kill(p) PROVE ExclusiveInv'
  <2>1. UNCHANGED <<files, meta, at, slot, todo>> /\ pc'[p] = "dead"
        /\ \A q \in Procs \ {p} : pc'[q] = pc[q]
    BY <1>3, GotoTypes DEF Kill, work, disk, Labels, Ended, TypeInv, TypeOK
  <2>2. \A q \in Procs : pc'[q] \in {"dead", pc[q]}
    BY <2>1
  <2>3. Covered'
    BY <2>1 DEF ExclusiveInv, Covered
  <2>4. Reservations'
    BY <2>1, <2>2 DEF ExclusiveInv, Reservations, Holds, Reserved, ItemOf, Procs
  <2>5. Emptying'
    BY <2>1, <2>2 DEF ExclusiveInv, Emptying, Emptied, HasAlone, Reserved, Current, Procs
  <2> QED
    BY <2>3, <2>4, <2>5 DEF ExclusiveInv
<1>4. CASE UNCHANGED <<files, meta, pc, at, slot, todo>>
  BY <1>4 DEF ExclusiveInv, Covered, Reservations, Holds, Emptying, Emptied, HasAlone,
    Reserved, ItemOf, Current
<1> QED
  BY <1>1, <1>2, <1>3, <1>4 DEF Next, vars, disk, work, Create

LEMMA ExclusiveInit == Init => ExclusiveInv
<1> SUFFICES ASSUME Init PROVE ExclusiveInv
  OBVIOUS
<1>1. \A p \in Procs : pc[p] \in {"next", "idle"}
  BY DEF Init
<1>2. \A s \in Slot : files[s] = None
  BY DEF Init
<1> QED
  BY <1>1, <1>2 DEF ExclusiveInv, Covered, Reservations, Reserved, Emptying, Procs

(* An item in the trash is only ever replaced by nothing.                  *)
LEMMA NoOverwrite ==
  TypeInv /\ ExclusiveInv /\ [Next]_vars =>
    [\A s \in Slot : files[s] # None => files'[s] \in {files[s], None}]_vars
<1> SUFFICES ASSUME TypeInv, ExclusiveInv, Next
             PROVE  \A s \in Slot : files[s] # None => files'[s] \in {files[s], None}
  OBVIOUS
<1>1. CASE \E p \in Removers : RemovalStep(p)
  BY <1>1, ExclusiveRemoval
<1>2. CASE \E u \in Undoers : UndoStep(u)
  BY <1>2, UndoClears
<1>3. CASE files' = files
  BY <1>3
<1> QED
  BY <1>1, <1>2, <1>3 DEF Next, Kill, Create, disk

(* With restores and removals in any number, beside each other, failing    *)
(* and killed at any step, with or without RENAME_NOREPLACE: from the      *)
(* O_EXCL create of its metadata to Commit or Rollback a removal has its   *)
(* suffix for itself.                                                      *)
THEOREM ExclusiveWithoutPurges ==
  ASSUME Purgers = {}
  PROVE  Spec => []ReservationsExclusive
<1>1. ExclusiveInv => ReservationsExclusive
  BY DEF ExclusiveInv, Reservations, Holds, ReservationsExclusive
<1>2. PurgesAlone
  BY DEF PurgesAlone
<1>3. TypeInv /\ ExclusiveInv /\ [Next]_vars => ExclusiveInv'
  BY <1>2, ExclusiveNext
<1> QED
  BY <1>1, <1>3, ExclusiveInit, TypeAlways, PTL DEF Spec

(* "It never overwrites an existing trash item": there, no step puts one   *)
(* item in the place of another, even where rename replaces its target.    *)
THEOREM NeverOverwrittenWithoutPurges ==
  ASSUME Purgers = {}
  PROVE  Spec => TrashNeverOverwritten
<1>1. PurgesAlone
  BY DEF PurgesAlone
<1>2. TypeInv /\ ExclusiveInv /\ [Next]_vars => ExclusiveInv'
  BY <1>1, ExclusiveNext
<1> QED
  BY <1>2, ExclusiveInit, NoOverwrite, TypeAlways, PTL DEF Spec, TrashNeverOverwritten

(* "It never overwrites an existing trash item": where the file system has *)
(* RENAME_NOREPLACE, no step does, whatever the commands are and however   *)
(* they overlap, fail or die.                                              *)
THEOREM NeverOverwrittenWithNoReplace ==
  ASSUME NoReplace
  PROVE  Spec => TrashNeverOverwritten
<1>1. TypeInv /\ [Next]_vars =>
        [\A s \in Slot : files[s] # None => files'[s] \in {files[s], None}]_vars
  <2> SUFFICES ASSUME TypeInv, Next, NEW s \in Slot, files[s] # None
               PROVE  files'[s] \in {files[s], None}
    OBVIOUS
  <2>1. ASSUME NEW p \in Removers, RemovalStep(p) PROVE files'[s] = files[s]
    <3>1. CASE MoveToTrash(p)
      <4>1. files' = files \/ \E c : /\ files' = [files EXCEPT ![slot[p]] = c]
                                    /\ files[slot[p]] = None
        BY <3>1 DEF MoveToTrash
      <4> QED
        BY <4>1 DEF TypeInv, TypeOK, DiskOK
    <3>2. CASE files' = files
      BY <3>2
    <3> QED
      BY <2>1, <3>1, <3>2 DEF RemovalStep, NextTarget, ProbeTarget, CreateMetadata, LstatTarget,
        Rollback, AppendBatch, disk
  <2>2. ASSUME NEW u \in Undoers, UndoStep(u) PROVE files'[s] \in {files[s], None}
    BY <2>2, UndoClears
  <2>3. CASE files' = files
    BY <2>3
  <2> QED
    BY <2>1, <2>2, <2>3 DEF Next, Kill, Create, disk
<1> QED
  BY <1>1, TypeAlways, PTL DEF Spec, TrashNeverOverwritten
-----------------------------------------------------------------------------
(* No content is lost *)

(* How often f has the value c, before and after one change of f.          *)
Count(S, f, c) == Cardinality({x \in S : f[x] = c})

LEMMA CountType ==
  ASSUME NEW S, IsFiniteSet(S), NEW f, NEW c
  PROVE  /\ IsFiniteSet({x \in S : f[x] = c}) /\ Count(S, f, c) \in Nat
         /\ \A x \in S : f[x] = c => Count(S, f, c) > 0
         /\ (\A x \in S : f[x] # c) => Count(S, f, c) = 0
<1> DEFINE T == {x \in S : f[x] = c}
<1>1. IsFiniteSet(T) /\ Cardinality(T) \in Nat
  BY FS_Subset, FS_CardinalityType
<1>2. Cardinality(T) = 0 <=> T = {}
  BY <1>1, FS_EmptySet
<1> QED
  BY <1>1, <1>2 DEF Count

Is(v, c) == IF v = c THEN 1 ELSE 0
ChangedAt(S, f, g, a) == a \in S /\ \A x \in S : x # a => g[x] = f[x]
LEMMA CountChange ==
  ASSUME NEW S, IsFiniteSet(S), NEW f, NEW g, NEW a, NEW c, ChangedAt(S, f, g, a)
  PROVE  Count(S, g, c) = Count(S, f, c) - Is(f[a], c) + Is(g[a], c)
<1> DEFINE F == {x \in S : f[x] = c}
           G == {x \in S : g[x] = c}
<1>1. IsFiniteSet(F) /\ Cardinality(F) \in Nat
  BY FS_Subset, FS_CardinalityType
<1>2. Count(S, f, c) = Cardinality(F) /\ Count(S, g, c) = Cardinality(G)
  BY DEF Count
<1>3. CASE (f[a] = c /\ g[a] = c) \/ (f[a] # c /\ g[a] # c)
  <2>1. G = F
    BY <1>3 DEF ChangedAt
  <2>2. Count(S, g, c) = Count(S, f, c) /\ Count(S, f, c) \in Nat
    BY <1>1, <1>2, <2>1
  <2>3. Is(f[a], c) = Is(g[a], c) /\ Is(f[a], c) \in Nat
    BY <1>3 DEF Is
  <2> QED
    BY <2>2, <2>3
<1>4. CASE f[a] # c /\ g[a] = c
  <2>1. G = F \cup {a} /\ a \notin F
    BY <1>4 DEF ChangedAt
  <2>2. Cardinality(G) = Cardinality(F) + 1
    BY <1>1, <2>1, FS_AddElement
  <2> QED
    BY <1>1, <1>2, <1>4, <2>2 DEF Is
<1>5. CASE f[a] = c /\ g[a] # c
  <2>1. G = F \ {a} /\ a \in F
    BY <1>5 DEF ChangedAt
  <2>2. Cardinality(G) = Cardinality(F) - 1
    BY <1>1, <2>1, FS_RemoveElement
  <2> QED
    BY <1>1, <1>2, <1>5, <2>2 DEF Is
<1> QED
  BY <1>3, <1>4, <1>5

InFresh(c) == IF c \in fresh THEN 1 ELSE 0
OnePlace == \A c \in Content : Places(c) \in {0, 1}

(* A content that a step moves, into the trash, out of it, or from the     *)
(* user to a path, has one place more and one place less.                  *)
LEMMA PlacesSum ==
  ASSUME TypeInv, NEW c
  PROVE  /\ Places(c) = Count(Path, home, c) + Count(Slot, files, c) + InFresh(c)
         /\ Count(Path, home, c) \in Nat /\ Count(Slot, files, c) \in Nat /\ InFresh(c) \in Nat
         /\ IsFiniteSet(Path) /\ IsFiniteSet(Slot) /\ None \notin Content
<1>1. IsFiniteSet(Path) /\ IsFiniteSet(Slot) /\ None \notin Content
  BY TrashAssumption, FS_Interval
<1>2. Count(Path, home, c) \in Nat /\ Count(Slot, files, c) \in Nat
  BY <1>1, CountType
<1> QED
  BY <1>1, <1>2 DEF Places, Count, InFresh

(* Where neither side is overwritten, a move keeps the number of places.   *)
LEMMA MoveKeepsPlaces ==
  ASSUME TypeInv, TypeInv', NEW d \in Path, NEW s \in Slot, fresh' = fresh,
         \/ /\ home[d] # None /\ files[s] = None
            /\ home' = [home EXCEPT ![d] = None] /\ files' = [files EXCEPT ![s] = home[d]]
         \/ /\ files[s] # None /\ home[d] = None
            /\ home' = [home EXCEPT ![d] = files[s]] /\ files' = [files EXCEPT ![s] = None]
  PROVE  \A c \in Content : Places(c)' = Places(c)
<1> SUFFICES ASSUME NEW c \in Content PROVE Places(c)' = Places(c)
  OBVIOUS
<1>0. home \in [Path -> Content \cup {None}] /\ files \in [Slot -> Content \cup {None}]
      /\ home[d] \in Content \cup {None} /\ files[s] \in Content \cup {None}
  BY DEF TypeInv, TypeOK, DiskOK
<1>1. /\ Places(c) = Count(Path, home, c) + Count(Slot, files, c) + InFresh(c)
      /\ Count(Path, home, c) \in Nat /\ Count(Slot, files, c) \in Nat /\ InFresh(c) \in Nat
      /\ IsFiniteSet(Path) /\ IsFiniteSet(Slot) /\ c # None
  BY PlacesSum
<1>2. Places(c)' = Count(Path, home', c) + Count(Slot, files', c) + InFresh(c)
  BY PlacesSum DEF Places, Count, InFresh
<1>3. CASE /\ home[d] # None /\ files[s] = None
           /\ home' = [home EXCEPT ![d] = None] /\ files' = [files EXCEPT ![s] = home[d]]
  <2>1. Count(Path, home', c) = Count(Path, home, c) - Is(home[d], c) + Is(None, c)
    <3>1. home'[d] = None /\ ChangedAt(Path, home, home', d)
      BY <1>0, <1>1, <1>3 DEF ChangedAt
    <3>2. IsFiniteSet(Path)
      BY <1>1
    <3>3. Count(Path, home', c) = Count(Path, home, c) - Is(home[d], c) + Is(home'[d], c)
      BY <3>1, <3>2, CountChange
    <3> QED
      BY <3>1, <3>3
  <2>2. Count(Slot, files', c) = Count(Slot, files, c) - Is(files[s], c) + Is(home[d], c)
    <3>1. files'[s] = home[d] /\ ChangedAt(Slot, files, files', s)
      BY <1>0, <1>1, <1>3 DEF ChangedAt
    <3>2. IsFiniteSet(Slot)
      BY <1>1
    <3>3. Count(Slot, files', c) = Count(Slot, files, c) - Is(files[s], c) + Is(files'[s], c)
      BY <3>1, <3>2, CountChange
    <3> QED
      BY <3>1, <3>3
  <2> QED
    BY <1>1, <1>2, <1>3, <2>1, <2>2 DEF Is
<1>4. CASE /\ files[s] # None /\ home[d] = None
           /\ home' = [home EXCEPT ![d] = files[s]] /\ files' = [files EXCEPT ![s] = None]
  <2>1. Count(Path, home', c) = Count(Path, home, c) - Is(home[d], c) + Is(files[s], c)
    <3>1. home'[d] = files[s] /\ ChangedAt(Path, home, home', d)
      BY <1>0, <1>1, <1>4 DEF ChangedAt
    <3>2. IsFiniteSet(Path)
      BY <1>1
    <3>3. Count(Path, home', c) = Count(Path, home, c) - Is(home[d], c) + Is(home'[d], c)
      BY <3>1, <3>2, CountChange
    <3> QED
      BY <3>1, <3>3
  <2>2. Count(Slot, files', c) = Count(Slot, files, c) - Is(files[s], c) + Is(None, c)
    <3>1. files'[s] = None /\ ChangedAt(Slot, files, files', s)
      BY <1>0, <1>1, <1>4 DEF ChangedAt
    <3>2. IsFiniteSet(Slot)
      BY <1>1
    <3>3. Count(Slot, files', c) = Count(Slot, files, c) - Is(files[s], c) + Is(files'[s], c)
      BY <3>1, <3>2, CountChange
    <3> QED
      BY <3>1, <3>3
  <2> QED
    BY <1>1, <1>2, <1>4, <2>1, <2>2 DEF Is
<1> QED
  BY <1>3, <1>4

LEMMA PlacesFrame ==
  ASSUME UNCHANGED <<home, files, fresh>>
  PROVE  \A c \in Content : Places(c)' = Places(c)
  BY DEF Places

(* What a purge deletes had one place, and has none.                       *)
LEMMA DeletePlaces ==
  ASSUME TypeInv, TypeInv', OnePlace, NEW s \in Slot, UNCHANGED <<home, fresh>>,
         files' = [files EXCEPT ![s] = None], NEW c \in Content
  PROVE  Places(c)' = Places(c) \/ Places(c)' = 0
<1>0. files \in [Slot -> Content \cup {None}]
  BY DEF TypeInv, TypeOK, DiskOK
<1>1. /\ Places(c) = Count(Path, home, c) + Count(Slot, files, c) + InFresh(c)
      /\ Count(Path, home, c) \in Nat /\ Count(Slot, files, c) \in Nat /\ InFresh(c) \in Nat
      /\ IsFiniteSet(Path) /\ IsFiniteSet(Slot) /\ c # None
  BY PlacesSum
<1>2. Places(c)' = Count(Path, home, c) + Count(Slot, files', c) + InFresh(c)
  BY PlacesSum DEF Places, Count, InFresh
<1>3. Count(Slot, files', c) = Count(Slot, files, c) - Is(files[s], c) + Is(None, c)
  <2>1. files'[s] = None /\ ChangedAt(Slot, files, files', s)
    BY <1>0, <1>1 DEF ChangedAt
  <2>2. IsFiniteSet(Slot)
    BY <1>1
  <2>3. Count(Slot, files', c) = Count(Slot, files, c) - Is(files[s], c) + Is(files'[s], c)
    BY ONLY <2>1, <2>2, CountChange
  <2> QED
    BY <2>1, <2>3
<1>4. files[s] = c => Count(Slot, files, c) > 0
  BY <1>1, CountType
<1> QED
  BY <1>1, <1>2, <1>3, <1>4 DEF OnePlace, Is

LEMMA CreatePlaces ==
  ASSUME TypeInv, TypeInv', NEW d \in Path, Create(d), NEW c \in Content
  PROVE  Places(c)' = Places(c)
<1>0. home \in [Path -> Content \cup {None}] /\ fresh \subseteq Content
  BY DEF TypeInv, TypeOK, DiskOK
<1>1. PICK e \in fresh : home' = [home EXCEPT ![d] = e] /\ fresh' = fresh \ {e}
  BY DEF Create
<1>2. /\ Places(c) = Count(Path, home, c) + Count(Slot, files, c) + InFresh(c)
      /\ Count(Path, home, c) \in Nat /\ Count(Slot, files, c) \in Nat /\ InFresh(c) \in Nat
      /\ IsFiniteSet(Path) /\ IsFiniteSet(Slot) /\ c # None
  BY PlacesSum
<1>3. Places(c)' = Count(Path, home', c) + Count(Slot, files, c) + InFresh(c)'
  <2>1. files' = files
    BY DEF Create
  <2> QED
    BY <2>1, PlacesSum DEF Places, Count, InFresh
<1>4. home[d] = None
  BY DEF Create
<1>5. Count(Path, home', c) = Count(Path, home, c) - Is(home[d], c) + Is(e, c)
  <2>1. home'[d] = e /\ ChangedAt(Path, home, home', d)
    BY <1>0, <1>1, <1>2, <1>4 DEF ChangedAt
  <2>2. IsFiniteSet(Path)
    BY <1>2
  <2>3. Count(Path, home', c) = Count(Path, home, c) - Is(home[d], c) + Is(home'[d], c)
    BY <2>1, <2>2, CountChange
  <2> QED
    BY <2>1, <2>3
<1>6. InFresh(c)' = IF e = c THEN InFresh(c) - 1 ELSE InFresh(c)
  BY <1>1 DEF InFresh
<1> QED
  BY <1>2, <1>3, <1>4, <1>5, <1>6 DEF Is

LostStep(c) ==
    \/ Places(c)' = Places(c)
    \/ Places(c)' = 0 /\ \E u \in Purgers : pc[u] = "undo" /\ pc'[u] = "unmeta"

(* Nothing is renamed onto a file: the file system does not do it, or each *)
(* removal has its suffix for itself and nothing is moved back.            *)
Unreplaced == NoReplace \/ (ExclusiveInv /\ Restorers = {})

LEMMA PlacesNext ==
  ASSUME Unreplaced, TypeInv, OnePlace, [Next]_vars
  PROVE  \A c \in Content : LostStep(c)
<1>0. TypeInv' /\ pc \in [Procs -> Labels] /\ Undoers \subseteq Procs
  BY TypeNext DEF TypeInv, TypeOK, Procs
<1>r. ASSUME NEW p \in Removers, pc[p] = "rename", ~NoReplace PROVE files[slot[p]] = None
  BY <1>r DEF Unreplaced, ExclusiveInv, Reservations, Reserved, Holds
<1>u. ASSUME NEW u \in Restorers PROVE NoReplace
  BY <1>u DEF Unreplaced
<1>1. CASE UNCHANGED <<home, files, fresh>>
  BY <1>1, PlacesFrame DEF LostStep
<1>2. ASSUME NEW p \in Removers, MoveToTrash(p) PROVE \A c \in Content : LostStep(c)
  <2>1. CASE UNCHANGED <<home, files>>
    BY <1>1, <1>2, <2>1 DEF MoveToTrash
  <2>2. CASE /\ home[Source(p)] # None /\ files[slot[p]] = None
             /\ files' = [files EXCEPT ![slot[p]] = home[Source(p)]]
             /\ home' = [home EXCEPT ![Source(p)] = None]
    <3>1. fresh' = fresh /\ slot[p] \in Slot /\ Source(p) \in Path
      BY <1>2, ItemInHand DEF MoveToTrash, Moving, TypeInv, TypeOK, RemovalsOK
    <3> QED
      BY <1>0, <2>2, <3>1, MoveKeepsPlaces DEF LostStep
  <2> QED
    BY <1>2, <1>r, <2>1, <2>2 DEF MoveToTrash
<1>3. ASSUME NEW u \in Undoers, MoveBack(u) PROVE \A c \in Content : LostStep(c)
  <2>1. CASE UNCHANGED <<home, files>>
    BY <1>1, <1>3, <2>1 DEF MoveBack
  <2>2. CASE /\ files[Current(u).slot] # None /\ home[Destination(u)] = None
             /\ home' = [home EXCEPT ![Destination(u)] = files[Current(u).slot]]
             /\ files' = [files EXCEPT ![Current(u).slot] = None]
    <3>1. fresh' = fresh /\ Current(u).slot \in Slot /\ Destination(u) \in Path
      BY <1>3, RecordInHand DEF MoveBack, Record, TypeInv
    <3> QED
      BY <1>0, <2>2, <3>1, MoveKeepsPlaces DEF LostStep
  <2> QED
    BY <1>3, <1>u, <2>1, <2>2 DEF MoveBack
<1>4. ASSUME NEW u \in Undoers, RemoveAll(u) PROVE \A c \in Content : LostStep(c)
  <2>0. UNCHANGED <<home, fresh>> /\ u \in Purgers /\ pc[u] = "undo" /\ Current(u).slot \in Slot
    BY <1>4, RecordInHand DEF RemoveAll, Record, TypeInv
  <2>1. CASE files' = files
    BY <1>1, <2>0, <2>1
  <2>2. CASE files' = [files EXCEPT ![Current(u).slot] = None] /\ Goto(u, "unmeta")
    <3>1. pc'[u] = "unmeta"
      BY <1>0, <2>2, GotoTypes DEF Labels
    <3> QED
      BY <1>0, <2>0, <2>2, <3>1, DeletePlaces DEF LostStep
  <2> QED
    BY <1>4, <2>1, <2>2 DEF RemoveAll
<1>5. ASSUME NEW d \in Path, Create(d) PROVE \A c \in Content : LostStep(c)
  BY <1>0, <1>5, CreatePlaces DEF LostStep
<1>6. ASSUME NEW p \in Removers, RemovalStep(p) PROVE MoveToTrash(p) \/ UNCHANGED <<home, files, fresh>>
  BY <1>6 DEF RemovalStep, NextTarget, ProbeTarget, CreateMetadata, LstatTarget, Rollback,
    AppendBatch, disk
<1>7. ASSUME NEW u \in Undoers, UndoStep(u)
      PROVE  MoveBack(u) \/ RemoveAll(u) \/ UNCHANGED <<home, files, fresh>>
  BY <1>7 DEF UndoStep, Select, ConfirmPurge, NextRecord, LstatDestination, RemoveMetadata,
    AppendBatch, disk
<1> QED
  BY <1>1, <1>2, <1>3, <1>4, <1>5, <1>6, <1>7 DEF Next, Kill, vars, disk

LEMMA PlacesInit == Init => OnePlace
<1> SUFFICES ASSUME Init, NEW c \in Content PROVE Places(c) \in {0, 1}
  BY DEF OnePlace
<1>1. c # None /\ TypeInv
  BY TrashAssumption, TypeInit
<1>2. \A d \in Path : home[d] # c
  BY <1>1 DEF Init
<1>3. \A s \in Slot : files[s] # c
  BY <1>1 DEF Init
<1>4. Count(Path, home, c) = 0 /\ Count(Slot, files, c) = 0
  BY <1>1, <1>2, <1>3, PlacesSum, CountType
<1> QED
  BY <1>1, <1>4, PlacesSum DEF InFresh

(* In every step a content stays where it is or a purge takes it.          *)
LEMMA LostNext ==
  Unreplaced /\ TypeInv /\ OnePlace /\ [Next]_vars =>
    /\ OnePlace'
    /\ [\A c \in Content :
           \/ Places(c)' = Places(c)
           \/ Places(c)' = 0 /\ \E u \in Purgers : pc[u] = "undo" /\ pc'[u] = "unmeta"]_vars
BY PlacesNext DEF OnePlace, LostStep

(* With RENAME_NOREPLACE every content stays in one place, outside or in   *)
(* the trash, until a purge takes it, whatever runs beside what, fails or  *)
(* is killed.  A purge deletes no second copy, as there never is one.      *)
THEOREM NothingIsLost ==
  ASSUME NoReplace
  PROVE  Spec => NothingLost
<1>1. Unreplaced
  BY DEF Unreplaced
<1> QED
  BY <1>1, PlacesInit, LostNext, TypeAlways, PTL DEF Spec, NothingLost

(* Removals by themselves lose nothing even where rename replaces its      *)
(* target: the metadata keeps their targets apart.                         *)
THEOREM RemovalsLoseNothing ==
  ASSUME Undoers = {}
  PROVE  Spec => NothingLost
<1>1. PurgesAlone /\ Restorers = {}
  BY DEF PurgesAlone, Undoers
<1>2. ExclusiveInv => Unreplaced
  BY <1>1 DEF Unreplaced
<1>3. TypeInv /\ ExclusiveInv /\ [Next]_vars => ExclusiveInv'
  BY <1>1, ExclusiveNext
<1> QED
  BY <1>2, <1>3, ExclusiveInit, PlacesInit, LostNext, TypeAlways, PTL DEF Spec, NothingLost
=============================================================================
