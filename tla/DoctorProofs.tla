---------------------------- MODULE DoctorProofs -----------------------------
(***************************************************************************)
(* What holds when undoing commands take turns, whatever dies or fails to  *)
(* write: the journal tells one life per item, and what doctor reports was *)
(* so.  That doctor finds what lasts holds of every behaviour.             *)
(***************************************************************************)
EXTENDS Doctor, TrashSerialProofs

(* A removal writes of its own items, an undoing command of items whose    *)
(* removals have ended.                                                    *)
WritesOwn == \A p \in Removers : \A k \in 1 .. Len(batch[p]) :
    batch[p][k].record.item[1] = p
WritesEnded == \A u \in Undoers : \A k \in 1 .. Len(batch[u]) :
    pc[batch[u][k].record.item[1]] \in Ended

(* What an undoing command has still to undo is active: no other command   *)
(* undoes it meanwhile.                                                    *)
Listed == \A u \in Undoers : Running(u) =>
    \A k \in 1 .. Len(todo[u]) : todo[u][k] \in Active

TurnInv == OneUndoer /\ Written /\ WritesOwn /\ WritesEnded /\ Listed
-----------------------------------------------------------------------------
(* Undoing commands that take turns *)

(* An append, whole or in part, adds events of the batch to the journal.   *)
LEMMA Appends ==
  ASSUME TypeInv, NEW p \in Procs, AppendBatch(p)
  PROVE  /\ pc[p] = "append" /\ pc'[p] \in Ended /\ \A q \in Procs \ {p} : pc'[q] = pc[q]
         /\ UNCHANGED <<disk, fresh, work, owns>>
         /\ \E b \in Seq(Event) : /\ log' = log \o b
                                  /\ \A k \in 1 .. Len(b) : k \in 1 .. Len(batch[p]) /\ b[k] = batch[p][k]
<1>0. log \in Seq(Event) /\ batch[p] \in Seq(Event) /\ pc \in [Procs -> Labels]
  BY DEF TypeInv, TypeOK, JournalOK
<1>1. pc[p] = "append" /\ UNCHANGED <<disk, fresh, work, owns>>
  BY DEF AppendBatch
<1>2. \E label \in {"done", "failed"} : Goto(p, label)
  BY DEF AppendBatch
<1>3. pc'[p] \in Ended /\ \A q \in Procs \ {p} : pc'[q] = pc[q]
  BY <1>0, <1>2, GotoTypes DEF Labels, Ended
<1>4. \/ UNCHANGED journal \/ Journal!AppendAll(batch[p]) \/ Journal!AppendPart(batch[p])
  BY DEF AppendBatch
<1>5. ASSUME UNCHANGED journal
      PROVE  \E b \in Seq(Event) : /\ log' = log \o b
                                   /\ \A k \in 1 .. Len(b) : k \in 1 .. Len(batch[p]) /\ b[k] = batch[p][k]
  <2> DEFINE b == SubSeq(batch[p], 1, 0)
  <2>1. b \in Seq(Event) /\ Len(b) = 0 /\ b = << >>
    BY <1>0
  <2>2. log' = log \o b
    BY <1>0, <1>5, <2>1, ConcatEmptySeq DEF journal
  <2>3. \A k \in 1 .. Len(b) : k \in 1 .. Len(batch[p]) /\ b[k] = batch[p][k]
    BY <2>1
  <2> HIDE DEF b
  <2> QED
    BY <2>1, <2>2, <2>3
<1>6. ASSUME Journal!AppendAll(batch[p])
      PROVE  \E b \in Seq(Event) : /\ log' = log \o b
                                   /\ \A k \in 1 .. Len(b) : k \in 1 .. Len(batch[p]) /\ b[k] = batch[p][k]
  BY <1>0, <1>6 DEF Journal!AppendAll
<1>7. ASSUME Journal!AppendPart(batch[p])
      PROVE  \E b \in Seq(Event) : /\ log' = log \o b
                                   /\ \A k \in 1 .. Len(b) : k \in 1 .. Len(batch[p]) /\ b[k] = batch[p][k]
  <2>1. PICK n \in 0 .. Len(batch[p]) : log' = log \o SubSeq(batch[p], 1, n)
    BY <1>7 DEF Journal!AppendPart
  <2>2. /\ SubSeq(batch[p], 1, n) \in Seq(Event) /\ Len(SubSeq(batch[p], 1, n)) = n
        /\ \A k \in 1 .. n : SubSeq(batch[p], 1, n)[k] = batch[p][k] /\ k \in 1 .. Len(batch[p])
    BY <1>0
  <2> QED
    BY <2>1, <2>2
<1> QED
  BY <1>1, <1>3, <1>4, <1>5, <1>6, <1>7

(* A command that has ended stays so.                                      *)
LEMMA EndedForGood ==
  ASSUME TypeInv, Next
  PROVE  \A q \in Procs : pc[q] \in Ended => pc'[q] \in Ended
<1>0. pc \in [Procs -> Labels] /\ Removers \subseteq Procs /\ Undoers \subseteq Procs
  BY DEF TypeInv, TypeOK, Procs
<1>1. ASSUME NEW p \in Removers, RemovalStep(p) PROVE \A q \in Procs : pc[q] \in Ended => pc'[q] \in Ended
  <2>1. pc[p] \notin Ended
    BY <1>1 DEF RemovalStep, NextTarget, ProbeTarget, CreateMetadata, LstatTarget, MoveToTrash,
      Rollback, AppendBatch, Ended
  <2> QED
    BY <1>1, <2>1, RemovalTouches
<1>2. ASSUME NEW u \in Undoers, UndoStep(u) PROVE \A q \in Procs : pc[q] \in Ended => pc'[q] \in Ended
  <2>1. pc[u] \notin Ended
    BY <1>2 DEF UndoStep, Select, ConfirmPurge, NextRecord, LstatDestination, MoveBack, RemoveAll,
      RemoveMetadata, AppendBatch, Ended
  <2> QED
    BY <1>2, <2>1, UndoTouches
<1>3. ASSUME NEW p \in Procs, Kill(p) PROVE \A q \in Procs : pc[q] \in Ended => pc'[q] \in Ended
  BY <1>0, <1>3, GotoTypes DEF Kill, Labels, Ended
<1> QED
  BY <1>1, <1>2, <1>3 DEF Next, Create

(* An event is about an item of a removal.                                 *)
LEMMA EventItems ==
  ASSUME NEW es \in Seq(Event), NEW k \in 1 .. Len(es)
  PROVE  es[k].record \in Record /\ es[k].record.item[1] \in Removers
<1>1. es[k] \in Event
  OBVIOUS
<1>2. es[k].record \in Record
  BY <1>1 DEF Event
<1>3. es[k].record.item \in Item
  BY <1>2 DEF Record
<1> QED
  BY <1>2, <1>3 DEF Item

(* The journal stays one of removals that have ended.                      *)
LEMMA WrittenStays ==
  ASSUME TypeInv, Written, log' = log, NEW p \in Procs, pc[p] \notin Ended \/ pc'[p] \in Ended,
         \A q \in Procs \ {p} : pc'[q] = pc[q]
  PROVE  Written'
<1> SUFFICES ASSUME NEW k \in 1 .. Len(log) PROVE pc'[log[k].record.item[1]] \in Ended
  BY DEF Written
<1>1. log \in Seq(Event)
  BY DEF TypeInv, TypeOK, JournalOK
<1>3. log[k].record.item[1] \in Procs /\ pc[log[k].record.item[1]] \in Ended
  BY <1>1, EventItems DEF Procs, Written
<1> QED
  BY <1>3

LEMMA WrittenGrows ==
  ASSUME TypeInv, Written, NEW b \in Seq(Event), log' = log \o b,
         NEW p \in Procs, pc'[p] \in Ended, \A q \in Procs \ {p} : pc'[q] = pc[q],
         \A k \in 1 .. Len(b) : pc'[b[k].record.item[1]] \in Ended
  PROVE  Written'
<1>1. log \in Seq(Event)
  BY DEF TypeInv, TypeOK, JournalOK
<1>2. Extended(log, b, log')
  BY <1>1, Longer
<1> SUFFICES ASSUME NEW k \in 1 .. Len(log') PROVE pc'[log'[k].record.item[1]] \in Ended
  BY DEF Written
<1>3. CASE k \in 1 .. Len(log)
  <2>2. log[k].record.item[1] \in Procs /\ pc[log[k].record.item[1]] \in Ended
    BY <1>1, <1>3, EventItems DEF Procs, Written
  <2>3. log'[k] = log[k]
    BY <1>2, <1>3 DEF Extended
  <2> QED
    BY <2>2, <2>3
<1>4. CASE k \notin 1 .. Len(log)
  <2>1. PICK j \in 1 .. Len(b) : k = Len(log) + j
    BY <1>2, <1>4 DEF Extended
  <2> QED
    BY <1>2, <2>1 DEF Extended
<1> QED
  BY <1>3, <1>4

LEMMA TurnRemoval ==
  ASSUME ~Overlap, TypeInv, TurnInv, NEW p \in Removers, RemovalStep(p)
  PROVE  TurnInv'
<1>0. /\ p \in Procs /\ p \notin Undoers /\ Undoers \subseteq Procs /\ Removers \subseteq Procs
      /\ pc \in [Procs -> Labels] /\ batch \in [Procs -> Seq(Event)] /\ log \in Seq(Event)
  BY TrashAssumption DEF TypeInv, TypeOK, JournalOK, Procs
<1>1. /\ todo' = todo /\ \A q \in Procs \ {p} : pc'[q] = pc[q] /\ batch'[q] = batch[q]
  BY RemovalTouches
<1>2. pc[p] \notin Ended
  BY DEF RemovalStep, NextTarget, ProbeTarget, CreateMetadata, LstatTarget, MoveToTrash,
    Rollback, AppendBatch, Ended
<1>3. OneUndoer'
  BY <1>0, <1>1 DEF TurnInv, OneUndoer, Running
<1>4. WritesEnded'
  <2> SUFFICES ASSUME NEW u \in Undoers, NEW k \in 1 .. Len(batch[u])
               PROVE  pc'[batch[u][k].record.item[1]] \in Ended
    BY <1>0, <1>1 DEF WritesEnded
  <2>1. batch[u] \in Seq(Event)
    BY <1>0
  <2>2. batch[u][k].record.item[1] \in Removers /\ pc[batch[u][k].record.item[1]] \in Ended
    BY <2>1, EventItems DEF TurnInv, WritesEnded
  <2> QED
    BY <1>0, <1>1, <1>2, <2>2
<1>5. CASE AppendBatch(p)
  <2>1. batch' = batch
    BY <1>5 DEF AppendBatch, work
  <2>2. PICK b \in Seq(Event) : /\ log' = log \o b
                                /\ \A k \in 1 .. Len(b) : k \in 1 .. Len(batch[p]) /\ b[k] = batch[p][k]
    BY <1>0, <1>5, Appends
  <2>3. pc'[p] \in Ended
    BY <1>0, <1>5, Appends
  <2>4. \A k \in 1 .. Len(b) : b[k].record.item[1] = p
    BY <2>2 DEF TurnInv, WritesOwn
  <2>5. Written'
    BY <1>0, <1>1, <1>2, <2>2, <2>3, <2>4, WrittenGrows DEF TurnInv
  <2>6. \A r \in Active : r \in Active'
    <3> SUFFICES ASSUME NEW r \in Active PROVE r \in Active'
      OBVIOUS
    <3>1. r.item[1] # p
      BY <1>2, ActiveWritten DEF TurnInv
    <3>2. \A k \in 1 .. Len(b) : b[k].record.item # r.item
      BY <2>4, <3>1
    <3> QED
      BY <1>0, <2>2, <3>2, ActiveGrows
  <2>7. Listed'
    BY <1>0, <1>1, <2>6 DEF TurnInv, Listed, Running
  <2>8. WritesOwn'
    BY <2>1 DEF TurnInv, WritesOwn
  <2> QED
    BY <1>3, <1>4, <2>5, <2>7, <2>8 DEF TurnInv
<1>6. CASE ~AppendBatch(p)
  <2>1. log' = log
    BY <1>6 DEF RemovalStep, NextTarget, ProbeTarget, CreateMetadata, LstatTarget, MoveToTrash,
      Rollback, journal
  <2>2. Active' = Active
    BY <2>1 DEF Active
  <2>3. Listed'
    BY <1>0, <1>1, <2>2 DEF TurnInv, Listed, Running
  <2>4. Written'
    BY <1>0, <1>1, <1>2, <2>1, WrittenStays DEF TurnInv
  <2>5. WritesOwn'
    <3>1. CASE batch' = batch
      BY <3>1 DEF TurnInv, WritesOwn
    <3>2. CASE batch' # batch
      <4>1. batch' = [batch EXCEPT ![p] = Append(@, ItemEvent(p))] /\ pc[p] = "rename"
        BY <1>6, <3>2 DEF RemovalStep, NextTarget, ProbeTarget, CreateMetadata, LstatTarget,
          MoveToTrash, Rollback, work, ItemEvent
      <4>2. ItemEvent(p) \in Event /\ ItemEvent(p).record.item[1] = p
        BY <1>0, <4>1, ItemInHand DEF TypeInv, TypeOK, RemovalsOK, ItemEvent, Event, Record, Moving, ItemOf
      <4>3. \A k \in 1 .. Len(batch'[p]) : batch'[p][k].record.item[1] = p
        <5>1. /\ Len(batch'[p]) = Len(batch[p]) + 1 /\ Len(batch[p]) \in Nat
              /\ \A k \in 1 .. Len(batch[p]) : batch'[p][k] = batch[p][k]
              /\ batch'[p][Len(batch[p]) + 1] = ItemEvent(p)
          BY <1>0, <4>1, <4>2, BatchGrows
        <5>2. \A k \in 1 .. Len(batch'[p]) : k \in 1 .. Len(batch[p]) \/ k = Len(batch[p]) + 1
          BY <5>1
        <5> QED
          BY <4>2, <5>1, <5>2 DEF TurnInv, WritesOwn
      <4> QED
        BY <1>0, <1>1, <4>3 DEF TurnInv, WritesOwn
    <3> QED
      BY <3>1, <3>2
  <2> QED
    BY <1>3, <1>4, <2>3, <2>4, <2>5 DEF TurnInv
<1> QED
  BY <1>5, <1>6

LEMMA TurnAlone ==
  ASSUME ~Overlap, TypeInv, TurnInv, NEW u \in Undoers, UndoStep(u)
  PROVE  /\ \A v \in Undoers \ {u} : ~Running(v) /\ ~Running(v)'
         /\ pc[u] \notin Ended /\ (pc[u] # "idle" => Running(u))
<1>0. \A v \in Undoers \ {u} : pc'[v] = pc[v]
  BY UndoTouches DEF Procs
<1>1. pc[u] \notin Ended
  BY DEF UndoStep, Select, ConfirmPurge, NextRecord, LstatDestination, MoveBack, RemoveAll,
    RemoveMetadata, AppendBatch, Ended
<1>2. CASE Select(u)
  <2>1. \A v \in Undoers : ~Running(v)
    BY <1>2 DEF Select
  <2> QED
    BY <1>0, <1>1, <1>2, <2>1 DEF Running, Select
<1>3. CASE ~Select(u)
  <2>1. pc[u] # "idle"
    BY <1>3 DEF UndoStep, ConfirmPurge, NextRecord, LstatDestination, MoveBack, RemoveAll,
      RemoveMetadata, AppendBatch
  <2> QED
    BY <1>0, <1>1, <2>1 DEF TurnInv, OneUndoer, Running
<1> QED
  BY <1>2, <1>3

LEMMA TurnUndo ==
  ASSUME ~Overlap, TypeInv, TurnInv, NEW u \in Undoers, UndoStep(u)
  PROVE  TurnInv'
<1>0. /\ u \in Procs /\ Undoers \subseteq Procs /\ Removers \subseteq Procs \ {u}
      /\ pc \in [Procs -> Labels] /\ batch \in [Procs -> Seq(Event)] /\ log \in Seq(Event)
      /\ todo \in [Undoers -> Seq(Record)] /\ todo[u] \in Seq(Record) /\ batch[u] \in Seq(Event)
  BY TrashAssumption DEF TypeInv, TypeOK, JournalOK, UndosOK, Procs
<1>1. /\ \A q \in Procs \ {u} : pc'[q] = pc[q] /\ batch'[q] = batch[q]
      /\ \A v \in Undoers \ {u} : todo'[v] = todo[v]
  BY UndoTouches
<1>2. (\A v \in Undoers \ {u} : ~Running(v) /\ ~Running(v)') /\ pc[u] \notin Ended
      /\ (pc[u] # "idle" => Running(u))
  BY TurnAlone
<1>3. OneUndoer'
  BY <1>2 DEF OneUndoer
<1>4. WritesOwn'
  BY <1>0, <1>1 DEF TurnInv, WritesOwn
<1>5. \A v \in Undoers \ {u} : \A k \in 1 .. Len(batch'[v]) :
         pc'[batch'[v][k].record.item[1]] \in Ended
  <2> SUFFICES ASSUME NEW v \in Undoers \ {u}, NEW k \in 1 .. Len(batch[v])
               PROVE  pc'[batch[v][k].record.item[1]] \in Ended
    BY <1>0, <1>1
  <2>1. batch[v] \in Seq(Event)
    BY <1>0
  <2>2. batch[v][k].record.item[1] \in Removers /\ pc[batch[v][k].record.item[1]] \in Ended
    BY <2>1, EventItems DEF TurnInv, WritesEnded
  <2> QED
    BY <1>0, <1>1, <2>2
<1>6. \A k \in 1 .. Len(batch[u]) : pc'[batch[u][k].record.item[1]] \in Ended
  <2> SUFFICES ASSUME NEW k \in 1 .. Len(batch[u])
               PROVE  pc'[batch[u][k].record.item[1]] \in Ended
    OBVIOUS
  <2>1. batch[u][k].record.item[1] \in Removers /\ pc[batch[u][k].record.item[1]] \in Ended
    BY <1>0, EventItems DEF TurnInv, WritesEnded
  <2> QED
    BY <1>0, <1>1, <2>1
<1>7. CASE AppendBatch(u)
  <2>1. batch' = batch
    BY <1>7 DEF AppendBatch, work
  <2>2. PICK b \in Seq(Event) : /\ log' = log \o b
                                /\ \A k \in 1 .. Len(b) : k \in 1 .. Len(batch[u]) /\ b[k] = batch[u][k]
    BY <1>0, <1>7, Appends
  <2>3. pc'[u] \in Ended
    BY <1>0, <1>7, Appends
  <2>a. \A k \in 1 .. Len(b) : pc'[b[k].record.item[1]] \in Ended
    BY <1>6, <2>2
  <2>4. Written'
    BY <1>0, <1>1, <2>2, <2>3, <2>a, WrittenGrows DEF TurnInv
  <2>5. ~Running(u)'
    BY <2>3 DEF Running
  <2>6. Listed'
    BY <1>2, <2>5 DEF Listed
  <2>7. WritesEnded'
    BY <1>5, <1>6, <2>1 DEF WritesEnded
  <2> QED
    BY <1>3, <1>4, <2>4, <2>6, <2>7 DEF TurnInv
<1>8. CASE ~AppendBatch(u)
  <2>1. log' = log
    BY <1>8 DEF UndoStep, Select, ConfirmPurge, NextRecord, LstatDestination, MoveBack, RemoveAll,
      RemoveMetadata, journal
  <2>2. Written'
    BY <1>0, <1>1, <1>2, <2>1, WrittenStays DEF TurnInv
  <2>3. Active' = Active
    BY <2>1 DEF Active
  <2>4. CASE Select(u)
    <3>1. Running(u)' => \A k \in 1 .. Len(todo'[u]) : todo'[u][k] \in Active
      <4>1. CASE Goto(u, "failed")
        <5>1. pc'[u] = "failed"
          BY <1>0, <4>1 DEF Goto
        <5> QED
          BY <5>1 DEF Running, Ended
      <4>2. CASE \E n \in 1 .. Len(log) : \E rs \in [1 .. n -> Active] :
                   todo' = [todo EXCEPT ![u] = rs]
        <5>0. PICK n \in 1 .. Len(log) : \E rs \in [1 .. n -> Active] : todo' = [todo EXCEPT ![u] = rs]
          BY <4>2
        <5>1. PICK rs \in [1 .. n -> Active] : todo' = [todo EXCEPT ![u] = rs]
          BY <5>0
        <5>2. todo'[u] = rs /\ Len(rs) = n
          BY <1>0, <5>1
        <5> QED
          BY <5>1, <5>2
      <4> QED
        BY <2>4, <4>1, <4>2 DEF Select
    <3>2. Listed'
      BY <1>2, <2>3, <3>1 DEF Listed
    <3>3. batch' = batch
      BY <2>4 DEF Select
    <3>4. WritesEnded'
      BY <1>5, <1>6, <3>3 DEF WritesEnded
    <3> QED
      BY <1>3, <1>4, <2>2, <3>2, <3>4 DEF TurnInv
  <2>5. CASE ~Select(u)
    <3>1. Running(u)
      BY <1>2, <1>8, <2>5 DEF UndoStep, ConfirmPurge, NextRecord, LstatDestination, MoveBack,
        RemoveAll, RemoveMetadata
    <3>2. \A k \in 1 .. Len(todo[u]) : todo[u][k] \in Active
      BY <3>1 DEF TurnInv, Listed
    <3>3. todo'[u] = todo[u] \/ (todo'[u] = Tail(todo[u]) /\ pc[u] \in {"lstat", "undo", "unmeta"})
      BY <1>0, <1>8, <2>5 DEF UndoStep, ConfirmPurge, NextRecord, LstatDestination, MoveBack,
        RemoveAll, RemoveMetadata, Collide, Skip, work
    <3>4. \A k \in 1 .. Len(todo'[u]) : todo'[u][k] \in Active
      <4>1. CASE todo'[u] = Tail(todo[u]) /\ pc[u] \in {"lstat", "undo", "unmeta"}
        <5>1. todo[u] # <<>>
          BY <4>1 DEF TypeInv, HasRecord
        <5>2. \A k \in 1 .. Len(Tail(todo[u])) : k + 1 \in 1 .. Len(todo[u]) /\ Tail(todo[u])[k] = todo[u][k + 1]
          BY <1>0, <5>1
        <5> QED
          BY <3>2, <4>1, <5>2
      <4> QED
        BY <3>2, <3>3, <4>1
    <3>5. Listed'
      BY <1>2, <2>3, <3>4 DEF Listed
    <3>6. WritesEnded'
      <4>1. CASE batch' = batch
        BY <1>5, <1>6, <4>1 DEF WritesEnded
      <4>2. CASE batch' # batch
        <5>1. pc[u] = "unmeta" /\ batch' = [batch EXCEPT ![u] = Append(@, UndoEvent(u))]
          BY <1>8, <2>5, <4>2 DEF UndoStep, ConfirmPurge, NextRecord, LstatDestination, MoveBack,
            RemoveAll, RemoveMetadata, UndoEvent, work
        <5>2. Current(u) \in Record /\ Destination(u) \in Path /\ todo[u] # <<>>
          BY <5>1, RecordInHand DEF TypeInv, HasRecord
        <5>3. UndoEvent(u) \in Event /\ UndoEvent(u).record.item = Current(u).item
          BY <5>2 DEF UndoEvent, Event, Record
        <5>4. Current(u) \in Active
          BY <1>0, <3>2, <5>2 DEF Current
        <5>5. Current(u).item[1] \in Removers /\ pc[Current(u).item[1]] \in Ended
          BY <5>2, <5>4, ActiveWritten DEF TurnInv, Record, Item
        <5>6. /\ Len(batch'[u]) = Len(batch[u]) + 1 /\ Len(batch[u]) \in Nat
              /\ \A k \in 1 .. Len(batch[u]) : batch'[u][k] = batch[u][k]
              /\ batch'[u][Len(batch[u]) + 1] = UndoEvent(u)
          BY <1>0, <5>1, <5>3, BatchGrows
        <5>7. \A k \in 1 .. Len(batch'[u]) : k \in 1 .. Len(batch[u]) \/ k = Len(batch[u]) + 1
          BY <5>6
        <5>8. \A k \in 1 .. Len(batch'[u]) : pc'[batch'[u][k].record.item[1]] \in Ended
          <6>1. pc'[Current(u).item[1]] \in Ended
            BY <1>0, <1>1, <5>5
          <6>2. pc'[UndoEvent(u).record.item[1]] \in Ended
            BY <5>3, <6>1
          <6> QED
            BY ONLY <1>6, <5>6, <5>7, <6>2
        <5> QED
          BY <1>5, <5>8 DEF WritesEnded
      <4> QED
        BY <4>1, <4>2
    <3> QED
      BY <1>3, <1>4, <2>2, <3>5, <3>6 DEF TurnInv
  <2> QED
    BY <2>4, <2>5
<1> QED
  BY <1>7, <1>8

LEMMA TurnNext ==
  ASSUME ~Overlap, TypeInv, TurnInv, [Next]_vars
  PROVE  TurnInv'
<1>1. ASSUME NEW p \in Removers, RemovalStep(p) PROVE TurnInv'
  BY <1>1, TurnRemoval
<1>2. ASSUME NEW u \in Undoers, UndoStep(u) PROVE TurnInv'
  BY <1>2, TurnUndo
<1>3. ASSUME NEW p \in Procs, Kill(p) PROVE TurnInv'
  <2>1. pc \in [Procs -> Labels] /\ batch \in [Procs -> Seq(Event)] /\ log' = log
    BY <1>3 DEF TypeInv, TypeOK, Kill, journal
  <2>2. pc'[p] = "dead" /\ (\A q \in Procs \ {p} : pc'[q] = pc[q]) /\ "dead" \in Ended
    BY <1>3, <2>1, GotoTypes DEF Kill, Labels, Ended
  <2>3. batch' = batch /\ todo' = todo /\ Active' = Active
    BY <1>3, <2>1 DEF Kill, work, Active
  <2>4. \A u \in Undoers : Running(u)' => Running(u)
    BY <2>2 DEF Running, Procs
  <2>5. Written'
    BY <2>1, <2>2, WrittenStays DEF TurnInv
  <2>6. OneUndoer' /\ Listed'
    BY <2>3, <2>4 DEF TurnInv, OneUndoer, Listed
  <2>7. WritesOwn'
    BY <2>3 DEF TurnInv, WritesOwn
  <2>8. WritesEnded'
    <3> SUFFICES ASSUME NEW u \in Undoers, NEW k \in 1 .. Len(batch[u])
                 PROVE  pc'[batch[u][k].record.item[1]] \in Ended
      BY <2>3 DEF WritesEnded
    <3>1. batch[u] \in Seq(Event)
      BY <2>1 DEF Procs
    <3>2. batch[u][k].record.item[1] \in Procs /\ pc[batch[u][k].record.item[1]] \in Ended
      BY <3>1, EventItems DEF TurnInv, WritesEnded, Procs
    <3> QED
      BY <2>2, <3>2
  <2> QED
    BY <2>5, <2>6, <2>7, <2>8 DEF TurnInv
<1>4. ASSUME UNCHANGED <<log, pc, batch, todo>> PROVE TurnInv'
  <2>1. OneUndoer' /\ Listed'
    BY <1>4 DEF TurnInv, OneUndoer, Listed, Running, Active
  <2>2. Written' /\ WritesOwn' /\ WritesEnded'
    BY <1>4 DEF TurnInv, Written, WritesOwn, WritesEnded
  <2> QED
    BY <2>1, <2>2 DEF TurnInv
<1> QED
  BY <1>1, <1>2, <1>3, <1>4 DEF Next, Create, vars, journal, work

LEMMA TurnInit == Init => TurnInv
<1> SUFFICES ASSUME Init PROVE TurnInv
  OBVIOUS
<1>1. log = <<>> /\ \A p \in Procs : batch[p] = <<>>
  BY DEF Init
<1>2. \A u \in Undoers : ~Running(u)
  BY TrashAssumption DEF Init, Running, Procs
<1>3. Len(<< >>) = 0
  OBVIOUS
<1> QED
  BY <1>1, <1>2, <1>3 DEF TurnInv, OneUndoer, Written, WritesOwn, WritesEnded, Listed, Procs
-----------------------------------------------------------------------------
(* One life per item *)

(* An item in the batch of a removal is of a target it is past.            *)
PastOf(p) == \A k \in 1 .. Len(batch[p]) :
    /\ batch[p][k].record.item[2] <= at[p]
    /\ pc[p] \in Moving => batch[p][k].record.item[2] # at[p]
Past == \A p \in Removers : PastOf(p)

LifeInv == Lives /\ Batches /\ Past

(* A beginning of a batch has each of its items once, too.                 *)
LEMMA DistinctPart ==
  ASSUME NEW es \in Seq(Event), Distinct(es), NEW b \in Seq(Event),
         \A k \in 1 .. Len(b) : k \in 1 .. Len(es) /\ b[k] = es[k]
  PROVE  Distinct(b)
<1> SUFFICES ASSUME NEW k \in 1 .. Len(b), NEW j \in 1 .. k - 1 PROVE ~SameItem(b[j], b[k])
  BY DEF Distinct
<1>1. j \in 1 .. Len(b) /\ Len(b) \in Nat
  OBVIOUS
<1>2. b[j] = es[j] /\ b[k] = es[k] /\ k \in 1 .. Len(es)
  BY <1>1
<1> QED
  BY <1>2 DEF Distinct

LEMMA UndoingFrame ==
  ASSUME NEW u \in Undoers, Undoing(u), batch'[u] = batch[u], todo'[u] = todo[u],
         Active \subseteq Active'
  PROVE  Undoing(u)'
<1>1. \A i : IsActive(i) => IsActive(i)'
  BY DEF IsActive
<1> QED
  BY <1>1 DEF Undoing

(* Each target of a removal is moved once, and written once.               *)
LEMMA LifePending ==
  ASSUME TypeInv, Batches, Past, NEW p \in Removers, RemovalStep(p)
  PROVE  (\A q \in Removers : Pending(q)') /\ Past'
<1>0. /\ p \in Procs /\ pc \in [Procs -> Labels] /\ Removers \subseteq Procs
      /\ at \in [Removers -> Nat] /\ batch \in [Procs -> Seq(Event)] /\ HasOperand
  BY DEF TypeInv, TypeOK, RemovalsOK, Procs
<1>1. /\ \A q \in Procs \ {p} : pc'[q] = pc[q] /\ batch'[q] = batch[q]
      /\ \A q \in Removers \ {p} : at'[q] = at[q]
  BY RemovalTouches
<1>2. Pending(p) /\ \A q \in Removers \ {p} : Pending(q)'
  <2>1. \A q \in Removers : Pending(q)
    BY DEF Batches
  <2>2. ASSUME NEW q \in Removers \ {p} PROVE Pending(q)'
    <3>1. batch'[q] = batch[q] /\ Pending(q)
      BY <1>0, <1>1, <2>1
    <3> QED
      BY ONLY <3>1 DEF Pending
  <2> QED
    BY <2>1, <2>2
<1>3. \A q \in Removers : PastOf(q)
  BY DEF Past
<1>4. \A q \in Removers \ {p} : PastOf(q)'
  BY <1>0, <1>1, <1>3 DEF PastOf
<1>5. ASSUME PastOf(p)' PROVE Past'
  BY <1>4, <1>5 DEF Past
<1>6. \A k \in 1 .. Len(batch[p]) : batch[p][k].record.item[2] \in Nat
  <2> SUFFICES ASSUME NEW k \in 1 .. Len(batch[p]) PROVE batch[p][k].record.item[2] \in Nat
    OBVIOUS
  <2>1. batch[p][k].record.item \in Item
    BY <1>0, EventItems DEF Record
  <2>2. PICK q \in Removers : batch[p][k].record.item \in {q} \X DOMAIN Operands[q]
    BY <2>1 DEF Item
  <2>3. Operands[q] \in Seq(Path)
    BY TrashAssumption
  <2> QED
    BY <2>2, <2>3
<1>7. CASE batch' = batch
  <2>1. Pending(p)'
    BY <1>2, <1>7 DEF Pending
  <2>2. ASSUME at' = at, pc'[p] \in Moving => pc[p] \in Moving PROVE PastOf(p)'
    BY <1>3, <1>7, <2>2 DEF PastOf
  <2>3. PastOf(p)'
    <3>1. CASE NextTarget(p)
      <4>1. CASE at' = [at EXCEPT ![p] = @ + 1]
        <5>1. at'[p] = at[p] + 1 /\ at[p] \in Nat
          BY <1>0, <4>1
        <5>2. \A k \in 1 .. Len(batch[p]) : batch[p][k].record.item[2] <= at[p]
          BY <1>3 DEF PastOf
        <5>3. ASSUME NEW k \in 1 .. Len(batch[p])
              PROVE  batch[p][k].record.item[2] <= at'[p] /\ batch[p][k].record.item[2] # at'[p]
          <6>1. batch[p][k].record.item[2] \in Nat /\ batch[p][k].record.item[2] <= at[p]
            BY <1>6, <5>2
          <6> QED
            BY ONLY <5>1, <6>1
        <5> QED
          BY <1>7, <5>3 DEF PastOf
      <4>2. CASE Goto(p, "append") /\ at' = at
        BY <1>0, <2>2, <4>2, GotoTypes DEF Labels, Moving
      <4> QED
        BY <3>1, <4>1, <4>2 DEF NextTarget
    <3>2. CASE AppendBatch(p)
      <4>1. pc'[p] \in Ended /\ at' = at
        BY <1>0, <3>2, Appends DEF work
      <4> QED
        BY <2>2, <4>1 DEF Ended, Moving
    <3>3. CASE at' = at /\ pc[p] \in Moving
      BY <2>2, <3>3
    <3> QED
      BY <3>1, <3>2, <3>3 DEF RemovalStep, ProbeTarget, CreateMetadata, LstatTarget, MoveToTrash,
        Rollback, work, Moving
  <2> QED
    BY <1>2, <1>5, <2>1, <2>3
<1>8. CASE MoveToTrash(p) /\ batch' = [batch EXCEPT ![p] = Append(@, ItemEvent(p))] /\ Goto(p, "next")
  <2>1. pc[p] = "rename" /\ pc'[p] = "next" /\ at' = at /\ at[p] \in Nat
    BY <1>0, <1>8, GotoTypes DEF MoveToTrash, Labels
  <2> DEFINE e == ItemEvent(p)
  <2>2. /\ e \in Event /\ e.action = "trashed" /\ e.record.item = ItemOf(p)
        /\ e.record.item[1] = p /\ e.record.item[2] = at[p]
    BY <1>0, <2>1, ItemInHand DEF ItemEvent, ItemOf, Event, Record, Moving, TypeInv, TypeOK, RemovalsOK
  <2> HIDE DEF e
  <2>3. /\ Len(batch'[p]) = Len(batch[p]) + 1 /\ Len(batch[p]) \in Nat
        /\ \A k \in 1 .. Len(batch[p]) : batch'[p][k] = batch[p][k]
        /\ batch'[p][Len(batch[p]) + 1] = e
    BY <1>0, <1>8, <2>2, BatchGrows DEF e
  <2>4. \A k \in 1 .. Len(batch'[p]) : k \in 1 .. Len(batch[p]) \/ batch'[p][k] = e
    BY <2>3
  <2>5. \A k \in 1 .. Len(batch[p]) :
           batch[p][k].record.item[2] <= at[p] /\ batch[p][k].record.item[2] # at[p]
    BY <1>3, <2>1 DEF PastOf, Moving
  <2>6. \A k \in 1 .. Len(batch[p]) : batch[p][k].record.item # e.record.item
    BY <2>2, <2>5
  <2>7. ASSUME NEW k \in 1 .. Len(batch'[p])
        PROVE  /\ batch'[p][k].action = "trashed" /\ batch'[p][k].record.item[1] = p
               /\ batch'[p][k].record.item[2] <= at[p]
    <3>1. CASE k \in 1 .. Len(batch[p])
      BY <1>2, <2>3, <2>5, <3>1 DEF Pending
    <3>2. CASE batch'[p][k] = e
      BY <2>1, <2>2, <3>2
    <3> QED
      BY <2>4, <3>1, <3>2
  <2>8. ASSUME NEW k \in 1 .. Len(batch'[p]), NEW j \in 1 .. k - 1
        PROVE  batch'[p][j].record.item # batch'[p][k].record.item
    <3>1. j \in 1 .. Len(batch[p]) /\ batch'[p][j] = batch[p][j]
      BY <2>3, <2>8
    <3>2. CASE k \in 1 .. Len(batch[p])
      <4>1. batch[p][j].record.item # batch[p][k].record.item
        BY <1>2, <3>2 DEF Pending, Distinct, SameItem
      <4>2. batch'[p][k] = batch[p][k]
        BY <2>3, <3>2
      <4> QED
        BY ONLY <3>1, <4>1, <4>2
    <3> QED
      BY <2>4, <2>6, <3>1, <3>2
  <2>9. Pending(p)'
    BY <2>7, <2>8 DEF Pending, Distinct, SameItem
  <2>10. PastOf(p)'
    <3>1. "next" \notin Moving
      BY DEF Moving
    <3> QED
      BY <2>1, <2>7, <3>1 DEF PastOf
  <2> QED
    BY <1>2, <1>5, <2>9, <2>10
<1> QED
  BY <1>7, <1>8 DEF RemovalStep, NextTarget, ProbeTarget, CreateMetadata, LstatTarget, MoveToTrash,
    Rollback, AppendBatch, work, ItemEvent

LEMMA LifeRemoval ==
  ASSUME ~Overlap, TypeInv, TurnInv, LifeInv, NEW p \in Removers, RemovalStep(p)
  PROVE  LifeInv'
<1>0. /\ p \in Procs /\ p \notin Undoers /\ Undoers \subseteq Procs /\ pc[p] \notin Ended
      /\ batch \in [Procs -> Seq(Event)] /\ log \in Seq(Event)
  BY TrashAssumption DEF TypeInv, TypeOK, JournalOK, Procs, RemovalStep, NextTarget, ProbeTarget,
    CreateMetadata, LstatTarget, MoveToTrash, Rollback, AppendBatch, Ended
<1>1. todo' = todo /\ \A u \in Undoers : pc'[u] = pc[u] /\ batch'[u] = batch[u]
  BY <1>0, RemovalTouches
<1>2. (\A q \in Removers : Pending(q)') /\ Past'
  BY LifePending DEF LifeInv
<1>3. Lives' /\ Active \subseteq Active'
  <2>1. CASE AppendBatch(p)
    <3>1. PICK b \in Seq(Event) : /\ log' = log \o b
                                  /\ \A k \in 1 .. Len(b) : k \in 1 .. Len(batch[p]) /\ b[k] = batch[p][k]
      BY <1>0, <2>1, Appends
    <3>2. Pending(p) /\ batch[p] \in Seq(Event)
      BY <1>0 DEF LifeInv, Batches
    <3>3. \A k \in 1 .. Len(b) : b[k].action = "trashed" /\ b[k].record.item[1] = p
      BY <3>1, <3>2 DEF Pending
    <3>4. Distinct(b)
      BY <3>1, <3>2, DistinctPart DEF Pending
    <3>5. \A k \in 1 .. Len(b) : \A j \in 1 .. Len(log) : ~SameItem(log[j], b[k])
      BY <1>0, <3>3, NotWritten DEF TurnInv, SameItem
    <3>6. Lives'
      BY <1>0, <3>1, <3>3, <3>4, <3>5, LivesGrow DEF LifeInv
    <3>7. ASSUME NEW r \in Active PROVE r \in Active'
      <4>1. r.item[1] # p
        BY <1>0, ActiveWritten DEF TurnInv
      <4>2. \A k \in 1 .. Len(b) : b[k].record.item # r.item
        BY <3>3, <4>1
      <4> QED
        BY <1>0, <3>1, <4>2, ActiveGrows
    <3> QED
      BY <3>6, <3>7
  <2>2. CASE log' = log
    BY <2>2 DEF LifeInv, Lives, Active
  <2> QED
    BY <2>1, <2>2 DEF RemovalStep, NextTarget, ProbeTarget, CreateMetadata, LstatTarget, MoveToTrash,
      Rollback, journal
<1>4. \A u \in Undoers : Running(u)' => Undoing(u)'
  <2> SUFFICES ASSUME NEW u \in Undoers, Running(u)' PROVE Undoing(u)'
    OBVIOUS
  <2>1. Undoing(u)
    BY <1>1 DEF LifeInv, Batches, Running
  <2> QED
    BY <1>1, <1>3, <2>1, UndoingFrame
<1>5. Batches'
  BY <1>1, <1>2, <1>4 DEF LifeInv, Batches
<1> QED
  BY <1>2, <1>3, <1>5 DEF LifeInv

(* What is left to show of a step of u that does not write the journal.    *)
LEMMA LifeUndoStep ==
  ASSUME ~Overlap, TypeInv, TurnInv, LifeInv, NEW u \in Undoers, UndoStep(u), log' = log,
         Running(u)' => Undoing(u)', pc'[u] \in {"idle", "confirm"} => batch'[u] = <<>>
  PROVE  LifeInv'
<1>0. Removers \subseteq Procs \ {u} /\ Undoers \subseteq Procs
  BY TrashAssumption DEF Procs
<1>1. at' = at /\ \A q \in Procs \ {u} : pc'[q] = pc[q] /\ batch'[q] = batch[q]
  BY UndoTouches
<1>2. \A v \in Undoers \ {u} : ~Running(v)'
  BY TurnAlone
<1>3. Lives'
  BY DEF LifeInv, Lives
<1>4. Past' /\ \A p \in Removers : Pending(p)'
  BY <1>0, <1>1 DEF LifeInv, Past, PastOf, Batches, Pending
<1>5. Batches'
  BY <1>0, <1>1, <1>2, <1>4 DEF LifeInv, Batches
<1> QED
  BY <1>3, <1>4, <1>5 DEF LifeInv

LEMMA LifeUndo ==
  ASSUME ~Overlap, TypeInv, TurnInv, LifeInv, NEW u \in Undoers, UndoStep(u)
  PROVE  LifeInv'
<1>0. /\ u \in Procs /\ pc \in [Procs -> Labels] /\ todo \in [Undoers -> Seq(Record)]
      /\ log \in Seq(Event) /\ batch[u] \in Seq(Event) /\ todo[u] \in Seq(Record)
      /\ Removers \subseteq Procs \ {u} /\ Undoers \subseteq Procs
  BY TrashAssumption DEF TypeInv, TypeOK, JournalOK, UndosOK, Procs
<1>1. pc[u] # "idle" => Running(u) /\ Undoing(u)
  BY TurnAlone DEF LifeInv, Batches
<1>2. pc[u] \in {"idle", "confirm"} => batch[u] = <<>>
  BY DEF LifeInv, Batches
<1>s. ASSUME Skip(u), pc[u] \in {"lstat", "undo", "unmeta"}
      PROVE  pc'[u] = "next" /\ todo[u] # <<>> /\ todo'[u] = Tail(todo[u])
  BY <1>0, <1>s, GotoTypes DEF Skip, Labels, TypeInv, HasRecord
<1>c. ASSUME Collide(u), pc[u] \in {"lstat", "undo"}
      PROVE  /\ pc'[u] \in {pc[u], "next"}
             /\ todo'[u] = todo[u] \/ (todo[u] # <<>> /\ todo'[u] = Tail(todo[u]))
  BY <1>s, <1>c DEF Collide
<1>q. ASSUME log' = log, batch' = batch, pc[u] # "idle", pc'[u] \notin {"idle", "confirm"},
             todo'[u] = todo[u] \/ (todo[u] # <<>> /\ todo'[u] = Tail(todo[u]))
      PROVE  LifeInv'
  <2>1. Undoing(u)'
    BY <1>0, <1>1, <1>q, UndoingTail
  <2> QED
    BY <1>q, <2>1, LifeUndoStep
<1>3. CASE Select(u)
  <2>1. pc[u] = "idle" /\ batch' = batch /\ log' = log
    BY <1>3 DEF Select, journal
  <2>2. Running(u)' => Undoing(u)'
    BY <1>2, <1>3, <2>1, UndoingSelect
  <2> QED
    BY <1>2, <2>1, <2>2, LifeUndoStep
<1>4. CASE ConfirmPurge(u)
  <2>1. UNCHANGED <<log, batch, todo>> /\ pc[u] = "confirm"
    BY <1>4 DEF ConfirmPurge, journal, work
  <2>2. pc'[u] \in {"failed", "next", "refused"}
    BY <1>0, <1>4, GotoTypes DEF ConfirmPurge, Labels, Ended
  <2> QED
    BY <1>q, <2>1, <2>2
<1>5. CASE NextRecord(u)
  <2>1. UNCHANGED <<log, batch, todo>> /\ pc[u] = "next"
    BY <1>5 DEF NextRecord, journal, work
  <2>2. pc'[u] \in {"lstat", "undo", "append"}
    BY <1>0, <1>5, GotoTypes DEF NextRecord, Labels
  <2> QED
    BY <1>q, <2>1, <2>2
<1>6. CASE LstatDestination(u)
  <2>1. UNCHANGED <<log, batch>> /\ pc[u] = "lstat"
    BY <1>6 DEF LstatDestination, journal
  <2>2. CASE Collide(u)
    BY <1>c, <1>q, <2>1, <2>2
  <2>3. CASE Goto(u, "undo") /\ todo' = todo
    <3>1. pc'[u] = "undo"
      BY <1>0, <2>3, GotoTypes DEF Labels
    <3> QED
      BY <1>q, <2>1, <2>3, <3>1
  <2> QED
    BY <1>6, <2>2, <2>3 DEF LstatDestination
<1>7. CASE MoveBack(u) \/ RemoveAll(u)
  <2>1. UNCHANGED <<log, batch>> /\ pc[u] = "undo"
    BY <1>7 DEF MoveBack, RemoveAll, journal
  <2>2. CASE Skip(u)
    BY <1>s, <1>q, <2>1, <2>2
  <2>3. CASE Collide(u)
    BY <1>c, <1>q, <2>1, <2>3
  <2>4. CASE Goto(u, "unmeta") /\ todo' = todo
    <3>1. pc'[u] = "unmeta"
      BY <1>0, <2>4, GotoTypes DEF Labels
    <3> QED
      BY <1>q, <2>1, <2>4, <3>1
  <2> QED
    BY <1>7, <2>2, <2>3, <2>4 DEF MoveBack, RemoveAll
<1>8. CASE RemoveMetadata(u)
  <2>1. log' = log /\ pc[u] = "unmeta" /\ Skip(u)
    BY <1>8 DEF RemoveMetadata, journal
  <2>2. Undoing(u)' /\ pc'[u] = "next"
    BY <1>1, <1>s, <1>8, <2>1, UndoingDone
  <2> QED
    BY <2>1, <2>2, LifeUndoStep
<1>9. CASE AppendBatch(u)
  <2>1. /\ pc[u] = "append" /\ pc'[u] \in Ended /\ (\A q \in Procs \ {u} : pc'[q] = pc[q])
        /\ at' = at /\ batch' = batch
    BY <1>0, <1>9, Appends DEF work
  <2>2. PICK b \in Seq(Event) : /\ log' = log \o b
                                /\ \A k \in 1 .. Len(b) : k \in 1 .. Len(batch[u]) /\ b[k] = batch[u][k]
    BY <1>0, <1>9, Appends
  <2>3. Undoing(u)
    BY <1>1, <2>1
  <2>4. Distinct(b)
    BY <1>0, <2>2, <2>3, DistinctPart DEF Undoing
  <2>5. \A k \in 1 .. Len(b) : b[k].action # "trashed" /\ IsActive(b[k].record.item)
    BY <2>2, <2>3 DEF Undoing
  <2>6. Lives'
    BY <1>0, <2>2, <2>4, <2>5, LivesGrow DEF LifeInv
  <2>7. Past' /\ \A p \in Removers : Pending(p)'
    BY <1>0, <2>1 DEF LifeInv, Past, PastOf, Batches, Pending
  <2>8. \A v \in Undoers : ~Running(v)'
    BY <2>1, TurnAlone DEF Running
  <2>9. \A v \in Undoers : pc'[v] \in {"idle", "confirm"} => batch'[v] = <<>>
    BY <1>0, <2>1 DEF LifeInv, Batches, Ended
  <2> QED
    BY <2>6, <2>7, <2>8, <2>9 DEF LifeInv, Batches
<1> QED
  BY <1>3, <1>4, <1>5, <1>6, <1>7, <1>8, <1>9 DEF UndoStep

LEMMA LifeNext ==
  ASSUME ~Overlap, TypeInv, TurnInv, LifeInv, [Next]_vars
  PROVE  LifeInv'
<1>1. ASSUME NEW p \in Removers, RemovalStep(p) PROVE LifeInv'
  BY <1>1, LifeRemoval
<1>2. ASSUME NEW u \in Undoers, UndoStep(u) PROVE LifeInv'
  BY <1>2, LifeUndo
<1>3. ASSUME UNCHANGED <<log, batch, todo, at>>, \A q \in Procs : pc'[q] \in {"dead", pc[q]}
      PROVE  LifeInv'
  <2>1. Active' = Active /\ Lives'
    BY <1>3 DEF Active, LifeInv, Lives
  <2>2. \A u \in Undoers : Running(u)' => Running(u)
    BY <1>3 DEF Running, Ended, Procs
  <2>3. \A u \in Undoers : Running(u)' => Undoing(u)'
    BY <1>3, <2>1, <2>2, UndoingFrame DEF LifeInv, Batches
  <2>4. Batches'
    BY <1>3, <2>3 DEF LifeInv, Batches, Pending, Procs
  <2>5. Past'
    BY <1>3 DEF LifeInv, Past, PastOf, Procs, Moving
  <2> QED
    BY <2>1, <2>4, <2>5 DEF LifeInv
<1>4. ASSUME NEW p \in Procs, Kill(p) PROVE LifeInv'
  <2>1. \A q \in Procs : pc'[q] \in {"dead", pc[q]}
    BY <1>4, GotoTypes DEF Kill, TypeInv, TypeOK, Labels, Ended
  <2> QED
    BY <1>3, <1>4, <2>1 DEF Kill, journal, work
<1> QED
  BY <1>1, <1>2, <1>3, <1>4 DEF Next, Create, vars, journal, work

LEMMA LifeInit == Init => LifeInv
<1> SUFFICES ASSUME Init PROVE LifeInv
  OBVIOUS
<1>1. /\ Len(log) = 0 /\ \A p \in Procs : batch[p] = <<>> /\ Len(batch[p]) = 0
      /\ \A u \in Undoers : pc[u] = "idle" /\ u \in Procs
  BY TrashAssumption DEF Init, Procs
<1>2. Lives
  BY <1>1 DEF Lives
<1>3. Batches
  BY <1>1 DEF Batches, Pending, Distinct, Running, Procs
<1>4. Past
  BY <1>1 DEF Past, PastOf, Procs
<1> QED
  BY <1>2, <1>3, <1>4 DEF LifeInv

(* The journal tells one life per item: trashed, then at most one of       *)
(* restored and purged.  It does so whatever dies, fails to write or       *)
(* writes the beginning of its batch only, if undoing commands take turns. *)
THEOREM LivesAreSingle ==
  ASSUME ~Overlap
  PROVE  Spec => []OneLifePerItem
<1>1. TypeInv /\ LifeInv => OneLifePerItem
  <2> SUFFICES ASSUME TypeInv, LifeInv PROVE OneLifePerItem
    OBVIOUS
  <2>0. Lives /\ Len(log) \in Nat
    BY DEF LifeInv, TypeInv, TypeOK, JournalOK
  <2>1. ASSUME NEW j \in 1 .. Len(log), NEW k \in 1 .. Len(log), j < k,
               log[j].record.item = log[k].record.item
        PROVE  log[j].action = "trashed" /\ log[k].action # "trashed"
    <3>1. j \in 1 .. k - 1
      BY <2>0, <2>1
    <3> QED
      BY <2>0, <2>1, <3>1 DEF Lives, SameItem
  <2>2. ASSUME NEW j \in 1 .. Len(log), NEW k \in 1 .. Len(log), j # k,
               log[j].record.item = log[k].record.item
        PROVE  (log[j].action = "trashed") # (log[k].action = "trashed")
    <3>1. j < k \/ k < j
      BY <2>0, <2>2
    <3>2. \/ log[j].action = "trashed" /\ log[k].action # "trashed"
          \/ log[k].action = "trashed" /\ log[j].action # "trashed"
      BY <2>1, <2>2, <3>1
    <3> QED
      BY <3>2, Zenon
  <2> QED
    BY <2>0, <2>2 DEF OneLifePerItem, Lives, SameItem
<1>2. TypeInv /\ TurnInv /\ LifeInv /\ [Next]_vars => TurnInv' /\ LifeInv'
  BY TurnNext, LifeNext
<1> QED
  BY <1>1, <1>2, TurnInit, LifeInit, TypeAlways, PTL DEF Spec
-----------------------------------------------------------------------------
(* What is found is so *)

(* Each finding so far was true at some moment, and of each record that is *)
(* still to be looked at, the item is there or was missing at some moment. *)
LookInv ==
    /\ left \subseteq Record /\ (stage # "look" => left = {})
    /\ found \subseteq ever
    /\ \A r \in left : files[r.slot] # None \/ <<"missing-trash-item", r.slot>> \in ever

(* An item that leaves the trash is, at that moment, missing for a record  *)
(* that is active: the one in hand.                                        *)
LEMMA EmptiedIsFound ==
  ASSUME ~Overlap, TypeInv, TurnInv, Next, NEW s \in Slot, files[s] # None, files'[s] = None
  PROVE  <<"missing-trash-item", s>> \in Findings'
<1>0. /\ files \in [Slot -> Content \cup {None}] /\ home \in [Path -> Content \cup {None}]
      /\ todo \in [Undoers -> Seq(Record)]
  BY DEF TypeInv, TypeOK, DiskOK, UndosOK
<1>1. ASSUME NEW p \in Removers, RemovalStep(p) PROVE FALSE
  <2>1. CASE MoveToTrash(p)
    BY <1>0, <2>1 DEF MoveToTrash
  <2>2. CASE ~MoveToTrash(p)
    BY <1>1, <2>2 DEF RemovalStep, NextTarget, ProbeTarget, CreateMetadata, LstatTarget, Rollback,
      AppendBatch, disk
  <2> QED
    BY <2>1, <2>2
<1>2. PICK u \in Undoers : UndoStep(u)
  BY <1>1 DEF Next, Kill, Create, disk
<1>3. /\ pc[u] = "undo" /\ files' = [files EXCEPT ![Current(u).slot] = None] /\ log' = log
  BY <1>2 DEF UndoStep, Select, ConfirmPurge, NextRecord, LstatDestination, MoveBack, RemoveAll,
    RemoveMetadata, AppendBatch, disk, journal
<1>4. Current(u).slot = s
  BY <1>0, <1>3
<1>5. todo[u] # <<>> /\ Running(u)
  BY <1>3 DEF TypeInv, HasRecord, Running, Ended
<1>6. Current(u) \in Active
  BY <1>0, <1>5 DEF TurnInv, Listed, Current
<1>7. Active' = Active
  BY <1>3 DEF Active
<1>8. PICK r : r \in Active /\ r.slot = s
  BY <1>4, <1>6
<1>9. r \in Active' /\ files'[r.slot] = None
  BY <1>7, <1>8
<1> QED
  BY <1>8, <1>9 DEF Findings

(* The cases of a step of doctor, with what each does to the history.      *)
LEMMA LookNext ==
  ASSUME ~Overlap, TypeInv, TurnInv, LookInv, [DoctorNext]_doctorVars
  PROVE  LookInv'
<1>0. Active \subseteq Record
  BY ActiveRecords DEF TypeInv
<1>1. ASSUME UNCHANGED vars, Watch, ReadJournal PROVE LookInv'
  <2>1. files' = files /\ torn' = torn /\ left = {} /\ left' = {}
    BY <1>1 DEF vars, disk, journal, ReadJournal, LookInv
  <2>2. ever' = ever \cup Findings'
    BY <1>1 DEF Watch, ReadJournal
  <2>3. found' = Torn \/ found' = found
    BY <1>1 DEF ReadJournal
  <2>4. Torn \subseteq Findings'
    BY <2>1 DEF Torn, Findings
  <2> QED
    BY <2>1, <2>2, <2>3, <2>4 DEF LookInv
<1>2. ASSUME UNCHANGED vars, Watch, ReadActive PROVE LookInv'
  <2>1. files' = files /\ Active' = Active
    BY <1>2 DEF vars, disk, journal, Active
  <2>2. ever' = ever \cup Findings' /\ found' = found
    BY <1>2 DEF Watch, ReadActive
  <2>3. left' \in {Active, {}} /\ (stage' # "look" => left' = {})
    BY <1>2 DEF ReadActive, LookInv
  <2>4. \A r \in Active : files[r.slot] # None \/ <<"missing-trash-item", r.slot>> \in Findings'
    BY <2>1 DEF Findings
  <2> QED
    BY <1>0, <2>1, <2>2, <2>3, <2>4 DEF LookInv
<1>3. ASSUME UNCHANGED vars, Watch, Look PROVE LookInv'
  <2>1. files' = files /\ ever' = ever \cup Findings' /\ left' \subseteq left
    BY <1>3 DEF vars, disk, Watch, Look
  <2>2. found' \subseteq ever
    <3>1. CASE found' = found
      BY <3>1 DEF LookInv
    <3>2. ASSUME NEW r \in left, found' = found \cup Missing(r) PROVE found' \subseteq ever
      BY <3>2 DEF LookInv, Missing
    <3> QED
      BY <1>3, <3>1, <3>2 DEF Look
  <2>3. stage' # "look" => left' = {}
    BY <1>3 DEF Look
  <2> QED
    BY <2>1, <2>2, <2>3 DEF LookInv
<1>4. ASSUME Next, UNCHANGED report, Watch PROVE LookInv'
  <2>1. stage' = stage /\ left' = left /\ found' = found
    BY <1>4 DEF report
  <2>2. ever \subseteq ever' /\ (stage = "look" => Findings' \subseteq ever')
    BY <1>4 DEF Watch
  <2>3. ASSUME NEW r \in left
        PROVE  files'[r.slot] # None \/ <<"missing-trash-item", r.slot>> \in ever'
    <3>1. stage = "look" /\ r.slot \in Slot
      BY <2>3 DEF LookInv, Record
    <3>2. CASE files[r.slot] # None /\ files'[r.slot] = None
      BY <1>4, <2>2, <3>1, <3>2, EmptiedIsFound
    <3>3. CASE files[r.slot] = None
      BY <2>2, <2>3, <3>3 DEF LookInv
    <3> QED
      BY <3>2, <3>3
  <2> QED
    BY <2>1, <2>2, <2>3 DEF LookInv
<1>5. ASSUME UNCHANGED doctorVars PROVE LookInv'
  BY <1>5 DEF doctorVars, vars, disk, report, LookInv
<1> QED
  BY <1>1, <1>2, <1>3, <1>4, <1>5 DEF DoctorNext, DoctorStep

(* doctor is one more reader: what is proved of Trash holds beside it.     *)
LEMMA DoctorTypes == DoctorSpec => []TypeInv
<1>1. DoctorInit => TypeInv
  BY TypeInit DEF DoctorInit
<1>2. TypeInv /\ [DoctorNext]_doctorVars => TypeInv'
  BY TypeNext DEF DoctorNext, doctorVars
<1> QED
  BY <1>1, <1>2, PTL DEF DoctorSpec

(* doctor only reports what is so, whatever runs beside it, is killed or   *)
(* fails to write, as long as undoing commands take turns.                 *)
THEOREM DoctorReportsTheTruth ==
  ASSUME ~Overlap
  PROVE  DoctorSpec => []FindingsWereTrue
<1>1. DoctorInit => TurnInv /\ LookInv
  BY TurnInit DEF DoctorInit, LookInv
<1>2. TypeInv /\ TurnInv /\ LookInv /\ [DoctorNext]_doctorVars => TurnInv' /\ LookInv'
  <2>1. [DoctorNext]_doctorVars => [Next]_vars
    BY DEF DoctorNext, doctorVars
  <2> QED
    BY <2>1, TurnNext, LookNext
<1>3. LookInv => FindingsWereTrue
  BY DEF LookInv, FindingsWereTrue
<1> QED
  BY <1>1, <1>2, <1>3, DoctorTypes, PTL DEF DoctorSpec
-----------------------------------------------------------------------------
(* What lasts is found *)

TornFinding == <<"incomplete-journal-line">>
MissingFinding(s) == <<"missing-trash-item", s>>

(* What was wrong all the while is wrong now, and is found already or will *)
(* be: the torn line from the first step on, a missing item once doctor    *)
(* has come to a record with that name.                                    *)
LastInv ==
    /\ stage \in {"active", "look"} => /\ always \subseteq Findings
                                       /\ TornFinding \in always => TornFinding \in found
    /\ stage = "look" => \A s : MissingFinding(s) \in always =>
          MissingFinding(s) \in found \/ \E r \in left : r.slot = s
    /\ LastingTroubleIsFound

LEMMA FindingKinds ==
  ASSUME NEW f \in Findings
  PROVE  f = TornFinding \/ \E r \in Active : files[r.slot] = None /\ f = MissingFinding(r.slot)
<1>1. CASE f \in (IF torn THEN {<<"incomplete-journal-line">>} ELSE {})
  BY <1>1 DEF TornFinding
<1>2. CASE \E r \in Active : files[r.slot] = None /\ f = <<"missing-trash-item", r.slot>>
  BY <1>2 DEF MissingFinding
<1> QED
  BY <1>1, <1>2 DEF Findings

LEMMA LastNext ==
  ASSUME LastInv, [DoctorNext]_doctorVars
  PROVE  LastInv'
<1>1. ASSUME UNCHANGED vars, Watch, ReadJournal PROVE LastInv'
  <2>1. Findings' = Findings /\ stage = "idle" /\ stage' \in {"active", "failed"}
    BY <1>1 DEF vars, disk, journal, Findings, Active, ReadJournal
  <2>2. always' = Findings'
    BY <1>1, <2>1 DEF Watch
  <2>3. ASSUME stage' = "active", TornFinding \in always' PROVE TornFinding \in found'
    <3>1. found' = Torn
      BY <1>1, <2>3 DEF ReadJournal
    <3>2. torn
      <4>1. TornFinding \in Findings
        BY <2>1, <2>2, <2>3
      <4>2. \A s : TornFinding # MissingFinding(s)
        BY DEF TornFinding, MissingFinding
      <4> QED
        BY <4>1, <4>2 DEF Findings, TornFinding, MissingFinding
    <3> QED
      BY <3>1, <3>2 DEF Torn, TornFinding
  <2> QED
    BY <2>1, <2>2, <2>3 DEF LastInv, LastingTroubleIsFound
<1>2. ASSUME UNCHANGED vars, Watch, ReadActive PROVE LastInv'
  <2>1. /\ Findings' = Findings /\ stage = "active" /\ stage' \in {"look", "failed"} /\ found' = found
    BY <1>2 DEF vars, disk, journal, Findings, Active, ReadActive
  <2>2. always' = always \cap Findings'
    BY <1>2, <2>1 DEF Watch
  <2>3. ASSUME stage' = "look", NEW s, MissingFinding(s) \in always' PROVE \E r \in left' : r.slot = s
    <3>1. left' = Active /\ MissingFinding(s) \in Findings
      BY <1>2, <2>1, <2>2, <2>3 DEF ReadActive
    <3>2. PICK r \in Active : MissingFinding(s) = MissingFinding(r.slot)
      BY <3>1, FindingKinds DEF TornFinding, MissingFinding
    <3> QED
      BY <3>1, <3>2 DEF MissingFinding
  <2> QED
    BY <2>1, <2>2, <2>3 DEF LastInv, LastingTroubleIsFound
<1>3. ASSUME UNCHANGED vars, Watch, Look PROVE LastInv'
  <2>1. /\ Findings' = Findings /\ files' = files /\ stage = "look" /\ found \subseteq found'
        /\ always \subseteq Findings /\ (TornFinding \in always => TornFinding \in found)
    BY <1>3 DEF vars, disk, journal, Findings, Active, Look, LastInv
  <2>2. always' = always
    BY <1>3, <2>1 DEF Watch
  <2>3. ASSUME NEW r \in left, found' = found \cup Missing(r), stage' = stage, left' = left \ {r}
        PROVE  LastInv'
    <3>1. ASSUME NEW s, MissingFinding(s) \in always
          PROVE  MissingFinding(s) \in found' \/ \E q \in left' : q.slot = s
      <4>1. CASE r.slot = s
        <5>1. MissingFinding(s) \in Findings
          BY <2>1, <3>1
        <5>2. PICK q \in Active : files[q.slot] = None /\ MissingFinding(s) = MissingFinding(q.slot)
          BY <5>1, FindingKinds DEF TornFinding, MissingFinding
        <5>3. files[r.slot] = None
          BY <4>1, <5>2 DEF MissingFinding
        <5> QED
          BY <2>3, <4>1, <5>3 DEF Missing, MissingFinding
      <4>2. CASE r.slot # s
        BY <2>1, <2>3, <3>1, <4>2 DEF LastInv
      <4> QED
        BY <4>1, <4>2
    <3> QED
      BY <2>1, <2>2, <2>3, <3>1 DEF LastInv, LastingTroubleIsFound
  <2>4. ASSUME left = {}, stage' = "done", UNCHANGED <<left, found>> PROVE LastInv'
    <3>1. ASSUME NEW f \in always PROVE f \in found
      <4>1. f = TornFinding \/ \E r \in Active : f = MissingFinding(r.slot)
        BY <2>1, <3>1, FindingKinds
      <4>2. ASSUME NEW r \in Active, f = MissingFinding(r.slot) PROVE f \in found
        BY <2>1, <2>4, <3>1, <4>2 DEF LastInv
      <4> QED
        BY <2>1, <3>1, <4>1, <4>2
    <3> QED
      BY <2>2, <2>4, <3>1 DEF LastInv, LastingTroubleIsFound
  <2> QED
    BY <1>3, <2>3, <2>4 DEF Look
<1>4. ASSUME UNCHANGED report, Watch PROVE LastInv'
  <2>1. stage' = stage /\ left' = left /\ found' = found
    BY <1>4 DEF report
  <2>2. stage # "idle" => always' \subseteq always /\ (stage \in {"active", "look"} => always' \subseteq Findings')
    BY <1>4, <2>1 DEF Watch
  <2> QED
    BY <2>1, <2>2 DEF LastInv, LastingTroubleIsFound
<1>5. ASSUME UNCHANGED doctorVars PROVE LastInv'
  <2>1. Findings' = Findings
    BY <1>5 DEF doctorVars, vars, disk, journal, Findings, Active
  <2> QED
    BY <1>5, <2>1 DEF doctorVars, report, LastInv, LastingTroubleIsFound
<1> QED
  BY <1>1, <1>2, <1>3, <1>4, <1>5 DEF DoctorNext, DoctorStep

(* doctor reports all of it: what was wrong from its start to its end is   *)
(* among the findings, whatever goes on beside it.                         *)
THEOREM DoctorFindsWhatLasts == DoctorSpec => []LastingTroubleIsFound
<1>1. DoctorInit => LastInv
  BY DEF DoctorInit, LastInv, LastingTroubleIsFound
<1>2. LastInv => LastingTroubleIsFound
  BY DEF LastInv
<1> QED
  BY <1>1, <1>2, LastNext, PTL DEF DoctorSpec
=============================================================================
