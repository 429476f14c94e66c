---------------------------- MODULE JournalProofs ----------------------------
(***************************************************************************)
(* What holds of Journal for any writers, readers and batch sizes.         *)
(***************************************************************************)
EXTENDS Journal, TLAPS, SequenceTheorems, FiniteSetTheorems

(* The writers between LockExclusive and Unlock. *)
Holding == {"check", "write", "sync", "unlock-ok", "unlock-error", "unlock-refused"}

(* The exclusive lock is with the one writer that is in the locked part.   *)
OneWriter == \A w \in Writers : pc[w] \in Holding => excl = w

(* The holder's lines are the last of the file: the prefix of its batch    *)
(* that it has written, and no torn line but its own.                      *)
OwnLinesLast ==
    \A w \in Writers :
        /\ pc[w] \in {"start", "open", "lock", "check"} => wrote[w] = 0
        /\ pc[w] \in {"write", "sync"} =>
              /\ wrote[w] <= Len(lines)
              /\ \A i \in 1 .. wrote[w] : lines[Len(lines) - wrote[w] + i] = <<w, i>>
        /\ pc[w] = "write" => tail \in {None, <<w, wrote[w] + 1>>}
        /\ pc[w] = "sync" => wrote[w] = Size[w] /\ tail = None

(* The batch of w stands in the synced part of the file. *)
Durable(w) ==
    \E b \in 0 .. synced - Size[w] :
        \A i \in 1 .. Size[w] : lines[b + i] = <<w, i>>

Decided == \A w \in Writers : pc[w] \in {"ok", "unlock-ok"} => Durable(w)

(* A writer that got past Encode has events, one in "write" has some left. *)
EventsLeft ==
    \A w \in Writers :
        /\ pc[w] \in {"open", "lock", "check", "write", "sync"} => Size[w] > 0
        /\ pc[w] = "write" => wrote[w] < Size[w]

JInv == TypeOK /\ OneWriter /\ OwnLinesLast /\ NeverCorrupt /\ Decided /\ EventsLeft
-----------------------------------------------------------------------------
(* The typing of the variables is inductive by itself. *)
LEMMA TypeStep == TypeOK /\ [Next]_vars => TypeOK'
<1> SUFFICES ASSUME TypeOK, [Next]_vars PROVE TypeOK'
  OBVIOUS
<1> USE JournalAssumption
<1>1. ASSUME NEW w \in Writers, AppendStep(w) PROVE TypeOK'
  <2>1. CASE Encode(w)
    BY <2>1 DEF TypeOK, Encode, Goto, file, locks, reads, Ended, Procs
  <2>2. CASE Open(w)
    BY <2>2 DEF TypeOK, Open, Goto, locks, reads, Ended, Procs
  <2>3. CASE LockExclusive(w)
    BY <2>3 DEF TypeOK, LockExclusive, Goto, file, reads, Ended, Procs
  <2>4. CASE CheckTail(w)
    BY <2>4 DEF TypeOK, CheckTail, Goto, file, locks, reads, Ended, Procs
  <2>5. CASE WriteBytes(w)
    <3>1. <<w, wrote[w] + 1>> \in Event
      BY <2>5 DEF TypeOK, WriteBytes, Event
    <3> QED
      BY <2>5, <3>1 DEF TypeOK, WriteBytes, locks, reads, Line
  <2>6. CASE WriteNewline(w)
    <3> DEFINE line == IF tail = <<w, wrote[w] + 1>> THEN tail ELSE Corrupt
    <3>1. line \in Line
      BY <2>6 DEF WriteNewline, TypeOK, Line
    <3>2. lines' \in Seq(Line) /\ Len(lines') = Len(lines) + 1
      BY <2>6, <3>1 DEF WriteNewline, TypeOK
    <3>3. wrote' \in [Writers -> Nat] /\ \A v \in Writers : wrote'[v] <= Size[v]
      BY <2>6 DEF WriteNewline, TypeOK
    <3> QED
      BY <2>6, <3>2, <3>3 DEF TypeOK, WriteNewline, Goto, locks, reads, Procs, Ended
  <2>7. CASE WriteFails(w)
    BY <2>7 DEF TypeOK, WriteFails, Goto, file, locks, reads, Ended, Procs
  <2>8. CASE Sync(w)
    <3>1. Len(lines) \in Nat /\ synced \in 0 .. Len(lines)
      BY DEF TypeOK
    <3>2. synced' \in 0 .. Len(lines')
      BY <2>8, <3>1 DEF Sync
    <3> QED
      BY <2>8, <3>2 DEF TypeOK, Sync, Goto, locks, reads, Ended, Procs
  <2>9. CASE Unlock(w)
    BY <2>9 DEF TypeOK, Unlock, Goto, file, reads, Ended, Procs
  <2> QED
    BY <1>1, <2>1, <2>2, <2>3, <2>4, <2>5, <2>6, <2>7, <2>8, <2>9 DEF AppendStep
<1>2. ASSUME NEW r \in Readers, ReadStep(r) PROVE TypeOK'
  <2>1. CASE OpenRead(r)
    BY <2>1 DEF TypeOK, OpenRead, Goto, file, locks, reads, Ended, Procs
  <2>2. CASE LockShared(r)
    BY <2>2 DEF TypeOK, LockShared, Goto, file, reads, Ended, Procs
  <2>3. CASE ReadLine(r)
    <3> DEFINE line == lines[Len(view[r]) + 1]
    <3>1. line \in Line
      BY <2>3 DEF ReadLine, TypeOK
    <3>2. CASE line = Corrupt
      <4>1. <<>> \in Seq(Event)
        OBVIOUS
      <4>2. view' = [view EXCEPT ![r] = <<>>] /\ Goto(r, "unlock-error")
        BY <2>3, <3>2 DEF ReadLine
      <4>3. view' \in [Readers -> Seq(Event)]
        BY <4>1, <4>2 DEF TypeOK
      <4> QED
        BY <2>3, <4>2, <4>3 DEF TypeOK, ReadLine, Goto, file, locks, Ended
    <3>3. CASE line # Corrupt
      <4>1. view' = [view EXCEPT ![r] = Append(view[r], line)] /\ pc' = pc
        BY <2>3, <3>3 DEF ReadLine, Corrupt
      <4>2. Append(view[r], line) \in Seq(Event)
        BY <3>1, <3>3, AppendProperties DEF TypeOK, Line
      <4>3. view' \in [Readers -> Seq(Event)]
        BY <4>1, <4>2 DEF TypeOK
      <4> QED
        BY <2>3, <4>1, <4>3 DEF TypeOK, ReadLine, file, locks
    <3> QED
      BY <3>2, <3>3
  <2>4. CASE ReadEnd(r)
    BY <2>4 DEF TypeOK, ReadEnd, Goto, file, locks, Ended, Procs
  <2>5. CASE ReadFails(r)
    BY <2>5 DEF TypeOK, ReadFails, Goto, file, locks, Ended, Procs
  <2>6. CASE UnlockShared(r)
    BY <2>6 DEF TypeOK, UnlockShared, Goto, file, reads, Ended, Procs
  <2> QED
    BY <1>2, <2>1, <2>2, <2>3, <2>4, <2>5, <2>6 DEF ReadStep
<1>3. ASSUME NEW p \in Procs, LockFails(p) \/ Kill(p) PROVE TypeOK'
  BY <1>3 DEF TypeOK, LockFails, Kill, Goto, file, locks, reads, Ended
<1>4. CASE PowerLoss
  <2>1. PICK j \in synced .. Len(lines) :
          /\ lines' = SubSeq(lines, 1, j)
          /\ synced' = j
          /\ tail' \in {None, IF j < Len(lines) THEN lines[j + 1] ELSE tail}
    BY <1>4 DEF PowerLoss
  <2>2. lines' \in Seq(Line) /\ Len(lines') = j
    BY <2>1 DEF TypeOK
  <2>3. tail' \in Line \cup {None}
    BY <2>1 DEF TypeOK
  <2>4. synced' \in 0 .. Len(lines')
    BY <2>1, <2>2 DEF TypeOK
  <2>5. pc' \in [Procs -> Ended \cup {"start", "open", "lock", "check", "write", "sync",
                   "read", "unlock-ok", "unlock-error", "unlock-refused"}]
    BY <1>4 DEF PowerLoss, TypeOK, Ended
  <2> QED
    BY <1>4, <2>2, <2>3, <2>4, <2>5 DEF PowerLoss, TypeOK, reads
<1>5. CASE RepairTail
  BY <1>5 DEF TypeOK, RepairTail, locks, reads
<1>6. CASE UNCHANGED vars
  BY <1>6 DEF TypeOK, vars, file, locks, reads
<1> QED
  BY <1>1, <1>2, <1>3, <1>4, <1>5, <1>6 DEF Next

LEMMA TypeInit == Init => TypeOK
<1> SUFFICES ASSUME Init PROVE TypeOK
  OBVIOUS
<1>1. lines \in Seq(Line) /\ Len(lines) = 0 /\ <<>> \in Seq(Event)
  BY DEF Init
<1>2. \A w \in Writers : wrote[w] <= Size[w]
  BY JournalAssumption DEF Init
<1>3. view \in [Readers -> Seq(Event)] /\ partial \in [Readers -> BOOLEAN]
  BY <1>1 DEF Init
<1>4. pc \in [Procs -> {"start"}]
  BY DEF Init
<1>5. wrote \in [Writers -> Nat] /\ synced \in 0 .. Len(lines)
  BY <1>1 DEF Init
<1>6. exists \in BOOLEAN /\ tail = None /\ excl = None /\ shared = {}
  BY DEF Init
<1> QED
  BY <1>1, <1>2, <1>3, <1>4, <1>5, <1>6 DEF TypeOK, Ended

(* Every variable keeps its type. *)
THEOREM TypeCorrect == Spec => []TypeOK
BY TypeInit, TypeStep, PTL DEF Spec
-----------------------------------------------------------------------------
(* How a step changes the file: it adds a line or cuts unsynced ones.      *)
LEMMA FileStep ==
  ASSUME TypeOK, [Next]_vars
  PROVE  /\ \/ lines' = lines
            \/ \E e \in Line : lines' = Append(lines, e)
            \/ \E j \in synced .. Len(lines) : lines' = SubSeq(lines, 1, j)
         /\ synced <= synced'
<1>1. ASSUME NEW w \in Writers, AppendStep(w)
      PROVE  /\ lines' = lines \/ \E e \in Line : lines' = Append(lines, e)
             /\ synced <= synced'
  <2>1. CASE WriteNewline(w)
    <3> DEFINE line == IF tail = <<w, wrote[w] + 1>> THEN tail ELSE Corrupt
    <3>1. line \in Line /\ lines' = Append(lines, line)
      BY <2>1 DEF WriteNewline, TypeOK, Line
    <3> QED
      BY <2>1, <3>1 DEF WriteNewline, TypeOK
  <2>2. CASE Sync(w)
    BY <2>2 DEF Sync, TypeOK
  <2> QED
    BY <1>1, <2>1, <2>2 DEF AppendStep, TypeOK, Encode, Open, LockExclusive, CheckTail,
       WriteBytes, WriteFails, Unlock, file
<1>2. ASSUME NEW r \in Readers, ReadStep(r) PROVE UNCHANGED file
  BY <1>2 DEF ReadStep, OpenRead, LockShared, ReadLine, ReadEnd, ReadFails, UnlockShared
<1>3. ASSUME NEW p \in Procs, LockFails(p) \/ Kill(p) PROVE UNCHANGED file
  BY <1>3 DEF LockFails, Kill
<1>4. CASE PowerLoss
  BY <1>4 DEF PowerLoss, TypeOK
<1>5. CASE RepairTail
  BY <1>5 DEF RepairTail, TypeOK
<1> QED
  BY <1>1, <1>2, <1>3, <1>4, <1>5 DEF Next, vars, file, TypeOK

LEMMA SyncedStep ==
  ASSUME TypeOK, [Next]_vars
  PROVE  \A i \in 1 .. synced : i <= Len(lines') /\ lines'[i] = lines[i]
<1>1. lines \in Seq(Line) /\ synced \in 0 .. Len(lines) /\ Len(lines) \in Nat
  BY DEF TypeOK
<1>2. CASE \E e \in Line : lines' = Append(lines, e)
  BY <1>1, <1>2, AppendProperties
<1>3. CASE \E j \in synced .. Len(lines) : lines' = SubSeq(lines, 1, j)
  BY <1>1, <1>3
<1> QED
  BY <1>1, <1>2, <1>3, FileStep

(* No step of any process, no kill and no power loss changes an event that *)
(* is on stable storage.                                                   *)
THEOREM SyncedForever == Spec => SyncedIsForever
<1>1. TypeOK /\ [Next]_vars =>
        [\A i \in 1 .. synced : i <= Len(lines') /\ lines'[i] = lines[i]]_vars
  BY SyncedStep
<1> QED
  BY <1>1, TypeCorrect, PTL DEF Spec, SyncedIsForever
-----------------------------------------------------------------------------
LEMMA OneWriterStep ==
  ASSUME TypeOK, OneWriter, [Next]_vars
  PROVE  OneWriter'
<1> USE JournalAssumption
<1>1. ASSUME NEW w \in Writers, AppendStep(w) PROVE OneWriter'
  <2>1. CASE LockExclusive(w)
    <3>1. \A v \in Writers : pc[v] \notin Holding
      BY <2>1 DEF OneWriter, LockExclusive
    <3> QED
      BY <2>1, <3>1 DEF OneWriter, LockExclusive, Goto, TypeOK, Procs
  <2>2. CASE Unlock(w)
    <3>1. \A v \in Writers : pc[v] \in Holding => v = w
      BY <2>2 DEF OneWriter, Unlock, Holding
    <3>2. pc'[w] \in {"ok", "error", "refused"} /\ \A v \in Writers : v # w => pc'[v] = pc[v]
      BY <2>2 DEF Unlock, Goto, TypeOK, Procs
    <3> QED
      BY <3>1, <3>2 DEF OneWriter, Holding
  <2>3. CASE Encode(w) \/ Open(w) \/ CheckTail(w) \/ WriteFails(w) \/ Sync(w)
    <3>1. pc[w] \in Holding \/ pc'[w] \notin Holding
      BY <2>3 DEF Holding, Encode, Open, CheckTail, WriteFails, Sync, Goto, TypeOK, Procs
    <3>2. excl' = excl /\ \A v \in Writers : v # w => pc'[v] = pc[v]
      BY <2>3 DEF Encode, Open, CheckTail, WriteFails, Sync, Goto, TypeOK, Procs, locks
    <3> QED
      BY <3>1, <3>2 DEF OneWriter
  <2>4. CASE WriteBytes(w)
    BY <2>4 DEF WriteBytes, OneWriter, locks
  <2>5. CASE WriteNewline(w)
    <3>1. excl' = excl /\ pc[w] \in Holding /\ \A v \in Writers : v # w => pc'[v] = pc[v]
      BY <2>5 DEF WriteNewline, Goto, TypeOK, Procs, locks, Holding
    <3> QED
      BY <3>1 DEF OneWriter
  <2> QED
    BY <1>1, <2>1, <2>2, <2>3, <2>4, <2>5 DEF AppendStep
<1>2. ASSUME NEW r \in Readers, ReadStep(r) PROVE OneWriter'
  <2>1. excl' = excl /\ \A v \in Writers : pc'[v] = pc[v]
    BY <1>2 DEF ReadStep, OpenRead, LockShared, ReadLine, ReadEnd, ReadFails, UnlockShared,
       Goto, locks, TypeOK, Procs
  <2> QED
    BY <2>1 DEF OneWriter
<1>3. ASSUME NEW p \in Procs, LockFails(p) \/ Kill(p) PROVE OneWriter'
  <2>1. pc'[p] \in {"dead", "error"} /\ \A v \in Writers : v # p => pc'[v] = pc[v]
    BY <1>3 DEF LockFails, Kill, Goto, TypeOK, Procs
  <2> QED
    BY <1>3, <2>1 DEF OneWriter, LockFails, Kill, Holding, locks
<1>4. CASE PowerLoss
  BY <1>4 DEF PowerLoss, OneWriter, Holding, Ended, Procs
<1>5. CASE RepairTail \/ UNCHANGED vars
  BY <1>5 DEF RepairTail, vars, locks, OneWriter
<1> QED
  BY <1>1, <1>2, <1>3, <1>4, <1>5 DEF Next

(* A writer in the middle of its append is alone with the file. *)
LEMMA Alone ==
  ASSUME TypeOK, OneWriter, NEW w \in Writers, pc[w] \in Holding
  PROVE  \A v \in Writers : pc[v] \in Holding => v = w
BY DEF OneWriter

LEMMA OwnLinesStep ==
  ASSUME TypeOK, OneWriter, OwnLinesLast, NeverCorrupt, [Next]_vars
  PROVE  OwnLinesLast' /\ NeverCorrupt'
<1> USE JournalAssumption
<1>0. lines \in Seq(Line) /\ Len(lines) \in Nat /\ wrote \in [Writers -> Nat]
  BY DEF TypeOK
<1>1. ASSUME NEW w \in Writers, AppendStep(w) PROVE OwnLinesLast' /\ NeverCorrupt'
  <2>1. CASE Encode(w) \/ Open(w) \/ LockExclusive(w) \/ CheckTail(w) \/ WriteFails(w)
              \/ Sync(w) \/ Unlock(w)
    <3>1. UNCHANGED <<lines, tail, wrote>> /\ \A v \in Writers : v # w => pc'[v] = pc[v]
      BY <2>1 DEF Encode, Open, LockExclusive, CheckTail, WriteFails, Sync, Unlock, Goto,
         TypeOK, Procs, file
    <3>2. pc'[w] \notin {"start", "sync"} /\ (pc'[w] \in {"open", "lock", "check"} =>
             pc[w] \in {"start", "open", "lock"})
      BY <2>1 DEF Encode, Open, LockExclusive, CheckTail, WriteFails, Sync, Unlock, Goto,
         TypeOK, Procs
    <3>3. pc'[w] = "write" => pc[w] = "check" /\ tail = None
      BY <2>1 DEF Encode, Open, LockExclusive, CheckTail, WriteFails, Sync, Unlock, Goto,
         TypeOK, Procs
    <3> QED
      BY <1>0, <3>1, <3>2, <3>3 DEF OwnLinesLast, NeverCorrupt
  <2>2. CASE WriteBytes(w)
    <3>1. \A v \in Writers : v # w => pc[v] \notin {"write", "sync"}
      BY <2>2, Alone DEF WriteBytes, Holding
    <3> QED
      BY <2>2, <3>1 DEF WriteBytes, OwnLinesLast, NeverCorrupt
  <2>3. CASE WriteNewline(w)
    <3>1. \A v \in Writers : v # w => pc[v] \notin {"write", "sync"} /\ pc'[v] = pc[v]
      BY <2>3, Alone DEF WriteNewline, Holding, Goto, TypeOK, Procs
    <3>2. tail = <<w, wrote[w] + 1>>
      BY <2>3 DEF WriteNewline, OwnLinesLast
    <3>3. lines' = Append(lines, <<w, wrote[w] + 1>>)
      BY <2>3, <3>2 DEF WriteNewline
    <3>4. wrote' = [wrote EXCEPT ![w] = wrote[w] + 1] /\ tail' = None
      BY <2>3 DEF WriteNewline
    <3>5. Len(lines') = Len(lines) + 1 /\ lines'[Len(lines) + 1] = <<w, wrote[w] + 1>>
          /\ \A i \in 1 .. Len(lines) : lines'[i] = lines[i]
      BY <1>0, <3>2, <3>3 DEF TypeOK
    <3>6. NeverCorrupt'
      <4>1. <<w, wrote[w] + 1>> # Corrupt
        BY DEF Corrupt
      <4> SUFFICES ASSUME NEW j \in 1 .. Len(lines') PROVE lines'[j] # Corrupt
        BY DEF NeverCorrupt, Corrupt
      <4>2. j \in 1 .. Len(lines) \/ j = Len(lines) + 1
        BY <1>0, <3>5
      <4> QED
        BY <3>5, <4>1, <4>2 DEF NeverCorrupt
    <3>7. wrote[w] <= Len(lines)
          /\ \A i \in 1 .. wrote[w] : lines[Len(lines) - wrote[w] + i] = <<w, i>>
      BY <2>3 DEF WriteNewline, OwnLinesLast
    <3>8. wrote'[w] = wrote[w] + 1 /\ \A v \in Writers : v # w => wrote'[v] = wrote[v]
      BY <1>0, <3>4
    <3>9. wrote'[w] <= Len(lines')
          /\ \A i \in 1 .. wrote'[w] : lines'[Len(lines') - wrote'[w] + i] = <<w, i>>
      <4> SUFFICES ASSUME NEW i \in 1 .. wrote'[w]
                   PROVE  lines'[Len(lines') - wrote'[w] + i] = <<w, i>>
        BY <1>0, <3>5, <3>7, <3>8
      <4>0. wrote[w] \in Nat /\ i \in 1 .. wrote[w] + 1
        BY <1>0, <3>8
      <4>1. Len(lines') - wrote'[w] + i = Len(lines) - wrote[w] + i
        <5>1. Len(lines') - wrote'[w] + i = (Len(lines) + 1) - (wrote[w] + 1) + i
          BY <3>5, <3>8
        <5> QED
          BY <1>0, <4>0, <5>1
      <4>2. CASE i = wrote[w] + 1
        BY <1>0, <3>5, <4>1, <4>2
      <4>3. CASE i # wrote[w] + 1
        <5>1. i \in 1 .. wrote[w] /\ Len(lines) - wrote[w] + i \in 1 .. Len(lines)
          BY <1>0, <3>7, <4>0, <4>3
        <5> QED
          BY <3>5, <3>7, <4>1, <5>1
      <4> QED
        BY <4>2, <4>3
    <3>10. pc'[w] \in {"write", "sync"} /\ (pc'[w] = "sync" => wrote'[w] = Size[w])
      BY <2>3, <3>8 DEF WriteNewline, Goto, TypeOK, Procs
    <3> QED
      BY <3>1, <3>4, <3>6, <3>8, <3>9, <3>10 DEF OwnLinesLast
  <2> QED
    BY <1>1, <2>1, <2>2, <2>3 DEF AppendStep
<1>2. ASSUME NEW r \in Readers, ReadStep(r) PROVE OwnLinesLast' /\ NeverCorrupt'
  <2>1. UNCHANGED <<lines, tail, wrote>> /\ \A v \in Writers : pc'[v] = pc[v]
    BY <1>2 DEF ReadStep, OpenRead, LockShared, ReadLine, ReadEnd, ReadFails, UnlockShared,
       Goto, file, TypeOK, Procs
  <2> QED
    BY <2>1 DEF OwnLinesLast, NeverCorrupt
<1>3. ASSUME NEW p \in Procs, LockFails(p) \/ Kill(p) PROVE OwnLinesLast' /\ NeverCorrupt'
  <2>1. UNCHANGED <<lines, tail, wrote>> /\ pc'[p] \in {"dead", "error"}
        /\ \A v \in Writers : v # p => pc'[v] = pc[v]
    BY <1>3 DEF LockFails, Kill, Goto, file, TypeOK, Procs
  <2> QED
    BY <2>1 DEF OwnLinesLast, NeverCorrupt
<1>4. CASE PowerLoss
  <2>1. \A v \in Writers : pc'[v] \in Ended
    BY <1>4 DEF PowerLoss, Procs, Ended
  <2>2. PICK j \in synced .. Len(lines) : lines' = SubSeq(lines, 1, j)
    BY <1>4 DEF PowerLoss
  <2>3. NeverCorrupt'
    BY <1>0, <2>2 DEF NeverCorrupt, TypeOK
  <2> QED
    BY <2>1, <2>3 DEF OwnLinesLast, Ended
<1>5. CASE RepairTail
  BY <1>5 DEF RepairTail, OwnLinesLast, NeverCorrupt
<1>6. CASE UNCHANGED vars
  BY <1>6 DEF vars, file, OwnLinesLast, NeverCorrupt
<1> QED
  BY <1>1, <1>2, <1>3, <1>4, <1>5, <1>6 DEF Next
-----------------------------------------------------------------------------
LEMMA DurableStep ==
  ASSUME TypeOK, [Next]_vars, NEW w \in Writers, Durable(w)
  PROVE  Durable(w)'
<1>1. PICK b \in 0 .. synced - Size[w] : \A i \in 1 .. Size[w] : lines[b + i] = <<w, i>>
  BY DEF Durable
<1>2. Size[w] \in Nat /\ synced \in Nat /\ synced' \in Nat
  BY TypeStep, JournalAssumption DEF TypeOK
<1>3. synced <= synced' /\ \A i \in 1 .. synced : lines'[i] = lines[i]
  BY FileStep, SyncedStep
<1>4. b \in 0 .. synced' - Size[w]
  BY <1>2, <1>3
<1>5. \A i \in 1 .. Size[w] : lines'[b + i] = <<w, i>>
  <2> SUFFICES ASSUME NEW i \in 1 .. Size[w] PROVE lines'[b + i] = <<w, i>>
    OBVIOUS
  <2>1. b + i \in 1 .. synced
    BY <1>2
  <2> QED
    BY <1>1, <1>3, <2>1
<1> QED
  BY <1>4, <1>5 DEF Durable

LEMMA DecidedStep ==
  ASSUME TypeOK, OwnLinesLast, Decided, [Next]_vars
  PROVE  Decided'
<1> USE JournalAssumption
<1>1. ASSUME NEW w \in Writers, AppendStep(w) PROVE Decided'
  <2>1. \A v \in Writers : v # w => pc'[v] = pc[v]
    BY <1>1 DEF AppendStep, Encode, Open, LockExclusive, CheckTail, WriteBytes, WriteNewline,
       WriteFails, Sync, Unlock, Goto, TypeOK, Procs
  <2>2. CASE pc[w] \in {"ok", "unlock-ok"}
    BY <2>1, <2>2, DurableStep DEF Decided
  <2>3. CASE Encode(w) /\ Size[w] = 0
    <3>1. 0 \in 0 .. synced' - Size[w] /\ \A i \in 1 .. Size[w] : lines'[0 + i] = <<w, i>>
      BY <2>3 DEF Encode, file, TypeOK
    <3>2. Durable(w)'
      BY <3>1 DEF Durable
    <3> QED
      BY <2>1, <3>2, DurableStep DEF Decided
  <2>4. CASE Sync(w) /\ synced' = Len(lines)
    <3>1. lines' = lines /\ Len(lines) \in Nat /\ Size[w] \in Nat
      BY <2>4 DEF Sync, TypeOK
    <3>2. Size[w] <= Len(lines)
          /\ \A i \in 1 .. Size[w] : lines[Len(lines) - Size[w] + i] = <<w, i>>
      BY <2>4 DEF Sync, OwnLinesLast
    <3>3. Len(lines) - Size[w] \in 0 .. synced' - Size[w]
      BY <2>4, <3>1, <3>2
    <3>4. Durable(w)'
      BY <3>1, <3>2, <3>3 DEF Durable
    <3> QED
      BY <2>1, <3>4, DurableStep DEF Decided
  <2>5. CASE pc'[w] \notin {"ok", "unlock-ok"}
    BY <2>1, <2>5, DurableStep DEF Decided
  <2>6. pc[w] \in {"ok", "unlock-ok"} \/ (Encode(w) /\ Size[w] = 0)
        \/ (Sync(w) /\ synced' = Len(lines)) \/ pc'[w] \notin {"ok", "unlock-ok"}
    BY <1>1 DEF AppendStep, Encode, Open, LockExclusive, CheckTail, WriteBytes, WriteNewline,
       WriteFails, Sync, Unlock, Goto, TypeOK, Procs
  <2> QED
    BY <2>2, <2>3, <2>4, <2>5, <2>6
<1>2. CASE \A v \in Writers : pc'[v] \in {"ok", "unlock-ok"} => pc[v] = pc'[v]
  BY <1>2, DurableStep DEF Decided
<1>3. ASSUME NEW r \in Readers, ReadStep(r) PROVE \A v \in Writers : pc'[v] = pc[v]
  BY <1>3 DEF ReadStep, OpenRead, LockShared, ReadLine, ReadEnd, ReadFails, UnlockShared,
     Goto, TypeOK, Procs
<1>4. ASSUME NEW p \in Procs, LockFails(p) \/ Kill(p)
      PROVE  pc'[p] \in {"dead", "error"} /\ \A v \in Writers : v # p => pc'[v] = pc[v]
  BY <1>4 DEF LockFails, Kill, Goto, TypeOK, Procs
<1>5. ASSUME PowerLoss PROVE \A v \in Writers : pc'[v] \in {pc[v], "dead"}
  BY <1>5 DEF PowerLoss, Procs
<1>6. ASSUME RepairTail \/ UNCHANGED vars PROVE pc' = pc
  BY <1>6 DEF RepairTail, vars
<1> QED
  BY <1>1, <1>2, <1>3, <1>4, <1>5, <1>6 DEF Next

LEMMA EventsLeftStep ==
  ASSUME TypeOK, OwnLinesLast, EventsLeft, [Next]_vars
  PROVE  EventsLeft'
<1> USE JournalAssumption
<1>1. ASSUME NEW w \in Writers, AppendStep(w) PROVE EventsLeft'
  <2>1. \A v \in Writers : v # w => pc'[v] = pc[v] /\ wrote'[v] = wrote[v]
    BY <1>1 DEF AppendStep, Encode, Open, LockExclusive, CheckTail, WriteBytes, WriteNewline,
       WriteFails, Sync, Unlock, Goto, TypeOK, Procs
  <2>2. CASE WriteNewline(w)
    <3>1. wrote'[w] = wrote[w] + 1 /\ wrote[w] \in Nat /\ Size[w] \in Nat
          /\ wrote[w] < Size[w]
      BY <2>2 DEF WriteNewline, TypeOK
    <3>2. pc'[w] = IF wrote[w] + 1 = Size[w] THEN "sync" ELSE "write"
      BY <2>2 DEF WriteNewline, Goto, TypeOK, Procs
    <3> QED
      BY <2>1, <3>1, <3>2 DEF EventsLeft
  <2>3. CASE ~WriteNewline(w)
    <3>1. wrote'[w] = wrote[w]
          /\ (pc'[w] \in {"open", "lock", "check", "write", "sync"} =>
                 Size[w] > 0 \/ pc[w] \in {"open", "lock", "check", "write", "sync"})
          /\ (pc'[w] = "write" => pc[w] \in {"check", "write"})
      BY <1>1, <2>3 DEF AppendStep, Encode, Open, LockExclusive, CheckTail, WriteBytes,
         WriteFails, Sync, Unlock, Goto, TypeOK, Procs
    <3> QED
      BY <2>1, <3>1 DEF EventsLeft, OwnLinesLast
  <2> QED
    BY <2>2, <2>3
<1>2. ASSUME NEW r \in Readers, ReadStep(r)
      PROVE  wrote' = wrote /\ \A v \in Writers : pc'[v] = pc[v]
  BY <1>2 DEF ReadStep, OpenRead, LockShared, ReadLine, ReadEnd, ReadFails, UnlockShared,
     Goto, TypeOK, Procs
<1>3. ASSUME NEW p \in Procs, LockFails(p) \/ Kill(p)
      PROVE  wrote' = wrote /\ pc'[p] \in {"dead", "error"} /\ \A v \in Writers : v # p => pc'[v] = pc[v]
  BY <1>3 DEF LockFails, Kill, Goto, TypeOK, Procs
<1>4. ASSUME PowerLoss PROVE wrote' = wrote /\ \A v \in Writers : pc'[v] \in Ended
  BY <1>4 DEF PowerLoss, Procs, Ended
<1>5. ASSUME RepairTail \/ UNCHANGED vars PROVE wrote' = wrote /\ pc' = pc
  BY <1>5 DEF RepairTail, vars
<1> QED
  BY <1>1, <1>2, <1>3, <1>4, <1>5 DEF Next, EventsLeft, Ended

LEMMA JInvInit == Init => JInv
<1> SUFFICES ASSUME Init PROVE JInv
  OBVIOUS
<1>1. \A w \in Writers : pc[w] = "start" /\ wrote[w] = 0
  BY DEF Init, Procs
<1>2. NeverCorrupt
  BY DEF Init, NeverCorrupt
<1> QED
  BY <1>1, <1>2, TypeInit DEF JInv, OneWriter, OwnLinesLast, Decided, EventsLeft, Holding

LEMMA JInvStep == JInv /\ [Next]_vars => JInv'
BY TypeStep, OneWriterStep, OwnLinesStep, DecidedStep, EventsLeftStep DEF JInv

THEOREM Inductive == Spec => []JInv
BY JInvInit, JInvStep, PTL DEF Spec

(* The batch of an append that returned nil is in the file for good: it    *)
(* survives every kill and every power loss.                               *)
THEOREM AppendIsDurable == Spec => []AckedIsDurable
<1>1. JInv => AckedIsDurable
  BY DEF JInv, Decided, AckedIsDurable, Durable
<1> QED
  BY <1>1, Inductive, PTL

(* No interleaving and no failure leaves a line that ReadAll cannot decode. *)
THEOREM LinesStayDecodable == Spec => []NeverCorrupt
<1>1. JInv => NeverCorrupt
  BY DEF JInv
<1> QED
  BY <1>1, Inductive, PTL
-----------------------------------------------------------------------------
(***************************************************************************)
(* What several appends and reads of one journal may rely on: batches stay *)
(* together, a read sees whole ones, an incomplete line has a culprit, and *)
(* the file implements the log of whole batches of EventLog.               *)
(***************************************************************************)

(* A line of w is one that w has completed. *)
Counted ==
    \A j \in 1 .. Len(lines) :
        /\ lines[j][1] \in Writers
        /\ lines[j] = <<lines[j][1], lines[j][2]>>
        /\ lines[j][2] \in 1 .. wrote[lines[j][1]]

OrderInv == JInv /\ Counted /\ BatchesDontInterleave
-----------------------------------------------------------------------------
(* How the file and the counters move together: either a writer completes  *)
(* the next line of its batch, behind the lines it already has there, or   *)
(* the lines stay or lose their end, and nobody counts.                    *)
Completes(w) ==
    /\ pc[w] = "write" /\ wrote[w] < Size[w] /\ tail = <<w, wrote[w] + 1>>
    /\ lines' = Append(lines, <<w, wrote[w] + 1>>)
    /\ tail' = None
    /\ wrote' = [wrote EXCEPT ![w] = @ + 1]

LEMMA LineStep ==
  ASSUME JInv, [Next]_vars
  PROVE  \/ \E w \in Writers : Completes(w)
         \/ /\ wrote' = wrote
            /\ \E j \in synced .. Len(lines) : lines' = SubSeq(lines, 1, j)
<1> USE JournalAssumption
<1>0. /\ lines \in Seq(Line) /\ Len(lines) \in Nat /\ synced \in 0 .. Len(lines)
      /\ SubSeq(lines, 1, Len(lines)) = lines
  BY SubSeqFull DEF JInv, TypeOK
<1>1. ASSUME NEW w \in Writers, AppendStep(w), ~WriteNewline(w) PROVE wrote' = wrote /\ lines' = lines
  BY <1>1 DEF AppendStep, Encode, Open, LockExclusive, CheckTail,
     WriteBytes, WriteFails, Sync, Unlock, file
<1>2. ASSUME NEW w \in Writers, WriteNewline(w) PROVE Completes(w)
  <2>1. tail = <<w, wrote[w] + 1>>
    BY <1>2 DEF WriteNewline, JInv, OwnLinesLast
  <2> QED
    BY <1>2, <2>1 DEF WriteNewline, Completes
<1>3. ASSUME NEW r \in Readers, ReadStep(r) PROVE wrote' = wrote /\ lines' = lines
  BY <1>3 DEF ReadStep, OpenRead, LockShared, ReadLine, ReadEnd, ReadFails, UnlockShared, file
<1>4. ASSUME NEW p \in Procs, LockFails(p) \/ Kill(p) PROVE wrote' = wrote /\ lines' = lines
  BY <1>4 DEF LockFails, Kill, file
<1>5. ASSUME PowerLoss PROVE wrote' = wrote /\ \E j \in synced .. Len(lines) : lines' = SubSeq(lines, 1, j)
  BY <1>5 DEF PowerLoss
<1>6. ASSUME RepairTail \/ UNCHANGED vars PROVE wrote' = wrote /\ lines' = lines
  BY <1>6 DEF RepairTail, vars, file
<1>7. lines' = lines => \E j \in synced .. Len(lines) : lines' = SubSeq(lines, 1, j)
  <2>1. Len(lines) \in synced .. Len(lines)
    BY <1>0
  <2> QED
    BY ONLY <1>0, <2>1
<1> QED
  BY <1>1, <1>2, <1>3, <1>4, <1>5, <1>6, <1>7 DEF Next

LEMMA OrderStep ==
  ASSUME OrderInv, [Next]_vars
  PROVE  Counted' /\ BatchesDontInterleave'
<1> USE JournalAssumption
<1>0. /\ lines \in Seq(Line) /\ Len(lines) \in Nat /\ synced \in 0 .. Len(lines)
      /\ wrote \in [Writers -> Nat]
  BY DEF OrderInv, JInv, TypeOK
<1>1. ASSUME NEW w \in Writers, Completes(w) PROVE Counted' /\ BatchesDontInterleave'
  <2> DEFINE n == wrote[w]
             m == Len(lines)
  <2>1. /\ n \in Nat /\ <<w, n + 1>> \in Line
    BY <1>0, <1>1 DEF Completes, Line, Event
  <2>2. /\ Len(lines') = m + 1 /\ lines'[m + 1] = <<w, n + 1>>
        /\ \A j \in 1 .. m : lines'[j] = lines[j]
    BY <1>0, <1>1, <2>1, AppendProperties DEF Completes
  <2>3. wrote'[w] = n + 1 /\ \A v \in Writers : v # w => wrote'[v] = wrote[v]
    BY <1>0, <1>1 DEF Completes
  <2>4. \A v \in Writers : wrote[v] \in Nat /\ wrote'[v] \in Nat /\ wrote[v] <= wrote'[v]
    BY <1>0, <2>1, <2>3
  <2>5. Counted'
    <3> SUFFICES ASSUME NEW j \in 1 .. m + 1
                 PROVE  /\ lines'[j][1] \in Writers
                        /\ lines'[j] = <<lines'[j][1], lines'[j][2]>>
                        /\ lines'[j][2] \in 1 .. wrote'[lines'[j][1]]
      BY <2>2 DEF Counted
    <3>1. CASE j = m + 1
      BY <2>1, <2>2, <2>3, <3>1
    <3>2. CASE j # m + 1
      <4>1. j \in 1 .. m /\ lines'[j] = lines[j]
        BY <1>0, <2>2, <3>2
      <4> QED
        BY <2>4, <4>1 DEF OrderInv, Counted
    <3> QED
      BY <3>1, <3>2
  <2>6. \A j \in 1 .. m : lines[j] # <<w, n + 1>>
    BY <2>1 DEF OrderInv, Counted
  <2>7. n + 1 > 1 => m \in 1 .. m /\ lines[m] = <<w, n>>
    <3>1. n <= m /\ \A i \in 1 .. n : lines[m - n + i] = <<w, i>>
      BY <1>1 DEF Completes, OrderInv, JInv, OwnLinesLast
    <3> HAVE n + 1 > 1
    <3>2. n \in 1 .. n /\ m - n + n = m
      BY <1>0, <2>1
    <3> QED
      BY <1>0, <2>1, <3>1, <3>2
  <2>8. BatchesDontInterleave'
    <3> SUFFICES ASSUME NEW j \in 1 .. m + 1, NEW k \in 1 .. m + 1
                 PROVE  /\ lines'[j] = lines'[k] => j = k
                        /\ lines'[j][2] > 1 =>
                              j > 1 /\ lines'[j - 1] = <<lines'[j][1], lines'[j][2] - 1>>
      BY <2>2 DEF BatchesDontInterleave
    <3>1. lines'[j] = lines'[k] => j = k
      <4>1. j \in 1 .. m \/ j = m + 1
        BY <1>0
      <4>2. k \in 1 .. m \/ k = m + 1
        BY <1>0
      <4> QED
        BY <2>2, <2>6, <4>1, <4>2 DEF OrderInv, BatchesDontInterleave
    <3>2. CASE j = m + 1
      <4>1. lines'[j][1] = w /\ lines'[j][2] = n + 1
        BY <2>2, <3>2
      <4>2. n + 1 > 1 => j > 1 /\ lines'[j - 1] = <<w, n>>
        BY <1>0, <2>1, <2>2, <2>7, <3>2
      <4> QED
        BY <2>1, <3>1, <4>1, <4>2
    <3>3. CASE j # m + 1
      <4>1. j \in 1 .. m /\ lines'[j] = lines[j]
        BY <1>0, <2>2, <3>3
      <4>2. lines[j][2] > 1 => j > 1 /\ lines[j - 1] = <<lines[j][1], lines[j][2] - 1>>
        BY <4>1 DEF OrderInv, BatchesDontInterleave
      <4>3. j > 1 => lines'[j - 1] = lines[j - 1]
        BY <1>0, <2>2, <4>1
      <4> QED
        BY <3>1, <4>1, <4>2, <4>3
    <3> QED
      BY <3>2, <3>3
  <2> QED
    BY <2>5, <2>8
<1>2. ASSUME wrote' = wrote, NEW k \in synced .. Len(lines), lines' = SubSeq(lines, 1, k)
      PROVE  Counted' /\ BatchesDontInterleave'
  <2>1. Len(lines') = k /\ k <= Len(lines) /\ \A j \in 1 .. k : lines'[j] = lines[j]
    BY <1>0, <1>2
  <2>2. \A j \in 1 .. k : j \in 1 .. Len(lines) /\ (j > 1 => j - 1 \in 1 .. k)
    BY <1>0, <2>1
  <2>3. Counted'
    BY <1>2, <2>1, <2>2 DEF OrderInv, Counted
  <2>4. BatchesDontInterleave'
    BY <2>1, <2>2 DEF OrderInv, BatchesDontInterleave
  <2> QED
    BY <2>3, <2>4
<1> QED
  BY <1>1, <1>2, LineStep DEF OrderInv

THEOREM OrderAlways == Spec => []OrderInv
<1>1. Init => OrderInv
  BY JInvInit DEF Init, OrderInv, Counted, BatchesDontInterleave
<1>2. OrderInv /\ [Next]_vars => OrderInv'
  BY OrderStep, JInvStep DEF OrderInv
<1> QED
  BY <1>1, <1>2, PTL DEF Spec

(* The events of one append are together and in order in the file, each    *)
(* once, whoever else appends and whoever is killed.                       *)
THEOREM BatchesStayTogether == Spec => []BatchesDontInterleave
<1>1. OrderInv => BatchesDontInterleave
  BY DEF OrderInv
<1> QED
  BY <1>1, OrderAlways, PTL
-----------------------------------------------------------------------------
(* Readers and writers exclude each other: a reader in the locked part of  *)
(* ReadAll has the shared lock, and then nobody has the exclusive one.     *)
Reading == {"read", "unlock-ok", "unlock-error"}

Excluded ==
    /\ \A r \in Readers : pc[r] \in Reading => r \in shared
    /\ \A w \in Writers : pc[w] # "read"
    /\ shared # {} => excl = None

(* Bytes that no sync covers, or an incomplete line, have an author: a     *)
(* writer at work, or one that failed or died.                             *)
Author(w) == pc[w] \in {"write", "sync", "unlock-error", "error", "dead"}
Authored ==
    tail # None \/ synced < Len(lines) => \E w \in Writers : Author(w)

(* A reader that saw an incomplete line can name a writer that failed.     *)
Blamed ==
    (\E r \in Readers : partial[r]) => \E w \in Writers : pc[w] \in {"error", "dead"}

(* What a reader has of the batch of w: all of it, or nothing, unless that *)
(* append has failed.                                                      *)
Of(r, w) == {j \in 1 .. Len(view[r]) : view[r][j][1] = w}
WholeOrNone(r, w) ==
    \/ Cardinality(Of(r, w)) \in {0, Size[w]}
    \/ pc[w] \in Ended \ {"ok"}

(* While it reads, a reader has the beginning of the file; once it is done *)
(* it has whole batches.                                                   *)
ViewsAreWhole ==
    \A r \in Readers :
        /\ pc[r] \in {"start", "lock"} => view[r] = <<>>
        /\ pc[r] = "read" =>
              /\ Len(view[r]) <= Len(lines)
              /\ \A j \in 1 .. Len(view[r]) : view[r][j] = lines[j]
        /\ pc[r] \in {"unlock-ok", "ok"} => \A w \in Writers : WholeOrNone(r, w)

ReadInv == OrderInv /\ Excluded /\ Authored /\ Blamed /\ ViewsAreWhole
-----------------------------------------------------------------------------
(* What a step leaves to the processes that do not take it.                *)
LEMMA Others ==
  ASSUME TypeOK, NEW p \in Procs,
         (p \in Writers /\ AppendStep(p)) \/ (p \in Readers /\ ReadStep(p)) \/ LockFails(p) \/ Kill(p)
  PROVE  \A q \in Procs : q # p => pc'[q] = pc[q]
BY DEF AppendStep, Encode, Open, LockExclusive, CheckTail, WriteBytes, WriteNewline,
   WriteFails, Sync, Unlock, ReadStep, OpenRead, LockShared, ReadLine, ReadEnd, ReadFails,
   UnlockShared, LockFails, Kill, Goto, TypeOK

LEMMA ExcludedStep ==
  ASSUME TypeOK, OneWriter, Excluded, [Next]_vars
  PROVE  Excluded'
<1> USE JournalAssumption
<1>1. ASSUME NEW w \in Writers, AppendStep(w) PROVE Excluded'
  <2>1. \A q \in Procs : q # w => pc'[q] = pc[q]
    BY <1>1, Others DEF Procs
  <2>2. shared' = shared /\ pc'[w] # "read"
    BY <1>1 DEF AppendStep, Encode, Open, LockExclusive, CheckTail, WriteBytes, WriteNewline,
       WriteFails, Sync, Unlock, Goto, TypeOK, Procs, locks, Excluded
  <2>3. excl' = excl \/ shared = {} \/ excl' = None
    BY <1>1 DEF AppendStep, Encode, Open, LockExclusive, CheckTail, WriteBytes, WriteNewline,
       WriteFails, Sync, Unlock, locks
  <2> QED
    BY <2>1, <2>2, <2>3 DEF Excluded, Procs
<1>2. ASSUME NEW r \in Readers, ReadStep(r) PROVE Excluded'
  <2>1. \A q \in Procs : q # r => pc'[q] = pc[q]
    BY <1>2, Others DEF Procs
  <2>2. excl' = excl
        /\ (shared' = shared \/ (shared' = shared \cup {r} /\ excl = None) \/ shared' = shared \ {r})
    BY <1>2 DEF ReadStep, OpenRead, LockShared, ReadLine, ReadEnd, ReadFails, UnlockShared, locks
  <2>3. pc'[r] \in Reading => r \in shared'
    BY <1>2 DEF ReadStep, OpenRead, LockShared, ReadLine, ReadEnd, ReadFails, UnlockShared,
       locks, Goto, TypeOK, Procs, Excluded, Reading
  <2> QED
    BY <2>1, <2>2, <2>3 DEF Excluded, Procs, Reading
<1>3. ASSUME NEW p \in Procs, LockFails(p) \/ Kill(p) PROVE Excluded'
  <2>1. \A q \in Procs : q # p => pc'[q] = pc[q]
    BY <1>3, Others
  <2>2. pc'[p] \in {"dead", "error"} /\ excl' \in {excl, None} /\ shared \ {p} \subseteq shared'
        /\ shared' \subseteq shared
    BY <1>3 DEF LockFails, Kill, Goto, locks, TypeOK
  <2> QED
    BY <2>1, <2>2 DEF Excluded, Procs, Reading
<1>4. CASE PowerLoss
  BY <1>4 DEF PowerLoss, Excluded, Ended, Procs, Reading
<1>5. CASE RepairTail \/ UNCHANGED vars
  BY <1>5 DEF RepairTail, vars, locks, Excluded
<1> QED
  BY <1>1, <1>2, <1>3, <1>4, <1>5 DEF Next

LEMMA AuthoredStep ==
  ASSUME TypeOK, OwnLinesLast, Authored, [Next]_vars
  PROVE  Authored'
<1> USE JournalAssumption
<1>0. /\ lines \in Seq(Line) /\ Len(lines) \in Nat /\ synced \in 0 .. Len(lines)
  BY DEF TypeOK
<1>1. ASSUME NEW w \in Writers, AppendStep(w) PROVE Authored'
  <2>1. \A v \in Writers : v # w => pc'[v] = pc[v]
    BY <1>1, Others DEF Procs
  <2>2. CASE Author(w)'
    BY <2>2 DEF Authored
  <2>3. CASE Sync(w) /\ synced' = Len(lines)
    BY <1>0, <2>3 DEF Sync, OwnLinesLast, Authored
  <2>4. CASE ~Author(w)' /\ ~(Sync(w) /\ synced' = Len(lines))
    <3>1. UNCHANGED <<tail, synced, lines>> /\ ~Author(w)
      BY <1>1, <2>4 DEF AppendStep, Encode, Open, LockExclusive, CheckTail, WriteBytes,
         WriteNewline, WriteFails, Sync, Unlock, Goto, TypeOK, Procs, file, Author
    <3> QED
      BY <2>1, <3>1 DEF Authored, Author
  <2> QED
    BY <2>2, <2>3, <2>4
<1>2. ASSUME NEW r \in Readers, ReadStep(r) PROVE Authored'
  <2>1. \A v \in Writers : pc'[v] = pc[v]
    BY <1>2, Others DEF Procs
  <2>2. UNCHANGED file
    BY <1>2 DEF ReadStep, OpenRead, LockShared, ReadLine, ReadEnd, ReadFails, UnlockShared
  <2> QED
    BY <2>1, <2>2 DEF Authored, Author, file
<1>3. ASSUME NEW p \in Procs, LockFails(p) \/ Kill(p) PROVE Authored'
  <2>1. \A q \in Procs : q # p => pc'[q] = pc[q]
    BY <1>3, Others
  <2>2. pc'[p] \in {"dead", "error"} /\ UNCHANGED file
    BY <1>3 DEF LockFails, Kill, Goto, TypeOK
  <2> QED
    BY <2>1, <2>2 DEF Authored, Author, file, Procs
<1>4. CASE PowerLoss
  <2>1. tail' # None \/ synced' < Len(lines') => tail # None \/ synced < Len(lines)
    BY <1>0, <1>4 DEF PowerLoss
  <2>2. \A w \in Writers : Author(w) => Author(w)'
    BY <1>4 DEF PowerLoss, Author, Ended, Procs
  <2> QED
    BY <2>1, <2>2 DEF Authored
<1>5. CASE RepairTail \/ UNCHANGED vars
  BY <1>5 DEF RepairTail, vars, file, Authored, Author
<1> QED
  BY <1>1, <1>2, <1>3, <1>4, <1>5 DEF Next

(* A call that came to an end keeps its result.                            *)
LEMMA EndedStays ==
  ASSUME TypeOK, [Next]_vars, NEW p \in Procs, pc[p] \in Ended
  PROVE  pc'[p] = pc[p]
<1> USE JournalAssumption
<1>1. ASSUME NEW q \in Procs,
             (q \in Writers /\ AppendStep(q)) \/ (q \in Readers /\ ReadStep(q)) \/ LockFails(q) \/ Kill(q)
      PROVE  pc[q] \notin Ended \/ pc' = pc
  BY <1>1 DEF AppendStep, Encode, Open, LockExclusive, CheckTail, WriteBytes, WriteNewline,
     WriteFails, Sync, Unlock, ReadStep, OpenRead, LockShared, ReadLine, ReadEnd, ReadFails,
     UnlockShared, LockFails, Kill, Ended
<1>2. PowerLoss => pc'[p] = pc[p]
  BY DEF PowerLoss
<1>3. RepairTail \/ UNCHANGED vars => pc' = pc
  BY DEF RepairTail, vars
<1> QED
  BY <1>1, <1>2, <1>3, Others DEF Next, Procs

LEMMA BlamedStep ==
  ASSUME TypeOK, OneWriter, Excluded, Authored, Blamed, [Next]_vars
  PROVE  Blamed'
<1> USE JournalAssumption
<1>1. (\E w \in Writers : pc[w] \in {"error", "dead"}) => Blamed'
  BY EndedStays DEF Blamed, Ended, Procs
<1>2. ASSUME NEW r \in Readers, ReadEnd(r), tail # None PROVE Blamed'
  <2>1. excl = None
    BY <1>2 DEF ReadEnd, Excluded, Reading
  <2>2. PICK w \in Writers : Author(w)
    BY <1>2 DEF Authored
  <2>3. pc[w] \notin Holding
    BY <2>1, <2>2 DEF OneWriter
  <2> QED
    BY <1>1, <2>2, <2>3 DEF Author, Holding
<1>3. ASSUME NEW r \in Readers, ReadEnd(r), tail = None PROVE Blamed'
  BY <1>1, <1>3 DEF ReadEnd, Blamed, TypeOK
<1>4. ASSUME partial' = partial PROVE Blamed'
  BY <1>1, <1>4 DEF Blamed
<1>5. partial' = partial \/ \E r \in Readers : ReadEnd(r)
  <2>1. \A w \in Writers : AppendStep(w) => partial' = partial
    BY DEF AppendStep, Encode, Open, LockExclusive, CheckTail, WriteBytes, WriteNewline,
       WriteFails, Sync, Unlock, reads
  <2>2. \A r \in Readers : ReadStep(r) => partial' = partial \/ ReadEnd(r)
    BY DEF ReadStep, OpenRead, LockShared, ReadLine, ReadFails, UnlockShared, reads
  <2>3. \A p \in Procs : LockFails(p) \/ Kill(p) => partial' = partial
    BY DEF LockFails, Kill, reads
  <2>4. PowerLoss \/ RepairTail \/ UNCHANGED vars => partial' = partial
    BY DEF PowerLoss, RepairTail, vars, reads
  <2> QED
    BY <2>1, <2>2, <2>3, <2>4 DEF Next
<1> QED
  BY <1>2, <1>3, <1>4, <1>5

(* A run of the file as long as the batch of w is the whole of it: so many *)
(* lines are of w, and no more.                                            *)
LEMMA WholeBatch ==
  ASSUME OrderInv, NEW w \in Writers, Durable(w)
  PROVE  Cardinality({j \in 1 .. Len(lines) : lines[j][1] = w}) = Size[w]
<1> USE JournalAssumption
<1>0. /\ Len(lines) \in Nat /\ synced \in 0 .. Len(lines) /\ Size[w] \in Nat
      /\ wrote[w] \in Nat /\ wrote[w] <= Size[w]
  BY DEF OrderInv, JInv, TypeOK
<1>1. PICK b \in 0 .. synced - Size[w] : \A i \in 1 .. Size[w] : lines[b + i] = <<w, i>>
  BY DEF Durable
<1>2. ASSUME NEW j \in 1 .. Len(lines), lines[j][1] = w
      PROVE  j \in b + 1 .. b + Size[w]
  <2>1. lines[j] = <<w, lines[j][2]>> /\ lines[j][2] \in 1 .. wrote[w]
    BY <1>2 DEF OrderInv, Counted
  <2> DEFINE i == lines[j][2]
  <2>2. i \in 1 .. Size[w] /\ b + i \in 1 .. Len(lines)
    BY <1>0, <1>1, <2>1
  <2>3. lines[b + i] = lines[j]
    BY <1>1, <2>1, <2>2
  <2>4. b + i = j
    BY <2>2, <2>3 DEF OrderInv, BatchesDontInterleave
  <2> QED
    BY <1>0, <1>1, <2>2, <2>4
<1>3. ASSUME NEW j \in b + 1 .. b + Size[w] PROVE j \in 1 .. Len(lines) /\ lines[j][1] = w
  <2>1. j - b \in 1 .. Size[w] /\ b + (j - b) = j
    BY <1>0, <1>1
  <2> QED
    BY <1>0, <1>1, <2>1
<1>4. {j \in 1 .. Len(lines) : lines[j][1] = w} = b + 1 .. b + Size[w]
  BY <1>2, <1>3
<1>5. Cardinality(b + 1 .. b + Size[w]) = Size[w]
  <2>1. b \in Nat /\ b + 1 \in Int /\ b + Size[w] \in Int
    BY <1>0, <1>1
  <2>2. Cardinality(b + 1 .. b + Size[w]) =
          IF b + 1 > b + Size[w] THEN 0 ELSE (b + Size[w]) - (b + 1) + 1
    BY ONLY <2>1, FS_Interval
  <2> QED
    BY ONLY <1>0, <2>1, <2>2
<1> QED
  BY <1>4, <1>5

(* A writer that has not locked the file has no line in it.                *)
LEMMA NoLines ==
  ASSUME OrderInv, NEW w \in Writers, pc[w] \in {"start", "open", "lock", "check"}
  PROVE  Cardinality({j \in 1 .. Len(lines) : lines[j][1] = w}) = 0
<1>1. {j \in 1 .. Len(lines) : lines[j][1] = w} = {}
  BY DEF OrderInv, JInv, OwnLinesLast, Counted
<1> QED
  BY <1>1, FS_EmptySet

LEMMA ReadEndSeesWholeBatches ==
  ASSUME OrderInv, Excluded, ViewsAreWhole, NEW r \in Readers, ReadEnd(r), NEW w \in Writers
  PROVE  WholeOrNone(r, w)
<1> USE JournalAssumption
<1>1. Len(lines) \in Nat /\ Len(view[r]) \in Nat
  BY DEF OrderInv, JInv, TypeOK
<1>2. Len(view[r]) = Len(lines) /\ \A j \in 1 .. Len(lines) : view[r][j] = lines[j]
  BY <1>1 DEF ReadEnd, ViewsAreWhole
<1>3. Of(r, w) = {j \in 1 .. Len(lines) : lines[j][1] = w}
  BY <1>2 DEF Of
<1>4. pc[w] \notin Holding /\ pc[w] # "read"
  BY DEF ReadEnd, Excluded, Reading, OrderInv, JInv, OneWriter
<1>5. pc[w] \in {"start", "open", "lock"} \/ pc[w] = "ok" \/ pc[w] \in Ended \ {"ok"}
  BY <1>4 DEF OrderInv, JInv, TypeOK, Procs, Holding, Ended
<1>6. CASE pc[w] \in {"start", "open", "lock"}
  BY <1>3, <1>6, NoLines DEF WholeOrNone
<1>7. CASE pc[w] = "ok"
  BY <1>3, <1>7, WholeBatch DEF WholeOrNone, OrderInv, JInv, Decided
<1> QED
  BY <1>5, <1>6, <1>7 DEF WholeOrNone

LEMMA ViewsStep ==
  ASSUME OrderInv, Excluded, ViewsAreWhole, [Next]_vars
  PROVE  ViewsAreWhole'
<1> USE JournalAssumption
<1>0. /\ lines \in Seq(Line) /\ Len(lines) \in Nat /\ synced \in 0 .. Len(lines)
      /\ view \in [Readers -> Seq(Event)]
      /\ TypeOK /\ TypeOK'
  BY TypeStep DEF OrderInv, JInv, TypeOK
<1>1. \A r \in Readers, w \in Writers :
        view'[r] = view[r] /\ WholeOrNone(r, w) => WholeOrNone(r, w)'
  BY <1>0, EndedStays DEF WholeOrNone, Of, Procs
<1>2. ASSUME NEW r \in Readers, pc'[r] = pc[r] \/ pc'[r] \in Ended \ {"ok"}, view'[r] = view[r],
             lines' = lines \/ pc'[r] # "read",
             NEW w \in Writers
      PROVE  /\ pc'[r] \in {"start", "lock"} => view'[r] = <<>>
             /\ pc'[r] = "read" =>
                   /\ Len(view'[r]) <= Len(lines')
                   /\ \A j \in 1 .. Len(view'[r]) : view'[r][j] = lines'[j]
             /\ pc'[r] \in {"unlock-ok", "ok"} => WholeOrNone(r, w)'
  BY <1>1, <1>2 DEF ViewsAreWhole, Ended
<1>3. ASSUME NEW w \in Writers, AppendStep(w) PROVE ViewsAreWhole'
  <2>1. view' = view /\ \A r \in Readers : pc'[r] = pc[r]
    <3>1. view' = view
      BY <1>3 DEF AppendStep, Encode, Open, LockExclusive, CheckTail, WriteBytes, WriteNewline,
         WriteFails, Sync, Unlock, reads
    <3> QED
      BY <1>0, <1>3, <3>1, Others DEF Procs
  <2>2. lines' = lines \/ \A r \in Readers : pc[r] # "read"
    <3>1. CASE WriteNewline(w)
      BY <3>1 DEF WriteNewline, OrderInv, JInv, OneWriter, Holding, Excluded, Reading
    <3>2. CASE ~WriteNewline(w)
      BY <1>3, <3>2 DEF AppendStep, Encode, Open, LockExclusive, CheckTail, WriteBytes,
         WriteFails, Sync, Unlock, file
    <3> QED
      BY <3>1, <3>2
  <2> QED
    BY <1>2, <2>1, <2>2, <1>1 DEF ViewsAreWhole
<1>4. ASSUME NEW r \in Readers, ReadStep(r) PROVE ViewsAreWhole'
  <2>1. lines' = lines
    BY <1>4 DEF ReadStep, OpenRead, LockShared, ReadLine, ReadEnd, ReadFails, UnlockShared, file
  <2>2. \A s \in Readers : s # r => pc'[s] = pc[s] /\ view'[s] = view[s]
    <3>1. \A s \in Readers : s # r => pc'[s] = pc[s]
      BY <1>0, <1>4, Others DEF Procs
    <3>2. \A s \in Readers : s # r => view'[s] = view[s]
      BY <1>0, <1>4 DEF ReadStep, OpenRead, LockShared, ReadLine, ReadEnd, ReadFails,
         UnlockShared, reads
    <3> QED
      BY <3>1, <3>2
  <2> DEFINE Fine == /\ pc'[r] \in {"start", "lock"} => view'[r] = <<>>
                     /\ pc'[r] = "read" =>
                           /\ Len(view'[r]) <= Len(lines')
                           /\ \A j \in 1 .. Len(view'[r]) : view'[r][j] = lines'[j]
                     /\ pc'[r] \in {"unlock-ok", "ok"} => \A w \in Writers : WholeOrNone(r, w)'
  <2>3. Fine => ViewsAreWhole'
    BY <1>1, <2>1, <2>2 DEF ViewsAreWhole
  <2> HIDE DEF Fine
  <2>4. CASE OpenRead(r)
    <3>1. view'[r] = view[r] /\ view[r] = <<>> /\ pc'[r] \in {"lock", "ok", "error"}
      BY <1>0, <2>4 DEF OpenRead, ViewsAreWhole, reads, Goto, TypeOK, Procs
    <3>2. \A w \in Writers : WholeOrNone(r, w)
      <4>1. \A w \in Writers : Of(r, w) = {}
        BY <3>1 DEF Of
      <4> QED
        BY <4>1, FS_EmptySet DEF WholeOrNone
    <3> QED
      BY <1>1, <2>3, <3>1, <3>2 DEF Fine
  <2>5. CASE LockShared(r)
    <3>1. view'[r] = view[r] /\ view[r] = <<>> /\ pc'[r] = "read"
      BY <1>0, <2>5 DEF LockShared, ViewsAreWhole, reads, Goto, TypeOK, Procs
    <3> QED
      BY <1>0, <2>1, <2>3, <3>1 DEF Fine
  <2>6. CASE ReadLine(r)
    <3> DEFINE n == Len(view[r])
               line == lines[n + 1]
    <3>1. CASE line = Corrupt
      <4>1. pc'[r] = "unlock-error"
        BY <1>0, <2>6, <3>1 DEF ReadLine, Goto, TypeOK, Procs
      <4> QED
        BY <2>3, <4>1 DEF Fine
    <3>2. CASE line # Corrupt
      <4>1. pc'[r] = "read" /\ view'[r] = Append(view[r], line) /\ n < Len(lines)
        BY <1>0, <2>6, <3>2 DEF ReadLine, Corrupt
      <4>2. n \in Nat /\ line \in Event
        BY <1>0, <3>2, <4>1 DEF Line
      <4>3. Len(view'[r]) = n + 1 /\ view'[r][n + 1] = line
            /\ \A j \in 1 .. n : view'[r][j] = view[r][j]
        BY <1>0, <4>1, <4>2, AppendProperties
      <4>4. \A j \in 1 .. n : view[r][j] = lines[j]
        BY <2>6 DEF ReadLine, ViewsAreWhole
      <4>5. \A j \in 1 .. n + 1 : view'[r][j] = lines[j]
        BY <4>2, <4>3, <4>4
      <4> QED
        BY <1>0, <2>1, <2>3, <4>1, <4>2, <4>3, <4>5 DEF Fine
    <3> QED
      BY <3>1, <3>2
  <2>7. CASE ReadEnd(r)
    <3>1. view'[r] = view[r] /\ pc'[r] = "unlock-ok"
      BY <1>0, <2>7 DEF ReadEnd, Goto, TypeOK, Procs
    <3> QED
      BY <1>1, <2>3, <2>7, <3>1, ReadEndSeesWholeBatches DEF Fine
  <2>8. CASE ReadFails(r)
    <3>1. pc'[r] = "unlock-error"
      BY <1>0, <2>8 DEF ReadFails, Goto, TypeOK, Procs
    <3> QED
      BY <2>3, <3>1 DEF Fine
  <2>9. CASE UnlockShared(r)
    <3>1. view'[r] = view[r]
      BY <2>9 DEF UnlockShared, reads
    <3>2. pc'[r] = "error" \/ (pc'[r] = "ok" /\ pc[r] = "unlock-ok")
      BY <1>0, <2>9 DEF UnlockShared, Goto, TypeOK, Procs
    <3> QED
      BY <1>1, <2>3, <3>1, <3>2 DEF Fine, ViewsAreWhole
  <2> QED
    BY <1>4, <2>4, <2>5, <2>6, <2>7, <2>8, <2>9 DEF ReadStep
<1>5. ASSUME NEW p \in Procs, LockFails(p) \/ Kill(p) PROVE ViewsAreWhole'
  <2>1. lines' = lines /\ view' = view
    BY <1>5 DEF LockFails, Kill, file, reads
  <2>2. \A r \in Readers : pc'[r] = pc[r] \/ pc'[r] \in Ended \ {"ok"}
    BY <1>0, <1>5 DEF LockFails, Kill, Goto, TypeOK, Ended, Procs
  <2> QED
    BY <1>1, <1>2, <2>1, <2>2 DEF ViewsAreWhole, Ended
<1>6. CASE PowerLoss
  <2>1. view' = view /\ \A r \in Readers : pc'[r] \in Ended /\ (pc'[r] = "ok" => pc[r] = "ok")
    BY <1>6 DEF PowerLoss, reads, Procs, Ended
  <2> QED
    BY <1>1, <2>1 DEF ViewsAreWhole, Ended
<1>7. CASE RepairTail \/ UNCHANGED vars
  <2>1. lines' = lines /\ view' = view /\ pc' = pc
    BY <1>7 DEF RepairTail, vars, file, reads
  <2> QED
    BY <1>1, <2>1 DEF ViewsAreWhole
<1> QED
  BY <1>3, <1>4, <1>5, <1>6, <1>7 DEF Next

THEOREM ReadAlways == Spec => []ReadInv
<1>1. Init => ReadInv
  <2> SUFFICES ASSUME Init PROVE ReadInv
    OBVIOUS
  <2>1. OrderInv
    BY JInvInit DEF Init, OrderInv, Counted, BatchesDontInterleave
  <2>2. \A p \in Procs : pc[p] = "start"
    BY DEF Init
  <2> QED
    BY <2>1, <2>2 DEF Init, ReadInv, Excluded, Authored, Blamed, ViewsAreWhole, Reading, Procs
<1>2. ReadInv /\ [Next]_vars => ReadInv'
  BY JInvStep, OrderStep, ExcludedStep, AuthoredStep, BlamedStep, ViewsStep
     DEF ReadInv, OrderInv, JInv
<1> QED
  BY <1>1, <1>2, PTL DEF Spec

(* A successful ReadAll has all or none of the events of an append that    *)
(* succeeded: the lock makes a batch visible at once.                      *)
THEOREM WholeBatchesAreRead == Spec => []ReadsSeeWholeBatches
<1>1. ReadInv => ReadsSeeWholeBatches
  BY DEF ReadInv, ViewsAreWhole, WholeOrNone, Of, ReadsSeeWholeBatches, Ended
<1> QED
  BY <1>1, ReadAlways, PTL

(* An incomplete line that a read reports is a failed append's, never that *)
(* of an append that is still under way.                                   *)
THEOREM AlarmsAreJustified == Spec => []NoFalseAlarm
<1>1. ReadInv => NoFalseAlarm
  BY DEF ReadInv, Blamed, NoFalseAlarm
<1> QED
  BY <1>1, ReadAlways, PTL
-----------------------------------------------------------------------------
(* The refinement.  A batch is in the log from the moment its append is    *)
(* decided, and the lines of an append under way are not.                  *)
LEMMA InFlightIs ==
  ASSUME OneWriter, NEW w \in Writers, pc[w] \in {"write", "sync"}
  PROVE  InFlight /\ excl = w
BY DEF OneWriter, Holding, InFlight, Writing

LEMMA Batches ==
  ASSUME NEW w \in Writers
  PROVE  BatchOf(w) \in Seq(Line) /\ Len(BatchOf(w)) = Size[w]
<1> USE JournalAssumption
<1>1. Size[w] \in Nat /\ \A i \in 1 .. Size[w] : <<w, i>> \in Line
  BY DEF Line, Event
<1>2. BatchOf(w) \in [1 .. Size[w] -> Line]
  BY <1>1 DEF BatchOf
<1> QED
  BY <1>1, <1>2

(* The file is what was decided and the part of the batch under way. *)
LEMMA FileIsLogAndBatch ==
  ASSUME JInv, NEW w \in Writers, pc[w] \in {"write", "sync"}
  PROVE  /\ wrote[w] \in 0 .. Size[w]
         /\ DecidedLines \in Seq(Line)
         /\ Len(DecidedLines) = Len(lines) - wrote[w]
         /\ lines = DecidedLines \o SubSeq(BatchOf(w), 1, wrote[w])
         /\ \A i \in 1 .. Len(lines) : lines[i] = (DecidedLines \o BatchOf(w))[i]
<1> USE JournalAssumption
<1> DEFINE n == wrote[w]
           d == SubSeq(lines, 1, Len(lines) - n)
           b == SubSeq(BatchOf(w), 1, n)
<1>1. DecidedLines = d
  BY InFlightIs DEF DecidedLines, JInv
<1>2. /\ lines \in Seq(Line) /\ Len(lines) \in Nat /\ n \in 0 .. Size[w] /\ n <= Len(lines)
      /\ Size[w] \in Nat
  BY DEF JInv, TypeOK, OwnLinesLast
<1>3. \A i \in 1 .. n : lines[Len(lines) - n + i] = <<w, i>>
  BY DEF JInv, OwnLinesLast
<1>4. d \in Seq(Line) /\ Len(d) = Len(lines) - n /\ \A i \in 1 .. Len(lines) - n : d[i] = lines[i]
  BY <1>2
<1>5. b \in Seq(Line) /\ Len(b) = n /\ \A i \in 1 .. n : b[i] = BatchOf(w)[i]
  BY <1>2, Batches
<1>6. \A i \in 1 .. Size[w] : BatchOf(w)[i] = <<w, i>>
  BY DEF BatchOf
<1> HIDE DEF d, b, n
<1>7. \A i \in Len(lines) - n + 1 .. Len(lines) : lines[i] = BatchOf(w)[i - (Len(lines) - n)]
  <2> SUFFICES ASSUME NEW i \in Len(lines) - n + 1 .. Len(lines)
               PROVE  lines[i] = BatchOf(w)[i - (Len(lines) - n)]
    OBVIOUS
  <2>1. i - (Len(lines) - n) \in 1 .. n /\ i - (Len(lines) - n) \in 1 .. Size[w]
        /\ Len(lines) - n + (i - (Len(lines) - n)) = i
    BY <1>2
  <2> QED
    BY <1>3, <1>6, <2>1
<1>8. Len(d \o b) = Len(lines) /\ d \o b \in Seq(Line)
      /\ \A i \in 1 .. Len(lines) : (d \o b)[i] = IF i <= Len(d) THEN d[i] ELSE b[i - Len(d)]
  BY <1>2, <1>4, <1>5, ConcatProperties
<1>9. \A i \in 1 .. Len(lines) : lines[i] = (d \o b)[i]
  <2> SUFFICES ASSUME NEW i \in 1 .. Len(lines) PROVE lines[i] = (d \o b)[i]
    OBVIOUS
  <2>1. CASE i <= Len(d)
    BY <1>2, <1>4, <1>8, <2>1
  <2>2. CASE ~(i <= Len(d))
    <3>1. i \in Len(lines) - n + 1 .. Len(lines) /\ i - Len(d) \in 1 .. n
          /\ i - Len(d) = i - (Len(lines) - n)
      BY <1>2, <1>4, <2>2
    <3> QED
      BY <1>5, <1>7, <1>8, <2>2, <3>1
  <2> QED
    BY <2>1, <2>2
<1>10. lines = d \o b
  BY <1>2, <1>8, <1>9, SeqEqual
<1>11. \A i \in 1 .. Len(lines) : lines[i] = (d \o BatchOf(w))[i]
  <2> SUFFICES ASSUME NEW i \in 1 .. Len(lines) PROVE lines[i] = (d \o BatchOf(w))[i]
    OBVIOUS
  <2>1. (d \o BatchOf(w))[i] = IF i <= Len(d) THEN d[i] ELSE BatchOf(w)[i - Len(d)]
    <3>1. i \in 1 .. Len(d) + Len(BatchOf(w))
      BY <1>2, <1>4, Batches
    <3> QED
      BY <1>4, <3>1, Batches, ConcatProperties
  <2>2. CASE i <= Len(d)
    BY <1>2, <1>4, <2>1, <2>2
  <2>3. CASE ~(i <= Len(d))
    <3>1. i \in Len(lines) - n + 1 .. Len(lines) /\ i - Len(d) = i - (Len(lines) - n)
      BY <1>2, <1>4, <2>3
    <3> QED
      BY <1>7, <2>1, <2>3, <3>1
  <2> QED
    BY <2>2, <2>3
<1> QED
  BY <1>1, <1>2, <1>4, <1>10, <1>11 DEF d, b, n

(* A step that leaves the lines alone and neither begins nor ends a write  *)
(* is none of the log.                                                     *)
LEMMA Stutters ==
  ASSUME UNCHANGED <<lines, tail, synced, wrote>>,
         \A w \in Writers : Writing(w)' <=> Writing(w),
         InFlight => excl' = excl
  PROVE  UNCHANGED Log!vars
<1>1. InFlight' <=> InFlight
  BY DEF InFlight
<1>2. DecidedLines' = DecidedLines
  BY <1>1 DEF DecidedLines
<1>3. Torn' <=> Torn
  BY <1>1 DEF Torn
<1>4. Torn' = Torn
  BY <1>3 DEF Torn
<1> QED
  BY <1>2, <1>4 DEF Log!vars

(* A writer that fails or dies while it writes leaves what it has written. *)
LEMMA GivesUp ==
  ASSUME JInv, NEW w \in Writers, pc[w] \in {"write", "sync"},
         UNCHANGED <<lines, tail, synced, wrote>>, ~InFlight'
  PROVE  Log!Next
<1> USE JournalAssumption
<1> DEFINE n == wrote[w]
           batch == BatchOf(w)
<1>1. InFlight /\ ~Torn /\ Torn' = (tail # None) /\ DecidedLines' = lines
  BY InFlightIs DEF JInv, Torn, DecidedLines
<1>2. n \in 0 .. Size[w] /\ lines = DecidedLines \o SubSeq(batch, 1, n)
  BY FileIsLogAndBatch
<1>3. Size[w] > 0 /\ Size[w] \in Nat /\ (n = Size[w] => tail = None)
  BY DEF JInv, EventsLeft, OwnLinesLast, TypeOK
<1>4. (tail # None) \in {FALSE, n < Len(batch)}
  <2>1. CASE tail = None
    BY <2>1
  <2>2. CASE tail # None
    <3>1. n < Len(batch)
      BY <1>2, <1>3, <2>2, Batches
    <3>2. (tail # None) = TRUE /\ (n < Len(batch)) = TRUE
      BY <2>2, <3>1
    <3> QED
      BY <3>2
  <2> QED
    BY <2>1, <2>2
<1>5. n \in 0 .. Len(batch)
  BY <1>2, Batches
<1>6. Log!AppendPart(batch)
  <2>1. DecidedLines' = DecidedLines \o SubSeq(batch, 1, n)
    BY <1>1, <1>2
  <2>2. Torn' \in {FALSE, n < Len(batch)}
    BY <1>1, <1>4
  <2> HIDE DEF n, batch
  <2> QED
    BY <1>1, <1>5, <2>1, <2>2 DEF Log!AppendPart
<1> QED
  BY <1>3, <1>6 DEF Log!Next

(* The sync that succeeds decides the whole batch. *)
LEMMA Decides ==
  ASSUME JInv, NEW w \in Writers, pc[w] = "sync",
         UNCHANGED <<lines, tail, wrote>>, synced' = Len(lines), ~InFlight'
  PROVE  Log!Next
<1> USE JournalAssumption
<1> DEFINE batch == BatchOf(w)
<1>1. InFlight /\ ~Torn /\ tail = None /\ wrote[w] = Size[w]
  BY InFlightIs DEF JInv, Torn, OwnLinesLast
<1>2. Torn' = Torn /\ DecidedLines' = lines
  BY <1>1 DEF Torn, DecidedLines
<1>3. lines = DecidedLines \o batch
  <2>1. lines = DecidedLines \o SubSeq(batch, 1, wrote[w])
    BY FileIsLogAndBatch
  <2>2. SubSeq(batch, 1, wrote[w]) = batch
    BY <1>1, Batches, SubSeqFull
  <2> QED
    BY <2>1, <2>2
<1>4. Size[w] > 0
  BY DEF JInv, EventsLeft
<1>5. Log!AppendAll(batch)
  BY <1>1, <1>2, <1>3 DEF Log!AppendAll
<1> QED
  BY <1>4, <1>5 DEF Log!Next

(* A power loss keeps some lines of the log and of the batch under way. *)
LEMMA Loses ==
  ASSUME JInv, PowerLoss
  PROVE  Log!Next
<1> USE JournalAssumption
<1>0. lines \in Seq(Line) /\ Len(lines) \in Nat /\ synced \in 0 .. Len(lines)
  BY DEF JInv, TypeOK
<1>1. PICK k \in synced .. Len(lines) : lines' = SubSeq(lines, 1, k) /\ synced' = k
  BY DEF PowerLoss
<1>2. ~InFlight' /\ Torn' \in BOOLEAN /\ DecidedLines' = SubSeq(lines, 1, k)
  <2>1. ~InFlight'
    BY DEF PowerLoss, InFlight, Writing, Ended, Procs
  <2> QED
    BY <1>1, <2>1 DEF Torn, DecidedLines
<1>3. CASE InFlight
  <2>1. PICK w \in Writers : Writing(w)
    BY <1>3 DEF InFlight
  <2> DEFINE batch == BatchOf(w)
             whole == DecidedLines \o batch
  <2>2. pc[w] \in {"write", "sync"} /\ Size[w] > 0
    BY <2>1 DEF Writing, JInv, EventsLeft
  <2>3. /\ wrote[w] \in 0 .. Size[w] /\ DecidedLines \in Seq(Line)
        /\ Len(DecidedLines) = Len(lines) - wrote[w]
        /\ \A i \in 1 .. Len(lines) : lines[i] = whole[i]
    BY <2>2, FileIsLogAndBatch
  <2>4. whole \in Seq(Line) /\ Len(whole) = Len(DecidedLines) + Len(batch) /\ Len(batch) = Size[w]
    BY <2>3, Batches, ConcatProperties
  <2>5. k \in synced .. Len(whole) /\ k <= Len(lines)
    <3>1. Size[w] \in Nat /\ Len(whole) = Len(lines) - wrote[w] + Size[w]
      BY <2>3, <2>4
    <3> QED
      BY <1>0, <2>3, <3>1
  <2> HIDE DEF whole
  <2>6. SubSeq(lines, 1, k) = SubSeq(whole, 1, k)
    BY <1>0, <2>3, <2>4, <2>5
  <2>7. ~Torn
    BY <1>3 DEF Torn
  <2>8. Log!Lose(batch)
    BY <1>1, <1>2, <2>5, <2>6, <2>7 DEF Log!Lose, whole
  <2> QED
    BY <2>2, <2>8 DEF Log!Next
<1>4. CASE ~InFlight
  <2> DEFINE whole == IF Torn THEN DecidedLines ELSE DecidedLines \o <<>>
  <2>1. DecidedLines = lines /\ whole = lines
    BY <1>0, <1>4, ConcatEmptySeq DEF DecidedLines
  <2>2. k \in synced .. Len(whole) /\ DecidedLines' = SubSeq(whole, 1, k)
    BY <1>2, <2>1
  <2>3. Log!Lose(<<>>)
    BY <1>1, <1>2, <2>2 DEF Log!Lose
  <2> QED
    BY <2>3 DEF Log!Next
<1> QED
  BY <1>3, <1>4

LEMMA LogStep ==
  ASSUME JInv, [Next]_vars
  PROVE  [Log!Next]_Log!vars
<1> USE JournalAssumption
<1>0. TypeOK /\ OneWriter /\ lines \in Seq(Line) /\ Len(lines) \in Nat /\ wrote \in [Writers -> Nat]
  BY DEF JInv, TypeOK
<1>1. ASSUME NEW w \in Writers, AppendStep(w) PROVE [Log!Next]_Log!vars
  <2>1. \A v \in Writers : v # w => pc'[v] = pc[v]
    BY <1>0, <1>1, Others DEF Procs
  <2>2. CASE Encode(w) \/ Open(w)
    <3>1. /\ UNCHANGED <<lines, tail, synced, wrote>> /\ excl' = excl
          /\ pc[w] \notin Holding /\ pc'[w] \notin Holding
      BY <1>0, <2>2 DEF Encode, Open, Goto, TypeOK, Procs, file, locks, Holding
    <3> QED
      BY <2>1, <3>1, Stutters DEF Writing, Holding
  <2>3. CASE LockExclusive(w)
    <3>1. /\ UNCHANGED <<lines, tail, synced, wrote>> /\ excl = None
          /\ pc[w] \notin {"write", "sync"} /\ pc'[w] \notin {"write", "sync"}
      BY <1>0, <2>3 DEF LockExclusive, Goto, TypeOK, Procs, file
    <3>2. ~InFlight /\ \A v \in Writers : ~Writing(v) /\ pc[v] \notin {"write", "sync"}
      BY <1>0, <3>1 DEF InFlight, Writing, OneWriter, Holding
    <3> QED
      BY <2>1, <3>1, <3>2, Stutters DEF Writing
  <2>4. CASE CheckTail(w)
    <3>1. /\ UNCHANGED <<lines, tail, synced, wrote>> /\ excl' = excl /\ pc[w] = "check"
          /\ excl = w /\ wrote[w] = 0
      BY <1>0, <2>4 DEF CheckTail, file, locks, OneWriter, Holding, JInv, OwnLinesLast
    <3>2. ~InFlight
      BY <3>1 DEF InFlight, Writing
    <3>3. CASE pc'[w] = "write"
      <4>1. tail = None
        BY <1>0, <2>4, <3>3 DEF CheckTail, Goto, TypeOK, Procs
      <4>2. InFlight'
        BY <3>1, <3>3 DEF InFlight, Writing
      <4>3. DecidedLines' = SubSeq(lines, 1, Len(lines) - 0)
        BY <3>1, <4>2 DEF DecidedLines
      <4>4. Len(lines) - 0 = Len(lines) /\ SubSeq(lines, 1, Len(lines)) = lines
        BY <1>0, SubSeqFull
      <4>5. DecidedLines' = lines /\ DecidedLines = lines
        BY <3>2, <4>3, <4>4 DEF DecidedLines
      <4>6. Torn' = Torn
        BY <3>1, <3>2, <4>1, <4>2 DEF Torn
      <4> QED
        BY <3>1, <4>5, <4>6 DEF Log!vars
    <3>4. CASE pc'[w] # "write"
      <4>1. pc'[w] # "sync"
        BY <1>0, <2>4 DEF CheckTail, Goto, TypeOK, Procs
      <4> QED
        BY <2>1, <3>1, <3>4, <4>1, Stutters DEF Writing
    <3> QED
      BY <3>3, <3>4
  <2>5. CASE WriteBytes(w)
    <3>1. InFlight /\ excl' = excl /\ pc' = pc /\ UNCHANGED <<lines, synced, wrote>>
      BY <1>0, <2>5, InFlightIs DEF WriteBytes, locks
    <3>2. InFlight'
      BY <3>1 DEF InFlight, Writing
    <3> QED
      BY <3>1, <3>2 DEF DecidedLines, Torn, Log!vars
  <2>6. CASE WriteNewline(w)
    <3> DEFINE n == wrote[w]
               m == Len(lines)
    <3>1. /\ InFlight /\ excl = w /\ excl' = w /\ pc'[w] \in {"write", "sync"}
          /\ synced' = synced /\ n \in Nat /\ n <= m
      BY <1>0, <2>6, InFlightIs DEF WriteNewline, locks, Goto, TypeOK, Procs, JInv, OwnLinesLast
    <3>2. InFlight'
      BY <3>1 DEF InFlight, Writing
    <3>3. Completes(w)
      BY <2>6 DEF WriteNewline, Completes, JInv, OwnLinesLast
    <3>4. <<w, n + 1>> \in Line
      BY <1>0, <3>1, <3>3 DEF Completes, Line, Event
    <3>5. wrote'[w] = n + 1 /\ lines' = Append(lines, <<w, n + 1>>)
      BY <1>0, <3>3 DEF Completes
    <3>6. Len(lines') - wrote'[w] = m - n
      <4>1. Len(lines') = m + 1
        BY <1>0, <3>4, <3>5
      <4> QED
        BY <1>0, <3>1, <3>5, <4>1
    <3>7. SubSeq(lines', 1, m - n) = SubSeq(lines, 1, m - n)
      BY <1>0, <3>1, <3>4, <3>5
    <3>8. DecidedLines' = DecidedLines
      BY <3>1, <3>2, <3>6, <3>7 DEF DecidedLines
    <3> QED
      BY <3>1, <3>2, <3>8 DEF Torn, Log!vars
  <2>7. CASE WriteFails(w) \/ (Sync(w) /\ synced' = synced /\ pc'[w] = "unlock-error")
    <3>1. /\ pc[w] \in {"write", "sync"} /\ pc'[w] \notin {"write", "sync"}
          /\ UNCHANGED <<lines, tail, synced, wrote>> /\ excl' = excl
      BY <1>0, <2>7 DEF WriteFails, Sync, Goto, TypeOK, Procs, file, locks
    <3>2. ~InFlight'
      BY <1>0, <2>1, <3>1, InFlightIs DEF InFlight, Writing
    <3> QED
      BY <3>1, <3>2, GivesUp
  <2>8. CASE Sync(w) /\ synced' = Len(lines) /\ pc'[w] = "unlock-ok"
    <3>1. pc[w] = "sync" /\ UNCHANGED <<lines, tail, wrote>> /\ excl' = excl
      BY <2>8 DEF Sync, locks
    <3>2. ~InFlight'
      BY <1>0, <2>1, <2>8, <3>1, InFlightIs DEF InFlight, Writing
    <3> QED
      BY <2>8, <3>1, <3>2, Decides
  <2>9. CASE Unlock(w)
    <3>1. /\ UNCHANGED <<lines, tail, synced, wrote>> /\ excl = w /\ excl' = None
          /\ pc[w] \notin {"write", "sync"}
      BY <1>0, <2>9 DEF Unlock, file, OneWriter, Holding
    <3>2. ~InFlight /\ \A v \in Writers : ~Writing(v) /\ ~Writing(v)'
      BY <3>1 DEF InFlight, Writing
    <3> QED
      BY <3>1, <3>2, Stutters
  <2>10. Sync(w) => \/ synced' = synced /\ pc'[w] = "unlock-error"
                    \/ synced' = Len(lines) /\ pc'[w] = "unlock-ok"
    BY <1>0 DEF Sync, Goto, TypeOK, Procs
  <2> QED
    BY <1>1, <2>2, <2>3, <2>4, <2>5, <2>6, <2>7, <2>8, <2>9, <2>10 DEF AppendStep
<1>2. ASSUME NEW r \in Readers, ReadStep(r) PROVE [Log!Next]_Log!vars
  <2>1. \A v \in Writers : pc'[v] = pc[v]
    BY <1>0, <1>2, Others DEF Procs
  <2>2. UNCHANGED <<lines, tail, synced, wrote>> /\ excl' = excl
    BY <1>2 DEF ReadStep, OpenRead, LockShared, ReadLine, ReadEnd, ReadFails, UnlockShared,
       file, locks
  <2> QED
    BY <2>1, <2>2, Stutters DEF Writing
<1>3. ASSUME NEW p \in Procs, LockFails(p) \/ Kill(p) PROVE [Log!Next]_Log!vars
  <2>1. \A q \in Procs : q # p => pc'[q] = pc[q]
    BY <1>0, <1>3, Others
  <2>2. /\ UNCHANGED <<lines, tail, synced, wrote>> /\ pc'[p] \in {"dead", "error"}
        /\ excl' = excl \/ (excl = p /\ excl' = None)
    BY <1>0, <1>3 DEF LockFails, Kill, Goto, TypeOK, file, locks
  <2>3. CASE p \in Writers /\ pc[p] \in {"write", "sync"}
    <3>1. \A v \in Writers : pc'[v] \notin {"write", "sync"}
      BY <1>0, <2>1, <2>2, <2>3, InFlightIs DEF Procs
    <3>2. ~InFlight'
      BY <3>1 DEF InFlight, Writing
    <3> QED
      BY <2>2, <2>3, <3>2, GivesUp
  <2>4. CASE ~(p \in Writers /\ pc[p] \in {"write", "sync"})
    <3>1. excl' # excl => p \in Writers
      BY <1>0, <2>2 DEF TypeOK
    <3>2. excl' # excl => ~InFlight /\ \A v \in Writers : ~Writing(v) /\ ~Writing(v)'
      BY <2>2, <2>4, <3>1 DEF InFlight, Writing
    <3>3. \A v \in Writers : Writing(v)' <=> Writing(v)
      BY <2>1, <2>2, <2>4, <3>2 DEF Writing, Procs
    <3> QED
      BY <2>2, <3>2, <3>3, Stutters
  <2> QED
    BY <2>3, <2>4
<1>4. CASE PowerLoss
  BY <1>4, Loses
<1>5. CASE RepairTail
  <2>1. tail # None /\ excl = None /\ tail' = None /\ UNCHANGED <<lines, synced, wrote, pc, excl>>
    BY <1>5 DEF RepairTail, locks
  <2>2. ~InFlight /\ ~InFlight'
    BY <2>1 DEF InFlight, Writing
  <2>3. Torn /\ Torn' = FALSE /\ DecidedLines' = DecidedLines
    BY <2>1, <2>2 DEF Torn, DecidedLines
  <2>4. Log!Repair
    BY <2>1, <2>3 DEF Log!Repair
  <2> QED
    BY <2>4 DEF Log!Next
<1>6. CASE UNCHANGED vars
  <2>1. UNCHANGED <<lines, tail, synced, wrote, pc, excl>>
    BY <1>6 DEF vars, file, locks
  <2> QED
    BY <2>1, Stutters DEF Writing
<1> QED
  BY <1>1, <1>2, <1>3, <1>4, <1>5, <1>6 DEF Next

(* The locked append of many steps, with its failures, kills and power     *)
(* losses, does to the journal only what EventLog lets an append do: the   *)
(* callers of journal.Repository may think of a log of whole batches.      *)
THEOREM LogIsImplemented == Spec => ImplementsEventLog
<1>1. Init => Log!Init
  <2> SUFFICES ASSUME Init PROVE Log!Init
    OBVIOUS
  <2>1. ~InFlight /\ lines = <<>> /\ tail = None /\ synced = 0
    BY JournalAssumption DEF Init, InFlight, Writing
  <2>2. Torn = FALSE /\ DecidedLines = <<>>
    BY <2>1 DEF Torn, DecidedLines
  <2> QED
    BY <2>1, <2>2 DEF Log!Init
<1>2. JInv /\ [Next]_vars => [Log!Next]_Log!vars
  BY LogStep
<1> QED
  BY <1>1, <1>2, Inductive, PTL DEF Spec, ImplementsEventLog, Log!Spec
=============================================================================
