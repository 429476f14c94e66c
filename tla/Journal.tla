------------------------------- MODULE Journal -------------------------------
(***************************************************************************)
(* internal/journal: the JSONL file behind journal.Repository.  Each       *)
(* writer is one bearm process on its way through AppendEvents, each       *)
(* reader one on its way through ReadAll; what orders them is flock(2) on  *)
(* the file.  A process may be killed at any step, a write may stop half   *)
(* way (a full disk), a sync may fail, and the machine may lose power.     *)
(***************************************************************************)
EXTENDS Sequences, Integers, FiniteSets

CONSTANTS
    Writers,    \* processes in AppendEvents; each appends one batch
    Readers,    \* processes in ReadAll
    Size,       \* Size[w]: how many events the batch of w has
    Invalid,    \* the writers whose batch has an event Validate refuses
    None

(* An event of the batch of w; what it says does not matter here. *)
Event == UNION {{w} \X (1 .. Size[w]) : w \in Writers}
(* A complete line that no event decodes from. *)
Corrupt == <<None, 0>>
Line == Event \cup {Corrupt}

ASSUME JournalAssumption ==
    /\ Size \in [Writers -> Nat]
    /\ Invalid \subseteq Writers
    /\ None \notin Writers
    /\ Writers \cap Readers = {}

(* The events of w, in the order AppendEvents encodes them. *)
BatchOf(w) == [i \in 1 .. Size[w] |-> <<w, i>>]

VARIABLES
    exists,  \* the journal file has been created
    lines,   \* its complete lines
    tail,    \* the line without a newline it ends in, or None
    synced,  \* how many complete lines are on stable storage
    excl,    \* the holder of LOCK_EX, or None
    shared,  \* the holders of LOCK_SH
    pc,      \* where each process is
    wrote,   \* wrote[w]: the lines w has completed
    view,    \* view[r]: the events r has decoded
    partial  \* partial[r]: r found an incomplete trailing line

file == <<exists, lines, tail, synced>>
locks == <<excl, shared>>
reads == <<view, partial>>
vars == <<file, locks, pc, wrote, reads>>

Procs == Writers \cup Readers
Ended == {"ok", "error", "rejected", "refused", "dead"}

Goto(p, label) == pc' = [pc EXCEPT ![p] = label]

Init ==
    /\ exists = FALSE /\ lines = <<>> /\ tail = None /\ synced = 0
    /\ excl = None /\ shared = {}
    /\ pc = [p \in Procs |-> "start"]
    /\ wrote = [w \in Writers |-> 0]
    /\ view = [r \in Readers |-> <<>>]
    /\ partial = [r \in Readers |-> FALSE]
-----------------------------------------------------------------------------
(* AppendEvents *)

(* No events, a cancelled context, or an invalid event: decided before the *)
(* file is opened.                                                         *)
Encode(w) ==
    /\ pc[w] = "start"
    /\ \/ Size[w] = 0 /\ Goto(w, "ok")
       \/ Size[w] > 0 /\ Goto(w, "rejected")          \* ctx.Err()
       \/ Size[w] > 0 /\ w \in Invalid /\ Goto(w, "rejected")
       \/ Size[w] > 0 /\ w \notin Invalid /\ Goto(w, "open")
    /\ UNCHANGED <<file, locks, wrote, reads>>

Open(w) ==
    /\ pc[w] = "open"
    /\ \/ exists' = TRUE /\ Goto(w, "lock")
       \/ exists' = exists /\ Goto(w, "error")
    /\ UNCHANGED <<lines, tail, synced, locks, wrote, reads>>

(* Mutant: the lock is not taken. *)
LockExclusiveSkipped(w) ==
    /\ pc[w] = "lock"
    /\ excl' = w /\ Goto(w, "check")
    /\ UNCHANGED <<file, shared, wrote, reads>>

LockExclusive(w) ==
    /\ pc[w] = "lock" /\ excl = None /\ shared = {}
    /\ excl' = w /\ Goto(w, "check")
    /\ UNCHANGED <<file, shared, wrote, reads>>

(* Mutant: a torn last line is not noticed. *)
CheckTailSkipped(w) ==
    /\ pc[w] = "check" /\ Goto(w, "write")
    /\ UNCHANGED <<file, locks, wrote, reads>>

(* Mutant: the refusal returns without the deferred unlock. *)
CheckTailLeaks(w) ==
    /\ pc[w] = "check"
    /\ Goto(w, IF tail = None THEN "write" ELSE "refused")
    /\ UNCHANGED <<file, locks, wrote, reads>>

(* The last byte of the file decides whether the append goes on. *)
CheckTail(w) ==
    /\ pc[w] = "check"
    /\ \/ Goto(w, IF tail = None THEN "write" ELSE "unlock-refused")
       \/ Goto(w, "unlock-error")  \* Stat or ReadAt fails
    /\ UNCHANGED <<file, locks, wrote, reads>>

(* The batch goes to the file in one Write, which the kernel may cut       *)
(* anywhere: the bytes before a newline, then the newline.                 *)
WriteBytes(w) ==
    /\ pc[w] = "write" /\ wrote[w] < Size[w] /\ tail = None
    /\ tail' = <<w, wrote[w] + 1>>
    /\ UNCHANGED <<exists, lines, synced, locks, pc, wrote, reads>>

WriteNewline(w) ==
    /\ pc[w] = "write" /\ wrote[w] < Size[w] /\ tail # None
    /\ lines' = Append(lines, IF tail = <<w, wrote[w] + 1>> THEN tail ELSE Corrupt)
    /\ tail' = None
    /\ wrote' = [wrote EXCEPT ![w] = @ + 1]
    /\ Goto(w, IF wrote[w] + 1 = Size[w] THEN "sync" ELSE "write")
    /\ UNCHANGED <<exists, synced, locks, reads>>

(* Mutant: a failed write is rolled back, one line too far. *)
WriteFailsRollsBack(w) ==
    /\ pc[w] = "write" /\ Goto(w, "unlock-error")
    /\ lines' = SubSeq(lines, 1, Len(lines) - wrote[w] - 1) /\ tail' = None
    /\ UNCHANGED <<exists, synced, locks, wrote, reads>>

WriteFails(w) ==
    /\ pc[w] = "write" /\ Goto(w, "unlock-error")
    /\ UNCHANGED <<file, locks, wrote, reads>>

(* Mutant: the append returns without fsync. *)
SyncSkipped(w) ==
    /\ pc[w] = "sync" /\ Goto(w, "unlock-ok")
    /\ UNCHANGED <<file, locks, wrote, reads>>

Sync(w) ==
    /\ pc[w] = "sync"
    /\ \/ synced' = Len(lines) /\ Goto(w, "unlock-ok")
       \/ synced' = synced /\ Goto(w, "unlock-error")
    /\ UNCHANGED <<exists, lines, tail, locks, wrote, reads>>

(* The deferred unlock, on every path that took the lock. *)
Unlock(w) ==
    /\ \/ pc[w] = "unlock-ok" /\ Goto(w, "ok")
       \/ pc[w] = "unlock-error" /\ Goto(w, "error")
       \/ pc[w] = "unlock-refused" /\ Goto(w, "refused")
    /\ excl' = None
    /\ UNCHANGED <<file, shared, wrote, reads>>
-----------------------------------------------------------------------------
(* ReadAll *)

OpenRead(r) ==
    /\ pc[r] = "start"
    /\ \/ exists /\ Goto(r, "lock")
       \/ ~exists /\ Goto(r, "ok")    \* no journal yet: an empty result
       \/ Goto(r, "error")
    /\ UNCHANGED <<file, locks, wrote, reads>>

(* Mutant: ReadAll does not lock. *)
LockSharedSkipped(r) ==
    /\ pc[r] = "lock"
    /\ shared' = shared \cup {r} /\ Goto(r, "read")
    /\ UNCHANGED <<file, excl, wrote, reads>>

LockShared(r) ==
    /\ pc[r] = "lock" /\ excl = None
    /\ shared' = shared \cup {r} /\ Goto(r, "read")
    /\ UNCHANGED <<file, excl, wrote, reads>>

ReadLine(r) ==
    /\ pc[r] = "read" /\ Len(view[r]) < Len(lines)
    /\ LET line == lines[Len(view[r]) + 1]
       IN  IF line = Corrupt
           THEN view' = [view EXCEPT ![r] = <<>>] /\ Goto(r, "unlock-error")
           ELSE view' = [view EXCEPT ![r] = Append(@, line)] /\ pc' = pc
    /\ UNCHANGED <<file, locks, wrote, partial>>

ReadEnd(r) ==
    /\ pc[r] = "read" /\ Len(view[r]) >= Len(lines)
    /\ partial' = [partial EXCEPT ![r] = tail # None]
    /\ Goto(r, "unlock-ok")
    /\ UNCHANGED <<file, locks, wrote, view>>

(* ctx.Err() or a read error: the events decoded so far are dropped. *)
ReadFails(r) ==
    /\ pc[r] = "read"
    /\ view' = [view EXCEPT ![r] = <<>>] /\ Goto(r, "unlock-error")
    /\ UNCHANGED <<file, locks, wrote, partial>>

UnlockShared(r) ==
    /\ \/ pc[r] = "unlock-ok" /\ Goto(r, "ok")
       \/ pc[r] = "unlock-error" /\ Goto(r, "error")
    /\ shared' = shared \ {r}
    /\ UNCHANGED <<file, excl, wrote, reads>>
-----------------------------------------------------------------------------
(* Failures and repair *)

(* flock returns an error: AppendEvents and ReadAll return it. *)
LockFails(p) ==
    /\ pc[p] = "lock" /\ Goto(p, "error")
    /\ UNCHANGED <<file, locks, wrote, reads>>

(* SIGKILL: the kernel closes the file and drops the lock; what was        *)
(* written stays in the page cache.                                        *)
Kill(p) ==
    /\ pc[p] \notin Ended
    /\ Goto(p, "dead")
    /\ excl' = (IF excl = p THEN None ELSE excl)
    /\ shared' = shared \ {p}
    /\ UNCHANGED <<file, wrote, reads>>

(* Every process dies and the unsynced part of the file is cut anywhere. *)
PowerLoss ==
    /\ exists
    /\ \E k \in synced .. Len(lines) :
          /\ lines' = SubSeq(lines, 1, k)
          /\ synced' = k
          /\ tail' \in {None, IF k < Len(lines) THEN lines[k + 1] ELSE tail}
    /\ pc' = [p \in Procs |-> IF pc[p] \in Ended THEN pc[p] ELSE "dead"]
    /\ excl' = None /\ shared' = {}
    /\ UNCHANGED <<exists, wrote, reads>>

(* The user deletes the incomplete line while nobody holds the lock. *)
RepairTail ==
    /\ tail # None /\ excl = None /\ shared = {}
    /\ tail' = None
    /\ UNCHANGED <<exists, lines, synced, locks, pc, wrote, reads>>

AppendStep(w) ==
    \/ Encode(w) \/ Open(w) \/ LockExclusive(w) \/ CheckTail(w)
    \/ WriteBytes(w) \/ WriteNewline(w) \/ WriteFails(w) \/ Sync(w) \/ Unlock(w)

ReadStep(r) ==
    \/ OpenRead(r) \/ LockShared(r) \/ ReadLine(r)
    \/ ReadEnd(r) \/ ReadFails(r) \/ UnlockShared(r)

Next ==
    \/ \E w \in Writers : AppendStep(w)
    \/ \E r \in Readers : ReadStep(r)
    \/ \E p \in Procs : LockFails(p) \/ Kill(p)
    \/ PowerLoss
    \/ RepairTail

(* Each process is scheduled, and flock is granted to somebody: processes  *)
(* are finitely many and end, so weak fairness of each step is enough.     *)
Fairness ==
    /\ \A w \in Writers : WF_vars(AppendStep(w))
    /\ \A r \in Readers : WF_vars(ReadStep(r))

Spec == Init /\ [][Next]_vars
FairSpec == Spec /\ Fairness
-----------------------------------------------------------------------------
(* Properties *)

(* Every variable has its type; the synced part is part of the file. *)
TypeOK ==
    /\ exists \in BOOLEAN
    /\ lines \in Seq(Line)
    /\ tail \in Line \cup {None}
    /\ synced \in 0 .. Len(lines)
    /\ excl \in Writers \cup {None}
    /\ shared \in SUBSET Readers
    /\ pc \in [Procs -> Ended \cup
              {"start", "open", "lock", "check", "write", "sync", "read",
               "unlock-ok", "unlock-error", "unlock-refused"}]
    /\ wrote \in [Writers -> Nat]
    /\ \A w \in Writers : wrote[w] <= Size[w]
    /\ view \in [Readers -> Seq(Event)]
    /\ partial \in [Readers -> BOOLEAN]

(* An append that returned nil has all its events in the file, together,   *)
(* in order, and on stable storage: a kill or a power loss at any later    *)
(* time cannot take one of them away.                                      *)
AckedIsDurable ==
    \A w \in Writers : pc[w] = "ok" =>
        \E b \in 0 .. synced - Size[w] :
            \A i \in 1 .. Size[w] : lines[b + i] = <<w, i>>

(* However the appends of several processes overlap, and whoever is killed *)
(* in one, the events of a process are a contiguous run of the file, a     *)
(* prefix of its batch, each once.                                         *)
BatchesDontInterleave ==
    \A j, k \in 1 .. Len(lines) :
        /\ lines[j] = lines[k] => j = k
        /\ lines[j][2] > 1 => j > 1 /\ lines[j - 1] = <<lines[j][1], lines[j][2] - 1>>

(* No complete line is undecodable: a line torn by a dead writer is never  *)
(* glued to the next writer's line, which would make every later ReadAll,  *)
(* and with it list, restore, purge and doctor, fail for good.             *)
NeverCorrupt == \A j \in 1 .. Len(lines) : lines[j] # Corrupt

(* A read that succeeded has all the events of an append that succeeded or *)
(* none: a listing never shows half of another command's removal.          *)
ReadsSeeWholeBatches ==
    \A r \in Readers, w \in Writers : pc[r] = "ok" /\ pc[w] = "ok" =>
        LET seen == {j \in 1 .. Len(view[r]) : view[r][j][1] = w}
        IN  Cardinality(seen) \in {0, Size[w]}

(* doctor reports an incomplete line only when a writer failed or died: it *)
(* never takes the write of a running command for damage.                  *)
NoFalseAlarm ==
    (\E r \in Readers : pc[r] = "ok" /\ partial[r]) =>
        \E w \in Writers : pc[w] \in {"error", "dead"}

(* Whatever happens, an event on stable storage stays where it is. *)
SyncedIsForever ==
    [][\A i \in 1 .. synced : i <= Len(lines') /\ lines'[i] = lines[i]]_vars

(* Every append and every read comes to an end, whoever is killed with the *)
(* lock in hand and whichever error path is taken.                         *)
EveryCallReturns == \A p \in Procs : <>(pc[p] \in Ended)
-----------------------------------------------------------------------------
(* Refinement: a batch enters the log when its sync decides the append. *)

Writing(w) == excl = w /\ pc[w] \in {"write", "sync"}
InFlight == \E w \in Writers : Writing(w)

(* The lines before those of the append under way. *)
DecidedLines == IF InFlight THEN SubSeq(lines, 1, Len(lines) - wrote[excl]) ELSE lines
Torn == ~InFlight /\ tail # None

Log == INSTANCE EventLog WITH
    Batches <- {BatchOf(w) : w \in {v \in Writers : Size[v] > 0}},
    log <- DecidedLines,
    kept <- synced,
    torn <- Torn

(* The locked, many-step append implements the log that grows by batches. *)
ImplementsEventLog == Log!Spec
=============================================================================
