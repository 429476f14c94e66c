-------------------------------- MODULE Trash --------------------------------
(***************************************************************************)
(* One trash directory and the bearm commands that share it: removals      *)
(* (ReserveName, RenameNoReplace, Rollback), restores and purges, each a   *)
(* process of its own, with nothing between them but the file system and   *)
(* the journal.  A name that several operands compete for is a family of   *)
(* slots, the suffixes ReserveName tries in turn.                          *)
(***************************************************************************)
EXTENDS Sequences, Integers, FiniteSets

CONSTANTS
    Removers,    \* removal commands
    Restorers,   \* bearm restore commands
    Purgers,     \* bearm purge commands
    Path,        \* places outside the trash, all with one base name
    Operands,    \* Operands[p]: the paths p removes, in plan order
    Siblings,    \* Siblings[d]: the paths d.restored.1, d.restored.2, ...
    Content,     \* what the user's files hold, each content in one file
    Slot,        \* the suffixes 0 .. MaxSuffix (0 .. 9999 in the code)
    MaxSuffix,
    Custom,      \* trash.custom_path is set: the backend does not route by device
    NoReplace,   \* the file system has RENAME_NOREPLACE
    Collision,   \* restore.collision_policy: "fail" or "rename"
    Overlap,     \* restore and purge commands may run at the same time
    JournalFails,\* an append may fail and leave part of its batch
    MayDie,      \* the commands that may be killed
    None

Undoers == Restorers \cup Purgers
Procs == Removers \cup Undoers
(* The i-th operand of p, as the item that its fresh random ID names. *)
Item == UNION {{p} \X DOMAIN Operands[p] : p \in Removers}

ASSUME TrashAssumption ==
    /\ IsFiniteSet(Path) /\ MaxSuffix \in Nat /\ Slot = 0 .. MaxSuffix
    /\ Operands \in [Removers -> Seq(Path)]
    /\ Siblings \in [Path -> Seq(Path)]
    /\ \A flag \in {Custom, NoReplace, Overlap, JournalFails} : flag \in BOOLEAN
    /\ Collision \in {"fail", "rename"}
    /\ MayDie \subseteq Procs
    /\ Removers \cap Undoers = {} /\ Restorers \cap Purgers = {}
    /\ None \notin Content /\ None \notin Item

Record == [item : Item, slot : Slot, orig : Path]
Event == [action : {"trashed", "restored", "purged"}, record : Record]

VARIABLES
    home,   \* home[d]: the content at path d, or None
    files,  \* files[s]: the content in trash under suffix s, or None
    meta,   \* meta[s]: the item whose metadata file has suffix s, or None
    fresh,  \* the contents the user has not created yet
    log, kept, torn,  \* the journal
    pc,     \* where each command is
    at,     \* at[p]: the operand p is working on
    slot,   \* slot[p]: the suffix p tries, then has reserved
    todo,   \* todo[u]: the records u has still to undo
    try,    \* try[u]: which destination restore u tries
    batch,  \* batch[p]: the events p will append at its end
    owns,   \* history: owns[i], the content that was moved as item i
    stuck   \* history: the items whose metadata could not be rolled back

disk == <<home, files, meta>>
journal == <<log, kept, torn>>
work == <<at, slot, todo, try, batch>>
vars == <<disk, fresh, journal, pc, work, owns, stuck>>

Journal == INSTANCE EventLog WITH Batches <- {<<e>> : e \in Event}

Goto(p, label) == pc' = [pc EXCEPT ![p] = label]
Ended == {"done", "failed", "refused", "dead"}
Running(p) == pc[p] \notin Ended \cup {"idle"}

ItemOf(p) == <<p, at[p]>>
Source(p) == Operands[p][at[p]]
Current(u) == Head(todo[u])

Init ==
    /\ home = [d \in Path |-> None] /\ fresh = Content
    /\ files = [s \in Slot |-> None] /\ meta = [s \in Slot |-> None]
    /\ log = <<>> /\ kept = 0 /\ torn = FALSE
    /\ pc = [p \in Procs |-> IF p \in Removers THEN "next" ELSE "idle"]
    /\ at = [p \in Removers |-> 0] /\ slot = [p \in Removers |-> 0]
    /\ todo = [u \in Undoers |-> <<>>] /\ try = [u \in Undoers |-> 1]
    /\ batch = [p \in Procs |-> <<>>]
    /\ owns = [i \in Item |-> None] /\ stuck = {}
-----------------------------------------------------------------------------
(* Removal: the loop of Execute, and Move for each target *)

(* Mutant: a cancelled removal returns without the journal. *)
NextTargetReturns(p) ==
    /\ pc[p] = "next"
    /\ \/ /\ at[p] < Len(Operands[p])
          /\ at' = [at EXCEPT ![p] = @ + 1]
          /\ slot' = [slot EXCEPT ![p] = 0]
          /\ \E label \in {"probe", "done"} : Goto(p, label)
       \/ Goto(p, "append") /\ UNCHANGED <<at, slot>>
    /\ UNCHANGED <<disk, fresh, journal, todo, try, batch, owns, stuck>>

(* The next target; or it fails, or is declined, before its move; or the   *)
(* targets are used up, or the context was cancelled.                      *)
NextTarget(p) ==
    /\ pc[p] = "next"
    /\ \/ /\ at[p] < Len(Operands[p])
          /\ at' = [at EXCEPT ![p] = @ + 1]
          /\ slot' = [slot EXCEPT ![p] = 0]
          /\ \E label \in {"probe", "next"} : Goto(p, label)
       \/ Goto(p, "append") /\ UNCHANGED <<at, slot>>
    /\ UNCHANGED <<disk, fresh, journal, todo, try, batch, owns, stuck>>

(* Mutant: the limit is one suffix too high. *)
NextSuffixUnbounded(p) ==
    IF slot[p] <= MaxSuffix
    THEN slot' = [slot EXCEPT ![p] = @ + 1] /\ Goto(p, "probe")
    ELSE slot' = slot /\ Goto(p, "next")

(* One suffix is taken: try the next, up to the limit. *)
NextSuffix(p) ==
    IF slot[p] < MaxSuffix
    THEN slot' = [slot EXCEPT ![p] = @ + 1] /\ Goto(p, "probe")
    ELSE slot' = slot /\ Goto(p, "next")

(* Mutant: a taken target is probed again. *)
ProbeTargetAgain(p) ==
    /\ pc[p] = "probe"
    /\ Goto(p, IF files[slot[p]] # None THEN "probe" ELSE "create")
    /\ UNCHANGED <<disk, fresh, journal, work, owns, stuck>>

ProbeTarget(p) ==
    /\ pc[p] = "probe"
    /\ IF files[slot[p]] # None
       THEN NextSuffix(p)
       ELSE slot' = slot /\ Goto(p, "create")
    /\ UNCHANGED <<disk, fresh, journal, at, todo, try, batch, owns, stuck>>

(* Mutant: the metadata is created without O_EXCL. *)
CreateMetadataShared(p) ==
    /\ pc[p] = "create"
    /\ meta' = [meta EXCEPT ![slot[p]] = ItemOf(p)]
    /\ Goto(p, IF NoReplace THEN "rename" ELSE "lstat")
    /\ UNCHANGED <<home, files, fresh, journal, work, owns, stuck>>

(* Mutant: metadata that cannot be written is not removed. *)
CreateMetadataKeeps(p) ==
    /\ pc[p] = "create"
    /\ \/ meta[slot[p]] # None /\ NextSuffix(p) /\ meta' = meta
       \/ Goto(p, "next") /\ UNCHANGED <<slot, meta>>
       \/ /\ meta[slot[p]] = None
          /\ meta' = [meta EXCEPT ![slot[p]] = ItemOf(p)]
          /\ \/ Goto(p, IF NoReplace THEN "rename" ELSE "lstat")
             \/ Goto(p, "next")
          /\ slot' = slot
    /\ UNCHANGED <<home, files, fresh, journal, at, todo, try, batch, owns, stuck>>

(* O_CREATE|O_EXCL on the metadata path, then write, sync and close.  An   *)
(* open that fails for another reason ends the target.                     *)
CreateMetadata(p) ==
    /\ pc[p] = "create"
    /\ \/ meta[slot[p]] # None /\ NextSuffix(p) /\ meta' = meta
       \/ Goto(p, "next") /\ UNCHANGED <<slot, meta>>
       \/ /\ meta[slot[p]] = None
          /\ meta' = [meta EXCEPT ![slot[p]] = ItemOf(p)]
          /\ \/ Goto(p, IF NoReplace THEN "rename" ELSE "lstat")
             \/ Goto(p, "rollback")  \* the write failed: os.Remove
          /\ slot' = slot
    /\ UNCHANGED <<home, files, fresh, journal, at, todo, try, batch, owns, stuck>>

(* Without RENAME_NOREPLACE: Lstat of the target first. *)
LstatTarget(p) ==
    /\ pc[p] = "lstat" /\ p \in Removers
    /\ Goto(p, IF files[slot[p]] # None THEN "rollback" ELSE "rename")
    /\ UNCHANGED <<disk, fresh, journal, work, owns, stuck>>

(* The rename and, when it succeeds, Commit and the record.  A rename can  *)
(* always fail for reasons of its own; renameat2 refuses a taken target,   *)
(* rename replaces it.                                                     *)
MoveToTrash(p) ==
    /\ pc[p] = "rename"
    /\ \/ Goto(p, "rollback") /\ UNCHANGED <<home, files, batch, owns, stuck>>
       \/ /\ home[Source(p)] # None
          /\ NoReplace => files[slot[p]] = None
          /\ files' = [files EXCEPT ![slot[p]] = home[Source(p)]]
          /\ home' = [home EXCEPT ![Source(p)] = None]
          /\ owns' = [owns EXCEPT ![ItemOf(p)] = home[Source(p)]]
          /\ batch' = [batch EXCEPT ![p] = Append(@, [action |-> "trashed",
                record |-> [item |-> ItemOf(p), slot |-> slot[p], orig |-> Source(p)]])]
          /\ Goto(p, "next")
    /\ UNCHANGED <<meta, fresh, journal, at, slot, todo, try, stuck>>

(* os.Remove of the metadata path, whosever metadata is there by now; when *)
(* it fails, nobody is told.                                               *)
Rollback(p) ==
    /\ pc[p] = "rollback"
    /\ \/ meta' = [meta EXCEPT ![slot[p]] = None] /\ stuck' = stuck
       \/ meta' = meta /\ stuck' = stuck \cup {ItemOf(p)}
    /\ Goto(p, "next")
    /\ UNCHANGED <<home, files, fresh, journal, work, owns>>
-----------------------------------------------------------------------------
(* Restore and purge: select, then undo the records one by one *)

(* Mutant: restored items stay active. *)
ActiveIgnoresRestored ==
    {log[k].record : k \in {k \in 1 .. Len(log) :
        /\ log[k].action = "trashed"
        /\ \A j \in k + 1 .. Len(log) :
              log[j].record.item # log[k].record.item \/ log[j].action = "restored"}}

(* ActiveItems: the records trashed and not undone since.                  *)
Active ==
    {log[k].record : k \in {k \in 1 .. Len(log) :
        /\ log[k].action = "trashed"
        /\ \A j \in k + 1 .. Len(log) : log[j].record.item # log[k].record.item}}

(* A selection of active records, in any order: by their IDs, by operation *)
(* or the last one, the code keeps that of their times of deletion.  The   *)
(* lock on the journal is released when the records are chosen.            *)
Select(u) ==
    /\ pc[u] = "idle"
    /\ Overlap \/ \A v \in Undoers : ~Running(v)
    /\ \/ \E n \in 1 .. Len(log) :
            \E rs \in [1 .. n -> Active] :
                /\ \A j, k \in 1 .. n : rs[j] = rs[k] => j = k
                /\ todo' = [todo EXCEPT ![u] = rs]
          /\ Goto(u, IF u \in Purgers THEN "confirm" ELSE "next")
       \/ Goto(u, "failed") /\ todo' = todo  \* no such active item
    /\ UNCHANGED <<disk, fresh, journal, at, slot, try, batch, owns, stuck>>

(* The backends that route by device resolve the root of a record by the   *)
(* device of its original path, with Lstat.                                *)
RootsResolve(u) ==
    Custom \/ \A j \in 1 .. Len(todo[u]) : home[todo[u][j].orig] # None

(* The prompt of purge, then the trash roots of its records: without them  *)
(* every record is outside the trash.                                      *)
ConfirmPurge(u) ==
    /\ pc[u] = "confirm"
    /\ \/ Goto(u, "failed")  \* declined, or the prompt or a Resolve fails
       \/ RootsResolve(u) /\ Goto(u, "next")
       \/ ~RootsResolve(u) /\ Goto(u, "refused")
    /\ UNCHANGED <<disk, fresh, journal, work, owns, stuck>>

NextRecord(u) ==
    /\ pc[u] = "next"
    /\ \/ /\ todo[u] # <<>>
          /\ Goto(u, IF u \in Restorers /\ ~NoReplace THEN "lstat" ELSE "undo")
       \/ Goto(u, "append")  \* no record left, or cancelled
    /\ UNCHANGED <<disk, fresh, journal, work, owns, stuck>>

(* The record fails; the loop goes on with the next one. *)
Skip(u) ==
    /\ todo' = [todo EXCEPT ![u] = Tail(@)]
    /\ try' = [try EXCEPT ![u] = 1]
    /\ Goto(u, "next")

Destinations(d) == IF Collision = "fail" THEN <<d>> ELSE <<d>> \o Siblings[d]
Destination(u) == Destinations(Current(u).orig)[try[u]]

(* The destination exists: the next sibling, or fail. *)
Collide(u) ==
    IF try[u] < Len(Destinations(Current(u).orig))
    THEN try' = [try EXCEPT ![u] = @ + 1] /\ UNCHANGED <<todo, pc>>
    ELSE Skip(u)

LstatDestination(u) ==
    /\ pc[u] = "lstat" /\ u \in Restorers
    /\ IF home[Destination(u)] # None
       THEN Collide(u)
       ELSE Goto(u, "undo") /\ UNCHANGED <<todo, try>>
    /\ UNCHANGED <<disk, fresh, journal, at, slot, batch, owns, stuck>>

(* Mutant: the restore is a plain rename. *)
MoveBackReplaces(u) ==
    /\ pc[u] = "undo" /\ u \in Restorers /\ files[Current(u).slot] # None
    /\ home' = [home EXCEPT ![Destination(u)] = files[Current(u).slot]]
    /\ files' = [files EXCEPT ![Current(u).slot] = None]
    /\ Goto(u, "unmeta") /\ UNCHANGED <<todo, try>>
    /\ UNCHANGED <<meta, fresh, journal, at, slot, batch, owns, stuck>>

MoveBack(u) ==
    /\ pc[u] = "undo" /\ u \in Restorers
    /\ \/ Skip(u) /\ UNCHANGED <<home, files>>   \* missing, EXDEV, ...
       \/ /\ files[Current(u).slot] # None
          /\ NoReplace /\ home[Destination(u)] # None
          /\ Collide(u) /\ UNCHANGED <<home, files>>
       \/ /\ files[Current(u).slot] # None
          /\ NoReplace => home[Destination(u)] = None
          /\ home' = [home EXCEPT ![Destination(u)] = files[Current(u).slot]]
          /\ files' = [files EXCEPT ![Current(u).slot] = None]
          /\ Goto(u, "unmeta") /\ UNCHANGED <<todo, try>>
    /\ UNCHANGED <<meta, fresh, journal, at, slot, batch, owns, stuck>>

(* os.RemoveAll, for which a missing path is no error. *)
RemoveAll(u) ==
    /\ pc[u] = "undo" /\ u \in Purgers
    /\ \/ Skip(u) /\ files' = files
       \/ /\ files' = [files EXCEPT ![Current(u).slot] = None]
          /\ Goto(u, "unmeta") /\ UNCHANGED <<todo, try>>
    /\ UNCHANGED <<home, meta, fresh, journal, at, slot, batch, owns, stuck>>

(* Mutant: an item whose metadata cannot be removed gets no event. *)
RemoveMetadataReturns(u) ==
    /\ pc[u] = "unmeta"
    /\ \/ meta' = meta /\ batch' = batch
       \/ /\ meta' = [meta EXCEPT ![Current(u).slot] = None]
          /\ batch' = [batch EXCEPT ![u] = Append(@,
                [action |-> "purged", record |-> Current(u)])]
    /\ Skip(u)
    /\ UNCHANGED <<home, files, fresh, journal, at, slot, owns, stuck>>

(* RemoveRecordMetadata, which may fail, and the event. *)
RemoveMetadata(u) ==
    /\ pc[u] = "unmeta"
    /\ meta' \in {meta, [meta EXCEPT ![Current(u).slot] = None]}
    /\ batch' = [batch EXCEPT ![u] = Append(@,
          IF u \in Restorers
          THEN [action |-> "restored", record |-> [Current(u) EXCEPT !.orig = Destination(u)]]
          ELSE [action |-> "purged", record |-> Current(u)])]
    /\ Skip(u)
    /\ UNCHANGED <<home, files, fresh, journal, at, slot, owns, stuck>>
-----------------------------------------------------------------------------
(* AppendEvents at the end of a command, which nothing cancels. *)
AppendBatch(p) ==
    /\ pc[p] = "append"
    /\ \/ batch[p] = <<>> /\ Goto(p, "done") /\ UNCHANGED journal
       \/ batch[p] # <<>> /\ Journal!AppendAll(batch[p]) /\ Goto(p, "done")
       \/ batch[p] # <<>> /\ torn /\ Goto(p, "failed") /\ UNCHANGED journal
       \/ /\ batch[p] # <<>> /\ JournalFails
          /\ Journal!AppendPart(batch[p]) /\ Goto(p, "failed")
    /\ UNCHANGED <<disk, fresh, work, owns, stuck>>

Kill(p) ==
    /\ p \in MayDie /\ Running(p) /\ Goto(p, "dead")
    /\ UNCHANGED <<disk, fresh, journal, work, owns, stuck>>

(* The user makes a new file. *)
Create(d) ==
    /\ home[d] = None
    /\ \E c \in fresh : home' = [home EXCEPT ![d] = c] /\ fresh' = fresh \ {c}
    /\ UNCHANGED <<files, meta, journal, pc, work, owns, stuck>>

RemovalStep(p) ==
    \/ NextTarget(p) \/ ProbeTarget(p) \/ CreateMetadata(p)
    \/ LstatTarget(p) \/ MoveToTrash(p) \/ Rollback(p) \/ AppendBatch(p)

UndoStep(u) ==
    \/ Select(u) \/ ConfirmPurge(u) \/ NextRecord(u) \/ LstatDestination(u)
    \/ MoveBack(u) \/ RemoveAll(u) \/ RemoveMetadata(u) \/ AppendBatch(u)

Next ==
    \/ \E p \in Removers : RemovalStep(p)
    \/ \E u \in Undoers : UndoStep(u)
    \/ \E p \in Procs : Kill(p)
    \/ \E d \in Path : Create(d)

(* Commands are scheduled; the user need not do anything, and nobody has   *)
(* to start a command.                                                     *)
Fairness == \A p \in Procs :
    WF_vars(pc[p] # "idle" /\ (IF p \in Removers THEN RemovalStep(p) ELSE UndoStep(p)))

Spec == Init /\ [][Next]_vars
FairSpec == Spec /\ Fairness
-----------------------------------------------------------------------------
(* bearm doctor *)

(* Check: a torn journal, and the active records with nothing in the trash. *)
Findings ==
    (IF torn THEN {<<"incomplete-journal-line">>} ELSE {})
        \cup {<<"missing-trash-item", r.slot>> : r \in {r \in Active : files[r.slot] = None}}
-----------------------------------------------------------------------------
(* Properties *)

DiskOK ==
    /\ home \in [Path -> Content \cup {None}]
    /\ files \in [Slot -> Content \cup {None}]
    /\ meta \in [Slot -> Item \cup {None}]
    /\ fresh \in SUBSET Content
    /\ owns \in [Item -> Content \cup {None}] /\ stuck \in SUBSET Item
JournalOK == log \in Seq(Event) /\ kept \in 0 .. Len(log) /\ torn \in BOOLEAN
RemovalsOK ==
    /\ at \in [Removers -> Nat] /\ \A p \in Removers : at[p] <= Len(Operands[p])
    /\ slot \in [Removers -> Slot]
UndosOK == todo \in [Undoers -> Seq(Record)] /\ try \in [Undoers -> Nat \ {0}]
Labels ==
    Ended \cup {"idle", "next", "probe", "create", "lstat", "rename", "rollback",
               "confirm", "undo", "unmeta", "append"}

(* Every variable has its type. *)
TypeOK ==
    /\ DiskOK /\ JournalOK /\ RemovalsOK /\ UndosOK
    /\ pc \in [Procs -> Labels] /\ batch \in [Procs -> Seq(Event)]

(* From the O_EXCL create of its metadata to Commit or Rollback, a removal *)
(* owns its suffix: no other removal has it, and nobody takes the metadata *)
(* away under it.                                                          *)
Reserved(p) == pc[p] \in {"lstat", "rename", "rollback"}
ReservationsExclusive ==
    \A p \in Removers : Reserved(p) => meta[slot[p]] = ItemOf(p)

(* "It never overwrites an existing trash item": even where rename         *)
(* replaces its target, no step puts one item in the place of another.     *)
TrashNeverOverwritten ==
    [][\A s \in Slot : files[s] # None => files'[s] \in {files[s], None}]_vars

(* Metadata of an item that was not moved is that of a reservation of now, *)
(* or its removal was killed, or os.Remove could not take it away: every   *)
(* way a move can fail goes through a rollback of its reservation.         *)
NoLeakedReservation ==
    \A s \in Slot : meta[s] # None /\ owns[meta[s]] = None =>
        LET p == meta[s][1]
        IN  pc[p] = "dead" \/ meta[s] \in stuck \/ (Reserved(p) /\ slot[p] = s)

(* How often content c is there: outside, in the trash, or still to come. *)
Places(c) ==
    Cardinality({d \in Path : home[d] = c}) + Cardinality({s \in Slot : files[s] = c})
        + (IF c \in fresh THEN 1 ELSE 0)

(* With RENAME_NOREPLACE every content stays in one place, outside or in   *)
(* the trash, until a purge takes it: no interleaving of removals and      *)
(* restores, no failure and no kill loses or copies one.                   *)
NothingLost ==
    [][\A c \in Content :
        \/ Places(c)' = Places(c)
        \/ Places(c)' = 0 /\ \E u \in Purgers : pc[u] = "undo" /\ pc'[u] = "unmeta"]_vars

(* A removal that ended well, cut short by a cancellation or not, has      *)
(* every item it moved in the journal.                                     *)
MovesAreRecorded ==
    \A p \in Removers : pc[p] = "done" =>
        \A i \in Item : i[1] = p /\ owns[i] # None =>
            \E k \in 1 .. Len(log) : log[k].action = "trashed" /\ log[k].record.item = i

(* What leaves the trash is the item whose record the command was given:   *)
(* a restore or purge never touches a later item under the same name.      *)
OnlySelectedLeaves ==
    [][\A s \in Slot : files[s] # None /\ files'[s] # files[s] =>
        \E u \in Undoers :
            /\ pc[u] = "undo" /\ pc'[u] = "unmeta"
            /\ Current(u).slot = s /\ owns[Current(u).item] = files[s]]_vars

(* A listed item can be recovered: its content and its metadata are where  *)
(* its record says, unless a running command has it in hand.               *)
InHand(r) == \E u \in Undoers : Running(u) /\ \E k \in 1 .. Len(todo[u]) : todo[u][k] = r
Undone(r) == \E u \in Undoers : Running(u) /\
    \E k \in 1 .. Len(batch[u]) : batch[u][k].record.item = r.item
ActiveIntact ==
    \A r \in Active : ~InHand(r) /\ ~Undone(r) =>
        files[r.slot] = owns[r.item] /\ meta[r.slot] = r.item

(* The journal tells one life per item: trashed, then at most one of       *)
(* restored and purged.                                                    *)
OneLifePerItem ==
    \A j, k \in 1 .. Len(log) :
        /\ j # k /\ log[j].record.item = log[k].record.item =>
              (log[j].action = "trashed") # (log[k].action = "trashed")
        /\ log[k].action # "trashed" =>
              \E h \in 1 .. k - 1 : log[h].record.item = log[k].record.item

(* Every command that is started ends. *)
EveryCommandEnds == \A p \in Procs : Running(p) ~> pc[p] \in Ended

(* docs/recovery.md of purge: it permanently deletes the selected active   *)
(* items; it refuses them as outside the trash only when they are.         *)
RefusesOnlyOutsiders ==
    [][\A u \in Purgers : pc[u] = "confirm" /\ pc'[u] = "refused" =>
        \E j \in 1 .. Len(todo[u]) : files[todo[u][j].slot] = None]_vars

(* docs/cli.md of doctor: it detects orphaned trash items that have no     *)
(* journal record.                                                         *)
OrphansAreFound ==
    (\A p \in Procs : pc[p] \in Ended \cup {"idle"}) =>
        \A s \in Slot : files[s] # None =>
            Findings # {} \/ \E r \in Active : r.slot = s
=============================================================================
