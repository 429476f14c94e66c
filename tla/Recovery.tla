------------------------------ MODULE Recovery ------------------------------
(***************************************************************************)
(* Removing parts of a directory tree and getting them back.  Removals     *)
(* move their targets one by one, a walk contents first; restores select   *)
(* records from the journal by ID, by operation or the last operation,     *)
(* make the missing parents and put the items back.  Here a restore runs   *)
(* alone; what commands do to each other inside the trash is in Trash.tla. *)
(***************************************************************************)
EXTENDS Integers, Sequences, FiniteSets

CONSTANTS
    Node,      \* the paths of the tree
    Dir,       \* those the user had directories at
    Above,     \* Above[n]: the paths above n
    Removals,  \* removal commands; each is one operation
    Plan,      \* Plan[o]: the targets of o, in plan order
    Restores,  \* restore commands
    Policies,  \* the values of restore.collision_policy that are tried
    MayFail,   \* the commands that may be killed and whose append may fail
    None

(* What can be at a path: what the user had there, a directory that was    *)
(* made later, a file that was made later.                                 *)
Kind == {"own", "made", "other"}

(* The paths above a path are a chain; None is none of the other values.   *)
ASSUME RecoveryAssumption ==
    /\ Dir \subseteq Node
    /\ Above \in [Node -> SUBSET Dir]
    /\ \A n \in Node :
          /\ n \notin Above[n]
          /\ \A a \in Above[n] : Above[a] \subseteq Above[n]
          /\ \A a, b \in Above[n] : a = b \/ a \in Above[b] \/ b \in Above[a]
    /\ IsFiniteSet(Removals)
    /\ Plan \in [Removals -> Seq(Node)]
    /\ Policies \subseteq {"fail", "rename", "overwrite"}
    /\ Removals \cap Restores = {} /\ MayFail \subseteq Removals \cup Restores
    /\ None \notin Kind
    /\ \A part \in SUBSET Node : None \notin [part -> Kind \cup {None}]

Item == UNION {{o} \X DOMAIN Plan[o] : o \in Removals}
Target(i) == Plan[i[1]][i[2]]
AtOrBelow(n) == {m \in Node : m = n \/ n \in Above[m]}
Record == [item : Item, orig : Node, time : Nat]

VARIABLES
    policy, \* restore.collision_policy
    home,   \* home[n]: what is at path n, or None
    trash,  \* trash[i]: the tree that was moved as item i, or None
    aside,  \* the paths whose own entry was restored to a sibling name
    now,    \* the clock, which no two moves read alike
    log,    \* the events of the journal
    torn,   \* the journal ends in an incomplete line
    pc,     \* where each command is
    at,     \* at[o]: the targets o is done with
    todo,   \* todo[u]: the records u has yet to restore
    batch,  \* batch[c]: the events c will append; history: those it could not
    failed, \* the running restores that have a failed result
    hurt,   \* history: those with one other than for an existing path
    aim     \* history, aim[u]: what u selected, as it was then

tree == <<home, trash, aside>>
journal == <<log, torn>>
work == <<at, todo, batch>>
ends == <<failed, hurt>>
vars == <<policy, tree, now, journal, pc, work, ends, aim>>

Commands == Removals \cup Restores
Running(c) == pc[c] = "run"
Quiet == \A c \in Commands : ~Running(c)

Init ==
    /\ policy \in Policies
    /\ home = [n \in Node |-> "own"]
    /\ trash = [i \in Item |-> None]
    /\ aside = {} /\ now = 0 /\ log = <<>> /\ torn = FALSE
    /\ pc = [c \in Commands |-> "idle"]
    /\ at = [o \in Removals |-> 0]
    /\ todo = [u \in Restores |-> <<>>]
    /\ batch = [c \in Commands |-> <<>>]
    /\ failed = {} /\ hurt = {}
    /\ aim = [u \in Restores |-> None]

Goto(c, label) == pc' = [pc EXCEPT ![c] = label]

(* AppendEvents of what the command did, if it did anything.               *)
AppendBatch(c) ==
    /\ batch[c] = <<>> \/ ~torn
    /\ log' = log \o batch[c] /\ torn' = torn
    /\ batch' = [batch EXCEPT ![c] = <<>>]

(* The append fails, as it does after a torn line, or the command is       *)
(* killed before the end of it: a beginning of the batch is in the         *)
(* journal, with nothing or a torn line after it.                          *)
AppendPart(c) ==
    /\ c \in MayFail \/ (torn /\ batch[c] # <<>>)
    /\ \E k \in 0 .. Len(batch[c]) :
          /\ torn => k = 0
          /\ log' = log \o SubSeq(batch[c], 1, k)
          /\ torn' \in {torn, torn \/ k < Len(batch[c])}
          /\ batch' = [batch EXCEPT ![c] = SubSeq(@, k + 1, Len(@))]
-----------------------------------------------------------------------------
(* Removal *)

Start(o) ==
    /\ pc[o] = "idle" /\ \A u \in Restores : ~Running(u)
    /\ Goto(o, "run")
    /\ UNCHANGED <<policy, tree, now, journal, work, ends, aim>>

(* One target of Execute: refused, declined or failed, or moved with all   *)
(* that is below it.                                                       *)
MoveTarget(o) ==
    /\ Running(o) /\ at[o] < Len(Plan[o])
    /\ at' = [at EXCEPT ![o] = @ + 1]
    /\ \/ UNCHANGED <<home, trash, now, batch>>
       \/ LET i == <<o, at[o] + 1>>
              moved == AtOrBelow(Target(i))
          IN  /\ home[Target(i)] # None
              /\ trash' = [trash EXCEPT ![i] = [n \in moved |-> home[n]]]
              /\ home' = [n \in Node |-> IF n \in moved THEN None ELSE home[n]]
              /\ now' = now + 1
              /\ batch' = [batch EXCEPT ![o] = Append(@, [action |-> "trashed",
                    record |-> [item |-> i, orig |-> Target(i), time |-> now]])]
    /\ UNCHANGED <<policy, aside, journal, pc, todo, ends, aim>>

(* After the last target, or cancelled before one; "failed" is to end      *)
(* before everything that was moved is in the journal.                     *)
FinishRemoval(o) ==
    /\ Running(o)
    /\ \/ AppendBatch(o) /\ Goto(o, "done")
       \/ AppendPart(o) /\ Goto(o, "failed")
    /\ UNCHANGED <<policy, tree, now, at, todo, ends, aim>>
-----------------------------------------------------------------------------
(* Selection *)

Trashings == {j \in DOMAIN log : log[j].action = "trashed"}

(* Mutant: what is active is kept by path. *)
ActiveByPath ==
    {log[j].record : j \in
        {j \in Trashings : \A h \in DOMAIN log :
            log[h].record.orig = log[j].record.orig => h <= j}}

(* The records ActiveItems keeps: the last event of an item counts.        *)
Active ==
    {log[j].record : j \in
        {j \in Trashings : \A h \in DOMAIN log :
            log[h].record.item = log[j].record.item => h <= j}}

Sequences(records) == [1 .. Cardinality(records) -> records]

(* Mutant: the oldest first. *)
OldestFirst(records) ==
    CHOOSE rs \in Sequences(records) :
        \A j, l \in DOMAIN rs : j < l => rs[j].time < rs[l].time

(* ActiveItems returns the newest first, and selections keep that order. *)
NewestFirst(records) ==
    CHOOSE rs \in Sequences(records) :
        \A j, l \in DOMAIN rs : j < l => rs[j].time > rs[l].time

OfOperation(o) == {r \in Active : r.item[1] = o}

(* FindItems: every ID must be that of an active item. *)
FindItems(ids) == {r \in Active : r.item \in ids}
AllFound(ids) == Cardinality(FindItems(ids)) = Cardinality(ids)

(* Mutant: the newest records up to the first of another operation. *)
LatestOperationRun ==
    LET newest == CHOOSE r \in Active : \A s \in Active : s.time <= r.time
    IN  {r \in Active : \A s \in Active :
            s.time >= r.time => s.item[1] = newest.item[1]}

(* All active records of the operation that the newest one is of. *)
LatestOperation ==
    LET newest == CHOOSE r \in Active : \A s \in Active : s.time <= r.time
    IN  OfOperation(newest.item[1])

(* No file stands where a parent of n has to be. *)
ParentsMakeable(n) ==
    \A a \in Above[n] : home[a] \in {None, "own", "made"}

(* History: the operation that was asked for, if one was; whether all was  *)
(* there and nothing in the way; what the selected items held.             *)
Held(i) == {<<n, trash[i][n]>> : n \in {n \in DOMAIN trash[i] : trash[i][n] # None}}
Aim(o, records) ==
    [operation |-> o,
     one |-> \A r, s \in records : r.item[1] = s.item[1],
     clear |-> \A r \in records :
        trash[r.item] # None /\ home[r.orig] = None /\ ParentsMakeable(r.orig),
     held |-> UNION {Held(r.item) : r \in {r \in records : trash[r.item] # None}}]

Chosen(u, o, records) ==
    /\ records # {} /\ policy # "overwrite"
    /\ todo' = [todo EXCEPT ![u] = NewestFirst(records)]
    /\ aim' = [aim EXCEPT ![u] = Aim(o, records)]
    /\ Goto(u, "run")

(* runRestore up to the service: one selector, then the policy. *)
Select(u) ==
    /\ pc[u] = "idle" /\ Quiet
    /\ \/ \E ids \in SUBSET Item : AllFound(ids) /\ Chosen(u, None, FindItems(ids))
       \/ \E o \in Removals : Chosen(u, o, OfOperation(o))
       \/ Active # {} /\ Chosen(u, (CHOOSE r \in LatestOperation : TRUE).item[1], LatestOperation)
       \/ Goto(u, "refused") /\ UNCHANGED <<todo, aim>>  \* nothing found, or overwrite
    /\ UNCHANGED <<policy, tree, now, journal, at, batch, ends>>
-----------------------------------------------------------------------------
(* Restore *)

Current(u) == Head(todo[u])

(* What is at home once MkdirAll has made the missing ones of dirs. *)
WithDirs(dirs) ==
    [n \in Node |-> IF n \in dirs /\ home[n] = None THEN "made" ELSE home[n]]

(* What is at home once the item of r is back too. *)
WithItem(r) ==
    [n \in Node |-> IF n \in AtOrBelow(r.orig) THEN trash[r.item][n]
                                               ELSE WithDirs(Above[r.orig])[n]]

(* Mutant: metadata that cannot be removed is no failed result. *)
RestoredQuietly(u) ==
    /\ batch' = [batch EXCEPT ![u] = Append(@, [action |-> "restored", record |-> Current(u)])]
    /\ trash' = [trash EXCEPT ![Current(u).item] = None]
    /\ \/ UNCHANGED ends
       \/ failed' = failed /\ hurt' = hurt \cup {u}

(* The event of the record; its metadata may fail to be removed. *)
Restored(u) ==
    /\ batch' = [batch EXCEPT ![u] = Append(@, [action |-> "restored", record |-> Current(u)])]
    /\ trash' = [trash EXCEPT ![Current(u).item] = None]
    /\ \/ UNCHANGED ends
       \/ failed' = failed \cup {u} /\ hurt' = hurt \cup {u}

(* An error of MkdirAll, which may have made some of the parents, or of    *)
(* the rename once they are there, which has nothing to move when an       *)
(* earlier restore of the item could not append its event.                 *)
RestoreFails(u) ==
    /\ Running(u) /\ todo[u] # <<>>
    /\ LET reached == {a \in Above[Current(u).orig] :
                          ParentsMakeable(a) /\ home[a] # "other"}
       IN  home' \in {home} \cup {WithDirs(Above[a] \cup {a}) : a \in reached}
    /\ todo' = [todo EXCEPT ![u] = Tail(@)]
    /\ failed' = failed \cup {u} /\ hurt' = hurt \cup {u}
    /\ UNCHANGED <<policy, trash, aside, now, journal, pc, at, batch, aim>>

(* Mutant: the item replaces a directory that is in the way. *)
PutBackReplaces(u) ==
    LET r == Current(u) IN
    /\ Running(u) /\ todo[u] # <<>> /\ trash[r.item] # None
    /\ ParentsMakeable(r.orig) /\ home[r.orig] # "other"
    /\ home' = WithItem(r)
    /\ todo' = [todo EXCEPT ![u] = Tail(@)]
    /\ Restored(u)
    /\ UNCHANGED <<policy, aside, now, journal, pc, at, aim>>

(* The destination is free: the item is back with all it holds. *)
PutBack(u) ==
    LET r == Current(u) IN
    /\ Running(u) /\ todo[u] # <<>> /\ trash[r.item] # None
    /\ ParentsMakeable(r.orig) /\ home[r.orig] = None
    /\ home' = WithItem(r)
    /\ todo' = [todo EXCEPT ![u] = Tail(@)]
    /\ Restored(u)
    /\ UNCHANGED <<policy, aside, now, journal, pc, at, aim>>

(* The destination exists: the item stays, or goes to a sibling name. *)
Collide(u) ==
    LET r == Current(u) IN
    /\ Running(u) /\ todo[u] # <<>> /\ trash[r.item] # None
    /\ home[r.orig] # None
    /\ todo' = [todo EXCEPT ![u] = Tail(@)]
    /\ \/ /\ policy = "fail" /\ failed' = failed \cup {u}
          /\ UNCHANGED <<trash, aside, batch, hurt>>
       \/ /\ policy = "rename" /\ Restored(u)
          /\ aside' = aside \cup {n \in DOMAIN trash[r.item] : trash[r.item][n] = "own"}
    /\ UNCHANGED <<policy, home, now, journal, pc, at, aim>>

(* renderNativeResults: 1 for any failed result, a cancellation included. *)
ExitStatus(u) == IF todo[u] # <<>> \/ u \in failed THEN 1 ELSE 0

(* After the last record, or cancelled before one, or killed. *)
FinishRestore(u) ==
    /\ Running(u)
    /\ \/ AppendBatch(u) /\ Goto(u, IF ExitStatus(u) = 0 THEN "done" ELSE "failed")
       \/ AppendPart(u) /\ Goto(u, "failed")
    /\ todo' = [todo EXCEPT ![u] = <<>>] /\ aim' = [aim EXCEPT ![u] = None]
    /\ failed' = failed \ {u} /\ hurt' = hurt \ {u}
    /\ UNCHANGED <<policy, tree, now, at>>
-----------------------------------------------------------------------------
(* The user makes a file or a directory while no command runs. *)
Create(n) ==
    /\ Quiet /\ home[n] = None
    /\ \A a \in Above[n] : home[a] \in {"own", "made"}
    /\ \E kind \in {"other"} \cup (IF n \in Dir THEN {"made"} ELSE {}) :
          home' = [home EXCEPT ![n] = kind]
    /\ UNCHANGED <<policy, trash, aside, now, journal, pc, work, ends, aim>>

(* docs/recovery.md: the user removes the torn line. *)
Repair ==
    /\ Quiet /\ torn /\ torn' = FALSE
    /\ UNCHANGED <<policy, tree, now, log, pc, work, ends, aim>>

Next ==
    \/ \E o \in Removals : Start(o) \/ MoveTarget(o) \/ FinishRemoval(o)
    \/ \E u \in Restores :
          Select(u) \/ RestoreFails(u) \/ PutBack(u) \/ Collide(u) \/ FinishRestore(u)
    \/ (\E n \in Node : Create(n)) \/ Repair

Spec == Init /\ [][Next]_vars
-----------------------------------------------------------------------------
(* Properties *)

(* Every variable has its type; an item holds what it was moved for, and   *)
(* what went wrong is among the results.                                   *)
TypeOK ==
    /\ policy \in Policies
    /\ home \in [Node -> Kind \cup {None}]
    /\ \A i \in Item : trash[i] = None \/
          /\ trash[i] \in [AtOrBelow(Target(i)) -> Kind \cup {None}]
          /\ trash[i][Target(i)] # None
    /\ aside \subseteq Node
    /\ now \in 0 .. Cardinality(Item)
    /\ log \in Seq([action : {"trashed", "restored"}, record : Record]) /\ torn \in BOOLEAN
    /\ pc \in [Commands -> {"idle", "run", "done", "failed", "refused"}]
    /\ at \in [Removals -> Nat]
    /\ todo \in [Restores -> Seq(Record)]
    /\ failed \subseteq Restores /\ hurt \subseteq failed

(* Between commands the active records are those of the items in the       *)
(* trash, whatever was removed again, restored in part or failed to be     *)
(* restored.  The exceptions are exactly the items whose event an append   *)
(* that failed, or a command that was killed, left out: one whose removal  *)
(* was not written is in the trash unlisted, one whose restore was not     *)
(* written is listed and gone, however many commands follow.               *)
UnwrittenBy(c) == {batch[c][j].record.item : j \in DOMAIN batch[c]}
Unwritten == UNION {UnwrittenBy(c) : c \in Commands}
TrashIsListed ==
    Quiet => {i \in Item : (trash[i] # None) # (\E r \in Active : r.item = i)} = Unwritten

(* Every entry the user had is somewhere, and only there: at home, under a *)
(* sibling name, or in one item of the trash.                              *)
EntriesSurvive ==
    \A n \in Node :
        Cardinality({i \in Item : trash[i] # None /\ n \in DOMAIN trash[i]
                                    /\ trash[i][n] = "own"})
            + (IF home[n] = "own" THEN 1 ELSE 0) + (IF n \in aside THEN 1 ELSE 0) = 1

(* A restore of items of one operation that are all there and have nothing *)
(* in their way does not get in its own way: unless the disk fails it has  *)
(* no failed result, and all that the items held is at its path again, a   *)
(* walked tree as well as one that was moved whole.                        *)
UndoBringsBack ==
    \A u \in Restores :
        Running(u) /\ todo[u] = <<>> /\ u \notin hurt /\ aim[u].one /\ aim[u].clear =>
            /\ u \notin failed
            /\ \A entry \in aim[u].held : home[entry[1]] = entry[2]

(* A restore of an operation that exits with 0 leaves no item of it in the *)
(* trash, even when the removal ran at the same time as another, or other  *)
(* restores of it failed, but for those the removal could not write to the *)
(* journal.                                                                *)
OperationIsUndoneWhole ==
    [][\A u \in Restores :
        /\ Running(u) /\ pc'[u] = "done"
        /\ aim[u].operation # None
        => \A i \in Item : i[1] = aim[u].operation /\ trash[i] # None =>
              i \in UnwrittenBy(i[1])]_vars
=============================================================================
