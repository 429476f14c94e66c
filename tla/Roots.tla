-------------------------------- MODULE Roots --------------------------------
(***************************************************************************)
(* Where an item goes: the trash roots of the Linux, macOS and custom      *)
(* backends, how Resolve chooses one and Ensure makes its directories      *)
(* step by step, beside other commands that do the same and other programs *)
(* that change these directories; and how a purge derives the root again   *)
(* from the original path.                                                 *)
(***************************************************************************)
EXTENDS Sequences, Integers, FiniteSets, SequencesExt

CONSTANTS
    Removals,    \* removals of one target each, named by the target
    Purges,      \* purge commands
    Device,      \* the file systems
    HomeDevice,  \* the one with the home trash, or the custom one
    On,          \* On[t]: the file system of target t
    Modeless,    \* the file systems that keep no modes
    Settings,    \* the backends: [platform, perMount]
    MaxMeddling, \* how often other programs change a trash directory
    None

ASSUME RootsAssumption ==
    /\ HomeDevice \in Device /\ On \in [Removals -> Device] /\ IsFiniteSet(Removals)
    /\ Modeless \subseteq Device /\ MaxMeddling \in Nat
    /\ Settings \subseteq [platform : {"linux", "darwin", "custom"}, perMount : BOOLEAN]
    /\ Removals \cap Purges = {} /\ None \notin Device

(* The home trash (or the custom root), <mount>/.Trash/<uid> and           *)
(* <mount>/.Trash-<uid>; on macOS the last is <mount>/.Trashes/<uid>.      *)
Home == <<"home", HomeDevice>>
Admin(d) == <<"admin", d>>
Own(d) == <<"own", d>>
Root == {Home} \cup {<<place, d>> : place \in {"admin", "own"}, d \in Device}
DeviceOf(root) == root[2]

(* Where a target is when it is in no trash. *)
Source == <<"source", None>>
Gone == <<"gone", None>>

Procs == Removals \cup Purges
Part == {"root", "files", "info"}
(* A directory of a trash: ours with mode 0700; ours with another mode;    *)
(* somebody else's; something that is no directory.                        *)
Kinds == {"none", "good", "open", "theirs", "other"}

VARIABLES
    setting,  \* the backend in use
    sticky,   \* sticky[d]: what <mount of d>/.Trash is
    dir,      \* dir[root][part]: what is at that path
    place,    \* place[t]: Source, the root t was moved to, or Gone
    again,    \* again[t]: the file system of what is at the path of t, or None
    pc,
    jobs,     \* jobs[p]: the paths p has to resolve
    asked,    \* asked[p]: the file systems it found them on
    cands,    \* cands[p]: the roots still to be tried for the current one
    part,     \* part[p]: which directory of the first of them is in hand
    roots,    \* roots[p]: the roots p resolved
    meddling, \* how often others changed a directory, or a mkdir failed
    seen      \* history: the directories p found private for its move

tree == <<sticky, dir>>
items == <<place, again>>
choice == <<cands, part, roots>>
vars == <<setting, tree, items, pc, jobs, asked, choice, meddling, seen>>

Linux == setting.platform = "linux"
Custom == setting.platform = "custom"
Skeleton == IF setting.platform = "darwin" THEN <<"root", "info">> ELSE <<"root", "files", "info">>
FilesDir == IF setting.platform = "darwin" THEN "root" ELSE "files"
Goto(p, label) == pc' = [pc EXCEPT ![p] = label]

(* A root before the first command: not there, in use, somebody else's, or *)
(* with a file where a directory should be.                                *)
Whole(kind) == [x \in Part |-> kind]
Before ==
    {Whole(kind) : kind \in {"none", "good", "theirs"}} \cup {[Whole("good") EXCEPT !["info"] = "other"]}

Init ==
    /\ setting \in Settings
    /\ sticky \in [Device -> {"none", "sticky", "plain", "other"}]
    /\ dir \in [Root -> Before]
    /\ \A d \in Device :
          /\ sticky[d] \in {"none", "other"} => dir[Admin(d)] = Whole("none")
          /\ d = HomeDevice => dir[Own(d)] = Whole("none")
          /\ d = HomeDevice \/ ~Linux => sticky[d] = "none"
          /\ d # HomeDevice /\ (Custom \/ ~setting.perMount) => dir[Own(d)] = Whole("none")
    /\ place = [t \in Removals |-> Source] /\ again = On
    /\ pc = [p \in Procs |-> IF p \in Removals THEN "resolve" ELSE "idle"]
    /\ jobs = [p \in Procs |-> IF p \in Removals THEN <<p>> ELSE <<>>]
    /\ asked = [p \in Procs |-> <<>>]
    /\ cands = [p \in Procs |-> <<>>] /\ part = [p \in Procs |-> 1]
    /\ roots = [p \in Procs |-> {}]
    /\ meddling = 0 /\ seen = [p \in Procs |-> {}]
-----------------------------------------------------------------------------
(* Resolve *)

(* On Linux the roots for a path on file system d, in the order they are   *)
(* tried: the admin trash only where <mount>/.Trash is a sticky directory. *)
LinuxRoots(d) ==
    IF ~setting.perMount \/ d = HomeDevice THEN <<Home>>
    ELSE IF sticky[d] = "sticky" THEN <<Admin(d), Own(d), Home>>
    ELSE <<Own(d), Home>>

(* On macOS there is one, and no other is tried. *)
DarwinRoots(d) == IF d = HomeDevice THEN <<Home>> ELSE <<Own(d)>>

Candidates(d) ==
    IF Custom THEN <<Home>> ELSE IF Linux THEN LinuxRoots(d) ELSE DarwinRoots(d)

(* The custom backend makes each directory before it looks at it. *)
FirstLook == IF Custom THEN "make" ELSE "check"

(* Without a root a removal has failed, and a purge has no roots at all.   *)
NoRoot(p) ==
    /\ Goto(p, IF p \in Removals THEN "failed" ELSE "purge")
    /\ roots' = [roots EXCEPT ![p] = {}]
    /\ UNCHANGED <<cands, part>>

(* DeviceID of the target or of an original path, by Lstat; the custom     *)
(* backend does not ask.                                                   *)
Resolve(p) ==
    /\ pc[p] = "resolve"
    /\ LET d == again[jobs[p][Len(asked[p]) + 1]]
       IN  /\ asked' = [asked EXCEPT ![p] = Append(@, d)]
           /\ IF d = None /\ ~Custom
              THEN NoRoot(p)
              ELSE /\ cands' = [cands EXCEPT ![p] = Candidates(d)]
                   /\ part' = [part EXCEPT ![p] = 1]
                   /\ Goto(p, FirstLook) /\ roots' = roots
    /\ UNCHANGED <<setting, tree, items, jobs, meddling, seen>>

Choice(p) == Head(cands[p])
Path(p) == <<Choice(p), Skeleton[part[p]]>>
Kind(x) == dir[x[1]][x[2]]

(* Move checks the root once more. *)
Moving(p) == p \in Removals /\ roots[p] # {}

(* Mutant: only the root itself has to be private. *)
AcceptableRoot(x) ==
    IF Linux /\ x[1] # Home /\ x[2] = "root"
    THEN Kind(x) = "good"
    ELSE Kind(x) \in {"good", "open", "theirs"}

(* What ensureRealDirectory accepts: a directory, on Linux outside the     *)
(* home trash one of ours that nobody else may enter.                      *)
Acceptable(x) ==
    IF Linux /\ x[1] # Home THEN Kind(x) = "good" ELSE Kind(x) \in {"good", "open", "theirs"}

(* Mutant: the first root that fails Ensure ends Resolve. *)
RejectAtOnce(p) == NoRoot(p)

(* Ensure failed: on to the next root; an error after the last one, and    *)
(* when the target is already being moved.                                 *)
Reject(p) ==
    IF Len(cands[p]) > 1 /\ ~Moving(p)
    THEN /\ cands' = [cands EXCEPT ![p] = Tail(@)] /\ part' = [part EXCEPT ![p] = 1]
         /\ Goto(p, FirstLook) /\ roots' = roots
    ELSE NoRoot(p)

(* Mutant: the walk over the directories goes one too far. *)
AcceptBeyond(p) ==
    /\ part' = [part EXCEPT ![p] = @ + 1] /\ UNCHANGED <<cands, roots>>
    /\ Goto(p, FirstLook)

(* One directory is in order: on to the next; or the root is ready, for a  *)
(* removal to be moved to, for a purge to go on with the next record.      *)
Accept(p) ==
    IF part[p] < Len(Skeleton)
    THEN part' = [part EXCEPT ![p] = @ + 1] /\ Goto(p, FirstLook) /\ UNCHANGED <<cands, roots>>
    ELSE /\ part' = [part EXCEPT ![p] = 1] /\ cands' = cands
         /\ roots' = [roots EXCEPT ![p] = @ \cup {Choice(p)}]
         /\ Goto(p, IF Moving(p) THEN "rename"
                    ELSE IF p \in Removals THEN "move"
                    ELSE IF Len(asked[p]) < Len(jobs[p]) THEN "resolve" ELSE "purge")

(* The Lstat of one directory. *)
CheckDirectory(p) ==
    /\ pc[p] = "check"
    /\ LET x == Path(p)
       IN  \/ /\ Kind(x) = "none" /\ ~Custom
              /\ Goto(p, "make") /\ UNCHANGED <<choice, seen>>
           \/ /\ Kind(x) # "none" /\ Acceptable(x) /\ Accept(p)
              /\ seen' = [seen EXCEPT ![p] = IF Kind(x) = "good" THEN @ \cup {x} ELSE @]
           \/ /\ IF Kind(x) = "none" THEN Custom ELSE ~Acceptable(x)
              /\ Reject(p) /\ seen' = seen
    /\ UNCHANGED <<setting, tree, items, jobs, asked, meddling>>

Exists(kind) == kind \in {"good", "open", "theirs"}
Fresh(d) == IF d \in Modeless THEN "open" ELSE "good"

(* What MkdirAll makes of a root: the directory and the missing ones above *)
(* it, an existing one is left alone; with Chmod it becomes private.       *)
Made(x) ==
    [y \in Part |->
        IF \/ dir[x[1]][y] = "none" /\ y \in {"root", x[2]}
           \/ dir[x[1]][y] # "theirs" /\ y = x[2] /\ ~Custom
        THEN Fresh(DeviceOf(x[1])) ELSE dir[x[1]][y]]

(* Mutant: mkdir instead of MkdirAll, for which an existing directory is   *)
(* an error.                                                               *)
BarredByAny(x) ==
    \/ Kind(x) # "none" \/ dir[x[1]]["root"] = "other"
    \/ x[1][1] = "admin" /\ sticky[DeviceOf(x[1])] = "other"
(* Something on the way is no directory. *)
Barred(x) ==
    \/ Kind(x) = "other" \/ dir[x[1]]["root"] = "other"
    \/ x[1][1] = "admin" /\ sticky[DeviceOf(x[1])] = "other"

(* A mkdir can fail for reasons of its own (no space, read-only). *)
MakeDirectory(p) ==
    /\ pc[p] = "make"
    /\ LET x == Path(p)
       IN  \/ /\ meddling < MaxMeddling /\ meddling' = meddling + 1
              /\ Reject(p) /\ UNCHANGED <<tree, seen>>
           \/ /\ Barred(x) /\ Reject(p) /\ UNCHANGED <<tree, meddling, seen>>
           \/ /\ ~Barred(x)
              /\ dir' = [dir EXCEPT ![x[1]] = Made(x)]
              /\ sticky' = [d \in Device |->
                    IF x[1] = Admin(d) /\ sticky[d] = "none" THEN "plain" ELSE sticky[d]]
              /\ \/ Custom /\ Goto(p, "check") /\ UNCHANGED <<choice, seen>>
                 \/ /\ ~Custom /\ Kind(x) # "theirs" /\ DeviceOf(x[1]) \notin Modeless
                    /\ Accept(p) /\ seen' = [seen EXCEPT ![p] = @ \cup {x}]
                 \/ /\ ~Custom /\ (Kind(x) = "theirs" \/ DeviceOf(x[1]) \in Modeless)
                    /\ Reject(p) /\ seen' = seen
              /\ meddling' = meddling
    /\ UNCHANGED <<setting, items, jobs, asked>>
-----------------------------------------------------------------------------
(* Move and purge *)

(* On Linux Move starts with another Ensure of its root. *)
Move(t) ==
    /\ pc[t] = "move" /\ Goto(t, IF Linux THEN "check" ELSE "rename")
    /\ seen' = [seen EXCEPT ![t] = {}]
    /\ UNCHANGED <<setting, tree, items, jobs, asked, choice, meddling>>

(* ReserveName and RenameNoReplace, seen from outside: they need the       *)
(* directories, and the target on the file system of the root.             *)
Rename(t) ==
    /\ pc[t] = "rename"
    /\ LET root == Choice(t)
       IN  IF /\ Exists(dir[root]["info"]) /\ Exists(dir[root][FilesDir])
              /\ again[t] = DeviceOf(root)
           THEN /\ place' = [place EXCEPT ![t] = root] /\ again' = [again EXCEPT ![t] = None]
                /\ Goto(t, "done")
           ELSE Goto(t, "failed") /\ UNCHANGED items
    /\ seen' = [seen EXCEPT ![t] = {}]
    /\ UNCHANGED <<setting, tree, jobs, asked, choice, meddling>>

(* A purge of trashed items, in any order. *)
Select(u) ==
    /\ pc[u] = "idle" /\ Goto(u, "resolve")
    /\ \E ts \in SetToAllKPermutations({t \in Removals : place[t] \in Root}) \ {<<>>} :
          jobs' = [jobs EXCEPT ![u] = ts]
    /\ UNCHANGED <<setting, tree, items, asked, choice, meddling, seen>>

(* Each record must be inside one of the roots. *)
Purge(u) ==
    /\ pc[u] = "purge" /\ u \in Purges
    /\ place' = [t \in Removals |->
            IF t \in ToSet(jobs[u]) /\ place[t] \in roots[u] THEN Gone ELSE place[t]]
    /\ Goto(u, IF \A j \in 1 .. Len(jobs[u]) : place[jobs[u][j]] \in roots[u] \cup {Gone}
               THEN "done" ELSE "refused")
    /\ UNCHANGED <<setting, tree, again, jobs, asked, choice, meddling, seen>>
-----------------------------------------------------------------------------
(* The others *)

(* Something is made, or mounted, at the path of an item that was moved. *)
Recreate(t) ==
    /\ place[t] \in Root /\ again[t] = None
    /\ \E d \in Device : again' = [again EXCEPT ![t] = d]
    /\ UNCHANGED <<setting, tree, place, pc, jobs, asked, choice, meddling, seen>>

(* The items of root whose directories are not all there any more. *)
Emptied ==
    [t \in Removals |->
        IF place[t] \in Root /\ ~Exists(dir'[place[t]][FilesDir]) THEN Gone ELSE place[t]]

(* A file manager or another user removes, replaces or makes a directory,  *)
(* or the administrator changes <mount>/.Trash.                            *)
Meddle ==
    /\ meddling < MaxMeddling /\ meddling' = meddling + 1
    /\ \/ \E root \in Root, x \in Part, kind \in Kinds :
            /\ x = "root" \/ dir[root]["root"] \in {"good", "open", "theirs"}
            /\ dir' = [dir EXCEPT ![root] =
                    IF x = "root" /\ ~Exists(kind)
                    THEN [Whole("none") EXCEPT !["root"] = kind] ELSE [@ EXCEPT ![x] = kind]]
            /\ sticky' = sticky
       \/ \E d \in Device \ {HomeDevice}, kind \in {"none", "sticky", "plain", "other"} :
            /\ sticky' = [sticky EXCEPT ![d] = kind]
            /\ dir' = (IF kind \in {"none", "other"}
                       THEN [dir EXCEPT ![Admin(d)] = Whole("none")] ELSE dir)
    /\ place' = Emptied
    /\ UNCHANGED <<setting, again, pc, jobs, asked, choice, seen>>

Next ==
    \/ \E p \in Procs : Resolve(p) \/ CheckDirectory(p) \/ MakeDirectory(p)
    \/ \E t \in Removals : Move(t) \/ Rename(t) \/ Recreate(t)
    \/ \E u \in Purges : Select(u) \/ Purge(u)
    \/ Meddle

Spec == Init /\ [][Next]_vars
-----------------------------------------------------------------------------
(* Properties *)

(* Every variable has its type. *)
TypeOK ==
    /\ setting \in Settings
    /\ sticky \in [Device -> {"none", "sticky", "plain", "other"}]
    /\ dir \in [Root -> [Part -> Kinds]]
    /\ place \in [Removals -> {Source, Gone} \cup Root]
    /\ again \in [Removals -> Device \cup {None}]
    /\ pc \in [Procs -> {"idle", "resolve", "check", "make", "move", "rename", "purge",
                         "done", "failed", "refused"}]
    /\ jobs \in [Procs -> Seq(Removals)] /\ asked \in [Procs -> Seq(Device \cup {None})]
    /\ \A p \in Procs : Len(asked[p]) <= Len(jobs[p])
    /\ cands \in [Procs -> Seq(Root)] /\ part \in [Procs -> 1 .. 3]
    /\ roots \in [Procs -> SUBSET Root]
    /\ meddling \in 0 .. MaxMeddling
    /\ seen \in [Procs -> SUBSET (Root \X Part)]

Calm == meddling = 0

(* Commands that make the same trash directories at the same time do not   *)
(* get in each other's way: while nobody else interferes, a removal fails  *)
(* only where no trash on the file system of its target is, or could be    *)
(* made, fit for use.                                                      *)
CompetitionIsHarmless ==
    Calm => \A t \in Removals : pc[t] = "failed" =>
        \A root \in ToSet(Candidates(On[t])) :
            \/ DeviceOf(root) # On[t]
            \/ DeviceOf(root) \in Modeless
            \/ \E x \in ToSet(Skeleton) : dir[root][x] # "none" /\ ~Acceptable(<<root, x>>)

(* A purge comes to the root its item was moved to, although it derives it *)
(* again, from what is now at the original path, and commands have made    *)
(* directories since: while nobody else interferes and each path is on its *)
(* file system again, nothing is refused.                                  *)
PurgeFindsItsRoot ==
    Calm => \A u \in Purges : pc[u] = "refused" =>
        \E j \in 1 .. Len(asked[u]) : asked[u][j] # On[jobs[u][j]]

(* Outside the home trash an item only goes where the Ensure of its own    *)
(* Move found each directory private, whatever others do to them between   *)
(* two steps.                                                              *)
PrivateWhenMoved ==
    [][\A t \in Removals :
        Linux /\ place[t] = Source /\ place'[t] \in Root \ {Home} =>
            \A x \in Part : <<place'[t], x>> \in seen[t]]_vars
=============================================================================
