------------------------------- MODULE Removal -------------------------------
(***************************************************************************)
(* One "bearm rm" from its operands to its exit status: planner.Plan over  *)
(* a file tree, then removal.Execute over the planned targets, while the   *)
(* user may answer prompts, interrupt, and go on changing the tree.  What  *)
(* a move does inside the trash is Trash.tla; here it takes the target     *)
(* with everything below it, in one rename.                                *)
(***************************************************************************)
EXTENDS Sequences, Integers, FiniteSets, SequencesExt

CONSTANTS
    Node,          \* the paths of the tree
    Parent,        \* Parent[n]: the directory of n, None at the top
    Order,         \* all nodes, directories after their contents, as visited
    Dir,           \* the nodes that are directories
    Dev,           \* Dev[n]: the device of n
    HardRoots,     \* bearm's own configuration, state and data directories
    AllowedRoots,  \* if there are any: removals are confined to them
    Patterns,      \* the protected patterns in order, [node, negated]
    TrashRoot,     \* the node of the trash root
    Late,          \* the nodes the user makes while the command runs
    Requests,      \* the requests: operands and options
    Faults,        \* system calls may fail for reasons of their own
    None

Above[n \in Node] ==
    IF Parent[n] = None THEN {} ELSE {Parent[n]} \cup Above[Parent[n]]
AtOrBelow(m, n) == m = n \/ n \in Above[m]

(* domain.RemoveOptions and the settings that Plan and Execute look at. *)
RemoveOptions ==
    [force : BOOLEAN, recursive : BOOLEAN, directory : BOOLEAN, verbose : BOOLEAN,
     interactive : {"never", "once", "always"}, oneFileSystem : BOOLEAN,
     inspect : BOOLEAN, preserveAll : BOOLEAN, bsd : BOOLEAN]

ASSUME RemovalAssumption ==
    /\ Parent \in [Node -> Dir \cup {None}] /\ Dir \subseteq Node /\ None \notin Node \cup {0, 1}
    /\ Order \in Seq(Node) /\ Node = {Order[j] : j \in 1 .. Len(Order)}
    /\ \A i, j \in 1 .. Len(Order) :
          /\ Order[i] = Order[j] => i = j
          /\ Parent[Order[i]] = Order[j] => i < j
    /\ Requests \subseteq [operands : Seq(Node), options : RemoveOptions]
    /\ HardRoots \subseteq Node /\ AllowedRoots \subseteq Node
    /\ Patterns \in Seq([node : Node, negated : BOOLEAN]) /\ TrashRoot \in Dir \cup {None}
    /\ Late \subseteq Node \ {TrashRoot} /\ Faults \in BOOLEAN

VARIABLES
    request,    \* operands and options, as parsed
    present,    \* the nodes that exist outside the trash
    trash,      \* the nodes that went to the trash, by themselves or with a parent
    cancelled,  \* SIGINT or SIGTERM has come
    phase,
    k,          \* the operand or target in hand
    validated,  \* how many operands the plan accepted
    targets,    \* the planned targets
    results,    \* the outcomes, [node, status]
    yes,        \* the prompts answered with yes, "all" for the one of -I
    records,    \* the targets moved
    journal,    \* "none", "ok" or "failed": the append
    declined,   \* the prompt of -I was declined
    exit        \* the exit status, or None

plan == <<validated, targets>>
outcome == <<journal, declined, exit>>
vars == <<request, present, trash, cancelled, phase, k, plan, results, yes, records, outcome>>

opt == request.options
Statuses == {"trashed", "failed", "declined", "skipped"}
Result(n, status) == [node |-> n, status |-> status]
Note(n, status) == results' = Append(results, Result(n, status))
Subtree(n) == {m \in present : AtOrBelow(m, n)}

(* Before the first operand is planned. *)
Waiting ==
    /\ present = Node \ Late /\ trash = {}
    /\ cancelled = FALSE /\ phase = "plan" /\ k = 1
    /\ validated = 0 /\ targets = <<>> /\ results = <<>>
    /\ yes = {} /\ records = <<>>
    /\ journal = "none" /\ declined = FALSE /\ exit = None

Init == request \in Requests /\ Waiting
-----------------------------------------------------------------------------
(* The policy *)

(* A pattern is about its node and everything below it; the last one that  *)
(* is about n decides.                                                     *)
Matches(n) ==
    LET about == {j \in 1 .. Len(Patterns) : AtOrBelow(n, Patterns[j].node)}
    IN  about # {} /\ ~Patterns[Max(about)].negated

(* What Check refuses. *)
Refused(n) ==
    \/ \E root \in HardRoots : AtOrBelow(n, root)
    \/ Matches(n)
    \/ AllowedRoots # {} /\ \A root \in AllowedRoots : ~AtOrBelow(n, root)

Protected == {n \in Node : Refused(n)}
-----------------------------------------------------------------------------
(* Planning *)

RequiresWalk(n) ==
    n \in Dir /\ (opt.interactive = "always" \/ opt.verbose \/ opt.oneFileSystem \/ opt.inspect)

(* The elements of seq that are in S, in their order. *)
Chosen(seq, S) ==
    LET chosen[j \in 0 .. Len(seq)] ==
            IF j = 0 THEN <<>>
            ELSE IF seq[j] \in S THEN Append(chosen[j - 1], seq[j]) ELSE chosen[j - 1]
    IN  chosen[Len(seq)]

(* What ExpandTarget visits: with --one-file-system, not past a mount.     *)
Visited(n) ==
    {m \in Subtree(n) : opt.oneFileSystem =>
        \A a \in {m} \cup Above[m] : AtOrBelow(a, n) => Dev[a] = Dev[n]}

(* Mutant: a protected entry does not keep the directories above it. *)
BlockedAlone(n) == Visited(n) \cap Protected

(* The protected entries and the directories above them stay. *)
Blocked(n) == UNION {{m} \cup Above[m] : m \in Visited(n) \cap Protected}

(* Mutant: the walk lists a directory before its contents. *)
ExpandTopDown(n) == Chosen(Reverse(Order), Visited(n) \ Blocked(n))

Expand(n) == Chosen(Order, Visited(n) \ Blocked(n))
Skipped(n) == Chosen(Order, Visited(n) \cap Protected)

(* n is on another device than its directory. *)
MountPoint(n) == Parent[n] # None /\ Dev[Parent[n]] # Dev[n]

(* The reasons to refuse operand n, in the order of Plan.                  *)
NotRemovable(n) ==
    \/ n \in Protected
    \/ n \notin present
    \/ opt.preserveAll /\ n \in Dir /\ MountPoint(n)
    \/ n \in Dir /\ ~opt.recursive /\ ~opt.directory
    \/ n \in Dir /\ ~opt.recursive /\ Subtree(n) # {n}

Unseen(seq) == Chosen(seq, Node \ {targets[j] : j \in 1 .. Len(targets)})

PlanOperand ==
    /\ phase = "plan" /\ k <= Len(request.operands)
    /\ LET n == request.operands[k]
       IN  \/ /\ cancelled
              /\ Note(n, "failed") /\ phase' = "start" /\ k' = 1 /\ UNCHANGED plan
           \/ /\ ~cancelled
              /\ IF n \notin Protected /\ n \notin present /\ opt.force
                 THEN UNCHANGED <<plan, results>>
                 ELSE \/ /\ NotRemovable(n) \/ Faults
                         /\ Note(n, "failed") /\ UNCHANGED plan
                      \/ /\ ~NotRemovable(n)
                         /\ validated' = validated + 1
                         /\ IF RequiresWalk(n)
                               /\ \A j \in 1 .. Len(targets) : targets[j] # n
                            THEN /\ targets' = targets \o Unseen(Expand(n))
                                 /\ results' = results \o
                                       [j \in 1 .. Len(Skipped(n)) |-> Result(Skipped(n)[j], "skipped")]
                            ELSE /\ targets' = targets \o Unseen(<<n>>)
                                 /\ results' = results
              /\ k' = k + 1 /\ phase' = phase
    /\ UNCHANGED <<request, present, trash, cancelled, yes, records, outcome>>

PlanDone ==
    /\ phase = "plan" /\ k > Len(request.operands)
    /\ phase' = "start" /\ k' = 1
    /\ UNCHANGED <<request, present, trash, cancelled, plan, results, yes, records, outcome>>
-----------------------------------------------------------------------------
(* Execution *)

NeedsOncePrompt ==
    opt.interactive = "once" /\ validated > 0 /\ (validated > 3 \/ opt.recursive)

Start ==
    /\ phase = "start"
    /\ IF cancelled
       THEN Note(None, "failed") /\ phase' = "exit"
       ELSE results' = results /\ phase' = (IF NeedsOncePrompt THEN "once" ELSE "next")
    /\ UNCHANGED <<request, present, trash, cancelled, k, plan, yes, records, outcome>>

(* Anything but an answer that starts with y declines; the prompt itself   *)
(* may fail.                                                               *)
ConfirmOnce ==
    /\ phase = "once"
    /\ \/ yes' = {"all"} /\ phase' = "next" /\ UNCHANGED <<results, declined>>
       \/ /\ declined' = TRUE /\ phase' = "exit" /\ yes' = yes
          /\ results' = results \o [j \in 1 .. Len(targets) |-> Result(targets[j], "declined")]
       \/ Faults /\ Note(None, "failed") /\ phase' = "exit" /\ UNCHANGED <<yes, declined>>
    /\ UNCHANGED <<request, present, trash, cancelled, k, plan, records, journal, exit>>

(* The rest of the loop body is skipped. *)
Continue(n, status) == Note(n, status) /\ phase' = "next" /\ k' = k + 1

(* The head of the loop: the context, then the policy once more. *)
NextTarget ==
    /\ phase = "next"
    /\ IF k > Len(targets)
       THEN phase' = "append" /\ UNCHANGED <<k, results>>
       ELSE IF cancelled
       THEN Note(targets[k], "failed") /\ phase' = "append" /\ k' = k
       ELSE IF targets[k] \in Protected
       THEN Continue(targets[k], "failed")
       ELSE /\ phase' = (IF opt.interactive = "always" THEN "ask" ELSE "move")
            /\ UNCHANGED <<k, results>>
    /\ UNCHANGED <<request, present, trash, cancelled, plan, yes, records, outcome>>

(* Mutant: a prompt that fails does not stop the target. *)
ConfirmTargetAnyway ==
    /\ phase = "ask"
    /\ \/ yes' = yes \cup {targets[k]} /\ phase' = "move" /\ UNCHANGED <<k, results>>
       \/ Continue(targets[k], "declined") /\ yes' = yes
       \/ Faults /\ Note(targets[k], "failed") /\ phase' = "move" /\ UNCHANGED <<k, yes>>
    /\ UNCHANGED <<request, present, trash, cancelled, plan, records, outcome>>

ConfirmTarget ==
    /\ phase = "ask"
    /\ \/ yes' = yes \cup {targets[k]} /\ phase' = "move" /\ UNCHANGED <<k, results>>
       \/ Continue(targets[k], "declined") /\ yes' = yes
       \/ Faults /\ Continue(targets[k], "failed") /\ yes' = yes
    /\ UNCHANGED <<request, present, trash, cancelled, plan, records, outcome>>

(* Mutant: targets inside the trash are moved like any other. *)
MayMoveInTrash(n) ==
    /\ ~cancelled /\ n \in present /\ ~MountPoint(n)
    /\ TrashRoot # None => ~AtOrBelow(TrashRoot, n)

(* Resolve and Move succeed only for a target that is still there and is   *)
(* not in the trash; the kernel renames neither a mount point nor the      *)
(* trash into itself.                                                      *)
MayMove(n) ==
    /\ ~cancelled /\ n \in present /\ ~MountPoint(n)
    /\ TrashRoot # None => ~AtOrBelow(n, TrashRoot) /\ ~AtOrBelow(TrashRoot, n)

(* Mutant: the move leaves the source behind. *)
MoveTargetCopies ==
    /\ phase = "move"
    /\ IF MayMove(targets[k])
       THEN /\ trash' = trash \cup Subtree(targets[k])
            /\ records' = Append(records, targets[k]) /\ Continue(targets[k], "trashed")
       ELSE Continue(targets[k], "failed") /\ UNCHANGED <<trash, records>>
    /\ UNCHANGED <<request, present, cancelled, plan, yes, outcome>>

MoveTarget ==
    /\ phase = "move"
    /\ LET n == targets[k]
       IN  \/ /\ ~MayMove(n) \/ Faults
              /\ Continue(n, "failed") /\ UNCHANGED <<present, trash, records>>
           \/ /\ MayMove(n)
              /\ trash' = trash \cup Subtree(n) /\ present' = present \ Subtree(n)
              /\ records' = Append(records, n)
              /\ Continue(n, "trashed")
    /\ UNCHANGED <<request, cancelled, plan, yes, outcome>>

(* Mutant: a cancelled command returns before the journal. *)
AppendJournalUnlessCancelled ==
    /\ phase = "append" /\ phase' = "exit"
    /\ journal' = (IF records = <<>> \/ cancelled THEN "none" ELSE "ok") /\ results' = results
    /\ UNCHANGED <<request, present, trash, cancelled, k, plan, yes, records, declined, exit>>

(* Mutant: the error of the append is dropped. *)
AppendJournalQuietly ==
    /\ phase = "append" /\ phase' = "exit"
    /\ journal' \in (IF records = <<>> THEN {"none"} ELSE {"ok", "failed"}) /\ results' = results
    /\ UNCHANGED <<request, present, trash, cancelled, k, plan, yes, records, declined, exit>>

(* The append takes no notice of a cancellation; its error is a result. *)
AppendJournal ==
    /\ phase = "append" /\ phase' = "exit"
    /\ \/ records = <<>> /\ UNCHANGED <<journal, results>>
       \/ records # <<>> /\ journal' = "ok" /\ results' = results
       \/ records # <<>> /\ Faults /\ journal' = "failed" /\ Note(None, "failed")
    /\ UNCHANGED <<request, present, trash, cancelled, k, plan, yes, records, declined, exit>>

HasFailures == \E j \in 1 .. Len(results) : results[j].status = "failed"

ExitCode ==
    /\ phase = "exit" /\ exit = None
    /\ exit' = (IF HasFailures \/ (opt.bsd /\ declined) THEN 1 ELSE 0)
    /\ UNCHANGED <<request, present, trash, cancelled, phase, k, plan, results, yes, records,
                   journal, declined>>
-----------------------------------------------------------------------------
(* The user *)

Interrupt ==
    /\ ~cancelled /\ exit = None /\ cancelled' = TRUE
    /\ UNCHANGED <<request, present, trash, phase, k, plan, results, yes, records, outcome>>

Create(n) ==
    /\ n \in Late \ (present \cup trash)
    /\ Parent[n] # None => Parent[n] \in present
    /\ present' = present \cup {n}
    /\ UNCHANGED <<request, trash, cancelled, phase, k, plan, results, yes, records, outcome>>

Next ==
    \/ PlanOperand \/ PlanDone
    \/ Start \/ ConfirmOnce \/ NextTarget \/ ConfirmTarget \/ MoveTarget
    \/ AppendJournal \/ ExitCode
    \/ Interrupt
    \/ \E n \in Node : Create(n)

Spec == Init /\ [][Next]_vars
-----------------------------------------------------------------------------
(* Properties *)

(* Every variable has its type; a node is in one place. *)
TypeOK ==
    /\ request \in Requests
    /\ present \subseteq Node /\ trash \subseteq Node /\ present \cap trash = {}
    /\ cancelled \in BOOLEAN /\ declined \in BOOLEAN
    /\ phase \in {"plan", "start", "once", "next", "ask", "move", "append", "exit"}
    /\ k \in Nat \ {0} /\ validated \in 0 .. Len(request.operands)
    /\ targets \in Seq(Node) /\ records \in Seq(Node)
    /\ results \in Seq([node : Node \cup {None}, status : Statuses])
    /\ yes \subseteq Node \cup {"all"}
    /\ journal \in {"none", "ok", "failed"} /\ exit \in {0, 1, None}

Walked == opt.interactive = "always" \/ opt.verbose \/ opt.inspect

(* Where the operands are walked within one file system, nothing that the  *)
(* policy protects leaves its place, neither by itself nor with one of the *)
(* directories above it, unless it came there after the walk.              *)
ProtectedStays == Walked /\ ~opt.oneFileSystem => Protected \cap trash \subseteq Late

(* In a walked removal no target is planned after a directory above it, so *)
(* that no move takes a later target away; but for one that another        *)
(* operand finds after the walk of the first, or past a mount that the     *)
(* first did not pass.                                                     *)
PastMount(m, n) ==
    opt.oneFileSystem /\ \E a \in {m} \cup Above[m] : AtOrBelow(a, n) /\ Dev[a] # Dev[n]
ContentsFirst ==
    (Walked \/ opt.oneFileSystem) =>
        \A i, j \in 1 .. Len(targets) : i < j /\ targets[i] \in Above[targets[j]] =>
            targets[j] \in Late \/ PastMount(targets[j], targets[i])

(* Nothing is moved without the yes its mode asks for: under -i a yes for  *)
(* the node or for a directory above it, under -I the one for all; and     *)
(* nothing that is not at or below an operand.                             *)
MovedWithConsent ==
    \A m \in trash :
        /\ opt.interactive = "always" => ({m} \cup Above[m]) \cap yes # {}
        /\ NeedsOncePrompt => "all" \in yes
        /\ \E j \in 1 .. Len(request.operands) : AtOrBelow(m, request.operands[j])

(* The trash root and what is in it are not removed once more, whichever   *)
(* operand they are reached from.                                          *)
TrashIsLeftAlone == \A m \in trash : TrashRoot # None => ~AtOrBelow(m, TrashRoot)

(* However a command that moved something ends, it hands its records to    *)
(* the journal, and an append that fails shows in the exit status.         *)
MovesReachTheJournal ==
    exit # None /\ records # <<>> => journal = "ok" \/ (journal = "failed" /\ exit = 1)

(* Exit status 0 without prompts: every operand went to the trash under a  *)
(* journaled record, or was missing under -f, or holds something that the  *)
(* policy protects.                                                        *)
Journaled(n) == journal = "ok" /\ \E j \in 1 .. Len(records) : AtOrBelow(n, records[j])
ZeroMeansDone ==
    exit = 0 /\ opt.interactive = "never" =>
        \A j \in 1 .. Len(request.operands) :
            LET n == request.operands[j]
            IN  \/ n \in trash /\ Journaled(n)
                \/ n \in Late /\ opt.force
                \/ \E m \in Protected : AtOrBelow(m, n) /\ RequiresWalk(n)

(* docs/configuration.md of inspect_descendants: it walks the operands to  *)
(* retain protected descendants.                                           *)
DescendantsRetained == opt.inspect => Protected \cap trash = {}

(* docs/cli.md of -i: a prompt before every target that is removed; a      *)
(* target that was declined is still there.                                *)
DeclinedStays ==
    \A j \in 1 .. Len(results) : results[j].status = "declined" => results[j].node \notin trash
=============================================================================
