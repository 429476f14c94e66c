# A TLA+ model of bearm

bearm is a replacement for `rm` that moves its operands to a trash directory,
keeps an append-only journal of what it moved, and restores or purges from
that journal. There is no daemon: every command is a process of its own, and
what the processes share is the file system. Two things keep them apart, a
`flock` on the journal file and the exclusive creation of metadata files in
the trash; everything between the two is unprotected, and that is where this
project looks.

## Inventory

| Part (source) | State | Operations | Meets the others through | Hard behaviour | Correct when |
|---|---|---|---|---|---|
| journal (`internal/journal`) | one JSONL file | `AppendEvents`, `ReadAll`, and the folds `ActiveItems`, `FindItems`, `LatestOperation` | `flock` on the file | kills and short writes inside a batch, failed sync, power loss, a torn last line | what was acknowledged stays; batches stay together; every line decodes; a reader sees whole batches; nobody waits for ever |
| reservation and rename (`internal/trash`) | a metadata file per name, an item per name | `ReserveName`, `Commit`, `Rollback`, `RenameNoReplace`, `RemoveRecordMetadata` | `O_EXCL`, `renameat2` | removals of equal names; file systems without `RENAME_NOREPLACE` | one owner per name; no item replaces another; a failed move leaves nothing that could be removed |
| backends (`internal/trash/{linux,darwin,custom}`) | the directories of a trash root per mount | `Resolve`, `Ensure`, `Move` | called by executor and purge; other commands and programs make and change the same directories | the root is chosen anew at purge time, from a path where something else may be; directories change between two checks | competing commands do each other no harm; a purge comes to the root its item went to; on a mount nothing goes where others may enter |
| planner (`internal/planner`) | none (reads the tree) | `Plan`, `ExpandTarget`, `ValidatePreserveRootAll` | the plan it hands on | the plan is stale when it is executed; overlapping operands; mounts | nothing protected in the plan, contents before directories |
| executor and prompts (`internal/removal`) | records and results of one command | `Execute`, `ConfirmOnce`, `ConfirmTarget` | backend, journal, stdin | interrupt in the middle, partial failure, a declined child under an accepted parent | nothing moved without consent; everything moved is recorded; exit status 0 means done |
| restore, purge (`internal/restore`) | selected records of one command | `Restore`, `Purge` | trash directory, journal | records selected long before they are used; collisions; crash before the append | only what was selected leaves the trash, exactly once |
| doctor (`internal/restore/doctor.go`) | none | `Check` | reads journal and trash | three reads at different times, beside other commands | each finding was true meanwhile, and what stays wrong is found |
| safety policy (`internal/safety`, `internal/pathutil`) | roots and patterns | `Check` | planner and executor | lexical paths, order of the rules | what is protected is never planned |
| command line (`internal/cli`) | the request as parsed so far | `ResolveInvocation`, `ParseCompatibility`, `ParseNative` | hands requests to planner, restore, purge, doctor | options that override one another, where options end in a profile, values that look like options | the request says what the arguments say |
| app, configuration, i18n, platform (`internal/app`, `config`, `i18n`, `platform`, `cmd`) | none across commands | start-up, dispatch, rendering, exit statuses | compose the parts above | which setting wins, which exit status | a command that cannot run says so |

`PROJECT.json` lists the same parts as components, with what is modelled of
each, and the hazards of the code at their lines with the properties for them.

## Modules

**EventLog** is what a caller of the journal may rely on: a log to which a
whole batch is appended at once (`AppendAll`), or, when the append fails or its
process dies, a prefix of it (`AppendPart`), which may leave a torn line that
blocks appends until a person removes it. `kept` is how much of the log no
power loss can take back.

**Journal** is the file behind it. A writer is a process in `AppendEvents`: it
encodes (`Encode`), opens the file (`Open`), takes `LOCK_EX`
(`LockExclusive`), looks at the last byte (`CheckTail`), writes
(`WriteBytes`, `WriteNewline`: the one `Write` of the code, cut where a kill or
a full disk may cut it), syncs and unlocks. A reader is a process in
`ReadAll`. `lines` and `tail` are the file, `synced` the part of it on stable
storage. `LockFails`, `WriteFails`, `Sync`'s second half and `ReadFails` are
the error returns; `Kill` and `PowerLoss` may happen anywhere; `RepairTail` is
the user following docs/recovery.md. `Log` maps the file to EventLog: the
lines of a batch that is still being written are not in the log yet.

**Trash** is one trash directory and one family of names (the suffixes 0, 1,
... of one base name), with removals, restores and purges as processes.
`files[s]` and `meta[s]` are the item and the sidecar of suffix `s`, `home` the
paths outside. A removal goes through `Execute`'s loop (`NextTarget`), the
reservation (`ProbeTarget`, `CreateMetadata`), the rename (`LstatTarget` where
there is no `RENAME_NOREPLACE`, then `MoveToTrash`) and `Rollback`, and ends in
`AppendBatch`. A restore or purge selects active records (`Select`), a purge
is confirmed and resolves its trash roots (`ConfirmPurge`), and each record is
undone (`MoveBack` or `RemoveAll`, then `RemoveMetadata`) before the append.
The journal is an INSTANCE of EventLog. `owns` is a history variable: the
content that was moved as an item, and so is `stuck`: the items whose metadata
`os.Remove` could not take away when the reservation was rolled back, an error
that the backends drop. `Findings` is what `doctor` would report
of one state.

**Doctor** extends Trash with a `doctor` process: `Check` reads the journal for
a torn line (`ReadJournal`), reads it again for the active records
(`ReadActive`), and looks for their items one by one (`Look`), while every
action of Trash may happen in between. `ever` and `always` are history: what
was wrong at some moment, and at every moment, since it started.

**Roots** is the choice of the directory that Trash takes for granted.
`Resolve` finds the candidates for a path (`LinuxRoots`: `<mount>/.Trash/<uid>`
where `.Trash` is a sticky directory, `<mount>/.Trash-<uid>`, the home trash;
one candidate on macOS, `DarwinRoots`, and with a custom path), and `Ensure` goes over the
directories of each of them, with an Lstat (`CheckDirectory`) and a mkdir and
chmod (`MakeDirectory`) as steps of their own. On Linux `Move` ensures its root
once more before it renames. A purge derives the roots of the records it
selected from what is at their original paths now, and removes what is inside
one of them. `sticky` and `dir` are the directories, `again` what is at an
original path, `seen` (history) the directories a Move found private. `Meddle`
is another program, another user or an administrator, `Recreate` whatever comes
to be at the path of an item.

**Removal** is one command from its operands to its exit status over a small
tree: `PlanOperand` is an iteration of `Plan` with `ExpandTarget`; `Start`,
`ConfirmOnce`, `NextTarget`, `ConfirmTarget`, `MoveTarget`, `AppendJournal` are
`Execute`; `ExitCode` is `RemovalResult.ExitCode`. The user may interrupt and
make files in between. A move takes the target with all that is below it.
`Refused` is `Policy.Check` over the nodes of the tree: bearm's own directories
and everything below them, then the patterns, the last one about a node
deciding, then the allowed roots, if there are any.

**CommandLine** is a process of bearm from `main`: it composes start-up and the
parsers with Removal. `Load` reads the settings, takes a profile and decides
between `rm` and bearm's own commands. The loops of the parsers are one argument
a step (`EndOptions`, `ApplyOption`, `TakeOperand` in `ParseCompatibility`;
`ReadOperation`, `ReadLast`, ... in `ParseNative`). `Launch` hands the request
to Removal, whose actions are then the process (`RunRemoval`); `StartNative`
starts what Trash, Recovery and Doctor model. `status` is the exit status of a
process that ends before that: 3, 2, 1, 64 or 0, as the code has it.

**Recovery** is removal and restore over a directory tree. `MoveTarget` takes
a target with what is below it, one reading of the clock each; `Active`,
`NewestFirst`, `FindItems` and `LatestOperation` are the folds and selections
of the repository; `Select` is `selectRecords` and `runRestore` up to the
service; `RestoreFails`, `PutBack` and `Collide` are the three ways a record
can go in `atomicRestore`, with the parents that `MkdirAll` leaves behind.
`home` is the tree, `trash[i]` the tree moved as item `i`, `aside` what went to
a `.restored.N` name; `aim` and `hurt` are history variables. Both kinds of
command end in `AppendBatch` or `AppendPart`: the append is refused, or cut
after any event with or without a torn line (`torn`), or the command is killed
before it. A torn line refuses the appends that follow until the user removes it
(`Repair`), as in EventLog. What an ended command could not write stays in its
`batch`, which is a history variable from then on. A kill between two records
needs no action of its own: a restore that is killed does nothing more, and all
that it brought back is unwritten, which is `AppendPart` with nothing of the
batch. A restore runs alone here: it may not overlap a removal, which Trash
allows.

The proofs stand in modules of their own: **JournalProofs**, **TrashProofs**
(any commands beside each other), **TrashSerialProofs** (undoing commands in
turns, none of them killed), **DoctorProofs**, **RootsProofs**, **RemovalProofs**,
**CommandLineProofs** and **RecoveryProofs**. **MCJournal**, **MCTrash**, **MCDoctor**, **MCRoots**,
**MCRecovery**, **MCRemoval** and **MCCommandLine** give the constants values
for TLC.

Definitions named in a comment as "Mutant" are not part of any specification:
each is a plausible bug of the operation that follows it, and the property it
belongs to fails when it takes the place of that operation.

Journal composes with EventLog by refinement, Trash with EventLog by INSTANCE,
Doctor with Trash and CommandLine with Removal by extending them.
Removal and Trash overlap in the executor: Removal has its control in full and
one step for a move, Trash has the move in full and leaves prompts and
planning as choices, Recovery has the tree and the order of the records, Roots
has the directories the move needs.

## Runs

| Run | What it shows |
|---|---|
| `journal` | All properties of Journal, its refinement of EventLog and the liveness of every call, with two competing writers of two events, one writer with an invalid event, one with none, a reader, kills, power loss and repair. |
| `trash_shared` | Two removals (one of two operands) and two overlapping restores on a file system without `RENAME_NOREPLACE`, with kills and failing appends: reservations are exclusive, no item is replaced, a failed move leaves metadata only if its removal was killed or `os.Remove` failed in the rollback, finished removals are recorded. |
| `trash_serial` | Removals, one of which may be killed, with one restore or purge at a time: what is listed is intact, only the selected leaves the trash, nothing is lost, every command ends. |
| `doctor` | `doctor` beside two removals, a restore and a purge, which may be killed and whose appends may fail: every finding was true at some moment of the check, what was wrong all the while is among them, and the journal tells one life per item. |
| `roots` | Two removals on a mount and a purge of what they moved, with four backends, every state of the trash directories at the start and one interference by others: commands that make the same directories do not fail each other, a purge comes to the root of its item, nothing goes to a directory that others may enter. |
| `command_line` | bearm from its arguments to its exit status: the parsers against what the documents say of a whole argument list, and a removal with what they parsed, over a tree with protected entries, a mount and the trash in it, with failing calls, an interrupt and a file that appears meanwhile. |
| `recovery` | A walk of a directory tree and the move of a part of it, at the same time or in turn, then up to two restores by ID, operation or `--last`, under each collision policy, with failing records, cancellations and files the user makes. Every command may be killed, and every append refused or cut; a torn line may be repaired or not. Every entry is in one place; the list and the trash differ by exactly the events that were not written; an undo with nothing in its way succeeds, and is whole but for what its removal could not write. |
| `trash_refused` | Violation. Purge through the Linux and macOS backends is refused while nothing is at the original path of an item. |
| `trash_stale` | Violation. A second purge of an item, overlapping the first, deletes the later item that has taken the name. A second purge after a crash of the first does the same. |
| `trash_orphan` | Violation. An item whose removal died before its append is not reported by `doctor`. |
| `removal_mount` | Violation. `--one-file-system` with `inspect_descendants` moves a protected entry below a mount point together with the directory above. |
| `removal_declined` | Violation. A file declined under `-i` is moved with its directory. |

`PROJECT.json` quotes, for each violation, the line of the documentation or of
a comment that the code departs from.

### Bounds, and why they are enough

- Journal: batches of two events are the smallest with a beginning and an end,
  so that a prefix, a torn first line and a torn second line all occur; two
  writers suffice for every overlap, because the lock lets no third in. Every
  writer appends one batch: a process that appends once more is another writer.
- Trash: two suffixes, so that names collide and run out (the code has 10000:
  only running out is special). Two removals, the first with two operands of
  one base name, so that a removal competes with another and with itself; two
  undoing commands, the least for an overlap. Two contents, so that one can be
  in the way of the other. The contents are symmetric and are declared so where
  no liveness is checked.
- Doctor: one name, which is the case in which what doctor looks at can be
  another item than the one it read of; two removals, so that there is a later
  item. One undoing command at a time: when two overlap, the anomaly of
  `trash_stale` makes the journal itself wrong, and with it a finding.
- Roots: one mounted file system beside the home one, two removals on it, so
  that one makes each directory before, between or after the steps of the
  other, and one purge of one or both items in either order. A root is, at the
  start, missing, in use, somebody else's, or has a file where a directory
  should be; on Linux `.Trash` is missing, sticky, not sticky, or a file. Others
  change something once (`MaxMeddling`), which is enough to get between any two
  steps. The removals are symmetric. The home trash is the last resort and
  itself never competes for another device.
- CommandLine and Removal: fourteen nodes: a directory with a file, a
  subdirectory that has a protected file and is a mount point, and a directory
  of bearm's own; an empty directory with a file that may appear; the trash in a
  directory of its own; and files with the names `-i`, `-r` and `--`. Command
  lines of `rm` have up to two options, clusters among them, with `-r` or not,
  before eight operand lists of up to four (the threshold of `-I` is three),
  with repetitions and overlaps in both orders, or before lists that mix
  operands and options. `restore` and `purge` have up to four arguments, the
  least with two selectors that have a value each. Signals and the user's files
  come from `Launch` on: the parsers look at nothing but their arguments.
- Recovery: three levels, so that a missing parent can itself lack one, a walk
  in three targets and a move of the middle, which interleave in every way;
  two restores, so that one follows a partial, an out-of-order, a killed or an
  unwritten one (1.7 million states; the proofs are for any number). Batches
  have up to three events, so that an append is cut before, between and after
  them.

`CHECK_DEADLOCK FALSE` is in each configuration because commands end and the
system then rests.

### Fairness

Journal assumes weak fairness of each process: the scheduler runs it, the disk
answers, and a process waiting in `flock` gets the lock once it is free for
long enough; each process asks once, so that no others can overtake it for
ever. Kills, failures, power loss and repair are never forced. Trash assumes
weak fairness of each command that has been started; nobody has to start one,
answer a prompt with yes, or make a file.

## Proofs

Each theorem is about every value of the constants that the named assumption of
its module allows; TLC evaluates those assumptions in the runs. `PROJECT.json`
lists the theorems with the property of a run that each one states. Every
inductive invariant below was checked with TLC before it was proved.

**JournalProofs**, for any writers, readers and batch sizes
(`JournalAssumption`). Types are inductive by themselves. `SyncedForever`: each
step leaves the file, adds a line at its end or cuts unsynced lines (lemma
`FileStep`). `AckedIsDurable` is not inductive: at the sync one must know that
the last lines of the file are the batch; `OwnLinesLast` says so, which needs
that the holder of the lock is alone (`OneWriter`) and that it found no torn
line. With them (`JInv`) `NeverCorrupt` follows too. `BatchesDontInterleave`
adds that a writer's lines are those it has counted. What readers see
(`ReadsSeeWholeBatches`, `NoFalseAlarm`) needs the exclusion of readers and
writers, and that an unsynced byte or a torn line always has an author, at
work or failed (`Authored`). `LogIsImplemented`: the file implements EventLog,
every step of it a step of the log or a stutter. A batch is in the log when its
sync decides it, and a part of it when its writer fails or dies.

**TrashProofs**, for any commands, names, contents and number of suffixes.
Types, `NoLeakedReservation` (the sidecar of an item that was not moved belongs
to the reservation its removal has in hand, or the removal was killed, or the
rollback failed in `os.Remove`) and `MovesAreRecorded` hold of every behaviour. The others have a hypothesis:

- `ExclusiveWithoutPurges`, `NeverOverwrittenWithoutPurges` (`Purgers = {}`):
  with any number of removals and restores in any order, killed or failing, with
  or without `RENAME_NOREPLACE`. Two overlapping purges do break exclusivity:
  the second `RemoveAll` finds nothing, succeeds, and the metadata it then
  removes by name can be that of a new reservation. A restore fails at its
  rename instead.
- `NeverOverwrittenWithNoReplace` (`NoReplace`): any commands, overlapping
  purges included.
- `NothingIsLost` (`NoReplace`): each content has one place, counted over both
  directories, until a purge takes it; purges may overlap. Without
  `RENAME_NOREPLACE` a file that appears between the Lstat and the rename of a
  restore is lost, as the comment in rename_linux.go says. Restores are the only
  reason: `RemovalsLoseNothing` and, in TrashSerialProofs,
  `PurgesLoseNothingElse` do without `RENAME_NOREPLACE`, as a reserved suffix is
  empty.

**TrashSerialProofs** is under `Serial`: no two undoing commands overlap, none
of them is killed, and the journal can be written. Removals still run beside
each other and beside the undoing command, and may be killed. No part of
`Serial` can be left out: with any one of them dropped from the instance of
`trash_serial` TLC finds each of `ActiveIntact`, `OnlySelectedLeaves` and
`ReservationsExclusive` violated. The reason is that of `trash_stale`: a record
of an item that is gone is still active, or in the hands of another command, and
a purge of it takes what a removal has put under the name since. `SerialInv`
says of every event in the journal, in a batch or in hand which item it is
about: one life per item in the order of the journal (`Lives`), each item once
in a batch (`Batches`), and the item and sidecar of each active record in place
unless the undoing command has taken it (`LiveIntact`, `PendingIntact`). From it
`ActiveIntact` and `OnlySelectedLeaves` follow, and both theorems on
reservations with purges.

**DoctorProofs**: `LastingTroubleIsFound` holds of every behaviour. The rest is
proved where undoing commands take turns (`~Overlap`), whatever is killed or
fails to write, or writes a part of its batch. `OneLifePerItem`: what an undoing
command has still to undo stays active until it ends (`TurnInv`), and a removal
writes each of its targets once (`LifeInv`). That every finding was true at some
moment: `LookInv` says that each record still to be looked at has its item or was
missing it at some moment. When two overlap, the second writes a record of an
item that is gone.

**RemovalProofs**, for any tree, policy, devices and request
(`RemovalAssumption`: the parents make a tree and `Order` lists it, each
directory before what is in it). `Above` and `Chosen` are recursive functions;
what they compute is proved by the least counterexample over the natural
numbers, for which the library's induction theorem, that takes an operator, is
not needed. On the plan, `PlanInv` says of the targets so far what
`ContentsFirst` and `ProtectedStays` say of the whole plan; it must speak of
the tree at the start, because files may appear between two walks (`Late`), and
of what lies past a mount point (`PastMount`). Both exceptions are reached in
the run `command_line`. On the loop, `MovedWithConsent`, `MovesReachTheJournal`
and `ZeroMeansDone` need that a failure once noted stays noted (`Appended`) and
that operands and targets that the command is past have been met (`OperandsMet`,
`TargetsMoved`).

**CommandLineProofs**: `RemovalAsWritten` carries all of the above over to the
process that parses its own request (`CarriedInv`: until `Launch` Removal has
not begun, and from there on it is one of its behaviours; the hypothesis
`EveryRequest` only says that the constant leaves no request out).
`RmReadsWhatIsWritten` and `CommandSelectsWhatIsWritten` are about any list of
arguments (`CommandAssumption`): the invariants `ReadInv` and `SelectInv` say
that what has been read is what the arguments so far say. The second turns on
one fact about lists: an argument is a value if and only if it follows an
`--operation` that is none itself.

**RootsProofs**: types and `PrivateWhenMoved` hold with any interference. While
only commands change the directories (`Calm`, the hypothesis inside the
properties), directories are only ever made, so what was found in order stays so
and what spoils a root stays: the first root that will do is the same for every
command at every time (`Destination`). `CompetitionIsHarmless` and
`PurgeFindsItsRoot` follow with `CalmInv`.

**RecoveryProofs**, for any tree, plans and number of commands
(`RecoveryAssumption`: the paths above a path are a chain, as lexical parents
are, and there are finitely many removals). One invariant, `Inv`, has two
halves. The journal: an item is trashed and restored at most once, in this order
(`LogOrder`); the batch of a removal, running or ended, holds records of its own
targets that the log has nothing of, that of a restore records that are still
active, each in the batch of one restore only (`Batches`); an item is in the
trash from its move until a restore has it in its batch or in the log
(`InTrash`). An append that fails or is cut takes a beginning of the batch to
the log and leaves the rest, and nothing takes the rest away. With nothing
running the batches are what was not written, so that the list and the trash
differ by them and by nothing else: `TrashIsListed`. The trees: every entry
the user had is in one place (`OnePlace`, `EntriesSurvive`), and what exists has
its parents at home and within an item (`HomeTree`, `TrashTrees`).
`OperationIsUndoneWhole` needs `Whole`: what of the operation is in the trash
is still to do, was not written by the removal, or something failed.
`UndoBringsBack` rests on the newest-first
order. `NewestFirst` is shown to list every record once, by the least
counterexample again. The clock orders the records of an operation as its plan
does (`Records`), and of two items of one operation the later is not below the
earlier and has nothing where the earlier was (`Nested`). The reason is that
while the removal runs nothing comes back to where its items were
(`StaysClear`), since a restore runs alone and the user waits. So each item that
is put back leaves free the way of those to come (`Undoing`).

What stays with TLC: liveness (`EveryCallReturns`, `EveryCommandEnds`), as
fairness and ENABLED are out of the prover's reach.

## Abstractions, and what is not modelled

- An event is a member of a small set; JSON, times and IDs are not spelled
  out. A random ID is a fresh item.
- A content is in one file. `os.RemoveAll` of a directory is one step; a
  failure that leaves half of a directory is not modelled.
- Power loss cuts the unsynced end of the journal; it does not reorder pages
  within it. The loss of directory entries in the trash after a power loss is
  not modelled.
  Nor is that of the journal's own directory entry: `Append` syncs the file and
  never its parent, so that `AckedIsDurable` takes for granted that a journal
  made by the first command is still found by its name.
- A command that is killed while it undoes records is in `doctor` and `recovery`,
  but in no passing run of `ActiveIntact` or `OnlySelectedLeaves`, which it
  violates: the record stays active and its name is free, as in `trash_stale`.
- A file manager that empties the trash, and directories that others change, are
  in Roots only; in Trash nobody else touches the trash directory.
- No two moves read the same time in Recovery. With equal times, or a clock
  that steps back, the order of a selection and of `--last` is not determined.
- A pattern is about a node and everything below it, as `/a/b/**` is; the syntax
  of patterns, and the lexical cleaning of paths, are left out.
- An argument is what the parsers tell apart: a cluster of letters, a long
  option by name, `--`, or a word. The value of `--limit` is a positive number or
  not.
- The configuration is read in one step that succeeds or not; its settings are
  constants of the modules they act in, but for the profile. TOML and the
  ownership and modes of the configuration file are left out.
- Not modelled: rendering and translations (wording only), the names of the
  platform's directories, build information, test helpers.

## Observations without a run

Met while modelling, and either documented by the code itself or about a single
line, so that a run would show nothing more:

- `list --operation ID` (docs/cli.md:63: filter by operation) is parsed, but
  `runList` (app.go:209) uses the limit only.
- docs/configuration.md:43 shows a `[logging]` section, which `Load` refuses:
  `DisallowUnknownFields` with no such field.
- The option table of docs/cli.md:22-25 gives `-I`, `-d` and `-v` to GNU and BSD
  only; `applyShortOption` does not look at the profile, and POSIX takes all
  three. `ReadsWhatIsWritten` is about what an accepted option means, where
  options end and which arguments are operands, not about which options the
  table gives to a profile.
- docs/cli.md:162 says that exit status 0 means all items moved. A walked operand
  that holds something protected stays, the skipped entries are no failures
  (`ItemSkipped`, result.go:36-55), and the command exits with 0;
  `ZeroMeansDone` excepts these operands.
- `Rollback` of a reservation reports an error of `os.Remove`, and each backend
  drops it (linux/backend.go:104): the metadata then stays beside the failed
  result, and its name is not used again (`stuck` in Trash).
- A restore of an operation exits with 0 when the removal's append left a part of
  its items out, and they stay in the trash (`OperationIsUndoneWhole` excepts
  them): nothing in the journal tells that the operation had more.
- `Validate` refuses an uppercase `BEARM_COMPAT` before the `ToLower` of
  `resolveConfiguredProfile` could accept it.
- The last candidate of `RootResolver.Resolve` for a target on a mount is the
  home trash, whose rename always fails with EXDEV (`Rename` in Roots). On a file
  system that keeps no modes no other candidate passes the check (`Modeless`).
- When an administrator adds or removes a sticky `.Trash` between a move and the
  purge, the purge derives another root and refuses the item
  (`PurgeFindsItsRoot` is stated for the case without interference).
- The fallback for a missing `RENAME_NOREPLACE` (rename_linux.go:24) lets a
  restore replace a file that appears between its Lstat and its rename; the
  comment there says so.
- The hard protection looks upwards only. `rm -r` of a directory above bearm's
  own ones is refused where the operand is walked, and moves them otherwise,
  although README.md:94 promises immunity without that condition.

## Plan

Done: the models of all parts listed above, and the proofs of all safety
properties that the runs check, under the hypotheses named above. What is left:

1. A statement weaker than `ActiveIntact` that holds without `Serial`: which of
   the records in the journal can have lost their item, and by which failure.
2. Doctor beside undoing commands that overlap: what its findings still mean.
