----------------------------- MODULE CommandLine -----------------------------
(***************************************************************************)
(* One process of bearm from its start: the configuration, the choice of a *)
(* parser, "rm" with the options of the three profiles, or a command of    *)
(* bearm's own; and then, for rm, everything in Removal.  What the other   *)
(* commands do is in Trash, Recovery and Doctor.  The parsers read one     *)
(* argument in each step, as their loops do, so that what they have made   *)
(* of the arguments can be compared with what the arguments so far say.    *)
(***************************************************************************)
EXTENDS Removal

CONSTANTS
    CommandLines,  \* [program, args]: how bearm may be called
    Settings       \* [file, env, os, inspect]: see Configured

(* A cluster of letters, a long option by its name, "--" or a word; names  *)
(* is the node that the argument stands for as an operand.                 *)
Arguments ==
    [form : {"short"}, text : Seq(STRING), names : Node]
    \cup [form : {"long", "end", "word"}, text : STRING, names : Node]
IsOption(a) == a.form \in {"short", "long"}

ASSUME CommandAssumption ==
    /\ \A line \in CommandLines : line.args \in Seq(Arguments)
    /\ Settings \subseteq [file : STRING, env : STRING, os : STRING, inspect : BOOLEAN]
    /\ None \notin Settings

VARIABLES
    setting,  \* the configuration and environment, None once they are read
    program,
    args,     \* the arguments of the parser
    used,     \* how many of them it has read
    parser,   \* compatibilityState
    native,   \* NativeRequest
    stage,
    status    \* the exit status of a process that does not come to Removal

commandLine == <<program, args, used, parser, native>>
removal == <<present, trash, cancelled, phase, k, plan, results, yes, records, outcome>>
commandVars == <<vars, setting, commandLine, stage, status>>

PlainOption ==
    [force |-> FALSE, interactive |-> "default", recursive |-> FALSE, directory |-> FALSE,
     verbose |-> FALSE, oneFileSystem |-> FALSE, preserveRoot |-> "default",
     showHelp |-> FALSE, showVersion |-> FALSE]
Parser(profile, inspect) ==
    [profile |-> profile, inspect |-> inspect, options |-> PlainOption, operands |-> <<>>, parseOptions |-> TRUE]
NativeRequest(command) ==
    [command |-> command, ids |-> <<>>, operation |-> "", last |-> FALSE, yes |-> FALSE,
     json |-> FALSE]

(* What Removal is handed: "default" and "never" are one to it.            *)
Handed(p) ==
    [operands |-> p.operands,
     options |->
        [force |-> p.options.force, recursive |-> p.options.recursive,
         directory |-> p.options.directory, verbose |-> p.options.verbose,
         interactive |-> IF p.options.interactive = "default" THEN "never" ELSE p.options.interactive,
         oneFileSystem |-> p.options.oneFileSystem, inspect |-> p.inspect,
         preserveAll |-> p.options.preserveRoot = "all", bsd |-> p.profile = "bsd"]]

CommandInit ==
    /\ setting \in Settings /\ used = 0
    /\ \E line \in CommandLines : program = line.program /\ args = line.args
    /\ parser = Parser("gnu", FALSE) /\ native = NativeRequest("help")
    /\ stage = "start" /\ status = None
    /\ request = Handed(parser) /\ Waiting
-----------------------------------------------------------------------------
(* Start *)

(* BEARM_COMPAT takes the place of what the file says.                     *)
Configured == IF setting.env # "" THEN setting.env ELSE setting.file

Profile ==
    CASE Configured # "auto" -> Configured
      [] setting.os = "darwin" -> "bsd"
      [] OTHER -> "gnu"

Exit(code) == stage' = "over" /\ status' = code

(* A configuration that is not valid, unsafe or unreadable, or a directory *)
(* that cannot be told.                                                    *)
StartFails ==
    /\ stage = "start"
    /\ Faults \/ Configured \notin {"auto", "gnu", "bsd", "posix"}
    /\ Exit(3) /\ UNCHANGED <<vars, setting, commandLine>>

AsRm == program = "rm" \/ (args # <<>> /\ Head(args).form = "word" /\ Head(args).text = "rm")

Load ==
    /\ stage = "start" /\ Configured \in {"auto", "gnu", "bsd", "posix"}
    /\ stage' = (IF AsRm THEN "rm" ELSE "native")
    /\ args' = (IF AsRm /\ program # "rm" THEN Tail(args) ELSE args)
    /\ parser' = Parser(Profile, setting.inspect)
    /\ setting' = None
    /\ UNCHANGED <<vars, program, used, native, status>>
-----------------------------------------------------------------------------
(* rm *)

Letters == {"f", "i", "I", "r", "R", "d", "v"}
GNULong == {"one-file-system", "preserve-root", "preserve-root=all", "no-preserve-root", "help", "version"}
Long ==
    {"force", "interactive", "recursive", "Recursive", "dir", "directory", "verbose",
     "interactive=never", "interactive=once", "interactive=always"}

ApplyShort(o, letter) ==
    CASE letter = "f" -> [o EXCEPT !.force = TRUE, !.interactive = "never"]
      [] letter = "i" -> [o EXCEPT !.force = FALSE, !.interactive = "always"]
      [] letter = "I" -> [o EXCEPT !.force = FALSE, !.interactive = "once"]
      [] letter \in {"r", "R"} -> [o EXCEPT !.recursive = TRUE]
      [] letter = "d" -> [o EXCEPT !.directory = TRUE]
      [] letter = "v" -> [o EXCEPT !.verbose = TRUE]

ApplyInteractive(o, value) == [o EXCEPT !.force = FALSE, !.interactive = value]

ApplyLong(o, name) ==
    CASE name = "force" -> ApplyShort(o, "f")
      [] name \in {"interactive", "interactive=always"} -> ApplyInteractive(o, "always")
      [] name = "interactive=once" -> ApplyInteractive(o, "once")
      [] name = "interactive=never" -> ApplyInteractive(o, "never")
      [] name \in {"recursive", "Recursive"} -> [o EXCEPT !.recursive = TRUE]
      [] name \in {"dir", "directory"} -> [o EXCEPT !.directory = TRUE]
      [] name = "verbose" -> [o EXCEPT !.verbose = TRUE]
      [] name = "one-file-system" -> [o EXCEPT !.oneFileSystem = TRUE]
      [] name = "preserve-root" -> [o EXCEPT !.preserveRoot = "default"]
      [] name = "preserve-root=all" -> [o EXCEPT !.preserveRoot = "all"]
      [] name = "no-preserve-root" -> [o EXCEPT !.preserveRoot = "none"]
      [] name = "help" -> [o EXCEPT !.showHelp = TRUE]
      [] name = "version" -> [o EXCEPT !.showVersion = TRUE]

Known(a) ==
    IF a.form = "short" THEN ToSet(a.text) \subseteq Letters
    ELSE a.text \in Long \/ (parser.profile = "gnu" /\ a.text \in GNULong)

(* The letters of a cluster, from left to right.                           *)
ApplyCluster(o, letters) ==
    LET applied[j \in 0 .. Len(letters)] ==
            IF j = 0 THEN o ELSE ApplyShort(applied[j - 1], letters[j])
    IN  applied[Len(letters)]

Apply(o, a) ==
    IF a.form = "short" THEN ApplyCluster(o, a.text) ELSE ApplyLong(o, a.text)

UsageCode == IF parser.profile = "bsd" THEN 64 ELSE 1

Reading == stage = "rm" /\ used < Len(args)
Argument == args[used + 1]
Read == used' = used + 1 /\ UNCHANGED <<vars, setting, program, args, native, stage, status>>

EndOptions ==
    /\ Reading /\ Argument.form = "end" /\ parser.parseOptions
    /\ parser' = [parser EXCEPT !.parseOptions = FALSE] /\ Read

ApplyOption ==
    /\ Reading /\ IsOption(Argument) /\ parser.parseOptions /\ Known(Argument)
    /\ parser' = [parser EXCEPT !.options = Apply(@, Argument)] /\ Read

(* One option that is not known, and nothing of the command is done.       *)
UsageError ==
    /\ Reading /\ IsOption(Argument) /\ parser.parseOptions /\ ~Known(Argument)
    /\ Exit(UsageCode) /\ UNCHANGED <<vars, setting, commandLine>>

(* Mutant: options go on after the first operand in every profile. *)
TakeOperandOnly ==
    /\ Reading /\ (Argument.form = "word" \/ ~parser.parseOptions)
    /\ parser' = [parser EXCEPT !.operands = Append(@, Argument.names)] /\ Read

TakeOperand ==
    /\ Reading /\ (Argument.form = "word" \/ ~parser.parseOptions)
    /\ parser' = [parser EXCEPT !.operands = Append(@, Argument.names),
                                !.parseOptions = @ /\ parser.profile = "gnu"]
    /\ Read

Parsed == stage = "rm" /\ used = Len(args)
Informs == parser.options.showVersion \/ parser.options.showHelp

(* No operand: help and version, a usage error, or nothing to do under -f. *)
NothingToRemove ==
    /\ Parsed /\ (Informs \/ parser.operands = <<>>)
    /\ Exit(IF Informs \/ parser.options.force THEN 0 ELSE UsageCode)
    /\ UNCHANGED <<vars, setting, commandLine>>

(* Plan begins; the arguments are forgotten.                               *)
Launch ==
    /\ Parsed /\ ~Informs /\ parser.operands # <<>>
    /\ request' = Handed(parser) /\ stage' = "run"
    /\ args' = <<>> /\ used' = 0 /\ parser' = Parser("gnu", FALSE)
    /\ UNCHANGED <<removal, setting, program, native, status>>
-----------------------------------------------------------------------------
(* Commands of bearm's own *)

Selecting == native.command \in {"restore", "purge"}
Commands == {"list", "restore", "purge", "doctor", "config", "help", "version"}
ReadNative(n) ==
    /\ used' = used + n
    /\ UNCHANGED <<vars, setting, program, args, parser, stage, status>>

AsksForHelp(a) == (a.form = "long" /\ a.text = "help") \/ (a.form = "short" /\ a.text = <<"h">>)

(* The name of the command; without one, and for -h and --help, it is help. *)
CommandNamed(a) ==
    IF a.form = "word" THEN a.text ELSE IF AsksForHelp(a) THEN "help" ELSE "--"

ReadCommand ==
    /\ stage = "native" /\ used = 0 /\ args # <<>> /\ CommandNamed(Argument) \in Commands
    /\ native' = NativeRequest(CommandNamed(Argument)) /\ ReadNative(1)

(* The options of a command. *)
Options(command) ==
    CASE command = "list" -> {"operation", "limit", "json"}
      [] command = "restore" -> {"operation", "last"}
      [] command = "purge" -> {"operation", "last", "yes"}
      [] command = "doctor" -> {"json"}
      [] OTHER -> {}

HasValue == used + 1 < Len(args)
Value == args[used + 2]

(* doctor takes --json and nothing else, config one word. *)
Understood ==
    IF Argument.form = "word"
    THEN \/ Selecting
         \/ native.command = "config" /\ Len(args) = 2 /\ Argument.text \in {"path", "check"}
    ELSE /\ Argument.form = "long" /\ Argument.text \in Options(native.command)
         /\ Argument.text = "operation" => HasValue
         /\ Argument.text = "limit" => HasValue /\ Value.form = "word" /\ Value.text = "positive"
         /\ native.command = "doctor" => Len(args) = 2

Began == stage = "native" /\ used > 0
ReadingNative == Began /\ used < Len(args) /\ Understood
Option(name) == ReadingNative /\ Argument.form = "long" /\ Argument.text = name

(* Mutant: the value of --operation is read as an argument once more. *)
ReadOperationOnly ==
    /\ Option("operation")
    /\ native' = [native EXCEPT !.operation = Value.text] /\ ReadNative(1)

(* The value is whatever comes next, also what looks like an option.       *)
ReadOperation ==
    /\ Option("operation")
    /\ native' = [native EXCEPT !.operation = Value.text] /\ ReadNative(2)

ReadLimit ==
    /\ Option("limit")
    /\ native' = native /\ ReadNative(2)

ReadJSON ==
    /\ Option("json")
    /\ native' = [native EXCEPT !.json = TRUE] /\ ReadNative(1)

ReadLast ==
    /\ Option("last")
    /\ native' = [native EXCEPT !.last = TRUE] /\ ReadNative(1)

ReadYes ==
    /\ Option("yes")
    /\ native' = [native EXCEPT !.yes = TRUE] /\ ReadNative(1)

(* An item ID; for config, what to do. *)
ReadWord ==
    /\ ReadingNative /\ Argument.form = "word"
    /\ native' = [native EXCEPT !.ids = Append(@, Argument.text)] /\ ReadNative(1)

Selectors ==
    {s \in {"last", "operation", "ids"} :
        \/ s = "last" /\ native.last
        \/ s = "operation" /\ native.operation # ""
        \/ s = "ids" /\ native.ids # <<>>}

Complete ==
    /\ Began /\ used = Len(args)
    /\ Selecting => Cardinality(Selectors) = 1
    /\ native.command = "config" => native.ids # <<>>

(* The command starts, with the journal of Trash, Recovery and Doctor.     *)
StartNative ==
    /\ Complete /\ native.command \in {"list", "restore", "purge", "doctor"}
    /\ stage' = "command"
    /\ UNCHANGED <<vars, setting, commandLine, status>>

(* help, version and config; the configuration was valid at the start.     *)
Inform ==
    /\ \/ Complete /\ native.command \in {"help", "version", "config"}
       \/ stage = "native" /\ args = <<>>
    /\ Exit(0) /\ UNCHANGED <<vars, setting, commandLine>>

(* No such command or option, a missing value, or the wrong number of      *)
(* selectors.                                                              *)
NativeError ==
    /\ stage = "native"
    /\ \/ used = 0 /\ args # <<>> /\ CommandNamed(Argument) \notin Commands
       \/ used > 0 /\ used = Len(args) /\ ~Complete
       \/ used > 0 /\ used < Len(args) /\ ~Understood
    /\ Exit(2) /\ UNCHANGED <<vars, setting, commandLine>>

RunRemoval == stage = "run" /\ Next /\ UNCHANGED <<setting, commandLine, stage, status>>

CommandNext ==
    \/ StartFails \/ Load
    \/ EndOptions \/ ApplyOption \/ UsageError \/ TakeOperand \/ NothingToRemove \/ Launch
    \/ ReadCommand \/ ReadOperation \/ ReadLimit \/ ReadJSON \/ ReadLast \/ ReadYes \/ ReadWord
    \/ StartNative \/ NativeError \/ Inform
    \/ RunRemoval

CommandSpec == CommandInit /\ [][CommandNext]_commandVars
-----------------------------------------------------------------------------
(* Properties *)

(* What the documents of the three profiles say of an argument list: where *)
(* its options end, which arguments are options and which operands, and    *)
(* that of the options -f, -i, -I and --interactive the last one counts.   *)
EndsOptions(j) == args[j].form = "end" \/ (args[j].form = "word" /\ parser.profile # "gnu")
Given == {j \in 1 .. used : IsOption(args[j]) /\ \A h \in 1 .. j : ~EndsOptions(h)}
Operands == {j \in 1 .. used : args[j].form = "word" \/ \E h \in 1 .. j - 1 : EndsOptions(h)}

(* The prompt options: an argument and, in a cluster, which letter of it.  *)
PromptPlaces(a) ==
    IF a.form = "short" THEN {i \in 1 .. Len(a.text) : a.text[i] \in {"f", "i", "I"}}
    ELSE IF a.text \in Long \ {"recursive", "Recursive", "dir", "directory", "verbose"}
    THEN {1} ELSE {}
Prompts == UNION {{j} \X PromptPlaces(args[j]) : j \in Given}
PromptAt(place) ==
    LET a == args[place[1]]
    IN  IF a.form = "short" THEN a.text[place[2]] ELSE a.text
NotAfter(l, m) == l[1] < m[1] \/ (l[1] = m[1] /\ l[2] <= m[2])
Prompted(o, said) ==
    /\ o.force <=> said \in {"f", "force"}
    /\ o.interactive =
           CASE said = "none" -> "default"
             [] said \in {"f", "force", "interactive=never"} -> "never"
             [] said \in {"I", "interactive=once"} -> "once"
             [] OTHER -> "always"

(* An option other than these has been given, as a letter or by its name.  *)
Says(letters, names) ==
    \E j \in Given :
        IF args[j].form = "short" THEN ToSet(args[j].text) \cap letters # {} ELSE args[j].text \in names

(* The rm that is carried out is the one that was written: at every        *)
(* argument the operands are those that are not options where options end  *)
(* for the profile, in their order, an option has been given or not, and   *)
(* -f and the prompts are as the last option about them says.              *)
ReadsWhatIsWritten ==
    stage = "rm" =>
        /\ Len(parser.operands) = Cardinality(Operands)
        /\ \A j \in Operands :
              parser.operands[Cardinality({h \in Operands : h <= j})] = args[j].names
        /\ Prompts = {} => Prompted(parser.options, "none")
        /\ \A place \in Prompts :
              (\A other \in Prompts : NotAfter(other, place)) => Prompted(parser.options, PromptAt(place))
        /\ parser.options.recursive <=> Says({"r", "R"}, {"recursive", "Recursive"})
        /\ parser.options.directory <=> Says({"d"}, {"dir", "directory"})
        /\ parser.options.verbose <=> Says({"v"}, {"verbose"})
        /\ parser.options.oneFileSystem <=> Says({}, {"one-file-system"})

(* An argument is the value of the one before it if that is --operation    *)
(* and not a value itself: if it comes after an odd number of them.        *)
NamesOperation(j) == args[j].form = "long" /\ args[j].text = "operation"
IsValue(j) ==
    \E m \in 1 .. j - 1 :
        ~NamesOperation(m) /\ (\A h \in m + 1 .. j - 1 : NamesOperation(h)) /\ (j - 1 - m) % 2 = 1

Values == {j \in 2 .. Len(args) : IsValue(j)}
Own == (2 .. Len(args)) \ Values
Words == {j \in Own : args[j].form = "word"}
Written(name) == \E j \in Own : args[j].form = "long" /\ args[j].text = name

(* A restore or purge that is carried out was asked for by exactly one of  *)
(* --last, --operation and item IDs, and without a prompt only where --yes *)
(* is written as an option; what is the value of --operation counts for    *)
(* nothing else.                                                           *)
SelectsWhatIsWritten ==
    stage = "command" /\ Selecting =>
        /\ native.last <=> Written("last")
        /\ native.yes <=> Written("yes")
        /\ Len(native.ids) = Cardinality(Words)
        /\ IF Values = {} THEN native.operation = ""
           ELSE \E j \in Values : native.operation = args[j].text /\ \A h \in Values : h <= j
        /\ CASE native.last -> Words = {} /\ native.operation = ""
             [] native.operation # "" -> Words = {} /\ ~native.last
             [] OTHER -> Words # {}
=============================================================================
