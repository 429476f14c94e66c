-------------------------- MODULE CommandLineProofs --------------------------
(***************************************************************************)
(* What the parsers make of any argument list, and what holds of a removal *)
(* whatever the arguments it comes from.                                   *)
(***************************************************************************)
EXTENDS CommandLine, RemovalProofs, FiniteSetTheorems

ParserOptions ==
    [force : BOOLEAN, interactive : {"default", "never", "once", "always"}, recursive : BOOLEAN,
     directory : BOOLEAN, verbose : BOOLEAN, oneFileSystem : BOOLEAN,
     preserveRoot : {"default", "all", "none"}, showHelp : BOOLEAN, showVersion : BOOLEAN]
PromptLetters == {"f", "i", "I"}
-----------------------------------------------------------------------------
(* What one option does, and one cluster *)

(* r is o after an option that is one of the letters, or has the name.     *)
Sets(o, r, letters, names, said) ==
    /\ r \in ParserOptions
    /\ r.recursive <=> o.recursive \/ letters \cap {"r", "R"} # {} \/ names \cap {"recursive", "Recursive"} # {}
    /\ r.directory <=> o.directory \/ letters \cap {"d"} # {} \/ names \cap {"dir", "directory"} # {}
    /\ r.verbose <=> o.verbose \/ letters \cap {"v"} # {} \/ names \cap {"verbose"} # {}
    /\ r.oneFileSystem <=> o.oneFileSystem \/ names \cap {"one-file-system"} # {}
    /\ IF said = "none" THEN r.force = o.force /\ r.interactive = o.interactive
       ELSE Prompted(r, said)

LEMMA OneLetter ==
  ASSUME NEW o \in ParserOptions, NEW c \in Letters
  PROVE  Sets(o, ApplyShort(o, c), {c}, {}, IF c \in PromptLetters THEN c ELSE "none")
<1>1. CASE c = "f"
  BY <1>1 DEF ApplyShort, Sets, ParserOptions, Prompted, PromptLetters
<1>2. CASE c = "i"
  BY <1>2 DEF ApplyShort, Sets, ParserOptions, Prompted, PromptLetters
<1>3. CASE c = "I"
  BY <1>3 DEF ApplyShort, Sets, ParserOptions, Prompted, PromptLetters
<1>4. CASE c \in {"r", "R"}
  BY <1>4 DEF ApplyShort, Sets, ParserOptions, Prompted, PromptLetters
<1>5. CASE c = "d"
  BY <1>5 DEF ApplyShort, Sets, ParserOptions, Prompted, PromptLetters
<1>6. CASE c = "v"
  BY <1>6 DEF ApplyShort, Sets, ParserOptions, Prompted, PromptLetters
<1> QED
  BY <1>1, <1>2, <1>3, <1>4, <1>5, <1>6 DEF Letters

PromptNames == Long \ {"recursive", "Recursive", "dir", "directory", "verbose"}

LEMMA OneName ==
  ASSUME NEW o \in ParserOptions, NEW name \in Long \cup GNULong
  PROVE  Sets(o, ApplyLong(o, name), {}, {name}, IF name \in PromptNames THEN name ELSE "none")
<1> USE DEF ApplyLong, ApplyInteractive, Sets, ParserOptions, Prompted, PromptNames, Long
<1>1. CASE name = "force"
  BY <1>1 DEF ApplyShort
<1>2. CASE name \in {"interactive", "interactive=always"}
  BY <1>2
<1>3. CASE name = "interactive=once"
  BY <1>3
<1>4. CASE name = "interactive=never"
  BY <1>4
<1>5. CASE name \in {"recursive", "Recursive"}
  BY <1>5
<1>6. CASE name \in {"dir", "directory"}
  BY <1>6
<1>7. CASE name = "verbose"
  BY <1>7
<1>8. CASE name = "one-file-system"
  BY <1>8
<1>9. CASE name \in {"preserve-root", "preserve-root=all", "no-preserve-root"}
  <2>1. CASE name = "preserve-root"
    BY <2>1
  <2>2. CASE name = "preserve-root=all"
    BY <2>2
  <2>3. CASE name = "no-preserve-root"
    BY <2>3
  <2> QED
    BY <1>9, <2>1, <2>2, <2>3
<1>10. CASE name \in {"help", "version"}
  BY <1>10
<1> QED
  BY <1>1, <1>2, <1>3, <1>4, <1>5, <1>6, <1>7, <1>8, <1>9, <1>10 DEF GNULong

(* f is o after each of the first n letters.                               *)
Applies(f, o, letters, n) ==
    f = [j \in 0 .. n |-> IF j = 0 THEN o ELSE ApplyShort(f[j - 1], letters[j])]

LEMMA ApplicationExists ==
  ASSUME NEW o, NEW letters, NEW len \in Nat
  PROVE  \E f : Applies(f, o, letters, len)
<1> DEFINE Bad == {n \in 0 .. len : ~ \E f : Applies(f, o, letters, n)}
<1>1. 0 \notin Bad
  <2> DEFINE f == [j \in 0 .. 0 |-> o]
  <2>1. f = [j \in 0 .. 0 |-> IF j = 0 THEN o ELSE ApplyShort(f[j - 1], letters[j])]
    OBVIOUS
  <2> HIDE DEF f
  <2>2. Applies(f, o, letters, 0)
    BY <2>1 DEF Applies
  <2> QED
    BY <2>2
<1>2. ASSUME Bad # {} PROVE FALSE
  <2>1. Bad \subseteq Nat
    OBVIOUS
  <2>2. PICK n \in Bad : \A m \in Bad : n <= m
    BY <1>2, <2>1, Least
  <2>3. n \in 1 .. len /\ n - 1 \in 0 .. len /\ n \in Nat /\ ~(n <= n - 1)
    BY <1>1, <2>2
  <2>4. PICK f : Applies(f, o, letters, n - 1)
    BY <2>2, <2>3
  <2> DEFINE g == [j \in 0 .. n |-> IF j < n THEN f[j] ELSE ApplyShort(f[n - 1], letters[n])]
  <2>5. \A j \in 0 .. n : g[j] = IF j = 0 THEN o ELSE ApplyShort(g[j - 1], letters[j])
    <3>1. \A j \in 0 .. n - 1 : f[j] = IF j = 0 THEN o ELSE ApplyShort(f[j - 1], letters[j])
      BY <2>4 DEF Applies
    <3> SUFFICES ASSUME NEW j \in 0 .. n
                 PROVE  g[j] = IF j = 0 THEN o ELSE ApplyShort(g[j - 1], letters[j])
      OBVIOUS
    <3>2. j # 0 => g[j - 1] = f[j - 1]
      BY <2>3
    <3>3. CASE j < n
      BY <2>3, <3>1, <3>2, <3>3
    <3>4. CASE j = n
      BY <2>3, <3>2, <3>4
    <3> QED
      BY <2>3, <3>3, <3>4
  <2>6. g = [j \in 0 .. n |-> g[j]]
    OBVIOUS
  <2> HIDE DEF g
  <2>7. Applies(g, o, letters, n)
    BY <2>5, <2>6 DEF Applies
  <2> QED
    BY <2>2, <2>7
<1> QED
  BY <1>2

(* r is o after the first n letters: each option that is among them is     *)
(* set, and the prompts are as the last letter about them says.            *)
SetsFirst(o, r, letters, n) ==
    /\ r \in ParserOptions
    /\ r.recursive <=> o.recursive \/ \E i \in 1 .. n : letters[i] \in {"r", "R"}
    /\ r.directory <=> o.directory \/ \E i \in 1 .. n : letters[i] \in {"d"}
    /\ r.verbose <=> o.verbose \/ \E i \in 1 .. n : letters[i] \in {"v"}
    /\ r.oneFileSystem = o.oneFileSystem
    /\ (\A i \in 1 .. n : letters[i] \notin PromptLetters) =>
          r.force = o.force /\ r.interactive = o.interactive
    /\ \A i \in 1 .. n :
          letters[i] \in PromptLetters /\ (\A h \in 1 .. n : letters[h] \in PromptLetters => h <= i) =>
              Prompted(r, letters[i])

LEMMA OneMoreLetter ==
  ASSUME NEW o \in ParserOptions, NEW r, NEW letters, NEW n \in Nat, SetsFirst(o, r, letters, n),
         letters[n + 1] \in Letters
  PROVE  SetsFirst(o, ApplyShort(r, letters[n + 1]), letters, n + 1)
<1> DEFINE c == letters[n + 1]
           q1 == ApplyShort(r, c)
<1>0. \A i \in 1 .. n + 1 : i \in 1 .. n \/ i = n + 1
  OBVIOUS
<1>a. (\A i \in 1 .. n : i \in 1 .. n + 1 /\ i <= n) /\ n + 1 \in 1 .. n + 1 /\ ~(n + 1 <= n)
  OBVIOUS
<1>1. r \in ParserOptions
  BY DEF SetsFirst
<1>2. Sets(r, q1, {c}, {}, IF c \in PromptLetters THEN c ELSE "none")
  BY <1>1, OneLetter
<1>3. \A h \in PromptLetters : h # "none"
  BY DEF PromptLetters
<1>n. \A S : S \cap {} = {} /\ {} \cap S = {} /\ \A x \in S : x \in S
  OBVIOUS
<1> HIDE DEF q1
<1>4. /\ q1 \in ParserOptions
      /\ q1.recursive <=> r.recursive \/ c \in {"r", "R"}
      /\ q1.directory <=> r.directory \/ c \in {"d"}
      /\ q1.verbose <=> r.verbose \/ c \in {"v"}
      /\ q1.oneFileSystem <=> r.oneFileSystem
  BY <1>2 DEF Sets
<1>4a. r.oneFileSystem \in BOOLEAN /\ q1.oneFileSystem \in BOOLEAN
  BY <1>1, <1>4 DEF ParserOptions
<1>5. c \notin PromptLetters => q1.force = r.force /\ q1.interactive = r.interactive
  BY <1>2 DEF Sets
<1>6. c \in PromptLetters => Prompted(q1, c)
  BY <1>2, <1>3 DEF Sets
<1>7. c \notin PromptLetters => \A said : Prompted(r, said) => Prompted(q1, said)
  BY <1>5 DEF Prompted
<1> HIDE DEF c
<1>8. q1.recursive <=> o.recursive \/ \E i \in 1 .. n + 1 : letters[i] \in {"r", "R"}
  BY <1>0, <1>a, <1>4 DEF SetsFirst, c
<1>9. q1.directory <=> o.directory \/ \E i \in 1 .. n + 1 : letters[i] \in {"d"}
  BY <1>0, <1>a, <1>4 DEF SetsFirst, c
<1>10. q1.verbose <=> o.verbose \/ \E i \in 1 .. n + 1 : letters[i] \in {"v"}
  BY <1>0, <1>a, <1>4 DEF SetsFirst, c
<1>11. q1.oneFileSystem = o.oneFileSystem
  BY <1>4, <1>4a DEF SetsFirst
<1>12. ASSUME \A i \in 1 .. n + 1 : letters[i] \notin PromptLetters
       PROVE  q1.force = o.force /\ q1.interactive = o.interactive
  BY <1>5, <1>a, <1>12 DEF SetsFirst, c
<1>13. ASSUME NEW i \in 1 .. n + 1, letters[i] \in PromptLetters,
              \A h \in 1 .. n + 1 : letters[h] \in PromptLetters => h <= i
       PROVE  Prompted(q1, letters[i])
  <2>1. CASE i = n + 1
    BY <1>6, <1>13, <2>1 DEF c
  <2>2. CASE i \in 1 .. n
    <3>1. c \notin PromptLetters
      BY <1>a, <1>13, <2>2 DEF c
    <3>2. Prompted(r, letters[i])
      BY <1>a, <1>13, <2>2 DEF SetsFirst
    <3> QED
      BY <1>7, <3>1, <3>2
  <2> QED
    BY <1>0, <2>1, <2>2
<1>14. SetsFirst(o, q1, letters, n + 1)
  BY <1>4, <1>8, <1>9, <1>10, <1>11, <1>12, <1>13 DEF SetsFirst
<1> QED
  BY <1>14 DEF q1, c

LEMMA OneCluster ==
  ASSUME NEW o \in ParserOptions, NEW letters \in Seq(STRING), ToSet(letters) \subseteq Letters
  PROVE  SetsFirst(o, ApplyCluster(o, letters), letters, Len(letters))
<1> DEFINE len == Len(letters)
           f == CHOOSE g : Applies(g, o, letters, len)
<1>1. len \in Nat
  OBVIOUS
<1>2. ApplyCluster(o, letters) = f[len]
  BY DEF ApplyCluster, Applies
<1>3. Applies(f, o, letters, len)
  BY <1>1, ApplicationExists
<1> HIDE DEF f
<1>4. \A j \in 0 .. len : f[j] = IF j = 0 THEN o ELSE ApplyShort(f[j - 1], letters[j])
  BY <1>3 DEF Applies
<1> DEFINE Bad == {n \in 0 .. len : ~ SetsFirst(o, f[n], letters, n)}
<1>5. 0 \notin Bad
  <2>1. f[0] = o
    BY <1>1, <1>4
  <2>2. \A i \in 1 .. 0 : FALSE
    OBVIOUS
  <2> QED
    BY <2>1, <2>2 DEF SetsFirst, ParserOptions
<1>6. ASSUME Bad # {} PROVE FALSE
  <2>1. Bad \subseteq Nat
    OBVIOUS
  <2>2. PICK n \in Bad : \A m \in Bad : n <= m
    BY <1>6, <2>1, Least
  <2>3. n \in 1 .. len /\ n - 1 \in 0 .. len /\ n \in Nat /\ ~(n <= n - 1) /\ n - 1 \in Nat /\ (n - 1) + 1 = n
    BY <1>5, <2>2
  <2>4. SetsFirst(o, f[n - 1], letters, n - 1)
    BY <2>2, <2>3
  <2>5. letters[n] \in Letters
    BY <2>3 DEF ToSet
  <2>6. f[n] = ApplyShort(f[n - 1], letters[n])
    BY <1>4, <2>3
  <2> HIDE DEF Bad
  <2>7. SetsFirst(o, ApplyShort(f[n - 1], letters[(n - 1) + 1]), letters, (n - 1) + 1)
    BY <2>3, <2>4, <2>5, OneMoreLetter
  <2>8. SetsFirst(o, f[n], letters, n)
    BY <2>3, <2>6, <2>7
  <2> QED
    BY <2>2, <2>8 DEF Bad
<1> QED
  BY <1>1, <1>2, <1>6
-----------------------------------------------------------------------------
(* A process from its start *)

ParserState ==
    [profile : {"gnu", "bsd", "posix"}, inspect : BOOLEAN, options : ParserOptions,
     operands : Seq(Node), parseOptions : BOOLEAN]
ProcessOK ==
    /\ stage = "start" => setting \in Settings /\ used = 0
    /\ args \in Seq(Arguments) /\ used \in 0 .. Len(args)
    /\ parser \in ParserState

LEMMA KnownArguments ==
  ASSUME NEW a \in Arguments, IsOption(a), Known(a)
  PROVE  IF a.form = "short" THEN a.text \in Seq(STRING) /\ ToSet(a.text) \subseteq Letters
         ELSE a.form = "long" /\ a.text \in Long \cup GNULong
<1>1. a.form = "short" => a.text \in Seq(STRING)
  BY DEF Arguments
<1> QED
  BY <1>1 DEF IsOption, Known

LEMMA KnownOptions ==
  ASSUME NEW a \in Arguments, IsOption(a), Known(a), NEW o \in ParserOptions
  PROVE  Apply(o, a) \in ParserOptions
<1>1. CASE a.form = "short"
  <2>1. a.text \in Seq(STRING) /\ ToSet(a.text) \subseteq Letters
    BY <1>1, KnownArguments
  <2> QED
    BY <1>1, <2>1, OneCluster DEF Apply, SetsFirst
<1>2. CASE a.form # "short"
  <2>1. a.text \in Long \cup GNULong
    BY <1>2, KnownArguments
  <2> QED
    BY <1>2, <2>1, OneName DEF Apply, Sets
<1> QED
  BY <1>1, <1>2

LEMMA FreshParser ==
  ASSUME NEW profile \in {"gnu", "bsd", "posix"}, NEW inspect \in BOOLEAN
  PROVE  Parser(profile, inspect) \in ParserState
<1>1. PlainOption \in ParserOptions
  BY DEF PlainOption, ParserOptions
<1>2. <<>> \in Seq(Node)
  OBVIOUS
<1> QED
  BY <1>1, <1>2 DEF Parser, ParserState

LEMMA ProcessInit == CommandInit => ProcessOK
<1> SUFFICES ASSUME CommandInit PROVE ProcessOK
  OBVIOUS
<1>1. PICK line \in CommandLines : args = line.args
  BY DEF CommandInit
<1>2. args \in Seq(Arguments)
  BY <1>1, CommandAssumption
<1>3. Len(args) \in Nat
  BY <1>2
<1>4. stage = "start" /\ setting \in Settings /\ used = 0 /\ parser = Parser("gnu", FALSE)
  BY DEF CommandInit
<1>5. parser \in ParserState
  BY <1>4, FreshParser
<1>6. used \in 0 .. Len(args)
  BY <1>3, <1>4
<1> QED
  BY <1>2, <1>4, <1>5, <1>6 DEF ProcessOK

(* A step of the parser of rm: an argument that ends the options, is one   *)
(* or is an operand.                                                       *)
LEMMA ParserStep ==
  ASSUME ProcessOK, EndOptions \/ ApplyOption \/ TakeOperand
  PROVE  /\ parser' \in ParserState /\ Reading /\ used' = used + 1
         /\ UNCHANGED <<vars, setting, program, args, native, stage, status>>
<1>0. /\ Reading /\ used' = used + 1 /\ parser \in ParserState /\ args \in Seq(Arguments)
      /\ UNCHANGED <<vars, setting, program, args, native, stage, status>>
  BY DEF ProcessOK, EndOptions, ApplyOption, TakeOperand, Read
<1>1. used + 1 \in 1 .. Len(args)
  BY <1>0 DEF ProcessOK, Reading
<1>2. Argument \in Arguments
  BY <1>0, <1>1 DEF Argument
<1>3. CASE EndOptions
  BY <1>0, <1>3 DEF EndOptions, ParserState
<1>4. CASE ApplyOption
  <2>1. parser.options \in ParserOptions
    BY <1>0 DEF ParserState
  <2>2. Apply(parser.options, Argument) \in ParserOptions
    BY <1>2, <1>4, <2>1, KnownOptions DEF ApplyOption
  <2>3. parser' = [parser EXCEPT !.options = Apply(parser.options, Argument)]
    BY <1>4 DEF ApplyOption
  <2> QED
    BY <1>0, <2>2, <2>3 DEF ParserState
<1>5. CASE TakeOperand
  <2>1. Argument.names \in Node /\ parser.operands \in Seq(Node)
    BY <1>0, <1>2 DEF Arguments, ParserState
  <2>2. Append(parser.operands, Argument.names) \in Seq(Node)
    BY <2>1
  <2>3. (parser.parseOptions /\ parser.profile = "gnu") \in BOOLEAN
    OBVIOUS
  <2>4. parser' = [parser EXCEPT !.operands = Append(parser.operands, Argument.names),
                                 !.parseOptions = parser.parseOptions /\ parser.profile = "gnu"]
    BY <1>5 DEF TakeOperand
  <2> QED
    BY <1>0, <2>2, <2>3, <2>4 DEF ParserState
<1> QED
  BY <1>0, <1>3, <1>4, <1>5

LEMMA LoadStep ==
  ASSUME ProcessOK, Load
  PROVE  /\ args' \in Seq(Arguments) /\ used' = 0 /\ parser' \in ParserState
         /\ stage = "start" /\ stage' \in {"rm", "native"} /\ UNCHANGED vars
         /\ \E profile \in {"gnu", "bsd", "posix"} : \E inspect \in BOOLEAN : parser' = Parser(profile, inspect)
         /\ args' \in {args, Tail(args)} /\ (stage' = "native" => args' = args)
<1>1. setting \in [file : STRING, env : STRING, os : STRING, inspect : BOOLEAN]
      /\ args \in Seq(Arguments) /\ used = 0
  BY CommandAssumption DEF ProcessOK, Load
<1>2. Profile \in {"gnu", "bsd", "posix"} /\ setting.inspect \in BOOLEAN
  BY <1>1 DEF Load, Profile
<1>3. parser' = Parser(Profile, setting.inspect)
  BY DEF Load
<1>4. ASSUME AsRm, program # "rm" PROVE Tail(args) \in Seq(Arguments)
  BY <1>1, <1>4 DEF AsRm
<1>5. args' \in Seq(Arguments)
  BY <1>1, <1>4 DEF Load
<1>6. args' \in {args, Tail(args)} /\ (stage' = "native" => args' = args)
  BY DEF Load
<1> QED
  BY <1>1, <1>2, <1>3, <1>5, <1>6, FreshParser DEF Load

(* A step of the parser of bearm's own commands: how far it has come.      *)
Natives == ReadCommand \/ ReadOperation \/ ReadLimit \/ ReadJSON \/ ReadLast \/ ReadYes \/ ReadWord
LEMMA NativeStep ==
  ASSUME ProcessOK, Natives
  PROVE  /\ stage = "native" /\ used' \in 0 .. Len(args) /\ used < Len(args)
         /\ UNCHANGED <<vars, setting, program, args, parser, stage, status>>
<1>0. used \in Nat /\ Len(args) \in Nat
  BY DEF ProcessOK
<1>1. CASE ReadCommand
  <2>1. Len(args) > 0 /\ used = 0 /\ used' = used + 1
    BY <1>1 DEF ReadCommand, ReadNative, ProcessOK
  <2> QED
    BY <1>0, <1>1, <2>1 DEF ReadCommand, ReadNative
<1>2. CASE ReadOperation \/ ReadLimit
  <2>1. HasValue /\ used' = used + 2 /\ stage = "native" /\ used < Len(args)
    BY <1>2 DEF ReadOperation, ReadLimit, ReadNative, Option, ReadingNative, Understood, Began
  <2> QED
    BY <1>0, <1>2, <2>1 DEF ReadOperation, ReadLimit, ReadNative, HasValue
<1>3. CASE ReadJSON \/ ReadLast \/ ReadYes \/ ReadWord
  <2>1. used' = used + 1 /\ stage = "native" /\ used < Len(args)
    BY <1>3 DEF ReadJSON, ReadLast, ReadYes, ReadWord, ReadNative, Option, ReadingNative, Began
  <2> QED
    BY <1>0, <1>3, <2>1 DEF ReadJSON, ReadLast, ReadYes, ReadWord, ReadNative
<1> QED
  BY <1>1, <1>2, <1>3 DEF Natives

(* The steps that end the start or hand on to another part.                *)
Ends == StartFails \/ UsageError \/ NothingToRemove \/ StartNative \/ NativeError \/ Inform
LEMMA EndStep ==
  ASSUME Ends
  PROVE  stage' \in {"over", "command"} /\ UNCHANGED <<vars, setting, commandLine>> /\ stage # "run"
BY DEF Ends, StartFails, UsageError, NothingToRemove, StartNative, NativeError, Inform, Exit,
  Reading, Parsed, Complete, Began

LEMMA CommandSteps ==
  ASSUME [CommandNext]_commandVars
  PROVE  \/ Load \/ EndOptions \/ ApplyOption \/ TakeOperand \/ Launch \/ Natives \/ Ends
         \/ RunRemoval \/ UNCHANGED commandVars
BY DEF CommandNext, Natives, Ends

LEMMA ProcessStep ==
  ASSUME ProcessOK, [CommandNext]_commandVars
  PROVE  ProcessOK'
<1>0. used \in Nat /\ Len(args) \in Nat /\ args \in Seq(Arguments) /\ used \in 0 .. Len(args)
  BY DEF ProcessOK
<1>1. CASE Load
  <2>1. args' \in Seq(Arguments) /\ used' = 0 /\ parser' \in ParserState /\ stage' # "start"
    BY <1>1, LoadStep
  <2>2. Len(args') \in Nat
    BY <2>1
  <2>3. used' \in 0 .. Len(args')
    BY <2>1, <2>2
  <2> QED
    BY <2>1, <2>3 DEF ProcessOK
<1>2. CASE EndOptions \/ ApplyOption \/ TakeOperand
  <2>1. /\ parser' \in ParserState /\ used' = used + 1 /\ used < Len(args) /\ stage = "rm"
        /\ UNCHANGED <<args, stage>>
    BY <1>2, ParserStep DEF Reading
  <2> QED
    BY <1>0, <2>1 DEF ProcessOK
<1>3. CASE Launch
  <2>1. args' = <<>> /\ used' = 0 /\ parser' \in ParserState /\ stage' = "run"
    BY <1>3, FreshParser DEF Launch
  <2>2. args' \in Seq(Arguments) /\ used' \in 0 .. Len(args')
    BY <2>1
  <2> QED
    BY <2>1, <2>2 DEF ProcessOK
<1>4. CASE Natives
  BY <1>0, <1>4, NativeStep DEF ProcessOK
<1>5. CASE Ends
  BY <1>5, EndStep DEF commandLine, ProcessOK
<1>6. CASE RunRemoval \/ UNCHANGED commandVars
  BY <1>6 DEF RunRemoval, commandVars, commandLine, ProcessOK
<1> QED
  BY <1>1, <1>2, <1>3, <1>4, <1>5, <1>6, CommandSteps
-----------------------------------------------------------------------------
(* The removal that comes of it *)

(* Requests leaves no request out. *)
EveryRequest == Requests = [operands : Seq(Node), options : RemoveOptions]

(* Until it is handed its request a removal has not begun, and from then   *)
(* on it is one of Removal.                                                *)
CarriedInv == ProcessOK /\ IF stage = "run" THEN RemovalInv ELSE Init

LEMMA HandedRequest ==
  ASSUME EveryRequest, NEW p \in ParserState
  PROVE  Handed(p) \in Requests
<1>1. p.options \in ParserOptions /\ p.operands \in Seq(Node) /\ p.inspect \in BOOLEAN
  BY DEF ParserState
<1>2. Handed(p).options \in RemoveOptions
  BY <1>1 DEF Handed, ParserOptions, RemoveOptions
<1> QED
  BY <1>1, <1>2 DEF Handed, EveryRequest

LEMMA CarriedInit == ASSUME EveryRequest PROVE CommandInit => CarriedInv
<1> SUFFICES ASSUME CommandInit PROVE CarriedInv
  OBVIOUS
<1>1. ProcessOK /\ stage # "run" /\ request = Handed(parser) /\ Waiting
  BY ProcessInit DEF CommandInit
<1>2. request \in Requests
  BY <1>1, HandedRequest DEF ProcessOK
<1> QED
  BY <1>1, <1>2 DEF CarriedInv, Init

LEMMA CarriedStep ==
  ASSUME EveryRequest, CarriedInv, [CommandNext]_commandVars
  PROVE  CarriedInv'
<1>0. ProcessOK /\ ProcessOK'
  BY ProcessStep DEF CarriedInv
<1>1. CASE Launch
  <2>1. request' \in Requests
    BY <1>0, <1>1, HandedRequest DEF Launch, ProcessOK
  <2>2. stage # "run" /\ stage' = "run" /\ UNCHANGED removal
    BY <1>1 DEF Launch, Parsed
  <2>3. Waiting'
    BY <2>2 DEF CarriedInv, Init, Waiting, removal, plan, outcome
  <2>4. Init'
    BY <2>1, <2>3 DEF Init
  <2>5. RemovalInv'
    BY <2>4, RemovalInit, PTL
  <2> QED
    BY <1>0, <2>2, <2>5 DEF CarriedInv
<1>2. CASE RunRemoval
  <2>1. RemovalInv'
    BY <1>2, RemovalNext DEF RunRemoval, CarriedInv
  <2> QED
    BY <1>0, <1>2, <2>1 DEF RunRemoval, CarriedInv
<1>3. CASE UNCHANGED commandVars
  <2>1. UNCHANGED vars /\ stage' = stage
    BY <1>3 DEF commandVars
  <2>2. stage = "run" => RemovalInv'
    BY <2>1, RemovalNext DEF CarriedInv
  <2>3. stage # "run" => Init'
    BY <2>1 DEF CarriedInv, Init, Waiting, vars, plan, outcome
  <2> QED
    BY <1>0, <2>1, <2>2, <2>3 DEF CarriedInv
<1>4. CASE Load \/ EndOptions \/ ApplyOption \/ TakeOperand \/ Natives \/ Ends
  <2>1. UNCHANGED vars /\ stage # "run" /\ stage' # "run"
    <3>1. CASE Load
      BY <1>0, <3>1, LoadStep
    <3>2. CASE EndOptions \/ ApplyOption \/ TakeOperand
      BY <1>0, <3>2, ParserStep DEF Reading
    <3>3. CASE Natives
      BY <1>0, <3>3, NativeStep
    <3>4. CASE Ends
      BY <3>4, EndStep
    <3> QED
      BY <1>4, <3>1, <3>2, <3>3, <3>4
  <2>2. Init'
    BY <2>1 DEF CarriedInv, Init, Waiting, vars, plan, outcome
  <2> QED
    BY <1>0, <2>1, <2>2 DEF CarriedInv
<1> QED
  BY <1>1, <1>2, <1>3, <1>4, CommandSteps

(* Whatever the command line, the configuration and the profile, what      *)
(* Removal promises of a request holds of the process: protected entries   *)
(* stay, nothing moves without consent, and so on to the exit status.      *)
THEOREM RemovalAsWritten ==
  ASSUME EveryRequest
  PROVE  CommandSpec =>
           [](/\ TypeOK /\ ProtectedStays /\ ContentsFirst /\ MovedWithConsent /\ TrashIsLeftAlone
              /\ MovesReachTheJournal /\ ZeroMeansDone)
<1>1. CarriedInv => /\ TypeOK /\ ProtectedStays /\ ContentsFirst /\ MovedWithConsent
                     /\ TrashIsLeftAlone /\ MovesReachTheJournal /\ ZeroMeansDone
  BY RemovalInit, RemovalPromises DEF CarriedInv
<1>2. CommandInit => CarriedInv
  BY CarriedInit
<1>3. CarriedInv /\ [CommandNext]_commandVars => CarriedInv'
  BY CarriedStep
<1> QED
  BY <1>1, <1>2, <1>3, PTL DEF CommandSpec
-----------------------------------------------------------------------------
(* What rm reads: one argument more *)

Has(a, letters, names) ==
    IF a.form = "short" THEN ToSet(a.text) \cap letters # {} ELSE a.text \in names
PromptOf(a, i) == IF a.form = "short" THEN a.text[i] ELSE a.text

(* r is o after the option a. *)
SetsAsWritten(o, r, a) ==
    /\ r.recursive <=> o.recursive \/ Has(a, {"r", "R"}, {"recursive", "Recursive"})
    /\ r.directory <=> o.directory \/ Has(a, {"d"}, {"dir", "directory"})
    /\ r.verbose <=> o.verbose \/ Has(a, {"v"}, {"verbose"})
    /\ r.oneFileSystem <=> o.oneFileSystem \/ Has(a, {}, {"one-file-system"})
    /\ PromptPlaces(a) = {} => r.force = o.force /\ r.interactive = o.interactive
    /\ \A i \in PromptPlaces(a) :
          (\A h \in PromptPlaces(a) : h <= i) => Prompted(r, PromptOf(a, i))

LEMMA OneOption ==
  ASSUME NEW a \in Arguments, IsOption(a), Known(a), NEW o \in ParserOptions
  PROVE  SetsAsWritten(o, Apply(o, a), a)
<1>1. CASE a.form = "short"
  <2> DEFINE r == ApplyCluster(o, a.text)
             len == Len(a.text)
  <2>1. a.text \in Seq(STRING) /\ ToSet(a.text) \subseteq Letters
    BY <1>1, KnownArguments
  <2>2. SetsFirst(o, r, a.text, len)
    BY <2>1, OneCluster
  <2>3. Apply(o, a) = r
    BY <1>1 DEF Apply
  <2>4. PromptPlaces(a) = {i \in 1 .. len : a.text[i] \in PromptLetters}
    BY <1>1 DEF PromptPlaces, PromptLetters
  <2>5. ASSUME NEW letters PROVE ToSet(a.text) \cap letters # {} <=> \E i \in 1 .. len : a.text[i] \in letters
    BY <2>1 DEF ToSet
  <2>6. ASSUME NEW letters, NEW names
        PROVE  Has(a, letters, names) <=> \E i \in 1 .. len : a.text[i] \in letters
    BY <1>1, <2>5 DEF Has
  <2>7. r.oneFileSystem \in BOOLEAN /\ o.oneFileSystem \in BOOLEAN
    BY <2>2 DEF SetsFirst, ParserOptions
  <2> HIDE DEF r, len
  <2>8. r.recursive <=> o.recursive \/ Has(a, {"r", "R"}, {"recursive", "Recursive"})
    BY <2>2, <2>6 DEF SetsFirst
  <2>9. r.directory <=> o.directory \/ Has(a, {"d"}, {"dir", "directory"})
    BY <2>2, <2>6 DEF SetsFirst
  <2>10. r.verbose <=> o.verbose \/ Has(a, {"v"}, {"verbose"})
    BY <2>2, <2>6 DEF SetsFirst
  <2>11. r.oneFileSystem <=> o.oneFileSystem \/ Has(a, {}, {"one-file-system"})
    BY <2>2, <2>6, <2>7 DEF SetsFirst
  <2>12. PromptPlaces(a) = {} => r.force = o.force /\ r.interactive = o.interactive
    BY <2>2, <2>4 DEF SetsFirst
  <2>13. ASSUME NEW i \in PromptPlaces(a), \A h \in PromptPlaces(a) : h <= i
         PROVE  Prompted(r, a.text[i])
    <3>1. i \in 1 .. len /\ a.text[i] \in PromptLetters
      BY <2>4
    <3>2. \A h \in 1 .. len : a.text[h] \in PromptLetters => h <= i
      BY <2>4, <2>13
    <3> QED
      BY <2>2, <3>1, <3>2 DEF SetsFirst
  <2>14. \A i : PromptOf(a, i) = a.text[i]
    BY <1>1 DEF PromptOf
  <2> QED
    BY <2>3, <2>8, <2>9, <2>10, <2>11, <2>12, <2>13, <2>14 DEF SetsAsWritten
<1>2. CASE a.form # "short"
  <2>1. a.text \in Long \cup GNULong
    BY <1>2, KnownArguments
  <2>2. Sets(o, ApplyLong(o, a.text), {}, {a.text}, IF a.text \in PromptNames THEN a.text ELSE "none")
    BY <2>1, OneName
  <2>3. \A names : Has(a, {}, names) <=> {a.text} \cap names # {}
    BY <1>2 DEF Has
  <2>4. PromptPlaces(a) = IF a.text \in PromptNames THEN {1} ELSE {}
    BY <1>2 DEF PromptPlaces, PromptNames
  <2>5. \A i : PromptOf(a, i) = a.text
    BY <1>2 DEF PromptOf
  <2>6. "none" \notin PromptNames
    BY DEF PromptNames, Long
  <2>7. \A letters, names : Has(a, letters, names) <=> {a.text} \cap names # {}
    BY <1>2 DEF Has
  <2>8. Apply(o, a) = ApplyLong(o, a.text)
    BY <1>2 DEF Apply
  <2> DEFINE r == ApplyLong(o, a.text)
  <2> HIDE DEF r
  <2>9. Sets(o, r, {}, {a.text}, IF a.text \in PromptNames THEN a.text ELSE "none")
    BY <2>2 DEF r
  <2>10. /\ r.recursive <=> o.recursive \/ Has(a, {"r", "R"}, {"recursive", "Recursive"})
         /\ r.directory <=> o.directory \/ Has(a, {"d"}, {"dir", "directory"})
         /\ r.verbose <=> o.verbose \/ Has(a, {"v"}, {"verbose"})
         /\ r.oneFileSystem <=> o.oneFileSystem \/ Has(a, {}, {"one-file-system"})
    BY <2>7, <2>9 DEF Sets
  <2>11. PromptPlaces(a) = {} => r.force = o.force /\ r.interactive = o.interactive
    BY <2>4, <2>9 DEF Sets
  <2>12. ASSUME NEW i \in PromptPlaces(a) PROVE Prompted(r, PromptOf(a, i))
    BY <2>4, <2>5, <2>6, <2>9 DEF Sets
  <2> QED
    BY <2>8, <2>10, <2>11, <2>12 DEF SetsAsWritten, r
<1> QED
  BY <1>1, <1>2

(* Counting the numbers of a set up to one of them. *)
LEMMA OneMoreCounted ==
  ASSUME NEW n \in Nat, NEW S, S \subseteq 1 .. n
  PROVE  /\ IsFiniteSet(S) /\ Cardinality(S) \in Nat
         /\ Cardinality(S \cup {n + 1}) = Cardinality(S) + 1
         /\ \A j \in S : Cardinality({h \in S : h <= j}) \in 1 .. Cardinality(S)
<1>1. IsFiniteSet(1 .. n)
  BY FS_Interval
<1>2. IsFiniteSet(S) /\ Cardinality(S) \in Nat
  BY <1>1, FS_Subset, FS_CardinalityType
<1>3. n + 1 \notin S
  OBVIOUS
<1>4. Cardinality(S \cup {n + 1}) = Cardinality(S) + 1
  BY <1>2, <1>3, FS_AddElement
<1>5. ASSUME NEW j \in S PROVE Cardinality({h \in S : h <= j}) \in 1 .. Cardinality(S)
  <2> DEFINE T == {h \in S : h <= j}
  <2>1. T \subseteq S /\ j \in T
    OBVIOUS
  <2> HIDE DEF T
  <2>2. IsFiniteSet(T) /\ Cardinality(T) \in Nat /\ Cardinality(T) <= Cardinality(S)
    BY <1>2, <2>1, FS_Subset, FS_CardinalityType
  <2>3. Cardinality(T) # 0
    BY <2>1, <2>2, FS_EmptySet
  <2>4. Cardinality(T) \in 1 .. Cardinality(S)
    BY <1>2, <2>2, <2>3
  <2> QED
    BY <2>4 DEF T
<1> QED
  BY <1>2, <1>4, <1>5

(* That options may still come is what the arguments so far say. *)
OptionsMayCome == parser.parseOptions <=> \A h \in 1 .. used : ~EndsOptions(h)
ReadInv == ProcessOK /\ (stage = "rm" => OptionsMayCome) /\ ReadsWhatIsWritten

(* The next argument is an option, an operand or the end of the options as *)
(* the parser takes it.                                                    *)
LEMMA OneMoreRead ==
  ASSUME ReadInv, EndOptions \/ ApplyOption \/ TakeOperand
  PROVE  /\ used \in Nat /\ used' = used + 1 /\ used + 1 \in 1 .. Len(args) /\ stage = "rm"
         /\ UNCHANGED <<args, stage>> /\ Argument = args[used + 1] /\ Argument \in Arguments
         /\ Given \subseteq 1 .. used /\ Operands \subseteq 1 .. used
         /\ Given' = Given \cup {j \in {used + 1} : IsOption(Argument) /\ parser.parseOptions}
         /\ Operands' = Operands \cup {j \in {used + 1} : Argument.form = "word" \/ ~parser.parseOptions}
         /\ ProcessOK' /\ OptionsMayCome'
<1> DEFINE n == used + 1
<1>0. ProcessOK /\ ProcessOK' /\ stage = "rm"
  BY ParserStep, ProcessStep DEF ReadInv, CommandNext, Reading
<1>1. used \in Nat /\ used' = n /\ n \in 1 .. Len(args) /\ UNCHANGED <<args, stage>>
  BY <1>0, ParserStep DEF Reading, ProcessOK
<1>2. Argument = args[n] /\ Argument \in Arguments
  BY <1>0, <1>1 DEF ProcessOK, Argument
<1>3. parser'.profile = parser.profile
  BY <1>0 DEF EndOptions, ApplyOption, TakeOperand, ProcessOK, ParserState
<1>4. \A h : EndsOptions(h)' <=> EndsOptions(h)
  BY <1>1, <1>3 DEF EndsOptions
<1>5. parser.parseOptions <=> \A h \in 1 .. used : ~EndsOptions(h)
  BY <1>0 DEF ReadInv, OptionsMayCome
<1>6. /\ \A j \in 1 .. n : j \in 1 .. used \/ j = n
      /\ \A j \in 1 .. used : j \in 1 .. n /\ j # n
      /\ n - 1 = used /\ n \in 1 .. n
  BY <1>1
<1>6a. \A j \in 1 .. used : 1 .. j \subseteq 1 .. used
  BY <1>1
<1>7. IsOption(Argument) => ~EndsOptions(n)
  BY <1>2 DEF IsOption, EndsOptions
<1> HIDE DEF n
<1>8. Given' = {j \in 1 .. n : IsOption(args[j]) /\ \A h \in 1 .. j : ~EndsOptions(h)}
  BY <1>1, <1>4 DEF Given
<1>9. Given' = Given \cup {j \in {n} : IsOption(Argument) /\ parser.parseOptions}
  <2>1. ASSUME NEW j \in 1 .. used
        PROVE  j \in Given' <=> j \in Given
    BY <1>6, <1>8 DEF Given
  <2>2. n \in Given' <=> IsOption(Argument) /\ parser.parseOptions
    BY <1>2, <1>5, <1>6, <1>7, <1>8
  <2> QED
    BY <1>6, <1>8, <2>1, <2>2 DEF Given
<1>10. Operands' = {j \in 1 .. n : args[j].form = "word" \/ \E h \in 1 .. j - 1 : EndsOptions(h)}
  BY <1>1, <1>4 DEF Operands
<1>11. Operands' = Operands \cup {j \in {n} : Argument.form = "word" \/ ~parser.parseOptions}
  <2>1. ASSUME NEW j \in 1 .. used
        PROVE  j \in Operands' <=> j \in Operands
    BY <1>6, <1>10 DEF Operands
  <2>2. n \in Operands' <=> Argument.form = "word" \/ ~parser.parseOptions
    BY <1>2, <1>5, <1>6, <1>10
  <2> QED
    BY <1>6, <1>10, <2>1, <2>2 DEF Operands
<1>12. OptionsMayCome'
  <2>1. OptionsMayCome' <=> (parser'.parseOptions <=> \A h \in 1 .. n : ~EndsOptions(h))
    BY <1>1, <1>4 DEF OptionsMayCome
  <2>2. (\A h \in 1 .. n : ~EndsOptions(h)) <=> parser.parseOptions /\ ~EndsOptions(n)
    BY <1>5, <1>6
  <2>3. parser \in ParserState
    BY <1>0 DEF ProcessOK
  <2>4. CASE EndOptions
    <3>1. parser'.parseOptions = FALSE /\ EndsOptions(n)
      BY <1>2, <2>3, <2>4 DEF EndOptions, EndsOptions, ParserState
    <3> QED
      BY <2>1, <2>2, <3>1
  <2>5. CASE ApplyOption
    <3>1. parser'.parseOptions = parser.parseOptions /\ IsOption(Argument)
      BY <2>3, <2>5 DEF ApplyOption, ParserState
    <3> QED
      BY <1>7, <2>1, <2>2, <3>1
  <2>6. CASE TakeOperand
    <3>1. parser'.parseOptions = (parser.parseOptions /\ parser.profile = "gnu")
      BY <2>3, <2>6 DEF TakeOperand, ParserState
    <3>2. parser.parseOptions => Argument.form = "word"
      BY <2>6 DEF TakeOperand
    <3>3. parser.parseOptions => (EndsOptions(n) <=> parser.profile # "gnu")
      BY <1>2, <3>2 DEF EndsOptions
    <3> QED
      BY <2>1, <2>2, <3>1, <3>3
  <2> QED
    BY <2>4, <2>5, <2>6
<1>13. Given \subseteq 1 .. used /\ Operands \subseteq 1 .. used
  BY DEF Given, Operands
<1> QED
  BY <1>0, <1>1, <1>2, <1>9, <1>11, <1>12, <1>13 DEF n

(* The parts of ReadsWhatIsWritten. *)
OperandsRead ==
    /\ Len(parser.operands) = Cardinality(Operands)
    /\ \A j \in Operands :
          parser.operands[Cardinality({h \in Operands : h <= j})] = args[j].names
PromptsRead ==
    /\ Prompts = {} => Prompted(parser.options, "none")
    /\ \A place \in Prompts :
          (\A other \in Prompts : NotAfter(other, place)) => Prompted(parser.options, PromptAt(place))
OptionsRead ==
    /\ parser.options.recursive <=> Says({"r", "R"}, {"recursive", "Recursive"})
    /\ parser.options.directory <=> Says({"d"}, {"dir", "directory"})
    /\ parser.options.verbose <=> Says({"v"}, {"verbose"})
    /\ parser.options.oneFileSystem <=> Says({}, {"one-file-system"})

LEMMA ReadsParts == ReadsWhatIsWritten <=> (stage = "rm" => OperandsRead /\ PromptsRead /\ OptionsRead)
BY DEF ReadsWhatIsWritten, OperandsRead, PromptsRead, OptionsRead

LEMMA SameOperands ==
  ASSUME OperandsRead, Operands' = Operands, parser'.operands = parser.operands, args' = args
  PROVE  OperandsRead'
BY DEF OperandsRead

LEMMA SameOptions ==
  ASSUME PromptsRead, OptionsRead, Given' = Given, parser'.options = parser.options, args' = args
  PROVE  PromptsRead' /\ OptionsRead'
<1>1. Prompts' = Prompts
  BY DEF Prompts
<1>2. \A place : PromptAt(place)' = PromptAt(place)
  BY DEF PromptAt
<1>3. \A letters, names : Says(letters, names)' <=> Says(letters, names)
  BY DEF Says
<1> QED
  BY <1>1, <1>2, <1>3 DEF PromptsRead, OptionsRead

LEMMA OperandStep ==
  ASSUME ReadInv, TakeOperand
  PROVE  ReadInv'
<1> DEFINE n == used + 1
<1>0. /\ used \in Nat /\ used' = n /\ n \in 1 .. Len(args) /\ stage = "rm" /\ UNCHANGED <<args, stage>>
      /\ Argument = args[n] /\ Argument \in Arguments
      /\ Given \subseteq 1 .. used /\ Operands \subseteq 1 .. used
      /\ Given' = Given \cup {j \in {n} : IsOption(Argument) /\ parser.parseOptions}
      /\ Operands' = Operands \cup {j \in {n} : Argument.form = "word" \/ ~parser.parseOptions}
      /\ ProcessOK' /\ OptionsMayCome'
  BY OneMoreRead
<1>1. OperandsRead /\ PromptsRead /\ OptionsRead /\ parser \in ParserState
  BY <1>0, ReadsParts DEF ReadInv, ProcessOK
<1>2. Argument.form = "word" \/ ~parser.parseOptions
  BY DEF TakeOperand
<1>3. Given' = Given /\ Operands' = Operands \cup {n}
  BY <1>0, <1>2 DEF IsOption
<1>4. parser'.options = parser.options /\ parser'.operands = Append(parser.operands, args[n].names)
  BY <1>0, <1>1 DEF TakeOperand, ParserState
<1>5. parser.operands \in Seq(Node) /\ args[n].names \in Node
  BY <1>0, <1>1 DEF ParserState, Arguments
<1>6. /\ Cardinality(Operands) \in Nat
      /\ Cardinality(Operands \cup {n}) = Cardinality(Operands) + 1
      /\ \A j \in Operands : Cardinality({h \in Operands : h <= j}) \in 1 .. Cardinality(Operands)
  BY <1>0, OneMoreCounted
<1>7. \A j \in Operands : {h \in Operands \cup {n} : h <= j} = {h \in Operands : h <= j}
  BY <1>0
<1>8. {h \in Operands \cup {n} : h <= n} = Operands \cup {n}
  <2>1. \A h \in Operands \cup {n} : h <= n
    BY <1>0
  <2> QED
    BY <2>1
<1>9. OperandsRead'
  <2> DEFINE ps == parser.operands
             qs == Append(parser.operands, args[n].names)
  <2>1. Len(ps) = Cardinality(Operands) /\ Len(qs) = Cardinality(Operands) + 1
        /\ qs[Cardinality(Operands) + 1] = args[n].names
        /\ \A i \in 1 .. Cardinality(Operands) : qs[i] = ps[i]
    BY <1>1, <1>5, <1>6 DEF OperandsRead
  <2>2. \A j \in Operands : ps[Cardinality({h \in Operands : h <= j})] = args[j].names
    BY <1>1 DEF OperandsRead
  <2> HIDE DEF qs, ps
  <2>3. ASSUME NEW j \in Operands \cup {n}
        PROVE  qs[Cardinality({h \in Operands \cup {n} : h <= j})] = args[j].names
    <3>1. CASE j \in Operands
      BY <1>6, <1>7, <2>1, <2>2, <3>1
    <3>2. CASE j = n
      BY <1>6, <1>8, <2>1, <3>2
    <3> QED
      BY <3>1, <3>2
  <2>4. parser'.operands = qs
    BY <1>4 DEF qs
  <2> HIDE DEF n
  <2> QED
    BY <1>0, <1>3, <1>6, <2>1, <2>3, <2>4 DEF OperandsRead
<1>10. PromptsRead' /\ OptionsRead'
  BY <1>0, <1>1, <1>3, <1>4, SameOptions
<1>11. ReadsWhatIsWritten'
  BY <1>9, <1>10, ReadsParts, PTL
<1> QED
  BY <1>0, <1>11 DEF ReadInv

LEMMA EndStepRead ==
  ASSUME ReadInv, EndOptions
  PROVE  ReadInv'
<1>0. /\ stage = "rm" /\ UNCHANGED <<args, stage>>
      /\ Given' = Given \cup {j \in {used + 1} : IsOption(Argument) /\ parser.parseOptions}
      /\ Operands' = Operands \cup {j \in {used + 1} : Argument.form = "word" \/ ~parser.parseOptions}
      /\ ProcessOK' /\ OptionsMayCome'
  BY OneMoreRead
<1>1. OperandsRead /\ PromptsRead /\ OptionsRead /\ parser \in ParserState
  BY <1>0, ReadsParts DEF ReadInv, ProcessOK
<1>2. Argument.form = "end" /\ parser.parseOptions
  BY DEF EndOptions
<1>3. Given' = Given /\ Operands' = Operands
  BY <1>0, <1>2 DEF IsOption
<1>4. parser'.options = parser.options /\ parser'.operands = parser.operands
  BY <1>1 DEF EndOptions, ParserState
<1>5. OperandsRead' /\ PromptsRead' /\ OptionsRead'
  BY <1>0, <1>1, <1>3, <1>4, SameOptions, SameOperands
<1>6. ReadsWhatIsWritten'
  BY <1>5, ReadsParts, PTL
<1> QED
  BY <1>0, <1>6 DEF ReadInv

LEMMA OptionStep ==
  ASSUME ReadInv, ApplyOption
  PROVE  ReadInv'
<1> DEFINE n == used + 1
           a == Argument
           o == parser.options
           r == Apply(parser.options, Argument)
<1>0. /\ used \in Nat /\ used' = n /\ n \in 1 .. Len(args) /\ stage = "rm" /\ UNCHANGED <<args, stage>>
      /\ a = args[n] /\ a \in Arguments
      /\ Given \subseteq 1 .. used /\ Operands \subseteq 1 .. used
      /\ Given' = Given \cup {j \in {n} : IsOption(a) /\ parser.parseOptions}
      /\ Operands' = Operands \cup {j \in {n} : a.form = "word" \/ ~parser.parseOptions}
      /\ ProcessOK' /\ OptionsMayCome'
  BY OneMoreRead
<1>1. OperandsRead /\ PromptsRead /\ OptionsRead /\ parser \in ParserState /\ o \in ParserOptions
  BY <1>0, ReadsParts DEF ReadInv, ProcessOK, ParserState
<1>2. IsOption(a) /\ parser.parseOptions /\ Known(a)
  BY DEF ApplyOption
<1>3. Given' = Given \cup {n} /\ Operands' = Operands
  BY <1>0, <1>2 DEF IsOption
<1>4. parser'.options = r /\ parser'.operands = parser.operands
  BY <1>1 DEF ApplyOption, ParserState
<1>5. SetsAsWritten(o, r, a)
  BY <1>0, <1>1, <1>2, OneOption
<1>6. OperandsRead'
  BY <1>0, <1>1, <1>3, <1>4, SameOperands
<1>6a. n \in Nat /\ \A j \in Given : j \in Nat /\ ~(n < j) /\ j # n
  <2>1. used \in Nat /\ Given \subseteq 1 .. used
    BY <1>0
  <2> QED
    BY ONLY <2>1
<1> HIDE DEF n, a, o, r
<1>7. OptionsRead'
  <2>1. ASSUME NEW letters, NEW names
        PROVE  Says(letters, names)' <=> Says(letters, names) \/ Has(a, letters, names)
    BY <1>0, <1>3 DEF Says, Has
  <2>2. /\ o.recursive <=> Says({"r", "R"}, {"recursive", "Recursive"})
        /\ o.directory <=> Says({"d"}, {"dir", "directory"})
        /\ o.verbose <=> Says({"v"}, {"verbose"})
        /\ o.oneFileSystem <=> Says({}, {"one-file-system"})
    BY <1>1 DEF OptionsRead, o
  <2>3. /\ r.recursive <=> Says({"r", "R"}, {"recursive", "Recursive"})'
        /\ r.directory <=> Says({"d"}, {"dir", "directory"})'
        /\ r.verbose <=> Says({"v"}, {"verbose"})'
        /\ r.oneFileSystem <=> Says({}, {"one-file-system"})'
    BY <1>5, <2>1, <2>2 DEF SetsAsWritten
  <2> QED
    BY <1>4, <2>3 DEF OptionsRead
<1>8. PromptsRead'
  <2>1. Prompts' = Prompts \cup ({n} \X PromptPlaces(a))
    <3>1. Prompts' = UNION {{j} \X PromptPlaces(args[j]) : j \in Given \cup {n}}
      BY <1>0, <1>3 DEF Prompts
    <3>2. Prompts' = Prompts \cup ({n} \X PromptPlaces(args[n]))
      BY ONLY <3>1 DEF Prompts
    <3> QED
      BY <1>0, <3>2
  <2>2. \A place : PromptAt(place)' = PromptAt(place)
    BY <1>0 DEF PromptAt
  <2>3. \A i : PromptAt(<<n, i>>) = PromptOf(a, i)
    BY <1>0 DEF PromptAt, PromptOf
  <2>4. /\ Prompts = {} => Prompted(o, "none")
        /\ \A place \in Prompts :
              (\A other \in Prompts : NotAfter(other, place)) => Prompted(o, PromptAt(place))
    BY <1>1 DEF PromptsRead, o
  <2>5. CASE PromptPlaces(a) = {}
    <3>1. Prompts' = Prompts
      BY <2>1, <2>5
    <3>2. r.force = o.force /\ r.interactive = o.interactive
      BY <1>5, <2>5 DEF SetsAsWritten
    <3>3. \A said : Prompted(o, said) => Prompted(r, said)
      BY <3>2 DEF Prompted
    <3> QED
      BY <1>4, <2>2, <2>4, <3>1, <3>3 DEF PromptsRead
  <2>6. CASE PromptPlaces(a) # {}
    <3>1. PICK i \in PromptPlaces(a) : TRUE
      BY <2>6
    <3>2. <<n, i>> \in Prompts' /\ Prompts' # {}
      BY <2>1, <3>1
    <3>3. ASSUME NEW place \in Prompts', \A other \in Prompts' : NotAfter(other, place)
          PROVE  Prompted(r, PromptAt(place))
      <4>1. NotAfter(<<n, i>>, place)
        BY <3>2, <3>3
      <4>2. place \notin Prompts
        <5>1. ASSUME place \in Prompts PROVE FALSE
          <6>1. place[1] \in Given
            BY <5>1 DEF Prompts
          <6> QED
            BY <1>6a, <4>1, <6>1 DEF NotAfter
        <5> QED
          BY <5>1
      <4>3. PICK j \in PromptPlaces(a) : place = <<n, j>>
        BY <2>1, <4>2
      <4>4. ASSUME NEW h \in PromptPlaces(a) PROVE h <= j
        <5>1. <<n, h>> \in Prompts'
          BY <2>1
        <5>2. NotAfter(<<n, h>>, <<n, j>>)
          BY <3>3, <4>3, <5>1
        <5> QED
          BY <5>2, <1>0 DEF NotAfter, n
      <4>5. Prompted(r, PromptOf(a, j))
        BY <1>5, <4>4 DEF SetsAsWritten
      <4> QED
        BY <2>3, <4>3, <4>5
    <3> QED
      BY <1>4, <2>2, <3>2, <3>3 DEF PromptsRead
  <2> QED
    BY <2>5, <2>6
<1>9. ReadsWhatIsWritten'
  BY <1>6, <1>7, <1>8, ReadsParts, PTL
<1> QED
  BY <1>0, <1>9 DEF ReadInv

LEMMA NothingRead ==
  ASSUME ReadInv, Load
  PROVE  ReadInv'
<1>1. used' = 0 /\ ProcessOK'
  BY LoadStep, ProcessStep DEF ReadInv, CommandNext
<1>2. PICK profile \in {"gnu", "bsd", "posix"} : \E inspect \in BOOLEAN : parser' = Parser(profile, inspect)
  BY LoadStep DEF ReadInv
<1>3. parser'.options = PlainOption /\ parser'.operands = <<>> /\ parser'.parseOptions = TRUE
  BY <1>2 DEF Parser
<1>4. \A j : j \notin 1 .. 0
  OBVIOUS
<1>5. Given' = {} /\ Operands' = {}
  BY <1>1, <1>4 DEF Given, Operands
<1>6. Prompts' = {} /\ \A letters, names : ~Says(letters, names)'
  BY <1>5 DEF Prompts, Says
<1>7. Cardinality({}) = 0
  BY FS_EmptySet
<1>8. OptionsMayCome'
  BY <1>1, <1>3, <1>4 DEF OptionsMayCome
<1>9. OperandsRead'
  BY <1>3, <1>5, <1>7 DEF OperandsRead
<1>10. PromptsRead' /\ OptionsRead'
  BY <1>3, <1>6 DEF PromptsRead, OptionsRead, Prompted, PlainOption
<1>11. ReadsWhatIsWritten'
  BY <1>9, <1>10, ReadsParts, PTL
<1> QED
  BY <1>1, <1>8, <1>11 DEF ReadInv

LEMMA ReadStep ==
  ASSUME ReadInv, [CommandNext]_commandVars
  PROVE  ReadInv'
<1>1. ProcessOK /\ ProcessOK'
  BY ProcessStep DEF ReadInv
<1>2. CASE UNCHANGED commandVars
  <2>1. UNCHANGED <<stage, args, used, parser>>
    BY <1>2 DEF commandVars, commandLine
  <2>2. \A h : EndsOptions(h)' <=> EndsOptions(h)
    BY <2>1 DEF EndsOptions
  <2>3. Given' = Given /\ Operands' = Operands
    BY <2>1, <2>2 DEF Given, Operands
  <2>4. stage = "rm" => OptionsMayCome'
    BY <2>1, <2>2 DEF ReadInv, OptionsMayCome
  <2>5. stage = "rm" => OperandsRead' /\ PromptsRead' /\ OptionsRead'
    <3>1. stage = "rm" => OperandsRead /\ PromptsRead /\ OptionsRead
      BY ReadsParts DEF ReadInv
    <3>2. parser'.operands = parser.operands /\ parser'.options = parser.options /\ args' = args
      BY <2>1
    <3>3. OperandsRead => OperandsRead'
      BY <2>3, <3>2, SameOperands
    <3>4. PromptsRead /\ OptionsRead => PromptsRead' /\ OptionsRead'
      BY <2>3, <3>2, SameOptions
    <3> QED
      BY <3>1, <3>3, <3>4
  <2>6. ReadsWhatIsWritten'
    <3>1. ReadsWhatIsWritten' <=> (stage' = "rm" => OperandsRead' /\ PromptsRead' /\ OptionsRead')
      BY DEF ReadsWhatIsWritten, OperandsRead, PromptsRead, OptionsRead
    <3> QED
      BY <2>1, <2>5, <3>1
  <2> QED
    BY <1>1, <2>1, <2>4, <2>6 DEF ReadInv
<1>3. CASE Launch \/ Natives \/ Ends \/ RunRemoval
  <2>1. stage' # "rm"
    BY <1>1, <1>3, NativeStep, EndStep DEF Launch, RunRemoval
  <2> QED
    BY <1>1, <2>1 DEF ReadInv, ReadsWhatIsWritten
<1> QED
  BY <1>2, <1>3, NothingRead, EndStepRead, OptionStep, OperandStep, CommandSteps

(* The rm that is carried out is the one that was written, whatever the    *)
(* arguments, in each of the profiles: at every argument the operands are  *)
(* those that are no options where options end, an option is set if and    *)
(* only if it has been given, and of -f and the prompts the last counts,   *)
(* within a cluster of letters too.                                        *)
THEOREM RmReadsWhatIsWritten == CommandSpec => []ReadsWhatIsWritten
<1>1. CommandInit => ReadInv
  BY ProcessInit DEF CommandInit, ReadInv, ReadsWhatIsWritten
<1>2. ReadInv /\ [CommandNext]_commandVars => ReadInv'
  BY ReadStep
<1>3. ReadInv => ReadsWhatIsWritten
  BY DEF ReadInv
<1> QED
  BY <1>1, <1>2, <1>3, PTL DEF CommandSpec
-----------------------------------------------------------------------------
(* What restore and purge read *)

NativeState ==
    [command : Commands, ids : Seq(STRING), operation : {""} \cup STRING \cup Seq(STRING),
     last : BOOLEAN, yes : BOOLEAN, json : BOOLEAN]

(* An argument is a value if and only if it comes after an --operation     *)
(* that is none itself.                                                    *)
LEMMA NextIsValue ==
  ASSUME NEW j \in Nat, j >= 2, ~NamesOperation(1)
  PROVE  IsValue(j + 1) <=> NamesOperation(j) /\ ~IsValue(j)
<1> DEFINE Plain(m, l) == ~NamesOperation(m) /\ \A h \in m + 1 .. l : NamesOperation(h)
<1>1. ASSUME ~NamesOperation(j) PROVE ~IsValue(j + 1)
  <2> SUFFICES ASSUME NEW m \in 1 .. j, Plain(m, j), (j - m) % 2 = 1
               PROVE  FALSE
    BY DEF IsValue
  <2>1. m = j
    BY <1>1
  <2> QED
    BY <2>1
<1>2. ASSUME NamesOperation(j) PROVE IsValue(j + 1) <=> ~IsValue(j)
  <2>1. \E m \in 1 .. j - 1 : Plain(m, j - 1)
    <3> DEFINE T == {d \in 1 .. j - 1 : ~NamesOperation(j - d)}
    <3>1. T \subseteq Nat /\ j - 1 \in T
      BY <1>2
    <3>2. PICK d \in T : \A e \in T : d <= e
      BY <3>1, Least
    <3>3. j - d \in 1 .. j - 1 /\ ~NamesOperation(j - d)
      BY <3>2
    <3>4. ASSUME NEW h \in j - d + 1 .. j - 1 PROVE NamesOperation(h)
      <4>1. j - h \in 1 .. j - 1 /\ ~(d <= j - h) /\ j - (j - h) = h
        BY <3>2
      <4> QED
        BY <3>2, <4>1
    <3> QED
      BY <3>3, <3>4
  <2>2. PICK m \in 1 .. j - 1 : Plain(m, j - 1)
    BY <2>1
  <2>3. ASSUME NEW l \in 1 .. j - 1, Plain(l, j - 1) PROVE l = m
    <3>1. l < m => FALSE
      BY <2>2, <2>3
    <3>2. m < l => FALSE
      BY <2>2, <2>3
    <3> QED
      BY <3>1, <3>2
  <2>4. \A l \in 1 .. j : Plain(l, j) <=> l \in 1 .. j - 1 /\ Plain(l, j - 1)
    BY <1>2
  <2>5. IsValue(j) <=> (j - 1 - m) % 2 = 1
    BY <2>2, <2>3 DEF IsValue
  <2>6. IsValue(j + 1) <=> \E l \in 1 .. j : Plain(l, j) /\ (j - l) % 2 = 1
    BY DEF IsValue
  <2> HIDE DEF Plain
  <2>7. IsValue(j + 1) <=> (j - m) % 2 = 1
    BY <2>2, <2>3, <2>4, <2>6
  <2>8. (j - m) % 2 = 1 <=> (j - 1 - m) % 2 # 1
    BY <2>2
  <2> QED
    BY <2>5, <2>7, <2>8
<1> QED
  BY <1>1, <1>2

LEMMA FirstAreNoValues == ~IsValue(1) /\ ~IsValue(2)
<1>1. \A m \in 1 .. 1 - 1 : FALSE
  OBVIOUS
<1>2. \A m \in 1 .. 2 - 1 : (2 - 1 - m) % 2 = 0
  OBVIOUS
<1> QED
  BY <1>1, <1>2 DEF IsValue

(* What the arguments up to the one at u say. *)
ValuesTo(u) == {j \in 2 .. u : IsValue(j)}
OwnTo(u) == {j \in 2 .. u : ~IsValue(j)}
WordsTo(u) == {j \in OwnTo(u) : args[j].form = "word"}
Named(name, u) == \E j \in OwnTo(u) : args[j].form = "long" /\ args[j].text = name
LastValue(u) ==
    IF ValuesTo(u) = {} THEN native.operation = ""
    ELSE \E j \in ValuesTo(u) : native.operation = args[j].text /\ \A h \in ValuesTo(u) : h <= j
AsWritten(u) ==
    /\ native.last <=> Named("last", u)
    /\ native.yes <=> Named("yes", u)
    /\ Len(native.ids) = Cardinality(WordsTo(u))
    /\ LastValue(u)

SelectInv ==
    /\ ProcessOK /\ native \in NativeState
    /\ stage = "native" /\ used > 0 /\ Selecting =>
          ~NamesOperation(1) /\ ~IsValue(used + 1) /\ AsWritten(used)
    /\ SelectsWhatIsWritten

LEMMA OneMoreTo ==
  ASSUME NEW u \in Nat, u >= 1
  PROVE  /\ ValuesTo(u + 1) = ValuesTo(u) \cup {j \in {u + 1} : IsValue(u + 1)}
         /\ OwnTo(u + 1) = OwnTo(u) \cup {j \in {u + 1} : ~IsValue(u + 1)}
         /\ WordsTo(u) \subseteq 1 .. u /\ OwnTo(u) \subseteq 1 .. u /\ ValuesTo(u) \subseteq 1 .. u
<1>1. \A j : j \in 2 .. u + 1 <=> j \in 2 .. u \/ j = u + 1
  OBVIOUS
<1> QED
  BY <1>1 DEF ValuesTo, OwnTo, WordsTo

(* An argument of a restore or purge that is read is none but --operation, *)
(* --last, --yes or a word, and comes next after what has been read.       *)
LEMMA SelectorRead ==
  ASSUME SelectInv, Natives, used > 0, Selecting
  PROVE  /\ ReadOperation \/ ReadLast \/ ReadYes \/ ReadWord
         /\ stage = "native" /\ used \in Nat /\ used >= 1 /\ used + 1 \in 1 .. Len(args)
         /\ Argument = args[used + 1] /\ Argument \in Arguments
         /\ ~NamesOperation(1) /\ ~IsValue(used + 1) /\ AsWritten(used)
         /\ UNCHANGED <<args, stage>>
<1>1. stage = "native" /\ used \in Nat /\ used < Len(args) /\ UNCHANGED <<args, stage>>
      /\ Len(args) \in Nat /\ args \in Seq(Arguments)
  BY NativeStep DEF SelectInv, ProcessOK
<1>2. used >= 1 /\ used + 1 \in 1 .. Len(args)
  BY <1>1
<1>3. Argument = args[used + 1] /\ Argument \in Arguments
  BY <1>1, <1>2 DEF Argument
<1>4. ~ReadCommand
  BY DEF ReadCommand
<1>5. Options(native.command) \subseteq {"operation", "last", "yes"}
  BY DEF Selecting, Options
<1>6. ~ReadLimit /\ ~ReadJSON
  BY <1>5 DEF ReadLimit, ReadJSON, Option, ReadingNative, Understood
<1> QED
  BY <1>1, <1>2, <1>3, <1>4, <1>6 DEF Natives, SelectInv

LEMMA OperationStep ==
  ASSUME SelectInv, ReadOperation, used > 0, Selecting
  PROVE  ~IsValue(used' + 1) /\ AsWritten(used)'
<1>0. used \in Nat
  BY DEF SelectInv, ProcessOK
<1>u. PICK c \in Nat : c = used
  BY <1>0
<1> DEFINE n == c + 1
<1>1. /\ stage = "native" /\ c >= 1 /\ UNCHANGED <<args, stage>>
      /\ Argument = args[n] /\ ~NamesOperation(1) /\ ~IsValue(n) /\ AsWritten(c)
  BY <1>u, SelectorRead DEF Natives
<1>2. NamesOperation(n) /\ args[n].form = "long" /\ args[n].text = "operation"
  BY <1>1 DEF ReadOperation, Option, NamesOperation
<1>3. used' = c + 2 /\ native' = [native EXCEPT !.operation = args[c + 2].text] /\ native \in NativeState
  BY <1>u DEF ReadOperation, ReadNative, Value, SelectInv
<1>4. n \in Nat /\ n >= 2 /\ n + 1 = c + 2 /\ n >= 1 /\ n + 1 \in Nat /\ n + 1 >= 2
  BY <1>1
<1>5. IsValue(n + 1) /\ ~IsValue((n + 1) + 1)
  BY <1>1, <1>2, <1>4, NextIsValue
<1>6. ~IsValue(used' + 1)
  BY <1>3, <1>4, <1>5
<1>7. /\ ValuesTo(n) = ValuesTo(c) /\ OwnTo(n) = OwnTo(c) \cup {n}
      /\ ValuesTo(n + 1) = ValuesTo(n) \cup {n + 1} /\ OwnTo(n + 1) = OwnTo(n)
      /\ ValuesTo(n) \subseteq 1 .. n
  BY <1>1, <1>4, <1>5, OneMoreTo
<1> HIDE DEF n
<1>8. WordsTo(n + 1) = WordsTo(c)
  BY <1>1, <1>2, <1>7 DEF WordsTo
<1>9. \A name \in {"last", "yes"} : Named(name, n + 1) <=> Named(name, c)
  BY <1>1, <1>2, <1>7 DEF Named
<1>10. /\ native'.last = native.last /\ native'.yes = native.yes /\ native'.ids = native.ids
       /\ native'.operation = args[n + 1].text
  BY <1>3, <1>4 DEF NativeState
<1>11. \A u : /\ ValuesTo(u)' = ValuesTo(u) /\ OwnTo(u)' = OwnTo(u) /\ WordsTo(u)' = WordsTo(u)
              /\ \A name : Named(name, u)' <=> Named(name, u)
  BY <1>1 DEF ValuesTo, OwnTo, WordsTo, Named, IsValue, NamesOperation
<1>12. LastValue(n + 1)'
  <2>1. \A h \in ValuesTo(n + 1) : h <= n + 1
    BY <1>4, <1>7
  <2> QED
    BY <1>1, <1>7, <1>10, <1>11, <2>1 DEF LastValue
<1>13. AsWritten(n + 1)'
  <2>1. native.last <=> Named("last", c)
    BY <1>1 DEF AsWritten
  <2>2. native.yes <=> Named("yes", c)
    BY <1>1 DEF AsWritten
  <2>3. Len(native.ids) = Cardinality(WordsTo(c))
    BY <1>1 DEF AsWritten
  <2>4. native'.last <=> Named("last", n + 1)'
    BY <1>9, <1>10, <1>11, <2>1
  <2>5. native'.yes <=> Named("yes", n + 1)'
    BY <1>9, <1>10, <1>11, <2>2
  <2>6. Len(native'.ids) = Cardinality(WordsTo(n + 1)')
    BY <1>8, <1>10, <1>11, <2>3
  <2> QED
    BY <1>12, <2>4, <2>5, <2>6 DEF AsWritten
<1>14. used' = n + 1
  BY <1>3, <1>4
<1> QED
  BY <1>6, <1>13, <1>14 DEF AsWritten, LastValue, Named, ValuesTo, OwnTo, WordsTo

(* An argument that is neither --operation nor its value. *)
LEMMA OwnStep ==
  ASSUME SelectInv, ReadLast \/ ReadYes \/ ReadWord, used > 0, Selecting
  PROVE  ~IsValue(used' + 1) /\ AsWritten(used)'
<1>0. used \in Nat
  BY DEF SelectInv, ProcessOK
<1>u. PICK c \in Nat : c = used
  BY <1>0
<1> DEFINE n == c + 1
<1>1. /\ stage = "native" /\ c >= 1 /\ UNCHANGED <<args, stage>>
      /\ Argument = args[n] /\ ~NamesOperation(1) /\ ~IsValue(n) /\ AsWritten(c)
  BY <1>u, SelectorRead DEF Natives
<1>2. used' = n /\ native \in NativeState
  BY <1>u DEF ReadLast, ReadYes, ReadWord, ReadNative, SelectInv
<1>3. n \in Nat /\ n >= 2 /\ n - 1 = c
  BY <1>1
<1>4. ~NamesOperation(n)
  BY <1>1 DEF ReadLast, ReadYes, ReadWord, Option, NamesOperation
<1>5. ~IsValue(used' + 1)
  BY <1>1, <1>2, <1>3, <1>4, NextIsValue
<1>6. /\ ValuesTo(n) = ValuesTo(c) /\ OwnTo(n) = OwnTo(c) \cup {n}
      /\ WordsTo(c) \subseteq 1 .. c
  BY <1>1, OneMoreTo
<1>7. /\ Cardinality(WordsTo(c) \cup {n}) = Cardinality(WordsTo(c)) + 1
      /\ Cardinality(WordsTo(c)) \in Nat
  BY <1>6, OneMoreCounted
<1> HIDE DEF n
<1>8. WordsTo(n) = WordsTo(c) \cup {j \in {n} : args[n].form = "word"}
  BY <1>6 DEF WordsTo
<1>9. \A name : Named(name, n) <=> Named(name, c) \/ (args[n].form = "long" /\ args[n].text = name)
  BY <1>6 DEF Named
<1>10. /\ native.last <=> Named("last", c)
       /\ native.yes <=> Named("yes", c)
       /\ Len(native.ids) = Cardinality(WordsTo(c)) /\ LastValue(c)
  BY <1>1 DEF AsWritten
<1>11. \A u : /\ ValuesTo(u)' = ValuesTo(u) /\ OwnTo(u)' = OwnTo(u) /\ WordsTo(u)' = WordsTo(u)
              /\ \A name : Named(name, u)' <=> Named(name, u)
  BY <1>1 DEF ValuesTo, OwnTo, WordsTo, Named, IsValue, NamesOperation
<1>12. native'.operation = native.operation
  BY <1>2 DEF ReadLast, ReadYes, ReadWord, NativeState
<1>13. LastValue(n)'
  BY <1>1, <1>6, <1>10, <1>11, <1>12 DEF LastValue
<1>14. /\ native'.last <=> Named("last", n)
       /\ native'.yes <=> Named("yes", n)
       /\ Len(native'.ids) = Cardinality(WordsTo(n))
  <2>1. CASE ReadLast
    <3>1. args[n].form = "long" /\ args[n].text = "last"
      BY <1>1, <2>1 DEF ReadLast, Option
    <3>2. native'.last = TRUE /\ native'.yes = native.yes /\ native'.ids = native.ids
      BY <1>2, <2>1 DEF ReadLast, NativeState
    <3>3. WordsTo(n) = WordsTo(c)
      BY <1>8, <3>1
    <3> QED
      BY <1>9, <1>10, <3>1, <3>2, <3>3
  <2>2. CASE ReadYes
    <3>1. args[n].form = "long" /\ args[n].text = "yes"
      BY <1>1, <2>2 DEF ReadYes, Option
    <3>2. native'.yes = TRUE /\ native'.last = native.last /\ native'.ids = native.ids
      BY <1>2, <2>2 DEF ReadYes, NativeState
    <3>3. WordsTo(n) = WordsTo(c)
      BY <1>8, <3>1
    <3> QED
      BY <1>9, <1>10, <3>1, <3>2, <3>3
  <2>3. CASE ReadWord
    <3>1. args[n].form = "word"
      BY <1>1, <2>3 DEF ReadWord
    <3>2. /\ native'.yes = native.yes /\ native'.last = native.last
          /\ native'.ids = Append(native.ids, args[n].text) /\ native.ids \in Seq(STRING)
      BY <1>1, <1>2, <2>3 DEF ReadWord, NativeState
    <3>3. Len(native'.ids) = Len(native.ids) + 1
      BY <3>2
    <3>4. WordsTo(n) = WordsTo(c) \cup {n}
      BY <1>8, <3>1
    <3>5. Len(native'.ids) = Cardinality(WordsTo(n))
      BY <1>7, <1>10, <3>3, <3>4
    <3> QED
      BY <1>9, <1>10, <3>1, <3>2, <3>5
  <2> QED
    BY <2>1, <2>2, <2>3
<1>15. AsWritten(n)'
  <2>1. native'.last <=> Named("last", n)'
    BY <1>11, <1>14
  <2>2. native'.yes <=> Named("yes", n)'
    BY <1>11, <1>14
  <2>3. Len(native'.ids) = Cardinality(WordsTo(n)')
    BY <1>11, <1>14
  <2> QED
    BY <1>13, <2>1, <2>2, <2>3 DEF AsWritten
<1> QED
  BY <1>2, <1>5, <1>15 DEF AsWritten, LastValue, Named, ValuesTo, OwnTo, WordsTo

LEMMA NativeTyped ==
  ASSUME SelectInv, Natives
  PROVE  native' \in NativeState /\ (used = 0 \/ native'.command = native.command)
<1>1. native \in NativeState /\ args \in Seq(Arguments) /\ used \in Nat /\ Len(args) \in Nat
  BY DEF SelectInv, ProcessOK
<1>2. used < Len(args)
  BY NativeStep DEF SelectInv
<1>3. Argument \in Arguments
  <2>1. used + 1 \in 1 .. Len(args)
    BY <1>1, <1>2
  <2> QED
    BY <1>1, <2>1 DEF Argument
<1>4. CASE ReadCommand
  <2>1. native' = NativeRequest(CommandNamed(Argument)) /\ CommandNamed(Argument) \in Commands /\ used = 0
    BY <1>4 DEF ReadCommand
  <2>2. <<>> \in Seq(STRING)
    OBVIOUS
  <2>3. \A command \in Commands : NativeRequest(command) \in NativeState
    BY <2>2 DEF NativeRequest, NativeState
  <2> QED
    BY <2>1, <2>3
<1>5. CASE ReadOperation
  <2>1. used + 2 \in 1 .. Len(args)
    BY <1>1, <1>5 DEF ReadOperation, Option, ReadingNative, Understood, HasValue
  <2>2. Value \in Arguments
    BY <1>1, <2>1 DEF Value
  <2>3. Value.text \in STRING \cup Seq(STRING)
    BY <2>2 DEF Arguments
  <2> QED
    BY <1>1, <1>5, <2>3 DEF ReadOperation, NativeState
<1>6. CASE ReadLimit
  BY <1>1, <1>6 DEF ReadLimit
<1>7. CASE ReadJSON \/ ReadLast \/ ReadYes
  BY <1>1, <1>7 DEF ReadJSON, ReadLast, ReadYes, NativeState
<1>8. CASE ReadWord
  <2>1. Argument.text \in STRING /\ native.ids \in Seq(STRING)
    BY <1>1, <1>3, <1>8 DEF ReadWord, Arguments, NativeState
  <2>2. Append(native.ids, Argument.text) \in Seq(STRING)
    BY <2>1
  <2> QED
    BY <1>1, <1>8, <2>2 DEF ReadWord, NativeState
<1> QED
  BY <1>4, <1>5, <1>6, <1>7, <1>8 DEF Natives

LEMMA CommandRead ==
  ASSUME SelectInv, ReadCommand
  PROVE  used' = 1 /\ ~NamesOperation(1)' /\ ~IsValue(2)' /\ AsWritten(1)'
<1>1. used = 0 /\ used' = 1 /\ args' = args /\ CommandNamed(args[1]) \in Commands
      /\ native' = NativeRequest(CommandNamed(args[1]))
  BY DEF ReadCommand, ReadNative, Argument
<1>2. ~NamesOperation(1)
  BY <1>1 DEF CommandNamed, AsksForHelp, Commands, NamesOperation
<1>3. ~NamesOperation(1)' /\ ~IsValue(2)'
  BY <1>1, <1>2, FirstAreNoValues DEF NamesOperation, IsValue
<1>4. \A j \in 2 .. 1 : FALSE
  OBVIOUS
<1>5. ValuesTo(1)' = {} /\ OwnTo(1)' = {} /\ WordsTo(1)' = {}
  BY <1>4 DEF ValuesTo, OwnTo, WordsTo
<1>6. \A name : ~Named(name, 1)'
  BY <1>5 DEF Named
<1>7. /\ native'.last = FALSE /\ native'.yes = FALSE /\ native'.ids = <<>> /\ native'.operation = ""
  BY <1>1 DEF NativeRequest
<1>8. Cardinality({}) = 0 /\ Len(<<>>) = 0
  BY FS_EmptySet
<1>9. AsWritten(1)'
  BY <1>5, <1>6, <1>7, <1>8 DEF AsWritten, LastValue
<1> QED
  BY <1>1, <1>3, <1>9

(* Exactly one selector, and the arguments say which. *)
LEMMA OneSelector ==
  ASSUME SelectInv, StartNative, Selecting
  PROVE  SelectsWhatIsWritten'
<1> DEFINE last == Len(args)
<1>1. /\ used = last /\ used > 0 /\ stage = "native" /\ Cardinality(Selectors) = 1
      /\ UNCHANGED <<args, native>> /\ native \in NativeState /\ last \in Nat
  BY DEF SelectInv, StartNative, Complete, Began, Selecting, commandLine, ProcessOK
<1>2. AsWritten(used)
  BY <1>1 DEF SelectInv
<1>3. /\ native.last <=> Named("last", last)
      /\ native.yes <=> Named("yes", last)
      /\ Len(native.ids) = Cardinality(WordsTo(last)) /\ LastValue(last)
  BY <1>1, <1>2 DEF AsWritten
<1>4. \E s : Selectors = {s}
  <2>1. IsFiniteSet({"last", "operation", "ids"})
    <3>1. IsFiniteSet({"last"}) /\ IsFiniteSet({"last"} \cup {"operation"})
      BY FS_Singleton, FS_AddElement
    <3>2. IsFiniteSet(({"last"} \cup {"operation"}) \cup {"ids"})
      BY <3>1, FS_AddElement
    <3>3. ({"last"} \cup {"operation"}) \cup {"ids"} = {"last", "operation", "ids"}
      OBVIOUS
    <3> QED
      BY <3>2, <3>3
  <2>2. Selectors \subseteq {"last", "operation", "ids"}
    BY DEF Selectors
  <2>3. IsFiniteSet(Selectors)
    BY <2>1, <2>2, FS_Subset
  <2> QED
    BY <1>1, <2>3, FS_Singleton
<1>5. native.ids = <<>> <=> WordsTo(last) = {}
  <2>1. WordsTo(last) \subseteq 1 .. last
    BY DEF WordsTo, OwnTo
  <2>2. IsFiniteSet(WordsTo(last)) /\ Cardinality(WordsTo(last)) \in Nat
    BY <1>1, <2>1, OneMoreCounted
  <2>3. native.ids = <<>> <=> Len(native.ids) = 0
    <3>1. native.ids \in Seq(STRING)
      BY <1>1 DEF NativeState
    <3> QED
      BY <3>1
  <2> QED
    BY <1>3, <2>2, <2>3, FS_EmptySet
<1>6. /\ native.last => native.operation = "" /\ native.ids = <<>>
      /\ native.operation # "" => ~native.last /\ native.ids = <<>>
      /\ native.last \/ native.operation # "" \/ native.ids # <<>>
  <2>1. PICK s : Selectors = {s}
    BY <1>4
  <2>2. s \in {"last", "operation", "ids"} /\ s \in Selectors
    BY <2>1 DEF Selectors
  <2>3. native.last => s = "last"
    BY <2>1 DEF Selectors
  <2>4. native.operation # "" => s = "operation"
    BY <2>1 DEF Selectors
  <2>5. native.ids # <<>> => s = "ids"
    BY <2>1 DEF Selectors
  <2>6. native.last \/ native.operation # "" \/ native.ids # <<>>
    BY <2>2 DEF Selectors
  <2> QED
    BY <2>3, <2>4, <2>5, <2>6
<1>7. Values = ValuesTo(last) /\ Own = OwnTo(last)
  BY DEF ValuesTo, OwnTo, Values, Own
<1>8. Words = WordsTo(last) /\ \A name : Written(name) <=> Named(name, last)
  BY <1>7 DEF Words, WordsTo, Written, Named
<1>9. /\ native.last <=> Written("last")
      /\ native.yes <=> Written("yes")
      /\ Len(native.ids) = Cardinality(Words)
      /\ IF Values = {} THEN native.operation = ""
         ELSE \E j \in Values : native.operation = args[j].text /\ \A h \in Values : h <= j
  BY <1>3, <1>7, <1>8 DEF LastValue
<1>10. (CASE native.last -> Words = {} /\ native.operation = ""
          [] native.operation # "" -> Words = {} /\ ~native.last
          [] OTHER -> Words # {})
  BY <1>5, <1>6, <1>8
<1>11. Values' = Values /\ Words' = Words /\ \A name : Written(name)' <=> Written(name)
  BY <1>1 DEF Values, Own, Words, Written, IsValue, NamesOperation
<1> QED
  BY <1>1, <1>9, <1>10, <1>11 DEF SelectsWhatIsWritten

LEMMA SelectStep ==
  ASSUME SelectInv, [CommandNext]_commandVars
  PROVE  SelectInv'
<1>0. ProcessOK /\ ProcessOK' /\ native \in NativeState
  BY ProcessStep DEF SelectInv
<1>1. CASE Natives
  <2>1. stage' = "native" /\ native' \in NativeState /\ SelectsWhatIsWritten'
    BY <1>0, <1>1, NativeStep, NativeTyped DEF SelectsWhatIsWritten
  <2>2. Selecting' => ~NamesOperation(1)' /\ ~IsValue(used + 1)' /\ AsWritten(used)'
    <3>1. CASE used = 0
      <4>1. ReadCommand
        BY <1>1, <3>1 DEF Natives, ReadOperation, ReadLimit, ReadJSON, ReadLast, ReadYes, ReadWord,
          Option, ReadingNative, Began
      <4>2. used' = 1 /\ ~NamesOperation(1)' /\ ~IsValue(2)' /\ AsWritten(1)'
        BY <4>1, CommandRead
      <4> QED
        <5>1. AsWritten(used)'
          BY <4>2 DEF AsWritten, LastValue, Named, ValuesTo, OwnTo, WordsTo
        <5>2. used' + 1 = 2
          BY <4>2
        <5>3. ~IsValue(used + 1)'
          BY <4>2, <5>2 DEF IsValue
        <5> QED
          BY <4>2, <5>1, <5>3
    <3>2. CASE used > 0 /\ Selecting
      <4>1. ReadOperation \/ ReadLast \/ ReadYes \/ ReadWord
        BY <1>1, <3>2, SelectorRead
      <4>2. ~IsValue(used' + 1) /\ AsWritten(used)'
        BY <3>2, <4>1, OperationStep, OwnStep
      <4>3. ~NamesOperation(1) /\ args' = args
        BY <1>1, <3>2, SelectorRead
      <4>4. ~NamesOperation(1)' /\ ~IsValue(used + 1)'
        BY <4>2, <4>3 DEF IsValue, NamesOperation
      <4> QED
        BY <4>2, <4>4
    <3>3. CASE used > 0 /\ ~Selecting
      BY <1>1, <3>3, NativeTyped DEF Selecting
    <3> QED
      BY <1>0, <3>1, <3>2, <3>3 DEF ProcessOK
  <2> QED
    BY <1>0, <2>1, <2>2 DEF SelectInv
<1>2. CASE StartNative
  <2>1. stage' = "command" /\ native' = native
    BY <1>2 DEF StartNative, commandLine
  <2>2. SelectsWhatIsWritten'
    BY <1>2, <2>1, OneSelector DEF SelectsWhatIsWritten, Selecting
  <2> QED
    BY <1>0, <2>1, <2>2 DEF SelectInv
<1>3. CASE Load
  <2>1. used' = 0 /\ stage' # "command" /\ native' = native
    BY <1>0, <1>3, LoadStep DEF Load
  <2>2. ~(used' > 0) /\ native' \in NativeState
    BY <1>0, <2>1
  <2> QED
    BY <1>0, <2>1, <2>2 DEF SelectInv, SelectsWhatIsWritten
<1>4. CASE EndOptions \/ ApplyOption \/ TakeOperand
  <2>1. stage' = "rm" /\ native' = native
    BY <1>0, <1>4, ParserStep DEF Reading
  <2> QED
    BY <1>0, <2>1 DEF SelectInv, SelectsWhatIsWritten
<1>5. CASE Launch \/ RunRemoval
  <2>1. stage' = "run" /\ native' = native
    BY <1>5 DEF Launch, RunRemoval, commandLine
  <2> QED
    BY <1>0, <2>1 DEF SelectInv, SelectsWhatIsWritten
<1>6. CASE Ends /\ ~StartNative
  <2>1. stage' = "over" /\ native' = native
    BY <1>6 DEF Ends, StartFails, UsageError, NothingToRemove, NativeError, Inform, Exit, commandLine
  <2> QED
    BY <1>0, <2>1 DEF SelectInv, SelectsWhatIsWritten
<1>7. CASE UNCHANGED commandVars
  <2>1. UNCHANGED <<stage, args, used, native>>
    BY <1>7 DEF commandVars, commandLine
  <2>2. \A j : (IsValue(j)' <=> IsValue(j)) /\ (NamesOperation(j)' <=> NamesOperation(j))
    BY <2>1 DEF IsValue, NamesOperation
  <2>3. Values' = Values /\ Words' = Words /\ \A name : Written(name)' <=> Written(name)
    BY <2>1, <2>2 DEF Values, Own, Words, Written
  <2>4. Selecting' <=> Selecting
    BY <2>1 DEF Selecting
  <2>5. SelectsWhatIsWritten'
    BY <2>1, <2>3, <2>4 DEF SelectInv, SelectsWhatIsWritten
  <2>6. PICK c \in Nat : c = used
    BY <1>0 DEF ProcessOK
  <2>7. AsWritten(c) => AsWritten(c)'
    <3>1. ValuesTo(c)' = ValuesTo(c) /\ OwnTo(c)' = OwnTo(c)
      BY <2>2 DEF ValuesTo, OwnTo
    <3>2. WordsTo(c)' = WordsTo(c) /\ \A name : Named(name, c)' <=> Named(name, c)
      BY <2>1, <3>1 DEF WordsTo, Named
    <3> QED
      BY <2>1, <3>1, <3>2 DEF AsWritten, LastValue
  <2>8. AsWritten(c)' => AsWritten(used)'
    BY <2>1, <2>6 DEF AsWritten, LastValue, Named, ValuesTo, OwnTo, WordsTo
  <2>9. ~IsValue(used + 1) => ~IsValue(used + 1)'
    BY <2>1 DEF IsValue, NamesOperation
  <2> QED
    BY <1>0, <2>1, <2>2, <2>4, <2>5, <2>6, <2>7, <2>8, <2>9 DEF SelectInv
<1> QED
  BY <1>1, <1>2, <1>3, <1>4, <1>5, <1>6, <1>7, CommandSteps

(* A restore or purge that is carried out has exactly one selector, the    *)
(* one that was written, and no prompt is left out unless --yes is written *)
(* as an option: however many --operation and whatever their values.       *)
THEOREM CommandSelectsWhatIsWritten == CommandSpec => []SelectsWhatIsWritten
<1>1. CommandInit => SelectInv
  <2>1. NativeRequest("help") \in NativeState
    <3>1. <<>> \in Seq(STRING)
      OBVIOUS
    <3> QED
      BY <3>1 DEF NativeRequest, NativeState, Commands
  <2> QED
    BY <2>1, ProcessInit DEF CommandInit, SelectInv, SelectsWhatIsWritten
<1>2. SelectInv /\ [CommandNext]_commandVars => SelectInv'
  BY SelectStep
<1>3. SelectInv => SelectsWhatIsWritten
  BY DEF SelectInv
<1> QED
  BY <1>1, <1>2, <1>3, PTL DEF CommandSpec
=============================================================================
