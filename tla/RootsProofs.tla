----------------------------- MODULE RootsProofs -----------------------------
(***************************************************************************)
(* What holds of Roots for any number of commands and file systems.        *)
(***************************************************************************)
EXTENDS Roots, TLAPS, SequenceTheorems, FiniteSetTheorems

Labels == {"idle", "resolve", "check", "make", "move", "rename", "purge", "done", "failed", "refused"}

(* The state of one command: its types; and in its pass over the roots it  *)
(* has a root and one of its directories in hand.                          *)
Fit(p) ==
    /\ pc[p] \in Labels
    /\ jobs[p] \in Seq(Removals) /\ asked[p] \in Seq(Device \cup {None})
    /\ Len(asked[p]) <= Len(jobs[p])
    /\ cands[p] \in Seq(Root) /\ part[p] \in 1 .. 3
    /\ roots[p] \subseteq Root /\ seen[p] \subseteq Root \X Part
    /\ pc[p] = "idle" => asked[p] = <<>>
    /\ pc[p] = "resolve" => Len(asked[p]) < Len(jobs[p])
    /\ pc[p] \in {"check", "make", "move", "rename"} => cands[p] # <<>>
    /\ pc[p] \in {"check", "make", "move"} => part[p] <= Len(Skeleton)

OnProcs(f) == f = [p \in Procs |-> f[p]]
Shapes ==
    /\ OnProcs(pc) /\ OnProcs(jobs) /\ OnProcs(asked) /\ OnProcs(cands)
    /\ OnProcs(part) /\ OnProcs(roots) /\ OnProcs(seen)

Tree ==
    /\ setting \in Settings
    /\ sticky \in [Device -> {"none", "sticky", "plain", "other"}]
    /\ dir \in [Root -> [Part -> Kinds]]
    /\ place \in [Removals -> {Source, Gone} \cup Root]
    /\ again \in [Removals -> Device \cup {None}]
    /\ meddling \in 0 .. MaxMeddling

TypeInv == Tree /\ Shapes /\ \A p \in Procs : Fit(p)

LEMMA TypeInvIsTypeOK == TypeInv => TypeOK
<1> SUFFICES ASSUME TypeInv PROVE TypeOK
  OBVIOUS
<1>1. /\ pc \in [Procs -> Labels] /\ jobs \in [Procs -> Seq(Removals)]
      /\ asked \in [Procs -> Seq(Device \cup {None})] /\ cands \in [Procs -> Seq(Root)]
  BY DEF TypeInv, Shapes, OnProcs, Fit
<1>2. /\ part \in [Procs -> 1 .. 3] /\ roots \in [Procs -> SUBSET Root]
      /\ seen \in [Procs -> SUBSET (Root \X Part)]
      /\ \A p \in Procs : Len(asked[p]) <= Len(jobs[p])
  BY DEF TypeInv, Shapes, OnProcs, Fit
<1> QED
  BY <1>1, <1>2 DEF TypeOK, TypeInv, Tree, Labels
-----------------------------------------------------------------------------
(* What a step of one command leaves of the others. *)
Only(p) ==
    /\ Shapes' /\ setting' = setting
    /\ \A q \in Procs \ {p} :
          /\ pc'[q] = pc[q] /\ jobs'[q] = jobs[q] /\ asked'[q] = asked[q]
          /\ cands'[q] = cands[q] /\ part'[q] = part[q] /\ roots'[q] = roots[q]
          /\ seen'[q] = seen[q]

LEMMA Except ==
  ASSUME NEW f, OnProcs(f), NEW p \in Procs, NEW v, NEW g, g = [f EXCEPT ![p] = v]
  PROVE  OnProcs(g) /\ g[p] = v /\ \A q \in Procs \ {p} : g[q] = f[q]
BY DEF OnProcs

LEMMA SkeletonIs ==
  /\ Skeleton \in Seq(Part) /\ Len(Skeleton) \in {2, 3}
  /\ \A j \in 1 .. Len(Skeleton) : Skeleton[j] \in Part
<1>1. CASE setting.platform = "darwin"
  <2>1. Skeleton = <<"root", "info">>
    BY <1>1 DEF Skeleton
  <2> QED
    BY <2>1 DEF Part
<1>2. CASE setting.platform # "darwin"
  <2>1. Skeleton = <<"root", "files", "info">>
    BY <1>2 DEF Skeleton
  <2> QED
    BY <2>1 DEF Part
<1> QED
  BY <1>1, <1>2

LEMMA RootIs ==
  /\ Home \in Root /\ \A d \in Device : Admin(d) \in Root /\ Own(d) \in Root
  /\ \A r \in Root : DeviceOf(r) \in Device
BY RootsAssumption DEF Root, Home, Admin, Own, DeviceOf

LEMMA CandidatesAre ==
  ASSUME NEW d \in Device
  PROVE  Candidates(d) \in Seq(Root) /\ Candidates(d) # <<>>
BY RootIs DEF Candidates, LinuxRoots, DarwinRoots

LEMMA HeadTail ==
  ASSUME NEW c \in Seq(Root), c # <<>>
  PROVE  /\ Head(c) \in Root /\ Tail(c) \in Seq(Root)
         /\ Len(Tail(c)) = Len(c) - 1 /\ Len(c) \in Nat
         /\ Len(c) > 1 => Tail(c) # <<>>
<1> DEFINE t == Tail(c)
<1>1. Len(c) \in Nat /\ t \in Seq(Root) /\ Len(t) = Len(c) - 1 /\ Head(c) \in Root
  BY HeadTailProperties
<1> HIDE DEF t
<1>2. Len(c) > 1 => t # <<>>
  BY <1>1
<1> QED
  BY <1>1, <1>2 DEF t

LEMMA ChoiceIs ==
  ASSUME NEW p \in Procs, Fit(p), pc[p] \in {"check", "make", "move", "rename"}
  PROVE  Choice(p) \in Root /\ cands[p] \in Seq(Root) /\ Tail(cands[p]) \in Seq(Root)
         /\ (Len(cands[p]) > 1 => Tail(cands[p]) # <<>>)
<1>1. cands[p] \in Seq(Root) /\ cands[p] # <<>>
  BY DEF Fit
<1> QED
  BY <1>1, HeadTail DEF Choice

(* NoRoot, Reject and Accept, for the command that takes them. *)
Resolved(p) ==
    /\ OnProcs(pc') /\ OnProcs(cands') /\ OnProcs(part') /\ OnProcs(roots')
    /\ \A q \in Procs \ {p} : /\ pc'[q] = pc[q] /\ cands'[q] = cands[q]
                              /\ part'[q] = part[q] /\ roots'[q] = roots[q]

LEMMA AcceptIs ==
  ASSUME TypeInv, NEW p \in Procs, Accept(p)
  PROVE  /\ Resolved(p)
         /\ \/ /\ part[p] < Len(Skeleton)
               /\ part'[p] = part[p] + 1 /\ pc'[p] = FirstLook
               /\ cands'[p] = cands[p] /\ roots'[p] = roots[p]
            \/ /\ ~ (part[p] < Len(Skeleton))
               /\ part'[p] = 1 /\ cands'[p] = cands[p] /\ roots'[p] = roots[p] \cup {Choice(p)}
               /\ pc'[p] = (IF Moving(p) THEN "rename" ELSE IF p \in Removals THEN "move"
                            ELSE IF Len(asked[p]) < Len(jobs[p]) THEN "resolve" ELSE "purge")
<1>0. OnProcs(pc) /\ OnProcs(cands) /\ OnProcs(part) /\ OnProcs(roots)
  BY DEF TypeInv, Shapes
<1>1. CASE part[p] < Len(Skeleton)
  BY <1>0, <1>1 DEF Accept, Goto, OnProcs, Resolved
<1>2. CASE ~ (part[p] < Len(Skeleton))
  BY <1>0, <1>2 DEF Accept, Goto, OnProcs, Resolved
<1> QED
  BY <1>1, <1>2

LEMMA RejectIs ==
  ASSUME TypeInv, NEW p \in Procs, Reject(p)
  PROVE  /\ Resolved(p)
         /\ \/ /\ Len(cands[p]) > 1 /\ ~Moving(p)
               /\ cands'[p] = Tail(cands[p]) /\ part'[p] = 1 /\ pc'[p] = FirstLook
               /\ roots'[p] = roots[p]
            \/ /\ ~ (Len(cands[p]) > 1 /\ ~Moving(p))
               /\ cands'[p] = cands[p] /\ part'[p] = part[p]
               /\ pc'[p] = (IF p \in Removals THEN "failed" ELSE "purge") /\ roots'[p] = {}
<1>0. OnProcs(pc) /\ OnProcs(cands) /\ OnProcs(part) /\ OnProcs(roots)
  BY DEF TypeInv, Shapes
<1>1. CASE Len(cands[p]) > 1 /\ ~Moving(p)
  BY <1>0, <1>1 DEF Reject, Goto, OnProcs, Resolved
<1>2. CASE ~ (Len(cands[p]) > 1 /\ ~Moving(p))
  BY <1>0, <1>2 DEF Reject, NoRoot, Goto, OnProcs, Resolved
<1> QED
  BY <1>1, <1>2

LEMMA ResolutionIs ==
  ASSUME TypeInv, NEW p \in Procs, Accept(p) \/ Reject(p)
  PROVE  /\ Resolved(p)
         /\ \/ /\ part[p] < Len(Skeleton)
               /\ part'[p] = part[p] + 1 /\ pc'[p] = FirstLook
               /\ cands'[p] = cands[p] /\ roots'[p] = roots[p]
            \/ /\ ~ (part[p] < Len(Skeleton))
               /\ part'[p] = 1 /\ cands'[p] = cands[p] /\ roots'[p] = roots[p] \cup {Choice(p)}
               /\ pc'[p] = (IF Moving(p) THEN "rename" ELSE IF p \in Removals THEN "move"
                            ELSE IF Len(asked[p]) < Len(jobs[p]) THEN "resolve" ELSE "purge")
            \/ /\ Len(cands[p]) > 1 /\ ~Moving(p)
               /\ cands'[p] = Tail(cands[p]) /\ part'[p] = 1 /\ pc'[p] = FirstLook
               /\ roots'[p] = roots[p]
            \/ /\ cands'[p] = cands[p] /\ part'[p] = part[p]
               /\ pc'[p] = (IF p \in Removals THEN "failed" ELSE "purge") /\ roots'[p] = {}
BY AcceptIs, RejectIs
-----------------------------------------------------------------------------
(* What a directory becomes by a MakeDirectory: itself, or a fresh one.    *)
Named(p) == Skeleton[part[p]]
Becomes(r, q) ==
    \/ dir'[r][q] = dir[r][q]
    \/ dir'[r][q] = Fresh(DeviceOf(r)) /\ dir[r][q] \in {"none", "good", "open"}

LEMMA MadeIs ==
  ASSUME NEW r \in Root, NEW q \in Part, dir \in [Root -> [Part -> Kinds]],
         ~Barred(<<r, q>>), dir' = [dir EXCEPT ![r] = Made(<<r, q>>)]
  PROVE  /\ dir' \in [Root -> [Part -> Kinds]]
         /\ \A s \in Root \ {r} : dir'[s] = dir[s]
         /\ \A x \in Part : Becomes(r, x) /\ (x # q => dir'[r][x] = dir[r][x] \/ dir[r][x] = "none")
         /\ Custom => \A x \in Part : dir'[r][x] = dir[r][x] \/ dir[r][x] = "none"
         /\ dir'[r][q] # "none"
         /\ ~Custom /\ dir[r][q] # "theirs" => dir'[r][q] = Fresh(DeviceOf(r))
<1> DEFINE F == Fresh(DeviceOf(r))
           D == dir[r]
           M == Made(<<r, q>>)
<1>1. D \in [Part -> Kinds] /\ F \in Kinds /\ F # "none" /\ "root" \in Part
  BY DEF Fresh, Kinds, Part
<1>2. D[q] # "other" /\ D["root"] # "other"
  BY DEF Barred, Kind
<1>3. M = [y \in Part |-> IF \/ D[y] = "none" /\ y \in {"root", q}
                             \/ D[y] # "theirs" /\ y = q /\ ~Custom THEN F ELSE D[y]]
  BY DEF Made
<1>4. dir'[r] = M /\ \A s \in Root \ {r} : dir'[s] = dir[s]
  OBVIOUS
<1> HIDE DEF D, F, M
<1>5. M \in [Part -> Kinds]
  BY <1>1, <1>3
<1>6. dir' \in [Root -> [Part -> Kinds]]
  BY <1>5 DEF M
<1>7. \A x \in Part : \/ M[x] = D[x]
                      \/ M[x] = F /\ D[x] \in {"none", "good", "open"} /\ (x # q => D[x] = "none")
  BY <1>1, <1>2, <1>3 DEF Kinds
<1>8. Custom => \A x \in Part : M[x] = D[x] \/ D[x] = "none"
  BY <1>3
<1>9. M[q] # "none" /\ (~Custom /\ D[q] # "theirs" => M[q] = F)
  BY <1>1, <1>3
<1> QED
  BY <1>4, <1>6, <1>7, <1>8, <1>9 DEF Becomes, D, F

LEMMA ResolveTypes ==
  ASSUME TypeInv, NEW p \in Procs, Resolve(p)
  PROVE  TypeInv'
<1> DEFINE t == jobs[p][Len(asked[p]) + 1]
           d == again[t]
<1>0. Tree /\ Shapes /\ Fit(p) /\ pc[p] = "resolve"
  BY DEF TypeInv, Resolve
<1>1. t \in Removals /\ d \in Device \cup {None} /\ Len(asked[p]) \in Nat
  BY <1>0 DEF Fit, Tree
<1> HIDE DEF t, d
<1>2. /\ OnProcs(asked') /\ OnProcs(pc') /\ OnProcs(cands') /\ OnProcs(part') /\ OnProcs(roots')
      /\ asked'[p] = Append(asked[p], d)
      /\ \A q \in Procs \ {p} : /\ pc'[q] = pc[q] /\ cands'[q] = cands[q] /\ asked'[q] = asked[q]
                                /\ part'[q] = part[q] /\ roots'[q] = roots[q]
  BY <1>0 DEF Resolve, Shapes, OnProcs, NoRoot, Goto, t, d
<1>3. asked'[p] \in Seq(Device \cup {None}) /\ Len(asked'[p]) = Len(asked[p]) + 1
  BY <1>0, <1>1, <1>2, AppendProperties DEF Fit
<1>4. \/ /\ pc'[p] \in {"failed", "purge"} /\ cands'[p] = cands[p] /\ part'[p] = part[p]
         /\ roots'[p] = {}
      \/ /\ d # None \/ Custom
         /\ pc'[p] \in {"check", "make"} /\ cands'[p] = Candidates(d) /\ part'[p] = 1
         /\ roots'[p] = roots[p]
  BY <1>0 DEF Resolve, Shapes, OnProcs, NoRoot, Goto, FirstLook, t, d
<1>5. (Candidates(d) \in Seq(Root) /\ Candidates(d) # <<>>) \/ (d = None /\ ~Custom)
  BY <1>1, CandidatesAre, RootIs DEF Candidates
<1>6. UNCHANGED <<setting, tree, items, jobs, meddling, seen>>
  BY DEF Resolve
<1>7. Skeleton' = Skeleton /\ Len(Skeleton) \in {2, 3}
  BY <1>6, SkeletonIs DEF Skeleton
<1>8. Fit(p)'
  <2>1. /\ jobs'[p] = jobs[p] /\ seen'[p] = seen[p] /\ Len(asked'[p]) <= Len(jobs[p])
    BY <1>0, <1>1, <1>3, <1>6 DEF Fit
  <2>2. CASE pc'[p] \in {"failed", "purge"} /\ cands'[p] = cands[p] /\ part'[p] = part[p]
             /\ roots'[p] = {}
    BY <1>0, <1>3, <2>1, <2>2 DEF Fit, Labels
  <2>3. CASE /\ d # None \/ Custom
             /\ pc'[p] \in {"check", "make"} /\ cands'[p] = Candidates(d) /\ part'[p] = 1
             /\ roots'[p] = roots[p]
    <3>1. cands'[p] \in Seq(Root) /\ cands'[p] # <<>>
      BY <1>5, <2>3
    <3>2. Len(Skeleton') \in {2, 3} /\ part'[p] = 1
      BY <1>7, <2>3
    <3> HIDE DEF d
    <3>3. part'[p] \in 1 .. 3 /\ part'[p] <= Len(Skeleton')
      BY ONLY <3>2
    <3>4. pc'[p] \in Labels \ {"resolve", "idle"} /\ roots'[p] \subseteq Root
      BY <1>0, <2>3 DEF Labels, Fit
    <3>5. jobs'[p] \in Seq(Removals) /\ seen'[p] \subseteq Root \X Part
      BY <1>0, <2>1 DEF Fit
    <3> QED
      BY <1>3, <2>1, <3>1, <3>3, <3>4, <3>5 DEF Fit
  <2> QED
    BY <1>4, <2>2, <2>3
<1>9. \A q \in Procs \ {p} : Fit(q)'
  BY <1>2, <1>6, <1>7 DEF Fit, TypeInv
<1>10. Tree' /\ Shapes'
  BY <1>0, <1>2, <1>6 DEF Tree, Shapes, tree, items, OnProcs
<1> QED
  BY <1>8, <1>9, <1>10 DEF TypeInv

(* When the tree keeps its types, the others keep their state, and the one *)
(* in action still fits, so does every type.                               *)
LEMMA OneFits ==
  ASSUME TypeInv, NEW p \in Procs, Only(p), Fit(p)', Tree'
  PROVE  TypeInv'
<1>1. Skeleton' = Skeleton
  BY DEF Only, Skeleton
<1>2. \A q \in Procs \ {p} : Fit(q)'
  BY <1>1 DEF Only, TypeInv, Fit
<1> QED
  BY <1>2 DEF TypeInv, Only

LEMMA ResolutionFits ==
  ASSUME TypeInv, NEW p \in Procs, pc[p] \in {"check", "make"}, Accept(p) \/ Reject(p),
         UNCHANGED <<setting, jobs, asked>>, OnProcs(seen'), seen'[p] \subseteq Root \X Part,
         \A q \in Procs \ {p} : seen'[q] = seen[q]
  PROVE  Only(p) /\ Fit(p)'
<1>0. Shapes /\ Fit(p)
  BY DEF TypeInv
<1>1. Only(p)
  BY <1>0, ResolutionIs DEF Only, Shapes, OnProcs, Resolved
<1>2. /\ jobs'[p] \in Seq(Removals) /\ asked'[p] \in Seq(Device \cup {None})
      /\ Len(asked'[p]) <= Len(jobs'[p]) /\ seen'[p] \subseteq Root \X Part
  BY <1>0 DEF Fit
<1>3. /\ Choice(p) \in Root /\ cands[p] \in Seq(Root) /\ Tail(cands[p]) \in Seq(Root)
      /\ (Len(cands[p]) > 1 => Tail(cands[p]) # <<>>) /\ cands[p] # <<>>
  BY <1>0, ChoiceIs DEF Fit
<1>4. /\ Skeleton' = Skeleton /\ Len(Skeleton) \in {2, 3}
  BY SkeletonIs DEF Skeleton
<1>5. FirstLook \in {"check", "make"}
  BY DEF FirstLook
<1>6. /\ part[p] \in 1 .. 3 /\ part[p] <= Len(Skeleton) /\ roots[p] \subseteq Root
  BY <1>0 DEF Fit
<1>7. cands'[p] \in Seq(Root) /\ roots'[p] \subseteq Root
  BY <1>3, <1>6, ResolutionIs
<1>8. part'[p] \in 1 .. 3
  <2> DEFINE a == part[p]
             n == Len(Skeleton)
  <2>1. part'[p] = 1 \/ part'[p] = a \/ (a < n /\ part'[p] = a + 1)
    BY ResolutionIs
  <2>2. a \in 1 .. 3 /\ n \in {2, 3}
    BY <1>4, <1>6
  <2> HIDE DEF a, n
  <2> QED
    BY <2>1, <2>2
<1>9. pc'[p] \in Labels \ {"idle"}
  BY <1>5, ResolutionIs DEF Labels
<1>10. pc'[p] = "resolve" => Len(asked'[p]) < Len(jobs'[p])
  BY <1>5, ResolutionIs
<1>11. pc'[p] \in {"check", "make", "move", "rename"} => cands'[p] # <<>>
  BY <1>3, ResolutionIs
<1>12. pc'[p] \in {"check", "make", "move"} => part'[p] <= Len(Skeleton')
  BY <1>4, <1>6, ResolutionIs
<1> QED
  BY <1>1, <1>2, <1>7, <1>8, <1>9, <1>10, <1>11, <1>12 DEF Fit

LEMMA PathIs ==
  ASSUME TypeInv, NEW p \in Procs, pc[p] \in {"check", "make", "move"}
  PROVE  /\ Choice(p) \in Root /\ Named(p) \in Part /\ part[p] \in 1 .. Len(Skeleton)
         /\ Path(p) = <<Choice(p), Named(p)>> /\ Kind(Path(p)) = dir[Choice(p)][Named(p)]
<1>1. Fit(p)
  BY DEF TypeInv
<1>2. part[p] \in 1 .. Len(Skeleton)
  BY <1>1, SkeletonIs DEF Fit
<1> QED
  BY <1>1, <1>2, ChoiceIs, SkeletonIs DEF Named, Path, Kind

LEMMA CheckTypes ==
  ASSUME TypeInv, NEW p \in Procs, CheckDirectory(p)
  PROVE  TypeInv'
<1>0. Tree /\ Shapes /\ Fit(p) /\ pc[p] = "check"
  BY DEF TypeInv, CheckDirectory
<1>1. Tree'
  BY <1>0 DEF CheckDirectory, Tree, tree, items
<1>2. /\ UNCHANGED <<setting, jobs, asked>>
  BY DEF CheckDirectory
<1>3. Path(p) \in Root \X Part
  BY <1>0, PathIs
<1>4. /\ OnProcs(seen') /\ \A q \in Procs \ {p} : seen'[q] = seen[q]
      /\ seen'[p] \subseteq Root \X Part
  BY <1>0, <1>3 DEF CheckDirectory, Shapes, OnProcs, Fit
<1>5. CASE Goto(p, "make") /\ UNCHANGED <<choice, seen>>
  <2>1. Only(p)
    BY <1>0, <1>2, <1>5 DEF Goto, Only, Shapes, OnProcs, choice
  <2>2. pc'[p] = "make" /\ Skeleton' = Skeleton
    BY <1>0, <1>2, <1>5 DEF Goto, Shapes, OnProcs, Skeleton
  <2>3. Fit(p)'
    BY <1>0, <1>2, <1>5, <2>2 DEF Fit, Labels, choice
  <2> QED
    BY <2>1, <2>3, <1>1, OneFits
<1>6. CASE Accept(p) \/ Reject(p)
  BY <1>0, <1>1, <1>2, <1>4, <1>6, ResolutionFits, OneFits
<1> QED
  BY <1>5, <1>6 DEF CheckDirectory

LEMMA MakeTypes ==
  ASSUME TypeInv, NEW p \in Procs, MakeDirectory(p)
  PROVE  TypeInv'
<1>0. Tree /\ Shapes /\ Fit(p) /\ pc[p] = "make"
  BY DEF TypeInv, MakeDirectory
<1>1. Tree'
  <2>1. setting' = setting /\ UNCHANGED items
    BY DEF MakeDirectory
  <2>2. CASE meddling < MaxMeddling /\ meddling' = meddling + 1 /\ UNCHANGED tree
    BY <1>0, <2>1, <2>2, RootsAssumption DEF Tree, tree, items
  <2>3. CASE meddling' = meddling /\ UNCHANGED tree
    BY <1>0, <2>1, <2>3 DEF Tree, tree, items
  <2>4. CASE /\ ~Barred(Path(p)) /\ dir' = [dir EXCEPT ![Path(p)[1]] = Made(Path(p))]
             /\ sticky' = [d \in Device |->
                    IF Path(p)[1] = Admin(d) /\ sticky[d] = "none" THEN "plain" ELSE sticky[d]]
             /\ meddling' = meddling
    <3>1. /\ Choice(p) \in Root /\ Named(p) \in Part /\ Path(p) = <<Choice(p), Named(p)>>
      BY <1>0, PathIs
    <3>2. dir \in [Root -> [Part -> Kinds]]
      BY <1>0 DEF Tree
    <3>3. dir' = [dir EXCEPT ![Choice(p)] = Made(<<Choice(p), Named(p)>>)]
      BY <2>4, <3>1
    <3>4. ~Barred(<<Choice(p), Named(p)>>)
      BY <2>4, <3>1
    <3>5. dir' \in [Root -> [Part -> Kinds]]
      BY <3>1, <3>2, <3>3, <3>4, MadeIs
    <3> QED
      BY <1>0, <2>1, <2>4, <3>5 DEF Tree, items
  <2> QED
    BY <2>2, <2>3, <2>4 DEF MakeDirectory
<1>2. /\ UNCHANGED <<setting, jobs, asked>>
  BY DEF MakeDirectory
<1>3. Path(p) \in Root \X Part
  BY <1>0, PathIs
<1>4. /\ OnProcs(seen') /\ \A q \in Procs \ {p} : seen'[q] = seen[q]
      /\ seen'[p] \subseteq Root \X Part
  BY <1>0, <1>3 DEF MakeDirectory, Shapes, OnProcs, Fit
<1>5. CASE Goto(p, "check") /\ UNCHANGED <<choice, seen>>
  <2>1. Only(p)
    BY <1>0, <1>2, <1>5 DEF Goto, Only, Shapes, OnProcs, choice
  <2>2. pc'[p] = "check" /\ Skeleton' = Skeleton
    BY <1>0, <1>2, <1>5 DEF Goto, Shapes, OnProcs, Skeleton
  <2>3. Fit(p)'
    BY <1>0, <1>2, <1>5, <2>2 DEF Fit, Labels, choice
  <2> QED
    BY <2>1, <2>3, <1>1, OneFits
<1>6. CASE Accept(p) \/ Reject(p)
  BY <1>0, <1>1, <1>2, <1>4, <1>6, ResolutionFits, OneFits
<1> QED
  BY <1>5, <1>6 DEF MakeDirectory

LEMMA MoveTypes ==
  ASSUME TypeInv, NEW t \in Removals, Move(t)
  PROVE  TypeInv'
<1>0. Tree /\ Shapes /\ Fit(t) /\ pc[t] = "move" /\ t \in Procs
  BY DEF TypeInv, Move, Procs
<1>1. Tree' /\ UNCHANGED <<setting, jobs, asked, choice>>
  BY <1>0 DEF Move, Tree, tree, items
<1>2. Only(t) /\ pc'[t] \in {"check", "rename"} /\ seen'[t] = {}
  BY <1>0, <1>1 DEF Move, Goto, Only, Shapes, OnProcs, choice
<1>3. Fit(t)'
  BY <1>0, <1>1, <1>2 DEF Fit, Labels, choice, Skeleton
<1> QED
  BY <1>0, <1>1, <1>2, <1>3, OneFits

LEMMA RenameTypes ==
  ASSUME TypeInv, NEW t \in Removals, Rename(t)
  PROVE  TypeInv'
<1>0. Tree /\ Shapes /\ Fit(t) /\ pc[t] = "rename" /\ t \in Procs
  BY DEF TypeInv, Rename, Procs
<1>1. UNCHANGED <<setting, tree, jobs, asked, choice, meddling>>
  BY DEF Rename
<1>2. Only(t) /\ pc'[t] \in {"done", "failed"} /\ seen'[t] = {}
  BY <1>0, <1>1 DEF Rename, Goto, Only, Shapes, OnProcs, choice
<1>3. Fit(t)'
  BY <1>0, <1>1, <1>2 DEF Fit, Labels, choice, Skeleton
<1>4. Choice(t) \in Root
  BY <1>0, ChoiceIs
<1>5. Tree'
  BY <1>0, <1>1, <1>4 DEF Rename, Tree, tree, items
<1> QED
  BY <1>0, <1>2, <1>3, <1>5, OneFits

LEMMA SelectionIs ==
  ASSUME NEW T \in SUBSET Removals, NEW ts \in SetToAllKPermutations(T) \ {<<>>}
  PROVE  /\ ts \in Seq(Removals) /\ Len(ts) \in Nat \ {0}
         /\ \A j \in 1 .. Len(ts) : ts[j] \in T
<1>1. PICK s \in SUBSET T : ts \in SetToSeqs(s)
  BY DEF SetToAllKPermutations
<1>2. Cardinality(s) \in Nat
  BY FS_Subset, FS_CardinalityType, RootsAssumption
<1>3. ts \in [1 .. Cardinality(s) -> s]
  BY <1>1 DEF SetToSeqs
<1>4. ts \in Seq(s) /\ Len(ts) = Cardinality(s)
  BY <1>2, <1>3
<1>5. ts \in Seq(Removals) /\ Len(ts) \in Nat /\ \A j \in 1 .. Len(ts) : ts[j] \in T
  BY <1>3, <1>4
<1>6. Len(ts) # 0
  BY <1>5
<1> QED
  BY <1>5, <1>6

LEMMA SelectTypes ==
  ASSUME TypeInv, NEW u \in Purges, Select(u)
  PROVE  TypeInv'
<1>0. Tree /\ Shapes /\ Fit(u) /\ pc[u] = "idle" /\ u \in Procs
  BY DEF TypeInv, Select, Procs
<1>1. UNCHANGED <<setting, tree, items, asked, choice, meddling, seen>>
  BY DEF Select
<1>2. PICK ts \in SetToAllKPermutations({t \in Removals : place[t] \in Root}) \ {<<>>} :
          jobs' = [jobs EXCEPT ![u] = ts]
  BY DEF Select
<1>3. ts \in Seq(Removals) /\ Len(ts) \in Nat \ {0}
  BY SelectionIs
<1>4. Only(u) /\ pc'[u] = "resolve" /\ jobs'[u] = ts
  BY <1>0, <1>1, <1>2 DEF Select, Goto, Only, Shapes, OnProcs, choice
<1>5. asked'[u] = <<>> /\ Len(asked'[u]) = 0
  BY <1>0, <1>1 DEF Fit
<1>6. Fit(u)'
  BY <1>0, <1>1, <1>3, <1>4, <1>5 DEF Fit, Labels, choice
<1>7. Tree'
  BY <1>0, <1>1 DEF Tree, tree, items
<1> QED
  BY <1>0, <1>4, <1>6, <1>7, OneFits

LEMMA PurgeTypes ==
  ASSUME TypeInv, NEW u \in Purges, Purge(u)
  PROVE  TypeInv'
<1>0. Tree /\ Shapes /\ Fit(u) /\ u \in Procs
  BY DEF TypeInv, Procs
<1>1. UNCHANGED <<setting, tree, again, jobs, asked, choice, meddling, seen>>
  BY DEF Purge
<1>2. Only(u) /\ pc'[u] \in {"done", "refused"}
  BY <1>0, <1>1 DEF Purge, Goto, Only, Shapes, OnProcs, choice
<1>3. Fit(u)'
  BY <1>0, <1>1, <1>2 DEF Fit, Labels, choice
<1>4. Tree'
  BY <1>0, <1>1 DEF Purge, Tree, tree
<1> QED
  BY <1>0, <1>2, <1>3, <1>4, OneFits

(* The steps of nobody's command. *)
LEMMA OthersType ==
  ASSUME TypeInv, Meddle \/ \E t \in Removals : Recreate(t)
  PROVE  TypeInv'
<1>0. Tree /\ Shapes /\ UNCHANGED <<setting, pc, jobs, asked, choice, seen>>
  BY DEF TypeInv, Meddle, Recreate
<1>1. ASSUME NEW p \in Procs PROVE Fit(p)'
  BY <1>0 DEF TypeInv, Fit, choice, Skeleton
<1>2. Shapes'
  BY <1>0 DEF Shapes, choice
<1>3. CASE \E t \in Removals : Recreate(t)
  <2>1. Tree'
    BY <1>0, <1>3 DEF Recreate, Tree, tree
  <2> QED
    BY <1>1, <1>2, <2>1 DEF TypeInv
<1>4. CASE Meddle
  <2>1. meddling' \in 0 .. MaxMeddling
    BY <1>0, <1>4, RootsAssumption DEF Meddle, Tree
  <2>2. /\ sticky' \in [Device -> {"none", "sticky", "plain", "other"}]
        /\ dir' \in [Root -> [Part -> Kinds]]
    <3>1. \A k \in Kinds : Whole(k) \in [Part -> Kinds]
      BY DEF Whole
    <3>2. "none" \in Kinds /\ "root" \in Part
      BY DEF Kinds, Part
    <3>3. ASSUME NEW root \in Root, NEW x \in Part, NEW kind \in Kinds,
                 dir' = [dir EXCEPT ![root] = IF x = "root" /\ ~Exists(kind)
                    THEN [Whole("none") EXCEPT !["root"] = kind] ELSE [@ EXCEPT ![x] = kind]]
          PROVE  dir' \in [Root -> [Part -> Kinds]]
      <4>1. [Whole("none") EXCEPT !["root"] = kind] \in [Part -> Kinds]
        BY <3>1, <3>2
      <4>2. [dir[root] EXCEPT ![x] = kind] \in [Part -> Kinds]
        BY <1>0 DEF Tree
      <4> QED
        BY <1>0, <3>3, <4>1, <4>2 DEF Tree
    <3>4. ASSUME NEW d \in Device, NEW kind,
                 dir' = (IF kind \in {"none", "other"}
                         THEN [dir EXCEPT ![Admin(d)] = Whole("none")] ELSE dir)
          PROVE  dir' \in [Root -> [Part -> Kinds]]
      BY <1>0, <3>1, <3>2, <3>4, RootIs DEF Tree
    <3>5. dir' \in [Root -> [Part -> Kinds]]
      BY <1>4, <3>3, <3>4 DEF Meddle
    <3>6. sticky' \in [Device -> {"none", "sticky", "plain", "other"}]
      BY <1>0, <1>4 DEF Meddle, Tree
    <3> QED
      BY <3>5, <3>6
  <2>3. place' \in [Removals -> {Source, Gone} \cup Root]
    BY <1>0, <1>4 DEF Meddle, Emptied, Tree
  <2>4. Tree'
    BY <1>0, <1>4, <2>1, <2>2, <2>3 DEF Meddle, Tree
  <2> QED
    BY <1>1, <1>2, <2>4 DEF TypeInv
<1> QED
  BY <1>3, <1>4

LEMMA InitTypes == Init => TypeInv
<1> SUFFICES ASSUME Init PROVE TypeInv
  OBVIOUS
<1>1. \A k \in Kinds : Whole(k) \in [Part -> Kinds]
  BY DEF Whole
<1>2. Before \subseteq [Part -> Kinds]
  <2>1. {"none", "good", "theirs", "other"} \subseteq Kinds /\ "info" \in Part
    BY DEF Kinds, Part
  <2>2. [Whole("good") EXCEPT !["info"] = "other"] \in [Part -> Kinds]
    BY <1>1, <2>1
  <2> QED
    BY <1>1, <2>1, <2>2 DEF Before
<1>3. Tree
  BY <1>2, RootsAssumption DEF Init, Tree
<1>4. Shapes
  BY DEF Init, Shapes, OnProcs
<1>5. ASSUME NEW p \in Procs PROVE Fit(p)
  <2>1. /\ pc[p] = (IF p \in Removals THEN "resolve" ELSE "idle")
        /\ jobs[p] = (IF p \in Removals THEN <<p>> ELSE <<>>)
        /\ asked[p] = <<>> /\ cands[p] = <<>> /\ part[p] = 1 /\ roots[p] = {} /\ seen[p] = {}
    BY DEF Init
  <2>2. pc[p] \in {"resolve", "idle"} /\ jobs[p] \in Seq(Removals)
    BY <2>1
  <2>3. pc[p] = "resolve" => Len(asked[p]) < Len(jobs[p])
    BY <2>1
  <2>4. Len(asked[p]) <= Len(jobs[p])
    BY <2>1
  <2> QED
    BY <2>1, <2>2, <2>3, <2>4 DEF Fit, Labels
<1> QED
  BY <1>3, <1>4, <1>5 DEF TypeInv

LEMMA TypeStep == TypeInv /\ [Next]_vars => TypeInv'
<1> SUFFICES ASSUME TypeInv, [Next]_vars PROVE TypeInv'
  OBVIOUS
<1>1. CASE \E p \in Procs : Resolve(p) \/ CheckDirectory(p) \/ MakeDirectory(p)
  BY <1>1, ResolveTypes, CheckTypes, MakeTypes
<1>2. CASE \E t \in Removals : Move(t) \/ Rename(t)
  BY <1>2, MoveTypes, RenameTypes
<1>3. CASE \E u \in Purges : Select(u) \/ Purge(u)
  BY <1>3, SelectTypes, PurgeTypes
<1>4. CASE Meddle \/ \E t \in Removals : Recreate(t)
  BY <1>4, OthersType
<1>5. CASE UNCHANGED vars
  <2>1. Tree' /\ Shapes'
    BY <1>5 DEF TypeInv, Tree, Shapes, vars, tree, items, choice, OnProcs
  <2>2. \A p \in Procs : Fit(p)'
    BY <1>5 DEF TypeInv, Fit, vars, tree, items, choice, Skeleton
  <2> QED
    BY <2>1, <2>2 DEF TypeInv
<1> QED
  BY <1>1, <1>2, <1>3, <1>4, <1>5 DEF Next

(* Every variable keeps its type, in every run of Spec. *)
THEOREM TypeAlways == Spec => []TypeInv
<1>1. Init => TypeInv
  BY InitTypes
<1>2. TypeInv /\ [Next]_vars => TypeInv'
  BY TypeStep
<1> QED
  BY <1>1, <1>2, PTL DEF Spec

THEOREM TypeCorrect == Spec => []TypeOK
<1>1. TypeInv => TypeOK
  BY TypeInvIsTypeOK
<1> QED
  BY <1>1, TypeAlways, PTL
-----------------------------------------------------------------------------
(* The steps of one command, seen from the others. *)
Steps(p) ==
    \/ Resolve(p) \/ CheckDirectory(p) \/ MakeDirectory(p)
    \/ p \in Removals /\ (Move(p) \/ Rename(p))
    \/ p \in Purges /\ (Select(p) \/ Purge(p))

LEMMA StepsAre == [Next]_vars =>
    \/ \E p \in Procs : Steps(p)
    \/ Meddle \/ (\E t \in Removals : Recreate(t)) \/ UNCHANGED vars
BY DEF Next, Steps, Procs

LEMMA StepsOnly ==
  ASSUME TypeInv, NEW p \in Procs, Steps(p)
  PROVE  Only(p)
<1>0. Shapes
  BY DEF TypeInv
<1>1. CASE Resolve(p)
  <2>1. OnProcs(pc') /\ OnProcs(jobs') /\ OnProcs(asked') /\ OnProcs(cands')
        /\ OnProcs(part') /\ OnProcs(roots') /\ OnProcs(seen')
    BY <1>0, <1>1 DEF Resolve, NoRoot, Goto, Shapes, OnProcs
  <2> QED
    BY <1>0, <1>1, <2>1 DEF Resolve, NoRoot, Goto, Shapes, Only, OnProcs
<1>2. CASE CheckDirectory(p)
  <2>1. pc[p] = "check" /\ OnProcs(seen') /\ \A q \in Procs \ {p} : seen'[q] = seen[q]
    BY <1>0, <1>2 DEF CheckDirectory, Shapes, OnProcs
  <2>2. UNCHANGED <<setting, jobs, asked>>
    BY <1>2 DEF CheckDirectory
  <2>3. CASE Goto(p, "make") /\ UNCHANGED choice
    BY <1>0, <2>1, <2>2, <2>3 DEF Goto, Only, Shapes, OnProcs, choice
  <2>4. CASE Accept(p) \/ Reject(p)
    BY <1>0, <2>1, <2>2, <2>4, ResolutionIs DEF Only, Shapes, OnProcs, Resolved
  <2> QED
    BY <1>2, <2>3, <2>4 DEF CheckDirectory
<1>3. CASE MakeDirectory(p)
  <2>1. pc[p] = "make" /\ OnProcs(seen') /\ \A q \in Procs \ {p} : seen'[q] = seen[q]
    BY <1>0, <1>3 DEF MakeDirectory, Shapes, OnProcs
  <2>2. UNCHANGED <<setting, jobs, asked>>
    BY <1>3 DEF MakeDirectory
  <2>3. CASE Goto(p, "check") /\ UNCHANGED choice
    BY <1>0, <2>1, <2>2, <2>3 DEF Goto, Only, Shapes, OnProcs, choice
  <2>4. CASE Accept(p) \/ Reject(p)
    BY <1>0, <2>1, <2>2, <2>4, ResolutionIs DEF Only, Shapes, OnProcs, Resolved
  <2> QED
    BY <1>3, <2>3, <2>4 DEF MakeDirectory
<1>4. CASE Move(p) \/ Rename(p)
  BY <1>0, <1>4 DEF Move, Rename, Goto, Only, Shapes, OnProcs, choice
<1>5. CASE Select(p) \/ Purge(p)
  BY <1>0, <1>5 DEF Select, Purge, Goto, Only, Shapes, OnProcs, choice
<1> QED
  BY <1>1, <1>2, <1>3, <1>4, <1>5 DEF Steps

(* On Linux a removal that is being moved has found the directories it has *)
(* behind it private, outside the home trash; and at its rename all.       *)
Behind(t, n) == \A j \in 1 .. n : <<Choice(t), Skeleton[j]>> \in seen[t]
Checked(t) ==
    Linux =>
    /\ pc[t] = "move" => part[t] = 1
    /\ pc[t] \in {"check", "make"} /\ roots[t] # {} /\ Choice(t) # Home => Behind(t, part[t] - 1)
    /\ pc[t] = "rename" /\ Choice(t) # Home => Behind(t, Len(Skeleton))
Found == \A t \in Removals : Checked(t)

LEMMA CheckedElse ==
  ASSUME NEW p \in Procs, Only(p), NEW t \in Removals \ {p}, Checked(t)
  PROVE  Checked(t)'
<1>1. /\ pc'[t] = pc[t] /\ part'[t] = part[t] /\ roots'[t] = roots[t]
      /\ seen'[t] = seen[t] /\ cands'[t] = cands[t] /\ setting' = setting
  BY DEF Only, Procs
<1>2. /\ Skeleton' = Skeleton /\ Linux' = Linux /\ Choice(t)' = Choice(t)
  BY <1>1 DEF Skeleton, Linux, Choice
<1> QED
  BY <1>1, <1>2 DEF Checked, Behind

LEMMA CheckedAccept ==
  ASSUME TypeInv, NEW t \in Removals, Checked(t), pc[t] \in {"check", "make"},
         Accept(t), setting' = setting, seen[t] \subseteq seen'[t],
         Linux /\ Choice(t) # Home => Path(t) \in seen'[t]
  PROVE  Checked(t)'
<1> SUFFICES ASSUME Linux PROVE Checked(t)'
  BY DEF Checked, Linux
<1>1. /\ t \in Procs /\ Fit(t) /\ ~Custom /\ FirstLook = "check" /\ Skeleton' = Skeleton
  BY DEF Procs, TypeInv, Linux, Custom, FirstLook, Skeleton
<1>2. /\ part[t] \in 1 .. Len(Skeleton) /\ Path(t) = <<Choice(t), Skeleton[part[t]]>>
  BY <1>1, PathIs DEF Named
<1>3. /\ Len(Skeleton) \in Nat /\ Len(Skeleton) \in {2, 3}
  BY SkeletonIs
<1>4. ASSUME roots[t] # {}, Choice(t) # Home, NEW j \in 1 .. part[t]
      PROVE  <<Choice(t), Skeleton[j]>> \in seen'[t]
  <2>1. CASE j = part[t]
    BY <1>2, <1>4, <2>1
  <2>2. CASE j \in 1 .. part[t] - 1
    BY <1>4, <2>2 DEF Checked, Behind
  <2> QED
    BY <1>2, <1>3, <2>1, <2>2
<1>5. CASE /\ part[t] < Len(Skeleton)
           /\ part'[t] = part[t] + 1 /\ pc'[t] = FirstLook
           /\ cands'[t] = cands[t] /\ roots'[t] = roots[t]
  <2>1. Choice(t)' = Choice(t) /\ part'[t] - 1 = part[t]
    BY <1>2, <1>3, <1>5 DEF Choice
  <2> QED
    BY <1>1, <1>4, <1>5, <2>1 DEF Checked, Behind
<1>6. CASE /\ ~ (part[t] < Len(Skeleton))
           /\ part'[t] = 1 /\ cands'[t] = cands[t] /\ roots'[t] = roots[t] \cup {Choice(t)}
           /\ pc'[t] = (IF Moving(t) THEN "rename" ELSE IF t \in Removals THEN "move"
                        ELSE IF Len(asked[t]) < Len(jobs[t]) THEN "resolve" ELSE "purge")
  <2>1. Choice(t)' = Choice(t) /\ part[t] = Len(Skeleton)
    BY <1>2, <1>3, <1>6 DEF Choice
  <2>2. pc'[t] = (IF roots[t] # {} THEN "rename" ELSE "move")
    BY <1>6 DEF Moving
  <2> QED
    BY <1>1, <1>4, <1>6, <2>1, <2>2 DEF Checked, Behind
<1> QED
  BY <1>1, <1>5, <1>6, AcceptIs

LEMMA CheckedReject ==
  ASSUME TypeInv, NEW t \in Removals, Reject(t)
  PROVE  Checked(t)'
<1>1. t \in Procs /\ FirstLook \in {"check", "make"}
  BY DEF Procs, FirstLook
<1>2. CASE part'[t] = 1 /\ pc'[t] = FirstLook
  <2>1. \A j \in 1 .. part'[t] - 1 : FALSE
    BY <1>2
  <2> QED
    BY <1>1, <1>2, <2>1 DEF Checked, Behind
<1>3. CASE pc'[t] = "failed"
  BY <1>3 DEF Checked
<1> QED
  BY <1>1, <1>2, <1>3, RejectIs

LEMMA CheckedOwn ==
  ASSUME TypeInv, NEW t \in Removals, Checked(t), Steps(t)
  PROVE  Checked(t)'
<1>0. t \in Procs /\ Shapes /\ Fit(t)
  BY DEF TypeInv, Procs
<1>1. setting' = setting /\ Linux' = Linux /\ Skeleton' = Skeleton
  BY <1>0, StepsOnly DEF Only, Linux, Skeleton
<1>2. CASE Resolve(t)
  <2>1. \/ pc'[t] = "failed" \/ (pc'[t] \in {"check", "make"} /\ part'[t] = 1)
    BY <1>0, <1>2 DEF Resolve, NoRoot, Goto, Shapes, OnProcs, FirstLook
  <2>2. CASE pc'[t] = "failed"
    BY <2>2 DEF Checked
  <2>3. CASE pc'[t] \in {"check", "make"} /\ part'[t] = 1
    <3>1. \A j \in 1 .. part'[t] - 1 : FALSE
      BY <2>3
    <3> QED
      BY <2>3, <3>1 DEF Checked, Behind
  <2> QED
    BY <2>1, <2>2, <2>3
<1>3. ASSUME pc[t] \in {"check", "make"}, pc'[t] \in {"check", "make"}, UNCHANGED <<choice, seen>>
      PROVE  Checked(t)'
  BY <1>0, <1>1, <1>3 DEF Checked, Behind, choice, Choice
<1>4. CASE CheckDirectory(t)
  <2>0. pc[t] = "check" /\ seen[t] \subseteq seen'[t]
    BY <1>0, <1>4 DEF CheckDirectory, Shapes, OnProcs
  <2>1. ASSUME Linux, Choice(t) # Home, Acceptable(Path(t)) PROVE Kind(Path(t)) = "good"
    BY <1>0, <2>0, <2>1, PathIs DEF Acceptable
  <2>2. CASE Goto(t, "make") /\ UNCHANGED <<choice, seen>>
    BY <1>0, <1>3, <2>0, <2>2 DEF Goto, Shapes, OnProcs
  <2>3. CASE /\ Accept(t) /\ Acceptable(Path(t))
             /\ seen' = [seen EXCEPT ![t] = IF Kind(Path(t)) = "good" THEN @ \cup {Path(t)} ELSE @]
    <3>1. Kind(Path(t)) = "good" => Path(t) \in seen'[t]
      BY <1>0, <2>3 DEF Shapes, OnProcs
    <3> QED
      BY <1>1, <2>0, <2>1, <2>3, <3>1, CheckedAccept
  <2> QED
    BY <1>4, <2>2, <2>3, CheckedReject DEF CheckDirectory
<1>5. CASE MakeDirectory(t)
  <2>0. pc[t] = "make" /\ seen[t] \subseteq seen'[t]
    BY <1>0, <1>5 DEF MakeDirectory, Shapes, OnProcs
  <2>1. CASE Goto(t, "check") /\ UNCHANGED <<choice, seen>>
    BY <1>0, <1>3, <2>0, <2>1 DEF Goto, Shapes, OnProcs
  <2>2. CASE Accept(t) /\ seen' = [seen EXCEPT ![t] = @ \cup {Path(t)}]
    <3>1. Path(t) \in seen'[t]
      BY <1>0, <2>2 DEF Shapes, OnProcs
    <3> QED
      BY <1>1, <2>0, <2>2, <3>1, CheckedAccept
  <2> QED
    BY <1>5, <2>1, <2>2, CheckedReject DEF MakeDirectory
<1>6. CASE Move(t)
  <2>1. /\ pc[t] = "move" /\ pc'[t] = (IF Linux THEN "check" ELSE "rename")
        /\ part'[t] = part[t]
    BY <1>0, <1>6 DEF Move, Goto, Shapes, OnProcs, choice
  <2>2. Linux => \A j \in 1 .. part'[t] - 1 : FALSE
    BY <2>1 DEF Checked
  <2> QED
    BY <1>1, <2>1, <2>2 DEF Checked, Behind
<1>7. CASE Rename(t)
  BY <1>0, <1>7 DEF Rename, Goto, Shapes, OnProcs, Checked
<1>8. CASE t \in Purges
  BY <1>8, RootsAssumption
<1> QED
  BY <1>2, <1>4, <1>5, <1>6, <1>7, <1>8 DEF Steps

LEMMA FoundStep == TypeInv /\ Found /\ [Next]_vars => Found'
<1> SUFFICES ASSUME TypeInv, Found, [Next]_vars, NEW t \in Removals PROVE Checked(t)'
  BY DEF Found
<1>0. Checked(t) /\ t \in Procs
  BY DEF Found, Procs
<1>1. ASSUME NEW p \in Procs, Steps(p) PROVE Checked(t)'
  <2>1. CASE p = t
    BY <1>0, <1>1, <2>1, CheckedOwn
  <2>2. CASE p # t
    BY <1>0, <1>1, <2>2, StepsOnly, CheckedElse
  <2> QED
    BY <2>1, <2>2
<1>2. ASSUME UNCHANGED <<setting, pc, choice, seen>> PROVE Checked(t)'
  BY <1>0, <1>2 DEF Checked, Behind, choice, Choice, Linux, Skeleton
<1>3. CASE Meddle \/ (\E r \in Removals : Recreate(r)) \/ UNCHANGED vars
  <2>1. UNCHANGED <<setting, pc, choice, seen>>
    BY <1>3 DEF Meddle, Recreate, vars, choice
  <2> QED
    BY <1>2, <2>1
<1> QED
  BY <1>1, <1>3, StepsAre

(* Outside the home trash an item only goes where the Ensure of its own    *)
(* Move found each directory private.                                      *)
THEOREM PrivateAlways == Spec => PrivateWhenMoved
<1> DEFINE Step == \A t \in Removals :
        Linux /\ place[t] = Source /\ place'[t] \in Root \ {Home} =>
            \A x \in Part : <<place'[t], x>> \in seen[t]
<1>1. Init => Found
  <2> SUFFICES ASSUME Init, NEW t \in Removals PROVE Checked(t)
    BY DEF Found
  <2>1. pc[t] = "resolve"
    BY DEF Init, Procs
  <2> QED
    BY <2>1 DEF Checked
<1>2. TypeInv /\ Found /\ [Next]_vars => Step
  <2> SUFFICES ASSUME TypeInv, Found, [Next]_vars, NEW t \in Removals,
                      Linux, place[t] = Source, place'[t] \in Root \ {Home}, NEW x \in Part
               PROVE  <<place'[t], x>> \in seen[t]
    BY DEF Step
  <2>0. Tree /\ Checked(t) /\ place'[t] # place[t] /\ place'[t] # Gone /\ t \in Procs
    BY RootsAssumption DEF TypeInv, Found, Root, Home, Source, Gone, Procs
  <2>1. Rename(t)
    <3>1. ASSUME NEW p \in Procs, Steps(p) PROVE Rename(t)
      <4>1. CASE Resolve(p) \/ CheckDirectory(p) \/ MakeDirectory(p) \/ Move(p) \/ Select(p)
        BY <2>0, <4>1 DEF Resolve, CheckDirectory, MakeDirectory, Move, Select, items
      <4>2. CASE Purge(p)
        BY <2>0, <4>2 DEF Purge
      <4>3. CASE p \in Removals /\ Rename(p)
        BY <2>0, <4>3 DEF Rename, items, Tree
      <4> QED
        BY <3>1, <4>1, <4>2, <4>3 DEF Steps
    <3>2. CASE Meddle
      BY <2>0, <3>2 DEF Meddle, Emptied
    <3>3. CASE (\E r \in Removals : Recreate(r)) \/ UNCHANGED vars
      BY <2>0, <3>3 DEF Recreate, vars, items
    <3> QED
      BY <3>1, <3>2, <3>3, StepsAre
  <2>2. pc[t] = "rename" /\ place'[t] = Choice(t)
    BY <2>0, <2>1 DEF Rename, items, Tree
  <2>3. Behind(t, Len(Skeleton))
    BY <2>0, <2>2 DEF Checked
  <2>4. \E j \in 1 .. Len(Skeleton) : Skeleton[j] = x
    <3>1. Skeleton = <<"root", "files", "info">>
      BY DEF Linux, Skeleton
    <3> QED
      BY <3>1 DEF Part
  <2> QED
    BY <2>2, <2>3, <2>4 DEF Behind
<1>3. Init => TypeInv
  BY InitTypes
<1>4. TypeInv /\ [Next]_vars => TypeInv'
  BY TypeStep
<1>5. TypeInv /\ Found /\ [Next]_vars => Found'
  BY FoundStep
<1>6. TypeInv /\ Found /\ [Next]_vars => [Step]_vars
  BY <1>2
<1>7. Spec => [][Step]_vars
  <2> HIDE DEF Step
  <2> QED
    BY <1>1, <1>3, <1>4, <1>5, <1>6, PTL DEF Spec
<1> QED
  BY <1>7 DEF PrivateWhenMoved, Step
-----------------------------------------------------------------------------
(***************************************************************************)
(* What holds of Roots while only commands change the trash directories,   *)
(* for any number of them: CompetitionIsHarmless and PurgeFindsItsRoot.    *)
(* Nothing is ever taken away then, so what a command has found in order   *)
(* stays so, and a root that was rejected for what is in it stays bad: the *)
(* first root that will do is the same for every command and every time.   *)
(***************************************************************************)
(* While nobody else interferes (Calm) directories are only made.          *)

At(r, j) == <<r, Skeleton[j]>>
Sound(x) == Kind(x) # "none" /\ Acceptable(x)
Spoilt(x) == Kind(x) # "none" /\ ~Acceptable(x)

(* Every directory of the root is in order; one of them never will be.     *)
Fine(r) == \A j \in 1 .. Len(Skeleton) : Sound(At(r, j))
Bad(r) == \E j \in 1 .. Len(Skeleton) : Spoilt(At(r, j))

(* The first root for file system d that is not Bad is its i-th, and Fine. *)
Destination(d, i) ==
    /\ i \in 1 .. Len(Candidates(d)) /\ Fine(Candidates(d)[i])
    /\ \A j \in 1 .. i - 1 : Bad(Candidates(d)[j])

Asked(p) == asked[p][Len(asked[p])]

(* The roots p has still to try are the last ones of its candidates, those *)
(* before them are Bad.                                                    *)
Remain(c, s, k) ==
    /\ Len(s) + k = Len(c) /\ \A i \in 1 .. Len(s) : s[i] = c[i + k]
    /\ \A j \in 1 .. k : Bad(c[j])
Tried(p) == \E k \in 0 .. 3 : Remain(Candidates(Asked(p)), cands[p], k)

(* A pass over the roots: what it has behind it is in order, and what it   *)
(* is about to make is missing, or was just made by another.               *)
Passing(p) ==
    /\ pc[p] \in {"check", "make", "move", "rename"} =>
         asked[p] # <<>> /\ (Asked(p) \in Device \/ Custom) /\ Tried(p)
    /\ pc[p] \in {"check", "make"} => \A j \in 1 .. part[p] - 1 : Sound(At(Choice(p), j))
    /\ pc[p] \in {"move", "rename"} => Fine(Choice(p))
    /\ pc[p] \in {"check", "make"} /\ Moving(p) => Fine(Choice(p)) /\ pc[p] = "check" /\ Linux
    /\ pc[p] = "make" /\ ~Custom => Kind(Path(p)) \in {"none", Fresh(DeviceOf(Choice(p)))}
    /\ pc[p] = "check" /\ Custom => Kind(Path(p)) # "none"

(* No root of its candidates will do for t. *)
Unfit(t, r) == DeviceOf(r) # On[t] \/ DeviceOf(r) \in Modeless \/ Bad(r)

Removing(t) ==
    /\ jobs[t] = <<t>> /\ pc[t] \notin {"idle", "purge", "refused"}
    /\ pc[t] = "resolve" => asked[t] = <<>> /\ roots[t] = {}
    /\ pc[t] # "resolve" => asked[t] = <<On[t]>>
    /\ pc[t] # "done" => place[t] = Source
    /\ place[t] = Source => again[t] = On[t]
    /\ place[t] # Source =>
         \E i \in 1 .. 3 : Destination(On[t], i) /\ place[t] \in {Candidates(On[t])[i], Gone}
    /\ pc[t] = "failed" =>
         \A i \in 1 .. Len(Candidates(On[t])) : Unfit(t, Candidates(On[t])[i])

(* As long as u has found each item on the file system it came from, the   *)
(* jobs that are done have the roots of their items.                       *)
Right(u) == \A j \in 1 .. Len(asked[u]) : asked[u][j] = On[jobs[u][j]]
Covered(u, n) == \A j \in 1 .. n : place[jobs[u][j]] \in roots[u] \cup {Gone}
Purging(u) ==
    /\ \A j \in 1 .. Len(jobs[u]) : place[jobs[u][j]] # Source
    /\ pc[u] \notin {"move", "rename", "failed"}
    /\ Right(u) =>
         /\ pc[u] = "resolve" => Covered(u, Len(asked[u]))
         /\ pc[u] \in {"check", "make"} => Covered(u, Len(asked[u]) - 1)
         /\ pc[u] = "purge" => Covered(u, Len(jobs[u])) /\ Len(asked[u]) = Len(jobs[u])
         /\ pc[u] = "make" /\ ~Custom => Bad(Choice(u))
         /\ pc[u] # "refused"

CalmInv ==
    Calm =>
    /\ \A p \in Procs : Passing(p)
    /\ \A t \in Removals : Removing(t)
    /\ \A u \in Purges : Purging(u)
-----------------------------------------------------------------------------
(* What a step does to directories and items when nobody interferes.       *)
Grew(r, x) ==
    dir'[r][x] = dir[r][x] \/ (dir[r][x] = "none" /\ dir'[r][x] = Fresh(DeviceOf(r)))
Ages(t) ==
    \/ place'[t] = place[t] /\ (place[t] = Source => again'[t] = again[t])
    \/ place[t] = Source /\ place'[t] \in Root /\ pc[t] = "rename" /\ pc'[t] = "done"
    \/ place[t] \in Root /\ place'[t] = Gone
Quiet ==
    /\ setting' = setting
    /\ \A d \in Device : sticky'[d] = "sticky" <=> sticky[d] = "sticky"
    /\ \A r \in Root : \A x \in Part : Grew(r, x)
    /\ \A t \in Removals : Ages(t)

LEMMA SettingStays ==
  ASSUME setting' = setting
  PROVE  /\ Skeleton' = Skeleton /\ Linux' = Linux /\ Custom' = Custom /\ FilesDir' = FilesDir
         /\ FirstLook' = FirstLook
BY DEF Skeleton, Linux, Custom, FilesDir, FirstLook

LEMMA CandidatesStay ==
  ASSUME Quiet, NEW d, d \in Device \/ Custom
  PROVE  Candidates(d)' = Candidates(d)
BY SettingStays DEF Quiet, Candidates, LinuxRoots, DarwinRoots, Linux, Custom

LEMMA SoundStays ==
  ASSUME Quiet, NEW r \in Root, NEW j \in 1 .. Len(Skeleton)
  PROVE  /\ Sound(At(r, j)) => Sound(At(r, j))'
         /\ Spoilt(At(r, j)) => Spoilt(At(r, j))'
         /\ Kind(At(r, j)) # "none" => Kind(At(r, j))' # "none"
<1>1. Skeleton[j] \in Part
  BY SkeletonIs
<1>2. Grew(r, Skeleton[j]) /\ Skeleton' = Skeleton /\ Linux' = Linux
  BY <1>1, SettingStays DEF Quiet
<1>3. Kind(At(r, j)) = dir[r][Skeleton[j]] /\ At(r, j)[1] = r
      /\ Kind(At(r, j))' = dir'[r][Skeleton[j]] /\ At(r, j)'[1] = r
  BY <1>2 DEF Kind, At
<1> QED
  BY <1>2, <1>3 DEF Sound, Spoilt, Acceptable, Grew, Fresh

LEMMA FineStays ==
  ASSUME Quiet, NEW r \in Root
  PROVE  (Fine(r) => Fine(r)') /\ (Bad(r) => Bad(r)')
BY SoundStays, SettingStays DEF Quiet, Fine, Bad

LEMMA FineIsNotBad == ASSUME NEW r PROVE ~ (Fine(r) /\ Bad(r))
BY DEF Fine, Bad, Sound, Spoilt

(* The lists of candidates: all but the last are roots outside the home    *)
(* trash on the file system asked for.                                     *)
LEMMA CandidatesFacts ==
  ASSUME TypeInv, NEW d, d \in Device \/ Custom
  PROVE  /\ Candidates(d) \in Seq(Root) /\ Len(Candidates(d)) \in 1 .. 3
         /\ \A i \in 1 .. Len(Candidates(d)) :
              /\ Candidates(d)[i] \in Root
              /\ i < Len(Candidates(d)) =>
                   Linux /\ Candidates(d)[i] # Home /\ DeviceOf(Candidates(d)[i]) = d
              /\ Candidates(d)[i][1] = "admin" =>
                   sticky[DeviceOf(Candidates(d)[i])] = "sticky"
<1>1. CASE Candidates(d) = <<Home>>
  BY <1>1, RootIs DEF Home
<1>2. CASE d \in Device /\ Candidates(d) = <<Own(d)>>
  BY <1>2, RootIs DEF Own
<1>3. CASE d \in Device /\ Linux /\ Candidates(d) = <<Own(d), Home>>
  BY <1>3, RootIs DEF Own, Home, DeviceOf
<1>4. CASE d \in Device /\ Linux /\ sticky[d] = "sticky" /\ Candidates(d) = <<Admin(d), Own(d), Home>>
  BY <1>4, RootIs DEF Admin, Own, Home, DeviceOf
<1> QED
  BY <1>1, <1>2, <1>3, <1>4 DEF Candidates, LinuxRoots, DarwinRoots

(* A MakeDirectory that makes: what is there stays, what is missing is     *)
(* made fresh.                                                             *)
LEMMA MakingIs ==
  ASSUME TypeInv, NEW p \in Procs, pc[p] = "make", Passing(p), ~Barred(Path(p)),
         dir' = [dir EXCEPT ![Path(p)[1]] = Made(Path(p))]
  PROVE  /\ \A r \in Root : \A x \in Part : Grew(r, x)
         /\ dir'[Choice(p)][Named(p)] # "none"
         /\ ~Custom => dir'[Choice(p)][Named(p)] = Fresh(DeviceOf(Choice(p)))
<1> DEFINE r == Choice(p)
           q == Named(p)
<1>0. Tree
  BY DEF TypeInv
<1>1. /\ r \in Root /\ q \in Part /\ Path(p) = <<r, q>> /\ Kind(Path(p)) = dir[r][q]
  BY PathIs
<1>2. dir \in [Root -> [Part -> Kinds]]
  BY <1>0 DEF Tree
<1>3. ~Custom => dir[r][q] \in {"none", Fresh(DeviceOf(r))}
  BY <1>1 DEF Passing
<1> HIDE DEF r, q
<1>4. ~Barred(<<r, q>>) /\ dir' = [dir EXCEPT ![r] = Made(<<r, q>>)]
  BY <1>1
<1>5. /\ \A s \in Root \ {r} : dir'[s] = dir[s]
      /\ \A x \in Part : Becomes(r, x) /\ (x # q => dir'[r][x] = dir[r][x] \/ dir[r][x] = "none")
      /\ Custom => \A x \in Part : dir'[r][x] = dir[r][x] \/ dir[r][x] = "none"
      /\ dir'[r][q] # "none"
      /\ ~Custom /\ dir[r][q] # "theirs" => dir'[r][q] = Fresh(DeviceOf(r))
  BY <1>1, <1>2, <1>4, MadeIs
<1>6. Fresh(DeviceOf(r)) \in {"open", "good"}
  BY DEF Fresh
<1>7. ~Custom => dir'[r][q] = Fresh(DeviceOf(r))
  BY <1>3, <1>5, <1>6
<1>8. ASSUME NEW x \in Part PROVE Grew(r, x)
  BY <1>3, <1>5, <1>7, <1>8 DEF Grew, Becomes
<1>9. ASSUME NEW s \in Root, NEW x \in Part PROVE Grew(s, x)
  BY <1>5, <1>8 DEF Grew
<1> QED
  BY <1>5, <1>7, <1>9 DEF r, q

LEMMA CalmBefore ==
  ASSUME TypeInv, [Next]_vars, Calm'
  PROVE  Calm /\ ~Meddle
<1>1. meddling \in Nat /\ meddling' = 0
  BY RootsAssumption DEF TypeInv, Tree, Calm
<1>2. meddling' = meddling \/ meddling' = meddling + 1
  BY DEF Next, Resolve, CheckDirectory, MakeDirectory, Move, Rename, Recreate, Select, Purge,
         Meddle, vars
<1> QED
  BY <1>1, <1>2 DEF Meddle, Calm

LEMMA QuietStep ==
  ASSUME TypeInv, CalmInv, [Next]_vars, Calm'
  PROVE  Calm /\ Quiet
<1>0. /\ Calm /\ ~Meddle /\ Tree
      /\ (\A p \in Procs : Passing(p)) /\ (\A t \in Removals : Removing(t))
  BY CalmBefore DEF CalmInv, TypeInv
<1>1. ASSUME UNCHANGED <<setting, tree>>, \A t \in Removals : Ages(t) PROVE Quiet
  BY <1>1 DEF Quiet, tree, Grew
<1>2. UNCHANGED items => \A t \in Removals : Ages(t)
  BY DEF Ages, items
<1>3. CASE UNCHANGED <<setting, tree, items>>
  BY <1>0, <1>1, <1>2, <1>3
<1>4. ASSUME NEW p \in Procs, MakeDirectory(p) PROVE Quiet
  <2>1. setting' = setting /\ \A t \in Removals : Ages(t)
    BY <1>2, <1>4 DEF MakeDirectory
  <2>2. CASE UNCHANGED tree
    BY <1>1, <2>1, <2>2
  <2>3. CASE /\ ~Barred(Path(p)) /\ dir' = [dir EXCEPT ![Path(p)[1]] = Made(Path(p))]
             /\ sticky' = [d \in Device |->
                    IF Path(p)[1] = Admin(d) /\ sticky[d] = "none" THEN "plain" ELSE sticky[d]]
    <3>1. pc[p] = "make" /\ Passing(p)
      BY <1>0, <1>4 DEF MakeDirectory
    <3>2. \A r \in Root : \A x \in Part : Grew(r, x)
      BY <2>3, <3>1, MakingIs
    <3>3. \A d \in Device : sticky'[d] = "sticky" <=> sticky[d] = "sticky"
      BY <2>3
    <3> QED
      BY <2>1, <3>2, <3>3 DEF Quiet
  <2> QED
    BY <1>4, <2>2, <2>3 DEF MakeDirectory
<1>5. ASSUME NEW t \in Removals, Rename(t) PROVE Quiet
  <2>1. /\ pc[t] = "rename" /\ Choice(t) \in Root /\ place[t] = Source /\ UNCHANGED <<setting, tree>>
    <3>1. t \in Procs /\ Fit(t) /\ pc[t] = "rename" /\ Removing(t)
      BY <1>0, <1>5 DEF Procs, TypeInv, Rename
    <3> QED
      BY <1>5, <3>1, ChoiceIs DEF Removing, Rename
  <2>2. \/ UNCHANGED items
        \/ /\ place' = [place EXCEPT ![t] = Choice(t)] /\ again' = [again EXCEPT ![t] = None]
           /\ pc'[t] = "done"
    BY <1>5 DEF Rename, items, Goto, TypeInv, Shapes, OnProcs, Procs
  <2>3. ASSUME NEW s \in Removals PROVE Ages(s)
    BY <1>0, <2>1, <2>2 DEF Ages, items, Tree
  <2> QED
    BY <1>1, <2>1, <2>3
<1>6. ASSUME NEW t \in Removals, Recreate(t) PROVE Quiet
  <2>1. place[t] \in Root /\ place[t] # Source /\ place' = place
    BY <1>6 DEF Recreate, Root, Home, Source
  <2>2. \A s \in Removals \ {t} : again'[s] = again[s]
    BY <1>0, <1>6 DEF Recreate, Tree
  <2>3. UNCHANGED <<setting, tree>>
    BY <1>6 DEF Recreate
  <2> QED
    BY <1>1, <2>1, <2>2, <2>3 DEF Ages
<1>7. ASSUME NEW u \in Purges, Purge(u) PROVE Quiet
  <2>1. /\ place' = [t \in Removals |->
            IF t \in ToSet(jobs[u]) /\ place[t] \in roots[u] THEN Gone ELSE place[t]]
        /\ again' = again /\ roots[u] \subseteq Root /\ UNCHANGED <<setting, tree>>
    BY <1>7 DEF Purge, TypeInv, Fit, Procs
  <2>2. \A s \in Removals : Ages(s)
    BY <2>1 DEF Ages
  <2> QED
    BY <1>1, <2>1, <2>2
<1>8. CASE \E p \in Procs : Resolve(p) \/ CheckDirectory(p)
  BY <1>3, <1>8 DEF Resolve, CheckDirectory
<1>9. CASE (\E t \in Removals : Move(t)) \/ (\E u \in Purges : Select(u)) \/ UNCHANGED vars
  BY <1>3, <1>9 DEF Move, Select, vars
<1> QED
  BY <1>0, <1>4, <1>5, <1>6, <1>7, <1>8, <1>9 DEF Next
-----------------------------------------------------------------------------
(* What the steps of others leave of a command. *)
Same(q) ==
    /\ pc'[q] = pc[q] /\ jobs'[q] = jobs[q] /\ asked'[q] = asked[q]
    /\ cands'[q] = cands[q] /\ part'[q] = part[q] /\ roots'[q] = roots[q]

LEMMA TriedStays ==
  ASSUME TypeInv, Quiet, NEW p \in Procs, cands'[p] = cands[p], asked'[p] = asked[p],
         Asked(p) \in Device \/ Custom, Tried(p)
  PROVE  Tried(p)'
<1>1. PICK k \in 0 .. 3 : Remain(Candidates(Asked(p)), cands[p], k)
  BY DEF Tried
<1>2. /\ Len(Candidates(Asked(p))) \in 1 .. 3
      /\ \A i \in 1 .. Len(Candidates(Asked(p))) : Candidates(Asked(p))[i] \in Root
  BY CandidatesFacts
<1>3. Candidates(Asked(p))' = Candidates(Asked(p))
  <2>1. PICK d : d = Asked(p)
    OBVIOUS
  <2>2. Asked(p)' = d
    BY <2>1 DEF Asked
  <2>3. Candidates(d)' = Candidates(d)
    BY <2>1, CandidatesStay
  <2> QED
    BY <2>1, <2>2, <2>3
<1>4. Len(cands[p]) \in Nat
  BY DEF TypeInv, Fit
<1>5. \A j \in 1 .. k : j \in 1 .. Len(Candidates(Asked(p)))
  BY <1>1, <1>2, <1>4 DEF Remain
<1>6. \A j \in 1 .. k : Bad(Candidates(Asked(p))[j])'
  BY <1>1, <1>2, <1>3, <1>5, FineStays DEF Remain
<1>7. Remain(Candidates(Asked(p)), cands[p], k)'
  BY <1>1, <1>3, <1>6 DEF Remain
<1> QED
  BY <1>7 DEF Tried

LEMMA PassingStays ==
  ASSUME TypeInv, Quiet, NEW p \in Procs, Same(p), Passing(p)
  PROVE  Passing(p)'
<1>0. Fit(p) /\ Skeleton' = Skeleton /\ Linux' = Linux /\ Custom' = Custom
  BY SettingStays DEF TypeInv, Quiet
<1>1. Choice(p)' = Choice(p) /\ Asked(p)' = Asked(p) /\ Moving(p)' = Moving(p)
      /\ Path(p)' = Path(p)
  BY <1>0 DEF Same, Choice, Asked, Moving, Path
<1>2. CASE pc[p] \in {"check", "make", "move", "rename"}
  <2>1. asked'[p] # <<>> /\ (Asked(p)' \in Device \/ Custom') /\ Tried(p)'
    BY <1>0, <1>1, <1>2, TriedStays DEF Same, Passing
  <2>2. Choice(p) \in Root
    BY <1>0, <1>2, ChoiceIs
  <2>3. ASSUME pc[p] \in {"check", "make"}, NEW j \in 1 .. part[p] - 1
        PROVE  Sound(At(Choice(p), j))'
    <3>1. j \in 1 .. Len(Skeleton) /\ Sound(At(Choice(p), j))
      BY <1>0, <2>3, SkeletonIs DEF Passing, Fit
    <3> QED
      BY <1>1, <2>2, <3>1, SoundStays
  <2>4. Fine(Choice(p)) => Fine(Choice(p))'
    BY <1>1, <2>2, FineStays
  <2>5. ASSUME pc[p] \in {"check", "make"}
        PROVE  /\ pc[p] = "make" /\ ~Custom =>
                    Kind(Path(p))' \in {"none", Fresh(DeviceOf(Choice(p)))}
               /\ pc[p] = "check" /\ Custom => Kind(Path(p))' # "none"
    <3>1. Named(p) \in Part /\ Path(p) = <<Choice(p), Named(p)>>
      BY <2>5, PathIs
    <3>2. Kind(Path(p)) = dir[Choice(p)][Named(p)] /\ Kind(Path(p))' = dir'[Choice(p)][Named(p)]
      BY <1>1, <3>1 DEF Kind
    <3>3. Grew(Choice(p), Named(p))
      BY <2>2, <3>1 DEF Quiet
    <3> QED
      BY <2>5, <3>2, <3>3 DEF Passing, Grew, Fresh
  <2>6. /\ pc'[p] = pc[p] /\ part'[p] = part[p]
    BY DEF Same
  <2>7. pc[p] \in {"move", "rename"} => Fine(Choice(p))'
    BY <2>4 DEF Passing
  <2>8. pc[p] \in {"check", "make"} /\ Moving(p) => Fine(Choice(p))' /\ pc[p] = "check" /\ Linux
    BY <2>4 DEF Passing
  <2>9. Fresh(DeviceOf(Choice(p)))' = Fresh(DeviceOf(Choice(p)))
    BY <1>1 DEF Fresh, DeviceOf
  <2> QED
    BY <1>0, <1>1, <2>1, <2>3, <2>5, <2>6, <2>7, <2>8, <2>9 DEF Passing
<1>3. CASE pc[p] \notin {"check", "make", "move", "rename"}
  BY <1>3 DEF Passing, Same
<1> QED
  BY <1>2, <1>3

LEMMA DestinationStays ==
  ASSUME TypeInv, Quiet, NEW d \in Device, NEW i, Destination(d, i)
  PROVE  Destination(d, i)' /\ Candidates(d)'[i] = Candidates(d)[i] /\ Candidates(d)[i] \in Root
<1>1. /\ Len(Candidates(d)) \in 1 .. 3 /\ Candidates(d)' = Candidates(d)
      /\ \A j \in 1 .. Len(Candidates(d)) : Candidates(d)[j] \in Root
  BY CandidatesFacts, CandidatesStay
<1>2. /\ i \in 1 .. Len(Candidates(d)) /\ Fine(Candidates(d)[i])
      /\ \A j \in 1 .. i - 1 : Bad(Candidates(d)[j])
  BY DEF Destination
<1>3. Fine(Candidates(d)[i])'
  BY <1>1, <1>2, FineStays
<1>4. ASSUME NEW j \in 1 .. i - 1 PROVE Bad(Candidates(d)[j])'
  <2>1. j \in 1 .. Len(Candidates(d))
    BY <1>1, <1>2
  <2> QED
    BY <1>1, <1>2, <2>1, FineStays
<1> QED
  BY <1>1, <1>2, <1>3, <1>4 DEF Destination

LEMMA UnfitStays ==
  ASSUME Quiet, NEW t, NEW r \in Root, Unfit(t, r)
  PROVE  Unfit(t, r)'
BY FineStays DEF Unfit

LEMMA RemovingStays ==
  ASSUME TypeInv, Quiet, NEW t \in Removals, Same(t), Removing(t)
  PROVE  Removing(t)'
<1>0. On[t] \in Device /\ Ages(t)
  BY RootsAssumption DEF Quiet
<1>1. /\ pc[t] # "done" => place'[t] = Source
      /\ place'[t] = Source => again'[t] = On[t]
  BY <1>0 DEF Ages, Removing, Same, Root, Home, Source, Gone
<1>2. ASSUME place'[t] # Source
      PROVE  \E i \in 1 .. 3 : Destination(On[t], i)' /\ place'[t] \in {Candidates(On[t])'[i], Gone}
  <2>1. place[t] # Source /\ place'[t] \in {place[t], Gone}
    BY <1>0, <1>2 DEF Ages, Same, Root, Home, Source
  <2>2. PICK i \in 1 .. 3 : Destination(On[t], i) /\ place[t] \in {Candidates(On[t])[i], Gone}
    BY <2>1 DEF Removing
  <2>3. Destination(On[t], i)' /\ Candidates(On[t])'[i] = Candidates(On[t])[i]
    BY <1>0, <2>2, DestinationStays
  <2> QED
    BY <2>1, <2>2, <2>3
<1>3. ASSUME pc[t] = "failed", NEW i \in 1 .. Len(Candidates(On[t])')
      PROVE  Unfit(t, Candidates(On[t])[i])'
  <2>1. Candidates(On[t])' = Candidates(On[t]) /\ Candidates(On[t])[i] \in Root
    BY <1>0, <1>3, CandidatesStay, CandidatesFacts
  <2>2. Unfit(t, Candidates(On[t])[i])
    BY <1>3, <2>1 DEF Removing
  <2> QED
    BY <2>1, <2>2, UnfitStays
<1> QED
  BY <1>1, <1>2, <1>3 DEF Removing, Same

LEMMA PurgingStays ==
  ASSUME TypeInv, Quiet, NEW u \in Purges, Same(u), Purging(u)
  PROVE  Purging(u)'
<1>0. u \in Procs /\ Fit(u) /\ Custom' = Custom
  BY SettingStays DEF TypeInv, Procs, Quiet
<1>1. \A j \in 1 .. Len(jobs[u]) : jobs[u][j] \in Removals
  BY <1>0 DEF Fit
<1>2. \A t \in Removals : place[t] # Source => place'[t] \in {place[t], Gone} /\ place'[t] # Source
  BY DEF Quiet, Ages, Source, Gone
<1>3. ASSUME NEW n \in Int, n <= Len(jobs[u]), Covered(u, n) PROVE Covered(u, n)'
  BY <1>0, <1>1, <1>2, <1>3 DEF Covered, Same, Purging, Fit
<1>4. Right(u)' = Right(u)
  BY DEF Right, Same
<1>5. Len(asked[u]) \in Nat /\ Len(jobs[u]) \in Nat /\ Len(asked[u]) <= Len(jobs[u])
  BY <1>0 DEF Fit
<1>6. /\ Len(asked[u]) \in Int /\ Len(jobs[u]) \in Int /\ Len(asked[u]) - 1 \in Int
      /\ Len(asked[u]) - 1 <= Len(jobs[u])
  BY <1>5
<1>7. pc[u] = "make" /\ Bad(Choice(u)) => Bad(Choice(u))'
  <2>1. pc[u] = "make" => Choice(u) \in Root
    BY <1>0, ChoiceIs
  <2> QED
    BY <2>1, FineStays DEF Same, Choice
<1>8. \A j \in 1 .. Len(jobs[u]) : place'[jobs[u][j]] # Source
  BY <1>1, <1>2 DEF Purging
<1>9. ASSUME Right(u)
      PROVE  /\ pc[u] = "resolve" => Covered(u, Len(asked[u]))'
             /\ pc[u] \in {"check", "make"} => Covered(u, Len(asked[u]) - 1)'
             /\ pc[u] = "purge" => Covered(u, Len(jobs[u]))' /\ Len(asked[u]) = Len(jobs[u])
             /\ pc[u] = "make" /\ ~Custom => Bad(Choice(u))'
             /\ pc[u] # "refused"
  <2>1. jobs'[u] = jobs[u] /\ asked'[u] = asked[u]
    BY DEF Same
  <2> QED
    BY <1>3, <1>5, <1>6, <1>7, <1>9, <2>1 DEF Purging
<1> QED
  BY <1>0, <1>4, <1>8, <1>9 DEF Purging, Same
-----------------------------------------------------------------------------
(* What the look at a directory, and the making of one, come to.           *)

LEMMA InHand ==
  ASSUME TypeInv, NEW p \in Procs, Passing(p), pc[p] \in {"check", "make"},
         NEW r, r = Choice(p), NEW j, j = part[p]
  PROVE  /\ r \in Root /\ j \in 1 .. Len(Skeleton) /\ Named(p) = Skeleton[j]
         /\ Path(p) = At(r, j) /\ Kind(At(r, j)) = dir[r][Named(p)]
         /\ r[1] = "admin" => sticky[DeviceOf(r)] = "sticky"
         /\ Len(cands[p]) > 1 => Linux /\ r # Home
<1>1. /\ r \in Root /\ j \in 1 .. Len(Skeleton) /\ Named(p) = Skeleton[j]
      /\ Path(p) = At(r, j) /\ Kind(At(r, j)) = dir[r][Named(p)]
  BY PathIs DEF Named, At, Kind, Path
<1>2. PICK k \in 0 .. 3 : Remain(Candidates(Asked(p)), cands[p], k)
  BY DEF Passing, Tried
<1>3. Asked(p) \in Device \/ Custom
  BY DEF Passing
<1>4. cands[p] \in Seq(Root) /\ cands[p] # <<>> /\ Len(cands[p]) \in Nat
  BY DEF TypeInv, Fit
<1>5. r = cands[p][1] /\ 1 \in 1 .. Len(cands[p])
  BY <1>4 DEF Choice
<1>6. r = Candidates(Asked(p))[1 + k] /\ 1 + k \in 1 .. Len(Candidates(Asked(p)))
      /\ (Len(cands[p]) > 1 => 1 + k < Len(Candidates(Asked(p))))
  BY <1>2, <1>4, <1>5 DEF Remain
<1>7. /\ Candidates(Asked(p))[1 + k][1] = "admin" =>
             sticky[DeviceOf(Candidates(Asked(p))[1 + k])] = "sticky"
      /\ 1 + k < Len(Candidates(Asked(p))) => Linux /\ Candidates(Asked(p))[1 + k] # Home
  BY <1>3, <1>6, CandidatesFacts
<1> QED
  BY <1>1, <1>6, <1>7

LEMMA CheckOutcome ==
  ASSUME TypeInv, NEW p \in Procs, Passing(p), CheckDirectory(p),
         NEW r, r = Choice(p), NEW j, j = part[p]
  PROVE  \/ /\ pc'[p] = "make" /\ cands'[p] = cands[p] /\ part'[p] = part[p]
            /\ roots'[p] = roots[p] /\ Kind(At(r, j)) = "none" /\ ~Custom
         \/ Accept(p) /\ Sound(At(r, j))
         \/ Reject(p) /\ Bad(r)
<1>0. pc[p] = "check" /\ OnProcs(pc)
  BY DEF CheckDirectory, TypeInv, Shapes
<1>1. /\ Path(p) = At(r, j) /\ j \in 1 .. Len(Skeleton)
  BY <1>0, InHand
<1>2. Spoilt(At(r, j)) => Bad(r)
  BY <1>1 DEF Bad
<1>3. Custom => Kind(At(r, j)) # "none"
  BY <1>0, <1>1 DEF Passing
<1> QED
  BY <1>0, <1>1, <1>2, <1>3 DEF CheckDirectory, Goto, OnProcs, choice, Sound, Spoilt

LEMMA MakeOutcome ==
  ASSUME TypeInv, NEW p \in Procs, Passing(p), MakeDirectory(p), Calm, Calm', Quiet,
         NEW r, r = Choice(p), NEW j, j = part[p]
  PROVE  \/ /\ pc'[p] = "check" /\ cands'[p] = cands[p] /\ part'[p] = part[p]
            /\ roots'[p] = roots[p] /\ Kind(At(r, j))' # "none" /\ Custom
         \/ Accept(p) /\ Sound(At(r, j))' /\ ~Custom
         \/ /\ Reject(p) /\ (Custom => Bad(r))
            /\ (Len(cands[p]) > 1 => Bad(r)') /\ (Bad(r)' \/ DeviceOf(r) \in Modeless)
<1>0. pc[p] = "make" /\ OnProcs(pc)
  BY DEF MakeDirectory, TypeInv, Shapes
<1>1. /\ r \in Root /\ j \in 1 .. Len(Skeleton) /\ Named(p) = Skeleton[j]
      /\ Path(p) = At(r, j) /\ Kind(At(r, j)) = dir[r][Named(p)]
      /\ r[1] = "admin" => sticky[DeviceOf(r)] = "sticky"
      /\ Len(cands[p]) > 1 => Linux /\ r # Home
  BY <1>0, InHand
<1>2. /\ Skeleton' = Skeleton /\ Linux' = Linux /\ Custom' = Custom /\ At(r, j)' = At(r, j)
  BY SettingStays DEF Quiet, At
<1>3. Kind(At(r, j))' = dir'[r][Named(p)] /\ At(r, j)[1] = r
  BY <1>1, <1>2 DEF Kind, At
<1>4. CASE Barred(Path(p)) /\ Reject(p)
  <2>1. Bad(r)
    <3>1. CASE Kind(At(r, j)) = "other"
      BY <1>1, <3>1 DEF Bad, Spoilt, Acceptable
    <3>2. CASE dir[r]["root"] = "other"
      <4>1. Skeleton[1] = "root" /\ 1 \in 1 .. Len(Skeleton)
        BY SkeletonIs DEF Skeleton
      <4>2. Kind(At(r, 1)) = "other"
        BY <3>2, <4>1 DEF Kind, At
      <4> QED
        BY <4>1, <4>2 DEF Bad, Spoilt, Acceptable
    <3> QED
      BY <1>1, <1>3, <1>4, <3>1, <3>2 DEF Barred
  <2>2. Bad(r)'
    BY <1>1, <2>1, FineStays
  <2> QED
    BY <1>4, <2>1, <2>2
<1>5. CASE ~Barred(Path(p)) /\ dir' = [dir EXCEPT ![Path(p)[1]] = Made(Path(p))]
  <2>1. /\ Kind(At(r, j))' # "none"
        /\ ~Custom => Kind(At(r, j))' = Fresh(DeviceOf(r))
    BY <1>0, <1>3, <1>5, MakingIs
  <2>2. ~Custom => Kind(Path(p)) # "theirs"
    BY <1>0 DEF Passing, Fresh
  <2>3. CASE Custom /\ Goto(p, "check") /\ UNCHANGED choice
    BY <1>0, <2>1, <2>3 DEF Goto, OnProcs, choice
  <2>4. CASE ~Custom /\ DeviceOf(Path(p)[1]) \notin Modeless /\ Accept(p)
    <3>1. Kind(At(r, j))' = "good"
      BY <1>1, <1>3, <2>1, <2>4 DEF Fresh
    <3> QED
      BY <2>4, <3>1 DEF Sound, Acceptable
  <2>5. CASE ~Custom /\ DeviceOf(Path(p)[1]) \in Modeless /\ Reject(p)
    <3>1. Kind(At(r, j))' = "open" /\ DeviceOf(r) \in Modeless
      BY <1>1, <1>3, <2>1, <2>5 DEF Fresh
    <3>2. ASSUME Len(cands[p]) > 1 PROVE Bad(r)'
      <4>1. Spoilt(At(r, j))'
        BY <1>1, <1>2, <1>3, <3>1, <3>2 DEF Spoilt, Acceptable, Home
      <4> QED
        BY <1>1, <1>2, <4>1 DEF Bad
    <3> QED
      BY <2>5, <3>1, <3>2
  <2> QED
    BY <1>5, <1>4, <2>2, <2>3, <2>4, <2>5 DEF MakeDirectory, Calm
<1> QED
  BY <1>4, <1>5 DEF MakeDirectory, Calm

LEMMA PassingAccept ==
  ASSUME TypeInv, NEW p \in Procs, Passing(p), pc[p] \in {"check", "make"}, Quiet, Accept(p),
         asked'[p] = asked[p], NEW r, r = Choice(p), NEW j, j = part[p], Sound(At(r, j))'
  PROVE  /\ Passing(p)' /\ Choice(p)' = r
         /\ pc'[p] \notin {"check", "make"} => Fine(r)'
<1>1. /\ r \in Root /\ j \in 1 .. Len(Skeleton) /\ Len(Skeleton) \in {2, 3}
  BY InHand, SkeletonIs
<1>2. /\ Skeleton' = Skeleton /\ Linux' = Linux /\ Custom' = Custom
  BY SettingStays DEF Quiet
<1>3. ASSUME NEW i \in 1 .. j PROVE Sound(At(r, i))'
  <2>1. i = j \/ i \in 1 .. part[p] - 1
    BY <1>1
  <2>2. i \in 1 .. Len(Skeleton)
    BY <1>1
  <2> QED
    BY <1>1, <2>1, <2>2, SoundStays DEF Passing
<1>4. cands'[p] = cands[p] /\ Choice(p)' = r
  BY AcceptIs DEF Choice
<1>5. asked'[p] # <<>> /\ (Asked(p)' \in Device \/ Custom) /\ Tried(p)'
  BY <1>2, <1>4, TriedStays DEF Passing, Asked
<1>6. CASE /\ part'[p] = part[p] + 1 /\ pc'[p] = FirstLook /\ roots'[p] = roots[p]
  <2>1. /\ Moving(p)' = Moving(p) /\ (Moving(p) => Fine(r)' /\ Linux)
    BY <1>1, <1>6, FineStays DEF Moving, Passing
  <2>2. pc'[p] = (IF Custom THEN "make" ELSE "check") /\ (Linux => ~Custom)
    BY <1>6 DEF FirstLook, Linux, Custom
  <2>3. \A i \in 1 .. part'[p] - 1 : Sound(At(r, i))'
    BY <1>1, <1>3, <1>6
  <2> QED
    BY <1>2, <1>4, <1>5, <2>1, <2>2, <2>3 DEF Passing
<1>7. CASE ~ (part[p] < Len(Skeleton)) /\ pc'[p] \in {"rename", "move", "resolve", "purge"}
  <2>1. j = Len(Skeleton)
    BY <1>1, <1>7
  <2>2. Fine(r)'
    BY <1>2, <1>3, <2>1 DEF Fine
  <2> QED
    BY <1>2, <1>4, <1>5, <1>7, <2>2 DEF Passing
<1> QED
  BY <1>4, <1>6, <1>7, AcceptIs

LEMMA PassingReject ==
  ASSUME TypeInv, NEW p \in Procs, Passing(p), pc[p] \in {"check", "make"}, Quiet, Reject(p),
         asked'[p] = asked[p], NEW r, r = Choice(p), Len(cands[p]) > 1 => Bad(r)'
  PROVE  Passing(p)'
<1>1. /\ Skeleton' = Skeleton /\ Linux' = Linux /\ Custom' = Custom
  BY SettingStays DEF Quiet
<1>2. CASE /\ Len(cands[p]) > 1 /\ ~Moving(p)
           /\ cands'[p] = Tail(cands[p]) /\ part'[p] = 1 /\ pc'[p] = FirstLook
           /\ roots'[p] = roots[p]
  <2>1. PICK k \in 0 .. 3 : Remain(Candidates(Asked(p)), cands[p], k)
    BY DEF Passing, Tried
  <2>2. /\ Len(Candidates(Asked(p))) \in 1 .. 3 /\ (Asked(p) \in Device \/ Custom)
        /\ \A i \in 1 .. Len(Candidates(Asked(p))) : Candidates(Asked(p))[i] \in Root
    BY CandidatesFacts DEF Passing
  <2>3. Candidates(Asked(p))' = Candidates(Asked(p))
    <3>1. PICK d : d = Asked(p)
      OBVIOUS
    <3>2. Asked(p)' = d
      BY <3>1 DEF Asked
    <3>3. Candidates(d)' = Candidates(d)
      BY <2>2, <3>1, CandidatesStay
    <3> QED
      BY <3>1, <3>2, <3>3
  <2>4. /\ cands[p] \in Seq(Root) /\ cands[p] # <<>> /\ Len(cands[p]) \in Nat
        /\ r = cands[p][1]
    BY DEF TypeInv, Fit, Choice
  <2>5. /\ Len(cands'[p]) = Len(cands[p]) - 1
        /\ \A i \in 1 .. Len(cands'[p]) : cands'[p][i] = cands[p][i + 1]
    <3>1. cands'[p] = Tail(cands[p])
      BY <1>2
    <3> QED
      BY <2>4, <3>1, HeadTailProperties
  <2>6. /\ Len(cands[p]) + k = Len(Candidates(Asked(p)))
        /\ \A i \in 1 .. Len(cands[p]) : cands[p][i] = Candidates(Asked(p))[i + k]
        /\ \A i \in 1 .. k : Bad(Candidates(Asked(p))[i])
    BY <2>1 DEF Remain
  <2>7. k + 1 \in 0 .. 3 /\ Len(cands'[p]) + (k + 1) = Len(Candidates(Asked(p)))
    <3>1. PICK n \in Nat, m \in 1 .. 3 :
              /\ n = Len(cands[p]) /\ m = Len(Candidates(Asked(p)))
              /\ n > 1 /\ n + k = m /\ Len(cands'[p]) = n - 1
      BY <1>2, <2>2, <2>4, <2>5, <2>6
    <3>2. n \in Nat /\ m \in 1 .. 3 /\ k \in 0 .. 3 /\ n > 1 /\ n + k = m
      BY <3>1
    <3>3. k + 1 \in 0 .. 3 /\ (n - 1) + (k + 1) = m
      BY ONLY <3>2
    <3> QED
      BY <3>1, <3>3
  <2>8. ASSUME NEW i \in 1 .. Len(cands'[p])
        PROVE  cands'[p][i] = Candidates(Asked(p))[i + (k + 1)]
    <3>1. i + 1 \in 1 .. Len(cands[p]) /\ (i + 1) + k = i + (k + 1)
      BY <2>4, <2>5
    <3> QED
      BY <2>5, <2>6, <3>1
  <2>9. ASSUME NEW i \in 1 .. k + 1 PROVE Bad(Candidates(Asked(p))[i])'
    <3>1. CASE i \in 1 .. k
      <4>1. Candidates(Asked(p))[i] \in Root
        BY <2>2, <2>4, <2>6, <3>1
      <4> QED
        BY <2>3, <2>6, <3>1, <4>1, FineStays
    <3>2. CASE i = k + 1
      <4>1. Candidates(Asked(p))[i] = r
        BY <2>4, <2>6, <3>2
      <4> QED
        BY <1>2, <2>3, <4>1
    <3> QED
      BY <3>1, <3>2
  <2>10. Remain(Candidates(Asked(p)), cands[p], k + 1)'
    BY <2>3, <2>7, <2>8, <2>9 DEF Remain
  <2>11. Tried(p)' /\ asked'[p] # <<>> /\ (Asked(p)' \in Device \/ Custom)
    BY <2>2, <2>7, <2>10 DEF Tried, Passing, Asked
  <2>12. Moving(p)' = Moving(p) /\ pc'[p] = (IF Custom THEN "make" ELSE "check")
    BY <1>2 DEF Moving, FirstLook
  <2>13. \A i \in 1 .. part'[p] - 1 : FALSE
    BY <1>2
  <2> QED
    BY <1>1, <1>2, <2>11, <2>12, <2>13 DEF Passing
<1>3. CASE pc'[p] \in {"failed", "purge"}
  BY <1>3 DEF Passing
<1> QED
  BY <1>2, <1>3, RejectIs

LEMMA PassingResolve ==
  ASSUME TypeInv, NEW p \in Procs, Resolve(p), Quiet, p \in Removals => roots[p] = {}
  PROVE  Passing(p)'
<1> DEFINE t == jobs[p][Len(asked[p]) + 1]
<1>0. Tree /\ Shapes /\ Fit(p) /\ pc[p] = "resolve"
  BY DEF TypeInv, Resolve
<1>1. PICK d : d = again[t]
  OBVIOUS
<1>2. t \in Removals /\ d \in Device \cup {None}
  BY <1>0, <1>1 DEF Fit, Tree
<1>3. OnProcs(asked') /\ asked'[p] = Append(asked[p], d)
  BY <1>0, <1>1 DEF Resolve, Shapes, OnProcs
<1>4. \/ pc'[p] \in {"failed", "purge"}
      \/ /\ d # None \/ Custom
         /\ pc'[p] = FirstLook /\ cands'[p] = Candidates(d) /\ part'[p] = 1
         /\ roots'[p] = roots[p]
  BY <1>0, <1>1 DEF Resolve, Shapes, OnProcs, NoRoot, Goto
<1>5. Asked(p)' = d /\ asked'[p] # <<>>
  <2>1. asked[p] \in Seq(Device \cup {None}) /\ Len(asked[p]) \in Nat
    BY <1>0 DEF Fit
  <2>2. /\ Len(asked'[p]) = Len(asked[p]) + 1 /\ asked'[p][Len(asked[p]) + 1] = d
        /\ asked'[p] # <<>>
    BY <1>2, <1>3, <2>1, AppendProperties
  <2> QED
    BY <2>2 DEF Asked
<1>6. CASE /\ d # None \/ Custom
           /\ pc'[p] = FirstLook /\ cands'[p] = Candidates(d) /\ part'[p] = 1
           /\ roots'[p] = roots[p]
  <2>0. Custom' = Custom
    BY SettingStays DEF Quiet
  <2>1. (d \in Device \/ Custom) /\ Candidates(d)' = Candidates(d) /\ Len(Candidates(d)) \in Nat
    BY <1>2, <1>6, CandidatesStay, CandidatesFacts
  <2>2. Candidates(Asked(p))' = Candidates(d)
    BY <1>5, <2>1
  <2>3. Remain(Candidates(Asked(p)), cands[p], 0)'
    BY <1>6, <2>1, <2>2 DEF Remain
  <2>4. Tried(p)'
    BY <2>3 DEF Tried
  <2>5. ~Moving(p)' /\ pc'[p] = (IF Custom THEN "make" ELSE "check")
    BY <1>6 DEF Moving, FirstLook
  <2>6. \A i \in 1 .. part'[p] - 1 : FALSE
    BY <1>6
  <2> QED
    BY <1>5, <2>0, <2>1, <2>4, <2>5, <2>6 DEF Passing
<1>7. CASE pc'[p] \in {"failed", "purge"}
  BY <1>7 DEF Passing
<1> QED
  BY <1>4, <1>6, <1>7

LEMMA CheckMakes ==
  ASSUME TypeInv, NEW p \in Procs, Passing(p), Quiet, asked'[p] = asked[p],
         pc[p] \in {"check", "make", "move"},
         cands'[p] = cands[p], part'[p] = part[p], roots'[p] = roots[p]
  PROVE  /\ asked'[p] # <<>> /\ (Asked(p)' \in Device \/ Custom') /\ Tried(p)'
         /\ Choice(p)' = Choice(p) /\ Path(p)' = Path(p) /\ Moving(p)' = Moving(p)
         /\ pc[p] # "move" => \A i \in 1 .. part'[p] - 1 : Sound(At(Choice(p), i))'
         /\ Fine(Choice(p)) => Fine(Choice(p))' /\ \A i \in 1 .. part'[p] : Sound(At(Choice(p), i))'
<1>0. Skeleton' = Skeleton /\ Custom' = Custom /\ part[p] \in 1 .. Len(Skeleton)
      /\ Choice(p) \in Root /\ Len(Skeleton) \in Nat
  BY SettingStays, PathIs, SkeletonIs DEF Quiet
<1>1. asked'[p] # <<>> /\ (Asked(p)' \in Device \/ Custom') /\ Tried(p)'
  BY <1>0, TriedStays DEF Passing, Asked
<1>2. Choice(p)' = Choice(p) /\ Path(p)' = Path(p) /\ Moving(p)' = Moving(p)
  BY <1>0 DEF Choice, Path, Moving
<1>3. ASSUME NEW i \in 1 .. part[p], Sound(At(Choice(p), i)) PROVE Sound(At(Choice(p), i))'
  <2>1. i \in 1 .. Len(Skeleton)
    BY <1>0
  <2> QED
    BY <1>0, <1>2, <1>3, <2>1, SoundStays
<1>4. ASSUME pc[p] # "move", NEW i \in 1 .. part[p] - 1 PROVE Sound(At(Choice(p), i))'
  <2>1. i \in 1 .. part[p]
    BY <1>0
  <2>2. Sound(At(Choice(p), i))
    BY <1>4 DEF Passing
  <2> QED
    BY <1>3, <2>1, <2>2
<1>5. ASSUME Fine(Choice(p)), NEW i \in 1 .. part[p] PROVE Sound(At(Choice(p), i))'
  <2>1. Sound(At(Choice(p), i))
    BY <1>0, <1>5 DEF Fine
  <2> QED
    BY <1>3, <2>1
<1>6. Fine(Choice(p)) => Fine(Choice(p))'
  BY <1>0, <1>2, FineStays
<1> QED
  BY <1>1, <1>2, <1>4, <1>5, <1>6

LEMMA PassingOwn ==
  ASSUME TypeInv, NEW p \in Procs, Passing(p), p \in Removals => Removing(p),
         Calm, Calm', Quiet, Steps(p)
  PROVE  Passing(p)'
<1>0. Shapes /\ Fit(p) /\ Custom' = Custom /\ Linux' = Linux /\ (Linux => ~Custom)
  BY SettingStays DEF TypeInv, Quiet, Linux, Custom
<1>1. CASE Resolve(p)
  BY <1>1, PassingResolve DEF Resolve, Removing
<1>2. CASE CheckDirectory(p)
  <2>0. pc[p] = "check" /\ asked'[p] = asked[p]
    BY <1>2 DEF CheckDirectory
  <2>1. PICK r, j : r = Choice(p) /\ j = part[p]
    OBVIOUS
  <2>2. r \in Root /\ j \in 1 .. Len(Skeleton) /\ Path(p) = At(r, j)
        /\ Named(p) \in Part /\ Named(p) = Skeleton[j]
    BY <2>0, <2>1, InHand, PathIs
  <2>3. CASE /\ pc'[p] = "make" /\ cands'[p] = cands[p] /\ part'[p] = part[p]
             /\ roots'[p] = roots[p] /\ Kind(At(r, j)) = "none" /\ ~Custom
    <3>1. ~Fine(r)
      BY <2>2, <2>3 DEF Fine, Sound
    <3>2. ~Moving(p)
      BY <2>0, <2>1, <3>1 DEF Passing
    <3>3. Choice(p)' = r /\ Path(p)' = Path(p) /\ Moving(p)' = Moving(p)
      BY <2>0, <2>1, <2>3, CheckMakes
    <3>4. dir[r][Named(p)] = "none" /\ Path(p) = <<r, Named(p)>>
      BY <2>2, <2>3 DEF Kind, At
    <3>5. Kind(Path(p))' \in {"none", Fresh(DeviceOf(r))}
      BY <2>2, <3>3, <3>4 DEF Kind, Quiet, Grew
    <3>6. Fresh(DeviceOf(Choice(p)))' = Fresh(DeviceOf(r))
      BY <3>3 DEF Fresh, DeviceOf
    <3>7. \A i \in 1 .. part'[p] - 1 : Sound(At(Choice(p), i))'
      BY <2>0, <2>3, CheckMakes
    <3>8. asked'[p] # <<>> /\ (Asked(p)' \in Device \/ Custom') /\ Tried(p)'
      BY <2>0, <2>3, CheckMakes
    <3> QED
      BY <1>0, <2>3, <3>2, <3>3, <3>5, <3>6, <3>7, <3>8 DEF Passing
  <2>4. CASE Accept(p) /\ Sound(At(r, j))
    BY <2>0, <2>1, <2>2, <2>4, SoundStays, PassingAccept
  <2>5. CASE Reject(p) /\ Bad(r)
    BY <2>0, <2>1, <2>2, <2>5, FineStays, PassingReject
  <2> QED
    BY <1>2, <2>1, <2>3, <2>4, <2>5, CheckOutcome
<1>3. CASE MakeDirectory(p)
  <2>0. pc[p] = "make" /\ asked'[p] = asked[p]
    BY <1>3 DEF MakeDirectory
  <2>1. PICK r, j : r = Choice(p) /\ j = part[p]
    OBVIOUS
  <2>2. r \in Root /\ j \in 1 .. Len(Skeleton) /\ Path(p) = At(r, j)
    BY <2>0, <2>1, InHand
  <2>3. CASE /\ pc'[p] = "check" /\ cands'[p] = cands[p] /\ part'[p] = part[p]
             /\ roots'[p] = roots[p] /\ Kind(At(r, j))' # "none" /\ Custom
    <3>1. ~Moving(p)
      BY <2>0 DEF Passing
    <3>2. Choice(p)' = r /\ Path(p)' = Path(p) /\ Moving(p)' = Moving(p)
      BY <2>0, <2>1, <2>3, CheckMakes
    <3>3. At(r, j)' = At(r, j)
      BY SettingStays DEF At, Quiet
    <3>4. Kind(Path(p))' # "none"
      BY <2>2, <2>3, <3>2, <3>3
    <3>5. \A i \in 1 .. part'[p] - 1 : Sound(At(Choice(p), i))'
      BY <2>0, <2>3, CheckMakes
    <3>6. asked'[p] # <<>> /\ (Asked(p)' \in Device \/ Custom') /\ Tried(p)'
      BY <2>0, <2>3, CheckMakes
    <3> QED
      BY <1>0, <2>3, <3>1, <3>2, <3>4, <3>5, <3>6 DEF Passing
  <2>4. CASE Accept(p) /\ Sound(At(r, j))'
    BY <2>0, <2>1, <2>4, PassingAccept
  <2>5. CASE Reject(p) /\ (Len(cands[p]) > 1 => Bad(r)')
    BY <2>0, <2>1, <2>5, PassingReject
  <2> QED
    BY <1>3, <2>1, <2>3, <2>4, <2>5, MakeOutcome
<1>4. CASE p \in Removals /\ Move(p)
  <2>1. /\ pc[p] = "move" /\ pc'[p] = (IF Linux THEN "check" ELSE "rename")
        /\ asked'[p] = asked[p] /\ cands'[p] = cands[p] /\ part'[p] = part[p] /\ roots'[p] = roots[p]
    BY <1>0, <1>4 DEF Move, Goto, Shapes, OnProcs, choice
  <2>2. Fine(Choice(p))
    BY <2>1 DEF Passing
  <2>3. /\ asked'[p] # <<>> /\ (Asked(p)' \in Device \/ Custom') /\ Tried(p)'
        /\ Choice(p)' = Choice(p) /\ Fine(Choice(p))'
    BY <2>1, <2>2, CheckMakes
  <2>4. \A i \in 1 .. part'[p] : Sound(At(Choice(p), i))'
    BY <2>1, <2>2, CheckMakes
  <2>5. part'[p] \in Nat /\ \A i \in 1 .. part'[p] - 1 : i \in 1 .. part'[p]
    BY <1>0, <2>1 DEF Fit
  <2> QED
    BY <1>0, <2>1, <2>3, <2>4, <2>5 DEF Passing
<1>5. CASE (p \in Removals /\ Rename(p)) \/ (p \in Purges /\ (Select(p) \/ Purge(p)))
  <2>1. pc'[p] \in {"done", "failed", "resolve", "refused"}
    BY <1>0, <1>5 DEF Rename, Select, Purge, Goto, Shapes, OnProcs
  <2> QED
    BY <2>1 DEF Passing
<1> QED
  BY <1>1, <1>2, <1>3, <1>4, <1>5 DEF Steps
-----------------------------------------------------------------------------
(* Where a command is among the candidates. *)

LEMMA Position ==
  ASSUME TypeInv, NEW p \in Procs, Passing(p), pc[p] \in {"check", "make", "move", "rename"},
         NEW d, d = Asked(p)
  PROVE  /\ d \in Device \/ Custom
         /\ \E k \in 0 .. 3 :
              /\ k + 1 \in 1 .. Len(Candidates(d)) /\ Candidates(d)[k + 1] = Choice(p)
              /\ Len(cands[p]) + k = Len(Candidates(d)) /\ Len(cands[p]) \in Nat
              /\ \A j \in 1 .. k : Bad(Candidates(d)[j])
<1>1. PICK k \in 0 .. 3 : Remain(Candidates(Asked(p)), cands[p], k)
  BY DEF Passing, Tried
<1>2. d \in Device \/ Custom
  BY DEF Passing
<1>3. cands[p] \in Seq(Root) /\ cands[p] # <<>> /\ Len(cands[p]) \in Nat
  BY DEF TypeInv, Fit
<1>4. Choice(p) = cands[p][1] /\ 1 \in 1 .. Len(cands[p])
  BY <1>3 DEF Choice
<1>5. Choice(p) = Candidates(d)[1 + k] /\ 1 + k \in 1 .. Len(Candidates(d))
      /\ Len(cands[p]) + k = Len(Candidates(d)) /\ \A j \in 1 .. k : Bad(Candidates(d)[j])
  BY <1>1, <1>3, <1>4 DEF Remain
<1>6. 1 + k = k + 1
  OBVIOUS
<1> QED
  BY <1>2, <1>3, <1>5, <1>6

LEMMA SkeletonHas ==
  /\ \E j \in 1 .. Len(Skeleton) : Skeleton[j] = "info"
  /\ \E j \in 1 .. Len(Skeleton) : Skeleton[j] = FilesDir
<1>1. CASE setting.platform = "darwin"
  <2>1. Skeleton = <<"root", "info">> /\ FilesDir = "root"
    BY <1>1 DEF Skeleton, FilesDir
  <2> QED
    BY <2>1
<1>2. CASE setting.platform # "darwin"
  <2>1. Skeleton = <<"root", "files", "info">> /\ FilesDir = "files"
    BY <1>2 DEF Skeleton, FilesDir
  <2> QED
    BY <2>1
<1> QED
  BY <1>1, <1>2

(* A removal that gives up after the last root: none would do.             *)
LEMMA NoneWouldDo ==
  ASSUME TypeInv, NEW t \in Removals, Passing(t), Quiet, asked[t] = <<On[t]>>,
         pc[t] \in {"check", "make", "move", "rename"},
         NEW r, r = Choice(t), Unfit(t, r)',
         Len(cands[t]) > 1 => DeviceOf(r) # On[t]
  PROVE  \A i \in 1 .. Len(Candidates(On[t])') : Unfit(t, Candidates(On[t])[i])'
<1>1. t \in Procs /\ On[t] \in Device /\ On[t] = Asked(t)
  BY RootsAssumption DEF Procs, Asked
<1>2. PICK k \in 0 .. 3 :
              /\ k + 1 \in 1 .. Len(Candidates(On[t])) /\ Candidates(On[t])[k + 1] = Choice(t)
              /\ Len(cands[t]) + k = Len(Candidates(On[t])) /\ Len(cands[t]) \in Nat
              /\ \A j \in 1 .. k : Bad(Candidates(On[t])[j])
  BY <1>1, Position
<1>3. /\ Candidates(On[t])' = Candidates(On[t]) /\ Len(Candidates(On[t])) \in 1 .. 3
      /\ \A i \in 1 .. Len(Candidates(On[t])) :
              /\ Candidates(On[t])[i] \in Root
              /\ i < Len(Candidates(On[t])) => DeviceOf(Candidates(On[t])[i]) = On[t]
  BY <1>1, CandidatesStay, CandidatesFacts
<1>4. ~ (Len(cands[t]) > 1)
  <2>1. Len(cands[t]) > 1 => k + 1 < Len(Candidates(On[t]))
    BY <1>2, <1>3
  <2> QED
    BY <1>2, <1>3, <2>1
<1>5. k + 1 = Len(Candidates(On[t]))
  BY <1>2, <1>3, <1>4
<1>6. ASSUME NEW i \in 1 .. Len(Candidates(On[t])) PROVE Unfit(t, Candidates(On[t])[i])'
  <2>1. CASE i \in 1 .. k
    <3>1. Candidates(On[t])[i] \in Root /\ Unfit(t, Candidates(On[t])[i])
      BY <1>2, <1>3, <1>6, <2>1 DEF Unfit
    <3> QED
      BY <1>3, <3>1, UnfitStays
  <2>2. CASE i = k + 1
    BY <1>2, <1>3, <2>2
  <2> QED
    BY <1>3, <1>5, <1>6, <2>1, <2>2
<1> QED
  BY <1>3, <1>6

LEMMA RenameOutcome ==
  ASSUME TypeInv, NEW t \in Removals, Passing(t), Removing(t), Quiet, Rename(t)
  PROVE  \/ /\ pc'[t] = "done" /\ place'[t] = Choice(t) /\ place'[t] \in Root
            /\ \E i \in 1 .. 3 : Destination(On[t], i)' /\ Candidates(On[t])'[i] = Choice(t)
         \/ /\ pc'[t] = "failed" /\ place'[t] = place[t] /\ again'[t] = again[t]
            /\ \A i \in 1 .. Len(Candidates(On[t])') : Unfit(t, Candidates(On[t])[i])'
<1>0. /\ t \in Procs /\ Tree /\ OnProcs(pc) /\ Fit(t) /\ pc[t] = "rename" /\ On[t] \in Device
      /\ asked[t] = <<On[t]>> /\ place[t] = Source /\ again[t] = On[t] /\ Fine(Choice(t))
      /\ Asked(t) = On[t]
  BY RootsAssumption DEF TypeInv, Shapes, Procs, Rename, Removing, Passing, Asked
<1>1. Choice(t) \in Root
  BY <1>0, ChoiceIs
<1>2. CASE /\ again[t] = DeviceOf(Choice(t)) /\ place' = [place EXCEPT ![t] = Choice(t)]
           /\ Goto(t, "done")
  <2>1. pc'[t] = "done" /\ place'[t] = Choice(t)
    BY <1>0, <1>2 DEF Goto, OnProcs, Tree
  <2>2. PICK k \in 0 .. 3 :
              /\ k + 1 \in 1 .. Len(Candidates(On[t])) /\ Candidates(On[t])[k + 1] = Choice(t)
              /\ \A j \in 1 .. k : Bad(Candidates(On[t])[j])
    BY <1>0, Position
  <2>3. Len(Candidates(On[t])) \in 1 .. 3
    BY <1>0, CandidatesFacts
  <2>4. Destination(On[t], k + 1) /\ k + 1 \in 1 .. 3
    BY <1>0, <2>2, <2>3 DEF Destination
  <2>5. Destination(On[t], k + 1)' /\ Candidates(On[t])'[k + 1] = Candidates(On[t])[k + 1]
    BY <1>0, <2>4, DestinationStays
  <2> QED
    BY <1>1, <2>1, <2>2, <2>4, <2>5
<1>3. CASE /\ ~ (/\ Exists(dir[Choice(t)]["info"]) /\ Exists(dir[Choice(t)][FilesDir])
                 /\ again[t] = DeviceOf(Choice(t)))
           /\ Goto(t, "failed") /\ UNCHANGED items
  <2>1. ASSUME NEW j \in 1 .. Len(Skeleton) PROVE Exists(dir[Choice(t)][Skeleton[j]])
    <3>1. Sound(At(Choice(t), j))
      BY <1>0 DEF Fine
    <3> QED
      BY <3>1 DEF Sound, Acceptable, Kind, At, Exists
  <2>2. On[t] # DeviceOf(Choice(t))
    BY <1>0, <1>3, <2>1, SkeletonHas
  <2>3. PICK r : r = Choice(t)
    OBVIOUS
  <2>4. Unfit(t, r)'
    BY <2>2, <2>3 DEF Unfit
  <2>5. \A i \in 1 .. Len(Candidates(On[t])') : Unfit(t, Candidates(On[t])[i])'
    BY <1>0, <2>2, <2>3, <2>4, NoneWouldDo
  <2>6. pc'[t] = "failed" /\ place'[t] = place[t] /\ again'[t] = again[t]
    BY <1>0, <1>3 DEF Goto, OnProcs, items
  <2> QED
    BY <2>5, <2>6
<1> QED
  BY <1>2, <1>3 DEF Rename

LEMMA RemovingOwn ==
  ASSUME TypeInv, NEW t \in Removals, Passing(t), Removing(t), Calm, Calm', Quiet, Steps(t)
  PROVE  Removing(t)'
<1>0. /\ t \in Procs /\ Shapes /\ Fit(t) /\ On[t] \in Device /\ jobs[t] = <<t>>
      /\ On[t] # None /\ FirstLook \in {"check", "make"}
  BY RootsAssumption DEF TypeInv, Procs, Removing, FirstLook
<1>1. ASSUME UNCHANGED items, jobs'[t] = jobs[t], asked'[t] = <<On[t]>>, pc[t] # "done",
             pc'[t] \in {"check", "make", "move", "rename"}
      PROVE  Removing(t)'
  BY <1>1 DEF Removing, items
<1>2. CASE Resolve(t)
  <2>1. pc[t] = "resolve" /\ asked[t] = <<>> /\ place[t] = Source /\ again[t] = On[t]
    BY <1>2 DEF Resolve, Removing
  <2>2. Len(asked[t]) = 0 /\ jobs[t][Len(asked[t]) + 1] = t
    BY <1>0, <2>1
  <2>3. asked'[t] = <<On[t]>> /\ pc'[t] = FirstLook /\ UNCHANGED <<items, jobs>>
    BY <1>0, <1>2, <2>1, <2>2 DEF Resolve, Goto, Shapes, OnProcs
  <2> QED
    BY <1>0, <1>1, <2>1, <2>3
<1>3. ASSUME CheckDirectory(t) \/ MakeDirectory(t) PROVE Removing(t)'
  <2>0. /\ pc[t] \in {"check", "make"} /\ UNCHANGED <<items, jobs>>
        /\ asked'[t] = <<On[t]>> /\ asked[t] = <<On[t]>> /\ place[t] = Source
    BY <1>3 DEF CheckDirectory, MakeDirectory, Removing
  <2>1. PICK r, j : r = Choice(t) /\ j = part[t]
    OBVIOUS
  <2>2. r \in Root
    BY <1>0, <2>0, <2>1, ChoiceIs
  <2>3. CASE pc'[t] \in {"check", "make"}
    BY <1>1, <2>0, <2>3
  <2>4. CASE Accept(t)
    <3>1. pc'[t] \in {"check", "make", "move", "rename"}
      BY <1>0, <2>4, AcceptIs
    <3> QED
      BY <1>1, <2>0, <3>1
  <2>5. ASSUME Reject(t), Moving(t) => ~Bad(r) /\ pc[t] = "check",
               (pc[t] = "check" /\ Bad(r)) \/ (pc[t] = "make" /\ (Bad(r)' \/ DeviceOf(r) \in Modeless))
        PROVE  Removing(t)'
    <3>1. CASE pc'[t] = FirstLook
      BY <1>0, <2>3, <3>1
    <3>2. CASE ~ (Len(cands[t]) > 1 /\ ~Moving(t)) /\ pc'[t] = "failed"
      <4>1. ~Moving(t)
        BY <2>5
      <4>2. Unfit(t, r)'
        BY <2>2, <2>5, FineStays DEF Unfit
      <4>3. \A i \in 1 .. Len(Candidates(On[t])') : Unfit(t, Candidates(On[t])[i])'
        BY <2>0, <2>1, <3>2, <4>1, <4>2, NoneWouldDo
      <4> QED
        BY <2>0, <3>2, <4>3 DEF Removing, items
    <3> QED
      BY <1>0, <2>5, <3>1, <3>2, RejectIs
  <2>6. CASE CheckDirectory(t)
    <3>1. pc[t] = "check" /\ (Moving(t) => Fine(r))
      BY <2>1, <2>6 DEF CheckDirectory, Passing
    <3>2. Moving(t) => ~Bad(r)
      BY <3>1, FineIsNotBad
    <3> QED
      BY <1>0, <2>1, <2>3, <2>4, <2>5, <2>6, <3>1, <3>2, CheckOutcome
  <2>7. CASE MakeDirectory(t)
    <3>1. pc[t] = "make" /\ ~Moving(t)
      BY <2>7 DEF MakeDirectory, Passing
    <3> QED
      BY <1>0, <2>1, <2>3, <2>4, <2>5, <2>7, <3>1, MakeOutcome
  <2> QED
    BY <1>3, <2>6, <2>7
<1>4. CASE Move(t)
  <2>1. pc[t] = "move" /\ pc'[t] \in {"check", "rename"} /\ UNCHANGED <<items, jobs, asked>>
    BY <1>0, <1>4 DEF Move, Goto, Shapes, OnProcs
  <2> QED
    BY <1>1, <2>1 DEF Removing
<1>5. CASE Rename(t)
  <2>0. /\ pc[t] = "rename" /\ UNCHANGED <<jobs, asked>> /\ asked[t] = <<On[t]>>
        /\ place[t] = Source /\ again[t] = On[t]
    BY <1>5 DEF Rename, Removing
  <2>1. CASE /\ pc'[t] = "done" /\ place'[t] = Choice(t) /\ place'[t] \in Root
             /\ \E i \in 1 .. 3 : Destination(On[t], i)' /\ Candidates(On[t])'[i] = Choice(t)
    <3>1. place'[t] # Source
      BY <2>1 DEF Root, Home, Source
    <3> QED
      BY <1>0, <2>0, <2>1, <3>1 DEF Removing
  <2>2. CASE /\ pc'[t] = "failed" /\ place'[t] = place[t] /\ again'[t] = again[t]
             /\ \A i \in 1 .. Len(Candidates(On[t])') : Unfit(t, Candidates(On[t])[i])'
    BY <1>0, <2>0, <2>2 DEF Removing
  <2> QED
    BY <1>0, <1>5, <2>1, <2>2, RenameOutcome
<1> QED
  BY <1>2, <1>3, <1>4, <1>5, RootsAssumption DEF Steps
-----------------------------------------------------------------------------
(* Purges *)

(* The root in hand is that of the item, or it is Bad and more are to come. *)
LEMMA Target ==
  ASSUME TypeInv, NEW u \in Purges, Passing(u), Purging(u), \A s \in Removals : Removing(s),
         Right(u), pc[u] \in {"check", "make"}, NEW r, r = Choice(u),
         NEW n, n = Len(asked[u])
  PROVE  /\ n \in 1 .. Len(jobs[u])
         /\ \/ Fine(r) /\ place[jobs[u][n]] \in {r, Gone}
            \/ Bad(r) /\ Len(cands[u]) > 1
<1>0. u \in Procs /\ Fit(u)
  BY DEF Procs, TypeInv
<1>1. asked[u] # <<>> /\ n \in Nat /\ n <= Len(jobs[u]) /\ n # 0
  BY <1>0 DEF Passing, Fit
<1>2. n \in 1 .. Len(jobs[u]) /\ n \in 1 .. Len(asked[u])
  BY <1>0, <1>1 DEF Fit
<1>3. PICK t \in Removals : t = jobs[u][n]
  BY <1>0, <1>2 DEF Fit
<1>4. Asked(u) = On[t] /\ On[t] \in Device /\ place[t] # Source
  BY <1>2, <1>3, RootsAssumption DEF Right, Asked, Purging
<1>5. PICK i \in 1 .. 3 : Destination(On[t], i) /\ place[t] \in {Candidates(On[t])[i], Gone}
  BY <1>3, <1>4 DEF Removing
<1>6. PICK k \in 0 .. 3 :
              /\ k + 1 \in 1 .. Len(Candidates(On[t])) /\ Candidates(On[t])[k + 1] = r
              /\ Len(cands[u]) + k = Len(Candidates(On[t])) /\ Len(cands[u]) \in Nat
              /\ \A j \in 1 .. k : Bad(Candidates(On[t])[j])
  BY <1>0, <1>4, Position
<1>7. /\ i \in 1 .. Len(Candidates(On[t])) /\ Fine(Candidates(On[t])[i])
      /\ \A j \in 1 .. i - 1 : Bad(Candidates(On[t])[j])
      /\ Len(Candidates(On[t])) \in 1 .. 3
  BY <1>4, <1>5, CandidatesFacts DEF Destination
<1>8. i \notin 1 .. k
  BY <1>6, <1>7, FineIsNotBad
<1>9. CASE i = k + 1
  BY <1>2, <1>3, <1>5, <1>6, <1>7, <1>9
<1>10. CASE k + 1 < i
  <2>1. k + 1 \in 1 .. i - 1
    BY <1>10
  <2>2. Bad(r)
    BY <1>6, <1>7, <2>1
  <2>3. Len(cands[u]) > 1
    BY <1>6, <1>7, <1>10
  <2> QED
    BY <1>2, <2>2, <2>3
<1> QED
  BY <1>8, <1>9, <1>10

LEMMA PurgingAccept ==
  ASSUME TypeInv, NEW u \in Purges, Passing(u), Purging(u), \A s \in Removals : Removing(s),
         Quiet, pc[u] \in {"check", "make"}, UNCHANGED <<items, jobs, asked>>,
         Accept(u), NEW r, r = Choice(u), NEW j, j = part[u], Sound(At(r, j))'
  PROVE  Purging(u)'
<1>0. u \in Procs /\ Fit(u) /\ Custom' = Custom /\ ~Moving(u) /\ u \notin Removals /\ r \in Root
  BY SettingStays, RootsAssumption, ChoiceIs DEF Procs, TypeInv, Quiet, Moving
<1>1. Right(u)' = Right(u) /\ jobs' = jobs /\ place' = place /\ asked' = asked
  BY DEF Right, items
<1>2. \A i \in 1 .. Len(jobs[u]) : place[jobs[u][i]] # Source
  BY DEF Purging
<1>3. Right(u) => Covered(u, Len(asked[u]) - 1)
  BY DEF Purging
<1>4. CASE /\ part[u] < Len(Skeleton) /\ pc'[u] = FirstLook /\ roots'[u] = roots[u]
  <2>1. pc'[u] = (IF Custom THEN "make" ELSE "check")
    BY <1>4 DEF FirstLook
  <2>2. Covered(u, Len(asked[u]) - 1) => Covered(u, Len(asked[u]) - 1)'
    BY <1>1, <1>4 DEF Covered
  <2> QED
    BY <1>0, <1>1, <1>2, <1>3, <2>1, <2>2 DEF Purging
<1>5. CASE /\ ~ (part[u] < Len(Skeleton))
           /\ roots'[u] = roots[u] \cup {Choice(u)}
           /\ pc'[u] = (IF Len(asked[u]) < Len(jobs[u]) THEN "resolve" ELSE "purge")
  <2>1. ASSUME Right(u) PROVE Covered(u, Len(asked[u]))'
    <3>1. Fine(r)' /\ ~Bad(r)
      <4>1. Fine(r)'
        BY <1>5, PassingAccept, <1>0
      <4>2. Bad(r) => Bad(r)'
        BY <1>0, FineStays
      <4>3. ~ (Fine(r)' /\ Bad(r)')
        BY DEF Fine, Bad, Sound, Spoilt
      <4> QED
        BY <4>1, <4>2, <4>3
    <3>2. PICK n : n = Len(asked[u])
      OBVIOUS
    <3>3. n \in 1 .. Len(jobs[u]) /\ place[jobs[u][n]] \in {r, Gone}
      BY <2>1, <3>1, <3>2, Target
    <3>4. \A i \in 1 .. n - 1 : place[jobs[u][i]] \in roots[u] \cup {Gone}
      BY <1>3, <2>1, <3>2 DEF Covered
    <3>5. \A i \in 1 .. n : i \in 1 .. n - 1 \/ i = n
      BY <3>3
    <3>6. \A i \in 1 .. n : place[jobs[u][i]] \in roots'[u] \cup {Gone}
      BY <1>5, <3>3, <3>4, <3>5
    <3> QED
      BY <1>1, <3>2, <3>6 DEF Covered
  <2>2. ~ (Len(asked[u]) < Len(jobs[u])) => Len(asked[u]) = Len(jobs[u])
    BY <1>0 DEF Fit
  <2> QED
    BY <1>0, <1>1, <1>2, <1>5, <2>1, <2>2 DEF Purging
<1>6. Resolved(u) /\ ~ (u \in Removals)
  BY <1>0, AcceptIs
<1> QED
  BY <1>0, <1>4, <1>5, AcceptIs

LEMMA PurgingReject ==
  ASSUME TypeInv, NEW u \in Purges, Passing(u), Purging(u), \A s \in Removals : Removing(s),
         Quiet, pc[u] \in {"check", "make"}, UNCHANGED <<items, jobs, asked>>,
         Reject(u), Right(u) => Bad(Choice(u))
  PROVE  Purging(u)'
<1>0. u \in Procs /\ Fit(u) /\ Custom' = Custom /\ ~Moving(u) /\ u \notin Removals
  BY SettingStays, RootsAssumption DEF Procs, TypeInv, Quiet, Moving
<1>1. Right(u)' = Right(u) /\ jobs' = jobs /\ place' = place /\ asked' = asked
  BY DEF Right, items
<1>2. \A i \in 1 .. Len(jobs[u]) : place[jobs[u][i]] # Source
  BY DEF Purging
<1>3. CASE pc'[u] = FirstLook /\ roots'[u] = roots[u]
  <2>1. pc'[u] = (IF Custom THEN "make" ELSE "check")
    BY <1>3 DEF FirstLook
  <2>2. Right(u) => Covered(u, Len(asked[u]) - 1)'
    BY <1>1, <1>3 DEF Covered, Purging
  <2> QED
    BY <1>0, <1>1, <1>2, <2>1, <2>2 DEF Purging
<1>4. CASE ~ (Len(cands[u]) > 1) /\ pc'[u] = "purge"
  <2>1. ~Right(u)
    <3> SUFFICES ASSUME Right(u) PROVE FALSE
      OBVIOUS
    <3>1. PICK r, n : r = Choice(u) /\ n = Len(asked[u])
      OBVIOUS
    <3>2. Fine(r) \/ Len(cands[u]) > 1
      BY <3>1, Target
    <3> QED
      BY <1>4, <3>1, <3>2, FineIsNotBad
  <2> QED
    BY <1>1, <1>2, <1>4, <2>1 DEF Purging
<1> QED
  BY <1>0, <1>3, <1>4, RejectIs

LEMMA PurgingLooks ==
  ASSUME TypeInv, NEW u \in Purges, Passing(u), Purging(u), \A s \in Removals : Removing(s),
         Calm, Calm', Quiet, CheckDirectory(u) \/ MakeDirectory(u)
  PROVE  Purging(u)'
<1>0. u \in Procs /\ Fit(u) /\ Custom' = Custom
  BY SettingStays DEF Procs, TypeInv, Quiet
<1>1. pc[u] \in {"check", "make"} /\ UNCHANGED <<items, jobs, asked>>
  BY DEF CheckDirectory, MakeDirectory
<1>2. PICK r, j : r = Choice(u) /\ j = part[u]
  OBVIOUS
<1>3. r \in Root /\ j \in 1 .. Len(Skeleton)
  BY <1>0, <1>1, <1>2, InHand
<1>4. ASSUME pc'[u] \in {"check", "make"}, cands'[u] = cands[u], roots'[u] = roots[u],
             pc'[u] = "make" /\ ~Custom /\ Right(u) => Bad(r)
      PROVE  Purging(u)'
  <2>1. Right(u)' = Right(u) /\ jobs' = jobs /\ place' = place /\ asked' = asked
    BY <1>1 DEF Right, items
  <2>2. Right(u) => Covered(u, Len(asked[u]) - 1)'
    BY <1>1, <1>4, <2>1 DEF Covered, Purging
  <2>3. Choice(u)' = r /\ (Bad(r) => Bad(r)')
    BY <1>2, <1>3, <1>4, FineStays DEF Choice
  <2>4. \A i \in 1 .. Len(jobs[u]) : place[jobs[u][i]] # Source
    BY DEF Purging
  <2> QED
    BY <1>0, <1>4, <2>1, <2>2, <2>3, <2>4 DEF Purging
<1>5. CASE CheckDirectory(u)
  <2>1. CASE /\ pc'[u] = "make" /\ cands'[u] = cands[u] /\ part'[u] = part[u]
             /\ roots'[u] = roots[u] /\ Kind(At(r, j)) = "none" /\ ~Custom
    <3>1. ~Fine(r)
      BY <1>3, <2>1 DEF Fine, Sound
    <3>2. Right(u) => Bad(r)
      BY <1>1, <1>2, <3>1, Target
    <3> QED
      BY <1>4, <2>1, <3>2
  <2>2. CASE Accept(u) /\ Sound(At(r, j))
    <3>1. Sound(At(r, j))'
      BY <1>3, <2>2, SoundStays
    <3> QED
      BY <1>1, <1>2, <2>2, <3>1, PurgingAccept
  <2>3. CASE Reject(u) /\ Bad(r)
    BY <1>1, <1>2, <2>3, PurgingReject
  <2> QED
    BY <1>0, <1>2, <1>5, <2>1, <2>2, <2>3, CheckOutcome
<1>6. CASE MakeDirectory(u)
  <2>0. pc[u] = "make" /\ (~Custom /\ Right(u) => Bad(r))
    BY <1>2, <1>6 DEF MakeDirectory, Purging
  <2>1. CASE /\ pc'[u] = "check" /\ cands'[u] = cands[u] /\ roots'[u] = roots[u]
    BY <1>4, <2>1
  <2>2. CASE Accept(u) /\ Sound(At(r, j))'
    BY <1>1, <1>2, <2>2, PurgingAccept
  <2>3. CASE Reject(u) /\ (Custom => Bad(r))
    BY <1>1, <1>2, <2>0, <2>3, PurgingReject
  <2> QED
    BY <1>0, <1>2, <1>6, <2>1, <2>2, <2>3, MakeOutcome
<1> QED
  BY <1>5, <1>6

LEMMA PurgingResolve ==
  ASSUME TypeInv, NEW u \in Purges, Purging(u), Resolve(u), Quiet
  PROVE  Purging(u)'
<1>0. Tree /\ Shapes /\ u \in Procs /\ Fit(u) /\ pc[u] = "resolve" /\ u \notin Removals
      /\ Custom' = Custom
  BY SettingStays, RootsAssumption DEF TypeInv, Procs, Resolve, Quiet
<1>1. PICK t : t = jobs[u][Len(asked[u]) + 1]
  OBVIOUS
<1>2. t \in Removals /\ again[t] \in Device \cup {None} /\ On[t] # None
  BY <1>0, <1>1, RootsAssumption DEF Fit, Tree
<1>3. /\ asked'[u] = Append(asked[u], again[t]) /\ jobs' = jobs /\ place' = place
      /\ \/ again[t] = None /\ ~Custom /\ pc'[u] = "purge"
         \/ pc'[u] = FirstLook /\ roots'[u] = roots[u]
  BY <1>0, <1>1 DEF Resolve, NoRoot, Goto, Shapes, OnProcs, items
<1>4. PICK n \in Nat : n = Len(asked[u])
  BY <1>0 DEF Fit
<1>5. /\ Len(asked'[u]) = n + 1 /\ asked'[u][n + 1] = again[t]
      /\ \A i \in 1 .. n : asked'[u][i] = asked[u][i]
  BY <1>0, <1>2, <1>3, <1>4, AppendProperties DEF Fit
<1>6. Right(u)' => again[t] = On[t] /\ Right(u)
  BY <1>1, <1>3, <1>4, <1>5 DEF Right
<1>7. \A i \in 1 .. Len(jobs[u]) : place[jobs[u][i]] # Source
  BY DEF Purging
<1>8. CASE again[t] = None /\ pc'[u] = "purge"
  BY <1>2, <1>3, <1>6, <1>7, <1>8 DEF Purging
<1>9. CASE pc'[u] = FirstLook /\ roots'[u] = roots[u]
  <2>1. pc'[u] = (IF Custom THEN "make" ELSE "check")
    BY <1>9 DEF FirstLook
  <2>2. (n + 1) - 1 = n /\ (Right(u) => Covered(u, n))
    BY <1>0, <1>4 DEF Purging
  <2>3. Right(u)' => Covered(u, Len(asked[u]) - 1)'
    BY <1>3, <1>5, <1>6, <1>9, <2>2 DEF Covered
  <2> QED
    BY <1>0, <1>3, <1>7, <2>1, <2>3 DEF Purging
<1> QED
  BY <1>3, <1>8, <1>9

LEMMA PurgingOwn ==
  ASSUME TypeInv, NEW u \in Purges, Passing(u), Purging(u), \A s \in Removals : Removing(s),
         Calm, Calm', Quiet, Steps(u)
  PROVE  Purging(u)'
<1>0. Tree /\ Shapes /\ u \in Procs /\ Fit(u) /\ u \notin Removals
  BY RootsAssumption DEF TypeInv, Procs
<1>1. CASE Select(u)
  <2>1. PICK ts \in SetToAllKPermutations({t \in Removals : place[t] \in Root}) \ {<<>>} :
          jobs' = [jobs EXCEPT ![u] = ts]
    BY <1>1 DEF Select
  <2>2. \A j \in 1 .. Len(ts) : place[ts[j]] \in Root
    <3>1. \A j \in 1 .. Len(ts) : ts[j] \in {t \in Removals : place[t] \in Root}
      BY SelectionIs
    <3> QED
      BY <3>1
  <2>3. jobs'[u] = ts /\ pc'[u] = "resolve" /\ asked' = asked /\ place' = place /\ asked[u] = <<>>
    BY <1>0, <1>1, <2>1 DEF Select, Goto, Shapes, OnProcs, Fit, items
  <2>4. \A j \in 1 .. Len(jobs'[u]) : place'[jobs'[u][j]] # Source
    BY <2>2, <2>3 DEF Root, Home, Source
  <2>5. \A j \in 1 .. Len(asked'[u]) : FALSE
    BY <2>3
  <2> QED
    BY <2>3, <2>4, <2>5 DEF Purging, Covered
<1>2. CASE Purge(u)
  <2>1. pc[u] = "purge" /\ UNCHANGED <<jobs, asked>>
    BY <1>2 DEF Purge
  <2>2. Right(u) => pc'[u] = "done"
    BY <1>0, <1>2, <2>1 DEF Purge, Goto, Shapes, OnProcs, Purging, Covered
  <2>3. pc'[u] \in {"done", "refused"}
    BY <1>0, <1>2 DEF Purge, Goto, Shapes, OnProcs
  <2>4. ASSUME NEW j \in 1 .. Len(jobs[u]) PROVE place'[jobs[u][j]] # Source
    <3>1. jobs[u][j] \in Removals /\ place[jobs[u][j]] # Source
      BY <1>0 DEF Fit, Purging
    <3> QED
      BY <3>1 DEF Quiet, Ages, Source, Gone
  <2>5. Right(u)' = Right(u)
    BY <2>1 DEF Right
  <2> QED
    BY <2>1, <2>2, <2>3, <2>4, <2>5 DEF Purging
<1> QED
  BY <1>0, <1>1, <1>2, PurgingLooks, PurgingResolve DEF Steps
-----------------------------------------------------------------------------
LEMMA CalmStep == TypeInv /\ CalmInv /\ [Next]_vars => CalmInv'
<1> SUFFICES ASSUME TypeInv, CalmInv, [Next]_vars, Calm'
             PROVE  /\ \A p \in Procs : Passing(p)'
                    /\ \A t \in Removals : Removing(t)'
                    /\ \A u \in Purges : Purging(u)'
  BY DEF CalmInv
<1>1. Calm /\ Quiet
  BY QuietStep
<1>2. /\ \A p \in Procs : Passing(p) /\ \A t \in Removals : Removing(t)
      /\ \A u \in Purges : Purging(u)
  BY <1>1 DEF CalmInv
<1>3. ASSUME NEW p \in Procs, Same(p)
      PROVE  /\ Passing(p)' /\ (p \in Removals => Removing(p)') /\ (p \in Purges => Purging(p)')
  BY <1>1, <1>2, <1>3, PassingStays, RemovingStays, PurgingStays
<1>4. ASSUME NEW p \in Procs, Steps(p)
      PROVE  /\ Passing(p)' /\ (p \in Removals => Removing(p)') /\ (p \in Purges => Purging(p)')
  <2>1. Passing(p)'
    BY <1>1, <1>2, <1>4, PassingOwn
  <2>2. p \in Removals => Removing(p)'
    BY <1>1, <1>2, <1>4, RemovingOwn
  <2>3. p \in Purges => Purging(p)'
    BY <1>1, <1>2, <1>4, PurgingOwn
  <2> QED
    BY <2>1, <2>2, <2>3
<1>5. ASSUME NEW q \in Procs
      PROVE  /\ Passing(q)' /\ (q \in Removals => Removing(q)') /\ (q \in Purges => Purging(q)')
  <2>1. ASSUME NEW p \in Procs, Steps(p), p # q PROVE Same(q)
    BY <2>1, StepsOnly DEF Only, Same
  <2>2. CASE Meddle \/ (\E t \in Removals : Recreate(t)) \/ UNCHANGED vars
    <3>1. Same(q)
      BY <2>2 DEF Meddle, Recreate, vars, choice, Same
    <3> QED
      BY <1>3, <3>1
  <2> QED
    BY <1>3, <1>4, <2>1, <2>2, StepsAre
<1> QED
  BY <1>5 DEF Procs

LEMMA CalmInit == Init => CalmInv
<1> SUFFICES ASSUME Init
             PROVE  /\ \A p \in Procs : Passing(p)
                    /\ \A t \in Removals : Removing(t)
                    /\ \A u \in Purges : Purging(u)
  BY DEF CalmInv
<1>1. ASSUME NEW p \in Procs
      PROVE  /\ pc[p] = (IF p \in Removals THEN "resolve" ELSE "idle")
             /\ jobs[p] = (IF p \in Removals THEN <<p>> ELSE <<>>)
             /\ asked[p] = <<>> /\ roots[p] = {}
  BY DEF Init
<1>2. \A p \in Procs : Passing(p)
  BY <1>1 DEF Passing
<1>3. ASSUME NEW t \in Removals PROVE Removing(t)
  BY <1>1 DEF Removing, Init, Procs
<1>4. ASSUME NEW u \in Purges PROVE Purging(u)
  <2>1. pc[u] = "idle" /\ jobs[u] = <<>>
    BY <1>1, RootsAssumption DEF Procs
  <2>2. \A j \in 1 .. Len(jobs[u]) : FALSE
    BY <2>1
  <2> QED
    BY <2>1, <2>2 DEF Purging
<1> QED
  BY <1>2, <1>3, <1>4

THEOREM CalmAlways == Spec => []CalmInv
<1>1. Init => TypeInv /\ CalmInv
  BY InitTypes, CalmInit
<1>2. (TypeInv /\ CalmInv) /\ [Next]_vars => (TypeInv /\ CalmInv)'
  BY TypeStep, CalmStep
<1> QED
  BY <1>1, <1>2, PTL DEF Spec

(* Commands that make the same directories at the same time do not get in  *)
(* each other's way.                                                       *)
THEOREM CompetitionNeverHarms == Spec => []CompetitionIsHarmless
<1>1. CalmInv => CompetitionIsHarmless
  <2> SUFFICES ASSUME CalmInv, Calm, NEW t \in Removals, pc[t] = "failed",
                      NEW root \in ToSet(Candidates(On[t]))
               PROVE  \/ DeviceOf(root) # On[t] \/ DeviceOf(root) \in Modeless
                      \/ \E x \in ToSet(Skeleton) :
                            dir[root][x] # "none" /\ ~Acceptable(<<root, x>>)
    BY DEF CompetitionIsHarmless
  <2>1. PICK i \in 1 .. Len(Candidates(On[t])) : root = Candidates(On[t])[i]
    BY DEF ToSet, Candidates, LinuxRoots, DarwinRoots
  <2>2. Unfit(t, root)
    BY <2>1 DEF CalmInv, Removing
  <2>3. ASSUME NEW j \in 1 .. Len(Skeleton), Spoilt(At(root, j))
        PROVE  \E x \in ToSet(Skeleton) : dir[root][x] # "none" /\ ~Acceptable(<<root, x>>)
    <3>1. Skeleton[j] \in ToSet(Skeleton)
      BY SkeletonIs DEF ToSet
    <3> QED
      BY <2>3, <3>1 DEF Spoilt, At, Kind
  <2> QED
    BY <2>2, <2>3 DEF Unfit, Bad
<1> QED
  BY <1>1, CalmAlways, PTL

(* A purge comes to the root its item was moved to.                        *)
THEOREM PurgeAlwaysFinds == Spec => []PurgeFindsItsRoot
<1>1. CalmInv => PurgeFindsItsRoot
  BY DEF CalmInv, PurgeFindsItsRoot, Purging, Right
<1> QED
  BY <1>1, CalmAlways, PTL
=============================================================================
