---------------------------- MODULE RemovalProofs ----------------------------
(***************************************************************************)
(* What holds of Removal for every tree, policy and request.               *)
(***************************************************************************)
EXTENDS Removal, TLAPS, SequenceTheorems, WellFoundedInduction

(* What the definitions of Removal by recursion compute: the directories   *)
(* above a node, and the part of a sequence that is in a set.  Induction   *)
(* is by the least counterexample.                                         *)

Smaller == {p \in Nat \X Nat : p[1] < p[2]}

LEMMA SmallerIsWellFounded == IsWellFoundedOn(Smaller, Nat)
<1>1. IsWellFoundedOn(OpToRel(<, Nat), Nat)
  BY NatLessThanWellFounded
<1>2. OpToRel(<, Nat) = {p \in Nat \X Nat : p[1] < p[2]}
  BY DEF OpToRel
<1> QED
  BY <1>1, <1>2 DEF Smaller

(* A set of numbers that is not empty has a least one. *)
LEMMA Least ==
  ASSUME NEW T, T \subseteq Nat, T # {}
  PROVE  \E n \in T : \A m \in T : n <= m
<1>1. PICK n \in T : \A m \in T : ~ (<<m, n>> \in Smaller)
  BY SmallerIsWellFounded, WFMin
<1>2. ASSUME NEW m \in T PROVE n <= m
  <2>1. m \in Nat /\ n \in Nat /\ ~(<<m, n>> \in Smaller)
    BY <1>1
  <2>2. <<m, n>> \in Nat \X Nat /\ <<m, n>>[1] = m /\ <<m, n>>[2] = n
    BY <2>1
  <2>3. ~(m < n)
    BY <2>1, <2>2 DEF Smaller
  <2> QED
    BY <2>1, <2>3
<1> QED
  BY <1>2
-----------------------------------------------------------------------------
Positions == 1 .. Len(Order)

(* What RemovalAssumption says of the tree and of its order. *)
LEMMA OrderFacts ==
  /\ Len(Order) \in Nat
  /\ \A j \in Positions : Order[j] \in Node
  /\ \A n \in Node : \E j \in Positions : Order[j] = n
  /\ \A i, j \in Positions : Order[i] = Order[j] => i = j
  /\ \A i, j \in Positions : Parent[Order[i]] = Order[j] => i < j
  /\ \A n \in Node : Parent[n] # None => Parent[n] \in Dir
  /\ Dir \subseteq Node /\ None \notin Node
<1>1. Order \in Seq(Node) /\ Node = {Order[j] : j \in Positions}
  BY RemovalAssumption DEF Positions
<1>2. Len(Order) \in Nat /\ \A j \in Positions : Order[j] \in Node
  BY <1>1 DEF Positions
<1>3. \A i, j \in Positions : Order[i] = Order[j] => i = j
  BY RemovalAssumption DEF Positions
<1>6. \A i, j \in Positions : Parent[Order[i]] = Order[j] => i < j
  BY RemovalAssumption DEF Positions
<1>4. /\ \A n \in Node : Parent[n] # None => Parent[n] \in Dir
      /\ Dir \subseteq Node /\ None \notin Node
  BY RemovalAssumption
<1>5. \A n \in Node : \E j \in Positions : Order[j] = n
  BY <1>1
<1> QED
  BY ONLY <1>2, <1>3, <1>4, <1>5, <1>6

(* Of the nodes of a set, one has no parent in it. *)
LEMMA Topmost ==
  ASSUME NEW T, T \subseteq Node, T # {}
  PROVE  \E n \in T : Parent[n] \notin T
<1> USE OrderFacts
<1> DEFINE len == Len(Order)
           Depths == {j \in 0 .. len : j < len /\ Order[len - j] \in T}
<1>0. len \in Nat
  BY OrderFacts
<1>1. Depths \subseteq Nat
  BY <1>0
<1>2. PICK t \in T : TRUE
  OBVIOUS
<1>3. PICK i \in Positions : Order[i] = t
  BY <1>2 DEF Positions
<1>4. len - i \in 0 .. len /\ len - i < len /\ len - (len - i) = i
  BY <1>0 DEF Positions
<1>5. len - i \in Depths
  BY <1>2, <1>3, <1>4
<1> HIDE DEF Depths
<1>6. PICK j \in Depths : \A m \in Depths : j <= m
  BY <1>1, <1>5, Least
<1>7. j \in Nat /\ len - j \in Positions /\ Order[len - j] \in T
  BY <1>0 DEF Depths, Positions
<1>8. ASSUME Parent[Order[len - j]] \in T PROVE FALSE
  <2>1. PICK k_1 \in Positions : Order[k_1] = Parent[Order[len - j]]
    BY <1>8 DEF Positions
  <2>2. len - j < k_1
    BY <1>7, <2>1 DEF Positions
  <2>3. len - k_1 \in 0 .. len /\ len - k_1 < len /\ len - (len - k_1) = k_1
    BY <1>0 DEF Positions
  <2>4. len - k_1 \in Depths
    BY <1>8, <2>1, <2>3 DEF Depths
  <2>5. j <= len - k_1
    BY <1>6, <2>4
  <2>6. k_1 \in Int
    BY DEF Positions
  <2> QED
    BY <1>0, <1>7, <2>2, <2>5, <2>6
<1> QED
  BY <1>7, <1>8
-----------------------------------------------------------------------------
(* Above is a solution of its equation: there is one for the last nodes of *)
(* Order, however many.                                                    *)
Ending(i) == {Order[j] : j \in {l \in Positions : Len(Order) - i < l}}
Solves(F, S) == F = [n \in S |-> IF Parent[n] = None THEN {} ELSE {Parent[n]} \cup F[Parent[n]]]

LEMMA EndingClosed ==
  ASSUME NEW i \in Nat, NEW n \in Ending(i)
  PROVE  n \in Node /\ (Parent[n] # None => Parent[n] \in Ending(i))
<1> USE OrderFacts
<1>1. PICK j \in Positions : Order[j] = n /\ Len(Order) - i < j
  BY DEF Ending
<1>2. n \in Node
  BY <1>1
<1>3. ASSUME Parent[n] # None PROVE Parent[n] \in Ending(i)
  <2>1. Parent[n] \in Node
    BY <1>2, <1>3
  <2>2. PICK l \in Positions : Order[l] = Parent[n]
    BY <2>1 DEF Positions
  <2>3. j < l
    BY <1>1, <2>2 DEF Positions
  <2>4. Len(Order) - i < l
    BY <1>1, <2>3 DEF Positions
  <2> QED
    BY <2>2, <2>4 DEF Ending
<1> QED
  BY <1>2, <1>3

LEMMA SolutionGrows ==
  ASSUME NEW S, NEW t, NEW F, Solves(F, S),
         \A n \in S : Parent[n] # None => Parent[n] \in S,
         Parent[t] # None => Parent[t] \in S \cup {t}, Parent[t] # t
  PROVE  \E G : Solves(G, S \cup {t})
<1> DEFINE step == IF Parent[t] = None THEN {} ELSE {Parent[t]} \cup F[Parent[t]]
           G == [n \in S \cup {t} |-> IF n \in S THEN F[n] ELSE step]
<1>1. ASSUME NEW n \in S PROVE G[n] = IF Parent[n] = None THEN {} ELSE {Parent[n]} \cup G[Parent[n]]
  <2>1. F[n] = IF Parent[n] = None THEN {} ELSE {Parent[n]} \cup F[Parent[n]]
    BY DEF Solves
  <2>2. Parent[n] # None => G[Parent[n]] = F[Parent[n]]
    OBVIOUS
  <2> QED
    BY <2>1, <2>2
<1>2. t \notin S => G[t] = IF Parent[t] = None THEN {} ELSE {Parent[t]} \cup G[Parent[t]]
  <2>1. t \notin S => G[t] = step
    OBVIOUS
  <2>2. Parent[t] # None => G[Parent[t]] = F[Parent[t]]
    OBVIOUS
  <2> QED
    BY <2>1, <2>2
<1>3. G = [n \in S \cup {t} |-> G[n]]
  OBVIOUS
<1>4. \A n \in S \cup {t} : G[n] = IF Parent[n] = None THEN {} ELSE {Parent[n]} \cup G[Parent[n]]
  BY <1>1, <1>2
<1> HIDE DEF G
<1>5. Solves(G, S \cup {t})
  BY <1>3, <1>4 DEF Solves
<1> QED
  BY <1>5

LEMMA SolutionExists == \E F : Solves(F, Node)
<1> USE OrderFacts
<1> DEFINE len == Len(Order)
           Bad == {i \in 0 .. len : ~ \E F : Solves(F, Ending(i))}
<1>0. len \in Nat
  BY OrderFacts
<1>1. 0 \notin Bad
  <2>1. Ending(0) = {}
    BY <1>0 DEF Ending, Positions
  <2>2. Solves([n \in {} |-> {}], {})
    BY DEF Solves
  <2> QED
    BY <2>1, <2>2
<1>2. ASSUME Bad # {} PROVE FALSE
  <2>1. Bad \subseteq Nat
    BY <1>0
  <2> HIDE DEF Bad
  <2>2. PICK i \in Bad : \A m \in Bad : i <= m
    BY <1>2, <2>1, Least
  <2>3. i \in 1 .. len /\ i - 1 \in 0 .. len /\ ~(i <= i - 1) /\ i - 1 \in Nat
    BY <1>0, <1>1, <2>1 DEF Bad
  <2>4. i - 1 \notin Bad
    BY <2>2, <2>3
  <2>5. PICK F : Solves(F, Ending(i - 1))
    BY <2>3, <2>4 DEF Bad
  <2> DEFINE t == Order[len - i + 1]
             S == Ending(i - 1)
  <2>6. len - i + 1 \in Positions
    BY <1>0, <2>3 DEF Positions
  <2>7. Ending(i) = S \cup {t}
    <3>1. \A l \in Positions : len - i < l <=> len - (i - 1) < l \/ l = len - i + 1
      BY ONLY <1>0, <2>3 DEF Positions
    <3>2. Ending(i) \subseteq S \cup {t}
      BY <3>1 DEF Ending
    <3>3. S \cup {t} \subseteq Ending(i)
      <4>1. len - i < len - i + 1
        BY <1>0, <2>3
      <4> QED
        BY <2>6, <3>1, <4>1 DEF Ending
    <3> QED
      BY <3>2, <3>3
  <2>8. \A n \in S : Parent[n] # None => Parent[n] \in S
    BY <2>3, EndingClosed
  <2>9. Parent[t] # None => Parent[t] \in S \cup {t}
    <3>1. t \in Ending(i) /\ i \in Nat
      BY <2>3, <2>7
    <3> QED
      BY <2>7, <3>1, EndingClosed
  <2>10. Parent[t] # t
    BY <2>6 DEF Positions
  <2>11. \E G : Solves(G, S \cup {t})
    <3> HIDE DEF S, t
    <3>1. Solves(F, S)
      BY <2>5 DEF S
    <3> QED
      BY ONLY <2>8, <2>9, <2>10, <3>1, SolutionGrows
  <2>12. \E G : Solves(G, Ending(i))
    BY ONLY <2>7, <2>11
  <2> QED
    BY <2>2, <2>12 DEF Bad
<1>3. len \in 0 .. len
  BY <1>0
<1>4. \E F : Solves(F, Ending(len))
  BY <1>2, <1>3
<1>5. Ending(len) = Node
  BY <1>0 DEF Ending, Positions
<1> QED
  BY <1>4, <1>5

LEMMA AboveUnfolds ==
  ASSUME NEW n \in Node
  PROVE  Above[n] = IF Parent[n] = None THEN {} ELSE {Parent[n]} \cup Above[Parent[n]]
<1>1. Above = CHOOSE F : Solves(F, Node)
  BY DEF Above, Solves
<1>2. Solves(Above, Node)
  BY <1>1, SolutionExists
<1> QED
  BY <1>2 DEF Solves
-----------------------------------------------------------------------------
(* What is above a node is a directory, above the node in the order of the *)
(* walk, and everything above it is above the node.                        *)
LEMMA AboveAreDirs == \A n \in Node : Above[n] \subseteq Dir
<1> USE OrderFacts
<1> DEFINE Bad == {n \in Node : ~ (Above[n] \subseteq Dir)}
<1>1. ASSUME Bad # {} PROVE FALSE
  <2>1. PICK n \in Bad : Parent[n] \notin Bad
    BY <1>1, Topmost
  <2>2. n \in Node /\ ~ (Above[n] \subseteq Dir)
    BY <2>1
  <2>3. Parent[n] # None /\ Parent[n] \in Dir /\ Above[n] = {Parent[n]} \cup Above[Parent[n]]
    BY <2>2, AboveUnfolds
  <2>4. Above[Parent[n]] \subseteq Dir
    BY <2>1, <2>3
  <2> QED
    BY <2>2, <2>3, <2>4
<1> QED
  BY <1>1

LEMMA AboveIsTransitive ==
  ASSUME NEW n \in Node, NEW m \in Above[n]
  PROVE  Above[m] \subseteq Above[n]
<1> USE OrderFacts
<1> DEFINE Bad == {a \in Node : \E b \in Above[a] : ~ (Above[b] \subseteq Above[a])}
<1>1. ASSUME Bad # {} PROVE FALSE
  <2>1. PICK a \in Bad : Parent[a] \notin Bad
    BY <1>1, Topmost
  <2>2. a \in Node
    BY <2>1
  <2>3. PICK b \in Above[a] : ~ (Above[b] \subseteq Above[a])
    BY <2>1
  <2>4. Parent[a] # None /\ Parent[a] \in Node /\ Above[a] = {Parent[a]} \cup Above[Parent[a]]
    BY <2>2, <2>3, AboveUnfolds
  <2>5. b \in Above[Parent[a]]
    BY <2>3, <2>4
  <2> QED
    BY <2>1, <2>3, <2>4, <2>5
<1> QED
  BY <1>1

LEMMA AboveIsLater ==
  ASSUME NEW i \in Positions, NEW j \in Positions, Order[j] \in Above[Order[i]]
  PROVE  i < j
<1> USE OrderFacts
<1> DEFINE Bad == {n \in Node : \E a, b \in Positions :
                      Order[a] = n /\ Order[b] \in Above[n] /\ ~ (a < b)}
<1>1. ASSUME Bad # {} PROVE FALSE
  <2>1. PICK n \in Bad : Parent[n] \notin Bad
    BY <1>1, Topmost
  <2>2. n \in Node
    BY <2>1
  <2>3. PICK a \in Positions : \E b \in Positions : Order[a] = n /\ Order[b] \in Above[n] /\ ~ (a < b)
    BY <2>1
  <2>4. PICK b \in Positions : Order[a] = n /\ Order[b] \in Above[n] /\ ~ (a < b)
    BY <2>3
  <2>5. Parent[n] # None /\ Parent[n] \in Node /\ Above[n] = {Parent[n]} \cup Above[Parent[n]]
    BY <2>2, <2>4, AboveUnfolds
  <2>6. PICK c \in Positions : Order[c] = Parent[n]
    BY <2>5
  <2>7. a < c
    BY <2>4, <2>6
  <2>8. Order[b] \in Above[Parent[n]]
    BY <2>4, <2>5, <2>6, <2>7
  <2>9. c < b
    BY <2>1, <2>5, <2>6, <2>8
  <2> QED
    BY <2>4, <2>7, <2>9 DEF Positions
<1> QED
  BY <1>1

LEMMA NotAboveItself == \A n \in Node : n \notin Above[n]
<1> SUFFICES ASSUME NEW n \in Node, n \in Above[n] PROVE FALSE
  OBVIOUS
<1>1. PICK i \in Positions : Order[i] = n
  BY OrderFacts
<1>2. i < i
  BY <1>1, AboveIsLater
<1> QED
  BY <1>2 DEF Positions

(* The directories above a node are a chain. *)
LEMMA AboveIsChain ==
  ASSUME NEW n \in Node, NEW a \in Above[n], NEW b \in Above[n]
  PROVE  a = b \/ a \in Above[b] \/ b \in Above[a]
<1> USE OrderFacts
<1> DEFINE Apart(x, y) == x # y /\ x \notin Above[y] /\ y \notin Above[x]
           Bad == {m \in Node : \E x, y \in Above[m] : Apart(x, y)}
<1>1. ASSUME Bad # {} PROVE FALSE
  <2>1. PICK m \in Bad : Parent[m] \notin Bad
    BY <1>1, Topmost
  <2>2. m \in Node
    BY <2>1
  <2>3. PICK x \in Above[m] : \E y \in Above[m] : Apart(x, y)
    BY <2>1
  <2>4. PICK y \in Above[m] : Apart(x, y)
    BY <2>3
  <2>5. Parent[m] # None /\ Parent[m] \in Node /\ Above[m] = {Parent[m]} \cup Above[Parent[m]]
    BY <2>2, <2>3, AboveUnfolds
  <2>6. x \in Above[Parent[m]] /\ y \in Above[Parent[m]]
    BY <2>4, <2>5
  <2> QED
    BY <2>1, <2>4, <2>5, <2>6
<1> QED
  BY <1>1

LEMMA BelowIsTransitive ==
  ASSUME NEW m \in Node, NEW n \in Node, NEW o \in Node, AtOrBelow(m, n), AtOrBelow(n, o)
  PROVE  AtOrBelow(m, o)
BY AboveIsTransitive DEF AtOrBelow

LEMMA BothAbove ==
  ASSUME NEW m \in Node, NEW a \in Node, NEW b \in Node, AtOrBelow(m, a), AtOrBelow(m, b)
  PROVE  AtOrBelow(a, b) \/ AtOrBelow(b, a)
BY AboveIsChain DEF AtOrBelow

(* Only a directory has something below it. *)
LEMMA FilesAreLeaves ==
  ASSUME NEW m \in Node, NEW n \in Node, AtOrBelow(m, n), n \notin Dir
  PROVE  m = n
BY AboveAreDirs DEF AtOrBelow
-----------------------------------------------------------------------------
(* c has the elements of the first n of seq that are in S, each from its   *)
(* place at[i].                                                            *)
From(c, at, seq, n, S) ==
    /\ at \in [1 .. Len(c) -> 1 .. n]
    /\ \A i \in 1 .. Len(c) : c[i] = seq[at[i]] /\ c[i] \in S
    /\ \A i, j \in 1 .. Len(c) : i < j => at[i] < at[j]
    /\ \A j \in 1 .. n : seq[j] \in S => \E i \in 1 .. Len(c) : at[i] = j
Chooses(f, seq, n, S) ==
    f = [j \in 0 .. n |-> IF j = 0 THEN <<>>
                          ELSE IF seq[j] \in S THEN Append(f[j - 1], seq[j]) ELSE f[j - 1]]

LEMMA ChoiceExists ==
  ASSUME NEW seq, NEW S, NEW len \in Nat
  PROVE  \E f : Chooses(f, seq, len, S)
<1> DEFINE Bad == {n \in 0 .. len : ~ \E f : Chooses(f, seq, n, S)}
<1>1. 0 \notin Bad
  <2> DEFINE f == [j \in 0 .. 0 |-> <<>>]
  <2>1. f = [j \in 0 .. 0 |-> IF j = 0 THEN <<>>
               ELSE IF seq[j] \in S THEN Append(f[j - 1], seq[j]) ELSE f[j - 1]]
    OBVIOUS
  <2> HIDE DEF f
  <2>2. Chooses(f, seq, 0, S)
    BY <2>1 DEF Chooses
  <2> QED
    BY <2>2
<1>2. ASSUME Bad # {} PROVE FALSE
  <2>1. Bad \subseteq Nat
    OBVIOUS
  <2>2. PICK n \in Bad : \A m \in Bad : n <= m
    BY <1>2, <2>1, Least
  <2>3. n \in 1 .. len /\ n - 1 \in 0 .. len /\ n \in Nat /\ ~(n <= n - 1)
    BY <1>1, <2>2
  <2>4. PICK f : Chooses(f, seq, n - 1, S)
    BY <2>2, <2>3
  <2> DEFINE g == [j \in 0 .. n |-> IF j < n THEN f[j]
                     ELSE IF seq[n] \in S THEN Append(f[n - 1], seq[n]) ELSE f[n - 1]]
  <2>5. \A j \in 0 .. n : g[j] = IF j = 0 THEN <<>>
                            ELSE IF seq[j] \in S THEN Append(g[j - 1], seq[j]) ELSE g[j - 1]
    <3>1. \A j \in 0 .. n - 1 :
             f[j] = IF j = 0 THEN <<>>
                    ELSE IF seq[j] \in S THEN Append(f[j - 1], seq[j]) ELSE f[j - 1]
      BY <2>4 DEF Chooses
    <3> SUFFICES ASSUME NEW j \in 0 .. n
                 PROVE  g[j] = IF j = 0 THEN <<>>
                            ELSE IF seq[j] \in S THEN Append(g[j - 1], seq[j]) ELSE g[j - 1]
      OBVIOUS
    <3>2. j # 0 => g[j - 1] = f[j - 1]
      BY <2>3
    <3>3. CASE j < n
      BY <2>3, <3>1, <3>2, <3>3
    <3>4. CASE j = n
      BY <2>3, <3>2, <3>4
    <3> QED
      BY <2>3, <3>3, <3>4
  <2>6. g = [j \in 0 .. n |-> g[j]]
    OBVIOUS
  <2> HIDE DEF g
  <2>7. Chooses(g, seq, n, S)
    BY <2>5, <2>6 DEF Chooses
  <2> QED
    BY <2>2, <2>7
<1> QED
  BY <1>2

LEMMA ChosenIs ==
  ASSUME NEW T, NEW seq \in Seq(T), NEW S
  PROVE  Chosen(seq, S) \in Seq(T) /\ \E at : From(Chosen(seq, S), at, seq, Len(seq), S)
<1> DEFINE len == Len(seq)
           f == CHOOSE g : Chooses(g, seq, len, S)
<1>1. len \in Nat
  OBVIOUS
<1>2. Chosen(seq, S) = f[len]
  BY DEF Chosen, Chooses
<1>3. Chooses(f, seq, len, S)
  BY <1>1, ChoiceExists
<1> HIDE DEF f
<1>4. \A j \in 0 .. len : f[j] = IF j = 0 THEN <<>>
                            ELSE IF seq[j] \in S THEN Append(f[j - 1], seq[j]) ELSE f[j - 1]
  BY <1>3 DEF Chooses
<1> DEFINE Fine(n) == f[n] \in Seq(T) /\ \E at : From(f[n], at, seq, n, S)
           Bad == {n \in 0 .. len : ~ Fine(n)}
<1>5. Fine(0)
  <2>1. f[0] = <<>>
    BY <1>1, <1>4
  <2>2. From(<<>>, [i \in 1 .. 0 |-> 0], seq, 0, S)
    BY DEF From
  <2> QED
    BY <2>1, <2>2
<1>6. ASSUME NEW n \in 1 .. len, Fine(n - 1) PROVE Fine(n)
  <2>1. PICK at : From(f[n - 1], at, seq, n - 1, S)
    BY <1>6
  <2> DEFINE c == f[n - 1]
             l == Len(c)
  <2>2. c \in Seq(T) /\ l \in Nat /\ n \in Nat /\ n - 1 \in Nat
    BY <1>1, <1>6
  <2>3. CASE seq[n] \notin S
    <3>1. f[n] = c
      BY <1>1, <1>4, <2>3
    <3>2. From(c, at, seq, n, S)
      <4>1. \A j \in 1 .. n : j \in 1 .. n - 1 \/ j = n
        BY <2>2
      <4>2. \A j \in 1 .. n - 1 : j \in 1 .. n
        BY <2>2
      <4> QED
        BY <2>1, <2>3, <4>1, <4>2 DEF From
    <3> QED
      BY <2>2, <3>1, <3>2
  <2>4. CASE seq[n] \in S
    <3> DEFINE d == Append(c, seq[n])
               to == [i \in 1 .. l + 1 |-> IF i <= l THEN at[i] ELSE n]
    <3>1. f[n] = d
      <4>1. n \in 0 .. len /\ n # 0
        BY <1>1, <2>2
      <4> QED
        BY <1>4, <2>4, <4>1
    <3>2. seq[n] \in T
      BY <1>1
    <3>3. d \in Seq(T) /\ Len(d) = l + 1 /\ d[l + 1] = seq[n] /\ \A i \in 1 .. l : d[i] = c[i]
      BY <2>2, <3>2, AppendProperties
    <3>4. \A i \in 1 .. l : /\ to[i] = at[i] /\ at[i] \in 1 .. n - 1
                            /\ c[i] = seq[at[i]] /\ c[i] \in S
      BY <2>1, <2>2 DEF From
    <3>5. to[l + 1] = n
      BY <2>2
    <3>6. \A i \in 1 .. l + 1 : i \in 1 .. l \/ i = l + 1
      BY <2>2
    <3>10. l + 1 \in 1 .. l + 1 /\ \A i \in 1 .. l : i \in 1 .. l + 1
      BY <2>2
    <3>11. to \in [1 .. l + 1 -> 1 .. n]
      <4>1. \A i \in 1 .. l + 1 : to[i] \in 1 .. n
        <5> SUFFICES ASSUME NEW i \in 1 .. l + 1 PROVE to[i] \in 1 .. n
          OBVIOUS
        <5>1. CASE i = l + 1
          BY <2>2, <3>5, <5>1
        <5>2. CASE i \in 1 .. l
          <6>1. to[i] = at[i] /\ at[i] \in 1 .. n - 1
            BY <3>4, <5>2
          <6>2. n \in Nat
            BY <2>2
          <6> QED
            BY ONLY <6>1, <6>2
        <5> QED
          BY <3>6, <5>1, <5>2
      <4> QED
        BY <4>1
    <3> HIDE DEF d, to
    <3>7. \A i \in 1 .. l + 1 : d[i] = seq[to[i]] /\ d[i] \in S
      BY <2>4, <3>3, <3>4, <3>5, <3>6
    <3>8. \A i, j \in 1 .. l + 1 : i < j => to[i] < to[j]
      <4> SUFFICES ASSUME NEW i \in 1 .. l + 1, NEW j \in 1 .. l + 1, i < j PROVE to[i] < to[j]
        OBVIOUS
      <4>1. i \in 1 .. l
        BY <2>2
      <4>2. CASE j \in 1 .. l
        BY <2>1, <3>4, <4>1, <4>2 DEF From
      <4>3. CASE j = l + 1
        BY <2>2, <3>4, <3>5, <4>1, <4>3
      <4> QED
        BY <3>6, <4>2, <4>3
    <3>9. \A j \in 1 .. n : seq[j] \in S => \E i \in 1 .. l + 1 : to[i] = j
      <4> SUFFICES ASSUME NEW j \in 1 .. n, seq[j] \in S PROVE \E i \in 1 .. l + 1 : to[i] = j
        OBVIOUS
      <4>1. CASE j = n
        BY <3>5, <3>10, <4>1
      <4>2. CASE j \in 1 .. n - 1
        <5>1. PICK i \in 1 .. l : at[i] = j
          BY <2>1, <4>2 DEF From
        <5> QED
          BY <3>4, <3>10, <5>1
      <4> QED
        BY <2>2, <4>1, <4>2
    <3>12. From(d, to, seq, n, S)
      BY <3>3, <3>7, <3>8, <3>9, <3>11 DEF From
    <3> QED
      BY <3>1, <3>3, <3>12
  <2> QED
    BY <2>3, <2>4
<1> HIDE DEF Fine
<1>7. ASSUME Bad # {} PROVE FALSE
  <2>1. Bad \subseteq Nat
    BY <1>1
  <2>2. PICK n \in Bad : \A m \in Bad : n <= m
    BY <1>7, <2>1, Least
  <2>3. n \in 1 .. len /\ n - 1 \in 0 .. len /\ n \in Nat /\ ~(n <= n - 1)
    BY <1>1, <1>5, <2>2
  <2>4. Fine(n - 1)
    BY <2>2, <2>3
  <2> QED
    BY <1>6, <2>2, <2>3, <2>4
<1>8. Fine(len)
  BY <1>1, <1>7
<1> QED
  BY <1>2, <1>8 DEF Fine
-----------------------------------------------------------------------------
(* The target in hand is one; fewer operands are accepted than were read.  *)
InRange == phase \in {"ask", "move"} => k <= Len(targets)
Counts == phase = "plan" => validated < k

TypeInv == TypeOK /\ InRange /\ Counts
-----------------------------------------------------------------------------
R == [node : Node \cup {None}, status : Statuses]

LEMMA NoteType ==
  ASSUME results \in Seq(R), NEW n \in Node \cup {None}, NEW status \in Statuses, Note(n, status)
  PROVE  results' \in Seq(R)
<1>1. Result(n, status) \in R
  BY DEF Result, R
<1> QED
  BY <1>1, AppendProperties DEF Note

LEMMA NotesType ==
  ASSUME results \in Seq(R), NEW seq \in Seq(Node), NEW status \in Statuses,
         results' = results \o [j \in 1 .. Len(seq) |-> Result(seq[j], status)]
  PROVE  results' \in Seq(R)
<1>1. \A j \in 1 .. Len(seq) : Result(seq[j], status) \in R
  BY DEF Result, R
<1>2. [j \in 1 .. Len(seq) |-> Result(seq[j], status)] \in [1 .. Len(seq) -> R]
  BY <1>1
<1>3. Len(seq) \in Nat
  OBVIOUS
<1>4. [j \in 1 .. Len(seq) |-> Result(seq[j], status)] \in Seq(R)
  BY ONLY <1>2, <1>3
<1> QED
  BY <1>4, ConcatProperties

LEMMA SequencesOfNodes ==
  ASSUME NEW n \in Node
  PROVE  /\ Expand(n) \in Seq(Node) /\ Skipped(n) \in Seq(Node) /\ <<n>> \in Seq(Node)
         /\ Unseen(Expand(n)) \in Seq(Node) /\ Unseen(<<n>>) \in Seq(Node)
<1>1. Order \in Seq(Node)
  BY RemovalAssumption
<1>2. Expand(n) \in Seq(Node) /\ Skipped(n) \in Seq(Node) /\ <<n>> \in Seq(Node)
  BY <1>1, ChosenIs DEF Expand, Skipped
<1> QED
  BY <1>2, ChosenIs DEF Unseen

LEMMA RequestType == request \in Requests => request.operands \in Seq(Node) /\ opt \in RemoveOptions
BY RemovalAssumption DEF opt

(* What the planning of one operand does. *)
LEMMA PlanOperandType ==
  ASSUME TypeInv, PlanOperand
  PROVE  TypeInv'
<1> DEFINE n == request.operands[k]
<1>1. request.operands \in Seq(Node) /\ request' = request
  BY RequestType DEF TypeInv, TypeOK, PlanOperand
<1>2. n \in Node /\ k \in Nat \ {0} /\ k <= Len(request.operands) /\ phase = "plan"
  BY <1>1 DEF TypeInv, TypeOK, PlanOperand
<1>3. results \in Seq(R) /\ targets \in Seq(Node) /\ validated \in Nat /\ validated < k
  BY <1>2 DEF TypeInv, TypeOK, R, Counts
<1> HIDE DEF n
<1>4. UNCHANGED <<request, present, trash, cancelled, yes, records, outcome>>
  BY DEF PlanOperand
<1>5. /\ results' \in Seq(R) /\ targets' \in Seq(Node) /\ k' \in Nat \ {0}
      /\ phase' \in {"plan", "start"} /\ (phase' = "plan" => k' = k + 1)
      /\ validated' \in {validated, validated + 1}
  <2>1. CASE Note(n, "failed") /\ phase' = "start" /\ k' = 1 /\ UNCHANGED plan
    BY <1>2, <1>3, <2>1, NoteType DEF plan, Statuses
  <2>2. CASE UNCHANGED <<plan, results>> /\ k' = k + 1 /\ phase' = phase
    BY <1>2, <1>3, <2>2 DEF plan
  <2>3. CASE Note(n, "failed") /\ UNCHANGED plan /\ k' = k + 1 /\ phase' = phase
    BY <1>2, <1>3, <2>3, NoteType DEF plan, Statuses
  <2>4. CASE /\ validated' = validated + 1 /\ targets' = targets \o Unseen(Expand(n))
             /\ results' = results \o [j \in 1 .. Len(Skipped(n)) |-> Result(Skipped(n)[j], "skipped")]
             /\ k' = k + 1 /\ phase' = phase
    <3>1. results' \in Seq(R)
      BY <1>2, <1>3, <2>4, SequencesOfNodes, NotesType DEF Statuses
    <3>2. targets' \in Seq(Node)
      BY <1>2, <1>3, <2>4, SequencesOfNodes, ConcatProperties
    <3> QED
      BY <1>2, <1>3, <2>4, <3>1, <3>2
  <2>5. CASE /\ validated' = validated + 1 /\ targets' = targets \o Unseen(<<n>>)
             /\ results' = results /\ k' = k + 1 /\ phase' = phase
    <3>1. targets' \in Seq(Node)
      BY <1>2, <1>3, <2>5, SequencesOfNodes, ConcatProperties
    <3> QED
      BY <1>2, <1>3, <2>5, <3>1
  <2> QED
    BY <2>1, <2>2, <2>3, <2>4, <2>5 DEF PlanOperand, n
<1>6. validated' \in 0 .. Len(request.operands)
  BY <1>1, <1>2, <1>3, <1>5
<1>7. Counts' /\ InRange'
  BY <1>2, <1>3, <1>5 DEF Counts, InRange
<1> QED
  BY <1>1, <1>4, <1>5, <1>6, <1>7 DEF TypeInv, TypeOK, R, outcome

LEMMA TypeStep ==
  ASSUME TypeInv, [Next]_vars
  PROVE  TypeInv'
<1>0. /\ TypeOK /\ InRange /\ Counts
      /\ results \in Seq(R) /\ targets \in Seq(Node) /\ k \in Nat \ {0}
  BY DEF TypeInv, TypeOK, R
<1>1. CASE PlanOperand
  BY <1>1, PlanOperandType
<1>2. CASE PlanDone
  BY <1>0, <1>2 DEF PlanDone, TypeInv, TypeOK, InRange, Counts, plan, outcome
<1>3. CASE Start
  <2>1. results' \in Seq(R)
    BY <1>0, <1>3, NoteType DEF Start, Statuses
  <2> QED
    BY <1>0, <1>3, <2>1 DEF Start, TypeInv, TypeOK, InRange, Counts, plan, outcome, R
<1>4. CASE ConfirmOnce
  <2>1. results' \in Seq(R)
    BY <1>0, <1>4, NoteType, NotesType DEF ConfirmOnce, Statuses
  <2> QED
    BY <1>0, <1>4, <2>1 DEF ConfirmOnce, TypeInv, TypeOK, InRange, Counts, plan, R
<1>5. CASE NextTarget
  <2>1. k <= Len(targets) => targets[k] \in Node
    BY <1>0
  <2>2. k \in Int /\ Len(targets) \in Nat
    BY <1>0
  <2>3. results' \in Seq(R) /\ k' \in Nat \ {0} /\ phase' \in {"next", "ask", "move", "append"}
        /\ (phase' \in {"ask", "move"} => k' = k /\ k <= Len(targets))
    BY <1>0, <1>5, <2>1, <2>2, NoteType DEF NextTarget, Continue, Statuses
  <2> QED
    BY <1>0, <1>5, <2>3 DEF NextTarget, TypeInv, TypeOK, InRange, Counts, plan, outcome, R
<1>6. CASE ConfirmTarget
  <2>1. targets[k] \in Node /\ phase = "ask"
    BY <1>0, <1>6 DEF ConfirmTarget, InRange
  <2>2. results' \in Seq(R) /\ k' \in Nat \ {0} /\ phase' \in {"next", "move"}
        /\ (phase' = "move" => k' = k)
    BY <1>0, <1>6, <2>1, NoteType DEF ConfirmTarget, Continue, Statuses
  <2>3. yes' \subseteq Node \cup {"all"}
    BY <1>0, <1>6, <2>1 DEF ConfirmTarget, TypeOK
  <2> QED
    BY <1>0, <1>6, <2>1, <2>2, <2>3 DEF ConfirmTarget, TypeInv, TypeOK, InRange, Counts, plan, outcome, R
<1>7. CASE MoveTarget
  <2>1. targets[k] \in Node /\ phase = "move"
    BY <1>0, <1>7 DEF MoveTarget, InRange
  <2>2. k' \in Nat \ {0} /\ phase' = "next"
    BY <1>0, <1>7 DEF MoveTarget, Continue
  <2>5. Note(targets[k], "failed") \/ Note(targets[k], "trashed")
    BY <1>7 DEF MoveTarget, Continue
  <2>6. results' \in Seq(R)
    BY <1>0, <2>1, <2>5, NoteType DEF Statuses
  <2>7. records' = records \/ records' = Append(records, targets[k])
    BY <1>7 DEF MoveTarget
  <2>8. records \in Seq(Node)
    BY <1>0 DEF TypeOK
  <2>3. records' \in Seq(Node)
    BY ONLY <2>1, <2>7, <2>8, AppendProperties
  <2>4. present' \subseteq Node /\ trash' \subseteq Node /\ present' \cap trash' = {}
    BY <1>0, <1>7 DEF MoveTarget, TypeOK, Subtree
  <2> QED
    BY <1>0, <1>7, <2>2, <2>3, <2>4, <2>6 DEF MoveTarget, TypeInv, TypeOK, InRange, Counts, plan, outcome, R
<1>8. CASE AppendJournal
  <2>1. results' \in Seq(R)
    BY <1>0, <1>8, NoteType DEF AppendJournal, Statuses
  <2> QED
    BY <1>0, <1>8, <2>1 DEF AppendJournal, TypeInv, TypeOK, InRange, Counts, plan, R
<1>9. CASE ExitCode
  BY <1>0, <1>9 DEF ExitCode, TypeInv, TypeOK, InRange, Counts, plan
<1>10. CASE Interrupt
  BY <1>0, <1>10 DEF Interrupt, TypeInv, TypeOK, InRange, Counts, plan, outcome
<1>11. ASSUME NEW n \in Node, Create(n) PROVE TypeInv'
  BY <1>0, <1>11 DEF Create, TypeInv, TypeOK, InRange, Counts, plan, outcome
<1>12. CASE UNCHANGED vars
  BY <1>0, <1>12 DEF vars, TypeInv, TypeOK, InRange, Counts, plan, outcome
<1> QED
  BY <1>1, <1>2, <1>3, <1>4, <1>5, <1>6, <1>7, <1>8, <1>9, <1>10, <1>11, <1>12 DEF Next

LEMMA TypeInit == Init => TypeInv
<1> SUFFICES ASSUME Init PROVE TypeInv
  OBVIOUS
<1>1. targets = <<>> /\ results = <<>> /\ records = <<>> /\ k = 1 /\ validated = 0
      /\ phase = "plan" /\ request \in Requests
  BY DEF Init, Waiting
<1>2. Len(request.operands) \in Nat
  BY <1>1, RequestType
<1>3. validated \in 0 .. Len(request.operands) /\ k \in Nat \ {0} /\ validated < k
  BY <1>1, <1>2
<1>4. results \in Seq(R) /\ targets \in Seq(Node) /\ records \in Seq(Node)
  BY <1>1
<1>5. /\ present \subseteq Node /\ trash = {} /\ yes = {} /\ cancelled = FALSE /\ declined = FALSE
      /\ journal = "none" /\ exit = None
  BY DEF Init, Waiting
<1>6. TypeOK
  BY <1>1, <1>3, <1>4, <1>5 DEF TypeOK, R
<1> QED
  BY <1>1, <1>3, <1>6 DEF TypeInv, InRange, Counts

THEOREM TypeAlways == Spec => []TypeInv
<1> QED
  BY TypeInit, TypeStep, PTL DEF Spec

(* Every variable keeps its type, and a node is in one place only, however *)
(* the command is interrupted and the tree changes under it.               *)
THEOREM TypeCorrect == Spec => []TypeOK
<1>1. TypeInv => TypeOK
  BY DEF TypeInv
<1> QED
  BY <1>1, TypeAlways, PTL
-----------------------------------------------------------------------------
(* Nothing has moved before the loop, nothing is decided before its end,   *)
(* and each prompt belongs to its mode.                                    *)
Stages ==
    /\ phase \in {"plan", "start", "once"} => trash = {} /\ records = <<>>
    /\ phase # "exit" => exit = None /\ journal = "none"
    /\ phase \in {"start", "once"} => k = 1
    /\ phase = "once" => opt.interactive = "once"
    /\ phase = "ask" => opt.interactive = "always"

(* What was there is there or in the trash. *)
Kept == Node \ Late \subseteq present \cup trash

StageInv == TypeInv /\ Stages /\ Kept

LEMMA StageStep ==
  ASSUME StageInv, [Next]_vars
  PROVE  StageInv'
<1>0. TypeInv' /\ TypeInv /\ Stages /\ Kept /\ request' = request
  BY TypeStep DEF StageInv, Next, PlanOperand, PlanDone, Start, ConfirmOnce, NextTarget,
     ConfirmTarget, MoveTarget, AppendJournal, ExitCode, Interrupt, Create, vars
<1> USE DEF StageInv, Stages, Kept, opt
<1>1. CASE PlanOperand
  BY <1>0, <1>1 DEF PlanOperand, outcome
<1>2. CASE PlanDone
  BY <1>0, <1>2 DEF PlanDone, outcome
<1>3. CASE Start
  BY <1>0, <1>3 DEF Start, outcome, NeedsOncePrompt
<1>4. CASE ConfirmOnce
  BY <1>0, <1>4 DEF ConfirmOnce
<1>5. CASE NextTarget
  BY <1>0, <1>5 DEF NextTarget, Continue, outcome
<1>6. CASE ConfirmTarget
  BY <1>0, <1>6 DEF ConfirmTarget, Continue, outcome
<1>7. CASE MoveTarget
  BY <1>0, <1>7 DEF MoveTarget, Continue, outcome
<1>8. CASE AppendJournal
  BY <1>0, <1>8 DEF AppendJournal
<1>9. CASE ExitCode
  BY <1>0, <1>9 DEF ExitCode
<1>10. CASE Interrupt
  BY <1>0, <1>10 DEF Interrupt, outcome
<1>11. ASSUME NEW n \in Node, Create(n) PROVE StageInv'
  BY <1>0, <1>11 DEF Create, outcome
<1>12. CASE UNCHANGED vars
  BY <1>0, <1>12 DEF vars, outcome
<1> QED
  BY <1>1, <1>2, <1>3, <1>4, <1>5, <1>6, <1>7, <1>8, <1>9, <1>10, <1>11, <1>12 DEF Next

LEMMA StageInit == Init => StageInv
BY TypeInit DEF Init, Waiting, StageInv, Stages, Kept
-----------------------------------------------------------------------------
(* TrashIsLeftAlone: what a move takes is not in the trash, and the chain  *)
(* of directories above it leaves the trash beside it.                     *)
LEMMA AloneStep ==
  ASSUME TypeInv, TrashIsLeftAlone, [Next]_vars
  PROVE  TrashIsLeftAlone'
<1>1. ASSUME MoveTarget, MayMove(targets[k]), trash' = trash \cup Subtree(targets[k])
      PROVE  TrashIsLeftAlone'
  <2> DEFINE n == targets[k]
  <2>1. n \in Node
    BY <1>1 DEF MoveTarget, TypeInv, TypeOK, InRange
  <2> SUFFICES ASSUME NEW m \in Subtree(n), TrashRoot # None, AtOrBelow(m, TrashRoot)
               PROVE  FALSE
    BY <1>1 DEF TrashIsLeftAlone
  <2>2. m \in Node /\ AtOrBelow(m, n) /\ TrashRoot \in Node
    BY RemovalAssumption DEF Subtree, TypeInv, TypeOK
  <2>3. AtOrBelow(n, TrashRoot) \/ AtOrBelow(TrashRoot, n)
    BY <2>1, <2>2, BothAbove
  <2> QED
    BY <1>1, <2>3 DEF MayMove
<1>2. trash' = trash \/ MoveTarget
  BY DEF Next, PlanOperand, PlanDone, Start, ConfirmOnce, NextTarget,
     ConfirmTarget, MoveTarget, AppendJournal, ExitCode, Interrupt, Create, vars
<1> QED
  BY <1>1, <1>2 DEF MoveTarget, TrashIsLeftAlone

(* No removal takes the trash root, what is in it, or a directory above    *)
(* it, from whichever operand and in whichever mode they are reached.      *)
THEOREM TrashStays == Spec => []TrashIsLeftAlone
<1>1. Init => TrashIsLeftAlone
  BY DEF Init, Waiting, TrashIsLeftAlone
<1>2. TypeInv /\ TrashIsLeftAlone /\ [Next]_vars => TrashIsLeftAlone'
  BY AloneStep
<1> QED
  BY <1>1, <1>2, TypeAlways, PTL DEF Spec
-----------------------------------------------------------------------------
(* What one operand adds to the targets of the plan.                       *)

(* c: what the walk of n finds, nothing that is a target already, each     *)
(* node once and a directory after its contents.                           *)
Listing(c, n) ==
    /\ \A i \in 1 .. Len(c) :
          c[i] \in Visited(n) \ Blocked(n) /\ \A j \in 1 .. Len(targets) : c[i] # targets[j]
    /\ \A i, j \in 1 .. Len(c) : i < j => c[i] # c[j] /\ c[i] \notin Above[c[j]]
    /\ \A m \in Visited(n) \ Blocked(n) :
          (\E j \in 1 .. Len(targets) : targets[j] = m) \/ (\E i \in 1 .. Len(c) : c[i] = m)

LEMMA WalkLists ==
  ASSUME TypeInv, NEW n \in Node
  PROVE  Listing(Unseen(Expand(n)), n)
<1> DEFINE V == Visited(n) \ Blocked(n)
           E == Chosen(Order, V)
           W == Node \ {targets[j] : j \in 1 .. Len(targets)}
           U == Chosen(E, W)
<1>1. U = Unseen(Expand(n)) /\ V \subseteq Node
  BY DEF Unseen, Expand, Visited, Subtree, TypeInv, TypeOK
<1> HIDE DEF V
<1>2. Order \in Seq(Node) /\ Len(Order) \in Nat
  BY RemovalAssumption
<1>3. PICK at : From(E, at, Order, Len(Order), V)
  BY <1>2, ChosenIs
<1>4. E \in Seq(Node)
  BY <1>2, ChosenIs
<1> HIDE DEF E
<1>5. PICK to : From(U, to, E, Len(E), W)
  BY <1>4, ChosenIs
<1>6. U \in Seq(Node)
  BY <1>4, ChosenIs
<1> HIDE DEF U
<1>7. Len(U) \in Nat /\ Len(E) \in Nat
  BY <1>4, <1>6
<1>8. \A i \in 1 .. Len(U) : /\ to[i] \in 1 .. Len(E) /\ at[to[i]] \in Positions
                             /\ U[i] = E[to[i]] /\ E[to[i]] = Order[at[to[i]]]
                             /\ U[i] \in V /\ U[i] \in W
  BY <1>3, <1>5 DEF From, Positions
<1>9. \A i, j \in 1 .. Len(U) : i < j => at[to[i]] < at[to[j]]
  BY <1>3, <1>5, <1>8 DEF From
<1>10. ASSUME NEW i \in 1 .. Len(U), NEW j \in 1 .. Len(U), i < j
       PROVE  U[i] # U[j] /\ U[i] \notin Above[U[j]]
  <2>1. at[to[i]] < at[to[j]] /\ at[to[i]] \in Positions /\ at[to[j]] \in Positions
    BY <1>8, <1>9, <1>10
  <2>2. U[i] = Order[at[to[i]]] /\ U[j] = Order[at[to[j]]]
    BY <1>8
  <2>3. at[to[i]] \in Int /\ at[to[j]] \in Int
    BY <2>1 DEF Positions
  <2>4. U[i] # U[j]
    BY <2>1, <2>2, <2>3, OrderFacts
  <2>5. ASSUME U[i] \in Above[U[j]] PROVE FALSE
    <3>1. at[to[j]] < at[to[i]]
      BY <2>1, <2>2, <2>5, AboveIsLater
    <3> QED
      BY <2>1, <2>3, <3>1
  <2> QED
    BY <2>4, <2>5
<1>11. ASSUME NEW m \in V
       PROVE  (\E j \in 1 .. Len(targets) : targets[j] = m) \/ (\E i \in 1 .. Len(U) : U[i] = m)
  <2>1. m \in Node
    BY <1>1
  <2>2. PICK x \in Positions : Order[x] = m
    BY <2>1, OrderFacts
  <2>3. PICK e \in 1 .. Len(E) : at[e] = x
    BY <1>3, <1>11, <2>2 DEF From, Positions
  <2>4. E[e] = m
    BY <1>3, <2>2, <2>3 DEF From
  <2>5. CASE m \in W
    BY <1>5, <2>4, <2>5 DEF From
  <2>6. CASE m \notin W
    BY <2>1, <2>6
  <2> QED
    BY <2>5, <2>6
<1>12. \A i \in 1 .. Len(U) :
          U[i] \in V /\ \A j \in 1 .. Len(targets) : U[i] # targets[j]
  BY <1>8
<1> QED
  BY <1>1, <1>10, <1>11, <1>12 DEF Listing, V

LEMMA UnseenAlone ==
  ASSUME TypeInv, NEW n \in Node
  PROVE  /\ \A i \in 1 .. Len(Unseen(<<n>>)) :
               Unseen(<<n>>)[i] = n /\ \A j \in 1 .. Len(targets) : targets[j] # n
         /\ \A i, j \in 1 .. Len(Unseen(<<n>>)) : i = j
         /\ (\E j \in 1 .. Len(targets) : targets[j] = n)
               \/ (\E i \in 1 .. Len(Unseen(<<n>>)) : Unseen(<<n>>)[i] = n)
<1> DEFINE W == Node \ {targets[j] : j \in 1 .. Len(targets)}
           U == Chosen(<<n>>, W)
           s == <<n>>
<1>1. U = Unseen(<<n>>)
  BY DEF Unseen
<1>2. s \in Seq(Node) /\ Len(s) = 1 /\ s[1] = n
  OBVIOUS
<1>3. PICK at : From(U, at, s, Len(s), W)
  BY <1>2, ChosenIs
<1>4. U \in Seq(Node)
  BY <1>2, ChosenIs
<1> HIDE DEF U, s
<1>5. Len(U) \in Nat
  BY <1>4
<1>6. \A i \in 1 .. Len(U) : at[i] = 1 /\ U[i] = n /\ U[i] \in W
  BY <1>2, <1>3 DEF From
<1>7. \A i, j \in 1 .. Len(U) : ~ (i < j)
  BY <1>2, <1>3, <1>6 DEF From
<1>8. \A i, j \in 1 .. Len(U) : i = j
  BY <1>5, <1>7
<1>9. n \in W => \E i \in 1 .. Len(U) : U[i] = n
  BY <1>2, <1>3, <1>6 DEF From
<1> QED
  BY <1>1, <1>6, <1>8, <1>9

LEMMA AddedTargets ==
  ASSUME targets \in Seq(Node), NEW c \in Seq(Node), targets' = targets \o c
  PROVE  /\ Len(targets) \in Nat /\ Len(c) \in Nat
         /\ Len(targets') = Len(targets) + Len(c)
         /\ \A i \in 1 .. Len(targets) : i \in 1 .. Len(targets') /\ targets'[i] = targets[i]
         /\ \A x \in 1 .. Len(c) : /\ Len(targets) + x \in 1 .. Len(targets')
                                   /\ targets'[Len(targets) + x] = c[x]
         /\ \A i \in 1 .. Len(targets') :
               i \in 1 .. Len(targets) \/ \E x \in 1 .. Len(c) : i = Len(targets) + x
<1>1. Len(targets) \in Nat /\ Len(c) \in Nat
  OBVIOUS
<1>2. /\ Len(targets') = Len(targets) + Len(c)
      /\ \A i \in 1 .. Len(targets') :
            targets'[i] = IF i <= Len(targets) THEN targets[i] ELSE c[i - Len(targets)]
  BY ConcatProperties
<1>3. ASSUME NEW i \in 1 .. Len(targets) PROVE i \in 1 .. Len(targets') /\ targets'[i] = targets[i]
  BY <1>1, <1>2
<1>4. ASSUME NEW x \in 1 .. Len(c)
      PROVE  Len(targets) + x \in 1 .. Len(targets') /\ targets'[Len(targets) + x] = c[x]
  <2>1. Len(targets) + x \in 1 .. Len(targets') /\ ~ (Len(targets) + x <= Len(targets))
        /\ (Len(targets) + x) - Len(targets) = x
    BY <1>1, <1>2
  <2> QED
    BY <1>2, <2>1
<1>5. ASSUME NEW i \in 1 .. Len(targets')
      PROVE  i \in 1 .. Len(targets) \/ \E x \in 1 .. Len(c) : i = Len(targets) + x
  <2>1. CASE i <= Len(targets)
    BY <1>1, <2>1
  <2>2. CASE ~ (i <= Len(targets))
    <3>1. i - Len(targets) \in 1 .. Len(c) /\ i = Len(targets) + (i - Len(targets))
      BY <1>1, <1>2, <2>2
    <3> QED
      BY <3>1
  <2> QED
    BY <2>1, <2>2
<1> QED
  BY <1>1, <1>2, <1>3, <1>4, <1>5

(* The three ways of PlanOperand to leave or change the targets. *)
Accepted(n) == n \in present /\ n \notin Protected
WalkAdds(n) ==
    /\ Accepted(n) /\ RequiresWalk(n)
    /\ targets' = targets \o Unseen(Expand(n))
OneAdds(n) ==
    /\ Accepted(n)
    /\ RequiresWalk(n) => \E j \in 1 .. Len(targets) : targets[j] = n
    /\ targets' = targets \o Unseen(<<n>>) /\ results' = results

LEMMA PlanCases ==
  ASSUME TypeInv, PlanOperand, NEW n, n = request.operands[k]
  PROVE  /\ n \in Node /\ k \in 1 .. Len(request.operands) /\ phase = "plan"
         /\ \/ Note(n, "failed") /\ targets' = targets
            \/ /\ n \notin Protected /\ n \notin present /\ opt.force
               /\ targets' = targets /\ results' = results /\ k' = k + 1 /\ phase' = "plan"
            \/ WalkAdds(n) /\ k' = k + 1 /\ phase' = "plan"
            \/ OneAdds(n) /\ k' = k + 1 /\ phase' = "plan"
<1>1. request.operands \in Seq(Node)
  BY RequestType DEF TypeInv, TypeOK
<1>2. n \in Node /\ k \in 1 .. Len(request.operands) /\ phase = "plan"
  BY <1>1 DEF TypeInv, TypeOK, PlanOperand
<1> QED
  BY <1>2 DEF PlanOperand, WalkAdds, OneAdds, Accepted, NotRemovable, plan
-----------------------------------------------------------------------------
(* MovedWithConsent: every target is at or below an operand, and the move  *)
(* comes after the yes of its mode.                                        *)
Covered ==
    \A j \in 1 .. Len(targets) :
        \E i \in 1 .. Len(request.operands) : AtOrBelow(targets[j], request.operands[i])
Consent ==
    /\ phase = "move" /\ opt.interactive = "always" => targets[k] \in yes
    /\ phase \in {"next", "ask", "move"} /\ NeedsOncePrompt => "all" \in yes
ConsentInv == Covered /\ Consent /\ MovedWithConsent

LEMMA Steps ==
  ASSUME [Next]_vars
  PROVE  /\ request' = request
         /\ PlanOperand \/ plan' = plan
         /\ MoveTarget \/ trash' = trash
BY DEF Next, PlanOperand, PlanDone, Start, ConfirmOnce, NextTarget, ConfirmTarget,
   MoveTarget, AppendJournal, ExitCode, Interrupt, Create, vars, plan

LEMMA CoveredStep ==
  ASSUME TypeInv, Covered, [Next]_vars
  PROVE  Covered'
<1>1. request' = request
  BY Steps
<1>2. CASE plan' = plan
  BY <1>1, <1>2 DEF plan, Covered
<1>3. CASE PlanOperand
  <2> DEFINE n == request.operands[k]
  <2>1. n \in Node /\ k \in 1 .. Len(request.operands)
    BY <1>3, PlanCases
  <2>2. targets' = targets \/ WalkAdds(n) \/ OneAdds(n)
    BY <1>3, PlanCases
  <2> HIDE DEF n
  <2>3. targets \in Seq(Node)
    BY DEF TypeInv, TypeOK
  <2>4. ASSUME NEW c \in Seq(Node), targets' = targets \o c,
               \A x \in 1 .. Len(c) : AtOrBelow(c[x], n)
        PROVE  Covered'
    <3> SUFFICES ASSUME NEW j \in 1 .. Len(targets')
                 PROVE  \E i \in 1 .. Len(request.operands) : AtOrBelow(targets'[j], request.operands[i])
      BY <1>1 DEF Covered
    <3>1. CASE j \in 1 .. Len(targets)
      BY <2>3, <2>4, <3>1, AddedTargets DEF Covered
    <3>2. ASSUME NEW x \in 1 .. Len(c), j = Len(targets) + x
          PROVE  AtOrBelow(targets'[j], n)
      BY <2>3, <2>4, <3>2, AddedTargets
    <3> QED
      BY <2>1, <2>3, <2>4, <3>1, <3>2, AddedTargets DEF n
  <2>5. CASE targets' = targets
    BY <1>1, <2>5 DEF Covered
  <2>6. CASE WalkAdds(n)
    <3>1. \A x \in 1 .. Len(Unseen(Expand(n))) : AtOrBelow(Unseen(Expand(n))[x], n)
      BY <2>1, WalkLists DEF Listing, Visited, Subtree
    <3> QED
      BY <2>1, <2>4, <2>6, <3>1, SequencesOfNodes DEF WalkAdds
  <2>7. CASE OneAdds(n)
    <3>1. \A x \in 1 .. Len(Unseen(<<n>>)) : AtOrBelow(Unseen(<<n>>)[x], n)
      BY <2>1, UnseenAlone DEF AtOrBelow
    <3> QED
      BY <2>1, <2>4, <2>7, <3>1, SequencesOfNodes DEF OneAdds
  <2> QED
    BY <2>2, <2>5, <2>6, <2>7
<1> QED
  BY <1>2, <1>3, Steps

LEMMA ConsentStep ==
  ASSUME StageInv, Consent, [Next]_vars
  PROVE  Consent'
<1>0. request' = request /\ TypeInv /\ Stages
  BY Steps DEF StageInv
<1> USE DEF Consent, NeedsOncePrompt, opt, plan
<1>1. CASE PlanOperand \/ PlanDone \/ Start \/ ConfirmOnce
  BY <1>0, <1>1 DEF PlanOperand, PlanDone, Start, ConfirmOnce, Stages
<1>2. CASE NextTarget
  BY <1>0, <1>2 DEF NextTarget, Continue
<1>3. CASE ConfirmTarget
  BY <1>0, <1>3 DEF ConfirmTarget, Continue
<1>4. CASE MoveTarget \/ AppendJournal
  BY <1>0, <1>4 DEF MoveTarget, Continue, AppendJournal
<1>5. CASE ExitCode \/ Interrupt \/ (\E n \in Node : Create(n)) \/ UNCHANGED vars
  BY <1>0, <1>5 DEF ExitCode, Interrupt, Create, vars
<1> QED
  BY <1>1, <1>2, <1>3, <1>4, <1>5 DEF Next

LEMMA MovedStep ==
  ASSUME StageInv, ConsentInv, [Next]_vars
  PROVE  MovedWithConsent'
<1>0. /\ TypeInv /\ Stages /\ Covered /\ Consent /\ MovedWithConsent
      /\ request' = request /\ (PlanOperand \/ plan' = plan)
  BY Steps DEF StageInv, ConsentInv
<1>1. CASE trash' = {}
  BY <1>1 DEF MovedWithConsent
<1>2. CASE MoveTarget
  <2> DEFINE n == targets[k]
  <2>1. n \in Node /\ k \in 1 .. Len(targets) /\ phase = "move"
    BY <1>0, <1>2 DEF MoveTarget, TypeInv, TypeOK, InRange
  <2>2. trash' \subseteq trash \cup Subtree(n) /\ yes' = yes /\ validated' = validated
    BY <1>2 DEF MoveTarget, plan
  <2>3. PICK i \in 1 .. Len(request.operands) : AtOrBelow(n, request.operands[i])
    BY <1>0, <2>1 DEF Covered
  <2>4. request.operands[i] \in Node
    BY <1>0, RequestType DEF TypeInv, TypeOK
  <2> HIDE DEF n
  <2>5. ASSUME NEW m \in Subtree(n)
        PROVE  /\ opt.interactive = "always" => ({m} \cup Above[m]) \cap yes # {}
               /\ NeedsOncePrompt => "all" \in yes
               /\ AtOrBelow(m, request.operands[i])
    <3>1. m \in Node /\ AtOrBelow(m, n)
      BY <1>0 DEF Subtree, TypeInv, TypeOK
    <3>2. AtOrBelow(m, request.operands[i])
      BY <2>1, <2>3, <2>4, <3>1, BelowIsTransitive
    <3>3. n \in {m} \cup Above[m]
      BY <3>1 DEF AtOrBelow
    <3> QED
      BY <1>0, <2>1, <3>2, <3>3 DEF Consent, n
  <2> QED
    BY <1>0, <2>2, <2>5 DEF MovedWithConsent, NeedsOncePrompt, opt
<1>3. CASE trash' = trash /\ yes \subseteq yes' /\ validated' = validated
  BY <1>0, <1>3 DEF MovedWithConsent, NeedsOncePrompt, opt
<1>4. CASE PlanOperand
  BY <1>0, <1>1, <1>4 DEF PlanOperand, Stages
<1>5. CASE ConfirmOnce
  BY <1>0, <1>1, <1>5 DEF ConfirmOnce, Stages
<1>6. \/ PlanOperand \/ ConfirmOnce \/ MoveTarget \/ yes \subseteq yes'
  BY DEF Next, PlanDone, Start, NextTarget, ConfirmTarget, AppendJournal, ExitCode,
     Interrupt, Create, vars
<1> QED
  BY <1>0, <1>1, <1>2, <1>3, <1>4, <1>5, <1>6, Steps DEF plan

(* Nothing is moved that is not at or below an operand, under -i without a *)
(* yes for it or a directory above it, under -I without the one yes for    *)
(* all, whatever the user does to the tree between prompt and move.        *)
THEOREM ConsentComesFirst == Spec => []MovedWithConsent
<1>1. Init => StageInv /\ ConsentInv
  <2> SUFFICES ASSUME Init PROVE StageInv /\ ConsentInv
    OBVIOUS
  <2>1. trash = {} /\ targets = <<>> /\ phase = "plan"
    BY DEF Init, Waiting
  <2> QED
    BY <2>1, StageInit DEF ConsentInv, Covered, Consent, MovedWithConsent
<1>2. StageInv /\ ConsentInv /\ [Next]_vars => (StageInv /\ ConsentInv)'
  <2> SUFFICES ASSUME StageInv, ConsentInv, [Next]_vars PROVE StageInv' /\ ConsentInv'
    OBVIOUS
  <2>1. StageInv'
    BY StageStep
  <2>2. Covered' /\ Consent' /\ MovedWithConsent'
    BY CoveredStep, ConsentStep, MovedStep DEF StageInv, ConsentInv
  <2> QED
    BY <2>1, <2>2 DEF ConsentInv
<1>3. ConsentInv => MovedWithConsent
  BY DEF ConsentInv
<1> QED
  BY <1>1, <1>2, <1>3, PTL DEF Spec
-----------------------------------------------------------------------------
(* MovesReachTheJournal and ZeroMeansDone need that a failure, once noted, *)
(* stays noted.                                                            *)
LEMMA NoteGrows ==
  ASSUME results \in Seq(R), NEW n \in Node \cup {None}, NEW status \in Statuses, Note(n, status)
  PROVE  HasFailures \/ status = "failed" => HasFailures'
<1>1. Result(n, status) \in R /\ Len(results) \in Nat
  BY DEF Result, R
<1>2. /\ Len(results') = Len(results) + 1 /\ results'[Len(results) + 1] = Result(n, status)
      /\ \A j \in 1 .. Len(results) : results'[j] = results[j]
  BY <1>1, AppendProperties DEF Note
<1>3. Len(results) + 1 \in 1 .. Len(results') /\ \A j \in 1 .. Len(results) : j \in 1 .. Len(results')
  BY <1>1, <1>2
<1> QED
  BY <1>2, <1>3 DEF HasFailures, Result

LEMMA NotesGrow ==
  ASSUME results \in Seq(R), NEW seq \in Seq(Node), NEW status \in Statuses,
         results' = results \o [j \in 1 .. Len(seq) |-> Result(seq[j], status)]
  PROVE  HasFailures => HasFailures'
<1> DEFINE c == [j \in 1 .. Len(seq) |-> Result(seq[j], status)]
<1>1. \A j \in 1 .. Len(seq) : Result(seq[j], status) \in R
  BY DEF Result, R
<1>2. c \in [1 .. Len(seq) -> R]
  BY <1>1
<1>3. Len(seq) \in Nat
  OBVIOUS
<1>4. c \in Seq(R)
  BY ONLY <1>2, <1>3
<1>5. results' = results \o c
  OBVIOUS
<1> HIDE DEF c
<1>6. Len(results) \in Nat /\ Len(c) \in Nat
  BY <1>4
<1>9. results \in Seq(R)
  OBVIOUS
<1>7. /\ Len(results') = Len(results) + Len(c)
      /\ \A j \in 1 .. Len(results') :
            results'[j] = IF j <= Len(results) THEN results[j] ELSE c[j - Len(results)]
  BY ONLY <1>4, <1>5, <1>9, ConcatProperties
<1>8. \A j \in 1 .. Len(results) : j \in 1 .. Len(results') /\ results'[j] = results[j]
  BY <1>6, <1>7
<1> QED
  BY <1>8 DEF HasFailures

LEMMA PlanFailuresGrow ==
  ASSUME TypeInv, PlanOperand
  PROVE  HasFailures => HasFailures'
<1> DEFINE n == request.operands[k]
<1>1. n \in Node
  BY PlanCases
<1>2. results \in Seq(R)
  BY DEF TypeInv, TypeOK, R
<1>3. Skipped(n) \in Seq(Node)
  BY <1>1, SequencesOfNodes
<1>4. \/ Note(n, "failed")
      \/ results' = results
      \/ results' = results \o [j \in 1 .. Len(Skipped(n)) |-> Result(Skipped(n)[j], "skipped")]
  BY DEF PlanOperand
<1> HIDE DEF n
<1>5. CASE Note(n, "failed")
  BY <1>1, <1>2, <1>5, NoteGrows DEF Statuses
<1>6. CASE results' = results
  BY <1>6 DEF HasFailures
<1>7. CASE results' = results \o [j \in 1 .. Len(Skipped(n)) |-> Result(Skipped(n)[j], "skipped")]
  BY <1>2, <1>3, <1>7, NotesGrow DEF Statuses
<1> QED
  BY <1>4, <1>5, <1>6, <1>7

LEMMA FailuresGrow ==
  ASSUME TypeInv, [Next]_vars
  PROVE  HasFailures => HasFailures'
<1>0. results \in Seq(R) /\ targets \in Seq(Node) /\ k \in Nat \ {0} /\ InRange /\ Len(targets) \in Nat
  BY DEF TypeInv, TypeOK, R
<1>1. CASE \E n \in Node \cup {None} : \E status \in Statuses : Note(n, status)
  BY <1>0, <1>1, NoteGrows
<1>2. CASE results' = results
  BY <1>2 DEF HasFailures
<1>3. CASE PlanOperand
  BY <1>3, PlanFailuresGrow
<1>4. CASE Start
  BY <1>1, <1>2, <1>4 DEF Start, Statuses
<1>5. CASE ConfirmOnce
  <2>1. CASE results' = results \o [j \in 1 .. Len(targets) |-> Result(targets[j], "declined")]
    BY <1>0, <2>1, NotesGrow DEF Statuses
  <2> QED
    BY <1>1, <1>2, <1>5, <2>1 DEF ConfirmOnce, Statuses
<1>6. CASE NextTarget
  <2>1. k <= Len(targets) => targets[k] \in Node
    BY <1>0
  <2>2. results' = results \/ (k <= Len(targets) /\ Note(targets[k], "failed"))
    BY <1>0, <1>6 DEF NextTarget, Continue
  <2> QED
    BY <1>1, <1>2, <2>1, <2>2 DEF Statuses
<1>7. CASE ConfirmTarget \/ MoveTarget
  <2>1. targets[k] \in Node
    BY <1>0, <1>7 DEF ConfirmTarget, MoveTarget, InRange
  <2>2. \/ results' = results \/ Note(targets[k], "failed")
        \/ Note(targets[k], "declined") \/ Note(targets[k], "trashed")
    BY <1>7 DEF ConfirmTarget, MoveTarget, Continue
  <2> QED
    BY <1>1, <1>2, <2>1, <2>2 DEF Statuses
<1>8. CASE AppendJournal
  BY <1>1, <1>2, <1>8 DEF AppendJournal, Statuses
<1>9. CASE PlanDone \/ ExitCode \/ Interrupt \/ (\E n \in Node : Create(n)) \/ UNCHANGED vars
  BY <1>2, <1>9 DEF PlanDone, ExitCode, Interrupt, Create, vars
<1> QED
  BY <1>3, <1>4, <1>5, <1>6, <1>7, <1>8, <1>9 DEF Next

(* After the append, records are in the journal or the failure is noted,   *)
(* and the exit status says so.                                            *)
Appended ==
    /\ phase = "exit" /\ records # <<>> => journal = "ok" \/ (journal = "failed" /\ HasFailures)
    /\ exit # None => phase = "exit"
    /\ exit # None /\ HasFailures => exit = 1
    /\ exit = 0 => ~HasFailures

LEMMA AppendedStep ==
  ASSUME StageInv, Appended, [Next]_vars
  PROVE  Appended'
<1>0. TypeInv /\ Stages /\ (HasFailures => HasFailures')
  BY FailuresGrow DEF StageInv
<1>1. CASE PlanOperand \/ PlanDone \/ Start \/ ConfirmOnce
  <2>1. records' = <<>> /\ exit' = None
    BY <1>0, <1>1 DEF PlanOperand, PlanDone, Start, ConfirmOnce, Stages, outcome
  <2> QED
    BY <2>1, RemovalAssumption DEF Appended
<1>2. CASE NextTarget \/ ConfirmTarget \/ MoveTarget
  <2>1. phase' # "exit" /\ exit' = None
    BY <1>0, <1>2 DEF NextTarget, ConfirmTarget, MoveTarget, Continue, Stages, outcome
  <2> QED
    BY <2>1, RemovalAssumption DEF Appended
<1>3. CASE AppendJournal
  <2>1. exit' = None /\ phase' = "exit" /\ records' = records
    BY <1>0, <1>3 DEF AppendJournal, Stages
  <2>2. results \in Seq(R) /\ None \in Node \cup {None} /\ "failed" \in Statuses
    BY <1>0 DEF TypeInv, TypeOK, R, Statuses
  <2>3. Note(None, "failed") => HasFailures'
    BY <2>2, NoteGrows
  <2>4. records # <<>> => journal' = "ok" \/ (journal' = "failed" /\ Note(None, "failed"))
    BY <1>3 DEF AppendJournal
  <2> QED
    BY <2>1, <2>3, <2>4, RemovalAssumption DEF Appended
<1>4. CASE ExitCode
  <2>1. HasFailures' <=> HasFailures
    BY <1>4 DEF ExitCode, HasFailures
  <2> QED
    BY <1>4, <2>1, RemovalAssumption DEF Appended, ExitCode
<1>5. CASE Interrupt \/ (\E n \in Node : Create(n)) \/ UNCHANGED vars
  <2>1. /\ phase' = phase /\ records' = records /\ journal' = journal /\ exit' = exit
        /\ results' = results
    BY <1>5 DEF Interrupt, Create, vars, outcome
  <2>2. HasFailures' <=> HasFailures
    BY <2>1 DEF HasFailures
  <2> QED
    BY <2>1, <2>2 DEF Appended
<1> QED
  BY <1>1, <1>2, <1>3, <1>4, <1>5 DEF Next

LEMMA AppendedInit == Init => Appended
<1>1. Init => phase = "plan" /\ exit = None /\ 0 # None
  BY RemovalAssumption DEF Init, Waiting
<1> QED
  BY <1>1 DEF Appended

THEOREM AppendedAlways == Spec => [](StageInv /\ Appended)
<1>1. Init => StageInv /\ Appended
  BY StageInit, AppendedInit
<1>2. StageInv /\ Appended /\ [Next]_vars => (StageInv /\ Appended)'
  BY StageStep, AppendedStep
<1> QED
  BY <1>1, <1>2, PTL DEF Spec

(* A command that moved something does not end without having handed its   *)
(* records to the journal, cancelled or not; and where the journal refused *)
(* them the exit status is 1.                                              *)
THEOREM MovesAreJournaled == Spec => []MovesReachTheJournal
<1>1. Appended => MovesReachTheJournal
  BY DEF Appended, MovesReachTheJournal
<1> QED
  BY <1>1, AppendedAlways, PTL
-----------------------------------------------------------------------------
(* ContentsFirst and ProtectedStays: what the plan of a walked removal     *)
(* says of the tree it walked.                                             *)

(* No target comes twice; what was below a target when the command began   *)
(* is a target before it, or past a mount; nothing protected was below it. *)
Distinct == \A i, j \in 1 .. Len(targets) : i < j => targets[i] # targets[j]
ContentsBefore ==
    Walked \/ opt.oneFileSystem =>
        \A i \in 1 .. Len(targets), m \in Node \ Late :
            targets[i] \in Above[m] =>
                PastMount(m, targets[i]) \/ \E h \in 1 .. Len(targets) : h < i /\ targets[h] = m
Spared ==
    Walked /\ ~opt.oneFileSystem =>
        \A i \in 1 .. Len(targets), m \in Protected \ Late : ~AtOrBelow(m, targets[i])
PlanInv == Distinct /\ ContentsBefore /\ Spared

(* The same of what one operand adds. *)
NewDistinct(c) ==
    /\ \A x \in 1 .. Len(c), j \in 1 .. Len(targets) : targets[j] # c[x]
    /\ \A x, y \in 1 .. Len(c) : x < y => c[x] # c[y]
NewContents(c) ==
    Walked \/ opt.oneFileSystem =>
        \A x \in 1 .. Len(c), m \in Node \ Late :
            c[x] \in Above[m] =>
                \/ PastMount(m, c[x])
                \/ \E h \in 1 .. Len(targets) : targets[h] = m
                \/ \E y \in 1 .. Len(c) : y < x /\ c[y] = m
NewSpared(c) ==
    Walked /\ ~opt.oneFileSystem =>
        \A x \in 1 .. Len(c), m \in Protected \ Late : ~AtOrBelow(m, c[x])

LEMMA WalkIsFine ==
  ASSUME TypeInv, Kept, trash = {}, NEW n \in Node,
         NEW c, Listing(c, n), Len(c) \in Nat
  PROVE  NewDistinct(c) /\ NewContents(c) /\ NewSpared(c)
<1>0. /\ \A x \in 1 .. Len(c) : c[x] \in Visited(n) \ Blocked(n) /\ c[x] \in Node /\ AtOrBelow(c[x], n)
      /\ \A x \in 1 .. Len(c) : \A j \in 1 .. Len(targets) : c[x] # targets[j]
      /\ \A x, y \in 1 .. Len(c) : x < y => c[x] # c[y] /\ c[x] \notin Above[c[y]]
      /\ Node \ Late \subseteq present /\ present \subseteq Node
  BY DEF Listing, Visited, Subtree, Kept, TypeInv, TypeOK
<1>1. NewDistinct(c)
  BY <1>0 DEF NewDistinct
<1>2. ASSUME NEW x \in 1 .. Len(c), NEW m \in Node \ Late, AtOrBelow(m, c[x])
      PROVE  m \in Subtree(n)
  <2>1. AtOrBelow(m, n)
    BY <1>0, <1>2, BelowIsTransitive
  <2> QED
    BY <1>0, <2>1 DEF Subtree
<1>3. ASSUME NEW x \in 1 .. Len(c), NEW m \in Node \ Late, AtOrBelow(m, c[x]), m \in Visited(n)
      PROVE  m \notin Protected
  <2>1. c[x] \in {m} \cup Above[m]
    BY <1>3 DEF AtOrBelow
  <2> QED
    BY <1>0, <1>3, <2>1 DEF Blocked
<1>4. ASSUME NEW x \in 1 .. Len(c), NEW m \in Node \ Late, c[x] \in Above[m], ~PastMount(m, c[x])
      PROVE  m \in Visited(n)
  <2>1. m \in Subtree(n)
    BY <1>2, <1>4 DEF AtOrBelow
  <2>2. ASSUME opt.oneFileSystem, NEW a \in {m} \cup Above[m], AtOrBelow(a, n)
        PROVE  Dev[a] = Dev[n]
    <3>1. a \in Node
      BY AboveAreDirs, OrderFacts
    <3>2. AtOrBelow(m, a) /\ AtOrBelow(m, c[x])
      BY <1>4 DEF AtOrBelow
    <3>3. \A b \in {c[x]} \cup Above[c[x]] : AtOrBelow(b, n) => Dev[b] = Dev[n]
      BY <1>0, <2>2 DEF Visited
    <3>4. Dev[c[x]] = Dev[n]
      BY <1>0, <3>3
    <3>5. AtOrBelow(a, c[x]) \/ AtOrBelow(c[x], a)
      BY <1>0, <3>1, <3>2, BothAbove
    <3>6. CASE AtOrBelow(a, c[x])
      BY <1>4, <2>2, <3>4, <3>6 DEF PastMount
    <3>7. CASE AtOrBelow(c[x], a)
      BY <2>2, <3>3, <3>7 DEF AtOrBelow
    <3> QED
      BY <3>5, <3>6, <3>7
  <2> QED
    BY <2>1, <2>2 DEF Visited
<1>5. NewContents(c)
  <2> SUFFICES ASSUME NEW x \in 1 .. Len(c), NEW m \in Node \ Late, c[x] \in Above[m],
                      ~PastMount(m, c[x])
               PROVE  \/ \E h \in 1 .. Len(targets) : targets[h] = m
                      \/ \E y \in 1 .. Len(c) : y < x /\ c[y] = m
    BY DEF NewContents
  <2>1. m \in Visited(n)
    BY <1>4
  <2>2. ASSUME m \in Blocked(n) PROVE FALSE
    <3>1. PICK p \in Visited(n) \cap Protected : m \in {p} \cup Above[p]
      BY <2>2 DEF Blocked
    <3>2. p \in Node
      BY <1>0, <3>1 DEF Visited, Subtree
    <3>3. c[x] \in Above[p]
      BY <3>1, <3>2, AboveIsTransitive
    <3> QED
      BY <1>0, <3>1, <3>3 DEF Blocked
  <2>3. CASE \E h \in 1 .. Len(targets) : targets[h] = m
    BY <2>3
  <2>4. ASSUME NEW y \in 1 .. Len(c), c[y] = m PROVE y < x
    <3>1. ~ (x < y) /\ x # y
      BY <1>0, <2>4, NotAboveItself
    <3> QED
      BY <3>1
  <2> QED
    BY <2>1, <2>2, <2>3, <2>4 DEF Listing
<1>6. NewSpared(c)
  <2> SUFFICES ASSUME ~opt.oneFileSystem, NEW x \in 1 .. Len(c), NEW m \in Protected \ Late,
                      AtOrBelow(m, c[x])
               PROVE  FALSE
    BY DEF NewSpared
  <2>1. m \in Node \ Late
    BY DEF Protected
  <2>2. m \in Visited(n)
    BY <1>2, <2>1 DEF Visited
  <2> QED
    BY <1>3, <2>1, <2>2
<1> QED
  BY <1>1, <1>5, <1>6

LEMMA OneIsFine ==
  ASSUME TypeInv, NEW n \in Node, OneAdds(n)
  PROVE  /\ NewDistinct(Unseen(<<n>>)) /\ NewContents(Unseen(<<n>>))
         /\ NewSpared(Unseen(<<n>>))
<1> DEFINE c == Unseen(<<n>>)
<1>1. /\ \A x \in 1 .. Len(c) : c[x] = n
      /\ \A x \in 1 .. Len(c) : \A j \in 1 .. Len(targets) : targets[j] # c[x]
      /\ \A x, y \in 1 .. Len(c) : x = y
      /\ Len(c) \in Nat
  <2>1. /\ \A x \in 1 .. Len(c) : c[x] = n /\ \A j \in 1 .. Len(targets) : targets[j] # n
        /\ \A x, y \in 1 .. Len(c) : x = y
    BY UnseenAlone
  <2>2. c \in Seq(Node)
    BY SequencesOfNodes
  <2> HIDE DEF c
  <2> QED
    BY <2>1, <2>2
<1>2. ASSUME NEW x \in 1 .. Len(c), Walked \/ opt.oneFileSystem PROVE n \notin Dir
  BY <1>1, <1>2 DEF OneAdds, RequiresWalk, Walked
<1> HIDE DEF c
<1>3. NewDistinct(c)
  BY <1>1 DEF NewDistinct
<1>4. NewContents(c)
  BY <1>1, <1>2, AboveAreDirs DEF NewContents
<1>5. NewSpared(c)
  <2> SUFFICES ASSUME Walked, NEW x \in 1 .. Len(c), NEW m \in Protected, AtOrBelow(m, c[x])
               PROVE  FALSE
    BY DEF NewSpared
  <2>1. m \in Node /\ AtOrBelow(m, n) /\ n \notin Dir
    BY <1>1, <1>2 DEF Protected
  <2>2. m = n
    BY <2>1, FilesAreLeaves
  <2> QED
    BY <2>2 DEF OneAdds, Accepted
<1> QED
  BY <1>3, <1>4, <1>5 DEF c

LEMMA GrownPlan ==
  ASSUME TypeInv, PlanInv, NEW c \in Seq(Node), targets' = targets \o c, request' = request,
         NewDistinct(c), NewContents(c), NewSpared(c)
  PROVE  PlanInv'
<1>1. targets \in Seq(Node)
  BY DEF TypeInv, TypeOK
<1> DEFINE l == Len(targets)
<1>2. l \in Nat /\ Len(c) \in Nat
  BY <1>1
<1>3. /\ \A i \in 1 .. l : i \in 1 .. Len(targets') /\ targets'[i] = targets[i]
      /\ \A x \in 1 .. Len(c) : l + x \in 1 .. Len(targets') /\ targets'[l + x] = c[x]
      /\ \A i \in 1 .. Len(targets') : i \in 1 .. l \/ \E x \in 1 .. Len(c) : i = l + x
  BY <1>1, AddedTargets
<1>4. Distinct'
  <2> SUFFICES ASSUME NEW i \in 1 .. Len(targets'), NEW j \in 1 .. Len(targets'), i < j
               PROVE  targets'[i] # targets'[j]
    BY DEF Distinct
  <2>1. CASE i \in 1 .. l /\ j \in 1 .. l
    BY <1>3, <2>1 DEF PlanInv, Distinct
  <2>2. ASSUME i \in 1 .. l, NEW y \in 1 .. Len(c), j = l + y PROVE targets'[i] # targets'[j]
    <3>1. targets'[i] = targets[i] /\ targets'[j] = c[y]
      BY ONLY <1>3, <2>2
    <3> QED
      BY ONLY <2>2, <3>1, NewDistinct(c) DEF NewDistinct
  <2>3. ASSUME NEW x \in 1 .. Len(c), i = l + x, j \in 1 .. l PROVE FALSE
    BY <1>2, <2>3
  <2>4. ASSUME NEW x \in 1 .. Len(c), i = l + x, NEW y \in 1 .. Len(c), j = l + y
        PROVE  targets'[i] # targets'[j]
    <3>1. x < y
      BY <1>2, <2>4
    <3> QED
      BY <1>3, <2>4, <3>1 DEF NewDistinct
  <2> QED
    BY <1>3, <2>1, <2>2, <2>3, <2>4
<1>5. ContentsBefore'
  <2> SUFFICES ASSUME Walked \/ opt.oneFileSystem,
                      NEW i \in 1 .. Len(targets'), NEW m \in Node \ Late,
                      targets'[i] \in Above[m], ~PastMount(m, targets'[i])
               PROVE  \E h \in 1 .. Len(targets') : h < i /\ targets'[h] = m
    BY DEF ContentsBefore, Walked, opt, PastMount
  <2>1. CASE i \in 1 .. l
    <3>1. PICK h \in 1 .. l : h < i /\ targets[h] = m
      BY <1>3, <2>1 DEF PlanInv, ContentsBefore
    <3> QED
      BY <1>3, <3>1
  <2>2. ASSUME NEW x \in 1 .. Len(c), i = l + x
        PROVE  \E h \in 1 .. Len(targets') : h < i /\ targets'[h] = m
    <3>1. \/ \E h \in 1 .. l : targets[h] = m
          \/ \E y \in 1 .. Len(c) : y < x /\ c[y] = m
      BY <1>3, <2>2 DEF NewContents
    <3>2. ASSUME NEW h \in 1 .. l, targets[h] = m
          PROVE  \E g \in 1 .. Len(targets') : g < i /\ targets'[g] = m
      <4>1. h < i
        BY <1>2, <2>2
      <4> QED
        BY <1>3, <3>2, <4>1
    <3>3. ASSUME NEW y \in 1 .. Len(c), y < x, c[y] = m
          PROVE  \E g \in 1 .. Len(targets') : g < i /\ targets'[g] = m
      <4>1. l + y < i
        BY <1>2, <2>2, <3>3
      <4> QED
        BY <1>3, <3>3, <4>1
    <3> QED
      BY <3>1, <3>2, <3>3
  <2> QED
    BY <1>3, <2>1, <2>2
<1>6. Spared'
  <2> SUFFICES ASSUME Walked, ~opt.oneFileSystem, NEW i \in 1 .. Len(targets'),
                      NEW m \in Protected \ Late
               PROVE  ~AtOrBelow(m, targets'[i])
    BY DEF Spared, Walked, opt, Protected, Refused, Matches
  <2>1. CASE i \in 1 .. l
    BY <1>3, <2>1 DEF PlanInv, Spared
  <2>2. ASSUME NEW x \in 1 .. Len(c), i = l + x PROVE ~AtOrBelow(m, targets'[i])
    BY <1>3, <2>2 DEF NewSpared
  <2> QED
    BY <1>3, <2>1, <2>2
<1> QED
  BY <1>4, <1>5, <1>6 DEF PlanInv

LEMMA PlanStep ==
  ASSUME StageInv, PlanInv, [Next]_vars
  PROVE  PlanInv'
<1>0. TypeInv /\ Stages /\ Kept /\ request' = request
  BY Steps DEF StageInv
<1>1. CASE targets' = targets
  <2>1. Distinct'
    BY <1>1 DEF PlanInv, Distinct
  <2>2. ContentsBefore'
    BY <1>0, <1>1 DEF PlanInv, ContentsBefore, Walked, opt, PastMount
  <2>3. Spared'
    BY <1>0, <1>1 DEF PlanInv, Spared, Walked, opt, Protected, Refused, Matches
  <2> QED
    BY <2>1, <2>2, <2>3 DEF PlanInv
<1>2. CASE PlanOperand
  <2> DEFINE n == request.operands[k]
  <2>1. n \in Node /\ phase = "plan"
    BY <1>0, <1>2, PlanCases
  <2>2. targets' = targets \/ WalkAdds(n) \/ OneAdds(n)
    BY <1>0, <1>2, PlanCases
  <2> HIDE DEF n
  <2>3. trash = {}
    BY <1>0, <2>1 DEF Stages
  <2>4. CASE WalkAdds(n)
    <3> DEFINE c == Unseen(Expand(n))
    <3>1. c \in Seq(Node) /\ Listing(c, n) /\ targets' = targets \o c
      BY <1>0, <2>1, <2>4, SequencesOfNodes, WalkLists DEF WalkAdds
    <3> HIDE DEF c
    <3>2. Len(c) \in Nat
      BY <3>1
    <3>3. NewDistinct(c) /\ NewContents(c) /\ NewSpared(c)
      BY <1>0, <2>1, <2>3, <3>1, <3>2, WalkIsFine
    <3> QED
      BY <1>0, <3>1, <3>3, GrownPlan
  <2>5. CASE OneAdds(n)
    <3> DEFINE c == Unseen(<<n>>)
    <3>1. c \in Seq(Node) /\ targets' = targets \o c
      BY <2>1, <2>5, SequencesOfNodes DEF OneAdds
    <3>2. NewDistinct(c) /\ NewContents(c) /\ NewSpared(c)
      BY <1>0, <2>1, <2>5, OneIsFine
    <3> HIDE DEF c
    <3> QED
      BY <1>0, <3>1, <3>2, GrownPlan
  <2> QED
    BY <1>1, <2>2, <2>4, <2>5
<1> QED
  BY <1>1, <1>2, Steps DEF plan

LEMMA PlanInit == Init => PlanInv
<1>1. Init => targets = <<>>
  BY DEF Init, Waiting
<1> QED
  BY <1>1 DEF PlanInv, Distinct, ContentsBefore, Spared

THEOREM PlanAlways == Spec => [](StageInv /\ PlanInv)
<1>1. Init => StageInv /\ PlanInv
  BY StageInit, PlanInit
<1>2. StageInv /\ PlanInv /\ [Next]_vars => (StageInv /\ PlanInv)'
  BY StageStep, PlanStep
<1> QED
  BY <1>1, <1>2, PTL DEF Spec

LEMMA PlanIsOrdered == StageInv /\ PlanInv => ContentsFirst
<1> SUFFICES ASSUME StageInv, PlanInv, Walked \/ opt.oneFileSystem,
                    NEW i \in 1 .. Len(targets), NEW j \in 1 .. Len(targets), i < j,
                    targets[i] \in Above[targets[j]], targets[j] \notin Late,
                    ~PastMount(targets[j], targets[i])
             PROVE  FALSE
  BY DEF ContentsFirst
<1>3. targets[j] \in Node
  BY DEF StageInv, TypeInv, TypeOK
<1>1. PICK h \in 1 .. Len(targets) : h < i /\ targets[h] = targets[j]
  BY <1>3 DEF PlanInv, ContentsBefore
<1>2. h < j
  BY <1>1
<1> QED
  BY <1>1, <1>2 DEF PlanInv, Distinct

(* In a walked removal a directory is planned after what was below it when *)
(* the command began, whichever operands overlap and whatever the user     *)
(* creates between the walks: no move takes a later target away.           *)
THEOREM ContentsComeFirst == Spec => []ContentsFirst
<1> QED
  BY PlanIsOrdered, PlanAlways, PTL

LEMMA ProtectedStep ==
  ASSUME StageInv, PlanInv, ProtectedStays, [Next]_vars
  PROVE  ProtectedStays'
<1>0. TypeInv /\ request' = request /\ (MoveTarget \/ trash' = trash)
  BY Steps DEF StageInv
<1>1. trash' \ trash \subseteq Subtree(targets[k]) /\ (trash' # trash => k \in 1 .. Len(targets))
  BY <1>0 DEF MoveTarget, TypeInv, TypeOK, InRange
<1> SUFFICES ASSUME Walked, ~opt.oneFileSystem, NEW m \in Protected, m \in trash', m \notin Late
             PROVE  FALSE
  BY <1>0 DEF ProtectedStays, Walked, opt, Protected, Refused, Matches
<1>2. m \notin trash
  BY DEF ProtectedStays
<1>3. k \in 1 .. Len(targets) /\ AtOrBelow(m, targets[k])
  BY <1>1, <1>2 DEF Subtree
<1> QED
  BY <1>3 DEF PlanInv, Spared

(* Where the operands are walked within one file system, nothing protected *)
(* leaves its place, neither as a target nor inside one, but for what came *)
(* there after the walk.                                                   *)
THEOREM ProtectedStaysAlways == Spec => []ProtectedStays
<1>1. Init => ProtectedStays
  BY DEF Init, Waiting, ProtectedStays
<1>2. StageInv /\ PlanInv /\ ProtectedStays /\ [Next]_vars => ProtectedStays'
  BY ProtectedStep
<1> QED
  BY <1>1, <1>2, PlanAlways, PTL DEF Spec
-----------------------------------------------------------------------------
(* ZeroMeansDone: as long as nothing failed, the operands that the plan is *)
(* past are met, and the targets that the loop is past have moved.         *)
Met(n) ==
    \/ \E i \in 1 .. Len(targets) : targets[i] = n
    \/ n \in Late /\ opt.force
    \/ RequiresWalk(n) /\ \E m \in Protected : AtOrBelow(m, n)
Moved(n) == n \in trash /\ \E r \in 1 .. Len(records) : records[r] = n
OperandsMet ==
    opt.interactive = "never" /\ ~HasFailures =>
        \A j \in 1 .. Len(request.operands) : phase # "plan" \/ j < k => Met(request.operands[j])
TargetsMoved ==
    opt.interactive = "never" /\ ~HasFailures =>
        \A i \in 1 .. Len(targets) :
            phase \in {"append", "exit"} \/ (phase \in {"next", "move"} /\ i < k) =>
                Moved(targets[i])

LEMMA WalkedIsMet ==
  ASSUME TypeInv, NEW n \in Node, WalkAdds(n)
  PROVE  (\E i \in 1 .. Len(targets') : targets'[i] = n) \/ \E m \in Protected : AtOrBelow(m, n)
<1> DEFINE c == Unseen(Expand(n))
<1>1. c \in Seq(Node) /\ Listing(c, n) /\ targets' = targets \o c /\ targets \in Seq(Node)
  BY SequencesOfNodes, WalkLists DEF WalkAdds, TypeInv, TypeOK
<1> HIDE DEF c
<1>2. CASE n \in Blocked(n)
  <2>1. PICK p \in Visited(n) \cap Protected : n \in {p} \cup Above[p]
    BY <1>2 DEF Blocked
  <2> QED
    BY <2>1 DEF AtOrBelow
<1>3. CASE n \notin Blocked(n)
  <2>1. n \in Subtree(n)
    BY DEF WalkAdds, Accepted, Subtree, AtOrBelow
  <2>2. ASSUME NEW a \in {n} \cup Above[n], AtOrBelow(a, n) PROVE Dev[a] = Dev[n]
    <3>1. CASE a # n
      <4>1. a \in Above[n] /\ n \in Above[a] /\ a \in Node
        BY <2>2, <3>1, AboveAreDirs, OrderFacts DEF AtOrBelow
      <4>2. n \in Above[n]
        BY <4>1, AboveIsTransitive
      <4> QED
        BY <4>2, NotAboveItself
    <3> QED
      BY <3>1
  <2>3. n \in Visited(n)
    BY <2>1, <2>2 DEF Visited
  <2>4. (\E j \in 1 .. Len(targets) : targets[j] = n) \/ (\E x \in 1 .. Len(c) : c[x] = n)
    BY <1>1, <1>3, <2>3 DEF Listing
  <2>5. /\ \A i \in 1 .. Len(targets) : i \in 1 .. Len(targets') /\ targets'[i] = targets[i]
        /\ \A x \in 1 .. Len(c) : /\ Len(targets) + x \in 1 .. Len(targets')
                                  /\ targets'[Len(targets) + x] = c[x]
    BY <1>1, AddedTargets
  <2> QED
    BY <2>4, <2>5
<1> QED
  BY <1>2, <1>3

LEMMA OperandsMetStep ==
  ASSUME StageInv, OperandsMet, [Next]_vars
  PROVE  OperandsMet'
<1>0. /\ TypeInv /\ Stages /\ Kept /\ request' = request /\ (HasFailures => HasFailures')
      /\ (PlanOperand \/ targets' = targets)
  BY Steps, FailuresGrow DEF StageInv, plan
<1> SUFFICES ASSUME opt.interactive = "never", ~HasFailures',
                    NEW j \in 1 .. Len(request.operands), phase' # "plan" \/ j < k'
             PROVE  Met(request.operands[j])'
  BY <1>0 DEF OperandsMet, opt
<1>1. CASE PlanOperand
  <2> DEFINE n == request.operands[k]
  <2>1. n \in Node /\ phase = "plan" /\ k \in 1 .. Len(request.operands) /\ targets \in Seq(Node)
    BY <1>0, <1>1, PlanCases DEF TypeInv, TypeOK
  <2>2. \/ Note(n, "failed")
        \/ /\ n \notin present /\ opt.force /\ targets' = targets
           /\ k' = k + 1 /\ phase' = "plan"
        \/ WalkAdds(n) /\ k' = k + 1 /\ phase' = "plan"
        \/ OneAdds(n) /\ k' = k + 1 /\ phase' = "plan"
    BY <1>0, <1>1, PlanCases
  <2> HIDE DEF n
  <2>3. ~Note(n, "failed")
    BY <1>0, <2>1, NoteGrows DEF TypeInv, TypeOK, R, Statuses
  <2>4. j < k \/ j = k
    BY <2>1, <2>2, <2>3
  <2>5. \A i \in 1 .. Len(targets) : i \in 1 .. Len(targets') /\ targets'[i] = targets[i]
    <3>1. CASE targets' = targets
      BY <3>1
    <3>2. CASE WalkAdds(n)
      BY <2>1, <3>2, SequencesOfNodes, AddedTargets DEF WalkAdds
    <3>3. CASE OneAdds(n)
      BY <2>1, <3>3, SequencesOfNodes, AddedTargets DEF OneAdds
    <3> QED
      BY <2>2, <2>3, <3>1, <3>2, <3>3
  <2>6. CASE j < k
    <3>1. Met(request.operands[j])
      BY <1>0, <2>6 DEF OperandsMet
    <3> QED
      BY <1>0, <2>5, <3>1 DEF Met, opt, RequiresWalk, Protected, Refused, Matches
  <2>7. CASE j = k
    <3>1. CASE n \notin present /\ opt.force
      <4>1. n \in Late
        BY <1>0, <2>1, <3>1 DEF Kept, Stages
      <4> QED
        BY <1>0, <2>7, <3>1, <4>1 DEF Met, opt, n
    <3>2. CASE WalkAdds(n)
      <4>1. (\E i \in 1 .. Len(targets') : targets'[i] = n)
            \/ (RequiresWalk(n) /\ \E m \in Protected : AtOrBelow(m, n))
        BY <1>0, <2>1, <3>2, WalkedIsMet DEF WalkAdds
      <4> QED
        BY <1>0, <2>7, <4>1 DEF Met, opt, n, RequiresWalk, Protected, Refused, Matches
    <3>3. CASE OneAdds(n)
      <4>1. (\E i \in 1 .. Len(targets) : targets[i] = n)
            \/ (\E x \in 1 .. Len(Unseen(<<n>>)) : Unseen(<<n>>)[x] = n)
        BY <1>0, <2>1, UnseenAlone
      <4>2. \E i \in 1 .. Len(targets') : targets'[i] = n
        BY <2>1, <3>3, <4>1, SequencesOfNodes, AddedTargets DEF OneAdds
      <4> QED
        BY <1>0, <2>7, <4>2 DEF Met, n
    <3> QED
      BY <2>2, <2>3, <3>1, <3>2, <3>3
  <2> QED
    BY <2>4, <2>6, <2>7
<1>2. CASE targets' = targets /\ (phase # "plan" \/ j < k)
  <2>1. Met(request.operands[j])
    BY <1>0, <1>2 DEF OperandsMet
  <2> QED
    BY <1>0, <1>2, <2>1 DEF Met, opt, RequiresWalk, Protected, Refused, Matches
<1>3. CASE PlanDone
  <2>1. k \in Nat /\ k > Len(request.operands) /\ Len(request.operands) \in Nat
    BY <1>0, <1>3, RequestType DEF PlanDone, TypeInv, TypeOK
  <2>2. j < k
    BY <2>1
  <2> QED
    BY <1>0, <1>2, <1>3, <2>2 DEF PlanDone, plan
<1>4. \/ PlanOperand \/ PlanDone \/ phase # "plan" \/ (phase' = phase /\ k' = k)
  BY DEF Next, Start, ConfirmOnce, NextTarget, ConfirmTarget, MoveTarget, AppendJournal,
     ExitCode, Interrupt, Create, vars
<1> QED
  BY <1>0, <1>1, <1>2, <1>3, <1>4

LEMMA TargetsMovedStep ==
  ASSUME StageInv, TargetsMoved, [Next]_vars
  PROVE  TargetsMoved'
<1>0. /\ TypeInv /\ Stages /\ request' = request /\ (HasFailures => HasFailures')
      /\ (PlanOperand \/ targets' = targets)
  BY Steps, FailuresGrow DEF StageInv, plan
<1> SUFFICES ASSUME opt.interactive = "never", ~HasFailures, ~HasFailures',
                    NEW i \in 1 .. Len(targets'),
                    phase' \in {"append", "exit"} \/ (phase' \in {"next", "move"} /\ i < k')
             PROVE  Moved(targets[i])' /\ targets'[i] = targets[i]
  BY <1>0 DEF TargetsMoved, opt
<1>1. k \in Nat /\ Len(targets) \in Nat /\ results \in Seq(R) /\ "failed" \in Statuses
      /\ targets \in Seq(Node) /\ records \in Seq(Node)
  BY <1>0 DEF TypeInv, TypeOK, R, Statuses
<1>2. \A n \in Node \cup {None} : ~Note(n, "failed")
  BY <1>1, NoteGrows
<1>3. CASE PlanOperand
  <2>1. phase' \in {"plan", "start"}
    BY <1>0, <1>3 DEF PlanOperand
  <2> QED
    BY <2>1
<1>4. CASE PlanDone
  BY <1>4 DEF PlanDone
<1>5. CASE Start
  <2>1. k' = 1 /\ phase' \in {"once", "next"}
    BY <1>0, <1>2, <1>5 DEF Start, Stages
  <2> QED
    BY <1>0, <1>5, <2>1 DEF Start
<1>6. CASE ConfirmOnce \/ ConfirmTarget
  BY <1>0, <1>6 DEF ConfirmOnce, ConfirmTarget, Stages
<1>7. CASE /\ Moved(targets[i]) /\ targets' = targets
           /\ trash' = trash /\ records' = records
  BY <1>7 DEF Moved
<1>8. CASE NextTarget
  <2>1. k <= Len(targets) => targets[k] \in Node
    BY <1>0, <1>1 DEF TypeInv, TypeOK
  <2>2. k > Len(targets) \/ (phase' = "move" /\ k' = k)
    BY <1>0, <1>1, <1>2, <1>8, <2>1 DEF NextTarget, Continue, opt
  <2>3. phase = "next" /\ i < k
    BY <1>0, <1>1, <1>8, <2>2 DEF NextTarget, plan
  <2>4. Moved(targets[i])
    BY <1>0, <1>8, <2>3 DEF TargetsMoved, NextTarget, plan
  <2> QED
    BY <1>7, <1>8, <2>4 DEF NextTarget, plan
<1>9. CASE MoveTarget
  <2> DEFINE n == targets[k]
  <2>1. n \in Node /\ phase = "move"
    BY <1>0, <1>9 DEF MoveTarget, TypeInv, TypeOK, InRange
  <2>2. /\ MayMove(n) /\ trash' = trash \cup Subtree(n) /\ records' = Append(records, n)
        /\ k' = k + 1 /\ phase' = "next" /\ targets' = targets
    BY <1>2, <1>9, <2>1 DEF MoveTarget, Continue, plan
  <2>3. i < k \/ i = k
    BY <1>1, <2>2
  <2>4. /\ Len(records') = Len(records) + 1 /\ records'[Len(records) + 1] = n
        /\ \A r \in 1 .. Len(records) : records'[r] = records[r]
        /\ Len(records) \in Nat
    BY <1>1, <2>1, <2>2, AppendProperties
  <2>5. Len(records) + 1 \in 1 .. Len(records') /\ \A r \in 1 .. Len(records) : r \in 1 .. Len(records')
    BY <2>4
  <2>6. CASE i = k
    <3>1. n \in trash'
      BY <2>2 DEF MayMove, Subtree, AtOrBelow
    <3> QED
      BY <2>2, <2>4, <2>5, <2>6, <3>1 DEF Moved
  <2>7. CASE i < k
    <3>1. Moved(targets[i])
      BY <1>0, <2>1, <2>2, <2>7 DEF TargetsMoved
    <3> QED
      BY <2>2, <2>4, <2>5, <3>1 DEF Moved
  <2> QED
    BY <2>3, <2>6, <2>7
<1>10. CASE AppendJournal
  <2>1. Moved(targets[i])
    BY <1>0, <1>10 DEF AppendJournal, TargetsMoved, plan
  <2> QED
    BY <1>7, <1>10, <2>1 DEF AppendJournal, plan
<1>11. CASE ExitCode \/ Interrupt \/ (\E m \in Node : Create(m)) \/ UNCHANGED vars
  <2>1. /\ phase' = phase /\ k' = k /\ targets' = targets /\ trash' = trash /\ records' = records
    BY <1>11 DEF ExitCode, Interrupt, Create, vars, plan
  <2>2. Moved(targets[i])
    BY <2>1 DEF TargetsMoved
  <2> QED
    BY <1>7, <2>1, <2>2
<1> QED
  BY <1>3, <1>4, <1>5, <1>6, <1>8, <1>9, <1>10, <1>11 DEF Next

LEMMA DoneInit == Init => OperandsMet /\ TargetsMoved
<1>1. Init => targets = <<>> /\ phase = "plan" /\ k = 1
  BY DEF Init, Waiting
<1> QED
  BY <1>1, RequestType DEF OperandsMet, TargetsMoved

THEOREM DoneAlways == Spec => [](StageInv /\ Appended /\ OperandsMet /\ TargetsMoved)
<1>1. Init => StageInv /\ Appended /\ OperandsMet /\ TargetsMoved
  BY StageInit, AppendedInit, DoneInit
<1>2. StageInv /\ Appended /\ OperandsMet /\ TargetsMoved /\ [Next]_vars
        => (StageInv /\ Appended /\ OperandsMet /\ TargetsMoved)'
  BY StageStep, AppendedStep, OperandsMetStep, TargetsMovedStep
<1> QED
  BY <1>1, <1>2, PTL DEF Spec

LEMMA ZeroFollows == StageInv /\ Appended /\ OperandsMet /\ TargetsMoved => ZeroMeansDone
<1> SUFFICES ASSUME StageInv, Appended, OperandsMet, TargetsMoved,
                    exit = 0, opt.interactive = "never",
                    NEW j \in 1 .. Len(request.operands), NEW n, n = request.operands[j]
             PROVE  \/ n \in trash /\ Journaled(n)
                    \/ n \in Late /\ opt.force
                    \/ \E m \in Protected : AtOrBelow(m, n) /\ RequiresWalk(n)
  BY DEF ZeroMeansDone
<1>1. exit # None /\ phase = "exit" /\ ~HasFailures
  BY RemovalAssumption DEF Appended
<1>2. Met(n)
  BY <1>1 DEF OperandsMet
<1>3. ASSUME NEW i \in 1 .. Len(targets), targets[i] = n PROVE n \in trash /\ Journaled(n)
  <2>1. Moved(n)
    BY <1>1, <1>3 DEF TargetsMoved
  <2>2. PICK r \in 1 .. Len(records) : records[r] = n
    BY <2>1 DEF Moved
  <2>3. records # <<>>
    BY <2>2
  <2>4. journal = "ok"
    BY <1>1, <2>3 DEF Appended
  <2> QED
    BY <2>1, <2>2, <2>4 DEF Moved, Journaled, AtOrBelow
<1> QED
  BY <1>2, <1>3 DEF Met

(* Exit status 0 without prompts keeps what it promises: every operand is  *)
(* in the trash and in the journal, or was missing under -f, or has        *)
(* something protected at or below it.                                     *)
THEOREM ZeroIsDone == Spec => []ZeroMeansDone
<1> QED
  BY ZeroFollows, DoneAlways, PTL
-----------------------------------------------------------------------------
(* All of it at once, for a process that comes to be a removal.            *)
RemovalInv ==
    /\ StageInv /\ TrashIsLeftAlone /\ ConsentInv /\ Appended /\ PlanInv /\ ProtectedStays
    /\ OperandsMet /\ TargetsMoved

LEMMA RemovalInit == Init => RemovalInv
<1> SUFFICES ASSUME Init PROVE RemovalInv
  OBVIOUS
<1>1. trash = {} /\ targets = <<>> /\ phase = "plan"
  BY DEF Init, Waiting
<1>2. ConsentInv /\ TrashIsLeftAlone /\ ProtectedStays
  BY <1>1 DEF ConsentInv, Covered, Consent, MovedWithConsent, TrashIsLeftAlone, ProtectedStays
<1> QED
  BY <1>2, StageInit, AppendedInit, PlanInit, DoneInit DEF RemovalInv

LEMMA RemovalNext == RemovalInv /\ [Next]_vars => RemovalInv'
<1> SUFFICES ASSUME RemovalInv, [Next]_vars PROVE RemovalInv'
  OBVIOUS
<1>1. /\ TypeInv /\ StageInv /\ TrashIsLeftAlone /\ ConsentInv /\ Appended /\ PlanInv
      /\ ProtectedStays /\ OperandsMet /\ TargetsMoved
  BY DEF RemovalInv, StageInv
<1>2. ConsentInv'
  BY <1>1, CoveredStep, ConsentStep, MovedStep DEF StageInv, ConsentInv
<1>3. StageInv' /\ TrashIsLeftAlone' /\ Appended' /\ PlanInv' /\ ProtectedStays'
  BY <1>1, StageStep, AloneStep, AppendedStep, PlanStep, ProtectedStep
<1>4. OperandsMet' /\ TargetsMoved'
  BY <1>1, OperandsMetStep, TargetsMovedStep
<1> QED
  BY <1>2, <1>3, <1>4 DEF RemovalInv

LEMMA RemovalPromises ==
  RemovalInv => /\ TypeOK /\ ProtectedStays /\ ContentsFirst /\ MovedWithConsent /\ TrashIsLeftAlone
                /\ MovesReachTheJournal /\ ZeroMeansDone
<1> SUFFICES ASSUME RemovalInv
             PROVE  /\ TypeOK /\ ProtectedStays /\ ContentsFirst /\ MovedWithConsent
                    /\ TrashIsLeftAlone /\ MovesReachTheJournal /\ ZeroMeansDone
  OBVIOUS
<1>1. TypeOK /\ ProtectedStays /\ MovedWithConsent /\ TrashIsLeftAlone
  BY DEF RemovalInv, StageInv, TypeInv, ConsentInv
<1>2. ContentsFirst
  BY PlanIsOrdered DEF RemovalInv
<1>3. MovesReachTheJournal
  BY DEF RemovalInv, Appended, MovesReachTheJournal
<1>4. ZeroMeansDone
  BY ZeroFollows DEF RemovalInv
<1> QED
  BY <1>1, <1>2, <1>3, <1>4
=============================================================================
