------------------------------ MODULE MCTrash -------------------------------
(* Instances of Trash for TLC: every operand has the same base name. *)
EXTENDS Trash, TLC

CONSTANTS p1, p2, u1, u2, da, db, dc, c1, c2, c3

(* Two commands that compete for one name, one of them with two operands. *)
TwoRemovals == p1 :> <<da, db>> @@ p2 :> <<da>>
(* Two single removals of a path that is restored and made again. *)
SingleRemovals == p1 :> <<da>> @@ p2 :> <<db>>

NoSiblings == [d \in Path |-> <<>>]
OneSibling == [d \in Path |-> IF d = da THEN <<dc>> ELSE <<>>]

Symmetry == Permutations(Content)
=============================================================================
