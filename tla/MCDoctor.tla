------------------------------ MODULE MCDoctor -------------------------------
(* Instances of Doctor for TLC: every operand has the same base name. *)
EXTENDS Doctor, TLC

CONSTANTS p1, p2, u1, u2, da, db, c1, c2

(* Two single removals of two paths. *)
SingleRemovals == p1 :> <<da>> @@ p2 :> <<db>>
NoSiblings == [d \in Path |-> <<>>]

Symmetry == Permutations(Content)
=============================================================================
