----------------------------- MODULE MCRecovery -----------------------------
(* Instances of Recovery for TLC: a directory with two files and a walk of it. *)
EXTENDS Recovery, TLC

CONSTANTS top, sub, leaf, o1, o2, u1, u2

Paths == {top, sub, leaf}
AbovePath == top :> {} @@ sub :> {top} @@ leaf :> {top, sub}

(* A walk of all, and a part moved whole. *)
Plans == o1 :> <<leaf, sub, top>> @@ o2 :> <<sub>>

SameRestores == Permutations(Restores)
=============================================================================
