------------------------------ MODULE MCRoots -------------------------------
(* An instance of Roots for TLC: a home file system and one other. *)
EXTENDS Roots, TLC

CONSTANTS t1, t2, u1, home, usb

(* Both targets are on the mount. *)
BothMounted == t1 :> usb @@ t2 :> usb
Symmetry == Permutations({t1, t2})

Backends ==
    {[platform |-> "linux", perMount |-> TRUE], [platform |-> "linux", perMount |-> FALSE],
     [platform |-> "darwin", perMount |-> TRUE], [platform |-> "custom", perMount |-> TRUE]}
=============================================================================
