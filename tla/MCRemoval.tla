----------------------------- MODULE MCRemoval ------------------------------
(***************************************************************************)
(* A tree for TLC: a directory d with a file f, a subdirectory s that has  *)
(* a file g, and an empty one, v, in which a file w may appear; a file e   *)
(* beside it; a directory h with the trash t, which has a file x, and a    *)
(* directory z of bearm's own; and files o, p and q with the names "-i",   *)
(* "-r" and "--".                                                          *)
(***************************************************************************)
EXTENDS Removal, TLC

CONSTANTS d, f, s, g, z, e, h, t, x, v, w, o, p, q

TheParent == d :> None @@ f :> d @@ s :> d @@ g :> s @@ v :> d @@ w :> v @@ e :> None
             @@ h :> None @@ t :> h @@ x :> t @@ z :> h
             @@ o :> None @@ p :> None @@ q :> None
TheOrder == <<f, g, s, w, v, d, e, x, t, z, h, o, p, q>>
OneDevice == [n \in Node |-> 1]
(* s and v are the roots of other file systems. *)
MountedDevice == [n \in Node |-> CASE n \in {s, g} -> 2 [] n \in {v, w} -> 3 [] OTHER -> 1]

(* All of s is protected, then none of it, then g: only g is. *)
ThePatterns ==
    <<[node |-> s, negated |-> FALSE], [node |-> s, negated |-> TRUE], [node |-> g, negated |-> FALSE]>>
NoPatterns == <<>>

(* -r and nothing else, with the two settings that make it walk. *)
PlainOptions ==
    {l \in RemoveOptions : /\ l.recursive /\ ~l.force /\ ~l.directory /\ ~l.verbose
                        /\ ~l.preserveAll /\ ~l.bsd}
Inspected == [operands : {<<d>>}, options : {l \in PlainOptions : l.inspect /\ l.interactive = "never"}]
Interactive == [operands : {<<d>>}, options : {l \in PlainOptions : l.interactive = "always"}]
=============================================================================
