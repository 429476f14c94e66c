----------------------------- MODULE MCJournal ------------------------------
(* Instances of Journal for TLC: batches of one and two events. *)
EXTENDS Journal, TLC

CONSTANTS w1, w2, w3, w4, r1

(* Two writers that compete, one with an invalid event, one with none. *)
BatchSizes == w1 :> 2 @@ w2 :> 2 @@ w3 :> 1 @@ w4 :> 0
=============================================================================
