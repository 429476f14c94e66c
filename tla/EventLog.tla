------------------------------ MODULE EventLog ------------------------------
(***************************************************************************)
(* What the journal promises its callers: one log that whole batches are   *)
(* appended to, one at a time.  An append that returned nil is on stable   *)
(* storage; one that failed, or whose process died, may have left a prefix *)
(* of its batch and a torn last line behind, and a torn line makes the     *)
(* journal refuse every append until somebody repairs the file by hand.    *)
(* Journal.tla is the file, the lock and the write behind it.              *)
(***************************************************************************)
EXTENDS Sequences, Integers

CONSTANT Batches  \* the sequences of events that callers append

VARIABLES
    log,   \* the complete events, oldest first
    kept,  \* how many of them no power loss can take back
    torn   \* the file ends in an incomplete line

vars == <<log, kept, torn>>

Init == log = <<>> /\ kept = 0 /\ torn = FALSE

(* An AppendEvents that returns nil: the whole batch, synced. *)
AppendAll(batch) ==
    /\ ~torn
    /\ log' = log \o batch
    /\ kept' = Len(log \o batch)
    /\ torn' = torn

(* A write or a sync that fails, or a writer killed half way: a prefix of  *)
(* the batch stays, and the next event of it may stay as a torn line.      *)
AppendPart(batch) ==
    /\ ~torn
    /\ \E k \in 0 .. Len(batch) :
          /\ log' = log \o SubSeq(batch, 1, k)
          /\ torn' \in {FALSE, k < Len(batch)}
    /\ kept' = kept

(* The machine loses power, possibly with the write of a batch under way:  *)
(* any prefix that includes the synced events survives.                    *)
Lose(batch) ==
    LET whole == IF torn THEN log ELSE log \o batch
    IN  \E k \in kept .. Len(whole) :
          /\ log' = SubSeq(whole, 1, k)
          /\ kept' = k
          /\ torn' \in BOOLEAN

(* The user removes the torn line. *)
Repair == torn /\ torn' = FALSE /\ UNCHANGED <<log, kept>>

Next ==
    \/ \E batch \in Batches : AppendAll(batch) \/ AppendPart(batch)
    \/ \E batch \in Batches \cup {<<>>} : Lose(batch)
    \/ Repair

Spec == Init /\ [][Next]_vars
=============================================================================
