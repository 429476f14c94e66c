------------------------------- MODULE Doctor --------------------------------
(***************************************************************************)
(* "bearm doctor" beside the commands of Trash: Check reads the journal    *)
(* for a torn line, reads it again for the active records, and then looks  *)
(* at the trash record by record, while removals, restores and purges go   *)
(* on between any two of these steps.                                      *)
(***************************************************************************)
EXTENDS Trash

VARIABLES
    stage,  \* where doctor is
    left,   \* the active records whose items it has still to look at
    found,  \* the findings so far
    ever,   \* history: what was wrong at some moment since doctor started
    always  \* history: what was wrong at every moment since then

report == <<stage, left, found>>
doctorVars == <<vars, report, ever, always>>

DoctorInit ==
    /\ Init
    /\ stage = "idle" /\ left = {} /\ found = {}
    /\ ever = {} /\ always = {}

Torn == IF torn THEN {<<"incomplete-journal-line">>} ELSE {}
Missing(r) == IF files[r.slot] = None THEN {<<"missing-trash-item", r.slot>>} ELSE {}

(* Mutant: after a torn line the records are not looked at. *)
ReadJournalStops ==
    /\ stage = "idle"
    /\ stage' = (IF torn THEN "done" ELSE "active") /\ found' = Torn
    /\ left' = left

(* ReadAll, for the last line of the journal. *)
ReadJournal ==
    /\ stage = "idle"
    /\ \/ stage' = "active" /\ found' = Torn
       \/ stage' = "failed" /\ found' = found
    /\ left' = left

(* Mutant: doctor looks at each record that was ever trashed. *)
ReadTrashed ==
    /\ stage = "active"
    /\ stage' = "look" /\ found' = found
    /\ left' = {log[k].record : k \in {k \in 1 .. Len(log) : log[k].action = "trashed"}}

(* ActiveItems, which reads the journal once more. *)
ReadActive ==
    /\ stage = "active"
    /\ \/ stage' = "look" /\ left' = Active
       \/ stage' = "failed" /\ left' = left
    /\ found' = found

(* Lstat of the next item; the order of the records is that of their times *)
(* of deletion, which Trash does not tell apart.                           *)
Look ==
    /\ stage = "look"
    /\ \/ \E r \in left :
            /\ found' = found \cup Missing(r) /\ stage' = stage /\ left' = left \ {r}
       \/ left = {} /\ stage' = "done" /\ UNCHANGED <<left, found>>

(* The history, from the step that starts doctor to the one that ends it.  *)
Watch ==
    IF stage = stage' /\ stage # "active" /\ stage # "look"
    THEN UNCHANGED <<ever, always>>
    ELSE /\ ever' = ever \cup Findings'
         /\ always' = IF stage = "idle" THEN Findings' ELSE always \cap Findings'

DoctorStep == ReadJournal \/ ReadActive \/ Look

DoctorNext ==
    \/ DoctorStep /\ UNCHANGED vars /\ Watch
    \/ Next /\ UNCHANGED report /\ Watch

DoctorSpec == DoctorInit /\ [][DoctorNext]_doctorVars
-----------------------------------------------------------------------------
(* Properties *)

(* doctor only reports what is so: each finding was true at some moment    *)
(* between its start and its end, although it reads the journal and the    *)
(* trash at different times and restores, purges and new items under an    *)
(* old name come in between.                                               *)
FindingsWereTrue == found \subseteq ever

(* doctor reports all of it: what was wrong from its start to its end is   *)
(* among the findings.                                                     *)
LastingTroubleIsFound == stage = "done" => always \subseteq found
=============================================================================
