---------------------------- MODULE BatchRestore ----------------------------
(* What SQL Restore promises the user of the restore page: the files picked  *)
(* in the list are worked through in the order they were picked, every one   *)
(* of them ends with exactly one outcome, once a file is reported cancelled  *)
(* every later file of the batch is too, the summary shows precisely those   *)
(* outcomes, and the program is not left while a batch is under way.         *)
(* RestoreQueue is shown to implement this module.                           *)
EXTENDS Naturals, Sequences

CONSTANTS
    Files,        \* the backup files of the list
    MaxSelection  \* bound: the longest selection considered

VARIABLES
    phase,      \* "choosing", "restoring", "reported" or "quit"
    submitted,  \* the files of the batch
    results     \* the outcomes so far, a prefix of the batch

vars == <<phase, submitted, results>>

Outcomes == {"success", "failure", "cancelled"}

Selections ==
    {s \in UNION {[1..n -> Files] : n \in 1..MaxSelection} :
        \A i, j \in DOMAIN s : s[i] = s[j] => i = j}

Init == phase = "choosing" /\ submitted = <<>> /\ results = <<>>

Submit ==
    /\ phase = "choosing"
    /\ phase' = "restoring"
    /\ submitted' \in Selections
    /\ UNCHANGED results

Cancelled == \E i \in DOMAIN results : results[i].outcome = "cancelled"

Resolve ==
    /\ phase = "restoring"
    /\ Len(results) < Len(submitted)
    /\ \E o \in IF Cancelled THEN {"cancelled"} ELSE Outcomes :
         results' = Append(results, [filename |-> submitted[Len(results) + 1],
                                     outcome  |-> o])
    /\ UNCHANGED <<phase, submitted>>

Report ==
    /\ phase = "restoring"
    /\ Len(results) = Len(submitted)
    /\ phase' = "reported"
    /\ UNCHANGED <<submitted, results>>

Dismiss ==
    /\ phase = "reported"
    /\ phase' = "choosing"
    /\ submitted' = <<>>
    /\ results' = <<>>

Quit ==
    /\ phase \in {"choosing", "reported"}
    /\ phase' = "quit"
    /\ UNCHANGED <<submitted, results>>

Next == Submit \/ Resolve \/ Report \/ Dismiss \/ Quit

Safety == Init /\ [][Next]_vars

Spec == Safety /\ WF_vars(Resolve \/ Report)
=============================================================================
