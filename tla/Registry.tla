------------------------------ MODULE Registry ------------------------------
(***************************************************************************)
(* What elanprintd promises about enrolled fingers, without the sensor,    *)
(* the slots, the file and the failures (the abstract specification that   *)
(* Worker implements).  A print is listed once its enrolment is recorded,  *)
(* and live as long as it is listed and the sensor still holds it.  Only a *)
(* live print is ever reported as a match.                                 *)
(***************************************************************************)
CONSTANT Prints

VARIABLES listed,    \* prints the mapping file names
          live,      \* those of them that can be matched
          reported   \* the print whose touch was reported as a match, if any

registry == <<listed, live, reported>>

Init == listed = {} /\ live = {} /\ reported = {}

(* An enrolment is recorded: listed and live in one step, never one of     *)
(* them alone, and never over an existing entry.                           *)
Enrol(p) ==
    /\ p \notin listed
    /\ listed' = listed \cup {p} /\ live' = live \cup {p}
    /\ UNCHANGED reported

(* A delete erases first, and forgets the entry in a later step, or never. *)
Erase(p) ==
    /\ p \in live
    /\ live' = live \ {p}
    /\ UNCHANGED <<listed, reported>>

Forget(p) ==
    /\ p \in listed
    /\ listed' = listed \ {p} /\ live' = live \ {p}
    /\ UNCHANGED reported

(* A touch is reported as a match: it was of a live print.                 *)
Report(p) ==
    /\ p \in live
    /\ reported' = {p}
    /\ UNCHANGED <<listed, live>>

(* The next operation starts, or the daemon does.                          *)
NewOperation == reported' = {} /\ UNCHANGED <<listed, live>>

Next == NewOperation \/ \E p \in Prints : Enrol(p) \/ Erase(p) \/ Forget(p) \/ Report(p)

Spec == Init /\ [][Next]_registry
=============================================================================
