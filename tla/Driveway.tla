------------------------------ MODULE Driveway -------------------------------
(***************************************************************************)
(* What the synchronisation of lizards.c promises, with no threads, locks  *)
(* or counters: lizards step on the driveway and off again, and there are  *)
(* never more than MAX_LIZARD_CROSSING of them on it.                      *)
(***************************************************************************)
EXTENDS Naturals, FiniteSets

CONSTANTS Lizards, MAX_LIZARD_CROSSING

VARIABLE onDriveway

Init == onDriveway = {}

StepOn(l) ==
    /\ l \notin onDriveway
    /\ Cardinality(onDriveway) < MAX_LIZARD_CROSSING
    /\ onDriveway' = onDriveway \cup {l}

StepOff(l) ==
    /\ l \in onDriveway
    /\ onDriveway' = onDriveway \ {l}

Next == \E l \in Lizards : StepOn(l) \/ StepOff(l)

Spec == Init /\ [][Next]_onDriveway

=============================================================================
