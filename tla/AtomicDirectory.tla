---------------------------- MODULE AtomicDirectory ----------------------------
(***************************************************************************)
(* What the artifact directory promises: there is one current catalog, a   *)
(* new one takes its place in one step, it never disappears, and a loss of *)
(* power leaves one of the catalogs that was current since the directory   *)
(* was last known to be on disk.                                           *)
(***************************************************************************)
CONSTANTS Catalogs, Absent

VARIABLES
    published,  \* the current catalog, or Absent before the first one
    possible    \* what may be current after a loss of power

Init ==
    /\ published \in Catalogs \cup {Absent}
    /\ possible = {published}

Publish ==
    \E new \in Catalogs :
        /\ published' = new
        /\ possible' = possible \cup {new}

Harden ==
    /\ possible' = {published}
    /\ UNCHANGED published

LosePower ==
    /\ published' \in possible
    /\ possible' = {published'}

Next == Publish \/ Harden \/ LosePower

Spec == Init /\ [][Next]_<<published, possible>>
=============================================================================
