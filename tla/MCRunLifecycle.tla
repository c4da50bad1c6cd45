--------------------------- MODULE MCRunLifecycle ---------------------------
(* Bounded instance of RunLifecycle for TLC.                               *)
EXTENDS RunLifecycle, TLC

CONSTANTS p1, p2, r1, r2

MCProcs == {p1, p2}
MCRuns  == {r1, r2}

\* Processes are interchangeable, and so are identifiers.
Symmetry == Permutations(MCProcs) \cup Permutations(MCRuns)
=============================================================================
