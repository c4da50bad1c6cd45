------------------------ MODULE MCArtifactTransaction ------------------------
(* Bounded instance of ArtifactTransaction for TLC.                        *)
EXTENDS ArtifactTransaction, TLC

CONSTANTS p1, p2, d1, d2, d3

MCProcs == {p1, p2}
MCDirs  == {d1, d2, d3}

\* Processes are interchangeable, and so are the random directory names.
Symmetry == Permutations(MCProcs) \cup Permutations(MCDirs)
=============================================================================
