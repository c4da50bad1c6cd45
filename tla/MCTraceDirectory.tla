-------------------------- MODULE MCTraceDirectory --------------------------
EXTENDS TraceDirectory, TLC

CONSTANTS p1, p2

MCProcs  == {p1, p2}
MCFound  == {{}, {MaxNames + 1, MaxNames + 2}}
Symmetry == Permutations(MCProcs)
=============================================================================
