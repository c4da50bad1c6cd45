------------------------- MODULE MCCacheTransaction -------------------------
(* Bounded instance of CacheTransaction for TLC.                           *)
EXTENDS CacheTransaction, TLC

CONSTANTS p1, p2,   \* processes
          b1, b2,   \* readable contents
          torn      \* contents that are not a cache document

MCProcs    == {p1, p2}
MCReadable == {b1, b2}
MCBytes    == {b1, b2, torn}

\* Processes are interchangeable, and so are the readable contents.
Symmetry == Permutations(MCProcs) \cup Permutations(MCReadable)
=============================================================================
