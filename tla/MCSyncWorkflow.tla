--------------------------- MODULE MCSyncWorkflow ---------------------------
EXTENDS SyncWorkflow, TLC

CONSTANTS p1, p2, A, B, C

MCProcs  == {p1, p2}
Symmetry == Permutations(MCProcs)

\* Two links to one root, a second root with another way to the same cache, and
\* only there the name of the user
MCFirstDisk == [roots |-> <<None, A, A, B, C>>, accounts |-> <<0, 1, 2>>,
                files |-> (<<A, 1>> :> <<A, 1>>) @@ (<<A, 0>> :> <<A, 0>>) @@ (<<B, 1>> :> <<A, 1>>),
                users |-> (A :> <<"", "">>) @@ (B :> <<"user", "">>) @@ (C :> <<"", "">>)]

\* A second account, which has no name, a third root with a cache of its own, and
\* a copy outside of the accounts
MCLaterDisk == [MCFirstDisk EXCEPT !.files = @ @@ (<<A, 2>> :> <<A, 2>>) @@ (<<C, 1>> :> <<C, 1>>)
                                               @@ (<<A, None>> :> <<A, None>>)]

Search(account, path) == [account_id |-> account, cache_path |-> path]

MCSearches == {Search(None, None), Search(2, None), Search(2, <<A, 1>>), Search(1, <<A, None>>)}
MCPersonas == {None, ""}
=============================================================================
