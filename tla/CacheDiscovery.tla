--------------------------- MODULE CacheDiscovery ---------------------------
(* Which cache file a command works on, and under which name of the user:    *)
(* discover_cache of cache_discovery.rs and local_steam_persona of           *)
(* steam_identity.rs, over a disk of Steam directories.                      *)
(*                                                                           *)
(* A disk is a record: "roots" is the list of steam_roots' candidates, each  *)
(* the directory that it leads to, or None; "accounts" lists in their order  *)
(* the numbers that name directories below userdata; "files" maps each path  *)
(* where a cache may be to the regular file that it leads to; "users" gives  *)
(* the name of each account in the loginusers.vdf of a root, "" for none. A  *)
(* path is <<directory, account>>, or <<directory, None>> outside of the     *)
(* directories of accounts. Different paths may lead to one file.            *)
EXTENDS Integers, Sequences, SequencesExt, FiniteSets

CONSTANT None

Location(account, file) == [account |-> account, file |-> file]

-----------------------------------------------------------------------------
(* The search *)

\* steam_roots: each directory once, in the order of the candidates
SteamRoots(disk) ==
    FoldLeft(LAMBDA roots, dir : IF dir = None \/ Contains(roots, dir) THEN roots
                                 ELSE Append(roots, dir),
             <<>>, disk.roots)

\* find_account_directories: the selected account, or all but account 0
AccountDirectories(disk, selected) ==
    IF selected # None THEN <<selected>>
    ELSE FoldLeft(LAMBDA accounts, account : IF account = 0 THEN accounts
                                             ELSE Append(accounts, account),
                  <<>>, disk.accounts)

\* Mutant: a file that was found twice counts twice
AddCandidateAgain(candidates, location) == Append(candidates, location)

\* A cache that is found on several ways is one candidate
AddCandidate(candidates, location) ==
    IF \E i \in DOMAIN candidates : candidates[i].file = location.file THEN candidates
    ELSE Append(candidates, location)

\* The caches in one root
SearchRoot(disk, selected, candidates, root) ==
    FoldLeft(LAMBDA found, account :
                 LET path == <<root, account>>
                 IN  IF path \in DOMAIN disk.files
                     THEN AddCandidate(found, Location(account, disk.files[path]))
                     ELSE found,
             candidates, AccountDirectories(disk, selected))

\* select_location: none or several are an error
SelectLocation(candidates) == IF Len(candidates) = 1 THEN candidates[1] ELSE None

-----------------------------------------------------------------------------
(* A path that the user gives *)

\* resolve_explicit_location: the account in the canonical path must be the
\* selected one; without any, or with account 0, there is no location
ResolveExplicit(disk, path, selected) ==
    IF path \notin DOMAIN disk.files THEN None
    ELSE LET file     == disk.files[path]
             inferred == file[2]
             account  == IF selected # None THEN selected ELSE inferred
         IN  IF account \in {None, 0} \/ inferred \notin {None, account} THEN None
             ELSE Location(account, file)

\* discover_cache; None stands for its errors
DiscoverCache(disk, search) ==
    IF search.account_id = 0 THEN None
    ELSE IF search.cache_path # None
    THEN ResolveExplicit(disk, search.cache_path, search.account_id)
    ELSE SelectLocation(
            FoldLeft(LAMBDA candidates, root : SearchRoot(disk, search.account_id, candidates, root),
                     <<>>, SteamRoots(disk)))

-----------------------------------------------------------------------------
(* The persona *)

\* local_steam_persona: the first root that has a name for the account
LocalPersona(disk, account) ==
    LET names == SelectSeq([i \in DOMAIN SteamRoots(disk) |->
                               disk.users[SteamRoots(disk)[i]][account]],
                           LAMBDA name : name # "")
    IN  IF names = <<>> THEN "" ELSE names[1]

\* resolve_persona: a configured name comes first, also a blank one, which is
\* then an error
ResolvePersona(disk, location, configured) ==
    IF configured # None THEN configured ELSE LocalPersona(disk, location.account)

-----------------------------------------------------------------------------
(* What the user may expect of the search, stated without an order. *)

\* The files that fit what the user selected
Matching(disk, search) ==
    IF search.cache_path # None
    THEN {disk.files[path] : path \in {search.cache_path} \intersect DOMAIN disk.files}
    ELSE {disk.files[path] : path \in {q \in DOMAIN disk.files :
                /\ \E i \in DOMAIN disk.roots : disk.roots[i] = q[1]
                /\ q[2] \notin {0, None}
                /\ search.account_id \in {None, q[2]}}}

\* The accounts as which the user may change a file: with a path, the one account
\* that the path and the user name, else those in whose directory it is
Owners(disk, search, file) ==
    LET named == {file[2], search.account_id} \ {None}
    IN  IF search.cache_path # None
        THEN IF Cardinality(named) = 1 THEN named \ {0} ELSE {}
        ELSE {q[2] : q \in {r \in DOMAIN disk.files :
                 disk.files[r] = file /\ search.account_id \in {None, r[2]}}} \ {0, None}
=============================================================================
