---------------------------- MODULE SyncWorkflow ----------------------------
(* The commands of deadlock-build-sync and how they share the artifact       *)
(* directory, the Steam caches and the game's versions: run_sync, run_build, *)
(* run_install, run_status and run_restore of cli_commands.rs, with          *)
(* build_workflow.rs and freshness.rs. Several commands run at once, beside  *)
(* the game, updates of the game and kills.                                  *)
(*                                                                           *)
(* The artifact directory disappears between two renames, as in              *)
(* ArtifactTransaction, whose other steps are one here. A guarded            *)
(* replacement of a cache is one step: CacheTransaction has its steps.       *)
EXTENDS CacheDiscovery

CONSTANTS Procs,
          Malformed,      \* a catalog or a cache that cannot be parsed
          Searches,       \* what --account-id and --cache-path may be
          Personas,       \* what --persona may be
          FirstDisk,      \* the Steam directories at first
          LaterDisk,      \* and with more caches
          MaxStarts,      \* bound of the number of commands
          MaxVersion,     \* bound of the versions of the game and of its patches
          MaxEvents       \* bound of the number of events outside of the commands

Versions == [client : Nat, patch : Nat]
Catalogs == [id : Nat, versions : Versions]
Files == UNION {{d.files[path] : path \in DOMAIN d.files} : d \in {FirstDisk, LaterDisk}}

ASSUME VersionsAssumption == MaxVersion \in Nat
ASSUME NoneAssumption ==
    /\ None # Malformed
    /\ \A v \in {None, Malformed} : v \notin Nat /\ v \notin Versions /\ v \notin Catalogs
    /\ None \notin [account : Nat, file : Files]
ASSUME DisksAssumption ==
    \A d \in {FirstDisk, LaterDisk} :
        /\ d.roots \in Seq(ToSet(d.roots)) /\ d.accounts \in Seq(ToSet(d.accounts))
        /\ ToSet(d.accounts) \subseteq Nat
        /\ \A path \in DOMAIN d.files :
              /\ path = <<path[1], path[2]>> /\ path[1] # None
              /\ path[2] \in ToSet(d.accounts) \cup {None}
              /\ d.files[path][2] \in Nat \cup {None}
ASSUME SearchesAssumption == \A s \in Searches : s.account_id \in Nat \cup {None}

VARIABLES
    disk,         \* the Steam directories
    game,         \* what the API says: client version and current patch
    running,      \* is Deadlock in operation?
    cache,        \* the managed builds in each cache file, and a mark of other changes
    backup,       \* the latest backup of each cache file, or None
    artifacts,    \* the catalog in the artifact directory, or None
    saved,        \* the catalog that an unfinished replacement has moved away
    sources,      \* the versions in the run that --run-id names, or None
    proc,         \* each process
    starts, events \* bounds

steam == <<disk, running, cache, backup>>
store == <<artifacts, saved, sources>>
vars  == <<steam, game, store, proc, starts, events>>

Catalog(id, versions) == [id |-> id, versions |-> versions]

Idle == [name |-> None, id |-> 0, step |-> 0, location |-> None, catalog |-> None, seen |-> None,
         original |-> None, result |-> None, quiet |-> FALSE]

Init ==
    /\ disk = FirstDisk
    /\ game = [client |-> 1, patch |-> 1]
    /\ running = FALSE
    /\ cache = [f \in Files |-> [builds |-> None, mark |-> 0]]
    /\ backup = [f \in Files |-> None]
    /\ artifacts \in {None, Malformed, Catalog(0, game)} /\ saved = None
    /\ sources = None
    /\ proc = [p \in Procs |-> Idle]
    /\ starts = 0 /\ events = 0

-----------------------------------------------------------------------------
(* The calls of each command, in their order. *)

\* Mutant: install reads what is there
PlanUnrecovered ==
    [sync    |-> <<"locate", "stopped", "persona",
                   "recover", "extract", "extractPatch", "write", "moveOld", "moveNew",
                   "stopped", "client", "patch", "read", "update">>,
     build   |-> <<"recover", "extract", "extractPatch", "write", "moveOld", "moveNew">>,
     install |-> <<"locate", "stopped", "catalog", "persona",
                   "client", "patch", "read", "update">>,
     status  |-> <<"locate", "catalog", "client", "patch", "compare">>,
     restore |-> <<"locate", "restore">>]

Plan ==
    [sync    |-> <<"locate", "stopped", "persona",
                   "recover", "extract", "extractPatch", "write", "moveOld", "moveNew",
                   "stopped", "client", "patch", "read", "update">>,
     build   |-> <<"recover", "extract", "extractPatch", "write", "moveOld", "moveNew">>,
     install |-> <<"locate", "stopped", "recover", "catalog", "persona",
                   "client", "patch", "read", "update">>,
     status  |-> <<"locate", "catalog", "client", "patch", "compare">>,
     restore |-> <<"locate", "restore">>]

Calls(p) == IF proc[p].name = None THEN <<>> ELSE Plan[proc[p].name]
Is(p, name) == proc[p].name = name

At(p, call) == proc[p].step \in DOMAIN Calls(p) /\ Calls(p)[proc[p].step] = call

\* The command has ended with an exit code, which is a verdict only if nobody
\* else has changed anything
Ended(p, code) ==
    IF ~proc[p].quiet THEN Idle
    ELSE [Idle EXCEPT !.name = proc[p].name, !.location = proc[p].location,
                 !.result = code, !.quiet = TRUE]

\* The process with its call returned; after the last one the command has ended
Advanced(p) ==
    IF proc[p].step = Len(Calls(p)) THEN Ended(p, 0) ELSE [proc[p] EXCEPT !.step = @ + 1]

\* A process that others have disturbed; its verdict, if there is one, is old
Disturbed(q) == IF proc[q].step = 0 THEN Idle ELSE [proc[q] EXCEPT !.quiet = FALSE]

\* A step of one process that the others cannot see, and one that they can
Quietly(p, next) == proc' = [proc EXCEPT ![p] = next]
Openly(p, next)  == proc' = [q \in Procs |-> IF q = p THEN next ELSE Disturbed(q)]
Disturb          == proc' = [q \in Procs |-> Disturbed(q)]

Invoke(p, name) ==
    /\ proc[p].step = 0 /\ starts < MaxStarts
    /\ starts' = starts + 1
    /\ Quietly(p, [Idle EXCEPT !.name = name, !.id = starts', !.step = 1, !.quiet = TRUE])
    /\ UNCHANGED <<steam, game, store, events>>

\* A call that changes nothing but its process, and ends the command unless ok
Check(p, call, ok) ==
    /\ At(p, call)
    /\ Quietly(p, IF ok THEN Advanced(p) ELSE Ended(p, 1))
    /\ UNCHANGED <<steam, game, store, starts, events>>

\* cache_location; status takes its error as a result
FindCache(p, search) ==
    LET location == DiscoverCache(disk, search)
    IN  /\ At(p, "locate")
        /\ Quietly(p, IF location = None /\ ~Is(p, "status") THEN Ended(p, 1)
                      ELSE [Advanced(p) EXCEPT !.location = location])
        /\ UNCHANGED <<steam, game, store, starts, events>>

RequireStopped(p) == Check(p, "stopped", ~running)

FindPersona(p, configured) ==
    Check(p, "persona", ResolvePersona(disk, proc[p].location, configured) # "")

-----------------------------------------------------------------------------
(* generate_builds *)

HoldsLock(p) == At(p, "moveOld") \/ At(p, "moveNew")
Locked == \E q \in Procs : HoldsLock(q)

\* recover_pending_artifacts
Restored == IF artifacts = None THEN saved ELSE artifacts

\* ArtifactTransaction::recover, and new before the staging; neither waits
Recover(p, call) ==
    /\ At(p, call)
    /\ IF Locked THEN Quietly(p, Ended(p, 1)) /\ UNCHANGED <<artifacts, saved>>
       ELSE /\ artifacts' = Restored /\ saved' = None
            /\ IF artifacts' = artifacts THEN Quietly(p, Advanced(p)) ELSE Openly(p, Advanced(p))
    /\ UNCHANGED <<steam, game, sources, starts, events>>

\* extract_run: the client version is the first response of capture_sources. A
\* resumed run is used as it is.
Extract(p, resume) ==
    /\ At(p, "extract")
    /\ Quietly(p, IF ~resume
                  THEN [Advanced(p) EXCEPT !.catalog = Catalog(proc[p].id, game)]
                  ELSE IF sources = None THEN Ended(p, 1)
                  ELSE [proc[p] EXCEPT !.catalog = Catalog(proc[p].id, sources), !.step = @ + 2])
    /\ UNCHANGED <<steam, game, store, starts, events>>

\* The patches are captured later; then produce_hero_builds makes the catalog of
\* what is in the run, and another command may resume the run
ExtractPatch(p) ==
    /\ At(p, "extractPatch")
    /\ Quietly(p, [Advanced(p) EXCEPT !.catalog.versions.patch = game.patch])
    /\ sources' = [proc[p].catalog.versions EXCEPT !.patch = game.patch]
    /\ UNCHANGED <<steam, game, artifacts, saved, starts, events>>

\* write_build_artifacts: commit moves the old directory away ...
MoveOld(p) ==
    /\ At(p, "moveOld")
    /\ artifacts' = None /\ saved' = artifacts
    /\ Openly(p, Advanced(p))
    /\ UNCHANGED <<steam, game, sources, starts, events>>

\* ... and the new one in
MoveNew(p) ==
    /\ At(p, "moveNew")
    /\ artifacts' = proc[p].catalog /\ saved' = None
    /\ Openly(p, Advanced(p))
    /\ UNCHANGED <<steam, game, sources, starts, events>>

-----------------------------------------------------------------------------
(* install_catalog *)

\* HeroBuildCatalog::read; status goes on without a catalog
ReadCatalog(p) ==
    /\ At(p, "catalog")
    /\ Quietly(p, IF artifacts \notin {None, Malformed} THEN [Advanced(p) EXCEPT !.catalog = artifacts]
                  ELSE IF Is(p, "install") THEN Ended(p, 1)
                  ELSE [proc[p] EXCEPT !.catalog = artifacts, !.step = Len(Calls(p))])
    /\ UNCHANGED <<steam, game, store, starts, events>>

\* describe_staleness: the client version is asked for first
ResolveClient(p) ==
    /\ At(p, "client")
    /\ Quietly(p, [Advanced(p) EXCEPT !.seen = game])
    /\ UNCHANGED <<steam, game, store, starts, events>>

\* Mutant: only the client version is compared
IsFreshInPart(catalog, client, patch) == catalog.versions.client = client

\* Neither the client version nor the patch differs
IsFresh(catalog, client, patch) ==
    catalog.versions.client = client /\ catalog.versions.patch = patch

\* Then the patch; status keeps the answer for its report
ResolvePatch(p) ==
    LET fresh == IsFresh(proc[p].catalog, proc[p].seen.client, game.patch)
    IN  /\ At(p, "patch")
        /\ Quietly(p, IF ~fresh /\ ~Is(p, "status") THEN Ended(p, 1)
                      ELSE [Advanced(p) EXCEPT !.seen = IF fresh THEN @ ELSE None])
        /\ UNCHANGED <<steam, game, store, starts, events>>

\* read_cache and prepare_cache_update
ReadCache(p) ==
    LET file == proc[p].location.file
    IN  /\ At(p, "read")
        /\ Quietly(p, IF cache[file].builds = Malformed THEN Ended(p, 1)
                      ELSE [Advanced(p) EXCEPT !.original = cache[file]])
        /\ UNCHANGED <<steam, game, store, starts, events>>

\* A cache is replaced, if Deadlock is stopped, after a backup
Replace(p, file, content) ==
    /\ cache' = [cache EXCEPT ![file] = content]
    /\ backup' = [backup EXCEPT ![file] = cache[file]]

\* install_cache_update, for a cache that is still as it was read. Builds that
\* are in it change nothing, and printing the result may fail.
Update(p) ==
    LET file    == proc[p].location.file
        content == [proc[p].original EXCEPT !.builds = proc[p].catalog]
    IN  /\ At(p, "update")
        /\ \/ /\ running \/ cache[file] # proc[p].original
              /\ Quietly(p, Ended(p, 1))
              /\ UNCHANGED <<cache, backup>>
           \/ /\ ~running /\ cache[file] = proc[p].original
              /\ IF content = cache[file] THEN UNCHANGED <<cache, backup>>
                 ELSE Replace(p, file, content)
              /\ \E code \in {0, 1} : Openly(p, Ended(p, code))
        /\ UNCHANGED <<disk, running, game, store, starts, events>>

\* restore_latest
RestoreLatest(p) ==
    LET file == proc[p].location.file
    IN  /\ At(p, "restore")
        /\ IF running \/ backup[file] = None
           THEN Quietly(p, Ended(p, 1)) /\ UNCHANGED <<cache, backup>>
           ELSE Replace(p, file, backup[file]) /\ Openly(p, Advanced(p))
        /\ UNCHANGED <<disk, running, game, store, starts, events>>

-----------------------------------------------------------------------------
(* build_freshness_report *)

BuildsStage(p) ==
    IF proc[p].catalog = None THEN "missing"
    ELSE IF proc[p].catalog = Malformed THEN "malformed"
    ELSE IF proc[p].seen = None THEN "stale" ELSE "current"

InstalledStage(p) ==
    LET builds == cache[proc[p].location.file].builds
    IN  IF proc[p].location = None THEN "unavailable"
        ELSE IF proc[p].catalog \in {None, Malformed} THEN "missing"
        ELSE IF builds = Malformed THEN "malformed"
        ELSE IF builds = proc[p].catalog THEN "current" ELSE "stale"

\* Mutant: one current stage is enough
ExitCodeOfAny(stages) ==
    CASE "current" \in stages -> 0
      [] stages \intersect {"malformed", "unavailable"} # {} -> 1
      [] OTHER -> 2

ExitCode(stages) ==
    CASE stages = {"current"} -> 0
      [] stages \intersect {"malformed", "unavailable"} # {} -> 1
      [] OTHER -> 2

Compare(p) ==
    /\ At(p, "compare")
    /\ Quietly(p, Ended(p, ExitCode({BuildsStage(p), InstalledStage(p)})))
    /\ UNCHANGED <<steam, game, store, starts, events>>

-----------------------------------------------------------------------------
(* What fails, and what others do. *)

\* A call of the API, the database or the file system fails; a commit that has
\* begun is taken back. The verdict of the command is then about that call.
Fail(p) ==
    /\ \E call \in {"extract", "extractPatch", "write", "moveOld", "moveNew",
                    "client", "patch", "read"} : At(p, call)
    /\ IF At(p, "moveNew")
       THEN artifacts' = Restored /\ saved' = None
            /\ Openly(p, Idle)
       ELSE UNCHANGED <<artifacts, saved>> /\ Quietly(p, Idle)
    /\ UNCHANGED <<steam, game, sources, starts, events>>

Kill(p) ==
    /\ proc[p].step # 0
    /\ Quietly(p, Idle)
    /\ UNCHANGED <<steam, game, store, starts, events>>

\* Something outside of the commands, beside updates of the game
Event == events < MaxEvents /\ events' = events + 1 /\ Disturb /\ UNCHANGED starts

\* A new client version or a new patch
UpdateGame ==
    /\ \E client \in game.client..MaxVersion, patch \in game.patch..MaxVersion :
          /\ game' = [client |-> client, patch |-> patch]
          /\ (client # game.client) # (patch # game.patch)
    /\ Disturb
    /\ UNCHANGED <<steam, store, starts, events>>

\* Deadlock starts or stops
Toggle ==
    /\ Event
    /\ running' = ~running
    /\ UNCHANGED <<disk, cache, backup, game, store>>

\* The game or Steam writes a cache, with the managed builds or not
Save(file) ==
    /\ Event
    /\ \E builds \in {cache[file].builds, None, Malformed} :
          cache' = [cache EXCEPT ![file] = [builds |-> builds, mark |-> events']]
    /\ UNCHANGED <<disk, running, backup, game, store>>

\* Other accounts and other installations of Steam get a cache
AddCaches ==
    /\ Event
    /\ disk' = LaterDisk
    /\ UNCHANGED <<running, cache, backup, game, store>>

Step(p) ==
    \/ \E search \in Searches : FindCache(p, search)
    \/ \E configured \in Personas : FindPersona(p, configured)
    \/ \E resume \in BOOLEAN : Extract(p, resume)
    \/ RequireStopped(p) \/ Recover(p, "recover") \/ ExtractPatch(p)
    \/ Recover(p, "write") \/ MoveOld(p) \/ MoveNew(p)
    \/ ReadCatalog(p) \/ ResolveClient(p) \/ ResolvePatch(p) \/ ReadCache(p) \/ Update(p)
    \/ RestoreLatest(p) \/ Compare(p)

Others == UpdateGame \/ Toggle \/ AddCaches \/ \E path \in DOMAIN disk.files : Save(disk.files[path])

Next ==
    \/ \E p \in Procs, name \in DOMAIN Plan : Invoke(p, name)
    \/ \E p \in Procs : Step(p) \/ Fail(p) \/ Kill(p)
    \/ Others

Spec == Init /\ [][Next]_vars

-----------------------------------------------------------------------------
(* Properties. *)

\* A catalog that is written to a cache was wholly current at one moment of the
\* command that writes it, though its client version and its patch are asked
\* for one after the other while the game is updated (build_workflow.rs:107).
NothingStaleIsWritten ==
    [][\A p \in Procs :
          At(p, "update") /\ proc'[p].step = 0
              => proc[p].catalog.versions = proc[p].seen]_cache

\* A command works on the one cache that fits its arguments, however the Steam
\* directories are linked, and as an account whose cache that is; it gives up
\* only when none or several fit, or none could be the account's
\* (cache_discovery.rs:37).
OnlySelectedCache ==
    [][\A p \in {q \in Procs : proc[q].step = 1 /\ proc'[q].step # 1} :
       \A search \in Searches : FindCache(p, search) =>
             LET files    == Matching(disk, search)
                 location == proc'[p].location
             IN  IF location = None
                 THEN Cardinality(files) # 1 \/ \E f \in files : Owners(disk, search, f) = {}
                 ELSE files = {location.file}
                      /\ location.account \in Owners(disk, search, location.file)]_proc

\* The catalog in the artifact directory is current, and it is installed
Current(p) ==
    /\ artifacts \notin {None, Malformed} /\ artifacts.versions = game
    /\ proc[p].location # None /\ cache[proc[p].location.file].builds = artifacts

\* What a command says is true as long as nobody else has changed anything since
\* it began: 0 of status, sync and install means current, 2 of status that a
\* sync is needed, and 1 that something is malformed or unavailable
\* (freshness.rs:13).
VerdictsAreHonest ==
    \A p \in Procs : proc[p].quiet =>
        /\ proc[p].name \in {"status", "sync", "install"} /\ proc[p].result = 0 => Current(p)
        /\ Is(p, "status") /\ proc[p].result = 2 =>
              ~Current(p) /\ proc[p].location # None /\ artifacts # Malformed
        /\ Is(p, "status") /\ proc[p].result = 1 =>
              \/ proc[p].location = None \/ artifacts = Malformed
              \/ cache[proc[p].location.file].builds = Malformed

\* An installation that nobody disturbs finds the catalog that a killed
\* replacement has moved away (cli_commands.rs:44).
CatalogIsFound ==
    \A p \in Procs : At(p, "catalog") /\ Is(p, "install") /\ proc[p].quiet =>
        (artifacts = None => saved = None)
=============================================================================
