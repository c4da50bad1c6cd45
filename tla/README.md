# Formal models of deadlock-build-sync

TLA+ models of the state and the protocols of `deadlock-build-sync`, TLC runs
that check them on small instances, and TLAPS proofs. Paths are relative to the
root of the repository's source; `steam/` stands for
`src/crates/deadlock-steam/src/`, `sync/` for
`src/crates/deadlock-build-sync/src/`, `analysis/`, `input/`, `data/` and
`guides/` for the same directory of the other crates.

The program extracts match data, produces a hero build per hero, writes the
builds as an artifact directory, and installs them in a file that belongs to
somebody else: `cached_hero_builds.kv3`, which Deadlock and Steam write
themselves. What must not go wrong is that the player's file is lost or
overwritten, that the artifacts are lost, that one process deletes the run of
another, that an identity is given to two builds, and that a file of the game is
misread and written back.

## Inventory

| Part | State | Operations | Interacts with | What is hard | What makes it correct |
|---|---|---|---|---|---|
| Cache transaction: `steam/cache_transaction.rs`, `cache_restore.rs`, `cache_backup.rs`, `process_check.rs` | the cache file, a lock file, backup directories | install with automatic recovery, `restore --latest`, create a backup | Deadlock and Steam write the same file; other processes take the lock; called by the command workflow | the check of processes, the comparison and the rename are separate calls; any of them fails; kills; losses of power | nothing that was replaced is lost; no update is lost; restore is the undo; every operation ends |
| Artifact transaction: `sync/artifact_transaction.rs`, `build_workflow.rs:74-86` | artifact directory, journal, staged and retained directories, a lock file | new, commit, recover | recovery runs at the start of `build`, `sync` and `install` | a crash between two renames; renames that reach the disk in another order | the directory is replaced atomically; recovery is always possible; a success is durable |
| Cache plan: `steam/cache_plan.rs`, `cache_status.rs`, `protobuf_encode.rs` | the sections of the cache document | replace the managed builds, allocate identities, compare for `status` | derives what the transaction installs; the game edits the document in between | long histories of installations, edits, copies and deletions | identities are unique and fresh; unmanaged builds and those of other heroes stay; repetition changes nothing; `status` and installation agree |
| KV3 codec: `steam/kv3_*.rs`, `binary_reader.rs` | none (pure) | decode, encode | the plan reads and writes the file of the game with it | six versions, two compressions, streams of four widths, typed arrays, flags, padding; torn files | what the game meant is read or refused; what is read can be written |
| Cache discovery: `steam/cache_discovery.rs`, `steam_identity.rs` | none | select root and account, find the persona | gives the transaction its location | links between roots and accounts; ambiguity must be an error | exactly the cache that fits is selected |
| Command workflow: `sync/build_workflow.rs`, `cli_commands.rs` | none of its own | `build`, `install`, `sync`, `status`, `restore` | composes the parts above | the game is updated between two requests; `install` reads artifacts that another process replaces | nothing stale is written; verdicts are true |
| Freshness and status: `sync/freshness.rs`, `steam/cache_status.rs` | none; reads artifacts, API and cache | stages of staleness, exit codes | reads what the transactions write | they are read at different times | "current" means that nothing would change |
| Analysis runs: `analysis/refresh.rs`, `refresh_configuration.rs`, `sources.rs` | run directories, a lock file in each, times of change | make or reopen a run, capture, extract, remove other runs | fills the database that production reads | one process removes runs while others make, reopen or fill them | a run of one's own stays and has one owner |
| HTTP client: `input/http_client.rs` | a request schedule behind a mutex, shared by threads | wait for a slot, postpone, retry | used by capture and by production | a thread sleeps while it holds the schedule | slots are an interval apart; retries are bounded; every request ends |
| Build production and assembly: `analysis/hero_build_production.rs`, `build_assembly.rs`, `item_imbues.rs`, `build_tags.rs`, `ability_focus.rs` | what is owned after each phase | the phases, CORE, situational items, key item, order, icons, targets, focus | takes estimates, the API, assets and tags that may disagree | components are used up and bought again; one bad build fails the whole catalog | budgets and slots are kept; what was produced can be written and installed |
| Guide logic: `guides/ability_order.rs`, `hero_build.rs` | none (pure) | select the order; `validate_hero`, `hero_build_presentation` | consumes responses; called by production | the best decision may lead nowhere | the order is complete and the best supported |
| Execution trace: `data/execution_trace.rs`, `trace_summary.rs` | trace directories, `.active` markers, the lines of one trace | prune, begin, record, complete, summarise | wraps every command | several processes prune without a lock; a kill leaves a marker or half a line | traces of running sessions stay; size and number are bounded; the summary is faithful |
| Extraction: SQL over DuckDB; statistics; protobuf fields; API session; data helpers; output | none | queries, numerics, wire format, parsing, formatting | | | |

The hazards, each at the line where it bites, are in `PROJECT.json` with the
properties that are about them.

## Modules

| Module | Models | Runs | Proofs |
|---|---|---|---|
| `CacheTransaction` | the cache transaction | `cache_safety`, `cache_liveness`, `cache_running_deadlock` | `CacheTransactionProofs` |
| `ArtifactTransaction`, over `AtomicDirectory` | the artifact transaction, and what it promises | `artifact_safety` | `ArtifactTransactionProofs` |
| `CachePlan` | the plan and the comparison of `status` | `cache_plan` | `CachePlanProofs` |
| `Kv3Binary`, `Kv3Encode`, `Kv3Decode`, `Kv3Game`, `Kv3Cache` | the codec between the game and the plan | `kv3_cache` | `CachePlanProofs` (values), `Kv3FileProofs` (files) |
| `CacheDiscovery`, `SyncWorkflow` | selection of cache and persona; the five commands | `sync_workflow` | `SyncWorkflowProofs` |
| `RunLifecycle` | the analysis runs | `analysis_runs`, `analysis_runs_reopened` | `RunLifecycleProofs` |
| `RequestSchedule` | the HTTP client under the threads of production | `request_schedule` | `ProductionProofs` |
| `HeroBuilds`, `AbilityOrder`, `BuildAssembly`, `BuildProduction`, `Production` | a build from requests to validation | `request_schedule` | `ProductionProofs` |
| `TraceDirectory` | the trace directories of several processes | `trace_directory` | `TraceProofs` |
| `TraceEvents` | the writer of one trace, and its summary | `trace_events` | `TraceProofs` |

Each `MC` module gives one of them a finite instance; `TraceEvents` has
numbers for constants and needs none. A definition that a comment calls a
*mutant* or a *faulty variant* is not part of the specification: it is the same
definition with a plausible mistake, and shows that a property can tell the
mistake from the code.

The modules are joined where the code joins them. `Production` extends
`RequestSchedule` and the modules of the build, since the requests and the
assembly are one command. `SyncWorkflow` extends `CacheDiscovery` and takes the
steps of the two transactions together where nobody outside can tell them apart;
what these steps are made of is the subject of `CacheTransaction` and
`ArtifactTransaction`, whose properties justify it. `Kv3Cache` and `CachePlan`
are two views of the same file, as bytes and as entries.

### CacheTransaction

A process has a program counter `pc`, and every action is one call that others
can observe: the inspection of the processes, `try_lock`, the read of the
cache, the backup directory, its manifest, the sync of its parent, the staged
file, the second inspection, the comparison, the rename, its sync, the read
back. `op` tells an installation from the recovery of an installation and from
a restoration, which share `create_backup` and `replace_cache`. `expected` and
`replacement` are the two byte strings that `install_cache_update` and
`replace_cache` take. `backups` are the directories in the order of their
`created_at`; one is *partial* until its manifest is there, then *complete*, and
*durable* once its parent directory was synced. `onDisk` is what the cache file
would hold after a loss of power.

`Fail` is an error at any call: it leads to `recover_installation` where the
code's `match` does, and to the end of the process elsewhere. `Kill` drops the
process with its lock. `LosePower` may undo an unsynced rename and take unsynced
backup directories. `ExternalWrite`, `StartDeadlock` and `StopDeadlock` are the
game and Steam, which take no lock.

`lateStart`, `lateWrite`, `overwritten` and `undo` are history variables. The
first two record the only windows that the code cannot close, so that the
properties say exactly how large these windows are: `NoLostUpdate` holds but for
a write between the comparison and the rename, and `WritesOnlyUnderLateStart`
says that the cache is replaced under a running Deadlock only when that started
after the second inspection. `README.md:41` of the repository promises more; the
run `cache_running_deadlock` shows the behaviour in which it fails, as a
divergence of document and code.

### ArtifactTransaction and AtomicDirectory

`tree` holds where the catalogs are: in the artifact directory, in the retained
`previous` of a transaction, or in its `new`. A change of a name is durable only
after a sync; until then `treesOnDisk` and `journalsOnDisk` collect the values
that a loss of power may leave, each independently of the other. One action
stands for each rename, write, removal and sync of `commit` and
`recover_pending_artifacts`.

`AtomicDirectory` says what all of this is for: one current catalog that
changes in one step and never disappears. The mapping takes as *published* the
catalog that recovery would leave (`Current`), and as *possible* those it would
leave after a loss of power. TLC checks `ReplacesAtomically` as a property, and
`ArtifactTransactionProofs` proves it.
`RecoveryIsPossible` says that no crash of the program itself leads to the
errors with which `recover_pending_artifacts` refuses a journal, and
`AckedIsDurable` that a catalog whose `commit` returned `Ok` is on disk.

### CachePlan

The document is the section `Unpublished`, a sequence of entries with author,
identity, hero, marker, content and time, and the set of private identities
that `Favorites` and `SavedLastUsed` hold. An installation is one action here;
that it takes effect as one step is what `CacheTransaction` is about. Between
installations the game creates, copies, edits and deletes builds. Requests are
catalogs of different heroes, contents and path identities. The properties
relate the plan to its own past (`InstallIsIdempotent`, `IdentitiesAreFresh`),
to the entries that are none of its business (`OnlyManagedReplaced`,
`IdentitiesAreUnique`) and to the other reader of the same document, `status`
(`InstalledIsCurrent`, `CurrentIsInstalled`).

An entry need not be a build. A value without bytes (`no_blob`) is retained by
an installation and passed over by `status`; bytes that are not the protobuf of a
build (`malformed`) are retained as well, but `status` ends with an error on them
(`Comparable`, from `managed_builds`). `OnlyManagedReplaced` covers everything that is
out of the scope of a request: these entries, builds of others, builds without
marker, and the managed builds of heroes that the request does not name, which
`cache_status.rs:22` promises to keep. `InstalledIsCurrent` says that `status` calls an
installed catalog current, except when an entry outside the reach of the
installation keeps it from comparing: malformed bytes, or two builds with one
identity for a hero that is not in the request (`Spoiled`). The other way round
(`CurrentIsInstalled`) a catalog that is called current can be installed with no
new build and with every identity and all that is shown kept; `status` deliberately
ignores titles (`Shown`), times, and builds of earlier versions (`legacy`), so these
may still change or go.

### Kv3Binary, Kv3Encode, Kv3Decode, Kv3Game, Kv3Cache

A file is a header, a body and the blocks that follow the trailer of the body. A
byte is a cell; a number of several bytes is one cell with its width and value,
followed by empty cells for its other bytes. Lengths, offsets and alignment are
those of the file, and a read at a wrong place finds no number instead of some
number. What LZ4 and Zstandard do is that a block becomes its contents. `Kv3Encode`
is `encode_kv3` (version 4, or 5 where a flag needs it, uncompressed); `Kv3Decode` is `decode_kv3` for the
legacy form and versions 1 to 5, the recursion over values with its limits
included; the reader of the legacy form reads its values as the others do, from the body
itself in place of streams (version 0). The code writes and reads a value by calls that call themselves. The
models keep the open calls in a list, innermost first, and a step works on the first
of them (`WriteNext`, `ReadNext`); a recursive function runs the steps, as many as the limits
of the codec leave (`Steps`). So what a call knows and leaves to its caller can
be seen between two steps, which is what the proofs need. `Kv3Game` stands for the game, which is not in the repository: it writes
a document in any version, compression, width of integers and form of arrays that
the decoder accepts.

`Kv3Cache` lets the game and `prepare_cache_update` write the same file in turn.
`ReadsWhatWasMeant` and `WhatIsReadCanBeWritten` say that a document is refused
only for a documented limit, so that an encoder and a decoder with the same
mistake do not pass for a correct pair: the file of the game does not come from
`EncodeKv3`. One of the limits counts twice: a header adds the blobs to the buffer also in version 2,
where uncompressed blobs lie in the buffer (`Declared`, `steam/kv3_header.rs:61`), so
such a file is refused at less than the limit. `DamagedFilesAreRefused` cuts the
file at every byte, or lets it end in zeroes where its length was stored before its
contents; the zeroes are tried for the files of the game and of the encoder, of
every version, that have no part compressed as a block.

### CacheDiscovery and SyncWorkflow

A disk is a list of candidates for Steam roots, of which several may lead to one
directory, accounts, paths with the file each leads to, and the names of users.
`DiscoverCache` and `LocalPersona` follow the code step by step. `Matching` and
`Owners` state what the user may expect without an order of search, and
`OnlySelectedCache` compares the two at each command, while Steam adds caches.

A command of `SyncWorkflow` is the sequence of its calls (`Plan`). Between two
calls other processes run, the game is updated, Deadlock starts or stops, the
game saves a cache, and the process may be killed or its call fail. The artifact
directory disappears between the two renames of `commit`; everything else in a
transaction is one step. `quiet` is a history variable: nobody else has changed
anything since the command began. A verdict (the exit code) can be wrong when
something has changed in the meantime; `VerdictsAreHonest` says that this is the
only case, and `NothingStaleIsWritten` holds with any changes: what is written to
a cache was wholly current at one moment of the command, although the client
version and the patch are asked for one after the other.

### RunLifecycle

A lock belongs to a file and not to its name: `lockFile` is the file under the
name `.refresh.lock` of each run, `file` the one that a process has opened, and
`locks` the holder of each. A removal selects a run that has not changed in
an hour (`aged`), looks for its lock file, tries the lock, and unlinks one entry
after the other. Every process may name any run, also one that exists.

`past` are the identifiers under which a run has been an hour old, and `fresh`
the processes whose identifier was not among them when they made the directory:
an identifier is the time of the start, unless `--run-id` names another. For
these processes `OwnRunStays` and `OwnRunIsGuarded` hold: nobody removes an
entry of the run, however long it takes, and the lock file under its name stays
the one that the process holds.

For other identifiers it is not so, in two cases.

- A run is *reopened*: the run `analysis_runs_reopened` shows a process that
  creates and locks the lock file of an old run between the inspection by a
  removal, which found none, and the removal of the entries. The comment at
  `analysis/refresh.rs:31` says that a locked run stays.
- An identifier is *used again*: two removals select the same old run, the first
  removes it, `--run-id` makes a new run with its identifier, and the second
  removal, which found no lock file before, takes the new entries. This needs
  three runs (one for each removal and the old one), more than the instance of
  TLC has; the attempt to prove the properties without `past` has shown it. The
  documentation comment of `remove_unlocked_run` ("a run that changed in the last
  hour stays, also when nothing locks it") does not hold here either.

### RequestSchedule and Production

The threads of `request_api_inputs` (`analysis/hero_build_production.rs`) share
one client. `due` is the time left until `next_request`, `holder` the thread that
sleeps in `wait_for_request_slot` with the mutex. A thread enters the schedule,
takes its slot, gets one of the outcomes of `send_request`, records a delay, backs
off and tries again, until its heroes are done or one of its requests fails.
Instants are modelled by the time left until them, which the code itself computes
(`saturating_duration_since`), so that the state space is finite without a bound
of time; `Tick` may come any time after a sleep has ended.

`SlotsAreSpaced` and `DelaysAreRespected` are about the slots, the instant of
line 128 of `input/http_client.rs`. The request itself starts after that, when the
thread runs again and has a connection, so that two requests can reach the
server closer together than their slots. While a thread waits for the mutex to
record a delay, others may take slots: the delay counts from the moment it is
recorded.

`Production` goes on with one hero. The code assembles builds while the API
answers, but the two share no state and are joined before either is used, so the
assembly comes after the requests. `Advance` is a phase of `assemble_build`, on
any estimates or none; `Assemble` makes CORE, the situational items and the key
item; `AttachOrder` selects the ability order from a response; `Produce` adds
icons, imbue targets and focus, or fails as the code does. Logarithms and effects
are integers, as the code only compares and adds them.

`PhasesAreOwned` relates the finished build to what was owned after each phase,
which the code forgets. `OrderIsBestSupported` compares the search with its
recursion to all complete orders. `ProducedBuildsAreValid` says that what
production lets pass satisfies both validations that come later, since the
failure of one hero there fails the catalog of all.

### TraceDirectory and TraceEvents

In `TraceDirectory` every process prunes when it starts, without a lock: it
looks for `.active` and then for `trace.jsonl` in each entry, keeps two completed
traces, and removes the others file by file; then it makes its own directory, the
marker and the trace. `stale` records what another process marked or took apart
after a process had looked at it. The properties say that these are the only ways
in which a session loses its files (`RunningTracesStay`) or fails to start
(`StartFailsOnlyAfterOthers`), and that completed traces stay few
(`TracesAreBounded`). A killed session leaves its marker: its trace is never
pruned, and is not counted.

`TraceEvents` is one writer with its limit, its stack of parents and the marker
of a cut, under a program that calls, returns, fails and is killed in the middle
of a line, and `Summary::record` over the lines. `spans` is what has really
happened, and `SummaryIsFaithful` compares.

## Runs

| Run | Asks | Bounds | States |
|---|---|---|---|
| `cache_safety` | is anything lost, is the lock exclusive, is restore the undo? | 2 processes, 2 readable contents and 1 unreadable, 3 backups | all reachable, symmetric |
| `cache_liveness` | does every operation end? | 2 processes, 2 contents, 2 backups, no symmetry | all reachable |
| `cache_running_deadlock` | is the cache ever replaced while Deadlock runs? (yes) | as above | up to the counterexample |
| `artifact_safety` | is the replacement atomic, possible to recover, durable? | 2 processes, 3 directories and an original catalog | 10,275, symmetric |
| `cache_plan` | identities, builds out of scope, repetition, agreement of `status` | 2 heroes, 2 paths, 3 contents of which 2 look the same, identities below 4, 3 entries, 1 copy, 5 documents to begin with | 34,474 |
| `kv3_cache` | is a file of the game ever misread, or read and not writable? | 14 values beside the builds, 3 lists of builds, all versions and compressions, 270 bytes, 13 values, depth 3, padding of 0 or 3 bytes | 2,055 files |
| `sync_workflow` | is anything stale written, are exit codes true, is the right cache selected? | 2 processes, 2 commands, 2 client versions and 2 patches, 1 other event, 5 candidates for 3 roots, 2 accounts and account 0 | about 727,000, symmetric |
| `analysis_runs` | does a process keep the run it has made? | 2 processes, 2 runs, 3 lock files | 2,146,731, symmetric |
| `analysis_runs_reopened` | does a locked run stay? (no) | as above | up to the counterexample |
| `request_schedule` | are slots apart, delays respected, is Ok complete, do requests end; is a build in its budgets, well ordered, valid? | 3 threads, 4 heroes, 3 attempts, an interval of 2 units, seconds of 3, delays of 0 and 5; 5 items, 6 estimates, 8 responses, 3 abilities of which 2 make an order | 309,016 |
| `trace_directory` | whose traces are removed, which starts fail? | 2 processes, 3 sessions, 0 or 2 traces found | 612,712, symmetric |
| `trace_events` | is the trace bounded and its summary faithful? | 17 bytes, 2 of them reserved, events of 1 or 3 bytes, 3 operations | 48,599 |

Why these bounds are enough. Two processes give every order of one operation
against another, and the environment is a third party. Three backups let an
installation, its recovery and a restoration follow each other; more are covered
by the proofs. Three transaction directories are a committed, an abandoned and a
running transaction. Identities below 4 make the local limit (1000 in the code)
one that is reached, and three entries hold a managed build, its copy and a
build of the game, or an entry that is no build. Requests of one and of two heroes leave
managed builds, and copies of them, of a hero that the next request does not
name. Three lock files let a run be removed and made again while an old lock is
open. Four heroes give one thread two requests and three threads a contended
mutex; delays shorter and longer than the interval can be recorded in both
orders.

The documents of `kv3_cache` hold every kind of value, an array of each typed
form, a flag of each code and streams that are empty or not of each width; each
limit (bytes, values, depth) is exceeded by some of them. Two commands in
`sync_workflow` are a kill in a replacement and the `install` after it, or a
command under another's `build`; two versions of each kind let the
catalog be half old. Five items are a chain of two upgrades and two items of the
same tier as others, so that a component is used up, bought again and dropped; two
abilities with two ranks have six complete orders, and the responses hold ties,
cuts, dead ends and other abilities. Three sessions with two found traces make a
process prune, and a second one prune the same traces. Seventeen bytes cut the
trace at every depth of three nested operations.

Where a run reaches a bound, the model stops where the code returns an error
(backups, identities), or only a step of a bounded counter is disabled
(directories, lock files, names, commands). `trace_directory`, `trace_events` and
`sync_workflow` do not check for deadlock, because their processes may all have
ended; every other run does.

`TypeOK` of `ArtifactTransaction`, `RunLifecycle` and `TraceDirectory` is in no run,
since it is proved.

## Fairness

`cache_liveness` assumes weak fairness of the steps of each process, calls that
return errors included. The code justifies it because no call waits for another
party: locks are taken with `try_lock`, processes are inspected once, and a process
that the system runs comes to its next call. Nothing is assumed about Deadlock, Steam or the
start of an operation.

`request_schedule` assumes, for `RequestsEnd`, that time passes and that each thread
goes on when it can: `timeout_global` ends a request that gets no answer. The mutex of
the standard library is not fair, and no strong fairness is assumed: a thread may lose
the mutex to others again and again, but each of them has a bounded number of attempts.

## Proofs

TLC checks small instances; the proofs hold for every value of the constants, and
all of them are checked by `tlapm` down to their leaves.

`CacheTransactionProofs` proves, for every set of processes and contents and
every number of backups, type correctness, `LockExcludes`,
`ReplacedBytesAreSaved`, `NoLostUpdate`, `WritesOnlyUnderLateStart` and
`RestoreUndoesLastReplacement`, all safety properties of the run `cache_safety`. The
assumptions are the three of `CacheTransaction`: `None` is neither a process nor
a content, the readable contents are some of the contents, and the bound of
backups is a natural number.

None of the properties is inductive. The invariant `IInv` adds to `TypeOK`:

- `BytesKnown`: an operation knows its bytes when it needs them, so that what a
  backup stores and a rename writes is a content;
- `LockNamesHolder`: the lock names exactly the process that is in the protocol,
  so that every step of another process leaves the shared state alone;
- `BackupInProgress`: the newest backup is the one the holder makes and holds
  what it expects in the cache. This is what carries the bytes from
  `create_backup` to the rename;
- `SavedDurably`: what was replaced is in a *durable* backup. The property asks
  for a complete one only, which a loss of power could take away;
- `UndoIsNewest`: what the last replacement replaced is the newest complete
  backup, which is what `latest_backup` selects;
- `ComparedHolds`, `CheckedHolds`: what the comparison and the second inspection
  found still holds at the rename, but for a late write and a late start.

The module has facts about the sequence of backups, one lemma per action, and
the theorem `Invariance` that combines them; the six properties follow from
it.

`ProductionProofs` proves all safety properties of the run `request_schedule`, for
`ProducerSpec`, in two parts.

The requests: `TypeOK`, `SlotsAreSpaced`, `DelaysAreRespected` and `OkIsComplete` hold for
every number of threads and heroes, every interval and every set of delays
(`NumbersAssumption`, `RetryAfterAssumption`, `NoneAssumption`). The invariant
`RequestInv` says that only the holder of the mutex is about to take a slot, that the
schedule covers what is left of the interval and of the recorded delays
(`ScheduleCovers`: a sleeping thread sleeps as long as all of them), that a thread
that has not failed has an attempt left, and that each thread has or will ask for
what it was dealt (`HeroesCovered`); that every hero is dealt to a thread is the lemma
`EveryHeroIsAssigned`.

The build: `PhasesAreOwned`, `OrderIsBestSupported` and `ProducedBuildsAreValid` hold for
every shop, all estimates, medians, responses, assets and targets, and any number of
abilities and ranks. `BuildInv` says at each stage what the later ones need.

- *The phases.* `AssemblyInv` relates what is owned, bought and priced after each phase. A
  candidate leaves what is owned in the budget or alone; what was bought and is not owned
  has become a part of what is, in as many steps as there were purchases after it
  (a set that holds what is owned and all parts of its own items holds it). The proof has
  corrected the property, which allowed two steps only: true in the instance,
  false in a shop with longer chains. That a greedy phase that buys nothing has no item
  worth its price is why a hero may be passed over.
- *The order.* The memo of `resolve_ability_continuation` is a function over the decision
  states, whose existence and equation are proved by induction over the purchases that
  are left; `Position` counts the purchases made, so it grows by one with each. A
  result that is not `Absent` is a complete order whose every purchase was observed; an
  observed complete order makes each of its states viable. Two orders that part are in
  the same decision state there, and the choice of `Best` decides between them.
- *The rest.* A build that was assembled has distinct items and its key item in CORE. Order,
  icons, targets and focus each keep this, and add what `ValidHero` and `Presentable` ask
  of them (`IsValid`). The three icons differ when they are selected, and still do when
  `assign_build_focus` puts another ability first.

Two assumptions about data are checked nowhere in the code. `CatalogAssumption`: the
name of an item is not empty and at most as long as a title (its tier and its components are
what `is_shop_item` and `ItemCatalog::new` leave).
`IdentitiesAssumption`: no number is both an ability and an item or a tag. If one were,
the ability that `assign_build_focus` puts first could equal another icon, and the Steam
contract would refuse the build (`Presentable`). The others (`InputsAssumption`,
`TagsAssumption`, `AbilitiesAssumption`, `AbsentAssumption`) give the inputs their types
and take the tags as `BuildTagCatalog::from_assets` leaves them.

`ArtifactTransactionProofs` proves `TypeOK`, `RecoveryIsPossible`, `AckedIsDurable`
and `ReplacesAtomically` for any number of processes, transactions and catalogs
(`NamesAssumption`, `AbsentAssumption`: names of directories are distinct from the other
names, and no journal is `Absent`). A loss of power takes any of the trees and any of
the journals that may be on disk, so the invariant speaks of all pairs of them:
`DiskIsFit` says that recovery accepts each pair and what it would leave,
`SettledIsUniform` that after the sync of a commit all pairs lead to the same
catalog, `OneActive` that only the process with the lock has a transaction in
progress, and `UnusedIsEmpty` that a new directory is really new. What a process in the
middle of a transaction knows is in `Staging`, `Installing`, `Recovering` and
`Committing`. The refinement is by three lemmas over the steps: what is published
changes only at the rename that moves the new tree in (`Published`), what is possible
grows and shrinks as `AtomicDirectory` allows (`Possible`), and what was acknowledged
is kept (`Kept`).

`RunLifecycleProofs` proves `TypeOK`, `OwnRunIsGuarded` and `OwnRunStays` for any number
of processes and runs (`NoneAssumption`, `MaxFilesAssumption`). `OneName` says that a
lock file has one name at most, so that a removal that has opened a lock file knows whose
it is; `Guarded` that no removal has selected a run before it is locked, since
its identifier is not past, and that afterwards each removal of it finds the lock held.

`TraceProofs` proves `TypeOK`, `RunningTracesStay`,
`StartFailsOnlyAfterOthers` and `TracesAreBounded` for any finite number of processes, any number of sessions and whichever
completed traces there are at first, at most two as an earlier start leaves them
(`DirectoriesAssumption`). The invariant follows a
trace from the first look of a scan to its removal: an entry seen without a
marker has none or the view is outdated (`Unmarked`); a candidate is a completed
trace, with its file unless the process itself has just removed it, or the view is
outdated (`Completed`); and a directory is in nobody's list before its session has
written the trace (`Young`, `Owned`, `Seen`), which is why the marker comes first.
That the next victim exists is the well-foundedness of the numbers.

`TracesAreBounded` is about the past: that a process which pruned left two of the traces
that it found says nothing about those completed since, and the state does not say when
a trace was completed. So the invariant is that there is a *history*, when each process
began, when each directory was made and when each trace was completed, and by which
process, that explains the state (`Explicable`, `Explains`): of what a session left when it
pruned, at most two traces were complete before its process began (`Pruned`); a trace is
completed by its own session, or by the removal of its marker by a process that began
before the directory was marked (`Joined`); and what one process does is one after the
other (`Orderly`). From such a history the bound follows by charging each
completed trace, except the two that were there longest, to a process of its own: to the
process that completed it if that began when there were fewer than three, and otherwise
to the one that made it (`ExplainedIsBounded`, an injection). Each action extends the
history or explains the new state by the same one; TLC checked the invariant first, with
the history as a variable.

The same module proves `TraceIsBounded` and `SummaryIsFaithful` for every limit, every number of operations
and all lengths of events, also with errors in the middle of a line
(`SizesAssumption`: the marker fits into its reserve, and the reserve into the limit).
The invariant is that a writer that has not stopped has counted all bytes and left
the reserve, and that a line that ends the trace has stopped the writer. For
`SummaryIsFaithful` the summary, a fold over the lines, is followed line by line
(`SummaryOfAppend`). The parents are the traced operations of the stack, each at its depth
(`Lists`, `Nested`), so that the depth which the summary computes from the parent of a
call is the real one; what the summary has agrees with what happened (`Agrees`), and as long
as the writer writes it has all of it (`ShownWhole`). `DepthAssumption` says that operations
are never nested deeper than a summary accepts (1024): a deeper trace would be refused.
`AbsentAssumption`: an absent identifier is not a number.

`SyncWorkflowProofs` proves `NothingStaleIsWritten` for any number of processes, of
commands and kills, of updates of the game and of changes of the disk
(`VersionsAssumption`, which only says that the bound of the runs is a number). The
client version and the patch are two requests with anything between them. The argument
is that versions only grow: no catalog and no captured patch, in the directory, in an
unfinished transaction or in a process, is later than the game (`StoreIsPast`, `IsPast`);
what the game was at the first request is not before the catalog that the command had
by then (`HasSeen`, and `HasCatalog` for the order of the calls); so a catalog whose
patch is current at the second request, and therefore was not yet replaced at the first,
had exactly the versions of the first (`Agrees`). The order matters: with a catalog read
between the two requests the argument fails.

The same module proves `VerdictsAreHonest`, `CatalogIsFound` and `OnlySelectedCache`. The
invariant `HInv` adds what a command knows while nobody has disturbed it (`Knows`): after
the calls up to a step, the catalog it holds is the one in the directory, what it saw of
the game is the game, and the catalog it compares or has written is in the cache it has
found; its verdict follows from the last of these. `OnlySelectedCache` compares the search
with `Matching` and `Owners`: the candidates that the loops over roots, accounts and names
collect are exactly the paths that fit the arguments, each file once. The loops are folds,
and `FoldReaches` shows by induction that what holds of the first value and is kept by
each round holds of the last. The assumptions (`NoneAssumption`, `DisksAssumption`,
`SearchesAssumption`) say that the values that stand for nothing are no other values, that
a disk is a list of roots with accounts, and that an account is a number.

`CachePlanProofs` proves all properties of the run `cache_plan`, for documents and
requests of any length, any sequence of installations and whatever the player does in the
game. Entries are builds of the player or of others or no builds (`Authors`), and markers and contents are arbitrary
(`PathsAssumption`: a path is not the name of another marker; `DataAssumption`: there are
contents and times at all). The invariant says that private builds have distinct local
identities, and that the document after an installation contains each build of the request
once, and no other managed build of its heroes (`Installed`). That `status` can then compare
follows too: two builds with one identity are either both of these, and then the same, or both
outside the request (`InstalledStaysCurrent`). The rest is about one
installation: an entry that is left is in the new document once and in its order, a new
identity is above all that are in use, and the entries that are removed are as many as the
plan counts. `Filter` and the sequence of replacements are recursive functions; what they
return is proved by induction over their length. The induction theorems of the library
take an operator, so `NumberInduction` and `SequenceInduction` take a *set* of numbers or
sequences and follow from the least number that is not in it.

The second half of `CachePlanProofs` is about the codec. `WriterEnds`: the writer of a value
always stops within `Steps`, with the value written or an error, since a step
that does not stop opens a call, ends one or counts a value against `MAX_VALUE_COUNT`
(`Elapsed`). `EncodedValuesAreRead`: whatever tree of values (`Tree`, of any
depth and size) the encoder writes without an error, the decoder reads from the streams which
the encoder has collected; in both forms of these, those of version 4 and those of version 5
with lengths of objects apart. The argument is a lockstep. Both
keep a list of open calls, and after each step the two lists show the
same calls of the same values (`InStep`); the streams of the decoder are then what
the encoder writes from here to its end (`Follows`), which is known because a
stream only grows (`Grows`). The encoder checks depth and number of values as
it goes, the decoder does the same with its own counts and with lengths it compares to
what is left; that the decoder never refuses needs a second invariant that looks forward, from
the end of a successful run back to each step: there is still room for
what the open calls have announced (`Fitting`, `WillEnd`). `LimitsAssumption`: the limits are
numbers above zero, and a file may have as many bytes as values.

`Kv3FileProofs` goes on from the streams to the file. `EncodedFilesAreRead`: every file that
`encode_kv3` writes for a tree of values, in version 4 or in version 5, is read by
`decode_kv3` as the same document with the same padding. On the side of the writer an
invariant of its steps (`Sound`, and `Collected` at the end) says that the
streams have the form which a header needs: no text of the table holds a zero and their
bytes are counted, the lengths of the blobs add up to the blobs, and each stream is within its limit since
every value takes at most one place in it. On the side of the reader a cursor is described by the
cells that are ahead of it (`Ahead`), so that a stream, a text, a number or a trailer
taken from what is ahead leaves the rest ahead (`StreamTaken`, `TextsTaken`, `BlobsTaken`). The
payload is the concatenation of its parts once in the order of the writer and once in
the order of the reader (`OlderWritten` and `OlderRead` for version 4, `NewerWritten` and
`SecondRead` for version 5); the alignment comes out alike because both compute it from the same
lengths. The decoder that this gives finds the streams of `EncodedValuesAreRead`.

The theorem has one condition beside an encoder that succeeds: the integers of the file are
not more than `MAX_VALUE_COUNT`. It is the only limit of the reader that the proof did not find
in the writer: the member of an object needs an integer for its name and may need one for its value, so a document within
the limits of the encoder may need more integers than the reader takes
(`steam/kv3_encode.rs:213`). It is also the one escape that `WhatIsReadCanBeWritten` allows;
`prepare_cache_update`, which reads again what it wrote, then stops before it installs.

`DamagedEncodingsAreRefused`: when only the first cells of the body of such a file reached the disk, and
behind them there is nothing or there are zeroes, `decode_kv3` returns no document, unless
all that was lost were zero bytes at the end, and then the root is still the one that was encoded. What is lost
includes at least the first cell of a trailer: of the one at the end of the payload, or of the one
behind the blobs, in front of which there is none at the offset where the blobs begin
(`CutParts`, `NoTrailerAt`). A reader goes on at the offsets that the header gives or fails
(`Reaches`, `StreamsReach`), so when it comes to that place it fails as well
(`TrailerMissing`), and no later step undoes a failure
(`OlderPayloadFails`, `NewerPayloadFails`). The cut is where a byte or a number begins;
within a number the model has no cells. No limit is assumed here, since a header beyond the limits
of the reader is refused anyway.

Only model-checked: liveness and what involves ENABLED (`OperationsEnd`,
`RequestsEnd`), and the three properties of `Kv3Cache`, which compare the codec with the writer of the
game (what `DamagedFilesAreRefused` says of its files is proved of those that `EncodeKv3` makes); its module and `Kv3Game` declare `RECURSIVE` operators, in which the
provers have no SMT solver.

## Where documents and code differ

Two differences are shown by runs: `cache_running_deadlock` (`README.md:41`) and
`analysis_runs_reopened` (`analysis/refresh.rs:31`). Others were met while modelling.
The models follow the code.

- `README.md:73` promises the "most common complete ability order". The code decides
  purchase by purchase, with the matches of all orders that come to the same ranks
  (`OrderIsBestSupported`), so the result may be an order that nobody has followed. The
  matches reported with it are those of its last decision, not of "matches that follow
  it to the end" (`guides/ability_order.rs`).
- `docs/build-method.md:67` lists CORE "by phase, and then by the median first purchase
  time". The code sorts by the median net worth and then by the time of the purchase; and by `docs/build-method.md:73`
  the key item is the one with the largest effect, while the code adds use and effect.
- `docs/build-method.md:8` says: "Do not skip a hero because its evidence is weak." A hero
  without any item worth its price is skipped, and a hero without a complete order and
  with few items in CORE fails the catalog of all.
- When the order is complete and the selection of icons fails, `assign_build_focus`
  replaces the icon of the key item all the same. A key item with a name of more than 50 characters passes
  `validate_hero` and fails the installation; `ProducedBuildsAreValid` holds for
  shorter names (`CatalogAssumption`).

## Assumptions and what is left out

- The clock does not step back: `latest_backup` takes the greatest `created_at`,
  and the model the last one made. Traces of an earlier, later clock are in
  `TraceDirectory` (`Found`).
- `backups/<account>` itself is durable; `create_backup` syncs it but not its
  parent. What Deadlock and Steam write is durable at once, and they do not
  delete the file.
- Backups of other cache locations are passed over by
  `backup_matches_location` and are left out. `remotecache.vdf` is saved beside
  the cache and never written.
- After a failed installation with a successful recovery, the newest backup holds
  the failed replacement: `RestoreUndoesLastReplacement` describes this, since a
  recovery is a replacement of its own.
- A kill leaves temporary files that nothing reads.
- `commit` can return an error with the new catalog in place, when only the last
  sync failed. `staged/builds` is not synced: a whole catalog stands for its JSON
  file.
- `LastUsedBuilds` holds no local identities that `next_local_id` reads, builds
  from the server carry identities of the server, and the game gives a new build
  a free identity. The SHA-256 form of identities and the fingerprint of the manifest
  are left out of `CachePlan`.
- A removal and the first calls of another process (directory, lock file, lock)
  are not an hour apart (`Age`). Which sources a run captures, and the
  fingerprints a resumption compares, are abstracted to the presence of files;
  runs with other identifiers than automatic ones are never removed and left out.
- `SyncWorkflow`: versions of the game only increase; names of account
  directories are plain numbers; `--since` and `--as-of` are left out; a failure of
  the API or of the file system ends the command without a verdict.
- The encoder does not check the lengths of its streams against the limit of the
  reader (`steam/kv3_encode.rs:213`): `WhatIsReadCanBeWritten` names this case, in
  which `prepare_cache_update` refuses to install. The decoder of versions 1 to 5
  takes members without a name, which the encoder refuses; the documents of the game
  have none.
- Production: the statistics behind estimates and targets, the evaluation on held-out
  matches, the classification of items by their texts, and all texts shown are left out.
- Not modelled: the protobuf fields (a wire format without state), statistics
  (floating point), SQL over DuckDB and extraction, the API session (parameters and
  parsing; the client version is written once), helpers of `data/`, and output other
  than the summary of a trace.

## Plan

What is left: the files of the game. `ReadsWhatWasMeant` in general needs a proof of
each version and compression against a writer that is not in the repository.
