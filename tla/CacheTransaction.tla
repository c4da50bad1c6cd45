--------------------------- MODULE CacheTransaction ---------------------------
(***************************************************************************)
(* The guarded replacement of Steam's cached_hero_builds.kv3 by the        *)
(* deadlock-steam crate: install_cache_update, its automatic recovery, and *)
(* restore_latest, at the granularity of their file-system calls.          *)
(*                                                                         *)
(* Several processes of the program may run at once and exclude each other *)
(* with a lock file.  Deadlock and Steam know nothing of that lock: they   *)
(* write the same cache file whenever they like.  A process may be killed, *)
(* any call may fail, and the machine may lose power.                      *)
(***************************************************************************)
EXTENDS Naturals, Sequences

CONSTANTS
    Procs,      \* processes of the program
    Bytes,      \* possible contents of the cache file
    Readable,   \* the contents that read_cache accepts as a cache document
    None,       \* no process, no contents
    MaxBackups  \* bound: backup directories (unique_directory's suffix range)

ASSUME ReadableAssumption == Readable \subseteq Bytes /\ Readable # {}
ASSUME NoneAssumption == None \notin Procs /\ None \notin Bytes
ASSUME MaxBackupsAssumption == MaxBackups \in Nat

VARIABLES
    cache,        \* contents of cached_hero_builds.kv3
    onDisk,       \* what it would hold after a loss of power
    deadlock,     \* is a Deadlock process running?
    lock,         \* holder of .deadlock-build-sync.lock, or None
    pc,           \* the next call of each process
    op,           \* what each process does: install, its recovery, or restore
    expected,     \* the bytes each process read and wants to find unchanged
    replacement,  \* the bytes each process wants to put in the cache
    backups       \* backup directories, oldest first

\* History variables: they record what happened and guard nothing.
VARIABLES
    lateStart,    \* Deadlock runs and started after a final process check
    lateWrite,    \* Steam or Deadlock wrote after a final fingerprint check
    overwritten,  \* contents the program has replaced (but for late writes)
    undo          \* what the last replacement replaced, while no newer backup
                  \* has been completed; None otherwise

fileVars == <<cache, onDisk, backups>>
procVars == <<lock, pc, op, expected, replacement>>
histVars == <<lateStart, lateWrite, overwritten, undo>>
vars == <<fileVars, deadlock, procVars, histVars>>

-------------------------------------------------------------------------------
\* The steps of a process, in program order.
BackupSteps  == {"backup", "manifest", "syncBackup"}
ReplaceSteps == {"stage", "checkAgain", "compare", "persist", "sync", "verify"}
LockedSteps  == {"locked", "recover"} \cup BackupSteps \cup ReplaceSteps
Steps        == {"idle", "start", "lock"} \cup LockedSteps
Operations   == {"none", "install", "recovery", "restore"}

\* A backup directory without its manifest is partial; with it, complete; once
\* the directory entry is on disk, durable.
Statuses == {"partial", "complete", "durable"}
Backup   == [bytes: Bytes, status: Statuses]

HoldsLock(p) == pc[p] \in LockedSteps

\* A faulty variant: a directory counts as a backup without its manifest.
IsCompletePartialToo(i) == i \in DOMAIN backups
\* latest_backup passes over a directory that lacks the cache or the manifest.
IsComplete(i) == i \in DOMAIN backups /\ backups[i].status # "partial"

\* The complete backup with the greatest created_at.  Backups are made one
\* after the other, so with a clock that never steps back it is the last one.
IsLatest(i) == IsComplete(i) /\ \A j \in DOMAIN backups : IsComplete(j) => j <= i

Init ==
    /\ cache \in Bytes
    /\ onDisk = cache
    /\ deadlock \in BOOLEAN
    /\ lock = None
    /\ pc = [p \in Procs |-> "idle"]
    /\ op = [p \in Procs |-> "none"]
    /\ expected = [p \in Procs |-> None]
    /\ replacement = [p \in Procs |-> None]
    /\ backups = <<>>
    /\ lateStart = FALSE
    /\ lateWrite = FALSE
    /\ overwritten = {}
    /\ undo = None

-------------------------------------------------------------------------------
GoTo(p, step) == pc' = [pc EXCEPT ![p] = step]

\* The process returns or dies: the system releases its lock with its file.
Finish(p) ==
    /\ pc' = [pc EXCEPT ![p] = "idle"]
    /\ op' = [op EXCEPT ![p] = "none"]
    /\ expected' = [expected EXCEPT ![p] = None]
    /\ replacement' = [replacement EXCEPT ![p] = None]
    /\ lock' = IF lock = p THEN None ELSE lock

-------------------------------------------------------------------------------
(* Start of an operation.                                                  *)

\* install_catalog reads the cache and derives its replacement from what it
\* read.  It holds no lock yet.
Prepare(p) ==
    /\ pc[p] = "idle"
    /\ cache \in Readable
    /\ \E new \in Readable :
         replacement' = [replacement EXCEPT ![p] = new]
    /\ expected' = [expected EXCEPT ![p] = cache]
    /\ op' = [op EXCEPT ![p] = "install"]
    /\ GoTo(p, "start")
    /\ UNCHANGED <<fileVars, deadlock, lock, histVars>>

RequestRestore(p) ==
    /\ pc[p] = "idle"
    /\ op' = [op EXCEPT ![p] = "restore"]
    /\ GoTo(p, "start")
    /\ UNCHANGED <<fileVars, deadlock, lock, expected, replacement, histVars>>

\* require_stopped, first call.
CheckStopped(p) ==
    /\ pc[p] = "start"
    /\ ~deadlock
    /\ GoTo(p, "lock")
    /\ UNCHANGED <<fileVars, deadlock, lock, op, expected, replacement, histVars>>

\* A faulty variant: the lock is taken without regard to its holder.
LockCacheShared(p) ==
    /\ pc[p] = "lock"
    /\ lock' = p
    /\ GoTo(p, "locked")
    /\ UNCHANGED <<fileVars, deadlock, op, expected, replacement, histVars>>
\* lock_cache: try_lock succeeds only on a free lock and never waits.
LockCache(p) ==
    /\ pc[p] = "lock"
    /\ lock = None
    /\ lock' = p
    /\ GoTo(p, "locked")
    /\ UNCHANGED <<fileVars, deadlock, op, expected, replacement, histVars>>

\* install_cache_update under the lock: the cache must still be what the
\* replacement was derived from; an unchanged cache ends the operation here.
BeginInstall(p) ==
    /\ pc[p] = "locked"
    /\ op[p] = "install"
    /\ cache = expected[p]
    /\ IF replacement[p] = expected[p]
       THEN Finish(p)
       ELSE /\ GoTo(p, "backup")
            /\ UNCHANGED <<lock, op, expected, replacement>>
    /\ UNCHANGED <<fileVars, deadlock, histVars>>

\* restore_latest under the lock: select and validate the latest complete
\* backup, then read the cache it is to replace, which need not be readable.
SelectBackup(p) ==
    /\ pc[p] = "locked"
    /\ op[p] = "restore"
    /\ \E i \in DOMAIN backups :
         /\ IsLatest(i)
         /\ backups[i].bytes \in Readable
         /\ replacement' = [replacement EXCEPT ![p] = backups[i].bytes]
    /\ expected' = [expected EXCEPT ![p] = cache]
    /\ GoTo(p, "backup")
    /\ UNCHANGED <<fileVars, deadlock, lock, op, histVars>>

-------------------------------------------------------------------------------
(* create_backup                                                           *)

\* A faulty variant: one directory more than unique_directory has names for.
MakeDirectoryOneMore(p) ==
    /\ pc[p] = "backup"
    /\ Len(backups) <= MaxBackups
    /\ backups' = Append(backups,
                         [bytes |-> expected[p], status |-> "partial"])
    /\ GoTo(p, "manifest")
    /\ UNCHANGED <<cache, onDisk, deadlock, lock, op, expected, replacement, histVars>>
\* A new directory with a synced copy of the cache (and of remotecache.vdf).
MakeDirectory(p) ==
    /\ pc[p] = "backup"
    /\ Len(backups) < MaxBackups
    /\ backups' = Append(backups,
                         [bytes |-> expected[p], status |-> "partial"])
    /\ GoTo(p, "manifest")
    /\ UNCHANGED <<cache, onDisk, deadlock, lock, op, expected, replacement, histVars>>

\* The manifest is written last and atomically.
WriteManifest(p) ==
    /\ pc[p] = "manifest"
    /\ backups' = [backups EXCEPT ![Len(backups)].status = "complete"]
    /\ GoTo(p, "syncBackup")
    /\ undo' = None
    /\ UNCHANGED <<cache, onDisk, deadlock, lock, op, expected, replacement,
                   lateStart, lateWrite, overwritten>>

\* A faulty variant: the parent directory is not synced.
SyncBackupNothing(p) ==
    /\ pc[p] = "syncBackup"
    /\ GoTo(p, "stage")
    /\ UNCHANGED <<fileVars, deadlock, lock, op, expected, replacement, histVars>>
\* The entries of the parent directory reach the disk.
SyncBackup(p) ==
    /\ pc[p] = "syncBackup"
    /\ backups' = [i \in DOMAIN backups |->
                     IF IsComplete(i) THEN [backups[i] EXCEPT !.status = "durable"]
                                      ELSE backups[i]]
    /\ GoTo(p, "stage")
    /\ UNCHANGED <<cache, onDisk, deadlock, lock, op, expected, replacement, histVars>>

-------------------------------------------------------------------------------
(* replace_cache                                                           *)

\* A temporary file beside the cache, synced and read back as a document.
Stage(p) ==
    /\ pc[p] = "stage"
    /\ replacement[p] \in Readable
    /\ GoTo(p, "checkAgain")
    /\ UNCHANGED <<fileVars, deadlock, lock, op, expected, replacement, histVars>>

\* A faulty variant: the second process check is left out.
CheckAgainNever(p) ==
    /\ pc[p] = "checkAgain"
    /\ GoTo(p, "compare")
    /\ UNCHANGED <<fileVars, deadlock, lock, op, expected, replacement, histVars>>
\* require_stopped, second call.
CheckAgain(p) ==
    /\ pc[p] = "checkAgain"
    /\ ~deadlock
    /\ GoTo(p, "compare")
    /\ UNCHANGED <<fileVars, deadlock, lock, op, expected, replacement, histVars>>

\* A faulty variant: the cache is read and compared with nothing.
CompareNothing(p) ==
    /\ pc[p] = "compare"
    /\ GoTo(p, "persist")
    /\ lateWrite' = FALSE
    /\ UNCHANGED <<fileVars, deadlock, lock, op, expected, replacement,
                   lateStart, overwritten, undo>>
\* require_unchanged, immediately before the rename.
Compare(p) ==
    /\ pc[p] = "compare"
    /\ cache = expected[p]
    /\ GoTo(p, "persist")
    /\ lateWrite' = FALSE
    /\ UNCHANGED <<fileVars, deadlock, lock, op, expected, replacement,
                   lateStart, overwritten, undo>>

\* The temporary file is renamed over the cache, whatever the cache holds now.
Persist(p) ==
    /\ pc[p] = "persist"
    /\ cache' = replacement[p]
    /\ GoTo(p, "sync")
    /\ overwritten' = overwritten \cup (IF lateWrite THEN {} ELSE {cache})
    /\ undo' = expected[p]
    /\ UNCHANGED <<onDisk, backups, deadlock, lock, op, expected, replacement,
                   lateStart, lateWrite>>

\* The rename reaches the disk.
SyncDirectory(p) ==
    /\ pc[p] = "sync"
    /\ onDisk' = cache
    /\ GoTo(p, "verify")
    /\ UNCHANGED <<cache, backups, deadlock, lock, op, expected, replacement, histVars>>

\* The installed cache is read back; the operation ends.
Verify(p) ==
    /\ pc[p] = "verify"
    /\ cache = replacement[p]
    /\ Finish(p)
    /\ UNCHANGED <<fileVars, deadlock, histVars>>

-------------------------------------------------------------------------------
(* Errors                                                                  *)

\* A faulty variant: a recovery that fails is itself recovered.
RecoversAlways(p) == /\ op[p] \in {"install", "recovery"}
                     /\ pc[p] \in ReplaceSteps \cup {"recover"}
\* Where an error leads: a failed replacement of an installation goes on to
\* recover_installation, every other error ends the process.
RecoversFrom(p) == op[p] = "install" /\ pc[p] \in ReplaceSteps

\* Any call may return an error: process inspection, the lock, a comparison,
\* a full disk.  A guard above that does not hold leaves only this step.
Fail(p) ==
    /\ pc[p] # "idle"
    /\ IF RecoversFrom(p)
       THEN /\ GoTo(p, "recover")
            /\ UNCHANGED <<lock, op, expected, replacement>>
       ELSE Finish(p)
    /\ UNCHANGED <<fileVars, deadlock, histVars>>

\* recover_installation finds the original bytes: nothing to do.
FindIntact(p) ==
    /\ pc[p] = "recover"
    /\ cache = expected[p]
    /\ Finish(p)
    /\ UNCHANGED <<fileVars, deadlock, histVars>>

\* It finds the replacement: back that up too and put the original back.
\* Any other contents are left alone (Fail).
BeginRecovery(p) ==
    /\ pc[p] = "recover"
    /\ cache = replacement[p]
    /\ ~deadlock
    /\ op' = [op EXCEPT ![p] = "recovery"]
    /\ expected' = [expected EXCEPT ![p] = replacement[p]]
    /\ replacement' = [replacement EXCEPT ![p] = expected[p]]
    /\ GoTo(p, "backup")
    /\ UNCHANGED <<fileVars, deadlock, lock, histVars>>

-------------------------------------------------------------------------------
(* The environment                                                         *)

\* Deadlock, or Steam's cloud synchronisation, writes the cache.  Neither
\* takes the lock.
ExternalWrite ==
    /\ \E new \in Bytes \ {cache} : cache' = new /\ onDisk' = new
    /\ lateWrite' = \E p \in Procs : pc[p] = "persist"
    /\ UNCHANGED <<backups, deadlock, procVars, lateStart, overwritten, undo>>

StartDeadlock ==
    /\ ~deadlock
    /\ deadlock' = TRUE
    /\ lateStart' = \E p \in Procs : pc[p] \in {"compare", "persist"}
    /\ UNCHANGED <<fileVars, procVars, lateWrite, overwritten, undo>>

StopDeadlock ==
    /\ deadlock
    /\ deadlock' = FALSE
    /\ lateStart' = FALSE
    /\ UNCHANGED <<fileVars, procVars, lateWrite, overwritten, undo>>

\* The process is killed between two calls.
Kill(p) ==
    /\ pc[p] # "idle"
    /\ Finish(p)
    /\ UNCHANGED <<fileVars, deadlock, histVars>>

\* The machine stops.  Backup directories whose entry was not synced may be
\* gone, and a rename that was not synced may be undone.
LosePower ==
    /\ \E lost \in SUBSET {i \in DOMAIN backups : backups[i].status = "complete"} :
         backups' = [i \in DOMAIN backups |->
                       IF i \in lost THEN [backups[i] EXCEPT !.status = "partial"]
                                     ELSE backups[i]]
    /\ cache' \in {cache, onDisk}
    /\ onDisk' = cache'
    /\ deadlock' = FALSE
    /\ lateStart' = FALSE
    /\ lock' = None
    /\ pc' = [p \in Procs |-> "idle"]
    /\ op' = [p \in Procs |-> "none"]
    /\ expected' = [p \in Procs |-> None]
    /\ replacement' = [p \in Procs |-> None]
    /\ UNCHANGED <<lateWrite, overwritten, undo>>

-------------------------------------------------------------------------------
Begin(p) == Prepare(p) \/ RequestRestore(p)

\* The calls of one operation after the other.
Step(p) ==
    \/ CheckStopped(p) \/ LockCache(p) \/ BeginInstall(p) \/ SelectBackup(p)
    \/ MakeDirectory(p) \/ WriteManifest(p) \/ SyncBackup(p)
    \/ Stage(p) \/ CheckAgain(p) \/ Compare(p) \/ Persist(p)
    \/ SyncDirectory(p) \/ Verify(p)
    \/ Fail(p) \/ FindIntact(p) \/ BeginRecovery(p)

Environment == ExternalWrite \/ StartDeadlock \/ StopDeadlock \/ LosePower

Next ==
    \/ \E p \in Procs : Begin(p) \/ Step(p) \/ Kill(p)
    \/ Environment

Spec == Init /\ [][Next]_vars

\* A process that runs gets to its next call; nobody need start one.
Fairness == \A p \in Procs : WF_vars(Step(p))
FairSpec == Spec /\ Fairness

-------------------------------------------------------------------------------
(* Properties                                                              *)

\* The variables have their types, and create_backup never makes more
\* directories than unique_directory has names for.
TypeOK ==
    /\ cache \in Bytes
    /\ onDisk \in Bytes
    /\ deadlock \in BOOLEAN
    /\ lock \in Procs \cup {None}
    /\ pc \in [Procs -> Steps]
    /\ op \in [Procs -> Operations]
    /\ expected \in [Procs -> Bytes \cup {None}]
    /\ replacement \in [Procs -> Bytes \cup {None}]
    /\ backups \in Seq(Backup)
    /\ Len(backups) <= MaxBackups
    /\ lateStart \in BOOLEAN
    /\ lateWrite \in BOOLEAN
    /\ overwritten \subseteq Bytes
    /\ undo \in Bytes \cup {None}

\* No two processes are ever between lock_cache and their return, and the lock
\* is free whenever nobody is, kills and losses of power included.
LockExcludes ==
    /\ \A p, q \in Procs : HoldsLock(p) /\ HoldsLock(q) => p = q
    /\ lock = None <=> \A p \in Procs : ~HoldsLock(p)

\* Whatever the program has replaced in the cache is in a complete backup from
\* then on: through errors, automatic recovery, kills and losses of power.
\* (Bytes that Steam or Deadlock wrote after the final comparison are not
\* covered: the program never saw them.)
ReplacedBytesAreSaved ==
    \A b \in overwritten :
        \E i \in DOMAIN backups : IsComplete(i) /\ backups[i].bytes = b

\* A rename replaces exactly the bytes the process compared: neither another
\* process of the program nor an earlier write of Steam or Deadlock is lost.
\* The only writes it can lose come between the comparison and the rename.
NoLostUpdate ==
    [][\A p \in Procs : Persist(p) => cache = expected[p] \/ lateWrite]_vars

\* The cache is replaced under a running Deadlock only if Deadlock was started
\* after the process check that immediately precedes comparison and rename.
WritesOnlyUnderLateStart ==
    [][\A p \in Procs : Persist(p) /\ deadlock => lateStart]_vars

\* README.md:41: "It prevents writes if Deadlock is in operation".
NoWriteWhileDeadlockRuns ==
    [][\A p \in Procs : Persist(p) => ~deadlock]_vars

\* Unless a backup was completed since the last replacement, restore --latest
\* selects exactly the bytes which that replacement replaced: it is the undo of
\* an installation, and of a recovery, and of a restoration, also when killed
\* processes have left directories without a manifest behind.
RestoreUndoesLastReplacement ==
    [][\A p \in Procs : SelectBackup(p) /\ undo # None => replacement'[p] = undo]_vars

\* Every operation ends by itself: a busy lock, a running Deadlock, a changed
\* cache and a failed recovery all lead to an error, never to waiting.
OperationsEnd == \A p \in Procs : pc[p] # "idle" ~> pc[p] = "idle"
=============================================================================
