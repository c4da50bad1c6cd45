----------------------------- MODULE RunLifecycle -----------------------------
(***************************************************************************)
(* The analysis runs of deadlock-analysis: extract_run makes or reopens a  *)
(* run directory, locks a file in it and fills it; when its build is done, *)
(* remove_other_automatic_runs deletes the runs of other processes, unless *)
(* they are locked or changed in the last hour.                            *)
(*                                                                         *)
(* A lock belongs to a file, not to its name: a process may open the lock  *)
(* file of a run and lock it after another process has unlinked it.        *)
(***************************************************************************)
EXTENDS Integers, FiniteSets

CONSTANTS
    Procs,     \* processes of the program
    Runs,      \* run identifiers with the automatic format
    None,      \* no process, no run
    MaxFiles   \* bound: lock files ever created

ASSUME NoneAssumption == None \notin Procs \cup Runs
ASSUME MaxFilesAssumption == MaxFiles \in Nat

VARIABLES
    entries,   \* what each run directory holds, or {None} if it is missing
    aged,      \* runs that did not change in the last hour
    lockFile,  \* the file under the name .refresh.lock of each run; 0: none
    files,     \* the number of lock files created
    locks,     \* the process that locks each file, or None
    pc,        \* the next call of each process
    run,       \* the run that each process works on
    file,      \* the lock file that it opened there
    resume,    \* does it reuse a completed extraction?
    todo,      \* the other runs that its removal has not looked at
    victim,    \* the run that it looks at or removes
    guard      \* the lock file that it opened there

\* History variables: the identifiers under which a run has been an hour old, and
\* the processes that made or opened their run under an identifier that was not one
\* of them.  Without --run-id the identifier is the time, which never is.
VARIABLES past, fresh

disk == <<entries, aged, past, lockFile, files, locks>>
work == <<run, file, resume>>
removal == <<todo, victim, guard>>
vars == <<disk, pc, work, removal, fresh>>

\* The snapshot of the sources, the extracted database, and the manifest without
\* and with the record of a completed extraction.
Contents == {"sources", "database", "captured", "extracted"}
Listings == (SUBSET Contents) \cup {{None}}

OpenSteps    == {"create", "open", "lock"}
LockedSteps  == {"begin", "sources", "manifest", "extract", "complete", "produce"}
RemovalSteps == {"select", "stat", "tryLock", "remove"}
Steps        == {"idle"} \cup OpenSteps \cup LockedSteps \cup RemovalSteps

Missing(r) == entries[r] = {None}

\* extract_run has its lock, and returns or the process ends.
Owns(p, r) == run[p] = r /\ pc[p] \in LockedSteps \cup RemovalSteps

Init ==
    /\ entries = [r \in Runs |-> {None}]
    /\ aged = {}
    /\ past = {}
    /\ lockFile = [r \in Runs |-> 0]
    /\ files = 0
    /\ locks = [f \in 1 .. MaxFiles |-> None]
    /\ pc = [p \in Procs |-> "idle"]
    /\ run = [p \in Procs |-> None]
    /\ file = [p \in Procs |-> 0]
    /\ resume = [p \in Procs |-> FALSE]
    /\ todo = [p \in Procs |-> {}]
    /\ victim = [p \in Procs |-> None]
    /\ guard = [p \in Procs |-> 0]
    /\ fresh = {}

-------------------------------------------------------------------------------
GoTo(p, step) == pc' = [pc EXCEPT ![p] = step]

\* The process returns or dies, and its locks go with its open files.
Finish(p) ==
    /\ GoTo(p, "idle")
    /\ locks' = [f \in DOMAIN locks |-> IF locks[f] = p THEN None ELSE locks[f]]
    /\ run' = [run EXCEPT ![p] = None]
    /\ file' = [file EXCEPT ![p] = 0]
    /\ resume' = [resume EXCEPT ![p] = FALSE]
    /\ todo' = [todo EXCEPT ![p] = {}]
    /\ victim' = [victim EXCEPT ![p] = None]
    /\ guard' = [guard EXCEPT ![p] = 0]
    /\ fresh' = fresh \ {p}

\* An entry appears in the run directory or changes: its time of change is now.
Touch(r) == aged' = aged \ {r}

\* Files below raw/ are written without a change of the run directory itself.
Write(r, what) ==
    entries' = [entries EXCEPT ![r] = (@ \ {None}) \cup what]

-------------------------------------------------------------------------------
(* extract_run                                                             *)

\* Without --run-id the identifier is the time, and not past; with it, any run.
Start(p) ==
    /\ pc[p] = "idle"
    /\ \E r \in Runs, again \in BOOLEAN :
         /\ run' = [run EXCEPT ![p] = r]
         /\ resume' = [resume EXCEPT ![p] = again]
    /\ GoTo(p, "create")
    /\ UNCHANGED <<disk, file, removal, fresh>>

\* RunPaths::create
CreateDirectories(p) ==
    /\ pc[p] = "create"
    /\ Write(run[p], {})
    /\ IF Missing(run[p]) THEN Touch(run[p]) ELSE UNCHANGED aged
    /\ fresh' = IF run[p] \in past THEN fresh ELSE fresh \cup {p}
    /\ GoTo(p, "open")
    /\ UNCHANGED <<past, lockFile, files, locks, work, removal>>

OpenLock(p) ==
    /\ pc[p] = "open"
    /\ ~Missing(run[p])
    /\ IF lockFile[run[p]] = 0
       THEN /\ files < MaxFiles
            /\ files' = files + 1
            /\ lockFile' = [lockFile EXCEPT ![run[p]] = files']
            /\ Touch(run[p])
       ELSE UNCHANGED <<files, lockFile, aged>>
    /\ file' = [file EXCEPT ![p] = lockFile'[run[p]]]
    /\ GoTo(p, "lock")
    /\ UNCHANGED <<entries, past, locks, run, resume, removal, fresh>>

\* A faulty variant: the lock is shared with whoever has it.
LockRunShared(p) ==
    /\ pc[p] = "lock"
    /\ locks' = [locks EXCEPT ![file[p]] = p]
    /\ GoTo(p, "begin")
    /\ UNCHANGED <<entries, aged, past, lockFile, files, work, removal, fresh>>
LockRun(p) ==
    /\ pc[p] = "lock"
    /\ locks[file[p]] = None
    /\ locks' = [locks EXCEPT ![file[p]] = p]
    /\ GoTo(p, "begin")
    /\ UNCHANGED <<entries, aged, past, lockFile, files, work, removal, fresh>>

\* validate_resume
ValidateResume(p) ==
    /\ pc[p] = "begin"
    /\ resume[p]
    /\ {"extracted", "database", "sources"} \subseteq entries[run[p]]
    /\ GoTo(p, "produce")
    /\ UNCHANGED <<disk, work, removal, fresh>>

\* capture_run: an existing manifest is an error.
BeginCapture(p) ==
    /\ pc[p] = "begin"
    /\ ~resume[p]
    /\ entries[run[p]] \cap {"captured", "extracted"} = {}
    /\ GoTo(p, "sources")
    /\ UNCHANGED <<disk, work, removal, fresh>>

\* capture_sources writes with atomic_write, which makes missing directories.
CaptureSources(p) ==
    /\ pc[p] = "sources"
    /\ Write(run[p], {"sources"})
    /\ IF Missing(run[p]) THEN Touch(run[p]) ELSE UNCHANGED aged
    /\ GoTo(p, "manifest")
    /\ UNCHANGED <<past, lockFile, files, locks, work, removal, fresh>>

\* The manifest in the run directory, first without an extraction; the previous
\* one is replaced.
WriteManifest(p) ==
    /\ pc[p] = "manifest"
    /\ entries' = [entries EXCEPT ![run[p]] = (@ \ {None, "extracted"}) \cup {"captured"}]
    /\ Touch(run[p])
    /\ GoTo(p, "extract")
    /\ UNCHANGED <<past, lockFile, files, locks, work, removal, fresh>>

\* extract_cohort: the database is opened in the directory raw, for minutes.
Extract(p) ==
    /\ pc[p] = "extract"
    /\ ~Missing(run[p])
    /\ Write(run[p], {"database"})
    /\ GoTo(p, "complete")
    /\ UNCHANGED <<aged, past, lockFile, files, locks, work, removal, fresh>>

CompleteManifest(p) ==
    /\ pc[p] = "complete"
    /\ entries' = [entries EXCEPT ![run[p]] = (@ \ {None, "captured"}) \cup {"extracted"}]
    /\ Touch(run[p])
    /\ GoTo(p, "produce")
    /\ UNCHANGED <<past, lockFile, files, locks, work, removal, fresh>>

\* generate_builds: the builds are made from the run and written, and then the
\* other runs go.
Produce(p) ==
    /\ pc[p] = "produce"
    /\ {"extracted", "database", "sources"} \subseteq entries[run[p]]
    /\ todo' = [todo EXCEPT ![p] = {r \in Runs \ {run[p]} : ~Missing(r)}]
    /\ GoTo(p, "select")
    /\ UNCHANGED <<disk, work, victim, guard, fresh>>

-------------------------------------------------------------------------------
(* remove_other_automatic_runs and remove_unlocked_run                     *)

\* A faulty variant: the age of the run is not looked at.
SelectAnyAge(p) ==
    /\ pc[p] = "select"
    /\ \E r \in todo[p] :
         /\ todo' = [todo EXCEPT ![p] = @ \ {r}]
         /\ IF Missing(r)
            THEN UNCHANGED <<pc, victim>>
            ELSE GoTo(p, "stat") /\ victim' = [victim EXCEPT ![p] = r]
    /\ UNCHANGED <<disk, work, guard, fresh>>
\* The next run, if it is still there and has not changed in the last hour.
Select(p) ==
    /\ pc[p] = "select"
    /\ \E r \in todo[p] :
         /\ todo' = [todo EXCEPT ![p] = @ \ {r}]
         /\ IF Missing(r) \/ r \notin aged
            THEN UNCHANGED <<pc, victim>>
            ELSE GoTo(p, "stat") /\ victim' = [victim EXCEPT ![p] = r]
    /\ UNCHANGED <<disk, work, guard, fresh>>

\* The lock file is opened; a run without one is removed as it is.
StatLock(p) ==
    /\ pc[p] = "stat"
    /\ guard' = [guard EXCEPT ![p] = lockFile[victim[p]]]
    /\ GoTo(p, IF lockFile[victim[p]] = 0 THEN "remove" ELSE "tryLock")
    /\ UNCHANGED <<disk, work, todo, victim, fresh>>

\* The next run after this one.
Proceed(p) ==
    /\ GoTo(p, "select")
    /\ victim' = [victim EXCEPT ![p] = None]
    /\ guard' = [guard EXCEPT ![p] = 0]

\* A faulty variant: a lock of another process is ignored.
TryLockIgnored(p) ==
    /\ pc[p] = "tryLock"
    /\ GoTo(p, "remove")
    /\ UNCHANGED <<locks, victim, guard>>
    /\ UNCHANGED <<entries, aged, past, lockFile, files, work, todo, fresh>>
TryLock(p) ==
    /\ pc[p] = "tryLock"
    /\ IF locks[guard[p]] = None
       THEN /\ locks' = [locks EXCEPT ![guard[p]] = p]
            /\ GoTo(p, "remove")
            /\ UNCHANGED <<victim, guard>>
       ELSE /\ Proceed(p)
            /\ UNCHANGED locks
    /\ UNCHANGED <<entries, aged, past, lockFile, files, work, todo, fresh>>

\* remove_dir_all unlinks one entry after the other, in any order ...
RemoveEntry(p) ==
    /\ pc[p] = "remove"
    /\ \/ /\ \E what \in entries[victim[p]] \ {None} :
               entries' = [entries EXCEPT ![victim[p]] = @ \ {what}]
          /\ UNCHANGED lockFile
       \/ /\ lockFile[victim[p]] # 0
          /\ lockFile' = [lockFile EXCEPT ![victim[p]] = 0]
          /\ UNCHANGED entries
    /\ Touch(victim[p])
    /\ UNCHANGED <<past, files, locks, pc, work, removal, fresh>>

\* ... and then the directory; the lock on the victim is dropped.
RemoveDirectory(p) ==
    /\ pc[p] = "remove"
    /\ entries[victim[p]] \subseteq {None}
    /\ lockFile[victim[p]] = 0
    /\ entries' = [entries EXCEPT ![victim[p]] = {None}]
    /\ aged' = aged \ {victim[p]}
    /\ locks' = [f \in DOMAIN locks |-> IF f = guard[p] THEN None ELSE locks[f]]
    /\ Proceed(p)
    /\ UNCHANGED <<past, lockFile, files, work, todo, fresh>>

\* A removal that fails prints a warning and goes on with the next run.
RemovalFails(p) ==
    /\ pc[p] \in {"stat", "tryLock", "remove"}
    /\ locks' = [f \in DOMAIN locks |->
                   IF f = guard[p] /\ locks[f] = p THEN None ELSE locks[f]]
    /\ Proceed(p)
    /\ UNCHANGED <<entries, aged, past, lockFile, files, work, todo, fresh>>

Return(p) ==
    /\ pc[p] = "select"
    /\ todo[p] = {}
    /\ Finish(p)
    /\ UNCHANGED <<entries, aged, past, lockFile, files>>

-------------------------------------------------------------------------------
(* Errors, kills and the clock                                             *)

\* An error outside a removal, or the end of the process at any call.
Stop(p) ==
    /\ pc[p] # "idle"
    /\ Finish(p)
    /\ UNCHANGED <<entries, aged, past, lockFile, files>>

\* An hour passes.  It does not pass while a process that makes or opens a run
\* is between its first call and its lock.
Age(r) ==
    /\ ~Missing(r)
    /\ r \notin aged
    /\ \A p \in Procs : run[p] = r => pc[p] \notin OpenSteps
    /\ aged' = aged \cup {r}
    /\ past' = past \cup {r}
    /\ UNCHANGED <<entries, lockFile, files, locks, pc, work, removal, fresh>>

ExtractRun(p) ==
    \/ Start(p) \/ CreateDirectories(p) \/ OpenLock(p) \/ LockRun(p)
    \/ ValidateResume(p) \/ BeginCapture(p) \/ CaptureSources(p)
    \/ WriteManifest(p) \/ Extract(p) \/ CompleteManifest(p) \/ Produce(p)

RemoveRuns(p) ==
    \/ Select(p) \/ StatLock(p) \/ TryLock(p) \/ RemoveEntry(p)
    \/ RemoveDirectory(p) \/ RemovalFails(p) \/ Return(p)

Next ==
    \/ \E p \in Procs : ExtractRun(p) \/ RemoveRuns(p) \/ Stop(p)
    \/ \E r \in Runs : Age(r)

Spec == Init /\ [][Next]_vars

-------------------------------------------------------------------------------
(* Properties                                                              *)

\* The variables have their types; a process does not remove its own run.
TypeOK ==
    /\ entries \in [Runs -> Listings]
    /\ aged \subseteq past
    /\ past \subseteq Runs
    /\ lockFile \in [Runs -> 0 .. MaxFiles]
    /\ files \in 0 .. MaxFiles
    /\ locks \in [1 .. MaxFiles -> Procs \cup {None}]
    /\ pc \in [Procs -> Steps]
    /\ run \in [Procs -> Runs \cup {None}]
    /\ file \in [Procs -> 0 .. MaxFiles]
    /\ resume \in [Procs -> BOOLEAN]
    /\ todo \in [Procs -> SUBSET Runs]
    /\ victim \in [Procs -> Runs \cup {None}]
    /\ guard \in [Procs -> 0 .. MaxFiles]
    /\ fresh \subseteq Procs
    /\ \A p \in Procs : run[p] \notin todo[p]

\* A run that a process has locked under the time of its start stays as it is until
\* that process returns: nobody removes an entry of it, however old it looks.
OwnRunStays ==
    [][\A p, q \in Procs :
         RemoveEntry(q) => ~(p \in fresh /\ Owns(p, victim[q]))]_vars

\* Such a run is guarded until that process returns: its lock file is still the one
\* under the name that others open, and nobody else holds the lock.
OwnRunIsGuarded ==
    \A p \in fresh :
        Owns(p, run[p]) => lockFile[run[p]] = file[p] /\ locks[file[p]] = p

\* The comment "A run that another process locks stays" (refresh.rs:31): no entry
\* of a run goes while another process locks the lock file in it.  The program
\* does not keep it: an old run can be reopened after the removal has looked at
\* its lock.
LockedRunStays ==
    [][\A p, q \in Procs :
         RemoveEntry(q) /\ p # q /\ Owns(p, victim[q]) => lockFile[victim[q]] # file[p]]_vars
=============================================================================
