-------------------------- MODULE ArtifactTransaction --------------------------
(***************************************************************************)
(* The journalled replacement of the artifact directory by                 *)
(* deadlock-build-sync: write_build_artifacts, ArtifactTransaction::new,   *)
(* recover and commit, and recover_pending_artifacts, one action per       *)
(* file-system call that others can see.                                   *)
(*                                                                         *)
(* A transaction stages a catalog in a directory of its own, writes a      *)
(* journal, moves the old catalog aside and the new one in.  A catalog is  *)
(* named by the directory it was staged in.  Names are durable only after  *)
(* their directory was synced: until then a loss of power may leave any of *)
(* the values a name had since, for the trees and the journal              *)
(* independently of each other.                                            *)
(***************************************************************************)
EXTENDS FiniteSets, Naturals

CONSTANTS
    Procs,     \* processes of the program
    Dirs,      \* bound: names .deadlock-artifacts.*, each used once
    Original,  \* a catalog from before
    Absent     \* no process, no directory, no catalog, no journal

ASSUME NamesAssumption ==
    /\ Original \notin Dirs
    /\ Absent \notin Dirs \cup Procs \cup {Original}

VARIABLES
    tree,           \* where the catalogs are
    treesOnDisk,    \* the values of tree that a loss of power may leave
    journal,        \* contents of .<name>.transaction.json, or Absent
    journalsOnDisk, \* the values of journal that a loss of power may leave
    used,           \* directory names given out
    lock,           \* holder of .<name>.lock, or Absent
    pc,             \* the next call of each process
    dir,            \* the directory of the transaction or of the recovery
    then            \* where recover_pending_artifacts returns to

\* History variable: the catalog whose commit returned Ok, while no other
\* catalog has been moved in since.
VARIABLE acked

disk == <<tree, treesOnDisk, journal, journalsOnDisk>>
vars == <<disk, used, lock, pc, dir, then, acked>>

Catalogs == Dirs \cup {Original}
Trees ==
    [dest: Catalogs \cup {Absent},                \* the artifact directory
     previous: [Dirs -> Catalogs \cup {Absent}],  \* <dir>/previous
     new: [Dirs -> {"none", "partial", "whole"}]] \* <dir>/new
Journals == [dir: Dirs, hadPrevious: BOOLEAN]

ASSUME AbsentAssumption == Absent \notin Journals

RecoverSteps == {"recover", "syncRestored", "removeJournal", "syncRemoved",
                 "cleanup", "syncCleanup"}
StageSteps   == {"stage", "write", "journal", "syncJournal"}
InstallSteps == {"moveOld", "syncOld", "moveNew", "syncNew"}
Steps   == {"idle"} \cup RecoverSteps \cup StageSteps \cup InstallSteps
Returns == {"none", "stage", "recovered", "committed", "failed"}

Init ==
    /\ \E first \in {Original, Absent} :
         tree = [dest |-> first,
                 previous |-> [d \in Dirs |-> Absent],
                 new |-> [d \in Dirs |-> "none"]]
    /\ treesOnDisk = {tree}
    /\ journal = Absent
    /\ journalsOnDisk = {Absent}
    /\ used = {}
    /\ lock = Absent
    /\ pc = [p \in Procs |-> "idle"]
    /\ dir = [p \in Procs |-> Absent]
    /\ then = [p \in Procs |-> "none"]
    /\ acked = Absent

-------------------------------------------------------------------------------
GoTo(p, step) == pc' = [pc EXCEPT ![p] = step]

\* The process returns or dies: its lock goes with the open lock file.
Finish(p) ==
    /\ pc' = [pc EXCEPT ![p] = "idle"]
    /\ dir' = [dir EXCEPT ![p] = Absent]
    /\ then' = [then EXCEPT ![p] = "none"]
    /\ lock' = IF lock = p THEN Absent ELSE lock

\* A change of names that has not reached the disk.
ChangeTree(new) ==
    /\ tree' = new
    /\ treesOnDisk' = treesOnDisk \cup {new}

ChangeJournal(new) ==
    /\ journal' = new
    /\ journalsOnDisk' = journalsOnDisk \cup {new}

\* A faulty variant: sync_all is not called.
SyncNothing == UNCHANGED disk
\* sync_all of the retained directory and of the common parent directory.
Sync ==
    /\ treesOnDisk' = {tree}
    /\ journalsOnDisk' = {journal}
    /\ UNCHANGED <<tree, journal>>

-------------------------------------------------------------------------------
(* ArtifactTransaction::recover and ::new                                  *)

\* lock_artifact_directory fails at once when another process has the lock.
\* Both entry points recover first; `new` goes on to stage a catalog.
Lock(p) ==
    /\ pc[p] = "idle"
    /\ lock = Absent
    /\ lock' = p
    /\ \E goal \in {"stage", "recovered"} : then' = [then EXCEPT ![p] = goal]
    /\ GoTo(p, "recover")
    /\ UNCHANGED <<disk, used, dir, acked>>

\* recover_pending_artifacts returns Ok.
Return(p) ==
    \/ /\ then[p] = "stage"
       /\ GoTo(p, "stage")
       /\ then' = [then EXCEPT ![p] = "none"]
       /\ dir' = [dir EXCEPT ![p] = Absent]
       /\ UNCHANGED <<lock, acked>>
    \/ /\ then[p] = "committed"
       /\ Finish(p)
       /\ acked' = dir[p]
    \/ /\ then[p] \in {"recovered", "failed"}
       /\ Finish(p)
       /\ UNCHANGED acked

FindNoJournal(p) ==
    /\ pc[p] = "recover"
    /\ journal = Absent
    /\ Return(p)
    /\ UNCHANGED <<disk, used>>

\* The checks of a journal that lead to an error when they fail.
JournalIsValid ==
    /\ ~journal.hadPrevious => tree.previous[journal.dir] = Absent
    /\ tree.dest = Absent /\ journal.hadPrevious
         => tree.previous[journal.dir] # Absent

\* A faulty variant: a missing destination does not get its catalog back.
ReadJournalBlind(p) ==
    /\ pc[p] = "recover"
    /\ journal # Absent
    /\ JournalIsValid
    /\ dir' = [dir EXCEPT ![p] = journal.dir]
    /\ GoTo(p, "syncRestored")
    /\ UNCHANGED <<disk, used, lock, then, acked>>
\* A missing destination gets its previous catalog back; any other is final.
ReadJournal(p) ==
    /\ pc[p] = "recover"
    /\ journal # Absent
    /\ JournalIsValid
    /\ dir' = [dir EXCEPT ![p] = journal.dir]
    /\ IF tree.dest = Absent /\ journal.hadPrevious
       THEN ChangeTree([tree EXCEPT !.dest = tree.previous[journal.dir],
                                    !.previous[journal.dir] = Absent])
       ELSE UNCHANGED <<tree, treesOnDisk>>
    /\ GoTo(p, "syncRestored")
    /\ UNCHANGED <<journal, journalsOnDisk, used, lock, then, acked>>

SyncRestored(p) ==
    /\ pc[p] = "syncRestored"
    /\ Sync
    /\ GoTo(p, "removeJournal")
    /\ UNCHANGED <<used, lock, dir, then, acked>>

RemoveJournal(p) ==
    /\ pc[p] = "removeJournal"
    /\ ChangeJournal(Absent)
    /\ GoTo(p, "syncRemoved")
    /\ UNCHANGED <<tree, treesOnDisk, used, lock, dir, then, acked>>

SyncRemoved(p) ==
    /\ pc[p] = "syncRemoved"
    /\ Sync
    /\ GoTo(p, "cleanup")
    /\ UNCHANGED <<used, lock, dir, then, acked>>

\* remove_dir_all of the retained directory, if it is still there.
Emptied(d) == [tree EXCEPT !.previous[d] = Absent, !.new[d] = "none"]

Cleanup(p) ==
    /\ pc[p] = "cleanup"
    /\ ChangeTree(Emptied(dir[p]))
    /\ GoTo(p, "syncCleanup")
    /\ UNCHANGED <<journal, journalsOnDisk, used, lock, dir, then, acked>>

SyncCleanup(p) ==
    /\ pc[p] = "syncCleanup"
    /\ Sync
    /\ Return(p)
    /\ UNCHANGED used

-------------------------------------------------------------------------------
(* write_build_artifacts and ArtifactTransaction::commit                   *)

MakeStaged(p) ==
    /\ pc[p] = "stage"
    /\ \E d \in Dirs \ used :
         /\ used' = used \cup {d}
         /\ dir' = [dir EXCEPT ![p] = d]
         /\ ChangeTree([tree EXCEPT !.new[d] = "partial"])
    /\ GoTo(p, "write")
    /\ UNCHANGED <<journal, journalsOnDisk, lock, then, acked>>

\* The catalog and one file per hero.
WriteCatalog(p) ==
    /\ pc[p] = "write"
    /\ ChangeTree([tree EXCEPT !.new[dir[p]] = "whole"])
    /\ GoTo(p, "journal")
    /\ UNCHANGED <<journal, journalsOnDisk, used, lock, dir, then, acked>>

\* A faulty variant: the journal always announces a previous catalog.
WriteJournalAlways(p) ==
    /\ pc[p] = "journal"
    /\ ChangeJournal([dir |-> dir[p], hadPrevious |-> TRUE])
    /\ GoTo(p, "syncJournal")
    /\ UNCHANGED <<tree, treesOnDisk, used, lock, dir, then, acked>>
\* commit notes in the journal whether there is a catalog to keep.
WriteJournal(p) ==
    /\ pc[p] = "journal"
    /\ ChangeJournal([dir |-> dir[p], hadPrevious |-> tree.dest # Absent])
    /\ GoTo(p, "syncJournal")
    /\ UNCHANGED <<tree, treesOnDisk, used, lock, dir, then, acked>>

SyncJournal(p) ==
    /\ pc[p] = "syncJournal"
    /\ Sync
    /\ GoTo(p, IF journal.hadPrevious THEN "moveOld" ELSE "moveNew")
    /\ UNCHANGED <<used, lock, dir, then, acked>>

MoveOld(p) ==
    /\ pc[p] = "moveOld"
    /\ ChangeTree([tree EXCEPT !.previous[dir[p]] = tree.dest, !.dest = Absent])
    /\ GoTo(p, "syncOld")
    /\ UNCHANGED <<journal, journalsOnDisk, used, lock, dir, then, acked>>

SyncOld(p) ==
    /\ pc[p] = "syncOld"
    /\ Sync
    /\ GoTo(p, "moveNew")
    /\ UNCHANGED <<used, lock, dir, then, acked>>

MoveNew(p) ==
    /\ pc[p] = "moveNew"
    /\ ChangeTree([tree EXCEPT !.dest = dir[p], !.new[dir[p]] = "none"])
    /\ acked' = Absent
    /\ GoTo(p, "syncNew")
    /\ UNCHANGED <<journal, journalsOnDisk, used, lock, dir, then>>

\* The installation is complete: commit removes the journal as recovery does.
SyncNew(p) ==
    /\ pc[p] = "syncNew"
    /\ Sync
    /\ then' = [then EXCEPT ![p] = "committed"]
    /\ GoTo(p, "recover")
    /\ UNCHANGED <<used, lock, dir, acked>>

-------------------------------------------------------------------------------
(* Errors and the environment                                              *)

\* Any call may fail.  Before the journal is written the temporary directory
\* is dropped, and with it the staged catalog; a failed installation recovers;
\* a failed recovery is left to the next process.
Fail(p) ==
    \/ /\ pc[p] \in {"write", "journal", "syncJournal"}
       /\ ChangeTree(Emptied(dir[p]))
       /\ Finish(p)
       /\ UNCHANGED <<journal, journalsOnDisk, used, acked>>
    \/ /\ pc[p] \in InstallSteps
       /\ then' = [then EXCEPT ![p] = "failed"]
       /\ GoTo(p, "recover")
       /\ UNCHANGED <<disk, used, lock, dir, acked>>
    \/ /\ pc[p] \in RecoverSteps \cup {"stage"}
       /\ Finish(p)
       /\ UNCHANGED <<disk, used, acked>>

\* The process is killed between two calls and drops nothing.
Kill(p) ==
    /\ pc[p] # "idle"
    /\ Finish(p)
    /\ UNCHANGED <<disk, used, acked>>

LosePower ==
    /\ tree' \in treesOnDisk
    /\ treesOnDisk' = {tree'}
    /\ journal' \in journalsOnDisk
    /\ journalsOnDisk' = {journal'}
    /\ lock' = Absent
    /\ pc' = [p \in Procs |-> "idle"]
    /\ dir' = [p \in Procs |-> Absent]
    /\ then' = [p \in Procs |-> "none"]
    /\ UNCHANGED <<used, acked>>

Recover(p) ==
    \/ FindNoJournal(p) \/ ReadJournal(p) \/ SyncRestored(p) \/ RemoveJournal(p)
    \/ SyncRemoved(p) \/ Cleanup(p) \/ SyncCleanup(p)

Build(p) ==
    \/ MakeStaged(p) \/ WriteCatalog(p) \/ WriteJournal(p) \/ SyncJournal(p)
    \/ MoveOld(p) \/ SyncOld(p) \/ MoveNew(p) \/ SyncNew(p)

Next ==
    \/ \E p \in Procs : Lock(p) \/ Recover(p) \/ Build(p) \/ Fail(p) \/ Kill(p)
    \/ LosePower

Spec == Init /\ [][Next]_vars

-------------------------------------------------------------------------------
(* Properties                                                              *)

\* The variables have their types; in particular, a journal always names a
\* transaction directory and not the destination (commit, and the identity
\* check of recover_pending_artifacts).
TypeOK ==
    /\ tree \in Trees
    /\ treesOnDisk \subseteq Trees
    /\ journal \in Journals \cup {Absent}
    /\ journalsOnDisk \subseteq Journals \cup {Absent}
    /\ used \subseteq Dirs
    /\ lock \in Procs \cup {Absent}
    /\ pc \in [Procs -> Steps]
    /\ dir \in [Procs -> Dirs \cup {Absent}]
    /\ then \in [Procs -> Returns]
    /\ acked \in Dirs \cup {Absent}

\* The catalog that recovery would leave in the artifact directory.
Current(t, j) ==
    IF t.dest # Absent THEN t.dest
    ELSE IF j # Absent THEN t.previous[j.dir]
    ELSE Absent

\* The artifact directory is replaced atomically: seen through recovery, the
\* catalog changes in a single step of commit, never disappears, and after a
\* loss of power is one that was current since the last sync.
Atomic == INSTANCE AtomicDirectory WITH
    published <- Current(tree, journal),
    possible  <- {Current(t, j) : t \in treesOnDisk, j \in journalsOnDisk}
ReplacesAtomically == Atomic!Spec

\* No interruption leaves a journal that recovery refuses: the errors "contradicts
\* the previous directory" and "previous artifact directory is missing" cannot
\* be reached from the program's own crashes.
RecoveryIsPossible == journal # Absent => JournalIsValid

\* A catalog whose commit returned Ok is on disk: until another catalog is moved
\* in, every loss of power leaves it in place or for recovery to put back.
AckedIsDurable ==
    acked # Absent =>
        \A t \in treesOnDisk, j \in journalsOnDisk : Current(t, j) = acked
=============================================================================
