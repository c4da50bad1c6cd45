----------------------- MODULE ArtifactTransactionProofs -----------------------
(***************************************************************************)
(* Proofs about ArtifactTransaction for every set of processes and of      *)
(* directory names: recovery is always possible, a catalog whose commit    *)
(* returned Ok stays on disk, and the journalled replacement implements    *)
(* AtomicDirectory.                                                        *)
(***************************************************************************)
EXTENDS ArtifactTransaction, TLAPS

\* What recovery requires of a tree and a journal.
Fit(t, j) ==
    j # Absent =>
        /\ ~j.hadPrevious => t.previous[j.dir] = Absent
        /\ t.dest = Absent /\ j.hadPrevious => t.previous[j.dir] # Absent

\* What there is may be found after a loss of power.
OnDisk == tree \in treesOnDisk /\ journal \in journalsOnDisk

\* Only the process that has the lock is active.
OneActive == \A p \in Procs : pc[p] # "idle" => lock = p

\* A name that was not given out keeps nothing.
UnusedIsEmpty == \A t \in treesOnDisk, d \in Dirs \ used : t.previous[d] = Absent

\* Recovery is possible from whatever a loss of power leaves.
DiskIsFit == \A t \in treesOnDisk, j \in journalsOnDisk : Fit(t, j)

\* Without a journal no loss of power changes the catalog.
SettledIsUniform == journal = Absent => \A t \in treesOnDisk : t.dest = tree.dest

\* What holds at each step of the process that has the lock.
Staging(p) ==
    /\ pc[p] \in {"stage", "write", "journal"} => journal = Absent
    /\ pc[p] \in {"write", "journal", "syncJournal"} =>
          /\ dir[p] \in Dirs /\ dir[p] \in used
          /\ \A t \in treesOnDisk : t.previous[dir[p]] = Absent
    /\ pc[p] = "syncJournal" =>
          /\ journal # Absent /\ journal.dir = dir[p]
          /\ journal.hadPrevious <=> tree.dest # Absent

Installing(p) ==
    /\ pc[p] \in InstallSteps =>
          /\ dir[p] \in Dirs /\ dir[p] \in used
          /\ journal # Absent /\ journal.dir = dir[p] /\ journalsOnDisk = {journal}
    /\ pc[p] \in {"moveOld", "moveNew"} => treesOnDisk = {tree}
    /\ pc[p] = "moveOld" => journal.hadPrevious /\ tree.dest # Absent
    /\ pc[p] = "syncNew" => tree.dest = dir[p]

Recovering(p) ==
    /\ pc[p] \in {"syncRestored", "removeJournal"} =>
          journal # Absent /\ (tree.dest = Absent => tree.previous[journal.dir] = Absent)
    /\ pc[p] = "removeJournal" => treesOnDisk = {tree}
    /\ pc[p] \in {"syncRemoved", "cleanup", "syncCleanup"} => journal = Absent
    /\ pc[p] \in {"cleanup", "syncCleanup"} => journalsOnDisk = {Absent}

\* commit returns Ok only for the catalog that it has moved in.
Committing(p) ==
    then[p] = "committed" =>
        /\ pc[p] \in RecoverSteps
        /\ dir[p] \in Dirs /\ tree.dest = dir[p]
        /\ pc[p] = "recover" => journal # Absent /\ journal.dir = dir[p]

PerProcess(p) == Staging(p) /\ Installing(p) /\ Recovering(p) /\ Committing(p)

IInv ==
    /\ TypeOK
    /\ OnDisk
    /\ OneActive
    /\ UnusedIsEmpty
    /\ DiskIsFit
    /\ SettledIsUniform
    /\ \A p \in Procs : PerProcess(p)

\* The part of the invariant that is about the disk alone.
DiskInv ==
    /\ tree \in Trees /\ treesOnDisk \subseteq Trees
    /\ journal \in Journals \cup {Absent}
    /\ journalsOnDisk \subseteq Journals \cup {Absent}
    /\ used \subseteq Dirs
    /\ OnDisk /\ UnusedIsEmpty /\ DiskIsFit /\ SettledIsUniform

-------------------------------------------------------------------------------
LEMMA InitInv == Init => IInv
<1> SUFFICES ASSUME Init PROVE IInv
  OBVIOUS
<1>1. tree \in Trees /\ treesOnDisk = {tree} /\ journal = Absent /\ journalsOnDisk = {Absent}
  BY DEF Init, Trees, Catalogs
<1>2. TypeOK
  BY <1>1, NamesAssumption DEF Init, TypeOK, Steps, Returns
<1>3. UnusedIsEmpty
  BY DEF Init, UnusedIsEmpty
<1> QED
  BY <1>1, <1>2, <1>3, NamesAssumption
  DEF Init, IInv, OnDisk, OneActive, DiskIsFit, Fit, SettledIsUniform, PerProcess, Staging,
      Installing, Recovering, Committing, InstallSteps

\* The other processes are idle.
LEMMA Bystanders ==
  ASSUME IInv, NEW p \in Procs, pc[p] # "idle", NEW q \in Procs, q # p,
         pc'[q] = pc[q], then'[q] = then[q]
  PROVE  PerProcess(q)' /\ pc'[q] = "idle"
<1>1. pc[q] = "idle"
  BY DEF IInv, OneActive
<1>2. then[q] # "committed"
  BY <1>1 DEF IInv, PerProcess, Committing, RecoverSteps
<1> QED
  BY <1>1, <1>2 DEF PerProcess, Staging, Installing, Recovering, Committing, InstallSteps

\* A process that goes on leaves the lock and the others alone.
LEMMA Going ==
  ASSUME IInv, DiskInv', NEW p \in Procs, pc[p] # "idle", NEW step \in Steps, GoTo(p, step),
         then' \in [Procs -> Returns], \A q \in Procs \ {p} : then'[q] = then[q],
         dir' \in [Procs -> Dirs \cup {Absent}], acked' \in Dirs \cup {Absent},
         UNCHANGED lock, PerProcess(p)'
  PROVE  IInv'
<1>1. pc \in [Procs -> Steps] /\ lock \in Procs \cup {Absent}
  BY DEF IInv, TypeOK
<1>2. pc' \in [Procs -> Steps] /\ \A q \in Procs \ {p} : pc'[q] = pc[q]
  BY <1>1 DEF GoTo
<1>3. ASSUME NEW q \in Procs, q # p
      PROVE  PerProcess(q)' /\ pc'[q] = "idle"
  BY <1>2, <1>3, Bystanders
<1>4. OneActive'
  BY <1>3 DEF IInv, OneActive
<1>5. TypeOK'
  BY <1>1, <1>2 DEF DiskInv, TypeOK
<1>6. \A q \in Procs : PerProcess(q)'
  BY <1>3
<1> QED
  BY <1>4, <1>5, <1>6 DEF IInv, DiskInv

\* A process that ends leaves the lock to the next one.
LEMMA Finishing ==
  ASSUME IInv, DiskInv', NEW p \in Procs, pc[p] # "idle", Finish(p),
         acked' \in Dirs \cup {Absent}
  PROVE  IInv'
<1>1. /\ pc \in [Procs -> Steps] /\ dir \in [Procs -> Dirs \cup {Absent}]
      /\ then \in [Procs -> Returns] /\ lock \in Procs \cup {Absent}
  BY DEF IInv, TypeOK
<1>2. /\ pc' \in [Procs -> Steps] /\ dir' \in [Procs -> Dirs \cup {Absent}]
      /\ then' \in [Procs -> Returns] /\ lock' \in Procs \cup {Absent}
      /\ pc'[p] = "idle" /\ then'[p] = "none"
      /\ \A q \in Procs \ {p} : pc'[q] = pc[q] /\ then'[q] = then[q]
  BY <1>1 DEF Finish, Steps, Returns
<1>3. ASSUME NEW q \in Procs, q # p
      PROVE  PerProcess(q)' /\ pc'[q] = "idle"
  BY <1>2, <1>3, Bystanders
<1>4. PerProcess(p)'
  BY <1>2 DEF PerProcess, Staging, Installing, Recovering, Committing, InstallSteps
<1>5. OneActive'
  BY <1>2, <1>3 DEF OneActive
<1>6. TypeOK'
  BY <1>2 DEF DiskInv, TypeOK
<1>7. \A q \in Procs : PerProcess(q)'
  BY <1>3, <1>4
<1> QED
  BY <1>5, <1>6, <1>7 DEF IInv, DiskInv

\* A sync keeps the disk as it has to be.
LEMMA Syncing ==
  ASSUME IInv, Sync, UNCHANGED used
  PROVE  DiskInv'
BY DEF IInv, TypeOK, Sync, DiskInv, OnDisk, UnusedIsEmpty, DiskIsFit, SettledIsUniform, Fit

\* So does a step that leaves the disk alone.
LEMMA Resting ==
  ASSUME IInv, UNCHANGED <<disk, used>>
  PROVE  DiskInv'
BY DEF IInv, TypeOK, disk, DiskInv, OnDisk, UnusedIsEmpty, DiskIsFit, SettledIsUniform, Fit

\* The variables of the processes have their types.
LEMMA Types ==
  ASSUME IInv
  PROVE  /\ pc \in [Procs -> Steps] /\ dir \in [Procs -> Dirs \cup {Absent}]
         /\ then \in [Procs -> Returns] /\ lock \in Procs \cup {Absent}
         /\ acked \in Dirs \cup {Absent}
         /\ tree \in Trees /\ treesOnDisk \subseteq Trees
         /\ journal \in Journals \cup {Absent}
         /\ DiskInv
BY DEF IInv, TypeOK, DiskInv

-------------------------------------------------------------------------------
\* The return of recover_pending_artifacts: a commit that returns Ok has moved
\* its catalog in.
LEMMA Returning ==
  ASSUME IInv, DiskInv', NEW p \in Procs, pc[p] \in RecoverSteps, Return(p), journal' = Absent,
         then[p] = "committed" => dir[p] \in Dirs
  PROVE  IInv'
<1>1. pc[p] # "idle"
  BY DEF RecoverSteps
<1>2. CASE then[p] = "stage"
  <2>1. /\ GoTo(p, "stage") /\ then' = [then EXCEPT ![p] = "none"]
        /\ dir' = [dir EXCEPT ![p] = Absent] /\ UNCHANGED <<lock, acked>>
    BY <1>2 DEF Return
  <2>2. pc'[p] = "stage" /\ then'[p] = "none" /\ "stage" \in Steps
    BY <2>1, Types DEF GoTo, Steps, StageSteps
  <2>3. PerProcess(p)'
    BY <2>2 DEF PerProcess, Staging, Installing, Recovering, Committing, InstallSteps
  <2>4. /\ then' \in [Procs -> Returns] /\ \A q \in Procs \ {p} : then'[q] = then[q]
        /\ dir' \in [Procs -> Dirs \cup {Absent}] /\ acked' \in Dirs \cup {Absent}
    BY <2>1, Types DEF Returns
  <2> QED
    BY <1>1, <2>1, <2>2, <2>3, <2>4, Going
<1>3. CASE then[p] # "stage"
  <2>1. Finish(p) /\ acked' \in Dirs \cup {Absent}
    BY <1>3, Types DEF Return
  <2> QED
    BY <1>1, <2>1, Finishing
<1> QED
  BY <1>2, <1>3

LEMMA FindNoJournalInv ==
  ASSUME IInv, NEW p \in Procs, FindNoJournal(p)
  PROVE  IInv'
<1>1. DiskInv' /\ journal' = Absent /\ pc[p] \in RecoverSteps /\ Return(p)
  BY Resting DEF FindNoJournal, disk, RecoverSteps
<1>2. then[p] # "committed"
  BY DEF IInv, PerProcess, Committing, FindNoJournal
<1> QED
  BY <1>1, <1>2, Returning

LEMMA ReadJournalInv ==
  ASSUME IInv, NEW p \in Procs, ReadJournal(p)
  PROVE  IInv'
<1>1. /\ pc[p] = "recover" /\ journal \in Journals /\ journal # Absent /\ JournalIsValid
      /\ journal' = journal /\ journalsOnDisk' = journalsOnDisk
      /\ UNCHANGED <<used, lock, then, acked>>
      /\ dir' = [dir EXCEPT ![p] = journal.dir] /\ GoTo(p, "syncRestored")
  BY Types DEF ReadJournal
<1>2. DiskInv' /\ (tree'.dest = Absent => tree'.previous[journal.dir] = Absent)
      /\ (tree.dest # Absent => tree' = tree)
  <2>1. CASE tree.dest = Absent /\ journal.hadPrevious
    <3> DEFINE new == [tree EXCEPT !.dest = tree.previous[journal.dir],
                                   !.previous[journal.dir] = Absent]
    <3>1. tree' = new /\ treesOnDisk' = treesOnDisk \cup {new}
      BY <2>1 DEF ReadJournal, ChangeTree
    <3>2. /\ new \in Trees /\ new.dest = tree.previous[journal.dir]
          /\ \A d \in Dirs : new.previous[d] = IF d = journal.dir THEN Absent
                                               ELSE tree.previous[d]
      BY <1>1, Types DEF Trees, Journals
    <3>3. new.dest # Absent
      BY <1>1, <2>1, <3>2 DEF JournalIsValid
    <3>4. UnusedIsEmpty'
      BY <1>1, <3>1, <3>2, Types DEF DiskInv, UnusedIsEmpty, OnDisk
    <3>5. DiskIsFit'
      <4>1. \A j \in journalsOnDisk : Fit(new, j)
        BY <3>2, <3>3, Types DEF DiskInv, DiskIsFit, Fit, OnDisk, Journals
      <4> QED
        BY <1>1, <3>1, <4>1, Types DEF DiskInv, DiskIsFit, Fit
    <3>6. SettledIsUniform'
      BY <1>1 DEF SettledIsUniform
    <3>7. OnDisk'
      BY <1>1, <3>1, Types DEF DiskInv, OnDisk
    <3> QED
      BY <1>1, <2>1, <3>1, <3>2, <3>3, <3>4, <3>5, <3>6, <3>7, Types DEF DiskInv
  <2>2. CASE ~(tree.dest = Absent /\ journal.hadPrevious)
    <3>1. UNCHANGED <<tree, treesOnDisk>>
      BY <2>2 DEF ReadJournal
    <3>2. DiskInv'
      BY <1>1, <3>1, Resting DEF disk
    <3> QED
      BY <1>1, <2>2, <3>1, <3>2 DEF JournalIsValid, Journals
  <2> QED
    BY <2>1, <2>2
<1>3. pc'[p] = "syncRestored" /\ dir'[p] = journal.dir /\ then'[p] = then[p]
      /\ dir' \in [Procs -> Dirs \cup {Absent}] /\ "syncRestored" \in Steps
  BY <1>1, Types DEF GoTo, Journals, Steps, RecoverSteps
<1>4. then[p] = "committed" => dir[p] \in Dirs /\ tree.dest = dir[p] /\ dir[p] = journal.dir
  BY <1>1 DEF IInv, PerProcess, Committing
<1>5. then'[p] = "committed" => dir'[p] \in Dirs /\ tree'.dest = dir'[p]
  BY <1>2, <1>3, <1>4, NamesAssumption
<1>7. PerProcess(p)'
  BY <1>1, <1>2, <1>3, <1>5
  DEF PerProcess, Staging, Installing, Recovering, Committing, InstallSteps, RecoverSteps
<1> QED
  BY <1>1, <1>2, <1>3, <1>7, Going, Types

\* The steps of recovery that sync.
LEMMA RecoverySyncInv ==
  ASSUME IInv, NEW p \in Procs, SyncRestored(p) \/ SyncRemoved(p)
  PROVE  IInv'
<1>1. /\ DiskInv' /\ pc[p] \in {"syncRestored", "syncRemoved"} /\ Sync
      /\ GoTo(p, IF pc[p] = "syncRestored" THEN "removeJournal" ELSE "cleanup")
      /\ UNCHANGED <<used, lock, dir, then, acked>>
  BY Syncing DEF SyncRestored, SyncRemoved
<1>2. pc'[p] = IF pc[p] = "syncRestored" THEN "removeJournal" ELSE "cleanup"
  BY <1>1, Types DEF GoTo
<1>3. PerProcess(p)'
  BY <1>1, <1>2
  DEF IInv, PerProcess, Staging, Installing, Recovering, Committing, InstallSteps, RecoverSteps,
      Sync
<1> QED
  BY <1>1, <1>3, Going, Types DEF Steps, RecoverSteps

LEMMA RemoveJournalInv ==
  ASSUME IInv, NEW p \in Procs, RemoveJournal(p)
  PROVE  IInv'
<1>1. /\ pc[p] = "removeJournal" /\ journal' = Absent
      /\ journalsOnDisk' = journalsOnDisk \cup {Absent} /\ GoTo(p, "syncRemoved")
      /\ UNCHANGED <<tree, treesOnDisk, used, lock, dir, then, acked>>
  BY DEF RemoveJournal, ChangeJournal
<1>2. treesOnDisk = {tree}
  BY <1>1 DEF IInv, PerProcess, Recovering
<1>3. DiskInv'
  BY <1>1, <1>2, Types DEF DiskInv, OnDisk, UnusedIsEmpty, DiskIsFit, Fit, SettledIsUniform
<1>4. pc'[p] = "syncRemoved"
  BY <1>1, Types DEF GoTo
<1>5. PerProcess(p)'
  BY <1>1, <1>4
  DEF IInv, PerProcess, Staging, Installing, Recovering, Committing, InstallSteps, RecoverSteps
<1> QED
  BY <1>1, <1>3, <1>5, Going, Types DEF Steps, RecoverSteps

\* Removing a retained directory that no journal needs.
LEMMA Emptying ==
  ASSUME IInv, NEW p \in Procs, ChangeTree(Emptied(dir[p])), UNCHANGED <<journal, journalsOnDisk, used>>,
         journalsOnDisk = {Absent} \/ (dir[p] \in Dirs /\ tree.previous[dir[p]] = Absent)
  PROVE  DiskInv' /\ tree'.dest = tree.dest
<1> DEFINE new == Emptied(dir[p])
<1>1. tree' = new /\ treesOnDisk' = treesOnDisk \cup {new}
  BY DEF ChangeTree
<1>2. /\ new \in Trees /\ new.dest = tree.dest
      /\ \A d \in Dirs : new.previous[d] = IF d = dir[p] THEN Absent ELSE tree.previous[d]
  BY Types DEF Emptied, Trees
<1>3. UnusedIsEmpty'
  BY <1>1, <1>2, Types DEF DiskInv, UnusedIsEmpty, OnDisk
<1>4. DiskIsFit'
  <2>1. \A j \in journalsOnDisk : Fit(new, j)
    BY <1>2, Types DEF DiskInv, DiskIsFit, Fit, OnDisk, Journals
  <2> QED
    BY <1>1, <2>1, Types DEF DiskInv, DiskIsFit, Fit
<1>5. SettledIsUniform'
  BY <1>1, <1>2, Types DEF DiskInv, SettledIsUniform
<1> QED
  BY <1>1, <1>2, <1>3, <1>4, <1>5, Types DEF DiskInv, OnDisk

LEMMA CleanupInv ==
  ASSUME IInv, NEW p \in Procs, Cleanup(p)
  PROVE  IInv'
<1>1. /\ pc[p] = "cleanup" /\ ChangeTree(Emptied(dir[p])) /\ GoTo(p, "syncCleanup")
      /\ UNCHANGED <<journal, journalsOnDisk, used, lock, dir, then, acked>>
  BY DEF Cleanup
<1>2. journal = Absent /\ journalsOnDisk = {Absent}
  BY <1>1 DEF IInv, PerProcess, Recovering
<1>3. DiskInv' /\ tree'.dest = tree.dest
  BY <1>1, <1>2, Emptying
<1>4. pc'[p] = "syncCleanup"
  BY <1>1, Types DEF GoTo
<1>5. PerProcess(p)'
  BY <1>1, <1>2, <1>3, <1>4
  DEF IInv, PerProcess, Staging, Installing, Recovering, Committing, InstallSteps, RecoverSteps
<1> QED
  BY <1>1, <1>3, <1>5, Going, Types DEF Steps, RecoverSteps

LEMMA SyncCleanupInv ==
  ASSUME IInv, NEW p \in Procs, SyncCleanup(p)
  PROVE  IInv'
<1>1. DiskInv' /\ pc[p] = "syncCleanup" /\ journal' = journal /\ Return(p)
  BY Syncing DEF SyncCleanup, Sync
<1>2. journal = Absent /\ (then[p] = "committed" => dir[p] \in Dirs)
  BY <1>1 DEF IInv, PerProcess, Recovering, Committing
<1> QED
  BY <1>1, <1>2, Returning DEF RecoverSteps

-------------------------------------------------------------------------------
\* The steps of write_build_artifacts and of commit.
LEMMA StagingTree ==
  ASSUME IInv, NEW new \in Trees, new.dest = tree.dest, new.previous = tree.previous,
         ChangeTree(new), UNCHANGED <<journal, journalsOnDisk>>, used \subseteq used',
         used' \subseteq Dirs
  PROVE  DiskInv'
<1>1. tree' = new /\ treesOnDisk' = treesOnDisk \cup {new}
  BY DEF ChangeTree
<1>2. UnusedIsEmpty'
  BY <1>1, Types DEF DiskInv, OnDisk, UnusedIsEmpty
<1>3. DiskIsFit'
  <2>1. \A j \in journalsOnDisk : Fit(new, j)
    BY Types DEF DiskInv, DiskIsFit, Fit, OnDisk
  <2> QED
    BY <1>1, <2>1, Types DEF DiskInv, DiskIsFit, Fit
<1>4. SettledIsUniform'
  BY <1>1, Types DEF DiskInv, SettledIsUniform
<1> QED
  BY <1>1, <1>2, <1>3, <1>4, Types DEF DiskInv, OnDisk

LEMMA MakeStagedInv ==
  ASSUME IInv, NEW p \in Procs, MakeStaged(p)
  PROVE  IInv'
<1>1. PICK d \in Dirs \ used :
        /\ used' = used \cup {d}
        /\ dir' = [dir EXCEPT ![p] = d]
        /\ ChangeTree([tree EXCEPT !.new[d] = "partial"])
  BY DEF MakeStaged
<1>2. /\ pc[p] = "stage" /\ GoTo(p, "write")
      /\ UNCHANGED <<journal, journalsOnDisk, lock, then, acked>>
  BY DEF MakeStaged
<1> DEFINE new == [tree EXCEPT !.new[d] = "partial"]
<1>3. tree' = new /\ treesOnDisk' = treesOnDisk \cup {new}
  BY <1>1 DEF ChangeTree
<1>4. new \in Trees /\ new.dest = tree.dest /\ new.previous = tree.previous
  BY Types DEF Trees
<1>5. DiskInv'
  BY <1>1, <1>2, <1>4, StagingTree, Types DEF DiskInv
<1>6. pc'[p] = "write" /\ dir'[p] = d /\ dir' \in [Procs -> Dirs \cup {Absent}]
  BY <1>1, <1>2, Types DEF GoTo
<1>7. \A t \in treesOnDisk' : t.previous[d] = Absent
  BY <1>3, <1>4, Types DEF DiskInv, OnDisk, UnusedIsEmpty
<1>8. journal = Absent /\ then[p] # "committed"
  BY <1>2 DEF IInv, PerProcess, Staging, Committing, RecoverSteps
<1>9. PerProcess(p)'
  BY <1>1, <1>2, <1>6, <1>7, <1>8
  DEF PerProcess, Staging, Installing, Recovering, Committing, InstallSteps, RecoverSteps
<1> QED
  BY <1>2, <1>5, <1>6, <1>9, Going, Types DEF Steps, StageSteps

LEMMA WriteCatalogInv ==
  ASSUME IInv, NEW p \in Procs, WriteCatalog(p)
  PROVE  IInv'
<1> DEFINE new == [tree EXCEPT !.new[dir[p]] = "whole"]
<1>1. /\ pc[p] = "write" /\ GoTo(p, "journal")
      /\ UNCHANGED <<journal, journalsOnDisk, used, lock, dir, then, acked>>
      /\ tree' = new /\ treesOnDisk' = treesOnDisk \cup {new}
  BY DEF WriteCatalog, ChangeTree
<1>2. new \in Trees /\ new.dest = tree.dest /\ new.previous = tree.previous
  BY Types DEF Trees
<1>3. DiskInv'
  <2>1. ChangeTree(new)
    BY <1>1 DEF ChangeTree
  <2> QED
    BY <1>1, <1>2, <2>1, StagingTree, Types DEF DiskInv
<1>4. pc'[p] = "journal"
  BY <1>1, Types DEF GoTo
<1>5. \A t \in treesOnDisk' : t.previous[dir[p]] = Absent
  <2>1. \A t \in treesOnDisk : t.previous[dir[p]] = Absent
    BY <1>1 DEF IInv, PerProcess, Staging
  <2> QED
    BY <1>1, <1>2, <2>1, Types DEF DiskInv, OnDisk
<1>6. PerProcess(p)'
  BY <1>1, <1>4, <1>5
  DEF IInv, PerProcess, Staging, Installing, Recovering, Committing, InstallSteps, RecoverSteps
<1> QED
  BY <1>1, <1>3, <1>6, Going, Types DEF Steps, StageSteps

\* A journal is written over trees that agree about the artifact directory and
\* that keep nothing in the directory of the transaction.
LEMMA WriteJournalInv ==
  ASSUME IInv, NEW p \in Procs, WriteJournal(p)
  PROVE  IInv'
<1> DEFINE had == tree.dest # Absent
           new == [dir |-> dir[p], hadPrevious |-> had]
<1>1. /\ pc[p] = "journal" /\ GoTo(p, "syncJournal")
      /\ UNCHANGED <<tree, treesOnDisk, used, lock, dir, then, acked>>
      /\ journal' = new /\ journalsOnDisk' = journalsOnDisk \cup {new}
  BY DEF WriteJournal, ChangeJournal
<1>2. /\ journal = Absent /\ dir[p] \in Dirs /\ dir[p] \in used
      /\ \A t \in treesOnDisk : t.previous[dir[p]] = Absent
  BY <1>1 DEF IInv, PerProcess, Staging
<1>3. new \in Journals /\ new # Absent
  <2>1. had \in BOOLEAN
    OBVIOUS
  <2> HIDE DEF had
  <2>2. new \in Journals
    BY <1>2, <2>1 DEF Journals
  <2> QED
    BY <2>2, AbsentAssumption
<1>4. \A t \in treesOnDisk : Fit(t, new)
  BY <1>2, Types DEF DiskInv, SettledIsUniform, Fit
<1>5. DiskInv'
  BY <1>1, <1>3, <1>4, Types DEF DiskInv, OnDisk, UnusedIsEmpty, DiskIsFit, Fit, SettledIsUniform
<1>6. pc'[p] = "syncJournal"
  BY <1>1, Types DEF GoTo
<1>7. PerProcess(p)'
  BY <1>1, <1>2, <1>3, <1>6
  DEF IInv, PerProcess, Staging, Installing, Recovering, Committing, InstallSteps, RecoverSteps
<1> QED
  BY <1>1, <1>5, <1>7, Going, Types DEF Steps, StageSteps

LEMMA SyncJournalInv ==
  ASSUME IInv, NEW p \in Procs, SyncJournal(p)
  PROVE  IInv'
<1>1. /\ DiskInv' /\ pc[p] = "syncJournal" /\ Sync
      /\ GoTo(p, IF journal.hadPrevious THEN "moveOld" ELSE "moveNew")
      /\ UNCHANGED <<used, lock, dir, then, acked>>
  BY Syncing DEF SyncJournal
<1>2. pc'[p] = IF journal.hadPrevious THEN "moveOld" ELSE "moveNew"
  BY <1>1, Types DEF GoTo
<1>3. PerProcess(p)'
  BY <1>1, <1>2
  DEF IInv, PerProcess, Staging, Installing, Recovering, Committing, InstallSteps, RecoverSteps,
      Sync
<1> QED
  BY <1>1, <1>3, Going, Types DEF Steps, InstallSteps

LEMMA MoveOldInv ==
  ASSUME IInv, NEW p \in Procs, MoveOld(p)
  PROVE  IInv'
<1> DEFINE new == [tree EXCEPT !.previous[dir[p]] = tree.dest, !.dest = Absent]
<1>1. /\ pc[p] = "moveOld" /\ GoTo(p, "syncOld")
      /\ UNCHANGED <<journal, journalsOnDisk, used, lock, dir, then, acked>>
      /\ tree' = new /\ treesOnDisk' = treesOnDisk \cup {new}
  BY DEF MoveOld, ChangeTree
<1>2. /\ dir[p] \in Dirs /\ dir[p] \in used /\ journal # Absent /\ journal.dir = dir[p]
      /\ journalsOnDisk = {journal} /\ journal.hadPrevious /\ tree.dest # Absent
  BY <1>1 DEF IInv, PerProcess, Installing, InstallSteps
<1>3. /\ new \in Trees /\ new.dest = Absent
      /\ \A d \in Dirs : new.previous[d] = IF d = dir[p] THEN tree.dest ELSE tree.previous[d]
  BY Types DEF Trees
<1>4. UnusedIsEmpty'
  BY <1>1, <1>2, <1>3, Types DEF DiskInv, UnusedIsEmpty, OnDisk
<1>5. DiskIsFit'
  <2>1. Fit(new, journal)
    BY <1>2, <1>3 DEF Fit
  <2> QED
    BY <1>1, <1>2, <2>1, Types DEF DiskInv, DiskIsFit
<1>6. DiskInv'
  BY <1>1, <1>2, <1>3, <1>4, <1>5, Types DEF DiskInv, OnDisk, SettledIsUniform
<1>7. pc'[p] = "syncOld"
  BY <1>1, Types DEF GoTo
<1>8. PerProcess(p)'
  BY <1>1, <1>2, <1>7
  DEF IInv, PerProcess, Staging, Installing, Recovering, Committing, InstallSteps, RecoverSteps
<1> QED
  BY <1>1, <1>6, <1>8, Going, Types DEF Steps, InstallSteps

LEMMA SyncOldInv ==
  ASSUME IInv, NEW p \in Procs, SyncOld(p)
  PROVE  IInv'
<1>1. /\ DiskInv' /\ pc[p] = "syncOld" /\ Sync /\ GoTo(p, "moveNew")
      /\ UNCHANGED <<used, lock, dir, then, acked>>
  BY Syncing DEF SyncOld
<1>2. pc'[p] = "moveNew"
  BY <1>1, Types DEF GoTo
<1>3. PerProcess(p)'
  BY <1>1, <1>2
  DEF IInv, PerProcess, Staging, Installing, Recovering, Committing, InstallSteps, RecoverSteps,
      Sync
<1> QED
  BY <1>1, <1>3, Going, Types DEF Steps, InstallSteps

LEMMA MoveNewInv ==
  ASSUME IInv, NEW p \in Procs, MoveNew(p)
  PROVE  IInv'
<1> DEFINE new == [tree EXCEPT !.dest = dir[p], !.new[dir[p]] = "none"]
<1>1. /\ pc[p] = "moveNew" /\ GoTo(p, "syncNew") /\ acked' = Absent
      /\ UNCHANGED <<journal, journalsOnDisk, used, lock, dir, then>>
      /\ tree' = new /\ treesOnDisk' = treesOnDisk \cup {new}
  BY DEF MoveNew, ChangeTree
<1>2. /\ dir[p] \in Dirs /\ dir[p] \in used /\ journal # Absent /\ journal.dir = dir[p]
      /\ journalsOnDisk = {journal}
  BY <1>1 DEF IInv, PerProcess, Installing, InstallSteps
<1>3. new \in Trees /\ new.dest = dir[p] /\ new.previous = tree.previous
  BY <1>2, Types DEF Trees, Catalogs
<1>4. DiskIsFit'
  <2>1. Fit(new, journal)
    BY <1>2, <1>3, NamesAssumption, Types DEF Fit, DiskInv, DiskIsFit, OnDisk
  <2> QED
    BY <1>1, <1>2, <2>1, Types DEF DiskInv, DiskIsFit
<1>5. DiskInv'
  <2>0. \A d \in Dirs \ used : new.previous[d] = Absent
    BY <1>3, Types DEF DiskInv, OnDisk, UnusedIsEmpty
  <2>1. UnusedIsEmpty'
    BY <1>1, <2>0, Types DEF DiskInv, UnusedIsEmpty
  <2>2. SettledIsUniform' /\ OnDisk'
    BY <1>1, <1>2, Types DEF DiskInv, OnDisk, SettledIsUniform
  <2> QED
    BY <1>1, <1>3, <1>4, <2>1, <2>2, Types DEF DiskInv
<1>6. pc'[p] = "syncNew"
  BY <1>1, Types DEF GoTo
<1>7. PerProcess(p)'
  BY <1>1, <1>2, <1>3, <1>6
  DEF IInv, PerProcess, Staging, Installing, Recovering, Committing, InstallSteps, RecoverSteps
<1> QED
  BY <1>1, <1>5, <1>7, Going, Types DEF Steps, InstallSteps

LEMMA SyncNewInv ==
  ASSUME IInv, NEW p \in Procs, SyncNew(p)
  PROVE  IInv'
<1>1. /\ DiskInv' /\ pc[p] = "syncNew" /\ Sync /\ GoTo(p, "recover")
      /\ then' = [then EXCEPT ![p] = "committed"] /\ UNCHANGED <<used, lock, dir, acked>>
  BY Syncing DEF SyncNew
<1>2. pc'[p] = "recover" /\ then'[p] = "committed"
  BY <1>1, Types DEF GoTo
<1>3. PerProcess(p)'
  BY <1>1, <1>2
  DEF IInv, PerProcess, Staging, Installing, Recovering, Committing, InstallSteps, RecoverSteps,
      Sync
<1>4. then' \in [Procs -> Returns] /\ \A q \in Procs \ {p} : then'[q] = then[q]
  BY <1>1, Types DEF Returns
<1> QED
  BY <1>1, <1>3, <1>4, Going, Types DEF Steps, RecoverSteps

-------------------------------------------------------------------------------
\* Starts, errors and crashes.
LEMMA LockInv ==
  ASSUME IInv, NEW p \in Procs, Lock(p)
  PROVE  IInv'
<1>1. PICK goal \in {"stage", "recovered"} : then' = [then EXCEPT ![p] = goal]
  BY DEF Lock
<1>2. /\ lock = Absent /\ lock' = p /\ GoTo(p, "recover")
      /\ UNCHANGED <<disk, used, dir, acked>>
  BY DEF Lock
<1>3. DiskInv'
  BY <1>2, Resting
<1>4. \A q \in Procs : pc[q] = "idle" /\ then[q] # "committed"
  BY <1>2, NamesAssumption DEF IInv, OneActive, PerProcess, Committing, RecoverSteps
<1>5. /\ pc' \in [Procs -> Steps] /\ then' \in [Procs -> Returns] /\ pc'[p] = "recover"
      /\ \A q \in Procs : q # p => pc'[q] = "idle"
      /\ \A q \in Procs : then'[q] # "committed"
  BY <1>1, <1>2, <1>4, Types DEF GoTo, Steps, RecoverSteps, Returns
<1>6. \A q \in Procs : PerProcess(q)'
  BY <1>5 DEF PerProcess, Staging, Installing, Recovering, Committing, InstallSteps
<1>7. OneActive'
  BY <1>2, <1>5 DEF OneActive
<1> QED
  BY <1>2, <1>3, <1>5, <1>6, <1>7, Types DEF IInv, TypeOK, DiskInv

LEMMA FailInv ==
  ASSUME IInv, NEW p \in Procs, Fail(p)
  PROVE  IInv'
<1>1. CASE pc[p] \in {"write", "journal", "syncJournal"} /\ ChangeTree(Emptied(dir[p]))
           /\ Finish(p) /\ UNCHANGED <<journal, journalsOnDisk, used, acked>>
  <2>1. dir[p] \in Dirs /\ tree.previous[dir[p]] = Absent
    BY <1>1, Types DEF IInv, PerProcess, Staging, DiskInv, OnDisk
  <2> QED
    BY <1>1, <2>1, Emptying, Finishing, Types
<1>2. CASE pc[p] \in InstallSteps /\ then' = [then EXCEPT ![p] = "failed"] /\ GoTo(p, "recover")
           /\ UNCHANGED <<disk, used, lock, dir, acked>>
  <2>1. /\ then' \in [Procs -> Returns] /\ \A q \in Procs \ {p} : then'[q] = then[q]
        /\ then'[p] = "failed" /\ pc'[p] = "recover" /\ "recover" \in Steps /\ pc[p] # "idle"
    BY <1>2, Types DEF Returns, GoTo, Steps, RecoverSteps, InstallSteps
  <2>2. PerProcess(p)'
    BY <2>1 DEF PerProcess, Staging, Installing, Recovering, Committing, InstallSteps
  <2> QED
    BY <1>2, <2>1, <2>2, Resting, Going, Types
<1>3. CASE pc[p] \in RecoverSteps \cup {"stage"} /\ Finish(p) /\ UNCHANGED <<disk, used, acked>>
  <2>1. pc[p] # "idle"
    BY <1>3 DEF RecoverSteps
  <2> QED
    BY <1>3, <2>1, Resting, Finishing, Types
<1> QED
  BY <1>1, <1>2, <1>3 DEF Fail

LEMMA KillInv ==
  ASSUME IInv, NEW p \in Procs, Kill(p)
  PROVE  IInv'
BY Resting, Finishing, Types DEF Kill

LEMMA LosePowerInv ==
  ASSUME IInv, LosePower
  PROVE  IInv'
<1>1. /\ tree' \in treesOnDisk /\ treesOnDisk' = {tree'}
      /\ journal' \in journalsOnDisk /\ journalsOnDisk' = {journal'}
      /\ lock' = Absent /\ UNCHANGED <<used, acked>>
      /\ pc' = [p \in Procs |-> "idle"] /\ dir' = [p \in Procs |-> Absent]
      /\ then' = [p \in Procs |-> "none"]
  BY DEF LosePower
<1>2. DiskInv'
  BY <1>1, Types DEF DiskInv, OnDisk, UnusedIsEmpty, DiskIsFit, SettledIsUniform
<1>3. OneActive' /\ \A p \in Procs : PerProcess(p)'
  BY <1>1 DEF OneActive, PerProcess, Staging, Installing, Recovering, Committing, InstallSteps
<1>4. TypeOK'
  BY <1>1, <1>2, Types DEF TypeOK, DiskInv, Steps, Returns
<1> QED
  BY <1>2, <1>3, <1>4 DEF IInv, DiskInv

LEMMA StutterInv ==
  ASSUME IInv, UNCHANGED vars
  PROVE  IInv'
BY DEF vars, disk, IInv, TypeOK, OnDisk, OneActive, UnusedIsEmpty, DiskIsFit, Fit,
       SettledIsUniform, PerProcess, Staging, Installing, Recovering, Committing

LEMMA StepInv == IInv /\ [Next]_vars => IInv'
BY FindNoJournalInv, ReadJournalInv, RecoverySyncInv, RemoveJournalInv, CleanupInv,
   SyncCleanupInv, MakeStagedInv, WriteCatalogInv, WriteJournalInv, SyncJournalInv, MoveOldInv,
   SyncOldInv, MoveNewInv, SyncNewInv, LockInv, FailInv, KillInv, LosePowerInv, StutterInv
DEF Next, Recover, Build

-------------------------------------------------------------------------------
\* The invariant holds in every reachable state.
THEOREM Invariance == Spec => []IInv
BY InitInv, StepInv, PTL DEF Spec

\* Every variable has its type; a journal names a directory that a transaction
\* was given, however it was interrupted.
THEOREM TypeCorrectness == Spec => []TypeOK
<1>1. IInv => TypeOK
  BY DEF IInv
<1> QED
  BY <1>1, Invariance, PTL

\* No crash of the program, whenever it comes, leaves a journal that
\* recover_pending_artifacts refuses.
THEOREM RecoveryStaysPossible == Spec => []RecoveryIsPossible
<1>1. IInv => RecoveryIsPossible
  BY DEF IInv, OnDisk, DiskIsFit, Fit, RecoveryIsPossible, JournalIsValid
<1> QED
  BY <1>1, Invariance, PTL

-------------------------------------------------------------------------------
\* What AtomicDirectory sees of a state.
Published == Current(tree, journal)
Possible  == {Current(t, j) : t \in treesOnDisk, j \in journalsOnDisk}
Kept      == UNCHANGED <<Published, Possible>>

\* The catalog that recovery would leave now is one that it may leave.
LEMMA PublishedIsPossible ==
  ASSUME IInv
  PROVE  Published \in Possible
BY DEF IInv, OnDisk, Published, Possible

\* A change of names that recovery does not notice.
LEMMA KeepingTree ==
  ASSUME IInv, NEW new, ChangeTree(new), UNCHANGED <<journal, journalsOnDisk>>,
         \A j \in journalsOnDisk : Current(new, j) = Current(tree, j)
  PROVE  Kept
<1>1. tree' = new /\ treesOnDisk' = treesOnDisk \cup {new}
  BY DEF ChangeTree
<1>2. OnDisk
  BY DEF IInv
<1>3. Published' = Published
  BY <1>1, <1>2 DEF OnDisk, Published
<1>4. Possible' = Possible
  BY <1>1, <1>2 DEF OnDisk, Possible
<1> QED
  BY <1>3, <1>4 DEF Kept

LEMMA KeepingJournal ==
  ASSUME IInv, NEW new, ChangeJournal(new), UNCHANGED <<tree, treesOnDisk>>,
         \A t \in treesOnDisk : Current(t, new) = Current(t, journal)
  PROVE  Kept
<1>1. journal' = new /\ journalsOnDisk' = journalsOnDisk \cup {new}
  BY DEF ChangeJournal
<1>2. OnDisk
  BY DEF IInv
<1>3. Published' = Published
  BY <1>1, <1>2 DEF OnDisk, Published
<1>4. Possible' = Possible
  BY <1>1, <1>2 DEF OnDisk, Possible
<1> QED
  BY <1>3, <1>4 DEF Kept

\* Emptying a directory that recovery does not need is such a change.
LEMMA KeepingEmptied ==
  ASSUME IInv, NEW p \in Procs, ChangeTree(Emptied(dir[p])), UNCHANGED <<journal, journalsOnDisk>>,
         journalsOnDisk = {Absent} \/ (dir[p] \in Dirs /\ tree.previous[dir[p]] = Absent)
  PROVE  Kept
<1> DEFINE new == Emptied(dir[p])
<1>1. /\ new.dest = tree.dest
      /\ \A d \in Dirs : new.previous[d] = IF d = dir[p] THEN Absent ELSE tree.previous[d]
  BY Types DEF Emptied, Trees
<1>2. \A j \in journalsOnDisk : Current(new, j) = Current(tree, j)
  <2>1. CASE journalsOnDisk = {Absent}
    BY <2>1, <1>1 DEF Current
  <2>2. CASE tree.previous[dir[p]] = Absent
    <3>1. \A d \in Dirs : new.previous[d] = tree.previous[d]
      BY <1>1, <2>2
    <3>2. \A j \in journalsOnDisk : j = Absent \/ j.dir \in Dirs
      BY Types DEF DiskInv, Journals
    <3> QED
      BY <1>1, <3>1, <3>2 DEF Current
  <2> QED
    BY <2>1, <2>2
<1> QED
  BY <1>2, KeepingTree

\* A missing destination gets the catalog that recovery would put there.
LEMMA KeepingRestored ==
  ASSUME IInv, NEW p \in Procs, ReadJournal(p)
  PROVE  Kept
<1>1. journal # Absent /\ JournalIsValid /\ journal \in Journals
      /\ UNCHANGED <<journal, journalsOnDisk>>
  BY Types DEF ReadJournal
<1>2. CASE tree.dest = Absent /\ journal.hadPrevious
  <2> DEFINE new == [tree EXCEPT !.dest = tree.previous[journal.dir],
                                 !.previous[journal.dir] = Absent]
  <2>1. tree' = new /\ treesOnDisk' = treesOnDisk \cup {new}
    BY <1>2 DEF ReadJournal, ChangeTree
  <2>2. new.dest = tree.previous[journal.dir]
    BY Types DEF Trees
  <2>3. new.dest # Absent
    BY <1>1, <1>2, <2>2 DEF JournalIsValid
  <2>4. Published = tree.previous[journal.dir] /\ \A j : Current(new, j) = Published
    BY <1>1, <1>2, <2>2, <2>3 DEF Published, Current
  <2>5. Published' = Published
    BY <1>1, <2>1, <2>4 DEF Published
  <2>6. Possible' = Possible
    <3>1. \A c \in Possible' : c \in Possible
      BY <1>1, <2>1, <2>4, PublishedIsPossible DEF Possible
    <3>2. \A c \in Possible : c \in Possible'
      BY <1>1, <2>1 DEF Possible
    <3> QED
      BY <3>1, <3>2
  <2> QED
    BY <2>5, <2>6 DEF Kept
<1>3. CASE ~(tree.dest = Absent /\ journal.hadPrevious)
  BY <1>1, <1>3 DEF ReadJournal, Kept, Published, Possible
<1> QED
  BY <1>2, <1>3

\* Once the destination is there or there is nothing to put back, the journal
\* says nothing any more.
LEMMA KeepingForgotten ==
  ASSUME IInv, NEW p \in Procs, RemoveJournal(p)
  PROVE  Kept
<1>1. /\ treesOnDisk = {tree} /\ journal # Absent
      /\ tree.dest = Absent => tree.previous[journal.dir] = Absent
  BY DEF RemoveJournal, IInv, PerProcess, Recovering
<1>2. \A t \in treesOnDisk : Current(t, Absent) = Current(t, journal)
  BY <1>1 DEF Current
<1> QED
  BY <1>2, KeepingJournal DEF RemoveJournal

LEMMA KeepingAnnounced ==
  ASSUME IInv, NEW p \in Procs, WriteJournal(p)
  PROVE  Kept
<1> DEFINE had == tree.dest # Absent
           new == [dir |-> dir[p], hadPrevious |-> had]
<1>1. /\ journal = Absent /\ \A t \in treesOnDisk : t.previous[dir[p]] = Absent
  BY DEF WriteJournal, IInv, PerProcess, Staging
<1>2. ChangeJournal(new) /\ UNCHANGED <<tree, treesOnDisk>>
  BY DEF WriteJournal
<1>3. new.dir = dir[p]
  OBVIOUS
<1> HIDE DEF new
<1>4. \A t \in treesOnDisk : Current(t, new) = Current(t, journal)
  BY <1>1, <1>3 DEF Current
<1> QED
  BY <1>2, <1>4, KeepingJournal

\* Between the renames the journal stands for the catalog that was moved aside.
LEMMA KeepingAside ==
  ASSUME IInv, NEW p \in Procs, MoveOld(p)
  PROVE  Kept
<1> DEFINE new == [tree EXCEPT !.previous[dir[p]] = tree.dest, !.dest = Absent]
<1>1. /\ ChangeTree(new) /\ UNCHANGED <<journal, journalsOnDisk>> /\ pc[p] = "moveOld"
  BY DEF MoveOld
<1>2. /\ dir[p] \in Dirs /\ journal # Absent /\ journal.dir = dir[p]
      /\ journalsOnDisk = {journal} /\ tree.dest # Absent
  BY <1>1 DEF IInv, PerProcess, Installing, InstallSteps
<1>3. new.dest = Absent /\ new.previous[dir[p]] = tree.dest
  BY <1>2, Types DEF Trees
<1>4. Current(new, journal) = Current(tree, journal)
  BY <1>2, <1>3 DEF Current
<1> QED
  BY <1>1, <1>2, <1>4, KeepingTree

LEMMA KeepingStaged ==
  ASSUME IInv, NEW p \in Procs, MakeStaged(p) \/ WriteCatalog(p)
  PROVE  Kept
<1>1. PICK d, step : ChangeTree([tree EXCEPT !.new[d] = step])
  BY DEF MakeStaged, WriteCatalog
<1> DEFINE new == [tree EXCEPT !.new[d] = step]
<1>2. new.dest = tree.dest /\ new.previous = tree.previous
  BY Types DEF Trees
<1>3. \A j \in journalsOnDisk : Current(new, j) = Current(tree, j)
  BY <1>2 DEF Current
<1>4. UNCHANGED <<journal, journalsOnDisk>>
  BY DEF MakeStaged, WriteCatalog
<1> QED
  BY <1>1, <1>3, <1>4, KeepingTree

LEMMA KeepingFailed ==
  ASSUME IInv, NEW p \in Procs, Fail(p)
  PROVE  Kept
<1>1. CASE pc[p] \in {"write", "journal", "syncJournal"} /\ ChangeTree(Emptied(dir[p]))
           /\ UNCHANGED <<journal, journalsOnDisk>>
  <2>1. dir[p] \in Dirs /\ tree.previous[dir[p]] = Absent
    BY <1>1, Types DEF IInv, PerProcess, Staging, DiskInv, OnDisk
  <2> QED
    BY <1>1, <2>1, KeepingEmptied
<1>2. CASE UNCHANGED disk
  BY <1>2 DEF disk, Kept, Published, Possible
<1> QED
  BY <1>1, <1>2 DEF Fail

LEMMA KeepingClean ==
  ASSUME IInv, NEW p \in Procs, Cleanup(p)
  PROVE  Kept
<1>1. journalsOnDisk = {Absent}
  BY DEF Cleanup, IInv, PerProcess, Recovering
<1> QED
  BY <1>1, KeepingEmptied DEF Cleanup

\* A sync makes the published catalog the only possible one.
LEMMA Hardening ==
  ASSUME Sync
  PROVE  Possible' = {Published'} /\ Published' = Published
BY DEF Sync, Published, Possible

\* The one step that changes the catalog.
LEMMA Publishing ==
  ASSUME IInv, NEW p \in Procs, MoveNew(p)
  PROVE  dir[p] \in Catalogs /\ Published' = dir[p] /\ Possible' = Possible \cup {dir[p]}
<1> DEFINE new == [tree EXCEPT !.dest = dir[p], !.new[dir[p]] = "none"]
<1>1. /\ pc[p] = "moveNew" /\ tree' = new /\ treesOnDisk' = treesOnDisk \cup {new}
      /\ UNCHANGED <<journal, journalsOnDisk>>
  BY DEF MoveNew, ChangeTree
<1>2. dir[p] \in Dirs /\ journalsOnDisk = {journal} /\ treesOnDisk = {tree}
  BY <1>1 DEF IInv, PerProcess, Installing, InstallSteps
<1>3. new.dest = dir[p]
  BY Types DEF Trees
<1>4. Current(new, journal) = dir[p]
  BY <1>2, <1>3, NamesAssumption DEF Current
<1> HIDE DEF new
<1> QED
  BY <1>1, <1>2, <1>4 DEF Published, Possible, Catalogs

\* Every step publishes, hardens, loses power or keeps what AtomicDirectory sees.
LEMMA StepSimulation ==
  ASSUME IInv, Next
  PROVE  Atomic!Next \/ Kept
<1>1. ASSUME NEW p \in Procs, Lock(p) \/ FindNoJournal(p) \/ Kill(p)
      PROVE  Kept
  BY <1>1 DEF Lock, FindNoJournal, Kill, disk, Kept, Published, Possible
<1>2. ASSUME NEW p \in Procs,
             SyncRestored(p) \/ SyncRemoved(p) \/ SyncCleanup(p) \/ SyncJournal(p) \/ SyncOld(p)
               \/ SyncNew(p)
      PROVE  Atomic!Next
  <2>1. Sync
    BY <1>2 DEF SyncRestored, SyncRemoved, SyncCleanup, SyncJournal, SyncOld, SyncNew
  <2> QED
    BY <2>1, Hardening DEF Published, Possible, Atomic!Next, Atomic!Harden
<1>3. ASSUME NEW p \in Procs, MoveNew(p)
      PROVE  Atomic!Next
  BY <1>3, Publishing DEF Published, Possible, Atomic!Next, Atomic!Publish
<1>4. CASE LosePower
  <2>1. Published' \in Possible
    BY <1>4 DEF LosePower, Published, Possible
  <2>2. Possible' = {Published'}
    BY <1>4 DEF LosePower, Published, Possible
  <2> QED
    BY <2>1, <2>2 DEF Published, Possible, Atomic!Next, Atomic!LosePower
<1> QED
  BY <1>1, <1>2, <1>3, <1>4, KeepingRestored, KeepingForgotten, KeepingAnnounced, KeepingAside,
     KeepingStaged, KeepingFailed, KeepingClean
  DEF Next, Recover, Build

\* A step that acknowledges a catalog follows a sync with that catalog in place; after it,
\* only a step that moves in another one adds to what is possible.
LEMMA StepAcked ==
  ASSUME IInv, AckedIsDurable, Next
  PROVE  AckedIsDurable'
<1>a. AckedIsDurable => (acked # Absent => Possible \subseteq {acked})
  BY DEF AckedIsDurable, Possible
<1>b. (acked' # Absent => Possible' \subseteq {acked'}) => AckedIsDurable'
  BY DEF AckedIsDurable, Possible
<1>1. ASSUME NEW p \in Procs, MoveNew(p)
      PROVE  acked' = Absent
  BY <1>1 DEF MoveNew
<1>2. ASSUME NEW p \in Procs, SyncCleanup(p), then[p] = "committed"
      PROVE  Possible' = {acked'}
  <2>1. /\ Sync /\ acked' = dir[p] /\ pc[p] = "syncCleanup"
    BY <1>2 DEF SyncCleanup, Return
  <2>2. journal = Absent /\ dir[p] \in Dirs /\ tree.dest = dir[p]
    BY <1>2, <2>1 DEF IInv, PerProcess, Recovering, Committing
  <2>3. Published = acked'
    BY <2>1, <2>2, NamesAssumption DEF Published, Current
  <2> QED
    BY <2>1, <2>3, Hardening
<1>3. ASSUME NEW p \in Procs, SyncCleanup(p), then[p] # "committed"
      PROVE  UNCHANGED acked
  BY <1>3 DEF SyncCleanup, Return
<1>4. ASSUME NEW p \in Procs, FindNoJournal(p)
      PROVE  UNCHANGED acked
  <2>1. then[p] # "committed"
    BY <1>4 DEF IInv, PerProcess, Committing, FindNoJournal
  <2> QED
    BY <1>4, <2>1 DEF FindNoJournal, Return
<1>5. CASE UNCHANGED acked /\ Kept
  BY <1>5, <1>a, <1>b DEF Kept
<1>6. ASSUME UNCHANGED acked, Sync \/ LosePower
      PROVE  AckedIsDurable'
  <2>1. Possible' \subseteq Possible
    <3>1. CASE Sync
      BY <3>1, Hardening, PublishedIsPossible
    <3>2. CASE LosePower
      BY <3>2 DEF LosePower, Possible
    <3> QED
      BY <1>6, <3>1, <3>2
  <2> QED
    BY <1>6, <2>1, <1>a, <1>b
<1>7. ASSUME NEW p \in Procs,
             SyncRestored(p) \/ SyncRemoved(p) \/ SyncJournal(p) \/ SyncOld(p) \/ SyncNew(p)
      PROVE  AckedIsDurable'
  BY <1>6, <1>7 DEF SyncRestored, SyncRemoved, SyncJournal, SyncOld, SyncNew
<1>8. ASSUME NEW p \in Procs, SyncCleanup(p)
      PROVE  AckedIsDurable'
  <2>1. Sync
    BY <1>8 DEF SyncCleanup
  <2> QED
    BY <1>2, <1>3, <1>6, <1>8, <1>b, <2>1
<1>9. ASSUME NEW p \in Procs, FindNoJournal(p)
      PROVE  AckedIsDurable'
  <2>1. Kept
    BY <1>9 DEF FindNoJournal, disk, Kept, Published, Possible
  <2> QED
    BY <1>4, <1>5, <1>9, <2>1
<1>10. ASSUME NEW p \in Procs, Lock(p) \/ Kill(p)
       PROVE  AckedIsDurable'
  BY <1>5, <1>10 DEF Lock, Kill, disk, Kept, Published, Possible
<1>11. ASSUME NEW p \in Procs,
              ReadJournal(p) \/ RemoveJournal(p) \/ Cleanup(p) \/ MakeStaged(p)
                \/ WriteCatalog(p) \/ WriteJournal(p) \/ MoveOld(p) \/ Fail(p)
       PROVE  AckedIsDurable'
  <2>1. UNCHANGED acked
    BY <1>11
    DEF ReadJournal, RemoveJournal, Cleanup, MakeStaged, WriteCatalog, WriteJournal, MoveOld, Fail
  <2>2. Kept
    BY <1>11, KeepingRestored, KeepingForgotten, KeepingAnnounced, KeepingAside, KeepingStaged,
       KeepingFailed, KeepingClean
  <2> QED
    BY <1>5, <2>1, <2>2
<1>12. ASSUME NEW p \in Procs, MoveNew(p)
       PROVE  AckedIsDurable'
  BY <1>1, <1>12 DEF AckedIsDurable
<1>13. CASE LosePower
  BY <1>6, <1>13 DEF LosePower
<1> QED
  BY <1>7, <1>8, <1>9, <1>10, <1>11, <1>12, <1>13 DEF Next, Recover, Build

\* A catalog whose commit returned Ok stays on disk until another one is moved in,
\* whatever crashes or loses power in the meantime.
THEOREM AcknowledgedStays == Spec => []AckedIsDurable
<1>1. Init => AckedIsDurable
  BY DEF Init, AckedIsDurable
<1>2. IInv /\ AckedIsDurable /\ [Next]_vars => AckedIsDurable'
  <2>1. IInv /\ AckedIsDurable /\ Next => AckedIsDurable'
    BY StepAcked
  <2>2. AckedIsDurable /\ UNCHANGED vars => AckedIsDurable'
    BY DEF vars, disk, AckedIsDurable, Current
  <2> QED
    BY <2>1, <2>2
<1> QED
  BY <1>1, <1>2, Invariance, PTL DEF Spec

\* The journalled replacement implements AtomicDirectory: through recovery, the
\* catalog changes in one step and never disappears.
THEOREM Implementation == Spec => ReplacesAtomically
<1>1. Init => Atomic!Init
  <2> SUFFICES ASSUME Init PROVE Atomic!Init
    OBVIOUS
  <2>1. tree.dest \in Catalogs \cup {Absent} /\ treesOnDisk = {tree} /\ journal = Absent
        /\ journalsOnDisk = {journal}
    BY DEF Init, Catalogs
  <2>2. Current(tree, journal) \in Catalogs \cup {Absent}
    BY <2>1 DEF Current
  <2> QED
    BY <2>1, <2>2 DEF Atomic!Init
<1>2. IInv /\ [Next]_vars
        => [Atomic!Next]_<<Current(tree, journal),
                           {Current(t, j) : t \in treesOnDisk, j \in journalsOnDisk}>>
  <2>1. IInv /\ Next => Atomic!Next \/ Kept
    BY StepSimulation
  <2>2. UNCHANGED vars => Kept
    BY DEF vars, disk, Kept, Published, Possible
  <2> QED
    BY <2>1, <2>2 DEF Kept, Published, Possible
<1> QED
  BY <1>1, <1>2, Invariance, PTL DEF Spec, ReplacesAtomically, Atomic!Spec
=============================================================================
