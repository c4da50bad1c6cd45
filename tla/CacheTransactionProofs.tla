------------------------ MODULE CacheTransactionProofs ------------------------
(***************************************************************************)
(* Proofs of the safety properties of CacheTransaction for every set of    *)
(* processes, every set of contents and every number of backups.           *)
(***************************************************************************)
EXTENDS CacheTransaction, TLAPS

\* The bytes an operation works with are known from the moment it needs them.
BytesKnown ==
    \A p \in Procs :
        op[p] = "install" \/ pc[p] \in LockedSteps \ {"locked"}
            => expected[p] \in Bytes /\ replacement[p] \in Bytes

\* The lock names exactly the process that is between lock_cache and return.
LockNamesHolder == \A p \in Procs : HoldsLock(p) <=> lock = p

\* The newest backup is the one the lock holder is making or has made.
NewestIs(p, status) ==
    /\ Len(backups) # 0
    /\ backups[Len(backups)].bytes = expected[p]
    /\ backups[Len(backups)].status = status

BackupInProgress ==
    \A p \in Procs :
        /\ pc[p] = "manifest" => NewestIs(p, "partial")
        /\ pc[p] = "syncBackup" => NewestIs(p, "complete")
        /\ pc[p] \in {"stage", "checkAgain", "compare", "persist"}
               => NewestIs(p, "durable")

\* What was replaced is in a backup that no loss of power can take away.
SavedDurably ==
    \A b \in overwritten :
        \E i \in DOMAIN backups :
            backups[i].status = "durable" /\ backups[i].bytes = b

\* What the last replacement replaced is the newest complete backup.
UndoIsNewest ==
    undo # None =>
        \E i \in DOMAIN backups :
            /\ backups[i].status = "durable"
            /\ backups[i].bytes = undo
            /\ \A j \in DOMAIN backups : backups[j].status # "partial" => j <= i

\* Between comparison and rename only a late write changes the cache.
ComparedHolds ==
    \A p \in Procs : pc[p] = "persist" => cache = expected[p] \/ lateWrite

\* Between the final check and the rename Deadlock runs only by a late start.
CheckedHolds ==
    \A p \in Procs : pc[p] \in {"compare", "persist"} /\ deadlock => lateStart

IInv ==
    /\ TypeOK
    /\ BytesKnown
    /\ LockNamesHolder
    /\ BackupInProgress
    /\ SavedDurably
    /\ UndoIsNewest
    /\ ComparedHolds
    /\ CheckedHolds

-------------------------------------------------------------------------------
(* Facts about the sequence of backups.                                    *)

\* The backups are a function over their indices.
LEMMA BackupsAreASequence ==
    ASSUME backups \in Seq(Backup)
    PROVE  /\ Len(backups) \in Nat
           /\ DOMAIN backups = 1 .. Len(backups)
           /\ backups \in [DOMAIN backups -> Backup]
  OBVIOUS

\* A new, partial directory goes to the end and changes no other.
LEMMA AppendBackup ==
    ASSUME backups \in Seq(Backup), NEW b \in Bytes,
           backups' = Append(backups, [bytes |-> b, status |-> "partial"])
    PROVE  /\ backups' \in Seq(Backup)
           /\ Len(backups') = Len(backups) + 1
           /\ DOMAIN backups = 1 .. Len(backups)
           /\ DOMAIN backups' = 1 .. (Len(backups) + 1)
           /\ backups'[Len(backups')] = [bytes |-> b, status |-> "partial"]
           /\ \A i \in DOMAIN backups : i \in DOMAIN backups' /\ backups'[i] = backups[i]
  <1>1. [bytes |-> b, status |-> "partial"] \in Backup
    BY DEF Backup, Statuses
  <1>2. QED
    BY <1>1

\* A function over the same indices with backups as values is a sequence of
\* the same length.
LEMMA RetagBackups ==
    ASSUME backups \in Seq(Backup), backups' \in [DOMAIN backups -> Backup]
    PROVE  /\ backups' \in Seq(Backup)
           /\ Len(backups') = Len(backups)
           /\ Len(backups) \in Nat
           /\ DOMAIN backups = 1 .. Len(backups)
           /\ DOMAIN backups' = DOMAIN backups
  OBVIOUS

\* Initially nothing is running, held, backed up or replaced.
LEMMA InitIInv == Init => IInv
  <1> SUFFICES ASSUME Init PROVE IInv
    OBVIOUS
  <1> USE NoneAssumption, MaxBackupsAssumption DEF Init
  <1>1. TypeOK
    <2>1. backups \in Seq(Backup) /\ Len(backups) = 0
      OBVIOUS
    <2>2. overwritten \subseteq Bytes /\ 0 <= MaxBackups
      OBVIOUS
    <2>3. QED
      BY <2>1, <2>2 DEF TypeOK, Steps, Operations
  <1>2. LockNamesHolder
    BY DEF LockNamesHolder, HoldsLock, LockedSteps, BackupSteps, ReplaceSteps
  <1>3. QED
    BY <1>1, <1>2 DEF IInv, BytesKnown, BackupInProgress, SavedDurably, UndoIsNewest,
       ComparedHolds, CheckedHolds, LockedSteps, BackupSteps, ReplaceSteps

-------------------------------------------------------------------------------
(* The invariant is preserved: one lemma per action.                       *)

\* Whatever ends an operation: the process leaves the protocol and its lock.
LEMMA FinishIInv ==
    ASSUME IInv, NEW p \in Procs, Finish(p),
           UNCHANGED <<fileVars, deadlock, histVars>>
    PROVE  IInv'
  <1> USE NoneAssumption DEF IInv, LockedSteps, BackupSteps, ReplaceSteps
  <1>1. TypeOK'
    BY DEF Finish, fileVars, histVars, TypeOK, Steps, Operations
  <1>2. BytesKnown' /\ LockNamesHolder'
    BY DEF Finish, fileVars, histVars, TypeOK, BytesKnown, LockNamesHolder,
           HoldsLock
  <1>3. BackupInProgress'
    BY DEF Finish, fileVars, histVars, TypeOK, BackupInProgress, NewestIs,
           LockNamesHolder, HoldsLock
  <1>4. SavedDurably' /\ UndoIsNewest'
    BY DEF Finish, fileVars, histVars, SavedDurably, UndoIsNewest
  <1>5. ComparedHolds' /\ CheckedHolds'
    BY DEF Finish, fileVars, histVars, TypeOK, ComparedHolds, CheckedHolds,
           LockNamesHolder, HoldsLock
  <1> QED
    BY <1>1, <1>2, <1>3, <1>4, <1>5

\* An installation starts with the bytes it has read.
LEMMA PrepareIInv ==
    ASSUME IInv, NEW p \in Procs, Prepare(p)
    PROVE  IInv'
  <1> USE NoneAssumption, ReadableAssumption DEF IInv, LockedSteps, BackupSteps, ReplaceSteps
  <1>1. TypeOK'
    BY DEF Prepare, GoTo, fileVars, histVars, TypeOK, Steps, Operations
  <1>2. BytesKnown' /\ LockNamesHolder'
    BY DEF Prepare, GoTo, fileVars, histVars, TypeOK, BytesKnown,
           LockNamesHolder, HoldsLock
  <1>3. BackupInProgress'
    BY DEF Prepare, GoTo, fileVars, histVars, TypeOK, BackupInProgress,
           NewestIs, LockNamesHolder, HoldsLock
  <1>4. SavedDurably' /\ UndoIsNewest'
    BY DEF Prepare, GoTo, fileVars, histVars, SavedDurably, UndoIsNewest
  <1>5. ComparedHolds' /\ CheckedHolds'
    BY DEF Prepare, GoTo, fileVars, histVars, TypeOK, ComparedHolds,
           CheckedHolds, LockNamesHolder, HoldsLock
  <1> QED
    BY <1>1, <1>2, <1>3, <1>4, <1>5

\* A restoration starts.
LEMMA RequestRestoreIInv ==
    ASSUME IInv, NEW p \in Procs, RequestRestore(p)
    PROVE  IInv'
  <1> USE NoneAssumption, ReadableAssumption DEF IInv, LockedSteps, BackupSteps, ReplaceSteps
  <1>1. TypeOK'
    BY DEF RequestRestore, GoTo, fileVars, histVars, TypeOK, Steps, Operations
  <1>2. BytesKnown' /\ LockNamesHolder'
    BY DEF RequestRestore, GoTo, fileVars, histVars, TypeOK, BytesKnown,
           LockNamesHolder, HoldsLock
  <1>3. BackupInProgress'
    BY DEF RequestRestore, GoTo, fileVars, histVars, TypeOK, BackupInProgress,
           NewestIs, LockNamesHolder, HoldsLock
  <1>4. SavedDurably' /\ UndoIsNewest'
    BY DEF RequestRestore, GoTo, fileVars, histVars, SavedDurably,
           UndoIsNewest
  <1>5. ComparedHolds' /\ CheckedHolds'
    BY DEF RequestRestore, GoTo, fileVars, histVars, TypeOK, ComparedHolds,
           CheckedHolds, LockNamesHolder, HoldsLock
  <1> QED
    BY <1>1, <1>2, <1>3, <1>4, <1>5

\* The first process check.
LEMMA CheckStoppedIInv ==
    ASSUME IInv, NEW p \in Procs, CheckStopped(p)
    PROVE  IInv'
  <1> USE NoneAssumption, ReadableAssumption DEF IInv, LockedSteps, BackupSteps, ReplaceSteps
  <1>1. TypeOK'
    BY DEF CheckStopped, GoTo, fileVars, histVars, TypeOK, Steps, Operations
  <1>2. BytesKnown' /\ LockNamesHolder'
    BY DEF CheckStopped, GoTo, fileVars, histVars, TypeOK, BytesKnown,
           LockNamesHolder, HoldsLock
  <1>3. BackupInProgress'
    BY DEF CheckStopped, GoTo, fileVars, histVars, TypeOK, BackupInProgress,
           NewestIs, LockNamesHolder, HoldsLock
  <1>4. SavedDurably' /\ UndoIsNewest'
    BY DEF CheckStopped, GoTo, fileVars, histVars, SavedDurably, UndoIsNewest
  <1>5. ComparedHolds' /\ CheckedHolds'
    BY DEF CheckStopped, GoTo, fileVars, histVars, TypeOK, ComparedHolds,
           CheckedHolds, LockNamesHolder, HoldsLock
  <1> QED
    BY <1>1, <1>2, <1>3, <1>4, <1>5

\* The free lock gets a holder.
LEMMA LockCacheIInv ==
    ASSUME IInv, NEW p \in Procs, LockCache(p)
    PROVE  IInv'
  <1> USE NoneAssumption, ReadableAssumption DEF IInv, LockedSteps, BackupSteps, ReplaceSteps
  <1>1. TypeOK'
    BY DEF LockCache, GoTo, fileVars, histVars, TypeOK, Steps, Operations
  <1>2. BytesKnown' /\ LockNamesHolder'
    BY DEF LockCache, GoTo, fileVars, histVars, TypeOK, BytesKnown,
           LockNamesHolder, HoldsLock
  <1>3. BackupInProgress'
    BY DEF LockCache, GoTo, fileVars, histVars, TypeOK, BackupInProgress,
           NewestIs, LockNamesHolder, HoldsLock
  <1>4. SavedDurably' /\ UndoIsNewest'
    BY DEF LockCache, GoTo, fileVars, histVars, SavedDurably, UndoIsNewest
  <1>5. ComparedHolds' /\ CheckedHolds'
    BY DEF LockCache, GoTo, fileVars, histVars, TypeOK, ComparedHolds,
           CheckedHolds, LockNamesHolder, HoldsLock
  <1> QED
    BY <1>1, <1>2, <1>3, <1>4, <1>5

\* An unchanged cache ends the operation, any other needs a backup.
LEMMA BeginInstallIInv ==
    ASSUME IInv, NEW p \in Procs, BeginInstall(p)
    PROVE  IInv'
  <1> USE NoneAssumption, ReadableAssumption DEF IInv, LockedSteps, BackupSteps, ReplaceSteps
  <1>1. TypeOK'
    BY DEF BeginInstall, GoTo, Finish, fileVars, histVars, TypeOK, Steps,
           Operations
  <1>2. BytesKnown' /\ LockNamesHolder'
    BY DEF BeginInstall, GoTo, Finish, fileVars, histVars, TypeOK, BytesKnown,
           LockNamesHolder, HoldsLock
  <1>3. BackupInProgress'
    BY DEF BeginInstall, GoTo, Finish, fileVars, histVars, TypeOK,
           BackupInProgress, NewestIs, LockNamesHolder, HoldsLock
  <1>4. SavedDurably' /\ UndoIsNewest'
    BY DEF BeginInstall, GoTo, Finish, fileVars, histVars, SavedDurably,
           UndoIsNewest
  <1>5. ComparedHolds' /\ CheckedHolds'
    BY DEF BeginInstall, GoTo, Finish, fileVars, histVars, TypeOK,
           ComparedHolds, CheckedHolds, LockNamesHolder, HoldsLock
  <1> QED
    BY <1>1, <1>2, <1>3, <1>4, <1>5

\* Restoration knows its bytes from here on.
LEMMA SelectBackupIInv ==
    ASSUME IInv, NEW p \in Procs, SelectBackup(p)
    PROVE  IInv'
  <1> USE NoneAssumption, ReadableAssumption DEF IInv, LockedSteps, BackupSteps, ReplaceSteps
  <1>1. TypeOK'
    BY DEF SelectBackup, GoTo, fileVars, histVars, IsLatest, IsComplete,
           TypeOK, Steps, Operations
  <1>2. BytesKnown' /\ LockNamesHolder'
    BY DEF SelectBackup, GoTo, fileVars, histVars, IsLatest, IsComplete,
           TypeOK, BytesKnown, LockNamesHolder, HoldsLock
  <1>3. BackupInProgress'
    BY DEF SelectBackup, GoTo, fileVars, histVars, IsLatest, IsComplete,
           TypeOK, BackupInProgress, NewestIs, LockNamesHolder, HoldsLock
  <1>4. SavedDurably' /\ UndoIsNewest'
    BY DEF SelectBackup, GoTo, fileVars, histVars, IsLatest, IsComplete,
           SavedDurably, UndoIsNewest
  <1>5. ComparedHolds' /\ CheckedHolds'
    BY DEF SelectBackup, GoTo, fileVars, histVars, IsLatest, IsComplete,
           TypeOK, ComparedHolds, CheckedHolds, LockNamesHolder, HoldsLock
  <1> QED
    BY <1>1, <1>2, <1>3, <1>4, <1>5

\* A partial directory follows all others.
LEMMA MakeDirectoryIInv ==
    ASSUME IInv, NEW p \in Procs, MakeDirectory(p)
    PROVE  IInv'
  <1> USE NoneAssumption, ReadableAssumption DEF IInv, LockedSteps, BackupSteps, ReplaceSteps
  <1>1. TypeOK'
    <2>1. expected[p] \in Bytes
      BY DEF MakeDirectory, BytesKnown
    <2>2. backups' \in Seq(Backup) /\ Len(backups') <= MaxBackups
      BY <2>1, AppendBackup, BackupsAreASequence, MaxBackupsAssumption
         DEF MakeDirectory, TypeOK
    <2>3. QED
      BY <2>2 DEF MakeDirectory, GoTo, histVars, TypeOK, Steps, Operations
  <1>2. BytesKnown' /\ LockNamesHolder'
    BY DEF MakeDirectory, GoTo, histVars, TypeOK, BytesKnown, LockNamesHolder,
           HoldsLock
  <1>3. BackupInProgress'
    BY DEF MakeDirectory, GoTo, histVars, TypeOK, BackupInProgress, NewestIs,
           LockNamesHolder, HoldsLock
  <1>4. SavedDurably' /\ UndoIsNewest'
    <2>1. expected[p] \in Bytes
      BY DEF MakeDirectory, BytesKnown
    <2>2. \A i \in DOMAIN backups : i \in DOMAIN backups' /\ backups'[i] = backups[i]
      BY <2>1, AppendBackup DEF MakeDirectory, TypeOK
    <2>3. \A j \in DOMAIN backups' :
             backups'[j].status # "partial" => j \in DOMAIN backups
      BY <2>1, AppendBackup DEF MakeDirectory, TypeOK
    <2>4. QED
      BY <2>2, <2>3 DEF MakeDirectory, histVars, SavedDurably, UndoIsNewest
  <1>5. ComparedHolds' /\ CheckedHolds'
    BY DEF MakeDirectory, GoTo, histVars, TypeOK, ComparedHolds, CheckedHolds,
           LockNamesHolder, HoldsLock
  <1> QED
    BY <1>1, <1>2, <1>3, <1>4, <1>5

\* The newest directory becomes complete; there is no undo to lose.
LEMMA WriteManifestIInv ==
    ASSUME IInv, NEW p \in Procs, WriteManifest(p)
    PROVE  IInv'
  <1> USE NoneAssumption, ReadableAssumption DEF IInv, LockedSteps, BackupSteps, ReplaceSteps
  <1>1. TypeOK'
    <2>1. backups' \in [DOMAIN backups -> Backup]
      BY BackupsAreASequence DEF WriteManifest, TypeOK, BackupInProgress, NewestIs, Backup, Statuses
    <2>2. backups' \in Seq(Backup) /\ Len(backups') <= MaxBackups
      BY <2>1, RetagBackups DEF TypeOK
    <2>3. QED
      BY <2>2 DEF WriteManifest, GoTo, TypeOK, Steps, Operations
  <1>2. BytesKnown' /\ LockNamesHolder'
    BY DEF WriteManifest, GoTo, TypeOK, BytesKnown, LockNamesHolder, HoldsLock
  <1>3. BackupInProgress'
    BY DEF WriteManifest, GoTo, TypeOK, BackupInProgress, NewestIs,
           LockNamesHolder, HoldsLock
  <1>4. SavedDurably' /\ UndoIsNewest'
    <2>1. \A i \in DOMAIN backups :
             backups[i].status = "durable" => i # Len(backups)
      BY DEF WriteManifest, BackupInProgress, NewestIs
    <2>2. \A i \in DOMAIN backups : i # Len(backups) =>
             i \in DOMAIN backups' /\ backups'[i] = backups[i]
      BY BackupsAreASequence DEF WriteManifest, TypeOK
    <2>3. SavedDurably'
      BY <2>1, <2>2 DEF WriteManifest, SavedDurably
    <2>4. QED
      BY <2>3 DEF WriteManifest, UndoIsNewest
  <1>5. ComparedHolds' /\ CheckedHolds'
    BY DEF WriteManifest, GoTo, TypeOK, ComparedHolds, CheckedHolds,
           LockNamesHolder, HoldsLock
  <1> QED
    BY <1>1, <1>2, <1>3, <1>4, <1>5

\* Complete directories become durable.
LEMMA SyncBackupIInv ==
    ASSUME IInv, NEW p \in Procs, SyncBackup(p)
    PROVE  IInv'
  <1> USE NoneAssumption, ReadableAssumption DEF IInv, LockedSteps, BackupSteps, ReplaceSteps
  <1>1. TypeOK'
    <2>1. backups' \in [DOMAIN backups -> Backup]
      BY BackupsAreASequence DEF SyncBackup, TypeOK, Backup, Statuses
    <2>2. backups' \in Seq(Backup) /\ Len(backups') <= MaxBackups
      BY <2>1, RetagBackups DEF TypeOK
    <2>3. QED
      BY <2>2 DEF SyncBackup, GoTo, histVars, TypeOK, Steps, Operations
  <1>2. BytesKnown' /\ LockNamesHolder'
    BY DEF SyncBackup, GoTo, histVars, IsComplete, TypeOK, BytesKnown,
           LockNamesHolder, HoldsLock
  <1>3. BackupInProgress'
    BY DEF SyncBackup, GoTo, histVars, IsComplete, TypeOK, BackupInProgress,
           NewestIs, LockNamesHolder, HoldsLock
  <1>4. SavedDurably' /\ UndoIsNewest'
    BY DEF SyncBackup, GoTo, histVars, IsComplete, SavedDurably, UndoIsNewest
  <1>5. ComparedHolds' /\ CheckedHolds'
    BY DEF SyncBackup, GoTo, histVars, IsComplete, TypeOK, ComparedHolds,
           CheckedHolds, LockNamesHolder, HoldsLock
  <1> QED
    BY <1>1, <1>2, <1>3, <1>4, <1>5

\* The temporary file is not part of the state.
LEMMA StageIInv ==
    ASSUME IInv, NEW p \in Procs, Stage(p)
    PROVE  IInv'
  <1> USE NoneAssumption, ReadableAssumption DEF IInv, LockedSteps, BackupSteps, ReplaceSteps
  <1>1. TypeOK'
    BY DEF Stage, GoTo, fileVars, histVars, TypeOK, Steps, Operations
  <1>2. BytesKnown' /\ LockNamesHolder'
    BY DEF Stage, GoTo, fileVars, histVars, TypeOK, BytesKnown,
           LockNamesHolder, HoldsLock
  <1>3. BackupInProgress'
    BY DEF Stage, GoTo, fileVars, histVars, TypeOK, BackupInProgress,
           NewestIs, LockNamesHolder, HoldsLock
  <1>4. SavedDurably' /\ UndoIsNewest'
    BY DEF Stage, GoTo, fileVars, histVars, SavedDurably, UndoIsNewest
  <1>5. ComparedHolds' /\ CheckedHolds'
    BY DEF Stage, GoTo, fileVars, histVars, TypeOK, ComparedHolds,
           CheckedHolds, LockNamesHolder, HoldsLock
  <1> QED
    BY <1>1, <1>2, <1>3, <1>4, <1>5

\* Deadlock does not run.
LEMMA CheckAgainIInv ==
    ASSUME IInv, NEW p \in Procs, CheckAgain(p)
    PROVE  IInv'
  <1> USE NoneAssumption, ReadableAssumption DEF IInv, LockedSteps, BackupSteps, ReplaceSteps
  <1>1. TypeOK'
    BY DEF CheckAgain, GoTo, fileVars, histVars, TypeOK, Steps, Operations
  <1>2. BytesKnown' /\ LockNamesHolder'
    BY DEF CheckAgain, GoTo, fileVars, histVars, TypeOK, BytesKnown,
           LockNamesHolder, HoldsLock
  <1>3. BackupInProgress'
    BY DEF CheckAgain, GoTo, fileVars, histVars, TypeOK, BackupInProgress,
           NewestIs, LockNamesHolder, HoldsLock
  <1>4. SavedDurably' /\ UndoIsNewest'
    BY DEF CheckAgain, GoTo, fileVars, histVars, SavedDurably, UndoIsNewest
  <1>5. ComparedHolds' /\ CheckedHolds'
    BY DEF CheckAgain, GoTo, fileVars, histVars, TypeOK, ComparedHolds,
           CheckedHolds, LockNamesHolder, HoldsLock
  <1> QED
    BY <1>1, <1>2, <1>3, <1>4, <1>5

\* The cache is what was expected.
LEMMA CompareIInv ==
    ASSUME IInv, NEW p \in Procs, Compare(p)
    PROVE  IInv'
  <1> USE NoneAssumption, ReadableAssumption DEF IInv, LockedSteps, BackupSteps, ReplaceSteps
  <1>1. TypeOK'
    BY DEF Compare, GoTo, fileVars, TypeOK, Steps, Operations
  <1>2. BytesKnown' /\ LockNamesHolder'
    BY DEF Compare, GoTo, fileVars, TypeOK, BytesKnown, LockNamesHolder,
           HoldsLock
  <1>3. BackupInProgress'
    BY DEF Compare, GoTo, fileVars, TypeOK, BackupInProgress, NewestIs,
           LockNamesHolder, HoldsLock
  <1>4. SavedDurably' /\ UndoIsNewest'
    BY DEF Compare, GoTo, fileVars, SavedDurably, UndoIsNewest
  <1>5. ComparedHolds' /\ CheckedHolds'
    BY DEF Compare, GoTo, fileVars, TypeOK, ComparedHolds, CheckedHolds,
           LockNamesHolder, HoldsLock
  <1> QED
    BY <1>1, <1>2, <1>3, <1>4, <1>5

\* The newest backup, which is durable, holds what is replaced.
LEMMA PersistIInv ==
    ASSUME IInv, NEW p \in Procs, Persist(p)
    PROVE  IInv'
  <1> USE NoneAssumption, ReadableAssumption DEF IInv, LockedSteps, BackupSteps, ReplaceSteps
  <1>1. TypeOK'
    BY DEF Persist, GoTo, TypeOK, BytesKnown, Steps, Operations
  <1>2. BytesKnown' /\ LockNamesHolder'
    BY DEF Persist, GoTo, TypeOK, BytesKnown, LockNamesHolder, HoldsLock
  <1>3. BackupInProgress'
    BY DEF Persist, GoTo, TypeOK, BackupInProgress, NewestIs, LockNamesHolder,
           HoldsLock
  <1>4. SavedDurably' /\ UndoIsNewest'
    <2>1. /\ Len(backups) \in DOMAIN backups
          /\ \A j \in DOMAIN backups : j <= Len(backups)
          /\ NewestIs(p, "durable")
      BY BackupsAreASequence DEF Persist, TypeOK, BackupInProgress, NewestIs
    <2>2. lateWrite \/ cache = expected[p]
      BY DEF Persist, ComparedHolds
    <2>3. SavedDurably'
      BY <2>1, <2>2 DEF Persist, SavedDurably, NewestIs
    <2>4. UndoIsNewest'
      BY <2>1 DEF Persist, UndoIsNewest, NewestIs
    <2>5. QED
      BY <2>3, <2>4
  <1>5. ComparedHolds' /\ CheckedHolds'
    BY DEF Persist, GoTo, TypeOK, ComparedHolds, CheckedHolds,
           LockNamesHolder, HoldsLock
  <1> QED
    BY <1>1, <1>2, <1>3, <1>4, <1>5

\* Only the durable contents change.
LEMMA SyncDirectoryIInv ==
    ASSUME IInv, NEW p \in Procs, SyncDirectory(p)
    PROVE  IInv'
  <1> USE NoneAssumption, ReadableAssumption DEF IInv, LockedSteps, BackupSteps, ReplaceSteps
  <1>1. TypeOK'
    BY DEF SyncDirectory, GoTo, histVars, TypeOK, Steps, Operations
  <1>2. BytesKnown' /\ LockNamesHolder'
    BY DEF SyncDirectory, GoTo, histVars, TypeOK, BytesKnown, LockNamesHolder,
           HoldsLock
  <1>3. BackupInProgress'
    BY DEF SyncDirectory, GoTo, histVars, TypeOK, BackupInProgress, NewestIs,
           LockNamesHolder, HoldsLock
  <1>4. SavedDurably' /\ UndoIsNewest'
    BY DEF SyncDirectory, GoTo, histVars, SavedDurably, UndoIsNewest
  <1>5. ComparedHolds' /\ CheckedHolds'
    BY DEF SyncDirectory, GoTo, histVars, TypeOK, ComparedHolds, CheckedHolds,
           LockNamesHolder, HoldsLock
  <1> QED
    BY <1>1, <1>2, <1>3, <1>4, <1>5

\* The operation ends.
LEMMA VerifyIInv ==
    ASSUME IInv, NEW p \in Procs, Verify(p)
    PROVE  IInv'
  BY FinishIInv DEF Verify

\* A failed replacement of an installation keeps the lock; all else ends.
LEMMA FailIInv ==
    ASSUME IInv, NEW p \in Procs, Fail(p)
    PROVE  IInv'
  <1> USE NoneAssumption, ReadableAssumption DEF IInv, LockedSteps, BackupSteps, ReplaceSteps
  <1>1. TypeOK'
    BY DEF Fail, GoTo, Finish, fileVars, histVars, RecoversFrom, TypeOK,
           Steps, Operations
  <1>2. BytesKnown' /\ LockNamesHolder'
    BY DEF Fail, GoTo, Finish, fileVars, histVars, RecoversFrom, TypeOK,
           BytesKnown, LockNamesHolder, HoldsLock
  <1>3. BackupInProgress'
    BY DEF Fail, GoTo, Finish, fileVars, histVars, RecoversFrom, TypeOK,
           BackupInProgress, NewestIs, LockNamesHolder, HoldsLock
  <1>4. SavedDurably' /\ UndoIsNewest'
    BY DEF Fail, GoTo, Finish, fileVars, histVars, RecoversFrom, SavedDurably,
           UndoIsNewest
  <1>5. ComparedHolds' /\ CheckedHolds'
    BY DEF Fail, GoTo, Finish, fileVars, histVars, RecoversFrom, TypeOK,
           ComparedHolds, CheckedHolds, LockNamesHolder, HoldsLock
  <1> QED
    BY <1>1, <1>2, <1>3, <1>4, <1>5

\* Recovery ends.
LEMMA FindIntactIInv ==
    ASSUME IInv, NEW p \in Procs, FindIntact(p)
    PROVE  IInv'
  BY FinishIInv DEF FindIntact

\* Recovery exchanges the two contents.
LEMMA BeginRecoveryIInv ==
    ASSUME IInv, NEW p \in Procs, BeginRecovery(p)
    PROVE  IInv'
  <1> USE NoneAssumption, ReadableAssumption DEF IInv, LockedSteps, BackupSteps, ReplaceSteps
  <1>1. TypeOK'
    BY DEF BeginRecovery, GoTo, fileVars, histVars, TypeOK, Steps, Operations
  <1>2. BytesKnown' /\ LockNamesHolder'
    BY DEF BeginRecovery, GoTo, fileVars, histVars, TypeOK, BytesKnown,
           LockNamesHolder, HoldsLock
  <1>3. BackupInProgress'
    BY DEF BeginRecovery, GoTo, fileVars, histVars, TypeOK, BackupInProgress,
           NewestIs, LockNamesHolder, HoldsLock
  <1>4. SavedDurably' /\ UndoIsNewest'
    BY DEF BeginRecovery, GoTo, fileVars, histVars, SavedDurably, UndoIsNewest
  <1>5. ComparedHolds' /\ CheckedHolds'
    BY DEF BeginRecovery, GoTo, fileVars, histVars, TypeOK, ComparedHolds,
           CheckedHolds, LockNamesHolder, HoldsLock
  <1> QED
    BY <1>1, <1>2, <1>3, <1>4, <1>5

\* The process ends.
LEMMA KillIInv ==
    ASSUME IInv, NEW p \in Procs, Kill(p)
    PROVE  IInv'
  BY FinishIInv DEF Kill

\* A write between comparison and rename is late.
LEMMA ExternalWriteIInv ==
    ASSUME IInv, ExternalWrite
    PROVE  IInv'
  <1> USE NoneAssumption, ReadableAssumption DEF IInv, LockedSteps, BackupSteps, ReplaceSteps
  <1>1. TypeOK'
    BY DEF ExternalWrite, procVars, TypeOK, Steps, Operations
  <1>2. BytesKnown' /\ LockNamesHolder'
    BY DEF ExternalWrite, procVars, TypeOK, BytesKnown, LockNamesHolder,
           HoldsLock
  <1>3. BackupInProgress'
    BY DEF ExternalWrite, procVars, TypeOK, BackupInProgress, NewestIs,
           LockNamesHolder, HoldsLock
  <1>4. SavedDurably' /\ UndoIsNewest'
    BY DEF ExternalWrite, procVars, SavedDurably, UndoIsNewest
  <1>5. ComparedHolds' /\ CheckedHolds'
    BY DEF ExternalWrite, procVars, TypeOK, ComparedHolds, CheckedHolds,
           LockNamesHolder, HoldsLock
  <1> QED
    BY <1>1, <1>2, <1>3, <1>4, <1>5

\* A start between the final check and the rename is late.
LEMMA StartDeadlockIInv ==
    ASSUME IInv, StartDeadlock
    PROVE  IInv'
  <1> USE NoneAssumption, ReadableAssumption DEF IInv, LockedSteps, BackupSteps, ReplaceSteps
  <1>1. TypeOK'
    BY DEF StartDeadlock, fileVars, procVars, TypeOK, Steps, Operations
  <1>2. BytesKnown' /\ LockNamesHolder'
    BY DEF StartDeadlock, fileVars, procVars, TypeOK, BytesKnown,
           LockNamesHolder, HoldsLock
  <1>3. BackupInProgress'
    BY DEF StartDeadlock, fileVars, procVars, TypeOK, BackupInProgress,
           NewestIs, LockNamesHolder, HoldsLock
  <1>4. SavedDurably' /\ UndoIsNewest'
    BY DEF StartDeadlock, fileVars, procVars, SavedDurably, UndoIsNewest
  <1>5. ComparedHolds' /\ CheckedHolds'
    BY DEF StartDeadlock, fileVars, procVars, TypeOK, ComparedHolds,
           CheckedHolds, LockNamesHolder, HoldsLock
  <1> QED
    BY <1>1, <1>2, <1>3, <1>4, <1>5

\* Deadlock does not run.
LEMMA StopDeadlockIInv ==
    ASSUME IInv, StopDeadlock
    PROVE  IInv'
  <1> USE NoneAssumption, ReadableAssumption DEF IInv, LockedSteps, BackupSteps, ReplaceSteps
  <1>1. TypeOK'
    BY DEF StopDeadlock, fileVars, procVars, TypeOK, Steps, Operations
  <1>2. BytesKnown' /\ LockNamesHolder'
    BY DEF StopDeadlock, fileVars, procVars, TypeOK, BytesKnown,
           LockNamesHolder, HoldsLock
  <1>3. BackupInProgress'
    BY DEF StopDeadlock, fileVars, procVars, TypeOK, BackupInProgress,
           NewestIs, LockNamesHolder, HoldsLock
  <1>4. SavedDurably' /\ UndoIsNewest'
    BY DEF StopDeadlock, fileVars, procVars, SavedDurably, UndoIsNewest
  <1>5. ComparedHolds' /\ CheckedHolds'
    BY DEF StopDeadlock, fileVars, procVars, TypeOK, ComparedHolds,
           CheckedHolds, LockNamesHolder, HoldsLock
  <1> QED
    BY <1>1, <1>2, <1>3, <1>4, <1>5

\* No operation is left, and durable backups stay.
LEMMA LosePowerIInv ==
    ASSUME IInv, LosePower
    PROVE  IInv'
  <1> USE NoneAssumption, ReadableAssumption DEF IInv, LockedSteps, BackupSteps, ReplaceSteps
  <1>1. TypeOK'
    <2>1. backups' \in [DOMAIN backups -> Backup]
      <3>1. PICK lost \in SUBSET DOMAIN backups :
               backups' = [i \in DOMAIN backups |->
                             IF i \in lost
                             THEN [backups[i] EXCEPT !.status = "partial"]
                             ELSE backups[i]]
        BY DEF LosePower
      <3>2. ASSUME NEW i \in DOMAIN backups
            PROVE  backups'[i] \in Backup
        BY <3>1, BackupsAreASequence DEF TypeOK, Backup, Statuses
      <3>3. QED
        BY <3>1, <3>2
    <2>2. backups' \in Seq(Backup) /\ Len(backups') <= MaxBackups
      BY <2>1, RetagBackups DEF TypeOK
    <2>3. QED
      BY <2>2 DEF LosePower, TypeOK, Steps, Operations
  <1>2. BytesKnown' /\ LockNamesHolder'
    BY DEF LosePower, TypeOK, BytesKnown, LockNamesHolder, HoldsLock
  <1>3. BackupInProgress'
    BY DEF LosePower, TypeOK, BackupInProgress, NewestIs, LockNamesHolder,
           HoldsLock
  <1>4. SavedDurably' /\ UndoIsNewest'
    BY DEF LosePower, SavedDurably, UndoIsNewest
  <1>5. ComparedHolds' /\ CheckedHolds'
    BY DEF LosePower, TypeOK, ComparedHolds, CheckedHolds, LockNamesHolder,
           HoldsLock
  <1> QED
    BY <1>1, <1>2, <1>3, <1>4, <1>5

-------------------------------------------------------------------------------
(* The theorems                                                            *)

\* Every step of the program and of its environment preserves the invariant.
LEMMA NextIInv == IInv /\ [Next]_vars => IInv'
  <1> SUFFICES ASSUME IInv, [Next]_vars PROVE IInv'
    OBVIOUS
  <1>1. ASSUME NEW p \in Procs, Begin(p) PROVE IInv'
    BY <1>1, PrepareIInv, RequestRestoreIInv DEF Begin
  <1>2. ASSUME NEW p \in Procs, Step(p) PROVE IInv'
    BY <1>2, CheckStoppedIInv, LockCacheIInv, BeginInstallIInv, SelectBackupIInv,
       MakeDirectoryIInv, WriteManifestIInv, SyncBackupIInv, StageIInv,
       CheckAgainIInv, CompareIInv, PersistIInv, SyncDirectoryIInv, VerifyIInv,
       FailIInv, FindIntactIInv, BeginRecoveryIInv
       DEF Step
  <1>3. ASSUME NEW p \in Procs, Kill(p) PROVE IInv'
    BY <1>3, KillIInv
  <1>4. ASSUME Environment PROVE IInv'
    BY <1>4, ExternalWriteIInv, StartDeadlockIInv, StopDeadlockIInv, LosePowerIInv
       DEF Environment
  <1>5. CASE UNCHANGED vars
    BY <1>5 DEF vars, fileVars, procVars, histVars, IInv, TypeOK, BytesKnown,
       LockNamesHolder, HoldsLock, BackupInProgress, NewestIs, SavedDurably,
       UndoIsNewest, ComparedHolds, CheckedHolds
  <1>6. QED
    BY <1>1, <1>2, <1>3, <1>4, <1>5 DEF Next

\* The inductive invariant holds in every reachable state.
THEOREM Invariance == Spec => []IInv
  BY InitIInv, NextIInv, PTL DEF Spec

\* Type correctness.
THEOREM TypeCorrectness == Spec => []TypeOK
  <1>1. IInv => TypeOK
    BY DEF IInv
  <1>2. QED
    BY <1>1, Invariance, PTL

\* The lock file excludes: two processes are never both inside the guarded part
\* of install_cache_update or restore_latest.
THEOREM LockExclusion == Spec => []LockExcludes
  <1>1. IInv => LockExcludes
    BY NoneAssumption DEF IInv, TypeOK, LockNamesHolder, LockExcludes
  <1>2. QED
    BY <1>1, Invariance, PTL

\* Replaced bytes stay in a complete backup for ever.
THEOREM ReplacedBytesStaySaved == Spec => []ReplacedBytesAreSaved
  <1>1. IInv => ReplacedBytesAreSaved
    BY DEF IInv, SavedDurably, ReplacedBytesAreSaved, IsComplete
  <1>2. QED
    BY <1>1, Invariance, PTL

\* A rename replaces what was compared, unless a late write intervened.
THEOREM UpdatesAreNotLost == Spec => NoLostUpdate
  <1>1. IInv => \A p \in Procs : Persist(p) => cache = expected[p] \/ lateWrite
    BY DEF IInv, ComparedHolds, Persist
  <1>2. QED
    BY <1>1, Invariance, PTL DEF NoLostUpdate

\* A write under a running Deadlock needs a start after the final check.
THEOREM RunningWritesNeedLateStart == Spec => WritesOnlyUnderLateStart
  <1>1. IInv => \A p \in Procs : Persist(p) /\ deadlock => lateStart
    BY DEF IInv, CheckedHolds, Persist
  <1>2. QED
    BY <1>1, Invariance, PTL DEF WritesOnlyUnderLateStart

\* Restoration selects what the last replacement replaced.
THEOREM RestoreUndoes == Spec => RestoreUndoesLastReplacement
  <1>1. ASSUME IInv, NEW p \in Procs, SelectBackup(p), undo # None
        PROVE  replacement'[p] = undo
    <2>1. PICK i \in DOMAIN backups :
             /\ IsLatest(i)
             /\ replacement' = [replacement EXCEPT ![p] = backups[i].bytes]
      BY <1>1 DEF SelectBackup
    <2>2. PICK k \in DOMAIN backups :
             /\ backups[k].status = "durable"
             /\ backups[k].bytes = undo
             /\ \A j \in DOMAIN backups : backups[j].status # "partial" => j <= k
      BY <1>1 DEF IInv, UndoIsNewest
    <2>3. i = k
      BY <1>1, <2>1, <2>2, BackupsAreASequence DEF IsLatest, IsComplete, IInv, TypeOK
    <2>4. QED
      BY <1>1, <2>1, <2>2, <2>3 DEF IInv, TypeOK
  <1>2. IInv => \A p \in Procs : SelectBackup(p) /\ undo # None => replacement'[p] = undo
    BY <1>1
  <1>3. QED
    BY <1>2, Invariance, PTL DEF RestoreUndoesLastReplacement
===============================================================================
