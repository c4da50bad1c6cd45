-------------------------- MODULE RunLifecycleProofs --------------------------
(***************************************************************************)
(* Proofs about RunLifecycle for every set of processes and of run         *)
(* identifiers: a run that is locked under the time of its start stays and *)
(* has one owner, whatever the removals of other processes do.             *)
(***************************************************************************)
EXTENDS RunLifecycle, TLAPS

\* The steps after the lock file was opened, and those of a removal that has
\* selected a run.
Opened    == {"lock"} \cup LockedSteps \cup RemovalSteps
Selected  == {"stat", "tryLock", "remove"}
Inspected == {"tryLock", "remove"}

\* A process knows the run, the file and the victim that it needs.
Known(p) ==
    /\ pc[p] # "idle" => run[p] \in Runs
    /\ pc[p] \in Opened => file[p] \in 1 .. files
    /\ pc[p] \in Selected => victim[p] \in past /\ victim[p] # run[p]
    /\ pc[p] = "tryLock" => guard[p] # 0
    /\ guard[p] # 0 => guard[p] <= files /\ pc[p] \in Inspected
    /\ pc[p] \notin RemovalSteps => todo[p] = {}
    /\ p \in fresh => pc[p] \notin {"idle", "create"}

\* A lock file has one name, and the guard of a removal that of its victim.
OneName ==
    /\ \A r \in Runs : lockFile[r] <= files
    /\ \A r, s \in Runs : lockFile[r] = lockFile[s] /\ r # s => lockFile[r] = 0
    /\ \A q \in Procs, r \in Runs : guard[q] # 0 /\ lockFile[r] = guard[q] => r = victim[q]

\* Until the lock file is locked, the identifier is not past, so that no removal has
\* selected it; from then on, a removal finds the lock.
Guarded(p) ==
    /\ pc[p] \in {"open", "lock"} => run[p] \notin past
    /\ pc[p] \in Opened => lockFile[run[p]] = file[p]
    /\ pc[p] \in LockedSteps \cup RemovalSteps =>
          /\ locks[file[p]] = p
          /\ \A q \in Procs :
               pc[q] \in Inspected /\ victim[q] = run[p]
                 => pc[q] = "tryLock" /\ guard[q] = file[p]

IInv ==
    /\ TypeOK
    /\ \A p \in Procs : Known(p)
    /\ OneName
    /\ \A p \in fresh : Guarded(p)

-------------------------------------------------------------------------------
LEMMA InitInv == Init => IInv
<1> SUFFICES ASSUME Init PROVE IInv
  OBVIOUS
<1>1. {None} \in Listings
  BY DEF Listings
<1>2. TypeOK
  BY <1>1, MaxFilesAssumption DEF Init, TypeOK, Steps
<1>3. \A p \in Procs : Known(p)
  BY DEF Init, Known, Opened, Selected, Inspected, LockedSteps, RemovalSteps
<1>4. OneName
  BY DEF Init, OneName
<1> QED
  BY <1>2, <1>3, <1>4 DEF Init, IInv

\* Writing an entry into a run, in place of another one or not.
LEMMA Writing ==
  ASSUME NEW listing \in Listings, NEW what \in SUBSET Contents, NEW old
  PROVE  /\ (listing \ {None}) \cup what \in Listings
         /\ (listing \ {None, old}) \cup what \in Listings
<1>1. listing \ {None} \subseteq Contents /\ listing \ {None, old} \subseteq Contents
  BY DEF Listings
<1> QED
  BY <1>1 DEF Listings

-------------------------------------------------------------------------------
\* The steps of extract_run.
LEMMA StartInv ==
  ASSUME IInv, NEW p \in Procs, Start(p)
  PROVE  IInv'
<1> USE NoneAssumption, MaxFilesAssumption DEF IInv
<1>1. PICK r \in Runs, again \in BOOLEAN :
        run' = [run EXCEPT ![p] = r] /\ resume' = [resume EXCEPT ![p] = again]
  BY DEF Start
<1>2. /\ pc[p] = "idle" /\ pc' = [pc EXCEPT ![p] = "create"] /\ todo[p] = {}
      /\ UNCHANGED <<entries, aged, past, lockFile, files, locks, file, todo, victim, guard, fresh>>
  BY DEF Start, GoTo, disk, removal, Known, RemovalSteps
<1>3. TypeOK'
  BY <1>1, <1>2 DEF TypeOK, Steps, OpenSteps
<1>4. ASSUME NEW q \in Procs PROVE Known(q)'
  BY <1>1, <1>2 DEF TypeOK, Known, Opened, Selected, Inspected, LockedSteps, RemovalSteps
<1>5. OneName'
  BY <1>2 DEF OneName
<1>6. ASSUME NEW q \in fresh' PROVE Guarded(q)'
  BY <1>1, <1>2 DEF TypeOK, Known, Guarded, Opened, Inspected, LockedSteps, RemovalSteps
<1> QED
  BY <1>3, <1>4, <1>5, <1>6

LEMMA CreateDirectoriesInv ==
  ASSUME IInv, NEW p \in Procs, CreateDirectories(p)
  PROVE  IInv'
<1> USE NoneAssumption, MaxFilesAssumption
  DEF IInv, CreateDirectories, GoTo, disk, work, removal, Write, Touch, Missing
<1>0. entries' \in [Runs -> Listings]
  BY Writing DEF TypeOK, Known, Contents
<1>1. TypeOK'
  BY <1>0 DEF TypeOK, Known, Opened, Selected, Steps, OpenSteps, LockedSteps, RemovalSteps
<1>2. ASSUME NEW q \in Procs PROVE Known(q)'
  BY DEF TypeOK, Known, Opened, Selected, Inspected, OpenSteps, LockedSteps, RemovalSteps
<1>3. OneName'
  BY DEF TypeOK, Known, OneName, Selected, Inspected
<1>4. ASSUME NEW q \in fresh' PROVE Guarded(q)'
  BY DEF TypeOK, Known, OneName, Guarded, Opened, Selected, Inspected, OpenSteps, LockedSteps,
         RemovalSteps
<1> QED
  BY <1>1, <1>2, <1>3, <1>4

LEMMA OpenLockInv ==
  ASSUME IInv, NEW p \in Procs, OpenLock(p)
  PROVE  IInv'
<1> USE NoneAssumption, MaxFilesAssumption DEF IInv
<1> DEFINE r == run[p]
           f == IF lockFile[r] = 0 THEN files + 1 ELSE lockFile[r]
<1>1. /\ pc[p] = "open" /\ pc' = [pc EXCEPT ![p] = "lock"] /\ r \in Runs
      /\ files' = (IF lockFile[r] = 0 THEN f ELSE files)
      /\ files' \in 0 .. MaxFiles /\ files <= files'
      /\ lockFile' = [lockFile EXCEPT ![r] = f] /\ file' = [file EXCEPT ![p] = f]
      /\ f \in 1 .. files' /\ aged' \subseteq aged
      /\ UNCHANGED <<entries, past, locks, run, resume, todo, victim, guard, fresh>>
  <2>1. /\ pc[p] = "open" /\ pc' = [pc EXCEPT ![p] = "lock"] /\ r \in Runs
        /\ lockFile[r] \in 0 .. MaxFiles /\ files \in 0 .. MaxFiles /\ lockFile[r] <= files
        /\ UNCHANGED <<entries, past, locks, run, resume, todo, victim, guard, fresh>>
    BY DEF OpenLock, GoTo, removal, TypeOK, Known, OneName
  <2>2. CASE lockFile[r] = 0
    <3>1. /\ files < MaxFiles /\ files' = files + 1 /\ lockFile' = [lockFile EXCEPT ![r] = files']
          /\ aged' \subseteq aged /\ file' = [file EXCEPT ![p] = lockFile'[r]]
      BY <2>2 DEF OpenLock, Touch
    <3>2. lockFile'[r] = files'
      BY <2>1, <3>1 DEF TypeOK
    <3>3. f = files' /\ f \in 1 .. files' /\ files' \in 0 .. MaxFiles /\ files <= files'
      BY <2>1, <2>2, <3>1
    <3> HIDE DEF f
    <3> QED
      BY <2>1, <2>2, <3>1, <3>2, <3>3
  <2>3. CASE lockFile[r] # 0
    <3>1. UNCHANGED <<files, lockFile, aged>> /\ file' = [file EXCEPT ![p] = lockFile'[r]]
      BY <2>3 DEF OpenLock
    <3>2. lockFile' = [lockFile EXCEPT ![r] = lockFile[r]]
      BY <3>1 DEF TypeOK
    <3>3. f = lockFile[r] /\ f \in 1 .. files' /\ files' \in 0 .. MaxFiles /\ files <= files'
      BY <2>1, <2>3, <3>1
    <3> HIDE DEF f
    <3> QED
      BY <2>1, <2>3, <3>1, <3>2, <3>3
  <2> QED
    BY <2>2, <2>3
<1> HIDE DEF f
<1>2. TypeOK'
  BY <1>1 DEF TypeOK, Steps, OpenSteps
<1>3. ASSUME NEW q \in Procs PROVE Known(q)'
  BY <1>1 DEF TypeOK, Known, Opened, Selected, Inspected, OpenSteps, LockedSteps, RemovalSteps
<1>4. OneName'
  <2>1. \A s \in Runs : s # r => lockFile'[s] = lockFile[s]
    BY <1>1 DEF TypeOK
  <2>2. lockFile'[r] = f
    BY <1>1 DEF TypeOK
  <2>3. f = lockFile[r] \/ f > files
    BY DEF f, TypeOK
  <2> QED
    BY <1>1, <2>1, <2>2, <2>3 DEF TypeOK, Known, OneName
<1>5. ASSUME NEW q \in fresh' PROVE Guarded(q)'
  BY <1>1 DEF f, TypeOK, Known, OneName, Guarded, Opened, Inspected, OpenSteps, LockedSteps,
              RemovalSteps
<1> QED
  BY <1>2, <1>3, <1>4, <1>5

LEMMA LockRunInv ==
  ASSUME IInv, NEW p \in Procs, LockRun(p)
  PROVE  IInv'
<1> USE NoneAssumption, MaxFilesAssumption
  DEF IInv, LockRun, GoTo, disk, work, removal
<1>1. TypeOK'
  BY DEF TypeOK, Known, Opened, Selected, Steps, OpenSteps, LockedSteps, RemovalSteps
<1>2. ASSUME NEW q \in Procs PROVE Known(q)'
  BY DEF TypeOK, Known, Opened, Selected, Inspected, OpenSteps, LockedSteps, RemovalSteps
<1>3. OneName'
  BY DEF TypeOK, Known, OneName, Selected, Inspected
<1>4. ASSUME NEW q \in fresh' PROVE Guarded(q)'
  BY DEF TypeOK, Known, OneName, Guarded, Opened, Selected, Inspected, OpenSteps, LockedSteps,
         RemovalSteps
<1> QED
  BY <1>1, <1>2, <1>3, <1>4

LEMMA ValidateResumeInv ==
  ASSUME IInv, NEW p \in Procs, ValidateResume(p)
  PROVE  IInv'
<1> USE NoneAssumption, MaxFilesAssumption
  DEF IInv, ValidateResume, GoTo, disk, work, removal
<1>1. TypeOK'
  BY DEF TypeOK, Known, Opened, Selected, Steps, OpenSteps, LockedSteps, RemovalSteps
<1>2. ASSUME NEW q \in Procs PROVE Known(q)'
  BY DEF TypeOK, Known, Opened, Selected, Inspected, OpenSteps, LockedSteps, RemovalSteps
<1>3. OneName'
  BY DEF TypeOK, Known, OneName, Selected, Inspected
<1>4. ASSUME NEW q \in fresh' PROVE Guarded(q)'
  BY DEF TypeOK, Known, OneName, Guarded, Opened, Selected, Inspected, OpenSteps, LockedSteps,
         RemovalSteps
<1> QED
  BY <1>1, <1>2, <1>3, <1>4

LEMMA BeginCaptureInv ==
  ASSUME IInv, NEW p \in Procs, BeginCapture(p)
  PROVE  IInv'
<1> USE NoneAssumption, MaxFilesAssumption
  DEF IInv, BeginCapture, GoTo, disk, work, removal
<1>1. TypeOK'
  BY DEF TypeOK, Known, Opened, Selected, Steps, OpenSteps, LockedSteps, RemovalSteps
<1>2. ASSUME NEW q \in Procs PROVE Known(q)'
  BY DEF TypeOK, Known, Opened, Selected, Inspected, OpenSteps, LockedSteps, RemovalSteps
<1>3. OneName'
  BY DEF TypeOK, Known, OneName, Selected, Inspected
<1>4. ASSUME NEW q \in fresh' PROVE Guarded(q)'
  BY DEF TypeOK, Known, OneName, Guarded, Opened, Selected, Inspected, OpenSteps, LockedSteps,
         RemovalSteps
<1> QED
  BY <1>1, <1>2, <1>3, <1>4

LEMMA CaptureSourcesInv ==
  ASSUME IInv, NEW p \in Procs, CaptureSources(p)
  PROVE  IInv'
<1> USE NoneAssumption, MaxFilesAssumption
  DEF IInv, CaptureSources, GoTo, disk, work, removal, Write, Touch, Missing
<1>0. entries' \in [Runs -> Listings]
  BY Writing DEF TypeOK, Known, Contents
<1>1. TypeOK'
  BY <1>0 DEF TypeOK, Known, Opened, Selected, Steps, OpenSteps, LockedSteps, RemovalSteps
<1>2. ASSUME NEW q \in Procs PROVE Known(q)'
  BY DEF TypeOK, Known, Opened, Selected, Inspected, OpenSteps, LockedSteps, RemovalSteps
<1>3. OneName'
  BY DEF TypeOK, Known, OneName, Selected, Inspected
<1>4. ASSUME NEW q \in fresh' PROVE Guarded(q)'
  BY DEF TypeOK, Known, OneName, Guarded, Opened, Selected, Inspected, OpenSteps, LockedSteps,
         RemovalSteps
<1> QED
  BY <1>1, <1>2, <1>3, <1>4

LEMMA WriteManifestInv ==
  ASSUME IInv, NEW p \in Procs, WriteManifest(p)
  PROVE  IInv'
<1> USE NoneAssumption, MaxFilesAssumption
  DEF IInv, WriteManifest, GoTo, disk, work, removal, Touch
<1>0. entries' \in [Runs -> Listings]
  BY Writing DEF TypeOK, Known, Contents
<1>1. TypeOK'
  BY <1>0 DEF TypeOK, Known, Opened, Selected, Steps, OpenSteps, LockedSteps, RemovalSteps
<1>2. ASSUME NEW q \in Procs PROVE Known(q)'
  BY DEF TypeOK, Known, Opened, Selected, Inspected, OpenSteps, LockedSteps, RemovalSteps
<1>3. OneName'
  BY DEF TypeOK, Known, OneName, Selected, Inspected
<1>4. ASSUME NEW q \in fresh' PROVE Guarded(q)'
  BY DEF TypeOK, Known, OneName, Guarded, Opened, Selected, Inspected, OpenSteps, LockedSteps,
         RemovalSteps
<1> QED
  BY <1>1, <1>2, <1>3, <1>4

LEMMA ExtractInv ==
  ASSUME IInv, NEW p \in Procs, Extract(p)
  PROVE  IInv'
<1> USE NoneAssumption, MaxFilesAssumption
  DEF IInv, Extract, GoTo, disk, work, removal, Write, Missing
<1>0. entries' \in [Runs -> Listings]
  BY Writing DEF TypeOK, Known, Contents
<1>1. TypeOK'
  BY <1>0 DEF TypeOK, Known, Opened, Selected, Steps, OpenSteps, LockedSteps, RemovalSteps
<1>2. ASSUME NEW q \in Procs PROVE Known(q)'
  BY DEF TypeOK, Known, Opened, Selected, Inspected, OpenSteps, LockedSteps, RemovalSteps
<1>3. OneName'
  BY DEF TypeOK, Known, OneName, Selected, Inspected
<1>4. ASSUME NEW q \in fresh' PROVE Guarded(q)'
  BY DEF TypeOK, Known, OneName, Guarded, Opened, Selected, Inspected, OpenSteps, LockedSteps,
         RemovalSteps
<1> QED
  BY <1>1, <1>2, <1>3, <1>4

LEMMA CompleteManifestInv ==
  ASSUME IInv, NEW p \in Procs, CompleteManifest(p)
  PROVE  IInv'
<1> USE NoneAssumption, MaxFilesAssumption
  DEF IInv, CompleteManifest, GoTo, disk, work, removal, Touch
<1>0. entries' \in [Runs -> Listings]
  BY Writing DEF TypeOK, Known, Contents
<1>1. TypeOK'
  BY <1>0 DEF TypeOK, Known, Opened, Selected, Steps, OpenSteps, LockedSteps, RemovalSteps
<1>2. ASSUME NEW q \in Procs PROVE Known(q)'
  BY DEF TypeOK, Known, Opened, Selected, Inspected, OpenSteps, LockedSteps, RemovalSteps
<1>3. OneName'
  BY DEF TypeOK, Known, OneName, Selected, Inspected
<1>4. ASSUME NEW q \in fresh' PROVE Guarded(q)'
  BY DEF TypeOK, Known, OneName, Guarded, Opened, Selected, Inspected, OpenSteps, LockedSteps,
         RemovalSteps
<1> QED
  BY <1>1, <1>2, <1>3, <1>4

LEMMA ProduceInv ==
  ASSUME IInv, NEW p \in Procs, Produce(p)
  PROVE  IInv'
<1> USE NoneAssumption, MaxFilesAssumption
  DEF IInv, Produce, GoTo, disk, work, removal, Missing
<1>1. TypeOK'
  BY DEF TypeOK, Known, Opened, Selected, Steps, OpenSteps, LockedSteps, RemovalSteps
<1>2. ASSUME NEW q \in Procs PROVE Known(q)'
  BY DEF TypeOK, Known, Opened, Selected, Inspected, OpenSteps, LockedSteps, RemovalSteps
<1>3. OneName'
  BY DEF TypeOK, Known, OneName, Selected, Inspected
<1>4. ASSUME NEW q \in fresh' PROVE Guarded(q)'
  BY DEF TypeOK, Known, OneName, Guarded, Opened, Selected, Inspected, OpenSteps, LockedSteps,
         RemovalSteps
<1> QED
  BY <1>1, <1>2, <1>3, <1>4

-------------------------------------------------------------------------------
\* The steps of remove_other_automatic_runs.
LEMMA SelectInv ==
  ASSUME IInv, NEW p \in Procs, Select(p)
  PROVE  IInv'
<1> USE NoneAssumption, MaxFilesAssumption DEF IInv
<1>1. PICK r \in todo[p] :
        /\ todo' = [todo EXCEPT ![p] = todo[p] \ {r}]
        /\ IF Missing(r) \/ r \notin aged
           THEN UNCHANGED <<pc, victim>>
           ELSE GoTo(p, "stat") /\ victim' = [victim EXCEPT ![p] = r]
  <2>1. \E r \in todo[p] :
          /\ todo' = [todo EXCEPT ![p] = todo[p] \ {r}]
          /\ IF Missing(r) \/ r \notin aged
             THEN UNCHANGED <<pc, victim>>
             ELSE GoTo(p, "stat") /\ victim' = [victim EXCEPT ![p] = r]
    BY DEF Select
  <2> QED
    BY <2>1, Zenon
<1>2. pc[p] = "select" /\ guard[p] = 0 /\ UNCHANGED <<disk, work, guard, fresh>>
  BY DEF Select, Known, Inspected
<1>3. UNCHANGED <<entries, aged, past, lockFile, files, locks, run, file, resume, guard, fresh>>
  BY <1>2 DEF disk, work
<1>4. \/ UNCHANGED <<pc, victim>>
      \/ /\ pc' = [pc EXCEPT ![p] = "stat"] /\ victim' = [victim EXCEPT ![p] = r]
         /\ r \in past
  BY <1>1 DEF GoTo, TypeOK
<1>5. r \in Runs /\ todo' \in [Procs -> SUBSET Runs] /\ \A q \in Procs : todo'[q] \subseteq todo[q]
  BY <1>1 DEF TypeOK
<1>a. pc' \in [Procs -> Steps] /\ victim' \in [Procs -> Runs \cup {None}]
  <2>1. CASE UNCHANGED <<pc, victim>>
    BY <2>1 DEF TypeOK
  <2>2. CASE pc' = [pc EXCEPT ![p] = "stat"] /\ victim' = [victim EXCEPT ![p] = r]
    BY <1>5, <2>2 DEF TypeOK, Steps, RemovalSteps
  <2> QED
    BY <1>4, <2>1, <2>2
<1>b. \A q \in Procs : run'[q] \notin todo'[q]
  BY <1>3, <1>5 DEF TypeOK
<1>6. TypeOK'
  BY <1>a, <1>b, <1>3, <1>5 DEF TypeOK
<1>7. ASSUME NEW q \in Procs PROVE Known(q)'
  BY <1>1, <1>2, <1>3, <1>4, <1>5
  DEF TypeOK, Known, Opened, Selected, Inspected, LockedSteps, RemovalSteps
<1>8. OneName'
  BY <1>2, <1>3, <1>4 DEF TypeOK, OneName
<1>9. ASSUME NEW q \in fresh' PROVE Guarded(q)'
  <2>1. CASE UNCHANGED <<pc, victim>>
    BY <1>3, <2>1 DEF Guarded
  <2>2. CASE pc' = [pc EXCEPT ![p] = "stat"] /\ victim' = [victim EXCEPT ![p] = r]
    BY <1>2, <1>3, <2>2 DEF TypeOK, Guarded, Opened, Inspected, LockedSteps, RemovalSteps
  <2> QED
    BY <1>4, <2>1, <2>2
<1> QED
  BY <1>6, <1>7, <1>8, <1>9

LEMMA StatLockInv ==
  ASSUME IInv, NEW p \in Procs, StatLock(p)
  PROVE  IInv'
<1> USE NoneAssumption, MaxFilesAssumption DEF IInv
<1> DEFINE step == IF lockFile[victim[p]] = 0 THEN "remove" ELSE "tryLock"
<1>1. /\ pc[p] = "stat" /\ pc' = [pc EXCEPT ![p] = step]
      /\ guard' = [guard EXCEPT ![p] = lockFile[victim[p]]]
      /\ UNCHANGED <<entries, aged, past, lockFile, files, locks, run, file, resume, todo, victim,
                     fresh>>
  BY DEF StatLock, GoTo, disk, work
<1>2. victim[p] \in Runs /\ victim[p] \in past
  BY <1>1 DEF TypeOK, Known, Selected
<1>3. step \in Inspected /\ (step = "tryLock" => lockFile[victim[p]] # 0)
  BY DEF Inspected
<1>4. lockFile[victim[p]] \in 0 .. MaxFiles /\ lockFile[victim[p]] <= files
  BY <1>2 DEF TypeOK, OneName
<1>5. \A q \in fresh : pc[q] \in Opened => lockFile[run[q]] # 0
  BY DEF TypeOK, Known, Guarded
<1>6. lockFile[victim[p]] # 0 => step = "tryLock"
  OBVIOUS
<1> HIDE DEF step
<1>7. TypeOK'
  BY <1>1, <1>3, <1>4 DEF TypeOK, Steps, RemovalSteps, Inspected
<1>8. ASSUME NEW q \in Procs PROVE Known(q)'
  BY <1>1, <1>2, <1>3, <1>4
  DEF TypeOK, Known, Opened, Selected, Inspected, LockedSteps, RemovalSteps
<1>9. OneName'
  BY <1>1, <1>2 DEF TypeOK, OneName
<1>10. ASSUME NEW q \in fresh' PROVE Guarded(q)'
  BY <1>1, <1>3, <1>5, <1>6 DEF TypeOK, Guarded, Opened, Inspected, LockedSteps, RemovalSteps
<1> QED
  BY <1>7, <1>8, <1>9, <1>10

LEMMA TryLockInv ==
  ASSUME IInv, NEW p \in Procs, TryLock(p)
  PROVE  IInv'
<1> USE NoneAssumption, MaxFilesAssumption DEF IInv
<1>1. /\ pc[p] = "tryLock" /\ guard[p] \in 1 .. MaxFiles
      /\ UNCHANGED <<entries, aged, past, lockFile, files, run, file, resume, todo, fresh>>
  BY DEF TryLock, work, TypeOK, Known
<1>2. CASE locks[guard[p]] = None
  <2>1. /\ locks' = [locks EXCEPT ![guard[p]] = p] /\ pc' = [pc EXCEPT ![p] = "remove"]
        /\ UNCHANGED <<victim, guard>>
    BY <1>2 DEF TryLock, GoTo
  <2>2. TypeOK'
    BY <1>1, <2>1 DEF TypeOK, Steps, RemovalSteps
  <2>3. ASSUME NEW q \in Procs PROVE Known(q)'
    BY <1>1, <2>1 DEF TypeOK, Known, Opened, Selected, Inspected, LockedSteps, RemovalSteps
  <2>4. OneName'
    BY <1>1, <2>1 DEF OneName
  <2>5. ASSUME NEW q \in fresh' PROVE Guarded(q)'
    <3>1. q \in Procs /\ (pc[q] \in LockedSteps \cup RemovalSteps => locks[file[q]] = q /\ q # None)
      BY <1>1 DEF TypeOK, Guarded
    <3>2. ASSUME pc[q] \in LockedSteps \cup RemovalSteps
          PROVE  guard[p] # file[q] /\ victim[p] # run[q]
      BY <1>1, <1>2, <3>1, <3>2 DEF Guarded, Inspected
    <3>3. pc'[q] \in LockedSteps \cup RemovalSteps => pc[q] \in LockedSteps \cup RemovalSteps
      BY <1>1, <2>1 DEF TypeOK, RemovalSteps
    <3>4. pc'[q] \in Opened => pc[q] \in Opened
      BY <1>1, <2>1 DEF TypeOK, RemovalSteps, Opened
    <3> QED
      BY <1>1, <2>1, <3>1, <3>2, <3>3, <3>4 DEF TypeOK, Guarded, Inspected, Opened
  <2> QED
    BY <2>2, <2>3, <2>4, <2>5
<1>3. CASE locks[guard[p]] # None
  <2>1. /\ pc' = [pc EXCEPT ![p] = "select"] /\ victim' = [victim EXCEPT ![p] = None]
        /\ guard' = [guard EXCEPT ![p] = 0] /\ UNCHANGED locks
    BY <1>3 DEF TryLock, Proceed, GoTo
  <2>2. TypeOK'
    BY <1>1, <2>1 DEF TypeOK, Steps, RemovalSteps
  <2>3. ASSUME NEW q \in Procs PROVE Known(q)'
    BY <1>1, <2>1 DEF TypeOK, Known, Opened, Selected, Inspected, LockedSteps, RemovalSteps
  <2>4. OneName'
    BY <1>1, <2>1 DEF TypeOK, OneName
  <2>5. ASSUME NEW q \in fresh' PROVE Guarded(q)'
    BY <1>1, <2>1 DEF TypeOK, Guarded, Opened, Inspected, LockedSteps, RemovalSteps
  <2> QED
    BY <2>2, <2>3, <2>4, <2>5
<1> QED
  BY <1>2, <1>3

\* A removal unlinks no lock file that a process has locked under the time of its start.
LEMMA RemoveEntryInv ==
  ASSUME IInv, NEW p \in Procs, RemoveEntry(p)
  PROVE  IInv'
<1> USE NoneAssumption, MaxFilesAssumption DEF IInv
<1>1. /\ pc[p] = "remove" /\ victim[p] \in past /\ victim[p] \in Runs /\ aged' \subseteq aged
      /\ UNCHANGED <<past, files, locks, pc, run, file, resume, todo, victim, guard, fresh>>
  BY DEF RemoveEntry, Touch, work, removal, TypeOK, Known, Selected
<1>2. /\ entries' \in [Runs -> Listings]
      /\ lockFile' = lockFile \/ lockFile' = [lockFile EXCEPT ![victim[p]] = 0]
  <2>1. CASE UNCHANGED entries /\ lockFile' = [lockFile EXCEPT ![victim[p]] = 0]
    BY <2>1 DEF TypeOK
  <2>2. ASSUME UNCHANGED lockFile, NEW what \in entries[victim[p]] \ {None},
               entries' = [entries EXCEPT ![victim[p]] = @ \ {what}]
        PROVE  entries' \in [Runs -> Listings]
    <3>1. entries[victim[p]] # {None}
      BY <2>2
    <3>2. entries[victim[p]] \in Listings
      BY <1>1 DEF TypeOK
    <3>3. entries[victim[p]] \ {what} \in Listings
      BY <3>1, <3>2 DEF Listings
    <3> QED
      BY <1>1, <2>2, <3>3 DEF TypeOK
  <2> QED
    BY <2>1, <2>2 DEF RemoveEntry
<1>a. lockFile' \in [Runs -> 0 .. MaxFiles]
  <2>1. lockFile \in [Runs -> 0 .. MaxFiles] /\ 0 \in 0 .. MaxFiles
    BY DEF TypeOK
  <2> QED
    BY <1>1, <1>2, <2>1
<1>3. TypeOK'
  BY <1>1, <1>2, <1>a DEF TypeOK
<1>4. ASSUME NEW q \in Procs PROVE Known(q)'
  BY <1>1 DEF Known
<1>5. OneName'
  <2>1. \A r \in Runs : lockFile'[r] = lockFile[r] \/ lockFile'[r] = 0
    BY <1>1, <1>2 DEF TypeOK
  <2>2. 0 <= files
    BY DEF TypeOK
  <2> QED
    BY <1>1, <2>1, <2>2 DEF OneName
<1>6. ASSUME NEW q \in fresh' PROVE Guarded(q)'
  <2>1. q \in Procs /\ (pc[q] \in Opened => run[q] \in Runs /\ run[q] # victim[p])
    BY <1>1 DEF TypeOK, Known, Guarded, Opened, Inspected, LockedSteps, RemovalSteps
  <2>2. pc[q] \in Opened => lockFile'[run[q]] = lockFile[run[q]]
    BY <1>1, <1>2, <2>1 DEF TypeOK
  <2> QED
    BY <1>1, <2>2 DEF Guarded
<1> QED
  BY <1>3, <1>4, <1>5, <1>6

\* At the end of a removal, or when it fails, the lock on the victim is dropped; it is
\* not the lock of a run that a process has locked under the time of its start.
LEMMA DropGuardInv ==
  ASSUME IInv, NEW p \in Procs, pc[p] \in Selected,
         entries' \in [Runs -> Listings], aged' \subseteq aged, Proceed(p),
         NEW dropped \in SUBSET (1 .. MaxFiles),
         locks' = [f \in DOMAIN locks |-> IF f \in dropped THEN None ELSE locks[f]],
         \A f \in dropped : f = guard[p] /\ (pc[p] = "remove" \/ locks[f] = p),
         UNCHANGED <<past, lockFile, files, work, todo, fresh>>
  PROVE  IInv'
<1> USE NoneAssumption, MaxFilesAssumption DEF IInv
<1>1. /\ pc' = [pc EXCEPT ![p] = "select"] /\ victim' = [victim EXCEPT ![p] = None]
      /\ guard' = [guard EXCEPT ![p] = 0]
      /\ UNCHANGED <<past, lockFile, files, run, file, resume, todo, fresh>>
  BY DEF Proceed, GoTo, work
<1>2. locks' \in [1 .. MaxFiles -> Procs \cup {None}]
  BY DEF TypeOK
<1>3. TypeOK'
  BY <1>1, <1>2 DEF TypeOK, Steps, RemovalSteps
<1>4. ASSUME NEW q \in Procs PROVE Known(q)'
  BY <1>1 DEF TypeOK, Known, Opened, Selected, Inspected, LockedSteps, RemovalSteps
<1>5. OneName'
  BY <1>1 DEF TypeOK, OneName
<1>6. ASSUME NEW q \in fresh' PROVE Guarded(q)'
  <2>1. q \in Procs /\ q \in fresh
    BY <1>1 DEF TypeOK
  <2>2. ASSUME pc[q] \in LockedSteps \cup RemovalSteps
        PROVE  file[q] \notin dropped /\ file[q] \in 1 .. MaxFiles
    <3>1. /\ file[q] \in 1 .. MaxFiles /\ lockFile[run[q]] = file[q] /\ run[q] \in Runs
          /\ locks[file[q]] = q
      BY <2>1, <2>2 DEF TypeOK, Known, Guarded, Opened, LockedSteps, RemovalSteps
    <3>2. SUFFICES ASSUME file[q] \in dropped PROVE FALSE
      BY <3>1
    <3>3. guard[p] = file[q] /\ victim[p] = run[q]
      BY <3>1, <3>2 DEF OneName
    <3>4. pc[p] # "remove"
      BY <2>1, <2>2, <3>3 DEF Guarded, Inspected
    <3>5. p = q
      BY <3>1, <3>2, <3>4
    <3> QED
      BY <2>1, <3>3, <3>5 DEF Known
  <2>3. pc'[q] \in LockedSteps \cup RemovalSteps => pc[q] \in LockedSteps \cup RemovalSteps
    BY <1>1, <2>1 DEF TypeOK, RemovalSteps, Selected
  <2>4. pc'[q] \in Opened => pc[q] \in Opened
    BY <1>1, <2>1 DEF TypeOK, RemovalSteps, Opened, Selected
  <2>5. pc'[q] \in LockedSteps \cup RemovalSteps => locks'[file[q]] = q
    BY <2>1, <2>2, <2>3 DEF TypeOK, Guarded
  <2> QED
    BY <1>1, <2>1, <2>3, <2>4, <2>5 DEF TypeOK, Guarded, Inspected, Opened
<1> QED
  BY <1>3, <1>4, <1>5, <1>6

LEMMA RemoveDirectoryInv ==
  ASSUME IInv, NEW p \in Procs, RemoveDirectory(p)
  PROVE  IInv'
<1>1. pc[p] = "remove" /\ victim[p] \in Runs /\ aged' \subseteq aged
  BY DEF RemoveDirectory, IInv, TypeOK, Known, Selected
<1>2. entries' \in [Runs -> Listings]
  <2>1. {None} \in Listings
    BY DEF Listings
  <2> QED
    BY <1>1, <2>1 DEF RemoveDirectory, IInv, TypeOK
<1> DEFINE dropped == {f \in 1 .. MaxFiles : f = guard[p]}
<1>3. locks' = [f \in DOMAIN locks |-> IF f \in dropped THEN None ELSE locks[f]]
  BY DEF RemoveDirectory, IInv, TypeOK
<1>4. Proceed(p) /\ UNCHANGED <<past, lockFile, files, work, todo, fresh>>
  BY DEF RemoveDirectory
<1>5. dropped \in SUBSET (1 .. MaxFiles) /\ \A f \in dropped : f = guard[p]
  OBVIOUS
<1>6. pc[p] \in Selected
  BY <1>1 DEF Selected
<1> HIDE DEF dropped
<1> QED
  BY <1>1, <1>2, <1>3, <1>4, <1>5, <1>6, DropGuardInv

LEMMA RemovalFailsInv ==
  ASSUME IInv, NEW p \in Procs, RemovalFails(p)
  PROVE  IInv'
<1>1. /\ pc[p] \in Selected /\ Proceed(p)
      /\ UNCHANGED <<entries, aged, past, lockFile, files, work, todo, fresh>>
  BY DEF RemovalFails, Selected
<1>2. entries' \in [Runs -> Listings]
  BY <1>1 DEF IInv, TypeOK
<1> DEFINE dropped == {f \in 1 .. MaxFiles : f = guard[p] /\ locks[f] = p}
<1>3. locks' = [f \in DOMAIN locks |-> IF f \in dropped THEN None ELSE locks[f]]
  BY DEF RemovalFails, IInv, TypeOK
<1>4. dropped \in SUBSET (1 .. MaxFiles) /\ \A f \in dropped : f = guard[p] /\ (pc[p] = "remove" \/ locks[f] = p)
  OBVIOUS
<1>5. aged' \subseteq aged /\ UNCHANGED <<past, lockFile, files, work, todo, fresh>>
  BY <1>1
<1>6. pc[p] \in Selected /\ Proceed(p)
  BY <1>1
<1> HIDE DEF dropped
<1> QED
  BY <1>2, <1>3, <1>4, <1>5, <1>6, DropGuardInv

-------------------------------------------------------------------------------
\* Ends and the clock.
LEMMA ReturnInv ==
  ASSUME IInv, NEW p \in Procs, Return(p)
  PROVE  IInv'
<1> USE NoneAssumption, MaxFilesAssumption
  DEF IInv, Return, GoTo, disk, work, removal, Finish
<1>1. TypeOK'
  BY DEF TypeOK, Known, Opened, Selected, Steps, OpenSteps, LockedSteps, RemovalSteps
<1>2. ASSUME NEW q \in Procs PROVE Known(q)'
  BY DEF TypeOK, Known, Opened, Selected, Inspected, OpenSteps, LockedSteps, RemovalSteps
<1>3. OneName'
  BY DEF TypeOK, Known, OneName, Selected, Inspected
<1>4. ASSUME NEW q \in fresh' PROVE Guarded(q)'
  BY DEF TypeOK, Known, OneName, Guarded, Opened, Selected, Inspected, OpenSteps, LockedSteps,
         RemovalSteps
<1> QED
  BY <1>1, <1>2, <1>3, <1>4

LEMMA StopInv ==
  ASSUME IInv, NEW p \in Procs, Stop(p)
  PROVE  IInv'
<1> USE NoneAssumption, MaxFilesAssumption
  DEF IInv, Stop, GoTo, disk, work, removal, Finish
<1>1. TypeOK'
  BY DEF TypeOK, Known, Opened, Selected, Steps, OpenSteps, LockedSteps, RemovalSteps
<1>2. ASSUME NEW q \in Procs PROVE Known(q)'
  BY DEF TypeOK, Known, Opened, Selected, Inspected, OpenSteps, LockedSteps, RemovalSteps
<1>3. OneName'
  BY DEF TypeOK, Known, OneName, Selected, Inspected
<1>4. ASSUME NEW q \in fresh' PROVE Guarded(q)'
  BY DEF TypeOK, Known, OneName, Guarded, Opened, Selected, Inspected, OpenSteps, LockedSteps,
         RemovalSteps
<1> QED
  BY <1>1, <1>2, <1>3, <1>4

LEMMA AgeInv ==
  ASSUME IInv, NEW r \in Runs, Age(r)
  PROVE  IInv'
<1> USE NoneAssumption, MaxFilesAssumption DEF IInv
<1>1. /\ past' = past \cup {r} /\ aged' = aged \cup {r}
      /\ \A p \in Procs : run[p] = r => pc[p] \notin OpenSteps
      /\ UNCHANGED <<entries, lockFile, files, locks, pc, run, file, resume, todo, victim, guard,
                     fresh>>
  BY DEF Age, work, removal
<1>2. TypeOK'
  BY <1>1 DEF TypeOK
<1>3. ASSUME NEW q \in Procs PROVE Known(q)'
  BY <1>1 DEF Known
<1>4. OneName'
  BY <1>1 DEF OneName
<1>5. ASSUME NEW q \in fresh' PROVE Guarded(q)'
  BY <1>1 DEF TypeOK, Guarded, OpenSteps
<1> QED
  BY <1>2, <1>3, <1>4, <1>5

LEMMA StutterInv ==
  ASSUME IInv, UNCHANGED vars
  PROVE  IInv'
BY DEF vars, disk, work, removal, IInv, TypeOK, Known, OneName, Guarded

LEMMA StepInv == IInv /\ [Next]_vars => IInv'
BY StartInv, CreateDirectoriesInv, OpenLockInv, LockRunInv, ValidateResumeInv, BeginCaptureInv,
   CaptureSourcesInv, WriteManifestInv, ExtractInv, CompleteManifestInv, ProduceInv, SelectInv,
   StatLockInv, TryLockInv, RemoveEntryInv, RemoveDirectoryInv, RemovalFailsInv, ReturnInv, StopInv,
   AgeInv, StutterInv
DEF Next, ExtractRun, RemoveRuns

-------------------------------------------------------------------------------
\* The invariant holds in every reachable state.
THEOREM Invariance == Spec => []IInv
BY InitInv, StepInv, PTL DEF Spec

\* Every variable has its type; the removal of a process never reaches its own run.
THEOREM TypeCorrectness == Spec => []TypeOK
<1>1. IInv => TypeOK
  BY DEF IInv
<1> QED
  BY <1>1, Invariance, PTL

\* A run that a process has locked under the time of its start has that process for its
\* only owner, with any number of processes that make, open and remove runs.
THEOREM OneOwner == Spec => []OwnRunIsGuarded
<1>1. IInv => OwnRunIsGuarded
  BY DEF IInv, Guarded, OwnRunIsGuarded, Owns, Opened
<1> QED
  BY <1>1, Invariance, PTL

\* No removal takes an entry of such a run.
THEOREM OwnRunIsKept == Spec => OwnRunStays
<1>1. ASSUME IInv, NEW p \in Procs, NEW q \in Procs, RemoveEntry(q), p \in fresh,
             Owns(p, victim[q])
      PROVE  FALSE
  BY <1>1 DEF IInv, Guarded, Inspected, RemoveEntry, Owns
<1>2. IInv /\ [Next]_vars
        => [\A p, q \in Procs : RemoveEntry(q) => ~(p \in fresh /\ Owns(p, victim[q]))]_vars
  BY <1>1
<1> QED
  BY <1>2, Invariance, PTL DEF Spec, OwnRunStays
=============================================================================
