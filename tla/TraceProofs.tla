---------------------------- MODULE TraceProofs ----------------------------
(***************************************************************************)
(* Proofs about the execution traces. First TraceDirectory, for every set  *)
(* of processes, every number of sessions and whatever traces the root     *)
(* holds at first: what one process removes belongs to no other, unless    *)
(* that came between its two looks. Then TraceEvents, for every limit of   *)
(* the file, every number of operations and every length of their events.  *)
(***************************************************************************)
EXTENDS TraceDirectory, TraceEvents, FiniteSetTheorems, SequenceTheorems,
        WellFoundedInduction, TLAPS

Steps == {"idle", "scan", "look", "prune", "unlink", "rmdir", "mark", "open", "running"}
Pruning == {"prune", "unlink", "rmdir"}
Making  == {"mark", "open"}

Types ==
    /\ pc \in [Procs -> Steps]
    /\ mine \in [Procs -> Names \cup {None}]
    /\ listed \in [Procs -> SUBSET Names]
    /\ read \in [Procs -> SUBSET Names]
    /\ unmarked \in [Procs -> Names \cup {None}]
    /\ candidates \in [Procs -> SUBSET Names]
    /\ queue \in [Procs -> SUBSET Names]
    /\ dirs \subseteq Names /\ lastName \in 0 .. MaxNames
    /\ markers \subseteq dirs /\ traces \subseteq dirs

\* A name that no directory has had yet.
Unused(n) == lastName < n /\ n <= MaxNames

\* What a process knows has had a directory.
Seen(p) ==
    /\ \A n \in listed[p] \cup candidates[p] \cup queue[p] : ~Unused(n)
    /\ unmarked[p] # None => ~Unused(unmarked[p])

\* A process has candidates while it scans and a queue while it prunes.
Phases(p) ==
    /\ pc[p] \notin {"scan", "look"} => candidates[p] = {}
    /\ pc[p] \notin Pruning => queue[p] = {}
    /\ pc[p] \in {"unlink", "rmdir"} => queue[p] # {}

\* The directory of a session is its own.
Owned(p) ==
    /\ mine[p] # None => mine[p] \in 1 .. lastName
    /\ pc[p] \in Making \cup {"running"} => mine[p] # None
    /\ \A q \in Procs : q # p /\ mine[p] # None => mine[q] # mine[p]

\* Until a session has its trace, nobody takes its directory for a trace.
Young(p) ==
    pc[p] \in Making =>
        /\ mine[p] \notin traces
        /\ \A q \in Procs : mine[p] \notin candidates[q] \cup queue[q]

\* An entry without .active stays so, or the process has an outdated view of it.
Unmarked(p) ==
    unmarked[p] # None => <<p, unmarked[p]>> \in stale \/ unmarked[p] \notin markers

\* Is the process about to remove the directory, its trace being gone?
Emptied(p, n) == pc[p] = "rmdir" /\ n = Victim(p)

\* A candidate is a completed trace, or the process has an outdated view of it.
Completed(p) ==
    \A n \in candidates[p] \cup queue[p] :
        \/ <<p, n>> \in stale
        \/ n \in dirs \ markers /\ (n \in traces <=> ~Emptied(p, n))

IInv ==
    /\ Types
    /\ \A n \in dirs : ~Unused(n)
    /\ \A p \in Procs :
          Seen(p) /\ Phases(p) /\ Owned(p) /\ Young(p) /\ Unmarked(p) /\ Completed(p)

-----------------------------------------------------------------------------
LEMMA NamesAreNumbers ==
    /\ Names \subseteq Nat /\ None \notin Names /\ MaxNames \in Nat
    /\ \A n \in UNION Found : ~(n <= MaxNames)
<1>1. /\ MaxNames \in Nat /\ None \notin Nat
      /\ \A found \in Found : found \subseteq {n \in Nat : n > MaxNames}
  BY DirectoriesAssumption
<1>2. \A n \in UNION Found : n \in Nat /\ ~(n <= MaxNames)
  BY <1>1
<1>3. \A n \in 1 .. MaxNames : n \in Nat
  BY <1>1
<1>4. Names \subseteq Nat
  BY <1>2, <1>3 DEF Names
<1> QED
  BY <1>1, <1>2, <1>4

\* A set of numbers that is not empty has a least one.
LEMMA LeastNumber ==
    ASSUME NEW S, S \subseteq Nat, S # {}
    PROVE  \E x \in S : \A y \in S : x <= y
<1> DEFINE Less == {pair \in Nat \X Nat : pair[1] < pair[2]}
<1>1. IsWellFoundedOn(Less, Nat)
  BY NatLessThanWellFounded, Zenon DEF OpToRel
<1>2. PICK x \in S : \A y \in S : <<y, x>> \notin Less
  BY <1>1, WFMin
<1>3. ASSUME NEW y \in S PROVE x <= y
  <2>1. <<y, x>> \in Nat \X Nat /\ ~(<<y, x>>[1] < <<y, x>>[2])
    BY <1>2
  <2> QED
    BY <2>1
<1> QED
  BY <1>3

LEMMA MinIsMember ==
    ASSUME NEW S, S \subseteq Nat, S # {}
    PROVE  Min(S) \in S
<1> QED
  BY LeastNumber DEF Min

LEMMA VictimIsQueued ==
    ASSUME IInv, NEW p \in Procs, queue[p] # {}
    PROVE  Victim(p) \in queue[p]
<1>1. queue[p] \subseteq Nat
  BY NamesAreNumbers DEF IInv, Types
<1> QED
  BY <1>1, MinIsMember DEF Victim

LEMMA StartKeepsInv ==
    ASSUME IInv, NEW p \in Procs, Start(p)
    PROVE  IInv'
<1>1. Names \subseteq Nat /\ None \notin Names /\ MaxNames \in Nat
  BY NamesAreNumbers
<1>3. Types'
  BY <1>1 DEF Start, At, Goto, files, scan, Steps, IInv, Types
<1>4. \A n \in dirs' : ~Unused(n)'
  BY <1>1 DEF Start, files, IInv, Types, Unused
<1> SUFFICES ASSUME NEW q \in Procs
             PROVE  (Seen(q) /\ Phases(q) /\ Owned(q) /\ Young(q)
                       /\ Unmarked(q) /\ Completed(q))'
  BY <1>3, <1>4 DEF IInv
<1>5. Seen(q)'
  BY <1>1 DEF Start, files, scan, IInv, Types, Unused, Seen
<1>6. Phases(q)'
  BY <1>1 DEF Start, At, Goto, scan, IInv, Types, Phases, Pruning
<1>7. Owned(q)'
  BY <1>1 DEF Start, At, Goto, files, IInv, Types, Owned, Making
<1>8. Young(q)'
  BY <1>1 DEF Start, At, Goto, files, scan, IInv, Types, Young, Making, Owned, Phases,
     Seen
<1>9. Unmarked(q)'
  BY <1>1 DEF Start, files, scan, IInv, Types, Unmarked
<1>10. Completed(q)'
  BY <1>1 DEF Start, At, Goto, files, scan, IInv, Types, Completed, Emptied, Victim,
     Phases, Pruning
<1> QED
  BY <1>5, <1>6, <1>7, <1>8, <1>9, <1>10

LEMMA ReadEntryKeepsInv ==
    ASSUME IInv, NEW p \in Procs, ReadEntry(p)
    PROVE  IInv'
<1>1. Names \subseteq Nat /\ None \notin Names /\ MaxNames \in Nat
  BY NamesAreNumbers
<1>3. Types'
  BY <1>1 DEF ReadEntry, At, Goto, files, scan, Steps, HasNoMarker, IInv, Types
<1>4. \A n \in dirs' : ~Unused(n)'
  BY <1>1 DEF ReadEntry, files, HasNoMarker, IInv, Types, Unused
<1> SUFFICES ASSUME NEW q \in Procs
             PROVE  (Seen(q) /\ Phases(q) /\ Owned(q) /\ Young(q)
                       /\ Unmarked(q) /\ Completed(q))'
  BY <1>3, <1>4 DEF IInv
<1>5. Seen(q)'
  BY <1>1 DEF ReadEntry, files, scan, HasNoMarker, IInv, Types, Unused, Seen
<1>6. Phases(q)'
  BY <1>1 DEF ReadEntry, At, Goto, scan, HasNoMarker, IInv, Types, Phases, Pruning
<1>7. Owned(q)'
  BY <1>1 DEF ReadEntry, At, Goto, files, HasNoMarker, IInv, Types, Owned, Making
<1>8. Young(q)'
  BY <1>1 DEF ReadEntry, At, Goto, files, scan, HasNoMarker, IInv, Types, Young, Making,
     Owned, Phases, Seen
<1>9. Unmarked(q)'
  BY <1>1 DEF ReadEntry, files, scan, HasNoMarker, IInv, Types, Unmarked
<1>10. Completed(q)'
  <2>1. Victim(q)' = Victim(q) /\ (pc'[q] = "rmdir" <=> pc[q] = "rmdir")
    BY DEF ReadEntry, At, Goto, files, scan, HasNoMarker, Victim, IInv, Types
  <2> QED
    BY <2>1 DEF ReadEntry, At, Goto, files, scan, HasNoMarker, IInv, Types, Completed,
       Emptied
<1> QED
  BY <1>5, <1>6, <1>7, <1>8, <1>9, <1>10

LEMMA LookForTraceKeepsInv ==
    ASSUME IInv, NEW p \in Procs, LookForTrace(p)
    PROVE  IInv'
<1>1. Names \subseteq Nat /\ None \notin Names /\ MaxNames \in Nat
  BY NamesAreNumbers
<1>3. Types'
  BY <1>1 DEF LookForTrace, At, Goto, files, scan, Steps, HasTrace, IInv, Types
<1>4. \A n \in dirs' : ~Unused(n)'
  BY <1>1 DEF LookForTrace, files, HasTrace, IInv, Types, Unused
<1> SUFFICES ASSUME NEW q \in Procs
             PROVE  (Seen(q) /\ Phases(q) /\ Owned(q) /\ Young(q)
                       /\ Unmarked(q) /\ Completed(q))'
  BY <1>3, <1>4 DEF IInv
<1>5. Seen(q)'
  BY <1>1 DEF LookForTrace, files, scan, HasTrace, IInv, Types, Unused, Seen
<1>6. Phases(q)'
  BY <1>1 DEF LookForTrace, At, Goto, scan, HasTrace, IInv, Types, Phases, Pruning
<1>7. Owned(q)'
  BY <1>1 DEF LookForTrace, At, Goto, files, HasTrace, IInv, Types, Owned, Making
<1>8. Young(q)'
  BY <1>1 DEF LookForTrace, At, Goto, files, scan, HasTrace, IInv, Types, Young, Making,
     Owned, Phases, Seen
<1>9. Unmarked(q)'
  BY <1>1 DEF LookForTrace, files, scan, HasTrace, IInv, Types, Unmarked
<1>10. Completed(q)'
  <2>1. Victim(q)' = Victim(q) /\ (pc'[q] = "rmdir" <=> pc[q] = "rmdir") /\ pc'[p] = "scan"
    BY DEF LookForTrace, At, Goto, files, scan, HasTrace, Victim, IInv, Types
  <2>2. CASE q = p
    BY <1>1, <2>1, <2>2 DEF LookForTrace, At, Goto, files, scan, HasTrace, IInv, Types,
       Completed, Emptied, Unmarked
  <2>3. CASE q # p
    BY <2>1, <2>3 DEF LookForTrace, At, Goto, files, scan, HasTrace, IInv, Types,
       Completed, Emptied
  <2> QED
    BY <2>2, <2>3
<1> QED
  BY <1>5, <1>6, <1>7, <1>8, <1>9, <1>10

LEMMA EndScanKeepsInv ==
    ASSUME IInv, NEW p \in Procs, EndScan(p)
    PROVE  IInv'
<1>1. Names \subseteq Nat /\ None \notin Names /\ MaxNames \in Nat
  BY NamesAreNumbers
<1>2. Surplus(candidates[p]) \subseteq candidates[p]
  BY DEF Surplus
<1>3. Types'
  BY <1>1, <1>2 DEF EndScan, At, Goto, files, scan, Steps, IInv, Types
<1>4. \A n \in dirs' : ~Unused(n)'
  BY <1>1, <1>2 DEF EndScan, files, IInv, Types, Unused
<1> SUFFICES ASSUME NEW q \in Procs
             PROVE  (Seen(q) /\ Phases(q) /\ Owned(q) /\ Young(q)
                       /\ Unmarked(q) /\ Completed(q))'
  BY <1>3, <1>4 DEF IInv
<1>5. Seen(q)'
  BY <1>1, <1>2 DEF EndScan, files, scan, IInv, Types, Unused, Seen
<1>6. Phases(q)'
  BY <1>1, <1>2 DEF EndScan, At, Goto, scan, IInv, Types, Phases, Pruning
<1>7. Owned(q)'
  BY <1>1, <1>2 DEF EndScan, At, Goto, files, IInv, Types, Owned, Making
<1>8. Young(q)'
  BY <1>1, <1>2 DEF EndScan, At, Goto, files, scan, IInv, Types, Young, Making, Owned,
     Phases, Seen
<1>9. Unmarked(q)'
  BY <1>1, <1>2 DEF EndScan, files, scan, IInv, Types, Unmarked
<1>10. Completed(q)'
  BY <1>1, <1>2 DEF EndScan, At, Goto, files, scan, IInv, Types, Completed, Emptied,
     Victim, Phases, Pruning
<1> QED
  BY <1>5, <1>6, <1>7, <1>8, <1>9, <1>10

LEMMA OpenVictimKeepsInv ==
    ASSUME IInv, NEW p \in Procs, OpenVictim(p)
    PROVE  IInv'
<1>1. Names \subseteq Nat /\ None \notin Names /\ MaxNames \in Nat
  BY NamesAreNumbers
<1>3. Types'
  BY <1>1 DEF OpenVictim, At, Goto, files, scan, Steps, IInv, Types
<1>4. \A n \in dirs' : ~Unused(n)'
  BY <1>1 DEF OpenVictim, files, IInv, Types, Unused
<1> SUFFICES ASSUME NEW q \in Procs
             PROVE  (Seen(q) /\ Phases(q) /\ Owned(q) /\ Young(q)
                       /\ Unmarked(q) /\ Completed(q))'
  BY <1>3, <1>4 DEF IInv
<1>5. Seen(q)'
  BY <1>1 DEF OpenVictim, files, scan, IInv, Types, Unused, Seen
<1>6. Phases(q)'
  BY <1>1 DEF OpenVictim, At, Goto, scan, IInv, Types, Phases, Pruning
<1>7. Owned(q)'
  BY <1>1 DEF OpenVictim, At, Goto, files, IInv, Types, Owned, Making
<1>8. Young(q)'
  BY <1>1 DEF OpenVictim, At, Goto, files, scan, IInv, Types, Young, Making, Owned,
     Phases, Seen
<1>9. Unmarked(q)'
  BY <1>1 DEF OpenVictim, files, scan, IInv, Types, Unmarked
<1>10. Completed(q)'
  BY <1>1 DEF OpenVictim, At, Goto, files, scan, IInv, Types, Completed, Emptied,
     Victim, Phases, Pruning
<1> QED
  BY <1>5, <1>6, <1>7, <1>8, <1>9, <1>10

LEMMA RemoveTraceKeepsInv ==
    ASSUME IInv, NEW p \in Procs, RemoveTrace(p)
    PROVE  IInv'
<1>1. Names \subseteq Nat /\ None \notin Names /\ MaxNames \in Nat
  BY NamesAreNumbers
<1>2. Victim(p) \in queue[p]
  BY VictimIsQueued DEF IInv, Phases, RemoveTrace, At, Goto, files, scan, Outdate
<1>3. Types'
  BY <1>1, <1>2 DEF RemoveTrace, At, Goto, files, scan, Steps, Outdate, IInv, Types
<1>4. \A n \in dirs' : ~Unused(n)'
  BY <1>1, <1>2 DEF RemoveTrace, files, Outdate, IInv, Types, Unused
<1> SUFFICES ASSUME NEW q \in Procs
             PROVE  (Seen(q) /\ Phases(q) /\ Owned(q) /\ Young(q)
                       /\ Unmarked(q) /\ Completed(q))'
  BY <1>3, <1>4 DEF IInv
<1>5. Seen(q)'
  BY <1>1, <1>2 DEF RemoveTrace, scan, Outdate, IInv, Types, Unused, Seen
<1>6. Phases(q)'
  BY <1>1, <1>2 DEF RemoveTrace, At, Goto, scan, Outdate, IInv, Types, Phases, Pruning
<1>7. Owned(q)'
  BY <1>1, <1>2 DEF RemoveTrace, At, Goto, Outdate, IInv, Types, Owned, Making
<1>8. Young(q)'
  BY <1>1, <1>2 DEF RemoveTrace, At, Goto, files, scan, Outdate, IInv, Types, Young,
     Making, Owned, Phases, Seen
<1>9. Unmarked(q)'
  BY <1>1, <1>2 DEF RemoveTrace, scan, Outdate, IInv, Types, Unmarked
<1>10. Completed(q)'
  BY <1>1, <1>2 DEF RemoveTrace, At, Goto, files, scan, Outdate, IInv, Types, Completed,
     Emptied, Victim, Phases, Pruning
<1> QED
  BY <1>5, <1>6, <1>7, <1>8, <1>9, <1>10

LEMMA RemoveMarkerKeepsInv ==
    ASSUME IInv, NEW p \in Procs, RemoveMarker(p)
    PROVE  IInv'
<1>1. Names \subseteq Nat /\ None \notin Names /\ MaxNames \in Nat
  BY NamesAreNumbers
<1>2. Victim(p) \in queue[p]
  BY VictimIsQueued DEF IInv, Phases, RemoveMarker, At, Goto, files, scan, Outdate
<1>3. Types'
  BY <1>1, <1>2 DEF RemoveMarker, At, Goto, files, scan, Steps, Outdate, IInv, Types
<1>4. \A n \in dirs' : ~Unused(n)'
  BY <1>1, <1>2 DEF RemoveMarker, files, Outdate, IInv, Types, Unused
<1> SUFFICES ASSUME NEW q \in Procs
             PROVE  (Seen(q) /\ Phases(q) /\ Owned(q) /\ Young(q)
                       /\ Unmarked(q) /\ Completed(q))'
  BY <1>3, <1>4 DEF IInv
<1>5. Seen(q)'
  BY <1>1, <1>2 DEF RemoveMarker, scan, Outdate, IInv, Types, Unused, Seen
<1>6. Phases(q)'
  BY <1>1, <1>2 DEF RemoveMarker, At, Goto, scan, Outdate, IInv, Types, Phases, Pruning
<1>7. Owned(q)'
  BY <1>1, <1>2 DEF RemoveMarker, At, Goto, Outdate, IInv, Types, Owned, Making
<1>8. Young(q)'
  BY <1>1, <1>2 DEF RemoveMarker, At, Goto, files, scan, Outdate, IInv, Types, Young,
     Making, Owned, Phases, Seen
<1>9. Unmarked(q)'
  BY <1>1, <1>2 DEF RemoveMarker, scan, Outdate, IInv, Types, Unmarked
<1>10. Completed(q)'
  BY <1>1, <1>2 DEF RemoveMarker, At, Goto, files, scan, Outdate, IInv, Types,
     Completed, Emptied, Victim, Phases, Pruning
<1> QED
  BY <1>5, <1>6, <1>7, <1>8, <1>9, <1>10

LEMMA RemoveDirectoryKeepsInv ==
    ASSUME IInv, NEW p \in Procs, RemoveDirectory(p)
    PROVE  IInv'
<1>1. Names \subseteq Nat /\ None \notin Names /\ MaxNames \in Nat
  BY NamesAreNumbers
<1>2. Victim(p) \in queue[p]
  BY VictimIsQueued DEF IInv, Phases, RemoveDirectory, At, Goto, files, scan, Outdate
<1>3. Types'
  BY <1>1, <1>2 DEF RemoveDirectory, At, Goto, files, scan, Steps, Outdate, IInv, Types
<1>4. \A n \in dirs' : ~Unused(n)'
  BY <1>1, <1>2 DEF RemoveDirectory, files, Outdate, IInv, Types, Unused
<1> SUFFICES ASSUME NEW q \in Procs
             PROVE  (Seen(q) /\ Phases(q) /\ Owned(q) /\ Young(q)
                       /\ Unmarked(q) /\ Completed(q))'
  BY <1>3, <1>4 DEF IInv
<1>5. Seen(q)'
  BY <1>1, <1>2 DEF RemoveDirectory, scan, Outdate, IInv, Types, Unused, Seen
<1>6. Phases(q)'
  BY <1>1, <1>2 DEF RemoveDirectory, At, Goto, scan, Outdate, IInv, Types, Phases,
     Pruning
<1>7. Owned(q)'
  BY <1>1, <1>2 DEF RemoveDirectory, At, Goto, Outdate, IInv, Types, Owned, Making
<1>8. Young(q)'
  BY <1>1, <1>2 DEF RemoveDirectory, At, Goto, files, scan, Outdate, IInv, Types, Young,
     Making, Owned, Phases, Seen
<1>9. Unmarked(q)'
  BY <1>1, <1>2 DEF RemoveDirectory, scan, Outdate, IInv, Types, Unmarked
<1>10. Completed(q)'
  BY <1>1, <1>2 DEF RemoveDirectory, At, Goto, files, scan, Outdate, IInv, Types,
     Completed, Emptied, Victim, Phases, Pruning
<1> QED
  BY <1>5, <1>6, <1>7, <1>8, <1>9, <1>10

LEMMA CreateDirectoryKeepsInv ==
    ASSUME IInv, NEW p \in Procs, CreateDirectory(p)
    PROVE  IInv'
<1>1. Names \subseteq Nat /\ None \notin Names /\ MaxNames \in Nat
  BY NamesAreNumbers
<1>2. /\ lastName \in Nat /\ lastName' = lastName + 1 /\ lastName' \in Nat
      /\ lastName' \in 1 .. MaxNames /\ lastName' \in Names /\ Unused(lastName')
  BY <1>1 DEF CreateDirectory, IInv, Types, Unused, Names
<1>3. Types'
  BY <1>1, <1>2 DEF CreateDirectory, At, Goto, files, scan, Steps, IInv, Types
<1>4. \A n \in dirs' : ~Unused(n)'
  BY <1>1, <1>2 DEF CreateDirectory, files, IInv, Types, Unused
<1> SUFFICES ASSUME NEW q \in Procs
             PROVE  (Seen(q) /\ Phases(q) /\ Owned(q) /\ Young(q)
                       /\ Unmarked(q) /\ Completed(q))'
  BY <1>3, <1>4 DEF IInv
<1>5. Seen(q)'
  <2>1. \A n \in Names : Unused(n)' => Unused(n)
    BY <1>1, <1>2 DEF Unused
  <2>2. UNCHANGED <<listed, candidates, queue, unmarked>>
    BY DEF CreateDirectory, scan
  <2> QED
    BY <2>1, <2>2 DEF IInv, Types, Seen
<1>6. Phases(q)'
  BY <1>1, <1>2 DEF CreateDirectory, At, Goto, scan, IInv, Types, Phases, Pruning
<1>7. Owned(q)'
  BY <1>1, <1>2 DEF CreateDirectory, At, Goto, IInv, Types, Owned, Making
<1>8. Young(q)'
  <2>1. lastName' \notin traces
    BY <1>2 DEF IInv, Types
  <2>2. \A r \in Procs : lastName' \notin candidates[r] \cup queue[r]
    BY <1>2 DEF IInv, Seen
  <2>3. CASE q = p
    BY <2>1, <2>2, <2>3 DEF CreateDirectory, At, Goto, files, scan, IInv, Types, Young
  <2>4. CASE q # p
    BY <2>4 DEF CreateDirectory, At, Goto, files, scan, IInv, Types, Young, Making
  <2> QED
    BY <2>3, <2>4
<1>9. Unmarked(q)'
  BY <1>1, <1>2 DEF CreateDirectory, scan, IInv, Types, Unmarked
<1>10. Completed(q)'
  BY <1>1, <1>2 DEF CreateDirectory, At, Goto, files, scan, IInv, Types, Completed,
     Emptied, Victim, Phases, Pruning
<1> QED
  BY <1>5, <1>6, <1>7, <1>8, <1>9, <1>10

LEMMA MarkKeepsInv ==
    ASSUME IInv, NEW p \in Procs, Mark(p)
    PROVE  IInv'
<1>1. Names \subseteq Nat /\ None \notin Names /\ MaxNames \in Nat
  BY NamesAreNumbers
<1>2. /\ mine[p] \notin traces
      /\ \A r \in Procs : mine[p] \notin candidates[r] \cup queue[r]
  BY DEF Mark, At, Goto, files, scan, IInv, Young, Making
<1>3. Types'
  BY <1>1, <1>2 DEF Mark, At, Goto, files, scan, Steps, IInv, Types
<1>4. \A n \in dirs' : ~Unused(n)'
  BY <1>1, <1>2 DEF Mark, files, IInv, Types, Unused
<1> SUFFICES ASSUME NEW q \in Procs
             PROVE  (Seen(q) /\ Phases(q) /\ Owned(q) /\ Young(q)
                       /\ Unmarked(q) /\ Completed(q))'
  BY <1>3, <1>4 DEF IInv
<1>5. Seen(q)'
  BY <1>1, <1>2 DEF Mark, scan, IInv, Types, Unused, Seen
<1>6. Phases(q)'
  BY <1>1, <1>2 DEF Mark, At, Goto, scan, IInv, Types, Phases, Pruning
<1>7. Owned(q)'
  BY <1>1, <1>2 DEF Mark, At, Goto, IInv, Types, Owned, Making
<1>8. Young(q)'
  BY <1>1, <1>2 DEF Mark, At, Goto, files, scan, IInv, Types, Young, Making, Owned,
     Phases, Seen
<1>9. Unmarked(q)'
  BY <1>1, <1>2 DEF Mark, files, scan, IInv, Types, Unmarked
<1>10. Completed(q)'
  BY <1>1, <1>2 DEF Mark, At, Goto, files, scan, IInv, Types, Completed, Emptied,
     Victim, Phases, Pruning
<1> QED
  BY <1>5, <1>6, <1>7, <1>8, <1>9, <1>10

LEMMA OpenTraceKeepsInv ==
    ASSUME IInv, NEW p \in Procs, OpenTrace(p)
    PROVE  IInv'
<1>1. Names \subseteq Nat /\ None \notin Names /\ MaxNames \in Nat
  BY NamesAreNumbers
<1>2. /\ mine[p] \notin traces
      /\ \A r \in Procs : mine[p] \notin candidates[r] \cup queue[r]
  BY DEF OpenTrace, At, Goto, files, scan, IInv, Young, Making
<1>3. Types'
  BY <1>1, <1>2 DEF OpenTrace, At, Goto, files, scan, Steps, IInv, Types
<1>4. \A n \in dirs' : ~Unused(n)'
  BY <1>1, <1>2 DEF OpenTrace, files, IInv, Types, Unused
<1> SUFFICES ASSUME NEW q \in Procs
             PROVE  (Seen(q) /\ Phases(q) /\ Owned(q) /\ Young(q)
                       /\ Unmarked(q) /\ Completed(q))'
  BY <1>3, <1>4 DEF IInv
<1>5. Seen(q)'
  BY <1>1, <1>2 DEF OpenTrace, scan, IInv, Types, Unused, Seen
<1>6. Phases(q)'
  BY <1>1, <1>2 DEF OpenTrace, At, Goto, scan, IInv, Types, Phases, Pruning
<1>7. Owned(q)'
  BY <1>1, <1>2 DEF OpenTrace, At, Goto, IInv, Types, Owned, Making
<1>8. Young(q)'
  BY <1>1, <1>2 DEF OpenTrace, At, Goto, files, scan, IInv, Types, Young, Making, Owned,
     Phases, Seen
<1>9. Unmarked(q)'
  BY <1>1, <1>2 DEF OpenTrace, scan, IInv, Types, Unmarked
<1>10. Completed(q)'
  BY <1>1, <1>2 DEF OpenTrace, At, Goto, files, scan, IInv, Types, Completed, Emptied,
     Victim, Phases, Pruning
<1> QED
  BY <1>5, <1>6, <1>7, <1>8, <1>9, <1>10

LEMMA ResetKeepsInv ==
    ASSUME IInv, NEW p \in Procs, Reset(p), UNCHANGED <<dirs, traces, lastName>>, markers' \subseteq markers
    PROVE  IInv'
<1>1. Names \subseteq Nat /\ None \notin Names /\ MaxNames \in Nat
  BY NamesAreNumbers
<1>3. Types'
  BY <1>1 DEF Reset, At, Goto, files, scan, Steps, IInv, Types
<1>4. \A n \in dirs' : ~Unused(n)'
  BY <1>1 DEF Reset, files, IInv, Types, Unused
<1> SUFFICES ASSUME NEW q \in Procs
             PROVE  (Seen(q) /\ Phases(q) /\ Owned(q) /\ Young(q)
                       /\ Unmarked(q) /\ Completed(q))'
  BY <1>3, <1>4 DEF IInv
<1>5. Seen(q)'
  BY <1>1 DEF Reset, scan, IInv, Types, Unused, Seen
<1>6. Phases(q)'
  BY <1>1 DEF Reset, At, Goto, scan, IInv, Types, Phases, Pruning
<1>7. Owned(q)'
  BY <1>1 DEF Reset, At, Goto, IInv, Types, Owned, Making
<1>8. Young(q)'
  BY <1>1 DEF Reset, At, Goto, files, scan, IInv, Types, Young, Making, Owned, Phases,
     Seen
<1>9. Unmarked(q)'
  BY <1>1 DEF Reset, scan, IInv, Types, Unmarked
<1>10. Completed(q)'
  BY <1>1 DEF Reset, At, Goto, files, scan, IInv, Types, Completed, Emptied, Victim,
     Phases, Pruning
<1> QED
  BY <1>5, <1>6, <1>7, <1>8, <1>9, <1>10

LEMMA InitInv == Init => IInv
<1> SUFFICES ASSUME Init PROVE IInv
  OBVIOUS
<1>1. Names \subseteq Nat /\ None \notin Names /\ MaxNames \in Nat
      /\ \A n \in UNION Found : ~(n <= MaxNames)
  BY NamesAreNumbers
<1>2. dirs \subseteq UNION Found /\ dirs \subseteq Names
  BY DEF Init, Names
<1>3. Types
  BY <1>1, <1>2 DEF Init, Types, Steps
<1>4. \A n \in dirs : ~Unused(n)
  BY <1>1, <1>2 DEF Unused
<1> QED
  BY <1>3, <1>4 DEF Init, IInv, Seen, Phases, Pruning, Owned, Making, Young, Unmarked,
                    Completed

LEMMA StepInv == IInv /\ [Next]_vars => IInv'
<1> SUFFICES ASSUME IInv, [Next]_vars PROVE IInv'
  OBVIOUS
<1>1. ASSUME NEW p \in Procs, PruneFails(p) PROVE IInv'
  BY <1>1, ResetKeepsInv DEF PruneFails, files
<1>2. ASSUME NEW p \in Procs, Finish(p) PROVE IInv'
  BY <1>2, ResetKeepsInv DEF Finish
<1>3. ASSUME NEW p \in Procs, Stop(p) PROVE IInv'
  BY <1>3, ResetKeepsInv DEF Stop, files
<1>4. ASSUME NEW p \in Procs, Prune(p) PROVE IInv'
  BY <1>1, <1>4, StartKeepsInv, ReadEntryKeepsInv, LookForTraceKeepsInv,
     EndScanKeepsInv,
     OpenVictimKeepsInv, RemoveTraceKeepsInv, RemoveMarkerKeepsInv, RemoveDirectoryKeepsInv
     DEF Prune
<1>5. ASSUME NEW p \in Procs, Session(p) PROVE IInv'
  BY <1>2, <1>5, CreateDirectoryKeepsInv, MarkKeepsInv, OpenTraceKeepsInv DEF Session
<1>6. CASE UNCHANGED vars
  BY <1>6 DEF vars, files, scan, IInv, Types, Unused, Seen, Phases, Owned, Young,
     Unmarked,
              Completed, Emptied, Victim
<1> QED
  BY <1>3, <1>4, <1>5, <1>6 DEF Next

-----------------------------------------------------------------------------
\* In every reachable state the inductive invariant holds.
THEOREM Invariance == Spec => []IInv
<1> QED
  BY InitInv, StepInv, PTL DEF Spec

\* Every variable keeps its type, and only a process that prunes has a queue.
THEOREM TypeCorrectness == Spec => []TypeOK
<1>1. IInv => TypeOK
  BY DEF IInv, Types, Phases, Pruning, TypeOK
<1> QED
  BY <1>1, Invariance, PTL

\* The files of a running session stay until it ends, unless another process looked
\* for its marker before it was written and for its trace after that
\* (prune_completed, execution_trace.rs:221).
THEOREM SessionsKeepTheirFiles == Spec => RunningTracesStay
<1> DEFINE Step == \A p \in Procs :
                     At(p, "running") /\ Kept(p) /\ ~Kept(p)' =>
                         \/ pc'[p] = "idle"
                         \/ \E q \in Procs \ {p} : <<q, mine[p]>> \in stale
<1>1. IInv /\ [Next]_vars => [Step]_vars
  <2> SUFFICES ASSUME IInv, Next, NEW p \in Procs,
                      pc[p] = "running", Kept(p), ~Kept(p)', pc'[p] # "idle"
               PROVE  \E q \in Procs \ {p} : <<q, mine[p]>> \in stale
    BY DEF At
  <2>1. PICK q \in Procs : Prune(q) \/ Session(q) \/ Stop(q)
    BY DEF Next
  <2>2. ASSUME RemoveTrace(q) \/ RemoveMarker(q)
        PROVE  q # p /\ <<q, mine[p]>> \in stale
    <3>1. Victim(q) \in queue[q]
      BY <2>2, VictimIsQueued DEF RemoveTrace, RemoveMarker, At, IInv, Phases
    <3>2. q # p
      BY <2>2 DEF RemoveTrace, RemoveMarker, At
    <3>3. mine[p] = Victim(q)
      BY <2>2 DEF RemoveTrace, RemoveMarker, Kept
    <3>4. mine[p] \in markers
      BY DEF Kept
    <3> QED
      BY <3>1, <3>2, <3>3, <3>4 DEF IInv, Completed
  <2>3. ASSUME UNCHANGED mine, traces \subseteq traces', markers \subseteq markers'
        PROVE  FALSE
    BY <2>3 DEF Kept
  <2>4. ASSUME Reset(q), UNCHANGED traces, markers \ {mine[q]} \subseteq markers'
        PROVE  FALSE
    <3>1. q # p
      BY <2>4 DEF Reset, Goto, IInv, Types
    <3>2. mine'[p] = mine[p] /\ mine[q] # mine[p]
      BY <2>4, <3>1 DEF Reset, IInv, Types, Owned, Making
    <3> QED
      BY <2>4, <3>2 DEF Kept
  <2>5. CASE PruneFails(q) \/ Finish(q) \/ Stop(q)
    BY <2>4, <2>5 DEF PruneFails, Finish, Stop, files
  <2>6. CASE CreateDirectory(q)
    <3>1. q # p
      BY <2>6 DEF CreateDirectory, At
    <3> QED
      BY <2>6, <3>1 DEF CreateDirectory, Kept, IInv, Types
  <2>7. CASE Start(q) \/ ReadEntry(q) \/ LookForTrace(q) \/ EndScan(q) \/ OpenVictim(q)
               \/ RemoveDirectory(q) \/ Mark(q) \/ OpenTrace(q)
    BY <2>3, <2>7 DEF Start, ReadEntry, LookForTrace, EndScan, OpenVictim,
       RemoveDirectory,
                      Mark, OpenTrace, files
  <2> QED
    BY <2>1, <2>2, <2>5, <2>6, <2>7 DEF Prune, Session
<1> QED
  BY <1>1, Invariance, PTL DEF Spec, RunningTracesStay

\* A process alone never fails to prune: it does only when another took the same
\* trace apart after it was found, or marked it between the two looks
\* (execution_trace.rs:231).
THEOREM PruningIsUndisturbed == Spec => StartFailsOnlyAfterOthers
<1>1. IInv /\ [Next]_vars => [\A p \in Procs : PruneFails(p) => <<p, Victim(p)>> \in stale]_vars
  <2> SUFFICES ASSUME IInv, NEW p \in Procs, PruneFails(p)
               PROVE  <<p, Victim(p)>> \in stale
    OBVIOUS
  <2>1. Victim(p) \in queue[p]
    BY VictimIsQueued DEF PruneFails
  <2> QED
    BY <2>1 DEF PruneFails, At, IInv, Types, Completed, Emptied
<1> QED
  BY <1>1, Invariance, PTL DEF Spec, StartFailsOnlyAfterOthers

-----------------------------------------------------------------------------
(* TracesAreBounded. Who made and who completed a trace, and when, is no      *)
(* longer in the state. The invariant is that there is a history to explain   *)
(* it. Time counts the completions; a work is what a process did between its  *)
(* start and the time in to.                                                  *)

Complete == traces \ markers
Sessions == traces \cap (1 .. lastName)

Works == [by : Procs \cup {None}, from : Nat, to : Nat]

Work(p, from, to) == [by |-> p, from |-> from, to |-> to]

Histories ==
    [now : Nat,
     begin : [Procs -> Nat],           \* when a process last started
     making : [Names -> Works],        \* of a directory, until it was marked
     completing : [Names -> Works]]    \* of a trace, until it had no marker

\* Of the traces in a set, those that were complete at a time.
Old(h, t, done) == {n \in done : h.completing[n].to <= t}

AtMostTwo(S) == \A x, y, z \in S : x = y \/ y = z \/ x = z

\* A process does one thing after the other.
Apart(v, w) == v.by = w.by => v.to <= w.from \/ w.to <= v.from

\* The complete traces are of sessions, or have always been there.
Dated(h, done, kept) ==
    /\ \A n \in done : h.completing[n].to <= h.now
    /\ \A n \in done : n \notin kept => h.completing[n].to = 0
    /\ AtMostTwo(Old(h, 0, done))

\* A session has pruned before it made its directory.
Pruned(h, done, kept) ==
    \A n \in kept :
        /\ h.making[n].by \in Procs
        /\ h.making[n].from <= h.now /\ h.making[n].to <= h.now
        /\ AtMostTwo(Old(h, h.making[n].from, done))

\* A trace is completed by its session, or by a process that started before the
\* directory was marked.
Joined(h, done, kept) ==
    \A n \in done \cap kept :
        /\ h.completing[n].by \in Procs
        /\ \/ h.completing[n].from = h.making[n].from
           \/ h.completing[n].from <= h.making[n].to

Orderly(h, done, kept) ==
    /\ \A n, m \in done : n # m => Apart(h.completing[n], h.completing[m])
    /\ \A n, m \in kept : n # m => Apart(h.making[n], h.making[m])
    /\ \A n \in kept, m \in done : n # m => Apart(h.making[n], h.completing[m])

Explains(h, done, kept) ==
    /\ h \in Histories /\ done \subseteq Names /\ kept \subseteq Names
    /\ Dated(h, done, kept) /\ Pruned(h, done, kept)
    /\ Joined(h, done, kept) /\ Orderly(h, done, kept)

\* How the history goes on.
Begun(h, p) == [h EXCEPT !.begin[p] = h.now]

Marked(h, p, n) == [h EXCEPT !.making[n] = Work(p, h.begin[p], h.now)]

CompletedBy(h, p, n) ==
    [h EXCEPT !.now = h.now + 1, !.completing[n] = Work(p, h.begin[p], h.now + 1)]

\* Nothing is different at the times that have passed.
SamePast(g, h, more, done) == \A t \in Nat : t <= h.now => Old(g, t, more) = Old(h, t, done)

-----------------------------------------------------------------------------
LEMMA HistoryTypes ==
    ASSUME NEW h \in Histories
    PROVE  /\ h.now \in Nat /\ h.begin \in [Procs -> Nat]
           /\ h.making \in [Names -> Works] /\ h.completing \in [Names -> Works]
           /\ \A n \in Names : /\ h.making[n].from \in Nat /\ h.making[n].to \in Nat
                               /\ h.completing[n].from \in Nat /\ h.completing[n].to \in Nat
<1>1. /\ h.now \in Nat /\ h.begin \in [Procs -> Nat]
      /\ h.making \in [Names -> Works] /\ h.completing \in [Names -> Works]
  BY DEF Histories
<1>2. \A w \in Works : w.from \in Nat /\ w.to \in Nat
  BY DEF Works
<1> QED
  BY <1>1, <1>2

LEMMA BegunIs ==
    ASSUME NEW h \in Histories, NEW p \in Procs
    PROVE  /\ Begun(h, p) \in Histories
           /\ Begun(h, p).now = h.now /\ Begun(h, p).making = h.making
           /\ Begun(h, p).completing = h.completing
           /\ Begun(h, p).begin[p] = h.now
           /\ \A q \in Procs : q # p => Begun(h, p).begin[q] = h.begin[q]
<1> QED
  BY DEF Begun, Histories

LEMMA MarkedIs ==
    ASSUME NEW h \in Histories, NEW p \in Procs, NEW n \in Names
    PROVE  /\ Marked(h, p, n) \in Histories
           /\ Marked(h, p, n).now = h.now /\ Marked(h, p, n).begin = h.begin
           /\ Marked(h, p, n).completing = h.completing
           /\ Marked(h, p, n).making[n] = Work(p, h.begin[p], h.now)
           /\ \A m \in Names : m # n => Marked(h, p, n).making[m] = h.making[m]
<1>1. Work(p, h.begin[p], h.now) \in Works
  BY DEF Histories, Work, Works
<1> QED
  BY <1>1 DEF Marked, Histories

LEMMA CompletedByIs ==
    ASSUME NEW h \in Histories, NEW p \in Procs, NEW n \in Names
    PROVE  /\ CompletedBy(h, p, n) \in Histories
           /\ CompletedBy(h, p, n).now = h.now + 1
           /\ CompletedBy(h, p, n).begin = h.begin
           /\ CompletedBy(h, p, n).making = h.making
           /\ CompletedBy(h, p, n).completing[n] = Work(p, h.begin[p], h.now + 1)
           /\ \A m \in Names : m # n => CompletedBy(h, p, n).completing[m] = h.completing[m]
<1>1. Work(p, h.begin[p], h.now + 1) \in Works /\ h.now + 1 \in Nat
  BY DEF Histories, Work, Works
<1> DEFINE work == Work(p, h.begin[p], h.now + 1)
           now1 == h.now + 1
<1>2. CompletedBy(h, p, n) = [h EXCEPT !.now = now1, !.completing[n] = work]
  BY DEF CompletedBy
<1> HIDE DEF work, now1
<1>3. work \in Works /\ now1 \in Nat
  BY <1>1 DEF work, now1
<1>4. h.completing \in [Names -> Works]
  BY HistoryTypes
<1> DEFINE works == [h.completing EXCEPT ![n] = work]
<1>5. /\ works \in [Names -> Works] /\ works[n] = work
      /\ \A m \in Names : m # n => works[m] = h.completing[m]
  BY <1>3, <1>4
<1>6. CompletedBy(h, p, n) = [h EXCEPT !.now = now1, !.completing = works]
  BY <1>2 DEF Histories
<1> HIDE DEF works
<1>7. /\ CompletedBy(h, p, n) \in Histories
      /\ CompletedBy(h, p, n).now = now1 /\ CompletedBy(h, p, n).begin = h.begin
      /\ CompletedBy(h, p, n).making = h.making
      /\ CompletedBy(h, p, n).completing = works
  BY <1>3, <1>5, <1>6 DEF Histories
<1> QED
  BY <1>5, <1>7 DEF work, now1

LEMMA FewerAreAtMostTwo ==
    ASSUME NEW S, NEW T, AtMostTwo(S), T \subseteq S
    PROVE  AtMostTwo(T)
<1> QED
  BY DEF AtMostTwo

\* Traces go away.
LEMMA ExplainsFewer ==
    ASSUME NEW h, NEW done, NEW kept, Explains(h, done, kept),
           NEW fewer, fewer \subseteq done, NEW left, left \subseteq kept,
           fewer \cap kept \subseteq left
    PROVE  Explains(h, fewer, left)
<1>1. \A t : Old(h, t, fewer) \subseteq Old(h, t, done)
  BY DEF Old
<1>2. \A t : AtMostTwo(Old(h, t, done)) => AtMostTwo(Old(h, t, fewer))
  BY <1>1, FewerAreAtMostTwo
<1>3. Dated(h, fewer, left)
  BY <1>2 DEF Explains, Dated
<1>4. Pruned(h, fewer, left)
  BY <1>2 DEF Explains, Pruned
<1>5. Joined(h, fewer, left)
  BY DEF Explains, Joined
<1>6. Orderly(h, fewer, left)
  BY DEF Explains, Orderly
<1> QED
  BY <1>3, <1>4, <1>5, <1>6 DEF Explains

\* A session gets its trace.
LEMMA ExplainsOneMore ==
    ASSUME NEW h, NEW done, NEW kept, Explains(h, done, kept),
           NEW n \in Names, n \notin done, n \notin kept,
           NEW p \in Procs, h.making[n].by = p,
           h.making[n].from <= h.now, h.making[n].to <= h.now,
           AtMostTwo(Old(h, h.making[n].from, done)),
           \A m \in done : h.completing[m].by = p => h.completing[m].to <= h.making[n].from,
           \A m \in kept : h.making[m].by = p => h.making[m].to <= h.making[n].from
    PROVE  Explains(h, done, kept \cup {n})
<1>1. Dated(h, done, kept \cup {n})
  BY DEF Explains, Dated
<1>2. Pruned(h, done, kept \cup {n})
  BY DEF Explains, Pruned
<1>3. Joined(h, done, kept \cup {n})
  BY DEF Explains, Joined
<1>4. Orderly(h, done, kept \cup {n})
  BY DEF Explains, Orderly, Apart
<1> QED
  BY <1>1, <1>2, <1>3, <1>4 DEF Explains

\* A process completes a trace.
LEMMA ExplainsCompletion ==
    ASSUME NEW h, NEW done, NEW kept, Explains(h, done, kept),
           NEW n \in kept, n \notin done, NEW p \in Procs, h.begin[p] <= h.now,
           \/ h.begin[p] = h.making[n].from
           \/ h.begin[p] <= h.making[n].to,
           \A m \in done : h.completing[m].by = p => h.completing[m].to <= h.begin[p],
           \A m \in kept : m # n /\ h.making[m].by = p => h.making[m].to <= h.begin[p]
    PROVE  /\ Explains(CompletedBy(h, p, n), done \cup {n}, kept)
           /\ SamePast(CompletedBy(h, p, n), h, done \cup {n}, done)
<1> DEFINE g == CompletedBy(h, p, n)
<1>1. h \in Histories /\ n \in Names /\ done \subseteq Names /\ kept \subseteq Names
  BY DEF Explains
<1>2. /\ g \in Histories /\ g.now = h.now + 1 /\ g.begin = h.begin /\ g.making = h.making
      /\ g.completing[n] = Work(p, h.begin[p], h.now + 1)
      /\ \A m \in Names : m # n => g.completing[m] = h.completing[m]
  BY <1>1, CompletedByIs
<1>3. /\ h.now \in Nat /\ h.begin[p] \in Nat
      /\ \A m \in Names : /\ h.making[m].from \in Nat /\ h.making[m].to \in Nat
                          /\ h.completing[m].from \in Nat /\ h.completing[m].to \in Nat
  BY <1>1, HistoryTypes
<1>4. /\ g.completing[n].by = p /\ g.completing[n].from = h.begin[p]
      /\ g.completing[n].to = h.now + 1
  BY <1>2 DEF Work
<1>5. \A m \in done : g.completing[m] = h.completing[m]
  BY <1>1, <1>2
<1> HIDE DEF g
<1>6. ASSUME NEW t \in Nat, t <= h.now PROVE Old(g, t, done \cup {n}) = Old(h, t, done)
  <2>1. ~(h.now + 1 <= t)
    BY <1>3, <1>6
  <2> QED
    BY <1>4, <1>5, <2>1 DEF Old
<1>7. Dated(g, done \cup {n}, kept)
  <2>1. Old(g, 0, done \cup {n}) = Old(h, 0, done)
    <3>1. 0 \in Nat /\ 0 <= h.now
      BY <1>3
    <3> QED
      BY <1>6, <3>1
  <2>2. \A m \in done : h.completing[m].to <= h.now + 1
    BY <1>1, <1>3 DEF Explains, Dated
  <2> QED
    BY <1>1, <1>2, <1>3, <1>4, <1>5, <2>1, <2>2 DEF Explains, Dated
<1>8. Pruned(g, done \cup {n}, kept)
  <2> SUFFICES ASSUME NEW m \in kept
               PROVE  /\ h.making[m].by \in Procs
                      /\ h.making[m].from <= h.now + 1 /\ h.making[m].to <= h.now + 1
                      /\ AtMostTwo(Old(g, h.making[m].from, done \cup {n}))
    BY <1>2 DEF Pruned
  <2>1. /\ h.making[m].by \in Procs /\ h.making[m].from <= h.now
        /\ h.making[m].from <= h.now + 1 /\ h.making[m].to <= h.now + 1
    BY <1>1, <1>3 DEF Explains, Pruned
  <2>2. AtMostTwo(Old(h, h.making[m].from, done))
    BY DEF Explains, Pruned
  <2>3. AtMostTwo(Old(g, h.making[m].from, done \cup {n}))
    BY <1>1, <1>3, <1>6, <2>1, <2>2
  <2> QED
    BY <2>1, <2>3
<1>9. Joined(g, done \cup {n}, kept)
  BY <1>2, <1>4, <1>5 DEF Explains, Joined
<1>10. Orderly(g, done \cup {n}, kept)
  <2>1. \A m \in done : Apart(h.completing[m], g.completing[n]) /\ Apart(g.completing[n], h.completing[m])
    BY <1>4 DEF Apart
  <2>2. \A m \in kept : m # n => Apart(h.making[m], g.completing[n])
    BY <1>4 DEF Apart
  <2> QED
    BY <1>2, <1>5, <2>1, <2>2 DEF Explains, Orderly
<1> QED
  BY <1>1, <1>2, <1>6, <1>7, <1>8, <1>9, <1>10 DEF g, Explains, SamePast

LEMMA AtMostTwoCardinality ==
    ASSUME NEW S, AtMostTwo(S)
    PROVE  IsFiniteSet(S) /\ Cardinality(S) <= 2
<1>1. CASE S = {}
  BY <1>1, FS_EmptySet
<1>2. CASE S # {}
  <2>1. PICK x \in S : TRUE
    BY <1>2
  <2>2. IsFiniteSet({x}) /\ Cardinality({x}) = 1
    BY FS_Singleton
  <2>3. CASE S = {x}
    BY <2>2, <2>3
  <2>4. CASE S # {x}
    <3>1. PICK y \in S : y # x
      BY <2>1, <2>4
    <3>2. S = {x} \cup {y}
      BY <2>1, <3>1 DEF AtMostTwo
    <3> QED
      BY <2>2, <3>1, <3>2, FS_AddElement
  <2> QED
    BY <2>3, <2>4
<1> QED
  BY <1>1, <1>2

LEMMA AtMostTwoOfCardinality ==
    ASSUME NEW S, IsFiniteSet(S), Cardinality(S) <= 2
    PROVE  AtMostTwo(S)
<1> SUFFICES ASSUME NEW x \in S, NEW y \in S, NEW z \in S, x # y, y # z, x # z
             PROVE  FALSE
  BY DEF AtMostTwo
<1>1. IsFiniteSet({x}) /\ Cardinality({x}) = 1
  BY FS_Singleton
<1>2. IsFiniteSet({x} \cup {y}) /\ Cardinality({x} \cup {y}) = 2
  <2>1. y \notin {x}
    OBVIOUS
  <2>2. Cardinality({x} \cup {y}) = Cardinality({x}) + 1
    BY <1>1, <2>1, FS_AddElement, Zenon
  <2> QED
    BY <1>1, <2>2, FS_AddElement
<1>3. Cardinality(({x} \cup {y}) \cup {z}) = 3
  <2>1. z \notin {x} \cup {y}
    OBVIOUS
  <2>2. Cardinality(({x} \cup {y}) \cup {z}) = Cardinality({x} \cup {y}) + 1
    BY <1>2, <2>1, FS_AddElement, Zenon
  <2> QED
    BY <1>2, <2>2
<1>4. Cardinality(({x} \cup {y}) \cup {z}) <= Cardinality(S)
  BY FS_Subset
<1>5. Cardinality(S) \in Nat
  BY FS_CardinalityType
<1> QED
  BY <1>3, <1>4, <1>5

\* The traces but for the first two are charged to processes, each to another: to
\* the one that completed it, if that started before there were three, or else to
\* the one that made it.
LEMMA ExplainedIsBounded ==
    ASSUME NEW h, NEW done, NEW kept, Explains(h, done, kept), IsFiniteSet(done)
    PROVE  Cardinality(done) <= 2 + Cardinality(Procs)
<1>1. IsFiniteSet(Procs) /\ Cardinality(Procs) \in Nat
  BY DirectoriesAssumption, FS_CardinalityType
<1>2. h \in Histories /\ done \subseteq Names /\ kept \subseteq Names
  BY DEF Explains
<1>3. /\ h.now \in Nat
      /\ \A n \in Names : /\ h.making[n].from \in Nat /\ h.making[n].to \in Nat
                          /\ h.completing[n].from \in Nat /\ h.completing[n].to \in Nat
  BY <1>2, HistoryTypes
<1>4. CASE AtMostTwo(done)
  <2>1. Cardinality(done) <= 2 /\ Cardinality(done) \in Nat
    BY <1>4, AtMostTwoCardinality, FS_CardinalityType
  <2> QED
    BY <1>1, <2>1
<1>5. CASE ~AtMostTwo(done)
  <2> DEFINE Crowded == {t \in Nat : ~AtMostTwo(Old(h, t, done))}
  <2>1. Old(h, h.now, done) = done
    BY DEF Explains, Dated, Old
  <2>2. h.now \in Crowded
    BY <1>3, <1>5, <2>1
  <2>3. PICK third \in Crowded : \A t \in Crowded : third <= t
    BY <2>2, LeastNumber
  <2>4. third # 0
    BY <2>3 DEF Explains, Dated
  <2>5. third \in Nat /\ third - 1 \in Nat /\ ~(third <= third - 1)
    BY <2>3, <2>4
  <2> DEFINE early == Old(h, third - 1, done)
             late == done \ early
  <2>6. AtMostTwo(early)
    BY <2>3, <2>5
  <2>7. ASSUME NEW t \in Nat, AtMostTwo(Old(h, t, done)) PROVE t < third
    <3>1. Old(h, third, done) \subseteq Old(h, t, done) => AtMostTwo(Old(h, third, done))
      BY <2>7, FewerAreAtMostTwo
    <3>2. ~AtMostTwo(Old(h, third, done))
      BY <2>3
    <3> HIDE DEF Crowded
    <3>3. third <= t => Old(h, third, done) \subseteq Old(h, t, done)
      BY <1>2, <1>3, <2>5 DEF Old
    <3> QED
      BY <2>5, <3>1, <3>2, <3>3
  <2> HIDE DEF Crowded
  <2>8. ASSUME NEW n \in late
        PROVE  /\ n \in done /\ n \in kept /\ n \in Names
               /\ third <= h.completing[n].to /\ h.making[n].from < third
               /\ h.making[n].by \in Procs /\ h.completing[n].by \in Procs
               /\ third <= h.completing[n].from => third <= h.making[n].to
    <3>1. n \in done /\ n \in Names /\ ~(h.completing[n].to <= third - 1)
      BY <1>2 DEF Old
    <3>2. third <= h.completing[n].to
      BY <1>3, <2>5, <3>1
    <3>3. n \in kept
      BY <2>4, <2>5, <3>1, <3>2 DEF Explains, Dated
    <3>4. h.making[n].by \in Procs /\ h.completing[n].by \in Procs
      BY <3>1, <3>3 DEF Explains, Pruned, Joined
    <3>5. h.making[n].from < third
      BY <1>3, <2>7, <3>1, <3>3 DEF Explains, Pruned
    <3>6. \/ h.completing[n].from = h.making[n].from
          \/ h.completing[n].from <= h.making[n].to
      BY <3>1, <3>3 DEF Explains, Joined
    <3>7. third <= h.completing[n].from => third <= h.making[n].to
      BY <1>3, <2>5, <3>1, <3>5, <3>6
    <3> QED
      BY <3>1, <3>2, <3>3, <3>4, <3>5, <3>7
  <2> DEFINE Charge == [n \in late |-> IF third <= h.completing[n].from
                                      THEN h.making[n].by ELSE h.completing[n].by]
  <2>9. Charge \in [late -> Procs]
    BY <2>8
  <2>10. ASSUME NEW n \in late, NEW m \in late, n # m PROVE Charge[n] # Charge[m]
    <3> HIDE DEF early, late
    <3>1. /\ Apart(h.completing[n], h.completing[m]) /\ Apart(h.making[n], h.making[m])
          /\ Apart(h.making[n], h.completing[m]) /\ Apart(h.making[m], h.completing[n])
      BY <2>8, <2>10 DEF Explains, Orderly
    <3>2. /\ n \in Names /\ third <= h.completing[n].to /\ h.making[n].from < third
          /\ third <= h.completing[n].from => third <= h.making[n].to
      BY <2>8
    <3>3. /\ m \in Names /\ third <= h.completing[m].to /\ h.making[m].from < third
          /\ third <= h.completing[m].from => third <= h.making[m].to
      BY <2>8
    <3>4. /\ h.making[n].from \in Nat /\ h.making[n].to \in Nat
          /\ h.completing[n].from \in Nat /\ h.completing[n].to \in Nat
          /\ h.making[m].from \in Nat /\ h.making[m].to \in Nat
          /\ h.completing[m].from \in Nat /\ h.completing[m].to \in Nat
      BY <1>3, <3>2, <3>3
    <3>5. CASE third <= h.completing[n].from /\ third <= h.completing[m].from
      BY <2>5, <3>1, <3>2, <3>3, <3>4, <3>5 DEF Apart
    <3>6. CASE third <= h.completing[n].from /\ ~(third <= h.completing[m].from)
      BY <2>5, <3>1, <3>2, <3>3, <3>4, <3>6 DEF Apart
    <3>7. CASE ~(third <= h.completing[n].from) /\ third <= h.completing[m].from
      BY <2>5, <3>1, <3>2, <3>3, <3>4, <3>7 DEF Apart
    <3>8. CASE ~(third <= h.completing[n].from) /\ ~(third <= h.completing[m].from)
      BY <2>5, <3>1, <3>2, <3>3, <3>4, <3>8 DEF Apart
    <3> QED
      BY <3>5, <3>6, <3>7, <3>8
  <2>11. Charge \in Injection(late, Procs)
    BY <2>9, <2>10 DEF Injection, IsInjective
  <2>12. IsFiniteSet(late) /\ Cardinality(late) <= Cardinality(Procs)
    <3> HIDE DEF Charge
    <3> QED
      BY <1>1, <2>11, FS_Subset, FS_Injection
  <2>13. IsFiniteSet(early) /\ Cardinality(early) <= 2
    BY <2>6, AtMostTwoCardinality
  <2>14. early \subseteq done /\ done = early \cup late
    BY DEF Old
  <2> HIDE DEF early, late
  <2>15. /\ Cardinality(done) = Cardinality(early) + Cardinality(late) - Cardinality(early \cap late)
         /\ IsFiniteSet(early \cap late)
    BY <2>12, <2>13, <2>14, FS_Union, FS_Intersection
  <2>16. /\ Cardinality(early) \in Nat /\ Cardinality(late) \in Nat
         /\ Cardinality(early \cap late) \in Nat
    BY <2>12, <2>13, <2>15, FS_CardinalityType
  <2> QED
    BY <1>1, <2>12, <2>13, <2>15, <2>16
<1> QED
  BY <1>4, <1>5

-----------------------------------------------------------------------------
(* The processes and the history.                                            *)

\* A process that does not scan has read nothing, and one that has no session
\* has no directory.
Tidy(p) ==
    /\ pc[p] \notin {"scan", "look"} => read[p] = {} /\ unmarked[p] = None
    /\ pc[p] = "scan" => unmarked[p] = None
    /\ pc[p] \notin Making \cup {"running"} => mine[p] = None
    /\ IsFiniteSet(candidates[p])

TidyInv ==
    /\ IInv /\ IsFiniteSet(dirs) /\ markers \subseteq 1 .. lastName
    /\ \A p \in Procs : Tidy(p)

\* The directory of a session is a work of this session.
Makes(h, p) ==
    pc[p] \in {"open", "running"} =>
        /\ h.making[mine[p]].by = p /\ h.making[mine[p]].from = h.begin[p]
        /\ h.making[mine[p]].to <= h.now

\* Has the process removed the marker of a trace that it is about to remove?
Unmarks(p, n) == pc[p] \in {"unlink", "rmdir"} /\ n = Victim(p)

\* All other works of a process are from before its start.
Rested(h, p) ==
    pc[p] # "idle" =>
        /\ \A n \in Complete :
              h.completing[n].by = p =>
                  h.completing[n].to <= h.begin[p] \/ n = mine[p] \/ Unmarks(p, n)
        /\ \A n \in Sessions :
              h.making[n].by = p => h.making[n].to <= h.begin[p] \/ n = mine[p]

\* What a process found without a marker and has one was marked after its start.
Outruns(h, p) ==
    \A n \in markers : n \in candidates[p] \cup queue[p] \cup {unmarked[p]} =>
        h.begin[p] <= h.making[n].to

\* A process finds what was complete when it started, and leaves two of it.
Finds(h, p) ==
    /\ pc[p] \in {"scan", "look"} =>
          \A n \in Old(h, h.begin[p], Complete) :
              n \in listed[p] /\ (n \in read[p] => n \in candidates[p] \/ n = unmarked[p])
    /\ pc[p] \in Pruning => AtMostTwo(Old(h, h.begin[p], Complete) \ queue[p])
    /\ pc[p] \in Making \cup {"running"} => AtMostTwo(Old(h, h.begin[p], Complete))

Accounted(h, p) ==
    h.begin[p] <= h.now /\ Makes(h, p) /\ Rested(h, p) /\ Outruns(h, p) /\ Finds(h, p)

Explicable ==
    \E h : Explains(h, Complete, Sessions) /\ \A p \in Procs : Accounted(h, p)

BInv == TidyInv /\ Explicable

-----------------------------------------------------------------------------
LEMMA TidyInit == Init => TidyInv
<1> SUFFICES ASSUME Init PROVE TidyInv
  OBVIOUS
<1>1. IsFiniteSet(dirs)
  BY DirectoriesAssumption DEF Init
<1>2. IsFiniteSet({})
  BY FS_EmptySet
<1> QED
  BY <1>1, <1>2, InitInv DEF Init, TidyInv, Tidy

LEMMA TidyStep == TidyInv /\ [Next]_vars => TidyInv'
<1> SUFFICES ASSUME TidyInv, [Next]_vars PROVE TidyInv'
  OBVIOUS
<1>1. IInv'
  BY StepInv DEF TidyInv
<1>2. /\ lastName \in Nat /\ MaxNames \in Nat /\ None \notin Names
  BY NamesAreNumbers DEF TidyInv, IInv, Types
<1>3. CASE UNCHANGED vars
  BY <1>1, <1>3 DEF TidyInv, Tidy, vars, files, scan
<1>4. ASSUME NEW p \in Procs, Prune(p) \/ Session(p) \/ Stop(p) PROVE TidyInv'
  <2>1. IsFiniteSet(dirs')
    <3>1. \/ dirs' \subseteq dirs
          \/ dirs' = dirs \cup {lastName'}
      BY <1>4 DEF Prune, Session, Stop, Start, ReadEntry, LookForTrace, EndScan,
         OpenVictim,
         RemoveTrace, RemoveMarker, RemoveDirectory, PruneFails, CreateDirectory, Mark,
         OpenTrace, Finish, files
    <3> QED
      BY <3>1, FS_Subset, FS_AddElement DEF TidyInv
  <2>2. markers' \subseteq 1 .. lastName'
    <3>1. CASE Mark(p)
      BY <3>1 DEF Mark, At, TidyInv, IInv, Owned, Making
    <3>2. CASE CreateDirectory(p)
      BY <1>2, <3>2 DEF CreateDirectory, TidyInv
    <3>3. CASE ~Mark(p) /\ ~CreateDirectory(p)
      <4>1. markers' \subseteq markers /\ lastName' = lastName
        BY <1>4, <3>3 DEF Prune, Session, Stop, Start, ReadEntry, LookForTrace, EndScan,
           OpenVictim, RemoveTrace, RemoveMarker, RemoveDirectory, PruneFails, OpenTrace,
           Finish, files
      <4> QED
        BY <4>1 DEF TidyInv
    <3> QED
      BY <3>1, <3>2, <3>3
  <2>3. ASSUME NEW q \in Procs PROVE Tidy(q)'
    <3>1. IsFiniteSet(candidates'[q])
      <4>1. \/ candidates'[q] = candidates[q]
            \/ candidates'[q] = candidates[q] \cup {unmarked[q]}
            \/ candidates'[q] = {}
        BY <1>4 DEF TidyInv, IInv, Types, Prune, Session, Stop, Start, ReadEntry,
           LookForTrace, EndScan, OpenVictim, RemoveTrace, RemoveMarker, RemoveDirectory,
           PruneFails, CreateDirectory, Mark, OpenTrace, Finish, Reset, files, scan
      <4>2. IsFiniteSet(candidates[q])
        BY DEF TidyInv, Tidy
      <4>3. IsFiniteSet(candidates[q] \cup {unmarked[q]}) /\ IsFiniteSet({})
        BY <4>2, FS_AddElement, FS_EmptySet
      <4> QED
        BY <4>1, <4>2, <4>3
    <3>2. (pc[q] \notin {"scan", "look"} => read[q] = {} /\ unmarked[q] = None)'
      BY <1>4 DEF TidyInv, Tidy, IInv, Types, Prune, Session, Stop, Start, ReadEntry,
         At, Goto,
         LookForTrace, EndScan, OpenVictim, RemoveTrace, RemoveMarker, RemoveDirectory,
         PruneFails, CreateDirectory, Mark, OpenTrace, Finish, Reset, files, scan
    <3>3. (pc[q] = "scan" => unmarked[q] = None)'
      BY <1>4 DEF TidyInv, Tidy, IInv, Types, Prune, Session, Stop, Start, ReadEntry,
         At, Goto,
         LookForTrace, EndScan, OpenVictim, RemoveTrace, RemoveMarker, RemoveDirectory,
         PruneFails, CreateDirectory, Mark, OpenTrace, Finish, Reset, files, scan
    <3>4. (pc[q] \notin Making \cup {"running"} => mine[q] = None)'
      BY <1>4 DEF TidyInv, Tidy, IInv, Types, Prune, Session, Stop, Start, ReadEntry,
         At, Goto,
         LookForTrace, EndScan, OpenVictim, RemoveTrace, RemoveMarker, RemoveDirectory,
         PruneFails, CreateDirectory, Mark, OpenTrace, Finish, Reset, files, scan, Making
    <3> QED
      BY <3>1, <3>2, <3>3, <3>4 DEF Tidy
  <2> QED
    BY <1>1, <2>1, <2>2, <2>3 DEF TidyInv
<1> QED
  BY <1>3, <1>4 DEF Next

-----------------------------------------------------------------------------
\* A process that does nothing still fits.
Rests(q) ==
    /\ pc'[q] = pc[q] /\ mine'[q] = mine[q] /\ listed'[q] = listed[q] /\ read'[q] = read[q]
    /\ unmarked'[q] = unmarked[q] /\ candidates'[q] = candidates[q] /\ queue'[q] = queue[q]

LEMMA RestingFits ==
    ASSUME TidyInv, NEW q \in Procs, Rests(q),
           NEW h \in Histories, NEW g \in Histories, Accounted(h, q),
           h.now <= g.now, g.begin[q] = h.begin[q],
           pc[q] \in {"open", "running"} => g.making[mine[q]] = h.making[mine[q]],
           \A n \in Complete' : g.completing[n].by = q =>
               n \in Complete /\ g.completing[n] = h.completing[n],
           \A n \in Sessions' : g.making[n].by = q =>
               n \in Sessions /\ g.making[n] = h.making[n],
           \A n \in markers' : \/ n \in markers /\ g.making[n] = h.making[n]
                               \/ g.making[n].to = h.now,
           Old(g, h.begin[q], Complete') \subseteq Old(h, h.begin[q], Complete)
    PROVE  Accounted(g, q)'
<1>1. /\ h.now \in Nat /\ g.now \in Nat /\ h.begin[q] \in Nat
      /\ \A n \in Names : h.making[n].to \in Nat /\ g.making[n].to \in Nat
  BY HistoryTypes
<1>2. h.begin[q] <= h.now
  BY DEF Accounted
<1>3. g.begin[q] <= g.now
  BY <1>1, <1>2
<1>4. Makes(g, q)'
  <2> SUFFICES ASSUME pc[q] \in {"open", "running"}
               PROVE  /\ g.making[mine[q]].by = q /\ g.making[mine[q]].from = g.begin[q]
                      /\ g.making[mine[q]].to <= g.now
    BY DEF Makes, Rests
  <2>1. mine[q] \in Names
    BY DEF TidyInv, IInv, Types, Owned, Making
  <2> QED
    BY <1>1, <2>1 DEF Accounted, Makes
<1>5. Rested(g, q)'
  <2>1. Victim(q)' = Victim(q)
    BY DEF Rests, Victim
  <2> QED
    BY <2>1 DEF Accounted, Rested, Unmarks, Rests
<1>6. Outruns(g, q)'
  BY <1>2 DEF Accounted, Outruns, Rests
<1>7. Finds(g, q)'
  <2>1. Old(g, h.begin[q], Complete') \ queue[q] \subseteq Old(h, h.begin[q], Complete) \ queue[q]
    OBVIOUS
  <2>2. pc[q] \in Pruning => AtMostTwo(Old(g, h.begin[q], Complete') \ queue[q])
    BY <2>1, FewerAreAtMostTwo DEF Accounted, Finds
  <2>3. pc[q] \in Making \cup {"running"} => AtMostTwo(Old(g, h.begin[q], Complete'))
    BY FewerAreAtMostTwo DEF Accounted, Finds
  <2>4. pc[q] \in {"scan", "look"} =>
          \A n \in Old(g, h.begin[q], Complete') :
              n \in listed[q] /\ (n \in read[q] => n \in candidates[q] \/ n = unmarked[q])
    BY DEF Accounted, Finds
  <2> QED
    BY <2>2, <2>3, <2>4 DEF Finds, Rests
<1> QED
  BY <1>3, <1>4, <1>5, <1>6, <1>7 DEF Accounted

\* A step that makes and completes nothing needs no new history.
LEMMA SameHistory ==
    ASSUME TidyInv, NEW h, Explains(h, Complete, Sessions), \A q \in Procs : Accounted(h, q),
           NEW p \in Procs, \A q \in Procs : q # p => Rests(q),
           Complete' \subseteq Complete, Sessions' \subseteq Sessions,
           Complete' \cap Sessions \subseteq Sessions', markers' \subseteq markers,
           Accounted(h, p)'
    PROVE  Explicable'
<1>1. Explains(h, Complete', Sessions')
  BY ExplainsFewer
<1>2. h \in Histories /\ h.now \in Nat
  BY HistoryTypes DEF Explains
<1>3. ASSUME NEW q \in Procs, q # p PROVE Accounted(h, q)'
  <2>1. Old(h, h.begin[q], Complete') \subseteq Old(h, h.begin[q], Complete)
    BY DEF Old
  <2>2. h.now <= h.now /\ Rests(q) /\ Accounted(h, q)
    BY <1>2, <1>3
  <2> QED
    BY <1>2, <2>1, <2>2, RestingFits
<1> QED
  BY <1>1, <1>3 DEF Explicable

\* One lemma for each action.
LEMMA StartExplicable ==
    ASSUME TidyInv, TidyInv', NEW h, Explains(h, Complete, Sessions),
           \A q \in Procs : Accounted(h, q), NEW p \in Procs, Start(p)
    PROVE  Explicable'
<1> DEFINE g == Begun(h, p)
<1>1. h \in Histories /\ h.now \in Nat /\ h.now <= h.now
  BY HistoryTypes DEF Explains
<1>2. /\ g \in Histories /\ g.now = h.now /\ g.making = h.making
      /\ g.completing = h.completing /\ g.begin[p] = h.now
      /\ \A q \in Procs : q # p => g.begin[q] = h.begin[q]
  BY <1>1, BegunIs
<1> HIDE DEF g
<1>3. \A t, done : Old(g, t, done) = Old(h, t, done)
  BY <1>2 DEF Old
<1>4. Complete' = Complete /\ Sessions' = Sessions
  BY DEF Start, files, Complete, Sessions
<1>5. Explains(g, Complete', Sessions')
  BY <1>2, <1>3, <1>4 DEF Explains, Dated, Pruned, Joined, Orderly
<1>6. ASSUME NEW q \in Procs, q # p PROVE Accounted(g, q)'
  <2>1. Rests(q)
    BY <1>6 DEF Start, Goto, TidyInv, IInv, Types, scan, Rests
  <2>2. markers' = markers
    BY DEF Start, files
  <2>3. Accounted(h, q) /\ h.now <= g.now /\ g.begin[q] = h.begin[q]
    BY <1>1, <1>2, <1>6
  <2>4. Old(g, h.begin[q], Complete') \subseteq Old(h, h.begin[q], Complete)
    BY <1>3, <1>4
  <2> QED
    BY <1>1, <1>2, <1>4, <2>1, <2>2, <2>3, <2>4, RestingFits
<1>7. Accounted(g, p)'
  <2>1. /\ pc[p] = "idle" /\ pc'[p] = "scan" /\ listed'[p] = dirs /\ read'[p] = {}
        /\ candidates'[p] = {} /\ queue'[p] = {} /\ unmarked'[p] = None
    BY DEF Start, At, Goto, TidyInv, IInv, Types, Phases, Pruning, Tidy
  <2>2. Makes(g, p)'
    BY <2>1 DEF Makes
  <2>3. Rested(g, p)'
    BY <1>2, <1>4 DEF Rested, Explains, Dated, Pruned
  <2>4. Outruns(g, p)'
    BY <2>1, NamesAreNumbers DEF Outruns, TidyInv, IInv, Types
  <2>5. Finds(g, p)'
    BY <1>4, <2>1 DEF Finds, Old, Complete, TidyInv, IInv, Types, Pruning, Making
  <2> QED
    BY <1>1, <1>2, <2>2, <2>3, <2>4, <2>5 DEF Accounted
<1> QED
  BY <1>5, <1>6, <1>7 DEF Explicable

LEMMA ReadEntryExplicable ==
    ASSUME TidyInv, TidyInv', NEW h, Explains(h, Complete, Sessions),
           \A q \in Procs : Accounted(h, q), NEW p \in Procs, ReadEntry(p)
    PROVE  Explicable'
<1>1. /\ pc[p] = "scan" /\ pc'[p] \in {"scan", "look"} /\ unmarked[p] = None
      /\ UNCHANGED <<dirs, markers, traces, lastName, mine, listed, candidates, queue>>
      /\ Complete' = Complete /\ Sessions' = Sessions /\ Victim(p)' = Victim(p)
  BY DEF ReadEntry, At, Goto, HasNoMarker, TidyInv, IInv, Types, Tidy, files, Complete,
     Sessions, Victim
<1>2. PICK n \in Names : /\ read'[p] = read[p] \cup {n}
                         /\ n \notin markers => unmarked'[p] = n
                         /\ n \in markers => unmarked'[p] = None
  BY <1>1 DEF ReadEntry, HasNoMarker, TidyInv, IInv, Types
<1>3. \A q \in Procs : q # p => Rests(q)
  BY DEF ReadEntry, Goto, HasNoMarker, TidyInv, IInv, Types, Rests
<1>4. Makes(h, p)'
  BY <1>1 DEF Makes
<1>5. Rested(h, p)'
  BY <1>1 DEF Accounted, Rested, Unmarks
<1>6. Outruns(h, p)'
  BY <1>1, <1>2, NamesAreNumbers DEF Accounted, Outruns, TidyInv, IInv, Types
<1>7. Finds(h, p)'
  <2>1. ASSUME NEW m \in Old(h, h.begin[p], Complete)
        PROVE  m \in listed[p] /\ (m \in read'[p] => m \in candidates[p] \/ m = unmarked'[p])
    <3>1. m \in Complete /\ m \in Names /\ m \notin markers
      BY DEF Old, Complete, TidyInv, IInv, Types
    <3>2. m # None
      BY <3>1, NamesAreNumbers
    <3>3. m \in listed[p] /\ (m \in read[p] => m \in candidates[p] \/ m = unmarked[p])
      BY <1>1 DEF Accounted, Finds
    <3> QED
      BY <1>1, <1>2, <3>1, <3>2, <3>3
  <2> QED
    BY <1>1, <2>1 DEF Finds, Pruning, Making
<1>8. Accounted(h, p)'
  BY <1>4, <1>5, <1>6, <1>7 DEF Accounted
<1> QED
  BY <1>1, <1>3, <1>8, SameHistory

LEMMA LookForTraceExplicable ==
    ASSUME TidyInv, TidyInv', NEW h, Explains(h, Complete, Sessions),
           \A q \in Procs : Accounted(h, q), NEW p \in Procs, LookForTrace(p)
    PROVE  Explicable'
<1>1. /\ pc[p] = "look" /\ pc'[p] = "scan" /\ unmarked'[p] = None
      /\ UNCHANGED <<dirs, markers, traces, lastName, mine, listed, read, queue>>
      /\ Complete' = Complete /\ Sessions' = Sessions /\ Victim(p)' = Victim(p)
  BY DEF LookForTrace, At, Goto, TidyInv, IInv, Types, files, Complete, Sessions, Victim
<1>2. candidates'[p] = IF unmarked[p] \in traces THEN candidates[p] \cup {unmarked[p]}
                       ELSE candidates[p]
  BY DEF LookForTrace, HasTrace, TidyInv, IInv, Types
<1>3. \A q \in Procs : q # p => Rests(q)
  BY DEF LookForTrace, Goto, TidyInv, IInv, Types, Rests
<1>4. Makes(h, p)'
  BY <1>1 DEF Makes
<1>5. Rested(h, p)'
  BY <1>1 DEF Accounted, Rested, Unmarks
<1>6. Outruns(h, p)'
  BY <1>1, <1>2, NamesAreNumbers DEF Accounted, Outruns, TidyInv, IInv, Types
<1>7. Finds(h, p)'
  BY <1>1, <1>2 DEF Accounted, Finds, Old, Complete, Pruning, Making
<1>8. Accounted(h, p)'
  BY <1>4, <1>5, <1>6, <1>7 DEF Accounted
<1> QED
  BY <1>1, <1>3, <1>8, SameHistory

\* Two of what was found stay.
LEMMA SurplusLeavesTwo ==
    ASSUME NEW found, found \subseteq Nat, IsFiniteSet(found)
    PROVE  AtMostTwo(found \ Surplus(found))
<1>1. ASSUME NEW x \in found, NEW y \in found, NEW z \in found, x < y, y < z
      PROVE  x \in Surplus(found)
  <2> DEFINE above == {m \in found : m > x}
  <2>1. y \in above /\ z \in above /\ y # z
    BY <1>1
  <2>2. IsFiniteSet(above)
    BY FS_Subset
  <2> HIDE DEF above
  <2>3. IsFiniteSet({y}) /\ Cardinality({y}) = 1
    BY FS_Singleton
  <2>4. Cardinality({y} \cup {z}) = Cardinality({y}) + 1
    <3>1. z \notin {y}
      BY <2>1
    <3> QED
      BY <2>3, <3>1, FS_AddElement, Zenon
  <2>5. Cardinality({y} \cup {z}) <= Cardinality(above)
    BY <2>1, <2>2, FS_Subset
  <2>6. Cardinality(above) \in Nat
    BY <2>2, FS_CardinalityType
  <2>7. Cardinality(above) >= 2
    BY <2>3, <2>4, <2>5, <2>6
  <2> QED
    BY <2>7 DEF above, Surplus
<1> SUFFICES ASSUME NEW x \in found \ Surplus(found), NEW y \in found \ Surplus(found),
                    NEW z \in found \ Surplus(found), x # y, y # z, x # z
             PROVE  FALSE
  BY DEF AtMostTwo
<1>2. x \in Nat /\ y \in Nat /\ z \in Nat
  OBVIOUS
<1> QED
  BY <1>1, <1>2

LEMMA EndScanExplicable ==
    ASSUME TidyInv, TidyInv', NEW h, Explains(h, Complete, Sessions),
           \A q \in Procs : Accounted(h, q), NEW p \in Procs, EndScan(p)
    PROVE  Explicable'
<1>1. /\ pc[p] = "scan" /\ pc'[p] = "prune" /\ unmarked[p] = None /\ candidates'[p] = {}
      /\ listed[p] \cap dirs \subseteq read[p] /\ queue'[p] = Surplus(candidates[p])
      /\ UNCHANGED <<dirs, markers, traces, lastName, mine, unmarked>>
      /\ Complete' = Complete /\ Sessions' = Sessions
  BY DEF EndScan, At, Goto, TidyInv, IInv, Types, Tidy, files, Complete, Sessions
<1>2. Surplus(candidates[p]) \subseteq candidates[p]
  BY DEF Surplus
<1>3. \A q \in Procs : q # p => Rests(q)
  BY DEF EndScan, Goto, TidyInv, IInv, Types, Rests
<1>4. Makes(h, p)'
  BY <1>1 DEF Makes
<1>5. Rested(h, p)'
  BY <1>1 DEF Accounted, Rested, Unmarks
<1>6. Outruns(h, p)'
  BY <1>1, <1>2 DEF Accounted, Outruns
<1>7. Finds(h, p)'
  <2>1. Old(h, h.begin[p], Complete) \subseteq candidates[p]
    <3> SUFFICES ASSUME NEW m \in Old(h, h.begin[p], Complete) PROVE m \in candidates[p]
      OBVIOUS
    <3>1. m \in dirs /\ m \in Names
      BY DEF Old, Complete, TidyInv, IInv, Types
    <3>2. m # None
      BY <3>1, NamesAreNumbers
    <3>3. m \in listed[p] /\ (m \in read[p] => m \in candidates[p] \/ m = unmarked[p])
      BY <1>1 DEF Accounted, Finds
    <3> QED
      BY <1>1, <3>1, <3>2, <3>3
  <2>2. candidates[p] \subseteq Nat /\ IsFiniteSet(candidates[p])
    BY NamesAreNumbers DEF TidyInv, IInv, Types, Tidy
  <2>3. AtMostTwo(candidates[p] \ Surplus(candidates[p]))
    BY <2>2, SurplusLeavesTwo
  <2>4. Old(h, h.begin[p], Complete) \ Surplus(candidates[p])
          \subseteq candidates[p] \ Surplus(candidates[p])
    BY <2>1
  <2>5. AtMostTwo(Old(h, h.begin[p], Complete) \ Surplus(candidates[p]))
    BY <2>3, <2>4, FewerAreAtMostTwo
  <2> QED
    BY <1>1, <2>5 DEF Finds, Pruning, Making
<1>8. Accounted(h, p)'
  BY <1>4, <1>5, <1>6, <1>7 DEF Accounted
<1> QED
  BY <1>1, <1>3, <1>8, SameHistory

LEMMA OpenVictimExplicable ==
    ASSUME TidyInv, TidyInv', NEW h, Explains(h, Complete, Sessions),
           \A q \in Procs : Accounted(h, q), NEW p \in Procs, OpenVictim(p)
    PROVE  Explicable'
<1>1. /\ pc[p] = "prune" /\ pc'[p] \in {"unlink", "rmdir"}
      /\ UNCHANGED <<dirs, markers, traces, lastName, mine, unmarked, candidates, queue>>
      /\ Complete' = Complete /\ Sessions' = Sessions
  BY DEF OpenVictim, At, Goto, TidyInv, IInv, Types, files, scan, Complete, Sessions
<1>2. \A q \in Procs : q # p => Rests(q)
  BY DEF OpenVictim, Goto, TidyInv, IInv, Types, scan, Rests
<1>3. Makes(h, p)'
  BY <1>1 DEF Makes
<1>4. Rested(h, p)'
  BY <1>1 DEF Accounted, Rested, Unmarks
<1>5. Outruns(h, p)'
  BY <1>1 DEF Accounted, Outruns
<1>6. Finds(h, p)'
  BY <1>1 DEF Accounted, Finds, Pruning, Making
<1>7. Accounted(h, p)'
  BY <1>3, <1>4, <1>5, <1>6 DEF Accounted
<1> QED
  BY <1>1, <1>2, <1>7, SameHistory

LEMMA RemoveTraceExplicable ==
    ASSUME TidyInv, TidyInv', NEW h, Explains(h, Complete, Sessions),
           \A q \in Procs : Accounted(h, q), NEW p \in Procs, RemoveTrace(p)
    PROVE  Explicable'
<1>1. /\ pc[p] = "unlink" /\ pc'[p] = "rmdir" /\ Victim(p)' = Victim(p)
      /\ UNCHANGED <<dirs, markers, lastName, mine, unmarked, candidates, queue>>
      /\ traces' = traces \ {Victim(p)}
  BY DEF RemoveTrace, At, Goto, TidyInv, IInv, Types, scan, Victim
<1>2. /\ Complete' \subseteq Complete /\ Sessions' \subseteq Sessions
      /\ Complete' \cap Sessions \subseteq Sessions'
  BY <1>1 DEF Complete, Sessions
<1>3. \A q \in Procs : q # p => Rests(q)
  BY DEF RemoveTrace, Goto, TidyInv, IInv, Types, scan, Rests
<1>4. Makes(h, p)'
  BY <1>1 DEF Makes
<1>5. Rested(h, p)'
  BY <1>1, <1>2 DEF Accounted, Rested, Unmarks
<1>6. Outruns(h, p)'
  BY <1>1 DEF Accounted, Outruns
<1>7. Finds(h, p)'
  <2>1. Old(h, h.begin[p], Complete') \ queue[p] \subseteq Old(h, h.begin[p], Complete) \ queue[p]
    BY <1>2 DEF Old
  <2>2. AtMostTwo(Old(h, h.begin[p], Complete') \ queue[p])
    BY <1>1, <2>1, FewerAreAtMostTwo DEF Accounted, Finds, Pruning
  <2> QED
    BY <1>1, <2>2 DEF Finds, Pruning, Making
<1>8. Accounted(h, p)'
  BY <1>4, <1>5, <1>6, <1>7 DEF Accounted
<1> QED
  BY <1>1, <1>2, <1>3, <1>8, SameHistory

LEMMA RemoveDirectoryExplicable ==
    ASSUME TidyInv, TidyInv', NEW h, Explains(h, Complete, Sessions),
           \A q \in Procs : Accounted(h, q), NEW p \in Procs, RemoveDirectory(p)
    PROVE  Explicable'
<1>1. /\ pc[p] = "rmdir" /\ pc'[p] = "prune" /\ Victim(p) \notin traces
      /\ UNCHANGED <<markers, traces, lastName, mine, unmarked, candidates>>
      /\ queue'[p] = queue[p] \ {Victim(p)}
      /\ Complete' = Complete /\ Sessions' = Sessions
  BY DEF RemoveDirectory, At, Goto, TidyInv, IInv, Types, scan, Complete, Sessions
<1>2. \A q \in Procs : q # p => Rests(q)
  BY DEF RemoveDirectory, Goto, TidyInv, IInv, Types, scan, Rests
<1>3. Makes(h, p)'
  BY <1>1 DEF Makes
<1>4. Rested(h, p)'
  BY <1>1 DEF Accounted, Rested, Unmarks, Complete
<1>5. Outruns(h, p)'
  BY <1>1 DEF Accounted, Outruns
<1>6. Finds(h, p)'
  <2>1. Old(h, h.begin[p], Complete) \ queue'[p] = Old(h, h.begin[p], Complete) \ queue[p]
    BY <1>1 DEF Old, Complete
  <2> QED
    BY <1>1, <2>1 DEF Accounted, Finds, Pruning, Making
<1>7. Accounted(h, p)'
  BY <1>3, <1>4, <1>5, <1>6 DEF Accounted
<1> QED
  BY <1>1, <1>2, <1>7, SameHistory

LEMMA CreateDirectoryExplicable ==
    ASSUME TidyInv, TidyInv', NEW h, Explains(h, Complete, Sessions),
           \A q \in Procs : Accounted(h, q), NEW p \in Procs, CreateDirectory(p)
    PROVE  Explicable'
<1>1. /\ pc[p] = "prune" /\ pc'[p] = "mark" /\ queue[p] = {} /\ mine[p] = None
      /\ UNCHANGED <<markers, traces, unmarked, candidates, queue>>
      /\ lastName' = lastName + 1 /\ lastName \in Nat /\ Unused(lastName + 1)
  BY NamesAreNumbers DEF CreateDirectory, At, Goto, TidyInv, IInv, Types, Tidy, Making,
     scan,
     Unused
<1>2. Complete' = Complete /\ Sessions' = Sessions
  <2>1. traces \subseteq Nat /\ lastName + 1 \notin traces
    BY <1>1, NamesAreNumbers DEF TidyInv, IInv, Types
  <2> QED
    BY <1>1, <2>1 DEF Complete, Sessions
<1>3. \A q \in Procs : q # p => Rests(q)
  BY DEF CreateDirectory, Goto, TidyInv, IInv, Types, scan, Rests
<1>4. Makes(h, p)'
  BY <1>1 DEF Makes
<1>5. Rested(h, p)'
  <2>1. None \notin Names /\ Complete \subseteq Names /\ Sessions \subseteq Names
    BY NamesAreNumbers DEF TidyInv, IInv, Types, Complete, Sessions
  <2> QED
    BY <1>1, <1>2, <2>1 DEF Accounted, Rested, Unmarks
<1>6. Outruns(h, p)'
  BY <1>1 DEF Accounted, Outruns
<1>7. Finds(h, p)'
  <2>1. Old(h, h.begin[p], Complete) \ queue[p] = Old(h, h.begin[p], Complete)
    BY <1>1
  <2> QED
    BY <1>1, <1>2, <2>1 DEF Accounted, Finds, Pruning, Making
<1>8. Accounted(h, p)'
  BY <1>4, <1>5, <1>6, <1>7 DEF Accounted
<1> QED
  BY <1>1, <1>2, <1>3, <1>8, SameHistory

LEMMA ResetExplicable ==
    ASSUME TidyInv, TidyInv', NEW h, Explains(h, Complete, Sessions),
           \A q \in Procs : Accounted(h, q), NEW p \in Procs, Reset(p), UNCHANGED files
    PROVE  Explicable'
<1>1. /\ pc'[p] = "idle" /\ candidates'[p] = {} /\ queue'[p] = {} /\ unmarked'[p] = None
      /\ UNCHANGED <<markers, traces>> /\ Complete' = Complete /\ Sessions' = Sessions
  BY DEF Reset, Goto, TidyInv, IInv, Types, files, Complete, Sessions
<1>2. \A q \in Procs : q # p => Rests(q)
  BY DEF Reset, Goto, TidyInv, IInv, Types, Rests
<1>3. Outruns(h, p)'
  BY <1>1, NamesAreNumbers DEF Outruns, TidyInv, IInv, Types
<1>4. Accounted(h, p)'
  BY <1>1, <1>3 DEF Accounted, Makes, Rested, Finds, Pruning, Making
<1> QED
  BY <1>1, <1>2, <1>4, SameHistory

\* A process completes a trace by removing its marker.
LEMMA CompletionExplicable ==
    ASSUME TidyInv, TidyInv', NEW h, Explains(h, Complete, Sessions),
           \A q \in Procs : Accounted(h, q), NEW p \in Procs, \A q \in Procs : q # p => Rests(q),
           NEW n \in traces \cap markers, UNCHANGED <<traces, lastName>>,
           markers' = markers \ {n}, pc[p] # "idle",
           n = mine[p] \/ (Unmarks(p, n) /\ mine[p] = None),
           h.begin[p] = h.making[n].from \/ h.begin[p] <= h.making[n].to,
           Accounted(CompletedBy(h, p, n), p)'
    PROVE  Explicable'
<1> DEFINE g == CompletedBy(h, p, n)
<1>1. h \in Histories /\ h.now \in Nat /\ h.begin \in [Procs -> Nat]
  BY HistoryTypes DEF Explains
<1>2. n \in Names /\ n \in Sessions /\ n \notin Complete
  BY DEF TidyInv, IInv, Types, Sessions, Complete
<1>3. Complete' = Complete \cup {n} /\ Sessions' = Sessions
  BY DEF Sessions, Complete
<1>4. None \notin Names /\ Complete \subseteq Names /\ Sessions \subseteq Names
  BY NamesAreNumbers DEF TidyInv, IInv, Types, Complete, Sessions
<1>5. \A m \in Complete : h.completing[m].by = p => h.completing[m].to <= h.begin[p]
  <2>1. mine[p] # None => pc[p] \notin {"unlink", "rmdir"}
    BY DEF TidyInv, Tidy, Making
  <2> QED
    BY <1>2, <1>4, <2>1 DEF Accounted, Rested, Unmarks
<1>6. \A m \in Sessions : m # n /\ h.making[m].by = p => h.making[m].to <= h.begin[p]
  BY <1>4 DEF Accounted, Rested
<1>7. h.begin[p] <= h.now
  BY DEF Accounted
<1>8. /\ Explains(g, Complete \cup {n}, Sessions)
      /\ SamePast(g, h, Complete \cup {n}, Complete)
  BY <1>2, <1>5, <1>6, <1>7, ExplainsCompletion
<1>9. /\ g \in Histories /\ g.now = h.now + 1 /\ g.begin = h.begin /\ g.making = h.making
      /\ g.completing[n] = Work(p, h.begin[p], h.now + 1)
      /\ \A m \in Names : m # n => g.completing[m] = h.completing[m]
  BY <1>1, <1>2, CompletedByIs
<1> HIDE DEF g
<1>10. ASSUME NEW q \in Procs, q # p PROVE Accounted(g, q)'
  <2>1. Rests(q) /\ Accounted(h, q) /\ h.begin[q] <= h.now /\ h.begin[q] \in Nat
    BY <1>1, <1>10 DEF Accounted
  <2>2. h.now <= g.now
    BY <1>1, <1>9
  <2>3. \A m \in Complete' : g.completing[m].by = q =>
            m \in Complete /\ g.completing[m] = h.completing[m]
    BY <1>3, <1>4, <1>9, <1>10 DEF Work
  <2>4. Old(g, h.begin[q], Complete') \subseteq Old(h, h.begin[q], Complete)
    BY <1>3, <1>8, <2>1 DEF SamePast
  <2>5. \A m \in markers' : m \in markers
    OBVIOUS
  <2> QED
    BY <1>1, <1>3, <1>9, <2>1, <2>2, <2>3, <2>4, <2>5, RestingFits
<1>11. Accounted(g, p)'
  BY DEF g
<1> QED
  BY <1>3, <1>8, <1>10, <1>11 DEF Explicable

LEMMA RemoveMarkerExplicable ==
    ASSUME TidyInv, TidyInv', NEW h, Explains(h, Complete, Sessions),
           \A q \in Procs : Accounted(h, q), NEW p \in Procs, RemoveMarker(p)
    PROVE  Explicable'
<1>1. /\ pc[p] \in {"unlink", "rmdir"} /\ mine[p] = None /\ Victim(p) \in markers
      /\ UNCHANGED <<traces, lastName, pc, mine, unmarked, candidates, queue>>
      /\ markers' = markers \ {Victim(p)} /\ Victim(p)' = Victim(p)
  BY DEF RemoveMarker, TidyInv, Tidy, Making, scan, Victim
<1>2. \A q \in Procs : q # p => Rests(q)
  BY DEF RemoveMarker, scan, Rests
<1>3. Victim(p) \in queue[p]
  BY <1>1, VictimIsQueued DEF TidyInv, IInv, Phases
<1>4. CASE Victim(p) \notin traces
  <2>1. Complete' = Complete /\ Sessions' = Sessions /\ markers' \subseteq markers
    BY <1>1, <1>4 DEF Complete, Sessions
  <2>2. Accounted(h, p) /\ UNCHANGED <<pc, mine, unmarked, candidates, queue, Victim(p)>>
    BY <1>1
  <2>3. Makes(h, p)' /\ Rested(h, p)' /\ Outruns(h, p)'
    BY <2>1, <2>2 DEF Accounted, Makes, Rested, Unmarks, Outruns
  <2>4. Finds(h, p)'
    BY <1>1, <2>1, <2>2 DEF Accounted, Finds, Pruning, Making
  <2>5. Accounted(h, p)'
    BY <2>2, <2>3, <2>4 DEF Accounted
  <2> QED
    BY <1>2, <2>1, <2>5, SameHistory
<1>5. CASE Victim(p) \in traces
  <2> SUFFICES ASSUME NEW n, n = Victim(p) PROVE Explicable'
    OBVIOUS
  <2> DEFINE g == CompletedBy(h, p, n)
  <2>1. h.begin[p] <= h.making[n].to
    BY <1>1, <1>3 DEF Accounted, Outruns
  <2>2. n \in traces \cap markers /\ n \in Names /\ Unmarks(p, n)
    BY <1>1, <1>5 DEF TidyInv, IInv, Types, Unmarks
  <2>3. h \in Histories /\ h.now \in Nat /\ h.begin \in [Procs -> Nat] /\ h.begin[p] <= h.now
    BY HistoryTypes DEF Explains, Accounted
  <2>4. /\ g.now = h.now + 1 /\ g.begin = h.begin /\ g.making = h.making
        /\ \A m \in Names : m # n => g.completing[m] = h.completing[m]
        /\ g.completing[n] = Work(p, h.begin[p], h.now + 1)
    BY <2>2, <2>3, CompletedByIs
  <2>5. /\ Complete' = Complete \cup {n} /\ Sessions' = Sessions
        /\ Complete \subseteq Names /\ n \notin Complete
    BY <1>1, <2>2 DEF Complete, Sessions, TidyInv, IInv, Types
  <2> HIDE DEF g
  <2>6. Makes(g, p)'
    BY <1>1 DEF Makes
  <2>7. Rested(g, p)'
    <3>1. Unmarks(p, n)'
      BY <1>1 DEF Unmarks
    <3> QED
      BY <1>1, <2>4, <2>5, <3>1 DEF Accounted, Rested, Unmarks
  <2>8. Outruns(g, p)'
    BY <1>1, <2>4 DEF Accounted, Outruns
  <2>9. Finds(g, p)'
    <3>1. Old(g, h.begin[p], Complete') = Old(h, h.begin[p], Complete)
      <4>1. ~(h.now + 1 <= h.begin[p]) /\ g.completing[n].to = h.now + 1
        BY <2>3, <2>4 DEF Work
      <4> QED
        BY <2>4, <2>5, <4>1 DEF Old
    <3> QED
      BY <1>1, <2>4, <3>1 DEF Accounted, Finds, Pruning, Making
  <2>10. g.begin[p] <= g.now
    BY <2>3, <2>4
  <2>11. Accounted(g, p)'
    BY <2>6, <2>7, <2>8, <2>9, <2>10 DEF Accounted
  <2>12. UNCHANGED <<traces, lastName>> /\ markers' = markers \ {n} /\ pc[p] # "idle"
    BY <1>1
  <2> QED
    BY <1>1, <1>2, <2>1, <2>2, <2>11, <2>12, CompletionExplicable DEF g
<1> QED
  BY <1>4, <1>5

LEMMA FinishExplicable ==
    ASSUME TidyInv, TidyInv', NEW h, Explains(h, Complete, Sessions),
           \A q \in Procs : Accounted(h, q), NEW p \in Procs, Finish(p)
    PROVE  Explicable'
<1>1. /\ pc[p] = "running" /\ pc'[p] = "idle"
      /\ UNCHANGED <<traces, lastName>> /\ markers' = markers \ {mine[p]}
      /\ candidates'[p] = {} /\ queue'[p] = {} /\ unmarked'[p] = None
  BY DEF Finish, At, Reset, Goto, TidyInv, IInv, Types
<1>2. \A q \in Procs : q # p => Rests(q)
  BY DEF Finish, Reset, Goto, TidyInv, IInv, Types, Rests
<1>3. ASSUME NEW g, g.begin[p] <= g.now PROVE Accounted(g, p)'
  <2>1. Outruns(g, p)'
    BY <1>1, NamesAreNumbers DEF Outruns, TidyInv, IInv, Types
  <2> QED
    BY <1>1, <1>3, <2>1 DEF Accounted, Makes, Rested, Finds, Pruning, Making
<1>4. h \in Histories /\ h.now \in Nat /\ h.begin \in [Procs -> Nat] /\ h.begin[p] <= h.now
  BY HistoryTypes DEF Explains, Accounted
<1>5. CASE mine[p] \notin traces \cap markers
  <2>1. Complete' = Complete /\ Sessions' = Sessions /\ markers' \subseteq markers
    BY <1>1, <1>5 DEF Complete, Sessions
  <2>2. Accounted(h, p)'
    BY <1>3, <1>4
  <2> QED
    BY <1>2, <2>1, <2>2, SameHistory
<1>6. CASE mine[p] \in traces \cap markers
  <2> SUFFICES ASSUME NEW n, n = mine[p] PROVE Explicable'
    OBVIOUS
  <2>1. n \in Names /\ n \in traces \cap markers
    BY <1>6 DEF TidyInv, IInv, Types
  <2>2. CompletedBy(h, p, n).begin[p] <= CompletedBy(h, p, n).now
    BY <1>4, <2>1, CompletedByIs
  <2>3. Accounted(CompletedBy(h, p, n), p)'
    BY <1>3, <2>2
  <2>4. h.begin[p] = h.making[n].from
    BY <1>1 DEF Accounted, Makes
  <2>5. UNCHANGED <<traces, lastName>> /\ markers' = markers \ {n} /\ pc[p] # "idle"
    BY <1>1
  <2> QED
    BY <1>2, <2>1, <2>3, <2>4, <2>5, CompletionExplicable
<1> QED
  BY <1>5, <1>6

LEMMA MarkExplicable ==
    ASSUME TidyInv, TidyInv', NEW h, Explains(h, Complete, Sessions),
           \A q \in Procs : Accounted(h, q), NEW p \in Procs, Mark(p)
    PROVE  Explicable'
<1> SUFFICES ASSUME NEW n, n = mine[p] PROVE Explicable'
  OBVIOUS
<1> DEFINE g == Marked(h, p, n)
<1>1. /\ pc[p] = "mark" /\ pc'[p] = "open" /\ n \in Names /\ n \in 1 .. lastName
      /\ n \notin traces /\ \A q \in Procs : q # p => mine[q] # n
      /\ UNCHANGED <<traces, lastName, mine, unmarked, candidates, queue>>
      /\ markers' = markers \cup {n}
  BY NamesAreNumbers DEF Mark, At, Goto, TidyInv, IInv, Types, Owned, Young, Making,
     scan
<1>2. \A q \in Procs : q # p => Rests(q)
  BY DEF Mark, Goto, TidyInv, IInv, Types, scan, Rests
<1>3. /\ h \in Histories /\ h.now \in Nat /\ h.now <= h.now
      /\ h.begin \in [Procs -> Nat] /\ h.begin[p] <= h.now
  BY HistoryTypes DEF Explains, Accounted
<1>4. /\ g \in Histories /\ g.now = h.now /\ g.begin = h.begin /\ g.completing = h.completing
      /\ g.making[n] = Work(p, h.begin[p], h.now)
      /\ \A m \in Names : m # n => g.making[m] = h.making[m]
  BY <1>1, <1>3, MarkedIs
<1> HIDE DEF g
<1>5. /\ Complete' = Complete /\ Sessions' = Sessions /\ n \notin Sessions /\ n \notin Complete
      /\ Complete \subseteq Names /\ Sessions \subseteq Names
  BY <1>1 DEF Complete, Sessions, TidyInv, IInv, Types
<1>6. \A t, done : Old(g, t, done) = Old(h, t, done)
  BY <1>4 DEF Old
<1>7. \A m \in Sessions : g.making[m] = h.making[m]
  BY <1>4, <1>5
<1>8. Explains(g, Complete, Sessions)
  BY <1>4, <1>5, <1>6, <1>7 DEF Explains, Dated, Pruned, Joined, Orderly
<1>9. ASSUME NEW q \in Procs, q # p PROVE Accounted(g, q)'
  <2>1. Rests(q) /\ Accounted(h, q) /\ h.now <= g.now /\ g.begin[q] = h.begin[q]
    BY <1>2, <1>3, <1>4, <1>9
  <2>2. pc[q] \in {"open", "running"} => g.making[mine[q]] = h.making[mine[q]]
    BY <1>1, <1>4, <1>9 DEF TidyInv, IInv, Types, Owned, Making
  <2>3. \A m \in markers' : \/ m \in markers /\ g.making[m] = h.making[m]
                            \/ g.making[m].to = h.now
    BY <1>1, <1>4 DEF TidyInv, IInv, Types, Work
  <2>4. Old(g, h.begin[q], Complete') \subseteq Old(h, h.begin[q], Complete)
    BY <1>5, <1>6
  <2> QED
    BY <1>3, <1>4, <1>5, <1>7, <2>1, <2>2, <2>3, <2>4, RestingFits
<1>10. Accounted(g, p)'
  <2>1. Makes(g, p)'
    BY <1>1, <1>3, <1>4 DEF Makes, Work
  <2>2. Rested(g, p)'
    BY <1>1, <1>4, <1>5, <1>7 DEF Accounted, Rested, Unmarks
  <2>3. Outruns(g, p)'
    <3>1. candidates[p] = {} /\ queue[p] = {} /\ unmarked[p] = None /\ None \notin markers'
      BY <1>1, NamesAreNumbers DEF TidyInv, IInv, Types, Phases, Pruning, Tidy
    <3> QED
      BY <1>1, <3>1 DEF Outruns
  <2>4. Finds(g, p)'
    BY <1>1, <1>4, <1>5, <1>6 DEF Accounted, Finds, Pruning, Making
  <2> QED
    BY <1>3, <1>4, <2>1, <2>2, <2>3, <2>4 DEF Accounted
<1> QED
  BY <1>5, <1>8, <1>9, <1>10 DEF Explicable

LEMMA OpenTraceExplicable ==
    ASSUME TidyInv, TidyInv', NEW h, Explains(h, Complete, Sessions),
           \A q \in Procs : Accounted(h, q), NEW p \in Procs, OpenTrace(p)
    PROVE  Explicable'
<1> SUFFICES ASSUME NEW n, n = mine[p] PROVE Explicable'
  OBVIOUS
<1>1. /\ pc[p] = "open" /\ pc'[p] = "running" /\ n \in Names /\ n \in 1 .. lastName
      /\ n \notin traces
      /\ UNCHANGED <<markers, lastName, mine, unmarked, candidates, queue>>
      /\ traces' = traces \cup {n}
      /\ candidates[p] = {} /\ queue[p] = {} /\ unmarked[p] = None /\ None \notin markers
  BY NamesAreNumbers DEF OpenTrace, At, Goto, TidyInv, IInv, Types, Owned, Young,
     Making,
     scan, Phases, Pruning, Tidy
<1>2. \A q \in Procs : q # p => Rests(q)
  BY DEF OpenTrace, Goto, TidyInv, IInv, Types, scan, Rests
<1>3. /\ h \in Histories /\ h.now \in Nat /\ h.now <= h.now
      /\ h.begin \in [Procs -> Nat] /\ \A q \in Procs : h.begin[q] <= h.now
  BY HistoryTypes DEF Explains, Accounted
<1>4. /\ h.making[n].by = p /\ h.making[n].from = h.begin[p] /\ h.making[n].to <= h.now
      /\ AtMostTwo(Old(h, h.making[n].from, Complete))
  BY <1>1 DEF Accounted, Makes, Finds, Making
<1>5. /\ n \notin Complete /\ n \notin Sessions /\ Sessions' = Sessions \cup {n}
      /\ Complete \subseteq Names /\ Sessions \subseteq Names
  BY <1>1 DEF Complete, Sessions, TidyInv, IInv, Types
<1>6. /\ \A m \in Complete : h.completing[m].by = p => h.completing[m].to <= h.begin[p]
      /\ \A m \in Sessions : h.making[m].by = p => h.making[m].to <= h.begin[p]
  BY <1>1, <1>5 DEF Accounted, Rested, Unmarks
<1>7. Explains(h, Complete, Sessions \cup {n})
  BY <1>1, <1>3, <1>4, <1>5, <1>6, ExplainsOneMore
<1>8. CASE n \in markers
  <2>1. Complete' = Complete
    BY <1>1, <1>8 DEF Complete
  <2>2. ASSUME NEW q \in Procs, q # p PROVE Accounted(h, q)'
    <3>1. Rests(q) /\ Accounted(h, q)
      BY <1>2, <2>2
    <3>2. \A m \in Sessions' : h.making[m].by = q => m \in Sessions
      BY <1>4, <1>5, <2>2
    <3>3. Old(h, h.begin[q], Complete') \subseteq Old(h, h.begin[q], Complete)
      BY <2>1
    <3> QED
      BY <1>1, <1>3, <2>1, <3>1, <3>2, <3>3, RestingFits
  <2>3. Makes(h, p)'
    BY <1>1, <1>4 DEF Makes
  <2>4. Rested(h, p)'
    BY <1>1, <1>5, <1>6, <2>1 DEF Rested
  <2>5. Outruns(h, p)'
    BY <1>1 DEF Outruns
  <2>6. Finds(h, p)'
    BY <1>1, <1>4, <2>1 DEF Finds, Pruning, Making
  <2>7. Accounted(h, p)'
    BY <1>3, <2>3, <2>4, <2>5, <2>6 DEF Accounted
  <2> QED
    BY <1>5, <1>7, <2>1, <2>2, <2>7 DEF Explicable
<1>9. CASE n \notin markers
  <2> DEFINE g == CompletedBy(h, p, n)
  <2>1. Complete' = Complete \cup {n}
    BY <1>1, <1>9 DEF Complete
  <2>2. /\ Explains(g, Complete \cup {n}, Sessions \cup {n})
        /\ SamePast(g, h, Complete \cup {n}, Complete)
    <3>1. n \in Sessions \cup {n} /\ h.begin[p] <= h.now /\ h.begin[p] = h.making[n].from
      BY <1>3, <1>4
    <3>2. \A m \in Sessions \cup {n} : m # n /\ h.making[m].by = p => h.making[m].to <= h.begin[p]
      BY <1>6
    <3> QED
      BY <1>5, <1>6, <1>7, <3>1, <3>2, ExplainsCompletion
  <2>3. /\ g \in Histories /\ g.now = h.now + 1 /\ g.begin = h.begin /\ g.making = h.making
        /\ g.completing[n] = Work(p, h.begin[p], h.now + 1)
        /\ \A m \in Names : m # n => g.completing[m] = h.completing[m]
    BY <1>1, <1>3, CompletedByIs
  <2> HIDE DEF g
  <2>4. h.now <= g.now /\ h.begin[p] <= g.now /\ h.making[n].to <= g.now
    <3>1. h.making[n].to \in Nat /\ h.begin[p] \in Nat
      BY <1>1, <1>3, HistoryTypes
    <3> QED
      BY <1>3, <1>4, <2>3, <3>1
  <2>5. ASSUME NEW q \in Procs, q # p PROVE Accounted(g, q)'
    <3>1. Rests(q) /\ Accounted(h, q) /\ h.begin[q] \in Nat /\ h.begin[q] <= h.now
      BY <1>2, <1>3, <2>5
    <3>2. \A m \in Sessions' : g.making[m].by = q => m \in Sessions
      BY <1>4, <1>5, <2>3, <2>5
    <3>3. \A m \in Complete' : g.completing[m].by = q =>
              m \in Complete /\ g.completing[m] = h.completing[m]
      BY <1>5, <2>1, <2>3, <2>5 DEF Work
    <3>4. Old(g, h.begin[q], Complete') \subseteq Old(h, h.begin[q], Complete)
      BY <2>1, <2>2, <3>1 DEF SamePast
    <3> QED
      BY <1>1, <1>3, <2>3, <2>4, <3>1, <3>2, <3>3, <3>4, RestingFits
  <2>6. Makes(g, p)'
    BY <1>1, <1>4, <2>3, <2>4 DEF Makes
  <2>7. Rested(g, p)'
    BY <1>1, <1>5, <1>6, <2>1, <2>3 DEF Rested
  <2>8. Outruns(g, p)'
    BY <1>1 DEF Outruns
  <2>9. Finds(g, p)'
    <3>1. Old(g, h.begin[p], Complete') = Old(h, h.begin[p], Complete)
      BY <1>3, <2>1, <2>2 DEF SamePast
    <3> QED
      BY <1>1, <1>4, <2>3, <3>1 DEF Finds, Pruning, Making
  <2>10. Accounted(g, p)'
    BY <2>3, <2>4, <2>6, <2>7, <2>8, <2>9 DEF Accounted
  <2> QED
    BY <1>5, <2>1, <2>2, <2>5, <2>10 DEF Explicable
<1> QED
  BY <1>8, <1>9

-----------------------------------------------------------------------------
LEMMA BoundInit == Init => BInv
<1> SUFFICES ASSUME Init PROVE BInv
  OBVIOUS
<1> DEFINE h == [now |-> 0, begin |-> [p \in Procs |-> 0],
                 making |-> [n \in Names |-> Work(None, 0, 0)],
                 completing |-> [n \in Names |-> Work(None, 0, 0)]]
<1>1. TidyInv
  BY TidyInit
<1>2. Work(None, 0, 0) \in Works
  BY DEF Work, Works
<1>3. h \in Histories
  BY <1>2 DEF Histories
<1>4. h.now = 0 /\ \A p \in Procs : h.begin[p] = 0
  OBVIOUS
<1>5. \A n \in Names : h.completing[n].to = 0
  BY DEF Work
<1>6. Complete = dirs /\ Sessions = {} /\ Complete \subseteq Names /\ dirs \in Found
  <2>1. \A n \in UNION Found : ~(n <= MaxNames)
    BY NamesAreNumbers
  <2>2. lastName = 0
    BY DEF Init
  <2> QED
    BY <2>2 DEF Init, Complete, Sessions, Names
<1> HIDE DEF h
<1>7. Old(h, 0, Complete) = Complete
  BY <1>5, <1>6 DEF Old
<1>8. AtMostTwo(Complete)
  BY <1>6, DirectoriesAssumption, AtMostTwoOfCardinality
<1>9. Explains(h, Complete, Sessions)
  <2>1. Dated(h, Complete, Sessions)
    BY <1>4, <1>5, <1>6, <1>7, <1>8 DEF Dated
  <2>2. Pruned(h, Complete, Sessions) /\ Joined(h, Complete, Sessions)
    BY <1>6 DEF Pruned, Joined
  <2>3. Orderly(h, Complete, Sessions)
    <3>1. \A n \in Names : h.completing[n] = Work(None, 0, 0)
      BY DEF h
    <3>2. Apart(Work(None, 0, 0), Work(None, 0, 0))
      BY DEF Apart, Work
    <3> QED
      BY <1>6, <3>1, <3>2 DEF Orderly
  <2> QED
    BY <1>3, <1>6, <2>1, <2>2, <2>3 DEF Explains
<1>10. ASSUME NEW p \in Procs PROVE Accounted(h, p)
  <2>1. pc[p] = "idle" /\ markers = {}
    BY DEF Init
  <2> QED
    BY <1>4, <2>1 DEF Accounted, Makes, Rested, Outruns, Finds, Pruning, Making
<1> QED
  BY <1>1, <1>9, <1>10 DEF BInv, Explicable

LEMMA BoundStep == BInv /\ [Next]_vars => BInv'
<1> SUFFICES ASSUME BInv, [Next]_vars PROVE BInv'
  OBVIOUS
<1>1. TidyInv /\ TidyInv'
  BY TidyStep DEF BInv
<1>2. PICK h : Explains(h, Complete, Sessions) /\ \A q \in Procs : Accounted(h, q)
  BY DEF BInv, Explicable
<1>3. ASSUME NEW p \in Procs, Prune(p) PROVE Explicable'
  <2>1. PruneFails(p) => Reset(p) /\ UNCHANGED files
    BY DEF PruneFails
  <2> QED
    BY <1>1, <1>2, <1>3, <2>1, StartExplicable, ReadEntryExplicable,
       LookForTraceExplicable,
       EndScanExplicable, OpenVictimExplicable, RemoveTraceExplicable,
       RemoveMarkerExplicable, RemoveDirectoryExplicable, ResetExplicable DEF Prune
<1>4. ASSUME NEW p \in Procs, Session(p) PROVE Explicable'
  BY <1>1, <1>2, <1>4, CreateDirectoryExplicable, MarkExplicable, OpenTraceExplicable,
     FinishExplicable DEF Session
<1>5. ASSUME NEW p \in Procs, Stop(p) PROVE Explicable'
  BY <1>1, <1>2, <1>5, ResetExplicable DEF Stop
<1>6. CASE UNCHANGED vars
  <2>1. Complete' = Complete /\ Sessions' = Sessions /\ markers' = markers
    BY <1>6 DEF vars, files, Complete, Sessions
  <2>2. ASSUME NEW q \in Procs PROVE Accounted(h, q)'
    <3>1. Rests(q) /\ Accounted(h, q)
      BY <1>2, <1>6 DEF vars, scan, Rests
    <3>2. h \in Histories /\ h.now <= h.now
      BY <1>2, HistoryTypes DEF Explains
    <3>3. Old(h, h.begin[q], Complete') \subseteq Old(h, h.begin[q], Complete)
      BY <2>1
    <3> QED
      BY <1>1, <2>1, <3>1, <3>2, <3>3, RestingFits
  <2>3. Explains(h, Complete', Sessions')
    BY <1>2, <2>1, ExplainsFewer
  <2>4. Explains(h, Complete', Sessions') /\ \A q \in Procs : Accounted(h, q)'
    BY <2>2, <2>3
  <2> QED
    BY <1>1, <2>4 DEF Explicable, BInv
<1> QED
  BY <1>1, <1>3, <1>4, <1>5, <1>6 DEF Next, BInv

\* prune_completed (execution_trace.rs:229): the completed traces stay few without any
\* lock, however many processes start, finish, prune and are killed in whatever order.
\* All but two of them are the last works of different processes.
THEOREM TracesStayFew == Spec => []TracesAreBounded
<1>1. BInv => TracesAreBounded
  <2> SUFFICES ASSUME BInv PROVE TracesAreBounded
    OBVIOUS
  <2>1. PICK h : Explains(h, Complete, Sessions)
    BY DEF BInv, Explicable
  <2>2. IsFiniteSet(Complete)
    BY FS_Subset DEF BInv, TidyInv, IInv, Types, Complete
  <2> QED
    BY <2>1, <2>2, ExplainedIsBounded DEF TracesAreBounded, Complete
<1> QED
  BY <1>1, BoundInit, BoundStep, PTL DEF Spec

-----------------------------------------------------------------------------
(* The events of a trace. *)

Optional == Nat \cup {Absent}

Ends == {"trace_truncated", "torn"}
Inner == {"trace_start", "call", "stage_start", "return", "stage_end", "trace_complete"}

Lines == [event : Inner \cup Ends, id : Optional, parent : Optional, depth : Optional,
          status : {Absent, "success", "failure"}]

TraceTypeOK ==
    /\ file \in Seq(Lines)
    /\ length \in Int /\ bytes \in Nat /\ next_identifier \in Nat
    /\ stopped \in BOOLEAN
    /\ parents \in Seq(Nat) /\ stack \in Seq(Optional)

\* While the writer writes, it has counted what is in the file and has kept the
\* bytes of the marker. When it has stopped, the marker may be there too.
Counted ==
    /\ bytes + Reserve <= MaxBytes
    /\ length <= bytes + (IF stopped THEN MarkerSize ELSE 0)

IsEnd(line) == line.event \in Ends

\* A line that ends the trace is the last one, and it has stopped the writer.
EndIsLast ==
    \A i \in DOMAIN file : IsEnd(file[i]) => i = Len(file) /\ stopped

TraceIInv == TraceTypeOK /\ Counted /\ EndIsLast

\* What Write may change.
written == <<file, length, bytes, stopped>>

-------------------------------------------------------------------------------
\* Write: the line of an operation does not end the trace, and the limit holds
\* after the line, after the marker, and after a part of either.
LEMMA WriteKeepsInv ==
    ASSUME TraceIInv, NEW event \in Lines, ~IsEnd(event), Write(event)
    PROVE  /\ file' \in Seq(Lines) /\ length' \in Int /\ bytes' \in Nat
           /\ stopped' \in BOOLEAN
           /\ Counted' /\ EndIsLast'
<1> DEFINE Goal == /\ file' \in Seq(Lines) /\ length' \in Int /\ bytes' \in Nat
                   /\ stopped' \in BOOLEAN
                   /\ Counted' /\ EndIsLast'
<1>1. CASE stopped
  BY <1>1 DEF Write, TraceIInv, TraceTypeOK, Counted, EndIsLast
<1>2. CASE ~stopped
  <2> DEFINE marker == Plain("trace_truncated")
  <2>1. marker \in Lines /\ Torn \in Lines /\ IsEnd(marker) /\ IsEnd(Torn)
    BY DEF Plain, Torn, Event, Lines, Inner, Ends, Optional, IsEnd
  <2>2. PICK size \in Sizes, failed \in BOOLEAN :
          \/ /\ ~Fits(size)
             /\ Output(marker, MarkerSize, failed)
             /\ stopped' = TRUE
             /\ UNCHANGED bytes
          \/ /\ Fits(size)
             /\ Output(event, size, failed)
             /\ bytes' = bytes + size
             /\ stopped' = failed
    BY <1>2 DEF Write
  <2> HIDE DEF marker
  <2>3. ASSUME NEW line \in Lines, NEW n \in Nat, Output(line, n, failed),
               failed \/ IsEnd(line) => stopped', stopped' \in BOOLEAN
        PROVE  file' \in Seq(Lines) /\ EndIsLast'
    <3>1. \A i \in DOMAIN file : ~IsEnd(file[i])
      BY <1>2 DEF TraceIInv, EndIsLast
    <3>2. file \in Seq(Lines)
      BY DEF TraceIInv, TraceTypeOK
    <3>3. CASE file' = file
      BY <3>1, <3>2, <3>3 DEF EndIsLast
    <3>4. ASSUME NEW l \in Lines, file' = Append(file, l), IsEnd(l) => stopped'
          PROVE  file' \in Seq(Lines) /\ EndIsLast'
      <4>1. file' \in Seq(Lines) /\ Len(file') = Len(file) + 1
        BY <3>2, <3>4
      <4>2. ASSUME NEW i \in DOMAIN file', IsEnd(file'[i])
            PROVE  i = Len(file')
        BY <3>1, <3>2, <3>4, <4>1, <4>2
      <4>3. ASSUME NEW i \in DOMAIN file', IsEnd(file'[i])
            PROVE  stopped'
        BY <3>2, <3>4, <4>1, <4>2, <4>3
      <4> QED
        BY <4>1, <4>2, <4>3 DEF EndIsLast, IsEnd
    <3>5. file \o <<>> = file /\ file \o <<Torn>> = Append(file, Torn)
      BY <2>1, <3>2
    <3>6. CASE failed
      <4>1. file' = file \/ file' = Append(file, Torn)
        BY <2>3, <3>5, <3>6 DEF Output
      <4> QED
        BY <2>1, <2>3, <3>3, <3>4, <3>6, <4>1
    <3>7. CASE ~failed
      BY <2>3, <3>4, <3>7 DEF Output
    <3> QED
      BY <3>6, <3>7
  <2>4. /\ MaxBytes \in Nat /\ Reserve \in Nat /\ MarkerSize \in Nat /\ size \in Nat
        /\ MarkerSize <= Reserve
    BY SizesAssumption
  <2>5. CASE /\ ~Fits(size)
             /\ Output(marker, MarkerSize, failed)
             /\ stopped' = TRUE
             /\ UNCHANGED bytes
    <3>1. file' \in Seq(Lines) /\ EndIsLast'
      BY <2>1, <2>3, <2>4, <2>5
    <3>2. length' \in Int /\ Counted'
      BY <1>2, <2>4, <2>5 DEF TraceIInv, TraceTypeOK, Counted, Output
    <3> QED
      BY <2>5, <3>1, <3>2 DEF TraceIInv, TraceTypeOK
  <2>6. CASE /\ Fits(size)
             /\ Output(event, size, failed)
             /\ bytes' = bytes + size
             /\ stopped' = failed
    <3>1. file' \in Seq(Lines) /\ EndIsLast'
      BY <2>3, <2>4, <2>6
    <3>2. length' \in Int /\ bytes' \in Nat /\ Counted'
      BY <1>2, <2>4, <2>6 DEF TraceIInv, TraceTypeOK, Counted, Output, Fits
    <3> QED
      BY <2>6, <3>1, <3>2
  <2> QED
    BY <2>2, <2>5, <2>6
<1> QED
  BY <1>1, <1>2 DEF TraceIInv, TraceTypeOK

\* An event that the program writes is a line and does not end the trace.
LEMMA EventIsLine ==
    ASSUME NEW event \in Inner, NEW id \in Optional,
           NEW parent \in Optional, NEW depth \in Optional, NEW status \in {Absent, "success", "failure"}
    PROVE  LET line == Event(event, id, parent, depth, status)
           IN  line \in Lines /\ ~IsEnd(line)
BY DEF Event, Lines, Inner, Ends, IsEnd

-------------------------------------------------------------------------------
LEMMA TraceInitInv == TraceInit => TraceIInv
<1> SUFFICES ASSUME TraceInit PROVE TraceIInv
  OBVIOUS
<1>1. /\ MaxBytes \in Nat /\ Reserve \in Nat /\ MarkerSize \in Nat /\ Reserve <= MaxBytes
  BY SizesAssumption
<1>2. TraceTypeOK
  <2>1. stopped \in BOOLEAN
    BY Zenon DEF TraceInit
  <2>2. file = <<>> /\ length = 0 /\ next_identifier = 1 /\ parents = <<>> /\ bytes = 0
    BY Zenon DEF TraceInit
  <2>3. stack = <<>>
    BY Zenon DEF TraceInit
  <2> QED
    BY <2>1, <2>2, <2>3 DEF TraceTypeOK
<1>3. Counted
  BY <1>1 DEF TraceInit, Counted
<1>4. EndIsLast
  BY DEF TraceInit, EndIsLast
<1> QED
  BY <1>2, <1>3, <1>4 DEF TraceIInv

\* begin
LEMMA BeginKeepsInv ==
    ASSUME TraceIInv, NEW stage \in BOOLEAN, Begin(stage)
    PROVE  TraceIInv'
<1>1. CASE IsTraced(stage)
  <2> DEFINE parent == IF parents = <<>> THEN Absent ELSE Last(parents)
             depth == IF calls THEN Absent ELSE Len(parents)
             line == Event(IF calls THEN "call" ELSE "stage_start", next_identifier,
                           parent, depth, Absent)
  <2>1. parent \in Optional /\ depth \in Optional /\ next_identifier \in Optional
    BY DEF TraceIInv, TraceTypeOK, Last, Optional
  <2>2. line \in Lines /\ ~IsEnd(line)
    BY <2>1, EventIsLine DEF Inner, Optional
  <2>3. Write(line)
    BY <1>1 DEF Begin
  <2> HIDE DEF line
  <2>4. /\ next_identifier' \in Nat /\ parents' \in Seq(Nat) /\ stack' \in Seq(Optional)
    <3>1. /\ next_identifier' = next_identifier + 1
          /\ parents' = Append(parents, next_identifier)
          /\ stack' = Append(stack, next_identifier)
      BY <1>1, Zenon DEF Begin
    <3> QED
      BY <2>1, <3>1 DEF TraceIInv, TraceTypeOK
  <2> QED
    BY <2>2, <2>3, <2>4, WriteKeepsInv DEF TraceIInv, TraceTypeOK
<1>2. CASE ~IsTraced(stage)
  <2>1. Absent \in Optional
    BY DEF Optional
  <2>2. stack' \in Seq(Optional)
    <3>1. stack' = Append(stack, Absent)
      BY <1>2, Zenon DEF Begin
    <3> QED
      BY <2>1, <3>1 DEF TraceIInv, TraceTypeOK
  <2> QED
    BY <1>2, <2>2 DEF Begin, TraceIInv, TraceTypeOK, Counted, EndIsLast
<1> QED
  BY <1>1, <1>2

\* end
LEMMA EndKeepsInv ==
    ASSUME TraceIInv, NEW status \in {"success", "failure"}, End(status)
    PROVE  TraceIInv'
<1> DEFINE id == Last(stack)
<1>1. stack \in Seq(Optional) /\ stack # <<>> /\ parents \in Seq(Nat)
  BY DEF End, TraceIInv, TraceTypeOK
<1>2. id \in Optional /\ stack' \in Seq(Optional)
  BY <1>1 DEF End, Last, Front
<1>3. ParentsAfter(id) \in Seq(Nat)
  BY <1>1 DEF ParentsAfter, Front
<1>4. UNCHANGED next_identifier
  BY DEF End
<1>5. CASE id = Absent
  BY <1>2, <1>4, <1>5 DEF End, TraceIInv, TraceTypeOK, Counted, EndIsLast
<1>6. CASE id # Absent
  <2> DEFINE line == Event(IF calls THEN "return" ELSE "stage_end", id, Absent, Absent, status)
  <2>1. line \in Lines /\ ~IsEnd(line)
    BY <1>2, EventIsLine DEF Inner, Optional
  <2>2. Write(line) /\ parents' = ParentsAfter(id)
    BY <1>6 DEF End
  <2> HIDE DEF line
  <2> QED
    BY <1>2, <1>3, <1>4, <2>1, <2>2, WriteKeepsInv DEF TraceIInv, TraceTypeOK
<1> QED
  BY <1>5, <1>6

LEMMA TraceStepInv == TraceIInv /\ [TraceNext]_traceVars => TraceIInv'
<1> SUFFICES ASSUME TraceIInv, [TraceNext]_traceVars PROVE TraceIInv'
  OBVIOUS
<1>1. CASE StartTrace
  <2>1. Plain("trace_start") \in Lines /\ ~IsEnd(Plain("trace_start"))
    BY DEF Plain, Event, Lines, Inner, Ends, Optional, IsEnd
  <2>2. Write(Plain("trace_start")) /\ UNCHANGED <<next_identifier, parents, stack>>
    BY <1>1 DEF StartTrace
  <2> QED
    BY <2>1, <2>2, WriteKeepsInv DEF TraceIInv, TraceTypeOK
<1>2. CASE Kill
  BY <1>2 DEF Kill, TraceIInv, TraceTypeOK, Counted, EndIsLast, writer
<1>3. ASSUME NEW stage \in BOOLEAN, Begin(stage) PROVE TraceIInv'
  BY <1>3, BeginKeepsInv
<1>4. ASSUME NEW status \in {"success", "failure"}, End(status) PROVE TraceIInv'
  BY <1>4, EndKeepsInv
<1>5. ASSUME NEW status \in {"success", "failure"}, FinishTrace(status) PROVE TraceIInv'
  <2> DEFINE line == Event("trace_complete", Absent, Absent, Absent, status)
  <2>1. line \in Lines /\ ~IsEnd(line)
    BY EventIsLine DEF Inner, Optional
  <2>2. Write(line) /\ stack' = <<>> /\ UNCHANGED <<next_identifier, parents>>
    BY <1>5 DEF FinishTrace
  <2> HIDE DEF line
  <2> QED
    BY <2>1, <2>2, WriteKeepsInv DEF TraceIInv, TraceTypeOK
<1>6. CASE UNCHANGED traceVars
  BY <1>6 DEF traceVars, writer, TraceIInv, TraceTypeOK, Counted, EndIsLast
<1> QED
  BY <1>1, <1>2, <1>3, <1>4, <1>5, <1>6 DEF TraceNext

-------------------------------------------------------------------------------
\* In every reachable state the inductive invariant holds.
THEOREM TraceInvariance == TraceSpec => []TraceIInv
<1> QED
  BY TraceInitInv, TraceStepInv, PTL DEF TraceSpec

\* TraceWriter::write (execution_trace.rs:34): whatever the lengths of the events
\* and whichever write fails, the file stays within its limit, the marker of the
\* cut included, and nothing follows the marker or a line that is torn.
THEOREM LimitHolds == TraceSpec => []TraceIsBounded
<1>1. TraceIInv => TraceIsBounded
  <2> SUFFICES ASSUME TraceIInv PROVE TraceIsBounded
    OBVIOUS
  <2>1. /\ MaxBytes \in Nat /\ Reserve \in Nat /\ MarkerSize \in Nat
        /\ MarkerSize <= Reserve
    BY SizesAssumption
  <2>2. length <= MaxBytes
    BY <2>1 DEF TraceIInv, TraceTypeOK, Counted
  <2> QED
    BY <2>2 DEF TraceIInv, EndIsLast, IsEnd, Ends, TraceIsBounded
<1> QED
  BY <1>1, TraceInvariance, PTL
-------------------------------------------------------------------------------
(* Folds over sequences, which the summary is made of. *)

LEMMA NumberInduction ==
    ASSUME NEW P, 0 \in P, \A n \in Nat : n \in P => n + 1 \in P
    PROVE  Nat \subseteq P
<1> SUFFICES ASSUME Nat \ P # {} PROVE FALSE
  OBVIOUS
<1>1. PICK m \in Nat \ P : \A n \in Nat \ P : m <= n
  BY LeastNumber
<1>2. m # 0 /\ m - 1 \in Nat /\ ~(m <= m - 1)
  BY <1>1
<1>3. m - 1 \in P
  BY <1>1, <1>2
<1>4. (m - 1) + 1 = m
  BY <1>1
<1> QED
  BY <1>1, <1>2, <1>3, <1>4

\* A fold over a sequence of n elements goes through the subsets of its places.
FoldsOf(X, n, base, step) ==
    {g \in [SUBSET (1 .. n) -> X] :
        /\ g[{}] = base
        /\ \A s \in SUBSET (1 .. n) : s # {} =>
              Max(s) \in 1 .. n /\ g[s] = step[<<g[s \ {Max(s)}], Max(s)>>]}

LEMMA MaxIs ==
    ASSUME NEW s, NEW m \in Nat, m \in s, \A x \in s : x \in Nat /\ x <= m
    PROVE  Max(s) = m
<1>1. m \in s /\ \A y \in s : m >= y
  OBVIOUS
<1>2. ASSUME NEW x \in s, \A y \in s : x >= y PROVE x = m
  BY <1>2
<1> QED
  BY <1>1, <1>2 DEF Max

\* There is such a fold, so that the one that FoldLeft chooses is one.
LEMMA FoldExists ==
    ASSUME NEW X, NEW n \in Nat, NEW base \in X, NEW step \in [X \X (1 .. n) -> X]
    PROVE  FoldsOf(X, n, base, step) # {}
<1> DEFINE Solved == {m \in Nat : m <= n => FoldsOf(X, m, base, step) # {}}
<1>1. 0 \in Solved
  <2> DEFINE g == [s \in SUBSET (1 .. 0) |-> base]
  <2>1. \A s \in SUBSET (1 .. 0) : s = {}
    OBVIOUS
  <2>2. g \in [SUBSET (1 .. 0) -> X] /\ g[{}] = base
    OBVIOUS
  <2> HIDE DEF g
  <2>3. g \in FoldsOf(X, 0, base, step)
    BY <2>1, <2>2 DEF FoldsOf
  <2> QED
    BY <2>3
<1>2. ASSUME NEW m \in Nat, m \in Solved PROVE m + 1 \in Solved
  <2> SUFFICES ASSUME m + 1 <= n PROVE FoldsOf(X, m + 1, base, step) # {}
    OBVIOUS
  <2>0. m <= n
    OBVIOUS
  <2>1. PICK f : f \in FoldsOf(X, m, base, step)
    BY <1>2, <2>0
  <2>a. /\ f \in [SUBSET (1 .. m) -> X] /\ f[{}] = base
        /\ \A s \in SUBSET (1 .. m) : s # {} =>
             Max(s) \in 1 .. m /\ f[s] = step[<<f[s \ {Max(s)}], Max(s)>>]
    BY <2>1 DEF FoldsOf
  <2> DEFINE All == SUBSET (1 .. m + 1)
             g == [s \in All |-> IF m + 1 \in s THEN step[<<f[s \ {m + 1}], m + 1>>] ELSE f[s]]
  <2>2. \A s \in All : /\ s \ {m + 1} \in SUBSET (1 .. m)
                       /\ m + 1 \notin s => s \in SUBSET (1 .. m)
    OBVIOUS
  <2>3. ASSUME NEW s \in All PROVE g[s] \in X
    <3>1. CASE m + 1 \in s
      <4>1. f[s \ {m + 1}] \in X /\ m + 1 \in 1 .. n
        BY <2>a, <2>2
      <4>2. step[<<f[s \ {m + 1}], m + 1>>] \in X
        BY <4>1
      <4> QED
        BY <3>1, <4>2
    <3>2. CASE m + 1 \notin s
      BY <2>a, <2>2, <3>2
    <3> QED
      BY <3>1, <3>2
  <2>4. g \in [All -> X]
    BY <2>3
  <2>5. g[{}] = base
    BY <2>a
  <2>6. ASSUME NEW s \in All, s # {}
        PROVE  Max(s) \in 1 .. m + 1 /\ g[s] = step[<<g[s \ {Max(s)}], Max(s)>>]
    <3>1. CASE m + 1 \in s
      <4>1. Max(s) = m + 1
        <5>1. \A x \in s : x \in Nat /\ x <= m + 1
          OBVIOUS
        <5>2. m + 1 \in Nat
          OBVIOUS
        <5> QED
          BY <3>1, <5>1, <5>2, MaxIs
      <4>2. s \ {m + 1} \in All /\ g[s \ {m + 1}] = f[s \ {m + 1}]
        BY <2>2
      <4> QED
        BY <3>1, <4>1, <4>2
    <3>2. CASE m + 1 \notin s
      <4>1. s \in SUBSET (1 .. m) /\ s \ {Max(s)} \in All /\ m + 1 \notin s \ {Max(s)}
        BY <2>2, <3>2
      <4>2. g[s] = f[s] /\ g[s \ {Max(s)}] = f[s \ {Max(s)}]
        BY <3>2, <4>1
      <4>3. Max(s) \in 1 .. m + 1 /\ f[s] = step[<<f[s \ {Max(s)}], Max(s)>>]
        BY <2>a, <2>6, <4>1
      <4> QED
        BY <4>2, <4>3
    <3> QED
      BY <3>1, <3>2
  <2> HIDE DEF g
  <2>7. g \in FoldsOf(X, m + 1, base, step)
    BY <2>4, <2>5, <2>6 DEF FoldsOf
  <2> QED
    BY <2>7
<1> HIDE DEF Solved
<1>3. n \in Solved
  BY <1>1, <1>2, NumberInduction
<1> QED
  BY <1>3 DEF Solved

LEMMA MaxOfInterval ==
    ASSUME NEW n \in Nat, n # 0
    PROVE  Max(1 .. n) = n
<1> DEFINE s == 1 .. n
<1>1. n \in s /\ \A x \in s : x \in Nat /\ x <= n
  OBVIOUS
<1> HIDE DEF s
<1>2. Max(s) = n
  BY <1>1, MaxIs
<1> QED
  BY <1>2 DEF s


Statuses == {"incomplete", "success", "failure"}
Spans == [depth : Nat, status : Statuses]

\* The lines that the writer writes, and torn ones.
Written == {line \in Lines :
    /\ line.event = "torn" => line = Torn
    /\ line.event \in {"return", "stage_end", "trace_complete"} =>
          line.status \in {"success", "failure"}}

Summaries == {s \in [metadata : BOOLEAN, status : Statuses, spans : Seq(Spans),
                     order : Seq(Optional), truncated : BOOLEAN, error : BOOLEAN] :
                 Len(s.order) = Len(s.spans)}

LEMMA PositionIs ==
    ASSUME NEW s \in Summaries, NEW id, Known(s, id)
    PROVE  Position(s, id) \in DOMAIN s.spans /\ s.order[Position(s, id)] = id
<1>1. Position(s, id) \in DOMAIN s.order /\ s.order[Position(s, id)] = id
  BY DEF Known, Position
<1>2. DOMAIN s.order = DOMAIN s.spans
  BY DEF Summaries
<1> QED
  BY <1>1, <1>2

LEMMA SpanEnds ==
    ASSUME NEW list \in Seq(Spans), NEW i \in DOMAIN list, NEW status \in Statuses
    PROVE  /\ [list EXCEPT ![i].status = status] \in Seq(Spans)
           /\ Len([list EXCEPT ![i].status = status]) = Len(list)
<1> DEFINE new == [list EXCEPT ![i].status = status]
<1>1. /\ Len(list) \in Nat /\ DOMAIN list = 1 .. Len(list)
      /\ \A j \in 1 .. Len(list) : list[j] \in Spans
  BY LenProperties, ElementOfSeq
<1>2. [list[i] EXCEPT !.status = status] \in Spans
  BY <1>1 DEF Spans
<1>3. \A j \in 1 .. Len(list) : new[j] \in Spans
  BY <1>1, <1>2
<1>4. DOMAIN new = 1 .. Len(list)
  BY <1>1
<1>5. new \in [1 .. Len(list) -> Spans]
  BY <1>1, <1>3, <1>4
<1> QED
  BY <1>1, <1>5, LenProperties

LEMMA RecordType ==
    ASSUME NEW s \in Summaries, NEW line \in Written
    PROVE  Record(s, line) \in Summaries
<1>1. /\ s \in [metadata : BOOLEAN, status : Statuses, spans : Seq(Spans),
                order : Seq(Optional), truncated : BOOLEAN, error : BOOLEAN]
      /\ Len(s.order) = Len(s.spans) /\ Len(s.spans) \in Nat
  BY LenProperties DEF Summaries
<1>2. line \in Lines /\ (line.event = "torn" => line = Torn)
  BY DEF Written
<1>3. line.id \in Optional /\ line.depth \in Optional /\ line.parent \in Optional
  BY <1>2 DEF Lines
<1>4. [s EXCEPT !.error = TRUE] \in Summaries
  BY <1>1 DEF Summaries
<1>5. CASE s.error \/ line = Torn
  BY <1>4, <1>5 DEF Record
<1>6. CASE ~s.error /\ line # Torn /\ line.event = "trace_start"
  <2>1. Record(s, line) = [s EXCEPT !.metadata = TRUE]
    BY <1>6 DEF Record
  <2> QED
    BY <1>1, <2>1 DEF Summaries
<1>7. CASE ~s.error /\ line # Torn /\ line.event = "trace_truncated"
  <2>1. Record(s, line) = [s EXCEPT !.truncated = TRUE]
    BY <1>7 DEF Record
  <2> QED
    BY <1>1, <2>1 DEF Summaries
<1>8. CASE ~s.error /\ line # Torn /\ line.event = "trace_complete"
  <2>1. Record(s, line) \in {[s EXCEPT !.status = line.status], [s EXCEPT !.error = TRUE]}
    BY <1>8 DEF Record
  <2>2. line.status \in Statuses
    BY <1>2, <1>8 DEF Written, Lines, Statuses
  <2>3. [s EXCEPT !.status = line.status] \in Summaries
    BY <1>1, <2>2 DEF Summaries
  <2> QED
    BY <1>4, <2>1, <2>3
<1>9. CASE ~s.error /\ line # Torn /\ line.event \in {"return", "stage_end"}
  <2>1. Record(s, line) = EndSpan(s, line)
    BY <1>9 DEF Record
  <2>2. CASE Known(s, line.id)
    <3> DEFINE i == Position(s, line.id)
               ended == [s.spans EXCEPT ![i].status = line.status]
    <3>1. i \in DOMAIN s.spans
      BY <2>2, PositionIs
    <3>2. line.status \in Statuses
      BY <1>2, <1>9 DEF Written, Lines, Statuses
    <3>3. EndSpan(s, line) = [s EXCEPT !.spans = ended]
      BY <1>1, <2>2 DEF EndSpan
    <3> HIDE DEF i
    <3>4. ended \in Seq(Spans) /\ Len(ended) = Len(s.spans)
      BY <1>1, <3>1, <3>2, SpanEnds
    <3> HIDE DEF ended
    <3> QED
      BY <1>1, <2>1, <3>3, <3>4 DEF Summaries
  <2> QED
    BY <2>1, <2>2 DEF EndSpan
<1>10. CASE ~s.error /\ line # Torn /\ line.event \in {"call", "stage_start"}
  <2> DEFINE depth == IF line.depth # Absent THEN line.depth
                      ELSE IF line.parent # Absent /\ Known(s, line.parent)
                      THEN s.spans[Position(s, line.parent)].depth + 1 ELSE 0
             span == [depth |-> depth, status |-> "incomplete"]
  <2>1. Record(s, line) = AddSpan(s, line)
    BY <1>10 DEF Record
  <2>2. depth \in Nat
    <3>1. CASE line.depth = Absent /\ line.parent # Absent /\ Known(s, line.parent)
      <4>1. s.spans[Position(s, line.parent)] \in Spans
        BY <1>1, <3>1, PositionIs, ElementOfSeq
      <4> QED
        BY <3>1, <4>1 DEF Spans
    <3> QED
      BY <1>3, <3>1 DEF Optional
  <2>3. AddSpan(s, line) \in {[s EXCEPT !.error = TRUE],
            [s EXCEPT !.order = Append(@, line.id), !.spans = Append(@, span)]}
    BY DEF AddSpan
  <2>4. [s EXCEPT !.order = Append(@, line.id), !.spans = Append(@, span)] \in Summaries
    <3>1. span \in Spans
      BY <2>2 DEF Spans, Statuses
    <3> HIDE DEF span
    <3>2. /\ Append(s.spans, span) \in Seq(Spans) /\ Append(s.order, line.id) \in Seq(Optional)
          /\ Len(Append(s.spans, span)) = Len(s.spans) + 1
          /\ Len(Append(s.order, line.id)) = Len(s.spans) + 1
      BY <1>1, <1>3, <3>1, AppendProperties
    <3> QED
      BY <1>1, <3>2 DEF Summaries
  <2> QED
    BY <1>4, <2>1, <2>3, <2>4
<1>11. line.event \in Inner \cup Ends
  BY <1>2 DEF Lines
<1> QED
  BY <1>2, <1>5, <1>6, <1>7, <1>8, <1>9, <1>10, <1>11 DEF Inner, Ends

-------------------------------------------------------------------------------
SummaryOf(lines) == FoldLeft(Record, Empty, lines)

\* A fold over the lines: a summary for each set of them.
IsFold(g, lines) ==
    g = [s \in SUBSET DOMAIN lines |->
            IF s = {} THEN Empty ELSE Record(g[s \ {Max(s)}], lines[Max(s)])]

LEMMA EmptyIsSummary == Empty \in Summaries
<1>1. <<>> \in Seq(Spans) /\ <<>> \in Seq(Optional)
  BY EmptySeq
<1> QED
  BY <1>1 DEF Empty, Summaries, Statuses

LEMMA SummaryIsFold ==
    ASSUME NEW lines \in Seq(Written)
    PROVE  \E g : IsFold(g, lines) /\ SummaryOf(lines) = g[DOMAIN lines]
<1> DEFINE n == Len(lines)
           Body(g) == [s \in SUBSET DOMAIN lines |->
                         IF s = {} THEN Empty ELSE Record(g[s \ {Max(s)}], lines[Max(s)])]
           fold == CHOOSE g : g = Body(g)
           step == [pair \in Summaries \X (1 .. n) |-> Record(pair[1], lines[pair[2]])]
<1>1. n \in Nat /\ DOMAIN lines = 1 .. n /\ \A i \in 1 .. n : lines[i] \in Written
  BY LenProperties, ElementOfSeq
<1>2. SummaryOf(lines) = fold[DOMAIN lines]
  BY DEF SummaryOf, FoldLeft, MapThenFoldSet
<1> HIDE DEF n
<1>3. \A x \in Summaries, i \in 1 .. n : Record(x, lines[i]) \in Summaries
  BY <1>1, RecordType
<1>4. /\ step \in [Summaries \X (1 .. n) -> Summaries]
      /\ \A x \in Summaries, i \in 1 .. n : step[<<x, i>>] = Record(x, lines[i])
  BY <1>3
<1> HIDE DEF step
<1>5. PICK g : g \in FoldsOf(Summaries, n, Empty, step)
  BY <1>1, <1>4, EmptyIsSummary, FoldExists
<1>6. g \in [SUBSET (1 .. n) -> Summaries]
  BY <1>5 DEF FoldsOf
<1>7. g = Body(g)
  <2>1. ASSUME NEW s \in SUBSET (1 .. n) PROVE g[s] = Body(g)[s]
    <3>1. CASE s = {}
      BY <1>1, <1>5, <3>1 DEF FoldsOf
    <3>2. CASE s # {}
      <4>1. Max(s) \in 1 .. n /\ g[s] = step[<<g[s \ {Max(s)}], Max(s)>>]
        BY <1>5, <3>2 DEF FoldsOf
      <4>2. g[s \ {Max(s)}] \in Summaries
        BY <1>6
      <4> QED
        BY <1>1, <1>4, <3>2, <4>1, <4>2
    <3> QED
      BY <3>1, <3>2
  <2> QED
    BY <1>1, <1>6, <2>1
<1>8. fold = Body(fold)
  BY <1>7
<1> HIDE DEF fold
<1>9. IsFold(fold, lines)
  BY <1>8 DEF IsFold
<1> QED
  BY <1>2, <1>9

LEMMA FoldSteps ==
    ASSUME NEW lines \in Seq(Written), NEW g, IsFold(g, lines)
    PROVE  /\ g[{}] = Empty
           /\ \A m \in 1 .. Len(lines) : g[1 .. m] = Record(g[1 .. m - 1], lines[m])
<1>1. Len(lines) \in Nat /\ DOMAIN lines = 1 .. Len(lines)
  BY LenProperties
<1>2. g[{}] = Empty
  BY DEF IsFold
<1>3. ASSUME NEW m \in 1 .. Len(lines)
      PROVE  g[1 .. m] = Record(g[1 .. m - 1], lines[m])
  <2>1. m \in Nat /\ m # 0 /\ 1 .. m \in SUBSET (1 .. Len(lines)) /\ m \in 1 .. m
    BY <1>1
  <2>2. Max(1 .. m) = m
    BY <2>1, MaxOfInterval
  <2>3. (1 .. m) \ {m} = 1 .. m - 1
    BY <2>1
  <2>4. g[1 .. m] = Record(g[(1 .. m) \ {Max(1 .. m)}], lines[Max(1 .. m)])
    BY <1>1, <2>1 DEF IsFold
  <2> QED
    BY <2>2, <2>3, <2>4
<1> QED
  BY <1>2, <1>3

\* The summary of no lines, and with one more line.
LEMMA SummaryOfNone == SummaryOf(<<>>) = Empty
<1>1. <<>> \in Seq(Written) /\ DOMAIN <<>> = {}
  BY EmptySeq
<1>2. PICK g : IsFold(g, <<>>) /\ SummaryOf(<<>>) = g[DOMAIN <<>>]
  BY <1>1, SummaryIsFold
<1> QED
  BY <1>1, <1>2, FoldSteps

LEMMA SummaryOfAppend ==
    ASSUME NEW lines \in Seq(Written), NEW line \in Written
    PROVE  SummaryOf(Append(lines, line)) = Record(SummaryOf(lines), line)
<1> DEFINE more == Append(lines, line)
           n == Len(lines)
<1>1. /\ n \in Nat /\ DOMAIN lines = 1 .. n
      /\ more \in Seq(Written) /\ Len(more) = n + 1 /\ DOMAIN more = 1 .. n + 1
      /\ \A m \in 1 .. n : more[m] = lines[m]
      /\ more[n + 1] = line
  BY LenProperties, AppendProperties
<1>2. PICK g : IsFold(g, lines) /\ SummaryOf(lines) = g[DOMAIN lines]
  BY SummaryIsFold
<1>3. PICK h : IsFold(h, more) /\ SummaryOf(more) = h[DOMAIN more]
  BY <1>1, SummaryIsFold
<1> HIDE DEF more, n
<1>4. /\ g[{}] = Empty
      /\ \A m \in 1 .. n : g[1 .. m] = Record(g[1 .. m - 1], lines[m])
  BY <1>2, FoldSteps DEF n
<1>5. /\ h[{}] = Empty
      /\ \A m \in 1 .. n + 1 : h[1 .. m] = Record(h[1 .. m - 1], more[m])
  BY <1>1, <1>3, FoldSteps
<1> DEFINE Same == {m \in Nat : m <= n => g[1 .. m] = h[1 .. m]}
<1>6. 0 \in Same
  <2>1. 1 .. 0 = {}
    OBVIOUS
  <2> QED
    BY <1>4, <1>5, <2>1
<1>7. ASSUME NEW m \in Nat, m \in Same PROVE m + 1 \in Same
  <2> SUFFICES ASSUME m + 1 <= n PROVE g[1 .. m + 1] = h[1 .. m + 1]
    OBVIOUS
  <2>1. m + 1 \in 1 .. n /\ m + 1 \in 1 .. n + 1 /\ (m + 1) - 1 = m
    BY <1>1
  <2>2. g[1 .. m] = h[1 .. m]
    BY <1>1, <1>7
  <2> QED
    BY <1>1, <1>4, <1>5, <2>1, <2>2
<1> HIDE DEF Same
<1>8. n \in Same
  BY <1>1, <1>6, <1>7, NumberInduction
<1>9. g[1 .. n] = h[1 .. n]
  BY <1>1, <1>8 DEF Same
<1>10. n + 1 \in 1 .. n + 1 /\ (n + 1) - 1 = n
  BY <1>1
<1>11. h[1 .. n + 1] = Record(h[1 .. n], line)
  BY <1>1, <1>5, <1>10
<1> QED
  BY <1>1, <1>2, <1>3, <1>9, <1>11 DEF more

LEMMA SummaryType ==
    ASSUME NEW lines \in Seq(Written)
    PROVE  SummaryOf(lines) \in Summaries
<1> DEFINE n == Len(lines)
<1>1. n \in Nat /\ DOMAIN lines = 1 .. n /\ \A i \in 1 .. n : lines[i] \in Written
  BY LenProperties, ElementOfSeq
<1>2. PICK g : IsFold(g, lines) /\ SummaryOf(lines) = g[DOMAIN lines]
  BY SummaryIsFold
<1>3. /\ g[{}] = Empty
      /\ \A m \in 1 .. n : g[1 .. m] = Record(g[1 .. m - 1], lines[m])
  BY <1>2, FoldSteps
<1> HIDE DEF n
<1> DEFINE Typed == {m \in Nat : m <= n => g[1 .. m] \in Summaries}
<1>4. 0 \in Typed
  <2>1. 1 .. 0 = {}
    OBVIOUS
  <2> QED
    BY <1>3, <2>1, EmptyIsSummary
<1>5. ASSUME NEW m \in Nat, m \in Typed PROVE m + 1 \in Typed
  <2> SUFFICES ASSUME m + 1 <= n PROVE g[1 .. m + 1] \in Summaries
    OBVIOUS
  <2>1. m + 1 \in 1 .. n /\ (m + 1) - 1 = m
    BY <1>1
  <2>2. g[1 .. m] \in Summaries
    BY <1>1, <1>5
  <2> QED
    BY <1>1, <1>3, <2>1, <2>2, RecordType
<1> HIDE DEF Typed
<1>6. n \in Typed
  BY <1>1, <1>4, <1>5, NumberInduction
<1> QED
  BY <1>1, <1>2, <1>6 DEF Typed

-------------------------------------------------------------------------------
(* The invariant of the summary. *)

TracePhases == {"new", "running", "killed", "success", "failure"}

\* The operations that have been in the trace are numbered as they started.
Numbered ==
    /\ phase \in TracePhases /\ file \in Seq(Written)
    /\ spans \in Seq(Spans) /\ next_identifier = Len(spans) + 1
    /\ phase = "new" => /\ file = <<>> /\ spans = <<>> /\ stack = <<>> /\ parents = <<>>
                        /\ ~stopped

\* How many of the first i operations of a stack are in the trace?
Rank(operations, i) == Cardinality({j \in Traced(operations) : j <= i})

\* The list has the operations of a stack that are in the trace.
Lists(operations, list) ==
    /\ Len(list) = Cardinality(Traced(operations))
    /\ \A i \in Traced(operations) :
          Rank(operations, i) \in DOMAIN list /\ operations[i] = list[Rank(operations, i)]

\* The parents are the operations that run, each at its depth.
Nested ==
    phase = "running" =>
        /\ Lists(stack, parents)
        /\ \A j \in DOMAIN parents :
              /\ parents[j] \in DOMAIN spans
              /\ spans[parents[j]] = [depth |-> j - 1, status |-> "incomplete"]

\* What a summary has is what happened, as far as it goes.
Agrees(s, list) ==
    /\ s \in Summaries
    /\ \A i \in DOMAIN s.spans :
          /\ s.order[i] = i /\ i \in DOMAIN list
          /\ s.spans[i].depth = list[i].depth
          /\ s.spans[i].status \in {list[i].status, "incomplete"}

\* ... and it is all that happened.
ShownWhole(s, list, now) ==
    /\ ~s.error /\ s.spans = list
    /\ now # "new" => s.metadata
    /\ now \in {"success", "failure"} => s.status = now

Shown ==
    /\ Agrees(Summary, spans)
    /\ Summary.error <=> file # <<>> /\ Last(file) = Torn
    /\ Summary.status \in {phase, "incomplete"}
    /\ ~stopped => ShownWhole(Summary, spans, phase)

SInv == TraceIInv /\ Numbered /\ Nested /\ Shown

LEMMA TracedPush ==
    ASSUME NEW below \in Seq(Optional), NEW id \in Optional
    PROVE  LET all == Append(below, id)
           IN  /\ all \in Seq(Optional) /\ Len(all) = Len(below) + 1 /\ all[Len(below) + 1] = id
               /\ Traced(all) = Traced(below) \cup
                                 (IF id = Absent THEN {} ELSE {Len(below) + 1})
               /\ \A i \in Traced(below) :
                     all[i] = below[i] /\ Rank(all, i) = Rank(below, i)
               /\ IsFiniteSet(Traced(below)) /\ Cardinality(Traced(below)) \in Nat
               /\ Cardinality(Traced(below)) <= Len(below)
               /\ \A i \in Traced(below) : Rank(below, i) \in 1 .. Cardinality(Traced(below))
<1> DEFINE all == Append(below, id)
           n == Len(below)
<1>1. /\ n \in Nat /\ DOMAIN below = 1 .. n
      /\ all \in Seq(Optional) /\ Len(all) = n + 1 /\ DOMAIN all = 1 .. n + 1
      /\ \A i \in 1 .. n : all[i] = below[i]
      /\ all[n + 1] = id
  BY LenProperties, AppendProperties
<1> HIDE DEF all, n
<1>2. Traced(all) = Traced(below) \cup (IF id = Absent THEN {} ELSE {n + 1})
  <2>1. \A i : i \in 1 .. n + 1 <=> i \in 1 .. n \/ i = n + 1
    BY <1>1
  <2> QED
    BY <1>1, <2>1 DEF Traced
<1>3. Traced(below) \subseteq 1 .. n
  BY <1>1 DEF Traced
<1>4. IsFiniteSet(1 .. n) /\ Cardinality(1 .. n) = n
  <2>1. 1 \in Int /\ n \in Int
    BY <1>1
  <2> QED
    BY <1>1, <2>1, FS_Interval
<1>5. IsFiniteSet(Traced(below)) /\ Cardinality(Traced(below)) <= n
  BY <1>3, <1>4, FS_Subset
<1>6. Cardinality(Traced(below)) \in Nat
  BY <1>5, FS_CardinalityType
<1>7. ASSUME NEW i \in Traced(below)
      PROVE  all[i] = below[i] /\ Rank(all, i) = Rank(below, i)
  <2>1. i \in 1 .. n /\ ~(n + 1 <= i)
    BY <1>1, <1>3
  <2>2. {j \in Traced(all) : j <= i} = {j \in Traced(below) : j <= i}
    BY <1>2, <2>1
  <2> QED
    BY <1>1, <2>1, <2>2 DEF Rank
<1>8. ASSUME NEW i \in Traced(below)
      PROVE  Rank(below, i) \in 1 .. Cardinality(Traced(below))
  <2> DEFINE first == {j \in Traced(below) : j <= i}
  <2>1. i \in first /\ first \subseteq Traced(below)
    BY <1>1, <1>3
  <2> HIDE DEF first
  <2>2. IsFiniteSet(first) /\ Cardinality(first) <= Cardinality(Traced(below))
    BY <1>5, <2>1, FS_Subset
  <2>3. Cardinality(first) \in Nat /\ Cardinality(first) # 0
    BY <2>1, <2>2, FS_CardinalityType, FS_EmptySet
  <2>4. Rank(below, i) = Cardinality(first)
    BY DEF Rank, first
  <2> QED
    BY <1>6, <2>2, <2>3, <2>4
<1> QED
  BY <1>1, <1>2, <1>5, <1>6, <1>7, <1>8 DEF all, n

\* An operation starts that is in the trace, or one that is not.
LEMMA ListsPush ==
    ASSUME NEW below \in Seq(Optional), NEW list \in Seq(Nat), Lists(below, list),
           NEW id \in Optional
    PROVE  Lists(Append(below, id), IF id = Absent THEN list ELSE Append(list, id))
<1> DEFINE all == Append(below, id)
           size == Cardinality(Traced(below))
<1>1. /\ all \in Seq(Optional) /\ Len(all) = Len(below) + 1 /\ all[Len(below) + 1] = id
      /\ Traced(all) = Traced(below) \cup (IF id = Absent THEN {} ELSE {Len(below) + 1})
      /\ \A i \in Traced(below) : all[i] = below[i] /\ Rank(all, i) = Rank(below, i)
      /\ IsFiniteSet(Traced(below)) /\ size \in Nat
      /\ \A i \in Traced(below) : Rank(below, i) \in 1 .. size
  BY TracedPush
<1>2. /\ Len(list) = size /\ DOMAIN list = 1 .. size
      /\ \A i \in Traced(below) : below[i] = list[Rank(below, i)]
  BY <1>1, LenProperties DEF Lists
<1>3. Len(below) \in Nat /\ Traced(below) \subseteq 1 .. Len(below)
  BY LenProperties DEF Traced
<1> HIDE DEF all, size
<1>4. CASE id = Absent
  <2>1. Traced(all) = Traced(below)
    BY <1>1, <1>4
  <2>2. Len(list) = Cardinality(Traced(all))
    BY <1>2, <2>1 DEF size
  <2>3. \A i \in Traced(all) : Rank(all, i) \in DOMAIN list /\ all[i] = list[Rank(all, i)]
    BY <1>1, <1>2, <2>1
  <2> QED
    BY <1>4, <2>2, <2>3 DEF Lists, all
<1>5. CASE id # Absent
  <2> DEFINE more == Append(list, id)
             top == Len(below) + 1
  <2>1. /\ Len(more) = size + 1 /\ DOMAIN more = 1 .. size + 1
        /\ \A j \in 1 .. size : more[j] = list[j]
        /\ more[size + 1] = id
    BY <1>2, <1>5, AppendProperties, LenProperties DEF Optional
  <2>2. Traced(all) = Traced(below) \cup {top} /\ top \notin Traced(below)
    BY <1>1, <1>3, <1>5
  <2>3. Cardinality(Traced(all)) = size + 1
    BY <1>1, <2>2, FS_AddElement DEF size
  <2>4. Rank(all, top) = size + 1
    <3>1. {j \in Traced(all) : j <= top} = Traced(all)
      BY <1>3, <2>2
    <3> QED
      BY <2>3, <3>1 DEF Rank
  <2>5. all[top] = id
    BY <1>1
  <2> HIDE DEF more, top
  <2>6. ASSUME NEW i \in Traced(all)
        PROVE  Rank(all, i) \in DOMAIN more /\ all[i] = more[Rank(all, i)]
    <3>1. CASE i = top
      BY <1>1, <2>1, <2>4, <2>5, <3>1
    <3>2. CASE i \in Traced(below)
      <4>1. Rank(all, i) \in 1 .. size /\ all[i] = list[Rank(all, i)]
        BY <1>1, <1>2, <3>2
      <4> QED
        BY <1>1, <2>1, <4>1
    <3> QED
      BY <2>2, <3>1, <3>2
  <2>7. Lists(all, more)
    BY <2>1, <2>3, <2>6 DEF Lists
  <2> QED
    BY <1>5, <2>7 DEF all, more
<1> QED
  BY <1>4, <1>5

LEMMA FrontIs ==
    ASSUME NEW Y, NEW s \in Seq(Y), s # <<>>
    PROVE  /\ Front(s) \in Seq(Y) /\ Last(s) \in Y /\ s = Append(Front(s), Last(s))
           /\ Len(Front(s)) = Len(s) - 1 /\ Len(s) \in Nat \ {0}
           /\ \A i \in 1 .. Len(s) - 1 : Front(s)[i] = s[i]
<1>1. Len(s) \in Nat \ {0}
  BY LenProperties, EmptySeq
<1>2. Last(s) = s[Len(s)] /\ Last(s) \in Y
  BY <1>1, ElementOfSeq DEF Last
<1>3. /\ Front(s) \in Seq(Y) /\ Len(Front(s)) = Len(s) - 1
      /\ \A i \in 1 .. Len(s) - 1 : Front(s)[i] = s[i]
  BY <1>1 DEF Front
<1>4. s = Append(Front(s), Last(s))
  <2> DEFINE t == Append(Front(s), Last(s))
  <2>1. t \in Seq(Y) /\ Len(t) = Len(s)
    BY <1>1, <1>2, <1>3, AppendProperties
  <2>2. ASSUME NEW i \in 1 .. Len(s) PROVE t[i] = s[i]
    BY <1>1, <1>2, <1>3
  <2> QED
    BY <2>1, <2>2, SeqEqual
<1> QED
  BY <1>1, <1>2, <1>3, <1>4

\* An operation ends.
LEMMA ListsPop ==
    ASSUME NEW all \in Seq(Optional), all # <<>>, NEW list \in Seq(Nat), Lists(all, list)
    PROVE  LET id == Last(all)
           IN  /\ id = Absent => Lists(Front(all), list)
               /\ id # Absent => /\ list # <<>> /\ Last(list) = id
                               /\ Lists(Front(all), Front(list))
<1> DEFINE below == Front(all)
           id == Last(all)
           size == Cardinality(Traced(below))
<1>1. below \in Seq(Optional) /\ id \in Optional /\ all = Append(below, id)
  BY FrontIs
<1> HIDE DEF below, id
<1>2. /\ Len(all) = Len(below) + 1 /\ all[Len(below) + 1] = id
      /\ Traced(all) = Traced(below) \cup (IF id = Absent THEN {} ELSE {Len(below) + 1})
      /\ \A i \in Traced(below) : all[i] = below[i] /\ Rank(all, i) = Rank(below, i)
      /\ IsFiniteSet(Traced(below)) /\ size \in Nat
      /\ \A i \in Traced(below) : Rank(below, i) \in 1 .. size
  <2> DEFINE both == Append(below, id)
  <2>1. /\ Len(both) = Len(below) + 1 /\ both[Len(below) + 1] = id
        /\ Traced(both) = Traced(below) \cup (IF id = Absent THEN {} ELSE {Len(below) + 1})
        /\ \A i \in Traced(below) : both[i] = below[i] /\ Rank(both, i) = Rank(below, i)
        /\ IsFiniteSet(Traced(below)) /\ size \in Nat
        /\ \A i \in Traced(below) : Rank(below, i) \in 1 .. size
    BY <1>1, TracedPush
  <2>2. both = all
    BY <1>1
  <2> HIDE DEF both, size
  <2> QED
    BY <2>1, <2>2
<1>3. /\ Len(list) = Cardinality(Traced(all)) /\ DOMAIN list = 1 .. Len(list)
      /\ \A i \in Traced(all) : all[i] = list[Rank(all, i)]
  BY LenProperties DEF Lists
<1>4. Len(below) \in Nat /\ Traced(below) \subseteq 1 .. Len(below)
  BY <1>1, LenProperties DEF Traced
<1>5. ASSUME id = Absent PROVE Lists(below, list)
  <2>1. Traced(all) = Traced(below)
    BY <1>2, <1>5
  <2>2. Len(list) = size /\ DOMAIN list = 1 .. size
    BY <1>3, <2>1
  <2>3. \A i \in Traced(below) : Rank(below, i) \in DOMAIN list /\ below[i] = list[Rank(below, i)]
    BY <1>2, <1>3, <2>1, <2>2
  <2> QED
    BY <2>2, <2>3 DEF Lists
<1>6. ASSUME id # Absent PROVE list # <<>> /\ Last(list) = id /\ Lists(below, Front(list))
  <2> DEFINE top == Len(below) + 1
             rest == Front(list)
  <2>1. Traced(all) = Traced(below) \cup {top} /\ top \notin Traced(below)
    BY <1>2, <1>4, <1>6
  <2>2. Cardinality(Traced(all)) = size + 1
    BY <1>2, <2>1, FS_AddElement
  <2>3. Rank(all, top) = size + 1
    <3>1. {j \in Traced(all) : j <= top} = Traced(all)
      BY <1>4, <2>1
    <3> QED
      BY <2>2, <3>1 DEF Rank
  <2>4. Len(list) = size + 1 /\ list # <<>>
    BY <1>2, <1>3, <2>2, EmptySeq
  <2>5. Last(list) = id
    BY <1>2, <1>3, <2>1, <2>3, <2>4 DEF Last
  <2>6. /\ rest \in Seq(Nat) /\ Len(rest) = size /\ DOMAIN rest = 1 .. size
        /\ \A j \in 1 .. size : rest[j] = list[j]
    <3>1. /\ rest \in Seq(Nat) /\ Len(rest) = Len(list) - 1
          /\ \A j \in 1 .. Len(list) - 1 : rest[j] = list[j]
      BY <2>4, FrontIs
    <3>2. Len(list) - 1 = size
      BY <1>2, <2>4
    <3> QED
      BY <3>1, <3>2, LenProperties
  <2> HIDE DEF rest, top
  <2>7. \A i \in Traced(below) : Rank(below, i) \in DOMAIN rest /\ below[i] = rest[Rank(below, i)]
    BY <1>2, <1>3, <2>1, <2>6
  <2>8. Lists(below, rest)
    BY <2>6, <2>7 DEF Lists
  <2> QED
    BY <2>4, <2>5, <2>8 DEF rest
<1> QED
  BY <1>5, <1>6 DEF below, id

-------------------------------------------------------------------------------
LEMMA WriteEffect ==
    ASSUME NEW event, Write(event)
    PROVE  \/ stopped /\ stopped' = stopped /\ file' = file
           \/ /\ ~stopped /\ stopped'
              /\ file' \in {file, file \o <<Torn>>, file \o <<>>,
                            Append(file, Plain("trace_truncated"))}
           \/ ~stopped /\ ~stopped' /\ file' = Append(file, event)
<1>1. CASE stopped
  BY <1>1 DEF Write
<1>2. CASE ~stopped
  <2>1. PICK size \in Sizes, failed \in BOOLEAN :
          \/ /\ ~Fits(size)
             /\ Output(Plain("trace_truncated"), MarkerSize, failed)
             /\ stopped' = TRUE
             /\ UNCHANGED bytes
          \/ /\ Fits(size)
             /\ Output(event, size, failed)
             /\ bytes' = bytes + size
             /\ stopped' = failed
    BY <1>2 DEF Write
  <2>2. ASSUME NEW line, NEW n, Output(line, n, failed)
        PROVE  \/ failed /\ file' \in {file \o <<Torn>>, file \o <<>>}
               \/ ~failed /\ file' = Append(file, line)
    BY <2>2 DEF Output
  <2>3. CASE failed
    <3>1. stopped' /\ file' \in {file \o <<Torn>>, file \o <<>>}
      BY <2>1, <2>2, <2>3
    <3> QED
      BY <1>2, <3>1
  <2>4. CASE ~failed
    BY <1>2, <2>1, <2>2, <2>4
  <2> QED
    BY <2>3, <2>4
<1> QED
  BY <1>1, <1>2

\* An operation writes its line, or a writer that has stopped leaves the file as it
\* is: the summary still agrees with what happened when the line itself would.
LEMMA WriteShows ==
    ASSUME Numbered, Shown, NEW event \in Written, event # Torn, Write(event),
           Agrees(Summary, spans'), Summary.status \in {phase', "incomplete"},
           ~stopped =>
               LET s == Record(Summary, event)
               IN  /\ Agrees(s, spans') /\ s.status \in {phase', "incomplete"}
                   /\ ShownWhole(s, spans', phase')
    PROVE  file' \in Seq(Written) /\ Shown'
<1> DEFINE marker == Plain("trace_truncated")
           cut == [Summary EXCEPT !.truncated = TRUE]
           broken == [Summary EXCEPT !.error = TRUE]
           more == Record(Summary, event)
<1>1. /\ Torn \in Written /\ marker \in Written /\ marker # Torn
      /\ marker.event = "trace_truncated"
  BY DEF Plain, Torn, Event, Written, Lines, Inner, Ends, Optional
<1>2. file \in Seq(Written) /\ Summary = SummaryOf(file) /\ Summary' = SummaryOf(file')
  BY DEF Numbered, Summary, SummaryOf
<1>3. Summary \in Summaries
  BY DEF Shown, Agrees
<1> HIDE DEF marker
<1>4. file \o <<Torn>> = Append(file, Torn) /\ file \o <<>> = file
  BY <1>1, <1>2
<1>5. ASSUME NEW line \in Written
      PROVE  /\ Append(file, line) \in Seq(Written) /\ Append(file, line) # <<>>
             /\ Last(Append(file, line)) = line
             /\ SummaryOf(Append(file, line)) = Record(Summary, line)
  <2>1. /\ Append(file, line) \in Seq(Written) /\ Len(Append(file, line)) = Len(file) + 1
        /\ Append(file, line)[Len(file) + 1] = line /\ Len(file) \in Nat
    BY <1>2, AppendProperties, LenProperties
  <2>2. Append(file, line) # <<>>
    BY <2>1, EmptySeq
  <2>3. SummaryOf(Append(file, line)) = Record(Summary, line)
    BY <1>2, SummaryOfAppend
  <2> QED
    BY <2>1, <2>2, <2>3 DEF Last
<1> DEFINE torn(lines) == lines # <<>> /\ Last(lines) = Torn
<1>6. /\ Agrees(Summary, spans) /\ (Summary.error <=> torn(file))
      /\ ~stopped => ~Summary.error
  BY DEF Shown, ShownWhole
<1>7. ASSUME file' \in Seq(Written), Agrees(Summary', spans'), Summary'.error <=> torn(file'),
             Summary'.status \in {phase', "incomplete"},
             stopped' \/ ShownWhole(Summary', spans', phase')
      PROVE  file' \in Seq(Written) /\ Shown'
  BY <1>7 DEF Shown
<1>8. CASE file' = file /\ stopped'
  <2>1. Summary' = Summary
    BY <1>2, <1>8
  <2> QED
    BY <1>2, <1>6, <1>7, <1>8, <2>1
<1>9. CASE ~stopped /\ stopped' /\ file' = Append(file, Torn)
  <2>1. Summary' = broken
    BY <1>1, <1>2, <1>5, <1>9 DEF Record
  <2>2. /\ broken.error /\ broken \in Summaries /\ broken.status = Summary.status
        /\ broken.spans = Summary.spans /\ broken.order = Summary.order
    BY <1>3 DEF Summaries
  <2>3. Agrees(Summary', spans')
    BY <2>1, <2>2 DEF Agrees
  <2>4. file' \in Seq(Written) /\ torn(file')
    BY <1>1, <1>5, <1>9
  <2> QED
    BY <1>7, <1>9, <2>1, <2>2, <2>3, <2>4
<1>10. CASE ~stopped /\ stopped' /\ file' = Append(file, marker)
  <2>1. Summary' = cut
    <3>1. Record(Summary, marker) = cut
      BY <1>1, <1>6, <1>10 DEF Record
    <3> QED
      BY <1>1, <1>2, <1>5, <1>10, <3>1
  <2>2. /\ ~cut.error /\ cut \in Summaries /\ cut.status = Summary.status
        /\ cut.spans = Summary.spans /\ cut.order = Summary.order
    BY <1>3, <1>6, <1>10 DEF Summaries
  <2>3. Agrees(Summary', spans')
    BY <2>1, <2>2 DEF Agrees
  <2>4. file' \in Seq(Written) /\ ~torn(file')
    BY <1>1, <1>5, <1>10
  <2> QED
    BY <1>7, <1>10, <2>1, <2>2, <2>3, <2>4
<1>11. CASE ~stopped /\ ~stopped' /\ file' = Append(file, event)
  <2>1. Summary' = more
    BY <1>2, <1>5, <1>11
  <2>2. Agrees(more, spans') /\ more.status \in {phase', "incomplete"} /\ ShownWhole(more, spans', phase')
    BY <1>11
  <2>3. file' \in Seq(Written) /\ ~torn(file')
    BY <1>5, <1>11
  <2> HIDE DEF more
  <2>4. ~more.error
    BY <2>2 DEF ShownWhole
  <2> QED
    BY <1>7, <2>1, <2>2, <2>3, <2>4
<1> QED
  BY <1>4, <1>8, <1>9, <1>10, <1>11, WriteEffect DEF marker

LEMMA EventIsWritten ==
    ASSUME NEW event \in Inner, NEW id \in Optional, NEW parent \in Optional,
           NEW depth \in Optional, NEW status \in {Absent, "success", "failure"},
           event \in {"return", "stage_end", "trace_complete"} => status \in {"success", "failure"}
    PROVE  LET line == Event(event, id, parent, depth, status)
           IN  /\ line \in Written /\ line # Torn
               /\ line.event = event /\ line.id = id /\ line.parent = parent
               /\ line.depth = depth /\ line.status = status
BY DEF Event, Written, Lines, Inner, Ends, Torn, Plain

\* TraceSession::start
LEMMA StartShows ==
    ASSUME Numbered, Shown, StartTrace
    PROVE  Numbered' /\ Nested' /\ Shown'
<1> DEFINE line == Plain("trace_start")
           more == [Empty EXCEPT !.metadata = TRUE]
<1>1. /\ file = <<>> /\ spans = <<>> /\ stack = <<>> /\ parents = <<>> /\ ~stopped
      /\ phase = "new" /\ phase' = "running" /\ Write(line)
      /\ UNCHANGED <<next_identifier, parents, stack, spans>>
  BY DEF StartTrace, Numbered
<1>2. line \in Written /\ line # Torn /\ line.event = "trace_start"
  BY DEF Plain, Torn, Event, Written, Lines, Inner, Ends, Optional
<1>3. Summary = Empty
  BY <1>1, SummaryOfNone DEF Summary, SummaryOf
<1>4. Agrees(Summary, spans') /\ Summary.status \in {phase', "incomplete"}
  BY <1>1, <1>3, EmptyIsSummary DEF Agrees, Empty
<1>5. Record(Summary, line) = more
  BY <1>2, <1>3 DEF Record, Empty
<1>6. /\ more.spans = <<>> /\ more.order = <<>> /\ more.metadata /\ ~more.error
      /\ more.status = "incomplete" /\ more \in Summaries
  BY EmptyIsSummary DEF Empty, Summaries
<1> HIDE DEF more, line
<1>7. Agrees(more, spans') /\ more.status \in {phase', "incomplete"} /\ ShownWhole(more, spans', phase')
  BY <1>1, <1>6 DEF Agrees, ShownWhole
<1>8. file' \in Seq(Written) /\ Shown'
  BY <1>1, <1>2, <1>4, <1>5, <1>7, WriteShows
<1>9. Traced(<<>>) = {} /\ Cardinality({}) = 0
  BY FS_EmptySet DEF Traced
<1>10. Nested'
  <2>1. stack' = <<>> /\ parents' = <<>> /\ Len(<<>>) = 0 /\ DOMAIN <<>> = {}
    BY <1>1
  <2>2. Lists(<<>>, <<>>)
    BY <1>9, <2>1 DEF Lists
  <2> QED
    BY <2>1, <2>2 DEF Nested
<1>11. Numbered'
  BY <1>1, <1>8 DEF Numbered, TracePhases
<1> QED
  BY <1>8, <1>10, <1>11

\* finish
LEMMA FinishShows ==
    ASSUME Numbered, Shown, NEW status \in {"success", "failure"}, FinishTrace(status)
    PROVE  Numbered' /\ Nested' /\ Shown'
<1> DEFINE line == Event("trace_complete", Absent, Absent, Absent, status)
           more == [Summary EXCEPT !.status = status]
<1>1. /\ phase = "running" /\ phase' = status /\ Write(line)
      /\ UNCHANGED <<next_identifier, spans>>
  BY DEF FinishTrace
<1>2. /\ line \in Written /\ line # Torn
      /\ line.event = "trace_complete" /\ line.status = status
  <2>1. /\ "trace_complete" \in Inner /\ Absent \in Optional
        /\ status \in {Absent, "success", "failure"}
    BY DEF Inner, Optional
  <2> QED
    BY <2>1, EventIsWritten
<1> HIDE DEF line
<1>3. /\ Agrees(Summary, spans) /\ Summary \in Summaries
      /\ Summary.status \in {"running", "incomplete"}
      /\ ~stopped => ~Summary.error /\ Summary.spans = spans /\ Summary.metadata
  BY <1>1 DEF Shown, Agrees, ShownWhole
<1>4. Summary.status = "incomplete"
  BY <1>3 DEF Summaries, Statuses
<1>5. ASSUME ~stopped
      PROVE  LET s == Record(Summary, line)
             IN  /\ Agrees(s, spans') /\ s.status \in {phase', "incomplete"}
                 /\ ShownWhole(s, spans', phase')
  <2>1. Record(Summary, line) = more
    BY <1>2, <1>3, <1>5 DEF Record
  <2>2. /\ more.spans = Summary.spans /\ more.order = Summary.order /\ more.metadata
        /\ ~more.error /\ more.status = status /\ more \in Summaries
    BY <1>3, <1>5 DEF Summaries, Statuses
  <2> HIDE DEF more
  <2>3. Agrees(more, spans')
    BY <1>1, <1>3, <2>2 DEF Agrees
  <2>4. more.status \in {phase', "incomplete"} /\ ShownWhole(more, spans', phase')
    BY <1>1, <1>3, <1>5, <2>2 DEF ShownWhole
  <2> QED
    BY <2>1, <2>3, <2>4
<1>6. Agrees(Summary, spans') /\ Summary.status \in {phase', "incomplete"}
  BY <1>1, <1>3, <1>4
<1>7. file' \in Seq(Written) /\ Shown'
  BY <1>1, <1>2, <1>5, <1>6, WriteShows
<1>8. Numbered' /\ Nested'
  BY <1>1, <1>7 DEF Numbered, TracePhases, Nested
<1> QED
  BY <1>7, <1>8

\* SIGKILL
LEMMA KillShows ==
    ASSUME Numbered, Shown, Kill
    PROVE  Numbered' /\ Nested' /\ Shown'
<1>1. /\ phase = "running" /\ phase' = "killed"
      /\ file' = file /\ spans' = spans /\ next_identifier' = next_identifier
      /\ stopped' = stopped
  BY DEF Kill, writer
<1>2. Summary' = Summary
  BY <1>1 DEF Summary
<1>3. Summary.status = "incomplete"
  BY <1>1 DEF Shown, Agrees, Summaries, Statuses
<1> QED
  BY <1>1, <1>2, <1>3 DEF Numbered, TracePhases, Nested, Shown, ShownWhole

\* trace_operation, when nothing of the operation is in the trace
LEMMA SilentShows ==
    ASSUME Numbered, Shown, UNCHANGED <<file, stopped, spans, next_identifier, phase>>,
           phase = "running"
    PROVE  Numbered' /\ Shown'
<1>1. Summary' = Summary
  BY DEF Summary
<1> QED
  BY <1>1 DEF Numbered, Shown, ShownWhole

\* A list of spans with one more, or with a result.
LEMMA SpanStarts ==
    ASSUME NEW list \in Seq(Spans), NEW depth \in Nat
    PROVE  LET more == Append(list, [depth |-> depth, status |-> "incomplete"])
           IN  /\ more \in Seq(Spans) /\ Len(more) = Len(list) + 1
               /\ DOMAIN more = 1 .. Len(list) + 1 /\ DOMAIN list = 1 .. Len(list)
               /\ \A i \in DOMAIN list : more[i] = list[i]
               /\ more[Len(list) + 1] = [depth |-> depth, status |-> "incomplete"]
<1>1. [depth |-> depth, status |-> "incomplete"] \in Spans
  BY DEF Spans, Statuses
<1> QED
  BY <1>1, AppendProperties, LenProperties

\* trace_operation and begin
LEMMA BeginShows ==
    ASSUME TraceIInv, Numbered, Nested, Shown, NEW stage \in BOOLEAN, Begin(stage)
    PROVE  Numbered' /\ Nested' /\ Shown'
<1>1. /\ phase = "running" /\ phase' = phase /\ Len(stack) < MaxCalls
      /\ stack \in Seq(Optional) /\ parents \in Seq(Nat) /\ next_identifier \in Nat
      /\ spans \in Seq(Spans) /\ next_identifier = Len(spans) + 1
      /\ Lists(stack, parents)
  BY DEF Begin, TraceIInv, TraceTypeOK, Numbered, Nested
<1>2. Absent \in Optional /\ next_identifier \in Optional /\ next_identifier # Absent
  BY <1>1, AbsentAssumption DEF Optional
<1>3. CASE ~IsTraced(stage)
  <2>1. /\ stack' = Append(stack, Absent)
        /\ UNCHANGED <<file, length, bytes, stopped, next_identifier, parents, spans>>
    BY <1>3, Zenon DEF Begin
  <2>2. Numbered' /\ Shown'
    BY <1>1, <2>1, SilentShows
  <2>3. Lists(stack', parents)
    BY <1>1, <1>2, <2>1, ListsPush
  <2> QED
    BY <1>1, <2>1, <2>2, <2>3 DEF Nested
<1>4. CASE IsTraced(stage)
  <2> DEFINE size == Cardinality(Traced(stack))
             parent == IF parents = <<>> THEN Absent ELSE Last(parents)
             depth == IF calls THEN Absent ELSE Len(parents)
             kind == IF calls THEN "call" ELSE "stage_start"
             line == Event(kind, next_identifier, parent, depth, Absent)
             span == [depth |-> size, status |-> "incomplete"]
             more == [Summary EXCEPT !.order = Append(@, next_identifier),
                                     !.spans = Append(@, span)]
  <2>1. /\ Write(line)
        /\ next_identifier' = next_identifier + 1
        /\ parents' = Append(parents, next_identifier)
        /\ stack' = Append(stack, next_identifier)
        /\ spans' = Append(spans, span)
    BY <1>4, Zenon DEF Begin
  <2>2. size \in Nat /\ size <= MaxDepth /\ Len(parents) = size
    <3>1. size \in Nat /\ size <= Len(stack)
      BY <1>1, <1>2, TracedPush
    <3>2. Len(stack) \in Nat /\ MaxCalls \in Nat /\ MaxDepth \in Nat /\ MaxCalls <= MaxDepth + 1
      BY <1>1, SizesAssumption, DepthAssumption, LenProperties
    <3>3. Len(parents) = size
      BY <1>1 DEF Lists
    <3> HIDE DEF size
    <3> QED
      BY <1>1, <3>1, <3>2, <3>3
  <2> HIDE DEF size
  <2>3. parent \in Optional /\ depth \in Optional
    BY <1>1, <2>2 DEF Last, Optional
  <2>4. kind \in Inner /\ kind \notin {"return", "stage_end", "trace_complete"}
    BY DEF Inner
  <2> HIDE DEF parent, depth, kind
  <2>5. /\ line \in Written /\ line # Torn
        /\ line.event = kind /\ line.id = next_identifier
        /\ line.parent = parent /\ line.depth = depth
    BY <1>2, <2>3, <2>4, EventIsWritten
  <2> HIDE DEF line
  <2>6. /\ spans' \in Seq(Spans) /\ Len(spans') = Len(spans) + 1
        /\ DOMAIN spans' = 1 .. Len(spans) + 1 /\ DOMAIN spans = 1 .. Len(spans)
        /\ \A i \in DOMAIN spans : spans'[i] = spans[i]
        /\ spans'[Len(spans) + 1] = span
    BY <1>1, <2>1, <2>2, SpanStarts
  <2>7. /\ Agrees(Summary, spans) /\ Summary \in Summaries
        /\ Summary.status \in {"running", "incomplete"}
        /\ ~stopped => ~Summary.error /\ Summary.spans = spans /\ Summary.metadata
    BY <1>1 DEF Shown, Agrees, ShownWhole
  <2>8. Agrees(Summary, spans') /\ Summary.status \in {phase', "incomplete"}
    <3>1. \A i \in DOMAIN Summary.spans : spans'[i] = spans[i] /\ i \in DOMAIN spans'
      BY <2>6, <2>7 DEF Agrees
    <3>2. Agrees(Summary, spans')
      BY <2>7, <3>1 DEF Agrees
    <3> QED
      BY <1>1, <2>7, <3>2
  <2>9. ASSUME ~stopped
        PROVE  LET s == Record(Summary, line)
               IN  /\ Agrees(s, spans') /\ s.status \in {phase', "incomplete"}
                   /\ ShownWhole(s, spans', phase')
    <3>1. /\ ~Summary.error /\ Summary.spans = spans /\ Summary.metadata
          /\ Len(Summary.order) = Len(spans)
          /\ Summary.order \in Seq(Optional) /\ DOMAIN Summary.order = 1 .. Len(spans)
          /\ \A i \in 1 .. Len(spans) : Summary.order[i] = i
      BY <2>6, <2>7, <2>9, LenProperties DEF Agrees, Summaries
    <3>2. Record(Summary, line) = AddSpan(Summary, line)
      BY <2>5, <3>1 DEF Record, kind
    <3>3. ~Known(Summary, line.id)
      BY <1>1, <2>5, <3>1, LenProperties DEF Known
    <3>4. (IF line.depth # Absent THEN line.depth
           ELSE IF line.parent # Absent /\ Known(Summary, line.parent)
           THEN Summary.spans[Position(Summary, line.parent)].depth + 1 ELSE 0) = size
      <4>1. CASE ~calls
        BY <2>2, <2>5, <4>1, AbsentAssumption DEF depth
      <4>2. CASE calls /\ parents = <<>>
        BY <2>2, <2>5, <4>2, EmptySeq DEF depth, parent
      <4>3. CASE calls /\ parents # <<>>
        <5>1. Len(parents) \in Nat \ {0} /\ Len(parents) \in DOMAIN parents
          BY <1>1, <4>3, EmptySeq, LenProperties
        <5>2. /\ parent = parents[Len(parents)] /\ parent \in 1 .. Len(spans)
              /\ spans[parent] = [depth |-> Len(parents) - 1, status |-> "incomplete"]
          BY <1>1, <2>6, <4>3, <5>1 DEF parent, Last, Nested
        <5>3. parent # Absent /\ Known(Summary, parent)
          BY <3>1, <5>2, AbsentAssumption DEF Known
        <5>4. Position(Summary, parent) = parent
          <6>1. /\ Position(Summary, parent) \in DOMAIN Summary.spans
                /\ Summary.order[Position(Summary, parent)] = parent
            BY <2>7, <5>3, PositionIs
          <6> QED
            BY <2>6, <3>1, <6>1
        <5>5. Summary.spans[Position(Summary, parent)].depth + 1 = size
          BY <2>2, <3>1, <5>1, <5>2, <5>4
        <5> QED
          BY <2>5, <4>3, <5>3, <5>5 DEF depth
      <4> QED
        BY <4>1, <4>2, <4>3
    <3>5. ~(size > MaxDepth)
      BY <2>2, DepthAssumption
    <3>6. AddSpan(Summary, line) = more
      BY <2>5, <3>3, <3>4, <3>5 DEF AddSpan
    <3>7. /\ more.spans = spans' /\ more.order = Append(Summary.order, next_identifier)
          /\ more.metadata /\ ~more.error /\ more.status = Summary.status
      BY <2>1, <2>7, <3>1 DEF Summaries
    <3>8. more \in Summaries
      BY <2>5, <2>7, <3>2, <3>6, RecordType
    <3> HIDE DEF more
    <3>9. \A i \in 1 .. Len(spans) + 1 : more.order[i] = i
      <4>1. /\ \A i \in 1 .. Len(spans) : more.order[i] = i
            /\ more.order[Len(spans) + 1] = next_identifier
        BY <1>2, <3>1, <3>7, AppendProperties
      <4> QED
        BY <1>1, <2>6, <4>1, LenProperties
    <3>10. Agrees(more, spans')
      BY <2>6, <3>7, <3>8, <3>9 DEF Agrees
    <3>11. ShownWhole(more, spans', phase') /\ more.status \in {phase', "incomplete"}
      BY <1>1, <2>7, <3>7 DEF ShownWhole
    <3> QED
      BY <3>2, <3>6, <3>10, <3>11
  <2>10. file' \in Seq(Written) /\ Shown'
    BY <2>1, <2>5, <2>8, <2>9, WriteShows
  <2>11. Numbered'
    BY <1>1, <2>1, <2>6, <2>10 DEF Numbered
  <2>12. Nested'
    <3>1. Lists(stack', parents')
      BY <1>1, <1>2, <2>1, ListsPush
    <3>2. ASSUME NEW j \in DOMAIN parents'
          PROVE  /\ parents'[j] \in DOMAIN spans'
                 /\ spans'[parents'[j]] = [depth |-> j - 1, status |-> "incomplete"]
      <4>1. /\ DOMAIN parents = 1 .. size /\ DOMAIN parents' = 1 .. size + 1
            /\ \A i \in 1 .. size : parents'[i] = parents[i]
            /\ parents'[size + 1] = next_identifier
        BY <1>1, <2>1, <2>2, AppendProperties, LenProperties
      <4>2. CASE j = size + 1
        <5>1. parents'[j] = Len(spans) + 1 /\ j - 1 = size
          BY <1>1, <2>2, <4>1, <4>2
        <5> QED
          BY <1>1, <2>6, <5>1, LenProperties
      <4>3. CASE j \in 1 .. size
        BY <1>1, <2>6, <4>1, <4>3 DEF Nested
      <4> QED
        BY <2>2, <4>1, <4>2, <4>3
    <3> QED
      BY <3>1, <3>2 DEF Nested
  <2> QED
    BY <2>10, <2>11, <2>12
<1> QED
  BY <1>3, <1>4

\* end
LEMMA EndShows ==
    ASSUME TraceIInv, Numbered, Nested, Shown, NEW status \in {"success", "failure"}, End(status)
    PROVE  Numbered' /\ Nested' /\ Shown'
<1> DEFINE id == Last(stack)
<1>1. /\ phase = "running" /\ phase' = phase /\ next_identifier' = next_identifier
      /\ stack \in Seq(Optional) /\ stack # <<>> /\ stack' = Front(stack)
      /\ parents \in Seq(Nat)
      /\ spans \in Seq(Spans) /\ next_identifier = Len(spans) + 1
      /\ Lists(stack, parents)
  BY DEF End, TraceIInv, TraceTypeOK, Numbered, Nested
<1>2. /\ id = Absent => Lists(Front(stack), parents)
      /\ id # Absent => /\ parents # <<>> /\ Last(parents) = id
                      /\ Lists(Front(stack), Front(parents))
  BY <1>1, ListsPop
<1>3. CASE id = Absent
  <2>1. UNCHANGED <<file, length, bytes, stopped, parents, spans>>
    BY <1>3 DEF End
  <2>2. Numbered' /\ Shown'
    BY <1>1, <2>1, SilentShows
  <2> QED
    BY <1>1, <1>2, <1>3, <2>1, <2>2 DEF Nested
<1>4. CASE id # Absent
  <2> DEFINE kind == IF calls THEN "return" ELSE "stage_end"
             line == Event(kind, id, Absent, Absent, status)
             ended == [spans EXCEPT ![id].status = status]
             more == [Summary EXCEPT !.spans = ended]
             depth == Len(parents) - 1
  <2>1. Write(line) /\ parents' = ParentsAfter(id) /\ spans' = ended
    BY <1>4 DEF End
  <2>2. /\ id \in Nat /\ Absent \in Optional /\ id \in Optional
    <3>1. id \in Optional
      BY <1>1, FrontIs
    <3> QED
      BY <1>4, <3>1 DEF Optional
  <2>3. /\ parents' \in Seq(Nat) /\ DOMAIN parents' = 1 .. depth /\ DOMAIN parents = 1 .. depth + 1
        /\ depth \in Nat /\ parents[depth + 1] = id
        /\ \A j \in 1 .. depth : parents'[j] = parents[j]
        /\ Lists(stack', parents')
    <3>1. parents' = Front(parents)
      BY <1>2, <1>4, <2>1 DEF ParentsAfter
    <3>2. /\ Front(parents) \in Seq(Nat) /\ Len(Front(parents)) = depth
          /\ Len(parents) \in Nat \ {0}
          /\ \A j \in 1 .. depth : Front(parents)[j] = parents[j]
      BY <1>1, <1>2, <1>4, FrontIs
    <3>3. parents[Len(parents)] = id
      BY <1>2, <1>4 DEF Last
    <3> HIDE DEF id
    <3> QED
      BY <1>1, <1>2, <1>4, <3>1, <3>2, <3>3, LenProperties
  <2> HIDE DEF id, depth
  <2>4. /\ DOMAIN spans = 1 .. Len(spans) /\ id \in DOMAIN spans
        /\ spans[id] = [depth |-> depth, status |-> "incomplete"]
    <3>1. depth + 1 \in DOMAIN parents /\ (depth + 1) - 1 = depth
      BY <2>3
    <3>2. /\ parents[depth + 1] \in DOMAIN spans
          /\ spans[parents[depth + 1]] = [depth |-> (depth + 1) - 1, status |-> "incomplete"]
      BY <1>1, <3>1 DEF Nested
    <3> QED
      BY <1>1, <2>3, <3>1, <3>2, LenProperties
  <2>5. status \in Statuses
    BY DEF Statuses
  <2>6. /\ ended \in Seq(Spans) /\ Len(ended) = Len(spans) /\ DOMAIN ended = DOMAIN spans
        /\ \A i \in DOMAIN spans : i # id => ended[i] = spans[i]
        /\ ended[id] = [depth |-> depth, status |-> status]
    <3>1. ended \in Seq(Spans) /\ Len(ended) = Len(spans)
      BY <1>1, <2>4, <2>5, SpanEnds
    <3>2. ended[id] = [spans[id] EXCEPT !.status = status]
      BY <2>4
    <3> QED
      BY <2>4, <3>1, <3>2
  <2>7. kind \in Inner
    BY DEF Inner
  <2> HIDE DEF ended, kind
  <2>8. line \in Written /\ line # Torn /\ line.event = kind /\ line.id = id /\ line.status = status
    <3>1. status \in {Absent, "success", "failure"}
      OBVIOUS
    <3> QED
      BY <2>2, <2>7, <3>1, EventIsWritten
  <2> HIDE DEF line
  <2>9. /\ Agrees(Summary, spans) /\ Summary \in Summaries
        /\ Summary.status \in {"running", "incomplete"}
        /\ ~stopped => ~Summary.error /\ Summary.spans = spans /\ Summary.metadata
    BY <1>1 DEF Shown, Agrees, ShownWhole
  <2>10. Agrees(Summary, spans') /\ Summary.status \in {phase', "incomplete"}
    <3>1. ASSUME NEW i \in DOMAIN Summary.spans
          PROVE  /\ Summary.order[i] = i /\ i \in DOMAIN ended
                 /\ Summary.spans[i].depth = ended[i].depth
                 /\ Summary.spans[i].status \in {ended[i].status, "incomplete"}
      <4>1. /\ Summary.order[i] = i /\ i \in DOMAIN spans
            /\ Summary.spans[i].depth = spans[i].depth
            /\ Summary.spans[i].status \in {spans[i].status, "incomplete"}
        BY <2>9 DEF Agrees
      <4>2. CASE i = id
        BY <2>4, <2>6, <4>1, <4>2
      <4>3. CASE i # id
        BY <2>6, <4>1, <4>3
      <4> QED
        BY <4>2, <4>3
    <3>2. Agrees(Summary, ended)
      BY <2>9, <3>1 DEF Agrees
    <3> QED
      BY <1>1, <2>1, <2>9, <3>2
  <2>11. ASSUME ~stopped
         PROVE  LET s == Record(Summary, line)
                IN  /\ Agrees(s, spans') /\ s.status \in {phase', "incomplete"}
                    /\ ShownWhole(s, spans', phase')
    <3>1. /\ ~Summary.error /\ Summary.spans = spans /\ Summary.metadata
          /\ Len(Summary.order) = Len(spans)
          /\ Summary.order \in Seq(Optional) /\ DOMAIN Summary.order = 1 .. Len(spans)
          /\ \A i \in 1 .. Len(spans) : Summary.order[i] = i
      BY <2>4, <2>9, <2>11, LenProperties DEF Agrees, Summaries
    <3>2. Record(Summary, line) = EndSpan(Summary, line)
      BY <2>8, <3>1 DEF Record, kind
    <3>3. Known(Summary, id)
      BY <2>4, <3>1 DEF Known
    <3>4. Position(Summary, id) = id
      <4>1. /\ Position(Summary, id) \in DOMAIN Summary.spans
            /\ Summary.order[Position(Summary, id)] = id
        BY <2>9, <3>3, PositionIs
      <4> QED
        BY <2>4, <3>1, <4>1
    <3>5. EndSpan(Summary, line) = more
      BY <2>8, <2>9, <3>1, <3>3, <3>4 DEF EndSpan, ended, Summaries
    <3>6. /\ more.spans = ended /\ more.order = Summary.order
          /\ more.metadata /\ ~more.error /\ more.status = Summary.status
      BY <2>9, <3>1 DEF Summaries
    <3>7. more \in Summaries
      BY <2>8, <2>9, <3>2, <3>5, RecordType
    <3> HIDE DEF more
    <3>8. Agrees(more, ended)
      BY <2>4, <2>6, <3>1, <3>6, <3>7 DEF Agrees
    <3>9. ShownWhole(more, ended, phase') /\ more.status \in {phase', "incomplete"}
      BY <1>1, <2>9, <3>6 DEF ShownWhole
    <3> QED
      BY <2>1, <3>2, <3>5, <3>8, <3>9
  <2>12. file' \in Seq(Written) /\ Shown'
    BY <2>1, <2>8, <2>10, <2>11, WriteShows
  <2>13. Numbered'
    BY <1>1, <2>1, <2>6, <2>12 DEF Numbered
  <2>14. ASSUME NEW j \in DOMAIN parents'
         PROVE  /\ parents'[j] \in DOMAIN spans'
                /\ spans'[parents'[j]] = [depth |-> j - 1, status |-> "incomplete"]
    <3>1. j \in DOMAIN parents /\ j - 1 # depth /\ parents'[j] = parents[j]
      BY <2>3
    <3>2. /\ parents[j] \in DOMAIN spans
          /\ spans[parents[j]] = [depth |-> j - 1, status |-> "incomplete"]
      BY <1>1, <3>1 DEF Nested
    <3>3. parents[j] # id
      BY <2>4, <3>1, <3>2
    <3> QED
      BY <2>1, <2>6, <3>1, <3>2, <3>3
  <2>15. Nested'
    BY <2>3, <2>14 DEF Nested
  <2> QED
    BY <2>12, <2>13, <2>15
<1> QED
  BY <1>3, <1>4

-------------------------------------------------------------------------------
LEMMA InitShows == TraceInit => SInv
<1> SUFFICES ASSUME TraceInit PROVE SInv
  OBVIOUS
<1>1. /\ file = <<>> /\ next_identifier = 1 /\ parents = <<>> /\ stack = <<>> /\ spans = <<>>
      /\ phase = "new" /\ ~stopped
  BY Zenon DEF TraceInit
<1>2. Summary = Empty
  BY <1>1, SummaryOfNone DEF Summary, SummaryOf
<1>3. Numbered
  <2>1. <<>> \in Seq(Written) /\ <<>> \in Seq(Spans) /\ Len(<<>>) = 0
    BY EmptySeq
  <2> QED
    BY <1>1, <2>1 DEF Numbered, TracePhases
<1>4. Agrees(Empty, spans)
  BY EmptyIsSummary DEF Agrees, Empty
<1>5. Shown
  BY <1>1, <1>2, <1>4 DEF Shown, ShownWhole, Empty
<1> QED
  BY <1>1, <1>3, <1>5, TraceInitInv DEF SInv, Nested

LEMMA StepShows == SInv /\ [TraceNext]_traceVars => SInv'
<1> SUFFICES ASSUME SInv, [TraceNext]_traceVars PROVE SInv'
  OBVIOUS
<1>1. TraceIInv /\ TraceIInv' /\ Numbered /\ Nested /\ Shown
  BY TraceStepInv DEF SInv
<1>2. CASE StartTrace
  BY <1>1, <1>2, StartShows DEF SInv
<1>3. CASE Kill
  BY <1>1, <1>3, KillShows DEF SInv
<1>4. ASSUME NEW stage \in BOOLEAN, Begin(stage) PROVE SInv'
  BY <1>1, <1>4, BeginShows DEF SInv
<1>5. ASSUME NEW status \in {"success", "failure"}, End(status) PROVE SInv'
  BY <1>1, <1>5, EndShows DEF SInv
<1>6. ASSUME NEW status \in {"success", "failure"}, FinishTrace(status) PROVE SInv'
  BY <1>1, <1>6, FinishShows DEF SInv
<1>7. CASE UNCHANGED traceVars
  <2>1. /\ file' = file /\ next_identifier' = next_identifier /\ parents' = parents
        /\ stopped' = stopped /\ stack' = stack /\ spans' = spans /\ phase' = phase
    BY <1>7 DEF traceVars, writer
  <2>2. Summary' = Summary
    BY <2>1 DEF Summary
  <2>3. Shown'
    BY <1>1, <2>1, <2>2 DEF Shown
  <2>4. Numbered' /\ Nested'
    BY <1>1, <2>1 DEF Numbered, Nested
  <2> QED
    BY <1>1, <2>3, <2>4 DEF SInv
<1> QED
  BY <1>2, <1>3, <1>4, <1>5, <1>6, <1>7 DEF TraceNext

\* render_trace_summary (trace_summary.rs:108): the summary of a trace, also of a cut
\* trace or one of a killed process, shows the operations that ran, in their order, at
\* their depth and with no result that they did not have; it shows all of them, and the
\* result of the command, unless the writer has stopped; and only a torn line makes it fail.
THEOREM SummaryHolds == TraceSpec => []SummaryIsFaithful
<1>1. SInv => SummaryIsFaithful
  <2> SUFFICES ASSUME SInv PROVE SummaryIsFaithful
    OBVIOUS
  <2>1. /\ \A i \in DOMAIN Summary.spans :
              /\ Summary.order[i] = i
              /\ Summary.spans[i].depth = spans[i].depth
              /\ Summary.spans[i].status \in {spans[i].status, "incomplete"}
        /\ Summary.error <=> file # <<>> /\ Last(file) = Torn
        /\ Summary.status \in {phase, "incomplete"}
    BY DEF SInv, Shown, Agrees
  <2>2. ~stopped => /\ Summary.spans = spans
                    /\ phase \in {"success", "failure"} => Summary.status = phase
    BY DEF SInv, Shown, ShownWhole
  <2> QED
    BY <2>1, <2>2 DEF SummaryIsFaithful
<1> QED
  BY <1>1, InitShows, StepShows, PTL DEF TraceSpec
=============================================================================
