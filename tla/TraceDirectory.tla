--------------------------- MODULE TraceDirectory ---------------------------
(* The directories of execution traces and the processes that start, finish  *)
(* and prune them without a lock: TraceSession of execution_trace.rs. A name *)
(* is a number in the order of the start times that names begin with. Traces *)
(* of the time before may have greater names: the clock was set back.        *)
EXTENDS Integers, FiniteSets, FiniteSetsExt

CONSTANTS Procs, None,
          MaxNames,     \* bound of the number of sessions
          Found         \* what the root may hold at first: sets of completed traces

ASSUME DirectoriesAssumption ==
    /\ IsFiniteSet(Procs) /\ MaxNames \in Nat /\ None \notin Nat
    /\ \A found \in Found : /\ found \subseteq {n \in Nat : n > MaxNames}
                            /\ IsFiniteSet(found) /\ Cardinality(found) <= 2

Names == 1..MaxNames \union UNION Found

VARIABLES
    dirs,           \* directories in the trace root
    markers,        \* directories with a file .active
    traces,         \* directories with a file trace.jsonl
    lastName,       \* the name of the latest directory
    pc,             \* the next step of each process
    mine,           \* the directory of its session, or None
    listed,         \* what the root held when its scan began
    read,           \* the entries its scan has passed
    unmarked,       \* the entry it found without .active, or None
    candidates,     \* the traces it found completed
    queue,          \* the traces it has to remove
    stale           \* history: pairs of a process and a directory that another
                    \* marked or took apart after the process had looked at it

files == <<dirs, markers, traces, lastName>>
scan  == <<listed, read, unmarked, candidates>>
vars  == <<files, pc, mine, scan, queue, stale>>

Init ==
    /\ dirs \in Found /\ traces = dirs /\ markers = {} /\ lastName = 0
    /\ pc = [p \in Procs |-> "idle"]
    /\ mine = [p \in Procs |-> None]
    /\ listed = [p \in Procs |-> {}] /\ read = [p \in Procs |-> {}]
    /\ unmarked = [p \in Procs |-> None]
    /\ candidates = [p \in Procs |-> {}]
    /\ queue = [p \in Procs |-> {}]
    /\ stale = {}

At(p, step) == pc[p] = step
Goto(p, step) == pc' = [pc EXCEPT ![p] = step]

-----------------------------------------------------------------------------
(* prune_completed *)

\* start: the root is read from its beginning
Start(p) ==
    /\ At(p, "idle") /\ lastName < MaxNames
    /\ Goto(p, "scan")
    /\ listed' = [listed EXCEPT ![p] = dirs]
    /\ UNCHANGED <<files, mine, read, unmarked, candidates, queue, stale>>

\* Mutant: .active is not looked for
HasAnything(n) == TRUE

\* Is there no .active in an entry?
HasNoMarker(n) == n \notin markers

\* The first look at an entry; one that came during the scan may be missed
ReadEntry(p) ==
    /\ At(p, "scan")
    /\ \E n \in (listed[p] \union dirs) \ read[p] :
        /\ read' = [read EXCEPT ![p] = @ \union {n}]
        /\ IF HasNoMarker(n)
           THEN Goto(p, "look") /\ unmarked' = [unmarked EXCEPT ![p] = n]
           ELSE UNCHANGED <<pc, unmarked>>
    /\ UNCHANGED <<files, mine, listed, candidates, queue, stale>>

\* Mutant: every directory without a marker counts as a trace
HasEntry(n) == n \in dirs

\* Is there a trace.jsonl in an entry?
HasTrace(n) == n \in traces

\* The second look at it, for trace.jsonl
LookForTrace(p) ==
    /\ At(p, "look")
    /\ Goto(p, "scan")
    /\ candidates' = [candidates EXCEPT ![p] =
                        IF HasTrace(unmarked[p]) THEN @ \union {unmarked[p]} ELSE @]
    /\ unmarked' = [unmarked EXCEPT ![p] = None]
    /\ UNCHANGED <<files, mine, listed, read, queue, stale>>

\* Mutant: three are kept, so that there are four after the start
SurplusOfThree(found) == {n \in found : Cardinality({m \in found : m > n}) >= 3}

\* All but the last two candidates in the order of their names
Surplus(found) == {n \in found : Cardinality({m \in found : m > n}) >= 2}

EndScan(p) ==
    /\ At(p, "scan")
    /\ listed[p] \intersect dirs \subseteq read[p]
    /\ Goto(p, "prune")
    /\ queue' = [queue EXCEPT ![p] = Surplus(candidates[p])]
    /\ listed' = [listed EXCEPT ![p] = {}]
    /\ read' = [read EXCEPT ![p] = {}]
    /\ candidates' = [candidates EXCEPT ![p] = {}]
    /\ UNCHANGED <<files, mine, unmarked, stale>>

\* The directory that is removed next
Victim(p) == Min(queue[p])

\* remove_dir_all opens a directory and lists its files
OpenVictim(p) ==
    /\ At(p, "prune") /\ queue[p] # {} /\ Victim(p) \in dirs
    /\ Goto(p, IF Victim(p) \in traces THEN "unlink" ELSE "rmdir")
    /\ UNCHANGED <<files, mine, scan, queue, stale>>

\* What the other processes found of a directory is no longer so
Outdate(p, n) ==
    stale' = stale \union
        {<<q, n>> : q \in {q \in Procs \ {p} : n \in candidates[q] \union queue[q]}}

\* Removes the trace. Where another process was faster, the standard library
\* goes on or fails, by its version.
RemoveTrace(p) ==
    /\ At(p, "unlink")
    /\ traces' = traces \ {Victim(p)}
    /\ Goto(p, "rmdir")
    /\ Outdate(p, Victim(p))
    /\ UNCHANGED <<dirs, markers, lastName, mine, scan, queue>>

\* Removes a marker that came after it was looked for
RemoveMarker(p) ==
    /\ pc[p] \in {"unlink", "rmdir"} /\ Victim(p) \in markers
    /\ markers' = markers \ {Victim(p)}
    /\ Outdate(p, Victim(p))
    /\ UNCHANGED <<dirs, traces, lastName, pc, mine, scan, queue>>

RemoveDirectory(p) ==
    /\ At(p, "rmdir")
    /\ Victim(p) \in dirs \ (traces \union markers)
    /\ dirs' = dirs \ {Victim(p)}
    /\ queue' = [queue EXCEPT ![p] = @ \ {Victim(p)}]
    /\ Outdate(p, Victim(p))
    /\ Goto(p, "prune")
    /\ UNCHANGED <<markers, traces, lastName, mine, scan>>

\* The process has no session, no scan and nothing to remove any more
Reset(p) ==
    /\ Goto(p, "idle")
    /\ mine' = [mine EXCEPT ![p] = None]
    /\ listed' = [listed EXCEPT ![p] = {}]
    /\ read' = [read EXCEPT ![p] = {}]
    /\ unmarked' = [unmarked EXCEPT ![p] = None]
    /\ candidates' = [candidates EXCEPT ![p] = {}]
    /\ queue' = [queue EXCEPT ![p] = {}]
    /\ stale' = {pair \in stale : pair[1] # p}

\* What fails in remove_dir_all, and with it start: the directory is gone, the
\* trace in it is gone, or a file came into it
PruneFails(p) ==
    /\ queue[p] # {}
    /\ \/ pc[p] \in {"prune", "unlink", "rmdir"} /\ Victim(p) \notin dirs
       \/ At(p, "unlink") /\ Victim(p) \notin traces
       \/ At(p, "rmdir") /\ Victim(p) \in traces \union markers
    /\ Reset(p)
    /\ UNCHANGED files

-----------------------------------------------------------------------------
(* The session. *)

\* create_directory makes a directory of its own ...
CreateDirectory(p) ==
    /\ At(p, "prune") /\ queue[p] = {} /\ lastName < MaxNames
    /\ lastName' = lastName + 1
    /\ dirs' = dirs \union {lastName'}
    /\ mine' = [mine EXCEPT ![p] = lastName']
    /\ Goto(p, "mark")
    /\ UNCHANGED <<markers, traces, scan, queue, stale>>

\* ... and writes .active into it
Mark(p) ==
    /\ At(p, "mark") /\ mine[p] \in dirs
    /\ markers' = markers \union {mine[p]}
    /\ stale' = stale \union {<<q, mine[p]>> : q \in {q \in Procs : unmarked[q] = mine[p]}}
    /\ Goto(p, "open")
    /\ UNCHANGED <<dirs, traces, lastName, mine, scan, queue>>

\* start makes trace.jsonl
OpenTrace(p) ==
    /\ At(p, "open") /\ mine[p] \in dirs
    /\ traces' = traces \union {mine[p]}
    /\ Goto(p, "running")
    /\ UNCHANGED <<dirs, markers, lastName, mine, scan, queue, stale>>

\* finish, also by drop: the trace is complete, then .active is removed, or
\* finish fails when it is gone
Finish(p) ==
    /\ At(p, "running")
    /\ markers' = markers \ {mine[p]}
    /\ Reset(p)
    /\ UNCHANGED <<dirs, traces, lastName>>

\* External: SIGKILL, or an error of the file system that ends start
Stop(p) == ~At(p, "idle") /\ Reset(p) /\ UNCHANGED files

Prune(p) ==
    \/ Start(p) \/ ReadEntry(p) \/ LookForTrace(p) \/ EndScan(p)
    \/ OpenVictim(p) \/ RemoveTrace(p) \/ RemoveMarker(p) \/ RemoveDirectory(p)
    \/ PruneFails(p)

Session(p) == CreateDirectory(p) \/ Mark(p) \/ OpenTrace(p) \/ Finish(p)

Next == \E p \in Procs : Prune(p) \/ Session(p) \/ Stop(p)

Spec == Init /\ [][Next]_vars

-----------------------------------------------------------------------------
(* Properties. *)

\* Type invariant: what is on disk is named, and only a process that prunes has
\* a queue.
TypeOK ==
    /\ dirs \subseteq Names /\ lastName \in 0..MaxNames
    /\ markers \union traces \subseteq dirs
    /\ \A p \in Procs :
        /\ mine[p] \in Names \union {None} /\ unmarked[p] \in Names \union {None}
        /\ listed[p] \union read[p] \union candidates[p] \union queue[p] \subseteq Names
        /\ queue[p] # {} => pc[p] \in {"prune", "unlink", "rmdir"}

\* The completed traces stay few: two, and one for each process that finished
\* while others had already counted (prune_completed, execution_trace.rs:229).
TracesAreBounded == Cardinality(traces \ markers) <= 2 + Cardinality(Procs)

\* The files of a session are where it made them
Kept(p) == mine[p] \in traces \intersect markers

\* No process takes the trace of a running session away, but for one that
\* looked for its marker before the session wrote it and for its trace after
\* that: the two looks of execution_trace.rs:221 are not one.
RunningTracesStay ==
    [][\A p \in Procs :
        At(p, "running") /\ Kept(p) /\ ~Kept(p)' =>
            \/ pc'[p] = "idle"
            \/ \E q \in Procs \ {p} : <<q, mine[p]>> \in stale]_vars

\* A start fails in prune_completed (execution_trace.rs:231) only when another
\* process took the same trace apart after it was found, or marked it between
\* the two looks: one process alone always gets its trace.
StartFailsOnlyAfterOthers ==
    [][\A p \in Procs : PruneFails(p) => <<p, Victim(p)>> \in stale]_vars
=============================================================================
