----------------------------- MODULE TraceEvents -----------------------------
(* The events of one execution trace and their summary: TraceWriter and      *)
(* trace_operation of execution_trace.rs, and Summary of trace_summary.rs.   *)
(* The program calls and returns; its stack is what the trace should show.   *)
EXTENDS Integers, Sequences, FiniteSets, SequencesExt

CONSTANTS MaxBytes,     \* MAXIMUM_TRACE_BYTES
          Reserve,      \* the 128 bytes that are left for the marker
          MarkerSize,   \* the length of the marker
          Sizes,        \* the lengths that an event may have
          MaxCalls,     \* bound of the number of operations
          MaxDepth,     \* the depth that a summary accepts: 1024
          Absent

ASSUME SizesAssumption ==
    /\ {MaxBytes, Reserve, MarkerSize, MaxCalls} \union Sizes \subseteq Nat
    /\ MarkerSize <= Reserve /\ Reserve <= MaxBytes

\* The operations of the program are never nested deeper than a summary accepts.
ASSUME DepthAssumption == MaxDepth \in Nat /\ MaxCalls <= MaxDepth + 1

ASSUME AbsentAssumption == Absent \notin Nat

VARIABLES
    file,           \* the lines of trace.jsonl
    length,         \* history: its length
    calls,          \* TraceWriter, from here ...
    next_identifier,
    parents,
    bytes,
    stopped,        \* ... to here
    stack,          \* the operations that run, with their identifiers
    spans,          \* history: depth and status of the operations in the trace
    phase           \* of the session

writer    == <<calls, next_identifier, parents, bytes, stopped>>
traceVars == <<file, length, writer, stack, spans, phase>>

Event(event, id, parent, depth, status) ==
    [event |-> event, id |-> id, parent |-> parent, depth |-> depth, status |-> status]
Plain(event) == Event(event, Absent, Absent, Absent, Absent)
Torn == Plain("torn")

TraceInit ==
    /\ file = <<>> /\ length = 0
    /\ calls \in BOOLEAN
    /\ next_identifier = 1 /\ parents = <<>> /\ bytes = 0 /\ stopped = FALSE
    /\ stack = <<>> /\ spans = <<>>
    /\ phase = "new"

-----------------------------------------------------------------------------
(* TraceWriter *)

\* Mutant: the marker has no bytes of its own
FitsExactly(size) == bytes + size <= MaxBytes

\* Is there room for an event and for the marker after it?
Fits(size) == bytes + size + Reserve <= MaxBytes

\* write_all: the whole line, or an error after a part of it, with or without
\* a byte
Output(line, size, failed) ==
    /\ IF failed THEN \E part \in {<<>>, <<Torn>>} : file' = file \o part
       ELSE file' = Append(file, line)
    /\ length' = length + size - (IF failed THEN 1 ELSE 0)

\* write: the line, or the marker and nothing any more. An error of the marker
\* is ignored, and after an error of a line nothing follows it.
Write(event) ==
    IF stopped THEN UNCHANGED <<file, length, bytes, stopped>>
    ELSE \E size \in Sizes, failed \in BOOLEAN :
        \/ /\ ~Fits(size)
           /\ Output(Plain("trace_truncated"), MarkerSize, failed)
           /\ stopped' = TRUE
           /\ UNCHANGED bytes
        \/ /\ Fits(size)
           /\ Output(event, size, failed)
           /\ bytes' = bytes + size
           /\ stopped' = failed

\* Without calls only stages are in the trace
IsTraced(stage) == calls \/ stage

\* Mutant: the stack of parents grows only
ParentsAfterAll(id) == parents

\* The parents when an operation has ended
ParentsAfter(id) ==
    IF parents # <<>> /\ Last(parents) = id THEN Front(parents) ELSE parents

\* The operations on a stack that are in the trace
Traced(operations) == {i \in DOMAIN operations : operations[i] # Absent}

-----------------------------------------------------------------------------
\* TraceSession::start
StartTrace ==
    /\ phase = "new"
    /\ Write(Plain("trace_start"))
    /\ phase' = "running"
    /\ UNCHANGED <<calls, next_identifier, parents, stack, spans>>

\* trace_operation and begin: an operation starts
Begin(stage) ==
    /\ phase = "running" /\ next_identifier <= MaxCalls
    /\ Len(stack) < MaxCalls
    /\ IF IsTraced(stage)
       THEN /\ Write(Event(IF calls THEN "call" ELSE "stage_start", next_identifier,
                           IF parents = <<>> THEN Absent ELSE Last(parents),
                           IF calls THEN Absent ELSE Len(parents), Absent))
            /\ next_identifier' = next_identifier + 1
            /\ parents' = Append(parents, next_identifier)
            /\ stack' = Append(stack, next_identifier)
            /\ spans' = Append(spans, [depth  |-> Cardinality(Traced(stack)),
                                       status |-> "incomplete"])
       ELSE /\ stack' = Append(stack, Absent)
            /\ UNCHANGED <<file, length, bytes, stopped, next_identifier, parents, spans>>
    /\ UNCHANGED <<calls, phase>>

\* end: the operation on top returns
End(status) ==
    /\ phase = "running" /\ stack # <<>>
    /\ stack' = Front(stack)
    /\ LET id == Last(stack)
       IN  IF id = Absent
           THEN UNCHANGED <<file, length, bytes, stopped, parents, spans>>
           ELSE /\ Write(Event(IF calls THEN "return" ELSE "stage_end", id, Absent, Absent, status))
                /\ parents' = ParentsAfter(id)
                /\ spans' = [spans EXCEPT ![id].status = status]
    /\ UNCHANGED <<calls, next_identifier, phase>>

\* finish, after the command or by drop when it panics
FinishTrace(status) ==
    /\ phase = "running"
    /\ stack = <<>> \/ status = "failure"
    /\ Write(Event("trace_complete", Absent, Absent, Absent, status))
    /\ phase' = status
    /\ stack' = <<>>
    /\ UNCHANGED <<calls, next_identifier, parents, spans>>

\* External: SIGKILL between two lines
Kill ==
    /\ phase = "running"
    /\ phase' = "killed"
    /\ stack' = <<>>
    /\ UNCHANGED <<file, length, writer, spans>>

TraceNext ==
    \/ StartTrace \/ Kill
    \/ \E stage \in BOOLEAN : Begin(stage)
    \/ \E status \in {"success", "failure"} : End(status) \/ FinishTrace(status)

TraceSpec == TraceInit /\ [][TraceNext]_traceVars

-----------------------------------------------------------------------------
(* Summary::record over the lines of a file. *)

Empty == [metadata |-> FALSE, status |-> "incomplete", spans |-> <<>>, order |-> <<>>,
          truncated |-> FALSE, error |-> FALSE]

Known(s, id) == \E i \in DOMAIN s.order : s.order[i] = id

Position(s, id) == CHOOSE i \in DOMAIN s.order : s.order[i] = id

\* add_span: a call has the depth of its parent and one more
AddSpan(s, event) ==
    LET depth == IF event.depth # Absent THEN event.depth
                 ELSE IF event.parent # Absent /\ Known(s, event.parent)
                 THEN s.spans[Position(s, event.parent)].depth + 1 ELSE 0
    IN  IF depth > MaxDepth \/ Known(s, event.id) THEN [s EXCEPT !.error = TRUE]
        ELSE [s EXCEPT !.order = Append(@, event.id),
                       !.spans = Append(@, [depth |-> depth, status |-> "incomplete"])]

EndSpan(s, event) ==
    IF Known(s, event.id)
    THEN [s EXCEPT !.spans[Position(s, event.id)].status = event.status]
    ELSE s

Record(s, event) ==
    IF s.error \/ event = Torn THEN [s EXCEPT !.error = TRUE] ELSE
    CASE event.event = "trace_start" -> [s EXCEPT !.metadata = TRUE]
      [] event.event \in {"call", "stage_start"} -> AddSpan(s, event)
      [] event.event \in {"return", "stage_end"} -> EndSpan(s, event)
      [] event.event = "trace_complete" ->
            IF s.metadata THEN [s EXCEPT !.status = event.status] ELSE [s EXCEPT !.error = TRUE]
      [] event.event = "trace_truncated" -> [s EXCEPT !.truncated = TRUE]

Summary == FoldLeft(Record, Empty, file)

-----------------------------------------------------------------------------
(* Properties. *)

\* The file stays within its limit with the marker, whatever the lengths of the
\* events, and the marker is its last line (execution_trace.rs:34).
TraceIsBounded ==
    /\ length <= MaxBytes
    /\ \A i \in DOMAIN file : file[i].event \in {"trace_truncated", "torn"} => i = Len(file)

\* Every trace, also one of a killed process, can be summarised unless a line
\* of it is torn; the summary then shows the operations that ran, in their order
\* and at their depth, with a result for each that ended before the trace was
\* cut, and the result of the command (trace_summary.rs:30).
SummaryIsFaithful ==
    /\ Summary.error <=> file # <<>> /\ Last(file) = Torn
    /\ ~Summary.error =>
        /\ \A i \in DOMAIN Summary.spans :
              /\ Summary.order[i] = i
              /\ Summary.spans[i].depth = spans[i].depth
              /\ Summary.spans[i].status \in {spans[i].status, "incomplete"}
        /\ ~stopped => Summary.spans = spans
        /\ ~stopped /\ phase \in {"success", "failure"} => Summary.status = phase
        /\ Summary.status \in {phase, "incomplete"}
=============================================================================
