---------------------------- MODULE RequestSchedule ----------------------------
(***************************************************************************)
(* request_api_inputs of deadlock-analysis and the HTTP client it shares   *)
(* among its threads: a schedule behind a mutex spaces the requests, a     *)
(* rate-limited response postpones those of every thread, and a request is *)
(* tried a bounded number of times.                                        *)
(*                                                                         *)
(* An Instant is modelled by the time left until it, which is what the     *)
(* code computes of it (saturating_duration_since).  Tick is the passing   *)
(* of one unit; a sleep ends at some time after its duration.              *)
(***************************************************************************)
EXTENDS Integers

CONSTANTS
    Threads,     \* ABILITY_REQUEST_THREADS
    Heroes,      \* number of heroes, one request for each
    Interval,    \* the minimum interval of the schedule
    Second,      \* time units of a second
    RetryAfter,  \* delays that a rate-limited response may ask for
    MaxAttempts, \* maximum_attempts
    None         \* no thread

ThreadIds == 0 .. Threads - 1
HeroIds   == 0 .. Heroes - 1

ASSUME NumbersAssumption ==
    /\ Threads \in Nat \ {0}
    /\ Heroes \in Nat
    /\ Interval \in Nat
    /\ Second \in Nat
    /\ MaxAttempts \in Nat \ {0}
ASSUME RetryAfterAssumption == RetryAfter \subseteq Nat
ASSUME NoneAssumption == None \notin ThreadIds

VARIABLES
    due,      \* time until next_request of the schedule
    holder,   \* the thread that has the mutex while it sleeps, or None
    pc,       \* the next call of each thread
    sleep,    \* time left of the sleep of each thread
    attempt,  \* failed attempts at the request of each thread
    todo,     \* heroes whose request each thread has not completed
    rows,     \* heroes whose response has arrived
    result    \* of request_api_inputs

\* History variables: the time until the last slot is an interval old, and until
\* the end of the longest delay that was recorded.
VARIABLES spaced, paused

timers == <<due, sleep, spaced, paused>>
vars == <<timers, holder, pc, attempt, todo, rows, result>>

Steps == {"enter", "slot", "sent", "postpone", "backoff", "ended", "failed"}

\* A faulty variant: the threads count from one.
AssignedFromOne(t) == {h \in HeroIds : h > t /\ (h - t - 1) % Threads = 0}
\* skip and step_by: every Threads-th hero from the number of the thread on.
Assigned(t) == {h \in HeroIds : h % Threads = t}

\* 2^attempt seconds, at most 30.
CalculateRetryDelay(n) ==
    LET delays == <<1, 2, 4, 8, 16>>
    IN  Second * IF n < 5 THEN delays[n + 1] ELSE 30

Init ==
    /\ due = 0
    /\ holder = None
    /\ pc = [t \in ThreadIds |-> IF Assigned(t) = {} THEN "ended" ELSE "enter"]
    /\ sleep = [t \in ThreadIds |-> 0]
    /\ attempt = [t \in ThreadIds |-> 0]
    /\ todo = [t \in ThreadIds |-> Assigned(t)]
    /\ rows = {}
    /\ result = "none"
    /\ spaced = 0
    /\ paused = 0

-------------------------------------------------------------------------------
GoTo(t, step) == pc' = [pc EXCEPT ![t] = step]

AtLeast(a, b) == IF a >= b THEN a ELSE b

\* A faulty variant: the mutex is free during the sleep.
EnterScheduleUnlocked(t) ==
    /\ pc[t] = "enter"
    /\ holder = None
    /\ sleep' = [sleep EXCEPT ![t] = due]
    /\ GoTo(t, "slot")
    /\ UNCHANGED <<due, holder, spaced, paused, attempt, todo, rows, result>>
\* wait_for_request_slot locks the schedule, and sleeps until the next request
\* is due.
EnterSchedule(t) ==
    /\ pc[t] = "enter"
    /\ holder = None
    /\ holder' = t
    /\ sleep' = [sleep EXCEPT ![t] = due]
    /\ GoTo(t, "slot")
    /\ UNCHANGED <<due, spaced, paused, attempt, todo, rows, result>>

\* The next slot is an interval after the end of the sleep; the schedule is
\* unlocked and the request sent.
TakeSlot(t) ==
    /\ pc[t] = "slot"
    /\ sleep[t] = 0
    /\ due' = Interval
    /\ holder' = None
    /\ spaced' = Interval
    /\ GoTo(t, "sent")
    /\ UNCHANGED <<sleep, paused, attempt, todo, rows, result>>

-------------------------------------------------------------------------------
(* The outcomes of send_request                                            *)

\* A response that is JSON: on to the next hero of the thread.
Complete(t) ==
    /\ pc[t] = "sent"
    /\ \E h \in todo[t] :
         /\ \A other \in todo[t] : h <= other
         /\ rows' = rows \cup {h}
         /\ todo' = [todo EXCEPT ![t] = @ \ {h}]
         /\ GoTo(t, IF todo[t] = {h} THEN "ended" ELSE "enter")
    /\ attempt' = [attempt EXCEPT ![t] = 0]
    /\ UNCHANGED <<timers, holder, result>>

\* A status that no retry can help: the thread drops its other heroes.
Reject(t) ==
    /\ pc[t] = "sent"
    /\ GoTo(t, "failed")
    /\ UNCHANGED <<timers, holder, attempt, todo, rows, result>>

\* A faulty variant: a rate-limited attempt does not count.
RateLimitUncounted(t) ==
    /\ pc[t] = "sent"
    /\ \E delay \in RetryAfter \cup {CalculateRetryDelay(attempt[t])} :
         sleep' = [sleep EXCEPT ![t] = delay]
    /\ GoTo(t, "postpone")
    /\ UNCHANGED <<due, spaced, paused, holder, attempt, todo, rows, result>>
\* Status 429, with or without a delay.  The last attempt is final.
RateLimit(t) ==
    /\ pc[t] = "sent"
    /\ attempt' = [attempt EXCEPT ![t] = @ + 1]
    /\ IF attempt'[t] = MaxAttempts
       THEN /\ GoTo(t, "failed")
            /\ UNCHANGED sleep
       ELSE /\ \E delay \in RetryAfter \cup {CalculateRetryDelay(attempt[t])} :
                 sleep' = [sleep EXCEPT ![t] = delay]
            /\ GoTo(t, "postpone")
    /\ UNCHANGED <<due, spaced, paused, holder, todo, rows, result>>

\* A faulty variant: one attempt too many.
RetryOnceMore(t) ==
    /\ pc[t] = "sent"
    /\ attempt' = [attempt EXCEPT ![t] = @ + 1]
    /\ IF attempt'[t] > MaxAttempts
       THEN /\ GoTo(t, "failed")
            /\ UNCHANGED sleep
       ELSE /\ sleep' = [sleep EXCEPT ![t] = CalculateRetryDelay(attempt[t])]
            /\ GoTo(t, "backoff")
    /\ UNCHANGED <<due, spaced, paused, holder, todo, rows, result>>
\* A server error, a timeout, a broken or an unreadable response.
Retry(t) ==
    /\ pc[t] = "sent"
    /\ attempt' = [attempt EXCEPT ![t] = @ + 1]
    /\ IF attempt'[t] = MaxAttempts
       THEN /\ GoTo(t, "failed")
            /\ UNCHANGED sleep
       ELSE /\ sleep' = [sleep EXCEPT ![t] = CalculateRetryDelay(attempt[t])]
            /\ GoTo(t, "backoff")
    /\ UNCHANGED <<due, spaced, paused, holder, todo, rows, result>>

\* A faulty variant: the delay replaces a longer one.
PostponeRequestsToDelay(t) ==
    /\ pc[t] = "postpone"
    /\ holder = None
    /\ due' = sleep[t]
    /\ paused' = AtLeast(paused, sleep[t])
    /\ GoTo(t, "backoff")
    /\ UNCHANGED <<holder, sleep, spaced, attempt, todo, rows, result>>
\* postpone_requests has to wait for a thread that sleeps with the schedule.  The
\* delay starts when it is recorded.
PostponeRequests(t) ==
    /\ pc[t] = "postpone"
    /\ holder = None
    /\ due' = AtLeast(due, sleep[t])
    /\ paused' = AtLeast(paused, sleep[t])
    /\ GoTo(t, "backoff")
    /\ UNCHANGED <<holder, sleep, spaced, attempt, todo, rows, result>>

EndBackoff(t) ==
    /\ pc[t] = "backoff"
    /\ sleep[t] = 0
    /\ GoTo(t, "enter")
    /\ UNCHANGED <<timers, holder, attempt, todo, rows, result>>

-------------------------------------------------------------------------------
\* The threads are joined; an error of any is the result.
Join ==
    /\ result = "none"
    /\ \A t \in ThreadIds : pc[t] \in {"ended", "failed"}
    /\ result' = IF \E t \in ThreadIds : pc[t] = "failed" THEN "error" ELSE "ok"
    /\ UNCHANGED <<timers, holder, pc, attempt, todo, rows>>

Less(time) == IF time = 0 THEN 0 ELSE time - 1

\* Time passes; a delay that is not yet recorded has not begun.
Tick ==
    /\ due' = Less(due)
    /\ spaced' = Less(spaced)
    /\ paused' = Less(paused)
    /\ sleep' = [t \in ThreadIds |->
                   IF pc[t] = "postpone" THEN sleep[t] ELSE Less(sleep[t])]
    /\ UNCHANGED <<holder, pc, attempt, todo, rows, result>>

Thread(t) ==
    \/ EnterSchedule(t) \/ TakeSlot(t)
    \/ Complete(t) \/ Reject(t) \/ RateLimit(t) \/ Retry(t)
    \/ PostponeRequests(t) \/ EndBackoff(t)

Next == (\E t \in ThreadIds : Thread(t)) \/ Join \/ Tick

Spec == Init /\ [][Next]_vars

\* Time passes, a thread that can go on does, and a request is answered or times
\* out.  The mutex is not fair, and neither is this: a thread may wait for it while
\* others take it again and again.
Fairness ==
    /\ WF_vars(Tick)
    /\ WF_vars(Join)
    /\ \A t \in ThreadIds : WF_vars(Thread(t))
FairSpec == Spec /\ Fairness

-------------------------------------------------------------------------------
(* Properties                                                              *)

\* The variables have their types, and no request fails more often than it may
\* be tried.
TypeOK ==
    /\ due \in Nat
    /\ holder \in ThreadIds \cup {None}
    /\ pc \in [ThreadIds -> Steps]
    /\ sleep \in [ThreadIds -> Nat]
    /\ attempt \in [ThreadIds -> 0 .. MaxAttempts]
    /\ todo \in [ThreadIds -> SUBSET HeroIds]
    /\ rows \subseteq HeroIds
    /\ result \in {"none", "ok", "error"}
    /\ spaced \in Nat
    /\ paused \in Nat

\* However many threads there are and however late they wake, two slots of the
\* schedule are an interval apart.
SlotsAreSpaced ==
    [][\A t \in ThreadIds : TakeSlot(t) => spaced = 0]_vars

\* Once a thread has recorded the delay of a rate-limited response, no thread
\* takes a slot before it ends, neither one
\* with a shorter delay of its own nor one that was asleep for an earlier slot.
DelaysAreRespected ==
    [][\A t \in ThreadIds : TakeSlot(t) => paused = 0]_vars

\* With Ok there is a response for every hero: none falls between the threads.
OkIsComplete == result = "ok" => rows = HeroIds

\* However the API answers, request_api_inputs returns: no thread waits for
\* ever for the schedule, and no request is retried for ever.
RequestsEnd == <>(result # "none")
=============================================================================
