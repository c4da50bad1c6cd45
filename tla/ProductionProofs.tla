-------------------------- MODULE ProductionProofs --------------------------
(***************************************************************************)
(* Proofs about RequestSchedule and Production for every number of threads *)
(* and heroes, every interval and delay, every shop, and all estimates,    *)
(* responses, assets and targets.                                          *)
(***************************************************************************)
EXTENDS Production, FiniteSetTheorems, SequenceTheorems, WellFoundedInduction, TLAPS

-----------------------------------------------------------------------------
(* The requests *)

\* The mutex names exactly the thread that sleeps for a slot.
HolderSleeps == \A t \in ThreadIds : pc[t] = "slot" <=> holder = t

\* The schedule covers the interval and the recorded delays, and a thread that
\* sleeps for a slot sleeps at least until the next request is due.
ScheduleCovers ==
    /\ spaced <= due
    /\ paused <= due
    /\ \A t \in ThreadIds : pc[t] = "slot" => due <= sleep[t]

\* A thread that has not failed can try once more.
AttemptsLeft == \A t \in ThreadIds : pc[t] # "failed" => attempt[t] < MaxAttempts

\* A thread has the response of each of its heroes or will ask for it, and when
\* it has ended nothing is left to ask for.
HeroesCovered ==
    \A t \in ThreadIds :
        /\ Assigned(t) \subseteq rows \cup todo[t]
        /\ pc[t] = "ended" => todo[t] = {}

ResultOfAll == result = "ok" => \A t \in ThreadIds : pc[t] = "ended"

RequestInv ==
    /\ TypeOK
    /\ HolderSleeps
    /\ ScheduleCovers
    /\ AttemptsLeft
    /\ HeroesCovered
    /\ ResultOfAll

-----------------------------------------------------------------------------
\* The delays of the retries are numbers of time units.
LEMMA RetryDelayIsNat ==
    ASSUME NEW n \in Nat
    PROVE  CalculateRetryDelay(n) \in Nat
<1>1. Second \in Nat
  BY NumbersAssumption
<1>2. \A d \in Nat : Second * d \in Nat
  BY <1>1, SMT
<1>3. (IF n < 5 THEN <<1, 2, 4, 8, 16>>[n + 1] ELSE 30) \in Nat
  <2>1. CASE n < 5
    <3>1. n = 0 \/ n = 1 \/ n = 2 \/ n = 3 \/ n = 4
      BY <2>1
    <3>2. QED
      BY <3>1
  <2>2. CASE ~(n < 5)
    BY <2>2
  <2>3. QED
    BY <2>1, <2>2
<1>4. QED
  BY <1>2, <1>3 DEF CalculateRetryDelay

\* Every hero is assigned to a thread.
LEMMA EveryHeroIsAssigned ==
    ASSUME NEW h \in HeroIds
    PROVE  \E t \in ThreadIds : h \in Assigned(t)
<1>1. h \in Nat /\ Threads \in Nat \ {0}
  BY NumbersAssumption DEF HeroIds
<1>2. h % Threads \in 0 .. Threads - 1
  BY <1>1
<1>3. QED
  BY <1>2 DEF Assigned, ThreadIds

\* Initially nothing has been asked for.
LEMMA InitRequestInv == Init => RequestInv
<1> SUFFICES ASSUME Init PROVE RequestInv
  OBVIOUS
<1> USE NumbersAssumption, NoneAssumption DEF Init
<1>1. TypeOK
  BY DEF TypeOK, Steps, Assigned
<1>2. HolderSleeps /\ ScheduleCovers /\ AttemptsLeft /\ ResultOfAll
  BY DEF HolderSleeps, ScheduleCovers, AttemptsLeft, ResultOfAll
<1>3. HeroesCovered
  BY DEF HeroesCovered
<1>4. QED
  BY <1>1, <1>2, <1>3 DEF RequestInv

-----------------------------------------------------------------------------
(* The invariant is preserved: one lemma for the calls on the schedule, one *)
(* for the responses, one for time.                                        *)

\* The calls on the schedule
LEMMA ScheduleStep ==
    ASSUME RequestInv, NEW t \in ThreadIds,
           EnterSchedule(t) \/ TakeSlot(t) \/ PostponeRequests(t) \/ EndBackoff(t)
    PROVE  RequestInv'
<1> USE NumbersAssumption, NoneAssumption DEF RequestInv, GoTo
<1>1. TypeOK'
  BY DEF TypeOK, Steps, EnterSchedule, TakeSlot, PostponeRequests, EndBackoff,
     AtLeast, timers
<1>2. HolderSleeps'
  BY DEF TypeOK, HolderSleeps, EnterSchedule, TakeSlot, PostponeRequests, EndBackoff,
     timers
<1>3. ScheduleCovers'
  <2>1. CASE EnterSchedule(t)
    BY <2>1 DEF TypeOK, ScheduleCovers, EnterSchedule
  <2>2. CASE TakeSlot(t)
    BY <2>2 DEF TypeOK, HolderSleeps, ScheduleCovers, TakeSlot
  <2>3. CASE PostponeRequests(t)
    BY <2>3 DEF TypeOK, HolderSleeps, ScheduleCovers, PostponeRequests, AtLeast
  <2>4. CASE EndBackoff(t)
    BY <2>4 DEF TypeOK, ScheduleCovers, EndBackoff, timers
  <2>5. QED
    BY <2>1, <2>2, <2>3, <2>4
<1>4. AttemptsLeft' /\ HeroesCovered' /\ ResultOfAll'
  BY DEF TypeOK, AttemptsLeft, HeroesCovered, ResultOfAll, EnterSchedule, TakeSlot,
     PostponeRequests, EndBackoff, timers
<1>5. QED
  BY <1>1, <1>2, <1>3, <1>4

\* The responses to a request
LEMMA ResponseStep ==
    ASSUME RequestInv, NEW t \in ThreadIds,
           Complete(t) \/ Reject(t) \/ RateLimit(t) \/ Retry(t)
    PROVE  RequestInv'
<1> USE NumbersAssumption, NoneAssumption DEF RequestInv, GoTo
<1>1. CASE Complete(t)
  <2>1. PICK h \in todo[t] :
          /\ rows' = rows \cup {h}
          /\ todo' = [todo EXCEPT ![t] = @ \ {h}]
          /\ pc' = [pc EXCEPT ![t] = IF todo[t] = {h} THEN "ended" ELSE "enter"]
    BY <1>1 DEF Complete
  <2>2. UNCHANGED <<due, sleep, spaced, paused, holder, result>>
        /\ attempt' = [attempt EXCEPT ![t] = 0] /\ pc[t] = "sent"
    BY <1>1 DEF Complete, timers
  <2>3. TypeOK'
    BY <2>1, <2>2 DEF TypeOK, Steps
  <2>4. HolderSleeps' /\ ScheduleCovers' /\ AttemptsLeft' /\ ResultOfAll'
    BY <2>1, <2>2 DEF TypeOK, HolderSleeps, ScheduleCovers, AttemptsLeft, ResultOfAll
  <2>5. HeroesCovered'
    BY <2>1, <2>2 DEF TypeOK, HeroesCovered
  <2>6. QED
    BY <2>3, <2>4, <2>5
<1>2. CASE Reject(t)
  BY <1>2 DEF Reject, TypeOK, Steps, HolderSleeps, ScheduleCovers, AttemptsLeft,
     HeroesCovered, ResultOfAll, timers
<1>3. CASE RateLimit(t) \/ Retry(t)
  <2>1. /\ attempt' = [attempt EXCEPT ![t] = @ + 1]
        /\ pc[t] = "sent"
        /\ UNCHANGED <<due, spaced, paused, holder, todo, rows, result>>
    BY <1>3 DEF RateLimit, Retry
  <2>2. PICK delay \in Nat, step \in {"failed", "postpone", "backoff"} :
          /\ pc' = [pc EXCEPT ![t] = step]
          /\ sleep' = sleep \/ sleep' = [sleep EXCEPT ![t] = delay]
          /\ attempt'[t] = MaxAttempts => step = "failed"
    <3>1. CalculateRetryDelay(attempt[t]) \in Nat
      BY RetryDelayIsNat DEF TypeOK
    <3>2. QED
      BY <1>3, <3>1, RetryAfterAssumption DEF RateLimit, Retry
  <2>3. attempt[t] + 1 \in 0 .. MaxAttempts /\ attempt'[t] = attempt[t] + 1
    BY <2>1 DEF TypeOK, AttemptsLeft
  <2>4. TypeOK'
    BY <2>1, <2>2, <2>3 DEF TypeOK, Steps
  <2>5. HolderSleeps' /\ ScheduleCovers' /\ HeroesCovered' /\ ResultOfAll'
    BY <2>1, <2>2 DEF TypeOK, HolderSleeps, ScheduleCovers, HeroesCovered, ResultOfAll
  <2>6. AttemptsLeft'
    BY <2>1, <2>2, <2>3 DEF TypeOK, AttemptsLeft
  <2>7. QED
    BY <2>4, <2>5, <2>6
<1>4. QED
  BY <1>1, <1>2, <1>3

\* Time
LEMMA TickStep == ASSUME RequestInv, Tick PROVE RequestInv'
<1> USE DEF RequestInv, Tick, Less
<1>1. TypeOK'
  BY DEF TypeOK
<1>2. ScheduleCovers'
  BY DEF TypeOK, ScheduleCovers
<1>3. QED
  BY <1>1, <1>2 DEF TypeOK, HolderSleeps, AttemptsLeft, HeroesCovered, ResultOfAll

\* The threads are joined.
LEMMA JoinStep == ASSUME RequestInv, Join PROVE RequestInv'
  BY DEF RequestInv, Join, TypeOK, HolderSleeps, ScheduleCovers, AttemptsLeft,
     HeroesCovered, ResultOfAll, timers

\* After the requests the schedule is forgotten.
LEMMA CollectStep == ASSUME RequestInv, Collect PROVE RequestInv'
  BY DEF RequestInv, Collect, TypeOK, HolderSleeps, ScheduleCovers, AttemptsLeft,
     HeroesCovered, ResultOfAll

\* The steps of the assembly leave the requests alone.
LEMMA RequestStep == ASSUME RequestInv, [ProducerNext]_<<vars, producerVars>> PROVE RequestInv'
<1>1. ASSUME NEW t \in ThreadIds, Thread(t) PROVE RequestInv'
  BY <1>1, ScheduleStep, ResponseStep DEF Thread
<1>2. CASE UNCHANGED vars
  BY <1>2 DEF vars, timers, RequestInv, TypeOK, HolderSleeps, ScheduleCovers,
     AttemptsLeft,
     HeroesCovered, ResultOfAll
<1>3. Request \/ Collect \/ UNCHANGED vars
  BY DEF ProducerNext, Advance, Assemble, AttachOrder, Produce
<1>4. CASE Request
  BY <1>1, <1>4, TickStep, JoinStep DEF Request, Next
<1>5. QED
  BY <1>2, <1>3, <1>4, CollectStep

\* The invariant of the requests holds in every reachable state.
THEOREM RequestInvariance == ProducerSpec => []RequestInv
<1>1. ProducerInit => RequestInv
  BY InitRequestInv DEF ProducerInit
<1>2. QED
  BY <1>1, RequestStep, PTL DEF ProducerSpec

-----------------------------------------------------------------------------
(* Numbers, finite sets and folds. *)

\* Of some numbers one is the least.
LEMMA LeastNumber ==
    ASSUME NEW S, S \subseteq Nat, S # {}
    PROVE  \E m \in S : \A n \in S : m <= n
<1> DEFINE Smaller == {pair \in Nat \X Nat : pair[1] < pair[2]}
<1>1. IsWellFoundedOn(Smaller, Nat)
  BY NatLessThanWellFounded, Zenon DEF OpToRel
<1>2. PICK m \in S : \A n \in S : <<n, m>> \notin Smaller
  BY <1>1, WFMin
<1>3. ASSUME NEW n \in S PROVE m <= n
  <2>1. <<n, m>> \in Nat \X Nat /\ ~(<<n, m>>[1] < <<n, m>>[2])
    BY <1>2
  <2> QED
    BY <2>1
<1> QED
  BY <1>3

\* What zero has, and each successor of a number that has it, all numbers have.
LEMMA NumberInduction ==
    ASSUME NEW P, 0 \in P, \A n \in Nat : n \in P => n + 1 \in P
    PROVE  Nat \subseteq P
<1> SUFFICES ASSUME Nat \ P # {} PROVE FALSE
  OBVIOUS
<1>1. PICK m \in Nat \ P : \A n \in Nat \ P : m <= n
  BY LeastNumber
<1>2. m # 0 /\ m - 1 \in Nat /\ ~(m <= m - 1)
  BY <1>1
<1>3. m - 1 \in P
  BY <1>1, <1>2
<1>4. (m - 1) + 1 = m
  BY <1>1
<1> QED
  BY <1>1, <1>2, <1>3, <1>4

\* A fold over a sequence of n elements goes through the subsets of its places.
FoldsOf(X, n, base, step) ==
    {g \in [SUBSET (1 .. n) -> X] :
        /\ g[{}] = base
        /\ \A s \in SUBSET (1 .. n) : s # {} =>
              Max(s) \in 1 .. n /\ g[s] = step[<<g[s \ {Max(s)}], Max(s)>>]}

\* Max chooses a greatest number.
LEMMA MaxIs ==
    ASSUME NEW s, NEW m \in Nat, m \in s, \A x \in s : x \in Nat /\ x <= m
    PROVE  Max(s) = m
<1>1. m \in s /\ \A y \in s : m >= y
  OBVIOUS
<1>2. ASSUME NEW x \in s, \A y \in s : x >= y PROVE x = m
  BY <1>2
<1> QED
  BY <1>1, <1>2 DEF Max

\* There is such a fold, so that the one that FoldLeft chooses is one.
LEMMA FoldExists ==
    ASSUME NEW X, NEW n \in Nat, NEW base \in X, NEW step \in [X \X (1 .. n) -> X]
    PROVE  FoldsOf(X, n, base, step) # {}
<1> DEFINE Solved == {m \in Nat : m <= n => FoldsOf(X, m, base, step) # {}}
<1>1. 0 \in Solved
  <2> DEFINE g == [s \in SUBSET (1 .. 0) |-> base]
  <2>1. \A s \in SUBSET (1 .. 0) : s = {}
    OBVIOUS
  <2>2. g \in [SUBSET (1 .. 0) -> X] /\ g[{}] = base
    OBVIOUS
  <2> HIDE DEF g
  <2>3. g \in FoldsOf(X, 0, base, step)
    BY <2>1, <2>2 DEF FoldsOf
  <2> QED
    BY <2>3
<1>2. ASSUME NEW m \in Nat, m \in Solved PROVE m + 1 \in Solved
  <2> SUFFICES ASSUME m + 1 <= n PROVE FoldsOf(X, m + 1, base, step) # {}
    OBVIOUS
  <2>0. m <= n
    OBVIOUS
  <2>1. PICK f : f \in FoldsOf(X, m, base, step)
    BY <1>2, <2>0
  <2>a. /\ f \in [SUBSET (1 .. m) -> X] /\ f[{}] = base
        /\ \A s \in SUBSET (1 .. m) : s # {} =>
             Max(s) \in 1 .. m /\ f[s] = step[<<f[s \ {Max(s)}], Max(s)>>]
    BY <2>1 DEF FoldsOf
  <2> DEFINE All == SUBSET (1 .. m + 1)
             g == [s \in All |-> IF m + 1 \in s THEN step[<<f[s \ {m + 1}], m + 1>>] ELSE f[s]]
  <2>2. \A s \in All : /\ s \ {m + 1} \in SUBSET (1 .. m)
                       /\ m + 1 \notin s => s \in SUBSET (1 .. m)
    OBVIOUS
  <2>3. ASSUME NEW s \in All PROVE g[s] \in X
    <3>1. CASE m + 1 \in s
      <4>1. f[s \ {m + 1}] \in X /\ m + 1 \in 1 .. n
        BY <2>a, <2>2
      <4>2. step[<<f[s \ {m + 1}], m + 1>>] \in X
        BY <4>1
      <4> QED
        BY <3>1, <4>2
    <3>2. CASE m + 1 \notin s
      BY <2>a, <2>2, <3>2
    <3> QED
      BY <3>1, <3>2
  <2>4. g \in [All -> X]
    BY <2>3
  <2>5. g[{}] = base
    BY <2>a
  <2>6. ASSUME NEW s \in All, s # {}
        PROVE  Max(s) \in 1 .. m + 1 /\ g[s] = step[<<g[s \ {Max(s)}], Max(s)>>]
    <3>1. CASE m + 1 \in s
      <4>1. Max(s) = m + 1
        <5>1. \A x \in s : x \in Nat /\ x <= m + 1
          OBVIOUS
        <5>2. m + 1 \in Nat
          OBVIOUS
        <5> QED
          BY <3>1, <5>1, <5>2, MaxIs
      <4>2. s \ {m + 1} \in All /\ g[s \ {m + 1}] = f[s \ {m + 1}]
        BY <2>2
      <4> QED
        BY <3>1, <4>1, <4>2
    <3>2. CASE m + 1 \notin s
      <4>1. s \in SUBSET (1 .. m) /\ s \ {Max(s)} \in All /\ m + 1 \notin s \ {Max(s)}
        BY <2>2, <3>2
      <4>2. g[s] = f[s] /\ g[s \ {Max(s)}] = f[s \ {Max(s)}]
        BY <3>2, <4>1
      <4>3. Max(s) \in 1 .. m + 1 /\ f[s] = step[<<f[s \ {Max(s)}], Max(s)>>]
        BY <2>a, <2>6, <4>1
      <4> QED
        BY <4>2, <4>3
    <3> QED
      BY <3>1, <3>2
  <2> HIDE DEF g
  <2>7. g \in FoldsOf(X, m + 1, base, step)
    BY <2>4, <2>5, <2>6 DEF FoldsOf
  <2> QED
    BY <2>7
<1> HIDE DEF Solved
<1>3. n \in Solved
  BY <1>1, <1>2, NumberInduction
<1> QED
  BY <1>3 DEF Solved

\* The last place of a fold is the one that is taken off first.
LEMMA MaxOfInterval ==
    ASSUME NEW n \in Nat, n # 0
    PROVE  Max(1 .. n) = n
<1> DEFINE s == 1 .. n
<1>1. n \in s /\ \A x \in s : x \in Nat /\ x <= n
  OBVIOUS
<1> HIDE DEF s
<1>2. Max(s) = n
  BY <1>1, MaxIs
<1> QED
  BY <1>2 DEF s

\* What holds at first, and after each element, holds of a fold.
LEMMA FoldReaches ==
    ASSUME NEW P, NEW n \in Nat, NEW g, g[{}] \in P[0],
           \A m \in 1 .. n : g[(1 .. m) \ {Max(1 .. m)}] \in P[m - 1] => g[1 .. m] \in P[m]
    PROVE  g[1 .. n] \in P[n]
<1> DEFINE Reached == {m \in Nat : m <= n => g[1 .. m] \in P[m]}
<1>1. 0 \in Reached
  <2>1. 1 .. 0 = {}
    OBVIOUS
  <2> QED
    BY <2>1
<1>2. ASSUME NEW m \in Nat, m \in Reached PROVE m + 1 \in Reached
  <2> SUFFICES ASSUME m + 1 <= n PROVE g[1 .. m + 1] \in P[m + 1]
    OBVIOUS
  <2>1. Max(1 .. m + 1) = m + 1
    <3>1. m + 1 \in Nat /\ m + 1 # 0
      OBVIOUS
    <3> QED
      BY <3>1, MaxOfInterval
  <2>2. (1 .. m + 1) \ {m + 1} = 1 .. m /\ (m + 1) - 1 = m
    OBVIOUS
  <2>3. m + 1 \in 1 .. n /\ g[1 .. m] \in P[m]
    BY <1>2
  <2> QED
    BY <2>1, <2>2, <2>3
<1> HIDE DEF Reached
<1>3. n \in Reached
  BY <1>1, <1>2, NumberInduction
<1>4. n <= n
  OBVIOUS
<1> QED
  BY <1>3, <1>4 DEF Reached

\* Of finitely many elements one has the least key, and of those with that key the
\* least second key.
LEMMA LeastOf ==
    ASSUME NEW S, IsFiniteSet(S), S # {}, NEW k \in [S -> Int], NEW l \in [S -> Int]
    PROVE  \E x \in S : \A y \in S : k[x] < k[y] \/ (k[x] = k[y] /\ l[x] <= l[y])
<1> DEFINE Leq(x, y) == k[x] < k[y] \/ (k[x] = k[y] /\ l[x] <= l[y])
           n == Cardinality(S)
<1>1. /\ \A x, y \in S : Leq(x, y) \/ Leq(y, x)
      /\ \A x \in S : Leq(x, x)
      /\ \A x, y, z \in S : Leq(x, y) /\ Leq(y, z) => Leq(x, z)
  OBVIOUS
<1>2. n \in Nat /\ n # 0 /\ ExistsBijection(1 .. n, S)
  BY FS_CardinalityType, FS_EmptySet
<1>3. PICK b : b \in Bijection(1 .. n, S)
  BY <1>2 DEF ExistsBijection
<1>4. b \in [1 .. n -> S] /\ \A y \in S : \E i \in 1 .. n : b[i] = y
  BY <1>3 DEF Bijection, Surjection, Injection
<1> HIDE DEF Leq, n
<1> DEFINE P == {m \in Nat : m # 0 /\ m <= n =>
                    \E x \in 1 .. m : \A y \in 1 .. m : Leq(b[x], b[y])}
<1>5. 0 \in P
  OBVIOUS
<1>6. ASSUME NEW m \in Nat, m \in P PROVE m + 1 \in P
  <2> SUFFICES ASSUME m + 1 <= n
               PROVE  \E x \in 1 .. m + 1 : \A y \in 1 .. m + 1 : Leq(b[x], b[y])
    OBVIOUS
  <2>1. /\ \A y \in 1 .. m + 1 : y \in 1 .. n /\ b[y] \in S /\ (y \in 1 .. m \/ y = m + 1)
        /\ m + 1 \in 1 .. m + 1
    BY <1>2, <1>4
  <2>2. CASE m = 0
    BY <1>1, <2>1, <2>2
  <2>3. CASE m # 0
    <3>1. PICK x \in 1 .. m : \A y \in 1 .. m : Leq(b[x], b[y])
      BY <1>2, <1>6, <2>3
    <3>2. x \in 1 .. m + 1
      OBVIOUS
    <3>3. CASE Leq(b[x], b[m + 1])
      BY <2>1, <3>1, <3>2, <3>3
    <3>4. CASE Leq(b[m + 1], b[x])
      <4>1. \A y \in 1 .. m + 1 : Leq(b[m + 1], b[y])
        BY <1>1, <2>1, <3>1, <3>2, <3>4
      <4> QED
        BY <2>1, <4>1
    <3> QED
      BY <1>1, <2>1, <3>2, <3>3, <3>4
  <2> QED
    BY <2>2, <2>3
<1> HIDE DEF P
<1>7. n \in P
  BY <1>2, <1>5, <1>6, NumberInduction
<1>8. PICK x \in 1 .. n : \A y \in 1 .. n : Leq(b[x], b[y])
  BY <1>2, <1>7 DEF P
<1>9. b[x] \in S /\ \A y \in S : Leq(b[x], y)
  BY <1>4, <1>8
<1> QED
  BY <1>9 DEF Leq

-----------------------------------------------------------------------------
(* Sorted enumerates a finite set, however it is ordered. *)

IsOrder(items, before) ==
    /\ before \in [items -> SUBSET items]
    /\ \A x \in items : x \notin before[x]
    /\ \A x, y, z \in items : x \in before[y] /\ y \in before[z] => x \in before[z]
    /\ \A x, y \in items : x # y => x \in before[y] \/ y \in before[x]

\* Each place has an element and each element a place: sort_by loses and repeats none.
LEMMA SortedIs ==
    ASSUME NEW items, IsFiniteSet(items), NEW before, IsOrder(items, before)
    PROVE  Sorted(items, before) \in Bijection(1 .. Cardinality(items), items)
<1> DEFINE n == Cardinality(items)
           s == Sorted(items, before)
           places == 1 .. n
           rank == [x \in items |-> Cardinality(before[x]) + 1]
<1>1. n \in Nat /\ IsFiniteSet(places) /\ Cardinality(places) = n
  <2>1. n \in Nat
    BY FS_CardinalityType
  <2> QED
    BY <2>1, FS_Interval
<1>2. ASSUME NEW x \in items
      PROVE  IsFiniteSet(before[x]) /\ Cardinality(before[x]) \in Nat /\ Cardinality(before[x]) < n
  <2>1. before[x] \subseteq items /\ x \notin before[x]
    BY DEF IsOrder
  <2>2. Cardinality(before[x]) <= n /\ (Cardinality(before[x]) = n => before[x] = items)
    BY <2>1, FS_Subset
  <2>3. IsFiniteSet(before[x]) /\ Cardinality(before[x]) \in Nat
    BY <2>1, FS_Subset, FS_CardinalityType
  <2> QED
    BY <1>1, <2>1, <2>2, <2>3
<1>3. ASSUME NEW x \in items, NEW y \in items, x \in before[y]
      PROVE  Cardinality(before[x]) < Cardinality(before[y])
  <2>1. before[x] \subseteq before[y]
    BY <1>3 DEF IsOrder
  <2>2. x \in before[y] /\ x \notin before[x]
    BY <1>3 DEF IsOrder
  <2>3. /\ Cardinality(before[x]) <= Cardinality(before[y])
        /\ (Cardinality(before[x]) = Cardinality(before[y]) => before[x] = before[y])
    BY <1>2, <2>1, FS_Subset
  <2> QED
    BY <1>2, <2>2, <2>3
<1>4. rank \in [items -> places] /\ \A x \in items : rank[x] = Cardinality(before[x]) + 1
  BY <1>1, <1>2
<1>5. \A x, y \in items : rank[x] = rank[y] => x = y
  <2> SUFFICES ASSUME NEW x \in items, NEW y \in items, x # y PROVE rank[x] # rank[y]
    OBVIOUS
  <2>1. x \in before[y] \/ y \in before[x]
    BY DEF IsOrder
  <2> QED
    BY <1>2, <1>3, <1>4, <2>1
<1> HIDE DEF n, rank
<1>6. rank \in Injection(items, places)
  BY <1>4, <1>5 DEF Injection, IsInjective
<1>7. rank \in Surjection(items, places)
  BY <1>1, <1>6, FS_Injection DEF n
<1>8. \A i \in places : \E x \in items : rank[x] = i
  BY <1>7 DEF Surjection
<1>9. s = [i \in places |-> CHOOSE x \in items : Cardinality(before[x]) = i - 1]
  BY DEF Sorted, n
<1>10. ASSUME NEW i \in places PROVE s[i] \in items /\ rank[s[i]] = i
  <2>1. PICK x \in items : rank[x] = i
    BY <1>8
  <2>2. Cardinality(before[x]) = i - 1
    BY <1>1, <1>2, <1>4, <2>1
  <2>3. s[i] \in items /\ Cardinality(before[s[i]]) = i - 1
    BY <1>9, <2>2
  <2> QED
    BY <1>1, <1>4, <2>3
<1> HIDE DEF s
<1>11. s \in [places -> items]
  BY <1>9, <1>10
<1>12. \A i, j \in places : s[i] = s[j] => i = j
  BY <1>10
<1>13. \A x \in items : \E i \in places : s[i] = x
  <2> SUFFICES ASSUME NEW x \in items PROVE \E i \in places : s[i] = x
    OBVIOUS
  <2>1. rank[x] \in places
    BY <1>4
  <2>2. rank[s[rank[x]]] = rank[x] /\ s[rank[x]] \in items
    BY <1>10, <2>1
  <2> QED
    BY <1>5, <2>1, <2>2
<1> QED
  BY <1>11, <1>12, <1>13 DEF Bijection, Injection, Surjection, IsInjective, s, n

-----------------------------------------------------------------------------
(* Sums over finite sets. *)

Some(s) == CHOOSE x \in s : TRUE

IsSum(g, S, f) ==
    /\ g \in [SUBSET S -> Nat]
    /\ \A s \in SUBSET S : g[s] = IF s = {} THEN 0 ELSE f[Some(s)] + g[s \ {Some(s)}]

\* There is a sum over the subsets of a finite set.
LEMMA SumExists ==
    ASSUME NEW S, IsFiniteSet(S), NEW f \in [S -> Nat]
    PROVE  \E g : IsSum(g, S, f)
<1> DEFINE X == [SUBSET S -> Nat]
           Body(g, s) == IF s = {} THEN 0 ELSE f[Some(s)] + g[s \ {Some(s)}]
           Solved == {m \in Nat : \E g \in X : \A s \in SUBSET S : Cardinality(s) <= m => g[s] = Body(g, s)}
<1>1. ASSUME NEW s \in SUBSET S
      PROVE  /\ Cardinality(s) \in Nat /\ Cardinality(s) <= Cardinality(S)
             /\ s # {} => /\ Some(s) \in S /\ s \ {Some(s)} \in SUBSET S
                          /\ Cardinality(s \ {Some(s)}) = Cardinality(s) - 1
  <2>1. IsFiniteSet(s) /\ Cardinality(s) <= Cardinality(S)
    BY FS_Subset
  <2>2. s # {} => Some(s) \in s
    BY DEF Some
  <2> QED
    BY <2>1, <2>2, FS_CardinalityType, FS_RemoveElement
<1>2. ASSUME NEW g \in X, NEW s \in SUBSET S PROVE Body(g, s) \in Nat
  <2>1. CASE s = {}
    BY <2>1
  <2>2. CASE s # {}
    <3>1. f[Some(s)] \in Nat /\ g[s \ {Some(s)}] \in Nat
      BY <1>1, <2>2
    <3> QED
      BY <2>2, <3>1
  <2> QED
    BY <2>1, <2>2
<1>3. 0 \in Solved
  <2> DEFINE g == [s \in SUBSET S |-> 0]
  <2>1. g \in X
    OBVIOUS
  <2>2. ASSUME NEW s \in SUBSET S, Cardinality(s) <= 0 PROVE g[s] = Body(g, s)
    <3>1. Cardinality(s) \in Nat /\ IsFiniteSet(s)
      BY <1>1, FS_Subset
    <3>2. s = {}
      BY <2>2, <3>1, FS_EmptySet
    <3> QED
      BY <3>2
  <2> HIDE DEF g, X, Body
  <2> QED
    BY <2>1, <2>2
<1>4. ASSUME NEW m \in Nat, m \in Solved PROVE m + 1 \in Solved
  <2>1. PICK h \in X : \A s \in SUBSET S : Cardinality(s) <= m => h[s] = Body(h, s)
    BY <1>4
  <2> DEFINE g == [s \in SUBSET S |-> Body(h, s)]
  <2>2. g \in X /\ \A s \in SUBSET S : g[s] = Body(h, s)
    BY <1>2
  <2> HIDE DEF g
  <2>3. ASSUME NEW s \in SUBSET S, Cardinality(s) <= m + 1 PROVE g[s] = Body(g, s)
    <3>1. CASE s = {}
      BY <2>2, <3>1
    <3>2. CASE s # {}
      <4>1. s \ {Some(s)} \in SUBSET S /\ Cardinality(s \ {Some(s)}) <= m
        BY <1>1, <2>3, <3>2
      <4> HIDE DEF Body
      <4>2. g[s \ {Some(s)}] = h[s \ {Some(s)}]
        BY <2>1, <2>2, <4>1
      <4> QED
        BY <2>2, <3>2, <4>2 DEF Body
    <3> QED
      BY <3>1, <3>2
  <2> HIDE DEF X, Body
  <2> QED
    BY <2>2, <2>3
<1> HIDE DEF Solved
<1>5. Cardinality(S) \in Nat
  BY FS_CardinalityType
<1>6. Cardinality(S) \in Solved
  BY <1>3, <1>4, <1>5, NumberInduction
<1>7. PICK g \in X : \A s \in SUBSET S : Cardinality(s) <= Cardinality(S) => g[s] = Body(g, s)
  BY <1>6 DEF Solved
<1>8. \A s \in SUBSET S : g[s] = Body(g, s)
  BY <1>1, <1>7
<1> QED
  BY <1>7, <1>8 DEF IsSum

\* The matches of no rows are 0.
LEMMA MatchesIsNat ==
    ASSUME NEW answers, NEW places, IsFiniteSet(places), \A i \in places : answers[i].matches \in Nat
    PROVE  /\ Matches(answers, places) \in Nat
           /\ places = {} => Matches(answers, places) = 0
<1> DEFINE f == [i \in places |-> answers[i].matches]
           Body(g) == [s \in SUBSET places |->
                         IF s = {} THEN 0
                         ELSE answers[CHOOSE x \in s : TRUE].matches + g[s \ {CHOOSE x \in s : TRUE}]]
           sum == CHOOSE g : g = Body(g)
<1>1. Matches(answers, places) = sum[places]
  BY DEF Matches, MapThenSumSet, MapThenFoldSet
<1>2. f \in [places -> Nat] /\ \A i \in places : f[i] = answers[i].matches
  OBVIOUS
<1> HIDE DEF f
<1>3. PICK g : IsSum(g, places, f)
  BY <1>2, SumExists
<1>4. g = Body(g)
  <2>1. ASSUME NEW s \in SUBSET places, s # {} PROVE f[Some(s)] = answers[Some(s)].matches
    BY <1>2, <2>1 DEF Some
  <2> QED
    BY <1>3, <2>1 DEF IsSum, Some
<1>5. sum = Body(sum)
  BY <1>4
<1> HIDE DEF sum
<1> DEFINE Typed == {m \in Nat : \A s \in SUBSET places : Cardinality(s) = m => sum[s] \in Nat}
<1>6. ASSUME NEW s \in SUBSET places
      PROVE  /\ Cardinality(s) \in Nat /\ IsFiniteSet(s)
             /\ s # {} => /\ Some(s) \in places /\ s \ {Some(s)} \in SUBSET places
                          /\ Cardinality(s \ {Some(s)}) = Cardinality(s) - 1
  <2>1. IsFiniteSet(s)
    BY FS_Subset
  <2>2. s # {} => Some(s) \in s
    BY DEF Some
  <2> QED
    BY <2>1, <2>2, FS_CardinalityType, FS_RemoveElement
<1>7. ASSUME NEW s \in SUBSET places
      PROVE  sum[s] = IF s = {} THEN 0 ELSE answers[Some(s)].matches + sum[s \ {Some(s)}]
  BY <1>5 DEF Some
<1>8. 0 \in Typed
  <2>1. ASSUME NEW s \in SUBSET places, Cardinality(s) = 0 PROVE s = {}
    BY <1>6, <2>1, FS_EmptySet
  <2> QED
    BY <1>7, <2>1
<1>9. ASSUME NEW m \in Nat, m \in Typed PROVE m + 1 \in Typed
  <2> SUFFICES ASSUME NEW s \in SUBSET places, Cardinality(s) = m + 1 PROVE sum[s] \in Nat
    OBVIOUS
  <2>1. s # {}
    BY FS_EmptySet
  <2>2. /\ Some(s) \in places /\ s \ {Some(s)} \in SUBSET places
        /\ Cardinality(s \ {Some(s)}) = m
    BY <1>6, <2>1
  <2>3. sum[s \ {Some(s)}] \in Nat /\ answers[Some(s)].matches \in Nat
    BY <1>9, <2>2
  <2>4. sum[s] = answers[Some(s)].matches + sum[s \ {Some(s)}]
    BY <1>7, <2>1
  <2> QED
    BY <2>3, <2>4
<1> HIDE DEF Typed
<1>10. Cardinality(places) \in Typed
  BY <1>6, <1>8, <1>9, NumberInduction
<1> QED
  BY <1>1, <1>7, <1>10 DEF Typed

\* A single item costs what it costs.
LEMMA CostOfOne ==
    ASSUME NEW item \in Shop
    PROVE  CostOf({item}) = Catalog[item].cost
<1> DEFINE S == {item}
           f == [i \in S |-> Catalog[i].cost]
           Body(g) == [s \in SUBSET S |->
                         IF s = {} THEN 0
                         ELSE Catalog[CHOOSE x \in s : TRUE].cost + g[s \ {CHOOSE x \in s : TRUE}]]
           sum == CHOOSE g : g = Body(g)
<1>1. CostOf(S) = sum[S]
  BY DEF CostOf, MapThenSumSet, MapThenFoldSet
<1>2. IsFiniteSet(S) /\ Catalog[item].cost \in Nat
  BY FS_Singleton, CatalogAssumption
<1>3. f \in [S -> Nat] /\ \A i \in S : f[i] = Catalog[i].cost
  BY <1>2
<1> HIDE DEF f
<1>4. PICK g : IsSum(g, S, f)
  BY <1>2, <1>3, SumExists
<1>5. g = Body(g)
  <2>1. ASSUME NEW s \in SUBSET S, s # {} PROVE f[Some(s)] = Catalog[Some(s)].cost
    BY <1>3, <2>1 DEF Some
  <2> QED
    BY <1>4, <2>1 DEF IsSum, Some
<1>6. sum = Body(sum)
  BY <1>5
<1> HIDE DEF sum
<1>7. ASSUME NEW s \in SUBSET S
      PROVE  sum[s] = IF s = {} THEN 0 ELSE Catalog[Some(s)].cost + sum[s \ {Some(s)}]
  BY <1>6 DEF Some
<1>8. Some(S) = item /\ S \ {item} = {}
  BY DEF Some
<1>9. sum[S] = Catalog[item].cost + sum[{}] /\ sum[{}] = 0
  BY <1>7, <1>8
<1> QED
  BY <1>1, <1>2, <1>9

-----------------------------------------------------------------------------
(* One phase of the assembly. *)

Purchased == [phase : Phases, item : Shop]
States    == [owned : SUBSET Shop, added : Seq(Purchased)]

\* Scores are numbers.
LEMMA ScoreIsInt ==
    ASSUME NEW estimates \in EstimateSets, NEW item \in Shop
    PROVE  Score(estimates, item) \in Int /\ estimates.use[item] \in Int /\ estimates.effect[item] \in Int
<1>1. estimates \in [use : Scores, effect : Scores, all : Scores, spend : Nat]
  BY InputsAssumption
<1>2. estimates.use[item] \in Int /\ estimates.effect[item] \in Int
  BY <1>1 DEF Scores
<1> QED
  BY <1>2 DEF Score

Worth(kept, estimates) == {item \in Shop \ kept : Score(estimates, item) > 0}

\* The candidates are the items that are worth something and not yet owned, each once.
LEMMA CandidatesAre ==
    ASSUME NEW kept \in SUBSET Shop, NEW estimates \in EstimateSets
    PROVE  /\ Cardinality(Worth(kept, estimates)) \in Nat
           /\ Candidates(kept, estimates)
                \in Bijection(1 .. Cardinality(Worth(kept, estimates)), Worth(kept, estimates))
<1> DEFINE items == Worth(kept, estimates)
           before == [b \in items |-> {a \in items :
                        \/ Score(estimates, a) > Score(estimates, b)
                        \/ Score(estimates, a) = Score(estimates, b) /\ a < b}]
<1>1. items \subseteq Shop /\ IsFiniteSet(items) /\ Cardinality(items) \in Nat
  <2>1. items \subseteq Shop
    BY DEF Worth
  <2> QED
    BY <2>1, CatalogAssumption, FS_Subset, FS_CardinalityType
<1>2. Candidates(kept, estimates) = Sorted(items, before)
  BY DEF Candidates, Worth
<1> DEFINE s == [item \in items |-> Score(estimates, item)]
<1>3. s \in [items -> Int] /\ items \subseteq Int
  <2>1. Shop \subseteq Int
    BY CatalogAssumption
  <2>2. \A item \in items : Score(estimates, item) \in Int
    BY <1>1, ScoreIsInt
  <2> QED
    BY <1>1, <2>1, <2>2
<1>4. \A a, b \in items : a \in before[b] <=> s[a] > s[b] \/ (s[a] = s[b] /\ a < b)
  OBVIOUS
<1>5. before \in [items -> SUBSET items]
  OBVIOUS
<1> HIDE DEF items, before, s
<1>6. IsOrder(items, before)
  <2>1. \A x \in items : x \notin before[x]
    BY <1>3, <1>4
  <2>2. ASSUME NEW x \in items, NEW y \in items, NEW z \in items, x \in before[y], y \in before[z]
        PROVE  x \in before[z]
    BY <1>3, <1>4, <2>2
  <2>3. ASSUME NEW x \in items, NEW y \in items, x # y
        PROVE  x \in before[y] \/ y \in before[x]
    BY <1>3, <1>4, <2>3
  <2> QED
    BY <1>5, <2>1, <2>2, <2>3 DEF IsOrder
<1> QED
  BY <1>1, <1>2, <1>6, SortedIs DEF items

\* A purchase leaves items of the shop.
LEMMA ConsiderType ==
    ASSUME NEW state \in States, NEW item \in Shop, NEW estimates, NEW phase \in Phases
    PROVE  Consider(state, item, estimates, phase) \in States
<1>1. Upgraded(state.owned, item) \in SUBSET Shop
  BY DEF Upgraded, States
<1>2. [phase |-> phase, item |-> item] \in Purchased
  BY DEF Purchased
<1>3. Append(state.added, [phase |-> phase, item |-> item]) \in Seq(Purchased)
  BY <1>2, AppendProperties DEF States
<1> QED
  BY <1>1, <1>3 DEF Consider, States

\* A phase considers the candidates one after the other.
LEMMA BuyAllSteps ==
    ASSUME NEW state \in States, NEW estimates \in EstimateSets, NEW phase \in Phases
    PROVE  LET items == Worth(state.owned, estimates)
               n     == Cardinality(items)
               cands == Candidates(state.owned, estimates)
           IN  \E h : /\ h[0] = state /\ BuyAll(state, estimates, phase) = h[n]
                      /\ \A m \in 1 .. n : h[m] = Consider(h[m - 1], cands[m], estimates, phase)
<1> DEFINE n == Cardinality(Worth(state.owned, estimates))
           cands == Candidates(state.owned, estimates)
           Body(g) == [s \in SUBSET DOMAIN cands |->
                         IF s = {} THEN state
                         ELSE Consider(g[s \ {Max(s)}], cands[Max(s)], estimates, phase)]
           fold == CHOOSE g : g = Body(g)
           step == [pair \in States \X (1 .. n) |-> Consider(pair[1], cands[pair[2]], estimates, phase)]
           h == [m \in 0 .. n |-> fold[1 .. m]]
<1>1. n \in Nat /\ DOMAIN cands = 1 .. n /\ \A i \in 1 .. n : cands[i] \in Shop
  <2>1. state.owned \in SUBSET Shop
    BY DEF States
  <2>2. n \in Nat /\ cands \in Bijection(1 .. n, Worth(state.owned, estimates))
    BY <2>1, CandidatesAre
  <2>3. cands \in [1 .. n -> Worth(state.owned, estimates)]
    BY <2>2 DEF Bijection, Injection
  <2> QED
    BY <2>2, <2>3 DEF Worth
<1>2. BuyAll(state, estimates, phase) = fold[DOMAIN cands]
  BY DEF BuyAll, FoldLeft, MapThenFoldSet
<1> HIDE DEF n, cands
<1>3. \A x \in States, i \in 1 .. n : Consider(x, cands[i], estimates, phase) \in States
  BY <1>1, ConsiderType
<1>4. /\ step \in [States \X (1 .. n) -> States]
      /\ \A x \in States, i \in 1 .. n : step[<<x, i>>] = Consider(x, cands[i], estimates, phase)
  BY <1>3
<1> HIDE DEF step
<1>5. PICK g : g \in FoldsOf(States, n, state, step)
  BY <1>1, <1>4, FoldExists
<1>6. g \in [SUBSET (1 .. n) -> States]
  BY <1>5 DEF FoldsOf
<1>7. g = Body(g)
  <2>1. ASSUME NEW s \in SUBSET (1 .. n) PROVE g[s] = Body(g)[s]
    <3>1. CASE s = {}
      BY <1>1, <1>5, <3>1 DEF FoldsOf
    <3>2. CASE s # {}
      <4>1. Max(s) \in 1 .. n /\ g[s] = step[<<g[s \ {Max(s)}], Max(s)>>]
        BY <1>5, <3>2 DEF FoldsOf
      <4>2. g[s \ {Max(s)}] \in States
        BY <1>6
      <4> QED
        BY <1>1, <1>4, <3>2, <4>1, <4>2
    <3> QED
      BY <3>1, <3>2
  <2> QED
    BY <1>1, <1>6, <2>1
<1>8. fold = Body(fold)
  BY <1>7
<1> HIDE DEF fold
<1>9. h[0] = state
  <2>1. 1 .. 0 = {} /\ 0 \in 0 .. n
    BY <1>1
  <2> QED
    BY <1>8, <2>1
<1>10. ASSUME NEW m \in 1 .. n
       PROVE  h[m] = Consider(h[m - 1], cands[m], estimates, phase)
  <2>1. m \in Nat /\ m # 0 /\ 1 .. m \in SUBSET (1 .. n) /\ m \in 1 .. m
    BY <1>1
  <2>2. Max(1 .. m) = m
    BY <2>1, MaxOfInterval
  <2>3. (1 .. m) \ {m} = 1 .. m - 1 /\ m \in 0 .. n /\ m - 1 \in 0 .. n
    BY <1>1, <2>1
  <2>4. fold[1 .. m] = Consider(fold[(1 .. m) \ {Max(1 .. m)}], cands[Max(1 .. m)], estimates, phase)
    BY <1>1, <1>8, <2>1
  <2> QED
    BY <2>2, <2>3, <2>4
<1>11. BuyAll(state, estimates, phase) = h[n]
  <2>1. n \in 0 .. n
    BY <1>1
  <2> QED
    BY <1>1, <1>2, <2>1
<1> HIDE DEF h
<1> QED
  BY <1>9, <1>10, <1>11 DEF n, cands

\* An element more
LEMMA RangeOfAppend ==
    ASSUME NEW Y, NEW s \in Seq(Y), NEW y \in Y
    PROVE  Range(Append(s, y)) = Range(s) \cup {y}
<1> DEFINE t == Append(s, y)
<1>1. /\ Len(s) \in Nat /\ DOMAIN s = 1 .. Len(s) /\ DOMAIN t = 1 .. Len(s) + 1
      /\ \A i \in 1 .. Len(s) : t[i] = s[i]
      /\ t[Len(s) + 1] = y
  BY LenProperties, AppendProperties
<1> HIDE DEF t
<1>2. \A i \in 1 .. Len(s) + 1 : i \in 1 .. Len(s) \/ i = Len(s) + 1
  BY <1>1
<1>3. Range(t) = Range(s) \cup {y}
  BY <1>1, <1>2 DEF Range
<1> QED
  BY <1>3 DEF t

Ids(purchases) == {entry.item : entry \in Range(purchases)}

\* What is owned, or what it is made of at any depth.
Closed(items) == \A item \in items : Catalog[item].components \subseteq items
HasPart(owned, item) == \A items \in SUBSET Shop : owned \subseteq items /\ Closed(items) => item \in items

Distinct(purchases) ==
    \A i, j \in DOMAIN purchases : purchases[i].item = purchases[j].item => i = j

\* What holds during a phase that began with some items and some purchases.
PhaseInv(state, before, old, estimates, phase) ==
    /\ state \in States
    /\ state.owned \subseteq Ids(state.added)
    /\ Cardinality(state.owned) <= MaxOwned
    /\ state.owned \subseteq before \/ CostOf(state.owned) <= estimates.spend
    /\ Distinct(state.added)
    /\ Range(old) \subseteq Range(state.added)
    /\ \A entry \in Range(state.added) \ Range(old) :
          entry.phase = phase /\ HasPart(state.owned, entry.item)

\* A purchase that is affordable keeps the invariant: what it uses up becomes a part of it.
LEMMA ConsiderKeepsInv ==
    ASSUME NEW state, NEW before, NEW old, NEW estimates \in EstimateSets, NEW phase \in Phases,
           PhaseInv(state, before, old, estimates, phase), NEW item \in Shop
    PROVE  PhaseInv(Consider(state, item, estimates, phase), before, old, estimates, phase)
<1> DEFINE next == Consider(state, item, estimates, phase)
           entry == [phase |-> phase, item |-> item]
<1>0. next \in States /\ state \in States /\ state.added \in Seq(Purchased) /\ entry \in Purchased
  BY ConsiderType DEF PhaseInv, States, Purchased
<1>1. CASE ~Buys(state.owned, item, estimates)
  BY <1>1 DEF Consider
<1>2. CASE Buys(state.owned, item, estimates)
  <2>1. /\ next.owned = Upgraded(state.owned, item)
        /\ next.added = IF IsAdded(state.added, item) THEN state.added ELSE Append(state.added, entry)
    BY <1>2 DEF Consider
  <2> HIDE DEF next
  <2>2. CostOf(next.owned) <= estimates.spend /\ Cardinality(next.owned) <= MaxOwned
    BY <1>2, <2>1 DEF Buys, Affords
  <2>3. /\ Range(state.added) \subseteq Range(next.added)
        /\ Range(next.added) \subseteq Range(state.added) \cup {entry}
        /\ item \in Ids(next.added)
    <3>1. CASE IsAdded(state.added, item)
      BY <2>1, <3>1 DEF IsAdded, Ids, Range
    <3>2. CASE ~IsAdded(state.added, item)
      <4>1. Range(next.added) = Range(state.added) \cup {entry}
        BY <1>0, <2>1, <3>2, RangeOfAppend
      <4>2. entry.item = item
        OBVIOUS
      <4> QED
        BY <4>1, <4>2 DEF Ids
    <3> QED
      BY <3>1, <3>2
  <2>4. next.owned \subseteq Ids(next.added)
    BY <2>1, <2>3 DEF PhaseInv, Upgraded, Ids
  <2>5. Distinct(next.added)
    <3>1. CASE IsAdded(state.added, item)
      BY <2>1, <3>1 DEF PhaseInv
    <3>2. CASE ~IsAdded(state.added, item)
      <4> DEFINE s == state.added
                 t == Append(s, entry)
      <4>1. /\ Len(s) \in Nat /\ DOMAIN s = 1 .. Len(s) /\ DOMAIN t = 1 .. Len(s) + 1
            /\ \A i \in 1 .. Len(s) : t[i] = s[i]
            /\ t[Len(s) + 1] = entry
        BY <1>0, LenProperties, AppendProperties
      <4>2. next.added = t
        BY <2>1, <3>2
      <4>3. \A i \in DOMAIN s : s[i].item # item
        BY <3>2 DEF IsAdded
      <4>4. \A i, j \in DOMAIN s : s[i].item = s[j].item => i = j
        BY DEF PhaseInv, Distinct
      <4> HIDE DEF s, t
      <4>5. \A i \in 1 .. Len(s) + 1 : i \in 1 .. Len(s) \/ i = Len(s) + 1
        BY <4>1
      <4>6. entry.item = item
        OBVIOUS
      <4>7. \A i, j \in DOMAIN t : t[i].item = t[j].item => i = j
        BY <4>1, <4>3, <4>4, <4>5, <4>6
      <4> QED
        BY <4>2, <4>7 DEF Distinct
    <3> QED
      BY <3>1, <3>2
  <2>6. ASSUME NEW e \in Range(next.added) \ Range(old)
        PROVE  e.phase = phase /\ HasPart(next.owned, e.item)
    <3>1. SUFFICES ASSUME NEW items \in SUBSET Shop, next.owned \subseteq items, Closed(items)
                   PROVE  e.phase = phase /\ e.item \in items
      <4>1. /\ Shop \in SUBSET Shop /\ next.owned \subseteq Shop
            /\ Closed(Shop)
        BY <1>0, CatalogAssumption DEF States, Closed
      <4> QED
        BY <4>1 DEF HasPart
    <3>2. item \in items
      BY <2>1, <3>1 DEF Upgraded
    <3>3. state.owned \subseteq items
      BY <2>1, <3>1, <3>2 DEF Upgraded, Closed
    <3>4. CASE e = entry
      BY <3>2, <3>4
    <3>5. CASE e # entry
      <4>1. e \in Range(state.added) \ Range(old)
        BY <2>3, <2>6, <3>5
      <4> QED
        BY <3>1, <3>3, <4>1 DEF PhaseInv, HasPart
    <3> QED
      BY <3>4, <3>5
  <2> QED
    BY <1>0, <2>2, <2>3, <2>4, <2>5, <2>6 DEF PhaseInv, next
<1> QED
  BY <1>1, <1>2

\* What is added of the items that a phase did not buy is beyond the means of anyone who
\* owns nothing else.
LEMMA ConsiderFirst ==
    ASSUME NEW state, NEW estimates, NEW phase \in Phases, NEW item \in Shop,
           state \in States, state.owned \subseteq Ids(state.added),
           Consider(state, item, estimates, phase).added = <<>>
    PROVE  state.added = <<>> /\ ~(Catalog[item].cost <= estimates.spend)
<1> DEFINE next == Consider(state, item, estimates, phase)
           entry == [phase |-> phase, item |-> item]
<1>1. state.added \in Seq(Purchased) /\ entry \in Purchased
  BY DEF States, Purchased
<1>2. Append(state.added, entry) # <<>>
  BY <1>1
<1>3. state.added = <<>> /\ next.added = <<>>
  BY <1>2 DEF Consider
<1>4. state.owned = {} /\ ~IsAdded(state.added, item)
  BY <1>3 DEF Ids, Range, IsAdded
<1>5. ~Buys(state.owned, item, estimates)
  BY <1>2, <1>3, <1>4 DEF Consider
<1>6. Upgraded({}, item) = {item} /\ Cardinality({item}) = 1
  BY FS_Singleton DEF Upgraded
<1>7. ~(CostOf({item}) <= estimates.spend)
  <2>1. 1 <= MaxOwned
    BY CatalogAssumption
  <2>2. ~Affords({item}, estimates)
    BY <1>4, <1>5, <1>6 DEF Buys
  <2> QED
    BY <1>6, <2>1, <2>2 DEF Affords
<1> QED
  BY <1>3, <1>7, CostOfOne

\* A phase keeps its invariant, and if nothing has been bought after it, nothing was
\* worth its price in it.
LEMMA AdvanceKeepsInv ==
    ASSUME NEW state \in States, NEW estimates \in EstimateSets, NEW phase \in Phases,
           state.owned \subseteq Ids(state.added), Cardinality(state.owned) <= MaxOwned,
           Distinct(state.added)
    PROVE  LET next == AdvancePhase(state, estimates, phase)
           IN  /\ PhaseInv(next, state.owned, state.added, estimates, phase)
               /\ next.added = <<>> =>
                     \A item \in Shop : Score(estimates, item) <= 0 \/ Catalog[item].cost > estimates.spend
<1> DEFINE kept == Retained(state.owned, estimates)
           first == [state EXCEPT !.owned = kept]
           items == Worth(kept, estimates)
           n == Cardinality(items)
           cands == Candidates(kept, estimates)
           next == AdvancePhase(state, estimates, phase)
           Inv(s) == PhaseInv(s, state.owned, state.added, estimates, phase)
<1>1. kept \subseteq state.owned /\ state.owned \subseteq Shop /\ IsFiniteSet(state.owned)
  <2>1. kept \subseteq state.owned /\ state.owned \subseteq Shop
    BY DEF Retained, States
  <2> QED
    BY <2>1, CatalogAssumption, FS_Subset
<1>2. first \in States /\ first.owned = kept /\ first.added = state.added
  BY <1>1 DEF States
<1>3. Inv(first)
  <2>1. Cardinality(kept) <= Cardinality(state.owned) /\ Cardinality(kept) \in Nat
    BY <1>1, FS_Subset, FS_CardinalityType
  <2>2. Cardinality(state.owned) \in Nat /\ MaxOwned \in Nat
    BY <1>1, FS_CardinalityType, CatalogAssumption
  <2>3. Cardinality(kept) <= MaxOwned
    BY <2>1, <2>2
  <2> HIDE DEF kept, first
  <2> QED
    BY <1>1, <1>2, <2>3 DEF PhaseInv
<1>4. n \in Nat /\ cands \in [1 .. n -> items] /\ \A item \in items : \E i \in 1 .. n : cands[i] = item
  <2>1. n \in Nat /\ cands \in Bijection(1 .. n, items)
    BY <1>1, CandidatesAre
  <2> QED
    BY <2>1 DEF Bijection, Injection, Surjection
<1>5. PICK h : /\ h[0] = first /\ next = h[n]
               /\ \A m \in 1 .. n : h[m] = Consider(h[m - 1], cands[m], estimates, phase)
  <2>1. next = BuyAll(first, estimates, phase)
    BY DEF AdvancePhase
  <2> HIDE DEF first, next, kept
  <2>2. \E h : /\ h[0] = first /\ BuyAll(first, estimates, phase) = h[n]
               /\ \A m \in 1 .. n : h[m] = Consider(h[m - 1], cands[m], estimates, phase)
    BY <1>2, BuyAllSteps
  <2> QED
    BY <2>1, <2>2
<1> DEFINE Kept == {m \in Nat : m <= n => Inv(h[m])}
<1>6. items \subseteq Shop
  BY DEF Worth
<1> HIDE DEF Inv, n, cands, items, first
<1>7. 0 \in Kept
  BY <1>3, <1>5
<1>8. ASSUME NEW m \in Nat, m \in Kept PROVE m + 1 \in Kept
  <2> SUFFICES ASSUME m + 1 <= n PROVE Inv(h[m + 1])
    OBVIOUS
  <2>1. m + 1 \in 1 .. n /\ (m + 1) - 1 = m /\ m <= n
    BY <1>4
  <2>2. Inv(h[m]) /\ cands[m + 1] \in Shop /\ h[m + 1] = Consider(h[m], cands[m + 1], estimates, phase)
    BY <1>4, <1>5, <1>6, <1>8, <2>1
  <2> QED
    BY <2>2, ConsiderKeepsInv DEF Inv
<1> HIDE DEF Kept
<1>9. \A m \in 0 .. n : Inv(h[m])
  <2>1. Nat \subseteq Kept
    BY <1>7, <1>8, NumberInduction
  <2> QED
    BY <1>4, <2>1 DEF Kept
<1>10. Inv(next)
  BY <1>4, <1>5, <1>9
<1>11. ASSUME next.added = <<>>, NEW item \in Shop
       PROVE  Score(estimates, item) <= 0 \/ Catalog[item].cost > estimates.spend
  <2> DEFINE Empty == {m \in Nat : m <= n => h[n - m].added = <<>>}
  <2>1. 0 \in Empty
    BY <1>4, <1>5, <1>11
  <2>2. ASSUME NEW m \in 1 .. n, h[m].added = <<>>
        PROVE  h[m - 1].added = <<>> /\ ~(Catalog[cands[m]].cost <= estimates.spend)
    <3>1. m - 1 \in 0 .. n /\ cands[m] \in Shop
      BY <1>4, <1>6
    <3>2. Inv(h[m - 1])
      BY <1>9, <3>1
    <3>3. h[m - 1] \in States /\ h[m - 1].owned \subseteq Ids(h[m - 1].added)
      BY <3>2 DEF Inv, PhaseInv
    <3>4. Consider(h[m - 1], cands[m], estimates, phase).added = <<>>
      BY <1>5, <2>2
    <3> HIDE DEF next, kept
    <3> QED
      BY <3>1, <3>3, <3>4, ConsiderFirst
  <2>3. ASSUME NEW m \in Nat, m \in Empty PROVE m + 1 \in Empty
    <3> SUFFICES ASSUME m + 1 <= n PROVE h[n - (m + 1)].added = <<>>
      OBVIOUS
    <3>1. n - m \in 1 .. n /\ (n - m) - 1 = n - (m + 1) /\ m <= n
      BY <1>4
    <3> QED
      BY <2>2, <2>3, <3>1
  <2> HIDE DEF Empty
  <2>4. ASSUME NEW m \in 1 .. n PROVE h[m].added = <<>>
    <3>1. n - m \in Nat /\ n - m <= n /\ n - (n - m) = m
      BY <1>4
    <3>2. n - m \in Empty
      BY <2>1, <2>3, <3>1, NumberInduction
    <3> QED
      BY <3>1, <3>2 DEF Empty
  <2>5. kept = {}
    <3>1. h[0].added = <<>>
      <4>1. CASE n = 0
        BY <1>5, <1>11, <4>1
      <4>2. CASE n # 0
        <5>1. 1 \in 1 .. n /\ 1 - 1 = 0
          BY <1>4, <4>2
        <5> QED
          BY <2>2, <2>4, <5>1
      <4> QED
        BY <4>1, <4>2
    <3>2. state.added = <<>>
      BY <1>2, <1>5, <3>1
    <3>3. state.owned = {}
      BY <3>2 DEF Ids, Range
    <3> QED
      BY <1>1, <3>3
  <2>6. Score(estimates, item) \in Int /\ Catalog[item].cost \in Nat /\ estimates.spend \in Nat
    <3>1. Catalog[item].cost \in Nat
      BY CatalogAssumption
    <3>2. estimates.spend \in Nat
      BY InputsAssumption
    <3> QED
      BY <3>1, <3>2, ScoreIsInt
  <2>7. CASE item \in items
    <3>1. PICK m \in 1 .. n : cands[m] = item
      BY <1>4, <2>7
    <3>2. ~(Catalog[item].cost <= estimates.spend)
      BY <2>2, <2>4, <3>1
    <3> QED
      BY <2>6, <3>2
  <2>8. CASE item \notin items
    <3>1. ~(Score(estimates, item) > 0)
      BY <2>5, <2>8 DEF items, Worth
    <3> QED
      BY <2>6, <3>1
  <2> QED
    BY <2>7, <2>8
<1> QED
  BY <1>10, <1>11 DEF Inv

-----------------------------------------------------------------------------
(* The build that is assembled. *)

IsTable(estimates) ==
    /\ \A p \in Phases : estimates[p] # Absent => estimates[p] \in EstimateSets
    /\ \E p \in Phases : estimates[p] # Absent

\* describe_item keeps the item and its phase.
LEMMA DescribeIs ==
    ASSUME NEW item \in Shop, NEW p \in Phases, NEW estimates, estimates[p] \in EstimateSets,
           NEW medians \in MedianSets
    PROVE  /\ Describe(item, p, estimates, medians) \in BuildItem
           /\ Describe(item, p, estimates, medians).item_id = item
           /\ Describe(item, p, estimates, medians).phase = p
           /\ Describe(item, p, estimates, medians).tier = Catalog[item].tier
           /\ Describe(item, p, estimates, medians).name <= MaxName
           /\ BuyTime(item, medians) \in Int
<1>1. Catalog[item] \in [tier : 1..4, cost : Nat, components : SUBSET Shop, name : 1..MaxName]
  BY CatalogAssumption
<1>2. item \in Positive
  BY CatalogAssumption DEF Positive
<1>3. estimates[p].use[item] \in Int /\ estimates[p].effect[item] \in Int
  BY ScoreIsInt
<1>4. medians[item] \in [net_worth : Nat, time : Int] \union {Absent}
  BY InputsAssumption
<1>5. Catalog[item].name \in Positive /\ Catalog[item].name <= MaxName
  BY <1>1 DEF Positive, MaxName
<1>6. Never \in Int
  BY CatalogAssumption
<1>7. (IF medians[item] = Absent THEN 0 ELSE medians[item].net_worth) \in Nat
  BY <1>4
<1>8. BuyTime(item, medians) \in Int
  BY <1>4, <1>6 DEF BuyTime
<1> QED
  BY <1>1, <1>2, <1>3, <1>5, <1>7, <1>8 DEF Describe, BuildItem, Phases

DistinctItems(s) == \A i, j \in DOMAIN s : s[i].item_id = s[j].item_id => i = j

\* CORE has the items that were added, each once.
LEMMA CoreIs ==
    ASSUME NEW purchases \in Seq(Purchased), purchases # <<>>, Distinct(purchases),
           NEW estimates, \A entry \in Range(purchases) : estimates[entry.phase] \in EstimateSets,
           NEW medians \in MedianSets
    PROVE  LET core == Core(purchases, estimates, medians)
           IN  /\ core \in Seq(BuildItem) /\ core # <<>> /\ DistinctItems(core)
               /\ \A item \in Range(core) :
                     /\ item.name <= MaxName
                     /\ \E entry \in Range(purchases) : item.item_id = entry.item /\ item.phase = entry.phase
               /\ \A entry \in Range(purchases) : \E item \in Range(core) : item.item_id = entry.item
<1> DEFINE n == Len(purchases)
           places == DOMAIN purchases
           described == [i \in places |-> Describe(purchases[i].item, purchases[i].phase, estimates, medians)]
           Key(i) == <<described[i].median_net_worth, BuyTime(purchases[i].item, medians), i>>
           before == [j \in places |-> {i \in places :
                         \E k \in 1..3 : /\ Key(i)[k] < Key(j)[k]
                                         /\ \A l \in 1..(k - 1) : Key(i)[l] = Key(j)[l]}]
           order == Sorted(places, before)
           core == Core(purchases, estimates, medians)
<1>1. /\ n \in Nat /\ n # 0 /\ places = 1 .. n /\ IsFiniteSet(places) /\ Cardinality(places) = n
  <2>1. n \in Nat /\ n # 0 /\ places = 1 .. n
    BY LenProperties, EmptySeq
  <2> QED
    BY <2>1, FS_Interval
<1>2. ASSUME NEW i \in places
      PROVE  /\ purchases[i] \in Range(purchases) /\ purchases[i].item \in Shop
             /\ purchases[i].phase \in Phases
  <2>1. purchases[i] \in Purchased
    BY ElementOfSeq
  <2> QED
    BY <2>1 DEF Purchased, Range
<1>3. ASSUME NEW i \in places
      PROVE  /\ described[i] \in BuildItem
             /\ described[i].item_id = purchases[i].item /\ described[i].phase = purchases[i].phase
             /\ described[i].name <= MaxName
             /\ BuyTime(purchases[i].item, medians) \in Int
  BY <1>2, DescribeIs
<1>4. core = [i \in DOMAIN order |-> described[order[i]]]
  BY DEF Core
<1> DEFINE worth == [i \in places |-> described[i].median_net_worth]
           time == [i \in places |-> BuyTime(purchases[i].item, medians)]
<1>5. worth \in [places -> Int] /\ time \in [places -> Int] /\ places \subseteq Int
  <2>1. \A i \in places : described[i].median_net_worth \in Int
    BY <1>3 DEF BuildItem
  <2> QED
    BY <1>1, <1>3, <2>1
<1>6. \A i \in places : Key(i) = <<worth[i], time[i], i>>
  OBVIOUS
<1>7. before \in [places -> SUBSET places]
  OBVIOUS
<1> HIDE DEF worth, time, Key, described, places, n
<1>8. ASSUME NEW i \in places, NEW j \in places
      PROVE  i \in before[j] <=> \/ worth[i] < worth[j]
                                 \/ worth[i] = worth[j] /\ time[i] < time[j]
                                 \/ worth[i] = worth[j] /\ time[i] = time[j] /\ i < j
  <2>1. i \in before[j] <=> \E k \in 1..3 : /\ Key(i)[k] < Key(j)[k]
                                            /\ \A l \in 1..(k - 1) : Key(i)[l] = Key(j)[l]
    OBVIOUS
  <2>2. /\ Key(i)[1] = worth[i] /\ Key(i)[2] = time[i] /\ Key(i)[3] = i
        /\ Key(j)[1] = worth[j] /\ Key(j)[2] = time[j] /\ Key(j)[3] = j
    BY <1>6
  <2>3. 1..3 = {1, 2, 3} /\ 1..(1 - 1) = {} /\ 1..(2 - 1) = {1} /\ 1..(3 - 1) = {1, 2}
    OBVIOUS
  <2> HIDE DEF before
  <2> QED
    BY <2>1, <2>2, <2>3
<1> HIDE DEF before
<1>9. IsOrder(places, before)
  <2>1. \A x \in places : x \notin before[x]
    BY <1>5, <1>8
  <2>2. ASSUME NEW x \in places, NEW y \in places, NEW z \in places, x \in before[y], y \in before[z]
        PROVE  x \in before[z]
    BY <1>5, <1>8, <2>2
  <2>3. ASSUME NEW x \in places, NEW y \in places, x # y
        PROVE  x \in before[y] \/ y \in before[x]
    BY <1>5, <1>8, <2>3
  <2> QED
    BY <1>7, <2>1, <2>2, <2>3 DEF IsOrder
<1>10. /\ order \in [1 .. n -> places]
       /\ \A i, j \in 1 .. n : order[i] = order[j] => i = j
       /\ \A p \in places : \E i \in 1 .. n : order[i] = p
  <2>1. order \in Bijection(1 .. n, places)
    BY <1>1, <1>9, SortedIs
  <2> QED
    BY <2>1 DEF Bijection, Injection, Surjection, IsInjective
<1> HIDE DEF order, core
<1>11. /\ core \in [1 .. n -> BuildItem] /\ DOMAIN core = 1 .. n
       /\ \A i \in 1 .. n : core[i] = described[order[i]]
  BY <1>3, <1>4, <1>10
<1>12. core \in Seq(BuildItem) /\ core # <<>>
  <2>1. core \in Seq(BuildItem)
    BY <1>1, <1>11, SeqDef
  <2> QED
    BY <1>1, <1>11, <2>1
<1>13. DistinctItems(core)
  <2> SUFFICES ASSUME NEW i \in 1 .. n, NEW j \in 1 .. n, core[i].item_id = core[j].item_id
               PROVE  i = j
    BY <1>11 DEF DistinctItems
  <2>1. order[i] \in places /\ order[j] \in places
    BY <1>10
  <2>2. purchases[order[i]].item = purchases[order[j]].item
    BY <1>3, <1>11, <2>1
  <2>3. order[i] = order[j]
    BY <2>1, <2>2 DEF Distinct, places
  <2> QED
    BY <1>10, <2>3
<1>14. ASSUME NEW item \in Range(core)
       PROVE  /\ item.name <= MaxName
              /\ \E entry \in Range(purchases) : item.item_id = entry.item /\ item.phase = entry.phase
  <2>1. PICK i \in 1 .. n : item = core[i]
    BY <1>11 DEF Range
  <2>2. order[i] \in places
    BY <1>10
  <2> QED
    BY <1>2, <1>3, <1>11, <2>1, <2>2
<1>15. ASSUME NEW entry \in Range(purchases)
       PROVE  \E item \in Range(core) : item.item_id = entry.item
  <2>1. PICK p \in places : entry = purchases[p]
    BY DEF Range, places
  <2>2. PICK i \in 1 .. n : order[i] = p
    BY <1>10
  <2>3. core[i] \in Range(core) /\ core[i].item_id = entry.item
    BY <1>3, <1>11, <2>1, <2>2 DEF Range
  <2> QED
    BY <2>3
<1> QED
  BY <1>12, <1>13, <1>14, <1>15 DEF core

\* The key item is in CORE.
LEMMA KeyItemIs ==
    ASSUME NEW core \in Seq(BuildItem), core # <<>>, NEW estimates,
           \A item \in Range(core) : item.item_id \in Shop /\ estimates[item.phase] \in EstimateSets
    PROVE  \E i \in DOMAIN core : KeyItemId(core, estimates) = core[i].item_id
<1> DEFINE late == {i \in DOMAIN core : core[i].tier >= 3}
           pool == IF late = {} THEN DOMAIN core ELSE late
           lift == [i \in pool |-> 0 - Lift(core[i], estimates)]
           last == [i \in pool |-> 0 - i]
           IsKeyPlace(i) == \A j \in pool :
                \/ Lift(core[j], estimates) < Lift(core[i], estimates)
                \/ Lift(core[j], estimates) = Lift(core[i], estimates) /\ j <= i
<1>1. /\ IsFiniteSet(DOMAIN core) /\ DOMAIN core # {} /\ DOMAIN core \subseteq Nat
  <2>1. Len(core) \in Nat /\ DOMAIN core = 1 .. Len(core) /\ Len(core) # 0
    BY LenProperties, EmptySeq
  <2>2. 1 \in DOMAIN core /\ 1 \in Int /\ Len(core) \in Int
    BY <2>1
  <2>3. IsFiniteSet(1 .. Len(core))
    BY <2>2, FS_Interval
  <2> QED
    BY <2>1, <2>2, <2>3
<1>2. pool \subseteq DOMAIN core /\ pool # {} /\ IsFiniteSet(pool)
  <2>1. pool \subseteq DOMAIN core /\ pool # {}
    BY <1>1
  <2> QED
    BY <1>1, <2>1, FS_Subset
<1> HIDE DEF pool
<1>3. ASSUME NEW i \in pool PROVE Lift(core[i], estimates) \in Int
  <2>1. core[i] \in BuildItem /\ core[i] \in Range(core)
    BY <1>2, ElementOfSeq, LenProperties DEF Range
  <2>2. /\ core[i].effect \in Int /\ core[i].use \in Int
        /\ core[i].item_id \in Shop /\ estimates[core[i].phase] \in EstimateSets
    BY <2>1 DEF BuildItem
  <2>3. estimates[core[i].phase] \in [use : Scores, effect : Scores, all : Scores, spend : Nat]
    BY <2>2, InputsAssumption
  <2>4. estimates[core[i].phase].all[core[i].item_id] \in Int
    BY <2>2, <2>3 DEF Scores
  <2> QED
    BY <2>2, <2>4 DEF Lift
<1>4. lift \in [pool -> Int] /\ last \in [pool -> Int]
  BY <1>1, <1>2, <1>3
<1>5. /\ \A i \in pool : lift[i] = 0 - Lift(core[i], estimates) /\ last[i] = 0 - i
  OBVIOUS
<1> HIDE DEF lift, last
<1>6. PICK i \in pool : \A j \in pool : lift[i] < lift[j] \/ (lift[i] = lift[j] /\ last[i] <= last[j])
  BY <1>2, <1>4, LeastOf
<1>7. IsKeyPlace(i)
  <2> SUFFICES ASSUME NEW j \in pool
               PROVE  \/ Lift(core[j], estimates) < Lift(core[i], estimates)
                      \/ Lift(core[j], estimates) = Lift(core[i], estimates) /\ j <= i
    OBVIOUS
  <2>1. i \in Int /\ j \in Int
    BY <1>1, <1>2
  <2> QED
    BY <1>3, <1>5, <1>6, <2>1
<1>8. KeyItemId(core, estimates) = core[CHOOSE x \in pool : IsKeyPlace(x)].item_id
  BY DEF KeyItemId, pool
<1> HIDE DEF IsKeyPlace
<1>9. (CHOOSE x \in pool : IsKeyPlace(x)) \in pool
  BY <1>7
<1> QED
  BY <1>2, <1>8, <1>9

\* Items that are distinct in each of two sequences, and between them, stay distinct.
LEMMA ConcatOfDistinct ==
    ASSUME NEW s \in Seq(BuildItem), NEW t \in Seq(BuildItem), DistinctItems(s), DistinctItems(t),
           \A first \in Range(s), second \in Range(t) : first.item_id # second.item_id
    PROVE  /\ s \o t \in Seq(BuildItem) /\ DistinctItems(s \o t)
           /\ Range(s \o t) = Range(s) \cup Range(t)
<1> DEFINE u == s \o t
           m == Len(s)
           n == Len(t)
<1>1. /\ m \in Nat /\ n \in Nat /\ DOMAIN s = 1 .. m /\ DOMAIN t = 1 .. n
      /\ u \in Seq(BuildItem) /\ Len(u) = m + n /\ DOMAIN u = 1 .. m + n
  <2>1. u \in Seq(BuildItem) /\ Len(u) = m + n
    BY ConcatProperties
  <2> QED
    BY <2>1, LenProperties
<1>2. \A i \in 1 .. m + n : u[i] = IF i <= m THEN s[i] ELSE t[i - m]
  BY ConcatProperties
<1> HIDE DEF u, m, n
<1>3. \A i \in 1 .. m : i \in 1 .. m + n /\ u[i] = s[i]
  BY <1>1, <1>2
<1>4. \A i \in 1 .. n : i + m \in 1 .. m + n /\ u[i + m] = t[i]
  BY <1>1, <1>2
<1>5. ASSUME NEW i \in 1 .. m + n
      PROVE  i \in 1 .. m \/ (i - m \in 1 .. n /\ i = (i - m) + m)
  BY <1>1
<1>6. Range(u) = Range(s) \cup Range(t)
  <2>1. ASSUME NEW x \in Range(u) PROVE x \in Range(s) \cup Range(t)
    <3>1. PICK i \in 1 .. m + n : x = u[i]
      BY <1>1 DEF Range
    <3>2. CASE i \in 1 .. m
      BY <1>1, <1>3, <3>1, <3>2 DEF Range
    <3>3. CASE i - m \in 1 .. n /\ i = (i - m) + m
      <4>1. u[i] = t[i - m]
        BY <1>4, <3>3
      <4> QED
        BY <1>1, <3>1, <3>3, <4>1 DEF Range
    <3> QED
      BY <1>5, <3>2, <3>3
  <2>2. ASSUME NEW x \in Range(s) PROVE x \in Range(u)
    <3>1. PICK i \in 1 .. m : x = s[i]
      BY <1>1 DEF Range
    <3> QED
      BY <1>1, <1>3, <3>1 DEF Range
  <2>3. ASSUME NEW x \in Range(t) PROVE x \in Range(u)
    <3>1. PICK i \in 1 .. n : x = t[i]
      BY <1>1 DEF Range
    <3> QED
      BY <1>1, <1>4, <3>1 DEF Range
  <2> QED
    BY <2>1, <2>2, <2>3
<1>7. ASSUME NEW i \in 1 .. m + n, NEW j \in 1 .. m + n, u[i].item_id = u[j].item_id
      PROVE  i = j
  <2>1. CASE i \in 1 .. m /\ j \in 1 .. m
    BY <1>1, <1>3, <1>7, <2>1 DEF DistinctItems
  <2>2. CASE i \in 1 .. m /\ j - m \in 1 .. n /\ j = (j - m) + m
    <3>1. u[i] \in Range(s) /\ u[j] \in Range(t)
      BY <1>1, <1>3, <1>4, <2>2 DEF Range
    <3> QED
      BY <1>7, <3>1
  <2>3. CASE j \in 1 .. m /\ i - m \in 1 .. n /\ i = (i - m) + m
    <3>1. u[j] \in Range(s) /\ u[i] \in Range(t)
      BY <1>1, <1>3, <1>4, <2>3 DEF Range
    <3> QED
      BY <1>7, <3>1
  <2>4. CASE i - m \in 1 .. n /\ i = (i - m) + m /\ j - m \in 1 .. n /\ j = (j - m) + m
    <3>1. u[i] = t[i - m] /\ u[j] = t[j - m]
      BY <1>4, <2>4
    <3>2. i - m = j - m
      BY <1>1, <1>7, <2>4, <3>1 DEF DistinctItems
    <3> QED
      BY <2>4, <3>2
  <2> QED
    BY <1>5, <2>1, <2>2, <2>3, <2>4
<1> QED
  BY <1>1, <1>6, <1>7 DEF DistinctItems, u

\* The items of a tier: each once, and none that CORE has used up.
AreSituational(s, core, tiers) ==
    /\ s \in Seq(BuildItem) /\ DistinctItems(s)
    /\ \A item \in Range(s) : item.item_id \in Shop \ Excluded(core) /\ Catalog[item.item_id].tier \in tiers

\* The situational items of a tier are none that CORE has used up.
LEMMA SituationalOfIs ==
    ASSUME NEW tier \in 1 .. 4, NEW core, NEW estimates, IsTable(estimates),
           NEW medians \in MedianSets
    PROVE  AreSituational(SituationalOf(tier, core, estimates, medians), core, {tier})
<1> DEFINE Described(item) == Describe(item, CommonPhase(item, estimates), estimates, medians)
           items == {item \in Shop \ Excluded(core) :
                        /\ Catalog[item].tier = tier
                        /\ Described(item).use >= LeastUse /\ Described(item).effect > LeastEffect}
           before == [b \in items |-> {a \in items :
                        \/ Described(a).effect > Described(b).effect
                        \/ Described(a).effect = Described(b).effect /\ a < b}]
           order == Sorted(items, before)
           n == Cardinality(items)
           least == IF Len(order) < MaxPerTier THEN Len(order) ELSE MaxPerTier
           s == SituationalOf(tier, core, estimates, medians)
<1>1. ASSUME NEW item \in Shop
      PROVE  CommonPhase(item, estimates) \in Phases /\ estimates[CommonPhase(item, estimates)] \in EstimateSets
  <2> DEFINE phases == {p \in Phases : estimates[p] # Absent}
             use == [p \in phases |-> 0 - estimates[p].use[item]]
             last == [p \in phases |-> 0 - p]
             IsCommon(p) == \A q \in phases :
                 \/ estimates[q].use[item] < estimates[p].use[item]
                 \/ estimates[q].use[item] = estimates[p].use[item] /\ q <= p
  <2>1. phases # {} /\ IsFiniteSet(phases) /\ phases \subseteq 1 .. 3
    <3>1. phases # {} /\ phases \subseteq 1 .. 3
      BY DEF Phases, IsTable
    <3>2. IsFiniteSet(1 .. 3)
      <4>1. 1 \in Int /\ 3 \in Int
        OBVIOUS
      <4> QED
        BY <4>1, FS_Interval
    <3> QED
      BY <3>1, <3>2, FS_Subset
  <2>2. \A p \in phases : estimates[p] \in EstimateSets /\ estimates[p].use[item] \in Int
    BY ScoreIsInt DEF IsTable
  <2>3. use \in [phases -> Int] /\ last \in [phases -> Int]
    BY <2>1, <2>2
  <2>4. \A p \in phases : use[p] = 0 - estimates[p].use[item] /\ last[p] = 0 - p
    OBVIOUS
  <2>5. CommonPhase(item, estimates) = CHOOSE p \in phases : IsCommon(p)
    BY DEF CommonPhase
  <2> HIDE DEF use, last
  <2>6. PICK p \in phases : \A q \in phases : use[p] < use[q] \/ (use[p] = use[q] /\ last[p] <= last[q])
    BY <2>1, <2>3, LeastOf
  <2>7. IsCommon(p)
    <3> SUFFICES ASSUME NEW q \in phases
                 PROVE  \/ estimates[q].use[item] < estimates[p].use[item]
                        \/ estimates[q].use[item] = estimates[p].use[item] /\ q <= p
      OBVIOUS
    <3>1. p \in Int /\ q \in Int
      BY <2>1
    <3> QED
      BY <2>2, <2>4, <2>6, <3>1
  <2> HIDE DEF IsCommon
  <2>8. CommonPhase(item, estimates) \in phases
    BY <2>5, <2>7
  <2> QED
    BY <2>2, <2>8
<1>2. ASSUME NEW item \in Shop
      PROVE  /\ Described(item) \in BuildItem /\ Described(item).item_id = item
             /\ Described(item).tier = Catalog[item].tier /\ Described(item).effect \in Int
  <2>1. Described(item) \in BuildItem /\ Described(item).item_id = item
        /\ Described(item).tier = Catalog[item].tier
    BY <1>1, DescribeIs
  <2> QED
    BY <2>1 DEF BuildItem
<1>3. s = [i \in 1 .. least |-> Described(order[i])]
  BY DEF SituationalOf
<1>4. items \subseteq Shop /\ IsFiniteSet(items) /\ n \in Nat /\ items \subseteq Int
  <2>1. items \subseteq Shop
    OBVIOUS
  <2>2. Shop \subseteq Int /\ IsFiniteSet(Shop)
    BY CatalogAssumption
  <2> QED
    BY <2>1, <2>2, FS_Subset, FS_CardinalityType
<1>5. \A item \in items : item \in Shop \ Excluded(core) /\ Catalog[item].tier = tier
  OBVIOUS
<1> DEFINE effect == [item \in items |-> Described(item).effect]
<1>6. effect \in [items -> Int] /\ \A a, b \in items : a \in before[b] <=>
         effect[a] > effect[b] \/ (effect[a] = effect[b] /\ a < b)
  BY <1>2, <1>4
<1>7. before \in [items -> SUBSET items]
  OBVIOUS
<1> HIDE DEF before, effect, items
<1>8. IsOrder(items, before)
  <2>1. \A x \in items : x \notin before[x]
    BY <1>4, <1>6
  <2>2. ASSUME NEW x \in items, NEW y \in items, NEW z \in items, x \in before[y], y \in before[z]
        PROVE  x \in before[z]
    BY <1>4, <1>6, <2>2
  <2>3. ASSUME NEW x \in items, NEW y \in items, x # y
        PROVE  x \in before[y] \/ y \in before[x]
    BY <1>4, <1>6, <2>3
  <2> QED
    BY <1>7, <2>1, <2>2, <2>3 DEF IsOrder
<1>9. order \in [1 .. n -> items] /\ \A i, j \in 1 .. n : order[i] = order[j] => i = j
  <2>1. order \in Bijection(1 .. n, items)
    BY <1>4, <1>8, SortedIs
  <2> QED
    BY <2>1 DEF Bijection, Injection, IsInjective
<1>10. least \in Nat /\ \A i \in 1 .. least : i \in 1 .. n
  <2>1. Len(order) = n
    BY <1>4, <1>9
  <2>2. MaxPerTier \in Nat
    BY CatalogAssumption
  <2> QED
    BY <1>4, <2>1, <2>2
<1> HIDE DEF order, n, least, Described, s
<1>11. ASSUME NEW i \in 1 .. least
       PROVE  /\ s[i] \in BuildItem /\ s[i].item_id = order[i]
              /\ order[i] \in Shop \ Excluded(core) /\ Catalog[order[i]].tier = tier
  <2>1. order[i] \in items
    BY <1>9, <1>10
  <2> QED
    BY <1>2, <1>3, <1>5, <2>1
<1>12. s \in Seq(BuildItem) /\ DOMAIN s = 1 .. least
  BY <1>3, <1>10, <1>11, SeqDef
<1>13. DistinctItems(s)
  BY <1>9, <1>10, <1>11, <1>12 DEF DistinctItems
<1>14. \A item \in Range(s) :
          item.item_id \in Shop \ Excluded(core) /\ Catalog[item.item_id].tier = tier
  BY <1>11, <1>12 DEF Range
<1> QED
  BY <1>12, <1>13, <1>14 DEF AreSituational, s

\* Those of all tiers are distinct, because the tiers are.
LEMMA SituationalIs ==
    ASSUME NEW core, NEW estimates, IsTable(estimates),
           NEW medians \in MedianSets
    PROVE  AreSituational(Situational(core, estimates, medians), core, 1 .. 4)
<1> DEFINE Of(tier) == SituationalOf(tier, core, estimates, medians)
<1>1. Situational(core, estimates, medians) = Of(1) \o Of(2) \o Of(3) \o Of(4)
  BY DEF Situational
<1>2. ASSUME NEW tier \in 1 .. 4 PROVE AreSituational(Of(tier), core, {tier})
  BY SituationalOfIs
<1>3. ASSUME NEW s, NEW t, NEW first, NEW second,
             AreSituational(s, core, first), AreSituational(t, core, second), first \cap second = {}
      PROVE  AreSituational(s \o t, core, first \cup second)
  <2>1. \A x \in Range(s), y \in Range(t) : x.item_id # y.item_id
    BY <1>3 DEF AreSituational
  <2>2. s \in Seq(BuildItem) /\ t \in Seq(BuildItem) /\ DistinctItems(s) /\ DistinctItems(t)
    BY <1>3 DEF AreSituational
  <2>3. /\ s \o t \in Seq(BuildItem) /\ DistinctItems(s \o t)
        /\ Range(s \o t) = Range(s) \cup Range(t)
    BY <2>1, <2>2, ConcatOfDistinct
  <2> QED
    BY <1>3, <2>3 DEF AreSituational
<1> HIDE DEF Of
<1>4. /\ AreSituational(Of(1), core, {1}) /\ AreSituational(Of(2), core, {2})
      /\ AreSituational(Of(3), core, {3}) /\ AreSituational(Of(4), core, {4})
  BY <1>2
<1>5. AreSituational(Of(1) \o Of(2), core, {1} \cup {2})
  BY <1>3, <1>4
<1>6. AreSituational((Of(1) \o Of(2)) \o Of(3), core, ({1} \cup {2}) \cup {3})
  BY <1>3, <1>4, <1>5
<1>7. AreSituational(((Of(1) \o Of(2)) \o Of(3)) \o Of(4), core, (({1} \cup {2}) \cup {3}) \cup {4})
  BY <1>3, <1>4, <1>6
<1>8. (({1} \cup {2}) \cup {3}) \cup {4} = 1 .. 4
  OBVIOUS
<1> QED
  BY <1>1, <1>7, <1>8

-----------------------------------------------------------------------------
(* The ability order: observations, ranks and positions. *)

\* The image of a finite set is finite.
LEMMA ImageIsFinite ==
    ASSUME NEW S, IsFiniteSet(S), NEW f
    PROVE  IsFiniteSet({f[x] : x \in S})
<1> DEFINE T == {f[x] : x \in S}
           g == [x \in S |-> f[x]]
<1>1. g \in Surjection(S, T)
  <2>1. g \in [S -> T] /\ \A t \in T : \E x \in S : g[x] = t
    OBVIOUS
  <2> QED
    BY <2>1 DEF Surjection
<1> QED
  BY <1>1, FS_Surjection

\* A response has finitely many rows, each with finitely many abilities.
LEMMA ResponseType ==
    ASSUME NEW answers \in Responses
    PROVE  /\ IsFiniteSet(DOMAIN answers)
           /\ \A i \in DOMAIN answers : /\ answers[i].path \in Seq(Nat) /\ answers[i].matches \in Nat
                                        /\ IsFiniteSet(Range(answers[i].path))
                                        /\ Range(answers[i].path) \subseteq Abilities
<1>1. answers \in Seq(Rows)
  BY InputsAssumption
<1>2. Len(answers) \in Nat /\ DOMAIN answers = 1 .. Len(answers)
  BY <1>1, LenProperties
<1>3. IsFiniteSet(DOMAIN answers)
  BY <1>2, FS_Interval
<1>4. ASSUME NEW i \in DOMAIN answers
      PROVE  /\ answers[i].path \in Seq(Nat) /\ answers[i].matches \in Nat
             /\ IsFiniteSet(Range(answers[i].path))
             /\ Range(answers[i].path) \subseteq Abilities
  <2>1. answers[i] \in Rows
    BY <1>1, <1>2, ElementOfSeq
  <2>2. answers[i].path \in Seq(Nat) /\ answers[i].matches \in Nat
    BY <2>1 DEF Rows
  <2> DEFINE path == answers[i].path
  <2> HIDE DEF path
  <2>3. path \in Seq(Nat)
    BY <2>2 DEF path
  <2>4. IsFiniteSet(DOMAIN path)
    <3>1. DOMAIN path = 1 .. Len(path) /\ Len(path) \in Int
      BY <2>3, LenProperties
    <3> QED
      BY <3>1, FS_Interval
  <2>5. IsFiniteSet(Range(path))
    BY <2>4, ImageIsFinite DEF Range
  <2>6. answers[i] \in Range(answers)
    BY DEF Range
  <2> QED
    BY <2>2, <2>5, <2>6 DEF Abilities, path
<1> QED
  BY <1>3, <1>4

\* parse_observation lets no ability 0 pass.
LEMMA BoughtIs ==
    ASSUME NEW answers \in Responses
    PROVE  /\ IsFiniteSet(Bought(answers)) /\ Bought(answers) \subseteq Nat \ {0}
           /\ Bought(answers) \subseteq UNION {Range(answers[i].path) : i \in DOMAIN answers}
           /\ \A i \in Observations(answers) : Range(answers[i].path) \subseteq Bought(answers)
<1> DEFINE ranges == [i \in Observations(answers) |-> Range(answers[i].path)]
<1>1. Observations(answers) \subseteq DOMAIN answers /\ IsFiniteSet(Observations(answers))
  <2>1. Observations(answers) \subseteq DOMAIN answers
    BY DEF Observations
  <2> QED
    BY <2>1, ResponseType, FS_Subset
<1>2. Bought(answers) = UNION {ranges[i] : i \in Observations(answers)}
  BY DEF Bought
<1>3. \A i \in Observations(answers) : ranges[i] = Range(answers[i].path)
  OBVIOUS
<1> HIDE DEF ranges
<1>4. IsFiniteSet(Bought(answers))
  <2>1. IsFiniteSet({ranges[i] : i \in Observations(answers)})
    BY <1>1, ImageIsFinite
  <2>2. \A T \in {ranges[i] : i \in Observations(answers)} : IsFiniteSet(T)
    BY <1>1, <1>3, ResponseType
  <2> QED
    BY <1>2, <2>1, <2>2, FS_UNION
<1>5. ASSUME NEW i \in Observations(answers) PROVE Range(answers[i].path) \subseteq Nat \ {0}
  <2>1. answers[i].path \in Seq(Nat) /\ 0 \notin Range(answers[i].path)
    BY <1>1, ResponseType DEF Observations, IsObservation
  <2>2. \A n \in DOMAIN answers[i].path : answers[i].path[n] \in Nat
    BY <2>1, ElementOfSeq, LenProperties
  <2> QED
    BY <2>1, <2>2 DEF Range
<1> QED
  BY <1>1, <1>2, <1>3, <1>4, <1>5

\* The matches of some rows of a response
LEMMA SupportIsNat ==
    ASSUME NEW answers \in Responses, NEW places \in SUBSET DOMAIN answers
    PROVE  /\ Matches(answers, places) \in Nat
           /\ places = {} => Matches(answers, places) = 0
<1>1. IsFiniteSet(places) /\ \A i \in places : answers[i].matches \in Nat
  BY ResponseType, FS_Subset
<1> QED
  BY <1>1, MatchesIsNat

Ranks(abilities) == [abilities -> 0 .. RankCount]

\* An order is not empty.
LEMMA CountsAreNat == RankCount \in Nat /\ RankCount # 0 /\ AbilityCount \in Nat /\ AbilityCount # 0
                      /\ OrderLength \in Nat /\ OrderLength # 0
<1>1. RankCount \in Nat /\ RankCount # 0 /\ AbilityCount \in Nat /\ AbilityCount # 0
  BY AbilitiesAssumption
<1>2. \A a, b \in Nat : a # 0 /\ b # 0 => a * b \in Nat /\ a * b # 0
  OBVIOUS
<1> QED
  BY <1>1, <1>2 DEF OrderLength

\* One purchase more.
LEMMA PositionOfAfter ==
    ASSUME NEW abilities, IsFiniteSet(abilities), NEW ranks \in Ranks(abilities)
    PROVE  /\ Position(ranks) \in Nat /\ Position(ranks) <= Cardinality(abilities) * RankCount
           /\ \A a \in abilities : ranks[a] < RankCount =>
                 After(ranks, a) \in Ranks(abilities) /\ Position(After(ranks, a)) = Position(ranks) + 1
<1> DEFINE all == abilities \X (1 .. RankCount)
           Bs(r) == {purchase \in all : purchase[2] <= r[purchase[1]]}
<1>1. DOMAIN ranks = abilities /\ \A a \in abilities : ranks[a] \in 0 .. RankCount
  BY DEF Ranks
<1>2. IsFiniteSet(all) /\ Cardinality(all) = Cardinality(abilities) * RankCount
  <2>1. IsFiniteSet(1 .. RankCount) /\ Cardinality(1 .. RankCount) = RankCount
    BY CountsAreNat, FS_Interval
  <2> QED
    BY <2>1, FS_Product
<1>3. ASSUME NEW r \in Ranks(abilities) PROVE Position(r) = Cardinality(Bs(r)) /\ IsFiniteSet(Bs(r))
  <2>1. DOMAIN r = abilities
    BY DEF Ranks
  <2>2. Bs(r) \subseteq all
    OBVIOUS
  <2> HIDE DEF all
  <2> QED
    BY <1>2, <2>1, <2>2, FS_Subset DEF Position, all
<1>4. Position(ranks) \in Nat /\ Position(ranks) <= Cardinality(abilities) * RankCount
  <2>1. Bs(ranks) \subseteq all
    OBVIOUS
  <2> HIDE DEF all, Bs
  <2> QED
    BY <1>2, <1>3, <2>1, FS_Subset, FS_CardinalityType
<1>5. ASSUME NEW a \in abilities, ranks[a] < RankCount
      PROVE  After(ranks, a) \in Ranks(abilities) /\ Position(After(ranks, a)) = Position(ranks) + 1
  <2> DEFINE next == After(ranks, a)
             new == <<a, ranks[a] + 1>>
  <2>1. /\ next \in Ranks(abilities)
        /\ \A b \in abilities : next[b] = IF b = a THEN ranks[a] + 1 ELSE ranks[b]
    BY <1>1, <1>5, CountsAreNat DEF After, Ranks
  <2>2. new \in all /\ new[1] = a /\ new[2] = ranks[a] + 1 /\ ranks[a] \in Nat
    BY <1>1, <1>5, CountsAreNat
  <2> HIDE DEF next, new
  <2>3. ASSUME NEW purchase \in all
        PROVE  purchase \in Bs(next) <=> purchase \in Bs(ranks) \cup {new}
    <3>1. purchase[1] \in abilities /\ purchase[2] \in Nat /\ purchase = <<purchase[1], purchase[2]>>
      OBVIOUS
    <3>2. CASE purchase[1] = a
      <4>1. purchase[2] <= ranks[a] + 1 <=> purchase[2] <= ranks[a] \/ purchase[2] = ranks[a] + 1
        BY <2>2, <3>1
      <4>2. purchase = new <=> purchase[2] = ranks[a] + 1
        BY <2>2, <3>1, <3>2 DEF new
      <4> QED
        BY <2>1, <3>1, <3>2, <4>1, <4>2
    <3>3. CASE purchase[1] # a
      <4>1. purchase # new
        BY <2>2, <3>3
      <4> QED
        BY <2>1, <3>1, <3>3, <4>1
    <3> QED
      BY <3>2, <3>3
  <2>4. Bs(next) = Bs(ranks) \cup {new}
    BY <2>2, <2>3
  <2>5. new \notin Bs(ranks)
    BY <2>2
  <2> HIDE DEF Bs
  <2>6. Cardinality(Bs(next)) = Cardinality(Bs(ranks)) + 1
    BY <1>3, <2>4, <2>5, FS_AddElement
  <2> QED
    BY <1>3, <2>1, <2>6 DEF next
<1> QED
  BY <1>4, <1>5

\* Support is a number.
LEMMA SupportType ==
    ASSUME NEW answers \in Responses, NEW ranks, NEW a
    PROVE  Support(answers, ranks, a) \in Nat
<1> DEFINE places == {i \in Observations(answers) : Decides(answers[i], ranks, a)}
<1>1. places \in SUBSET DOMAIN answers
  BY DEF Observations
<1>2. Support(answers, ranks, a) = Matches(answers, places)
  BY DEF Support
<1> QED
  BY <1>1, <1>2, SupportIsNat

\* Of the abilities that can be bought one precedes all others.
LEMMA BestIs ==
    ASSUME NEW answers \in Responses, NEW ranks, NEW viable \in SUBSET Bought(answers), viable # {}
    PROVE  /\ Best(answers, ranks, viable) \in viable
           /\ \A b \in viable \ {Best(answers, ranks, viable)} :
                 Precedes(answers, ranks, Best(answers, ranks, viable), b)
<1> DEFINE support == [a \in viable |-> 0 - Support(answers, ranks, a)]
           number == [a \in viable |-> a]
           IsBest(a) == \A b \in viable \ {a} : Precedes(answers, ranks, a, b)
<1>1. IsFiniteSet(viable) /\ viable \subseteq Nat
  BY BoughtIs, FS_Subset
<1>2. support \in [viable -> Int] /\ number \in [viable -> Int]
  BY <1>1, SupportType
<1>3. \A a \in viable : support[a] = 0 - Support(answers, ranks, a) /\ number[a] = a
  OBVIOUS
<1> HIDE DEF support, number
<1>4. PICK a \in viable : \A b \in viable : support[a] < support[b] \/ (support[a] = support[b] /\ number[a] <= number[b])
  BY <1>1, <1>2, LeastOf
<1>5. IsBest(a)
  <2> SUFFICES ASSUME NEW b \in viable \ {a} PROVE Precedes(answers, ranks, a, b)
    OBVIOUS
  <2>1. Support(answers, ranks, a) \in Nat /\ Support(answers, ranks, b) \in Nat /\ a \in Nat /\ b \in Nat
    BY <1>1, SupportType
  <2>2. \/ 0 - Support(answers, ranks, a) < 0 - Support(answers, ranks, b)
        \/ 0 - Support(answers, ranks, a) = 0 - Support(answers, ranks, b) /\ a <= b
    BY <1>3, <1>4
  <2> QED
    BY <2>1, <2>2 DEF Precedes
<1>6. Best(answers, ranks, viable) = CHOOSE x \in viable : IsBest(x)
  BY DEF Best
<1> HIDE DEF IsBest
<1>7. Best(answers, ranks, viable) \in viable /\ IsBest(Best(answers, ranks, viable))
  BY <1>5, <1>6
<1> QED
  BY <1>7 DEF IsBest

Paths(abilities) == Seq(abilities) \cup {Absent}

\* A continuation has abilities that were bought, or is Absent.
LEMMA SelectType ==
    ASSUME NEW answers \in Responses, NEW f \in [Ranks(Bought(answers)) -> Paths(Bought(answers))],
           NEW ranks \in Ranks(Bought(answers))
    PROVE  Select(answers, f, ranks) \in Paths(Bought(answers))
<1> DEFINE abilities == Bought(answers)
           viable == Viable(answers, f, ranks)
           best == Best(answers, ranks, viable)
<1>1. DOMAIN ranks = abilities /\ viable \in SUBSET abilities
  BY DEF Ranks, Viable
<1>2. CASE Position(ranks) = OrderLength
  <2>1. <<>> \in Seq(abilities)
    BY EmptySeq
  <2> QED
    BY <1>2, <2>1 DEF Select, Paths
<1>3. CASE Position(ranks) # OrderLength /\ viable = {}
  BY <1>3 DEF Select, Paths
<1>4. CASE Position(ranks) # OrderLength /\ viable # {}
  <2>1. best \in viable
    BY <1>1, <1>4, BestIs
  <2>2. best \in abilities /\ ranks[best] < RankCount /\ f[After(ranks, best)] # Absent
    BY <1>1, <2>1 DEF Viable
  <2>3. After(ranks, best) \in Ranks(abilities)
    BY <2>2, BoughtIs, PositionOfAfter
  <2>4. f[After(ranks, best)] \in Seq(abilities)
    BY <2>2, <2>3 DEF Paths
  <2>5. Select(answers, f, ranks) = <<best>> \o f[After(ranks, best)]
    BY <1>4 DEF Select
  <2>6. <<best>> \in Seq(abilities)
    BY <2>2
  <2> HIDE DEF best
  <2>7. <<best>> \o f[After(ranks, best)] \in Seq(abilities)
    BY <2>4, <2>6, ConcatProperties
  <2> QED
    BY <2>5, <2>7 DEF Paths
<1> QED
  BY <1>2, <1>3, <1>4

\* The selection depends on the ranks that come after.
LEMMA SelectDepends ==
    ASSUME NEW answers \in Responses, NEW ranks \in Ranks(Bought(answers)), NEW f, NEW g,
           \A a \in Bought(answers) : ranks[a] < RankCount => f[After(ranks, a)] = g[After(ranks, a)]
    PROVE  Select(answers, f, ranks) = Select(answers, g, ranks)
<1>1. DOMAIN ranks = Bought(answers)
  BY DEF Ranks
<1>2. Viable(answers, f, ranks) = Viable(answers, g, ranks)
  BY <1>1 DEF Viable
<1>3. CASE Position(ranks) = OrderLength
  BY <1>3 DEF Select
<1>4. CASE Position(ranks) # OrderLength /\ Viable(answers, f, ranks) = {}
  BY <1>2, <1>4 DEF Select
<1>5. CASE Position(ranks) # OrderLength /\ Viable(answers, f, ranks) # {}
  <2> DEFINE viable == Viable(answers, f, ranks)
             best == Best(answers, ranks, viable)
  <2>1. viable \in SUBSET Bought(answers)
    BY <1>1 DEF Viable
  <2>2. best \in viable
    BY <1>5, <2>1, BestIs
  <2>3. best \in Bought(answers) /\ ranks[best] < RankCount
    BY <1>1, <2>2 DEF Viable
  <2>4. Select(answers, f, ranks) = <<best>> \o f[After(ranks, best)]
    BY <1>5 DEF Select
  <2>5. Select(answers, g, ranks) = <<best>> \o g[After(ranks, best)]
    BY <1>2, <1>5 DEF Select
  <2> HIDE DEF best
  <2> QED
    BY <2>3, <2>4, <2>5
<1> QED
  BY <1>3, <1>4, <1>5

IsResolve(f, answers) ==
    /\ f \in [Ranks(Bought(answers)) -> Paths(Bought(answers))]
    /\ \A ranks \in Ranks(Bought(answers)) : f[ranks] = Select(answers, f, ranks)

\* The recursion of resolve_ability_continuation ends.
LEMMA ResolveExists ==
    ASSUME NEW answers \in Responses
    PROVE  \E f : IsResolve(f, answers) /\ SelectAbilityPath(answers) = f[[a \in Bought(answers) |-> 0]]
<1> DEFINE abilities == Bought(answers)
           D == Ranks(abilities)
           X == Paths(abilities)
           top == Cardinality(abilities) * RankCount
           Solved == {m \in Nat : \E f \in [D -> X] : \A ranks \in D :
                         Position(ranks) + m > top => f[ranks] = Select(answers, f, ranks)}
<1>1. top \in Nat /\ \A ranks \in D : Position(ranks) \in Nat /\ Position(ranks) <= top
  <2>1. Cardinality(abilities) \in Nat /\ IsFiniteSet(abilities)
    BY BoughtIs, FS_CardinalityType
  <2>2. \A m, n \in Nat : m * n \in Nat
    OBVIOUS
  <2>3. top \in Nat
    BY <2>1, <2>2, CountsAreNat
  <2> QED
    BY <2>1, <2>3, PositionOfAfter
<1> HIDE DEF top
<1>2. 0 \in Solved
  <2> DEFINE f == [ranks \in D |-> Absent]
  <2>1. f \in [D -> X]
    BY DEF Paths
  <2>2. \A ranks \in D : ~(Position(ranks) + 0 > top)
    BY <1>1
  <2> HIDE DEF f, D, X
  <2> QED
    BY <2>1, <2>2
<1>3. ASSUME NEW m \in Nat, m \in Solved PROVE m + 1 \in Solved
  <2>1. PICK f \in [D -> X] : \A ranks \in D :
            Position(ranks) + m > top => f[ranks] = Select(answers, f, ranks)
    BY <1>3
  <2> DEFINE g == [ranks \in D |-> Select(answers, f, ranks)]
  <2>2. g \in [D -> X] /\ \A ranks \in D : g[ranks] = Select(answers, f, ranks)
    BY SelectType
  <2> HIDE DEF g
  <2>3. ASSUME NEW ranks \in D, Position(ranks) + (m + 1) > top
        PROVE  g[ranks] = Select(answers, g, ranks)
    <3>1. ASSUME NEW a \in abilities, ranks[a] < RankCount
          PROVE  f[After(ranks, a)] = g[After(ranks, a)]
      <4>1. After(ranks, a) \in D /\ Position(After(ranks, a)) = Position(ranks) + 1
        BY <3>1, BoughtIs, PositionOfAfter
      <4>2. Position(After(ranks, a)) + m > top
        BY <1>1, <2>3, <4>1
      <4> QED
        BY <2>1, <2>2, <4>1, <4>2
    <3>2. Select(answers, f, ranks) = Select(answers, g, ranks)
      BY <3>1, SelectDepends
    <3> QED
      BY <2>2, <3>2
  <2> HIDE DEF D, X
  <2> QED
    BY <2>2, <2>3
<1> HIDE DEF Solved
<1>4. top + 1 \in Solved
  BY <1>1, <1>2, <1>3, NumberInduction
<1>5. PICK f \in [D -> X] : \A ranks \in D :
            Position(ranks) + (top + 1) > top => f[ranks] = Select(answers, f, ranks)
  BY <1>4 DEF Solved
<1>6. \A ranks \in D : f[ranks] = Select(answers, f, ranks)
  BY <1>1, <1>5
<1> DEFINE Body(r) == [ranks \in [Bought(answers) -> 0 .. RankCount] |-> Select(answers, r, ranks)]
           resolve == CHOOSE r : r = Body(r)
<1>7. f = Body(f)
  BY <1>6 DEF Ranks
<1>8. resolve = Body(resolve)
  BY <1>7
<1>9. SelectAbilityPath(answers) = resolve[[a \in Bought(answers) |-> 0]]
  BY DEF SelectAbilityPath
<1> HIDE DEF resolve
<1>10. DOMAIN resolve = D /\ \A ranks \in D : resolve[ranks] = Select(answers, resolve, ranks)
  BY <1>8 DEF Ranks
<1>11. resolve \in [D -> X]
  <2> DEFINE Typed == {m \in Nat : \A ranks \in D : Position(ranks) + m > top => resolve[ranks] = f[ranks]}
  <2>1. 0 \in Typed
    BY <1>1
  <2>2. ASSUME NEW m \in Nat, m \in Typed PROVE m + 1 \in Typed
    <3> SUFFICES ASSUME NEW ranks \in D, Position(ranks) + (m + 1) > top
                 PROVE  resolve[ranks] = f[ranks]
      OBVIOUS
    <3>1. ASSUME NEW a \in abilities, ranks[a] < RankCount
          PROVE  resolve[After(ranks, a)] = f[After(ranks, a)]
      <4>1. After(ranks, a) \in D /\ Position(After(ranks, a)) = Position(ranks) + 1
        BY <3>1, BoughtIs, PositionOfAfter
      <4>2. Position(After(ranks, a)) + m > top
        BY <1>1, <4>1
      <4> QED
        BY <2>2, <4>1, <4>2
    <3>2. Select(answers, resolve, ranks) = Select(answers, f, ranks)
      BY <3>1, SelectDepends
    <3> QED
      BY <1>6, <1>10, <3>2
  <2> HIDE DEF Typed
  <2>3. top + 1 \in Typed
    BY <1>1, <2>1, <2>2, NumberInduction
  <2>4. \A ranks \in D : resolve[ranks] = f[ranks]
    <3>1. \A ranks \in D : Position(ranks) + (top + 1) > top
      BY <1>1
    <3> QED
      BY <2>3, <3>1 DEF Typed
  <2>5. resolve = [ranks \in D |-> resolve[ranks]]
    BY <1>8 DEF Ranks
  <2> QED
    BY <2>4, <2>5
<1> QED
  BY <1>9, <1>10, <1>11 DEF IsResolve

-----------------------------------------------------------------------------
(* The ranks along a path. *)

RanksAt(path, n, abilities) == [a \in abilities |-> Rank(path, n, a)]

\* A purchase adds one to the rank of its ability and to no other.
LEMMA RankSteps ==
    ASSUME NEW path, NEW a, NEW n \in Nat
    PROVE  /\ IsFiniteSet(Purchases(path, a, n)) /\ Rank(path, n, a) \in Nat /\ Rank(path, 0, a) = 0
           /\ Rank(path, n + 1, a) = IF path[n + 1] = a THEN Rank(path, n, a) + 1 ELSE Rank(path, n, a)
<1>1. IsFiniteSet(Purchases(path, a, n))
  <2>1. Purchases(path, a, n) \subseteq 1 .. n /\ IsFiniteSet(1 .. n)
    BY FS_Interval DEF Purchases
  <2> QED
    BY <2>1, FS_Subset
<1>2. Rank(path, n, a) \in Nat
  BY <1>1, FS_CardinalityType DEF Rank
<1>3. Purchases(path, a, 0) = {}
  BY DEF Purchases
<1>4. Rank(path, 0, a) = 0
  BY <1>3, FS_EmptySet DEF Rank
<1>5. CASE path[n + 1] = a
  <2>1. Purchases(path, a, n + 1) = Purchases(path, a, n) \cup {n + 1} /\ n + 1 \notin Purchases(path, a, n)
    BY <1>5 DEF Purchases
  <2>2. Cardinality(Purchases(path, a, n + 1)) = Cardinality(Purchases(path, a, n)) + 1
    BY <1>1, <2>1, FS_AddElement
  <2> QED
    BY <1>1, <1>2, <1>4, <1>5, <2>2 DEF Rank
<1>6. CASE path[n + 1] # a
  <2>1. Purchases(path, a, n + 1) = Purchases(path, a, n)
    BY <1>6 DEF Purchases
  <2> QED
    BY <1>1, <1>2, <1>4, <1>6, <2>1 DEF Rank
<1> QED
  BY <1>5, <1>6

\* Ranks do not fall.
LEMMA RankGrows ==
    ASSUME NEW path, NEW a, NEW m \in Nat, NEW n \in Nat, m <= n
    PROVE  Rank(path, m, a) <= Rank(path, n, a)
<1>1. Purchases(path, a, m) \subseteq Purchases(path, a, n)
  BY DEF Purchases
<1>2. IsFiniteSet(Purchases(path, a, n))
  BY RankSteps
<1> QED
  BY <1>1, <1>2, FS_Subset DEF Rank

\* No ability is bought that the path does not have.
LEMMA RankOfOthers ==
    ASSUME NEW path, NEW a, NEW n \in Nat, 1 .. n \subseteq DOMAIN path
    PROVE  /\ a \notin Range(path) => Rank(path, n, a) = 0
           /\ Rank(path, n, a) # 0 <=> \E i \in 1 .. n : path[i] = a
<1>1. Purchases(path, a, n) # {} <=> \E i \in 1 .. n : path[i] = a
  BY DEF Purchases
<1>2. IsFiniteSet(Purchases(path, a, n))
  BY RankSteps
<1>3. Rank(path, n, a) # 0 <=> \E i \in 1 .. n : path[i] = a
  BY <1>1, <1>2, FS_EmptySet DEF Rank
<1>4. (\E i \in 1 .. n : path[i] = a) => a \in Range(path)
  BY DEF Range
<1> QED
  BY <1>3, <1>4

IsPath(path, abilities) ==
    /\ path \in Seq(abilities)
    /\ \A a \in abilities : Rank(path, Len(path), a) <= RankCount

\* The position of a decision is the number of the purchases before it.
LEMMA PathRanks ==
    ASSUME NEW abilities, IsFiniteSet(abilities), NEW path, IsPath(path, abilities)
    PROVE  \A n \in 0 .. Len(path) :
              /\ RanksAt(path, n, abilities) \in Ranks(abilities)
              /\ Position(RanksAt(path, n, abilities)) = n
              /\ n # Len(path) =>
                    /\ path[n + 1] \in abilities
                    /\ RanksAt(path, n, abilities)[path[n + 1]] < RankCount
                    /\ RanksAt(path, n + 1, abilities) = After(RanksAt(path, n, abilities), path[n + 1])
<1>1. path \in Seq(abilities) /\ Len(path) \in Nat /\ \A i \in 1 .. Len(path) : path[i] \in abilities
  BY LenProperties, ElementOfSeq DEF IsPath
<1>2. ASSUME NEW n \in 0 .. Len(path) PROVE RanksAt(path, n, abilities) \in Ranks(abilities)
  <2>1. ASSUME NEW a \in abilities PROVE Rank(path, n, a) \in 0 .. RankCount
    <3>1. n \in Nat /\ n <= Len(path)
      BY <1>1
    <3>2. Rank(path, n, a) <= Rank(path, Len(path), a)
      BY <1>1, <3>1, RankGrows
    <3>3. Rank(path, n, a) \in Nat /\ Rank(path, Len(path), a) \in Nat
      BY <1>1, <3>1, RankSteps
    <3>4. Rank(path, Len(path), a) <= RankCount /\ RankCount \in Nat
      BY CountsAreNat DEF IsPath
    <3> QED
      BY <3>2, <3>3, <3>4
  <2> QED
    BY <2>1 DEF RanksAt, Ranks
<1>3. ASSUME NEW n \in 0 .. Len(path), n # Len(path)
      PROVE  /\ path[n + 1] \in abilities
             /\ RanksAt(path, n, abilities)[path[n + 1]] < RankCount
             /\ RanksAt(path, n + 1, abilities) = After(RanksAt(path, n, abilities), path[n + 1])
  <2>1. n \in Nat /\ n + 1 \in 0 .. Len(path) /\ path[n + 1] \in abilities
    BY <1>1, <1>3
  <2>2. \A a \in abilities :
           /\ RanksAt(path, n, abilities)[a] = Rank(path, n, a)
           /\ RanksAt(path, n + 1, abilities)[a] =
                 IF path[n + 1] = a THEN Rank(path, n, a) + 1 ELSE Rank(path, n, a)
    BY <2>1, RankSteps DEF RanksAt
  <2>3. RanksAt(path, n, abilities) \in Ranks(abilities) /\ RanksAt(path, n + 1, abilities) \in Ranks(abilities)
    BY <1>2, <2>1
  <2>4. RanksAt(path, n, abilities)[path[n + 1]] < RankCount
    <3>1. RanksAt(path, n + 1, abilities)[path[n + 1]] \in 0 .. RankCount
      BY <2>1, <2>3 DEF Ranks
    <3>2. RanksAt(path, n + 1, abilities)[path[n + 1]] = RanksAt(path, n, abilities)[path[n + 1]] + 1
      BY <2>1, <2>2
    <3>3. RanksAt(path, n, abilities)[path[n + 1]] \in Nat
      BY <2>1, <2>2, RankSteps
    <3> QED
      BY <3>1, <3>2, <3>3, CountsAreNat
  <2>5. RanksAt(path, n + 1, abilities) = After(RanksAt(path, n, abilities), path[n + 1])
    <3> DEFINE old == RanksAt(path, n, abilities)
               new == RanksAt(path, n + 1, abilities)
    <3>1. DOMAIN old = abilities /\ DOMAIN new = abilities /\ new = [a \in abilities |-> new[a]]
      BY DEF RanksAt
    <3>2. \A a \in abilities : new[a] = IF a = path[n + 1] THEN old[a] + 1 ELSE old[a]
      BY <2>2
    <3> HIDE DEF old, new
    <3>3. new = [old EXCEPT ![path[n + 1]] = old[path[n + 1]] + 1]
      BY <2>1, <3>1, <3>2
    <3> QED
      BY <3>3 DEF After, old, new
  <2> QED
    BY <2>1, <2>4, <2>5
<1> DEFINE P == {n \in Nat : n <= Len(path) => Position(RanksAt(path, n, abilities)) = n}
<1>4. 0 \in P
  <2> DEFINE zero == RanksAt(path, 0, abilities)
             bought == {purchase \in abilities \X (1 .. RankCount) : purchase[2] <= zero[purchase[1]]}
  <2>1. DOMAIN zero = abilities /\ \A a \in abilities : zero[a] = 0
    BY RankSteps DEF RanksAt
  <2>2. bought = {}
    <3>1. ASSUME NEW purchase \in abilities \X (1 .. RankCount) PROVE ~(purchase[2] <= zero[purchase[1]])
      <4>1. purchase[1] \in abilities /\ purchase[2] \in 1 .. RankCount
        OBVIOUS
      <4> HIDE DEF zero
      <4> QED
        BY <2>1, <4>1, CountsAreNat
    <3> QED
      BY <3>1
  <2>3. Position(zero) = Cardinality(bought)
    BY <2>1 DEF Position
  <2> QED
    BY <2>2, <2>3, FS_EmptySet
<1>5. ASSUME NEW n \in Nat, n \in P PROVE n + 1 \in P
  <2> SUFFICES ASSUME n + 1 <= Len(path) PROVE Position(RanksAt(path, n + 1, abilities)) = n + 1
    OBVIOUS
  <2>1. n \in 0 .. Len(path) /\ n # Len(path) /\ Position(RanksAt(path, n, abilities)) = n
    BY <1>1, <1>5
  <2>2. RanksAt(path, n, abilities) \in Ranks(abilities)
    BY <1>2, <2>1
  <2> QED
    BY <1>3, <2>1, <2>2, PositionOfAfter
<1> HIDE DEF P
<1>6. Nat \subseteq P
  BY <1>4, <1>5, NumberInduction
<1>7. \A n \in 0 .. Len(path) : n \in Nat /\ n <= Len(path)
  BY <1>1
<1>8. \A n \in 0 .. Len(path) : Position(RanksAt(path, n, abilities)) = n
  BY <1>6, <1>7 DEF P
<1> QED
  BY <1>2, <1>3, <1>8

\* The path of an observation buys no ability too often.
LEMMA ObservationIs ==
    ASSUME NEW answers \in Responses, NEW i \in Observations(answers)
    PROVE  /\ i \in DOMAIN answers /\ IsPath(answers[i].path, Bought(answers))
           /\ Range(answers[i].path) \subseteq Bought(answers)
<1> DEFINE path == answers[i].path
<1>1. i \in DOMAIN answers /\ IsObservation(answers[i])
  BY DEF Observations
<1>2. path \in Seq(Nat)
  BY <1>1, ResponseType
<1>3. Range(path) \subseteq Bought(answers)
  BY BoughtIs
<1>4. Len(path) \in Nat /\ DOMAIN path = 1 .. Len(path) /\ \A j \in 1 .. Len(path) : path[j] \in Range(path)
  BY <1>2, LenProperties DEF Range
<1>5. path \in Seq(Bought(answers))
  <2>1. \A j \in 1 .. Len(path) : path[j] \in Bought(answers)
    BY <1>3, <1>4
  <2> QED
    BY <1>2, <2>1, SeqDef, LenProperties
<1>6. ASSUME NEW a \in Bought(answers) PROVE Rank(path, Len(path), a) <= RankCount
  <2>1. CASE a \in Range(path)
    BY <1>1, <2>1 DEF IsObservation
  <2>2. CASE a \notin Range(path)
    <3>1. Rank(path, Len(path), a) = 0
      BY <1>4, <2>2, RankOfOthers
    <3> QED
      BY <3>1, CountsAreNat
  <2> QED
    BY <2>1, <2>2
<1> QED
  BY <1>1, <1>3, <1>5, <1>6 DEF IsPath

\* The players that Followers counts are those of a decision state.
LEMMA FollowersAreSupport ==
    ASSUME response \in Responses, NEW path, IsPath(path, Bought(response)),
           NEW n \in 1 .. Len(path)
    PROVE  Followers(path, n) = Support(response, RanksAt(path, n - 1, Bought(response)), path[n])
<1> DEFINE abilities == Bought(response)
           ranks == RanksAt(path, n - 1, abilities)
           Same(other) == \A a \in Range(other) \cup Range(path) :
                Cardinality(Purchases(other, a, n - 1)) = Cardinality(Purchases(path, a, n - 1))
           Follows(i) == LET other == response[i].path
                         IN  /\ IsObservation(response[i]) /\ Len(other) >= n /\ other[n] = path[n]
                             /\ Same(other)
<1>1. /\ path \in Seq(abilities) /\ Len(path) \in Nat /\ DOMAIN path = 1 .. Len(path)
      /\ n - 1 \in Nat /\ n - 1 \in 0 .. Len(path) /\ n \in Nat
  BY LenProperties DEF IsPath
<1>2. IsFiniteSet(abilities) /\ Range(path) \subseteq abilities
  BY <1>1, BoughtIs, ElementOfSeq DEF Range
<1>3. ranks \in Ranks(abilities) /\ Position(ranks) = n - 1 /\ DOMAIN ranks = abilities
  <2>1. \A m \in 0 .. Len(path) : /\ RanksAt(path, m, Bought(response)) \in Ranks(Bought(response))
                                 /\ Position(RanksAt(path, m, Bought(response))) = m
    BY <1>2, PathRanks
  <2>2. DOMAIN ranks = abilities
    BY DEF RanksAt
  <2> QED
    BY <1>1, <2>1, <2>2
<1>4. ASSUME NEW i \in Observations(response)
      PROVE  Follows(i) <=> Decides(response[i], ranks, path[n])
  <2> DEFINE other == response[i].path
  <2>1. /\ IsPath(other, abilities) /\ Range(other) \subseteq abilities /\ IsObservation(response[i])
        /\ other \in Seq(abilities) /\ Len(other) \in Nat /\ DOMAIN other = 1 .. Len(other)
    BY ObservationIs, LenProperties DEF Observations, IsPath
  <2>2. ASSUME Follows(i) PROVE Decides(response[i], ranks, path[n])
    <3>1. n \in DOMAIN other /\ other[n] = path[n] /\ Same(other)
      BY <1>1, <2>1, <2>2
    <3>2. ASSUME NEW a \in abilities PROVE Rank(other, n - 1, a) = Rank(path, n - 1, a)
      <4>1. CASE a \in Range(other) \cup Range(path)
        BY <3>1, <4>1 DEF Rank
      <4>2. CASE a \notin Range(other) \cup Range(path)
        <5>1. 1 .. n - 1 \subseteq DOMAIN path /\ 1 .. n - 1 \subseteq DOMAIN other
          BY <1>1, <2>1, <3>1
        <5> QED
          BY <1>1, <4>2, <5>1, RankOfOthers
      <4> QED
        BY <4>1, <4>2
    <3>3. RanksBefore(other, n, abilities) = ranks
      BY <3>2 DEF RanksBefore, RanksAt
    <3> QED
      BY <1>3, <3>1, <3>3 DEF Decides
  <2>3. ASSUME Decides(response[i], ranks, path[n]) PROVE Follows(i)
    <3>1. PICK j \in DOMAIN other : other[j] = path[n] /\ RanksBefore(other, j, abilities) = ranks
      BY <1>3, <2>3 DEF Decides
    <3>2. j \in 1 .. Len(other) /\ j - 1 \in 0 .. Len(other)
      BY <2>1, <3>1
    <3>3. RanksAt(other, j - 1, abilities) = ranks
      BY <3>1 DEF RanksBefore, RanksAt
    <3>4. Position(ranks) = j - 1
      BY <1>2, <2>1, <3>2, <3>3, PathRanks
    <3>5. j = n
      BY <1>1, <1>3, <3>2, <3>4
    <3>6. \A a \in abilities : Rank(other, n - 1, a) = Rank(path, n - 1, a)
      BY <3>3, <3>5 DEF RanksAt
    <3>7. Same(other)
      BY <1>2, <2>1, <3>6 DEF Rank
    <3>8. Len(other) >= n
      BY <1>1, <2>1, <3>2, <3>5
    <3> QED
      BY <2>1, <3>1, <3>5, <3>7, <3>8
  <2> QED
    BY <2>2, <2>3
<1>5. \A i \in DOMAIN response : Follows(i) => i \in Observations(response)
  BY DEF Observations
<1> HIDE DEF Follows
<1>6. {i \in DOMAIN response : Follows(i)} = {i \in Observations(response) : Decides(response[i], ranks, path[n])}
  BY <1>4, <1>5 DEF Observations
<1>7. Followers(path, n) = Matches(response, {i \in DOMAIN response : Follows(i)})
  BY DEF Followers, Follows
<1> QED
  BY <1>6, <1>7 DEF Support

\* A path that was found is no Absent.
LEMMA PathIsFound == <<>> # Absent /\ \A path \in Seq(Nat) : path # Absent
<1>1. <<>> \in Seq(Nat)
  BY EmptySeq
<1> QED
  BY <1>1, AbsentAssumption

\* The purchases that were selected after n others, and the ranks at which they begin.
ChosenAt(path, f, answers, n) ==
    LET ranks == RanksAt(path, n, Bought(answers))
    IN  /\ n <= Len(path) /\ ranks \in Ranks(Bought(answers)) /\ Position(ranks) = n
        /\ f[ranks] \in Seq(Bought(answers)) /\ Len(f[ranks]) = Len(path) - n
        /\ \A j \in 1 .. Len(path) - n : f[ranks][j] = path[n + j]
        /\ n # OrderLength =>
              /\ Viable(answers, f, ranks) # {}
              /\ path[n + 1] = Best(answers, ranks, Viable(answers, f, ranks))

\* By induction on the number of purchases: each purchase of the path is the best viable one.
LEMMA ChosenSteps ==
    ASSUME NEW answers \in Responses, NEW f, IsResolve(f, answers), NEW path,
           path = f[[a \in Bought(answers) |-> 0]], path # Absent
    PROVE  /\ path \in Seq(Bought(answers))
           /\ \A n \in 0 .. OrderLength : ChosenAt(path, f, answers, n)
<1> DEFINE abilities == Bought(answers)
           At(n) == RanksAt(path, n, abilities)
           Held(n) ==
              /\ n <= Len(path) /\ At(n) \in Ranks(abilities) /\ Position(At(n)) = n
              /\ f[At(n)] \in Seq(abilities) /\ Len(f[At(n)]) = Len(path) - n
              /\ \A j \in 1 .. Len(path) - n : f[At(n)][j] = path[n + j]
           Chosen(n) ==
              /\ Viable(answers, f, At(n)) # {}
              /\ path[n + 1] = Best(answers, At(n), Viable(answers, f, At(n)))
           P == {n \in Nat : n <= OrderLength => Held(n)}
<1>0. OrderLength \in Nat /\ RankCount \in Nat
  BY CountsAreNat
<1>1. /\ f \in [Ranks(abilities) -> Paths(abilities)]
      /\ \A ranks \in Ranks(abilities) : f[ranks] = Select(answers, f, ranks)
  BY DEF IsResolve
<1>2. At(0) = [a \in abilities |-> 0] /\ At(0) \in Ranks(abilities)
  BY RankSteps, CountsAreNat DEF RanksAt, Ranks
<1>3. path \in Seq(abilities) /\ Len(path) \in Nat /\ path = f[At(0)]
  <2>1. path = f[At(0)] /\ f[At(0)] \in Paths(abilities)
    BY <1>1, <1>2
  <2> QED
    BY <2>1, LenProperties DEF Paths
<1>4. Position(At(0)) = 0
  <2> DEFINE zero == At(0)
             bought == {purchase \in abilities \X (1 .. RankCount) : purchase[2] <= zero[purchase[1]]}
  <2>1. DOMAIN zero = abilities /\ \A a \in abilities : zero[a] = 0
    BY <1>2
  <2>2. bought = {}
    <3>1. ASSUME NEW purchase \in abilities \X (1 .. RankCount) PROVE ~(purchase[2] <= zero[purchase[1]])
      <4>1. purchase[1] \in abilities /\ purchase[2] \in 1 .. RankCount
        OBVIOUS
      <4> HIDE DEF zero
      <4> QED
        BY <1>0, <2>1, <4>1
    <3> QED
      BY <3>1
  <2>3. Position(zero) = Cardinality(bought)
    BY <2>1 DEF Position
  <2> QED
    BY <2>2, <2>3, FS_EmptySet
<1>5. 0 \in P
  BY <1>2, <1>3, <1>4
<1>6. ASSUME NEW n \in Nat, n < OrderLength, Held(n) PROVE Chosen(n) /\ Held(n + 1)
  <2> DEFINE ranks == At(n)
             viable == Viable(answers, f, ranks)
             best == Best(answers, ranks, viable)
             next == After(ranks, best)
             rest == f[next]
             here == f[ranks]
  <2>1. ranks \in Ranks(abilities) /\ Position(ranks) = n /\ n # OrderLength /\ DOMAIN ranks = abilities
    BY <1>0, <1>6 DEF RanksAt
  <2>2. here = Select(answers, f, ranks) /\ here # Absent
    <3>1. here \in Seq(Nat)
      <4>1. abilities \subseteq Nat
        BY BoughtIs
      <4> QED
        BY <1>6, <4>1, SeqDef, LenProperties, ElementOfSeq
    <3> QED
      BY <1>1, <2>1, <3>1, PathIsFound
  <2>3. viable # {} /\ here = <<best>> \o rest
    BY <2>1, <2>2 DEF Select
  <2>4. best \in viable /\ viable \subseteq abilities
    <3>1. viable \subseteq abilities
      BY <2>1 DEF Viable
    <3> QED
      BY <2>3, <3>1, BestIs
  <2>5. best \in abilities /\ ranks[best] < RankCount /\ rest # Absent
    BY <2>4 DEF Viable
  <2>6. next \in Ranks(abilities) /\ Position(next) = n + 1
    BY <2>1, <2>5, BoughtIs, PositionOfAfter
  <2>7. rest \in Seq(abilities)
    BY <1>1, <2>5, <2>6 DEF Paths
  <2>8. /\ Len(rest) \in Nat /\ Len(here) = 1 + Len(rest) /\ here[1] = best
        /\ \A j \in 1 .. Len(rest) : here[1 + j] = rest[j]
    <3> HIDE DEF rest, best, here
    <3>1. <<best>> \in Seq(abilities) /\ Len(<<best>>) = 1 /\ <<best>>[1] = best
      BY <2>5
    <3>2. Len(rest) \in Nat
      BY <2>7, LenProperties
    <3> QED
      BY <2>3, <2>7, <3>1, <3>2, ConcatProperties
  <2>9. Len(here) = Len(path) - n /\ \A j \in 1 .. Len(path) - n : here[j] = path[n + j]
    BY <1>6
  <2> HIDE DEF here, rest, next, best, viable
  <2>10. n + 1 <= Len(path) /\ path[n + 1] = best /\ Len(rest) = Len(path) - (n + 1)
    BY <1>3, <2>8, <2>9
  <2>11. At(n + 1) = next
    <3>1. next = [ranks EXCEPT ![best] = ranks[best] + 1]
      BY DEF next, After
    <3>2. \A a \in abilities : At(n + 1)[a] = IF a = best THEN ranks[a] + 1 ELSE ranks[a]
      BY <2>10, RankSteps DEF RanksAt
    <3>3. At(n + 1) = [a \in abilities |-> At(n + 1)[a]]
      BY DEF RanksAt
    <3> QED
      BY <2>1, <2>5, <3>1, <3>2, <3>3
  <2>12. \A j \in 1 .. Len(path) - (n + 1) : rest[j] = path[(n + 1) + j]
    <3> SUFFICES ASSUME NEW j \in 1 .. Len(path) - (n + 1) PROVE rest[j] = path[(n + 1) + j]
      OBVIOUS
    <3>1. rest[j] = here[1 + j] /\ 1 + j \in 1 .. Len(path) - n
      BY <1>3, <2>8, <2>10
    <3>2. here[1 + j] = path[n + (1 + j)] /\ n + (1 + j) = (n + 1) + j
      BY <2>9, <3>1
    <3> QED
      BY <3>1, <3>2
  <2>13. Chosen(n)
    BY <2>3, <2>10 DEF viable, best
  <2>14. rest = f[next]
    BY DEF rest
  <2> HIDE DEF At, Chosen
  <2>15. Held(n + 1)
    BY <2>6, <2>7, <2>10, <2>11, <2>12, <2>14
  <2> QED
    BY <2>13, <2>15
<1> HIDE DEF Held, Chosen
<1>7. ASSUME NEW n \in Nat, n \in P PROVE n + 1 \in P
  BY <1>0, <1>6, <1>7
<1>8. Nat \subseteq P
  <2> HIDE DEF P
  <2> QED
    BY <1>5, <1>7, NumberInduction
<1>9. ASSUME NEW n \in 0 .. OrderLength PROVE Held(n) /\ (n # OrderLength => Chosen(n))
  <2>1. n \in Nat /\ n <= OrderLength /\ (n # OrderLength => n < OrderLength)
    BY <1>0
  <2>2. Held(n)
    BY <1>8, <2>1
  <2> QED
    BY <1>6, <2>1, <2>2
<1> QED
  BY <1>3, <1>9 DEF ChosenAt, Held, Chosen

\* The order that is selected is complete.
LEMMA ChosenIsComplete ==
    ASSUME NEW answers \in Responses, NEW f, IsResolve(f, answers), NEW path,
           path = f[[a \in Bought(answers) |-> 0]], path # Absent
    PROVE  /\ IsPath(path, Bought(answers)) /\ Len(path) = OrderLength
           /\ IsCompleteOrder(path) /\ Range(path) \subseteq Bought(answers)
<1> DEFINE abilities == Bought(answers)
           ranks == RanksAt(path, OrderLength, abilities)
           full == {a \in abilities : ranks[a] = RankCount}
           all == abilities \X (1 .. RankCount)
           bought == {purchase \in all : purchase[2] <= ranks[purchase[1]]}
           owned == full \X (1 .. RankCount)
<1>0. OrderLength \in Nat /\ OrderLength \in 0 .. OrderLength
  BY CountsAreNat
<1>1. /\ path \in Seq(abilities) /\ OrderLength <= Len(path) /\ ranks \in Ranks(abilities)
      /\ Position(ranks) = OrderLength /\ f[ranks] \in Seq(abilities) /\ Len(f[ranks]) = Len(path) - OrderLength
  <2>1. path \in Seq(abilities) /\ ChosenAt(path, f, answers, OrderLength)
    BY <1>0, ChosenSteps
  <2> QED
    BY <2>1 DEF ChosenAt
<1>2. f[ranks] = Select(answers, f, ranks) /\ f[ranks] # Absent
  <2>1. abilities \subseteq Nat
    BY BoughtIs
  <2>2. f[ranks] \in Seq(Nat)
    BY <1>1, <2>1, SeqDef, LenProperties, ElementOfSeq
  <2> QED
    BY <1>1, <2>2, PathIsFound DEF IsResolve
<1>3. DOMAIN ranks = abilities /\ \A a \in abilities : ranks[a] = Rank(path, OrderLength, a)
  BY DEF RanksAt
<1>4. f[ranks] = <<>> /\ Cardinality(full) = AbilityCount
  BY <1>1, <1>2, <1>3 DEF Select
<1>5. Len(path) = OrderLength
  <2>1. Len(f[ranks]) = 0 /\ Len(path) \in Nat
    BY <1>1, <1>4, LenProperties
  <2> QED
    BY <1>0, <1>1, <2>1
<1>6. IsFiniteSet(abilities) /\ abilities \subseteq Nat \ {0}
  BY BoughtIs
<1>7. \A a \in abilities : ranks[a] \in 0 .. RankCount
  BY <1>1 DEF Ranks
<1> HIDE DEF ranks
<1>8. owned = bought
  <2>1. IsFiniteSet(full) /\ IsFiniteSet(1 .. RankCount) /\ Cardinality(1 .. RankCount) = RankCount
    BY <1>6, FS_Subset, FS_Interval, CountsAreNat
  <2>2. Cardinality(owned) = AbilityCount * RankCount
    BY <1>4, <2>1, FS_Product
  <2>3. IsFiniteSet(bought)
    <3>1. IsFiniteSet(all)
      BY <1>6, <2>1, FS_Product
    <3> QED
      BY <3>1, FS_Subset
  <2>4. owned \subseteq bought
    <3>1. \A a \in full, k \in 1 .. RankCount : a \in abilities /\ k <= ranks[a]
      BY CountsAreNat
    <3> QED
      BY <3>1
  <2>5. Cardinality(bought) = OrderLength
    BY <1>1, <1>3 DEF Position
  <2> QED
    BY <2>2, <2>3, <2>4, <2>5, FS_Subset DEF OrderLength
<1>9. \A a \in abilities : ranks[a] # 0 <=> a \in full
  <2> SUFFICES ASSUME NEW a \in abilities PROVE ranks[a] # 0 <=> a \in full
    OBVIOUS
  <2>1. ASSUME ranks[a] # 0 PROVE a \in full
    <3>1. 1 \in 1 .. RankCount /\ 1 <= ranks[a]
      BY <1>7, <2>1, CountsAreNat
    <3>2. <<a, 1>> \in bought
      BY <3>1
    <3> QED
      BY <1>8, <3>2
  <2> QED
    BY <2>1, CountsAreNat
<1>10. DOMAIN path = 1 .. OrderLength /\ Range(path) \subseteq abilities
  <2>1. DOMAIN path = 1 .. OrderLength
    BY <1>1, <1>5, LenProperties
  <2> QED
    BY <1>1, <1>5, <2>1, ElementOfSeq DEF Range
<1>11. Range(path) = full
  <2>1. \A a : Rank(path, OrderLength, a) # 0 <=> \E i \in 1 .. OrderLength : path[i] = a
    BY <1>0, <1>10, RankOfOthers
  <2>2. Range(path) \subseteq full
    <3> SUFFICES ASSUME NEW i \in DOMAIN path PROVE path[i] \in full
      BY DEF Range
    <3>1. path[i] \in abilities /\ Rank(path, OrderLength, path[i]) # 0
      BY <1>10, <2>1 DEF Range
    <3> QED
      BY <1>3, <1>9, <3>1
  <2>3. full \subseteq Range(path)
    <3> SUFFICES ASSUME NEW a \in full PROVE a \in Range(path)
      OBVIOUS
    <3>1. Rank(path, OrderLength, a) # 0
      BY <1>3, CountsAreNat
    <3> QED
      BY <1>10, <2>1, <3>1 DEF Range
  <2> QED
    BY <2>2, <2>3
<1>12. IsCompleteOrder(path)
  <2>1. \A a \in Range(path) : Cardinality(Purchases(path, a, Len(path))) = RankCount
    BY <1>3, <1>5, <1>11 DEF Rank
  <2> QED
    BY <1>4, <1>6, <1>10, <1>11, <2>1 DEF IsCompleteOrder
<1>13. IsPath(path, abilities)
  <2>1. \A a \in abilities : Rank(path, Len(path), a) <= RankCount
    BY <1>3, <1>5, <1>7
  <2> QED
    BY <1>1, <2>1 DEF IsPath
<1> QED
  BY <1>5, <1>10, <1>12, <1>13

\* Whoever reads the responses finds the order that first_fully_upgraded_ability needs.
LEMMA SelectedOrderIs ==
    ASSUME NEW answers \in Responses, SelectAbilityPath(answers) # Absent
    PROVE  LET path == SelectAbilityPath(answers)
           IN  /\ path \in Seq(Nat) /\ Len(path) = OrderLength /\ IsCompleteOrder(path)
               /\ Range(path) \subseteq Abilities
<1> DEFINE path == SelectAbilityPath(answers)
<1>1. PICK f : IsResolve(f, answers) /\ path = f[[a \in Bought(answers) |-> 0]]
  BY ResolveExists
<1>2. /\ IsPath(path, Bought(answers)) /\ Len(path) = OrderLength
      /\ IsCompleteOrder(path) /\ Range(path) \subseteq Bought(answers)
  BY <1>1, ChosenIsComplete
<1>3. Bought(answers) \subseteq Nat /\ Bought(answers) \subseteq Abilities
  BY BoughtIs, ResponseType
<1>4. path \in Seq(Nat)
  <2>1. path \in Seq(Bought(answers))
    BY <1>2 DEF IsPath
  <2> QED
    BY <1>3, <2>1, SeqDef, LenProperties, ElementOfSeq
<1> QED
  BY <1>2, <1>3, <1>4

\* The complete orders of which players followed every purchase.
FollowedOrders ==
    {order \in [1 .. OrderLength -> (UNION {Range(response[i].path) : i \in DOMAIN response}) \ {0}] :
        /\ IsCompleteOrder(order)
        /\ \A n \in 1 .. OrderLength : Followers(order, n) > 0}

\* Each ability of such an order is one that was observed.
LEMMA FollowedIs ==
    ASSUME response \in Responses, NEW order \in FollowedOrders
    PROVE  /\ IsPath(order, Bought(response)) /\ Len(order) = OrderLength
           /\ DOMAIN order = 1 .. OrderLength /\ Range(order) \subseteq Bought(response)
           /\ {a \in Bought(response) : RanksAt(order, OrderLength, Bought(response))[a] = RankCount} = Range(order)
           /\ IsCompleteOrder(order)
<1> DEFINE abilities == Bought(response)
<1>0. OrderLength \in Nat
  BY CountsAreNat
<1>1. /\ IsCompleteOrder(order) /\ \A n \in 1 .. OrderLength : Followers(order, n) > 0
      /\ DOMAIN order = 1 .. OrderLength
  BY DEF FollowedOrders
<1>2. ASSUME NEW n \in 1 .. OrderLength PROVE order[n] \in abilities
  <2> DEFINE Follows(i) ==
                LET other == response[i].path
                IN  /\ IsObservation(response[i]) /\ Len(other) >= n /\ other[n] = order[n]
                    /\ \A a \in Range(other) \cup Range(order) :
                          Cardinality(Purchases(other, a, n - 1)) = Cardinality(Purchases(order, a, n - 1))
             places == {i \in DOMAIN response : Follows(i)}
  <2>1. Followers(order, n) = Matches(response, places)
    BY DEF Followers
  <2>2. Matches(response, places) > 0
    BY <1>1, <2>1
  <2>3. places # {}
    <3>1. places \in SUBSET DOMAIN response
      OBVIOUS
    <3> HIDE DEF places
    <3>2. places = {} => Matches(response, places) = 0
      BY <3>1, SupportIsNat
    <3>3. 0 > 0 <=> FALSE
      OBVIOUS
    <3> QED
      BY <2>2, <3>2, <3>3
  <2>4. PICK i \in DOMAIN response : Follows(i)
    BY <2>3
  <2>5. /\ i \in Observations(response) /\ Len(response[i].path) >= n /\ response[i].path[n] = order[n]
    BY <2>4 DEF Observations
  <2>6. /\ IsPath(response[i].path, abilities) /\ Range(response[i].path) \subseteq abilities
    BY <2>5, ObservationIs
  <2>7. n \in DOMAIN response[i].path
    <3>1. response[i].path \in Seq(abilities)
      BY <2>6 DEF IsPath
    <3>2. Len(response[i].path) \in Nat /\ DOMAIN response[i].path = 1 .. Len(response[i].path)
      BY <3>1, LenProperties
    <3> QED
      BY <1>0, <2>5, <3>2
  <2> QED
    BY <2>5, <2>6, <2>7 DEF Range
<1>3. order \in [1 .. OrderLength -> abilities] /\ Range(order) \subseteq abilities
  <2>1. order = [n \in 1 .. OrderLength |-> order[n]]
    BY DEF FollowedOrders
  <2> QED
    BY <1>1, <1>2, <2>1 DEF Range
<1>4. order \in Seq(abilities) /\ Len(order) = OrderLength
  <2>1. order \in Seq(abilities)
    BY <1>0, <1>3, SeqDef
  <2>2. Len(order) \in Nat /\ DOMAIN order = 1 .. Len(order)
    BY <2>1, LenProperties
  <2>3. Len(order) = OrderLength
    <3>1. \A m, n \in Nat : 1 .. m = 1 .. n => m = n
      OBVIOUS
    <3> QED
      BY <1>0, <1>1, <2>2, <3>1
  <2> QED
    BY <2>1, <2>3
<1>5. ASSUME NEW a \in abilities
      PROVE  /\ a \in Range(order) => Rank(order, OrderLength, a) = RankCount
             /\ a \notin Range(order) => Rank(order, OrderLength, a) = 0
  <2>1. a \notin Range(order) => Rank(order, OrderLength, a) = 0
    BY <1>0, <1>1, RankOfOthers
  <2>2. a \in Range(order) => Rank(order, OrderLength, a) = RankCount
    BY <1>1, <1>4 DEF IsCompleteOrder, Rank
  <2> QED
    BY <2>1, <2>2
<1>6. IsPath(order, abilities)
  <2>1. \A a \in abilities : Rank(order, Len(order), a) <= RankCount
    BY <1>4, <1>5, CountsAreNat
  <2> QED
    BY <1>4, <2>1 DEF IsPath
<1>7. {a \in abilities : RanksAt(order, OrderLength, abilities)[a] = RankCount} = Range(order)
  BY <1>3, <1>5, CountsAreNat DEF RanksAt
<1> QED
  BY <1>1, <1>3, <1>4, <1>6, <1>7

\* Such an order is not lost on the way: resolve_ability_continuation can go on at each
\* of its purchases.
LEMMA FollowedResolves ==
    ASSUME response \in Responses, NEW f, IsResolve(f, response), NEW order \in FollowedOrders
    PROVE  \A n \in 0 .. OrderLength :
              LET ranks == RanksAt(order, n, Bought(response))
              IN  /\ f[ranks] # Absent
                  /\ n # OrderLength => order[n + 1] \in Viable(response, f, ranks)
<1> DEFINE abilities == Bought(response)
           At(n) == RanksAt(order, n, abilities)
           Resolved(n) == f[At(n)] # Absent
           CanGo(n) == order[n + 1] \in Viable(response, f, At(n))
           P == {m \in Nat : m <= OrderLength => Resolved(OrderLength - m)}
<1>0. OrderLength \in Nat /\ OrderLength # 0
  BY CountsAreNat
<1>1. /\ IsPath(order, abilities) /\ Len(order) = OrderLength /\ DOMAIN order = 1 .. OrderLength
      /\ {a \in abilities : At(OrderLength)[a] = RankCount} = Range(order) /\ IsCompleteOrder(order)
  BY FollowedIs
<1>2. \A n \in 0 .. OrderLength :
         /\ At(n) \in Ranks(abilities) /\ Position(At(n)) = n
         /\ n # OrderLength => /\ order[n + 1] \in abilities /\ At(n)[order[n + 1]] < RankCount
                               /\ At(n + 1) = After(At(n), order[n + 1])
  BY <1>1, BoughtIs, PathRanks
<1>3. \A n : DOMAIN At(n) = abilities
  BY DEF RanksAt
<1>4. \A ranks \in Ranks(abilities) : f[ranks] = Select(response, f, ranks) /\ f[ranks] \in Paths(abilities)
  BY DEF IsResolve
<1> HIDE DEF At
<1>5. Resolved(OrderLength)
  <2>1. At(OrderLength) \in Ranks(abilities) /\ Position(At(OrderLength)) = OrderLength
    BY <1>0, <1>2
  <2>2. {a \in DOMAIN At(OrderLength) : At(OrderLength)[a] = RankCount} = Range(order)
    BY <1>1, <1>3
  <2>3. Cardinality(Range(order)) = AbilityCount
    BY <1>1 DEF IsCompleteOrder
  <2>4. Select(response, f, At(OrderLength)) = <<>>
    BY <2>1, <2>2, <2>3 DEF Select
  <2> QED
    BY <1>4, <2>1, <2>4, PathIsFound
<1>6. ASSUME NEW n \in 0 .. OrderLength, n # OrderLength, Resolved(n + 1)
      PROVE  CanGo(n)
  <2>1. /\ order[n + 1] \in abilities /\ At(n)[order[n + 1]] < RankCount
        /\ At(n + 1) = After(At(n), order[n + 1])
    BY <1>2, <1>6
  <2>2. n + 1 \in 1 .. OrderLength /\ (n + 1) - 1 = n
    BY <1>0, <1>6
  <2>3. Followers(order, n + 1) > 0
    BY <2>2 DEF FollowedOrders
  <2>4. Followers(order, n + 1) = Support(response, At(n), order[n + 1])
    <3>1. Followers(order, n + 1) = Support(response, RanksAt(order, (n + 1) - 1, abilities), order[n + 1])
      BY <1>1, <2>2, FollowersAreSupport
    <3> QED
      BY <2>2, <3>1 DEF At
  <2> QED
    BY <1>3, <1>6, <2>1, <2>3, <2>4 DEF Viable
<1>7. ASSUME NEW n \in 0 .. OrderLength, n # OrderLength, CanGo(n)
      PROVE  Resolved(n)
  <2> DEFINE viable == Viable(response, f, At(n))
             best == Best(response, At(n), viable)
             next == After(At(n), best)
  <2>1. At(n) \in Ranks(abilities) /\ Position(At(n)) = n
    BY <1>2
  <2>2. viable # {} /\ viable \subseteq abilities
    BY <1>3, <1>7 DEF Viable
  <2>3. best \in viable
    BY <2>2, BestIs
  <2>4. best \in abilities /\ At(n)[best] < RankCount /\ f[next] # Absent
    BY <2>2, <2>3 DEF Viable
  <2>5. next \in Ranks(abilities)
    BY <2>1, <2>4, BoughtIs, PositionOfAfter
  <2>6. f[next] \in Seq(abilities)
    BY <1>4, <2>4, <2>5 DEF Paths
  <2>7. Select(response, f, At(n)) = <<best>> \o f[next]
    BY <1>7, <2>1, <2>2 DEF Select
  <2> HIDE DEF next, best
  <2>8. <<best>> \o f[next] \in Seq(abilities)
    BY <2>4, <2>6, ConcatProperties
  <2>9. <<best>> \o f[next] \in Seq(Nat)
    <3>1. abilities \subseteq Nat
      BY BoughtIs
    <3> QED
      BY <2>8, <3>1, SeqDef, LenProperties, ElementOfSeq
  <2> QED
    BY <1>4, <2>1, <2>7, <2>9, PathIsFound
<1> HIDE DEF Resolved, CanGo
<1>8. 0 \in P
  BY <1>0, <1>5
<1>9. ASSUME NEW m \in Nat, m \in P PROVE m + 1 \in P
  <2> SUFFICES ASSUME m + 1 <= OrderLength PROVE Resolved(OrderLength - (m + 1))
    OBVIOUS
  <2> DEFINE n == OrderLength - (m + 1)
  <2>1. n \in 0 .. OrderLength /\ n # OrderLength /\ n + 1 = OrderLength - m /\ m <= OrderLength
    BY <1>0
  <2>2. Resolved(n + 1)
    BY <1>9, <2>1
  <2> HIDE DEF n
  <2>3. Resolved(n)
    BY <1>6, <1>7, <2>1, <2>2
  <2> QED
    BY <2>3 DEF n
<1>10. Nat \subseteq P
  <2> HIDE DEF P
  <2> QED
    BY <1>8, <1>9, NumberInduction
<1>11. ASSUME NEW n \in 0 .. OrderLength PROVE Resolved(n) /\ (n # OrderLength => CanGo(n))
  <2>1. \A k \in 0 .. OrderLength : Resolved(k)
    <3> SUFFICES ASSUME NEW k \in 0 .. OrderLength PROVE Resolved(k)
      OBVIOUS
    <3>1. OrderLength - k \in Nat /\ OrderLength - k <= OrderLength /\ OrderLength - (OrderLength - k) = k
      BY <1>0
    <3>2. OrderLength - k \in P
      BY <1>10, <3>1
    <3>3. Resolved(OrderLength - (OrderLength - k))
      BY <3>1, <3>2
    <3> QED
      BY <3>1, <3>3
  <2>2. n # OrderLength => n + 1 \in 0 .. OrderLength
    BY <1>0
  <2> QED
    BY <1>6, <2>1, <2>2
<1> QED
  BY <1>11 DEF Resolved, CanGo, At

\* Where another order parts from the one that was selected, both could be bought, and
\* the one that precedes was.
LEMMA SelectedPrecedes ==
    ASSUME response \in Responses, NEW f, IsResolve(f, response), NEW path,
           path = f[[a \in Bought(response) |-> 0]], path # Absent,
           NEW order \in FollowedOrders, NEW n \in 1 .. OrderLength,
           order[n] # path[n], \A m \in 1 .. n - 1 : order[m] = path[m]
    PROVE  \/ Followers(path, n) > Followers(order, n)
           \/ Followers(path, n) = Followers(order, n) /\ path[n] < order[n]
<1> DEFINE abilities == Bought(response)
           ranks == RanksAt(path, n - 1, abilities)
           viable == Viable(response, f, ranks)
<1>1. OrderLength \in Nat /\ n \in Nat /\ n - 1 \in 0 .. OrderLength /\ n - 1 # OrderLength /\ (n - 1) + 1 = n
  BY CountsAreNat
<1>2. RanksAt(order, n - 1, abilities) = ranks
  <2>1. \A a : Purchases(order, a, n - 1) = Purchases(path, a, n - 1)
    BY DEF Purchases
  <2> QED
    BY <2>1 DEF RanksAt, Rank
<1>3. order[n] \in viable
  <2>1. order[(n - 1) + 1] \in Viable(response, f, RanksAt(order, n - 1, abilities))
    BY <1>1, FollowedResolves
  <2> QED
    BY <1>1, <1>2, <2>1
<1>4. viable # {} /\ path[n] = Best(response, ranks, viable)
  <2>1. ChosenAt(path, f, response, n - 1)
    BY <1>1, ChosenSteps
  <2> QED
    BY <1>1, <2>1 DEF ChosenAt
<1>5. viable \subseteq abilities
  BY DEF Viable, RanksAt
<1>6. Precedes(response, ranks, path[n], order[n])
  <2>1. \A b \in viable \ {path[n]} : Precedes(response, ranks, path[n], b)
    BY <1>4, <1>5, BestIs
  <2> QED
    BY <1>3, <2>1
<1>7. Followers(path, n) = Support(response, ranks, path[n])
  <2>1. IsPath(path, abilities) /\ Len(path) = OrderLength
    BY ChosenIsComplete
  <2> QED
    BY <2>1, FollowersAreSupport
<1>8. Followers(order, n) = Support(response, ranks, order[n])
  <2>1. IsPath(order, abilities) /\ Len(order) = OrderLength
    BY FollowedIs
  <2> QED
    BY <1>2, <2>1, FollowersAreSupport
<1> QED
  BY <1>6, <1>7, <1>8 DEF Precedes

\* The order that is selected is one that players followed.
LEMMA SelectedIsFollowed ==
    ASSUME response \in Responses, NEW f, IsResolve(f, response), NEW path,
           path = f[[a \in Bought(response) |-> 0]], path # Absent
    PROVE  path \in FollowedOrders
<1> DEFINE abilities == Bought(response)
           all == UNION {Range(response[i].path) : i \in DOMAIN response}
<1>1. /\ IsPath(path, abilities) /\ Len(path) = OrderLength /\ IsCompleteOrder(path)
      /\ path \in Seq(abilities) /\ abilities \subseteq all \ {0}
  BY ChosenIsComplete, BoughtIs DEF IsPath
<1>2. path \in [1 .. OrderLength -> all \ {0}]
  <2>1. path \in [1 .. OrderLength -> abilities]
    BY <1>1, LenProperties
  <2> QED
    BY <1>1, <2>1
<1>3. ASSUME NEW n \in 1 .. OrderLength PROVE Followers(path, n) > 0
  <2> DEFINE ranks == RanksAt(path, n - 1, abilities)
             viable == Viable(response, f, ranks)
  <2>1. OrderLength \in Nat /\ n - 1 \in 0 .. OrderLength /\ n - 1 # OrderLength /\ (n - 1) + 1 = n
    BY CountsAreNat
  <2>2. ChosenAt(path, f, response, n - 1)
    BY <2>1, ChosenSteps
  <2>3. viable # {} /\ path[n] = Best(response, ranks, viable)
    BY <2>1, <2>2 DEF ChosenAt
  <2>4. viable \subseteq abilities
    BY DEF Viable, RanksAt
  <2>5. path[n] \in viable
    BY <2>3, <2>4, BestIs
  <2>6. Support(response, ranks, path[n]) > 0
    BY <2>5 DEF Viable
  <2> QED
    BY <1>1, <2>6, FollowersAreSupport
<1> QED
  BY <1>1, <1>2, <1>3 DEF FollowedOrders

\* What the property says of an order holds of what select_ability_path returns.
LEMMA SelectedIsBest ==
    ASSUME response \in Responses,
           build.ability_ids = IF SelectAbilityPath(response) = Absent THEN <<>> ELSE SelectAbilityPath(response)
    PROVE  OrderIsBestSupported
<1> DEFINE chosen == build.ability_ids
           zero == [a \in Bought(response) |-> 0]
           Parts(other) == {n \in 1 .. OrderLength : chosen[n] # other[n]}
           Precedence(other, n) ==
              \/ Followers(chosen, n) > Followers(other, n)
              \/ Followers(chosen, n) = Followers(other, n) /\ chosen[n] < other[n]
<1>1. PICK f : IsResolve(f, response) /\ SelectAbilityPath(response) = f[zero]
  BY ResolveExists
<1>2. CASE FollowedOrders = {}
  <2>1. f[zero] = Absent
    <3> SUFFICES ASSUME f[zero] # Absent PROVE FALSE
      OBVIOUS
    <3>1. f[zero] \in FollowedOrders
      BY <1>1, SelectedIsFollowed
    <3> QED
      BY <1>2, <3>1
  <2>2. chosen = <<>>
    BY <1>1, <2>1
  <2> QED
    BY <1>2, <2>2 DEF OrderIsBestSupported, FollowedOrders
<1>3. CASE FollowedOrders # {}
  <2>1. f[zero] # Absent
    <3>1. PICK order : order \in FollowedOrders
      BY <1>3
    <3>2. 0 \in 0 .. OrderLength
      BY CountsAreNat
    <3>3. f[RanksAt(order, 0, Bought(response))] # Absent
      BY <1>1, <3>1, <3>2, FollowedResolves
    <3>4. RanksAt(order, 0, Bought(response)) = zero
      BY RankSteps DEF RanksAt
    <3> QED
      BY <3>3, <3>4
  <2>2. chosen = f[zero]
    BY <1>1, <2>1
  <2>3. chosen \in FollowedOrders
    BY <1>1, <2>1, <2>2, SelectedIsFollowed
  <2>4. ASSUME NEW other \in FollowedOrders \ {chosen}
        PROVE  Precedence(other, Min(Parts(other)))
    <3>1. OrderLength \in Nat /\ Parts(other) \subseteq Nat
      BY CountsAreNat
    <3>2. Parts(other) # {}
      <4>1. chosen = [n \in 1 .. OrderLength |-> chosen[n]] /\ other = [n \in 1 .. OrderLength |-> other[n]]
        BY <2>3 DEF FollowedOrders
      <4> QED
        BY <4>1
    <3> DEFINE first == Min(Parts(other))
    <3>3. \E m \in Parts(other) : \A n \in Parts(other) : m <= n
      BY <3>1, <3>2, LeastNumber
    <3>4. first \in Parts(other) /\ \A n \in Parts(other) : first <= n
      BY <3>3 DEF Min
    <3> HIDE DEF first
    <3>5. first \in 1 .. OrderLength /\ other[first] # chosen[first]
      BY <3>4
    <3>6. \A m \in 1 .. first - 1 : other[m] = chosen[m]
      <4> SUFFICES ASSUME NEW m \in 1 .. first - 1, other[m] # chosen[m] PROVE FALSE
        OBVIOUS
      <4>1. m \in 1 .. OrderLength /\ ~(first <= m)
        BY <3>1, <3>5
      <4>2. m \in Parts(other)
        BY <4>1
      <4> QED
        BY <3>4, <4>1, <4>2
    <3>7. Precedence(other, first)
      BY <1>1, <2>1, <2>2, <3>5, <3>6, SelectedPrecedes
    <3> QED
      BY <3>7 DEF first
  <2> QED
    BY <1>3, <2>3, <2>4 DEF OrderIsBestSupported, FollowedOrders
<1> QED
  BY <1>2, <1>3

-----------------------------------------------------------------------------
(* The rest of a build. *)

\* A complete order completes an ability: the first is one of its own.
LEMMA UpgradedIs ==
    ASSUME NEW path \in Seq(Nat)
    PROVE  FirstFullyUpgraded(path) = Absent \/ FirstFullyUpgraded(path) \in Range(path)
<1> SUFFICES ASSUME Len(path) = OrderLength, IsCompleteOrder(path)
             PROVE  FirstFullyUpgraded(path) \in Range(path)
  BY DEF FirstFullyUpgraded
<1> DEFINE Completes(i) == Cardinality(Purchases(path, path[i], i)) = RankCount
           First(i) == Completes(i) /\ \A j \in 1 .. (i - 1) : ~Completes(j)
           places == {i \in DOMAIN path : Completes(i)}
<1>1. /\ OrderLength \in Nat /\ RankCount \in Nat /\ RankCount # 0 /\ AbilityCount # 0
      /\ DOMAIN path = 1 .. OrderLength
  BY CountsAreNat, LenProperties
<1>2. PICK a \in Range(path) : TRUE
  <2>1. Range(path) # {}
    BY <1>1, FS_EmptySet DEF IsCompleteOrder
  <2> QED
    BY <2>1
<1>3. Rank(path, OrderLength, a) = RankCount
  BY DEF IsCompleteOrder, Rank
<1> DEFINE reached == {n \in Nat : Rank(path, n, a) >= RankCount}
<1>4. PICK n \in reached : \A m \in reached : n <= m
  <2>1. OrderLength \in reached /\ reached \subseteq Nat
    BY <1>1, <1>3
  <2> QED
    BY <2>1, LeastNumber
<1>5. n # 0 /\ n - 1 \in Nat /\ (n - 1) + 1 = n /\ n <= OrderLength
  <2>1. Rank(path, 0, a) = 0
    BY <1>4, RankSteps
  <2>2. OrderLength \in reached
    BY <1>1, <1>3
  <2> QED
    BY <1>1, <1>4, <2>1, <2>2
<1>6. Rank(path, n - 1, a) \in Nat /\ Rank(path, n - 1, a) < RankCount
  <2>1. n - 1 \notin reached
    BY <1>4, <1>5
  <2>2. Rank(path, n - 1, a) \in Nat
    BY <1>5, RankSteps
  <2> QED
    BY <1>1, <1>5, <2>1, <2>2
<1>7. path[n] = a /\ Rank(path, n, a) = RankCount
  <2>1. Rank(path, (n - 1) + 1, a) = IF path[(n - 1) + 1] = a THEN Rank(path, n - 1, a) + 1 ELSE Rank(path, n - 1, a)
    BY <1>5, RankSteps
  <2>2. Rank(path, n, a) >= RankCount
    BY <1>4
  <2> QED
    BY <1>1, <1>5, <1>6, <2>1, <2>2
<1>8. n \in places /\ places \subseteq Nat
  <2>1. n \in DOMAIN path /\ DOMAIN path \subseteq Nat
    BY <1>1, <1>5
  <2> QED
    BY <1>7, <2>1 DEF Rank
<1>9. PICK i \in places : \A j \in places : i <= j
  BY <1>8, LeastNumber
<1>10. i \in DOMAIN path /\ First(i)
  <2>1. i \in DOMAIN path /\ Completes(i)
    BY <1>9
  <2>2. \A j \in 1 .. (i - 1) : ~Completes(j)
    <3> SUFFICES ASSUME NEW j \in 1 .. (i - 1), Completes(j) PROVE FALSE
      OBVIOUS
    <3>1. j \in DOMAIN path /\ ~(i <= j)
      BY <1>1, <2>1
    <3>2. j \in places
      BY <3>1
    <3> QED
      BY <1>9, <3>1, <3>2
  <2> QED
    BY <2>1, <2>2
<1> DEFINE chosen == CHOOSE k \in DOMAIN path : First(k)
<1>11. chosen \in DOMAIN path
  <2> HIDE DEF First
  <2> QED
    BY <1>10
<1>12. FirstFullyUpgraded(path) = path[chosen]
  BY DEF FirstFullyUpgraded
<1> HIDE DEF chosen
<1> QED
  BY <1>11, <1>12 DEF Range

\* The items of a build have their types.
LEMMA ItemTypes ==
    ASSUME NEW s \in Seq(BuildItem)
    PROVE  /\ Len(s) \in Nat /\ DOMAIN s = 1 .. Len(s) /\ IsFiniteSet(DOMAIN s)
           /\ s # <<>> <=> DOMAIN s # {}
           /\ \A i \in DOMAIN s : /\ s[i] \in BuildItem /\ s[i].item_id \in Positive /\ s[i].cost \in Nat
                                  /\ s[i].tier \in 1 .. 4 /\ s[i].name \in Positive
                                  /\ s[i].imbue_target = Absent
<1>1. Len(s) \in Nat /\ DOMAIN s = 1 .. Len(s)
  BY LenProperties
<1>2. IsFiniteSet(DOMAIN s)
  BY <1>1, FS_Interval
<1>3. \A i \in DOMAIN s : s[i] \in BuildItem
  BY <1>1, ElementOfSeq
<1>4. s # <<>> <=> DOMAIN s # {}
  <2>1. s = <<>> <=> Len(s) = 0
    BY EmptySeq
  <2>2. Len(s) # 0 <=> 1 \in 1 .. Len(s)
    BY <1>1
  <2>3. Len(s) = 0 => 1 .. Len(s) = {}
    OBVIOUS
  <2> QED
    BY <1>1, <2>1, <2>2, <2>3
<1> QED
  BY <1>1, <1>2, <1>3, <1>4 DEF BuildItem

\* select_build_tags finds an icon in CORE.
LEMMA IconIs ==
    ASSUME NEW b, b.core \in Seq(BuildItem), b.core # <<>>
    PROVE  \E i \in DOMAIN b.core : IconItem(b) = b.core[i]
<1> DEFINE places == DOMAIN b.core
           Prior(i) == Priority(TagTier(b, b.core[i]))
           first == [i \in places |-> Prior(i)]
           number == [i \in places |-> b.core[i].item_id]
           IsIcon(i) == \A j \in places : \/ Prior(i) < Prior(j)
                                          \/ Prior(i) = Prior(j) /\ b.core[i].item_id <= b.core[j].item_id
<1>1. IsFiniteSet(places) /\ places # {}
  BY ItemTypes
<1>2. ASSUME NEW i \in places PROVE Prior(i) \in Int /\ b.core[i].item_id \in Int
  <2>1. b.core[i].tier \in 1 .. 4 /\ b.core[i].item_id \in Positive
    BY ItemTypes
  <2>2. TagTier(b, b.core[i]) \in 1 .. 3
    BY <2>1 DEF TagTier
  <2>3. \A t \in 1 .. 3 : Priority(t) \in Int
    <3>1. Priority(1) = 3 /\ Priority(2) = 2 /\ Priority(3) = 0
      BY DEF Priority
    <3>2. \A t \in 1 .. 3 : t = 1 \/ t = 2 \/ t = 3
      OBVIOUS
    <3> QED
      BY <3>1, <3>2
  <2> QED
    BY <2>1, <2>2, <2>3 DEF Positive
<1> HIDE DEF Prior
<1>3. first \in [places -> Int] /\ number \in [places -> Int]
  BY <1>2
<1>x. \A i \in places : first[i] = Prior(i) /\ number[i] = b.core[i].item_id
  OBVIOUS
<1> HIDE DEF first, number
<1>4. PICK i \in places : \A j \in places : first[i] < first[j] \/ (first[i] = first[j] /\ number[i] <= number[j])
  BY <1>1, <1>3, LeastOf
<1>5. IsIcon(i)
  BY <1>x, <1>4
<1> DEFINE icon == CHOOSE k \in places : IsIcon(k)
<1>6. icon \in places
  <2> HIDE DEF IsIcon
  <2> QED
    BY <1>5
<1>7. IconItem(b) = b.core[icon]
  BY DEF IconItem, Prior
<1> HIDE DEF icon
<1> QED
  BY <1>6, <1>7

\* select_fallback_tags finds a dearest item among any.
LEMMA DearestIs ==
    ASSUME NEW b, b.core \in Seq(BuildItem), NEW places \in SUBSET DOMAIN b.core, places # {}
    PROVE  Dearest(b, places) \in places
<1> DEFINE price == [i \in places |-> 0 - b.core[i].cost]
           number == [i \in places |-> b.core[i].item_id]
           IsDearest(i) == \A j \in places :
              \/ b.core[j].cost < b.core[i].cost
              \/ b.core[j].cost = b.core[i].cost /\ b.core[i].item_id <= b.core[j].item_id
<1>1. IsFiniteSet(places)
  BY ItemTypes, FS_Subset
<1>2. \A i \in places : b.core[i].cost \in Nat /\ b.core[i].item_id \in Int
  BY ItemTypes DEF Positive
<1>3. price \in [places -> Int] /\ number \in [places -> Int]
  BY <1>2
<1>x. \A i \in places : price[i] = 0 - b.core[i].cost /\ number[i] = b.core[i].item_id
  OBVIOUS
<1> HIDE DEF price, number
<1>4. PICK i \in places : \A j \in places : price[i] < price[j] \/ (price[i] = price[j] /\ number[i] <= number[j])
  BY <1>1, <1>3, LeastOf
<1>5. IsDearest(i)
  BY <1>2, <1>x, <1>4
<1>6. Dearest(b, places) = CHOOSE k \in places : IsDearest(k)
  BY DEF Dearest
<1> HIDE DEF IsDearest
<1> QED
  BY <1>5, <1>6

\* key_item finds the key item of a build that has one.
LEMMA KeyItemFound ==
    ASSUME NEW b, DOMAIN b.core \subseteq Nat \ {0}, HasKey(b), \A i \in DOMAIN b.core : 1 .. i \subseteq DOMAIN b.core
    PROVE  \E i \in DOMAIN b.core : KeyItem(b) = b.core[i]
<1> DEFINE places == {i \in DOMAIN b.core : IsKey(b, b.core[i])}
           First(i) == IsKey(b, b.core[i]) /\ \A j \in 1 .. (i - 1) : ~IsKey(b, b.core[j])
<1>1. PICK i \in places : \A j \in places : i <= j
  <2>1. places # {} /\ places \subseteq Nat
    BY DEF HasKey
  <2> QED
    BY <2>1, LeastNumber
<1>2. i \in DOMAIN b.core /\ First(i)
  <2>1. ASSUME NEW j \in 1 .. (i - 1), IsKey(b, b.core[j]) PROVE FALSE
    <3>1. j \in 1 .. i /\ ~(i <= j)
      BY <1>1
    <3>2. j \in places
      BY <1>1, <2>1, <3>1
    <3> QED
      BY <1>1, <3>1, <3>2
  <2> QED
    BY <1>1, <2>1
<1> DEFINE chosen == CHOOSE k \in DOMAIN b.core : First(k)
<1>3. chosen \in DOMAIN b.core
  <2> HIDE DEF First
  <2> QED
    BY <1>2
<1>4. KeyItem(b) = b.core[chosen]
  BY DEF KeyItem
<1> HIDE DEF chosen
<1> QED
  BY <1>3, <1>4

\* A build with its order.
OrderedBuild ==
    [hero_id : Positive, hero_name : Positive, title : {0}, tag_ids : {<<0, 0, 0>>},
     key_ability_name : {Absent}, ability_focus : {Absent}, core : Seq(BuildItem),
     situational : Seq(BuildItem), key_item_id : Positive, ability_ids : Seq(Nat)]
IsOrdered(b) ==
    /\ b \in OrderedBuild
    /\ b.core # <<>> /\ HasKey(b) /\ ItemsAreDistinct(b)
    /\ \A i \in DOMAIN b.core : b.core[i].item_id \in Shop /\ b.core[i].name <= MaxName
    /\ b.ability_ids # <<>> =>
          IsCompleteOrder(b.ability_ids) /\ Range(b.ability_ids) \subseteq Abilities

\* What the rest leaves alone.
SameBase(c, b) ==
    /\ DOMAIN c = DOMAIN b
    /\ c.hero_id = b.hero_id /\ c.hero_name = b.hero_name
    /\ c.key_item_id = b.key_item_id /\ c.ability_ids = b.ability_ids

\* Icons of which the first may become an ability.
HasTags(c) ==
    /\ \E x, y, z \in Nat \ {0} :
          /\ c.tag_ids = <<x, y, z>> /\ x # y /\ x # z /\ y # z
          /\ {y, z} \subseteq Shop \cup Range(Tags)
    /\ c.key_ability_name \in Nat \cup {Absent}

IsConcat(u, s, t) ==
    /\ Len(s) \in Nat /\ Len(t) \in Nat
    /\ DOMAIN s = 1 .. Len(s) /\ DOMAIN t = 1 .. Len(t) /\ DOMAIN u = 1 .. Len(s) + Len(t)
    /\ \A i \in 1 .. Len(s) : u[i] = s[i]
    /\ \A i \in 1 .. Len(t) : u[Len(s) + i] = t[i]

\* The places of two sequences in a row
LEMMA ConcatIs ==
    ASSUME NEW X, NEW s \in Seq(X), NEW t \in Seq(X)
    PROVE  IsConcat(s \o t, s, t)
<1>1. Len(s) \in Nat /\ Len(t) \in Nat /\ DOMAIN s = 1 .. Len(s) /\ DOMAIN t = 1 .. Len(t)
  BY LenProperties
<1> DEFINE u == s \o t
<1>2. /\ u \in Seq(X) /\ Len(u) = Len(s) + Len(t)
      /\ \A i \in 1 .. Len(s) + Len(t) : u[i] = IF i <= Len(s) THEN s[i] ELSE t[i - Len(s)]
  BY ConcatProperties
<1> HIDE DEF u
<1>3. DOMAIN u = 1 .. Len(s) + Len(t)
  BY <1>2, LenProperties
<1>4. ASSUME NEW i \in 1 .. Len(s) PROVE u[i] = s[i]
  BY <1>1, <1>2
<1>5. ASSUME NEW i \in 1 .. Len(t) PROVE u[Len(s) + i] = t[i]
  <2>1. Len(s) + i \in 1 .. Len(s) + Len(t) /\ ~(Len(s) + i <= Len(s)) /\ (Len(s) + i) - Len(s) = i
    BY <1>1
  <2> QED
    BY <1>2, <2>1
<1> QED
  BY <1>1, <1>3, <1>4, <1>5 DEF u, IsConcat

\* What the lemmas about an ordered build use
LEMMA OrderedFacts ==
    ASSUME NEW b, IsOrdered(b)
    PROVE  /\ DOMAIN b = {"hero_id", "hero_name", "title", "tag_ids", "key_ability_name", "ability_focus",
                          "core", "situational", "key_item_id", "ability_ids"}
           /\ b.hero_id \in Positive /\ b.hero_name \in Positive /\ b.key_item_id \in Positive
           /\ b.core \in Seq(BuildItem) /\ b.situational \in Seq(BuildItem) /\ b.core # <<>>
           /\ b.ability_ids \in Seq(Nat) /\ b.key_ability_name = Absent
           /\ DOMAIN b.core # {}
           /\ \A i, j \in DOMAIN b.core : b.core[i].item_id = b.core[j].item_id => i = j
           /\ 0 \notin Range(b.ability_ids) /\ Range(b.ability_ids) \subseteq Abilities
           /\ FirstFullyUpgraded(b.ability_ids) \in Range(b.ability_ids) \cup {Absent}
<1>1. b \in OrderedBuild /\ b.core # <<>>
  BY DEF IsOrdered
<1>2. /\ b.hero_id \in Positive /\ b.hero_name \in Positive /\ b.key_item_id \in Positive
      /\ b.core \in Seq(BuildItem) /\ b.situational \in Seq(BuildItem)
      /\ b.ability_ids \in Seq(Nat) /\ b.key_ability_name = Absent
  BY <1>1 DEF OrderedBuild
<1>3. DOMAIN b = {"hero_id", "hero_name", "title", "tag_ids", "key_ability_name", "ability_focus",
                  "core", "situational", "key_item_id", "ability_ids"}
  BY <1>1 DEF OrderedBuild
<1>4. DOMAIN b.core # {}
  BY <1>1, <1>2, ItemTypes
<1>5. ASSUME NEW i \in DOMAIN b.core, NEW j \in DOMAIN b.core, b.core[i].item_id = b.core[j].item_id
      PROVE  i = j
  <2>1. IsConcat(Items(b), b.core, b.situational)
    BY <1>2, ConcatIs DEF Items
  <2>2. ASSUME NEW u, NEW s, NEW t, IsConcat(u, s, t), NEW k \in DOMAIN s
        PROVE  k \in DOMAIN u /\ u[k] = s[k]
    BY <2>2 DEF IsConcat
  <2>3. i \in DOMAIN Items(b) /\ j \in DOMAIN Items(b) /\ Items(b)[i] = b.core[i] /\ Items(b)[j] = b.core[j]
    BY <2>1, <2>2
  <2> QED
    BY <1>5, <2>3 DEF IsOrdered, ItemsAreDistinct
<1>6. 0 \notin Range(b.ability_ids) /\ Range(b.ability_ids) \subseteq Abilities
  <2>1. CASE b.ability_ids = <<>>
    BY <2>1 DEF Range
  <2>2. CASE b.ability_ids # <<>>
    BY <2>2 DEF IsOrdered, IsCompleteOrder
  <2> QED
    BY <2>1, <2>2
<1>7. FirstFullyUpgraded(b.ability_ids) \in Range(b.ability_ids) \cup {Absent}
  BY <1>2, UpgradedIs
<1> QED
  BY <1>1, <1>2, <1>3, <1>4, <1>5, <1>6, <1>7

\* Three icons that are different, whether select_build_tags or select_fallback_tags finds them.
LEMMA TagsAre ==
    ASSUME NEW b, IsOrdered(b), NEW assets \in AssetSets, NEW class \in Classes,
           Produces(b, assets, Tags, class)
    PROVE  LET t == AttachTags(b, assets, Tags, class)
           IN  SameBase(t, b) /\ t.core = b.core /\ t.situational = b.situational /\ HasTags(t)
<1> DEFINE t == AttachTags(b, assets, Tags, class)
           upgraded == FirstFullyUpgraded(b.ability_ids)
<1>1. /\ b.core \in Seq(BuildItem) /\ b.core # <<>> /\ b.key_item_id \in Positive
      /\ \A i, j \in DOMAIN b.core : b.core[i].item_id = b.core[j].item_id => i = j
      /\ upgraded \in Range(b.ability_ids) \cup {Absent} /\ 0 \notin Range(b.ability_ids)
      /\ b.ability_ids \in Seq(Nat) /\ b.key_ability_name = Absent
  BY OrderedFacts
<1>2. \A i \in DOMAIN b.core : b.core[i].item_id \in Positive /\ b.core[i].item_id \in Shop
  BY <1>1, ItemTypes DEF IsOrdered
<1>3. DOMAIN b = {"hero_id", "hero_name", "title", "tag_ids", "key_ability_name", "ability_focus",
                  "core", "situational", "key_item_id", "ability_ids"}
  BY OrderedFacts
<1>4. Range(b.ability_ids) \subseteq Nat
  BY <1>1, LenProperties, ElementOfSeq DEF Range
<1>5. CASE CanSelectTags(b, assets, Tags, class)
  <2> DEFINE ids == SelectedTags(b, Tags, class)
             name == assets[upgraded].name
  <2>1. t = [b EXCEPT !.tag_ids = ids, !.key_ability_name = name]
    BY <1>5 DEF AttachTags
  <2>2. upgraded # Absent /\ upgraded \in DOMAIN assets /\ class # Absent /\ IsInjective(ids)
    BY <1>5 DEF CanSelectTags
  <2>3. name \in Nat
    BY <2>2, InputsAssumption
  <2>4. PICK i \in DOMAIN b.core : IconItem(b) = b.core[i]
    BY <1>1, IconIs
  <2>5. Tags[class] \in Range(Tags) /\ Tags[class] \in Nat \ {0}
    <3>1. class \in FunctionClasses /\ Tags \in [FunctionClasses -> Nat \ {0}]
      BY <2>2, TagsAssumption DEF CoreFunctions, IsTagCatalog
    <3> QED
      BY <3>1 DEF Range
  <2>6. /\ ids = <<upgraded, b.core[i].item_id, Tags[class]>> /\ upgraded \in Nat \ {0}
        /\ b.core[i].item_id \in Nat \ {0} /\ b.core[i].item_id \in Shop
    BY <1>1, <1>2, <1>4, <2>2, <2>4 DEF SelectedTags, Positive
  <2>7. upgraded # b.core[i].item_id /\ upgraded # Tags[class] /\ b.core[i].item_id # Tags[class]
    <3>1. 1 \in DOMAIN ids /\ 2 \in DOMAIN ids /\ 3 \in DOMAIN ids
      BY <2>6
    <3>2. ids[1] # ids[2] /\ ids[1] # ids[3] /\ ids[2] # ids[3]
      BY <2>2, <3>1 DEF IsInjective
    <3> QED
      BY <2>6, <3>2
  <2> HIDE DEF t, ids, name, upgraded
  <2>8. t.tag_ids = ids /\ t.key_ability_name = name
    BY <1>3, <2>1
  <2>9. HasTags(t)
    BY <2>3, <2>5, <2>6, <2>7, <2>8 DEF HasTags
  <2>10. SameBase(t, b) /\ t.core = b.core /\ t.situational = b.situational
    BY <1>3, <2>1 DEF SameBase
  <2> QED
    BY <2>9, <2>10 DEF t
<1>6. CASE ~CanSelectTags(b, assets, Tags, class)
  <2> DEFINE ids == FallbackTags(b)
             others == Others(b)
             first == Dearest(b, others)
             second == Dearest(b, others \ {first})
  <2>1. t = [b EXCEPT !.tag_ids = ids]
    BY <1>6 DEF AttachTags
  <2>2. PICK i \in others, j \in others : i # j
    BY <1>6 DEF Produces, CanFallBack
  <2>3. others \subseteq DOMAIN b.core /\ \A k \in others : b.core[k].item_id # b.key_item_id
    BY DEF Others, IsKey
  <2>4. first \in others
    BY <1>1, <2>2, <2>3, DearestIs
  <2>5. others \ {first} # {}
    BY <2>2
  <2>6. second \in others /\ second # first
    <3> HIDE DEF others, first
    <3>0. others \ {first} \in SUBSET DOMAIN b.core
      BY <2>3
    <3>1. second \in others \ {first}
      BY <1>1, <2>5, <3>0, DearestIs
    <3> QED
      BY <3>1
  <2>7. ids = <<b.key_item_id, b.core[first].item_id, b.core[second].item_id>>
    BY DEF FallbackTags
  <2> HIDE DEF t, ids, first, second, others
  <2>8. t.tag_ids = ids /\ t.key_ability_name = Absent
    BY <1>1, <1>3, <2>1
  <2>9. HasTags(t)
    <3>1. /\ b.key_item_id \in Nat \ {0} /\ b.core[first].item_id \in Nat \ {0}
          /\ b.core[second].item_id \in Nat \ {0}
          /\ {b.core[first].item_id, b.core[second].item_id} \subseteq Shop
      BY <1>1, <1>2, <2>3, <2>4, <2>6 DEF Positive
    <3>2. /\ b.key_item_id # b.core[first].item_id /\ b.key_item_id # b.core[second].item_id
          /\ b.core[first].item_id # b.core[second].item_id
      BY <1>1, <2>3, <2>4, <2>6
    <3> QED
      BY <2>7, <2>8, <3>1, <3>2 DEF HasTags
  <2>10. SameBase(t, b) /\ t.core = b.core /\ t.situational = b.situational
    BY <1>3, <2>1 DEF SameBase
  <2> QED
    BY <2>9, <2>10 DEF t
<1> QED
  BY <1>5, <1>6

ImbuedItem ==
    [item_id : Positive, name : Positive, tier : 1..4, cost : Nat, phase : 1..3, use : Int,
     effect : Int, median_net_worth : Nat, imbue_target : {Absent} \cup Targets]
IsImbuedItem(x, item, b) ==
    /\ x \in ImbuedItem /\ x.item_id = item.item_id /\ x.tier = item.tier /\ x.name = item.name
    /\ x.imbue_target # Absent =>
          ValidTarget(x.imbue_target) /\ x.imbue_target.ability_id \in Range(b.ability_ids)
AreImbued(s, t, b) ==
    /\ s \in Seq(ImbuedItem) /\ DOMAIN s = DOMAIN t
    /\ \A i \in DOMAIN t : IsImbuedItem(s[i], t[i], b)
IsImbued(c, b) ==
    /\ SameBase(c, b) /\ HasTags(c)
    /\ AreImbued(c.core, b.core, b) /\ AreImbued(c.situational, b.situational, b)

\* An item gets no target but one that is valid, with an ability of the order.
LEMMA TargetIs ==
    ASSUME NEW b, NEW t, t.ability_ids = b.ability_ids, NEW item \in BuildItem,
           NEW targets \in TargetSets, NEW assets
    PROVE  IsImbuedItem(WithTarget(t, item, targets, assets), item, b)
<1> DEFINE x == WithTarget(t, item, targets, assets)
           found == <<t.hero_id, item.item_id>>
           IsTarget == /\ found \in DOMAIN targets
                       /\ ValidTarget(targets[found])
                       /\ targets[found].ability_id \in Range(t.ability_ids)
                       /\ IsCurrentTarget(t.hero_id, item.item_id, targets[found].ability_id, assets)
           target == IF IsTarget THEN targets[found] ELSE Absent
<1>1. x = [item EXCEPT !.imbue_target = target]
  BY DEF WithTarget
<1>2. target # Absent => IsTarget /\ target = targets[found]
  OBVIOUS
<1>3. target \in {Absent} \cup Targets
  <2>1. IsTarget => targets[found] \in Targets
    BY InputsAssumption DEF Range
  <2> QED
    BY <2>1
<1>4. target # Absent => ValidTarget(target) /\ target.ability_id \in Range(b.ability_ids)
  BY <1>2
<1> HIDE DEF target, x
<1>5. /\ x.item_id = item.item_id /\ x.tier = item.tier /\ x.name = item.name
      /\ x.imbue_target = target
  BY <1>1 DEF BuildItem
<1>6. x \in ImbuedItem
  BY <1>1, <1>3 DEF BuildItem, ImbuedItem
<1> QED
  BY <1>4, <1>5, <1>6 DEF IsImbuedItem, x

\* attach_item_imbues changes the targets of items and nothing else.
LEMMA ImbuesAre ==
    ASSUME NEW b, IsOrdered(b), NEW t, SameBase(t, b), t.core = b.core, t.situational = b.situational,
           HasTags(t), NEW targets \in TargetSets, NEW assets
    PROVE  IsImbued(AttachImbues(t, targets, assets), b)
<1> DEFINE c == AttachImbues(t, targets, assets)
           Imbued(s) == [i \in DOMAIN s |-> WithTarget(t, s[i], targets, assets)]
<1>1. c = [t EXCEPT !.core = Imbued(t.core), !.situational = Imbued(t.situational)]
  BY DEF AttachImbues
<1>2. ASSUME NEW s \in Seq(BuildItem) PROVE AreImbued(Imbued(s), s, b)
  <2>1. \A i \in DOMAIN s : s[i] \in BuildItem
    BY ItemTypes
  <2>2. t.ability_ids = b.ability_ids
    BY DEF SameBase
  <2>3. \A i \in DOMAIN s : IsImbuedItem(Imbued(s)[i], s[i], b)
    BY <2>1, <2>2, TargetIs
  <2>4. Len(s) \in Nat /\ DOMAIN s = 1 .. Len(s)
    BY LenProperties
  <2>5. Imbued(s) \in [1 .. Len(s) -> ImbuedItem]
    BY <2>3, <2>4 DEF IsImbuedItem
  <2>6. Imbued(s) \in Seq(ImbuedItem)
    BY <2>4, <2>5, SeqDef
  <2> QED
    BY <2>3, <2>6 DEF AreImbued
<1>3. b.core \in Seq(BuildItem) /\ b.situational \in Seq(BuildItem)
  BY OrderedFacts
<1>4. DOMAIN t = {"hero_id", "hero_name", "title", "tag_ids", "key_ability_name", "ability_focus",
                  "core", "situational", "key_item_id", "ability_ids"}
  BY OrderedFacts DEF SameBase
<1>5. AreImbued(Imbued(t.core), b.core, b) /\ AreImbued(Imbued(t.situational), b.situational, b)
  BY <1>2, <1>3
<1> HIDE DEF Imbued, c
<1>6. c.core = Imbued(t.core) /\ c.situational = Imbued(t.situational)
  BY <1>1, <1>4
<1>7. /\ DOMAIN c = DOMAIN t /\ c.hero_id = t.hero_id /\ c.hero_name = t.hero_name
      /\ c.key_item_id = t.key_item_id /\ c.ability_ids = t.ability_ids
      /\ c.tag_ids = t.tag_ids /\ c.key_ability_name = t.key_ability_name
  BY <1>1, <1>4
<1>8. SameBase(c, b) /\ HasTags(c)
  BY <1>7 DEF SameBase, HasTags
<1> QED
  BY <1>5, <1>6, <1>8 DEF IsImbued, c

\* What the lemmas about an imbued build use
LEMMA ImbuedFacts ==
    ASSUME NEW b, IsOrdered(b), NEW c, IsImbued(c, b)
    PROVE  /\ DOMAIN c = {"hero_id", "hero_name", "title", "tag_ids", "key_ability_name", "ability_focus",
                          "core", "situational", "key_item_id", "ability_ids"}
           /\ c.core \in Seq(ImbuedItem) /\ c.situational \in Seq(ImbuedItem) /\ DOMAIN c.core = DOMAIN b.core
           /\ \A i \in DOMAIN c.core : /\ c.core[i].item_id = b.core[i].item_id
                                       /\ c.core[i].name \in 1 .. MaxName
           /\ \A i, j \in DOMAIN c.core : c.core[i].item_id = c.core[j].item_id => i = j
           /\ HasKey(c) /\ \E i \in DOMAIN c.core : KeyItem(c) = c.core[i]
<1>1. /\ SameBase(c, b) /\ AreImbued(c.core, b.core, b) /\ AreImbued(c.situational, b.situational, b)
  BY DEF IsImbued
<1>2. DOMAIN c = {"hero_id", "hero_name", "title", "tag_ids", "key_ability_name", "ability_focus",
                  "core", "situational", "key_item_id", "ability_ids"}
  BY <1>1, OrderedFacts DEF SameBase
<1>3. /\ c.core \in Seq(ImbuedItem) /\ c.situational \in Seq(ImbuedItem) /\ DOMAIN c.core = DOMAIN b.core
      /\ \A i \in DOMAIN b.core : IsImbuedItem(c.core[i], b.core[i], b)
  BY <1>1 DEF AreImbued
<1>4. \A i \in DOMAIN b.core : c.core[i].item_id = b.core[i].item_id /\ c.core[i].name = b.core[i].name
  BY <1>3 DEF IsImbuedItem
<1>5. \A i, j \in DOMAIN c.core : c.core[i].item_id = c.core[j].item_id => i = j
  <2>1. \A i, j \in DOMAIN b.core : b.core[i].item_id = b.core[j].item_id => i = j
    BY OrderedFacts
  <2> QED
    BY <1>3, <1>4, <2>1
<1>6. \A i \in DOMAIN c.core : c.core[i].name \in 1 .. MaxName
  <2>1. b.core \in Seq(BuildItem)
    BY OrderedFacts
  <2>2. \A i \in DOMAIN b.core : b.core[i].name \in Positive /\ b.core[i].name <= MaxName
    BY <2>1, ItemTypes DEF IsOrdered
  <2> SUFFICES ASSUME NEW i \in DOMAIN c.core PROVE c.core[i].name \in 1 .. MaxName
    OBVIOUS
  <2>3. i \in DOMAIN b.core
    BY <1>3
  <2> DEFINE name == b.core[i].name
  <2>4. c.core[i].name = name /\ name \in Positive /\ name <= MaxName
    BY <1>4, <2>2, <2>3
  <2> HIDE DEF name
  <2> QED
    BY <2>4 DEF Positive, MaxName
<1>7. HasKey(c)
  <2>1. PICK i \in DOMAIN b.core : b.core[i].item_id = b.key_item_id
    BY DEF IsOrdered, HasKey, IsKey
  <2>2. c.key_item_id = b.key_item_id
    BY <1>1 DEF SameBase
  <2> QED
    BY <1>3, <1>4, <2>1, <2>2 DEF HasKey, IsKey
<1>8. \E i \in DOMAIN c.core : KeyItem(c) = c.core[i]
  <2>1. Len(c.core) \in Nat /\ DOMAIN c.core = 1 .. Len(c.core)
    BY <1>3, LenProperties
  <2>2. DOMAIN c.core \subseteq Nat \ {0} /\ \A i \in DOMAIN c.core : 1 .. i \subseteq DOMAIN c.core
    BY <2>1
  <2> QED
    BY <1>7, <2>2, KeyItemFound
<1> QED
  BY <1>2, <1>3, <1>4, <1>5, <1>6, <1>7, <1>8

\* The focus that select_ability_focus finds passes AbilityFocus::validate.
LEMMA FocusIs ==
    ASSUME NEW b, IsOrdered(b), NEW c, IsImbued(c, b), NEW assets \in AssetSets,
           SelectFocus(c, assets) # Absent,
           NEW r, r.core = c.core, r.ability_ids = c.ability_ids, r.key_item_id = c.key_item_id
    PROVE  LET focus == SelectFocus(c, assets)
           IN  /\ focus.ability_id \in Range(b.ability_ids) /\ focus.name \in Nat
               /\ ValidFocus(r, focus)
<1> DEFINE places == Supporters(c, assets)
           ability == FocusTarget(c.core[CHOOSE i \in places : \A j \in places : i <= j], assets)
           ids == [i \in places |-> c.core[i].item_id]
           focus == SelectFocus(c, assets)
<1>1. /\ CanFocus(c, ability, assets)
      /\ focus = [ability_id |-> ability, name |-> assets[ability].name, supporting_item_ids |-> ids]
  BY DEF SelectFocus
<1> HIDE DEF ability
<1>2. /\ places # {} /\ \A i \in places : FocusTarget(c.core[i], assets) = ability
      /\ \/ \E i \in places : IsKey(c, c.core[i])
         \/ \E i \in places, j \in places : i # j
         \/ FirstFullyUpgraded(c.ability_ids) = ability
      /\ ability \in DOMAIN assets /\ ability \in Range(c.ability_ids) /\ assets[ability].name # 0
  BY <1>1 DEF CanFocus
<1>3. places \subseteq DOMAIN c.core /\ \A i \in places : FocusTarget(c.core[i], assets) # Absent
  BY DEF Supporters
<1>4. c.ability_ids = b.ability_ids
  BY DEF IsImbued, SameBase
<1>5. ability \in Range(b.ability_ids) /\ ability # 0 /\ assets[ability].name \in Nat
  <2>1. 0 \notin Range(b.ability_ids)
    BY OrderedFacts
  <2> QED
    BY <1>2, <1>4, <2>1, InputsAssumption
<1>6. \A i, j \in DOMAIN c.core : c.core[i].item_id = c.core[j].item_id => i = j
  BY ImbuedFacts
<1>7. \A i \in places : c.core[i].imbue_target # Absent /\ c.core[i].imbue_target.ability_id = ability
  <2> SUFFICES ASSUME NEW i \in places
               PROVE  c.core[i].imbue_target # Absent /\ c.core[i].imbue_target.ability_id = ability
    OBVIOUS
  <2>1. FocusTarget(c.core[i], assets) = ability /\ FocusTarget(c.core[i], assets) # Absent
    BY <1>2, <1>3
  <2> QED
    BY <2>1 DEF FocusTarget
<1> HIDE DEF places
<1>8. DOMAIN ids = places /\ (\A i \in places : ids[i] = c.core[i].item_id) /\ Range(ids) = {c.core[i].item_id : i \in places}
  BY DEF Range
<1>9. ids # <<>> /\ IsInjective(ids)
  <2>1. DOMAIN <<>> = {}
    OBVIOUS
  <2>2. ids # <<>>
    BY <1>2, <1>8, <2>1
  <2>3. IsInjective(ids)
    BY <1>3, <1>6, <1>8 DEF IsInjective
  <2> QED
    BY <2>2, <2>3
<1>10. \A id \in Range(ids) : \E i \in DOMAIN c.core :
          /\ c.core[i].item_id = id
          /\ c.core[i].imbue_target # Absent
          /\ c.core[i].imbue_target.ability_id = ability
  BY <1>3, <1>7, <1>8
<1>11. \/ c.key_item_id \in Range(ids)
       \/ \E id \in Range(ids), other \in Range(ids) : id # other
       \/ FirstFullyUpgraded(c.ability_ids) = ability
  <2>1. ASSUME NEW i \in places, IsKey(c, c.core[i]) PROVE c.key_item_id \in Range(ids)
    BY <1>8, <2>1 DEF IsKey
  <2>2. ASSUME NEW i \in places, NEW j \in places, i # j
        PROVE  \E id \in Range(ids), other \in Range(ids) : id # other
    <3>1. c.core[i].item_id # c.core[j].item_id
      BY <1>3, <1>6, <2>2
    <3> QED
      BY <1>8, <3>1
  <2> QED
    BY <1>2, <2>1, <2>2
<1> HIDE DEF ids, focus
<1>12. focus.ability_id = ability /\ focus.name = assets[ability].name /\ focus.supporting_item_ids = ids
  BY <1>1
<1>13. ValidFocus(r, focus)
  BY <1>2, <1>4, <1>5, <1>9, <1>10, <1>11, <1>12 DEF ValidFocus
<1> QED
  BY <1>5, <1>12, <1>13 DEF focus

\* format_build_title stays within the limit if the name of the item does.
LEMMA TitleIs ==
    ASSUME NEW ability \in Nat \cup {Absent}, NEW item \in 1 .. MaxName
    PROVE  Title(ability, item) \in 1 .. MaxName
<1>1. CASE ability # Absent /\ ability + 3 + item <= MaxName
  <2>1. ability \in Nat
    BY <1>1
  <2>2. ability + 3 + item \in 1 .. MaxName
    BY <1>1, <2>1 DEF MaxName
  <2> QED
    BY <1>1, <2>2 DEF Title
<1>2. CASE ~(ability # Absent /\ ability + 3 + item <= MaxName)
  BY <1>2 DEF Title
<1> QED
  BY <1>1, <1>2

IsAssigned(r, c, b) ==
    /\ SameBase(r, b) /\ r.core = c.core /\ r.situational = c.situational
    /\ r.ability_focus # Absent => ValidFocus(r, r.ability_focus)
    /\ r.title \in 1 .. MaxName
    /\ \A i \in 1 .. 3 : r.tag_ids[i] # 0
    /\ \A i \in 1 .. 3, j \in 1 .. 3 : r.tag_ids[i] = r.tag_ids[j] => i = j

\* An ability as first icon is no item and no tag.
LEMMA AssignedIs ==
    ASSUME NEW b, IsOrdered(b), NEW c, IsImbued(c, b), NEW assets \in AssetSets
    PROVE  IsAssigned(AssignFocus(c, assets), c, b)
<1> DEFINE upgraded == FirstFullyUpgraded(c.ability_ids)
           focus == SelectFocus(c, assets)
           ability == IF focus # Absent THEN focus.name
                      ELSE IF upgraded # Absent THEN c.key_ability_name ELSE Absent
           title == Title(ability, KeyItem(c).name)
           first == IF focus # Absent THEN focus.ability_id
                    ELSE IF upgraded # Absent THEN upgraded ELSE c.tag_ids[1]
           r == AssignFocus(c, assets)
<1>1. r = [c EXCEPT !.ability_focus = focus, !.title = title, !.tag_ids[1] = first]
  BY DEF AssignFocus
<1>2. DOMAIN c = {"hero_id", "hero_name", "title", "tag_ids", "key_ability_name", "ability_focus",
                  "core", "situational", "key_item_id", "ability_ids"}
  BY ImbuedFacts
<1>3. /\ SameBase(c, b) /\ HasTags(c) /\ c.ability_ids = b.ability_ids
  BY DEF IsImbued, SameBase
<1>4. PICK x, y, z \in Nat \ {0} :
         /\ c.tag_ids = <<x, y, z>> /\ x # y /\ x # z /\ y # z
         /\ {y, z} \subseteq Shop \cup Range(Tags)
  BY <1>3 DEF HasTags
<1>5. upgraded \in Range(b.ability_ids) \cup {Absent} /\ 0 \notin Range(b.ability_ids)
      /\ Range(b.ability_ids) \subseteq Abilities
  BY <1>3, OrderedFacts
<1>6. focus # Absent => focus.ability_id \in Range(b.ability_ids) /\ focus.name \in Nat
  BY FocusIs
<1>7. title \in 1 .. MaxName
  <2>1. ability \in Nat \cup {Absent}
    BY <1>3, <1>6 DEF HasTags
  <2>2. KeyItem(c).name \in 1 .. MaxName
    BY ImbuedFacts
  <2> QED
    BY <2>1, <2>2, TitleIs
<1>8. first # 0 /\ first # y /\ first # z
  <2>1. CASE first \in Range(b.ability_ids)
    <3>1. first \in Abilities
      BY <1>5, <2>1
    <3> QED
      BY <1>4, <1>5, <2>1, <3>1, IdentitiesAssumption
  <2>2. CASE first = c.tag_ids[1]
    BY <1>4, <2>2
  <2> QED
    BY <1>5, <1>6, <2>1, <2>2
<1> HIDE DEF focus, title, first, r
<1>9. /\ DOMAIN r = DOMAIN c /\ r.hero_id = c.hero_id /\ r.hero_name = c.hero_name
      /\ r.key_item_id = c.key_item_id /\ r.ability_ids = c.ability_ids
      /\ r.core = c.core /\ r.situational = c.situational
      /\ r.ability_focus = focus /\ r.title = title
      /\ r.tag_ids = [c.tag_ids EXCEPT ![1] = first]
  BY <1>1, <1>2
<1>10. r.tag_ids = <<first, y, z>>
  BY <1>4, <1>9
<1>11. /\ \A i \in 1 .. 3 : r.tag_ids[i] # 0
       /\ \A i \in 1 .. 3, j \in 1 .. 3 : r.tag_ids[i] = r.tag_ids[j] => i = j
  <2>1. r.tag_ids[1] = first /\ r.tag_ids[2] = y /\ r.tag_ids[3] = z
    BY <1>10
  <2>2. \A i \in 1 .. 3 : i = 1 \/ i = 2 \/ i = 3
    OBVIOUS
  <2> QED
    BY <1>4, <1>8, <2>1, <2>2
<1>12. SameBase(r, b)
  BY <1>3, <1>9 DEF SameBase
<1>13. focus # Absent => ValidFocus(r, focus)
  BY <1>9, FocusIs DEF focus
<1> QED
  BY <1>7, <1>9, <1>11, <1>12, <1>13 DEF IsAssigned, r

\* Item by item, the build that is produced is the one that was assembled.
LEMMA ItemsAreImbued ==
    ASSUME NEW b, IsOrdered(b), NEW c, IsImbued(c, b), NEW r, r.core = c.core, r.situational = c.situational
    PROVE  /\ DOMAIN Items(r) = DOMAIN Items(b)
           /\ \A i \in DOMAIN Items(b) :
                 IsImbuedItem(Items(r)[i], Items(b)[i], b) /\ Items(b)[i] \in BuildItem
<1> DEFINE m == Len(b.core)
           n == Len(b.situational)
<1>1. b.core \in Seq(BuildItem) /\ b.situational \in Seq(BuildItem)
  BY OrderedFacts
<1>2. /\ AreImbued(c.core, b.core, b) /\ AreImbued(c.situational, b.situational, b)
  BY DEF IsImbued
<1>3. IsConcat(Items(b), b.core, b.situational)
  BY <1>1, ConcatIs DEF Items
<1>4. IsConcat(Items(r), c.core, c.situational)
  <2>1. c.core \in Seq(ImbuedItem) /\ c.situational \in Seq(ImbuedItem)
    BY <1>2 DEF AreImbued
  <2> QED
    BY <2>1, ConcatIs DEF Items
<1>5. Len(c.core) = m /\ Len(c.situational) = n /\ m \in Nat /\ n \in Nat
  <2>1. \A k, l \in Nat : 1 .. k = 1 .. l => k = l
    OBVIOUS
  <2>2. DOMAIN c.core = DOMAIN b.core /\ DOMAIN c.situational = DOMAIN b.situational
    BY <1>2 DEF AreImbued
  <2> QED
    BY <1>3, <1>4, <2>1, <2>2 DEF IsConcat
<1> HIDE DEF m, n
<1>6. /\ DOMAIN Items(b) = 1 .. m + n /\ DOMAIN Items(r) = 1 .. m + n
      /\ DOMAIN b.core = 1 .. m /\ DOMAIN b.situational = 1 .. n
  BY <1>3, <1>4, <1>5 DEF IsConcat, m, n
<1>7. ASSUME NEW i \in 1 .. m + n
      PROVE  IsImbuedItem(Items(r)[i], Items(b)[i], b) /\ Items(b)[i] \in BuildItem
  <2>1. CASE i \in 1 .. m
    <3>1. Items(b)[i] = b.core[i] /\ Items(r)[i] = c.core[i]
      BY <1>3, <1>4, <1>5, <2>1 DEF IsConcat, m, n
    <3>2. IsImbuedItem(c.core[i], b.core[i], b) /\ b.core[i] \in BuildItem
      BY <1>1, <1>2, <1>6, <2>1, ItemTypes DEF AreImbued
    <3> QED
      BY <3>1, <3>2
  <2>2. CASE i \notin 1 .. m
    <3>1. PICK k \in 1 .. n : i = m + k
      <4>1. i - m \in 1 .. n /\ i = m + (i - m)
        BY <1>5, <2>2
      <4> QED
        BY <4>1
    <3>2. Items(b)[i] = b.situational[k] /\ Items(r)[i] = c.situational[k]
      BY <1>3, <1>4, <1>5, <3>1 DEF IsConcat, m, n
    <3>3. IsImbuedItem(c.situational[k], b.situational[k], b) /\ b.situational[k] \in BuildItem
      BY <1>1, <1>2, <1>6, ItemTypes DEF AreImbued
    <3> QED
      BY <3>2, <3>3
  <2> QED
    BY <2>1, <2>2
<1> QED
  BY <1>6, <1>7

\* What produce_hero_builds returns passes both contracts.
LEMMA ProducedIsValid ==
    ASSUME NEW b, IsOrdered(b), NEW targets \in TargetSets, NEW assets \in AssetSets, NEW class \in Classes,
           Produces(b, assets, Tags, class)
    PROVE  LET r == Produced(b, targets, assets, Tags, class)
           IN  ValidHero(r) /\ \A persona \in 1 .. MaxName + 10 : Presentable(r, persona)
<1> DEFINE t == AttachTags(b, assets, Tags, class)
           c == AttachImbues(t, targets, assets)
           r == AssignFocus(c, assets)
<1>1. r = Produced(b, targets, assets, Tags, class)
  BY DEF Produced
<1>2. SameBase(t, b) /\ t.core = b.core /\ t.situational = b.situational /\ HasTags(t)
  BY TagsAre
<1> HIDE DEF t
<1>3. IsImbued(c, b)
  BY <1>2, ImbuesAre
<1> HIDE DEF c
<1>4. IsAssigned(r, c, b)
  BY <1>3, AssignedIs
<1> HIDE DEF r
<1>5. /\ SameBase(r, b) /\ r.core = c.core /\ r.situational = c.situational
      /\ r.ability_focus # Absent => ValidFocus(r, r.ability_focus)
      /\ r.title \in 1 .. MaxName
      /\ \A i \in 1 .. 3 : r.tag_ids[i] # 0
      /\ \A i \in 1 .. 3, j \in 1 .. 3 : r.tag_ids[i] = r.tag_ids[j] => i = j
  BY <1>4 DEF IsAssigned
<1>6. /\ r.hero_id = b.hero_id /\ r.hero_name = b.hero_name /\ r.key_item_id = b.key_item_id
      /\ r.ability_ids = b.ability_ids /\ b.hero_id # 0 /\ b.hero_name # 0
  BY <1>5, OrderedFacts DEF SameBase, Positive
<1>7. HasKey(r) /\ r.core # <<>>
  <2>1. HasKey(c) /\ c.key_item_id = b.key_item_id
    BY <1>3, ImbuedFacts DEF IsImbued, SameBase
  <2>2. HasKey(r)
    BY <1>5, <1>6, <2>1 DEF HasKey, IsKey
  <2>3. DOMAIN <<>> = {}
    OBVIOUS
  <2>4. r.core # <<>>
    BY <2>2, <2>3 DEF HasKey
  <2> QED
    BY <2>2, <2>4
<1>8. /\ DOMAIN Items(r) = DOMAIN Items(b)
      /\ \A i \in DOMAIN Items(b) : IsImbuedItem(Items(r)[i], Items(b)[i], b) /\ Items(b)[i] \in BuildItem
  BY <1>3, <1>5, ItemsAreImbued
<1>9. ASSUME NEW i \in DOMAIN Items(r)
      PROVE  /\ Items(r)[i].imbue_target # Absent =>
                   /\ ValidTarget(Items(r)[i].imbue_target)
                   /\ Items(r)[i].imbue_target.ability_id \in Range(r.ability_ids)
             /\ \A j \in DOMAIN Items(r) : Items(r)[j].item_id = Items(r)[i].item_id => i = j
             /\ Items(r)[i].tier \in 1 .. 4
  <2>1. /\ Items(r)[i].item_id = Items(b)[i].item_id /\ Items(r)[i].tier = Items(b)[i].tier
        /\ Items(r)[i].imbue_target # Absent =>
              /\ ValidTarget(Items(r)[i].imbue_target)
              /\ Items(r)[i].imbue_target.ability_id \in Range(r.ability_ids)
    BY <1>6, <1>8 DEF IsImbuedItem
  <2>2. ASSUME NEW j \in DOMAIN Items(r), Items(r)[j].item_id = Items(r)[i].item_id PROVE i = j
    <3>1. Items(r)[j].item_id = Items(b)[j].item_id
      BY <1>8 DEF IsImbuedItem
    <3>2. i \in DOMAIN Items(b) /\ j \in DOMAIN Items(b) /\ Items(b)[i].item_id = Items(b)[j].item_id
      BY <1>8, <2>1, <2>2, <3>1
    <3> QED
      BY <3>2 DEF IsOrdered, ItemsAreDistinct
  <2>3. Items(b)[i].tier \in 1 .. 4
    BY <1>8 DEF BuildItem
  <2> QED
    BY <2>1, <2>2, <2>3
<1>10. ValidHero(r)
  BY <1>5, <1>6, <1>7, <1>9 DEF ValidHero
<1>11. ASSUME NEW persona \in 1 .. MaxName + 10 PROVE Presentable(r, persona)
  <2>1. persona > 0
    BY DEF MaxName
  <2>2. BuildName(persona, r.title) \in 1 .. MaxName
    <3> DEFINE title == r.title
    <3>1. title \in 1 .. MaxName
      BY <1>5
    <3> HIDE DEF title
    <3>2. BuildName(persona, title) \in 1 .. MaxName
      BY <3>1 DEF BuildName, MaxName
    <3> QED
      BY <3>2 DEF title
  <2>3. ASSUME NEW item \in Shown(r)
        PROVE  item.item_id # 0 /\ (item.imbue_target # Absent => item.imbue_target.ability_id # 0)
    <3>1. item \in Range(r.core) \cup Range(r.situational)
      BY DEF Shown
    <3>2. \E old : IsImbuedItem(item, old, b)
      <4>1. CASE item \in Range(r.core)
        BY <1>3, <1>5, <4>1 DEF IsImbued, AreImbued, Range
      <4>2. CASE item \in Range(r.situational)
        BY <1>3, <1>5, <4>2 DEF IsImbued, AreImbued, Range
      <4> QED
        BY <3>1, <4>1, <4>2
    <3>3. item \in ImbuedItem /\ (item.imbue_target # Absent => ValidTarget(item.imbue_target))
      BY <3>2 DEF IsImbuedItem
    <3>4. item.item_id # 0
      BY <3>3 DEF ImbuedItem, Positive
    <3> QED
      BY <3>3, <3>4 DEF ValidTarget
  <2>4. r.ability_ids # <<>> => IsCompleteOrder(r.ability_ids)
    BY <1>6 DEF IsOrdered
  <2> QED
    BY <1>5, <1>6, <1>7, <2>1, <2>2, <2>3, <2>4 DEF Presentable
<1> QED
  BY <1>1, <1>10, <1>11

-----------------------------------------------------------------------------
(* The assembly *)

\* The items that are worth their price
IsPassedOver(estimates) ==
    \A item \in Shop : Score(estimates, item) <= 0 \/ Catalog[item].cost > estimates.spend

\* What is owned after a phase, and what was owned before it
IsPhase(p, owned, before) ==
    /\ owned \subseteq Ids(added) /\ Cardinality(owned) <= MaxOwned
    /\ owned \subseteq before \/ CostOf(owned) <= table[p].spend

AssemblyInv ==
    /\ table \in Seq(EstimateSets \cup {Absent}) /\ Len(table) <= 3
    /\ sets \in Seq(SUBSET Shop) /\ Len(sets) = Len(table)
    /\ added \in Seq(Purchased) /\ Distinct(added)
    /\ \A p \in 1 .. Len(table) : IsPhase(p, sets[p], IF p = 1 THEN {} ELSE sets[p - 1])
    /\ \A entry \in Range(added) :
          /\ entry.phase \in 1 .. Len(table) /\ HasPart(sets[entry.phase], entry.item)
          /\ table[entry.phase] # Absent /\ table[entry.phase] \in EstimateSets
    /\ added = <<>> => \A p \in 1 .. Len(table) : table[p] # Absent => IsPassedOver(table[p])

\* One phase of assemble_build
LEMMA AdvanceStep == ASSUME AssemblyInv, Advance PROVE AssemblyInv'
<1> DEFINE m == Len(table)
<1>1. /\ table \in Seq(EstimateSets \cup {Absent}) /\ m \in Nat /\ m < 3 /\ DOMAIN table = 1 .. m
      /\ sets \in Seq(SUBSET Shop) /\ Len(sets) = m /\ DOMAIN sets = 1 .. m
      /\ added \in Seq(Purchased) /\ Distinct(added)
  BY LenProperties DEF AssemblyInv, Advance
<1>2. /\ \A p \in 1 .. m : IsPhase(p, sets[p], IF p = 1 THEN {} ELSE sets[p - 1])
      /\ \A entry \in Range(added) :
            /\ entry.phase \in 1 .. m /\ HasPart(sets[entry.phase], entry.item)
            /\ table[entry.phase] # Absent /\ table[entry.phase] \in EstimateSets
      /\ added = <<>> => \A p \in 1 .. m : table[p] # Absent => IsPassedOver(table[p])
  BY DEF AssemblyInv
<1> DEFINE before == [owned |-> Owned, added |-> added]
           After1(estimates) == IF estimates = Absent THEN before ELSE AdvancePhase(before, estimates, m + 1)
<1>3. PICK estimates \in EstimateSets \cup {Absent} :
         /\ table' = Append(table, estimates)
         /\ sets' = Append(sets, After1(estimates).owned)
         /\ added' = After1(estimates).added
  BY DEF Advance
<1> DEFINE next == After1(estimates)
<1>4. Owned = IF m = 0 THEN {} ELSE sets[m]
  <2>1. sets = <<>> <=> m = 0
    BY <1>1, EmptySeq
  <2> QED
    BY <1>1, <2>1 DEF Owned
<1>5. Owned \in SUBSET Shop /\ Owned \subseteq Ids(added) /\ Cardinality(Owned) <= MaxOwned
  <2>1. CASE m = 0
    BY <1>4, <2>1, FS_EmptySet, CatalogAssumption
  <2>2. CASE m # 0
    <3>1. m \in 1 .. m /\ sets[m] \in SUBSET Shop
      BY <1>1, <2>2, ElementOfSeq
    <3>2. IsPhase(m, sets[m], IF m = 1 THEN {} ELSE sets[m - 1])
      BY <1>2, <3>1
    <3> QED
      BY <1>4, <2>2, <3>1, <3>2 DEF IsPhase
  <2> QED
    BY <2>1, <2>2
<1>6. before \in States /\ m + 1 \in Phases /\ before.owned = Owned /\ before.added = added
  BY <1>1, <1>5 DEF States, Phases
\* What the phase leaves.
<1>7. /\ next.owned \in SUBSET Shop /\ next.added \in Seq(Purchased) /\ Distinct(next.added)
      /\ Range(added) \subseteq Range(next.added)
      /\ next.owned \subseteq Ids(next.added) /\ Cardinality(next.owned) <= MaxOwned
      /\ next.owned \subseteq Owned \/ CostOf(next.owned) <= estimates.spend
      /\ \A entry \in Range(next.added) \ Range(added) :
            /\ entry.phase = m + 1 /\ HasPart(next.owned, entry.item)
            /\ estimates # Absent /\ estimates \in EstimateSets
      /\ next.added = <<>> => added = <<>> /\ (estimates # Absent => IsPassedOver(estimates))
  <2>1. CASE estimates = Absent
    <3>1. next = before
      BY <2>1
    <3> HIDE DEF next, before
    <3> QED
      BY <1>1, <1>5, <1>6, <2>1, <3>1
  <2>2. CASE estimates # Absent
    <3>1. next = AdvancePhase(before, estimates, m + 1) /\ estimates \in EstimateSets
      BY <2>2
    <3> HIDE DEF next, before
    <3>2. /\ PhaseInv(next, before.owned, before.added, estimates, m + 1)
          /\ next.added = <<>> => IsPassedOver(estimates)
      BY <1>1, <1>5, <1>6, <3>1, AdvanceKeepsInv DEF IsPassedOver
    <3>3. PhaseInv(next, Owned, added, estimates, m + 1)
      BY <1>6, <3>2
    <3>4. next.added = <<>> => added = <<>>
      <4>1. next.added = <<>> => Range(next.added) = {}
        BY DEF Range
      <4>2. Range(added) = {} => added = <<>>
        <5>1. Range(added) = {} => DOMAIN added = {}
          BY DEF Range
        <5>2. Len(added) \in Nat /\ DOMAIN added = 1 .. Len(added) /\ (added = <<>> <=> Len(added) = 0)
          BY <1>1, LenProperties, EmptySeq
        <5>3. Len(added) # 0 => 1 \in 1 .. Len(added)
          BY <5>2
        <5> QED
          BY <5>1, <5>2, <5>3
      <4>3. Range(added) \subseteq Range(next.added)
        BY <3>3 DEF PhaseInv
      <4> QED
        BY <4>1, <4>2, <4>3
    <3> QED
      BY <2>2, <3>1, <3>2, <3>3, <3>4 DEF PhaseInv, States
  <2> QED
    BY <2>1, <2>2
<1> HIDE DEF next, before
<1>8. table' = Append(table, estimates) /\ sets' = Append(sets, next.owned) /\ added' = next.added
  BY <1>3 DEF next
<1>9. /\ table' \in Seq(EstimateSets \cup {Absent}) /\ Len(table') = m + 1 /\ table'[m + 1] = estimates
      /\ \A p \in 1 .. m : table'[p] = table[p]
  BY <1>1, <1>8, AppendProperties
<1>10. /\ sets' \in Seq(SUBSET Shop) /\ Len(sets') = m + 1 /\ sets'[m + 1] = next.owned
       /\ \A p \in 1 .. m : sets'[p] = sets[p]
  BY <1>1, <1>7, <1>8, AppendProperties
<1>11. Ids(added) \subseteq Ids(added')
  BY <1>7, <1>8 DEF Ids
<1>12. ASSUME NEW p \in 1 .. m + 1
       PROVE  IsPhase(p, sets[p], IF p = 1 THEN {} ELSE sets[p - 1])'
  <2>1. CASE p \in 1 .. m
    <3>1. IsPhase(p, sets[p], IF p = 1 THEN {} ELSE sets[p - 1])
      BY <1>2, <2>1
    <3>2. sets'[p] = sets[p] /\ table'[p] = table[p] /\ (p # 1 => sets'[p - 1] = sets[p - 1])
      BY <1>1, <1>9, <1>10, <2>1
    <3> QED
      BY <1>11, <3>1, <3>2 DEF IsPhase
  <2>2. CASE p = m + 1
    <3>1. sets'[p] = next.owned /\ table'[p] = estimates
      BY <1>9, <1>10, <2>2
    <3>2. (IF p = 1 THEN {} ELSE sets'[p - 1]) = Owned
      BY <1>1, <1>4, <1>10, <2>2
    <3> QED
      BY <1>7, <1>8, <3>1, <3>2 DEF IsPhase
  <2> QED
    BY <1>1, <2>1, <2>2
<1>13. ASSUME NEW entry \in Range(added')
       PROVE  /\ entry.phase \in 1 .. m + 1 /\ HasPart(sets'[entry.phase], entry.item)
              /\ table'[entry.phase] # Absent /\ table'[entry.phase] \in EstimateSets
  <2>1. CASE entry \in Range(added)
    <3>1. /\ entry.phase \in 1 .. m /\ HasPart(sets[entry.phase], entry.item)
          /\ table[entry.phase] # Absent /\ table[entry.phase] \in EstimateSets
      BY <1>2, <2>1
    <3>2. entry.phase \in 1 .. m + 1 /\ sets'[entry.phase] = sets[entry.phase]
          /\ table'[entry.phase] = table[entry.phase]
      BY <1>1, <1>9, <1>10, <3>1
    <3> QED
      BY <3>1, <3>2
  <2>2. CASE entry \notin Range(added)
    <3>1. /\ entry.phase = m + 1 /\ HasPart(next.owned, entry.item)
          /\ estimates # Absent /\ estimates \in EstimateSets
      BY <1>7, <1>8, <2>2
    <3> QED
      BY <1>1, <1>9, <1>10, <3>1
  <2> QED
    BY <2>1, <2>2
<1>14. ASSUME added' = <<>>, NEW p \in 1 .. m + 1, table'[p] # Absent PROVE IsPassedOver(table'[p])
  <2>1. CASE p \in 1 .. m
    BY <1>2, <1>7, <1>8, <1>9, <1>14, <2>1
  <2>2. CASE p = m + 1
    BY <1>7, <1>8, <1>9, <1>14, <2>2
  <2> QED
    BY <1>1, <2>1, <2>2
<1>15. m + 1 <= 3 /\ Len(sets') = Len(table') /\ added' \in Seq(Purchased) /\ Distinct(added')
  BY <1>1, <1>7, <1>8, <1>9, <1>10
<1> QED
  BY <1>9, <1>10, <1>12, <1>13, <1>14, <1>15 DEF AssemblyInv, IsPassedOver

\* The build of assemble_hero_builds
AssembledOf(medians) ==
    LET core == Core(added, table, medians)
    IN  [hero_id |-> HeroId, hero_name |-> HeroName, title |-> 0,
         tag_ids |-> <<0, 0, 0>>, key_ability_name |-> Absent,
         ability_focus |-> Absent, core |-> core,
         situational |-> Situational(core, table, medians),
         key_item_id |-> KeyItemId(core, table), ability_ids |-> <<>>]

\* CORE has the items that were added, each with its phase.
IsCoreOf(core, purchases) ==
    /\ core \in Seq(BuildItem) /\ core # <<>> /\ DistinctItems(core)
    /\ \A item \in Range(core) :
          /\ item.name <= MaxName
          /\ \E entry \in Range(purchases) : item.item_id = entry.item /\ item.phase = entry.phase
    /\ \A entry \in Range(purchases) : \E item \in Range(core) : item.item_id = entry.item

\* What assemble_build makes is what the rest of the production relies on.
LEMMA AssembledIs ==
    ASSUME AssemblyInv, Len(table) = 3, added # <<>>, NEW medians \in MedianSets
    PROVE  LET b == AssembledOf(medians)
           IN  /\ IsCoreOf(b.core, added) /\ AreSituational(b.situational, b.core, 1 .. 4)
               /\ b \in AssembledBuild /\ HasKey(b) /\ ItemsAreDistinct(b)
<1> DEFINE b == AssembledOf(medians)
           core == Core(added, table, medians)
           situational == Situational(core, table, medians)
           key == KeyItemId(core, table)
<1>1. /\ added \in Seq(Purchased) /\ Distinct(added) /\ table \in Seq(EstimateSets \cup {Absent})
      /\ \A entry \in Range(added) :
            entry.phase \in 1 .. 3 /\ table[entry.phase] # Absent /\ table[entry.phase] \in EstimateSets
  BY DEF AssemblyInv
<1>2. IsTable(table)
  <2>1. \A p \in Phases : table[p] \in EstimateSets \cup {Absent}
    BY <1>1, ElementOfSeq DEF Phases
  <2>2. PICK entry \in Range(added) : TRUE
    <3>1. Len(added) \in Nat /\ DOMAIN added = 1 .. Len(added) /\ (added = <<>> <=> Len(added) = 0)
      BY <1>1, LenProperties, EmptySeq
    <3>2. 1 \in DOMAIN added
      BY <3>1
    <3> QED
      BY <3>2 DEF Range
  <2>3. entry.phase \in Phases /\ table[entry.phase] # Absent
    BY <1>1 DEF Phases
  <2> QED
    BY <2>1, <2>3 DEF IsTable
<1>3. IsCoreOf(core, added)
  <2>1. \A entry \in Range(added) : table[entry.phase] \in EstimateSets
    BY <1>1
  <2> QED
    BY <1>1, <2>1, CoreIs DEF IsCoreOf
<1> HIDE DEF core
<1>4. AreSituational(situational, core, 1 .. 4)
  BY <1>2, SituationalIs
<1>5. \A item \in Range(core) : item.item_id \in Shop /\ table[item.phase] \in EstimateSets
  <2>1. \A entry \in Range(added) : entry.item \in Shop
    <3>1. \A i \in DOMAIN added : added[i] \in Purchased
      BY <1>1, LenProperties, ElementOfSeq
    <3> QED
      BY <3>1 DEF Range, Purchased
  <2> SUFFICES ASSUME NEW item \in Range(core) PROVE item.item_id \in Shop /\ table[item.phase] \in EstimateSets
    OBVIOUS
  <2>2. PICK entry \in Range(added) : item.item_id = entry.item /\ item.phase = entry.phase
    BY <1>3 DEF IsCoreOf
  <2> QED
    BY <1>1, <2>1, <2>2
<1>6. core \in Seq(BuildItem) /\ core # <<>> /\ DistinctItems(core)
  BY <1>3 DEF IsCoreOf
<1>7. PICK i \in DOMAIN core : key = core[i].item_id
  BY <1>5, <1>6, KeyItemIs
<1>8. key \in Positive
  BY <1>6, <1>7, ItemTypes
<1> HIDE DEF situational, key
<1>9. situational \in Seq(BuildItem) /\ DistinctItems(situational)
      /\ \A item \in Range(situational) : item.item_id \in Shop \ Excluded(core)
  BY <1>4 DEF AreSituational
<1>10. b = [hero_id |-> HeroId, hero_name |-> HeroName, title |-> 0,
            tag_ids |-> <<0, 0, 0>>, key_ability_name |-> Absent,
            ability_focus |-> Absent, core |-> core,
            situational |-> situational, key_item_id |-> key, ability_ids |-> <<>>]
  BY DEF AssembledOf, core, situational, key
<1> HIDE DEF b
<1>11. b.core = core /\ b.situational = situational /\ b.key_item_id = key
  BY <1>10
<1>12. b \in AssembledBuild
  BY <1>6, <1>8, <1>9, <1>10, InputsAssumption DEF AssembledBuild
<1>13. HasKey(b)
  BY <1>7, <1>11 DEF HasKey, IsKey
<1>14. ItemsAreDistinct(b)
  <2>1. \A first \in Range(core), second \in Range(situational) : first.item_id # second.item_id
    <3> SUFFICES ASSUME NEW first \in Range(core), NEW second \in Range(situational) PROVE first.item_id # second.item_id
      OBVIOUS
    <3>1. first.item_id \in Excluded(core)
      BY DEF Excluded, Range
    <3> QED
      BY <1>9, <3>1
  <2>2. DistinctItems(core \o situational)
    BY <1>6, <1>9, <2>1, ConcatOfDistinct
  <2> QED
    BY <1>11, <2>2 DEF ItemsAreDistinct, Items, DistinctItems
<1> QED
  BY <1>3, <1>4, <1>11, <1>12, <1>13, <1>14 DEF b

\* What the property says of the build holds of what assemble_build makes.
LEMMA AssembledIsOwned ==
    ASSUME AssemblyInv, stage = "assembled", Len(table) = 3, added # <<>>,
           NEW medians \in MedianSets, build = AssembledOf(medians)
    PROVE  PhasesAreOwned
<1> DEFINE core == Range(build.core)
           ids == {item.item_id : item \in core}
           Parts(items) == items \cup UNION {Catalog[item].components : item \in items}
<1>1. /\ IsCoreOf(build.core, added) /\ AreSituational(build.situational, build.core, 1 .. 4)
      /\ build \in AssembledBuild /\ HasKey(build) /\ ItemsAreDistinct(build)
  BY AssembledIs
<1>2. IsAssembled(build)
  BY <1>1 DEF IsAssembled, IsCoreOf
<1>3. Ids(added) \subseteq ids
  <2> SUFFICES ASSUME NEW entry \in Range(added) PROVE entry.item \in ids
    BY DEF Ids
  <2>1. PICK item \in core : item.item_id = entry.item
    BY <1>1 DEF IsCoreOf
  <2> QED
    BY <2>1
<1>4. ASSUME NEW p \in Phases
      PROVE  LET before == IF p = 1 THEN {} ELSE sets[p - 1]
             IN  /\ sets[p] \subseteq ids /\ Cardinality(sets[p]) <= MaxOwned
                 /\ sets[p] \subseteq before \/ CostOf(sets[p]) <= table[p].spend
  <2>1. IsPhase(p, sets[p], IF p = 1 THEN {} ELSE sets[p - 1])
    BY DEF AssemblyInv, Phases
  <2> QED
    BY <1>3, <2>1 DEF IsPhase
<1>5. ASSUME NEW item \in core, NEW items \in SUBSET Shop,
             sets[item.phase] \subseteq items, Parts(items) \subseteq items
      PROVE  item.item_id \in items
  <2>1. PICK entry \in Range(added) : item.item_id = entry.item /\ item.phase = entry.phase
    BY <1>1 DEF IsCoreOf
  <2>2. HasPart(sets[entry.phase], entry.item)
    BY DEF AssemblyInv
  <2>3. Closed(items)
    BY <1>5 DEF Closed
  <2> QED
    BY <1>5, <2>1, <2>2, <2>3 DEF HasPart
<1>6. ASSUME NEW item \in Range(build.situational) PROVE item.item_id \notin Parts(ids)
  <2>1. item.item_id \notin Excluded(build.core)
    BY <1>1 DEF AreSituational
  <2>2. Parts(ids) \subseteq Excluded(build.core)
    BY DEF Excluded, Range
  <2> QED
    BY <2>1, <2>2
<1> QED
  BY <1>2, <1>4, <1>5, <1>6 DEF PhasesAreOwned

-----------------------------------------------------------------------------
(* The steps of produce_hero_builds *)

IsValid(b) == ValidHero(b) /\ \A persona \in 1 .. MaxName + 10 : Presentable(b, persona)

BuildInv ==
    /\ stage \in {"requests", "assembly", "skipped", "assembled", "ordered", "produced", "error"}
    /\ stage \in {"requests", "assembly", "skipped", "assembled"} => AssemblyInv
    /\ stage = "skipped" => added = <<>> /\ Len(table) = 3
    /\ stage = "assembled" =>
          /\ added # <<>> /\ Len(table) = 3
          /\ \E medians \in MedianSets : build = AssembledOf(medians)
    /\ stage = "ordered" =>
          /\ response \in Responses /\ IsOrdered(build)
          /\ build.ability_ids =
                IF SelectAbilityPath(response) = Absent THEN <<>> ELSE SelectAbilityPath(response)
    /\ stage = "produced" => IsValid(build)

\* At first there is nothing.
LEMMA ProducerInitInv == ProducerInit => BuildInv
<1> SUFFICES ASSUME ProducerInit PROVE BuildInv
  OBVIOUS
<1>1. stage = "requests" /\ table = <<>> /\ sets = <<>> /\ added = <<>>
  BY DEF ProducerInit
<1>2. Range(added) = {} /\ Len(table) = 0 /\ Len(sets) = 0 /\ DOMAIN added = {}
  BY <1>1 DEF Range
<1>3. AssemblyInv
  BY <1>1, <1>2, EmptySeq DEF AssemblyInv, Distinct
<1> QED
  BY <1>1, <1>3 DEF BuildInv

\* The order of a build is complete or empty.
LEMMA OrderStep == ASSUME BuildInv, AttachOrder PROVE BuildInv'
<1>1. stage = "assembled" /\ stage' = "ordered" /\ response' \in Responses
      /\ build' = WithOrder(build, SelectAbilityPath(response'))
  BY DEF AttachOrder
<1>2. AssemblyInv /\ added # <<>> /\ Len(table) = 3
  BY <1>1 DEF BuildInv
<1>3. PICK medians \in MedianSets : build = AssembledOf(medians)
  BY <1>1 DEF BuildInv
<1>4. /\ IsCoreOf(build.core, added) /\ AreSituational(build.situational, build.core, 1 .. 4)
      /\ build \in AssembledBuild /\ HasKey(build) /\ ItemsAreDistinct(build)
  BY <1>2, <1>3, AssembledIs
<1> DEFINE found == SelectAbilityPath(response')
           path == IF found = Absent THEN <<>> ELSE found
<1>5. path \in Seq(Nat) /\ (path # <<>> => IsCompleteOrder(path) /\ Range(path) \subseteq Abilities)
  <2>1. CASE found = Absent
    BY <2>1, EmptySeq
  <2>2. CASE found # Absent
    <3>1. ASSUME NEW answers \in Responses, SelectAbilityPath(answers) # Absent
          PROVE  /\ SelectAbilityPath(answers) \in Seq(Nat) /\ IsCompleteOrder(SelectAbilityPath(answers))
                 /\ Range(SelectAbilityPath(answers)) \subseteq Abilities
      BY <3>1, SelectedOrderIs
    <3> QED
      BY <1>1, <2>2, <3>1
  <2> QED
    BY <2>1, <2>2
<1>6. build' = [build EXCEPT !.ability_ids = path]
  BY <1>1 DEF WithOrder
<1> HIDE DEF path
<1>7. /\ build'.core = build.core /\ build'.situational = build.situational
      /\ build'.key_item_id = build.key_item_id /\ build'.ability_ids = path /\ build' \in OrderedBuild
  BY <1>4, <1>5, <1>6 DEF AssembledBuild, OrderedBuild
<1>8. HasKey(build') /\ ItemsAreDistinct(build')
  BY <1>4, <1>7 DEF HasKey, IsKey, ItemsAreDistinct, Items
<1>9. ASSUME NEW i \in DOMAIN build.core
      PROVE  build.core[i].item_id \in Shop /\ build.core[i].name <= MaxName
  <2>1. build.core[i] \in Range(build.core)
    BY DEF Range
  <2>2. PICK entry \in Range(added) : build.core[i].item_id = entry.item
    BY <1>4, <2>1 DEF IsCoreOf
  <2>3. entry \in Purchased
    <3>1. added \in Seq(Purchased)
      BY <1>2 DEF AssemblyInv
    <3> QED
      BY <3>1, LenProperties, ElementOfSeq DEF Range
  <2> QED
    BY <1>4, <2>1, <2>2, <2>3 DEF IsCoreOf, Purchased
<1>10. IsOrdered(build')
  <2>1. build'.core # <<>>
    BY <1>4, <1>7 DEF IsCoreOf
  <2> QED
    BY <1>5, <1>7, <1>8, <1>9, <2>1 DEF IsOrdered
<1>11. build'.ability_ids = IF SelectAbilityPath(response') = Absent THEN <<>> ELSE SelectAbilityPath(response')
  BY <1>7 DEF path
<1> QED
  BY <1>1, <1>10, <1>11 DEF BuildInv

\* A build that is produced is valid.
LEMMA ProduceStep == ASSUME BuildInv, Produce PROVE BuildInv'
<1>1. IsOrdered(build)
  BY DEF BuildInv, Produce
<1>2. PICK assets \in AssetSets, targets \in TargetSets, class \in Classes :
         IF Produces(build, assets, Tags, class)
         THEN stage' = "produced" /\ build' = Produced(build, targets, assets, Tags, class)
         ELSE stage' = "error" /\ build' = Absent
  BY DEF Produce
<1>3. CASE Produces(build, assets, Tags, class)
  <2>1. IsValid(Produced(build, targets, assets, Tags, class))
    BY <1>1, <1>3, ProducedIsValid DEF IsValid
  <2>2. IsValid(build')
    BY <1>2, <1>3, <2>1
  <2>3. stage' = "produced"
    BY <1>2, <1>3
  <2> QED
    BY <2>2, <2>3 DEF BuildInv
<1>4. CASE ~Produces(build, assets, Tags, class)
  BY <1>2, <1>4 DEF BuildInv
<1> QED
  BY <1>3, <1>4

\* The end of the assembly
LEMMA AssembleStep == ASSUME BuildInv, Assemble PROVE BuildInv'
<1>1. /\ stage = "assembly" /\ AssemblyInv /\ Len(table) = 3 /\ UNCHANGED <<table, sets, added>>
  BY DEF BuildInv, Assemble, local
<1>2. AssemblyInv'
  BY <1>1 DEF AssemblyInv, IsPhase
<1>3. CASE added = <<>>
  <2>1. stage' = "skipped"
    BY <1>3 DEF Assemble
  <2> QED
    BY <1>1, <1>2, <1>3, <2>1 DEF BuildInv
<1>4. CASE added # <<>>
  <2>1. stage' = "assembled" /\ \E medians \in MedianSets : build' = AssembledOf(medians)
    BY <1>4 DEF Assemble, AssembledOf
  <2>2. (\E medians \in MedianSets : build = AssembledOf(medians))'
    BY <1>1, <2>1 DEF AssembledOf
  <2> QED
    BY <1>1, <1>2, <1>4, <2>1, <2>2 DEF BuildInv
<1> QED
  BY <1>3, <1>4

\* No other step touches a build.
LEMMA OtherStep ==
    ASSUME BuildInv, UNCHANGED <<local, response, build>>,
           UNCHANGED stage \/ (stage = "requests" /\ stage' = "assembly")
    PROVE  BuildInv'
<1>1. UNCHANGED <<table, sets, added, response, build>>
  BY DEF local
<1>2. AssemblyInv => AssemblyInv'
  BY <1>1 DEF AssemblyInv, IsPhase
<1>3. (\E medians \in MedianSets : build = AssembledOf(medians)) =>
         (\E medians \in MedianSets : build = AssembledOf(medians))'
  BY <1>1 DEF AssembledOf
<1>4. IsValid(build) => IsValid(build)'
  BY <1>1
<1>5. CASE UNCHANGED stage
  BY <1>1, <1>2, <1>3, <1>5 DEF BuildInv
<1>6. CASE stage = "requests" /\ stage' = "assembly"
  BY <1>2, <1>6 DEF BuildInv
<1> QED
  BY <1>5, <1>6

\* Every step keeps the invariant.
LEMMA BuildStep == ASSUME BuildInv, [ProducerNext]_<<vars, producerVars>> PROVE BuildInv'
<1>1. CASE Request
  <2>1. UNCHANGED stage /\ UNCHANGED <<local, response, build>>
    BY <1>1 DEF Request, producerVars
  <2> QED
    BY <2>1, OtherStep
<1>2. CASE Collect
  BY <1>2, OtherStep DEF Collect
<1>3. CASE Advance
  <2>1. stage = "assembly" /\ stage' = "assembly" /\ AssemblyInv
    BY <1>3 DEF Advance, BuildInv
  <2>2. AssemblyInv'
    BY <1>3, <2>1, AdvanceStep
  <2> QED
    BY <2>1, <2>2 DEF BuildInv
<1>4. CASE Assemble
  BY <1>4, AssembleStep
<1>5. CASE AttachOrder
  BY <1>5, OrderStep
<1>6. CASE Produce
  BY <1>6, ProduceStep
<1>7. CASE UNCHANGED <<vars, producerVars>>
  <2>1. UNCHANGED stage /\ UNCHANGED <<local, response, build>>
    BY <1>7 DEF producerVars
  <2> QED
    BY <2>1, OtherStep
<1> QED
  BY <1>1, <1>2, <1>3, <1>4, <1>5, <1>6, <1>7 DEF ProducerNext

\* The invariant of the build holds in every reachable state.
THEOREM BuildInvariance == ProducerSpec => []BuildInv
<1> QED
  BY ProducerInitInv, BuildStep, PTL DEF ProducerSpec

-----------------------------------------------------------------------------
(* The properties *)

\* The variables of the requests have their types, and no request of any thread fails
\* more often than request_json may try it.
THEOREM TypeCorrectness == ProducerSpec => []TypeOK
<1>1. RequestInv => TypeOK
  BY DEF RequestInv
<1>2. QED
  BY RequestInvariance, <1>1, PTL

\* A thread takes its slot in a step of its own.
LEMMA SlotsAreTaken ==
    ASSUME RequestInv, NEW t \in ThreadIds, TakeSlot(t)
    PROVE  spaced = 0 /\ paused = 0
<1>1. pc[t] = "slot" /\ sleep[t] = 0
  BY DEF TakeSlot
<1>2. QED
  BY <1>1 DEF RequestInv, TypeOK, ScheduleCovers

\* wait_for_request_slot spaces the slots of any number of threads.
THEOREM SlotsStaySpaced == ProducerSpec => SlotsAreSpaced
<1>1. RequestInv /\ [ProducerNext]_<<vars, producerVars>>
          => [\A t \in ThreadIds : TakeSlot(t) => spaced = 0]_vars
  BY SlotsAreTaken
<1>2. QED
  BY RequestInvariance, <1>1, PTL DEF ProducerSpec, SlotsAreSpaced

\* What postpone_requests has recorded holds for every thread.
THEOREM DelaysStayRespected == ProducerSpec => DelaysAreRespected
<1>1. RequestInv /\ [ProducerNext]_<<vars, producerVars>>
          => [\A t \in ThreadIds : TakeSlot(t) => paused = 0]_vars
  BY SlotsAreTaken
<1>2. QED
  BY RequestInvariance, <1>1, PTL DEF ProducerSpec, DelaysAreRespected

\* request_api_inputs returns Ok only with the responses of all heroes, whatever
\* their number and that of the threads.
THEOREM OkStaysComplete == ProducerSpec => []OkIsComplete
<1>1. RequestInv => OkIsComplete
  <2> SUFFICES ASSUME RequestInv, result = "ok" PROVE rows = HeroIds
    BY DEF OkIsComplete
  <2>1. rows \subseteq HeroIds
    BY DEF RequestInv, TypeOK
  <2>2. ASSUME NEW h \in HeroIds PROVE h \in rows
    <3>1. PICK t \in ThreadIds : h \in Assigned(t)
      BY EveryHeroIsAssigned
    <3>2. Assigned(t) \subseteq rows \cup todo[t] /\ todo[t] = {}
      BY DEF RequestInv, HeroesCovered, ResultOfAll
    <3>3. QED
      BY <3>1, <3>2
  <2>3. QED
    BY <2>1, <2>2
<1>2. QED
  BY RequestInvariance, <1>1, PTL

\* Whatever the shop and the estimates: what advance_phase buys is paid for and shown,
\* the build offers nothing that CORE has used up, and a hero is passed over only if
\* nothing was worth its price.
THEOREM PhasesStayOwned == ProducerSpec => []PhasesAreOwned
<1>1. BuildInv => PhasesAreOwned
  <2> SUFFICES ASSUME BuildInv PROVE PhasesAreOwned
    OBVIOUS
  <2>1. CASE stage = "assembled"
    BY <2>1, AssembledIsOwned DEF BuildInv
  <2>2. CASE stage = "skipped"
    <3>1. AssemblyInv /\ added = <<>> /\ Len(table) = 3
      BY <2>2 DEF BuildInv
    <3>2. \A p \in Phases : table[p] # Absent => IsPassedOver(table[p])
      BY <3>1 DEF AssemblyInv, Phases
    <3> QED
      BY <2>2, <3>2 DEF PhasesAreOwned, IsPassedOver
  <2> QED
    BY <2>1, <2>2 DEF PhasesAreOwned
<1> QED
  BY BuildInvariance, <1>1, PTL

\* Whatever the responses: select_ability_path finds a complete order if players followed
\* one, and where it parts from another such order it has the greater support.
THEOREM OrderStaysBestSupported == ProducerSpec => []OrderIsBestSupported
<1>1. BuildInv => OrderIsBestSupported
  <2> SUFFICES ASSUME BuildInv PROVE OrderIsBestSupported
    OBVIOUS
  <2>1. CASE stage = "ordered"
    BY <2>1, SelectedIsBest DEF BuildInv
  <2> QED
    BY <2>1 DEF OrderIsBestSupported
<1> QED
  BY BuildInvariance, <1>1, PTL

\* Whatever the API, the assets and the database held: a build that is produced passes
\* validate_hero and the Steam contract. That names of items are no longer than titles, and
\* that abilities are neither items nor tags, is assumed: no code checks it.
THEOREM ProducedBuildsStayValid == ProducerSpec => []ProducedBuildsAreValid
<1>1. BuildInv => ProducedBuildsAreValid
  BY DEF BuildInv, ProducedBuildsAreValid, IsValid
<1> QED
  BY BuildInvariance, <1>1, PTL
=============================================================================
