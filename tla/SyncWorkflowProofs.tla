------------------------- MODULE SyncWorkflowProofs -------------------------
(***************************************************************************)
(* Proofs for every number of processes, commands, versions and events, and *)
(* every disk:                                                              *)
(*   - no command installs a catalog that was not wholly current at one     *)
(*     moment of it: the client version and the patch are asked for one     *)
(*     after the other, and only the order of the requests makes their      *)
(*     answers agree;                                                       *)
(*   - the search of the caches finds the one that fits, or nothing;        *)
(*   - what a command says is true until somebody else changes something.   *)
(***************************************************************************)
EXTENDS SyncWorkflow, FiniteSetTheorems, SequenceTheorems, WellFoundedInduction, TLAPS

Commands == {"sync", "build", "install", "status", "restore"}
Fields == {"name", "id", "step", "location", "catalog", "seen", "original", "result", "quiet"}

\* From this call on, a command has a catalog.
Catalogued == [sync |-> 6, build |-> 3, install |-> 5, status |-> 3, restore |-> 3]

\* Both versions are no later than others.
Within(versions, latest) ==
    versions.client <= latest.client /\ versions.patch <= latest.patch

\* A catalog was made of versions that the game has had.
IsCatalog(catalog, latest) == catalog \in Catalogs /\ Within(catalog.versions, latest)
IsPast(catalog, latest) == catalog \in {None, Malformed} \/ IsCatalog(catalog, latest)

\* The calls of a process, and the one that it is in.
CallsOf(r) == IF r.name = None THEN <<>> ELSE Plan[r.name]
InCall(r) == r.step \in DOMAIN CallsOf(r)
AtCall(r, call) == InCall(r) /\ CallsOf(r)[r.step] = call

HasFields(r) ==
    /\ DOMAIN r = Fields
    /\ r.name \in Commands \cup {None} /\ r.step \in Nat /\ r.id \in Nat

HasCatalog(r, latest) ==
    InCall(r) /\ Catalogued[r.name] <= r.step /\ ~AtCall(r, "compare")
        => IsCatalog(r.catalog, latest)

\* The versions that a process saw with the client version are not before those of
\* its catalog, ...
HasSeen(r, latest) ==
    AtCall(r, "patch") =>
        /\ r.seen \in Versions
        /\ Within(r.seen, latest) /\ Within(r.catalog.versions, r.seen)

\* ... and when the patch agrees too, they are those of its catalog.
Agrees(r) == AtCall(r, "read") \/ AtCall(r, "update") => r.catalog.versions = r.seen

Sound(r, latest) ==
    HasFields(r) /\ IsPast(r.catalog, latest) /\ HasCatalog(r, latest) /\ HasSeen(r, latest) /\ Agrees(r)

StoreIsPast ==
    /\ IsPast(artifacts, game) /\ IsPast(saved, game)
    /\ sources # None => sources \in Versions /\ Within(sources, game)

IInv ==
    /\ game \in Versions /\ starts \in Nat
    /\ StoreIsPast
    /\ DOMAIN proc = Procs
    /\ \A p \in Procs : Sound(proc[p], game)

-----------------------------------------------------------------------------
(* The order of the calls. *)

\* A request for the patch comes after one for the client version, and then, but for
\* status, the cache is read and replaced.
LEMMA CallOrder ==
    ASSUME NEW c \in Commands, NEW i \in Nat, i + 1 \in DOMAIN Plan[c]
    PROVE  /\ i > 0 => i \in DOMAIN Plan[c]
           /\ i > 0 \/ Plan[c][i + 1] \notin {"patch", "read", "update"}
           /\ Plan[c][i + 1] = "patch" => Plan[c][i] = "client"
           /\ Plan[c][i + 1] = "read" => Plan[c][i] = "patch" /\ c # "status"
           /\ Plan[c][i + 1] = "update" => Plan[c][i] = "read"
BY DEF Plan, Commands

\* A catalog is there when it is needed, and only two calls bring it.
LEMMA CatalogOrder ==
    ASSUME NEW c \in Commands, NEW i \in DOMAIN Plan[c]
    PROVE  /\ Plan[c][i] \in {"extractPatch", "moveNew", "client", "patch", "read", "update"}
                => Catalogued[c] <= i
           /\ i + 1 \in DOMAIN Plan[c] /\ Catalogued[c] = i + 1
                => Plan[c][i] \in {"extract", "catalog"}
           /\ Plan[c][i] \in {"extract", "catalog"} => i + 1 \in DOMAIN Plan[c]
<1>1. Plan[c][i] \in {"extractPatch", "moveNew", "client", "patch", "read", "update"}
        => Catalogued[c] <= i
  BY DEF Plan, Commands, Catalogued
<1>2. i + 1 \in DOMAIN Plan[c] /\ Catalogued[c] = i + 1 => Plan[c][i] \in {"extract", "catalog"}
  BY DEF Plan, Commands, Catalogued
<1>3. Plan[c][i] \in {"extract", "catalog"} => i + 1 \in DOMAIN Plan[c]
  BY DEF Plan, Commands
<1> QED
  BY <1>1, <1>2, <1>3

\* A resumed run skips one call, and status goes on without a catalog.
LEMMA CallSkips ==
    ASSUME NEW c \in Commands, NEW i \in DOMAIN Plan[c]
    PROVE  /\ Plan[c][i] = "extract" => i + 2 \in DOMAIN Plan[c] /\ Plan[c][i + 2] = "write"
           /\ Plan[c][i] = "catalog" => c \in {"install", "status"}
BY DEF Plan, Commands

LEMMA PlanIsFinite ==
    ASSUME NEW c \in Commands
    PROVE  /\ Len(Plan[c]) \in Nat /\ DOMAIN Plan[c] = 1 .. Len(Plan[c])
           /\ Plan[c][1] \in {"locate", "recover"} /\ Catalogued[c] > 1
           /\ c = "status" => Plan[c][Len(Plan[c])] = "compare"
<1>1. Len(Plan[c]) \in Nat /\ DOMAIN Plan[c] = 1 .. Len(Plan[c])
  BY DEF Plan, Commands
<1>2. Plan[c][1] \in {"locate", "recover"} /\ Catalogued[c] > 1
  BY DEF Plan, Commands, Catalogued
<1>3. c = "status" => Plan[c][Len(Plan[c])] = "compare"
  BY DEF Plan, Commands
<1> QED
  BY <1>1, <1>2, <1>3

-----------------------------------------------------------------------------
(* Processes: what keeps a process sound. *)

LEMMA IdleIsSound ==
    ASSUME NEW latest
    PROVE  Sound(Idle, latest)
<1>1. HasFields(Idle) /\ Idle.catalog = None /\ Idle.name = None
  BY DEF Idle, HasFields, Fields
<1>2. ~InCall(Idle)
  BY <1>1 DEF InCall, CallsOf
<1>3. IsPast(None, latest)
  BY DEF IsPast
<1> QED
  BY <1>1, <1>2, <1>3 DEF Sound, AtCall, HasCatalog, HasSeen, Agrees

\* A process between two commands.
LEMMA RestIsSound ==
    ASSUME NEW r, NEW latest, HasFields(r), r.step = 0, r.catalog = None
    PROVE  Sound(r, latest)
<1>1. ~InCall(r)
  <2>1. CASE r.name = None
    BY <2>1 DEF InCall, CallsOf
  <2>2. CASE r.name # None
    BY <2>2, PlanIsFinite DEF InCall, CallsOf, HasFields
  <2> QED
    BY <2>1, <2>2
<1>2. IsPast(None, latest)
  BY DEF IsPast
<1> QED
  BY <1>1, <1>2 DEF Sound, AtCall, HasCatalog, HasSeen, Agrees

\* What others do changes at most the mark of a process, and versions only increase.
LEMMA OthersKeepSound ==
    ASSUME NEW r, NEW s, NEW old \in Versions, NEW new \in Versions, Within(old, new),
           Sound(r, old), s = r \/ s = [r EXCEPT !.quiet = FALSE]
    PROVE  Sound(s, new)
<1>1. /\ DOMAIN s = Fields /\ s.name = r.name /\ s.step = r.step /\ s.id = r.id
      /\ s.catalog = r.catalog /\ s.seen = r.seen
  BY DEF Sound, HasFields, Fields
<1>2. \A v \in Versions : Within(v, old) => Within(v, new)
  BY DEF Within, Versions
<1>3. \A catalog : IsCatalog(catalog, old) => IsCatalog(catalog, new)
  BY <1>2 DEF IsCatalog, Catalogs
<1>4. InCall(s) = InCall(r) /\ \A call : AtCall(s, call) <=> AtCall(r, call)
  BY <1>1 DEF InCall, AtCall, CallsOf
<1>5. HasFields(s) /\ IsPast(s.catalog, new)
  BY <1>1, <1>3 DEF Sound, HasFields, IsPast
<1>6. HasCatalog(s, new)
  BY <1>1, <1>3, <1>4 DEF Sound, HasCatalog
<1>7. HasSeen(s, new) /\ Agrees(s)
  BY <1>1, <1>2, <1>4 DEF Sound, HasSeen, Agrees
<1> QED
  BY <1>5, <1>6, <1>7 DEF Sound

\* The next call of a process, which has what that call needs.
LEMMA NextCallIsSound ==
    ASSUME NEW r, NEW s, NEW latest, Sound(r, latest), InCall(r),
           HasFields(s), s.name = r.name, s.step = r.step + 1, s.step \in DOMAIN CallsOf(r),
           IsPast(s.catalog, latest),
           s.catalog = r.catalog \/ IsCatalog(s.catalog, latest),
           AtCall(r, "extract") \/ AtCall(r, "catalog") => IsCatalog(s.catalog, latest),
           ~AtCall(r, "compare"),
           AtCall(r, "client") => s.seen \in Versions /\ Within(s.seen, latest)
                                    /\ Within(s.catalog.versions, s.seen),
           AtCall(r, "patch") => r.name = "status" \/ s.catalog.versions = s.seen,
           AtCall(r, "read") => s.catalog = r.catalog /\ s.seen = r.seen
    PROVE  Sound(s, latest)
<1>1. r.name \in Commands /\ r.name # None /\ CallsOf(r) = Plan[r.name] /\ CallsOf(s) = Plan[r.name]
  BY DEF InCall, CallsOf, HasFields, Sound
<1> DEFINE c == r.name
           i == r.step
<1>2. c \in Commands /\ i \in Nat /\ i \in DOMAIN Plan[c] /\ i + 1 \in DOMAIN Plan[c]
  BY <1>1 DEF InCall, Sound, HasFields
<1>3. /\ Plan[c][i + 1] = "patch" => Plan[c][i] = "client"
      /\ Plan[c][i + 1] = "read" => Plan[c][i] = "patch" /\ c # "status"
      /\ Plan[c][i + 1] = "update" => Plan[c][i] = "read"
  BY <1>2, CallOrder
<1>4. \A call : AtCall(r, call) <=> Plan[c][i] = call
  BY <1>1, <1>2 DEF AtCall, InCall
<1>5. \A call : AtCall(s, call) <=> Plan[c][i + 1] = call
  BY <1>1, <1>2 DEF AtCall, InCall
<1>6. HasSeen(s, latest)
  BY <1>3, <1>4, <1>5 DEF HasSeen
<1>7. Agrees(s)
  BY <1>3, <1>4, <1>5 DEF Agrees, Sound
<1>8. HasCatalog(s, latest)
  <2>1. CASE Catalogued[c] <= i
    <3>1. IsCatalog(r.catalog, latest)
      BY <1>4, <2>1 DEF Sound, HasCatalog
    <3> QED
      BY <3>1 DEF HasCatalog
  <2>2. CASE Catalogued[c] = i + 1
    <3>1. AtCall(r, "extract") \/ AtCall(r, "catalog")
      BY <1>2, <1>4, <2>2, CatalogOrder
    <3> QED
      BY <3>1 DEF HasCatalog
  <2>3. CASE ~(Catalogued[c] <= i) /\ Catalogued[c] # i + 1
    <3>1. ~(Catalogued[c] <= i + 1)
      BY <1>2, <2>3 DEF Catalogued, Commands
    <3> QED
      BY <3>1 DEF HasCatalog
  <2> QED
    BY <2>1, <2>2, <2>3
<1> QED
  BY <1>6, <1>7, <1>8 DEF Sound

\* A process that needs a catalog has one.
LEMMA CatalogIsThere ==
    ASSUME NEW r, NEW latest, Sound(r, latest),
           NEW call \in {"extractPatch", "moveNew", "client", "patch", "read", "update"},
           AtCall(r, call)
    PROVE  IsCatalog(r.catalog, latest)
<1>1. r.name \in Commands /\ CallsOf(r) = Plan[r.name] /\ r.step \in DOMAIN Plan[r.name]
  BY DEF AtCall, InCall, CallsOf, Sound, HasFields
<1>2. Catalogued[r.name] <= r.step
  BY <1>1, CatalogOrder DEF AtCall
<1>3. ~AtCall(r, "compare")
  BY DEF AtCall
<1> QED
  BY <1>2, <1>3 DEF Sound, HasCatalog, AtCall
-----------------------------------------------------------------------------
(* Steps. *)

\* Nobody else changes a process but for its mark.
LEMMA StepIsSound ==
    ASSUME IInv, NEW p \in Procs, NEW next, Sound(next, game),
           Quietly(p, next) \/ Openly(p, next), UNCHANGED game
    PROVE  DOMAIN proc' = Procs /\ \A q \in Procs : Sound(proc'[q], game')
<1>1. Within(game, game) /\ game \in Versions
  BY DEF Within, IInv, Versions
<1>2. DOMAIN proc' = Procs
  BY DEF Quietly, Openly, IInv
<1>3. ASSUME NEW q \in Procs PROVE Sound(proc'[q], game)
  <2>1. CASE q = p
    BY <2>1 DEF Quietly, Openly, IInv
  <2>2. CASE q # p
    <3>1. proc'[q] = proc[q] \/ proc'[q] = Disturbed(q)
      BY <2>2 DEF Quietly, Openly, IInv
    <3>2. Sound(proc[q], game)
      BY DEF IInv
    <3>3. Disturbed(q) = Idle \/ Disturbed(q) = [proc[q] EXCEPT !.quiet = FALSE]
      BY DEF Disturbed
    <3> QED
      BY <1>1, <3>1, <3>2, <3>3, IdleIsSound, OthersKeepSound
  <2> QED
    BY <2>1, <2>2
<1> QED
  BY <1>2, <1>3

LEMMA DisturbanceIsSound ==
    ASSUME IInv, Disturb, game' \in Versions, Within(game, game')
    PROVE  DOMAIN proc' = Procs /\ \A q \in Procs : Sound(proc'[q], game')
<1>1. DOMAIN proc' = Procs
  BY DEF Disturb
<1>2. ASSUME NEW q \in Procs PROVE Sound(proc'[q], game')
  <2>1. proc'[q] = Idle \/ proc'[q] = [proc[q] EXCEPT !.quiet = FALSE]
    BY DEF Disturb, Disturbed
  <2>2. Sound(proc[q], game) /\ game \in Versions
    BY DEF IInv
  <2> QED
    BY <2>1, <2>2, IdleIsSound, OthersKeepSound
<1> QED
  BY <1>1, <1>2

\* Versions in the store stay past ones.
LEMMA StoreStaysPast ==
    ASSUME IInv, UNCHANGED store, game' \in Versions, Within(game, game')
    PROVE  StoreIsPast'
<1>1. \A v \in Versions : Within(v, game) => Within(v, game')
  BY DEF Within, Versions, IInv
<1>2. \A catalog : IsPast(catalog, game) => IsPast(catalog, game')
  BY <1>1 DEF IsPast, IsCatalog, Catalogs
<1> QED
  BY <1>1, <1>2 DEF IInv, StoreIsPast, store

\* The end of a command, and its next call.
LEMMA EndIsSound ==
    ASSUME IInv, NEW p \in Procs, NEW code
    PROVE  Sound(Ended(p, code), game)
<1>1. HasFields(proc[p])
  BY DEF IInv, Sound
<1>2. CASE ~proc[p].quiet
  BY <1>2, IdleIsSound DEF Ended
<1>3. CASE proc[p].quiet
  <2> DEFINE r == Ended(p, code)
  <2>1. DOMAIN r = Fields /\ r.name = proc[p].name /\ r.id = 0 /\ r.step = 0 /\ r.catalog = None
    BY <1>3 DEF Ended, Idle, Fields
  <2>2. HasFields(r)
    BY <1>1, <2>1 DEF HasFields
  <2> HIDE DEF r
  <2> QED
    BY <2>1, <2>2, RestIsSound DEF r
<1> QED
  BY <1>2, <1>3

\* What Advanced makes of a process that is in a call.
LEMMA AdvancedIs ==
    ASSUME IInv, NEW p \in Procs, InCall(proc[p])
    PROVE  LET r == [proc[p] EXCEPT !.step = @ + 1]
           IN  /\ HasFields(r) /\ r.name = proc[p].name /\ r.step = proc[p].step + 1
               /\ r.id = proc[p].id /\ r.catalog = proc[p].catalog /\ r.seen = proc[p].seen
               /\ \/ Advanced(p) = Ended(p, 0)
                  \/ Advanced(p) = r /\ r.step \in DOMAIN CallsOf(proc[p])
<1>1. HasFields(proc[p])
  BY DEF IInv, Sound
<1> DEFINE r == [proc[p] EXCEPT !.step = @ + 1]
<1>2. /\ HasFields(r) /\ r.name = proc[p].name /\ r.step = proc[p].step + 1
      /\ r.id = proc[p].id /\ r.catalog = proc[p].catalog /\ r.seen = proc[p].seen
  BY <1>1 DEF HasFields, Fields
<1>3. Calls(p) = CallsOf(proc[p]) /\ CallsOf(proc[p]) = Plan[proc[p].name] /\ proc[p].name \in Commands
  BY <1>1 DEF Calls, CallsOf, InCall, HasFields
<1>4. ASSUME proc[p].step # Len(Calls(p)) PROVE proc[p].step + 1 \in DOMAIN CallsOf(proc[p])
  BY <1>1, <1>3, <1>4, PlanIsFinite DEF InCall, HasFields
<1> QED
  BY <1>2, <1>4 DEF Advanced

\* A call that leaves the catalog and the versions seen alone, and that is neither
\* one that brings a catalog nor one that sees versions.
LEMMA AdvanceIsSound ==
    ASSUME IInv, NEW p \in Procs, InCall(proc[p]),
           \A call \in {"extract", "catalog", "compare", "client", "patch"} : ~AtCall(proc[p], call)
    PROVE  Sound(Advanced(p), game)
<1> DEFINE r == [proc[p] EXCEPT !.step = @ + 1]
<1>1. /\ HasFields(r) /\ r.name = proc[p].name /\ r.step = proc[p].step + 1
      /\ r.catalog = proc[p].catalog /\ r.seen = proc[p].seen
      /\ \/ Advanced(p) = Ended(p, 0)
         \/ Advanced(p) = r /\ r.step \in DOMAIN CallsOf(proc[p])
  BY AdvancedIs
<1>2. Sound(proc[p], game) /\ IsPast(proc[p].catalog, game)
  BY DEF IInv, Sound
<1> HIDE DEF r
<1>3. ASSUME r.step \in DOMAIN CallsOf(proc[p]) PROVE Sound(r, game)
  BY <1>1, <1>2, <1>3, NextCallIsSound
<1> QED
  BY <1>1, <1>3, EndIsSound
\* The location and the bytes of the cache are of no matter here.
LEMMA OtherFieldsKeepSound ==
    ASSUME NEW r, NEW s, NEW x, NEW latest, Sound(r, latest),
           s = [r EXCEPT !.location = x] \/ s = [r EXCEPT !.original = x]
    PROVE  Sound(s, latest)
<1>1. /\ DOMAIN s = Fields /\ s.name = r.name /\ s.step = r.step /\ s.id = r.id
      /\ s.catalog = r.catalog /\ s.seen = r.seen
  BY DEF Sound, HasFields, Fields
<1>2. InCall(s) = InCall(r) /\ \A call : AtCall(s, call) <=> AtCall(r, call)
  BY <1>1 DEF InCall, AtCall, CallsOf
<1> QED
  BY <1>1, <1>2 DEF Sound, HasFields, HasCatalog, HasSeen, Agrees

LEMMA AtIsAtCall ==
    ASSUME NEW p \in Procs, NEW call, At(p, call)
    PROVE  AtCall(proc[p], call) /\ InCall(proc[p])
BY DEF At, Calls, AtCall, InCall, CallsOf

\* A step of a process that leaves the game alone.
LEMMA ProcessKeepsInv ==
    ASSUME IInv, NEW p \in Procs, NEW next, Sound(next, game),
           Quietly(p, next) \/ Openly(p, next), UNCHANGED game, starts' \in Nat,
           StoreIsPast' \/ UNCHANGED store
    PROVE  IInv'
<1>1. DOMAIN proc' = Procs /\ \A q \in Procs : Sound(proc'[q], game')
  BY StepIsSound
<1>2. game' \in Versions /\ Within(game, game')
  BY DEF IInv, Within, Versions
<1>3. StoreIsPast'
  BY <1>2, StoreStaysPast
<1> QED
  BY <1>1, <1>2, <1>3 DEF IInv

LEMMA InvokeKeepsInv ==
    ASSUME IInv, NEW p \in Procs, NEW name \in DOMAIN Plan, Invoke(p, name)
    PROVE  IInv'
<1> DEFINE r == [Idle EXCEPT !.name = name, !.id = starts', !.step = 1, !.quiet = TRUE]
<1>1. name \in Commands
  BY DEF Plan, Commands
<1>2. starts' \in Nat
  BY DEF Invoke, IInv
<1>3. DOMAIN r = Fields /\ r.name = name /\ r.id = starts' /\ r.step = 1 /\ r.catalog = None
  BY DEF Idle, Fields
<1>4. HasFields(r) /\ IsPast(r.catalog, game)
  BY <1>1, <1>2, <1>3 DEF HasFields, IsPast
<1>5. Quietly(p, r) /\ UNCHANGED <<game, store>>
  BY DEF Invoke
<1> HIDE DEF r
<1>6. CASE name = None
  <2>1. ~InCall(r)
    BY <1>3, <1>6 DEF InCall, CallsOf
  <2>2. Sound(r, game)
    BY <1>4, <2>1 DEF Sound, AtCall, HasCatalog, HasSeen, Agrees
  <2> QED
    BY <1>2, <1>5, <2>2, ProcessKeepsInv
<1>7. CASE name # None
  <2>1. CallsOf(r) = Plan[name] /\ Plan[name][1] \in {"locate", "recover"} /\ Catalogued[name] > 1
    BY <1>1, <1>3, <1>7, PlanIsFinite DEF CallsOf
  <2>2. ~AtCall(r, "patch") /\ ~AtCall(r, "read") /\ ~AtCall(r, "update")
    BY <1>3, <2>1 DEF AtCall
  <2>3. ~(Catalogued[r.name] <= r.step)
    BY <1>1, <1>3, <2>1 DEF Catalogued, Commands
  <2>4. Sound(r, game)
    BY <1>4, <2>2, <2>3 DEF Sound, HasCatalog, HasSeen, Agrees
  <2> QED
    BY <1>2, <1>5, <2>4, ProcessKeepsInv
<1> QED
  BY <1>6, <1>7

\* Calls that change nothing but the process that makes them.
LEMMA CheckKeepsInv ==
    ASSUME IInv, NEW p \in Procs, NEW call \in {"stopped", "persona"}, NEW ok, Check(p, call, ok)
    PROVE  IInv'
<1> DEFINE next == IF ok THEN Advanced(p) ELSE Ended(p, 1)
<1>1. AtCall(proc[p], call) /\ InCall(proc[p])
  BY AtIsAtCall DEF Check
<1>2. \A other \in {"extract", "catalog", "compare", "client", "patch"} : ~AtCall(proc[p], other)
  BY <1>1 DEF AtCall
<1>3. Sound(next, game)
  BY <1>1, <1>2, AdvanceIsSound, EndIsSound
<1>4. Quietly(p, next) /\ UNCHANGED <<game, store, starts>>
  BY DEF Check
<1> HIDE DEF next
<1> QED
  BY <1>3, <1>4, ProcessKeepsInv DEF IInv

LEMMA FindCacheKeepsInv ==
    ASSUME IInv, NEW p \in Procs, NEW search, FindCache(p, search)
    PROVE  IInv'
<1> DEFINE location == DiscoverCache(disk, search)
           found == [Advanced(p) EXCEPT !.location = location]
           next == IF location = None /\ ~Is(p, "status") THEN Ended(p, 1) ELSE found
<1>1. AtCall(proc[p], "locate") /\ InCall(proc[p])
  BY AtIsAtCall DEF FindCache
<1>2. \A other \in {"extract", "catalog", "compare", "client", "patch"} : ~AtCall(proc[p], other)
  BY <1>1 DEF AtCall
<1>3. Sound(found, game)
  BY <1>1, <1>2, AdvanceIsSound, OtherFieldsKeepSound
<1>4. Sound(next, game)
  BY <1>3, EndIsSound
<1>5. Quietly(p, next) /\ UNCHANGED <<game, store, starts>>
  BY DEF FindCache
<1> HIDE DEF next
<1> QED
  BY <1>4, <1>5, ProcessKeepsInv DEF IInv

LEMMA ReadCacheKeepsInv ==
    ASSUME IInv, NEW p \in Procs, ReadCache(p)
    PROVE  IInv'
<1> DEFINE file == proc[p].location.file
           found == [Advanced(p) EXCEPT !.original = cache[file]]
           next == IF cache[file].builds = Malformed THEN Ended(p, 1) ELSE found
<1>1. AtCall(proc[p], "read") /\ InCall(proc[p])
  BY AtIsAtCall DEF ReadCache
<1>2. \A other \in {"extract", "catalog", "compare", "client", "patch"} : ~AtCall(proc[p], other)
  BY <1>1 DEF AtCall
<1>3. Sound(found, game)
  BY <1>1, <1>2, AdvanceIsSound, OtherFieldsKeepSound
<1>4. Sound(next, game)
  BY <1>3, EndIsSound
<1>5. Quietly(p, next) /\ UNCHANGED <<game, store, starts>>
  BY DEF ReadCache
<1> HIDE DEF next
<1> QED
  BY <1>4, <1>5, ProcessKeepsInv DEF IInv

\* The last calls of a command.
LEMMA EndKeepsInv ==
    ASSUME IInv, NEW p \in Procs, NEW code, UNCHANGED <<game, store, starts>>,
           Quietly(p, Ended(p, code)) \/ Openly(p, Ended(p, code))
    PROVE  IInv'
BY EndIsSound, ProcessKeepsInv DEF IInv

LEMMA UpdateKeepsInv ==
    ASSUME IInv, NEW p \in Procs, Update(p)
    PROVE  IInv'
<1>1. UNCHANGED <<game, store, starts>>
  BY DEF Update
<1>2. Quietly(p, Ended(p, 1)) \/ \E code \in {0, 1} : Openly(p, Ended(p, code))
  BY DEF Update
<1> QED
  BY <1>1, <1>2, EndKeepsInv

LEMMA RestoreKeepsInv ==
    ASSUME IInv, NEW p \in Procs, RestoreLatest(p)
    PROVE  IInv'
<1>1. UNCHANGED <<game, store, starts>>
  BY DEF RestoreLatest
<1>2. Quietly(p, Ended(p, 1)) \/ Openly(p, Advanced(p))
  BY DEF RestoreLatest
<1>3. AtCall(proc[p], "restore") /\ InCall(proc[p])
  BY AtIsAtCall DEF RestoreLatest
<1>4. \A other \in {"extract", "catalog", "compare", "client", "patch"} : ~AtCall(proc[p], other)
  BY <1>3 DEF AtCall
<1>5. Sound(Advanced(p), game)
  BY <1>3, <1>4, AdvanceIsSound
<1> QED
  BY <1>1, <1>2, <1>5, EndKeepsInv, ProcessKeepsInv DEF IInv

LEMMA CompareKeepsInv ==
    ASSUME IInv, NEW p \in Procs, Compare(p)
    PROVE  IInv'
BY EndKeepsInv DEF Compare

\* recover_pending_artifacts restores a catalog that was there.
LEMMA RecoverKeepsInv ==
    ASSUME IInv, NEW p \in Procs, NEW call \in {"recover", "write"}, Recover(p, call)
    PROVE  IInv'
<1>1. AtCall(proc[p], call) /\ InCall(proc[p])
  BY AtIsAtCall DEF Recover
<1>2. \A other \in {"extract", "catalog", "compare", "client", "patch"} : ~AtCall(proc[p], other)
  BY <1>1 DEF AtCall
<1>3. Sound(Advanced(p), game)
  BY <1>1, <1>2, AdvanceIsSound
<1>4. UNCHANGED <<game, starts>>
  BY DEF Recover
<1>5. CASE Locked
  BY <1>4, <1>5, EndKeepsInv DEF Recover, store
<1>6. CASE ~Locked
  <2>1. Quietly(p, Advanced(p)) \/ Openly(p, Advanced(p))
    BY <1>6 DEF Recover
  <2>2. artifacts' = Restored /\ saved' = None /\ sources' = sources
    BY <1>6 DEF Recover
  <2>3. StoreIsPast'
    BY <1>4, <2>2 DEF Restored, IInv, StoreIsPast, IsPast
  <2> QED
    BY <1>3, <1>4, <2>1, <2>3, ProcessKeepsInv DEF IInv
<1> QED
  BY <1>5, <1>6

\* commit puts a catalog that the process has made in the place of another.
LEMMA MoveKeepsInv ==
    ASSUME IInv, NEW p \in Procs, MoveOld(p) \/ MoveNew(p)
    PROVE  IInv'
<1>1. UNCHANGED <<game, starts, sources>> /\ Openly(p, Advanced(p))
  BY DEF MoveOld, MoveNew
<1>2. PICK call \in {"moveOld", "moveNew"} : AtCall(proc[p], call) /\ InCall(proc[p])
  BY AtIsAtCall DEF MoveOld, MoveNew
<1>3. \A other \in {"extract", "catalog", "compare", "client", "patch"} : ~AtCall(proc[p], other)
  BY <1>2 DEF AtCall
<1>4. Sound(Advanced(p), game)
  BY <1>2, <1>3, AdvanceIsSound
<1>5. StoreIsPast'
  <2>1. CASE MoveOld(p)
    BY <1>1, <2>1 DEF MoveOld, IInv, StoreIsPast, IsPast
  <2>2. CASE MoveNew(p)
    <3>1. IsCatalog(proc[p].catalog, game)
      BY <2>2, AtIsAtCall, CatalogIsThere DEF MoveNew, IInv
    <3> QED
      BY <1>1, <2>2, <3>1 DEF MoveNew, IInv, StoreIsPast, IsPast
  <2> QED
    BY <2>1, <2>2
<1> QED
  BY <1>1, <1>4, <1>5, ProcessKeepsInv DEF IInv

\* The catalog of a new run has the client version of the first response.
LEMMA ExtractKeepsInv ==
    ASSUME IInv, NEW p \in Procs, NEW resume \in BOOLEAN, Extract(p, resume)
    PROVE  IInv'
<1> DEFINE r == proc[p]
           c == r.name
           i == r.step
<1>1. AtCall(r, "extract") /\ InCall(r) /\ UNCHANGED <<game, store, starts>>
  BY AtIsAtCall DEF Extract
<1>2. /\ c \in Commands /\ c # None /\ CallsOf(r) = Plan[c] /\ i \in DOMAIN Plan[c]
      /\ Plan[c][i] = "extract" /\ HasFields(r) /\ Sound(r, game) /\ game \in Versions
  BY <1>1 DEF AtCall, InCall, CallsOf, IInv, Sound, HasFields
<1>3. i + 1 \in DOMAIN Plan[c] /\ i + 2 \in DOMAIN Plan[c] /\ Plan[c][i + 2] = "write"
  BY <1>2, CatalogOrder, CallSkips
<1>4. CASE ~resume
  <2> DEFINE catalog == Catalog(r.id, game)
             next == [Advanced(p) EXCEPT !.catalog = catalog]
  <2>1. IsCatalog(catalog, game)
    BY <1>2 DEF Catalog, Catalogs, IsCatalog, Within, HasFields, Versions
  <2>2. Advanced(p) = [r EXCEPT !.step = @ + 1]
    BY <1>2, <1>3, PlanIsFinite DEF Advanced, Calls, CallsOf, HasFields
  <2>3. /\ DOMAIN next = Fields /\ next.name = c /\ next.step = i + 1 /\ next.id = r.id
        /\ next.catalog = catalog /\ next.seen = r.seen
    BY <1>2, <2>2 DEF HasFields, Fields
  <2>4. Quietly(p, next)
    BY <1>4 DEF Extract
  <2>5. HasFields(next)
    BY <1>2, <2>3 DEF HasFields
  <2> HIDE DEF next, catalog
  <2>6. \A call \in {"compare", "client", "patch", "read"} : ~AtCall(r, call)
    BY <1>1 DEF AtCall
  <2>7. Sound(next, game)
    BY <1>1, <1>2, <1>3, <2>1, <2>3, <2>5, <2>6, NextCallIsSound DEF IsPast
  <2> QED
    BY <1>1, <2>4, <2>7, ProcessKeepsInv DEF IInv
<1>5. CASE resume /\ sources = None
  BY <1>1, <1>5, EndKeepsInv DEF Extract
<1>6. CASE resume /\ sources # None
  <2> DEFINE catalog == Catalog(r.id, sources)
             next == [r EXCEPT !.catalog = catalog, !.step = @ + 2]
  <2>1. IsCatalog(catalog, game)
    BY <1>2, <1>6 DEF Catalog, Catalogs, IsCatalog, HasFields, IInv, StoreIsPast
  <2>2. /\ DOMAIN next = Fields /\ next.name = c /\ next.step = i + 2 /\ next.id = r.id
        /\ next.catalog = catalog
    BY <1>2 DEF HasFields, Fields
  <2>3. Quietly(p, next)
    BY <1>6 DEF Extract
  <2>4. HasFields(next)
    BY <1>2, <2>2 DEF HasFields
  <2> HIDE DEF next, catalog
  <2>5. \A call \in {"patch", "read", "update"} : ~AtCall(next, call)
    BY <1>2, <1>3, <2>2 DEF AtCall, CallsOf
  <2>6. Sound(next, game)
    BY <2>1, <2>2, <2>4, <2>5 DEF Sound, IsPast, HasCatalog, HasSeen, Agrees
  <2> QED
    BY <1>1, <2>3, <2>6, ProcessKeepsInv DEF IInv
<1> QED
  BY <1>4, <1>5, <1>6

\* The patch is that of a later response.
LEMMA ExtractPatchKeepsInv ==
    ASSUME IInv, NEW p \in Procs, ExtractPatch(p)
    PROVE  IInv'
<1> DEFINE r == proc[p]
           versions == [r.catalog.versions EXCEPT !.patch = game.patch]
           next == [Advanced(p) EXCEPT !.catalog.versions.patch = game.patch]
           catalog == [r.catalog EXCEPT !.versions = versions]
<1>1. AtCall(r, "extractPatch") /\ InCall(r) /\ UNCHANGED <<game, starts, artifacts, saved>>
  BY AtIsAtCall DEF ExtractPatch
<1>2. Sound(r, game) /\ IsCatalog(r.catalog, game) /\ game \in Versions
  BY <1>1, CatalogIsThere DEF IInv
<1>3. versions \in Versions /\ Within(versions, game)
  BY <1>2 DEF IsCatalog, Catalogs, Versions, Within
<1>4. IsCatalog(catalog, game)
  BY <1>2, <1>3 DEF IsCatalog, Catalogs
<1>5. StoreIsPast'
  <2>1. sources' = versions
    BY DEF ExtractPatch
  <2> QED
    BY <1>1, <1>3, <2>1 DEF IInv, StoreIsPast
<1>6. Quietly(p, next)
  BY DEF ExtractPatch
<1>7. r.step + 1 \in DOMAIN CallsOf(r) /\ Advanced(p) = [r EXCEPT !.step = @ + 1]
  <2>1. r.name \in Commands /\ CallsOf(r) = Plan[r.name] /\ r.step \in DOMAIN Plan[r.name]
    BY <1>1, <1>2 DEF Sound, HasFields, InCall, CallsOf
  <2>2. Plan[r.name][r.step] = "extractPatch"
    BY <1>1, <2>1 DEF AtCall
  <2>3. r.step + 1 \in DOMAIN Plan[r.name]
    BY <2>1, <2>2 DEF Plan, Commands
  <2>4. Calls(p) = Plan[r.name]
    BY <2>1 DEF Calls, CallsOf
  <2> QED
    BY <1>2, <2>1, <2>3, <2>4, PlanIsFinite DEF Advanced, Sound, HasFields
<1>8. /\ DOMAIN next = Fields /\ next.name = r.name /\ next.step = r.step + 1 /\ next.id = r.id
      /\ next.catalog = catalog /\ next.seen = r.seen
  BY <1>2, <1>7 DEF Sound, HasFields, Fields
<1>9. HasFields(next)
  BY <1>2, <1>8 DEF Sound, HasFields
<1>10. \A call \in {"compare", "client", "patch", "read"} : ~AtCall(r, call)
  BY <1>1 DEF AtCall
<1> HIDE DEF next, catalog
<1>11. Sound(next, game)
  BY <1>1, <1>2, <1>4, <1>7, <1>8, <1>9, <1>10, NextCallIsSound DEF IsPast
<1> QED
  BY <1>1, <1>5, <1>6, <1>11, ProcessKeepsInv DEF IInv
\* A catalog that was read is one that a command has made; status goes on without one.
LEMMA ReadCatalogKeepsInv ==
    ASSUME IInv, NEW p \in Procs, ReadCatalog(p)
    PROVE  IInv'
<1> DEFINE r == proc[p]
           c == r.name
           i == r.step
<1>1. AtCall(r, "catalog") /\ InCall(r) /\ UNCHANGED <<game, store, starts>>
  BY AtIsAtCall DEF ReadCatalog
<1>2. /\ c \in Commands /\ c # None /\ CallsOf(r) = Plan[c] /\ i \in DOMAIN Plan[c]
      /\ Plan[c][i] = "catalog" /\ HasFields(r) /\ Sound(r, game)
  BY <1>1 DEF AtCall, InCall, CallsOf, IInv, Sound, HasFields
<1>3. i + 1 \in DOMAIN Plan[c] /\ c \in {"install", "status"}
  BY <1>2, CatalogOrder, CallSkips
<1>4. CASE artifacts \notin {None, Malformed}
  <2> DEFINE next == [Advanced(p) EXCEPT !.catalog = artifacts]
  <2>1. IsCatalog(artifacts, game)
    BY <1>4 DEF IInv, StoreIsPast, IsPast
  <2>2. Advanced(p) = [r EXCEPT !.step = @ + 1]
    BY <1>2, <1>3, PlanIsFinite DEF Advanced, Calls, CallsOf, HasFields
  <2>3. /\ DOMAIN next = Fields /\ next.name = c /\ next.step = i + 1 /\ next.id = r.id
        /\ next.catalog = artifacts /\ next.seen = r.seen
    BY <1>2, <2>2 DEF HasFields, Fields
  <2>4. Quietly(p, next)
    BY <1>4 DEF ReadCatalog
  <2>5. HasFields(next)
    BY <1>2, <2>3 DEF HasFields
  <2> HIDE DEF next
  <2>6. \A call \in {"compare", "client", "patch", "read"} : ~AtCall(r, call)
    BY <1>1 DEF AtCall
  <2>7. Sound(next, game)
    BY <1>1, <1>2, <1>3, <2>1, <2>3, <2>5, <2>6, NextCallIsSound DEF IsPast
  <2> QED
    BY <1>1, <2>4, <2>7, ProcessKeepsInv DEF IInv
<1>5. CASE artifacts \in {None, Malformed} /\ Is(p, "install")
  BY <1>1, <1>5, EndKeepsInv DEF ReadCatalog
<1>6. CASE artifacts \in {None, Malformed} /\ ~Is(p, "install")
  <2> DEFINE next == [r EXCEPT !.catalog = artifacts, !.step = Len(Calls(p))]
  <2>1. c = "status" /\ Calls(p) = Plan[c]
    BY <1>2, <1>3, <1>6 DEF Is, Calls, CallsOf
  <2>2. Len(Plan[c]) \in Nat /\ Plan[c][Len(Plan[c])] = "compare"
    BY <1>2, <2>1, PlanIsFinite
  <2>3. /\ DOMAIN next = Fields /\ next.name = c /\ next.step = Len(Plan[c]) /\ next.id = r.id
        /\ next.catalog = artifacts
    BY <1>2, <2>1 DEF HasFields, Fields
  <2>4. Quietly(p, next)
    BY <1>6 DEF ReadCatalog
  <2>5. HasFields(next)
    BY <1>2, <2>2, <2>3 DEF HasFields
  <2> HIDE DEF next
  <2>6. CallsOf(next) = Plan[c]
    BY <1>2, <2>3 DEF CallsOf
  <2>7. InCall(next) => AtCall(next, "compare")
    BY <2>2, <2>3, <2>6 DEF AtCall, InCall
  <2>8. \A call \in {"patch", "read", "update"} : ~AtCall(next, call)
    BY <2>2, <2>3, <2>6 DEF AtCall
  <2>9. Sound(next, game)
    BY <1>6, <2>3, <2>5, <2>7, <2>8 DEF Sound, IsPast, HasCatalog, HasSeen, Agrees
  <2> QED
    BY <1>1, <2>4, <2>9, ProcessKeepsInv DEF IInv
<1> QED
  BY <1>4, <1>5, <1>6

\* The client version is asked for when the catalog is there: no version that a
\* process sees is before one of its catalog.
LEMMA ResolveClientKeepsInv ==
    ASSUME IInv, NEW p \in Procs, ResolveClient(p)
    PROVE  IInv'
<1> DEFINE r == proc[p]
           step == [r EXCEPT !.step = @ + 1]
           next == [Advanced(p) EXCEPT !.seen = game]
<1>1. AtCall(r, "client") /\ InCall(r) /\ UNCHANGED <<game, store, starts>>
  BY AtIsAtCall DEF ResolveClient
<1>2. Sound(r, game) /\ IsCatalog(r.catalog, game) /\ game \in Versions
  BY <1>1, CatalogIsThere DEF IInv
<1>3. r.step + 1 \in DOMAIN CallsOf(r) /\ Advanced(p) = step
  <2>1. r.name \in Commands /\ CallsOf(r) = Plan[r.name] /\ r.step \in DOMAIN Plan[r.name]
    BY <1>1, <1>2 DEF Sound, HasFields, InCall, CallsOf
  <2>2. Plan[r.name][r.step] = "client"
    BY <1>1, <2>1 DEF AtCall
  <2>3. r.step + 1 \in DOMAIN Plan[r.name]
    BY <2>1, <2>2 DEF Plan, Commands
  <2>4. Calls(p) = Plan[r.name]
    BY <2>1 DEF Calls, CallsOf
  <2> QED
    BY <1>2, <2>1, <2>3, <2>4, PlanIsFinite DEF Advanced, Sound, HasFields
<1>4. /\ DOMAIN next = Fields /\ next.name = r.name /\ next.step = r.step + 1 /\ next.id = r.id
      /\ next.catalog = r.catalog /\ next.seen = game
  BY <1>2, <1>3 DEF Sound, HasFields, Fields
<1>5. HasFields(next)
  BY <1>2, <1>4 DEF Sound, HasFields
<1>6. \A call \in {"extract", "catalog", "compare", "patch", "read"} : ~AtCall(r, call)
  BY <1>1 DEF AtCall
<1>7. Within(game, game) /\ Within(r.catalog.versions, game)
  BY <1>2 DEF Within, Versions, IsCatalog
<1>8. Quietly(p, next)
  BY DEF ResolveClient
<1> HIDE DEF next
<1>9. Sound(next, game)
  BY <1>1, <1>2, <1>3, <1>4, <1>5, <1>6, <1>7, NextCallIsSound DEF IsPast
<1> QED
  BY <1>1, <1>8, <1>9, ProcessKeepsInv DEF IInv

\* A catalog with the patch of now and the client version seen before has the patch
\* that was seen before too: it is between the two.
LEMMA ResolvePatchKeepsInv ==
    ASSUME IInv, NEW p \in Procs, ResolvePatch(p)
    PROVE  IInv'
<1> DEFINE r == proc[p]
           fresh == IsFresh(r.catalog, r.seen.client, game.patch)
           next == [Advanced(p) EXCEPT !.seen = IF fresh THEN @ ELSE None]
<1>1. AtCall(r, "patch") /\ InCall(r) /\ UNCHANGED <<game, store, starts>>
  BY AtIsAtCall DEF ResolvePatch
<1>2. Sound(r, game) /\ IsCatalog(r.catalog, game) /\ game \in Versions
  BY <1>1, CatalogIsThere DEF IInv
<1>3. CASE ~fresh /\ ~Is(p, "status")
  BY <1>1, <1>3, EndKeepsInv DEF ResolvePatch
<1>4. CASE fresh \/ Is(p, "status")
  <2>1. r.step + 1 \in DOMAIN CallsOf(r) /\ Advanced(p) = [r EXCEPT !.step = @ + 1]
    <3>1. r.name \in Commands /\ CallsOf(r) = Plan[r.name] /\ r.step \in DOMAIN Plan[r.name]
      BY <1>1, <1>2 DEF Sound, HasFields, InCall, CallsOf
    <3>2. Plan[r.name][r.step] = "patch"
      BY <1>1, <3>1 DEF AtCall
    <3>3. r.step + 1 \in DOMAIN Plan[r.name]
      BY <3>1, <3>2 DEF Plan, Commands
    <3>4. Calls(p) = Plan[r.name]
      BY <3>1 DEF Calls, CallsOf
    <3> QED
      BY <1>2, <3>1, <3>3, <3>4, PlanIsFinite DEF Advanced, Sound, HasFields
  <2>2. /\ DOMAIN next = Fields /\ next.name = r.name /\ next.step = r.step + 1 /\ next.id = r.id
        /\ next.catalog = r.catalog /\ (fresh => next.seen = r.seen)
    BY <1>2, <2>1 DEF Sound, HasFields, Fields
  <2>3. HasFields(next)
    BY <1>2, <2>2 DEF Sound, HasFields
  <2>4. \A call \in {"extract", "catalog", "compare", "client", "read"} : ~AtCall(r, call)
    BY <1>1 DEF AtCall
  <2>5. fresh => r.catalog.versions = r.seen
    <3> SUFFICES ASSUME fresh PROVE r.catalog.versions = r.seen
      OBVIOUS
    <3>1. /\ r.seen \in Versions /\ r.catalog.versions \in Versions
          /\ Within(r.seen, game) /\ Within(r.catalog.versions, r.seen)
      BY <1>1, <1>2 DEF Sound, HasSeen, IsCatalog, Catalogs
    <3>2. r.catalog.versions.client = r.seen.client /\ r.catalog.versions.patch = game.patch
      BY DEF IsFresh
    <3>3. r.catalog.versions.patch = r.seen.patch
      BY <1>2, <3>1, <3>2 DEF Within, Versions
    <3> QED
      BY <3>1, <3>2, <3>3 DEF Versions
  <2>6. Quietly(p, next)
    BY <1>4 DEF ResolvePatch
  <2>7. r.name = "status" \/ next.catalog.versions = next.seen
    BY <1>4, <2>2, <2>5 DEF Is
  <2> HIDE DEF next, fresh
  <2>8. Sound(next, game)
    BY <1>1, <1>2, <2>1, <2>2, <2>3, <2>4, <2>7, NextCallIsSound DEF IsPast
  <2> QED
    BY <1>1, <2>6, <2>8, ProcessKeepsInv DEF IInv
<1> QED
  BY <1>3, <1>4

-----------------------------------------------------------------------------
(* What fails, and what others do. *)

LEMMA FailureKeepsInv ==
    ASSUME IInv, NEW p \in Procs, Fail(p) \/ Kill(p)
    PROVE  IInv'
<1>1. UNCHANGED <<game, sources, starts>>
  BY DEF Fail, Kill, store
<1>2. Quietly(p, Idle) \/ Openly(p, Idle)
  BY DEF Fail, Kill
<1>3. UNCHANGED <<artifacts, saved>> \/ (artifacts' = Restored /\ saved' = None)
  BY DEF Fail, Kill, store
<1>4. StoreIsPast'
  BY <1>1, <1>3 DEF IInv, StoreIsPast, Restored, IsPast
<1> QED
  BY <1>1, <1>2, <1>4, IdleIsSound, ProcessKeepsInv DEF IInv

LEMMA OthersKeepInv == ASSUME IInv, Others PROVE IInv'
<1>1. Disturb /\ UNCHANGED <<store, starts>>
  BY DEF Others, UpdateGame, Toggle, AddCaches, Save, Event
<1>2. game' \in Versions /\ Within(game, game')
  <2>1. CASE UpdateGame
    <3>1. PICK client \in game.client .. MaxVersion, patch \in game.patch .. MaxVersion :
            game' = [client |-> client, patch |-> patch]
      BY <2>1 DEF UpdateGame
    <3>2. game.client \in Nat /\ game.patch \in Nat /\ MaxVersion \in Nat
      BY VersionsAssumption DEF IInv, Versions
    <3> QED
      BY <3>1, <3>2 DEF Versions, Within
  <2>2. CASE UNCHANGED game
    BY <2>2 DEF IInv, Versions, Within
  <2> QED
    BY <2>1, <2>2 DEF Others, Toggle, AddCaches, Save
<1>3. DOMAIN proc' = Procs /\ \A p \in Procs : Sound(proc'[p], game')
  BY <1>1, <1>2, DisturbanceIsSound
<1>4. StoreIsPast'
  BY <1>1, <1>2, StoreStaysPast
<1> QED
  BY <1>1, <1>2, <1>3, <1>4 DEF IInv

LEMMA InitInv == Init => IInv
<1> SUFFICES ASSUME Init PROVE IInv
  OBVIOUS
<1>1. game \in Versions /\ starts \in Nat
  BY DEF Init, Versions
<1>2. IsCatalog(Catalog(0, game), game)
  BY <1>1 DEF IsCatalog, Catalog, Catalogs, Within, Versions
<1>3. StoreIsPast
  BY <1>2 DEF Init, StoreIsPast, IsPast
<1>4. DOMAIN proc = Procs /\ \A p \in Procs : Sound(proc[p], game)
  BY IdleIsSound DEF Init
<1> QED
  BY <1>1, <1>3, <1>4 DEF IInv

LEMMA StepInv == IInv /\ [Next]_vars => IInv'
<1> SUFFICES ASSUME IInv, [Next]_vars PROVE IInv'
  OBVIOUS
<1>1. ASSUME NEW p \in Procs, Step(p) PROVE IInv'
  <2>1. ASSUME RequireStopped(p) \/ \E configured \in Personas : FindPersona(p, configured)
        PROVE  IInv'
    BY <2>1, CheckKeepsInv DEF RequireStopped, FindPersona
  <2>2. ASSUME Recover(p, "recover") \/ Recover(p, "write") PROVE IInv'
    BY <2>2, RecoverKeepsInv
  <2> QED
    BY <1>1, <2>1, <2>2, FindCacheKeepsInv, ExtractKeepsInv, ExtractPatchKeepsInv,
       MoveKeepsInv, ReadCatalogKeepsInv, ResolveClientKeepsInv, ResolvePatchKeepsInv,
       ReadCacheKeepsInv, UpdateKeepsInv, RestoreKeepsInv, CompareKeepsInv
       DEF Step
<1>2. ASSUME NEW p \in Procs, Fail(p) \/ Kill(p) PROVE IInv'
  BY <1>2, FailureKeepsInv
<1>3. ASSUME NEW p \in Procs, NEW name \in DOMAIN Plan, Invoke(p, name) PROVE IInv'
  BY <1>3, InvokeKeepsInv
<1>4. CASE Others
  BY <1>4, OthersKeepInv
<1>5. CASE UNCHANGED vars
  <2>1. UNCHANGED <<game, starts, store, artifacts, saved, sources, proc>>
    BY <1>5 DEF vars, store
  <2> QED
    BY <2>1 DEF IInv, StoreIsPast
<1> QED
  BY <1>1, <1>2, <1>3, <1>4, <1>5 DEF Next

-----------------------------------------------------------------------------
\* In every reachable state the inductive invariant holds.
THEOREM Invariance == Spec => []IInv
<1> QED
  BY InitInv, StepInv, PTL DEF Spec

\* install_catalog (build_workflow.rs:107): a catalog that a command writes to a cache
\* has exactly the versions that the game had when the client version was asked for,
\* whatever is updated, killed, built or resumed by anyone at any time.
THEOREM WrittenCatalogWasCurrent == Spec => NothingStaleIsWritten
<1>1. IInv => \A p \in Procs : At(p, "update") => proc[p].catalog.versions = proc[p].seen
  BY AtIsAtCall DEF IInv, Sound, Agrees
<1>2. IInv => [\A p \in Procs : At(p, "update") /\ proc'[p].step = 0
                    => proc[p].catalog.versions = proc[p].seen]_cache
  BY <1>1
<1> QED
  BY <1>2, Invariance, PTL DEF NothingStaleIsWritten

-----------------------------------------------------------------------------
(* Folds over sequences, which the search is made of. *)

LEMMA LeastNumber ==
    ASSUME NEW S, S \subseteq Nat, S # {}
    PROVE  \E m \in S : \A n \in S : m <= n
<1> DEFINE Less == {pair \in Nat \X Nat : pair[1] < pair[2]}
<1>1. IsWellFoundedOn(Less, Nat)
  BY NatLessThanWellFounded, Zenon DEF OpToRel
<1>2. PICK m \in S : \A n \in S : <<n, m>> \notin Less
  BY <1>1, WFMin
<1>3. ASSUME NEW n \in S PROVE m <= n
  <2>1. <<n, m>> \in Nat \X Nat /\ ~(<<n, m>>[1] < <<n, m>>[2])
    BY <1>2
  <2> QED
    BY <2>1
<1> QED
  BY <1>3

LEMMA NumberInduction ==
    ASSUME NEW P, 0 \in P, \A n \in Nat : n \in P => n + 1 \in P
    PROVE  Nat \subseteq P
<1> SUFFICES ASSUME Nat \ P # {} PROVE FALSE
  OBVIOUS
<1>1. PICK m \in Nat \ P : \A n \in Nat \ P : m <= n
  BY LeastNumber
<1>2. m # 0 /\ m - 1 \in Nat /\ ~(m <= m - 1)
  BY <1>1
<1>3. m - 1 \in P
  BY <1>1, <1>2
<1>4. (m - 1) + 1 = m
  BY <1>1
<1> QED
  BY <1>1, <1>2, <1>3, <1>4

\* A fold over a sequence of n elements goes through the subsets of its places.
FoldsOf(X, n, base, step) ==
    {g \in [SUBSET (1 .. n) -> X] :
        /\ g[{}] = base
        /\ \A s \in SUBSET (1 .. n) : s # {} =>
              Max(s) \in 1 .. n /\ g[s] = step[<<g[s \ {Max(s)}], Max(s)>>]}

LEMMA MaxIs ==
    ASSUME NEW s, NEW m \in Nat, m \in s, \A x \in s : x \in Nat /\ x <= m
    PROVE  Max(s) = m
<1>1. m \in s /\ \A y \in s : m >= y
  OBVIOUS
<1>2. ASSUME NEW x \in s, \A y \in s : x >= y PROVE x = m
  BY <1>2
<1> QED
  BY <1>1, <1>2 DEF Max

\* There is such a fold, so that the one that FoldLeft chooses is one.
LEMMA FoldExists ==
    ASSUME NEW X, NEW n \in Nat, NEW base \in X, NEW step \in [X \X (1 .. n) -> X]
    PROVE  FoldsOf(X, n, base, step) # {}
<1> DEFINE Solved == {m \in Nat : m <= n => FoldsOf(X, m, base, step) # {}}
<1>1. 0 \in Solved
  <2> DEFINE g == [s \in SUBSET (1 .. 0) |-> base]
  <2>1. \A s \in SUBSET (1 .. 0) : s = {}
    OBVIOUS
  <2>2. g \in [SUBSET (1 .. 0) -> X] /\ g[{}] = base
    OBVIOUS
  <2> HIDE DEF g
  <2>3. g \in FoldsOf(X, 0, base, step)
    BY <2>1, <2>2 DEF FoldsOf
  <2> QED
    BY <2>3
<1>2. ASSUME NEW m \in Nat, m \in Solved PROVE m + 1 \in Solved
  <2> SUFFICES ASSUME m + 1 <= n PROVE FoldsOf(X, m + 1, base, step) # {}
    OBVIOUS
  <2>0. m <= n
    OBVIOUS
  <2>1. PICK f : f \in FoldsOf(X, m, base, step)
    BY <1>2, <2>0
  <2>a. /\ f \in [SUBSET (1 .. m) -> X] /\ f[{}] = base
        /\ \A s \in SUBSET (1 .. m) : s # {} =>
             Max(s) \in 1 .. m /\ f[s] = step[<<f[s \ {Max(s)}], Max(s)>>]
    BY <2>1 DEF FoldsOf
  <2> DEFINE All == SUBSET (1 .. m + 1)
             g == [s \in All |-> IF m + 1 \in s THEN step[<<f[s \ {m + 1}], m + 1>>] ELSE f[s]]
  <2>2. \A s \in All : /\ s \ {m + 1} \in SUBSET (1 .. m)
                       /\ m + 1 \notin s => s \in SUBSET (1 .. m)
    OBVIOUS
  <2>3. ASSUME NEW s \in All PROVE g[s] \in X
    <3>1. CASE m + 1 \in s
      <4>1. f[s \ {m + 1}] \in X /\ m + 1 \in 1 .. n
        BY <2>a, <2>2
      <4>2. step[<<f[s \ {m + 1}], m + 1>>] \in X
        BY <4>1
      <4> QED
        BY <3>1, <4>2
    <3>2. CASE m + 1 \notin s
      BY <2>a, <2>2, <3>2
    <3> QED
      BY <3>1, <3>2
  <2>4. g \in [All -> X]
    BY <2>3
  <2>5. g[{}] = base
    BY <2>a
  <2>6. ASSUME NEW s \in All, s # {}
        PROVE  Max(s) \in 1 .. m + 1 /\ g[s] = step[<<g[s \ {Max(s)}], Max(s)>>]
    <3>1. CASE m + 1 \in s
      <4>1. Max(s) = m + 1
        <5>1. \A x \in s : x \in Nat /\ x <= m + 1
          OBVIOUS
        <5>2. m + 1 \in Nat
          OBVIOUS
        <5> QED
          BY <3>1, <5>1, <5>2, MaxIs
      <4>2. s \ {m + 1} \in All /\ g[s \ {m + 1}] = f[s \ {m + 1}]
        BY <2>2
      <4> QED
        BY <3>1, <4>1, <4>2
    <3>2. CASE m + 1 \notin s
      <4>1. s \in SUBSET (1 .. m) /\ s \ {Max(s)} \in All /\ m + 1 \notin s \ {Max(s)}
        BY <2>2, <3>2
      <4>2. g[s] = f[s] /\ g[s \ {Max(s)}] = f[s \ {Max(s)}]
        BY <3>2, <4>1
      <4>3. Max(s) \in 1 .. m + 1 /\ f[s] = step[<<f[s \ {Max(s)}], Max(s)>>]
        BY <2>a, <2>6, <4>1
      <4> QED
        BY <4>2, <4>3
    <3> QED
      BY <3>1, <3>2
  <2> HIDE DEF g
  <2>7. g \in FoldsOf(X, m + 1, base, step)
    BY <2>4, <2>5, <2>6 DEF FoldsOf
  <2> QED
    BY <2>7
<1> HIDE DEF Solved
<1>3. n \in Solved
  BY <1>1, <1>2, NumberInduction
<1> QED
  BY <1>3 DEF Solved

LEMMA MaxOfInterval ==
    ASSUME NEW n \in Nat, n # 0
    PROVE  Max(1 .. n) = n
<1> DEFINE s == 1 .. n
<1>1. n \in s /\ \A x \in s : x \in Nat /\ x <= n
  OBVIOUS
<1> HIDE DEF s
<1>2. Max(s) = n
  BY <1>1, MaxIs
<1> QED
  BY <1>2 DEF s

\* What holds at first, and after each element, holds of a fold.
LEMMA FoldReaches ==
    ASSUME NEW P, NEW n \in Nat, NEW g, g[{}] \in P[0],
           \A m \in 1 .. n : g[(1 .. m) \ {Max(1 .. m)}] \in P[m - 1] => g[1 .. m] \in P[m]
    PROVE  g[1 .. n] \in P[n]
<1> DEFINE Reached == {m \in Nat : m <= n => g[1 .. m] \in P[m]}
<1>1. 0 \in Reached
  <2>1. 1 .. 0 = {}
    OBVIOUS
  <2> QED
    BY <2>1
<1>2. ASSUME NEW m \in Nat, m \in Reached PROVE m + 1 \in Reached
  <2> SUFFICES ASSUME m + 1 <= n PROVE g[1 .. m + 1] \in P[m + 1]
    OBVIOUS
  <2>1. Max(1 .. m + 1) = m + 1
    <3>1. m + 1 \in Nat /\ m + 1 # 0
      OBVIOUS
    <3> QED
      BY <3>1, MaxOfInterval
  <2>2. (1 .. m + 1) \ {m + 1} = 1 .. m /\ (m + 1) - 1 = m
    OBVIOUS
  <2>3. m + 1 \in 1 .. n /\ g[1 .. m] \in P[m]
    BY <1>2
  <2> QED
    BY <2>1, <2>2, <2>3
<1> HIDE DEF Reached
<1>3. n \in Reached
  BY <1>1, <1>2, NumberInduction
<1>4. n <= n
  OBVIOUS
<1> QED
  BY <1>3, <1>4 DEF Reached

LEMMA ToSetOfAppend ==
    ASSUME NEW Y, NEW s \in Seq(Y), NEW y \in Y
    PROVE  ToSet(Append(s, y)) = ToSet(s) \cup {y}
<1> DEFINE t == Append(s, y)
<1>1. /\ Len(s) \in Nat /\ DOMAIN s = 1 .. Len(s) /\ DOMAIN t = 1 .. Len(s) + 1
      /\ \A i \in 1 .. Len(s) : t[i] = s[i]
      /\ t[Len(s) + 1] = y
  BY LenProperties, AppendProperties
<1> HIDE DEF t
<1>2. \A i \in 1 .. Len(s) + 1 : i \in 1 .. Len(s) \/ i = Len(s) + 1
  BY <1>1
<1>3. ToSet(t) = ToSet(s) \cup {y}
  BY <1>1, <1>2 DEF ToSet
<1> QED
  BY <1>3 DEF t

\* steam_roots has each directory of the candidates, and nothing else.
LEMMA SteamRootsType ==
    ASSUME NEW d \in {FirstDisk, LaterDisk}
    PROVE  /\ SteamRoots(d) \in Seq(ToSet(d.roots))
           /\ ToSet(SteamRoots(d)) = ToSet(d.roots) \ {None}
<1> DEFINE Y == ToSet(d.roots)
           X == Seq(Y)
           seq == d.roots
           n == Len(seq)
           Next1(roots, dir) ==
               IF dir = None \/ Contains(roots, dir) THEN roots ELSE Append(roots, dir)
           Body(g) == [s \in SUBSET DOMAIN seq |->
                         IF s = {} THEN <<>> ELSE Next1(g[s \ {Max(s)}], seq[Max(s)])]
           fold == CHOOSE g : g = Body(g)
           step == [pair \in X \X (1 .. n) |-> Next1(pair[1], seq[pair[2]])]
<1>1. seq \in Seq(Y) /\ n \in Nat /\ DOMAIN seq = 1 .. n /\ \A i \in 1 .. n : seq[i] \in Y
  BY DisksAssumption, LenProperties, ElementOfSeq
<1>2. SteamRoots(d) = fold[DOMAIN seq]
  BY DEF SteamRoots, FoldLeft, MapThenFoldSet
<1>3. <<>> \in X
  BY EmptySeq
<1> HIDE DEF Y, seq, n
<1>4. ASSUME NEW roots \in X, NEW i \in 1 .. n PROVE Next1(roots, seq[i]) \in X
  BY <1>1, AppendProperties
<1> HIDE DEF Next1, X
<1>5. step \in [X \X (1 .. n) -> X] /\ \A x \in X, i \in 1 .. n : step[<<x, i>>] = Next1(x, seq[i])
  BY <1>4
<1> HIDE DEF step
<1>6. PICK g : g \in FoldsOf(X, n, <<>>, step)
  BY <1>1, <1>3, <1>5, FoldExists
<1>7. g = Body(g)
  <2>1. g \in [SUBSET (1 .. n) -> X]
    BY <1>6 DEF FoldsOf
  <2>2. ASSUME NEW s \in SUBSET (1 .. n) PROVE g[s] = Body(g)[s]
    <3>1. CASE s = {}
      BY <1>1, <1>6, <3>1 DEF FoldsOf
    <3>2. CASE s # {}
      <4>1. Max(s) \in 1 .. n /\ g[s] = step[<<g[s \ {Max(s)}], Max(s)>>]
        BY <1>6, <3>2 DEF FoldsOf
      <4>2. g[s \ {Max(s)}] \in X
        BY <2>1
      <4> QED
        BY <1>1, <1>5, <3>2, <4>1, <4>2
    <3> QED
      BY <3>1, <3>2
  <2> QED
    BY <1>1, <2>1, <2>2
<1>8. fold = Body(fold)
  BY <1>7
<1> HIDE DEF fold
<1>9. fold[{}] = <<>>
  BY <1>8
<1> DEFINE P == [m \in 0 .. n |-> {x \in X : ToSet(x) = {seq[i] : i \in 1 .. m} \ {None}}]
<1>10. ASSUME NEW m \in 1 .. n, fold[(1 .. m) \ {Max(1 .. m)}] \in P[m - 1]
       PROVE  fold[1 .. m] \in P[m]
  <2> DEFINE before == fold[(1 .. m) \ {Max(1 .. m)}]
  <2>0. m \in Nat /\ m # 0 /\ m - 1 \in 0 .. n /\ m \in 0 .. n
    BY <1>1
  <2>1. Max(1 .. m) = m /\ 1 .. m \in SUBSET (1 .. n) /\ 1 .. m # {}
    <3>1. 1 .. m \in SUBSET (1 .. n) /\ m \in 1 .. m
      BY <1>1
    <3> QED
      BY <2>0, <3>1, MaxOfInterval
  <2>2. fold[1 .. m] = Next1(before, seq[m])
    BY <1>1, <1>8, <2>1
  <2>3. before \in X /\ ToSet(before) = {seq[i] : i \in 1 .. m - 1} \ {None}
    <3>1. before \in P[m - 1]
      BY <1>10
    <3>2. P[m - 1] = {x \in X : ToSet(x) = {seq[i] : i \in 1 .. m - 1} \ {None}}
      BY <2>0
    <3> HIDE DEF P, before
    <3> QED
      BY <3>1, <3>2
  <2>4. {seq[i] : i \in 1 .. m} = {seq[i] : i \in 1 .. m - 1} \cup {seq[m]}
    BY <1>1
  <2> HIDE DEF before
  <2>5. CASE seq[m] = None \/ Contains(before, seq[m])
    <3>1. fold[1 .. m] = before
      BY <2>2, <2>5 DEF Next1
    <3>2. seq[m] \in ToSet(before) \cup {None}
      BY <2>5 DEF Contains, ToSet
    <3> QED
      BY <2>0, <2>3, <2>4, <3>1, <3>2
  <2>6. CASE seq[m] # None /\ ~Contains(before, seq[m])
    <3>1. fold[1 .. m] = Append(before, seq[m])
      BY <2>2, <2>6 DEF Next1
    <3>2. fold[1 .. m] \in X /\ ToSet(fold[1 .. m]) = ToSet(before) \cup {seq[m]}
      <4>1. before \in Seq(Y) /\ seq[m] \in Y
        BY <1>1, <2>3 DEF X
      <4>2. ToSet(Append(before, seq[m])) = ToSet(before) \cup {seq[m]}
        BY <4>1, ToSetOfAppend
      <4> QED
        BY <3>1, <4>1, <4>2, AppendProperties DEF X
    <3> QED
      BY <2>0, <2>3, <2>4, <2>6, <3>2
  <2> QED
    BY <2>5, <2>6
<1>11. fold[{}] \in P[0]
  <2>1. ToSet(<<>>) = {}
    BY DEF ToSet
  <2> QED
    BY <1>1, <1>3, <1>9, <2>1
<1> HIDE DEF P
<1>12. fold[1 .. n] \in P[n]
  BY <1>1, <1>10, <1>11, FoldReaches
<1>13. ToSet(seq) = {seq[i] : i \in 1 .. n}
  BY <1>1 DEF ToSet
<1> QED
  BY <1>1, <1>2, <1>12, <1>13 DEF P, X, Y, seq

\* Without a selection, the accounts of a search are all that are listed but account 0.
LEMMA AllAccountsType ==
    ASSUME NEW d \in {FirstDisk, LaterDisk}
    PROVE  /\ AccountDirectories(d, None) \in Seq(ToSet(d.accounts))
           /\ ToSet(AccountDirectories(d, None)) = ToSet(d.accounts) \ {0}
<1> DEFINE Y == ToSet(d.accounts)
           X == Seq(Y)
           seq == d.accounts
           n == Len(seq)
           Next1(accounts, account) ==
               IF account = 0 THEN accounts ELSE Append(accounts, account)
           Body(g) == [s \in SUBSET DOMAIN seq |->
                         IF s = {} THEN <<>> ELSE Next1(g[s \ {Max(s)}], seq[Max(s)])]
           fold == CHOOSE g : g = Body(g)
           step == [pair \in X \X (1 .. n) |-> Next1(pair[1], seq[pair[2]])]
<1>1. seq \in Seq(Y) /\ n \in Nat /\ DOMAIN seq = 1 .. n /\ \A i \in 1 .. n : seq[i] \in Y
  BY DisksAssumption, LenProperties, ElementOfSeq
<1>2. AccountDirectories(d, None) = fold[DOMAIN seq]
  BY DEF AccountDirectories, FoldLeft, MapThenFoldSet
<1>3. <<>> \in X
  BY EmptySeq
<1> HIDE DEF Y, seq, n
<1>4. ASSUME NEW accounts \in X, NEW i \in 1 .. n PROVE Next1(accounts, seq[i]) \in X
  BY <1>1, AppendProperties
<1> HIDE DEF Next1, X
<1>5. step \in [X \X (1 .. n) -> X] /\ \A x \in X, i \in 1 .. n : step[<<x, i>>] = Next1(x, seq[i])
  BY <1>4
<1> HIDE DEF step
<1>6. PICK g : g \in FoldsOf(X, n, <<>>, step)
  BY <1>1, <1>3, <1>5, FoldExists
<1>7. g = Body(g)
  <2>1. g \in [SUBSET (1 .. n) -> X]
    BY <1>6 DEF FoldsOf
  <2>2. ASSUME NEW s \in SUBSET (1 .. n) PROVE g[s] = Body(g)[s]
    <3>1. CASE s = {}
      BY <1>1, <1>6, <3>1 DEF FoldsOf
    <3>2. CASE s # {}
      <4>1. Max(s) \in 1 .. n /\ g[s] = step[<<g[s \ {Max(s)}], Max(s)>>]
        BY <1>6, <3>2 DEF FoldsOf
      <4>2. g[s \ {Max(s)}] \in X
        BY <2>1
      <4> QED
        BY <1>1, <1>5, <3>2, <4>1, <4>2
    <3> QED
      BY <3>1, <3>2
  <2> QED
    BY <1>1, <2>1, <2>2
<1>8. fold = Body(fold)
  BY <1>7
<1> HIDE DEF fold
<1>9. fold[{}] = <<>>
  BY <1>8
<1> DEFINE P == [m \in 0 .. n |-> {x \in X : ToSet(x) = {seq[i] : i \in 1 .. m} \ {0}}]
<1>10. ASSUME NEW m \in 1 .. n, fold[(1 .. m) \ {Max(1 .. m)}] \in P[m - 1]
       PROVE  fold[1 .. m] \in P[m]
  <2> DEFINE before == fold[(1 .. m) \ {Max(1 .. m)}]
  <2>0. m \in Nat /\ m # 0 /\ m - 1 \in 0 .. n /\ m \in 0 .. n
    BY <1>1
  <2>1. Max(1 .. m) = m /\ 1 .. m \in SUBSET (1 .. n) /\ 1 .. m # {}
    <3>1. 1 .. m \in SUBSET (1 .. n) /\ m \in 1 .. m
      BY <1>1
    <3> QED
      BY <2>0, <3>1, MaxOfInterval
  <2>2. fold[1 .. m] = Next1(before, seq[m])
    BY <1>1, <1>8, <2>1
  <2>3. before \in X /\ ToSet(before) = {seq[i] : i \in 1 .. m - 1} \ {0}
    <3>1. before \in P[m - 1]
      BY <1>10
    <3>2. P[m - 1] = {x \in X : ToSet(x) = {seq[i] : i \in 1 .. m - 1} \ {0}}
      BY <2>0
    <3> HIDE DEF P, before
    <3> QED
      BY <3>1, <3>2
  <2>4. {seq[i] : i \in 1 .. m} = {seq[i] : i \in 1 .. m - 1} \cup {seq[m]}
    BY <1>1
  <2> HIDE DEF before
  <2>5. CASE seq[m] = 0
    <3>1. fold[1 .. m] = before
      BY <2>2, <2>5 DEF Next1
    <3> QED
      BY <2>0, <2>3, <2>4, <2>5, <3>1
  <2>6. CASE seq[m] # 0
    <3>1. fold[1 .. m] = Append(before, seq[m])
      BY <2>2, <2>6 DEF Next1
    <3>2. fold[1 .. m] \in X /\ ToSet(fold[1 .. m]) = ToSet(before) \cup {seq[m]}
      <4>1. before \in Seq(Y) /\ seq[m] \in Y
        BY <1>1, <2>3 DEF X
      <4>2. ToSet(Append(before, seq[m])) = ToSet(before) \cup {seq[m]}
        BY <4>1, ToSetOfAppend
      <4> QED
        BY <3>1, <4>1, <4>2, AppendProperties DEF X
    <3> QED
      BY <2>0, <2>3, <2>4, <2>6, <3>2
  <2> QED
    BY <2>5, <2>6
<1>11. fold[{}] \in P[0]
  <2>1. ToSet(<<>>) = {}
    BY DEF ToSet
  <2> QED
    BY <1>1, <1>3, <1>9, <2>1
<1> HIDE DEF P
<1>12. fold[1 .. n] \in P[n]
  BY <1>1, <1>10, <1>11, FoldReaches
<1>13. ToSet(seq) = {seq[i] : i \in 1 .. n}
  BY <1>1 DEF ToSet
<1> QED
  BY <1>1, <1>2, <1>12, <1>13 DEF P, X, Y, seq

-----------------------------------------------------------------------------
(* The search of the caches. Its results are sequences of candidates; on which *)
(* ways it has found them is a set of paths.                                   *)

\* What a search may find, and what it has found on some ways to files.
Locs(d) == {Location(w[2], d.files[w]) : w \in DOMAIN d.files}

Candidates(d, ways) ==
    {c \in Seq(Locs(d)) :
        /\ \A i, j \in DOMAIN c : c[i].file = c[j].file => i = j
        /\ {c[i].file : i \in DOMAIN c} = {d.files[w] : w \in ways}
        /\ \A i \in DOMAIN c : \E w \in ways : c[i] = Location(w[2], d.files[w])}

\* One more way adds its file, unless it is a candidate.
LEMMA AddCandidateFinds ==
    ASSUME NEW d, NEW ways \in SUBSET DOMAIN d.files, NEW c \in Candidates(d, ways),
           NEW w \in DOMAIN d.files
    PROVE  AddCandidate(c, Location(w[2], d.files[w])) \in Candidates(d, ways \cup {w})
<1> DEFINE new == Location(w[2], d.files[w])
           more == ways \cup {w}
<1>1. /\ c \in Seq(Locs(d))
      /\ \A i, j \in DOMAIN c : c[i].file = c[j].file => i = j
      /\ {c[i].file : i \in DOMAIN c} = {d.files[v] : v \in ways}
      /\ \A i \in DOMAIN c : \E v \in ways : c[i] = Location(v[2], d.files[v])
  BY DEF Candidates
<1>2. new.file = d.files[w] /\ new \in Locs(d)
  BY DEF Location, Locs
<1>3. {d.files[v] : v \in more} = {d.files[v] : v \in ways} \cup {d.files[w]}
  OBVIOUS
<1> HIDE DEF new, more
<1>4. CASE \E i \in DOMAIN c : c[i].file = new.file
  <2>1. AddCandidate(c, new) = c
    BY <1>4 DEF AddCandidate
  <2>2. {c[i].file : i \in DOMAIN c} = {d.files[v] : v \in more}
    <3>1. new.file \in {c[i].file : i \in DOMAIN c}
      BY <1>4
    <3> QED
      BY <1>1, <1>2, <1>3, <3>1
  <2>3. \A i \in DOMAIN c : \E v \in more : c[i] = Location(v[2], d.files[v])
    BY <1>1 DEF more
  <2>4. c \in Candidates(d, more)
    BY <1>1, <2>2, <2>3 DEF Candidates
  <2> QED
    BY <2>1, <2>4 DEF new, more
<1>5. CASE ~\E i \in DOMAIN c : c[i].file = new.file
  <2> DEFINE t == Append(c, new)
             n == Len(c)
  <2>1. AddCandidate(c, new) = t
    BY <1>5 DEF AddCandidate
  <2>2. /\ n \in Nat /\ DOMAIN c = 1 .. n
        /\ t \in Seq(Locs(d)) /\ DOMAIN t = 1 .. n + 1
        /\ \A i \in 1 .. n : t[i] = c[i]
        /\ t[n + 1] = new
    BY <1>1, <1>2, LenProperties, AppendProperties
  <2> HIDE DEF t, n
  <2>3. \A i \in 1 .. n + 1 : i \in 1 .. n \/ i = n + 1
    BY <2>2
  <2>4. \A i, j \in DOMAIN t : t[i].file = t[j].file => i = j
    BY <1>1, <1>5, <2>2, <2>3
  <2>5. {t[i].file : i \in DOMAIN t} = {d.files[v] : v \in more}
    <3>1. {t[i].file : i \in DOMAIN t} = {c[i].file : i \in DOMAIN c} \cup {new.file}
      <4>1. n + 1 \in DOMAIN t /\ \A i \in DOMAIN c : i \in DOMAIN t /\ t[i] = c[i]
        BY <2>2
      <4> QED
        BY <2>2, <2>3, <4>1
    <3> QED
      BY <1>1, <1>2, <1>3, <3>1
  <2>6. \A i \in DOMAIN t : \E v \in more : t[i] = Location(v[2], d.files[v])
    <3>1. w \in more /\ \A v \in ways : v \in more
      BY DEF more
    <3>2. new = Location(w[2], d.files[w])
      BY DEF new
    <3> QED
      BY <1>1, <2>2, <2>3, <3>1, <3>2
  <2>7. t \in Candidates(d, more)
    BY <2>2, <2>4, <2>5, <2>6 DEF Candidates
  <2> QED
    BY <2>1, <2>7 DEF new, more
<1> QED
  BY <1>4, <1>5

\* The ways of one root to the accounts of a list.
Ways(d, root, accounts) == {<<root, a>> : a \in accounts} \cap DOMAIN d.files

\* The accounts of a search are in a list.
LEMMA SequenceOfItsElements ==
    ASSUME NEW Z, NEW s \in Seq(Z)
    PROVE  s \in Seq(ToSet(s))
<1>1. Len(s) \in Nat /\ s \in [1 .. Len(s) -> Z] /\ DOMAIN s = 1 .. Len(s)
  BY LenProperties
<1>2. s \in [1 .. Len(s) -> ToSet(s)]
  BY <1>1 DEF ToSet
<1> QED
  BY <1>1, <1>2, SeqDef

LEMMA AccountsType ==
    ASSUME NEW d \in {FirstDisk, LaterDisk}, NEW selected
    PROVE  LET accounts == AccountDirectories(d, selected)
           IN  accounts \in Seq(ToSet(accounts))
<1>1. CASE selected = None
  <2>1. AccountDirectories(d, selected) \in Seq(ToSet(d.accounts))
    BY <1>1, AllAccountsType
  <2> QED
    BY <2>1, SequenceOfItsElements
<1>2. CASE selected # None
  <2>1. AccountDirectories(d, selected) = <<selected>>
    BY <1>2 DEF AccountDirectories
  <2>2. <<selected>> \in Seq({selected})
    OBVIOUS
  <2> QED
    BY <2>1, <2>2, SequenceOfItsElements
<1> QED
  BY <1>1, <1>2

\* The search of one root adds what is on its ways.
LEMMA SearchRootFinds ==
    ASSUME NEW d \in {FirstDisk, LaterDisk}, NEW selected, NEW root,
           NEW ways \in SUBSET DOMAIN d.files, NEW c \in Candidates(d, ways)
    PROVE  SearchRoot(d, selected, c, root)
             \in Candidates(d, ways \cup Ways(d, root, ToSet(AccountDirectories(d, selected))))
<1> DEFINE seq == AccountDirectories(d, selected)
           Y == ToSet(seq)
           X == Seq(Locs(d))
           n == Len(seq)
           Next1(found, account) ==
               IF <<root, account>> \in DOMAIN d.files
               THEN AddCandidate(found, Location(account, d.files[<<root, account>>]))
               ELSE found
           Body(g) == [s \in SUBSET DOMAIN seq |->
                         IF s = {} THEN c ELSE Next1(g[s \ {Max(s)}], seq[Max(s)])]
           fold == CHOOSE g : g = Body(g)
           step == [pair \in X \X (1 .. n) |-> Next1(pair[1], seq[pair[2]])]
<1>1. seq \in Seq(Y) /\ n \in Nat /\ DOMAIN seq = 1 .. n /\ \A i \in 1 .. n : seq[i] \in Y
  BY AccountsType, LenProperties, ElementOfSeq
<1>2. SearchRoot(d, selected, c, root) = fold[DOMAIN seq]
  BY DEF SearchRoot, FoldLeft, MapThenFoldSet
<1>3. c \in X
  BY DEF Candidates
<1> HIDE DEF Y, seq, n
<1>4. ASSUME NEW found \in X, NEW i \in 1 .. n PROVE Next1(found, seq[i]) \in X
  <2>1. CASE <<root, seq[i]>> \in DOMAIN d.files
    <3> DEFINE new == Location(seq[i], d.files[<<root, seq[i]>>])
    <3>1. new \in Locs(d)
      BY <2>1 DEF Locs
    <3>2. Next1(found, seq[i]) = AddCandidate(found, new)
      BY <2>1
    <3> HIDE DEF new, Next1
    <3> QED
      BY <3>1, <3>2, AppendProperties DEF AddCandidate
  <2> QED
    BY <2>1
<1> HIDE DEF Next1, X
<1>5. step \in [X \X (1 .. n) -> X] /\ \A x \in X, i \in 1 .. n : step[<<x, i>>] = Next1(x, seq[i])
  BY <1>4
<1> HIDE DEF step
<1>6. PICK g : g \in FoldsOf(X, n, c, step)
  BY <1>1, <1>3, <1>5, FoldExists
<1>7. g = Body(g)
  <2>1. g \in [SUBSET (1 .. n) -> X]
    BY <1>6 DEF FoldsOf
  <2>2. ASSUME NEW s \in SUBSET (1 .. n) PROVE g[s] = Body(g)[s]
    <3>1. CASE s = {}
      BY <1>1, <1>6, <3>1 DEF FoldsOf
    <3>2. CASE s # {}
      <4>1. Max(s) \in 1 .. n /\ g[s] = step[<<g[s \ {Max(s)}], Max(s)>>]
        BY <1>6, <3>2 DEF FoldsOf
      <4>2. g[s \ {Max(s)}] \in X
        BY <2>1
      <4> QED
        BY <1>1, <1>5, <3>2, <4>1, <4>2
    <3> QED
      BY <3>1, <3>2
  <2> QED
    BY <1>1, <2>1, <2>2
<1>8. fold = Body(fold)
  BY <1>7
<1> HIDE DEF fold
<1>9. fold[{}] = c
  BY <1>8
<1> DEFINE Way(m) == ways \cup Ways(d, root, {seq[i] : i \in 1 .. m})
           P == [m \in 0 .. n |-> Candidates(d, Way(m))]
<1>10. ASSUME NEW m \in 1 .. n, fold[(1 .. m) \ {Max(1 .. m)}] \in P[m - 1]
       PROVE  fold[1 .. m] \in P[m]
  <2> DEFINE before == fold[(1 .. m) \ {Max(1 .. m)}]
             account == seq[m]
             path == <<root, account>>
  <2>0. m \in Nat /\ m # 0 /\ m - 1 \in 0 .. n /\ m \in 0 .. n
    BY <1>1
  <2>1. Max(1 .. m) = m /\ 1 .. m \in SUBSET (1 .. n) /\ 1 .. m # {}
    <3>1. 1 .. m \in SUBSET (1 .. n) /\ m \in 1 .. m
      BY <1>1
    <3> QED
      BY <2>0, <3>1, MaxOfInterval
  <2>2. fold[1 .. m] = Next1(before, account)
    BY <1>1, <1>8, <2>1
  <2>3. before \in Candidates(d, Way(m - 1))
    <3>1. P[m - 1] = Candidates(d, Way(m - 1)) /\ before \in P[m - 1]
      BY <1>10, <2>0
    <3> HIDE DEF P, before, Way
    <3> QED
      BY <3>1
  <2>4. {seq[i] : i \in 1 .. m} = {seq[i] : i \in 1 .. m - 1} \cup {account}
    BY <2>0
  <2>5. P[m] = Candidates(d, Way(m))
    BY <2>0
  <2>6. Way(m) = Way(m - 1) \cup ({path} \cap DOMAIN d.files)
    <3> DEFINE A == {seq[i] : i \in 1 .. m}
               B == {seq[i] : i \in 1 .. m - 1}
    <3>1. A = B \cup {account}
      BY <2>4
    <3> HIDE DEF A, B
    <3>2. Ways(d, root, A) = Ways(d, root, B) \cup ({path} \cap DOMAIN d.files)
      BY <3>1 DEF Ways
    <3> QED
      BY <3>2 DEF A, B
  <2>7. Way(m - 1) \in SUBSET DOMAIN d.files
    BY DEF Ways
  <2> HIDE DEF before, account, P, Way
  <2>8. CASE path \in DOMAIN d.files
    <3>1. path[2] = account /\ path \in DOMAIN d.files
      BY <2>8
    <3>2. fold[1 .. m] = AddCandidate(before, Location(path[2], d.files[path]))
      BY <2>2, <2>8, <3>1 DEF Next1
    <3>3. fold[1 .. m] \in Candidates(d, Way(m - 1) \cup {path})
      BY <2>3, <2>7, <2>8, <3>2, AddCandidateFinds
    <3>4. Way(m) = Way(m - 1) \cup {path}
      BY <2>6, <3>1
    <3> QED
      BY <2>5, <3>3, <3>4
  <2>9. CASE path \notin DOMAIN d.files
    <3>2. fold[1 .. m] = before
      BY <2>2, <2>9 DEF Next1
    <3>3. Way(m) = Way(m - 1)
      BY <2>6, <2>9
    <3> QED
      BY <2>3, <2>5, <3>2, <3>3
  <2> QED
    BY <2>8, <2>9
<1>11. fold[{}] \in P[0]
  <2>1. {seq[i] : i \in 1 .. 0} = {}
    OBVIOUS
  <2>2. Ways(d, root, {}) = {}
    BY DEF Ways
  <2>3. Way(0) = ways
    BY <2>1, <2>2
  <2> HIDE DEF Way
  <2>4. P[0] = Candidates(d, Way(0))
    BY <1>1
  <2> HIDE DEF P
  <2> QED
    BY <1>9, <2>3, <2>4
<1>12. fold[1 .. n] \in P[n]
  <2> HIDE DEF P
  <2> QED
    BY <1>1, <1>10, <1>11, FoldReaches
<1>13. Y = {seq[i] : i \in 1 .. n}
  BY <1>1 DEF ToSet, Y
<1>14. P[n] = Candidates(d, ways \cup Ways(d, root, Y))
  BY <1>1, <1>13
<1> HIDE DEF P
<1> QED
  BY <1>1, <1>2, <1>12, <1>14 DEF Y, seq

\* What the search of all directories of Steam has found.
AllWays(d, selected) ==
    UNION {Ways(d, root, ToSet(AccountDirectories(d, selected))) : root \in ToSet(SteamRoots(d))}

Found(d, selected) ==
    FoldLeft(LAMBDA candidates, root : SearchRoot(d, selected, candidates, root),
             <<>>, SteamRoots(d))

\* The search of all roots finds what is on their ways.
LEMMA SearchFinds ==
    ASSUME NEW d \in {FirstDisk, LaterDisk}, NEW selected
    PROVE  Found(d, selected) \in Candidates(d, AllWays(d, selected))
<1> DEFINE seq == SteamRoots(d)
           Y == ToSet(d.roots)
           A == ToSet(AccountDirectories(d, selected))
           X == UNION {Candidates(d, ways) : ways \in SUBSET DOMAIN d.files}
           n == Len(seq)
           Next1(found, root) == SearchRoot(d, selected, found, root)
           Body(g) == [s \in SUBSET DOMAIN seq |->
                         IF s = {} THEN <<>> ELSE Next1(g[s \ {Max(s)}], seq[Max(s)])]
           fold == CHOOSE g : g = Body(g)
           step == [pair \in X \X (1 .. n) |-> Next1(pair[1], seq[pair[2]])]
<1>1. seq \in Seq(Y) /\ n \in Nat /\ DOMAIN seq = 1 .. n /\ \A i \in 1 .. n : seq[i] \in Y
  BY SteamRootsType, LenProperties, ElementOfSeq
<1>2. Found(d, selected) = fold[DOMAIN seq]
  BY DEF Found, FoldLeft, MapThenFoldSet
<1>3. <<>> \in Candidates(d, {}) /\ <<>> \in X
  <2>1. <<>> \in Seq(Locs(d)) /\ DOMAIN <<>> = {}
    BY EmptySeq
  <2>2. <<>> \in Candidates(d, {})
    BY <2>1 DEF Candidates
  <2> QED
    BY <2>2
<1>a. ToSet(seq) = {seq[i] : i \in 1 .. n}
  BY <1>1 DEF ToSet
<1>b. AllWays(d, selected) = UNION {Ways(d, root, A) : root \in ToSet(seq)}
  BY DEF AllWays
<1> HIDE DEF Y, seq, n
<1>c. ASSUME NEW ways \in SUBSET DOMAIN d.files, NEW found \in Candidates(d, ways), NEW root
      PROVE  Next1(found, root) \in Candidates(d, ways \cup Ways(d, root, A))
  BY SearchRootFinds
<1>d. \A root : Ways(d, root, A) \subseteq DOMAIN d.files
  BY DEF Ways
<1> HIDE DEF Next1, A
<1>4. ASSUME NEW found \in X, NEW i \in 1 .. n PROVE Next1(found, seq[i]) \in X
  <2>1. PICK ways \in SUBSET DOMAIN d.files : found \in Candidates(d, ways)
    OBVIOUS
  <2>2. Next1(found, seq[i]) \in Candidates(d, ways \cup Ways(d, seq[i], A))
    BY <1>c, <2>1
  <2>3. ways \cup Ways(d, seq[i], A) \in SUBSET DOMAIN d.files
    BY <1>d, <2>1
  <2> QED
    BY <2>2, <2>3
<1> HIDE DEF X
<1>5. step \in [X \X (1 .. n) -> X] /\ \A x \in X, i \in 1 .. n : step[<<x, i>>] = Next1(x, seq[i])
  BY <1>4
<1> HIDE DEF step
<1>6. PICK g : g \in FoldsOf(X, n, <<>>, step)
  BY <1>1, <1>3, <1>5, FoldExists
<1>7. g = Body(g)
  <2>1. g \in [SUBSET (1 .. n) -> X]
    BY <1>6 DEF FoldsOf
  <2>2. ASSUME NEW s \in SUBSET (1 .. n) PROVE g[s] = Body(g)[s]
    <3>1. CASE s = {}
      BY <1>1, <1>6, <3>1 DEF FoldsOf
    <3>2. CASE s # {}
      <4>1. Max(s) \in 1 .. n /\ g[s] = step[<<g[s \ {Max(s)}], Max(s)>>]
        BY <1>6, <3>2 DEF FoldsOf
      <4>2. g[s \ {Max(s)}] \in X
        BY <2>1
      <4> QED
        BY <1>1, <1>5, <3>2, <4>1, <4>2
    <3> QED
      BY <3>1, <3>2
  <2> QED
    BY <1>1, <2>1, <2>2
<1>8. fold = Body(fold)
  BY <1>7
<1> HIDE DEF fold
<1>9. fold[{}] = <<>>
  BY <1>8
<1> DEFINE Way(m) == UNION {Ways(d, seq[i], A) : i \in 1 .. m}
           P == [m \in 0 .. n |-> Candidates(d, Way(m))]
<1>10. ASSUME NEW m \in 1 .. n, fold[(1 .. m) \ {Max(1 .. m)}] \in P[m - 1]
       PROVE  fold[1 .. m] \in P[m]
  <2> DEFINE before == fold[(1 .. m) \ {Max(1 .. m)}]
  <2>0. m \in Nat /\ m # 0 /\ m - 1 \in 0 .. n /\ m \in 0 .. n
    BY <1>1
  <2>1. Max(1 .. m) = m /\ 1 .. m \in SUBSET (1 .. n) /\ 1 .. m # {}
    <3>1. 1 .. m \in SUBSET (1 .. n) /\ m \in 1 .. m
      BY <1>1
    <3> QED
      BY <2>0, <3>1, MaxOfInterval
  <2>2. fold[1 .. m] = Next1(before, seq[m])
    BY <1>1, <1>8, <2>1
  <2>3. before \in Candidates(d, Way(m - 1))
    <3>1. P[m - 1] = Candidates(d, Way(m - 1)) /\ before \in P[m - 1]
      BY <1>10, <2>0
    <3> HIDE DEF P, before, Way
    <3> QED
      BY <3>1
  <2>4. Way(m) = Way(m - 1) \cup Ways(d, seq[m], A)
    <3>1. \A i \in 1 .. m : i \in 1 .. m - 1 \/ i = m
      BY <2>0
    <3>2. \A i \in 1 .. m - 1 : i \in 1 .. m
      BY <2>0
    <3>3. m \in 1 .. m
      BY <2>0
    <3> QED
      BY <3>1, <3>2, <3>3
  <2>5. P[m] = Candidates(d, Way(m))
    BY <2>0
  <2>6. Way(m - 1) \in SUBSET DOMAIN d.files
    BY <1>d
  <2> HIDE DEF before, P, Way
  <2>7. fold[1 .. m] \in Candidates(d, Way(m - 1) \cup Ways(d, seq[m], A))
    BY <1>c, <2>2, <2>3, <2>6
  <2> QED
    BY <2>4, <2>5, <2>7
<1>11. fold[{}] \in P[0]
  <2>1. Way(0) = {}
    OBVIOUS
  <2> HIDE DEF Way
  <2>2. P[0] = Candidates(d, Way(0))
    BY <1>1
  <2> HIDE DEF P
  <2> QED
    BY <1>3, <1>9, <2>1, <2>2
<1>12. fold[1 .. n] \in P[n]
  <2> HIDE DEF P
  <2> QED
    BY <1>1, <1>10, <1>11, FoldReaches
<1>13. P[n] = Candidates(d, Way(n))
  BY <1>1
<1>14. Way(n) = AllWays(d, selected)
  <2>1. Way(n) = UNION {Ways(d, root, A) : root \in {seq[i] : i \in 1 .. n}}
    OBVIOUS
  <2> QED
    BY <1>a, <1>b, <2>1
<1> HIDE DEF P, Way
<1> QED
  BY <1>1, <1>2, <1>12, <1>13, <1>14

\* The ways that were searched are those on which a file fits.
LEMMA AllWaysAre ==
    ASSUME NEW d \in {FirstDisk, LaterDisk}, NEW selected \in Nat \cup {None}, selected # 0
    PROVE  AllWays(d, selected) =
             {w \in DOMAIN d.files : /\ \E i \in DOMAIN d.roots : d.roots[i] = w[1]
                                     /\ w[2] \notin {0, None}
                                     /\ selected \in {None, w[2]}}
<1> DEFINE A == ToSet(AccountDirectories(d, selected))
           R == ToSet(SteamRoots(d))
<1>1. R = {d.roots[i] : i \in DOMAIN d.roots} \ {None}
  BY SteamRootsType DEF ToSet
<1>2. None \notin Nat
  BY NoneAssumption
<1>3. \A w \in DOMAIN d.files : /\ w = <<w[1], w[2]>> /\ w[1] # None
                                /\ w[2] \in ToSet(d.accounts) \cup {None}
  BY DisksAssumption
<1>4. ToSet(d.accounts) \subseteq Nat
  BY DisksAssumption
<1>5. A = IF selected = None THEN ToSet(d.accounts) \ {0} ELSE {selected}
  <2>1. CASE selected = None
    BY <2>1, AllAccountsType
  <2>2. CASE selected # None
    <3>1. ToSet(<<selected>>) = {selected}
      BY DEF ToSet
    <3> QED
      BY <2>2, <3>1 DEF AccountDirectories
  <2> QED
    BY <2>1, <2>2
<1>6. A \subseteq Nat \ {0}
  BY <1>4, <1>5
<1>7. AllWays(d, selected) = {w \in DOMAIN d.files : w[1] \in R /\ w[2] \in A}
  <2> HIDE DEF A, R
  <2>1. \A w : w \in AllWays(d, selected) <=>
                 \E root \in R, a \in A : w = <<root, a>> /\ w \in DOMAIN d.files
    BY DEF AllWays, Ways, A, R
  <2>2. \A w : w \in AllWays(d, selected) => w \in DOMAIN d.files /\ w[1] \in R /\ w[2] \in A
    BY <2>1
  <2>3. ASSUME NEW w \in DOMAIN d.files, w[1] \in R, w[2] \in A
        PROVE  w \in AllWays(d, selected)
    <3>1. w = <<w[1], w[2]>> /\ w \in DOMAIN d.files
      BY <1>3, <2>3
    <3> QED
      BY <2>1, <2>3, <3>1
  <2> QED
    BY <2>2, <2>3
<1>8. ASSUME NEW w \in DOMAIN d.files
      PROVE  w[1] \in R /\ w[2] \in A <=>
               /\ \E i \in DOMAIN d.roots : d.roots[i] = w[1]
               /\ w[2] \notin {0, None}
               /\ selected \in {None, w[2]}
  <2>1. w[1] \in R <=> \E i \in DOMAIN d.roots : d.roots[i] = w[1]
    BY <1>1, <1>3
  <2>2. w[2] \in A <=> w[2] \notin {0, None} /\ selected \in {None, w[2]}
    BY <1>2, <1>3, <1>5, <1>6
  <2> QED
    BY <2>1, <2>2
<1> HIDE DEF A, R
<1> QED
  BY <1>7, <1>8

\* What discover_cache promises.
Promised(d, s, location) ==
    LET files == Matching(d, s)
    IN  IF location = None
        THEN Cardinality(files) # 1 \/ \E f \in files : Owners(d, s, f) = {}
        ELSE files = {location.file} /\ location.account \in Owners(d, s, location.file)

\* A location is one of an account and a file on the disk.
LocationsOf(d) == [account : Nat, file : {d.files[path] : path \in DOMAIN d.files}]

LEMMA LocationIsThere ==
    ASSUME NEW d \in {FirstDisk, LaterDisk}, NEW location \in LocationsOf(d)
    PROVE  location # None /\ location.file \in Files
<1>1. location.file \in {d.files[path] : path \in DOMAIN d.files} /\ location.account \in Nat
  BY DEF LocationsOf
<1>2. location.file \in Files
  BY <1>1 DEF Files
<1>3. location = [account |-> location.account, file |-> location.file]
  BY DEF LocationsOf
<1>4. location \in [account : Nat, file : Files]
  BY <1>1, <1>2, <1>3
<1> QED
  BY <1>2, <1>4, NoneAssumption

LEMMA PairHasTwo ==
    ASSUME NEW x, NEW y, x # y
    PROVE  Cardinality({x} \cup {y}) = 2
<1>1. IsFiniteSet({x}) /\ Cardinality({x}) = 1
  BY FS_Singleton
<1>2. Cardinality({x} \cup {y}) = IF y \in {x} THEN Cardinality({x}) ELSE Cardinality({x}) + 1
  BY <1>1, FS_AddElement
<1> QED
  BY <1>1, <1>2

\* With account 0 nothing fits, or nobody owns what fits.
LEMMA NobodyFinds ==
    ASSUME NEW d \in {FirstDisk, LaterDisk}, NEW s, s.account_id = 0
    PROVE  DiscoverCache(d, s) = None /\ Promised(d, s, None)
<1>1. DiscoverCache(d, s) = None
  BY DEF DiscoverCache
<1>2. None # 0
  BY NoneAssumption
<1>3. CASE s.cache_path # None
  <2>1. ASSUME NEW f PROVE Owners(d, s, f) = {}
    <3> DEFINE named == {f[2], 0} \ {None}
    <3>1. Owners(d, s, f) = IF Cardinality(named) = 1 THEN named \ {0} ELSE {}
      BY <1>3 DEF Owners
    <3>2. CASE f[2] \in {None, 0}
      BY <3>1, <3>2
    <3>3. CASE f[2] \notin {None, 0}
      <4>1. named = {0} \cup {f[2]}
        BY <1>2, <3>3
      <4>2. Cardinality(named) = 2
        <5>1. 0 # f[2]
          BY <3>3
        <5>2. Cardinality({0} \cup {f[2]}) = 2
          BY <5>1, PairHasTwo
        <5> QED
          BY <4>1, <5>2
      <4> QED
        BY <3>1, <4>2
    <3> QED
      BY <3>2, <3>3
  <2>2. CASE s.cache_path \in DOMAIN d.files
    <3>1. d.files[s.cache_path] \in Matching(d, s)
      BY <1>3, <2>2 DEF Matching
    <3> QED
      BY <1>1, <2>1, <3>1 DEF Promised
  <2>3. CASE s.cache_path \notin DOMAIN d.files
    <3>1. Matching(d, s) = {}
      BY <1>3, <2>3 DEF Matching
    <3> QED
      BY <1>1, <3>1, FS_EmptySet DEF Promised
  <2> QED
    BY <2>2, <2>3
<1>4. CASE s.cache_path = None
  <2>1. Matching(d, s) = {}
    BY <1>2, <1>4 DEF Matching
  <2> QED
    BY <1>1, <2>1, FS_EmptySet DEF Promised
<1> QED
  BY <1>3, <1>4

\* resolve_explicit_location.
LEMMA GivenPathIsUsed ==
    ASSUME NEW d \in {FirstDisk, LaterDisk}, NEW s, s.account_id \in Nat \cup {None},
           s.account_id # 0, s.cache_path # None
    PROVE  /\ DiscoverCache(d, s) \in LocationsOf(d) \cup {None}
           /\ Promised(d, s, DiscoverCache(d, s))
<1> DEFINE path == s.cache_path
           k == s.account_id
           loc == DiscoverCache(d, s)
           file == d.files[path]
<1>1. loc = ResolveExplicit(d, path, k)
  BY DEF DiscoverCache
<1>2. None # 0
  BY NoneAssumption
<1>3. CASE path \notin DOMAIN d.files
  <2>1. loc = None
    BY <1>1, <1>3 DEF ResolveExplicit
  <2>2. Matching(d, s) = {}
    BY <1>3 DEF Matching
  <2> QED
    BY <2>1, <2>2, FS_EmptySet DEF Promised
<1>4. CASE path \in DOMAIN d.files
  <2> DEFINE inferred == file[2]
             account == IF k # None THEN k ELSE inferred
             named == {inferred, k} \ {None}
             owners == Owners(d, s, file)
  <2>1. inferred \in Nat \cup {None}
    BY <1>4, DisksAssumption
  <2>2. loc = IF account \in {None, 0} \/ inferred \notin {None, account} THEN None
              ELSE Location(account, file)
    BY <1>1, <1>4 DEF ResolveExplicit
  <2>3. Matching(d, s) = {file}
    BY <1>4 DEF Matching
  <2>4. owners = IF Cardinality(named) = 1 THEN named \ {0} ELSE {}
    BY DEF Owners
  <2>5. CASE loc = None
    <3>1. account \in {None, 0} \/ inferred \notin {None, account}
      <4> SUFFICES ASSUME ~(account \in {None, 0} \/ inferred \notin {None, account}) PROVE FALSE
        OBVIOUS
      <4>1. loc = Location(account, file) /\ account \in Nat
        BY <2>1, <2>2
      <4>2. loc \in LocationsOf(d)
        BY <1>4, <4>1 DEF Location, LocationsOf
      <4> QED
        BY <2>5, <4>2, LocationIsThere
    <3>2. owners = {}
      <4>1. CASE k = None
        <5>1. named \subseteq {0}
          BY <3>1, <4>1
        <5> QED
          BY <2>4, <5>1
      <4>2. CASE k # None
        <5>1. inferred \notin {None, k} /\ named = {k} \cup {inferred}
          BY <3>1, <4>2
        <5>2. Cardinality(named) = 2
          <6>1. k # inferred
            BY <5>1
          <6>2. Cardinality({k} \cup {inferred}) = 2
            <7> HIDE DEF k, inferred
            <7> QED
              BY <6>1, PairHasTwo
          <6> QED
            BY <5>1, <6>2
        <5> QED
          BY <2>4, <5>2
      <4> QED
        BY <4>1, <4>2
    <3> QED
      BY <2>3, <2>5, <3>2 DEF Promised
  <2>6. CASE loc # None
    <3>1. /\ account \notin {None, 0} /\ inferred \in {None, account}
          /\ loc = Location(account, file)
      BY <2>2, <2>6
    <3>2. named = {account} /\ account \in Nat
      BY <2>1, <3>1
    <3>3. account \in owners
      BY <2>4, <3>1, <3>2, FS_Singleton
    <3>4. loc.account = account /\ loc.file = file /\ loc \in LocationsOf(d)
      BY <1>4, <3>1, <3>2 DEF Location, LocationsOf
    <3> HIDE DEF loc, account
    <3> QED
      BY <2>3, <2>6, <3>3, <3>4 DEF Promised, loc
  <2>7. loc \in LocationsOf(d) \cup {None}
    <3> SUFFICES ASSUME loc # None PROVE loc \in LocationsOf(d)
      OBVIOUS
    <3>1. /\ account \notin {None, 0} /\ loc = Location(account, file)
      BY <2>2
    <3>2. account \in Nat
      BY <2>1, <3>1
    <3> QED
      BY <1>4, <3>1, <3>2 DEF Location, LocationsOf
  <2> QED
    BY <2>5, <2>6, <2>7
<1> QED
  BY <1>3, <1>4

\* Candidates are different files, so that one candidate is one file.
LEMMA OneCandidate ==
    ASSUME NEW d \in {FirstDisk, LaterDisk}, NEW ways \in SUBSET DOMAIN d.files,
           NEW c \in Candidates(d, ways)
    PROVE  Len(c) = 1 <=> Cardinality({d.files[w] : w \in ways}) = 1
<1> DEFINE files == {d.files[w] : w \in ways}
           n == Len(c)
           f == [i \in 1 .. n |-> c[i].file]
<1>1. /\ n \in Nat /\ DOMAIN c = 1 .. n
      /\ \A i, j \in 1 .. n : c[i].file = c[j].file => i = j
      /\ {c[i].file : i \in 1 .. n} = files
  BY LenProperties DEF Candidates
<1> HIDE DEF files, n
<1>2. f \in Surjection(1 .. n, files)
  <2>1. \A i \in 1 .. n : f[i] \in files
    BY <1>1
  <2>2. f \in [1 .. n -> files]
    BY <2>1
  <2>3. \A x \in files : \E i \in 1 .. n : f[i] = x
    BY <1>1
  <2> QED
    BY <2>2, <2>3 DEF Surjection
<1>3. IsFiniteSet(1 .. n)
  BY <1>1, FS_Interval
<1>4. IsFiniteSet(files)
  BY <1>2, <1>3, FS_Surjection
<1>5. Cardinality(files) = 1 <=> \E x : files = {x}
  BY <1>4, FS_Singleton
<1>6. n = 1 => \E x : files = {x}
  BY <1>1
<1>7. ASSUME NEW x, files = {x} PROVE n = 1
  <2>1. PICK i \in 1 .. n : c[i].file = x
    BY <1>1, <1>7
  <2>2. \A j \in 1 .. n : j = i
    BY <1>1, <1>7, <2>1
  <2>3. 1 \in 1 .. n /\ n \in 1 .. n
    BY <1>1, <2>1
  <2> QED
    BY <2>2, <2>3
<1> QED
  BY <1>5, <1>6, <1>7 DEF files, n

\* The search without a path.
LEMMA SearchIsComplete ==
    ASSUME NEW d \in {FirstDisk, LaterDisk}, NEW s, s.account_id \in Nat \cup {None},
           s.account_id # 0, s.cache_path = None
    PROVE  /\ DiscoverCache(d, s) \in LocationsOf(d) \cup {None}
           /\ Promised(d, s, DiscoverCache(d, s))
<1> DEFINE k == s.account_id
           loc == DiscoverCache(d, s)
           ways == AllWays(d, k)
           c == Found(d, k)
           files == {d.files[w] : w \in ways}
<1>1. loc = SelectLocation(c)
  BY DEF DiscoverCache, Found
<1>2. ways = {w \in DOMAIN d.files : /\ \E i \in DOMAIN d.roots : d.roots[i] = w[1]
                                     /\ w[2] \notin {0, None}
                                     /\ k \in {None, w[2]}}
  BY AllWaysAre
<1>3. Matching(d, s) = files
  BY <1>2 DEF Matching
<1>4. ways \in SUBSET DOMAIN d.files
  BY <1>2
<1>5. c \in Candidates(d, ways)
  BY SearchFinds
<1> HIDE DEF ways, c, loc
<1>6. Len(c) = 1 <=> Cardinality(files) = 1
  BY <1>4, <1>5, OneCandidate
<1> HIDE DEF files
<1>7. CASE Len(c) # 1
  BY <1>1, <1>3, <1>6, <1>7 DEF Promised, SelectLocation, loc
<1>8. CASE Len(c) = 1
  <2>1. loc = c[1]
    BY <1>1, <1>8 DEF SelectLocation
  <2>2. DOMAIN c = {1} /\ {c[i].file : i \in DOMAIN c} = files
    <3>1. c \in Seq(Locs(d)) /\ {c[i].file : i \in DOMAIN c} = {d.files[w] : w \in ways}
      BY <1>5 DEF Candidates
    <3>2. DOMAIN c = {1}
      <4>1. DOMAIN c = 1 .. 1
        BY <1>8, <3>1, LenProperties
      <4> QED
        BY <4>1
    <3> QED
      BY <3>1, <3>2 DEF files
  <2>3. files = {loc.file}
    BY <2>1, <2>2
  <2>4. PICK w \in ways : loc = Location(w[2], d.files[w])
    BY <1>5, <2>1, <2>2 DEF Candidates
  <2>5. loc.account = w[2] /\ loc.file = d.files[w]
    BY <2>4 DEF Location
  <2>6. w[2] \in Nat
    BY <1>2, DisksAssumption
  <2>7. loc \in LocationsOf(d)
    BY <1>4, <2>4, <2>6 DEF Location, LocationsOf
  <2>8. loc # None
    BY <2>7, LocationIsThere
  <2>9. w[2] \in Owners(d, s, d.files[w])
    BY <1>2 DEF Owners
  <2> QED
    BY <1>3, <2>3, <2>5, <2>7, <2>8, <2>9 DEF Promised, loc
<1> QED
  BY <1>7, <1>8 DEF loc

\* The search keeps its promise.
LEMMA DiscoveryIsSound ==
    ASSUME NEW d \in {FirstDisk, LaterDisk}, NEW s \in Searches
    PROVE  /\ DiscoverCache(d, s) \in LocationsOf(d) \cup {None}
           /\ Promised(d, s, DiscoverCache(d, s))
<1>1. s.account_id \in Nat \cup {None}
  BY SearchesAssumption
<1> QED
  BY <1>1, NobodyFinds, GivenPathIsUsed, SearchIsComplete

-----------------------------------------------------------------------------
(* What a process knows that nobody has disturbed. *)

Placed(r) == r.location # None /\ r.location.file \in Files

\* The command has the catalog that it has installed, is to install, or reports on.
Bound(r) ==
    \/ r.name = "sync" /\ r.step >= 10
    \/ r.name = "install" /\ r.step >= 5
    \/ r.name = "status" /\ r.step >= 3

Comparing(r) == <<r.name, r.step>> \in {<<"sync", 12>>, <<"install", 7>>, <<"status", 4>>}
Writing(r) ==
    <<r.name, r.step>> \in {<<"sync", 13>>, <<"sync", 14>>, <<"install", 8>>, <<"install", 9>>}

IsCurrent(r, a, g, c) ==
    /\ a \notin {None, Malformed} /\ a.versions = g
    /\ r.location # None /\ c[r.location.file].builds = a

\* What VerdictsAreHonest says of one process.
Verdict(r, a, g, c) ==
    /\ r.name \in {"status", "sync", "install"} /\ r.result = 0 => IsCurrent(r, a, g, c)
    /\ r.name = "status" /\ r.result = 2 =>
          ~IsCurrent(r, a, g, c) /\ r.location # None /\ a # Malformed
    /\ r.name = "status" /\ r.result = 1 =>
          \/ r.location = None \/ a = Malformed
          \/ c[r.location.file].builds = Malformed

\* What an undisturbed process knows of the catalog, the game and the caches.
Knows(r, a, s, g, c) ==
    /\ r.step # 0 => r.result = None
    /\ r.name \in {"sync", "install"} /\ r.step > 1 => Placed(r)
    /\ Bound(r) => r.catalog = a
    /\ Comparing(r) => r.seen = g
    /\ Writing(r) => r.catalog.versions = g
    /\ r.name = "status" /\ r.step = 5 /\ r.catalog \notin {None, Malformed} =>
          (r.seen = None <=> r.catalog.versions # g)
    /\ r.name = "install" /\ r.step = 4 => (a = None => s = None)
    /\ r.step = 0 => Verdict(r, a, g, c)

CacheIsTyped ==
    /\ disk \in {FirstDisk, LaterDisk}
    /\ DOMAIN cache = Files /\ DOMAIN backup = Files
    /\ \A f \in Files : /\ "builds" \in DOMAIN cache[f]
                        /\ backup[f] # None => "builds" \in DOMAIN backup[f]

Begins(r) == r.step = 1 => r.location = None

HInv ==
    /\ IInv /\ CacheIsTyped
    /\ \A p \in Procs : Begins(proc[p])
    /\ \A p \in Procs : proc[p].quiet => Knows(proc[p], artifacts, saved, game, cache)

\* Where each call is in the commands.
LEMMA Places ==
    ASSUME NEW r, HasFields(r), NEW call, AtCall(r, call)
    PROVE  /\ call = "locate" => r.step = 1 /\ r.name \in {"sync", "install", "status", "restore"}
           /\ call = "stopped" =>
                <<r.name, r.step>> \in {<<"sync", 2>>, <<"sync", 10>>, <<"install", 2>>}
           /\ call = "persona" => <<r.name, r.step>> \in {<<"sync", 3>>, <<"install", 5>>}
           /\ call = "recover" =>
                <<r.name, r.step>> \in {<<"sync", 4>>, <<"build", 1>>, <<"install", 3>>}
           /\ call = "extract" => <<r.name, r.step>> \in {<<"sync", 5>>, <<"build", 2>>}
           /\ call = "extractPatch" => <<r.name, r.step>> \in {<<"sync", 6>>, <<"build", 3>>}
           /\ call = "write" => <<r.name, r.step>> \in {<<"sync", 7>>, <<"build", 4>>}
           /\ call = "moveOld" => <<r.name, r.step>> \in {<<"sync", 8>>, <<"build", 5>>}
           /\ call = "moveNew" => <<r.name, r.step>> \in {<<"sync", 9>>, <<"build", 6>>}
           /\ call = "catalog" => <<r.name, r.step>> \in {<<"install", 4>>, <<"status", 2>>}
           /\ call = "client" =>
                <<r.name, r.step>> \in {<<"sync", 11>>, <<"install", 6>>, <<"status", 3>>}
           /\ call = "patch" => Comparing(r)
           /\ call = "read" => <<r.name, r.step>> \in {<<"sync", 13>>, <<"install", 8>>}
           /\ call = "update" => <<r.name, r.step>> \in {<<"sync", 14>>, <<"install", 9>>}
           /\ call = "restore" => r.step = 2 /\ r.name = "restore"
           /\ call = "compare" => r.step = 5 /\ r.name = "status"
<1>1. r.name \in Commands /\ r.step \in DOMAIN Plan[r.name] /\ Plan[r.name][r.step] = call
  BY DEF AtCall, InCall, CallsOf, HasFields
<1>2. CASE r.name = "sync"
  BY <1>1, <1>2 DEF Plan, Comparing
<1>3. CASE r.name = "build"
  BY <1>1, <1>3 DEF Plan, Comparing
<1>4. CASE r.name = "install"
  BY <1>1, <1>4 DEF Plan, Comparing
<1>5. CASE r.name = "status"
  BY <1>1, <1>5 DEF Plan, Comparing
<1>6. CASE r.name = "restore"
  BY <1>1, <1>6 DEF Plan, Comparing
<1> QED
  BY <1>1, <1>2, <1>3, <1>4, <1>5, <1>6 DEF Commands

LEMMA Lengths ==
    /\ Len(Plan["sync"]) = 14 /\ Len(Plan["build"]) = 6 /\ Len(Plan["install"]) = 9
    /\ Len(Plan["status"]) = 5 /\ Len(Plan["restore"]) = 2
BY DEF Plan

\* A process that has ended knows its verdict.
LEMMA EndedKnows ==
    ASSUME NEW p \in Procs, HasFields(proc[p]), NEW code, NEW a, NEW s, NEW g, NEW c,
           LET r == [name |-> proc[p].name, location |-> proc[p].location, result |-> code]
           IN  proc[p].quiet => Verdict(r, a, g, c)
    PROVE  /\ Begins(Ended(p, code))
           /\ Ended(p, code).quiet => Knows(Ended(p, code), a, s, g, c)
<1> DEFINE e == Ended(p, code)
           r == [name |-> proc[p].name, location |-> proc[p].location, result |-> code]
<1>1. e.step = 0
  BY DEF Ended, Idle
<1>2. ASSUME e.quiet PROVE Knows(e, a, s, g, c)
  <2>1. proc[p].quiet
    BY <1>2 DEF Ended, Idle
  <2>2. e.name = r.name /\ e.location = r.location /\ e.result = r.result
    BY <2>1 DEF Ended, Idle
  <2>3. Verdict(r, a, g, c)
    BY <2>1
  <2> HIDE DEF e, r
  <2>4. Verdict(e, a, g, c)
    BY <2>2, <2>3 DEF Verdict, IsCurrent
  <2> QED
    BY <1>1, <2>4 DEF Knows, Bound, Comparing, Writing
<1> QED
  BY <1>1, <1>2 DEF Begins

\* A command other than status that fails makes no claim.
LEMMA FailureKnows ==
    ASSUME NEW p \in Procs, HasFields(proc[p]), proc[p].name # "status",
           NEW a, NEW s, NEW g, NEW c
    PROVE  /\ Begins(Ended(p, 1))
           /\ Ended(p, 1).quiet => Knows(Ended(p, 1), a, s, g, c)
<1> DEFINE r == [name |-> proc[p].name, location |-> proc[p].location, result |-> 1]
<1>1. Verdict(r, a, g, c)
  BY DEF Verdict
<1> QED
  BY <1>1, EndedKnows

\* A step of one process, as the others see it.
LEMMA StepKnows ==
    ASSUME HInv, NEW p \in Procs, NEW next, IInv', CacheIsTyped', Begins(next),
           next.quiet => Knows(next, artifacts', saved', game', cache'),
           \/ Openly(p, next)
           \/ /\ Quietly(p, next)
              /\ UNCHANGED <<artifacts, game, cache>> /\ saved' \in {saved, None}
    PROVE  HInv'
<1>1. DOMAIN proc = Procs /\ \A q \in Procs : HasFields(proc[q])
  BY DEF HInv, IInv, Sound
<1>2. ASSUME NEW q \in Procs
      PROVE  Begins(proc'[q]) /\ (proc'[q].quiet => Knows(proc'[q], artifacts', saved', game', cache'))
  <2>1. CASE q = p
    <3>1. proc'[p] = next
      BY <1>1 DEF Openly, Quietly
    <3> QED
      BY <2>1, <3>1
  <2>2. CASE q # p /\ Openly(p, next)
    <3>1. proc'[q] = Disturbed(q)
      BY <2>2 DEF Openly
    <3>2. ~Disturbed(q).quiet
      BY <1>1 DEF Disturbed, Idle, HasFields, Fields
    <3>3. Begins(Disturbed(q))
      <4>1. Begins(proc[q])
        BY DEF HInv
      <4> QED
        BY <1>1, <4>1 DEF Disturbed, Idle, HasFields, Fields, Begins
    <3> QED
      BY <3>1, <3>2, <3>3
  <2>3. CASE q # p /\ ~Openly(p, next)
    <3>1. proc'[q] = proc[q]
      BY <1>1, <2>3 DEF Quietly
    <3>2. Begins(proc[q]) /\ (proc[q].quiet => Knows(proc[q], artifacts, saved, game, cache))
      BY DEF HInv
    <3>3. UNCHANGED <<artifacts, game, cache>> /\ saved' \in {saved, None}
      BY <2>3
    <3> QED
      BY <3>1, <3>2, <3>3 DEF Knows
  <2> QED
    BY <2>1, <2>2, <2>3
<1> QED
  BY <1>2 DEF HInv

\* What a process must know newly after a call.
Learns(n, a, s, g) ==
    /\ Bound(n) => n.catalog = a
    /\ Comparing(n) => n.seen = g
    /\ Writing(n) => n.catalog.versions = g
    /\ n.name = "status" /\ n.step = 5 /\ n.catalog \notin {None, Malformed} =>
          (n.seen = None <=> n.catalog.versions # g)
    /\ n.name = "install" /\ n.step = 4 => (a = None => s = None)

LEMMA AdvanceKnows ==
    ASSUME NEW r, NEW n, HasFields(r), r.step # 0, NEW a, NEW s, NEW g, NEW c,
           r.quiet => Knows(r, a, s, g, c),
           n.name = r.name, n.result = r.result, n.quiet = r.quiet,
           n.step \in Nat, n.step > r.step,
           \/ n.location = r.location /\ r.step > 1
           \/ n.name \notin {"sync", "install"} \/ Placed(n),
           NEW a2, NEW s2, NEW c2, r.quiet => Learns(n, a2, s2, g)
    PROVE  Begins(n) /\ (n.quiet => Knows(n, a2, s2, g, c2))
<1>1. r.step \in Nat /\ n.step > 1
  BY DEF HasFields
<1>2. Begins(n)
  BY <1>1 DEF Begins
<1>3. ASSUME n.quiet PROVE Knows(n, a2, s2, g, c2)
  <2>1. Knows(r, a, s, g, c) /\ Learns(n, a2, s2, g)
    BY <1>3
  <2>2. n.result = None
    BY <2>1 DEF Knows
  <2>3. n.name \in {"sync", "install"} => Placed(n)
    BY <1>1, <2>1 DEF Knows, Placed
  <2> QED
    BY <1>1, <2>1, <2>2, <2>3 DEF Knows, Learns
<1> QED
  BY <1>2, <1>3

\* A process in a call that is not its last one.
LEMMA AdvancedFields ==
    ASSUME HInv, NEW p \in Procs, InCall(proc[p]), proc[p].step # Len(Plan[proc[p].name])
    PROVE  /\ Advanced(p) = [proc[p] EXCEPT !.step = @ + 1]
           /\ HasFields(proc[p]) /\ proc[p].step \in Nat /\ proc[p].step # 0
           /\ proc[p].quiet => Knows(proc[p], artifacts, saved, game, cache)
<1>1. HasFields(proc[p]) /\ (proc[p].quiet => Knows(proc[p], artifacts, saved, game, cache))
  BY DEF HInv, IInv, Sound
<1>2. Calls(p) = Plan[proc[p].name] /\ proc[p].name \in Commands
  BY <1>1 DEF InCall, CallsOf, Calls, HasFields
<1>3. proc[p].step # 0
  BY <1>2, PlanIsFinite DEF InCall, CallsOf, Calls
<1> QED
  BY <1>1, <1>2, <1>3 DEF Advanced, HasFields

\* A call after which nothing is new to its process.
LEMMA PlainAdvanceKnows ==
    ASSUME HInv, NEW p \in Procs,
           NEW call \in {"stopped", "persona", "recover", "write", "moveOld"},
           AtCall(proc[p], call), NEW a2, NEW s2, NEW c2,
           a2 = artifacts \/ call \in {"recover", "write", "moveOld"},
           s2 = None \/ call # "recover"
    PROVE  /\ Begins(Advanced(p))
           /\ Advanced(p).quiet => Knows(Advanced(p), a2, s2, game, c2)
<1> DEFINE r == proc[p]
           n == [r EXCEPT !.step = @ + 1]
<1>1. HasFields(r) /\ InCall(r) /\ r.name \in Commands
  BY DEF HInv, IInv, Sound, AtCall, InCall, CallsOf, HasFields
<1>2. <<r.name, r.step>> \in {<<"sync", 2>>, <<"sync", 10>>, <<"install", 2>>, <<"sync", 3>>,
                              <<"install", 5>>, <<"sync", 4>>, <<"build", 1>>, <<"install", 3>>,
                              <<"sync", 7>>, <<"build", 4>>, <<"sync", 8>>, <<"build", 5>>}
  BY <1>1, Places
<1>3. r.step # Len(Plan[r.name])
  <2>1. \/ r.name = "sync" /\ r.step \in {2, 3, 4, 7, 8, 10}
        \/ r.name = "install" /\ r.step \in {2, 3, 5}
        \/ r.name = "build" /\ r.step \in {1, 4, 5}
    BY <1>2
  <2> HIDE DEF r
  <2>2. CASE r.name = "sync"
    BY <2>1, <2>2, Lengths
  <2>3. CASE r.name = "install"
    BY <2>1, <2>3, Lengths
  <2>4. CASE r.name = "build"
    BY <2>1, <2>4, Lengths
  <2> QED
    BY <2>1, <2>2, <2>3, <2>4
<1>4. /\ Advanced(p) = n /\ r.step \in Nat /\ r.step # 0
      /\ r.quiet => Knows(r, artifacts, saved, game, cache)
  BY <1>1, <1>3, AdvancedFields
<1>5. /\ n.name = r.name /\ n.result = r.result /\ n.quiet = r.quiet /\ n.step = r.step + 1
      /\ n.location = r.location /\ n.catalog = r.catalog
  BY <1>1 DEF HasFields, Fields
<1>6. r.step > 1 \/ n.name \notin {"sync", "install"}
  BY <1>2, <1>5
<1>7. ASSUME r.quiet PROVE Learns(n, a2, s2, game)
  <2>1. Knows(r, artifacts, saved, game, cache)
    BY <1>4, <1>7
  <2>2. Bound(n) => <<r.name, r.step>> \in {<<"sync", 10>>, <<"install", 5>>}
    BY <1>2, <1>5 DEF Bound
  <2>3. Bound(n) => call \in {"stopped", "persona"} /\ Bound(r)
    BY <1>1, <2>2, Places DEF Bound
  <2>4. Bound(n) => n.catalog = a2
    BY <1>5, <2>1, <2>3 DEF Knows
  <2>5. ~Comparing(n) /\ ~Writing(n) /\ n.name # "status"
    BY <1>2, <1>5 DEF Comparing, Writing
  <2>6. n.name = "install" /\ n.step = 4 => s2 = None
    <3>1. n.name = "install" /\ n.step = 4 => <<r.name, r.step>> = <<"install", 3>>
      BY <1>4, <1>5
    <3>2. <<r.name, r.step>> = <<"install", 3>> => call = "recover"
      BY <1>1, Places
    <3> QED
      BY <3>1, <3>2
  <2> QED
    BY <2>4, <2>5, <2>6 DEF Learns
<1> HIDE DEF n, r
<1>8. n.step \in Nat /\ n.step > r.step
  BY <1>4, <1>5
<1> QED
  BY <1>1, <1>4, <1>5, <1>6, <1>7, <1>8, AdvanceKnows

LEMMA CachesStayTyped ==
    ASSUME CacheIsTyped, UNCHANGED <<cache, backup>>, disk' \in {disk, LaterDisk}
    PROVE  CacheIsTyped'
BY DEF CacheIsTyped

\* A process that nobody disturbs has no verdict when it is gone.
LEMMA IdleKnows ==
    ASSUME NEW a, NEW s, NEW g, NEW c
    PROVE  Begins(Idle) /\ (Idle.quiet => Knows(Idle, a, s, g, c))
BY DEF Idle, Begins

LEMMA InvokeKeepsHInv ==
    ASSUME HInv, IInv', NEW p \in Procs, NEW name \in DOMAIN Plan, Invoke(p, name)
    PROVE  HInv'
<1> DEFINE r == [Idle EXCEPT !.name = name, !.id = starts', !.step = 1, !.quiet = TRUE]
<1>1. Quietly(p, r) /\ UNCHANGED <<steam, game, store>>
  BY DEF Invoke
<1>2. r.name = name /\ r.step = 1 /\ r.location = None /\ r.result = None
  BY DEF Idle
<1>3. UNCHANGED <<artifacts, saved, game, cache, disk, backup>>
  BY <1>1 DEF steam, store
<1> HIDE DEF r
<1>4. Begins(r) /\ Knows(r, artifacts', saved', game', cache')
  BY <1>2 DEF Begins, Knows, Bound, Comparing, Writing
<1>5. CacheIsTyped'
  BY <1>3, CachesStayTyped DEF HInv
<1> QED
  BY <1>1, <1>3, <1>4, <1>5, StepKnows

LEMMA CheckKeepsHInv ==
    ASSUME HInv, IInv', NEW p \in Procs, NEW call \in {"stopped", "persona"}, NEW ok,
           Check(p, call, ok)
    PROVE  HInv'
<1> DEFINE next == IF ok THEN Advanced(p) ELSE Ended(p, 1)
<1>1. AtCall(proc[p], call) /\ Quietly(p, next) /\ UNCHANGED <<steam, game, store>>
  BY AtIsAtCall DEF Check
<1>2. UNCHANGED <<artifacts, saved, game, cache, disk, backup>>
  BY <1>1 DEF steam, store
<1>3. HasFields(proc[p])
  BY DEF HInv, IInv, Sound
<1>4. proc[p].name # "status"
  BY <1>1, <1>3, Places
<1>5. /\ Begins(Ended(p, 1))
      /\ Ended(p, 1).quiet => Knows(Ended(p, 1), artifacts', saved', game', cache')
  BY <1>3, <1>4, FailureKnows
<1>6. /\ Begins(Advanced(p))
      /\ Advanced(p).quiet => Knows(Advanced(p), artifacts', saved', game', cache')
  <2>1. game' = game /\ artifacts' = artifacts
    BY <1>2
  <2>2. call # "recover"
    OBVIOUS
  <2> QED
    BY <1>1, <2>1, <2>2, PlainAdvanceKnows
<1>7. Begins(next) /\ (next.quiet => Knows(next, artifacts', saved', game', cache'))
  BY <1>5, <1>6
<1>8. CacheIsTyped'
  BY <1>2, CachesStayTyped DEF HInv
<1> HIDE DEF next
<1> QED
  BY <1>1, <1>2, <1>7, <1>8, StepKnows

LEMMA RecoverKeepsHInv ==
    ASSUME HInv, IInv', NEW p \in Procs, NEW call \in {"recover", "write"}, Recover(p, call)
    PROVE  HInv'
<1>1. AtCall(proc[p], call) /\ UNCHANGED <<steam, game, sources>>
  BY AtIsAtCall DEF Recover
<1>2. UNCHANGED <<game, cache, disk, backup>>
  BY <1>1 DEF steam
<1>3. HasFields(proc[p])
  BY DEF HInv, IInv, Sound
<1>4. proc[p].name # "status"
  BY <1>1, <1>3, Places
<1>5. CacheIsTyped'
  BY <1>2, CachesStayTyped DEF HInv
<1>6. CASE Locked
  <2>1. Quietly(p, Ended(p, 1)) /\ UNCHANGED <<artifacts, saved>>
    BY <1>6 DEF Recover
  <2>2. /\ Begins(Ended(p, 1))
        /\ Ended(p, 1).quiet => Knows(Ended(p, 1), artifacts', saved', game', cache')
    BY <1>3, <1>4, FailureKnows
  <2> QED
    BY <1>2, <1>5, <2>1, <2>2, StepKnows
<1>7. CASE ~Locked
  <2>1. saved' = None /\ \/ Quietly(p, Advanced(p)) /\ artifacts' = artifacts
                         \/ Openly(p, Advanced(p))
    BY <1>7 DEF Recover
  <2>2. /\ Begins(Advanced(p))
        /\ Advanced(p).quiet => Knows(Advanced(p), artifacts', saved', game', cache')
    <3>1. /\ Begins(Advanced(p))
          /\ Advanced(p).quiet => Knows(Advanced(p), artifacts', saved', game, cache')
      BY <1>1, <2>1, PlainAdvanceKnows
    <3> QED
      BY <1>2, <3>1
  <2> QED
    BY <1>2, <1>5, <2>1, <2>2, StepKnows
<1> QED
  BY <1>6, <1>7

LEMMA MoveOldKeepsHInv ==
    ASSUME HInv, IInv', NEW p \in Procs, MoveOld(p)
    PROVE  HInv'
<1>1. AtCall(proc[p], "moveOld") /\ UNCHANGED <<steam, game, sources>> /\ Openly(p, Advanced(p))
  BY AtIsAtCall DEF MoveOld
<1>2. UNCHANGED <<game, cache, disk, backup>>
  BY <1>1 DEF steam
<1>3. CacheIsTyped'
  BY <1>2, CachesStayTyped DEF HInv
<1>4. /\ Begins(Advanced(p))
      /\ Advanced(p).quiet => Knows(Advanced(p), artifacts', saved', game, cache')
  BY <1>1, PlainAdvanceKnows
<1> QED
  BY <1>1, <1>2, <1>3, <1>4, StepKnows

LEMMA FailureKeepsHInv ==
    ASSUME HInv, IInv', NEW p \in Procs, Fail(p) \/ Kill(p)
    PROVE  HInv'
<1>1. UNCHANGED <<steam, game>>
  BY DEF Fail, Kill
<1>2. UNCHANGED <<game, cache, disk, backup>>
  BY <1>1 DEF steam
<1>3. CacheIsTyped'
  BY <1>2, CachesStayTyped DEF HInv
<1>4. Openly(p, Idle) \/ (Quietly(p, Idle) /\ UNCHANGED <<artifacts, saved>>)
  BY DEF Fail, Kill, store
<1>5. Begins(Idle) /\ (Idle.quiet => Knows(Idle, artifacts', saved', game', cache'))
  BY IdleKnows
<1> QED
  BY <1>2, <1>3, <1>4, <1>5, StepKnows

LEMMA SameStores ==
    ASSUME UNCHANGED <<steam, game, artifacts, saved>>
    PROVE  UNCHANGED <<artifacts, saved, game, cache, disk, backup>>
BY DEF steam

\* The search of the caches.
LEMMA FindCacheKeepsHInv ==
    ASSUME HInv, IInv', NEW p \in Procs, NEW search \in Searches, FindCache(p, search)
    PROVE  HInv'
<1> DEFINE location == DiscoverCache(disk, search)
           r == proc[p]
           n == [[r EXCEPT !.step = @ + 1] EXCEPT !.location = location]
           found == [Advanced(p) EXCEPT !.location = location]
           next == IF location = None /\ ~Is(p, "status") THEN Ended(p, 1) ELSE found
<1>1. /\ AtCall(r, "locate") /\ InCall(r) /\ UNCHANGED <<steam, game, store>>
      /\ Quietly(p, next)
  BY AtIsAtCall DEF FindCache
<1>2. UNCHANGED <<artifacts, saved, game, cache, disk, backup>>
  BY <1>1, SameStores DEF store
<1>3. HasFields(r)
  BY DEF HInv, IInv, Sound
<1>4. r.step = 1 /\ r.name \in {"sync", "install", "status", "restore"}
  BY <1>1, <1>3, Places
<1>5. CacheIsTyped'
  BY <1>2, CachesStayTyped DEF HInv
<1>6. r.step # Len(Plan[r.name])
  <2> HIDE DEF r
  <2>1. CASE r.name = "sync"
    BY <1>4, <2>1, Lengths
  <2>2. CASE r.name = "install"
    BY <1>4, <2>2, Lengths
  <2>3. CASE r.name = "status"
    BY <1>4, <2>3, Lengths
  <2>4. CASE r.name = "restore"
    BY <1>4, <2>4, Lengths
  <2> QED
    BY <1>4, <2>1, <2>2, <2>3, <2>4
<1>7. found = n /\ r.step \in Nat /\ r.step # 0
      /\ (r.quiet => Knows(r, artifacts, saved, game, cache))
  BY <1>1, <1>6, AdvancedFields
<1>8. /\ n.name = r.name /\ n.result = r.result /\ n.quiet = r.quiet /\ n.step = 2
      /\ n.location = location
  BY <1>3, <1>4 DEF HasFields, Fields
<1>9. CASE location = None /\ ~Is(p, "status")
  <2>1. next = Ended(p, 1) /\ r.name # "status"
    BY <1>9 DEF Is
  <2>2. Begins(next) /\ (next.quiet => Knows(next, artifacts', saved', game', cache'))
    <3>1. /\ Begins(Ended(p, 1))
          /\ Ended(p, 1).quiet => Knows(Ended(p, 1), artifacts', saved', game', cache')
      BY <1>3, <2>1, FailureKnows
    <3> HIDE DEF next
    <3> QED
      BY <2>1, <3>1
  <2> HIDE DEF next
  <2> QED
    BY <1>1, <1>2, <1>5, <2>2, StepKnows
<1>10. CASE ~(location = None /\ ~Is(p, "status"))
  <2>1. next = n
    BY <1>7, <1>10
  <2>2. n.name \notin {"sync", "install"} \/ Placed(n)
    <3> SUFFICES ASSUME location # None PROVE Placed(n)
      BY <1>8, <1>10 DEF Is
    <3>1. disk \in {FirstDisk, LaterDisk}
      BY DEF HInv, CacheIsTyped
    <3>2. location \in LocationsOf(disk)
      BY <3>1, DiscoveryIsSound
    <3>3. location.file \in Files
      BY <3>1, <3>2, LocationIsThere
    <3> HIDE DEF location, n
    <3> QED
      BY <1>8, <3>3 DEF Placed
  <2>3. Learns(n, artifacts, saved, game)
    BY <1>8 DEF Learns, Bound, Comparing, Writing
  <2> HIDE DEF next, n, found
  <2>4. n.step \in Nat /\ n.step > r.step
    BY <1>4, <1>8
  <2>5. Begins(n) /\ (n.quiet => Knows(n, artifacts, saved, game, cache))
    BY <1>3, <1>7, <1>8, <2>2, <2>3, <2>4, AdvanceKnows
  <2>6. Begins(n) /\ (n.quiet => Knows(n, artifacts', saved', game', cache'))
    BY <1>2, <2>5
  <2> QED
    BY <1>1, <1>2, <1>5, <2>1, <2>6, StepKnows
<1> QED
  BY <1>9, <1>10

LEMMA BuildKnows ==
    ASSUME NEW n, n.name = "build", n.step # 0, n.step # 1, n.result = None,
           NEW a, NEW s, NEW g, NEW c
    PROVE  Begins(n) /\ Knows(n, a, s, g, c)
BY DEF Begins, Knows, Bound, Comparing, Writing

\* The new directory is in its place: the catalog of the command is the one there.
LEMMA MoveNewKeepsHInv ==
    ASSUME HInv, IInv', NEW p \in Procs, MoveNew(p)
    PROVE  HInv'
<1> DEFINE r == proc[p]
           n == [r EXCEPT !.step = @ + 1]
<1>1. /\ AtCall(r, "moveNew") /\ InCall(r) /\ UNCHANGED <<steam, game>>
      /\ Openly(p, Advanced(p)) /\ artifacts' = r.catalog
  BY AtIsAtCall DEF MoveNew
<1>2. UNCHANGED <<game, cache, disk, backup>>
  BY <1>1 DEF steam
<1>3. HasFields(r)
  BY DEF HInv, IInv, Sound
<1>4. CacheIsTyped'
  BY <1>2, CachesStayTyped DEF HInv
<1>5. <<r.name, r.step>> \in {<<"sync", 9>>, <<"build", 6>>}
  BY <1>1, <1>3, Places
<1>6. CASE r.name = "sync" /\ r.step = 9
  <2>1. r.step # Len(Plan[r.name])
    <3> HIDE DEF r
    <3> QED
      BY <1>6, Lengths
  <2>2. /\ Advanced(p) = n /\ r.step \in Nat /\ r.step # 0
        /\ r.quiet => Knows(r, artifacts, saved, game, cache)
    BY <1>1, <2>1, AdvancedFields
  <2>3. /\ n.name = "sync" /\ n.result = r.result /\ n.quiet = r.quiet /\ n.step = 10
        /\ n.location = r.location /\ n.catalog = r.catalog
    BY <1>3, <1>6 DEF HasFields, Fields
  <2>4. Learns(n, artifacts', saved', game)
    BY <1>1, <2>3 DEF Learns, Comparing, Writing
  <2> HIDE DEF n, r
  <2>5. n.step \in Nat /\ n.step > r.step /\ r.step > 1
    BY <1>6, <2>3
  <2>6. n.name = r.name
    BY <1>6, <2>3
  <2>7. Begins(n) /\ (n.quiet => Knows(n, artifacts', saved', game, cache'))
    BY <1>3, <2>2, <2>3, <2>4, <2>5, <2>6, AdvanceKnows
  <2> QED
    BY <1>1, <1>2, <1>4, <2>2, <2>7, StepKnows
<1>7. CASE r.name = "build" /\ r.step = 6
  <2>1. Advanced(p) = Ended(p, 0)
    <3>1. Calls(p) = Plan["build"]
      BY <1>1, <1>7 DEF Calls, InCall, CallsOf
    <3>2. r.step = Len(Calls(p))
      BY <1>7, <3>1, Lengths
    <3> QED
      BY <3>2 DEF Advanced
  <2>2. /\ Begins(Ended(p, 0))
        /\ Ended(p, 0).quiet => Knows(Ended(p, 0), artifacts', saved', game', cache')
    <3> DEFINE e == [name |-> r.name, location |-> r.location, result |-> 0]
    <3>1. Verdict(e, artifacts', game', cache')
      BY <1>7 DEF Verdict
    <3> QED
      BY <1>3, <3>1, EndedKnows
  <2> QED
    BY <1>1, <1>2, <1>4, <2>1, <2>2, StepKnows
<1> QED
  BY <1>5, <1>6, <1>7

\* The catalog that is made of the sources.
LEMMA ExtractKeepsHInv ==
    ASSUME HInv, IInv', NEW p \in Procs, NEW resume, Extract(p, resume)
    PROVE  HInv'
<1> DEFINE r == proc[p]
           a == [Advanced(p) EXCEPT !.catalog = Catalog(r.id, game)]
           b == [r EXCEPT !.catalog = Catalog(r.id, sources), !.step = @ + 2]
           next == IF ~resume THEN a ELSE IF sources = None THEN Ended(p, 1) ELSE b
<1>1. /\ AtCall(r, "extract") /\ InCall(r) /\ UNCHANGED <<steam, game, store>>
      /\ Quietly(p, next)
  BY AtIsAtCall DEF Extract
<1>2. UNCHANGED <<artifacts, saved, game, cache, disk, backup>>
  BY <1>1, SameStores DEF store
<1>3. HasFields(r)
  BY DEF HInv, IInv, Sound
<1>4. CacheIsTyped'
  BY <1>2, CachesStayTyped DEF HInv
<1>5. <<r.name, r.step>> \in {<<"sync", 5>>, <<"build", 2>>}
  BY <1>1, <1>3, Places
<1>6. r.step # Len(Plan[r.name])
  <2> HIDE DEF r
  <2>1. CASE r.name = "sync"
    BY <1>5, <2>1, Lengths
  <2>2. CASE r.name = "build"
    BY <1>5, <2>2, Lengths
  <2> QED
    BY <1>5, <2>1, <2>2
<1>7. /\ Advanced(p) = [r EXCEPT !.step = @ + 1] /\ r.step \in Nat /\ r.step # 0
      /\ r.quiet => Knows(r, artifacts, saved, game, cache)
  BY <1>1, <1>6, AdvancedFields
<1>8. ASSUME NEW n, n.name = r.name, n.result = r.result, n.quiet = r.quiet,
             n.location = r.location, n.step \in {r.step + 1, r.step + 2}
      PROVE  Begins(n) /\ (n.quiet => Knows(n, artifacts', saved', game', cache'))
  <2>1. Learns(n, artifacts', saved', game)
    BY <1>5, <1>8 DEF Learns, Bound, Comparing, Writing
  <2>2. n.step \in Nat /\ n.step > r.step /\ r.step > 1
    BY <1>5, <1>8
  <2> HIDE DEF r
  <2>3. Begins(n) /\ (n.quiet => Knows(n, artifacts', saved', game, cache'))
    BY <1>3, <1>7, <1>8, <2>1, <2>2, AdvanceKnows
  <2> QED
    BY <1>2, <2>3
<1>9. Begins(a) /\ (a.quiet => Knows(a, artifacts', saved', game', cache'))
  <2>1. /\ a.name = r.name /\ a.result = r.result /\ a.quiet = r.quiet
        /\ a.location = r.location /\ a.step = r.step + 1
    BY <1>3, <1>7 DEF HasFields, Fields
  <2> HIDE DEF a
  <2> QED
    BY <1>8, <2>1
<1>10. Begins(b) /\ (b.quiet => Knows(b, artifacts', saved', game', cache'))
  <2>1. /\ b.name = r.name /\ b.result = r.result /\ b.quiet = r.quiet
        /\ b.location = r.location /\ b.step = r.step + 2
    BY <1>3 DEF HasFields, Fields
  <2> HIDE DEF b
  <2> QED
    BY <1>8, <2>1
<1>11. /\ Begins(Ended(p, 1))
       /\ Ended(p, 1).quiet => Knows(Ended(p, 1), artifacts', saved', game', cache')
  <2>1. r.name # "status"
    BY <1>5
  <2> QED
    BY <1>3, <2>1, FailureKnows
<1>12. Begins(next) /\ (next.quiet => Knows(next, artifacts', saved', game', cache'))
  <2> HIDE DEF a, b
  <2> QED
    BY <1>9, <1>10, <1>11
<1> HIDE DEF next
<1> QED
  BY <1>1, <1>2, <1>4, <1>12, StepKnows

LEMMA ExtractPatchKeepsHInv ==
    ASSUME HInv, IInv', NEW p \in Procs, ExtractPatch(p)
    PROVE  HInv'
<1> DEFINE r == proc[p]
           n == [Advanced(p) EXCEPT !.catalog.versions.patch = game.patch]
<1>1. /\ AtCall(r, "extractPatch") /\ InCall(r) /\ UNCHANGED <<steam, game, artifacts, saved>>
      /\ Quietly(p, n)
  BY AtIsAtCall DEF ExtractPatch
<1>2. UNCHANGED <<artifacts, saved, game, cache, disk, backup>>
  BY <1>1, SameStores
<1>3. HasFields(r)
  BY DEF HInv, IInv, Sound
<1>4. CacheIsTyped'
  BY <1>2, CachesStayTyped DEF HInv
<1>5. <<r.name, r.step>> \in {<<"sync", 6>>, <<"build", 3>>}
  BY <1>1, <1>3, Places
<1>6. r.step # Len(Plan[r.name])
  <2> HIDE DEF r
  <2>1. CASE r.name = "sync"
    BY <1>5, <2>1, Lengths
  <2>2. CASE r.name = "build"
    BY <1>5, <2>2, Lengths
  <2> QED
    BY <1>5, <2>1, <2>2
<1>7. /\ Advanced(p) = [r EXCEPT !.step = @ + 1] /\ r.step \in Nat /\ r.step # 0
      /\ r.quiet => Knows(r, artifacts, saved, game, cache)
  BY <1>1, <1>6, AdvancedFields
<1>8. /\ n.name = r.name /\ n.result = r.result /\ n.quiet = r.quiet
      /\ n.location = r.location /\ n.step = r.step + 1
  <2> DEFINE m == [r EXCEPT !.step = @ + 1]
             x == [m.catalog EXCEPT !.versions.patch = game.patch]
  <2>1. n = [m EXCEPT !.catalog = x]
    BY <1>7
  <2>2. /\ m.name = r.name /\ m.result = r.result /\ m.quiet = r.quiet
        /\ m.location = r.location /\ m.step = r.step + 1 /\ DOMAIN m = Fields
    BY <1>3 DEF HasFields, Fields
  <2> HIDE DEF m, x, n
  <2> QED
    BY <2>1, <2>2 DEF Fields
<1>9. Learns(n, artifacts', saved', game)
  BY <1>5, <1>8 DEF Learns, Bound, Comparing, Writing
<1>10. n.step \in Nat /\ n.step > r.step /\ r.step > 1
  BY <1>5, <1>8
<1> HIDE DEF r, n
<1>11. Begins(n) /\ (n.quiet => Knows(n, artifacts', saved', game, cache'))
  BY <1>3, <1>7, <1>8, <1>9, <1>10, AdvanceKnows
<1>12. Begins(n) /\ (n.quiet => Knows(n, artifacts', saved', game', cache'))
  BY <1>2, <1>11
<1> QED
  BY <1>1, <1>2, <1>4, <1>12, StepKnows

\* What is read is what is there.
LEMMA ReadCatalogKeepsHInv ==
    ASSUME HInv, IInv', NEW p \in Procs, ReadCatalog(p)
    PROVE  HInv'
<1> DEFINE r == proc[p]
           a == [Advanced(p) EXCEPT !.catalog = artifacts]
           b == [r EXCEPT !.catalog = artifacts, !.step = Len(Calls(p))]
           next == IF artifacts \notin {None, Malformed} THEN a
                   ELSE IF Is(p, "install") THEN Ended(p, 1) ELSE b
<1>1. /\ AtCall(r, "catalog") /\ InCall(r) /\ UNCHANGED <<steam, game, store>>
      /\ Quietly(p, next)
  BY AtIsAtCall DEF ReadCatalog
<1>2. UNCHANGED <<artifacts, saved, game, cache, disk, backup>>
  BY <1>1, SameStores DEF store
<1>3. HasFields(r)
  BY DEF HInv, IInv, Sound
<1>4. CacheIsTyped'
  BY <1>2, CachesStayTyped DEF HInv
<1>5. <<r.name, r.step>> \in {<<"install", 4>>, <<"status", 2>>}
  BY <1>1, <1>3, Places
<1>6. r.step # Len(Plan[r.name])
  <2> HIDE DEF r
  <2>1. CASE r.name = "install"
    BY <1>5, <2>1, Lengths
  <2>2. CASE r.name = "status"
    BY <1>5, <2>2, Lengths
  <2> QED
    BY <1>5, <2>1, <2>2
<1>7. /\ Advanced(p) = [r EXCEPT !.step = @ + 1] /\ r.step \in Nat /\ r.step # 0
      /\ r.quiet => Knows(r, artifacts, saved, game, cache)
  BY <1>1, <1>6, AdvancedFields
<1>8. ASSUME NEW n, n.name = r.name, n.result = r.result, n.quiet = r.quiet,
             n.location = r.location, n.catalog = artifacts,
             n.step \in {3, 5}, r.name = "install" => n.step = 5,
             n.step = 5 /\ r.name = "status" => artifacts \in {None, Malformed}
      PROVE  Begins(n) /\ (n.quiet => Knows(n, artifacts', saved', game', cache'))
  <2>1. Learns(n, artifacts, saved, game)
    BY <1>5, <1>8 DEF Learns, Bound, Comparing, Writing
  <2>2. n.step \in Nat /\ n.step > r.step /\ r.step > 1
    BY <1>5, <1>8
  <2> HIDE DEF r
  <2>3. Begins(n) /\ (n.quiet => Knows(n, artifacts, saved, game, cache))
    BY <1>3, <1>7, <1>8, <2>1, <2>2, AdvanceKnows
  <2> QED
    BY <1>2, <2>3
<1>9. ASSUME artifacts \notin {None, Malformed}
      PROVE  Begins(a) /\ (a.quiet => Knows(a, artifacts', saved', game', cache'))
  <2>1. /\ a.name = r.name /\ a.result = r.result /\ a.quiet = r.quiet
        /\ a.location = r.location /\ a.step = r.step + 1 /\ a.catalog = artifacts
    BY <1>3, <1>7 DEF HasFields, Fields
  <2> HIDE DEF a
  <2>2. a.step \in {3, 5} /\ (r.name = "install" => a.step = 5)
        /\ (a.step = 5 /\ r.name = "status" => artifacts \in {None, Malformed})
    BY <1>5, <2>1
  <2> QED
    BY <1>8, <2>1, <2>2
<1>10. ASSUME artifacts \in {None, Malformed}, ~Is(p, "install")
       PROVE  Begins(b) /\ (b.quiet => Knows(b, artifacts', saved', game', cache'))
  <2>1. r.name = "status"
    BY <1>5, <1>10 DEF Is
  <2>2. Calls(p) = Plan["status"]
    BY <1>1, <2>1 DEF Calls, InCall, CallsOf
  <2>3. /\ b.name = r.name /\ b.result = r.result /\ b.quiet = r.quiet
        /\ b.location = r.location /\ b.step = Len(Calls(p)) /\ b.catalog = artifacts
    BY <1>3 DEF HasFields, Fields
  <2> HIDE DEF b
  <2>4. b.step = 5
    BY <2>2, <2>3, Lengths
  <2> QED
    BY <1>8, <1>10, <2>1, <2>3, <2>4
<1>11. ASSUME Is(p, "install")
       PROVE  /\ Begins(Ended(p, 1))
              /\ Ended(p, 1).quiet => Knows(Ended(p, 1), artifacts', saved', game', cache')
  <2>1. r.name # "status"
    BY <1>11 DEF Is
  <2> QED
    BY <1>3, <2>1, FailureKnows
<1>12. Begins(next) /\ (next.quiet => Knows(next, artifacts', saved', game', cache'))
  <2> HIDE DEF a, b
  <2> QED
    BY <1>9, <1>10, <1>11
<1> HIDE DEF next
<1> QED
  BY <1>1, <1>2, <1>4, <1>12, StepKnows

\* The answers of the API are those of the game.
LEMMA ResolveClientKeepsHInv ==
    ASSUME HInv, IInv', NEW p \in Procs, ResolveClient(p)
    PROVE  HInv'
<1> DEFINE r == proc[p]
           n == [Advanced(p) EXCEPT !.seen = game]
<1>1. /\ AtCall(r, "client") /\ InCall(r) /\ UNCHANGED <<steam, game, store>>
      /\ Quietly(p, n)
  BY AtIsAtCall DEF ResolveClient
<1>2. UNCHANGED <<artifacts, saved, game, cache, disk, backup>>
  BY <1>1, SameStores DEF store
<1>3. HasFields(r)
  BY DEF HInv, IInv, Sound
<1>4. CacheIsTyped'
  BY <1>2, CachesStayTyped DEF HInv
<1>5. <<r.name, r.step>> \in {<<"sync", 11>>, <<"install", 6>>, <<"status", 3>>}
  BY <1>1, <1>3, Places
<1>6. r.step # Len(Plan[r.name])
  <2> HIDE DEF r
  <2>1. CASE r.name = "sync"
    BY <1>5, <2>1, Lengths
  <2>2. CASE r.name = "install"
    BY <1>5, <2>2, Lengths
  <2>3. CASE r.name = "status"
    BY <1>5, <2>3, Lengths
  <2> QED
    BY <1>5, <2>1, <2>2, <2>3
<1>7. /\ Advanced(p) = [r EXCEPT !.step = @ + 1] /\ r.step \in Nat /\ r.step # 0
      /\ r.quiet => Knows(r, artifacts, saved, game, cache)
  BY <1>1, <1>6, AdvancedFields
<1>8. /\ n.name = r.name /\ n.result = r.result /\ n.quiet = r.quiet /\ n.catalog = r.catalog
      /\ n.location = r.location /\ n.step = r.step + 1 /\ n.seen = game
  BY <1>3, <1>7 DEF HasFields, Fields
<1> HIDE DEF r, n
<1>9. ASSUME r.quiet PROVE Learns(n, artifacts, saved, game)
  <2>1. Knows(r, artifacts, saved, game, cache)
    BY <1>7, <1>9
  <2>2. Bound(r)
    BY <1>5 DEF Bound
  <2>3. n.catalog = artifacts
    BY <1>8, <2>1, <2>2 DEF Knows
  <2>4. ~Writing(n)
    BY <1>5, <1>8 DEF Writing
  <2>5. ~(n.name = "status" /\ n.step = 5) /\ ~(n.name = "install" /\ n.step = 4)
    BY <1>5, <1>8
  <2> QED
    BY <1>8, <2>3, <2>4, <2>5 DEF Learns
<1>10. n.step \in Nat /\ n.step > r.step /\ r.step > 1
  BY <1>5, <1>8
<1>11. Begins(n) /\ (n.quiet => Knows(n, artifacts, saved, game, cache))
  BY <1>3, <1>7, <1>8, <1>9, <1>10, AdvanceKnows
<1>12. Begins(n) /\ (n.quiet => Knows(n, artifacts', saved', game', cache'))
  BY <1>2, <1>11
<1> QED
  BY <1>1, <1>2, <1>4, <1>12, StepKnows

LEMMA ResolvePatchKeepsHInv ==
    ASSUME HInv, IInv', NEW p \in Procs, ResolvePatch(p)
    PROVE  HInv'
<1> DEFINE r == proc[p]
           fresh == IsFresh(r.catalog, r.seen.client, game.patch)
           n == [Advanced(p) EXCEPT !.seen = IF fresh THEN @ ELSE None]
           next == IF ~fresh /\ ~Is(p, "status") THEN Ended(p, 1) ELSE n
<1>1. /\ AtCall(r, "patch") /\ InCall(r) /\ UNCHANGED <<steam, game, store>>
      /\ Quietly(p, next)
  BY AtIsAtCall DEF ResolvePatch
<1>2. UNCHANGED <<artifacts, saved, game, cache, disk, backup>>
  BY <1>1, SameStores DEF store
<1>3. HasFields(r)
  BY DEF HInv, IInv, Sound
<1>4. CacheIsTyped'
  BY <1>2, CachesStayTyped DEF HInv
<1>5. Comparing(r)
  BY <1>1, <1>3, Places
<1>6. r.step # Len(Plan[r.name])
  <2> HIDE DEF r
  <2>1. CASE r.name = "sync"
    BY <1>5, <2>1, Lengths DEF Comparing
  <2>2. CASE r.name = "install"
    BY <1>5, <2>2, Lengths DEF Comparing
  <2>3. CASE r.name = "status"
    BY <1>5, <2>3, Lengths DEF Comparing
  <2> QED
    BY <1>5, <2>1, <2>2, <2>3 DEF Comparing
<1>7. /\ Advanced(p) = [r EXCEPT !.step = @ + 1] /\ r.step \in Nat /\ r.step # 0
      /\ r.quiet => Knows(r, artifacts, saved, game, cache)
  BY <1>1, <1>6, AdvancedFields
<1>8. /\ n.name = r.name /\ n.result = r.result /\ n.quiet = r.quiet /\ n.catalog = r.catalog
      /\ n.location = r.location /\ n.step = r.step + 1
      /\ n.seen = IF fresh THEN r.seen ELSE None
  <2> HIDE DEF fresh
  <2> QED
    BY <1>3, <1>7 DEF HasFields, Fields
<1>9. IsCatalog(r.catalog, game)
  <2>1. HasCatalog(r, game) /\ r.name \in Commands /\ r.step \in DOMAIN Plan[r.name]
        /\ Plan[r.name][r.step] = "patch"
    BY <1>1, <1>3 DEF HInv, IInv, Sound, AtCall, InCall, CallsOf, HasFields
  <2>2. Catalogued[r.name] <= r.step
    BY <2>1, CatalogOrder
  <2> QED
    BY <1>1, <2>1, <2>2 DEF HasCatalog, AtCall
<1>10. game \in Versions /\ r.catalog.versions \in Versions /\ game # None
  BY <1>9, NoneAssumption DEF HInv, IInv, IsCatalog, Catalogs
<1>11. ASSUME r.quiet
       PROVE  /\ r.seen = game /\ r.catalog = artifacts
              /\ fresh <=> r.catalog.versions = game
  <2>1. Knows(r, artifacts, saved, game, cache)
    BY <1>7, <1>11
  <2>2. Bound(r)
    BY <1>5 DEF Bound, Comparing
  <2>3. r.seen = game /\ r.catalog = artifacts
    BY <1>5, <2>1, <2>2 DEF Knows
  <2>4. fresh <=> r.catalog.versions.client = game.client /\ r.catalog.versions.patch = game.patch
    BY <2>3 DEF IsFresh
  <2>5. r.catalog.versions = game <=>
          r.catalog.versions.client = game.client /\ r.catalog.versions.patch = game.patch
    BY <1>10 DEF Versions
  <2> QED
    BY <2>3, <2>4, <2>5
<1>12. CASE ~fresh /\ ~Is(p, "status")
  <2>1. next = Ended(p, 1) /\ r.name # "status"
    BY <1>12 DEF Is
  <2>2. /\ Begins(Ended(p, 1))
        /\ Ended(p, 1).quiet => Knows(Ended(p, 1), artifacts', saved', game', cache')
    BY <1>3, <2>1, FailureKnows
  <2> HIDE DEF next
  <2> QED
    BY <1>1, <1>2, <1>4, <2>1, <2>2, StepKnows
<1>13. CASE ~(~fresh /\ ~Is(p, "status"))
  <2>1. next = n /\ (fresh \/ r.name = "status")
    BY <1>13 DEF Is
  <2> HIDE DEF r, n, next, fresh
  <2>2. ASSUME r.quiet PROVE Learns(n, artifacts, saved, game)
    <3>1. r.seen = game /\ n.catalog = artifacts /\ (fresh <=> n.catalog.versions = game)
      BY <1>8, <1>11, <2>2
    <3>2. ~Comparing(n) /\ ~(n.name = "install" /\ n.step = 4)
      BY <1>5, <1>8 DEF Comparing
    <3>3. Writing(n) => r.name # "status"
      BY <1>5, <1>8 DEF Comparing, Writing
    <3>4. n.seen = None <=> n.catalog.versions # game
      BY <1>8, <1>10, <3>1
    <3> QED
      BY <2>1, <3>1, <3>2, <3>3, <3>4 DEF Learns
  <2>3. n.step \in Nat /\ n.step > r.step /\ r.step > 1
    BY <1>5, <1>8 DEF Comparing
  <2>4. Begins(n) /\ (n.quiet => Knows(n, artifacts, saved, game, cache))
    BY <1>3, <1>7, <1>8, <2>2, <2>3, AdvanceKnows
  <2>5. Begins(n) /\ (n.quiet => Knows(n, artifacts', saved', game', cache'))
    BY <1>2, <2>4
  <2> QED
    BY <1>1, <1>2, <1>4, <2>1, <2>5, StepKnows
<1> QED
  BY <1>12, <1>13

LEMMA ReadCacheKeepsHInv ==
    ASSUME HInv, IInv', NEW p \in Procs, ReadCache(p)
    PROVE  HInv'
<1> DEFINE r == proc[p]
           file == r.location.file
           n == [Advanced(p) EXCEPT !.original = cache[file]]
           next == IF cache[file].builds = Malformed THEN Ended(p, 1) ELSE n
<1>1. /\ AtCall(r, "read") /\ InCall(r) /\ UNCHANGED <<steam, game, store>>
      /\ Quietly(p, next)
  BY AtIsAtCall DEF ReadCache
<1>2. UNCHANGED <<artifacts, saved, game, cache, disk, backup>>
  BY <1>1, SameStores DEF store
<1>3. HasFields(r)
  BY DEF HInv, IInv, Sound
<1>4. CacheIsTyped'
  BY <1>2, CachesStayTyped DEF HInv
<1>5. <<r.name, r.step>> \in {<<"sync", 13>>, <<"install", 8>>}
  BY <1>1, <1>3, Places
<1>6. r.step # Len(Plan[r.name])
  <2> HIDE DEF r
  <2>1. CASE r.name = "sync"
    BY <1>5, <2>1, Lengths
  <2>2. CASE r.name = "install"
    BY <1>5, <2>2, Lengths
  <2> QED
    BY <1>5, <2>1, <2>2
<1>7. /\ Advanced(p) = [r EXCEPT !.step = @ + 1] /\ r.step \in Nat /\ r.step # 0
      /\ r.quiet => Knows(r, artifacts, saved, game, cache)
  BY <1>1, <1>6, AdvancedFields
<1>8. /\ n.name = r.name /\ n.result = r.result /\ n.quiet = r.quiet /\ n.catalog = r.catalog
      /\ n.location = r.location /\ n.step = r.step + 1
  <2> HIDE DEF file
  <2> QED
    BY <1>3, <1>7 DEF HasFields, Fields
<1>9. /\ Begins(Ended(p, 1))
      /\ Ended(p, 1).quiet => Knows(Ended(p, 1), artifacts', saved', game', cache')
  <2>1. r.name # "status"
    BY <1>5
  <2> QED
    BY <1>3, <2>1, FailureKnows
<1> HIDE DEF r, n
<1>10. ASSUME r.quiet PROVE Learns(n, artifacts, saved, game)
  <2>1. Knows(r, artifacts, saved, game, cache)
    BY <1>7, <1>10
  <2>2. Bound(r) /\ Writing(r)
    BY <1>5 DEF Bound, Writing
  <2>3. n.catalog = artifacts /\ n.catalog.versions = game
    BY <1>8, <2>1, <2>2 DEF Knows
  <2>4. n.name # "status" /\ n.step # 4 /\ ~Comparing(n)
    BY <1>5, <1>8 DEF Comparing
  <2> QED
    BY <2>3, <2>4 DEF Learns
<1>11. n.step \in Nat /\ n.step > r.step /\ r.step > 1
  BY <1>5, <1>8
<1>12. Begins(n) /\ (n.quiet => Knows(n, artifacts, saved, game, cache))
  BY <1>3, <1>7, <1>8, <1>10, <1>11, AdvanceKnows
<1>13. Begins(next) /\ (next.quiet => Knows(next, artifacts', saved', game', cache'))
  BY <1>2, <1>9, <1>12
<1> HIDE DEF next
<1> QED
  BY <1>1, <1>2, <1>4, <1>13, StepKnows

\* A replacement of a cache by what has builds.
LEMMA ReplaceKeepsTypes ==
    ASSUME CacheIsTyped, NEW p \in Procs, NEW file, NEW content, Replace(p, file, content),
           UNCHANGED disk, file \in Files => "builds" \in DOMAIN content
    PROVE  CacheIsTyped'
<1>1. /\ cache' = [cache EXCEPT ![file] = content]
      /\ backup' = [backup EXCEPT ![file] = cache[file]]
  BY DEF Replace
<1>2. DOMAIN cache' = Files /\ DOMAIN backup' = Files
  BY <1>1 DEF CacheIsTyped
<1>3. ASSUME NEW f \in Files
      PROVE  /\ "builds" \in DOMAIN cache'[f]
             /\ backup'[f] # None => "builds" \in DOMAIN backup'[f]
  <2>1. CASE f = file
    <3>1. cache'[f] = content /\ backup'[f] = cache[f]
      BY <1>1, <2>1 DEF CacheIsTyped
    <3> QED
      BY <2>1, <3>1 DEF CacheIsTyped
  <2>2. CASE f # file
    <3>1. cache'[f] = cache[f] /\ backup'[f] = backup[f]
      BY <1>1, <2>2 DEF CacheIsTyped
    <3> QED
      BY <3>1 DEF CacheIsTyped
  <2> QED
    BY <2>1, <2>2
<1> QED
  BY <1>2, <1>3 DEF CacheIsTyped

\* What an undisturbed command has written is current, and it is installed.
LEMMA UpdateKeepsHInv ==
    ASSUME HInv, IInv', NEW p \in Procs, Update(p)
    PROVE  HInv'
<1> DEFINE r == proc[p]
           file == r.location.file
           content == [r.original EXCEPT !.builds = r.catalog]
<1>1. AtCall(r, "update") /\ InCall(r) /\ UNCHANGED <<disk, running, game, store>>
  BY AtIsAtCall DEF Update
<1>2. UNCHANGED <<artifacts, saved, game, disk>>
  BY <1>1 DEF store
<1>3. HasFields(r) /\ CacheIsTyped
  BY DEF HInv, IInv, Sound
<1>4. <<r.name, r.step>> \in {<<"sync", 14>>, <<"install", 9>>}
  BY <1>1, <1>3, Places
<1>5. r.quiet => Knows(r, artifacts, saved, game, cache)
  BY DEF HInv
<1>6. /\ Begins(Ended(p, 1))
      /\ Ended(p, 1).quiet => Knows(Ended(p, 1), artifacts', saved', game', cache')
  <2>1. r.name # "status"
    BY <1>4
  <2> QED
    BY <1>3, <2>1, FailureKnows
<1>7. CASE running \/ cache[file] # r.original
  <2>1. Quietly(p, Ended(p, 1)) /\ UNCHANGED <<cache, backup>>
    BY <1>7 DEF Update
  <2>2. CacheIsTyped'
    BY <1>2, <1>3, <2>1, CachesStayTyped
  <2> QED
    BY <1>2, <1>6, <2>1, <2>2, StepKnows
<1>8. CASE ~(running \/ cache[file] # r.original)
  <2>1. /\ cache[file] = r.original
        /\ IF content = cache[file] THEN UNCHANGED <<cache, backup>> ELSE Replace(p, file, content)
        /\ \E code \in {0, 1} : Openly(p, Ended(p, code))
    BY <1>8 DEF Update
  <2>2. file \in Files => "builds" \in DOMAIN content /\ content.builds = r.catalog
    <3>1. file \in Files => "builds" \in DOMAIN r.original
      BY <1>3, <2>1 DEF CacheIsTyped
    <3> HIDE DEF file, r
    <3> QED
      BY <3>1
  <2> HIDE DEF content
  <2>3. CacheIsTyped'
    <3>1. CASE content = cache[file]
      BY <1>2, <1>3, <2>1, <3>1, CachesStayTyped
    <3>2. CASE content # cache[file]
      <4>1. Replace(p, file, content)
        BY <2>1, <3>2
      <4> HIDE DEF file
      <4> QED
        BY <1>2, <1>3, <2>2, <4>1, ReplaceKeepsTypes
    <3> QED
      BY <3>1, <3>2
  <2>4. file \in Files => cache'[file] = content
    <3> HIDE DEF file
    <3> QED
      BY <1>3, <2>1 DEF CacheIsTyped, Replace
  <2>5. ASSUME r.quiet
        PROVE  IsCurrent([name |-> r.name, location |-> r.location, result |-> 0],
                         artifacts', game', cache')
    <3>1. Knows(r, artifacts, saved, game, cache)
      BY <1>5, <2>5
    <3>2. Bound(r) /\ Writing(r) /\ r.step > 1 /\ r.name \in {"sync", "install"}
      BY <1>4 DEF Bound, Writing
    <3>3. r.catalog = artifacts /\ r.catalog.versions = game /\ Placed(r)
      BY <3>1, <3>2 DEF Knows
    <3>4. artifacts \notin {None, Malformed}
      <4>1. HasCatalog(r, game) /\ r.name \in Commands /\ r.step \in DOMAIN Plan[r.name]
            /\ Plan[r.name][r.step] = "update"
        BY <1>1, <1>3 DEF HInv, IInv, Sound, AtCall, InCall, CallsOf, HasFields
      <4>2. Catalogued[r.name] <= r.step
        BY <4>1, CatalogOrder
      <4>3. IsCatalog(r.catalog, game)
        BY <1>1, <4>1, <4>2 DEF HasCatalog, AtCall
      <4> QED
        BY <3>3, <4>3, NoneAssumption DEF IsCatalog
    <3>5. cache'[file].builds = artifacts
      BY <2>2, <2>4, <3>3 DEF Placed
    <3> QED
      BY <1>2, <3>3, <3>4, <3>5 DEF IsCurrent, Placed
  <2>6. /\ Begins(Ended(p, 0))
        /\ Ended(p, 0).quiet => Knows(Ended(p, 0), artifacts', saved', game', cache')
    <3> DEFINE e == [name |-> r.name, location |-> r.location, result |-> 0]
    <3>1. ASSUME r.quiet PROVE Verdict(e, artifacts', game', cache')
      <4>1. IsCurrent(e, artifacts', game', cache')
        BY <2>5, <3>1
      <4>2. e.result = 0
        OBVIOUS
      <4> HIDE DEF e
      <4> QED
        BY <4>1, <4>2 DEF Verdict
    <3> QED
      BY <1>3, <3>1, EndedKnows
  <2>7. PICK code \in {0, 1} : Openly(p, Ended(p, code))
    BY <2>1
  <2>8. /\ Begins(Ended(p, code))
        /\ Ended(p, code).quiet => Knows(Ended(p, code), artifacts', saved', game', cache')
    BY <1>6, <2>6
  <2> QED
    BY <2>3, <2>7, <2>8, StepKnows
<1> QED
  BY <1>7, <1>8

LEMMA RestoreKeepsHInv ==
    ASSUME HInv, IInv', NEW p \in Procs, RestoreLatest(p)
    PROVE  HInv'
<1> DEFINE r == proc[p]
           file == r.location.file
<1>1. AtCall(r, "restore") /\ InCall(r) /\ UNCHANGED <<disk, running, game, store>>
  BY AtIsAtCall DEF RestoreLatest
<1>2. UNCHANGED <<artifacts, saved, game, disk>>
  BY <1>1 DEF store
<1>3. HasFields(r) /\ CacheIsTyped
  BY DEF HInv, IInv, Sound
<1>4. r.name = "restore" /\ r.step = 2
  BY <1>1, <1>3, Places
<1>5. Advanced(p) = Ended(p, 0)
  <2>1. Calls(p) = Plan["restore"]
    BY <1>1, <1>4 DEF Calls, InCall, CallsOf
  <2>2. r.step = Len(Calls(p))
    BY <1>4, <2>1, Lengths
  <2> QED
    BY <2>2 DEF Advanced
<1>6. ASSUME NEW code \in {0, 1}
      PROVE  /\ Begins(Ended(p, code))
             /\ Ended(p, code).quiet => Knows(Ended(p, code), artifacts', saved', game', cache')
  <2> DEFINE e == [name |-> r.name, location |-> r.location, result |-> code]
  <2>1. Verdict(e, artifacts', game', cache')
    BY <1>4 DEF Verdict
  <2> QED
    BY <1>3, <2>1, EndedKnows
<1>7. CASE running \/ backup[file] = None
  <2>1. Quietly(p, Ended(p, 1)) /\ UNCHANGED <<cache, backup>>
    BY <1>7 DEF RestoreLatest
  <2>2. CacheIsTyped'
    BY <1>2, <1>3, <2>1, CachesStayTyped
  <2> QED
    BY <1>2, <1>6, <2>1, <2>2, StepKnows
<1>8. CASE ~(running \/ backup[file] = None)
  <2>1. Replace(p, file, backup[file]) /\ Openly(p, Ended(p, 0))
    BY <1>5, <1>8 DEF RestoreLatest
  <2>2. file \in Files => "builds" \in DOMAIN backup[file]
    <3> HIDE DEF file
    <3> QED
      BY <1>3, <1>8 DEF CacheIsTyped
  <2>3. CacheIsTyped'
    <3> HIDE DEF file
    <3> QED
      BY <1>2, <1>3, <2>1, <2>2, ReplaceKeepsTypes
  <2> QED
    BY <1>6, <2>1, <2>3, StepKnows
<1> QED
  BY <1>7, <1>8

\* The report of status.
LEMMA CompareKeepsHInv ==
    ASSUME HInv, IInv', NEW p \in Procs, Compare(p)
    PROVE  HInv'
<1> DEFINE r == proc[p]
           B == BuildsStage(p)
           I == InstalledStage(p)
           code == ExitCode({B, I})
           e == [name |-> r.name, location |-> r.location, result |-> code]
<1>1. /\ AtCall(r, "compare") /\ InCall(r) /\ UNCHANGED <<steam, game, store>>
      /\ Quietly(p, Ended(p, code))
  BY AtIsAtCall DEF Compare
<1>2. UNCHANGED <<artifacts, saved, game, cache, disk, backup>>
  BY <1>1, SameStores DEF store
<1>3. HasFields(r)
  BY DEF HInv, IInv, Sound
<1>4. CacheIsTyped'
  BY <1>2, CachesStayTyped DEF HInv
<1>5. r.name = "status" /\ r.step = 5
  BY <1>1, <1>3, Places
<1>6. r.quiet => Knows(r, artifacts, saved, game, cache)
  BY DEF HInv
<1>7. /\ code = 0 => B = "current" /\ I = "current"
      /\ code = 1 => {B, I} \cap {"malformed", "unavailable"} # {}
      /\ code = 2 => ~(B = "current" /\ I = "current")
                     /\ {B, I} \cap {"malformed", "unavailable"} = {}
  <2> HIDE DEF B, I
  <2>1. CASE {B, I} = {"current"}
    <3>1. code = 0 /\ B = "current" /\ I = "current"
      BY <2>1 DEF ExitCode
    <3> QED
      BY <3>1
  <2>2. CASE {B, I} \cap {"malformed", "unavailable"} # {}
    <3>1. {B, I} # {"current"} /\ code = 1
      BY <2>2 DEF ExitCode
    <3> QED
      BY <2>2, <3>1
  <2>3. CASE {B, I} # {"current"} /\ {B, I} \cap {"malformed", "unavailable"} = {}
    <3>1. code = 2
      BY <2>3 DEF ExitCode
    <3> QED
      BY <2>3, <3>1
  <2> QED
    BY <2>1, <2>2, <2>3
<1>8. ASSUME r.quiet PROVE Verdict(e, artifacts, game, cache)
  <2>1. Knows(r, artifacts, saved, game, cache)
    BY <1>6, <1>8
  <2>2. Bound(r)
    BY <1>5 DEF Bound
  <2>3. /\ r.catalog = artifacts
        /\ r.catalog \notin {None, Malformed} => (r.seen = None <=> artifacts.versions # game)
    BY <1>5, <2>1, <2>2 DEF Knows
  <2>4. /\ e.name = "status" /\ e.location = r.location /\ e.result = code
    BY <1>5
  <2> DEFINE builds == cache[r.location.file].builds
             proper == artifacts \notin {None, Malformed}
             fresh == artifacts.versions = game
  <2>5. /\ B = "current" <=> proper /\ fresh
        /\ B = "malformed" <=> artifacts = Malformed
        /\ B # "unavailable"
    <3>1. None # Malformed
      BY NoneAssumption
    <3>2. B = IF artifacts = None THEN "missing" ELSE IF artifacts = Malformed THEN "malformed"
              ELSE IF r.seen = None THEN "stale" ELSE "current"
      BY <2>3 DEF BuildsStage
    <3> HIDE DEF B, r
    <3> QED
      BY <2>3, <3>1, <3>2
  <2>6. /\ I = "current" <=> proper /\ r.location # None /\ builds = artifacts
        /\ I = "unavailable" <=> r.location = None
        /\ I = "malformed" => builds = Malformed
        /\ I = "malformed" => r.location # None
        /\ proper /\ r.location # None /\ builds = artifacts => builds # Malformed
    <3>1. I = IF r.location = None THEN "unavailable" ELSE IF ~proper THEN "missing"
              ELSE IF builds = Malformed THEN "malformed"
              ELSE IF builds = artifacts THEN "current" ELSE "stale"
      BY <2>3 DEF InstalledStage
    <3> HIDE DEF I, builds, r
    <3> QED
      BY <3>1
  <2>7. IsCurrent(e, artifacts, game, cache) <=> B = "current" /\ I = "current"
    <3>1. IsCurrent(e, artifacts, game, cache) <=>
            proper /\ fresh /\ r.location # None /\ builds = artifacts
      BY <2>4 DEF IsCurrent
    <3> HIDE DEF B, I, builds, r, e, proper, fresh
    <3> QED
      BY <2>5, <2>6, <3>1
  <2> HIDE DEF B, I, code
  <2>8. code = 0 => IsCurrent(e, artifacts, game, cache)
    BY <1>7, <2>7
  <2>9. code = 2 => ~IsCurrent(e, artifacts, game, cache) /\ r.location # None
                    /\ artifacts # Malformed
    BY <1>7, <2>5, <2>6, <2>7
  <2>10. code = 1 => r.location = None \/ artifacts = Malformed \/ builds = Malformed
    BY <1>7, <2>5, <2>6
  <2> HIDE DEF e
  <2> QED
    BY <2>4, <2>8, <2>9, <2>10 DEF Verdict
<1>9. /\ Begins(Ended(p, code))
      /\ Ended(p, code).quiet => Knows(Ended(p, code), artifacts, saved, game, cache)
  <2> HIDE DEF code
  <2> QED
    BY <1>3, <1>8, EndedKnows
<1> HIDE DEF code
<1>10. Ended(p, code).quiet => Knows(Ended(p, code), artifacts', saved', game', cache')
  BY <1>2, <1>9
<1> QED
  BY <1>1, <1>2, <1>4, <1>9, <1>10, StepKnows

LEMMA OthersKeepHInv ==
    ASSUME HInv, IInv', Others
    PROVE  HInv'
<1>1. Disturb
  BY DEF Others, UpdateGame, Toggle, AddCaches, Save, Event
<1>2. DOMAIN proc = Procs /\ \A q \in Procs : HasFields(proc[q])
  BY DEF HInv, IInv, Sound
<1>3. ASSUME NEW q \in Procs PROVE Begins(proc'[q]) /\ ~proc'[q].quiet
  <2>1. proc'[q] = Disturbed(q)
    BY <1>1 DEF Disturb
  <2>2. Begins(proc[q])
    BY DEF HInv
  <2>3. Begins(Disturbed(q)) /\ ~Disturbed(q).quiet
    BY <1>2, <2>2 DEF Disturbed, Idle, HasFields, Fields, Begins
  <2> QED
    BY <2>1, <2>3
<1>4. CacheIsTyped'
  <2>1. CASE UpdateGame \/ Toggle \/ AddCaches
    <3>1. UNCHANGED <<cache, backup>> /\ disk' \in {disk, LaterDisk}
      BY <2>1 DEF UpdateGame, Toggle, AddCaches, steam
    <3> QED
      BY <3>1, CachesStayTyped DEF HInv
  <2>2. ASSUME NEW file, Save(file) PROVE CacheIsTyped'
    <3>1. PICK builds : cache' = [cache EXCEPT ![file] = [builds |-> builds, mark |-> events']]
      BY <2>2 DEF Save
    <3>2. UNCHANGED <<disk, backup>>
      BY <2>2 DEF Save
    <3>3. CacheIsTyped
      BY DEF HInv
    <3> QED
      BY <3>1, <3>2, <3>3 DEF CacheIsTyped
  <2> QED
    BY <2>1, <2>2 DEF Others
<1> QED
  BY <1>3, <1>4 DEF HInv

LEMMA InitHInv == Init => HInv
<1> SUFFICES ASSUME Init PROVE HInv
  OBVIOUS
<1>1. CacheIsTyped
  BY DEF Init, CacheIsTyped
<1>2. \A p \in Procs : proc[p] = Idle
  BY DEF Init
<1> QED
  BY <1>1, <1>2, InitInv, IdleKnows DEF HInv

LEMMA StepHInv == HInv /\ [Next]_vars => HInv'
<1> SUFFICES ASSUME HInv, [Next]_vars PROVE HInv'
  OBVIOUS
<1>0. IInv'
  BY StepInv DEF HInv
<1>1. ASSUME NEW p \in Procs, Step(p) PROVE HInv'
  <2>1. ASSUME RequireStopped(p) \/ \E configured \in Personas : FindPersona(p, configured)
        PROVE  HInv'
    BY <1>0, <2>1, CheckKeepsHInv DEF RequireStopped, FindPersona
  <2>2. ASSUME Recover(p, "recover") \/ Recover(p, "write") PROVE HInv'
    BY <1>0, <2>2, RecoverKeepsHInv
  <2> QED
    BY <1>0, <1>1, <2>1, <2>2, FindCacheKeepsHInv, ExtractKeepsHInv,
       ExtractPatchKeepsHInv,
       MoveOldKeepsHInv, MoveNewKeepsHInv, ReadCatalogKeepsHInv, ResolveClientKeepsHInv,
       ResolvePatchKeepsHInv, ReadCacheKeepsHInv, UpdateKeepsHInv, RestoreKeepsHInv,
       CompareKeepsHInv
       DEF Step
<1>2. ASSUME NEW p \in Procs, Fail(p) \/ Kill(p) PROVE HInv'
  BY <1>0, <1>2, FailureKeepsHInv
<1>3. ASSUME NEW p \in Procs, NEW name \in DOMAIN Plan, Invoke(p, name) PROVE HInv'
  BY <1>0, <1>3, InvokeKeepsHInv
<1>4. CASE Others
  BY <1>0, <1>4, OthersKeepHInv
<1>5. CASE UNCHANGED vars
  <2>1. UNCHANGED <<artifacts, saved, game, cache, proc, disk, backup>>
    BY <1>5 DEF vars, store, steam
  <2> QED
    BY <1>0, <2>1 DEF HInv, CacheIsTyped
<1> QED
  BY <1>1, <1>2, <1>3, <1>4, <1>5 DEF Next

LEMMA Knowledge == Spec => []HInv
<1> QED
  BY InitHInv, StepHInv, PTL DEF Spec

-----------------------------------------------------------------------------
\* build_freshness_report (freshness.rs:13) and the ends of sync and install: an exit
\* code that says that the builds are current, stale, malformed or unavailable is true
\* as long as nobody else has changed anything since the command began.
THEOREM VerdictsStayHonest == Spec => []VerdictsAreHonest
<1>1. HInv => VerdictsAreHonest
  <2> SUFFICES ASSUME HInv, NEW p \in Procs, proc[p].quiet
               PROVE  Verdict(proc[p], artifacts, game, cache)
    BY DEF VerdictsAreHonest, Verdict, Current, IsCurrent, Is
  <2> DEFINE r == proc[p]
  <2>1. Knows(r, artifacts, saved, game, cache)
    BY DEF HInv
  <2>2. CASE r.step = 0
    BY <2>1, <2>2 DEF Knows
  <2>3. CASE r.step # 0
    <3>1. r.result = None /\ None \notin {0, 1, 2}
      BY <2>1, <2>3, NoneAssumption DEF Knows
    <3> QED
      BY <3>1 DEF Verdict
  <2> QED
    BY <2>2, <2>3
<1> QED
  BY <1>1, Knowledge, PTL

\* install (cli_commands.rs:44): when an undisturbed installation reads the catalog,
\* none is left where an interrupted replacement has moved it.
THEOREM CatalogStaysFound == Spec => []CatalogIsFound
<1>1. HInv => CatalogIsFound
  <2> SUFFICES ASSUME HInv, NEW p \in Procs, At(p, "catalog"), Is(p, "install"), proc[p].quiet
               PROVE  artifacts = None => saved = None
    BY DEF CatalogIsFound
  <2> DEFINE r == proc[p]
  <2>1. HasFields(r) /\ AtCall(r, "catalog") /\ r.name = "install"
    BY AtIsAtCall DEF HInv, IInv, Sound, Is
  <2>2. <<r.name, r.step>> \in {<<"install", 4>>, <<"status", 2>>}
    BY <2>1, Places
  <2>3. Knows(r, artifacts, saved, game, cache)
    BY DEF HInv
  <2> QED
    BY <2>1, <2>2, <2>3 DEF Knows
<1> QED
  BY <1>1, Knowledge, PTL

\* discover_cache (cache_discovery.rs:37): whatever roots lead where and however many
\* accounts there are, a command gets the one file that fits its arguments, as an
\* account that owns it, or nothing when none or several fit, or nobody could own it.
THEOREM SelectionIsRight == Spec => OnlySelectedCache
<1>1. ASSUME HInv, NEW p \in Procs, proc[p].step = 1, proc'[p].step # 1,
             NEW search \in Searches, FindCache(p, search)
      PROVE  Promised(disk, search, proc'[p].location)
  <2> DEFINE location == DiscoverCache(disk, search)
             r == proc[p]
             found == [Advanced(p) EXCEPT !.location = location]
             next == IF location = None /\ ~Is(p, "status") THEN Ended(p, 1) ELSE found
  <2>1. AtCall(r, "locate") /\ InCall(r) /\ Quietly(p, next) /\ HasFields(r) /\ DOMAIN proc = Procs
    BY <1>1, AtIsAtCall DEF FindCache, HInv, IInv, Sound
  <2>2. proc'[p] = next
    BY <2>1 DEF Quietly
  <2>3. r.location = None
    BY <1>1 DEF HInv, Begins
  <2>4. next.location = location
    <3>1. CASE location = None /\ ~Is(p, "status")
      <4>1. Ended(p, 1).location = None
        BY <2>3 DEF Ended, Idle
      <4> QED
        BY <3>1, <4>1
    <3>2. CASE ~(location = None /\ ~Is(p, "status"))
      <4>1. "location" \in DOMAIN Advanced(p)
        BY <2>1 DEF Advanced, Ended, Idle, HasFields, Fields
      <4> HIDE DEF location
      <4> QED
        BY <3>2, <4>1
    <3> QED
      BY <3>1, <3>2
  <2>5. disk \in {FirstDisk, LaterDisk}
    BY <1>1 DEF HInv, CacheIsTyped
  <2>6. Promised(disk, search, location)
    BY <2>5, DiscoveryIsSound
  <2> HIDE DEF next, location
  <2> QED
    BY <2>2, <2>4, <2>6
<1>2. HInv => [\A p \in {q \in Procs : proc[q].step = 1 /\ proc'[q].step # 1} :
                  \A search \in Searches : FindCache(p, search) =>
                     LET files    == Matching(disk, search)
                         location == proc'[p].location
                     IN  IF location = None
                         THEN Cardinality(files) # 1 \/ \E f \in files : Owners(disk, search, f) = {}
                         ELSE files = {location.file}
                              /\ location.account \in Owners(disk, search, location.file)]_proc
  BY <1>1 DEF Promised
<1> QED
  BY <1>2, Knowledge, PTL DEF OnlySelectedCache
=============================================================================
