------------------------------- MODULE CachePlan -------------------------------
(***************************************************************************)
(* What deadlock-steam puts into the Steam cache: prepare_cache_update,    *)
(* and how compare_managed_builds judges the result later.                 *)
(*                                                                         *)
(* The cache document is a list of private builds (section Unpublished)    *)
(* and the sections that hold copies of builds.  The program replaces its  *)
(* managed builds there, again and again; between two installations the    *)
(* player creates, copies, edits and deletes builds in the game.           *)
(* CacheTransaction shows that an installation replaces exactly the        *)
(* document it was prepared from: here it is one step.                     *)
(***************************************************************************)
EXTENDS FiniteSets, Integers, SequencesExt

CONSTANTS
    Heroes,      \* hero identities
    Paths,       \* values of "Build path:" in the description of a managed build
    Contents,    \* everything else in a build: title, description, items
    Shown,       \* of each content, what it is but for the title
    Times,       \* timestamps of builds
    Clock,       \* bound: the timestamps at which installations happen
    LocalLimit,  \* local build identities are below it (1000)
    Documents,   \* contents of Unpublished before the program first runs
    Requests,    \* sequences of builds to install: [hero, path, content]
    MaxValues,   \* bound: entries of the section Unpublished
    MaxCopies    \* bound: private builds in Favorites and SavedLastUsed

\* The marker of an entry: the path under the marker in use, or the marker of
\* an earlier version, or none at all.
Marks == Paths \cup {"legacy", "none"}

\* Who made a build; "no_blob": a value that holds no bytes; "malformed": bytes
\* that are not the protobuf of a hero build.  Neither of these is a build.
Authors == {"player", "other", "no_blob", "malformed"}

Values == [author: Authors, id: Nat, hero: Heroes, mark: Marks,
           content: Contents, time: Times]

\* No "Build path:" is the other markers here.
ASSUME PathsAssumption == Paths \cap {"legacy", "none"} = {}
ASSUME LimitAssumption == LocalLimit \in Nat /\ LocalLimit > 1 /\ MaxValues \in Nat
ASSUME DataAssumption == Contents # {} /\ Times # {}
ASSUME ClockAssumption == Clock \subseteq Times
ASSUME DocumentsAssumption ==
    \A d \in Documents :
        /\ d \in Seq(Values) /\ Len(d) <= MaxValues
        /\ \A i, j \in DOMAIN d : d[i].id \in 1 .. LocalLimit - 1 /\ (d[i].id = d[j].id => i = j)
ASSUME ShownAssumption == DOMAIN Shown = Contents
ASSUME RequestsAssumption ==
    \A r \in Requests :
        /\ r \in Seq([hero: Heroes, path: Paths, content: Contents])
        /\ r # <<>>
        \* validate_request: no pair of hero and path twice.
        /\ \A i, j \in DOMAIN r : r[i].hero = r[j].hero /\ r[i].path = r[j].path => i = j

VARIABLES
    unpublished, \* entries of the section Unpublished
    copies,      \* local identities of the player's private builds that
                 \* Favorites and SavedLastUsed hold
    current      \* history: the last installed request, while the player has
                 \* changed nothing since; <<>> otherwise

vars == <<unpublished, copies, current>>

-------------------------------------------------------------------------------
(* Reading the document                                                    *)

\* What a loop over the values keeps of the first n of them: those of a set.
KeptOf(values, keep) ==
    LET kept[n \in 0 .. Len(values)] ==
          IF n = 0 THEN <<>>
          ELSE IF values[n] \in keep THEN Append(kept[n - 1], values[n])
          ELSE kept[n - 1]
    IN  kept

Filter(values, keep) == KeptOf(values, keep)[Len(values)]

\* A faulty variant: any build of the player for one of the heroes.
IsTargetUnmarked(v, request) ==
    /\ v.author = "player"
    /\ \E i \in DOMAIN request : request[i].hero = v.hero
\* A faulty variant: any managed build, also for other heroes.
IsTargetOfAnyHero(v, request) ==
    /\ v.author = "player"
    /\ v.mark # "none"
\* A managed build, of whatever path and version, for one of the heroes of the
\* request.
IsTarget(v, request) ==
    /\ v.author = "player"
    /\ v.mark # "none"
    /\ \E i \in DOMAIN request : request[i].hero = v.hero

Retained(values, request) == Filter(values, {v \in ToSet(values) : ~IsTarget(v, request)})
Targets(values, request)  == {i \in DOMAIN values : IsTarget(values[i], request)}

\* The managed builds that carry the identity of a requested build.
Found(values, wanted) ==
    {i \in DOMAIN values :
        /\ values[i].author = "player"
        /\ values[i].hero = wanted.hero
        /\ values[i].mark = wanted.path}

Existing(values, request) ==
    UNION {Found(values, request[k]) : k \in DOMAIN request}

\* scan_managed: no invalid local identity, none shared by two managed builds,
\* no managed build twice.
ScanSucceeds(values, request) ==
    /\ \A i \in Existing(values, request) : values[i].id \in 1 .. LocalLimit - 1
    /\ \A i, j \in Existing(values, request) : values[i].id = values[j].id => i = j
    /\ \A k \in DOMAIN request : Cardinality(Found(values, request[k])) <= 1

Private(values) == {i \in DOMAIN values : values[i].author = "player"}

\* validate_local_identifiers: no other private build has the identity either.
IdentifiersAreDistinct(values, request) ==
    \A i \in Existing(values, request), j \in Private(values) :
        values[i].id = values[j].id => i = j

\* A faulty variant: only the entries of Unpublished count.
NextLocalIdUnpublished(values, kept) ==
    1 + Max({1} \cup {values[i].id : i \in {j \in Private(values) :
                                              values[j].id < LocalLimit}})
\* A faulty variant: only managed builds count.
NextLocalIdManaged(values, kept) ==
    1 + Max({1} \cup kept
                \cup {values[i].id : i \in {j \in Private(values) :
                                              values[j].mark # "none"}})
\* One more than the greatest local identity in use, as long as that is local.
NextLocalId(values, kept) ==
    1 + Max({1} \cup kept
                \cup {values[i].id : i \in {j \in Private(values) :
                                              values[j].id < LocalLimit}})

-------------------------------------------------------------------------------
(* prepare_cache_update                                                    *)

Blob(wanted, identifier, now) ==
    [author |-> "player", id |-> identifier, hero |-> wanted.hero,
     mark |-> wanted.path, content |-> wanted.content, time |-> now]

\* A faulty variant: a new timestamp is a new build.
SameBuildContentStrict(previous, blob) == previous = blob
\* A faulty variant: contents under the same title are not compared.
SameBuildContentLoose(previous, blob) == previous.id = blob.id
\* Whether an entry is kept as it is: all but the timestamp is the same.
SameBuildContent(previous, blob) == [previous EXCEPT !.time = blob.time] = blob

\* The requested builds that have no entry yet; each takes the next identity.
New(values, request) == {k \in DOMAIN request : Found(values, request[k]) = {}}

Identifier(values, kept, request, k) ==
    IF k \in New(values, request)
    THEN NextLocalId(values, kept) + Cardinality({j \in New(values, request) : j < k})
    ELSE values[CHOOSE i \in Found(values, request[k]) : TRUE].id

Replacement(values, kept, request, now) ==
    [k \in DOMAIN request |->
        LET blob == Blob(request[k], Identifier(values, kept, request, k), now)
            same == {i \in Found(values, request[k]) : SameBuildContent(values[i], blob)}
        IN  IF same # {} THEN values[CHOOSE i \in same : TRUE] ELSE blob]

\* A faulty variant: the limit itself is a local identity.
IdentifiersSufficeUpTo(values, kept, request) ==
    \A k \in New(values, request) : Identifier(values, kept, request, k) <= LocalLimit
\* allocate_id finds an identity for each of them.
IdentifiersSuffice(values, kept, request) ==
    \A k \in New(values, request) : Identifier(values, kept, request, k) < LocalLimit

\* The new section: what is no target keeps its order, the builds follow.
Planned(values, kept, request, now) ==
    Retained(values, request) \o Replacement(values, kept, request, now)

\* validate_preserved_values finds the entries that are no target unchanged.
Succeeds(values, kept, request, now) ==
    /\ ScanSucceeds(values, request)
    /\ IdentifiersAreDistinct(values, request)
    /\ IdentifiersSuffice(values, kept, request)
    /\ Retained(Planned(values, kept, request, now), request) = Retained(values, request)

\* The counts that an installation reports.
Created(values, request) == Cardinality(New(values, request))
\* A faulty variant: a created build replaces an entry, too.
RemovedOfAll(values, request) == Cardinality(Targets(values, request)) - Len(request)
Removed(values, request) ==
    Cardinality(Targets(values, request)) - (Len(request) - Created(values, request))

-------------------------------------------------------------------------------
(* compare_managed_builds, for the status command                          *)

\* Only builds under the marker in use have an identity here.
Identified(values) ==
    {i \in DOMAIN values : values[i].author = "player" /\ values[i].mark \in Paths}

\* Two builds with one identity.
Repeated(values, i, j) ==
    /\ i # j
    /\ values[i].hero = values[j].hero
    /\ values[i].mark = values[j].mark

\* A faulty variant: a value without bytes is an error, too.
ComparableOfBlobs(values) ==
    /\ \A i \in DOMAIN values : values[i].author \notin {"no_blob", "malformed"}
    /\ \A i, j \in Identified(values) : ~Repeated(values, i, j)
\* Values without bytes are passed over; malformed bytes and repeated identities
\* are errors, for whatever hero.
Comparable(values) ==
    /\ \A i \in DOMAIN values : values[i].author # "malformed"
    /\ \A i, j \in Identified(values) : ~Repeated(values, i, j)

Covers(request, v) ==
    \E k \in DOMAIN request :
        /\ v.hero = request[k].hero
        /\ v.mark = request[k].path
        /\ Shown[v.content] = Shown[request[k].content]

\* A faulty variant: no installed build is unexpected, but some may be missing.
IsCurrentInPart(values, request) ==
    /\ Comparable(values)
    /\ \A i \in Identified(values) \cap Targets(values, request) : Covers(request, values[i])
IsCurrent(values, request) ==
    /\ Comparable(values)
    /\ \A k \in DOMAIN request : Found(values, request[k]) # {}
    /\ \A i \in Identified(values) \cap Targets(values, request) : Covers(request, values[i])

-------------------------------------------------------------------------------
(* The document over time                                                  *)

\* The player's private builds have one local identity each, in the section
\* Unpublished and in those that hold copies.
LocalIds == {unpublished[i].id : i \in Private(unpublished)} \cup copies

Init ==
    /\ unpublished \in Documents
    /\ copies = {}
    /\ current = <<>>

Install ==
    \E request \in Requests, now \in Clock :
        /\ Succeeds(unpublished, copies, request, now)
        /\ unpublished' = Planned(unpublished, copies, request, now)
        /\ Len(unpublished') <= MaxValues
        /\ current' = request
        /\ UNCHANGED copies

\* Contents and time of a build without marker matter to nothing here.
PlayerBuild(id, hero) ==
    [author |-> "player", id |-> id, hero |-> hero, mark |-> "none",
     content |-> CHOOSE c \in Contents : TRUE, time |-> CHOOSE t \in Times : TRUE]

\* The game gives a new private build an identity that no build of the player
\* has.
Create ==
    /\ Len(unpublished) < MaxValues
    /\ \E id \in 1 .. LocalLimit - 1 \ LocalIds, hero \in Heroes :
         unpublished' = Append(unpublished, PlayerBuild(id, hero))
    /\ current' = <<>>
    /\ UNCHANGED copies

\* A copy of a build in the game is a build with the same description.
Duplicate ==
    /\ Len(unpublished) < MaxValues
    /\ \E i \in Private(unpublished), id \in 1 .. LocalLimit - 1 \ LocalIds :
         unpublished' = Append(unpublished, [unpublished[i] EXCEPT !.id = id])
    /\ current' = <<>>
    /\ UNCHANGED copies

\* The player changes what a managed build shows, or its description as well,
\* and then the marker goes.
Edit ==
    /\ \E i \in Private(unpublished) :
         /\ unpublished[i].mark # "none"
         /\ \E v \in {[unpublished[i] EXCEPT !.content = c] : c \in Contents}
                     \cup {PlayerBuild(unpublished[i].id, unpublished[i].hero)} :
              unpublished' = [unpublished EXCEPT ![i] = v]
    /\ current' = <<>>
    /\ UNCHANGED copies

Delete ==
    /\ \E i \in DOMAIN unpublished : unpublished' = RemoveAt(unpublished, i)
    /\ current' = <<>>
    /\ UNCHANGED copies

\* A private build becomes a favorite or is used, or its copy goes.
Keep ==
    /\ Cardinality(copies) < MaxCopies
    /\ \E i \in Private(unpublished) : copies' = copies \cup {unpublished[i].id}
    /\ UNCHANGED <<unpublished, current>>

Forget ==
    /\ \E id \in copies : copies' = copies \ {id}
    /\ UNCHANGED <<unpublished, current>>

Play == Create \/ Duplicate \/ Edit \/ Delete \/ Keep \/ Forget

Next == Install \/ Play

Spec == Init /\ [][Next]_vars

-------------------------------------------------------------------------------
(* Properties                                                              *)

\* The variables have their types and no entry has the identity 0.
TypeOK ==
    /\ unpublished \in Seq(Values)
    /\ \A i \in DOMAIN unpublished : unpublished[i].id \in 1 .. LocalLimit - 1
    /\ copies \subseteq 1 .. LocalLimit - 1
    /\ current \in Requests \cup {<<>>}

\* No two private builds of the player ever have the same local identity,
\* whatever was installed, created, copied and deleted before.
IdentitiesAreUnique ==
    \A i, j \in Private(unpublished) : unpublished[i].id = unpublished[j].id => i = j

\* A build that is installed for the first time gets an identity under which
\* the game holds no favorite or used build; an installed build keeps its own.
IdentitiesAreFresh ==
    [][Install =>
         \A i \in Private(unpublished') : unpublished'[i].id \in LocalIds =>
             \E j \in Private(unpublished) :
                 /\ unpublished[j].id = unpublished'[i].id
                 /\ unpublished[j].hero = unpublished'[i].hero
                 /\ unpublished[j].mark = unpublished'[i].mark]_vars

\* What an installation has no business with: entries that are no build of the
\* player or have no marker, and builds, managed or not, for other heroes.
OutOfScope(v, request) ==
    \/ v.author # "player"
    \/ v.mark = "none"
    \/ \A k \in DOMAIN request : request[k].hero # v.hero

Untouched(values, request) ==
    Filter(values, {v \in ToSet(values) : OutOfScope(v, request)})

\* README.md:40, "It replaces only builds with the managed marker", and the
\* comment of compare_managed_builds, "Installation keeps the managed builds of
\* other heroes": all of these are still there after an installation, in the
\* same order, and nothing else of that kind is.
OnlyManagedReplaced ==
    [][Install => Untouched(unpublished', current') = Untouched(unpublished, current')]_vars

\* An installation can be repeated: it never refuses its own result, and at
\* whatever time it is repeated it leaves every entry and its order alone, so
\* that no backup is made.
InstallIsIdempotent ==
    current # <<>> =>
        \A now \in Times :
            /\ Succeeds(unpublished, copies, current, now)
            /\ Planned(unpublished, copies, current, now) = unpublished

\* Entries outside the reach of an installation that keep status from comparing:
\* malformed bytes, and two builds with one identity for another hero.
Spoiled(values, request) ==
    \/ \E i \in DOMAIN values : values[i].author = "malformed"
    \/ \E i, j \in Identified(values) \ Targets(values, request) : Repeated(values, i, j)

\* After an installation status reports the catalog as current, whatever values
\* without bytes, builds of others and builds without marker the section holds:
\* only entries that the installation may not touch can keep it from that.
InstalledIsCurrent ==
    current # <<>> => IsCurrent(unpublished, current) \/ Spoiled(unpublished, current)

\* If status calls a catalog current, installing it would succeed and create
\* nothing, and each build of the catalog would keep its identity and what it
\* shows: at most titles and times change. The installation may still remove
\* builds that an earlier version of the program left, which status ignores.
CurrentIsInstalled ==
    \A request \in Requests, now \in Times :
        IsCurrent(unpublished, request) =>
            /\ Succeeds(unpublished, copies, request, now)
            /\ New(unpublished, request) = {}
            /\ \A i \in Targets(unpublished, request) \cap Identified(unpublished) :
                 \E v \in ToSet(Replacement(unpublished, copies, request, now)) :
                     /\ v.id = unpublished[i].id
                     /\ Shown[v.content] = Shown[unpublished[i].content]

\* The reported counts are those of the document: what the heroes of the
\* request had before, plus created, less removed, is one entry per build; and
\* "removed" is never the wrapped difference of two counts.
CountsAddUp ==
    \A request \in Requests :
        ScanSucceeds(unpublished, request) =>
            /\ Removed(unpublished, request) >= 0
            /\ Cardinality(Targets(unpublished, request)) + Created(unpublished, request)
                 - Removed(unpublished, request) = Len(request)
=============================================================================
