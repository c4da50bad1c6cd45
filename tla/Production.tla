----------------------------- MODULE Production -----------------------------
(* produce_hero_builds: the requests of RequestSchedule, the assembly of a   *)
(* build phase by phase (BuildAssembly), its ability order (AbilityOrder)    *)
(* and its icons, imbue targets and focus (BuildProduction). One hero stands *)
(* for all of them: nothing that one leaves behind is read for another.      *)
(*                                                                           *)
(* The code assembles the builds while the API answers. The two share no     *)
(* state and are joined before either is used, so the model takes the steps  *)
(* of the assembly after the requests.                                       *)
EXTENDS RequestSchedule, AbilityOrder, BuildAssembly, BuildProduction

CONSTANTS
    HeroId, HeroName,   \* of the hero, the name as its length
    Responses,          \* the responses to a request for ability orders
    EstimateSets,       \* the estimates of a phase
    MedianSets,         \* the medians of purchases
    AssetSets,          \* the pinned assets
    TargetSets,         \* the imbue targets of the database
    Tags,               \* the pinned tags
    Classes             \* the functions of CORE

ASSUME TagsAssumption == IsTagCatalog(Tags) /\ Classes \subseteq CoreFunctions

Scores  == [Shop -> Int]
Rows    == [path : Seq(Nat), matches : Nat]
Targets == [ability_id : Nat, matches : Nat, observations : Nat]

ASSUME InputsAssumption ==
    /\ {HeroId, HeroName} \subseteq Positive
    /\ EstimateSets \subseteq [use : Scores, effect : Scores, all : Scores, spend : Nat]
    /\ MedianSets \subseteq [Shop -> [net_worth : Nat, time : Int] \union {Absent}]
    /\ Responses \subseteq Seq(Rows)
    /\ \A targets \in TargetSets : Range(targets) \subseteq Targets
    /\ \A assets \in AssetSets : \A id \in DOMAIN assets : assets[id].name \in Nat

\* The abilities that players bought
Abilities == UNION {Range(row.path) : row \in UNION {Range(answers) : answers \in Responses}}

\* In the game nothing is both an ability and an item, or an ability and a tag. No code
\* checks it.
ASSUME IdentitiesAssumption == Abilities \intersect (Shop \union Range(Tags)) = {}

VARIABLES
    stage,      \* of the build
    table,      \* the estimates of the phases so far
    sets,       \* phase_sets: what is owned after each of them
    added,      \* the purchases so far
    response,   \* the response from which the order was selected
    build       \* the build, or Absent

local == <<table, sets, added>>
producerVars == <<stage, local, response, build>>

ProducerInit ==
    /\ Init
    /\ stage = "requests"
    /\ table = <<>> /\ sets = <<>> /\ added = <<>>
    /\ response = <<>>
    /\ build = Absent

\* request_api_inputs, or time after it
Request == Next /\ UNCHANGED producerVars

\* The requests are joined. The schedule is not used again.
Collect ==
    /\ stage = "requests" /\ result = "ok"
    /\ stage' = "assembly"
    /\ due' = 0 /\ sleep' = [t \in ThreadIds |-> 0] /\ spaced' = 0 /\ paused' = 0
    /\ UNCHANGED <<holder, pc, attempt, todo, rows, result, local, response, build>>

Owned == IF sets = <<>> THEN {} ELSE sets[Len(sets)]

\* One phase of assemble_build
Advance ==
    /\ stage = "assembly" /\ Len(table) < 3
    /\ \E estimates \in EstimateSets \union {Absent} :
          LET before == [owned |-> Owned, added |-> added]
              after  == IF estimates = Absent THEN before
                        ELSE AdvancePhase(before, estimates, Len(table) + 1)
          IN  /\ table' = Append(table, estimates)
              /\ sets' = Append(sets, after.owned)
              /\ added' = after.added
    /\ UNCHANGED <<vars, stage, response, build>>

\* The rest of assemble_build, and assemble_hero_builds
Assemble ==
    /\ stage = "assembly" /\ Len(table) = 3
    /\ IF added = <<>>
       THEN stage' = "skipped" /\ build' = Absent
       ELSE /\ stage' = "assembled"
            /\ \E medians \in MedianSets :
                  LET core == Core(added, table, medians)
                  IN  build' = [hero_id |-> HeroId, hero_name |-> HeroName, title |-> 0,
                                tag_ids |-> <<0, 0, 0>>, key_ability_name |-> Absent,
                                ability_focus |-> Absent, core |-> core,
                                situational |-> Situational(core, table, medians),
                                key_item_id |-> KeyItemId(core, table), ability_ids |-> <<>>]
    /\ UNCHANGED <<vars, local, response>>

\* attach_ability_and_tags, the order
AttachOrder ==
    /\ stage = "assembled"
    /\ stage' = "ordered"
    /\ response' \in Responses
    /\ build' = WithOrder(build, SelectAbilityPath(response'))
    /\ table' = <<>> /\ sets' = <<>> /\ added' = <<>>
    /\ UNCHANGED vars

\* The rest of attach_ability_and_tags, attach_item_imbues and assign_build_focus
Produce ==
    /\ stage = "ordered"
    /\ \E assets \in AssetSets, targets \in TargetSets, class \in Classes :
          IF Produces(build, assets, Tags, class)
          THEN stage' = "produced" /\ build' = Produced(build, targets, assets, Tags, class)
          ELSE stage' = "error" /\ build' = Absent
    /\ response' = <<>>
    /\ UNCHANGED <<vars, local>>

ProducerNext == Request \/ Collect \/ Advance \/ Assemble \/ AttachOrder \/ Produce

\* Fairness of the requests only
ProducerSpec == ProducerInit /\ [][ProducerNext]_<<vars, producerVars>> /\ Fairness

-----------------------------------------------------------------------------
(* Properties *)

\* What is owned after a phase is in the budget of the phase, or is what is left of the
\* phase before; it is all in CORE, and an item of CORE is owned after the phase that
\* bought it or has become a part of one that is. No item is twice in a build, none that CORE
\* has used up is offered again, and the key item is in CORE. A hero is passed over only
\* if there is no item worth its price in any phase.
PhasesAreOwned ==
    /\ stage = "assembled" =>
          LET core == Range(build.core)
              ids  == {item.item_id : item \in core}
              Parts(items) == items \union UNION {Catalog[item].components : item \in items}
          IN  /\ IsAssembled(build)
              /\ \A p \in Phases :
                    LET before == IF p = 1 THEN {} ELSE sets[p - 1]
                    IN  /\ sets[p] \subseteq ids /\ Cardinality(sets[p]) <= MaxOwned
                        /\ sets[p] \subseteq before \/ CostOf(sets[p]) <= table[p].spend
              /\ \A item \in core, items \in SUBSET Shop :
                    sets[item.phase] \subseteq items /\ Parts(items) \subseteq items
                        => item.item_id \in items
              /\ \A item \in Range(build.situational) : item.item_id \notin Parts(ids)
    /\ stage = "skipped" => \A p \in Phases : table[p] # Absent =>
          \A item \in Shop : \/ Score(table[p], item) <= 0
                             \/ Catalog[item].cost > table[p].spend

\* The matches of the response that bought, after the same purchases in any order, what
\* this order buys next
Followers(order, n) ==
    Matches(response, {i \in DOMAIN response :
        LET path == response[i].path
        IN  /\ IsObservation(response[i]) /\ Len(path) >= n /\ path[n] = order[n]
            /\ \A a \in Range(path) \union Range(order) :
                  Cardinality(Purchases(path, a, n - 1)) = Cardinality(Purchases(order, a, n - 1))})

\* The order of abilities is complete and each of its purchases was observed. Where
\* another such order parts from it, that one had fewer matches, or as many and the greater
\* number. There is no order only if there is none of this kind.
OrderIsBestSupported ==
    stage = "ordered" =>
        LET abilities == UNION {Range(response[i].path) : i \in DOMAIN response}
            orders    == {order \in [1..OrderLength -> abilities \ {0}] :
                             /\ IsCompleteOrder(order)
                             /\ \A n \in 1..OrderLength : Followers(order, n) > 0}
            chosen    == build.ability_ids
            First(a, b) == Min({n \in 1..OrderLength : a[n] # b[n]})
        IN  IF orders = {} THEN chosen = <<>>
            ELSE /\ chosen \in orders
                 /\ \A other \in orders \ {chosen} :
                       LET n == First(chosen, other)
                       IN  \/ Followers(chosen, n) > Followers(other, n)
                           \/ Followers(chosen, n) = Followers(other, n) /\ chosen[n] < other[n]

\* A build that was produced passes validate_hero, so that the catalog is written, and,
\* with a name of the persona of at most a title, the Steam contract, so that it can be
\* installed: whatever the API, the assets and the database held.
ProducedBuildsAreValid ==
    stage = "produced" => ValidHero(build) /\ \A persona \in 1..MaxName + 10 : Presentable(build, persona)
=============================================================================
