---------------------------- MODULE BuildAssembly ----------------------------
(* assemble_build of build_assembly.rs: the items of a build, phase by phase, *)
(* from estimates of their use and effect. The logarithm of the use of an     *)
(* item, relative to the least that CORE accepts, and its effect are integers *)
(* in tenths of a score.                                                     *)
EXTENDS HeroBuilds, FiniteSetsExt, SequencesExt

CONSTANTS
    Catalog,            \* the items of the shop: tier, cost, components and name of each
    MaxOwned,           \* MAXIMUM_OWNED
    MaxPerTier,         \* SITUATIONAL_ITEMS_PER_TIER
    LeastEffect,        \* SITUATIONAL_MINIMUM_EFFECT
    LeastUse,           \* half of MINIMUM_ADOPTION
    Never               \* f64::MAX: later than any purchase

Phases == 1..3          \* 540, 1200 and 1800 seconds

Shop == DOMAIN Catalog

\* is_shop_item and ItemCatalog::new leave items of four tiers whose components are
\* items of the shop. No code checks that a name is not empty and no longer than a title.
ASSUME CatalogAssumption ==
    /\ Shop \subseteq Nat \ {0} /\ IsFiniteSet(Shop)
    /\ \A item \in Shop :
          Catalog[item] \in [tier : 1..4, cost : Nat, components : SUBSET Shop, name : 1..MaxName]
    /\ MaxOwned \in Nat \ {0} /\ MaxPerTier \in Nat
    /\ {LeastEffect, LeastUse, Never} \subseteq Int

\* sort_by: each element of a set at the place after those of all elements before it
Sorted(items, before) ==
    [place \in 1..Cardinality(items) |->
        CHOOSE x \in items : Cardinality(before[x]) = place - 1]

\* Estimates of a hero and a phase, with the use of items by all heroes; Absent
\* when the hero has too few observations
Score(estimates, item) == estimates.use[item] + estimates.effect[item]

CostOf(items) == MapThenSumSet(LAMBDA item : Catalog[item].cost, items)

-----------------------------------------------------------------------------
(* advance_phase *)

\* The items that are kept
Retained(owned, estimates) == {item \in owned : Score(estimates, item) > 0}

\* The other items that may be bought: the greatest score first
Candidates(kept, estimates) ==
    LET items == {item \in Shop \ kept : Score(estimates, item) > 0}
    IN  Sorted(items, [b \in items |-> {a \in items :
            \/ Score(estimates, a) > Score(estimates, b)
            \/ Score(estimates, a) = Score(estimates, b) /\ a < b}])

\* What is owned after a purchase that uses up the components
Upgraded(owned, item) == (owned \ Catalog[item].components) \union {item}

Affords(items, estimates) == CostOf(items) <= estimates.spend /\ Cardinality(items) <= MaxOwned

\* A faulty variant: what is owned already is forgotten
BuysAlone(owned, item, estimates) == Affords({item}, estimates)
Buys(owned, item, estimates) == Affords(Upgraded(owned, item), estimates)

\* Is an item among those that were added before?
IsAdded(added, item) == \E i \in DOMAIN added : added[i].item = item

\* One candidate: it is bought if what is then owned can be afforded
Consider(state, item, estimates, phase) ==
    IF ~Buys(state.owned, item, estimates) THEN state
    ELSE [owned |-> Upgraded(state.owned, item),
          added |-> IF IsAdded(state.added, item) THEN state.added
                    ELSE Append(state.added, [phase |-> phase, item |-> item])]

\* The purchases of a phase in the order of their scores
BuyAll(state, estimates, phase) ==
    FoldLeft(LAMBDA s, item : Consider(s, item, estimates, phase),
             state, Candidates(state.owned, estimates))
AdvancePhase(state, estimates, phase) ==
    BuyAll([state EXCEPT !.owned = Retained(@, estimates)], estimates, phase)

-----------------------------------------------------------------------------
(* The build. A table has the estimates of each phase, a median the net worth *)
(* and the time at which an item is bought first, or Absent.                    *)

\* describe_item
Describe(item, phase, table, medians) ==
    [item_id |-> item, name |-> Catalog[item].name, tier |-> Catalog[item].tier,
     cost |-> Catalog[item].cost, phase |-> phase,
     use |-> table[phase].use[item], effect |-> table[phase].effect[item],
     median_net_worth |-> IF medians[item] = Absent THEN 0 ELSE medians[item].net_worth,
     imbue_target |-> Absent]

BuyTime(item, medians) == IF medians[item] = Absent THEN Never ELSE medians[item].time

\* CORE by net worth, then by time, else in the order of the purchases
Core(added, table, medians) ==
    LET described == [i \in DOMAIN added |-> Describe(added[i].item, added[i].phase, table, medians)]
        Key(i)    == <<described[i].median_net_worth, BuyTime(added[i].item, medians), i>>
        order     == Sorted(DOMAIN added, [j \in DOMAIN added |-> {i \in DOMAIN added :
                         \E k \in 1..3 : /\ Key(i)[k] < Key(j)[k]
                                         /\ \A l \in 1..(k - 1) : Key(i)[l] = Key(j)[l]}])
    IN  [i \in DOMAIN order |-> described[order[i]]]

\* select_key_item: of the items of tier 3 and 4, or else of all, that of the
\* greatest effect and lift, the last of several
Lift(item, table) == item.effect + item.use - table[item.phase].all[item.item_id]
KeyItemId(core, table) ==
    LET late == {i \in DOMAIN core : core[i].tier >= 3}
        pool == IF late = {} THEN DOMAIN core ELSE late
    IN  core[CHOOSE i \in pool : \A j \in pool :
                \/ Lift(core[j], table) < Lift(core[i], table)
                \/ Lift(core[j], table) = Lift(core[i], table) /\ j <= i].item_id

\* The items in CORE and what they are made of
Excluded(core) ==
    UNION {{core[i].item_id} \union Catalog[core[i].item_id].components : i \in DOMAIN core}

\* Of the phases with estimates, that of the most common use, the last of several
CommonPhase(item, table) ==
    LET phases == {p \in Phases : table[p] # Absent}
    IN  CHOOSE p \in phases : \A q \in phases :
            \/ table[q].use[item] < table[p].use[item]
            \/ table[q].use[item] = table[p].use[item] /\ q <= p

\* select_situational: for each tier, the items of the greatest effect
SituationalOf(tier, core, table, medians) ==
    LET Described(item) == Describe(item, CommonPhase(item, table), table, medians)
        items == {item \in Shop \ Excluded(core) :
                     /\ Catalog[item].tier = tier
                     /\ Described(item).use >= LeastUse /\ Described(item).effect > LeastEffect}
        order == Sorted(items, [b \in items |-> {a \in items :
                     \/ Described(a).effect > Described(b).effect
                     \/ Described(a).effect = Described(b).effect /\ a < b}])
    IN  [i \in 1..(IF Len(order) < MaxPerTier THEN Len(order) ELSE MaxPerTier) |-> Described(order[i])]
Situational(core, table, medians) ==
    LET Of(tier) == SituationalOf(tier, core, table, medians)
    IN  Of(1) \o Of(2) \o Of(3) \o Of(4)
=============================================================================
