----------------------------- MODULE HeroBuilds -----------------------------
(* A hero build and the two contracts that it must meet: validate_hero of    *)
(* hero_build.rs, when a catalog is written and read, and the Steam contract *)
(* of presentation.rs, when it is installed. Names are their lengths.        *)
EXTENDS Integers, Sequences, FiniteSets, Functions

CONSTANTS
    Absent,         \* None, and what an error returns
    AbilityCount,   \* the abilities of a hero: 4
    RankCount       \* the purchases of each: 4

-----------------------------------------------------------------------------
(* Abilities *)

\* The number of purchases of a complete order: 16
OrderLength == AbilityCount * RankCount

\* The positions at which an ability is bought, up to one of them
Purchases(path, ability, last) == {i \in 1..last : path[i] = ability}

\* As many abilities as there are, each with all of its purchases, none of them 0
IsCompleteOrder(path) ==
    /\ Cardinality(Range(path)) = AbilityCount /\ 0 \notin Range(path)
    /\ \A ability \in Range(path) :
          Cardinality(Purchases(path, ability, Len(path))) = RankCount

\* first_fully_upgraded_ability; Absent stands for its error
FirstFullyUpgraded(path) ==
    LET Completes(i) == Cardinality(Purchases(path, path[i], i)) = RankCount
    IN  IF Len(path) # OrderLength \/ ~IsCompleteOrder(path) THEN Absent
        ELSE path[CHOOSE i \in DOMAIN path : Completes(i) /\ \A j \in 1..(i - 1) : ~Completes(j)]

\* ImbueTarget::validate: 20 observations and a strict majority
ValidTarget(target) ==
    /\ target.ability_id # 0
    /\ target.matches >= 20 /\ target.matches <= target.observations
    /\ target.matches > target.observations \div 2

-----------------------------------------------------------------------------
(* Catalogs *)

IsKey(build, item) == item.item_id = build.key_item_id

\* HeroBuild::key_item
HasKey(build) == \E i \in DOMAIN build.core : IsKey(build, build.core[i])
KeyItem(build) ==
    build.core[CHOOSE i \in DOMAIN build.core :
                  /\ IsKey(build, build.core[i])
                  /\ \A j \in 1..(i - 1) : ~IsKey(build, build.core[j])]

\* AbilityFocus::validate. supporting_item_ids maps places in CORE to items.
ValidFocus(build, focus) ==
    LET ids == focus.supporting_item_ids
    IN  /\ focus.ability_id # 0 /\ focus.name # 0
        /\ focus.ability_id \in Range(build.ability_ids)
        /\ ids # <<>> /\ IsInjective(ids)
        /\ \A id \in Range(ids) : \E i \in DOMAIN build.core :
              /\ build.core[i].item_id = id
              /\ build.core[i].imbue_target # Absent
              /\ build.core[i].imbue_target.ability_id = focus.ability_id
        /\ \/ build.key_item_id \in Range(ids)
           \/ \E id \in Range(ids), other \in Range(ids) : id # other
           \/ FirstFullyUpgraded(build.ability_ids) = focus.ability_id

\* All items of a build
Items(build) == build.core \o build.situational

\* validate_hero, without the ranges of the statistics
ValidHero(build) ==
    /\ build.ability_focus # Absent => ValidFocus(build, build.ability_focus)
    /\ build.hero_id # 0 /\ build.hero_name # 0 /\ build.core # <<>>
    /\ HasKey(build)
    /\ \A i \in DOMAIN Items(build) :
          LET item == Items(build)[i]
          IN  /\ item.imbue_target # Absent =>
                    /\ ValidTarget(item.imbue_target)
                    /\ item.imbue_target.ability_id \in Range(build.ability_ids)
              /\ \A j \in DOMAIN Items(build) : Items(build)[j].item_id = item.item_id => i = j
              /\ item.tier \in 1..4

-----------------------------------------------------------------------------
(* Names. A separator between two names has three characters. *)

MaxName == 50

\* format_build_title
Title(ability, item) ==
    IF ability # Absent /\ ability + 3 + item <= MaxName THEN ability + 3 + item ELSE item

\* format_build_name, without its errors
BuildName(persona, title) ==
    IF persona + 3 + title <= MaxName THEN persona + 3 + title ELSE title

-----------------------------------------------------------------------------
(* The Steam contract *)

\* The items in MAIN CORE and in the four panels of tiers
Shown(build) ==
    Range(build.core) \union {item \in Range(build.situational) : item.tier \in 1..4}

\* build_hero_presentation and BuildPresentation::new, with the panels of
\* validate_panel_order and the items and abilities in them
Presentable(build, persona) ==
    /\ HasKey(build)
    /\ persona > 0 /\ build.title \in 1..MaxName
    /\ build.hero_id # 0 /\ BuildName(persona, build.title) \in 1..MaxName
    /\ \A i \in 1..3 : build.tag_ids[i] # 0
    /\ \A i \in 1..3, j \in 1..3 : build.tag_ids[i] = build.tag_ids[j] => i = j
    /\ build.core # <<>>
    /\ \A item \in Shown(build) :
          item.item_id # 0 /\ (item.imbue_target # Absent => item.imbue_target.ability_id # 0)
    /\ build.ability_ids # <<>> => IsCompleteOrder(build.ability_ids)
=============================================================================
