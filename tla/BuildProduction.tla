--------------------------- MODULE BuildProduction ---------------------------
(* What produce_hero_builds does with a build that assemble_build has made   *)
(* (BuildAssembly): its ability order and icons, the imbue targets of its    *)
(* items, and its ability focus, of hero_build_production.rs, item_imbues.rs *)
(* build_tags.rs and ability_focus.rs.                                       *)
(*                                                                           *)
(* "assets" maps each pinned asset to a record: its type, its heroes, its    *)
(* ability_type, its kind of imbue, whether its properties improve an        *)
(* ability, and the length of its name, 0 when it has no identity. "tags"    *)
(* maps classes of functions to the tags of the pinned catalog. One hero     *)
(* stands for all of them.                                                   *)
EXTENDS HeroBuilds

\* What assemble_hero_builds hands over: CORE with the key item, no item twice
Positive == Nat \ {0}
BuildItem ==
    [item_id : Positive, name : Positive, tier : 1..4, cost : Nat, phase : 1..3, use : Int,
     effect : Int, median_net_worth : Nat, imbue_target : {Absent}]
AssembledBuild ==
    [hero_id : Positive, hero_name : Positive, title : {0}, tag_ids : {<<0, 0, 0>>},
     key_ability_name : {Absent}, ability_focus : {Absent}, core : Seq(BuildItem),
     situational : Seq(BuildItem), key_item_id : Positive, ability_ids : {<<>>}]
ItemsAreDistinct(build) ==
    \A i, j \in DOMAIN Items(build) : Items(build)[i].item_id = Items(build)[j].item_id => i = j
IsAssembled(build) ==
    /\ build \in AssembledBuild
    /\ build.core # <<>> /\ HasKey(build) /\ ItemsAreDistinct(build)

-----------------------------------------------------------------------------
(* select_build_tags *)

\* attach_ability_and_tags hands the key item over as the only one of tier 3
TagTier(build, item) ==
    IF IsKey(build, item) THEN 3 ELSE IF item.tier < 2 THEN item.tier ELSE 2

\* The tiers in the order in which they give the icon
Priority(tier) == CASE tier = 3 -> 0 [] tier = 4 -> 1 [] tier = 2 -> 2 [] tier = 1 -> 3

\* The item that gives the icon: of the first tier, the least
IconItem(build) ==
    build.core[CHOOSE i \in DOMAIN build.core : \A j \in DOMAIN build.core :
        LET first == Priority(TagTier(build, build.core[i]))
            other == Priority(TagTier(build, build.core[j]))
        IN  \/ first < other
            \/ first = other /\ build.core[i].item_id <= build.core[j].item_id]

\* FUNCTION_CLASSES, in their order
FunctionClasses == 0..7

\* BuildTagCatalog::from_assets: a tag for each class, all different, none of them 0
IsTagCatalog(tags) == tags \in [FunctionClasses -> Nat \ {0}] /\ IsInjective(tags)

\* classify_core: the class with the greatest cost in CORE, or Absent when the cost
\* of an asset cannot be read. Which one depends on texts and is not modelled.
CoreFunctions == FunctionClasses \union {Absent}

\* The icons of select_build_tags: the ability that is completed first, an item
\* of CORE and the function of CORE
SelectedTags(build, tags, class) ==
    <<FirstFullyUpgraded(build.ability_ids), IconItem(build).item_id, tags[class]>>

\* Does select_build_tags return them and no error?
CanSelectTags(build, assets, tags, class) ==
    LET ability == FirstFullyUpgraded(build.ability_ids)
    IN  /\ \A i \in DOMAIN build.core : build.core[i].item_id \in DOMAIN assets
        /\ ability # Absent /\ ability \in DOMAIN assets /\ class # Absent
        /\ assets[ability].name # 0 /\ assets[IconItem(build).item_id].name # 0
        /\ IsInjective(SelectedTags(build, tags, class))

\* Of some places in CORE, that of the dearest item, the least of several
Dearest(build, places) ==
    CHOOSE i \in places : \A j \in places :
        \/ build.core[j].cost < build.core[i].cost
        \/ build.core[j].cost = build.core[i].cost /\ build.core[i].item_id <= build.core[j].item_id

\* The places of the items beside the key item
Others(build) == {i \in DOMAIN build.core : ~IsKey(build, build.core[i])}

\* select_fallback_tags: the key item and the two dearest others, if there are
\* two
CanFallBack(build) == \E i \in Others(build), j \in Others(build) : i # j
FallbackTags(build) ==
    LET first  == Dearest(build, Others(build))
        second == Dearest(build, Others(build) \ {first})
    IN  <<build.key_item_id, build.core[first].item_id, build.core[second].item_id>>

\* attach_ability_and_tags, for the order that select_ability_path found
WithOrder(build, order) == [build EXCEPT !.ability_ids = IF order = Absent THEN <<>> ELSE order]
AttachTags(build, assets, tags, class) ==
    IF CanSelectTags(build, assets, tags, class)
    THEN [build EXCEPT !.tag_ids = SelectedTags(build, tags, class),
                       !.key_ability_name = assets[FirstFullyUpgraded(build.ability_ids)].name]
    ELSE [build EXCEPT !.tag_ids = FallbackTags(build)]

-----------------------------------------------------------------------------
(* attach_item_imbues *)

\* is_current_target
IsCurrentTarget(hero, item, ability, assets) ==
    /\ item \in DOMAIN assets /\ ability \in DOMAIN assets
    /\ assets[item].type = "upgrade" /\ assets[ability].type = "ability"
    /\ hero \in assets[ability].heroes
    /\ assets[ability].ability_type \in {"signature", "ultimate"}
    /\ assets[item].imbue \in {"imbue_active", "imbue_active_non_ult", "imbue_modifier_value"}
    /\ assets[item].imbue = "imbue_active_non_ult" => assets[ability].ability_type # "ultimate"

\* A faulty variant: the ability need not be in the order
WithAnyTarget(build, item, targets, assets) ==
    LET found == <<build.hero_id, item.item_id>>
    IN  [item EXCEPT !.imbue_target =
            IF /\ found \in DOMAIN targets
               /\ ValidTarget(targets[found])
               /\ IsCurrentTarget(build.hero_id, item.item_id, targets[found].ability_id, assets)
            THEN targets[found] ELSE Absent]
\* The target of an item, if it still is one. "targets" maps pairs of a hero and an
\* item to the targets of the database.
WithTarget(build, item, targets, assets) ==
    LET found == <<build.hero_id, item.item_id>>
    IN  [item EXCEPT !.imbue_target =
            IF /\ found \in DOMAIN targets
               /\ ValidTarget(targets[found])
               /\ targets[found].ability_id \in Range(build.ability_ids)
               /\ IsCurrentTarget(build.hero_id, item.item_id, targets[found].ability_id, assets)
            THEN targets[found] ELSE Absent]

AttachImbues(build, targets, assets) ==
    [build EXCEPT
        !.core        = [i \in DOMAIN @ |-> WithTarget(build, @[i], targets, assets)],
        !.situational = [i \in DOMAIN @ |-> WithTarget(build, @[i], targets, assets)]]

-----------------------------------------------------------------------------
(* assign_build_focus *)

\* select_focus_target; Absent when the item does not support a focus
FocusTarget(item, assets) ==
    IF /\ item.imbue_target # Absent /\ ValidTarget(item.imbue_target)
       /\ item.item_id \in DOMAIN assets
       /\ assets[item.item_id].type = "upgrade" /\ assets[item.item_id].improves
    THEN item.imbue_target.ability_id ELSE Absent

\* The places in CORE of the items that support a focus
Supporters(build, assets) == {i \in DOMAIN build.core : FocusTarget(build.core[i], assets) # Absent}

\* select_ability_focus for one ability
CanFocus(build, ability, assets) ==
    LET places == Supporters(build, assets)
    IN  /\ places # {} /\ \A i \in places : FocusTarget(build.core[i], assets) = ability
        /\ \/ \E i \in places : IsKey(build, build.core[i])
           \/ \E i \in places, j \in places : i # j
           \/ FirstFullyUpgraded(build.ability_ids) = ability
        /\ ability \in DOMAIN assets /\ ability \in Range(build.ability_ids)
        /\ assets[ability].type = "ability" /\ build.hero_id \in assets[ability].heroes
        /\ assets[ability].name # 0

SelectFocus(build, assets) ==
    LET places  == Supporters(build, assets)
        ability == FocusTarget(build.core[CHOOSE i \in places : \A j \in places : i <= j], assets)
    IN  IF CanFocus(build, ability, assets)
        THEN [ability_id |-> ability, name |-> assets[ability].name,
              supporting_item_ids |-> [i \in places |-> build.core[i].item_id]]
        ELSE Absent

\* assign_build_focus: focus, title and the first icon
AssignFocus(build, assets) ==
    LET upgraded == FirstFullyUpgraded(build.ability_ids)
        focus    == SelectFocus(build, assets)
        ability  == IF focus # Absent THEN focus.name
                    ELSE IF upgraded # Absent THEN build.key_ability_name ELSE Absent
    IN  [build EXCEPT !.ability_focus = focus,
                      !.title = Title(ability, KeyItem(build).name),
                      !.tag_ids[1] = IF focus # Absent THEN focus.ability_id
                                     ELSE IF upgraded # Absent THEN upgraded ELSE @]

\* What produce_hero_builds makes of a build with its order, when it does not give
\* up with an error
Produces(build, assets, tags, class) == CanSelectTags(build, assets, tags, class) \/ CanFallBack(build)
Produced(build, targets, assets, tags, class) ==
    AssignFocus(AttachImbues(AttachTags(build, assets, tags, class), targets, assets), assets)
=============================================================================
