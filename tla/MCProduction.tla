---------------------------- MODULE MCProduction ----------------------------
(* Five items, two of them made of others; abilities 11 to 13, of which two make *)
(* an order; tags 21 to 28.                                                   *)
EXTENDS Production

Item(tier, cost, components, name) ==
    [tier |-> tier, cost |-> cost, components |-> components, name |-> name]
MCCatalog ==
    << Item(1, 1, {}, 12), Item(2, 2, {1}, 9), Item(3, 4, {2}, 45), Item(4, 5, {}, 17),
       Item(1, 1, {}, 10) >>

Estimate(use, effect, all, spend) ==
    [use |-> use, effect |-> effect, all |-> all, spend |-> spend]
MCEstimates ==
    { Estimate(<<9, 8, 7, -20, 5>>,    <<0, 1, 2, 1, 1>>,   <<5, 5, 5, 5, 5>>,   3),
      Estimate(<<2, 8, -9, -3, 4>>,    <<0, 1, 3, 4, -2>>,  <<2, 5, 0, -9, 5>>,  5),
      Estimate(<<1, -9, 6, 3, -3>>,    <<-2, 3, 2, 4, 8>>,  <<3, 3, 3, 3, 3>>,   6),
      Estimate(<<-5, -9, -1, 4, 8>>,   <<9, 3, 0, 1, 0>>,   <<3, 3, 3, 3, 3>>,   7),
      Estimate(<<4, -6, 5, 4, -9>>,    <<1, 3, -9, -9, 3>>, <<0, 0, 0, 0, 0>>,   1),
      Estimate(<<-9, -9, 5, 4, -9>>,   <<3, 3, 3, 3, 3>>,   <<0, 0, 0, 0, 0>>,   2) }

At(net_worth, time) == [net_worth |-> net_worth, time |-> time]
MCMedians ==
    { <<At(2, 3), At(3, 4), At(7, 7), At(7, 6), At(2, 2)>>,
      <<Absent, At(3, 4), At(1, 1), Absent, At(3, 4)>> }

Row(matches, path) == [path |-> path, matches |-> matches]
MCResponses ==
    { <<>>,
      << Row(5, <<11, 12, 11, 12>>) >>,
      << Row(5, <<11, 11, 12, 12>>), Row(4, <<12, 11, 11, 12>>), Row(3, <<12, 12, 11, 11>>) >>,
      << Row(5, <<11, 12, 12>>), Row(4, <<12, 11, 11>>), Row(3, <<12, 11, 12, 11>>), Row(2, <<11>>) >>,
      << Row(9, <<11, 12, 13>>), Row(3, <<12, 13, 13, 12>>), Row(3, <<13, 12, 12, 13>>) >>,
      << Row(9, <<11, 11, 11>>), Row(8, <<0, 0, 12, 12>>), Row(0, <<12, 12, 11, 11>>),
         Row(2, <<12, 12, 13, 13>>) >>,
      << Row(2, <<11, 12>>), Row(3, <<12, 11>>), Row(1, <<11, 12, 11, 12>>), Row(1, <<12, 11, 12, 11>>),
         Row(2, <<11, 11, 12, 12>>) >>,
      << Row(4, <<11, 12, 11>>), Row(6, <<11, 13>>) >> }

Asset(type, ability_type, imbue, improves, name) ==
    [type |-> type, heroes |-> {1}, ability_type |-> ability_type, imbue |-> imbue,
     improves |-> improves, name |-> name]
Ability(kind, name) == Asset("ability", kind, "none", FALSE, name)
Upgrade(imbue, improves, name) == Asset("upgrade", "none", imbue, improves, name)
Pinned ==
    [id \in 1..5 \union 11..13 |->
        CASE id = 1 -> Upgrade("none", FALSE, 12)
          [] id = 2 -> Upgrade("imbue_active", TRUE, 9)
          [] id = 3 -> Upgrade("imbue_active_non_ult", TRUE, 45)
          [] id = 4 -> Upgrade("imbue_modifier_value", TRUE, 17)
          [] id = 5 -> Upgrade("imbue_modifier_value", FALSE, 10)
          [] id = 11 -> Ability("signature", 20)
          [] id = 12 -> Ability("ultimate", 30)
          [] id = 13 -> [Ability("signature", 9) EXCEPT !.heroes = {2}]]
MCAssets ==
    { Pinned, [Pinned EXCEPT ![11].name = 0],
      [id \in (DOMAIN Pinned) \ {12} |-> Pinned[id]], [id \in (DOMAIN Pinned) \ {3} |-> Pinned[id]] }

Target(ability, matches, observations) ==
    [ability_id |-> ability, matches |-> matches, observations |-> observations]
MCTargets ==
    { [pair \in {1} \X (1..5) |-> Target(11, 21, 41)],
      [pair \in {1} \X (2..5) |-> Target(IF pair[2] = 4 THEN 11 ELSE 12, 30, 30)],
      [pair \in {1} \X {2, 4} |-> Target(13, 50, 60)],
      [pair \in {1} \X {2, 3, 4} |-> IF pair[2] = 3 THEN Target(11, 30, 40) ELSE Target(11, 20, 40)] }

MCLeastUse == -7

MCClasses == {2, Absent}
MCTags == [class \in FunctionClasses |-> 21 + class]
=============================================================================
