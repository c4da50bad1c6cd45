---------------------------- MODULE AbilityOrder ----------------------------
(* select_ability_path of ability_order.rs: a complete ability order from the *)
(* orders that players followed. A row is a sequence of purchases and the     *)
(* number of matches that began with it. Players who bought the same          *)
(* abilities as often, in whatever order, face the same decision; their       *)
(* matches are added up.                                                      *)
EXTENDS HeroBuilds, FiniteSetsExt, Folds

\* A path that was found is no Absent.
ASSUME AbsentAssumption == Absent \notin Seq(Nat)

ASSUME AbilitiesAssumption == {AbilityCount, RankCount} \subseteq Nat \ {0}

\* How often the first n purchases of a path bought an ability
Rank(path, n, ability) == Cardinality(Purchases(path, ability, n))

\* parse_observation: rows that it does not pass over
IsObservation(row) ==
    /\ row.path # <<>> /\ Len(row.path) <= OrderLength
    /\ Cardinality(Range(row.path)) <= AbilityCount /\ 0 \notin Range(row.path)
    /\ \A ability \in Range(row.path) : Rank(row.path, Len(row.path), ability) <= RankCount
    /\ row.matches > 0

\* The places of the rows that are left
Observations(rows) == {i \in DOMAIN rows : IsObservation(rows[i])}

\* The abilities in them
Bought(rows) == UNION {Range(rows[i].path) : i \in Observations(rows)}

\* The matches of the rows at some places
Matches(rows, places) == MapThenSumSet(LAMBDA i : rows[i].matches, places)

-----------------------------------------------------------------------------
(* aggregate_decisions. A decision state is the rank of each ability.        *)

RanksBefore(path, i, abilities) == [a \in abilities |-> Rank(path, i - 1, a)]

\* Does a row buy this ability at these ranks?
Decides(row, ranks, ability) ==
    \E i \in DOMAIN row.path :
        /\ row.path[i] = ability
        /\ RanksBefore(row.path, i, DOMAIN ranks) = ranks

\* A faulty variant: the matches of one observation only
SupportOfOne(rows, ranks, ability) ==
    Max({0} \union {rows[i].matches :
                       i \in {i \in Observations(rows) : Decides(rows[i], ranks, ability)}})

\* The matches of all observations that do
Support(rows, ranks, ability) ==
    Matches(rows, {i \in Observations(rows) : Decides(rows[i], ranks, ability)})

-----------------------------------------------------------------------------
(* resolve_ability_continuation *)

\* One ability before another: more matches, or as many and the lesser number
Precedes(rows, ranks, a, b) ==
    LET first  == Support(rows, ranks, a)
        second == Support(rows, ranks, b)
    IN  \/ first > second
        \/ first = second /\ a < b

\* The position of a decision state
Position(ranks) ==
    Cardinality({purchase \in (DOMAIN ranks) \X (1..RankCount) : purchase[2] <= ranks[purchase[1]]})

After(ranks, ability) == [ranks EXCEPT ![ability] = @ + 1]

\* The abilities that can be bought and lead to a complete order, for the purchases
\* that follow other ranks
Viable(rows, resolve, ranks) ==
    {a \in DOMAIN ranks : /\ ranks[a] < RankCount
                          /\ Support(rows, ranks, a) > 0
                          /\ resolve[After(ranks, a)] # Absent}

\* The first of them
Best(rows, ranks, viable) ==
    CHOOSE a \in viable : \A b \in viable \ {a} : Precedes(rows, ranks, a, b)

\* select_continuation: the purchases that follow some ranks, or Absent
Select(rows, resolve, ranks) ==
    IF Position(ranks) = OrderLength
    THEN IF Cardinality({a \in DOMAIN ranks : ranks[a] = RankCount}) = AbilityCount
         THEN <<>> ELSE Absent
    ELSE LET viable == Viable(rows, resolve, ranks)
             best   == Best(rows, ranks, viable)
         IN  IF viable = {} THEN Absent ELSE <<best>> \o resolve[After(ranks, best)]

\* select_ability_path, without the matches of the order
SelectAbilityPath(rows) ==
    LET resolve[ranks \in [Bought(rows) -> 0..RankCount]] == Select(rows, resolve, ranks)
    IN  resolve[[a \in Bought(rows) |-> 0]]
=============================================================================
