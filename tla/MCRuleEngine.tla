---------------------------- MODULE MCRuleEngine ----------------------------
(* Small instances of RuleEngine for TLC. *)
EXTENDS RuleEngine, TLC

CONSTANTS grocery, fuel, online, store

\* Purchases of three days, two of them in one month; amounts in units.
OnePurchase == [time |-> 0, eligible |-> 4, total |-> 5, channel |-> online,
                lines |-> (grocery :> [eligible |-> 3, total |-> 3]
                             @@ fuel :> [eligible |-> 1, total |-> 2])]
SameDay == [time |-> 0, eligible |-> 6, total |-> 6, channel |-> store,
            lines |-> (grocery :> [eligible |-> 6, total |-> 6])]
SameMonth == [time |-> 1, eligible |-> 5, total |-> 5, channel |-> online,
              lines |-> (fuel :> [eligible |-> 5, total |-> 5])]
NextMonth == [time |-> 2, eligible |-> 2, total |-> 3, channel |-> online,
              lines |-> (grocery :> [eligible |-> 1, total |-> 1]
                           @@ NoCategory :> [eligible |-> 1, total |-> 2])]
WithoutLines == [time |-> 1, eligible |-> 3, total |-> 3, channel |-> online, lines |-> <<>>]
MCPurchases == {OnePurchase, SameDay, SameMonth, NextMonth, WithoutLines}

Rule(id, group, priority, type) ==
    [id |-> id, group |-> group, priority |-> priority, type |-> type, rate |-> 0,
     points |-> 0, basis |-> "eligible", categories |-> <<>>, channels |-> {},
     firstOnly |-> type = "first_purchase_bonus", windowDays |-> 0, threshold |-> 0]

Earning(id, group, priority, rate) ==
    [Rule(id, group, priority, "points_per_dollar") EXCEPT !.rate = rate]

Group(id, strategy) == [id |-> id, strategy |-> strategy]
Limit(id, rule, period, maxPoints, maxBasis) ==
    [id |-> id, rule |-> rule, period |-> period, maxPoints |-> maxPoints, maxBasis |-> maxBasis]
Dependency(rule, on, type) == [rule |-> rule, on |-> on, type |-> type]

\* Base points, a limited category bonus, a first purchase bonus, a bonus for
\* spending within two days, and one instead of it.
Stack ==
    [groups |-> {Group("g1", "stack")},
     rules |-> {Earning("base", "g1", 1, 1),
                [Earning("bonus", "g1", 2, 2) EXCEPT !.categories = <<grocery>>, !.basis = "total"],
                [Rule("first", "g1", 3, "first_purchase_bonus") EXCEPT !.points = 3],
                [Rule("spender", "g1", 3, "spend_window_bonus") EXCEPT
                    !.points = 2, !.windowDays = 1, !.threshold = 9],
                [Rule("other", "g1", 4, "fixed_per_transaction") EXCEPT !.points = 1]},
     limits |-> <<Limit("l1", "bonus", "calendar_month", 8, 5),
                  Limit("l2", "first", "lifetime", 2, 0),
                  Limit("l3", "base", "day", 0, 7)>>,
     dependencies |-> {Dependency("bonus", "base", "requires_award"),
                       Dependency("spender", "bonus", "requires_match"),
                       Dependency("other", "spender", "blocked_if_awarded")}]

\* The better of a base rate and a limited rate online.
MaxOf ==
    [groups |-> {Group("g1", "max_of"), Group("g2", "stack")},
     rules |-> {Earning("base", "g1", 1, 1),
                [Earning("promo", "g1", 2, 3) EXCEPT !.channels = {online}],
                [Earning("lines", "g1", 2, 1) EXCEPT !.basis = "line_item_total"],
                Earning("always", "g2", 1, 1)},
     limits |-> <<Limit("l4", "promo", "lifetime", 11, 0), Limit("l5", "base", "day", 4, 0)>>,
     dependencies |-> {Dependency("promo", "base", "requires_match")}]

\* A high rate on groceries up to a limit, then a lower one on what is left.
Waterfall ==
    [groups |-> {Group("g1", "waterfall")},
     rules |-> {[Earning("premium", "g1", 1, 3) EXCEPT !.categories = <<grocery>>],
                [Earning("overflow", "g1", 2, 1) EXCEPT !.categories = <<grocery>>],
                [Earning("mixed", "g1", 3, 2) EXCEPT !.categories = <<grocery, fuel>>],
                [Rule("fixed", "g1", 3, "fixed_per_transaction") EXCEPT
                    !.points = 1, !.categories = <<fuel, NoCategory>>]},
     limits |-> <<Limit("l6", "premium", "calendar_month", 0, 4),
                  Limit("l7", "mixed", "lifetime", 6, 0)>>,
     dependencies |-> {Dependency("overflow", "premium", "requires_exhausted"),
                       Dependency("overflow", "premium", "applies_to_remainder")}]

\* A waterfall for purchases without line items: nothing is left to the second.
PlainWaterfall ==
    [groups |-> {Group("g1", "waterfall")},
     rules |-> {[Earning("premium", "g1", 1, 3) EXCEPT !.categories = <<NoCategory>>],
                Earning("rest", "g1", 2, 1)},
     limits |-> <<Limit("l8", "premium", "lifetime", 0, 2)>>,
     dependencies |-> {}]

\* Drafts that must not be published: a dependency on a rule of equal priority,
\* one on the winner of max_of, and a circle.
EqualPriority ==
    [Stack EXCEPT !.dependencies = {Dependency("spender", "first", "requires_match")}]
DependsOnWinner ==
    [MaxOf EXCEPT !.dependencies = {Dependency("promo", "base", "blocked_if_awarded")}]
Circle ==
    [Stack EXCEPT !.dependencies = {Dependency("base", "bonus", "requires_match"),
                                    Dependency("bonus", "base", "requires_match")}]

MCDrafts == {Stack, MaxOf, Waterfall, PlainWaterfall, EqualPriority, DependsOnWinner, Circle}

\* One rule under two limits, one of a day and one for ever.
TwoLimits ==
    [groups |-> {Group("g1", "stack")},
     rules |-> {Earning("base", "g1", 1, 1)},
     limits |-> <<Limit("l1", "base", "lifetime", 8, 0), Limit("l2", "base", "day", 5, 0)>>,
     dependencies |-> {}]

SeveralLimits == {TwoLimits}
=============================================================================
