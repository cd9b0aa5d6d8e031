----------------------------- MODULE RuleEngine -----------------------------
(***************************************************************************)
(* The rule engine: what a purchase earns under the published rule graph,  *)
(* and the usage of rule limits that evaluation reads and commits.         *)
(*                                                                         *)
(* A rule graph has groups of rules.  The rules of a group are evaluated   *)
(* in the order of their priorities; dependencies let a rule look at the   *)
(* outcome of earlier ones; the group's strategy selects among the         *)
(* candidates.  A draft graph is published once, if it is valid; the       *)
(* purchases of one member are then processed one after another, in any    *)
(* order of their dates (concurrency is the matter of RewardProcessing).   *)
(*                                                                         *)
(* The configuration of a rule, JSON in the database, is a record.  Rates  *)
(* are whole points for Unit of an amount, so the floating point of the    *)
(* code is exact here.  Only purchases can be targeted by a valid rule.    *)
(***************************************************************************)
EXTENDS Integers, FiniteSets, SequencesExt

CONSTANTS
    Drafts,             \* the rule graphs that may be published
    Purchases,          \* the purchases of the member, as records
    Category,           \* categories of line items and of rules, NoCategory among them
    NoCategory,
    NoGraph, NoLimit,
    Unit,               \* the amount for which a rule's rate is given
    DaysPerMonth

ASSUME CategoryAssumption == NoCategory \in Category /\ IsFiniteSet(Category)
ASSUME GraphAssumption == NoGraph \notin Drafts
ASSUME NumbersAssumption == Unit \in Nat \ {0} /\ DaysPerMonth \in Nat \ {0}
ASSUME PurchaseAssumption ==
    \A p \in Purchases :
        /\ p.time \in Nat /\ p.eligible \in Int /\ p.total \in Int
        /\ DOMAIN p.lines \subseteq Category
        /\ \A c \in DOMAIN p.lines : p.lines[c].eligible \in Int /\ p.lines[c].total \in Int

\* Groups, rules and limits are rows with keys of their own; a draft that is not
\* valid has them as well.
ASSUME DraftAssumption ==
    \A g \in Drafts :
        /\ IsFiniteSet(g.rules) /\ IsFiniteSet(g.groups)
        /\ \A r, s \in g.rules : r.id = s.id => r = s
        /\ \A group, other \in g.groups : group.id = other.id => group = other
        /\ \A r \in g.rules : /\ r.rate \in Int /\ r.points \in Int /\ r.priority \in Int
                              /\ r.categories \in Seq(Category)
        /\ g.limits \in Seq(ToSet(g.limits))
        /\ \A i, j \in DOMAIN g.limits : g.limits[i].id = g.limits[j].id => i = j
        /\ \A l \in ToSet(g.limits) :
              l.id # NoLimit /\ l.maxPoints \in Int /\ l.maxBasis \in Int

VARIABLES
    graph,              \* the published rule graph
    usage,              \* rule_limit_usage, by limit and period key
    calculation         \* by purchase: the candidates of each group, or {}

vars == <<graph, usage, calculation>>

Processed == {p \in Purchases : calculation[p] # {}}

Smaller(a, b) == IF a < b THEN a ELSE b
Larger(a, b) == IF a > b THEN a ELSE b

-----------------------------------------------------------------------------
(* Validation before a graph is published.                                 *)

Strategies == {"stack", "max_of", "waterfall"}
RuleTypes == {"points_per_dollar", "fixed_per_transaction", "first_purchase_bonus",
              "spend_window_bonus"}
DependencyTypes == {"requires_match", "requires_award", "requires_exhausted",
                    "blocked_if_awarded", "applies_to_remainder"}
Periods == {"lifetime", "day", "calendar_month"}

ValidRuleConfig(r) ==
    /\ r.type \in RuleTypes
    /\ r.type = "points_per_dollar" => r.rate > 0
    /\ r.type # "points_per_dollar" => r.points > 0
    /\ r.type = "spend_window_bonus" => r.windowDays > 0 /\ r.threshold > 0

RulesOf(g, group) == {r \in g.rules : r.group = group.id}

ValidGroup(g, group) ==
    /\ group.strategy \in Strategies
    /\ group.strategy = "max_of" => Cardinality(RulesOf(g, group)) >= 2

\* Seeded bug: a dependency on a rule of the same priority is admitted.
ValidDependencyAnyOrder(g, dep) ==
    \A r \in g.rules : r.id = dep.rule =>
        \E on \in g.rules : on.id = dep.on /\ on.group = r.group /\ on.priority <= r.priority

\* A dependency of an active rule is on an earlier rule of its group, and of a
\* type its group's strategy supports.
ValidDependency(g, dep) ==
    \A r \in g.rules : r.id = dep.rule =>
        /\ \E on \in g.rules : on.id = dep.on /\ on.group = r.group /\ on.priority < r.priority
        /\ dep.type \in DependencyTypes
        /\ \A group \in g.groups : group.id = r.group =>
              /\ dep.type = "applies_to_remainder" => group.strategy = "waterfall"
              /\ group.strategy = "max_of" => dep.type = "requires_match"

ValidLimit(l) == l.period \in Periods /\ (l.maxPoints > 0 \/ l.maxBasis > 0)

\* The depth-first search of the code fails exactly if some rules all depend on
\* rules among themselves.
NoDependencyCycles(g) ==
    ~\E S \in SUBSET {r.id : r \in g.rules} :
        S # {} /\ \A id \in S : \E dep \in g.dependencies : dep.rule = id /\ dep.on \in S

ValidateRuleGraphForPublish(g) ==
    /\ g.rules # {} /\ g.groups # {}
    /\ \A r \in g.rules : ValidRuleConfig(r)
    /\ \A group \in g.groups : ValidGroup(g, group)
    /\ \A dep \in g.dependencies : ValidDependency(g, dep)
    /\ \A i \in DOMAIN g.limits : ValidLimit(g.limits[i])
    /\ NoDependencyCycles(g)

-----------------------------------------------------------------------------
(* Limit usage.                                                            *)

NoUse == [points |-> 0, basis |-> 0]

PeriodKey(period, time) ==
    CASE period = "day" -> time
      [] period = "calendar_month" -> time \div DaysPerMonth
      [] OTHER -> 0

\* Seeded bug: the usage of the period's day is read, whatever the period.
UsageOfDay(l, time) ==
    IF <<l.id, time>> \in DOMAIN usage THEN usage[<<l.id, time>>] ELSE NoUse

\* What the member has used of a limit in the period; without a row, nothing.
CurrentLimitUsage(l, time) == usage[<<l.id, PeriodKey(l.period, time)>>]

\* The usage row that a candidate's share is added to.
UsageRow(c, time) ==
    LET l == CHOOSE m \in ToSet(graph.limits) : m.id = c.limit
    IN <<l.id, PeriodKey(l.period, time)>>

WithUsage(candidates, time) ==
    [u \in DOMAIN usage |->
        LET users == {c \in candidates : c.limit # NoLimit /\ UsageRow(c, time) = u}
        IN [points |-> usage[u].points + SumFunction([c \in users |-> c.usagePoints]),
            basis |-> usage[u].basis + SumFunction([c \in users |-> c.usageBasis])]]

\* Seeded bug: candidates that were not selected use their limits as well.
CommitUsageOfAll(candidates, time) == usage' = WithUsage(candidates, time)

CommitLimitUsage(candidates, time) ==
    usage' = WithUsage({c \in candidates : c.selected}, time)

-----------------------------------------------------------------------------
(* What a rule is worth to a purchase.                                     *)

LineBasis(line, basis) ==
    IF basis \in {"total", "line_item_total"} THEN line.total ELSE line.eligible

LinesBasis(p, categories, basis) ==
    SumFunction([c \in DOMAIN p.lines \cap categories |-> LineBasis(p.lines[c], basis)])

BasisForRule(p, r) ==
    IF r.categories # <<>> THEN LinesBasis(p, ToSet(r.categories), r.basis)
    ELSE CASE r.basis = "total" -> p.total
           [] r.basis \in {"line_item_total", "line_item_eligible"} ->
                LinesBasis(p, Category, r.basis)
           [] OTHER -> p.eligible

PointsForBasis(basis, rate) == IF basis <= 0 \/ rate <= 0 THEN 0 ELSE (basis * rate) \div Unit

\* The eligible amounts of the member's processed purchases since the window
\* opened; purchases of a later date count as well.
SpentInWindow(p, days) ==
    SumFunction([q \in {q \in Processed \ {p} : q.time >= p.time - days} |-> q.eligible])

EligibleForRule(p, r) ==
    /\ r.firstOnly => Processed \ {p} = {}
    /\ r.channels # {} => p.channel \in r.channels
    /\ CASE r.type = "spend_window_bonus" ->
              SpentInWindow(p, r.windowDays) + p.eligible >= r.threshold
         [] r.type = "points_per_dollar" -> BasisForRule(p, r) > 0
         [] OTHER -> TRUE

RawPoints(r, basis) ==
    IF r.type = "points_per_dollar" THEN PointsForBasis(basis, r.rate) ELSE r.points

\* A rule that does not match, or that a dependency blocks.
Unmatched(r) == [rule |-> r.id, matched |-> FALSE, basis |-> 0, raw |-> 0, points |-> 0,
                 selected |-> FALSE, exhausted |-> FALSE, limit |-> NoLimit,
                 usagePoints |-> 0, usageBasis |-> 0]

\* Seeded bug: the basis is replaced by what remains of the limit, even if less.
WithinBasisUncompared(c, r, maxBasis, used) ==
    LET remaining == Larger(0, maxBasis - used)
        points == PointsForBasis(remaining, IF r.rate = 0 THEN 1 ELSE r.rate)
    IN [c EXCEPT !.basis = remaining, !.points = points,
                 !.usageBasis = remaining, !.usagePoints = points]

\* The candidate under a limit of the basis, of which so much is used.
WithinBasis(c, r, maxBasis, used) ==
    LET remaining == Larger(0, maxBasis - used)
        cut == IF c.basis > remaining
               THEN [c EXCEPT !.exhausted = TRUE, !.basis = remaining,
                              !.points = PointsForBasis(remaining,
                                                        IF r.rate = 0 THEN 1 ELSE r.rate)]
               ELSE c
    IN [cut EXCEPT !.usageBasis = cut.basis, !.usagePoints = cut.points]

\* Seeded bug: the room left is what would remain after this award.
WithinPointsAfterwards(c, maxPoints, used) ==
    LET remaining == maxPoints - used - c.points
        points == Smaller(c.points, remaining)
    IN [c EXCEPT !.exhausted = @ \/ c.points > remaining,
                 !.points = points, !.usagePoints = points]

\* The candidate under a limit of the points, of which so many are used.
WithinPoints(c, maxPoints, used) ==
    LET remaining == Larger(0, maxPoints - used)
        points == Smaller(c.points, remaining)
    IN [c EXCEPT !.exhausted = @ \/ c.points > remaining,
                 !.points = points, !.usagePoints = points]

ApplyLimit(c, r, l, used) ==
    LET named == [c EXCEPT !.limit = l.id]
        onBasis == IF l.maxBasis > 0 THEN WithinBasis(named, r, l.maxBasis, used.basis) ELSE named
    IN IF l.maxPoints > 0 THEN WithinPoints(onBasis, l.maxPoints, used.points) ELSE onBasis

\* The candidate of a rule that matches, before its limits.
Matched(r, basis) ==
    LET points == RawPoints(r, basis)
    IN [Unmatched(r) EXCEPT !.matched = TRUE, !.basis = basis, !.raw = points, !.points = points]

Limited(p, r, c, l) ==
    IF l.rule = r.id THEN ApplyLimit(c, r, l, CurrentLimitUsage(l, p.time)) ELSE c

\* All limits of a rule apply, one after another; the candidate names the last.
EvaluateRuleCandidate(p, r, basis) ==
    IF ~EligibleForRule(p, r) THEN Unmatched(r)
    ELSE FoldLeft(LAMBDA c, l : Limited(p, r, c, l), Matched(r, basis), graph.limits)

-----------------------------------------------------------------------------
(* A group of rules.                                                       *)

\* The group's rules by priority, in any order among equal priorities.
Orders(group) ==
    {order \in SetToSeqs(RulesOf(graph, group)) :
        \A i, j \in DOMAIN order : i < j => order[i].priority <= order[j].priority}

\* Seeded bug: exhaustion is not asked for.
DependencyHoldsUnlessExhausted(dep, c) ==
    CASE dep.type = "requires_match" -> c.matched
      [] dep.type = "requires_award" -> c.selected /\ c.points # 0
      [] dep.type = "blocked_if_awarded" -> ~(c.selected /\ c.points # 0)
      [] OTHER -> TRUE

DependencyHolds(dep, c) ==
    CASE dep.type = "requires_match" -> c.matched
      [] dep.type = "requires_award" -> c.selected /\ c.points # 0
      [] dep.type = "requires_exhausted" -> c.exhausted
      [] dep.type = "blocked_if_awarded" -> ~(c.selected /\ c.points # 0)
      [] OTHER -> TRUE

\* Every rule depended on has been evaluated, with the outcome asked for.
DependenciesSatisfied(r, candidates) ==
    \A dep \in graph.dependencies : dep.rule = r.id =>
        \E c \in ToSet(candidates) : c.rule = dep.on /\ DependencyHolds(dep, c)

BasisByCategory(p) ==
    [c \in Category |-> CASE c \in DOMAIN p.lines -> p.lines[c].eligible
                          [] DOMAIN p.lines = {} /\ c = NoCategory -> p.eligible
                          [] OTHER -> 0]

WaterfallBasis(r, remaining) ==
    IF r.categories = <<>> THEN SumFunction(remaining)
    ELSE SumFunction([i \in DOMAIN r.categories |-> remaining[r.categories[i]]])

\* Seeded bug: only the first of the rule's categories pays.
ConsumeFromFirst(r, remaining, amount) ==
    LET c == Head(IF r.categories = <<>> THEN <<NoCategory>> ELSE r.categories)
    IN IF amount <= 0 THEN remaining
       ELSE [remaining EXCEPT ![c] = @ - Smaller(@, amount)]

\* A category pays its share of the amount that is left.
Consume(left, c) ==
    IF left.amount <= 0 THEN left
    ELSE LET consume == Smaller(left.remaining[c], left.amount)
         IN [remaining |-> [left.remaining EXCEPT ![c] = @ - consume],
             amount |-> left.amount - consume]

\* The categories that pay for a rule.
Payers(r) == IF r.categories = <<>> THEN <<NoCategory>> ELSE r.categories

\* The amount is taken from the rule's categories in turn, as far as it goes.
ConsumeWaterfallBasis(r, remaining, amount) ==
    FoldLeft(Consume, [remaining |-> remaining, amount |-> amount], Payers(r)).remaining

\* Seeded bug: the candidate that would be worth most without limits wins.
SelectHighestRaw(candidates) ==
    [i \in DOMAIN candidates |->
        [candidates[i] EXCEPT !.selected =
            /\ candidates[i].points # 0
            /\ \A j \in DOMAIN candidates :
                  \/ candidates[j].raw < candidates[i].raw
                  \/ candidates[j].raw = candidates[i].raw /\ i <= j]]

\* The first of the candidates with the most points.
SelectHighest(candidates) ==
    [i \in DOMAIN candidates |->
        [candidates[i] EXCEPT !.selected =
            /\ candidates[i].points # 0
            /\ \A j \in DOMAIN candidates :
                  \/ candidates[j].points < candidates[i].points
                  \/ candidates[j].points = candidates[i].points /\ i <= j]]

\* The candidate of the next rule of a group, after those done.
Evaluate(p, group, done, r) ==
    LET basis == IF group.strategy = "waterfall" THEN WaterfallBasis(r, done.remaining)
                 ELSE BasisForRule(p, r)
        c == IF DependenciesSatisfied(r, done.candidates)
             THEN EvaluateRuleCandidate(p, r, basis) ELSE Unmatched(r)
    IN [c EXCEPT !.selected = group.strategy # "max_of" /\ c.points # 0]

EvaluateNext(p, group, done, r) ==
    LET c == Evaluate(p, group, done, r)
    IN [candidates |-> Append(done.candidates, c),
        remaining |-> IF group.strategy = "waterfall" /\ c.selected
                      THEN ConsumeWaterfallBasis(r, done.remaining, c.basis)
                      ELSE done.remaining]

\* The candidates of a group, its rules being evaluated in the given order.
EvaluateGroup(p, group, order) ==
    LET start == [candidates |-> <<>>, remaining |-> BasisByCategory(p)]
        done == FoldLeft(LAMBDA d, r : EvaluateNext(p, group, d, r), start, order)
    IN IF group.strategy = "max_of" THEN SelectHighest(done.candidates) ELSE done.candidates

-----------------------------------------------------------------------------
(* The specification.                                                      *)

AllLimits == UNION {ToSet(g.limits) : g \in Drafts}

Init ==
    /\ graph = NoGraph
    /\ usage = [u \in {<<l.id, PeriodKey(l.period, p.time)>> : l \in AllLimits, p \in Purchases}
                  |-> NoUse]
    /\ calculation = [p \in Purchases |-> {}]

Publish(g) ==
    /\ graph = NoGraph
    /\ ValidateRuleGraphForPublish(g)
    /\ graph' = g
    /\ UNCHANGED <<usage, calculation>>

\* calculatePurchase: groups are independent, as a limit belongs to one rule.
CalculatePurchase(p) ==
    /\ graph # NoGraph /\ p \notin Processed
    /\ \E trace \in {f \in [graph.groups -> UNION {Orders(group) : group \in graph.groups}] :
                        \A group \in graph.groups : f[group] \in Orders(group)} :
          LET groups == {[id |-> group.id, candidates |-> EvaluateGroup(p, group, trace[group])] :
                            group \in graph.groups}
          IN /\ calculation' = [calculation EXCEPT ![p] = groups]
             /\ CommitLimitUsage(UNION {ToSet(group.candidates) : group \in groups}, p.time)
    /\ UNCHANGED graph

Next ==
    \/ \E g \in Drafts : Publish(g)
    \/ \E p \in Purchases : CalculatePurchase(p)

Spec == Init /\ [][Next]_vars
-----------------------------------------------------------------------------
(* Properties.                                                             *)

Candidates(p) == UNION {ToSet(group.candidates) : group \in calculation[p]}

Selected(p) == {c \in Candidates(p) : c.selected}

\* The selected candidates of a limit's rule in a period, with their purchase.
AwardsUnder(l, key) ==
    UNION {{<<p, c>> : c \in {d \in Selected(p) : d.rule = l.rule}} :
              p \in {q \in Processed : PeriodKey(l.period, q.time) = key}}

Limits == IF graph = NoGraph THEN {} ELSE ToSet(graph.limits)

CandidateType ==
    [rule : {r.id : r \in UNION {g.rules : g \in Drafts}}, matched : BOOLEAN, basis : Int,
     raw : Nat, points : Nat, selected : BOOLEAN, exhausted : BOOLEAN,
     limit : {l.id : l \in AllLimits} \cup {NoLimit}, usagePoints : Nat, usageBasis : Int]

\* Types; in particular no candidate is worth a negative number of points.
TypeOK ==
    /\ graph \in Drafts \cup {NoGraph}
    /\ \A u \in DOMAIN usage : usage[u] \in [points : Nat, basis : Nat]
    /\ \A p \in Purchases : Candidates(p) \subseteq CandidateType

\* "A limit caps candidate output or eligible basis": in no period do the
\* selected awards of a rule exceed any limit of the rule, in points or basis,
\* in whatever order the purchases arrive.
LimitsHold ==
    \A l \in Limits : \A key \in {PeriodKey(l.period, p.time) : p \in Processed} :
        /\ l.maxPoints > 0 =>
              SumFunction([a \in AwardsUnder(l, key) |-> a[2].points]) <= l.maxPoints
        /\ l.maxBasis > 0 =>
              SumFunction([a \in AwardsUnder(l, key) |-> a[2].basis]) <= l.maxBasis

\* "Limit usage is committed only for selected candidates", and with what they
\* were selected for: a candidate that loses, is blocked or is worth nothing
\* leaves the limit to others.
UsageIsSelection ==
    \A l \in Limits : \A key \in {PeriodKey(l.period, p.time) : p \in Processed} :
        /\ usage[<<l.id, key>>].points = SumFunction([a \in AwardsUnder(l, key) |-> a[2].points])
        /\ l.maxBasis > 0 =>
              usage[<<l.id, key>>].basis = SumFunction([a \in AwardsUnder(l, key) |-> a[2].basis])

\* No limit makes a candidate worth more than it is without limits.
LimitsNeverRaise == \A p \in Purchases : \A c \in Candidates(p) : c.points <= c.raw

\* "max_of: awards only the highest candidate after limits."
HighestWins ==
    \A p \in Processed : \A group \in graph.groups : group.strategy = "max_of" =>
        LET candidates == ToSet((CHOOSE t \in calculation[p] : t.id = group.id).candidates)
            winners == {c \in candidates : c.selected}
        IN /\ Cardinality(winners) = IF \E c \in candidates : c.points > 0 THEN 1 ELSE 0
           /\ \A w \in winners : \A c \in candidates : c.points <= w.points

\* "Selected candidates consume eligible basis before later rules evaluate":
\* in a waterfall, all awards together that are restricted to some categories
\* are for no more than the amount of the purchase in those categories.
WaterfallEarnsOnce ==
    \A p \in Processed : \A group \in graph.groups : group.strategy = "waterfall" =>
        \A S \in SUBSET Category :
            LET rules == {r \in RulesOf(graph, group) :
                             r.categories # <<>> => ToSet(r.categories) \subseteq S}
                awards == {c \in Selected(p) : \E r \in rules : r.id = c.rule}
            IN (S = Category \/ \A r \in rules : r.categories # <<>>) =>
                 SumFunction([c \in awards |-> c.basis])
                    <= SumFunction([c \in S |-> BasisByCategory(p)[c]])

\* What a dependency asks for is true in the outcome: of the rule depended on as
\* it was finally resolved, not only as it stood when the dependent rule ran.
DependenciesRespected ==
    \A p \in Processed : \A c \in Candidates(p) : c.matched =>
        \A dep \in graph.dependencies : dep.rule = c.rule =>
            \A prior \in Candidates(p) : prior.rule = dep.on =>
                CASE dep.type = "requires_match" -> prior.matched
                  [] dep.type = "requires_award" -> prior.selected /\ prior.points > 0
                  [] dep.type = "requires_exhausted" -> prior.exhausted
                  [] dep.type = "blocked_if_awarded" -> ~prior.selected
                  [] OTHER -> TRUE

\* Publish validation makes evaluation order safe: in a published graph the rule
\* depended on is evaluated before its dependents, however ties are ordered.
DependenciesEvaluatedFirst ==
    \A p \in Processed : \A group \in calculation[p] : \A i \in DOMAIN group.candidates :
        \A dep \in graph.dependencies : dep.rule = group.candidates[i].rule =>
            \E j \in DOMAIN group.candidates : j < i /\ group.candidates[j].rule = dep.on
=============================================================================
