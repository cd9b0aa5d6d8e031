-------------------------- MODULE RuleEngineProofs --------------------------
(***************************************************************************)
(* What is true of the rule engine for every graph, purchase and order of  *)
(* purchases.                                                              *)
(*                                                                         *)
(* Limits apply one after another, categories pay one after another, and   *)
(* rules are evaluated one after another: each is a fold over a sequence,  *)
(* and its run (LimitsRun, ConsumeRun, EvaluationRun) has a value for each *)
(* position.  What holds of every value of a run follows by induction over *)
(* the positions (CountingInduction).  The invariant EngineInv says of     *)
(* every processed purchase what its groups can have made of it            *)
(* (GroupOutcome); LimitInv, BasisInv and WaterfallInv add the sums.       *)
(*                                                                         *)
(* Some theorems suppose what the code does not check: AmountsNotNegative, *)
(* BasisLimitsOnRates, OneLimitEach, WaterfallsInTurn.  Without them the   *)
(* properties are false of the code.                                       *)
(***************************************************************************)
EXTENDS RuleEngine, FiniteSums

UsageKeys == {<<l.id, PeriodKey(l.period, p.time)>> : l \in AllLimits, p \in Purchases}

Uses == [points : Nat, basis : Int]

\* Usage has a row of numbers for every limit and period.
UsageRows == usage \in [UsageKeys -> Uses]

\* Amounts that can be taken from, and limits of the basis as far as a rate tells
\* what they are worth: what some theorems suppose, the code checks neither.
AmountsNotNegative ==
    \A p \in Purchases :
        /\ p.eligible >= 0 /\ p.total >= 0
        /\ \A c \in DOMAIN p.lines : p.lines[c].eligible >= 0 /\ p.lines[c].total >= 0

BasisLimitsOnRates ==
    \A g \in Drafts : \A l \in ToSet(g.limits) : l.maxBasis > 0 =>
        \A r \in g.rules : r.id = l.rule => r.type = "points_per_dollar"

\* A published graph was valid.
Published == graph \in Drafts /\ ValidateRuleGraphForPublish(graph)

-----------------------------------------------------------------------------
(* Points and limits.                                                      *)

\* More basis is not worth less.
LEMMA DivMonotone ==
    ASSUME NEW x \in Int, NEW y \in Int, x <= y, NEW u \in Nat \ {0}
    PROVE  x \div u <= y \div u
<1> DEFINE a == x \div u
           b == y \div u
<1>1. a \in Int /\ b \in Int /\ u * a <= x /\ y < u * (b + 1)
  OBVIOUS
<1> HIDE DEF a, b
<1>2. u * a < u * (b + 1)
  BY <1>1
<1>3. a < b + 1
  <2> SUFFICES ASSUME b + 1 <= a PROVE FALSE
    BY <1>1
  <2>1. u * (b + 1) <= u * a
    BY <1>1
  <2> QED BY <1>1, <1>2, <2>1
<1> QED BY <1>1, <1>3 DEF a, b

\* Points for a basis are a number, and grow with the basis.
LEMMA PointsForBasisBounds ==
    ASSUME NEW basis \in Int, NEW rate \in Int
    PROVE  /\ PointsForBasis(basis, rate) \in Nat
           /\ \A other \in Int : other <= basis =>
                 PointsForBasis(other, rate) <= PointsForBasis(basis, rate)
<1>1. Unit \in Nat \ {0}
  BY NumbersAssumption
<1>2. ASSUME NEW b \in Int, b > 0, rate > 0 PROVE (b * rate) \div Unit \in Nat
  <2>1. b * rate \in Int /\ 0 <= b * rate
    BY <1>2
  <2>2. 0 \div Unit <= (b * rate) \div Unit /\ 0 \div Unit = 0 /\ (b * rate) \div Unit \in Int
    <3>1. 0 \div Unit = 0
      BY <1>1
    <3>2. (b * rate) \div Unit \in Int
      BY <1>1, <2>1
    <3> QED BY <1>1, <2>1, <3>1, <3>2, DivMonotone
  <2> QED BY <2>2
<1>3. \A b \in Int : PointsForBasis(b, rate) \in Nat
  BY <1>2 DEF PointsForBasis
<1>4. ASSUME NEW other \in Int, other <= basis
      PROVE  PointsForBasis(other, rate) <= PointsForBasis(basis, rate)
  <2>1. CASE other <= 0 \/ rate <= 0
    <3>1. PointsForBasis(other, rate) = 0
      BY <2>1 DEF PointsForBasis
    <3> QED BY <1>3, <3>1
  <2>2. CASE other > 0 /\ rate > 0
    <3>1. other * rate <= basis * rate /\ other * rate \in Int /\ basis * rate \in Int
      BY <1>4, <2>2
    <3>2. (other * rate) \div Unit <= (basis * rate) \div Unit
      BY <1>1, <3>1, DivMonotone
    <3>3. /\ PointsForBasis(other, rate) = (other * rate) \div Unit
          /\ PointsForBasis(basis, rate) = (basis * rate) \div Unit
      BY <1>4, <2>2 DEF PointsForBasis
    <3> QED BY <3>2, <3>3
  <2> QED BY <2>1, <2>2
<1> QED BY <1>3, <1>4

\* A limit of the basis cuts the basis, and then the points, to what remains.
LEMMA WithinBasisFields ==
    ASSUME NEW c \in CandidateType, NEW r, r.rate \in Int, NEW maxBasis \in Int, NEW used \in Int
    PROVE  LET d == WithinBasis(c, r, maxBasis, used)
               room == Larger(0, maxBasis - used)
               rate == IF r.rate = 0 THEN 1 ELSE r.rate
           IN  /\ d \in CandidateType
               /\ d.rule = c.rule /\ d.matched = c.matched /\ d.raw = c.raw
               /\ d.selected = c.selected /\ d.limit = c.limit
               /\ d.usageBasis = d.basis /\ d.usagePoints = d.points
               /\ d.basis = IF c.basis > room THEN room ELSE c.basis
               /\ d.points = IF c.basis > room THEN PointsForBasis(room, rate) ELSE c.points
<1> DEFINE room == Larger(0, maxBasis - used)
           rate == IF r.rate = 0 THEN 1 ELSE r.rate
           cut == IF c.basis > room
                  THEN [c EXCEPT !.exhausted = TRUE, !.basis = room,
                                 !.points = PointsForBasis(room, rate)]
                  ELSE c
           d == WithinBasis(c, r, maxBasis, used)
<1>1. room \in Int /\ rate \in Int
  BY DEF Larger
<1>2. d = [cut EXCEPT !.usageBasis = cut.basis, !.usagePoints = cut.points]
  BY DEF WithinBasis
<1> HIDE DEF room, rate, d
<1>3. PointsForBasis(room, rate) \in Nat
  BY <1>1, PointsForBasisBounds
<1>4. /\ cut \in CandidateType
      /\ cut.rule = c.rule /\ cut.matched = c.matched /\ cut.raw = c.raw
      /\ cut.selected = c.selected /\ cut.limit = c.limit
      /\ cut.basis = IF c.basis > room THEN room ELSE c.basis
      /\ cut.points = IF c.basis > room THEN PointsForBasis(room, rate) ELSE c.points
  <2>1. CASE c.basis > room
    <3>1. cut = [c EXCEPT !.exhausted = TRUE, !.basis = room,
                          !.points = PointsForBasis(room, rate)]
      BY <2>1
    <3> HIDE DEF cut
    <3> QED BY <1>1, <1>3, <2>1, <3>1 DEF CandidateType
  <2>2. CASE ~(c.basis > room)
    <3>1. cut = c
      BY <2>2
    <3> HIDE DEF cut
    <3> QED BY <2>2, <3>1
  <2> QED BY <2>1, <2>2
<1> HIDE DEF cut
<1>5. /\ d \in CandidateType
      /\ d.rule = cut.rule /\ d.matched = cut.matched /\ d.raw = cut.raw
      /\ d.selected = cut.selected /\ d.limit = cut.limit
      /\ d.usageBasis = cut.basis /\ d.usagePoints = cut.points
      /\ d.basis = cut.basis /\ d.points = cut.points
  BY <1>2, <1>4 DEF CandidateType
<1> QED BY <1>4, <1>5 DEF room, rate, d

\* A limit of the points cuts the points to what remains.
LEMMA WithinPointsFields ==
    ASSUME NEW c \in CandidateType, NEW maxPoints \in Int, NEW used \in Int
    PROVE  LET d == WithinPoints(c, maxPoints, used)
           IN  /\ d \in CandidateType
               /\ d.rule = c.rule /\ d.matched = c.matched /\ d.raw = c.raw
               /\ d.selected = c.selected /\ d.limit = c.limit
               /\ d.basis = c.basis /\ d.usageBasis = c.usageBasis
               /\ d.points = Smaller(c.points, Larger(0, maxPoints - used))
               /\ d.usagePoints = d.points
<1> DEFINE room == Larger(0, maxPoints - used)
           points == Smaller(c.points, room)
           exhausted == c.exhausted \/ c.points > room
           d == WithinPoints(c, maxPoints, used)
<1>1. points \in Nat
  BY DEF Larger, Smaller, CandidateType
<1>2. d = [c EXCEPT !.exhausted = exhausted, !.points = points, !.usagePoints = points]
  BY DEF WithinPoints
<1>3. exhausted \in BOOLEAN
  OBVIOUS
<1> HIDE DEF points, exhausted, d
<1>4. d \in CandidateType
  BY <1>1, <1>2, <1>3 DEF CandidateType
<1>5. /\ d.rule = c.rule /\ d.matched = c.matched /\ d.raw = c.raw
      /\ d.selected = c.selected /\ d.limit = c.limit
      /\ d.basis = c.basis /\ d.usageBasis = c.usageBasis
      /\ d.points = points /\ d.usagePoints = points
  BY <1>2 DEF CandidateType
<1> QED BY <1>4, <1>5 DEF points, d

\* What a limit changes of a candidate, and what not.
LEMMA ApplyLimitFields ==
    ASSUME NEW c \in CandidateType, NEW r, r.rate \in Int, NEW used \in Uses,
           NEW l \in AllLimits, l.maxPoints \in Int, l.maxBasis \in Int
    PROVE  LET d == ApplyLimit(c, r, l, used)
           IN  /\ d \in CandidateType
               /\ d.rule = c.rule /\ d.matched = c.matched /\ d.raw = c.raw
               /\ d.selected = c.selected /\ d.limit = l.id
               /\ d.basis <= c.basis /\ (c.basis >= 0 => d.basis >= 0)
               /\ c.basis >= 0 /\ c.usageBasis >= 0 => d.usageBasis >= 0
               /\ l.maxBasis > 0 => /\ d.usageBasis = d.basis
                                    /\ d.basis <= Larger(0, l.maxBasis - used.basis)
               /\ l.maxPoints > 0 => d.points <= Larger(0, l.maxPoints - used.points)
               /\ l.maxBasis > 0 \/ l.maxPoints > 0 => d.usagePoints = d.points
               /\ \/ d.points <= c.points
                  \/ /\ l.maxBasis > 0
                     /\ d.points <= PointsForBasis(c.basis, IF r.rate = 0 THEN 1 ELSE r.rate)
<1> DEFINE named == [c EXCEPT !.limit = l.id]
           onBasis == IF l.maxBasis > 0
                      THEN WithinBasis(named, r, l.maxBasis, used.basis) ELSE named
           d == ApplyLimit(c, r, l, used)
           room == Larger(0, l.maxBasis - used.basis)
           rate == IF r.rate = 0 THEN 1 ELSE r.rate
<1>1. /\ named \in CandidateType /\ named.limit = l.id
      /\ named.rule = c.rule /\ named.matched = c.matched /\ named.raw = c.raw
      /\ named.selected = c.selected /\ named.basis = c.basis /\ named.points = c.points
      /\ named.usageBasis = c.usageBasis
  BY DEF CandidateType
<1>2. /\ used.basis \in Int /\ used.points \in Nat /\ room \in Nat /\ rate \in Int
      /\ c.basis \in Int /\ c.points \in Nat /\ c.usageBasis \in Int
  BY DEF Uses, Larger, CandidateType
<1>3. d = IF l.maxPoints > 0 THEN WithinPoints(onBasis, l.maxPoints, used.points) ELSE onBasis
  BY DEF ApplyLimit
<1> HIDE DEF named, d
<1>4. /\ onBasis \in CandidateType /\ onBasis.limit = l.id
      /\ onBasis.rule = c.rule /\ onBasis.matched = c.matched /\ onBasis.raw = c.raw
      /\ onBasis.selected = c.selected
      /\ onBasis.basis <= c.basis /\ (c.basis >= 0 => onBasis.basis >= 0)
      /\ c.basis >= 0 /\ c.usageBasis >= 0 => onBasis.usageBasis >= 0
      /\ l.maxBasis > 0 => /\ onBasis.usageBasis = onBasis.basis /\ onBasis.basis <= room
                           /\ onBasis.usagePoints = onBasis.points
      /\ \/ onBasis.points <= c.points
         \/ l.maxBasis > 0 /\ onBasis.points <= PointsForBasis(c.basis, rate)
  <2>1. CASE l.maxBasis > 0
    <3>1. onBasis = WithinBasis(named, r, l.maxBasis, used.basis)
      BY <2>1
    <3> HIDE DEF onBasis
    <3>2. /\ onBasis \in CandidateType
          /\ onBasis.rule = named.rule /\ onBasis.matched = named.matched
          /\ onBasis.raw = named.raw /\ onBasis.selected = named.selected
          /\ onBasis.limit = named.limit
          /\ onBasis.usageBasis = onBasis.basis /\ onBasis.usagePoints = onBasis.points
          /\ onBasis.basis = IF named.basis > room THEN room ELSE named.basis
          /\ onBasis.points = IF named.basis > room THEN PointsForBasis(room, rate)
                              ELSE named.points
      BY <1>1, <1>2, <3>1, WithinBasisFields
    <3>3. room <= c.basis => PointsForBasis(room, rate) <= PointsForBasis(c.basis, rate)
      <4>1. room \in Int
        BY <1>2
      <4> HIDE DEF room, rate
      <4> QED BY <1>2, <4>1, PointsForBasisBounds
    <3> HIDE DEF room, rate
    <3> QED BY <1>1, <1>2, <2>1, <3>2, <3>3
  <2>2. CASE ~(l.maxBasis > 0)
    <3>1. onBasis = named
      BY <2>2
    <3> HIDE DEF onBasis
    <3> QED BY <1>1, <1>2, <2>2, <3>1
  <2> QED BY <2>1, <2>2
<1> HIDE DEF onBasis, room, rate
<1>5. onBasis.points \in Nat /\ onBasis.basis \in Int /\ onBasis.usageBasis \in Int
  BY <1>4 DEF CandidateType
<1>6. PointsForBasis(c.basis, rate) \in Nat
  BY <1>2, PointsForBasisBounds
<1> DEFINE facts(e) ==
               /\ e \in CandidateType
               /\ e.rule = c.rule /\ e.matched = c.matched /\ e.raw = c.raw
               /\ e.selected = c.selected /\ e.limit = l.id
               /\ e.basis <= c.basis /\ (c.basis >= 0 => e.basis >= 0)
               /\ c.basis >= 0 /\ c.usageBasis >= 0 => e.usageBasis >= 0
               /\ l.maxBasis > 0 => e.usageBasis = e.basis /\ e.basis <= room
               /\ l.maxPoints > 0 => e.points <= Larger(0, l.maxPoints - used.points)
               /\ l.maxBasis > 0 \/ l.maxPoints > 0 => e.usagePoints = e.points
               /\ \/ e.points <= c.points
                  \/ l.maxBasis > 0 /\ e.points <= PointsForBasis(c.basis, rate)
<1>7. CASE l.maxPoints > 0
  <2>1. /\ d \in CandidateType
        /\ d.rule = onBasis.rule /\ d.matched = onBasis.matched /\ d.raw = onBasis.raw
        /\ d.selected = onBasis.selected /\ d.limit = onBasis.limit
        /\ d.basis = onBasis.basis /\ d.usageBasis = onBasis.usageBasis
        /\ d.points = Smaller(onBasis.points, Larger(0, l.maxPoints - used.points))
        /\ d.usagePoints = d.points
    <3>1. d = WithinPoints(onBasis, l.maxPoints, used.points)
      BY <1>3, <1>7
    <3> QED BY <1>2, <1>4, <3>1, WithinPointsFields
  <2>2. d.points <= onBasis.points /\ d.points <= Larger(0, l.maxPoints - used.points)
        /\ d.points \in Int
    BY <1>2, <1>5, <2>1 DEF Smaller, Larger
  <2>3. facts(d)
    BY <1>2, <1>4, <1>5, <1>6, <2>1, <2>2
  <2> QED BY <2>3 DEF d, room, rate
<1>8. CASE ~(l.maxPoints > 0)
  <2>1. d = onBasis
    BY <1>3, <1>8
  <2>2. facts(d)
    BY <1>2, <1>4, <1>5, <1>8, <2>1
  <2> QED BY <2>2 DEF d, room, rate
<1> QED BY <1>7, <1>8

\* What the limits of a published graph are.
LEMMA GraphLimits ==
    ASSUME Published
    PROVE  /\ Len(graph.limits) \in Nat /\ DOMAIN graph.limits = 1..Len(graph.limits)
           /\ \A i \in 1..Len(graph.limits) :
                 LET l == graph.limits[i]
                 IN  /\ l \in ToSet(graph.limits) /\ l \in AllLimits
                     /\ l.maxPoints \in Int /\ l.maxBasis \in Int /\ l.id # NoLimit
           /\ \A l \in ToSet(graph.limits) : \E i \in 1..Len(graph.limits) : graph.limits[i] = l
           /\ \A l, m \in ToSet(graph.limits) : l.id = m.id => l = m
<1>1. graph \in Drafts /\ graph.limits \in Seq(ToSet(graph.limits))
  BY DraftAssumption DEF Published
<1>2. Len(graph.limits) \in Nat /\ DOMAIN graph.limits = 1..Len(graph.limits)
  BY <1>1
<1>3. \A i \in 1..Len(graph.limits) : graph.limits[i] \in ToSet(graph.limits)
  BY <1>2 DEF ToSet
<1>4. \A l \in ToSet(graph.limits) :
        /\ \E i \in 1..Len(graph.limits) : graph.limits[i] = l
        /\ l \in AllLimits /\ l.maxPoints \in Int /\ l.maxBasis \in Int /\ l.id # NoLimit
  <2>1. \A l \in ToSet(graph.limits) : \E i \in 1..Len(graph.limits) : graph.limits[i] = l
    BY <1>2 DEF ToSet
  <2>2. \A l \in ToSet(graph.limits) : l.maxPoints \in Int /\ l.maxBasis \in Int /\ l.id # NoLimit
    BY <1>1, DraftAssumption
  <2>3. \A l \in ToSet(graph.limits) : l \in AllLimits
    BY <1>1 DEF AllLimits
  <2> QED BY <2>1, <2>2, <2>3
<1>5. ASSUME NEW l \in ToSet(graph.limits), NEW m \in ToSet(graph.limits), l.id = m.id
      PROVE  l = m
  <2>1. PICK i \in DOMAIN graph.limits : graph.limits[i] = l
    BY DEF ToSet
  <2>2. PICK j \in DOMAIN graph.limits : graph.limits[j] = m
    BY DEF ToSet
  <2>3. i = j
    BY <1>1, <1>5, <2>1, <2>2, DraftAssumption
  <2> QED BY <2>1, <2>2, <2>3
<1> QED BY <1>2, <1>3, <1>4, <1>5

\* The usage read is that of a row.
LEMMA CurrentUsageType ==
    ASSUME UsageRows, NEW p \in Purchases, NEW l \in AllLimits
    PROVE  CurrentLimitUsage(l, p.time) \in Uses
<1>1. <<l.id, PeriodKey(l.period, p.time)>> \in UsageKeys
  BY DEF UsageKeys
<1> QED BY <1>1 DEF CurrentLimitUsage, UsageRows

\* The rules of a published graph.
LEMMA GraphRules ==
    ASSUME Published, NEW r \in graph.rules
    PROVE  /\ r.rate \in Int /\ r.points \in Int /\ r.priority \in Int
           /\ r.categories \in Seq(Category) /\ ValidRuleConfig(r)
           /\ r.id \in {s.id : s \in UNION {g.rules : g \in Drafts}}
           /\ \A s \in graph.rules : r.id = s.id => r = s
<1>1. graph \in Drafts /\ ValidRuleConfig(r)
  BY DEF Published, ValidateRuleGraphForPublish
<1>2. r \in UNION {g.rules : g \in Drafts}
  BY <1>1
<1>3. /\ r.rate \in Int /\ r.points \in Int /\ r.priority \in Int
      /\ r.categories \in Seq(Category)
  BY <1>1, DraftAssumption
<1>4. \A s \in graph.rules : r.id = s.id => r = s
  BY <1>1, DraftAssumption
<1> QED BY <1>1, <1>2, <1>3, <1>4

\* One limit leaves alone what only the rule decides.
LEMMA LimitedFields ==
    ASSUME Published, UsageRows, NEW p \in Purchases, NEW r \in graph.rules,
           NEW c \in CandidateType, NEW i \in 1..Len(graph.limits)
    PROVE  LET d == Limited(p, r, c, graph.limits[i])
           IN  /\ d \in CandidateType
               /\ d.rule = c.rule /\ d.matched = c.matched /\ d.raw = c.raw
               /\ d.selected = c.selected
               /\ d.basis <= c.basis /\ (c.basis >= 0 => d.basis >= 0)
               /\ c.basis >= 0 /\ c.usageBasis >= 0 => d.usageBasis >= 0
               /\ \/ d.points <= c.points
                  \/ /\ graph.limits[i].rule = r.id /\ graph.limits[i].maxBasis > 0
                     /\ d.points <= PointsForBasis(c.basis, IF r.rate = 0 THEN 1 ELSE r.rate)
<1> DEFINE l == graph.limits[i]
<1>1. /\ l \in AllLimits /\ l.maxPoints \in Int /\ l.maxBasis \in Int
      /\ CurrentLimitUsage(l, p.time) \in Uses
  BY GraphLimits, CurrentUsageType
<1>2. r.rate \in Int
  BY GraphRules
<1> HIDE DEF l
<1>3. CASE l.rule = r.id
  <2>1. Limited(p, r, c, l) = ApplyLimit(c, r, l, CurrentLimitUsage(l, p.time))
    BY <1>3 DEF Limited
  <2> QED BY <1>1, <1>2, <1>3, <2>1, ApplyLimitFields DEF l
<1>4. CASE l.rule # r.id
  <2>1. Limited(p, r, c, l) = c
    BY <1>4 DEF Limited
  <2>2. c.basis \in Int /\ c.points \in Nat
    BY DEF CandidateType
  <2> QED BY <2>1, <2>2 DEF l
<1> QED BY <1>3, <1>4

\* The limits of the graph apply one after another.
LEMMA LimitsRun ==
    ASSUME Published, UsageRows, NEW p \in Purchases, NEW r \in graph.rules,
           NEW base \in CandidateType
    PROVE  \E run \in [0..Len(graph.limits) -> CandidateType] :
              /\ run[0] = base
              /\ \A i \in 1..Len(graph.limits) : run[i] = Limited(p, r, run[i - 1], graph.limits[i])
              /\ FoldLeft(LAMBDA c, l : Limited(p, r, c, l), base, graph.limits)
                    = run[Len(graph.limits)]
<1> DEFINE n == Len(graph.limits)
           limits == graph.limits
           step == [i \in 1..n |-> [c \in CandidateType |-> Limited(p, r, c, limits[i])]]
           Fold(g) == g = [T \in SUBSET DOMAIN limits |->
                              IF T = {} THEN base
                              ELSE Limited(p, r, g[T \ {Max(T)}], limits[Max(T)])]
           iter == CHOOSE g : Fold(g)
<1>1. n \in Nat /\ DOMAIN limits = 1..n
  BY GraphLimits
<1>2. step \in [1..n -> [CandidateType -> CandidateType]]
  BY LimitedFields
<1>3. ASSUME NEW T \in SUBSET (1..n), T # {}, NEW c \in CandidateType
      PROVE  step[Max(T)][c] = Limited(p, r, c, limits[Max(T)])
  <2>1. Max(T) \in 1..n
    BY <1>1, <1>3, LastPosition
  <2> QED BY <2>1
<1> HIDE DEF step
<1>4. Fold(iter)
  <2>1. PICK g \in [SUBSET (1..n) -> CandidateType] : FoldsLeft(g, n, base, step)
    <3> HIDE DEF n
    <3> QED BY <1>1, <1>2, FoldLeftExists
  <2>2. Fold(g)
    <3> HIDE DEF n, limits
    <3> QED BY <1>1, <1>3, <2>1 DEF FoldsLeft
  <2> HIDE DEF Fold
  <2> QED BY <2>2
<1>5. FoldLeft(LAMBDA c, l : Limited(p, r, c, l), base, limits) = iter[DOMAIN limits]
  BY DEF FoldLeft, MapThenFoldSet
<1> HIDE DEF iter, n, limits
<1>6. FoldsWithin(iter, n, CandidateType, base, step)
  BY <1>1, <1>3, <1>4 DEF FoldsWithin
<1>7. PICK run \in [0..n -> CandidateType] :
        /\ run[0] = base /\ run[n] = iter[1..n]
        /\ \A i \in 1..n : run[i] = step[i][run[i - 1]]
  BY <1>1, <1>2, <1>6, RunOfFold
<1>8. \A i \in 1..n : run[i] = Limited(p, r, run[i - 1], limits[i])
  <2>1. \A i \in 1..n : run[i - 1] \in CandidateType
    BY <1>1, <1>7
  <2> QED BY <1>7, <2>1 DEF step
<1> QED BY <1>1, <1>5, <1>7, <1>8 DEF n, limits

\* A rule that does not match is worth nothing.
LEMMA UnmatchedFields ==
    ASSUME Published, NEW r \in graph.rules
    PROVE  /\ Unmatched(r) \in CandidateType
           /\ Unmatched(r).rule = r.id /\ ~Unmatched(r).selected /\ ~Unmatched(r).matched
           /\ Unmatched(r).points = 0 /\ Unmatched(r).raw = 0
           /\ Unmatched(r).basis = 0 /\ Unmatched(r).usageBasis = 0
BY GraphRules DEF Unmatched, CandidateType

\* What a valid rule is worth before its limits is a number.
LEMMA RawPointsType ==
    ASSUME Published, NEW r \in graph.rules, NEW basis \in Int
    PROVE  RawPoints(r, basis) \in Nat
<1>1. r.rate \in Int /\ r.points \in Int /\ ValidRuleConfig(r)
  BY GraphRules
<1>2. PointsForBasis(basis, r.rate) \in Nat
  BY <1>1, PointsForBasisBounds
<1> QED BY <1>1, <1>2 DEF RawPoints, ValidRuleConfig

\* A candidate before its limits.
LEMMA MatchedFields ==
    ASSUME Published, NEW r \in graph.rules, NEW basis \in Int
    PROVE  LET c == Matched(r, basis)
           IN  /\ c \in CandidateType
               /\ c.rule = r.id /\ ~c.selected /\ c.matched /\ c.limit = NoLimit
               /\ c.basis = basis /\ c.raw = RawPoints(r, basis) /\ c.points = c.raw
               /\ c.usagePoints = 0 /\ c.usageBasis = 0
<1>1. RawPoints(r, basis) \in Nat
  BY RawPointsType
<1>2. Matched(r, basis) = [Unmatched(r) EXCEPT
        !.matched = TRUE, !.basis = basis, !.raw = RawPoints(r, basis),
        !.points = RawPoints(r, basis)]
  BY DEF Matched
<1>3. /\ Unmatched(r) \in CandidateType /\ Unmatched(r).rule = r.id
      /\ ~Unmatched(r).selected
  BY UnmatchedFields
<1>4. Matched(r, basis) \in CandidateType
  BY <1>1, <1>2, <1>3 DEF CandidateType
<1>5. /\ Unmatched(r).limit = NoLimit /\ Unmatched(r).usagePoints = 0
      /\ Unmatched(r).usageBasis = 0
  BY DEF Unmatched
<1> QED BY <1>1, <1>2, <1>3, <1>4, <1>5 DEF CandidateType

\* A rate that limits of the basis may cut is worth less for less.
LEMMA CutIsNotMore ==
    ASSUME Published, BasisLimitsOnRates, NEW r \in graph.rules, NEW basis \in Int,
           NEW less \in Int, less <= basis,
           NEW i \in 1..Len(graph.limits), graph.limits[i].rule = r.id, graph.limits[i].maxBasis > 0
    PROVE  PointsForBasis(less, IF r.rate = 0 THEN 1 ELSE r.rate) <= RawPoints(r, basis)
<1>1. r.type = "points_per_dollar"
  <2>1. graph.limits[i] \in ToSet(graph.limits)
    BY GraphLimits
  <2> QED BY <2>1 DEF BasisLimitsOnRates, Published
<1>2. r.rate \in Int /\ r.rate > 0
  BY <1>1, GraphRules DEF ValidRuleConfig
<1>3. PointsForBasis(less, r.rate) <= PointsForBasis(basis, r.rate)
  BY <1>2, PointsForBasisBounds
<1> QED BY <1>1, <1>2, <1>3 DEF RawPoints

\* A rule's candidate, if it matches, is the matched one after its limits.
LEMMA RuleCandidateFields ==
    ASSUME Published, UsageRows, NEW p \in Purchases, NEW r \in graph.rules, NEW basis \in Int
    PROVE  LET c == EvaluateRuleCandidate(p, r, basis)
           IN  /\ c \in CandidateType
               /\ c.rule = r.id /\ ~c.selected
               /\ c.matched => c.basis <= basis
               /\ basis >= 0 => c.basis >= 0 /\ c.usageBasis >= 0
               /\ BasisLimitsOnRates => c.points <= c.raw
               /\ ~c.matched => c = Unmatched(r)
<1>1. CASE ~EligibleForRule(p, r)
  <2>1. EvaluateRuleCandidate(p, r, basis) = Unmatched(r)
    BY <1>1 DEF EvaluateRuleCandidate
  <2> QED BY <2>1, UnmatchedFields
<1>2. CASE EligibleForRule(p, r)
  <2> DEFINE n == Len(graph.limits)
  <2>1. Matched(r, basis) \in CandidateType
    BY MatchedFields
  <2>2. PICK run \in [0..n -> CandidateType] :
          /\ run[0] = Matched(r, basis)
          /\ \A i \in 1..n : run[i] = Limited(p, r, run[i - 1], graph.limits[i])
          /\ FoldLeft(LAMBDA c, l : Limited(p, r, c, l), Matched(r, basis), graph.limits) = run[n]
    BY <2>1, LimitsRun
  <2>3. EvaluateRuleCandidate(p, r, basis) = run[n]
    BY <1>2, <2>2 DEF EvaluateRuleCandidate
  <2> DEFINE Fits(c) == /\ c.rule = r.id /\ ~c.selected /\ c.matched
                        /\ c.raw = RawPoints(r, basis)
                        /\ c.basis <= basis
                        /\ basis >= 0 => c.basis >= 0 /\ c.usageBasis >= 0
                        /\ BasisLimitsOnRates => c.points <= c.raw
             G == {i \in 0..n : Fits(run[i])}
  <2>4. n \in Nat
    BY GraphLimits
  <2>5. 0 \in G
    <3>1. Fits(Matched(r, basis))
      <4>1. RawPoints(r, basis) \in Nat
        BY RawPointsType
      <4> QED BY <4>1, MatchedFields
    <3>2. 0 \in 0..n
      BY <2>4
    <3> HIDE DEF Fits, n
    <3> QED BY <2>2, <3>1, <3>2
  <2>6. ASSUME NEW i \in 1..n, i - 1 \in G PROVE i \in G
    <3> DEFINE before == run[i - 1]
               after == run[i]
    <3>1. i \in 0..n /\ Fits(before)
      BY <2>4, <2>6
    <3>2. before \in CandidateType /\ after = Limited(p, r, before, graph.limits[i])
      <4>1. i - 1 \in 0..n
        BY <2>4
      <4> QED BY <2>2, <4>1
    <3> HIDE DEF before, after
    <3>3. /\ after \in CandidateType
          /\ after.rule = before.rule /\ after.matched = before.matched
          /\ after.raw = before.raw /\ after.selected = before.selected
          /\ after.basis <= before.basis /\ (before.basis >= 0 => after.basis >= 0)
          /\ before.basis >= 0 /\ before.usageBasis >= 0 => after.usageBasis >= 0
          /\ \/ after.points <= before.points
             \/ /\ graph.limits[i].rule = r.id /\ graph.limits[i].maxBasis > 0
                /\ after.points <= PointsForBasis(before.basis, IF r.rate = 0 THEN 1 ELSE r.rate)
      BY <3>2, LimitedFields
    <3>4. /\ after.basis \in Int /\ before.basis \in Int /\ after.points \in Nat
          /\ before.points \in Nat /\ before.raw \in Nat
      BY <3>2, <3>3 DEF CandidateType
    <3>5. ASSUME BasisLimitsOnRates PROVE after.points <= after.raw
      <4>1. CASE after.points <= before.points
        BY <3>1, <3>3, <3>4, <3>5, <4>1
      <4>2. CASE ~(after.points <= before.points)
        <5> DEFINE bound == PointsForBasis(before.basis, IF r.rate = 0 THEN 1 ELSE r.rate)
        <5>1. bound <= RawPoints(r, basis)
          BY <3>1, <3>3, <3>4, <3>5, <4>2, CutIsNotMore
        <5>2. bound \in Nat /\ RawPoints(r, basis) \in Nat
          <6>1. (IF r.rate = 0 THEN 1 ELSE r.rate) \in Int
            BY GraphRules
          <6>2. bound \in Nat
            BY <3>4, <6>1, PointsForBasisBounds
          <6> QED BY <6>2, RawPointsType
        <5>3. after.points <= bound
          BY <3>3, <4>2
        <5> HIDE DEF bound
        <5> QED BY <3>1, <3>3, <3>4, <5>1, <5>2, <5>3
      <4> QED BY <4>1, <4>2
    <3>6. Fits(after)
      BY <3>1, <3>3, <3>4, <3>5
    <3> QED BY <3>1, <3>6 DEF after
  <2>7. \A i \in 0..n : i \in G
    <3> HIDE DEF G, n
    <3> QED BY <2>4, <2>5, <2>6, CountingInduction
  <2>8. Fits(run[n]) /\ run[n] \in CandidateType
    BY <2>4, <2>7
  <2> QED BY <2>3, <2>8
<1> QED BY <1>1, <1>2

-----------------------------------------------------------------------------
(* Bases.                                                                  *)

\* A sum of integers over a finite domain is an integer.
LEMMA SumType ==
    ASSUME NEW f, IsFiniteSet(DOMAIN f), \A x \in DOMAIN f : f[x] \in Int
    PROVE  SumFunction(f) = Total(f, DOMAIN f) /\ SumFunction(f) \in Int
<1>1. SumFunction(f) = Total(f, DOMAIN f)
  BY DEF SumFunction, Total
<1>2. Summable(f, DOMAIN f)
  BY DEF Summable
<1> QED BY <1>1, <1>2, TotalWithout

\* A sum of natural numbers over a finite domain is one.
LEMMA SumNat ==
    ASSUME NEW f, IsFiniteSet(DOMAIN f), \A x \in DOMAIN f : f[x] \in Nat
    PROVE  SumFunction(f) \in Nat
<1>1. SumFunction(f) = Total(f, DOMAIN f)
  BY SumType
<1> QED BY <1>1, TotalNat

\* The basis of line items, negative only if an amount is.
LEMMA LinesBasisType ==
    ASSUME NEW p \in Purchases, NEW categories, NEW basis
    PROVE  /\ LinesBasis(p, categories, basis) \in Int
           /\ AmountsNotNegative => LinesBasis(p, categories, basis) \in Nat
<1> DEFINE f == [c \in DOMAIN p.lines \cap categories |-> LineBasis(p.lines[c], basis)]
<1>1. IsFiniteSet(DOMAIN p.lines \cap categories)
  <2>1. DOMAIN p.lines \cap categories \in SUBSET Category
    BY PurchaseAssumption
  <2> QED BY <2>1, CategoryAssumption, FS_Subset
<1>2. \A c \in DOMAIN p.lines : LineBasis(p.lines[c], basis) \in Int
  BY PurchaseAssumption DEF LineBasis
<1>3. DOMAIN f = DOMAIN p.lines \cap categories /\ \A c \in DOMAIN f : f[c] \in Int
  BY <1>2
<1>4. ASSUME AmountsNotNegative PROVE \A c \in DOMAIN f : f[c] \in Nat
  BY <1>3, <1>4, PurchaseAssumption DEF AmountsNotNegative, LineBasis
<1>5. LinesBasis(p, categories, basis) = SumFunction(f)
  BY DEF LinesBasis
<1> HIDE DEF f
<1> QED BY <1>1, <1>3, <1>4, <1>5, SumType, SumNat

\* The basis of a rule, negative only if an amount is.
LEMMA BasisForRuleType ==
    ASSUME NEW p \in Purchases, NEW r
    PROVE  BasisForRule(p, r) \in Int /\ (AmountsNotNegative => BasisForRule(p, r) >= 0)
<1>1. \A categories, basis :
        /\ LinesBasis(p, categories, basis) \in Int
        /\ AmountsNotNegative => LinesBasis(p, categories, basis) >= 0
  <2> SUFFICES ASSUME NEW categories, NEW basis
               PROVE  /\ LinesBasis(p, categories, basis) \in Int
                      /\ AmountsNotNegative => LinesBasis(p, categories, basis) >= 0
    OBVIOUS
  <2>1. /\ LinesBasis(p, categories, basis) \in Int
        /\ AmountsNotNegative => LinesBasis(p, categories, basis) \in Nat
    BY LinesBasisType
  <2> QED BY <2>1
<1>2. /\ p.total \in Int /\ p.eligible \in Int
      /\ AmountsNotNegative => p.total >= 0 /\ p.eligible >= 0
  BY PurchaseAssumption DEF AmountsNotNegative
<1> QED BY <1>1, <1>2 DEF BasisForRule

\* The basis that a waterfall leaves to a rule.
LEMMA WaterfallBasisType ==
    ASSUME Published, NEW r \in graph.rules, NEW remaining \in [Category -> Int]
    PROVE  /\ WaterfallBasis(r, remaining) \in Int
           /\ remaining \in [Category -> Nat] => WaterfallBasis(r, remaining) >= 0
<1> DEFINE f == [i \in DOMAIN r.categories |-> remaining[r.categories[i]]]
<1>1. r.categories \in Seq(Category)
  BY GraphRules
<1>2. IsFiniteSet(DOMAIN f) /\ \A i \in DOMAIN f : f[i] \in Int
  <2>1. DOMAIN f = 1..Len(r.categories) /\ Len(r.categories) \in Nat
    BY <1>1
  <2>2. IsFiniteSet(1..Len(r.categories))
    BY <2>1, FS_Interval
  <2>3. \A i \in DOMAIN r.categories : r.categories[i] \in Category
    BY <1>1
  <2> QED BY <2>1, <2>2, <2>3
<1>3. IsFiniteSet(DOMAIN remaining) /\ \A c \in DOMAIN remaining : remaining[c] \in Int
  BY CategoryAssumption
<1>4. SumFunction(f) \in Int /\ SumFunction(remaining) \in Int
  <2> HIDE DEF f
  <2> QED BY <1>2, <1>3, SumType
<1>5. ASSUME remaining \in [Category -> Nat]
      PROVE  SumFunction(f) \in Nat /\ SumFunction(remaining) \in Nat
  <2>1. \A i \in DOMAIN f : f[i] \in Nat
    BY <1>1, <1>5
  <2>2. \A c \in DOMAIN remaining : remaining[c] \in Nat
    BY <1>5
  <2> HIDE DEF f
  <2> QED BY <1>2, <1>3, <2>1, <2>2, SumNat
<1>6. remaining \in [Category -> Nat] => SumFunction(f) >= 0 /\ SumFunction(remaining) >= 0
  <2> HIDE DEF f
  <2> QED BY <1>5
<1> QED BY <1>4, <1>6 DEF WaterfallBasis

\* What is left in each category, and of the amount to be taken from them.
Lefts == [remaining : [Category -> Int], amount : Int]

\* What pays for a rule is a sequence of categories.
LEMMA PayersAreCategories ==
    ASSUME Published, NEW r \in graph.rules
    PROVE  /\ Payers(r) \in Seq(Category) /\ Len(Payers(r)) \in Nat
           /\ DOMAIN Payers(r) = 1..Len(Payers(r))
           /\ \A i \in 1..Len(Payers(r)) : Payers(r)[i] \in Category
<1>1. Payers(r) \in Seq(Category)
  BY GraphRules, CategoryAssumption DEF Payers
<1> QED BY <1>1

\* A category that pays leaves amounts.
LEMMA ConsumeType ==
    ASSUME NEW left \in Lefts, NEW c \in Category
    PROVE  Consume(left, c) \in Lefts
BY DEF Consume, Lefts, Smaller

\* The categories that pay for a rule do so one after another.
LEMMA ConsumeRun ==
    ASSUME Published, NEW r \in graph.rules, NEW remaining \in [Category -> Int], NEW amount \in Int
    PROVE  \E run \in [0..Len(Payers(r)) -> Lefts] :
              /\ run[0] = [remaining |-> remaining, amount |-> amount]
              /\ \A i \in 1..Len(Payers(r)) : run[i] = Consume(run[i - 1], Payers(r)[i])
              /\ ConsumeWaterfallBasis(r, remaining, amount) = run[Len(Payers(r))].remaining
<1> DEFINE payers == Payers(r)
           n == Len(payers)
           base == [remaining |-> remaining, amount |-> amount]
           step == [i \in 1..n |-> [left \in Lefts |-> Consume(left, payers[i])]]
           Fold(g) == g = [T \in SUBSET DOMAIN payers |->
                              IF T = {} THEN base
                              ELSE Consume(g[T \ {Max(T)}], payers[Max(T)])]
           iter == CHOOSE g : Fold(g)
<1>1. n \in Nat /\ DOMAIN payers = 1..n
  BY PayersAreCategories
<1>2. step \in [1..n -> [Lefts -> Lefts]]
  BY ConsumeType, PayersAreCategories
<1>3. ASSUME NEW T \in SUBSET (1..n), T # {}, NEW left \in Lefts
      PROVE  step[Max(T)][left] = Consume(left, payers[Max(T)])
  <2>1. Max(T) \in 1..n
    BY <1>1, <1>3, LastPosition
  <2> QED BY <2>1
<1>4. base \in Lefts
  BY DEF Lefts
<1> HIDE DEF step, base
<1>5. Fold(iter)
  <2>1. PICK g \in [SUBSET (1..n) -> Lefts] : FoldsLeft(g, n, base, step)
    <3> HIDE DEF n
    <3> QED BY <1>1, <1>2, <1>4, FoldLeftExists
  <2>2. Fold(g)
    <3> HIDE DEF n, payers
    <3> QED BY <1>1, <1>3, <2>1 DEF FoldsLeft
  <2> HIDE DEF Fold
  <2> QED BY <2>2
<1>6. ConsumeWaterfallBasis(r, remaining, amount) = iter[DOMAIN payers].remaining
  BY DEF ConsumeWaterfallBasis, FoldLeft, MapThenFoldSet, base
<1> HIDE DEF iter, n, payers
<1>7. FoldsWithin(iter, n, Lefts, base, step)
  BY <1>1, <1>3, <1>5 DEF FoldsWithin
<1>8. PICK run \in [0..n -> Lefts] :
        /\ run[0] = base /\ run[n] = iter[1..n]
        /\ \A i \in 1..n : run[i] = step[i][run[i - 1]]
  BY <1>1, <1>2, <1>4, <1>7, RunOfFold
<1>9. \A i \in 1..n : run[i] = Consume(run[i - 1], payers[i])
  <2>1. \A i \in 1..n : run[i - 1] \in Lefts
    BY <1>1, <1>8
  <2> QED BY <1>8, <2>1 DEF step
<1> QED BY <1>1, <1>6, <1>8, <1>9 DEF n, payers, base

\* What remains after paying for a rule.
LEMMA ConsumeWaterfallBasisType ==
    ASSUME Published, NEW r \in graph.rules, NEW remaining \in [Category -> Int], NEW amount \in Int
    PROVE  ConsumeWaterfallBasis(r, remaining, amount) \in [Category -> Int]
<1>1. Len(Payers(r)) \in Nat
  BY PayersAreCategories
<1>2. PICK run \in [0..Len(Payers(r)) -> Lefts] :
        /\ run[0] = [remaining |-> remaining, amount |-> amount]
        /\ \A i \in 1..Len(Payers(r)) : run[i] = Consume(run[i - 1], Payers(r)[i])
        /\ ConsumeWaterfallBasis(r, remaining, amount) = run[Len(Payers(r))].remaining
  BY ConsumeRun
<1>3. run[Len(Payers(r))] \in Lefts
  BY <1>1, <1>2
<1> QED BY <1>2, <1>3 DEF Lefts

\* No more is taken from a category than it has.
LEMMA ConsumeKeepsNat ==
    ASSUME Published, NEW r \in graph.rules, NEW remaining \in [Category -> Nat], NEW amount \in Int
    PROVE  ConsumeWaterfallBasis(r, remaining, amount) \in [Category -> Nat]
<1> DEFINE n == Len(Payers(r))
<1>1. n \in Nat /\ \A i \in 1..n : Payers(r)[i] \in Category
  BY PayersAreCategories
<1>2. remaining \in [Category -> Int]
  OBVIOUS
<1>3. PICK run \in [0..Len(Payers(r)) -> Lefts] :
        /\ run[0] = [remaining |-> remaining, amount |-> amount]
        /\ \A i \in 1..Len(Payers(r)) : run[i] = Consume(run[i - 1], Payers(r)[i])
        /\ ConsumeWaterfallBasis(r, remaining, amount) = run[Len(Payers(r))].remaining
  BY <1>2, ConsumeRun
<1> DEFINE G == {i \in 0..n : run[i].remaining \in [Category -> Nat]}
<1>4. 0 \in G
  BY <1>1, <1>3
<1>5. ASSUME NEW i \in 1..n, i - 1 \in G PROVE i \in G
  <2> DEFINE before == run[i - 1]
             c == Payers(r)[i]
  <2>1. i \in 0..n /\ i - 1 \in 0..n /\ before.remaining \in [Category -> Nat]
    BY <1>1, <1>5
  <2>2. before \in Lefts /\ run[i] = Consume(before, c) /\ c \in Category
    BY <1>1, <1>3, <2>1
  <2> HIDE DEF before, c
  <2>3. Consume(before, c).remaining \in [Category -> Nat]
    BY <2>1, <2>2 DEF Consume, Lefts, Smaller
  <2> QED BY <2>1, <2>2, <2>3
<1>6. n \in G
  <2>1. \A i \in 0..n : i \in G
    <3> HIDE DEF G, n
    <3> QED BY <1>1, <1>4, <1>5, CountingInduction
  <2>2. n \in 0..n
    BY <1>1
  <2> QED BY <2>1, <2>2
<1> QED BY <1>3, <1>6

-----------------------------------------------------------------------------
(* A group of rules.                                                       *)

\* The candidates so far, and the basis that is left.
Dones == [candidates : Seq(CandidateType), remaining : [Category -> Int]]

\* An order of a group's rules has each of them once, by priority.
LEMMA OrderOfRules ==
    ASSUME Published, NEW group, NEW order \in Orders(group)
    PROVE  /\ Len(order) \in Nat /\ DOMAIN order = 1..Len(order)
           /\ \A i \in 1..Len(order) :
                 order[i] \in RulesOf(graph, group) /\ order[i] \in graph.rules
           /\ \A r \in RulesOf(graph, group) : \E i \in 1..Len(order) : order[i] = r
           /\ \A i, j \in 1..Len(order) : order[i].id = order[j].id => i = j
           /\ \A i, j \in 1..Len(order) : i < j => order[i].priority <= order[j].priority
<1> DEFINE rules == RulesOf(graph, group)
           n == Cardinality(rules)
<1>1. rules \subseteq graph.rules /\ IsFiniteSet(rules)
  <2>1. IsFiniteSet(graph.rules)
    BY DraftAssumption DEF Published
  <2>2. rules \subseteq graph.rules
    BY DEF RulesOf
  <2> QED BY <2>1, <2>2, FS_Subset
<1>2. n \in Nat
  BY <1>1, FS_CardinalityType
<1>3. /\ order \in [1..n -> rules]
      /\ \A i, j \in 1..n : i # j => order[i] # order[j]
      /\ \A i, j \in DOMAIN order : i < j => order[i].priority <= order[j].priority
  BY DEF Orders, SetToSeqs
<1>4. DOMAIN order = 1..n /\ Len(order) = n
  BY <1>2, <1>3
<1> HIDE DEF n, rules
<1>5. order \in Injection(1..n, rules)
  BY <1>3 DEF Injection, IsInjective
<1>6. Cardinality(1..n) = Cardinality(rules)
  <2>1. Cardinality(1..n) = n
    BY <1>2, FS_Interval
  <2> QED BY <2>1 DEF n
<1>7. order \in Surjection(1..n, rules)
  BY <1>1, <1>5, <1>6, FS_Injection
<1>8. \A r \in rules : \E i \in 1..n : order[i] = r
  BY <1>7 DEF Surjection
<1>9. \A i, j \in 1..n : order[i].id = order[j].id => i = j
  BY <1>1, <1>3, GraphRules
<1> QED BY <1>1, <1>2, <1>3, <1>4, <1>8, <1>9 DEF rules

\* What the evaluation of a rule makes of its candidate.
LEMMA EvaluateFields ==
    ASSUME Published, UsageRows, NEW p \in Purchases, NEW group, NEW done \in Dones,
           NEW r \in graph.rules
    PROVE  LET c == Evaluate(p, group, done, r)
               basis == IF group.strategy = "waterfall" THEN WaterfallBasis(r, done.remaining)
                        ELSE BasisForRule(p, r)
           IN  /\ c \in CandidateType /\ c.rule = r.id
               /\ c.selected <=> group.strategy # "max_of" /\ c.points # 0
               /\ c.matched => DependenciesSatisfied(r, done.candidates) /\ c.basis <= basis
               /\ basis >= 0 => c.basis >= 0 /\ c.usageBasis >= 0
               /\ BasisLimitsOnRates => c.points <= c.raw
               /\ ~c.matched => c = Unmatched(r)
<1> DEFINE c == Evaluate(p, group, done, r)
           basis == IF group.strategy = "waterfall" THEN WaterfallBasis(r, done.remaining)
                    ELSE BasisForRule(p, r)
           plain == IF DependenciesSatisfied(r, done.candidates)
                    THEN EvaluateRuleCandidate(p, r, basis) ELSE Unmatched(r)
           awarded == group.strategy # "max_of" /\ plain.points # 0
<1>1. c = [plain EXCEPT !.selected = awarded]
  BY DEF Evaluate
<1>2. basis \in Int
  <2>1. done.remaining \in [Category -> Int]
    BY DEF Dones
  <2> QED BY <2>1, WaterfallBasisType, BasisForRuleType
<1> HIDE DEF basis
<1>3. /\ plain \in CandidateType /\ plain.rule = r.id /\ ~plain.selected
      /\ plain.matched => DependenciesSatisfied(r, done.candidates) /\ plain.basis <= basis
      /\ basis >= 0 => plain.basis >= 0 /\ plain.usageBasis >= 0
      /\ BasisLimitsOnRates => plain.points <= plain.raw
      /\ ~plain.matched => plain = Unmatched(r)
  <2>1. CASE DependenciesSatisfied(r, done.candidates)
    <3>1. plain = EvaluateRuleCandidate(p, r, basis)
      BY <2>1
    <3> HIDE DEF plain
    <3> QED BY <1>2, <2>1, <3>1, RuleCandidateFields
  <2>2. CASE ~DependenciesSatisfied(r, done.candidates)
    <3>1. plain = Unmatched(r)
      BY <2>2
    <3> HIDE DEF plain
    <3> QED BY <3>1, UnmatchedFields
  <2> QED BY <2>1, <2>2
<1>4. awarded \in BOOLEAN
  OBVIOUS
<1> HIDE DEF c, plain
<1>5. /\ c \in CandidateType /\ c.rule = plain.rule /\ c.matched = plain.matched
      /\ c.basis = plain.basis /\ c.points = plain.points /\ c.raw = plain.raw
      /\ c.usageBasis = plain.usageBasis /\ c.selected = awarded
  <2> HIDE DEF awarded
  <2> QED BY <1>1, <1>3, <1>4 DEF CandidateType
<1>6. ASSUME ~c.matched PROVE c = Unmatched(r)
  <2>1. plain = Unmatched(r) /\ Unmatched(r).points = 0
    BY <1>3, <1>5, <1>6, UnmatchedFields
  <2>2. awarded = FALSE
    BY <2>1
  <2> HIDE DEF awarded
  <2> QED BY <1>1, <2>1, <2>2 DEF Unmatched
<1> QED BY <1>3, <1>5, <1>6 DEF c, basis

\* Evaluating a rule keeps the types of what is done.
LEMMA EvaluateNextType ==
    ASSUME Published, UsageRows, NEW p \in Purchases, NEW group, NEW done \in Dones,
           NEW r \in graph.rules
    PROVE  EvaluateNext(p, group, done, r) \in Dones
<1> DEFINE c == Evaluate(p, group, done, r)
           remaining == IF group.strategy = "waterfall" /\ c.selected
                        THEN ConsumeWaterfallBasis(r, done.remaining, c.basis)
                        ELSE done.remaining
<1>1. c \in CandidateType
  BY EvaluateFields
<1>2. done.candidates \in Seq(CandidateType) /\ done.remaining \in [Category -> Int]
  BY DEF Dones
<1>3. c.basis \in Int
  BY <1>1 DEF CandidateType
<1> HIDE DEF c
<1>4. remaining \in [Category -> Int]
  BY <1>2, <1>3, ConsumeWaterfallBasisType
<1>5. Append(done.candidates, c) \in Seq(CandidateType)
  BY <1>1, <1>2
<1>6. EvaluateNext(p, group, done, r)
        = [candidates |-> Append(done.candidates, c), remaining |-> remaining]
  BY DEF EvaluateNext, c
<1> HIDE DEF remaining
<1> QED BY <1>4, <1>5, <1>6 DEF Dones

\* The rules are evaluated in this order, with these candidates after each.
Evaluated(p, group, order, run) ==
    /\ run \in [0..Len(order) -> Dones]
    /\ run[0] = [candidates |-> <<>>, remaining |-> BasisByCategory(p)]
    /\ \A i \in 1..Len(order) : run[i] = EvaluateNext(p, group, run[i - 1], order[i])

\* A group is evaluated rule by rule, and max_of then selects.
LEMMA EvaluationRun ==
    ASSUME Published, UsageRows, NEW p \in Purchases, NEW group, NEW order \in Orders(group)
    PROVE  \E run : /\ Evaluated(p, group, order, run)
                    /\ EvaluateGroup(p, group, order)
                          = IF group.strategy = "max_of"
                            THEN SelectHighest(run[Len(order)].candidates)
                            ELSE run[Len(order)].candidates
<1> DEFINE n == Len(order)
           base == [candidates |-> <<>>, remaining |-> BasisByCategory(p)]
           step == [i \in 1..n |-> [done \in Dones |-> EvaluateNext(p, group, done, order[i])]]
           Fold(g) == g = [T \in SUBSET DOMAIN order |->
                              IF T = {} THEN base
                              ELSE EvaluateNext(p, group, g[T \ {Max(T)}], order[Max(T)])]
           iter == CHOOSE g : Fold(g)
<1>1. n \in Nat /\ DOMAIN order = 1..n /\ \A i \in 1..n : order[i] \in graph.rules
  BY OrderOfRules
<1>2. step \in [1..n -> [Dones -> Dones]]
  BY <1>1, EvaluateNextType
<1>3. ASSUME NEW T \in SUBSET (1..n), T # {}, NEW done \in Dones
      PROVE  step[Max(T)][done] = EvaluateNext(p, group, done, order[Max(T)])
  <2>1. Max(T) \in 1..n
    BY <1>1, <1>3, LastPosition
  <2> QED BY <2>1
<1>4. base \in Dones
  <2>1. BasisByCategory(p) \in [Category -> Int]
    BY PurchaseAssumption DEF BasisByCategory
  <2>2. <<>> \in Seq(CandidateType)
    OBVIOUS
  <2> QED BY <2>1, <2>2 DEF Dones
<1> HIDE DEF step, base
<1>5. Fold(iter)
  <2>1. PICK g \in [SUBSET (1..n) -> Dones] : FoldsLeft(g, n, base, step)
    <3> HIDE DEF n
    <3> QED BY <1>1, <1>2, <1>4, FoldLeftExists
  <2>2. Fold(g)
    <3> HIDE DEF n
    <3> QED BY <1>1, <1>3, <2>1 DEF FoldsLeft
  <2> HIDE DEF Fold
  <2> QED BY <2>2
<1>6. EvaluateGroup(p, group, order)
        = IF group.strategy = "max_of" THEN SelectHighest(iter[DOMAIN order].candidates)
          ELSE iter[DOMAIN order].candidates
  BY DEF EvaluateGroup, FoldLeft, MapThenFoldSet, base
<1> HIDE DEF iter, n
<1>7. FoldsWithin(iter, n, Dones, base, step)
  BY <1>1, <1>3, <1>5 DEF FoldsWithin
<1>8. PICK run \in [0..n -> Dones] :
        /\ run[0] = base /\ run[n] = iter[1..n]
        /\ \A i \in 1..n : run[i] = step[i][run[i - 1]]
  <2>1. n \in Nat
    BY <1>1
  <2> HIDE DEF Fold
  <2> QED BY <1>2, <1>4, <1>7, <2>1, RunOfFold, SMTT(30)
<1>9. \A i \in 1..n : run[i] = EvaluateNext(p, group, run[i - 1], order[i])
  <2>1. \A i \in 1..n : run[i - 1] \in Dones
    BY <1>1, <1>8
  <2> QED BY <1>8, <2>1 DEF step
<1>10. Evaluated(p, group, order, run)
  BY <1>8, <1>9 DEF Evaluated, n, base
<1> QED BY <1>1, <1>6, <1>8, <1>10 DEF n

\* The candidates after each rule are those of the rules evaluated by then.
LEMMA EvaluationSteps ==
    ASSUME Published, UsageRows, NEW p \in Purchases, NEW group, NEW order \in Orders(group),
           NEW run, Evaluated(p, group, order, run)
    PROVE  \A i \in 0..Len(order) :
              /\ run[i] \in Dones /\ Len(run[i].candidates) = i
              /\ DOMAIN run[i].candidates = 1..i
              /\ \A j \in 1..i :
                    run[i].candidates[j] = Evaluate(p, group, run[j - 1], order[j])
<1> DEFINE n == Len(order)
           Upto(i) == /\ Len(run[i].candidates) = i
                      /\ \A j \in 1..i :
                            run[i].candidates[j] = Evaluate(p, group, run[j - 1], order[j])
           G == {i \in 0..n : Upto(i)}
<1>1. n \in Nat
  BY OrderOfRules
<1>2. \A i \in 0..n : run[i] \in Dones
  BY DEF Evaluated
<1>3. 0 \in G
  <2>1. run[0].candidates = <<>>
    BY DEF Evaluated
  <2> QED BY <1>1, <2>1
<1>4. ASSUME NEW i \in 1..n, i - 1 \in G PROVE i \in G
  <2> DEFINE before == run[i - 1].candidates
             c == Evaluate(p, group, run[i - 1], order[i])
  <2>1. i \in 0..n /\ i - 1 \in 0..n /\ Upto(i - 1)
    BY <1>1, <1>4
  <2>2. before \in Seq(CandidateType) /\ Len(before) = i - 1
    BY <1>2, <2>1 DEF Dones
  <2>3. run[i].candidates = Append(before, c)
    <3>1. run[i] = EvaluateNext(p, group, run[i - 1], order[i])
      BY DEF Evaluated
    <3> QED BY <3>1 DEF EvaluateNext
  <2>4. \A j \in 1..(i - 1) : before[j] = Evaluate(p, group, run[j - 1], order[j])
    BY <2>1
  <2> HIDE DEF before, c
  <2>5. /\ Len(run[i].candidates) = i /\ run[i].candidates[i] = c
        /\ \A j \in 1..(i - 1) : run[i].candidates[j] = before[j]
    BY <2>2, <2>3
  <2>6. Upto(i)
    <3>1. ASSUME NEW j \in 1..i
          PROVE  run[i].candidates[j] = Evaluate(p, group, run[j - 1], order[j])
      <4>1. CASE j = i
        BY <2>5, <4>1 DEF c
      <4>2. CASE j # i
        <5>1. j \in 1..(i - 1)
          BY <4>2
        <5> QED BY <2>4, <2>5, <5>1
      <4> QED BY <4>1, <4>2
    <3> QED BY <2>5, <3>1
  <2> HIDE DEF Upto
  <2> QED BY <2>1, <2>6
<1>5. \A i \in 0..n : i \in G
  <2> HIDE DEF G, n
  <2> QED BY <1>1, <1>3, <1>4, CountingInduction
<1>6. \A i \in 0..n : DOMAIN run[i].candidates = 1..Len(run[i].candidates)
  BY <1>2 DEF Dones
<1> QED BY <1>2, <1>5, <1>6

\* What is left of a purchase without negative amounts is never negative.
LEMMA RemainingNat ==
    ASSUME Published, UsageRows, AmountsNotNegative, NEW p \in Purchases, NEW group,
           NEW order \in Orders(group), NEW run, Evaluated(p, group, order, run)
    PROVE  \A i \in 0..Len(order) : run[i].remaining \in [Category -> Nat]
<1> DEFINE n == Len(order)
           G == {i \in 0..n : run[i].remaining \in [Category -> Nat]}
<1>1. n \in Nat /\ \A i \in 1..n : order[i] \in graph.rules
  BY OrderOfRules
<1>2. \A i \in 0..n : run[i] \in Dones
  BY DEF Evaluated
<1>3. 0 \in G
  <2>1. run[0].remaining = BasisByCategory(p) /\ 0 \in 0..n
    BY <1>1 DEF Evaluated
  <2>2. BasisByCategory(p) \in [Category -> Nat]
    BY PurchaseAssumption DEF BasisByCategory, AmountsNotNegative
  <2> QED BY <2>1, <2>2
<1>4. ASSUME NEW i \in 1..n, i - 1 \in G PROVE i \in G
  <2> DEFINE before == run[i - 1]
             r == order[i]
             c == Evaluate(p, group, before, r)
  <2>1. i \in 0..n /\ i - 1 \in 0..n /\ before.remaining \in [Category -> Nat]
    BY <1>1, <1>4
  <2>2. before \in Dones /\ r \in graph.rules /\ run[i] = EvaluateNext(p, group, before, r)
    BY <1>1, <1>2, <2>1 DEF Evaluated
  <2> HIDE DEF before, r
  <2>3. c.basis \in Int
    <3>1. c \in CandidateType
      BY <2>2, EvaluateFields
    <3> HIDE DEF c
    <3> QED BY <3>1 DEF CandidateType
  <2>4. ConsumeWaterfallBasis(r, before.remaining, c.basis) \in [Category -> Nat]
    <3> HIDE DEF c
    <3> QED BY <2>1, <2>2, <2>3, ConsumeKeepsNat
  <2>5. EvaluateNext(p, group, before, r).remaining \in [Category -> Nat]
    <3>1. EvaluateNext(p, group, before, r).remaining
            = IF group.strategy = "waterfall" /\ c.selected
              THEN ConsumeWaterfallBasis(r, before.remaining, c.basis) ELSE before.remaining
      BY DEF EvaluateNext
    <3> HIDE DEF c
    <3> QED BY <2>1, <2>4, <3>1
  <2> QED BY <2>1, <2>2, <2>5
<1>5. \A i \in 0..n : i \in G
  <2> HIDE DEF G, n
  <2> QED BY <1>1, <1>3, <1>4, CountingInduction
<1> QED BY <1>5

\* The candidates are those of the group's rules, by priority.
OfRules(group, cs) ==
    /\ cs \in Seq(CandidateType)
    /\ \E order \in Orders(group) : /\ Len(order) = Len(cs)
                                    /\ \A i \in DOMAIN cs : cs[i].rule = order[i].id

\* A rule that matched had the answers its dependencies ask for.
DependenciesAnswered(cs) ==
    \A i \in DOMAIN cs : cs[i].matched =>
        \A dep \in graph.dependencies : dep.rule = cs[i].rule =>
            \E j \in DOMAIN cs : j < i /\ cs[j].rule = dep.on /\ DependencyHolds(dep, cs[j])

\* What is awarded is worth something, and in max_of no other is worth more.
WinnersOnly(group, cs) ==
    \A i \in DOMAIN cs :
        cs[i].selected <=>
            /\ cs[i].points # 0
            /\ group.strategy = "max_of" =>
                  \A j \in DOMAIN cs : \/ cs[j].points < cs[i].points
                                       \/ cs[j].points = cs[i].points /\ i <= j

\* Limits take and never give, neither points nor basis.
Bounded(cs) ==
    \A i \in DOMAIN cs : /\ BasisLimitsOnRates => cs[i].points <= cs[i].raw
                         /\ AmountsNotNegative => cs[i].usageBasis >= 0

GroupOutcome(group, cs) ==
    OfRules(group, cs) /\ DependenciesAnswered(cs) /\ WinnersOnly(group, cs) /\ Bounded(cs)

\* What max_of selects changes nothing else.
LEMMA SelectHighestFields ==
    ASSUME NEW cs \in Seq(CandidateType)
    PROVE  LET best == SelectHighest(cs)
           IN  /\ best \in Seq(CandidateType) /\ Len(best) = Len(cs)
               /\ \A i \in DOMAIN cs :
                     /\ best[i].rule = cs[i].rule /\ best[i].matched = cs[i].matched
                     /\ best[i].points = cs[i].points /\ best[i].raw = cs[i].raw
                     /\ best[i].basis = cs[i].basis /\ best[i].limit = cs[i].limit
                     /\ best[i].usagePoints = cs[i].usagePoints
                     /\ best[i].usageBasis = cs[i].usageBasis
                     /\ best[i].selected <=>
                           /\ cs[i].points # 0
                           /\ \A j \in DOMAIN cs : \/ cs[j].points < cs[i].points
                                                   \/ cs[j].points = cs[i].points /\ i <= j
<1> DEFINE best == SelectHighest(cs)
           Wins(i) == /\ cs[i].points # 0
                      /\ \A j \in DOMAIN cs : \/ cs[j].points < cs[i].points
                                              \/ cs[j].points = cs[i].points /\ i <= j
<1>1. best = [i \in DOMAIN cs |-> [cs[i] EXCEPT !.selected = Wins(i)]]
  BY DEF SelectHighest
<1>2. \A i \in DOMAIN cs : Wins(i) \in BOOLEAN
  OBVIOUS
<1> HIDE DEF best, Wins
<1>3. DOMAIN cs = 1..Len(cs) /\ Len(cs) \in Nat /\ \A i \in DOMAIN cs : cs[i] \in CandidateType
  OBVIOUS
<1>4. ASSUME NEW i \in DOMAIN cs
      PROVE  /\ best[i] \in CandidateType
             /\ best[i].rule = cs[i].rule /\ best[i].matched = cs[i].matched
             /\ best[i].points = cs[i].points /\ best[i].raw = cs[i].raw
             /\ best[i].basis = cs[i].basis /\ best[i].limit = cs[i].limit
             /\ best[i].usagePoints = cs[i].usagePoints
             /\ best[i].usageBasis = cs[i].usageBasis
             /\ best[i].selected = Wins(i)
  <2>1. best[i] = [cs[i] EXCEPT !.selected = Wins(i)]
    BY <1>1
  <2> QED BY <1>2, <1>3, <2>1 DEF CandidateType
<1>5. best \in Seq(CandidateType) /\ Len(best) = Len(cs)
  <2>1. DOMAIN best = 1..Len(cs) /\ best = [i \in DOMAIN best |-> best[i]]
    BY <1>1, <1>3
  <2>2. best \in [1..Len(cs) -> CandidateType]
    BY <1>3, <1>4, <2>1
  <2> QED BY <1>3, <2>2
<1> QED BY <1>4, <1>5 DEF best, Wins

\* The dependencies that were satisfied, by the candidates evaluated before.
LEMMA DependenciesAsked ==
    ASSUME Published, UsageRows, NEW p \in Purchases, NEW group, NEW order \in Orders(group),
           NEW run, Evaluated(p, group, order, run)
    PROVE  DependenciesAnswered(run[Len(order)].candidates)
<1> DEFINE n == Len(order)
           cs == run[n].candidates
<1>1. n \in Nat /\ \A i \in 1..n : order[i] \in graph.rules
  BY OrderOfRules
<1>2. DOMAIN cs = 1..n /\ \A i \in 1..n : cs[i] = Evaluate(p, group, run[i - 1], order[i])
  BY <1>1, EvaluationSteps
<1> SUFFICES ASSUME NEW i \in 1..n, cs[i].matched,
                    NEW dep \in graph.dependencies, dep.rule = cs[i].rule
             PROVE  \E j \in 1..n : j < i /\ cs[j].rule = dep.on /\ DependencyHolds(dep, cs[j])
  BY <1>2 DEF DependenciesAnswered
<1>3. /\ i - 1 \in 0..n /\ run[i - 1] \in Dones
      /\ DOMAIN run[i - 1].candidates = 1..(i - 1)
      /\ \A j \in 1..(i - 1) :
            run[i - 1].candidates[j] = Evaluate(p, group, run[j - 1], order[j])
  <2>1. i - 1 \in 0..n
    BY <1>1
  <2> HIDE DEF n
  <2> QED BY <2>1, EvaluationSteps DEF n
<1>4. \A j \in 1..(i - 1) : run[i - 1].candidates[j] = cs[j]
  <2>1. \A j \in 1..(i - 1) : j \in 1..n
    BY <1>1
  <2> HIDE DEF n, cs
  <2> QED BY <1>2, <1>3, <2>1
<1>5. /\ DependenciesSatisfied(order[i], run[i - 1].candidates)
      /\ cs[i].rule = order[i].id
  <2> DEFINE done == run[i - 1]
             r == order[i]
  <2>1. done \in Dones /\ r \in graph.rules /\ cs[i] = Evaluate(p, group, done, r)
    BY <1>1, <1>2, <1>3
  <2> HIDE DEF done, r, cs
  <2>2. /\ Evaluate(p, group, done, r).rule = r.id
        /\ Evaluate(p, group, done, r).matched => DependenciesSatisfied(r, done.candidates)
    BY <2>1, EvaluateFields
  <2> QED BY <2>1, <2>2 DEF done, r
<1>6. PICK c \in ToSet(run[i - 1].candidates) : c.rule = dep.on /\ DependencyHolds(dep, c)
  BY <1>5 DEF DependenciesSatisfied
<1>7. PICK j \in 1..(i - 1) : run[i - 1].candidates[j] = c
  BY <1>3 DEF ToSet
<1> QED BY <1>1, <1>4, <1>6, <1>7

\* In a valid graph the winner of max_of is no dependency's business.
LEMMA DependenciesInMaxOf ==
    ASSUME Published, NEW group \in graph.groups, group.strategy = "max_of",
           NEW r \in RulesOf(graph, group), NEW dep \in graph.dependencies, dep.rule = r.id
    PROVE  dep.type = "requires_match"
<1>1. r \in graph.rules /\ r.group = group.id
  BY DEF RulesOf
<1>2. ValidDependency(graph, dep)
  BY DEF Published, ValidateRuleGraphForPublish
<1> QED BY <1>1, <1>2 DEF ValidDependency

\* The candidates of a group are within bounds before one of them is selected.
LEMMA EvaluatedBounded ==
    ASSUME Published, UsageRows, NEW p \in Purchases, NEW group, NEW order \in Orders(group),
           NEW run, Evaluated(p, group, order, run)
    PROVE  Bounded(run[Len(order)].candidates)
<1> DEFINE n == Len(order)
           cs == run[n].candidates
<1>1. n \in Nat /\ \A i \in 1..n : order[i] \in graph.rules
  BY OrderOfRules
<1>2. DOMAIN cs = 1..n /\ \A i \in 1..n : cs[i] = Evaluate(p, group, run[i - 1], order[i])
  BY <1>1, EvaluationSteps
<1> SUFFICES ASSUME NEW i \in 1..n
             PROVE  /\ BasisLimitsOnRates => cs[i].points <= cs[i].raw
                    /\ AmountsNotNegative => cs[i].usageBasis >= 0
  BY <1>2 DEF Bounded
<1> DEFINE done == run[i - 1]
           r == order[i]
           basis == IF group.strategy = "waterfall" THEN WaterfallBasis(r, done.remaining)
                    ELSE BasisForRule(p, r)
<1>3. i - 1 \in 0..n /\ r \in graph.rules /\ cs[i] = Evaluate(p, group, done, r)
  BY <1>1, <1>2
<1>4. done \in Dones
  <2> HIDE DEF n
  <2> QED BY <1>3 DEF Evaluated, n
<1>5. AmountsNotNegative => done.remaining \in [Category -> Nat]
  <2> HIDE DEF n
  <2> QED BY <1>3, RemainingNat DEF n
<1> HIDE DEF done, r, cs, n
<1>6. AmountsNotNegative => basis >= 0
  <2>1. done.remaining \in [Category -> Int]
    BY <1>4 DEF Dones
  <2> QED BY <1>3, <1>5, <2>1, WaterfallBasisType, BasisForRuleType
<1>7. /\ basis >= 0 => Evaluate(p, group, done, r).usageBasis >= 0
      /\ BasisLimitsOnRates => Evaluate(p, group, done, r).points <= Evaluate(p, group, done, r).raw
  BY <1>3, <1>4, EvaluateFields
<1> QED BY <1>3, <1>6, <1>7

\* Everything that is known of what a group makes of a purchase.
LEMMA EvaluateGroupOutcome ==
    ASSUME Published, UsageRows, NEW p \in Purchases, NEW group \in graph.groups,
           NEW order \in Orders(group)
    PROVE  GroupOutcome(group, EvaluateGroup(p, group, order))
<1> DEFINE n == Len(order)
<1>1. PICK run : /\ Evaluated(p, group, order, run)
                 /\ EvaluateGroup(p, group, order)
                       = IF group.strategy = "max_of" THEN SelectHighest(run[n].candidates)
                         ELSE run[n].candidates
  BY EvaluationRun
<1> DEFINE cs == run[n].candidates
           out == EvaluateGroup(p, group, order)
<1>2. /\ n \in Nat
      /\ \A i \in 1..n : order[i] \in RulesOf(graph, group) /\ order[i] \in graph.rules
  BY OrderOfRules
<1>3. /\ run[n] \in Dones /\ Len(cs) = n /\ DOMAIN cs = 1..n
      /\ \A i \in 1..n : cs[i] = Evaluate(p, group, run[i - 1], order[i])
  BY <1>1, <1>2, EvaluationSteps
<1>4. cs \in Seq(CandidateType)
  BY <1>3 DEF Dones
<1>5. \A i \in 1..n : /\ cs[i].rule = order[i].id
                      /\ cs[i].selected <=> group.strategy # "max_of" /\ cs[i].points # 0
  <2> SUFFICES ASSUME NEW i \in 1..n
               PROVE  /\ cs[i].rule = order[i].id
                      /\ cs[i].selected <=> group.strategy # "max_of" /\ cs[i].points # 0
    OBVIOUS
  <2> DEFINE done == run[i - 1]
             r == order[i]
  <2>1. done \in Dones /\ r \in graph.rules /\ cs[i] = Evaluate(p, group, done, r)
    <3>1. i - 1 \in 0..n
      BY <1>2
    <3> QED BY <1>1, <1>2, <1>3, <3>1 DEF Evaluated
  <2> HIDE DEF done, r, cs
  <2>2. /\ cs[i].rule = r.id
        /\ cs[i].selected <=> group.strategy # "max_of" /\ cs[i].points # 0
    BY <2>1, EvaluateFields
  <2> QED BY <2>2 DEF r
<1>6. DependenciesAnswered(cs) /\ Bounded(cs)
  BY <1>1, DependenciesAsked, EvaluatedBounded
<1>7. CASE group.strategy # "max_of"
  <2>1. out = cs
    BY <1>1, <1>7
  <2> HIDE DEF out, cs
  <2>2. OfRules(group, out)
    BY <1>3, <1>4, <1>5, <2>1 DEF OfRules
  <2>3. WinnersOnly(group, out)
    BY <1>3, <1>5, <1>7, <2>1 DEF WinnersOnly
  <2> QED BY <1>6, <2>1, <2>2, <2>3 DEF GroupOutcome, out
<1>8. CASE group.strategy = "max_of"
  <2>1. out = SelectHighest(cs)
    BY <1>1, <1>8
  <2> HIDE DEF out, cs
  <2>2. /\ out \in Seq(CandidateType) /\ Len(out) = n /\ DOMAIN out = 1..n
        /\ \A i \in 1..n :
              /\ out[i].rule = cs[i].rule /\ out[i].matched = cs[i].matched
              /\ out[i].points = cs[i].points /\ out[i].raw = cs[i].raw
              /\ out[i].usageBasis = cs[i].usageBasis
              /\ out[i].selected <=>
                    /\ cs[i].points # 0
                    /\ \A j \in 1..n : \/ cs[j].points < cs[i].points
                                       \/ cs[j].points = cs[i].points /\ i <= j
    <3> DEFINE best == SelectHighest(cs)
    <3>1. /\ best \in Seq(CandidateType) /\ Len(best) = n
          /\ \A i \in 1..n :
                /\ best[i].rule = cs[i].rule /\ best[i].matched = cs[i].matched
                /\ best[i].points = cs[i].points /\ best[i].raw = cs[i].raw
                /\ best[i].usageBasis = cs[i].usageBasis
                /\ best[i].selected <=>
                      /\ cs[i].points # 0
                      /\ \A j \in 1..n : \/ cs[j].points < cs[i].points
                                         \/ cs[j].points = cs[i].points /\ i <= j
      <4>1. DOMAIN cs = 1..n /\ Len(cs) = n
        BY <1>3 DEF cs
      <4> HIDE DEF n
      <4> QED BY <1>4, <4>1, SelectHighestFields
    <3>2. DOMAIN best = 1..n
      BY <1>2, <3>1
    <3> HIDE DEF best, n
    <3> QED BY <2>1, <3>1, <3>2 DEF best
  <2>3. OfRules(group, out)
    BY <1>5, <2>2 DEF OfRules
  <2>4. WinnersOnly(group, out)
    BY <1>8, <2>2 DEF WinnersOnly
  <2>5. DependenciesAnswered(out)
    <3> SUFFICES ASSUME NEW i \in 1..n, out[i].matched,
                        NEW dep \in graph.dependencies, dep.rule = out[i].rule
                 PROVE  \E j \in 1..n :
                           j < i /\ out[j].rule = dep.on /\ DependencyHolds(dep, out[j])
      BY <2>2 DEF DependenciesAnswered
    <3>1. dep.type = "requires_match"
      BY <1>2, <1>5, <1>8, <2>2, DependenciesInMaxOf
    <3>2. PICK j \in 1..n : j < i /\ cs[j].rule = dep.on /\ DependencyHolds(dep, cs[j])
      BY <1>3, <1>6, <2>2 DEF DependenciesAnswered
    <3>3. DependencyHolds(dep, out[j])
      BY <2>2, <3>1, <3>2 DEF DependencyHolds
    <3> QED BY <2>2, <3>2, <3>3
  <2>6. Bounded(out)
    BY <1>3, <1>6, <2>2 DEF Bounded
  <2> QED BY <2>3, <2>4, <2>5, <2>6 DEF GroupOutcome, out
<1> QED BY <1>7, <1>8

-----------------------------------------------------------------------------
(* The invariant.                                                          *)

\* The values of a sequence are finitely many, of its type.
LEMMA SequencesAreFinite ==
    ASSUME NEW V, NEW s \in Seq(V)
    PROVE  IsFiniteSet(ToSet(s)) /\ ToSet(s) \subseteq V
<1>1. DOMAIN s = 1..Len(s) /\ Len(s) \in Nat /\ \A i \in DOMAIN s : s[i] \in V
  OBVIOUS
<1>2. s \in Surjection(1..Len(s), ToSet(s))
  BY <1>1 DEF Surjection, ToSet
<1>3. IsFiniteSet(1..Len(s))
  BY <1>1, FS_Interval
<1>4. IsFiniteSet(ToSet(s))
  BY <1>2, <1>3, FS_Surjection
<1> QED BY <1>1, <1>4 DEF ToSet

\* The outcome of a purchase, group by group.
Entries(groups, out) ==
    groups = {[id |-> group.id, candidates |-> out[group]] : group \in graph.groups}

\* A purchase's candidates are those of its groups.
LEMMA EntriesHaveCandidates ==
    ASSUME NEW groups, NEW out, Entries(groups, out)
    PROVE  {ToSet(t.candidates) : t \in groups} = {ToSet(out[group]) : group \in graph.groups}
<1>1. ASSUME NEW t \in groups PROVE \E group \in graph.groups : t.candidates = out[group]
  BY DEF Entries
<1>2. ASSUME NEW group \in graph.groups PROVE \E t \in groups : t.candidates = out[group]
  <2>1. [id |-> group.id, candidates |-> out[group]] \in groups
    BY DEF Entries
  <2> QED BY <2>1
<1> QED BY <1>1, <1>2

\* The outcome of a purchase has one entry for each group of the graph.
PurchaseOutcome(groups) ==
    \E out : Entries(groups, out) /\ \A group \in graph.groups : GroupOutcome(group, out[group])

EngineInv ==
    /\ graph \in Drafts \cup {NoGraph}
    /\ graph # NoGraph => ValidateRuleGraphForPublish(graph)
    /\ UsageRows
    /\ DOMAIN calculation = Purchases
    /\ graph = NoGraph => Processed = {}
    /\ \A p \in Processed : PurchaseOutcome(calculation[p])

\* The candidates of a purchase are finitely many.
LEMMA CandidatesAreFinite ==
    ASSUME Published, NEW out, \A group \in graph.groups : GroupOutcome(group, out[group]),
           NEW groups, Entries(groups, out)
    PROVE  /\ IsFiniteSet(UNION {ToSet(t.candidates) : t \in groups})
           /\ UNION {ToSet(t.candidates) : t \in groups} \subseteq CandidateType
<1> DEFINE sets == {ToSet(out[group]) : group \in graph.groups}
           f == [group \in graph.groups |-> ToSet(out[group])]
<1>1. {ToSet(t.candidates) : t \in groups} = sets
  BY EntriesHaveCandidates
<1>2. ASSUME NEW group \in graph.groups
      PROVE  IsFiniteSet(ToSet(out[group])) /\ ToSet(out[group]) \subseteq CandidateType
  <2>1. out[group] \in Seq(CandidateType)
    BY DEF GroupOutcome, OfRules
  <2> QED BY <2>1, SequencesAreFinite
<1>3. IsFiniteSet(sets)
  <2>1. f \in Surjection(graph.groups, sets)
    BY DEF Surjection
  <2>2. IsFiniteSet(graph.groups)
    BY DraftAssumption DEF Published
  <2> QED BY <2>1, <2>2, FS_Surjection
<1>4. \A T \in sets : IsFiniteSet(T) /\ T \subseteq CandidateType
  BY <1>2
<1> HIDE DEF sets
<1> QED BY <1>1, <1>3, <1>4, FS_UNION

\* Usage keeps its rows.
LEMMA WithUsageRows ==
    ASSUME UsageRows, NEW C \in SUBSET CandidateType, IsFiniteSet(C), NEW time
    PROVE  WithUsage(C, time) \in [UsageKeys -> Uses]
<1> DEFINE Users(u) == {c \in C : c.limit # NoLimit /\ UsageRow(c, time) = u}
           Points(u) == [c \in Users(u) |-> c.usagePoints]
           Basis(u) == [c \in Users(u) |-> c.usageBasis]
<1>1. /\ DOMAIN usage = UsageKeys
      /\ \A u \in UsageKeys : usage[u].points \in Nat /\ usage[u].basis \in Int
  BY DEF UsageRows, Uses
<1>2. WithUsage(C, time) = [u \in UsageKeys |->
          [points |-> usage[u].points + SumFunction(Points(u)),
           basis |-> usage[u].basis + SumFunction(Basis(u))]]
  BY <1>1 DEF WithUsage
<1>3. ASSUME NEW u \in UsageKeys
      PROVE  SumFunction(Points(u)) \in Nat /\ SumFunction(Basis(u)) \in Int
  <2>1. IsFiniteSet(Users(u)) /\ Users(u) \subseteq CandidateType
    BY FS_Subset
  <2>2. /\ DOMAIN Points(u) = Users(u) /\ \A c \in Users(u) : Points(u)[c] \in Nat
        /\ DOMAIN Basis(u) = Users(u) /\ \A c \in Users(u) : Basis(u)[c] \in Int
    BY <2>1 DEF CandidateType
  <2> HIDE DEF Users, Points, Basis
  <2>3. SumFunction(Points(u)) = Total(Points(u), Users(u)) /\ SumFunction(Basis(u)) \in Int
    BY <2>1, <2>2, SumType
  <2>4. Total(Points(u), Users(u)) \in Nat
    BY <2>1, <2>2, TotalNat
  <2> QED BY <2>3, <2>4
<1> HIDE DEF Points, Basis
<1>4. \A u \in UsageKeys : [points |-> usage[u].points + SumFunction(Points(u)),
                            basis |-> usage[u].basis + SumFunction(Basis(u))] \in Uses
  BY <1>1, <1>3 DEF Uses
<1> QED BY <1>2, <1>4

\* What is known of a purchase's outcome depends on the graph only.
LEMMA OutcomeStays ==
    ASSUME graph' = graph, NEW groups, PurchaseOutcome(groups)
    PROVE  PurchaseOutcome(groups)'
<1>1. PICK out : /\ Entries(groups, out)
                 /\ \A group \in graph.groups : GroupOutcome(group, out[group])
  BY DEF PurchaseOutcome
<1>2. Entries(groups, out)'
  BY <1>1 DEF Entries
<1>3. ASSUME NEW group \in graph.groups PROVE GroupOutcome(group, out[group])'
  <2>1. GroupOutcome(group, out[group])
    BY <1>1
  <2>2. OfRules(group, out[group])'
    BY <2>1 DEF GroupOutcome, OfRules, Orders, RulesOf
  <2>3. DependenciesAnswered(out[group])'
    BY <2>1 DEF GroupOutcome, DependenciesAnswered
  <2>4. WinnersOnly(group, out[group])' /\ Bounded(out[group])'
    BY <2>1 DEF GroupOutcome, WinnersOnly, Bounded, BasisLimitsOnRates, AmountsNotNegative
  <2> QED BY <2>2, <2>3, <2>4 DEF GroupOutcome
<1> QED BY <1>2, <1>3 DEF PurchaseOutcome

\* The invariant holds before a graph is published,
LEMMA EngineInit == Init => EngineInv
<1> SUFFICES ASSUME Init PROVE EngineInv
  OBVIOUS
<1>1. usage = [u \in UsageKeys |-> NoUse] /\ NoUse \in Uses
  BY DEF Init, UsageKeys, NoUse, Uses
<1>2. UsageRows
  BY <1>1 DEF UsageRows
<1> QED BY <1>2 DEF Init, EngineInv, Processed

\* after a graph is published,
LEMMA PublishKeeps ==
    ASSUME EngineInv, NEW g \in Drafts, Publish(g)
    PROVE  EngineInv'
<1>1. /\ graph = NoGraph /\ ValidateRuleGraphForPublish(g) /\ graph' = g
      /\ usage' = usage /\ calculation' = calculation
  BY DEF Publish
<1>2. graph' # NoGraph /\ graph' \in Drafts /\ ValidateRuleGraphForPublish(graph')
  BY <1>1, GraphAssumption
<1>3. Processed' = {}
  BY <1>1 DEF EngineInv, Processed
<1>4. UsageRows'
  BY <1>1 DEF EngineInv, UsageRows, UsageKeys
<1> QED BY <1>1, <1>2, <1>3, <1>4 DEF EngineInv

\* What processing a purchase does, in terms of its outcome.
LEMMA CalculatePurchaseOutcome ==
    ASSUME EngineInv, NEW p \in Purchases, CalculatePurchase(p)
    PROVE  /\ Published /\ p \notin Processed /\ graph' = graph
           /\ \E trace, out, groups :
                 /\ Entries(groups, out)
                 /\ \A group \in graph.groups :
                       /\ trace[group] \in Orders(group)
                       /\ out[group] = EvaluateGroup(p, group, trace[group])
                       /\ GroupOutcome(group, out[group])
                 /\ calculation' = [calculation EXCEPT ![p] = groups]
                 /\ usage' = WithUsage({c \in UNION {ToSet(t.candidates) : t \in groups} :
                                           c.selected}, p.time)
<1>1. Published /\ p \notin Processed /\ graph' = graph
  BY DEF CalculatePurchase, EngineInv, Published
<1> DEFINE Traces == {f \in [graph.groups -> UNION {Orders(group) : group \in graph.groups}] :
                         \A group \in graph.groups : f[group] \in Orders(group)}
           GroupsOf(trace) ==
               {[id |-> group.id, candidates |-> EvaluateGroup(p, group, trace[group])] :
                   group \in graph.groups}
<1>2. PICK trace \in Traces :
        /\ calculation' = [calculation EXCEPT ![p] = GroupsOf(trace)]
        /\ CommitLimitUsage(UNION {ToSet(group.candidates) : group \in GroupsOf(trace)}, p.time)
  BY DEF CalculatePurchase
<1> DEFINE out == [group \in graph.groups |-> EvaluateGroup(p, group, trace[group])]
<1>3. \A group \in graph.groups :
        /\ trace[group] \in Orders(group)
        /\ out[group] = EvaluateGroup(p, group, trace[group])
  BY <1>2
<1>4. Entries(GroupsOf(trace), out)
  BY DEF Entries
<1> HIDE DEF out
<1>5. \A group \in graph.groups : GroupOutcome(group, out[group])
  BY <1>1, <1>3, EvaluateGroupOutcome DEF EngineInv
<1>6. usage' = WithUsage({c \in UNION {ToSet(t.candidates) : t \in GroupsOf(trace)} : c.selected},
                         p.time)
  <2> HIDE DEF GroupsOf
  <2> QED BY <1>2 DEF CommitLimitUsage
<1>7. PICK groups : groups = GroupsOf(trace)
  OBVIOUS
<1> HIDE DEF GroupsOf
<1>8. /\ Entries(groups, out)
      /\ \A group \in graph.groups :
            /\ trace[group] \in Orders(group)
            /\ out[group] = EvaluateGroup(p, group, trace[group])
            /\ GroupOutcome(group, out[group])
      /\ calculation' = [calculation EXCEPT ![p] = groups]
      /\ usage' = WithUsage({c \in UNION {ToSet(t.candidates) : t \in groups} : c.selected}, p.time)
  BY <1>2, <1>3, <1>4, <1>5, <1>6, <1>7
<1> QED BY <1>1, <1>8

\* after a purchase is processed,
LEMMA CalculateKeeps ==
    ASSUME EngineInv, NEW p \in Purchases, CalculatePurchase(p)
    PROVE  EngineInv'
<1>1. Published /\ p \notin Processed /\ graph' = graph
  BY CalculatePurchaseOutcome
<1>2. PICK trace, out, groups :
        /\ Entries(groups, out)
        /\ \A group \in graph.groups :
              /\ trace[group] \in Orders(group)
              /\ out[group] = EvaluateGroup(p, group, trace[group])
              /\ GroupOutcome(group, out[group])
        /\ calculation' = [calculation EXCEPT ![p] = groups]
        /\ usage' = WithUsage({c \in UNION {ToSet(t.candidates) : t \in groups} : c.selected},
                              p.time)
  BY CalculatePurchaseOutcome
<1> DEFINE C == UNION {ToSet(t.candidates) : t \in groups}
           chosen == {c \in C : c.selected}
<1>3. IsFiniteSet(C) /\ C \subseteq CandidateType
  BY <1>1, <1>2, CandidatesAreFinite
<1>4. UsageRows'
  <2>1. chosen \in SUBSET CandidateType /\ IsFiniteSet(chosen)
    <3> HIDE DEF C
    <3> QED BY <1>3, FS_Subset
  <2>2. usage' = WithUsage(chosen, p.time)
    BY <1>2
  <2>3. WithUsage(chosen, p.time) \in [UsageKeys -> Uses]
    <3> HIDE DEF chosen
    <3> QED BY <2>1, WithUsageRows DEF EngineInv
  <2>4. usage' \in [UsageKeys -> Uses]
    BY <2>2, <2>3
  <2> QED BY <2>4 DEF UsageRows, UsageKeys
<1>5. PurchaseOutcome(groups)'
  <2>1. PurchaseOutcome(groups)
    BY <1>2 DEF PurchaseOutcome
  <2> QED BY <1>1, <2>1, OutcomeStays
<1>6. ASSUME NEW q \in Processed' PROVE PurchaseOutcome(calculation[q])'
  <2>1. q \in Purchases /\ calculation'[q] # {}
    BY DEF Processed
  <2>2. CASE q = p
    <3>1. calculation'[q] = groups
      BY <1>2, <2>1, <2>2 DEF EngineInv
    <3> QED BY <1>5, <3>1
  <2>3. CASE q # p
    <3>1. calculation'[q] = calculation[q]
      BY <1>2, <2>1, <2>3 DEF EngineInv
    <3>2. PurchaseOutcome(calculation[q])
      BY <2>1, <3>1 DEF EngineInv, Processed
    <3>3. PICK outcome : outcome = calculation[q]
      OBVIOUS
    <3>4. PurchaseOutcome(outcome)'
      BY <1>1, <3>2, <3>3, OutcomeStays
    <3> QED BY <3>1, <3>3, <3>4
  <2> QED BY <2>2, <2>3
<1>7. DOMAIN calculation' = Purchases
  BY <1>2 DEF EngineInv
<1>8. graph' \in Drafts /\ graph' # NoGraph /\ ValidateRuleGraphForPublish(graph')
  BY <1>1, GraphAssumption DEF Published
<1> QED BY <1>4, <1>6, <1>7, <1>8 DEF EngineInv

\* and so after every step.
LEMMA EngineNext == EngineInv /\ [Next]_vars => EngineInv'
<1> SUFFICES ASSUME EngineInv, [Next]_vars PROVE EngineInv'
  OBVIOUS
<1>1. ASSUME NEW g \in Drafts, Publish(g) PROVE EngineInv'
  BY <1>1, PublishKeeps
<1>2. ASSUME NEW p \in Purchases, CalculatePurchase(p) PROVE EngineInv'
  BY <1>2, CalculateKeeps
<1>3. CASE UNCHANGED vars
  <2>1. graph' = graph /\ usage' = usage /\ calculation' = calculation
    BY <1>3 DEF vars
  <2>2. UsageRows' /\ Processed' = Processed
    BY <2>1 DEF EngineInv, UsageRows, UsageKeys, Processed
  <2>3. ASSUME NEW q \in Processed' PROVE PurchaseOutcome(calculation[q])'
    <3>1. PurchaseOutcome(calculation[q])
      BY <2>2 DEF EngineInv
    <3>2. PICK outcome : outcome = calculation[q]
      OBVIOUS
    <3>3. PurchaseOutcome(outcome)'
      BY <2>1, <3>1, <3>2, OutcomeStays
    <3> QED BY <2>1, <3>2, <3>3
  <2> QED BY <2>1, <2>2, <2>3 DEF EngineInv
<1> QED BY <1>1, <1>2, <1>3 DEF Next

\* The invariant of the rule engine: a valid graph, usage of its limits, and
\* outcomes of purchases that the groups can have.
THEOREM EngineInvariance == Spec => []EngineInv
BY EngineInit, EngineNext, PTL DEF Spec

-----------------------------------------------------------------------------
(* Dependencies.                                                           *)

\* Of every rule of a group there is one candidate.
LEMMA CandidatesOfRules ==
    ASSUME Published, NEW group, NEW cs, OfRules(group, cs)
    PROVE  /\ Len(cs) \in Nat /\ DOMAIN cs = 1..Len(cs)
           /\ \A i \in DOMAIN cs : cs[i] \in CandidateType
           /\ \A i \in DOMAIN cs : \E r \in RulesOf(graph, group) : cs[i].rule = r.id
           /\ \A r \in RulesOf(graph, group) : \E i \in DOMAIN cs : cs[i].rule = r.id
           /\ \A i, j \in DOMAIN cs : cs[i].rule = cs[j].rule => i = j
           /\ \A i, j \in DOMAIN cs : i < j =>
                 \A r, s \in RulesOf(graph, group) :
                    cs[i].rule = r.id /\ cs[j].rule = s.id => r.priority <= s.priority
<1>1. PICK order \in Orders(group) :
        Len(order) = Len(cs) /\ \A i \in DOMAIN cs : cs[i].rule = order[i].id
  BY DEF OfRules
<1>2. Len(cs) \in Nat /\ DOMAIN cs = 1..Len(cs) /\ \A i \in DOMAIN cs : cs[i] \in CandidateType
  BY DEF OfRules
<1>3. /\ \A i \in DOMAIN cs : order[i] \in RulesOf(graph, group) /\ order[i] \in graph.rules
      /\ \A r \in RulesOf(graph, group) : \E i \in DOMAIN cs : order[i] = r
      /\ \A i, j \in DOMAIN cs : order[i].id = order[j].id => i = j
      /\ \A i, j \in DOMAIN cs : i < j => order[i].priority <= order[j].priority
  BY <1>1, <1>2, OrderOfRules
<1>4. \A r \in RulesOf(graph, group) : r \in graph.rules
  BY DEF RulesOf
<1>5. ASSUME NEW i \in DOMAIN cs, NEW r \in RulesOf(graph, group), cs[i].rule = r.id
      PROVE  order[i] = r
  BY <1>1, <1>3, <1>4, <1>5, GraphRules
<1>6. ASSUME NEW i \in DOMAIN cs, NEW j \in DOMAIN cs, i < j,
             NEW r \in RulesOf(graph, group), NEW s \in RulesOf(graph, group),
             cs[i].rule = r.id, cs[j].rule = s.id
      PROVE  r.priority <= s.priority
  <2>1. order[i] = r /\ order[j] = s
    BY <1>5, <1>6
  <2> QED BY <1>3, <1>6, <2>1
<1> QED BY <1>1, <1>2, <1>3, <1>6

\* A rule depended on is one of the group, of a candidate before.
LEMMA DependencyOnEarlier ==
    ASSUME Published, NEW group \in graph.groups, NEW cs, OfRules(group, cs), NEW i \in DOMAIN cs,
           NEW dep \in graph.dependencies, dep.rule = cs[i].rule
    PROVE  \E on \in RulesOf(graph, group), j \in DOMAIN cs :
              on.id = dep.on /\ j < i /\ cs[j].rule = dep.on
<1>1. PICK r \in RulesOf(graph, group) : cs[i].rule = r.id
  BY CandidatesOfRules
<1>2. r \in graph.rules /\ r.group = group.id
  BY DEF RulesOf
<1>3. PICK on \in graph.rules : on.id = dep.on /\ on.group = r.group /\ on.priority < r.priority
  <2>1. ValidDependency(graph, dep)
    BY DEF Published, ValidateRuleGraphForPublish
  <2> QED BY <1>1, <1>2, <2>1 DEF ValidDependency
<1>4. on \in RulesOf(graph, group)
  BY <1>2, <1>3 DEF RulesOf
<1>5. PICK j \in DOMAIN cs : cs[j].rule = on.id
  BY <1>4, CandidatesOfRules
<1>6. on.priority \in Int /\ r.priority \in Int
  BY <1>2, GraphRules
<1>7. i \in Int /\ j \in Int
  BY CandidatesOfRules
<1>8. ~(i < j)
  BY <1>1, <1>3, <1>4, <1>5, <1>6, CandidatesOfRules
<1>9. i # j
  <2> SUFFICES ASSUME i = j PROVE FALSE
    OBVIOUS
  <2>1. on.id = r.id
    BY <1>1, <1>5
  <2>2. on = r
    BY <1>2, <1>3, <2>1, GraphRules
  <2> QED BY <1>3, <1>6, <2>2
<1>10. j < i
  BY <1>7, <1>8, <1>9
<1> QED BY <1>3, <1>4, <1>5, <1>10

\* The entry of a purchase is that of a group.
LEMMA EntryOfGroup ==
    ASSUME EngineInv, NEW p \in Processed
    PROVE  /\ Published
           /\ \E out : /\ Entries(calculation[p], out)
                       /\ \A group \in graph.groups : GroupOutcome(group, out[group])
<1>1. graph # NoGraph
  BY DEF EngineInv
<1> QED BY <1>1 DEF EngineInv, Published, PurchaseOutcome

(***************************************************************************)
(* Publish validation makes the order of evaluation safe: whatever a rule  *)
(* depends on is evaluated before it, for every valid graph and however    *)
(* rules of equal priority are ordered.                                    *)
(***************************************************************************)
THEOREM DependenciesAlwaysFirst == Spec => []DependenciesEvaluatedFirst
<1>1. EngineInv => DependenciesEvaluatedFirst
  <2> SUFFICES ASSUME EngineInv, NEW p \in Processed, NEW t \in calculation[p],
                      NEW i \in DOMAIN t.candidates,
                      NEW dep \in graph.dependencies, dep.rule = t.candidates[i].rule
               PROVE  \E j \in DOMAIN t.candidates : j < i /\ t.candidates[j].rule = dep.on
    BY DEF DependenciesEvaluatedFirst
  <2>1. Published
    BY EntryOfGroup
  <2>2. PICK group \in graph.groups : GroupOutcome(group, t.candidates)
    BY EntryOfGroup DEF Entries
  <2>3. OfRules(group, t.candidates)
    BY <2>2 DEF GroupOutcome
  <2> QED BY <2>1, <2>3, DependencyOnEarlier
<1> QED BY <1>1, EngineInvariance, PTL

\* Candidates of one rule are one and the same, across the groups.
LEMMA CandidateOfGroup ==
    ASSUME Published, NEW p \in Purchases, NEW out, Entries(calculation[p], out),
           \A group \in graph.groups : GroupOutcome(group, out[group]), NEW c \in Candidates(p)
    PROVE  \E group \in graph.groups : \E i \in DOMAIN out[group] : out[group][i] = c
<1>1. PICK t \in calculation[p] : c \in ToSet(t.candidates)
  BY DEF Candidates
<1>2. PICK group \in graph.groups : t.candidates = out[group]
  BY DEF Entries
<1> QED BY <1>1, <1>2 DEF ToSet

(***************************************************************************)
(* What a dependency asks for is true of the outcome as it was finally     *)
(* resolved: no later step of the evaluation takes back the match, the     *)
(* award or the exhaustion that an earlier rule was allowed to count on.   *)
(***************************************************************************)
THEOREM DependenciesAlwaysRespected == Spec => []DependenciesRespected
<1>1. EngineInv => DependenciesRespected
  <2> SUFFICES ASSUME EngineInv, NEW p \in Processed, NEW c \in Candidates(p), c.matched,
                      NEW dep \in graph.dependencies, dep.rule = c.rule,
                      NEW prior \in Candidates(p), prior.rule = dep.on
               PROVE  CASE dep.type = "requires_match" -> prior.matched
                        [] dep.type = "requires_award" -> prior.selected /\ prior.points > 0
                        [] dep.type = "requires_exhausted" -> prior.exhausted
                        [] dep.type = "blocked_if_awarded" -> ~prior.selected
                        [] OTHER -> TRUE
    BY DEF DependenciesRespected
  <2>1. Published /\ p \in Purchases
    BY EntryOfGroup DEF Processed
  <2>2. PICK out : /\ Entries(calculation[p], out)
                   /\ \A group \in graph.groups : GroupOutcome(group, out[group])
    BY EntryOfGroup
  <2>3. PICK group \in graph.groups : \E i \in DOMAIN out[group] : out[group][i] = c
    BY <2>1, <2>2, CandidateOfGroup
  <2>4. PICK other \in graph.groups : \E k \in DOMAIN out[other] : out[other][k] = prior
    BY <2>1, <2>2, CandidateOfGroup
  <2> PICK i \in DOMAIN out[group] : out[group][i] = c
    BY <2>3
  <2> PICK k \in DOMAIN out[other] : out[other][k] = prior
    BY <2>4
  <2>5. OfRules(group, out[group]) /\ OfRules(other, out[other])
    BY <2>2 DEF GroupOutcome
  <2>6. other = group
    <3>1. PICK on \in RulesOf(graph, group) : on.id = dep.on
      BY <2>1, <2>3, <2>5, DependencyOnEarlier
    <3>2. PICK s \in RulesOf(graph, other) : s.id = dep.on
      BY <2>1, <2>4, <2>5, CandidatesOfRules
    <3>3. on \in graph.rules /\ s \in graph.rules /\ on.group = group.id /\ s.group = other.id
      BY DEF RulesOf
    <3>4. on = s
      BY <2>1, <3>1, <3>2, <3>3, GraphRules
    <3> QED BY <2>1, <3>3, <3>4, DraftAssumption DEF Published
  <2> DEFINE cs == out[group]
  <2>7. PICK j \in DOMAIN cs : cs[j].rule = dep.on /\ DependencyHolds(dep, cs[j])
    <3>1. DependenciesAnswered(cs)
      BY <2>2 DEF GroupOutcome
    <3> QED BY <2>3, <3>1 DEF DependenciesAnswered
  <2>8. j = k
    BY <2>1, <2>4, <2>5, <2>6, <2>7, CandidatesOfRules
  <2>9. /\ DependencyHolds(dep, prior) /\ prior \in CandidateType
        /\ prior.selected => prior.points # 0
    <3>1. prior = cs[j] /\ j \in DOMAIN cs
      BY <2>4, <2>6, <2>8
    <3>2. WinnersOnly(group, cs) /\ OfRules(group, cs)
      BY <2>2 DEF GroupOutcome
    <3> HIDE DEF cs
    <3>3. cs[j] \in CandidateType
      BY <2>1, <3>1, <3>2, CandidatesOfRules
    <3>4. cs[j].selected => cs[j].points # 0
      BY <3>1, <3>2 DEF WinnersOnly
    <3> QED BY <2>7, <3>1, <3>3, <3>4
  <2>10. prior.points \in Nat
    BY <2>9 DEF CandidateType
  <2> QED BY <2>9, <2>10 DEF DependencyHolds
<1> QED BY <1>1, EngineInvariance, PTL

-----------------------------------------------------------------------------
(* The winner of max_of.                                                   *)

\* Candidate i beats j: it is worth more, or as much and comes first.
Beats(cs, i, j) == cs[j].points < cs[i].points \/ (cs[j].points = cs[i].points /\ i <= j)

\* Some candidate beats all.
LEMMA BestCandidate ==
    ASSUME NEW cs \in Seq(CandidateType), NEW any \in DOMAIN cs
    PROVE  \E i \in DOMAIN cs : \A j \in DOMAIN cs : Beats(cs, i, j)
<1> DEFINE n == Len(cs)
           G == {k \in 0..n : k # 0 => \E i \in 1..k : \A j \in 1..k : Beats(cs, i, j)}
<1>1. n \in Nat /\ DOMAIN cs = 1..n /\ \A i \in 1..n : cs[i].points \in Nat
  <2>1. n \in Nat /\ DOMAIN cs = 1..n /\ \A i \in 1..n : cs[i] \in CandidateType
    OBVIOUS
  <2>2. \A c \in CandidateType : c.points \in Nat
    BY DEF CandidateType
  <2> QED BY <2>1, <2>2
<1>2. ASSUME NEW k \in 1..n, k - 1 \in G PROVE k \in G
  <2>1. k \in 0..n /\ k # 0
    BY <1>1
  <2>2. Beats(cs, k, k)
    BY <1>1 DEF Beats
  <2>3. CASE k = 1
    <3>1. k \in 1..k /\ \A j \in 1..k : Beats(cs, k, j)
      BY <2>2, <2>3
    <3> QED BY <2>1, <3>1
  <2>4. CASE k # 1
    <3>1. PICK i \in 1..(k - 1) : \A j \in 1..(k - 1) : Beats(cs, i, j)
      BY <1>2, <2>1, <2>4
    <3>2. i \in 1..n /\ i \in 1..k /\ i < k /\ cs[i].points \in Nat /\ cs[k].points \in Nat
      BY <1>1
    <3>3. CASE cs[k].points <= cs[i].points
      <4>1. Beats(cs, i, k)
        BY <3>2, <3>3 DEF Beats
      <4>2. \A j \in 1..k : j = k \/ j \in 1..(k - 1)
        OBVIOUS
      <4>3. \A j \in 1..k : Beats(cs, i, j)
        BY <3>1, <4>1, <4>2
      <4> QED BY <2>1, <3>2, <4>3
    <3>4. CASE ~(cs[k].points <= cs[i].points)
      <4>1. ASSUME NEW j \in 1..k PROVE Beats(cs, k, j)
        <5>1. CASE j = k
          BY <2>2, <5>1
        <5>2. CASE j # k
          <6>1. j \in 1..(k - 1) /\ j \in 1..n
            BY <5>2
          <6>2. cs[j].points <= cs[i].points
            BY <1>1, <3>1, <3>2, <6>1 DEF Beats
          <6> QED BY <1>1, <3>2, <3>4, <6>1, <6>2 DEF Beats
        <5> QED BY <5>1, <5>2
      <4> QED BY <2>1, <4>1
    <3> QED BY <3>3, <3>4
  <2> QED BY <2>3, <2>4
<1>3. 0 \in G
  BY <1>1
<1>4. n \in G
  <2>1. \A k \in 0..n : k \in G
    <3> HIDE DEF G, n
    <3>1. n \in Nat
      BY <1>1
    <3> QED BY <1>2, <1>3, <3>1, CountingInduction
  <2>2. n \in 0..n
    BY <1>1
  <2> HIDE DEF G, n
  <2> QED BY <2>1, <2>2
<1>5. n # 0
  BY <1>1
<1> QED BY <1>1, <1>4, <1>5

\* In max_of there is at most one winner, one if any is worth something, and
\* none is worth more.
LEMMA OneWinner ==
    ASSUME NEW group, group.strategy = "max_of", NEW cs \in Seq(CandidateType),
           WinnersOnly(group, cs)
    PROVE  LET winners == {c \in ToSet(cs) : c.selected}
           IN  /\ Cardinality(winners) = IF \E c \in ToSet(cs) : c.points > 0 THEN 1 ELSE 0
               /\ \A w \in winners : \A c \in ToSet(cs) : c.points <= w.points
<1> DEFINE winners == {c \in ToSet(cs) : c.selected}
<1>1. /\ \A i \in DOMAIN cs : i \in Int /\ cs[i].points \in Nat
      /\ ToSet(cs) = {cs[i] : i \in DOMAIN cs}
  <2>1. \A i \in DOMAIN cs : i \in Int /\ cs[i] \in CandidateType
    OBVIOUS
  <2>2. \A c \in CandidateType : c.points \in Nat
    BY DEF CandidateType
  <2> QED BY <2>1, <2>2 DEF ToSet
<1>2. \A i \in DOMAIN cs :
        cs[i].selected <=> cs[i].points # 0 /\ \A j \in DOMAIN cs : Beats(cs, i, j)
  BY DEF WinnersOnly, Beats
<1>3. ASSUME NEW w \in winners, NEW c \in ToSet(cs) PROVE c.points <= w.points
  <2>1. PICK i \in DOMAIN cs : w = cs[i]
    BY <1>1
  <2>2. PICK j \in DOMAIN cs : c = cs[j]
    BY <1>1
  <2>3. Beats(cs, i, j)
    BY <1>2, <2>1
  <2> QED BY <1>1, <2>1, <2>2, <2>3 DEF Beats
<1>4. ASSUME NEW v \in winners, NEW w \in winners PROVE v = w
  <2>1. PICK i \in DOMAIN cs : v = cs[i]
    BY <1>1
  <2>2. PICK j \in DOMAIN cs : w = cs[j]
    BY <1>1
  <2>3. Beats(cs, i, j) /\ Beats(cs, j, i)
    BY <1>2, <2>1, <2>2
  <2>4. i = j
    BY <1>1, <2>3 DEF Beats
  <2> QED BY <2>1, <2>2, <2>4
<1>5. CASE \E c \in ToSet(cs) : c.points > 0
  <2>1. PICK k \in DOMAIN cs : cs[k].points > 0
    BY <1>1, <1>5
  <2>2. PICK i \in DOMAIN cs : \A j \in DOMAIN cs : Beats(cs, i, j)
    BY <2>1, BestCandidate
  <2>3. cs[i].points # 0
    <3>1. Beats(cs, i, k)
      BY <2>2
    <3> QED BY <1>1, <2>1, <3>1 DEF Beats
  <2>4. cs[i] \in winners
    BY <1>1, <1>2, <2>2, <2>3
  <2>5. winners = {cs[i]}
    <3> HIDE DEF winners
    <3> QED BY <1>4, <2>4
  <2>6. Cardinality(winners) = 1
    BY <2>5, FS_Singleton
  <2> QED BY <1>3, <1>5, <2>6
<1>6. CASE ~\E c \in ToSet(cs) : c.points > 0
  <2>1. ASSUME NEW w \in winners PROVE FALSE
    <3>1. PICK i \in DOMAIN cs : w = cs[i]
      BY <1>1
    <3>2. cs[i].points # 0 /\ cs[i] \in ToSet(cs)
      BY <1>1, <1>2, <3>1
    <3> QED BY <1>1, <1>6, <3>2
  <2>2. winners = {}
    BY <2>1
  <2>3. Cardinality(winners) = 0
    BY <2>2, FS_EmptySet
  <2> QED BY <1>3, <1>6, <2>3
<1> QED BY <1>5, <1>6

(***************************************************************************)
(* max_of awards the highest candidate after its limits, and only that one,*)
(* or none when none is worth anything.                                    *)
(***************************************************************************)
THEOREM HighestAlwaysWins == Spec => []HighestWins
<1>1. EngineInv => HighestWins
  <2> SUFFICES ASSUME EngineInv, NEW p \in Processed, NEW group \in graph.groups,
                      group.strategy = "max_of"
               PROVE  LET candidates ==
                              ToSet((CHOOSE t \in calculation[p] : t.id = group.id).candidates)
                          winners == {c \in candidates : c.selected}
                      IN /\ Cardinality(winners)
                               = IF \E c \in candidates : c.points > 0 THEN 1 ELSE 0
                         /\ \A w \in winners : \A c \in candidates : c.points <= w.points
    BY DEF HighestWins
  <2>1. PICK out : /\ Entries(calculation[p], out)
                   /\ \A g \in graph.groups : GroupOutcome(g, out[g])
    BY EntryOfGroup
  <2>2. Published
    BY EntryOfGroup
  <2> DEFINE entry == CHOOSE t \in calculation[p] : t.id = group.id
  <2>3. entry \in calculation[p] /\ entry.id = group.id
    <3>1. [id |-> group.id, candidates |-> out[group]] \in calculation[p]
      BY <2>1 DEF Entries
    <3> QED BY <3>1
  <2> HIDE DEF entry
  <2>4. entry.candidates = out[group]
    <3>1. PICK g \in graph.groups : entry = [id |-> g.id, candidates |-> out[g]]
      BY <2>1, <2>3 DEF Entries
    <3>2. g = group
      BY <2>2, <2>3, <3>1, DraftAssumption DEF Published
    <3> QED BY <3>1, <3>2
  <2>5. out[group] \in Seq(CandidateType) /\ WinnersOnly(group, out[group])
    BY <2>1 DEF GroupOutcome, OfRules
  <2>6. LET winners == {c \in ToSet(entry.candidates) : c.selected}
        IN  /\ Cardinality(winners)
                  = IF \E c \in ToSet(entry.candidates) : c.points > 0 THEN 1 ELSE 0
            /\ \A w \in winners : \A c \in ToSet(entry.candidates) : c.points <= w.points
    BY <2>4, <2>5, OneWinner
  <2> QED BY <2>6 DEF entry
<1> QED BY <1>1, EngineInvariance, PTL

-----------------------------------------------------------------------------
(* Limits take and never give.                                             *)

\* Candidates are those of some group's outcome.
LEMMA CandidateOutcome ==
    ASSUME EngineInv, NEW p \in Purchases, NEW c \in Candidates(p)
    PROVE  /\ Published
           /\ \E group \in graph.groups : \E cs :
                 GroupOutcome(group, cs) /\ \E i \in DOMAIN cs : cs[i] = c
<1>1. p \in Processed
  BY DEF Candidates, Processed
<1>2. PICK out : /\ Entries(calculation[p], out)
                 /\ \A group \in graph.groups : GroupOutcome(group, out[group])
  BY <1>1, EntryOfGroup
<1>3. Published
  BY <1>1, EntryOfGroup
<1> QED BY <1>2, <1>3, CandidateOfGroup

(***************************************************************************)
(* No limit makes a candidate worth more than it is without limits, if the *)
(* limits of the basis are on rates: a fixed award that such a limit cuts  *)
(* is replaced by a point for each unit of the basis that remains.         *)
(***************************************************************************)
THEOREM LimitsNeverGive == BasisLimitsOnRates => (Spec => []LimitsNeverRaise)
<1> SUFFICES ASSUME BasisLimitsOnRates PROVE Spec => []LimitsNeverRaise
  OBVIOUS
<1>1. BasisLimitsOnRates /\ EngineInv => LimitsNeverRaise
  <2> SUFFICES ASSUME BasisLimitsOnRates, EngineInv, NEW p \in Purchases, NEW c \in Candidates(p)
               PROVE  c.points <= c.raw
    BY DEF LimitsNeverRaise
  <2>1. PICK group \in graph.groups : \E cs :
          GroupOutcome(group, cs) /\ \E i \in DOMAIN cs : cs[i] = c
    BY CandidateOutcome
  <2> QED BY <2>1 DEF GroupOutcome, Bounded
<1>2. EngineInv => LimitsNeverRaise
  BY <1>1
<1> QED BY <1>2, EngineInvariance, PTL

-----------------------------------------------------------------------------
(* Limits.                                                                 *)

\* At most one limit is on each rule.
OneLimitEach == \A g \in Drafts : \A l, m \in ToSet(g.limits) : l.rule = m.rule => l = m

\* The candidate has been put under the limit, of which so much was used.
Under(c, l, used) ==
    /\ c.limit = l.id /\ c.usagePoints = c.points
    /\ l.maxBasis > 0 => /\ c.usageBasis = c.basis
                         /\ c.basis <= Larger(0, l.maxBasis - used.basis)
    /\ l.maxPoints > 0 => c.points <= Larger(0, l.maxPoints - used.points)

\* A candidate names a limit of its rule only, and is under it if it is the only one.
LimitsApplied(p, c) ==
    /\ c.limit # NoLimit => \E l \in ToSet(graph.limits) : l.id = c.limit /\ l.rule = c.rule
    /\ ~c.matched => c.points = 0
    /\ OneLimitEach /\ c.matched =>
          \A l \in ToSet(graph.limits) : l.rule = c.rule =>
              Under(c, l, CurrentLimitUsage(l, p.time))

\* One limit of the graph, if it is on the rule.
LEMMA LimitedUnder ==
    ASSUME Published, UsageRows, NEW p \in Purchases, NEW r \in graph.rules,
           NEW c \in CandidateType, NEW i \in 1..Len(graph.limits)
    PROVE  LET l == graph.limits[i]
           IN  /\ l.rule = r.id => Under(Limited(p, r, c, l), l, CurrentLimitUsage(l, p.time))
               /\ l.rule # r.id => Limited(p, r, c, l) = c
<1> DEFINE l == graph.limits[i]
           used == CurrentLimitUsage(l, p.time)
<1>1. /\ l \in AllLimits /\ l.maxPoints \in Int /\ l.maxBasis \in Int /\ used \in Uses
      /\ l.maxPoints > 0 \/ l.maxBasis > 0
  <2>1. /\ l \in AllLimits /\ l.maxPoints \in Int /\ l.maxBasis \in Int /\ used \in Uses
    BY GraphLimits, CurrentUsageType
  <2>2. ValidLimit(l)
    BY GraphLimits DEF Published, ValidateRuleGraphForPublish
  <2> QED BY <2>1, <2>2 DEF ValidLimit
<1>2. r.rate \in Int
  BY GraphRules
<1>3. ASSUME l.rule = r.id PROVE Under(Limited(p, r, c, l), l, used)
  <2> DEFINE d == ApplyLimit(c, r, l, used)
  <2>1. Limited(p, r, c, l) = d
    BY <1>3 DEF Limited
  <2> HIDE DEF l, used, d
  <2>2. /\ d.limit = l.id
        /\ l.maxBasis > 0 => d.usageBasis = d.basis /\ d.basis <= Larger(0, l.maxBasis - used.basis)
        /\ l.maxPoints > 0 => d.points <= Larger(0, l.maxPoints - used.points)
        /\ l.maxBasis > 0 \/ l.maxPoints > 0 => d.usagePoints = d.points
    BY <1>1, <1>2, ApplyLimitFields DEF d
  <2> QED BY <1>1, <2>1, <2>2 DEF Under
<1>4. ASSUME l.rule # r.id PROVE Limited(p, r, c, l) = c
  BY <1>4 DEF Limited
<1> QED BY <1>3, <1>4

\* A rule's candidate after all limits of the graph.
LEMMA RuleCandidateUnder ==
    ASSUME Published, UsageRows, NEW p \in Purchases, NEW r \in graph.rules, NEW basis \in Int
    PROVE  LET c == EvaluateRuleCandidate(p, r, basis)
           IN  /\ c.limit # NoLimit =>
                     \E l \in ToSet(graph.limits) : l.id = c.limit /\ l.rule = r.id
               /\ OneLimitEach /\ c.matched =>
                     \A l \in ToSet(graph.limits) : l.rule = r.id =>
                         Under(c, l, CurrentLimitUsage(l, p.time))
<1>1. CASE ~EligibleForRule(p, r)
  <2>1. EvaluateRuleCandidate(p, r, basis) = Unmatched(r)
    BY <1>1 DEF EvaluateRuleCandidate
  <2>2. Unmatched(r).limit = NoLimit /\ ~Unmatched(r).matched
    BY DEF Unmatched
  <2> QED BY <2>1, <2>2
<1>2. CASE EligibleForRule(p, r)
  <2> DEFINE n == Len(graph.limits)
             Used(l) == CurrentLimitUsage(l, p.time)
  <2>1. Matched(r, basis) \in CandidateType
    BY MatchedFields
  <2>2. PICK run \in [0..n -> CandidateType] :
          /\ run[0] = Matched(r, basis)
          /\ \A i \in 1..n : run[i] = Limited(p, r, run[i - 1], graph.limits[i])
          /\ FoldLeft(LAMBDA c, l : Limited(p, r, c, l), Matched(r, basis), graph.limits) = run[n]
    BY <2>1, LimitsRun
  <2>3. EvaluateRuleCandidate(p, r, basis) = run[n]
    BY <1>2, <2>2 DEF EvaluateRuleCandidate
  <2> DEFINE Names(c) == c.limit # NoLimit =>
                            \E l \in ToSet(graph.limits) : l.id = c.limit /\ l.rule = r.id
             Applied(c, i) == OneLimitEach =>
                                 \A k \in 1..i : graph.limits[k].rule = r.id =>
                                     Under(c, graph.limits[k], Used(graph.limits[k]))
             G == {i \in 0..n : Names(run[i]) /\ Applied(run[i], i)}
  <2>4. n \in Nat /\ \A i \in 1..n : graph.limits[i] \in ToSet(graph.limits)
    BY GraphLimits
  <2>5. 0 \in G
    <3>1. Matched(r, basis).limit = NoLimit
      BY MatchedFields
    <3>2. 0 \in 0..n
      BY <2>4
    <3>3. Names(run[0]) /\ Applied(run[0], 0)
      <4>1. run[0].limit = NoLimit
        BY <2>2, <3>1
      <4> QED BY <4>1
    <3> HIDE DEF Names, Applied, n
    <3> QED BY <3>2, <3>3
  <2>6. ASSUME NEW i \in 1..n, i - 1 \in G PROVE i \in G
    <3> DEFINE before == run[i - 1]
               after == run[i]
               m == graph.limits[i]
    <3>1. i \in 0..n /\ Names(before) /\ Applied(before, i - 1)
      BY <2>4, <2>6
    <3>2. before \in CandidateType /\ after = Limited(p, r, before, m)
      <4>1. i - 1 \in 0..n
        BY <2>4
      <4> QED BY <2>2, <4>1
    <3>3. /\ m \in ToSet(graph.limits)
          /\ m.rule = r.id => Under(after, m, Used(m))
          /\ m.rule # r.id => after = before
      <4> HIDE DEF before, after, Used
      <4> QED BY <2>4, <3>2, LimitedUnder DEF Used
    <3> HIDE DEF before, after, m, Used
    <3>4. Names(after)
      BY <3>1, <3>3 DEF Under
    <3>5. ASSUME OneLimitEach, NEW k \in 1..i, graph.limits[k].rule = r.id
          PROVE  Under(after, graph.limits[k], Used(graph.limits[k]))
      <4>1. CASE m.rule = r.id
        <5>1. k \in 1..n
          BY <2>4
        <5>2. graph.limits[k] = m
          BY <2>4, <3>3, <3>5, <4>1, <5>1 DEF OneLimitEach, Published
        <5> QED BY <3>3, <4>1, <5>2
      <4>2. CASE m.rule # r.id
        <5>1. k # i
          BY <3>5, <4>2 DEF m
        <5>2. k \in 1..(i - 1)
          BY <5>1
        <5> QED BY <3>1, <3>3, <3>5, <4>2, <5>2
      <4> QED BY <4>1, <4>2
    <3>6. Applied(after, i)
      BY <3>5
    <3> HIDE DEF Names, Applied
    <3> QED BY <3>1, <3>4, <3>6 DEF after
  <2>7. n \in G
    <3>1. \A i \in 0..n : i \in G
      <4> HIDE DEF G, n
      <4>1. n \in Nat
        BY <2>4
      <4> QED BY <2>5, <2>6, <4>1, CountingInduction
    <3>2. n \in 0..n
      BY <2>4
    <3> HIDE DEF G, n
    <3> QED BY <3>1, <3>2
  <2> DEFINE c == EvaluateRuleCandidate(p, r, basis)
  <2>8. Names(c) /\ Applied(c, n)
    BY <2>3, <2>7
  <2> HIDE DEF c
  <2>9. ASSUME OneLimitEach, NEW l \in ToSet(graph.limits), l.rule = r.id
        PROVE  Under(c, l, Used(l))
    <3>1. PICK k \in 1..n : graph.limits[k] = l
      BY GraphLimits
    <3> QED BY <2>8, <2>9, <3>1
  <2> QED BY <2>8, <2>9 DEF c
<1> QED BY <1>1, <1>2

\* The same after dependencies and strategy are applied.
LEMMA EvaluateUnder ==
    ASSUME Published, UsageRows, NEW p \in Purchases, NEW group, NEW done \in Dones,
           NEW r \in graph.rules
    PROVE  LimitsApplied(p, Evaluate(p, group, done, r))
<1> DEFINE c == Evaluate(p, group, done, r)
           basis == IF group.strategy = "waterfall" THEN WaterfallBasis(r, done.remaining)
                    ELSE BasisForRule(p, r)
           plain == IF DependenciesSatisfied(r, done.candidates)
                    THEN EvaluateRuleCandidate(p, r, basis) ELSE Unmatched(r)
           awarded == group.strategy # "max_of" /\ plain.points # 0
<1>1. c = [plain EXCEPT !.selected = awarded]
  BY DEF Evaluate
<1>2. basis \in Int
  <2>1. done.remaining \in [Category -> Int]
    BY DEF Dones
  <2> QED BY <2>1, WaterfallBasisType, BasisForRuleType
<1> HIDE DEF basis
<1>3. /\ plain \in CandidateType /\ plain.rule = r.id
      /\ ~plain.matched => plain.points = 0
      /\ plain.limit # NoLimit => \E l \in ToSet(graph.limits) : l.id = plain.limit /\ l.rule = r.id
      /\ OneLimitEach /\ plain.matched =>
            \A l \in ToSet(graph.limits) : l.rule = r.id =>
                Under(plain, l, CurrentLimitUsage(l, p.time))
  <2>1. CASE DependenciesSatisfied(r, done.candidates)
    <3>1. plain = EvaluateRuleCandidate(p, r, basis)
      BY <2>1
    <3> HIDE DEF plain
    <3>2. /\ plain \in CandidateType /\ plain.rule = r.id
          /\ ~plain.matched => plain = Unmatched(r)
      BY <1>2, <3>1, RuleCandidateFields
    <3> QED BY <1>2, <3>1, <3>2, RuleCandidateUnder, UnmatchedFields
  <2>2. CASE ~DependenciesSatisfied(r, done.candidates)
    <3>1. plain = Unmatched(r)
      BY <2>2
    <3>2. Unmatched(r).limit = NoLimit
      BY DEF Unmatched
    <3> HIDE DEF plain
    <3> QED BY <3>1, <3>2, UnmatchedFields
  <2> QED BY <2>1, <2>2
<1>4. awarded \in BOOLEAN /\ (awarded => plain.points # 0)
  OBVIOUS
<1> HIDE DEF c, plain, awarded
<1>5. /\ c.rule = plain.rule /\ c.matched = plain.matched /\ c.limit = plain.limit
      /\ c.basis = plain.basis /\ c.points = plain.points /\ c.selected = awarded
      /\ c.usagePoints = plain.usagePoints /\ c.usageBasis = plain.usageBasis
  BY <1>1, <1>3, <1>4 DEF CandidateType
<1>6. \A l, used : Under(plain, l, used) => Under(c, l, used)
  BY <1>5 DEF Under
<1> QED BY <1>3, <1>4, <1>5, <1>6 DEF LimitsApplied, c

\* The candidates of a group have been put under their limits.
LEMMA EvaluateGroupUnder ==
    ASSUME Published, UsageRows, NEW p \in Purchases, NEW group \in graph.groups,
           NEW order \in Orders(group)
    PROVE  LET out == EvaluateGroup(p, group, order)
           IN  \A i \in DOMAIN out : LimitsApplied(p, out[i])
<1> DEFINE n == Len(order)
<1>1. PICK run : /\ Evaluated(p, group, order, run)
                 /\ EvaluateGroup(p, group, order)
                       = IF group.strategy = "max_of" THEN SelectHighest(run[n].candidates)
                         ELSE run[n].candidates
  BY EvaluationRun
<1> DEFINE cs == run[n].candidates
           out == EvaluateGroup(p, group, order)
<1>2. n \in Nat /\ \A i \in 1..n : order[i] \in graph.rules
  BY OrderOfRules
<1>3. /\ run[n] \in Dones /\ Len(cs) = n /\ DOMAIN cs = 1..n
      /\ \A i \in 1..n : cs[i] = Evaluate(p, group, run[i - 1], order[i])
  BY <1>1, <1>2, EvaluationSteps
<1>4. cs \in Seq(CandidateType)
  BY <1>3 DEF Dones
<1>5. ASSUME NEW i \in 1..n PROVE LimitsApplied(p, cs[i])
  <2> DEFINE done == run[i - 1]
             r == order[i]
  <2>1. done \in Dones /\ r \in graph.rules /\ cs[i] = Evaluate(p, group, done, r)
    <3>1. i - 1 \in 0..n
      BY <1>2
    <3> QED BY <1>1, <1>2, <1>3, <3>1 DEF Evaluated
  <2> HIDE DEF done, r, cs
  <2> QED BY <2>1, EvaluateUnder
<1>6. CASE group.strategy # "max_of"
  <2>1. out = cs
    BY <1>1, <1>6
  <2> HIDE DEF out, cs
  <2> QED BY <1>3, <1>5, <2>1 DEF out
<1>7. CASE group.strategy = "max_of"
  <2>1. out = SelectHighest(cs)
    BY <1>1, <1>7
  <2> HIDE DEF out, cs
  <2>2. /\ out \in Seq(CandidateType) /\ Len(out) = Len(cs)
        /\ \A i \in DOMAIN cs :
              /\ out[i].rule = cs[i].rule /\ out[i].matched = cs[i].matched
              /\ out[i].points = cs[i].points
              /\ out[i].basis = cs[i].basis /\ out[i].limit = cs[i].limit
              /\ out[i].usagePoints = cs[i].usagePoints
              /\ out[i].usageBasis = cs[i].usageBasis
    BY <1>4, <2>1, SelectHighestFields
  <2>3. DOMAIN out = 1..n
    BY <1>3, <2>2
  <2>4. ASSUME NEW i \in 1..n PROVE LimitsApplied(p, out[i])
    <3>1. /\ out[i].rule = cs[i].rule /\ out[i].matched = cs[i].matched
          /\ out[i].points = cs[i].points
          /\ out[i].basis = cs[i].basis /\ out[i].limit = cs[i].limit
          /\ out[i].usagePoints = cs[i].usagePoints
          /\ out[i].usageBasis = cs[i].usageBasis
      BY <1>3, <2>2
    <3>2. LimitsApplied(p, cs[i])
      BY <1>5
    <3>3. \A l, used : Under(cs[i], l, used) => Under(out[i], l, used)
      BY <3>1 DEF Under
    <3> QED BY <3>1, <3>2, <3>3 DEF LimitsApplied
  <2> QED BY <2>3, <2>4 DEF out
<1> QED BY <1>6, <1>7

-----------------------------------------------------------------------------

\* A sum over nothing, and over one.
LEMMA SumFew ==
    ASSUME NEW f
    PROVE  /\ DOMAIN f = {} => SumFunction(f) = 0
           /\ \A y : DOMAIN f = {y} /\ f[y] \in Int => SumFunction(f) = f[y]
<1>1. SumFunction(f) = Total(f, DOMAIN f)
  BY DEF SumFunction, Total
<1>2. ASSUME NEW y, DOMAIN f = {y}, f[y] \in Int PROVE SumFunction(f) = f[y]
  <2>1. y \notin {} /\ {} \cup {y} = {y} /\ Summable(f, {} \cup {y})
    <3>1. IsFiniteSet({y})
      BY FS_Singleton
    <3>2. Summable(f, {y})
      BY <1>2, <3>1 DEF Summable
    <3>3. {} \cup {y} = {y}
      OBVIOUS
    <3> QED BY <3>2, <3>3
  <2>2. Total(f, {} \cup {y}) = f[y] + Total(f, {})
    BY <2>1, TotalAdd
  <2> QED BY <1>1, <1>2, <2>1, <2>2, TotalEmpty
<1> QED BY <1>1, <1>2, TotalEmpty

\* The awards of a limit are within it and add up to its usage.
LimitKept(l, awards, used) ==
    /\ IsFiniteSet(awards) /\ \A a \in awards : a[2] \in CandidateType
    /\ used.points = SumFunction([a \in awards |-> a[2].points])
    /\ l.maxBasis > 0 => used.basis = SumFunction([a \in awards |-> a[2].basis])
    /\ l.maxPoints > 0 => used.points <= l.maxPoints
    /\ l.maxBasis > 0 => used.basis <= l.maxBasis

\* A limit without awards or usage is kept.
LEMMA NothingAwarded ==
    ASSUME NEW l, l.maxPoints \in Int, l.maxBasis \in Int
    PROVE  LimitKept(l, {}, NoUse)
<1>1. /\ SumFunction([a \in {} |-> a[2].points]) = 0
      /\ SumFunction([a \in {} |-> a[2].basis]) = 0
  <2>1. DOMAIN [a \in {} |-> a[2].points] = {} /\ DOMAIN [a \in {} |-> a[2].basis] = {}
    OBVIOUS
  <2> QED BY <2>1, SumFew
<1> QED BY <1>1, FS_EmptySet DEF LimitKept, NoUse

\* An award under a limit, with its usage, keeps the limit.
LEMMA OneMoreAward ==
    ASSUME NEW l, l.maxPoints \in Int, l.maxBasis \in Int, NEW awards, NEW used \in Uses,
           LimitKept(l, awards, used), NEW x, x \notin awards, x[2] \in CandidateType,
           Under(x[2], l, used), NEW more \in Uses,
           more.points = used.points + x[2].points, more.basis = used.basis + x[2].usageBasis
    PROVE  LimitKept(l, awards \cup {x}, more)
<1> DEFINE Points(S) == [a \in S |-> a[2].points]
           Basis(S) == [a \in S |-> a[2].basis]
           all == awards \cup {x}
<1>1. /\ IsFiniteSet(all) /\ IsFiniteSet(awards)
      /\ \A a \in all : a[2] \in CandidateType
  BY FS_AddElement DEF LimitKept
<1>2. /\ \A c \in CandidateType : c.points \in Nat /\ c.basis \in Int /\ c.usageBasis \in Int
      /\ used.points \in Nat /\ used.basis \in Int
  BY DEF CandidateType, Uses
<1>3. \A a \in all : Points(all)[a] = a[2].points /\ Basis(all)[a] = a[2].basis
  OBVIOUS
<1>4. /\ Summable(Points(all), all) /\ Summable(Basis(all), all)
      /\ Summable(Points(awards), awards) /\ Summable(Basis(awards), awards)
  BY <1>1, <1>2 DEF Summable
<1>5. /\ Total(Points(all), all) = x[2].points + Total(Points(all), awards)
      /\ Total(Basis(all), all) = x[2].basis + Total(Basis(all), awards)
  <2> PICK f, g : f = Points(all) /\ g = Basis(all)
    OBVIOUS
  <2>1. f[x] = x[2].points /\ g[x] = x[2].basis
    BY <1>3
  <2>2. Summable(f, awards \cup {x}) /\ Summable(g, awards \cup {x})
    BY <1>4
  <2>3. Total(f, awards \cup {x}) = f[x] + Total(f, awards)
    BY <2>2, TotalAdd
  <2>4. Total(g, awards \cup {x}) = g[x] + Total(g, awards)
    BY <2>2, TotalAdd
  <2> HIDE DEF Points, Basis
  <2> QED BY <2>1, <2>3, <2>4
<1>6. /\ Total(Points(awards), awards) = Total(Points(all), awards)
      /\ Total(Basis(awards), awards) = Total(Basis(all), awards)
  <2>1. \A a \in awards : Points(awards)[a] = Points(all)[a] /\ Basis(awards)[a] = Basis(all)[a]
    OBVIOUS
  <2> HIDE DEF Points, Basis, all
  <2> QED BY <1>4, <2>1, TotalEqual
<1>7. /\ SumFunction(Points(all)) = Total(Points(all), all)
      /\ SumFunction(Basis(all)) = Total(Basis(all), all)
      /\ SumFunction(Points(awards)) = Total(Points(awards), awards)
      /\ SumFunction(Basis(awards)) = Total(Basis(awards), awards)
  BY DEF SumFunction, Total
<1>8. /\ used.points = SumFunction(Points(awards))
      /\ l.maxBasis > 0 => used.basis = SumFunction(Basis(awards))
      /\ l.maxPoints > 0 => used.points <= l.maxPoints
      /\ l.maxBasis > 0 => used.basis <= l.maxBasis
  BY DEF LimitKept
<1> HIDE DEF Points, Basis, all
<1>9. /\ l.maxBasis > 0 => /\ x[2].usageBasis = x[2].basis
                           /\ x[2].basis <= l.maxBasis - used.basis
      /\ l.maxPoints > 0 => x[2].points <= l.maxPoints - used.points
  BY <1>2, <1>8 DEF Under, Larger
<1>10. /\ more.points = SumFunction(Points(all))
       /\ l.maxBasis > 0 => more.basis = SumFunction(Basis(all))
       /\ l.maxPoints > 0 => more.points <= l.maxPoints
       /\ l.maxBasis > 0 => more.basis <= l.maxBasis
  BY <1>2, <1>5, <1>6, <1>7, <1>8, <1>9
<1> QED BY <1>1, <1>10 DEF LimitKept, Points, Basis, all

Keys(l) == {PeriodKey(l.period, p.time) : p \in Purchases}

\* Usage starts from nothing, and every limit is kept in every period.
LimitInv ==
    /\ graph = NoGraph => \A u \in UsageKeys : usage[u] = NoUse
    /\ \A l \in Limits : \A key \in Keys(l) :
          LimitKept(l, AwardsUnder(l, key), usage[<<l.id, key>>])

\* A limit in force is one of a published graph, and has its rows.
LEMMA LimitOfGraph ==
    ASSUME EngineInv, NEW l \in Limits
    PROVE  /\ Published /\ l \in ToSet(graph.limits) /\ l \in AllLimits
           /\ l.maxPoints \in Int /\ l.maxBasis \in Int /\ l.id # NoLimit
           /\ \A key \in Keys(l) : <<l.id, key>> \in UsageKeys
<1>1. graph # NoGraph /\ l \in ToSet(graph.limits)
  BY DEF Limits
<1>2. Published
  BY <1>1 DEF EngineInv, Published
<1>3. PICK i \in 1..Len(graph.limits) : graph.limits[i] = l
  BY <1>1, <1>2, GraphLimits
<1>4. l \in AllLimits /\ l.maxPoints \in Int /\ l.maxBasis \in Int /\ l.id # NoLimit
  BY <1>2, <1>3, GraphLimits
<1>5. \A key \in Keys(l) : <<l.id, key>> \in UsageKeys
  BY <1>4 DEF Keys, UsageKeys
<1> QED BY <1>1, <1>2, <1>4, <1>5

\* An award is a purchase and a candidate selected for it.
LEMMA AwardMember ==
    ASSUME NEW l, NEW key, NEW x
    PROVE  x \in AwardsUnder(l, key) <=>
              \E p \in Processed : /\ PeriodKey(l.period, p.time) = key
                                   /\ \E c \in Selected(p) : c.rule = l.rule /\ x = <<p, c>>
BY DEF AwardsUnder

\* Of each rule there is one candidate among all groups.
LEMMA OneCandidateEach ==
    ASSUME Published, NEW groups, NEW out, Entries(groups, out),
           \A group \in graph.groups : GroupOutcome(group, out[group]),
           NEW c \in UNION {ToSet(t.candidates) : t \in groups},
           NEW d \in UNION {ToSet(t.candidates) : t \in groups}, c.rule = d.rule
    PROVE  c = d
<1>1. ASSUME NEW e \in UNION {ToSet(t.candidates) : t \in groups}
      PROVE  \E group \in graph.groups : \E i \in DOMAIN out[group] : out[group][i] = e
  <2>1. PICK group \in graph.groups : e \in ToSet(out[group])
    BY EntriesHaveCandidates
  <2> QED BY <2>1 DEF ToSet
<1>2. PICK group \in graph.groups : \E i \in DOMAIN out[group] : out[group][i] = c
  BY <1>1
<1>3. PICK other \in graph.groups : \E k \in DOMAIN out[other] : out[other][k] = d
  BY <1>1
<1>4. OfRules(group, out[group]) /\ OfRules(other, out[other])
  BY DEF GroupOutcome
<1>5. PICK i \in DOMAIN out[group] : out[group][i] = c
  BY <1>2
<1>6. PICK k \in DOMAIN out[other] : out[other][k] = d
  BY <1>3
<1>7. PICK r \in RulesOf(graph, group) : c.rule = r.id
  BY <1>4, <1>5, CandidatesOfRules
<1>8. PICK s \in RulesOf(graph, other) : d.rule = s.id
  BY <1>4, <1>6, CandidatesOfRules
<1>9. r = s
  <2>1. r \in graph.rules /\ s \in graph.rules
    BY DEF RulesOf
  <2> QED BY <1>7, <1>8, <2>1, GraphRules
<1>10. other = group
  <2>1. r.group = group.id /\ s.group = other.id
    BY DEF RulesOf
  <2> QED BY <1>9, <2>1, DraftAssumption DEF Published
<1> QED BY <1>4, <1>5, <1>6, <1>10, CandidatesOfRules

\* What a purchase adds to the awards.
LEMMA SelectedAfter ==
    ASSUME EngineInv, NEW p \in Purchases, NEW groups, groups # {}, p \notin Processed,
           calculation' = [calculation EXCEPT ![p] = groups], graph' = graph
    PROVE  /\ Processed' = Processed \cup {p}
           /\ \A q \in Processed : Selected(q)' = Selected(q)
           /\ Selected(p)' = {c \in UNION {ToSet(t.candidates) : t \in groups} : c.selected}
<1>1. /\ DOMAIN calculation = Purchases /\ calculation'[p] = groups
      /\ \A q \in Purchases : q # p => calculation'[q] = calculation[q]
  BY DEF EngineInv
<1>2. Processed' = Processed \cup {p}
  BY <1>1 DEF Processed
<1>3. ASSUME NEW q \in Processed PROVE Selected(q)' = Selected(q)
  <2>1. calculation'[q] = calculation[q]
    BY <1>1 DEF Processed
  <2> QED BY <2>1 DEF Selected, Candidates
<1>4. Selected(p)' = {c \in UNION {ToSet(t.candidates) : t \in groups} : c.selected}
  BY <1>1 DEF Selected, Candidates
<1> QED BY <1>2, <1>3, <1>4

\* The awards of a limit after a purchase are those before and its own.
LEMMA AwardsAfter ==
    ASSUME EngineInv, NEW p \in Purchases, p \notin Processed, Processed' = Processed \cup {p},
           \A q \in Processed : Selected(q)' = Selected(q),
           NEW chosen, Selected(p)' = chosen, NEW l, NEW key
    PROVE  AwardsUnder(l, key)' =
              AwardsUnder(l, key) \cup
                 {x \in {<<p, c>> : c \in {d \in chosen : d.rule = l.rule}} :
                     PeriodKey(l.period, p.time) = key}
<1> DEFINE new == {x \in {<<p, c>> : c \in {d \in chosen : d.rule = l.rule}} :
                     PeriodKey(l.period, p.time) = key}
<1>1. \A x : x \in AwardsUnder(l, key)' <=>
              \E q \in Processed' : /\ PeriodKey(l.period, q.time) = key
                                    /\ \E c \in Selected(q)' : c.rule = l.rule /\ x = <<q, c>>
  BY DEF AwardsUnder
<1>2. \A x : x \in new <=> /\ PeriodKey(l.period, p.time) = key
                           /\ \E c \in Selected(p)' : c.rule = l.rule /\ x = <<p, c>>
  OBVIOUS
<1>3. \A x : x \in AwardsUnder(l, key)' <=> x \in AwardsUnder(l, key) \/ x \in new
  <2> HIDE DEF new
  <2>1. ASSUME NEW x \in AwardsUnder(l, key)' PROVE x \in AwardsUnder(l, key) \/ x \in new
    <3>1. PICK q \in Processed' : /\ PeriodKey(l.period, q.time) = key
                                  /\ \E c \in Selected(q)' : c.rule = l.rule /\ x = <<q, c>>
      BY <1>1
    <3>2. CASE q = p
      BY <1>2, <3>1, <3>2
    <3>3. CASE q # p
      <4>1. q \in Processed /\ Selected(q)' = Selected(q)
        BY <3>3
      <4>2. \E c \in Selected(q) : c.rule = l.rule /\ x = <<q, c>>
        BY <3>1, <4>1
      <4> QED BY <3>1, <4>1, <4>2, AwardMember
    <3> QED BY <3>2, <3>3
  <2>2. ASSUME NEW x \in AwardsUnder(l, key) PROVE x \in AwardsUnder(l, key)'
    <3>1. PICK q \in Processed : /\ PeriodKey(l.period, q.time) = key
                                 /\ \E c \in Selected(q) : c.rule = l.rule /\ x = <<q, c>>
      BY AwardMember
    <3>2. \E c \in Selected(q)' : c.rule = l.rule /\ x = <<q, c>>
      BY <3>1
    <3> QED BY <1>1, <3>1, <3>2
  <2>3. ASSUME NEW x \in new PROVE x \in AwardsUnder(l, key)'
    BY <1>1, <1>2, <2>3
  <2> QED BY <2>1, <2>2, <2>3
<1> HIDE DEF new
<1>4. AwardsUnder(l, key)' = AwardsUnder(l, key) \cup new
  BY <1>3
<1> QED BY <1>4 DEF new

\* Among the selected candidates, those that use a limit in a period.
LEMMA UsersOfLimit ==
    ASSUME Published, NEW p \in Purchases, OneLimitEach,
           NEW chosen \in SUBSET CandidateType,
           \A c \in chosen : LimitsApplied(p, c) /\ c.points # 0,
           NEW l \in ToSet(graph.limits), NEW key
    PROVE  {c \in chosen : c.limit # NoLimit /\ UsageRow(c, p.time) = <<l.id, key>>}
              = {c \in chosen : c.rule = l.rule /\ PeriodKey(l.period, p.time) = key}
<1>1. \A m \in ToSet(graph.limits) : m.id = l.id => m = l
  BY GraphLimits
<1>2. l.id # NoLimit
  <2>1. PICK i \in 1..Len(graph.limits) : graph.limits[i] = l
    BY GraphLimits
  <2> QED BY <2>1, GraphLimits
<1>3. ASSUME NEW c \in chosen
      PROVE  c.limit # NoLimit /\ UsageRow(c, p.time) = <<l.id, key>> <=>
                c.rule = l.rule /\ PeriodKey(l.period, p.time) = key
  <2>1. /\ c.limit # NoLimit => \E m \in ToSet(graph.limits) : m.id = c.limit /\ m.rule = c.rule
        /\ l.rule = c.rule => c.limit = l.id
    BY DEF LimitsApplied, Under
  <2>2. ASSUME c.limit = l.id
        PROVE  /\ c.rule = l.rule
               /\ UsageRow(c, p.time) = <<l.id, PeriodKey(l.period, p.time)>>
    <3>1. c.rule = l.rule
      BY <1>1, <1>2, <2>1, <2>2
    <3>2. (CHOOSE m \in ToSet(graph.limits) : m.id = c.limit) = l
      BY <1>1, <2>2
    <3> QED BY <3>1, <3>2 DEF UsageRow
  <2>3. ASSUME c.limit # NoLimit, UsageRow(c, p.time) = <<l.id, key>> PROVE c.limit = l.id
    <3> DEFINE m == CHOOSE m \in ToSet(graph.limits) : m.id = c.limit
    <3>1. m.id = c.limit
      BY <2>1, <2>3
    <3>2. UsageRow(c, p.time) = <<m.id, PeriodKey(m.period, p.time)>>
      BY DEF UsageRow
    <3> HIDE DEF m
    <3> QED BY <2>3, <3>1, <3>2
  <2> QED BY <1>2, <2>1, <2>2, <2>3
<1> QED BY <1>3

\* A limit that no candidate names is used no more than before.
LEMMA WithUsageNone ==
    ASSUME UsageRows, NEW C \in SUBSET CandidateType, NEW time, NEW u \in UsageKeys,
           {c \in C : c.limit # NoLimit /\ UsageRow(c, time) = u} = {}
    PROVE  WithUsage(C, time)[u] = usage[u]
<1> DEFINE users == {c \in C : c.limit # NoLimit /\ UsageRow(c, time) = u}
           Points == [c \in users |-> c.usagePoints]
           Basis == [c \in users |-> c.usageBasis]
           after == WithUsage(C, time)[u]
<1>1. /\ DOMAIN usage = UsageKeys /\ usage[u] \in Uses
      /\ usage[u].points \in Nat /\ usage[u].basis \in Int
  BY DEF UsageRows, Uses
<1>2. after = [points |-> usage[u].points + SumFunction(Points),
               basis |-> usage[u].basis + SumFunction(Basis)]
  BY <1>1 DEF WithUsage
<1>3. DOMAIN Points = {} /\ DOMAIN Basis = {}
  OBVIOUS
<1> HIDE DEF Points, Basis, after
<1>4. SumFunction(Points) = 0 /\ SumFunction(Basis) = 0
  BY <1>3, SumFew
<1>5. after = [points |-> usage[u].points, basis |-> usage[u].basis]
  BY <1>1, <1>2, <1>4
<1> QED BY <1>1, <1>5 DEF Uses, after

\* The usage that is committed, in the row of one candidate.
LEMMA WithUsageOne ==
    ASSUME UsageRows, NEW C \in SUBSET CandidateType, NEW time, NEW u \in UsageKeys, NEW c,
           {d \in C : d.limit # NoLimit /\ UsageRow(d, time) = u} = {c}
    PROVE  /\ WithUsage(C, time)[u].points = usage[u].points + c.usagePoints
           /\ WithUsage(C, time)[u].basis = usage[u].basis + c.usageBasis
<1> DEFINE users == {d \in C : d.limit # NoLimit /\ UsageRow(d, time) = u}
           Points == [d \in users |-> d.usagePoints]
           Basis == [d \in users |-> d.usageBasis]
           after == WithUsage(C, time)[u]
<1>1. /\ DOMAIN usage = UsageKeys /\ usage[u] \in Uses
      /\ usage[u].points \in Nat /\ usage[u].basis \in Int
  BY DEF UsageRows, Uses
<1>2. after = [points |-> usage[u].points + SumFunction(Points),
               basis |-> usage[u].basis + SumFunction(Basis)]
  BY <1>1 DEF WithUsage
<1>3. DOMAIN Points = users /\ DOMAIN Basis = users /\ users = {c}
  OBVIOUS
<1>4. c \in users
  BY <1>3
<1>5. Points[c] = c.usagePoints /\ Basis[c] = c.usageBasis /\ c \in CandidateType
  BY <1>4
<1>6. c.usagePoints \in Int /\ c.usageBasis \in Int
  BY <1>5 DEF CandidateType
<1> HIDE DEF users, Points, Basis, after
<1>7. SumFunction(Points) = Points[c] /\ SumFunction(Basis) = Basis[c]
  BY <1>3, <1>5, <1>6, SumFew
<1>8. after.points = usage[u].points + c.usagePoints /\ after.basis = usage[u].basis + c.usageBasis
  BY <1>2, <1>5, <1>7
<1> QED BY <1>8 DEF after

\* Without a graph there are no limits to keep.
LEMMA LimitInit == Init => LimitInv
<1> SUFFICES ASSUME Init PROVE LimitInv
  OBVIOUS
<1>1. usage = [u \in UsageKeys |-> NoUse] /\ graph = NoGraph
  BY DEF Init, UsageKeys
<1> QED BY <1>1 DEF LimitInv, Limits

\* Before the first purchase nothing is used.
LEMMA PublishKeepsLimits ==
    ASSUME EngineInv, LimitInv, NEW g \in Drafts, Publish(g)
    PROVE  LimitInv'
<1>1. /\ graph = NoGraph /\ graph' = g /\ usage' = usage /\ calculation' = calculation
      /\ EngineInv'
  BY PublishKeeps DEF Publish
<1>2. graph' # NoGraph /\ Processed' = {}
  BY <1>1, GraphAssumption DEF EngineInv, Processed
<1>3. ASSUME NEW l \in Limits', NEW key \in Keys(l)
      PROVE  LimitKept(l, AwardsUnder(l, key), usage[<<l.id, key>>])'
  <2>1. l \in AllLimits /\ l.maxPoints \in Int /\ l.maxBasis \in Int
    <3>1. l \in ToSet(g.limits)
      BY <1>1, <1>3 DEF Limits
    <3> QED BY <3>1, DraftAssumption DEF AllLimits
  <2>2. <<l.id, key>> \in UsageKeys
    BY <1>3, <2>1 DEF Keys, UsageKeys
  <2>3. AwardsUnder(l, key)' = {}
    BY <1>2 DEF AwardsUnder
  <2>4. usage'[<<l.id, key>>] = NoUse
    BY <1>1, <2>2 DEF LimitInv
  <2>5. LimitKept(l, {}, NoUse)
    BY <2>1, NothingAwarded
  <2>6. LimitKept(l, AwardsUnder(l, key)', usage'[<<l.id, key>>])
    BY <2>3, <2>4, <2>5
  <2> QED BY <2>6 DEF LimitKept
<1>4. \A l \in Limits' : \A key \in Keys(l) :
         LimitKept(l, AwardsUnder(l, key), usage[<<l.id, key>>])'
  BY <1>3
<1>5. \A l : Keys(l)' = Keys(l)
  BY DEF Keys, PeriodKey
<1> QED BY <1>2, <1>4, <1>5 DEF LimitInv, Keys, PeriodKey

\* A purchase keeps every limit: its candidate of the limit's rule, if selected, was
\* put under the usage that is then raised by it; without one, usage stays.
LEMMA CalculateKeepsLimits ==
    ASSUME EngineInv, LimitInv, OneLimitEach, NEW p \in Purchases, CalculatePurchase(p)
    PROVE  LimitInv'
<1>1. Published /\ p \notin Processed /\ graph' = graph
  BY CalculatePurchaseOutcome
<1>2. PICK trace, out, groups :
        /\ Entries(groups, out)
        /\ \A group \in graph.groups :
              /\ trace[group] \in Orders(group)
              /\ out[group] = EvaluateGroup(p, group, trace[group])
              /\ GroupOutcome(group, out[group])
        /\ calculation' = [calculation EXCEPT ![p] = groups]
        /\ usage' = WithUsage({c \in UNION {ToSet(t.candidates) : t \in groups} : c.selected},
                              p.time)
  BY CalculatePurchaseOutcome
<1>3. PICK C : C = UNION {ToSet(t.candidates) : t \in groups}
  OBVIOUS
<1>4. PICK chosen : chosen = {c \in C : c.selected}
  OBVIOUS
<1>5. C \subseteq CandidateType /\ chosen \in SUBSET CandidateType
  <2>1. C \subseteq CandidateType
    BY <1>1, <1>2, <1>3, CandidatesAreFinite
  <2> QED BY <1>4, <2>1
<1>6. \A c, d \in chosen : c.rule = d.rule => c = d
  <2>1. \A c, d \in C : c.rule = d.rule => c = d
    BY <1>1, <1>2, <1>3, OneCandidateEach
  <2> QED BY <1>4, <2>1
<1>7. ASSUME NEW c \in chosen PROVE LimitsApplied(p, c) /\ c.points # 0 /\ c.matched
  <2>1. PICK group \in graph.groups : c \in ToSet(out[group])
    BY <1>2, <1>3, <1>4, EntriesHaveCandidates
  <2>2. PICK i \in DOMAIN out[group] : out[group][i] = c
    BY <2>1 DEF ToSet
  <2>3. LimitsApplied(p, out[group][i])
    <3> DEFINE made == EvaluateGroup(p, group, trace[group])
    <3>1. \A k \in DOMAIN made : LimitsApplied(p, made[k])
      BY <1>1, <1>2, EvaluateGroupUnder DEF EngineInv
    <3>2. out[group] = made
      BY <1>2
    <3> HIDE DEF made
    <3> QED BY <3>1, <3>2
  <2>4. c.points # 0
    <3>1. WinnersOnly(group, out[group]) /\ c.selected
      BY <1>2, <1>4 DEF GroupOutcome
    <3> QED BY <2>2, <3>1 DEF WinnersOnly
  <2> QED BY <2>2, <2>3, <2>4 DEF LimitsApplied
<1>8. usage' = WithUsage(chosen, p.time)
  BY <1>2, <1>3, <1>4
<1>9. /\ Processed' = Processed \cup {p}
      /\ \A q \in Processed : Selected(q)' = Selected(q)
      /\ Selected(p)' = chosen
  <2>1. groups # {}
    <3>1. graph.groups # {}
      BY <1>1 DEF Published, ValidateRuleGraphForPublish
    <3> QED BY <1>2, <3>1 DEF Entries
  <2> QED BY <1>1, <1>2, <1>3, <1>4, <2>1, SelectedAfter
<1>10. Limits' = Limits /\ EngineInv'
  BY <1>1, CalculateKeeps DEF Limits
<1>11. ASSUME NEW l \in Limits, NEW key \in Keys(l)
       PROVE  LimitKept(l, AwardsUnder(l, key)', usage'[<<l.id, key>>])
  <2> DEFINE u == <<l.id, key>>
             awards == AwardsUnder(l, key)
             users == {c \in chosen : c.limit # NoLimit /\ UsageRow(c, p.time) = u}
             of == {c \in chosen : c.rule = l.rule}
             now == PeriodKey(l.period, p.time) = key
             new == {x \in {<<p, c>> : c \in of} : now}
  <2>1. /\ l \in ToSet(graph.limits) /\ u \in UsageKeys
        /\ l.maxPoints \in Int /\ l.maxBasis \in Int
    BY LimitOfGraph
  <2>2. LimitKept(l, awards, usage[u])
    BY DEF LimitInv
  <2>3. AwardsUnder(l, key)' = awards \cup new
    BY <1>1, <1>9, AwardsAfter
  <2>4. users = {c \in of : now}
    <3>1. users = {c \in chosen : c.rule = l.rule /\ now}
      BY <1>1, <1>5, <1>7, <2>1, UsersOfLimit
    <3> QED BY <3>1
  <2>5. UsageRows /\ usage[u] \in Uses /\ usage'[u] \in Uses
    <3>1. UsageRows /\ usage[u] \in Uses
      BY <2>1 DEF EngineInv, UsageRows
    <3>2. usage' \in [UsageKeys -> Uses]
      BY <1>10 DEF EngineInv, UsageRows, UsageKeys
    <3> QED BY <2>1, <3>1, <3>2
  <2>6. CASE users = {}
    <3>1. usage'[u] = usage[u]
      <4> HIDE DEF u
      <4>1. WithUsage(chosen, p.time)[u] = usage[u]
        <5>1. {c \in chosen : c.limit # NoLimit /\ UsageRow(c, p.time) = u} = {}
          BY <2>6
        <5> HIDE DEF users, of, new, now, awards
        <5> QED BY <1>5, <2>1, <2>5, <5>1, WithUsageNone
      <4> QED BY <1>8, <4>1
    <3>2. new = {}
      BY <2>4, <2>6
    <3> HIDE DEF new, users, awards, u
    <3>3. AwardsUnder(l, key)' = awards
      BY <2>3, <3>2
    <3> QED BY <2>2, <3>1, <3>3 DEF u
  <2>7. CASE users # {}
    <3>1. PICK c \in of : now
      BY <2>4, <2>7
    <3>2. of = {c}
      BY <1>6
    <3>3. users = {c} /\ new = {<<p, c>>}
      BY <2>4, <3>1, <3>2
    <3>4. /\ usage'[u].points = usage[u].points + c.usagePoints
          /\ usage'[u].basis = usage[u].basis + c.usageBasis
      <4> HIDE DEF u
      <4>1. /\ WithUsage(chosen, p.time)[u].points = usage[u].points + c.usagePoints
            /\ WithUsage(chosen, p.time)[u].basis = usage[u].basis + c.usageBasis
        <5>1. {d \in chosen : d.limit # NoLimit /\ UsageRow(d, p.time) = u} = {c}
          BY <3>3
        <5> HIDE DEF users, of, new, now, awards
        <5> QED BY <1>5, <2>1, <2>5, <5>1, WithUsageOne
      <4> QED BY <1>8, <4>1
    <3>5. Under(c, l, usage[u])
      <4>1. c \in chosen /\ c.rule = l.rule
        OBVIOUS
      <4>2. Under(c, l, CurrentLimitUsage(l, p.time))
        BY <1>7, <2>1, <4>1 DEF LimitsApplied
      <4>3. CurrentLimitUsage(l, p.time) = usage[u]
        BY <3>1 DEF CurrentLimitUsage
      <4> QED BY <4>2, <4>3
    <3>6. c.usagePoints = c.points /\ c \in CandidateType
      BY <1>5, <3>5 DEF Under
    <3>7. <<p, c>> \notin awards
      <4> SUFFICES ASSUME <<p, c>> \in awards PROVE FALSE
        OBVIOUS
      <4>1. PICK q \in Processed : \E d \in Selected(q) : <<p, c>> = <<q, d>>
        BY AwardMember
      <4> QED BY <1>1, <4>1
    <3>8. PICK x : x = <<p, c>>
      OBVIOUS
    <3>9. PICK used, more : used = usage[u] /\ more = usage'[u]
      OBVIOUS
    <3>10. /\ x \notin awards /\ x[2] = c /\ LimitKept(l, awards, used) /\ Under(x[2], l, used)
           /\ used \in Uses /\ more \in Uses
           /\ more.points = used.points + x[2].points /\ more.basis = used.basis + x[2].usageBasis
      BY <2>2, <2>5, <3>4, <3>5, <3>6, <3>7, <3>8, <3>9
    <3>11. AwardsUnder(l, key)' = awards \cup {x}
      BY <2>3, <3>3, <3>8
    <3> HIDE DEF awards, u
    <3>12. LimitKept(l, awards \cup {x}, more)
      BY <2>1, <3>6, <3>10, OneMoreAward
    <3> QED BY <3>9, <3>11, <3>12 DEF u
  <2> QED BY <2>6, <2>7
<1>12. ASSUME NEW l \in Limits', NEW key \in Keys(l)'
       PROVE  LimitKept(l, AwardsUnder(l, key), usage[<<l.id, key>>])'
  <2>1. l \in Limits /\ key \in Keys(l)
    BY <1>10, <1>12 DEF Keys, PeriodKey
  <2>2. LimitKept(l, AwardsUnder(l, key)', usage'[<<l.id, key>>])
    BY <1>11, <2>1
  <2> QED BY <2>2 DEF LimitKept
<1>13. graph' # NoGraph
  BY <1>1, GraphAssumption DEF Published
<1> QED BY <1>12, <1>13 DEF LimitInv

\* A step keeps every limit.
LEMMA LimitNext == EngineInv /\ OneLimitEach /\ LimitInv /\ [Next]_vars => LimitInv'
<1> SUFFICES ASSUME EngineInv, OneLimitEach, LimitInv, [Next]_vars PROVE LimitInv'
  OBVIOUS
<1>1. CASE \E g \in Drafts : Publish(g)
  BY <1>1, PublishKeepsLimits
<1>2. CASE \E p \in Purchases : CalculatePurchase(p)
  BY <1>2, CalculateKeepsLimits
<1>3. CASE UNCHANGED vars
  <2>1. graph' = graph /\ usage' = usage /\ calculation' = calculation
    BY <1>3 DEF vars
  <2>2. Processed' = Processed
    BY <2>1 DEF Processed
  <2>3. Limits' = Limits /\ \A l, key : AwardsUnder(l, key)' = AwardsUnder(l, key)
    BY <2>1, <2>2 DEF Limits, AwardsUnder, Selected, Candidates
  <2>4. ASSUME NEW l \in Limits', NEW key \in Keys(l)'
        PROVE  LimitKept(l, AwardsUnder(l, key), usage[<<l.id, key>>])'
    <3>1. LimitKept(l, AwardsUnder(l, key), usage[<<l.id, key>>])
      BY <2>3, <2>4 DEF LimitInv, Keys, PeriodKey
    <3>2. LimitKept(l, AwardsUnder(l, key)', usage'[<<l.id, key>>])
      BY <2>1, <2>3, <3>1
    <3> QED BY <3>2 DEF LimitKept
  <2>5. graph' = NoGraph => \A u \in UsageKeys' : usage'[u] = NoUse
    BY <2>1 DEF LimitInv, UsageKeys, PeriodKey
  <2> QED BY <2>4, <2>5 DEF LimitInv
<1> QED BY <1>1, <1>2, <1>3 DEF Next

\* With one limit on a rule, all limits are always kept.
LEMMA LimitInvariance == OneLimitEach => (Spec => [](EngineInv /\ LimitInv))
<1> SUFFICES ASSUME OneLimitEach PROVE Spec => [](EngineInv /\ LimitInv)
  OBVIOUS
<1>1. Init => EngineInv /\ LimitInv
  BY EngineInit, LimitInit
<1>2. (EngineInv /\ LimitInv) /\ [Next]_vars => (EngineInv /\ LimitInv)'
  BY EngineNext, LimitNext
<1> QED BY <1>1, <1>2, PTL DEF Spec

\* Every limit's awards add up to its usage, in the periods of processed purchases.
LEMMA LimitAddsUp ==
    ASSUME LimitInv, NEW l \in Limits, NEW key \in {PeriodKey(l.period, p.time) : p \in Processed}
    PROVE  LimitKept(l, AwardsUnder(l, key), usage[<<l.id, key>>])
<1>1. key \in Keys(l)
  BY DEF Keys, Processed
<1> QED BY <1>1 DEF LimitInv

\* With one limit on a rule, no order of purchases exceeds it in any period.
THEOREM LimitsAlwaysHold == OneLimitEach => (Spec => []LimitsHold)
<1> SUFFICES ASSUME OneLimitEach PROVE Spec => []LimitsHold
  OBVIOUS
<1>1. LimitInv => LimitsHold
  <2> SUFFICES ASSUME LimitInv, NEW l \in Limits,
                      NEW key \in {PeriodKey(l.period, p.time) : p \in Processed}
               PROVE  /\ l.maxPoints > 0 => SumFunction([a \in AwardsUnder(l, key) |-> a[2].points])
                                               <= l.maxPoints
                      /\ l.maxBasis > 0 => SumFunction([a \in AwardsUnder(l, key) |-> a[2].basis])
                                               <= l.maxBasis
    BY DEF LimitsHold
  <2>1. LimitKept(l, AwardsUnder(l, key), usage[<<l.id, key>>])
    BY LimitAddsUp
  <2> QED BY <2>1 DEF LimitKept
<1> QED BY <1>1, LimitInvariance, PTL

\* With one limit on a rule, usage is what the selected candidates were awarded.
THEOREM UsageAlwaysSelection == OneLimitEach => (Spec => []UsageIsSelection)
<1> SUFFICES ASSUME OneLimitEach PROVE Spec => []UsageIsSelection
  OBVIOUS
<1>1. LimitInv => UsageIsSelection
  <2> SUFFICES ASSUME LimitInv, NEW l \in Limits,
                      NEW key \in {PeriodKey(l.period, p.time) : p \in Processed}
               PROVE  /\ usage[<<l.id, key>>].points
                            = SumFunction([a \in AwardsUnder(l, key) |-> a[2].points])
                      /\ l.maxBasis > 0 =>
                            usage[<<l.id, key>>].basis
                               = SumFunction([a \in AwardsUnder(l, key) |-> a[2].basis])
    BY DEF UsageIsSelection
  <2>1. LimitKept(l, AwardsUnder(l, key), usage[<<l.id, key>>])
    BY LimitAddsUp
  <2> QED BY <2>1 DEF LimitKept
<1> QED BY <1>1, LimitInvariance, PTL

-----------------------------------------------------------------------------
(* Types.                                                                  *)

\* Usage of the basis is never negative.
BasisInv == \A u \in UsageKeys : usage[u].basis >= 0

\* Committed usage stays nonnegative.
LEMMA UsageStaysNonnegative ==
    ASSUME UsageRows, NEW C \in SUBSET CandidateType, IsFiniteSet(C), NEW time,
           \A c \in C : c.usageBasis >= 0, BasisInv, NEW u \in UsageKeys
    PROVE  WithUsage(C, time)[u].basis >= 0
<1> DEFINE users == {c \in C : c.limit # NoLimit /\ UsageRow(c, time) = u}
           Basis == [c \in users |-> c.usageBasis]
<1>1. DOMAIN usage = UsageKeys /\ usage[u].basis \in Int /\ usage[u].basis >= 0
  BY DEF UsageRows, Uses, BasisInv
<1>2. WithUsage(C, time)[u].basis = usage[u].basis + SumFunction(Basis)
  BY <1>1 DEF WithUsage
<1>3. IsFiniteSet(users) /\ DOMAIN Basis = users
  BY FS_Subset
<1>4. \A c \in users : Basis[c] \in Nat
  BY DEF CandidateType
<1>5. SumFunction(Basis) = Total(Basis, users)
  BY <1>3 DEF SumFunction, Total
<1> HIDE DEF users, Basis
<1>6. Total(Basis, users) \in Nat
  BY <1>3, <1>4, TotalNat
<1> QED BY <1>1, <1>2, <1>5, <1>6

\* No step makes the usage of a basis negative.
LEMMA BasisNext == EngineInv /\ AmountsNotNegative /\ BasisInv /\ [Next]_vars => BasisInv'
<1> SUFFICES ASSUME EngineInv, AmountsNotNegative, BasisInv, [Next]_vars PROVE BasisInv'
  OBVIOUS
<1>1. UsageKeys' = UsageKeys
  BY DEF UsageKeys, PeriodKey
<1>2. ASSUME usage' = usage PROVE BasisInv'
  BY <1>1, <1>2 DEF BasisInv
<1>3. ASSUME NEW p \in Purchases, CalculatePurchase(p) PROVE BasisInv'
  <2>1. Published /\ p \notin Processed /\ graph' = graph
    BY <1>3, CalculatePurchaseOutcome
  <2>2. PICK trace, out, groups :
          /\ Entries(groups, out)
          /\ \A group \in graph.groups :
                /\ trace[group] \in Orders(group)
                /\ out[group] = EvaluateGroup(p, group, trace[group])
                /\ GroupOutcome(group, out[group])
          /\ calculation' = [calculation EXCEPT ![p] = groups]
          /\ usage' = WithUsage({c \in UNION {ToSet(t.candidates) : t \in groups} : c.selected},
                                p.time)
    BY <1>3, CalculatePurchaseOutcome
  <2>3. PICK C : C = UNION {ToSet(t.candidates) : t \in groups}
    OBVIOUS
  <2>4. PICK chosen : chosen = {c \in C : c.selected}
    OBVIOUS
  <2>5. IsFiniteSet(C) /\ C \subseteq CandidateType
    BY <2>1, <2>2, <2>3, CandidatesAreFinite
  <2>6. chosen \in SUBSET CandidateType /\ IsFiniteSet(chosen)
    BY <2>4, <2>5, FS_Subset
  <2>7. ASSUME NEW c \in chosen PROVE c.usageBasis >= 0
    <3>1. PICK group \in graph.groups : c \in ToSet(out[group])
      BY <2>2, <2>3, <2>4, EntriesHaveCandidates
    <3>2. PICK i \in DOMAIN out[group] : out[group][i] = c
      BY <3>1 DEF ToSet
    <3>3. Bounded(out[group])
      BY <2>2 DEF GroupOutcome
    <3> QED BY <3>2, <3>3 DEF Bounded
  <2>8. usage' = WithUsage(chosen, p.time)
    BY <2>2, <2>3, <2>4
  <2>9. \A u \in UsageKeys : WithUsage(chosen, p.time)[u].basis >= 0
    BY <2>6, <2>7, UsageStaysNonnegative DEF EngineInv
  <2> QED BY <1>1, <2>8, <2>9 DEF BasisInv
<1> QED BY <1>2, <1>3 DEF Next, Publish, vars

\* With amounts that are not negative, no candidate and no usage ever is.
THEOREM RuleEngineTypeCorrect == AmountsNotNegative => (Spec => []TypeOK)
<1> SUFFICES ASSUME AmountsNotNegative PROVE Spec => []TypeOK
  OBVIOUS
<1>1. Init => BasisInv
  <2> SUFFICES ASSUME Init PROVE BasisInv
    OBVIOUS
  <2>1. usage = [u \in UsageKeys |-> NoUse]
    BY DEF Init, UsageKeys
  <2> QED BY <2>1 DEF BasisInv, NoUse
<1>2. EngineInv /\ BasisInv /\ [Next]_vars => BasisInv'
  BY BasisNext
<1>3. EngineInv /\ BasisInv => TypeOK
  <2> SUFFICES ASSUME EngineInv, BasisInv PROVE TypeOK
    OBVIOUS
  <2>1. ASSUME NEW u \in DOMAIN usage PROVE usage[u] \in [points : Nat, basis : Nat]
    <3>1. u \in UsageKeys /\ usage[u] \in Uses
      BY DEF EngineInv, UsageRows
    <3>2. usage[u].basis >= 0
      BY <3>1 DEF BasisInv
    <3> QED BY <3>1, <3>2 DEF Uses
  <2>2. ASSUME NEW p \in Purchases, NEW c \in Candidates(p) PROVE c \in CandidateType
    <3>1. PICK group \in graph.groups : \E cs :
            GroupOutcome(group, cs) /\ \E i \in DOMAIN cs : cs[i] = c
      BY CandidateOutcome
    <3>2. PICK cs : GroupOutcome(group, cs) /\ \E i \in DOMAIN cs : cs[i] = c
      BY <3>1
    <3>3. cs \in Seq(CandidateType)
      BY <3>2 DEF GroupOutcome, OfRules
    <3> QED BY <3>2, <3>3
  <2> QED BY <2>1, <2>2 DEF TypeOK, EngineInv
<1> QED BY <1>1, <1>2, <1>3, EngineInvariance, PTL DEF Spec

-----------------------------------------------------------------------------
(* Waterfalls.                                                             *)

\* A rule of a waterfall names no category twice; one that names none is the
\* last of its group: what WaterfallAlwaysEarnsOnce supposes, the code does not
\* check it.
WaterfallsInTurn ==
    \A g \in Drafts : \A group \in g.groups : group.strategy = "waterfall" =>
        \A r \in RulesOf(g, group) :
            /\ \A i, j \in DOMAIN r.categories : r.categories[i] = r.categories[j] => i = j
            /\ r.categories = <<>> =>
                  \A s \in RulesOf(g, group) : s # r => s.priority < r.priority

\* One category pays: its share leaves the category and the amount.
LEMMA ConsumeOne ==
    ASSUME NEW left \in Lefts, left.remaining \in [Category -> Nat], left.amount \in Nat,
           NEW c \in Category
    PROVE  LET after == Consume(left, c)
               share == Smaller(left.remaining[c], left.amount)
           IN  /\ after \in Lefts /\ share \in Nat
               /\ after.remaining \in [Category -> Nat] /\ after.amount \in Nat
               /\ after.amount = left.amount - share
               /\ after.remaining = [left.remaining EXCEPT ![c] = left.remaining[c] - share]
<1> DEFINE after == Consume(left, c)
           share == Smaller(left.remaining[c], left.amount)
<1>1. share \in Nat /\ share <= left.remaining[c] /\ share <= left.amount
      /\ left.remaining[c] \in Nat /\ left.amount \in Nat
  BY DEF Smaller
<1>2. CASE left.amount <= 0
  <2>1. after = left /\ share = 0
    BY <1>2, <1>1 DEF Consume
  <2>2. [left.remaining EXCEPT ![c] = left.remaining[c] - share] = left.remaining
    BY <1>1, <2>1
  <2> HIDE DEF after, share
  <2> QED BY <1>1, <2>1, <2>2 DEF after, share
<1>3. CASE ~(left.amount <= 0)
  <2>1. after = [remaining |-> [left.remaining EXCEPT ![c] = left.remaining[c] - share],
                 amount |-> left.amount - share]
    BY <1>3 DEF Consume
  <2> HIDE DEF after, share
  <2>2. left.remaining[c] - share \in Nat /\ left.amount - share \in Nat
    BY <1>1
  <2>3. after.amount = left.amount - share
        /\ after.remaining = [left.remaining EXCEPT ![c] = left.remaining[c] - share]
    BY <2>1
  <2>4. [left.remaining EXCEPT ![c] = left.remaining[c] - share] \in [Category -> Nat]
    BY <2>2
  <2>5. after \in Lefts
    BY <2>1, <2>2, <2>4 DEF Lefts
  <2> QED BY <1>1, <2>2, <2>3, <2>4, <2>5 DEF after, share
<1> QED BY <1>2, <1>3

\* Paying leaves no category with more than it had.
LEMMA ConsumeShrinks ==
    ASSUME Published, NEW r \in graph.rules, NEW remaining \in [Category -> Nat], NEW amount \in Nat
    PROVE  LET after == ConsumeWaterfallBasis(r, remaining, amount)
           IN  after \in [Category -> Nat] /\ \A c \in Category : after[c] <= remaining[c]
<1> DEFINE n == Len(Payers(r))
<1>1. n \in Nat /\ \A i \in 1..n : Payers(r)[i] \in Category
  BY PayersAreCategories
<1>2. remaining \in [Category -> Int] /\ amount \in Int
  OBVIOUS
<1>3. PICK run \in [0..Len(Payers(r)) -> Lefts] :
        /\ run[0] = [remaining |-> remaining, amount |-> amount]
        /\ \A i \in 1..Len(Payers(r)) : run[i] = Consume(run[i - 1], Payers(r)[i])
        /\ ConsumeWaterfallBasis(r, remaining, amount) = run[Len(Payers(r))].remaining
  BY <1>2, ConsumeRun
<1> DEFINE Fine(left) == /\ left.remaining \in [Category -> Nat] /\ left.amount \in Nat
                         /\ \A c \in Category : left.remaining[c] <= remaining[c]
           G == {i \in 0..n : Fine(run[i])}
<1>4. 0 \in G
  BY <1>1, <1>3
<1>5. ASSUME NEW i \in 1..n, i - 1 \in G PROVE i \in G
  <2> DEFINE before == run[i - 1]
             c == Payers(r)[i]
             after == run[i]
             share == Smaller(before.remaining[c], before.amount)
  <2>1. i \in 0..n /\ i - 1 \in 0..n /\ Fine(before)
    BY <1>1, <1>5
  <2>2. before \in Lefts /\ after = Consume(before, c) /\ c \in Category
    BY <1>1, <1>3, <2>1
  <2>3. /\ after.remaining \in [Category -> Nat] /\ after.amount \in Nat /\ share \in Nat
        /\ after.remaining = [before.remaining EXCEPT ![c] = before.remaining[c] - share]
    <3> HIDE DEF before, c, after
    <3> QED BY <2>1, <2>2, ConsumeOne
  <2> HIDE DEF before, c, after, share
  <2>4. \A d \in Category : after.remaining[d] <= before.remaining[d]
    BY <2>1, <2>2, <2>3
  <2>5. \A d \in Category : after.remaining[d] <= remaining[d]
    BY <2>1, <2>3, <2>4
  <2>6. Fine(after)
    BY <2>3, <2>5
  <2> HIDE DEF Fine
  <2> QED BY <2>1, <2>6 DEF after
<1>6. n \in G
  <2>1. \A i \in 0..n : i \in G
    <3> HIDE DEF G, n
    <3> QED BY <1>1, <1>4, <1>5, CountingInduction
  <2>2. n \in 0..n
    BY <1>1
  <2> HIDE DEF G, n
  <2> QED BY <2>1, <2>2
<1>7. Fine(run[n])
  BY <1>6
<1> HIDE DEF n
<1> QED BY <1>3, <1>7 DEF n

\* Different categories that together have the amount pay all of it.
LEMMA ConsumeAll ==
    ASSUME Published, NEW r \in graph.rules, NEW remaining \in [Category -> Nat],
           NEW amount \in Nat,
           r.categories # <<>>,
           \A i, j \in DOMAIN r.categories : r.categories[i] = r.categories[j] => i = j,
           amount <= WaterfallBasis(r, remaining),
           NEW S \in SUBSET Category, ToSet(r.categories) \subseteq S
    PROVE  Total(ConsumeWaterfallBasis(r, remaining, amount), S) = Total(remaining, S) - amount
<1> DEFINE n == Len(Payers(r))
           f == [i \in 1..n |-> remaining[Payers(r)[i]]]
<1>1. /\ Payers(r) = r.categories /\ n \in Nat /\ DOMAIN Payers(r) = 1..n
      /\ \A i \in 1..n : Payers(r)[i] \in Category /\ Payers(r)[i] \in S
  <2>1. Payers(r) = r.categories
    BY DEF Payers
  <2>2. n \in Nat /\ DOMAIN Payers(r) = 1..n /\ \A i \in 1..n : Payers(r)[i] \in Category
    BY PayersAreCategories
  <2> QED BY <2>1, <2>2 DEF ToSet
<1>2. remaining \in [Category -> Int] /\ amount \in Int
  OBVIOUS
<1>3. PICK run \in [0..Len(Payers(r)) -> Lefts] :
        /\ run[0] = [remaining |-> remaining, amount |-> amount]
        /\ \A i \in 1..Len(Payers(r)) : run[i] = Consume(run[i - 1], Payers(r)[i])
        /\ ConsumeWaterfallBasis(r, remaining, amount) = run[Len(Payers(r))].remaining
  BY <1>2, ConsumeRun
<1>4. IsFiniteSet(S) /\ IsFiniteSet(1..n)
  BY <1>1, FS_Subset, CategoryAssumption, FS_Interval
<1>5. \A g \in [Category -> Nat] : Summable(g, S) /\ Total(g, S) \in Int
  <2> SUFFICES ASSUME NEW g \in [Category -> Nat] PROVE Summable(g, S) /\ Total(g, S) \in Int
    OBVIOUS
  <2>1. Summable(g, S)
    BY <1>4 DEF Summable
  <2> QED BY <2>1, TotalWithout
<1>6. \A i \in 0..n : Summable(f, 1..i) /\ Total(f, 1..i) \in Nat
  <2> SUFFICES ASSUME NEW i \in 0..n PROVE Summable(f, 1..i) /\ Total(f, 1..i) \in Nat
    OBVIOUS
  <2>1. IsFiniteSet(1..i)
    BY <1>1, FS_Interval
  <2>2. \A k \in 1..i : f[k] \in Nat
    BY <1>1
  <2> HIDE DEF f
  <2> QED BY <2>1, <2>2, TotalNat DEF Summable
<1>7. amount <= Total(f, 1..n)
  <2>1. WaterfallBasis(r, remaining) = SumFunction(f)
    BY <1>1 DEF WaterfallBasis
  <2>2. DOMAIN f = 1..n
    OBVIOUS
  <2> HIDE DEF f
  <2>3. SumFunction(f) = Total(f, 1..n)
    BY <2>2 DEF SumFunction, Total
  <2> QED BY <2>1, <2>3
<1> DEFINE Fine(i, left) ==
               /\ left.remaining \in [Category -> Nat] /\ left.amount \in Nat
               /\ Total(left.remaining, S) = Total(remaining, S) - amount + left.amount
               /\ \A k \in (i + 1)..n : left.remaining[Payers(r)[k]] = f[k]
               /\ left.amount = Larger(0, amount - Total(f, 1..i))
           G == {i \in 0..n : Fine(i, run[i])}
<1>8. 0 \in G
  <2>1. Total(f, 1..0) = 0
    <3>1. 1..0 = {}
      OBVIOUS
    <3> HIDE DEF f
    <3> QED BY <3>1, TotalEmpty
  <2>2. run[0].remaining = remaining /\ run[0].amount = amount
    BY <1>3
  <2>3. Total(remaining, S) \in Int
    BY <1>5
  <2> HIDE DEF f
  <2>4. \A k \in 1..n : remaining[Payers(r)[k]] = f[k]
    BY DEF f
  <2>5. Fine(0, run[0])
    BY <2>1, <2>2, <2>3, <2>4 DEF Larger
  <2>6. 0 \in 0..n
    BY <1>1
  <2> HIDE DEF Fine, n
  <2> QED BY <2>5, <2>6
<1>9. ASSUME NEW i \in 1..n, i - 1 \in G PROVE i \in G
  <2> DEFINE before == run[i - 1]
             c == Payers(r)[i]
             after == run[i]
             share == Smaller(before.remaining[c], before.amount)
  <2>1. i \in 0..n /\ i - 1 \in 0..n /\ Fine(i - 1, before)
    <3>1. n \in Nat
      BY <1>1
    <3>2. i \in 0..n /\ i - 1 \in 0..n
      <4> HIDE DEF n
      <4> QED BY <3>1
    <3>3. Fine(i - 1, before)
      <4> HIDE DEF Fine, n
      <4> QED BY <1>9
    <3> QED BY <3>2, <3>3
  <2>2. before \in Lefts /\ after = Consume(before, c) /\ c \in Category /\ c \in S
    <3>1. before \in Lefts
      BY <1>3, <2>1
    <3>2. after = Consume(before, c)
      BY <1>3
    <3> QED BY <1>1, <3>1, <3>2
  <2>3. before.remaining \in [Category -> Nat] /\ before.amount \in Nat
    BY <2>1
  <2>4. /\ after.remaining \in [Category -> Nat] /\ after.amount \in Nat /\ share \in Nat
        /\ after.amount = before.amount - share
        /\ after.remaining = [before.remaining EXCEPT ![c] = before.remaining[c] - share]
    <3> HIDE DEF before, c, after, Fine
    <3> QED BY <2>2, <2>3, ConsumeOne
  <2>5. before.remaining[c] = f[i]
    <3>1. i \in ((i - 1) + 1)..n
      BY <1>1
    <3> HIDE DEF f, before
    <3> QED BY <2>1, <3>1
  <2>6. f[i] \in Nat
    BY <1>1
  <2>7. Total(f, 1..i) = f[i] + Total(f, 1..(i - 1))
    <3>1. 1..i = 1..(i - 1) \cup {i} /\ i \notin 1..(i - 1)
      BY <1>1
    <3>2. Summable(f, 1..(i - 1) \cup {i})
      BY <1>6, <2>1, <3>1
    <3> HIDE DEF f
    <3> QED BY <3>1, <3>2, TotalAdd
  <2> HIDE DEF before, c, after, f
  <2>8. Total(after.remaining, S) = Total(before.remaining, S) - share
    <3>1. Summable(before.remaining, S)
      BY <1>5, <2>3
    <3>2. after.remaining[c] = before.remaining[c] - share /\ after.remaining[c] \in Int
      BY <2>2, <2>3, <2>4
    <3>3. \A d \in S \ {c} : after.remaining[d] = before.remaining[d]
      BY <2>2, <2>3, <2>4
    <3>4. Total(after.remaining, S)
            = Total(before.remaining, S) - before.remaining[c] + after.remaining[c]
      BY <2>2, <3>1, <3>2, <3>3, TotalChange
    <3>5. Total(before.remaining, S) \in Int /\ before.remaining[c] \in Int
      BY <1>5, <2>2, <2>3
    <3> HIDE DEF share
    <3> QED BY <2>4, <3>2, <3>4, <3>5
  <2>9. ASSUME NEW k \in (i + 1)..n PROVE after.remaining[Payers(r)[k]] = f[k]
    <3>1. k \in ((i - 1) + 1)..n /\ k \in 1..n /\ k # i
      BY <1>1
    <3>2. Payers(r)[k] # c /\ Payers(r)[k] \in Category
      BY <1>1, <3>1 DEF c
    <3>3. before.remaining[Payers(r)[k]] = f[k]
      BY <2>1, <3>1
    <3> HIDE DEF share
    <3> QED BY <2>3, <2>4, <3>2, <3>3
  <2>10. Total(f, 1..(i - 1)) \in Nat /\ before.amount = Larger(0, amount - Total(f, 1..(i - 1)))
    BY <1>6, <2>1
  <2>11. after.amount = Larger(0, amount - Total(f, 1..i))
    BY <2>4, <2>5, <2>6, <2>7, <2>10 DEF Larger, Smaller
  <2>12. Total(before.remaining, S) = Total(remaining, S) - amount + before.amount
    BY <2>1
  <2>13. Total(after.remaining, S) = Total(remaining, S) - amount + after.amount
    <3>1. Total(remaining, S) \in Int /\ share \in Int /\ before.amount \in Int
      BY <1>5, <2>3, <2>4
    <3> HIDE DEF share
    <3> QED BY <2>4, <2>8, <2>12, <3>1
  <2>14. Fine(i, after)
    BY <2>4, <2>9, <2>11, <2>13
  <2> HIDE DEF Fine
  <2> QED BY <2>1, <2>14 DEF after
<1>10. Fine(n, run[n])
  <2>1. \A i \in 0..n : i \in G
    <3> HIDE DEF G, n
    <3> QED BY <1>1, <1>8, <1>9, CountingInduction
  <2>2. n \in 0..n
    BY <1>1
  <2>3. n \in G
    <3> HIDE DEF G, n
    <3> QED BY <2>1, <2>2
  <2> QED BY <2>3
<1>11. run[n].amount = 0
  <2>1. Total(f, 1..n) \in Nat
    BY <1>1, <1>6
  <2> HIDE DEF f, n
  <2> QED BY <1>7, <1>10, <2>1 DEF Larger
<1>12. Total(run[n].remaining, S) = Total(remaining, S) - amount
  <2>1. Total(remaining, S) \in Int
    BY <1>5
  <2> QED BY <1>10, <1>11, <2>1
<1> HIDE DEF n
<1> QED BY <1>3, <1>12 DEF n

\* The basis of all these candidates.
BasisOf(A) == SumFunction([c \in A |-> c.basis])

\* No candidates have no basis.
LEMMA BasisOfNone == BasisOf({}) = 0
<1>1. DOMAIN [c \in {} |-> c.basis] = {}
  OBVIOUS
<1> QED BY <1>1, SumFew DEF BasisOf

\* One more candidate adds its basis.
LEMMA BasisOfOneMore ==
    ASSUME NEW A \in SUBSET CandidateType, IsFiniteSet(A), NEW x \in CandidateType, x \notin A
    PROVE  BasisOf(A \cup {x}) = BasisOf(A) + x.basis /\ BasisOf(A) \in Int
<1> DEFINE Basis(S) == [c \in S |-> c.basis]
           all == A \cup {x}
<1>1. IsFiniteSet(all) /\ \A c \in all : c.basis \in Int
  BY FS_AddElement DEF CandidateType
<1>2. \A c \in all : Basis(all)[c] = c.basis
  OBVIOUS
<1>3. \A c \in A : Basis(A)[c] = Basis(all)[c] /\ Basis(A)[c] \in Int
  BY <1>1
<1>4. DOMAIN Basis(all) = all /\ DOMAIN Basis(A) = A
  OBVIOUS
<1>5. Basis(all)[x] = x.basis
  BY <1>2
<1>6. BasisOf(all) = SumFunction(Basis(all)) /\ BasisOf(A) = SumFunction(Basis(A))
  BY DEF BasisOf
<1>7. Summable(Basis(all), A \cup {x}) /\ Summable(Basis(A), A)
  BY <1>1, <1>2, <1>3 DEF Summable
<1>8. PICK f, g : f = Basis(all) /\ g = Basis(A)
  OBVIOUS
<1> HIDE DEF Basis
<1>9. Total(f, A \cup {x}) = f[x] + Total(f, A)
  BY <1>7, <1>8, TotalAdd
<1>10. Total(g, A) = Total(f, A) /\ Total(g, A) \in Int
  BY <1>3, <1>7, <1>8, TotalEqual, TotalWithout
<1>11. SumFunction(f) = Total(f, A \cup {x}) /\ SumFunction(g) = Total(g, A)
  BY <1>4, <1>8 DEF SumFunction, Total
<1>12. x.basis \in Int
  BY <1>1
<1> QED BY <1>5, <1>6, <1>8, <1>9, <1>10, <1>11, <1>12

\* The rules of a group that earn on these categories only, or on any.
RulesWithin(group, S) ==
    {r \in RulesOf(graph, group) : r.categories # <<>> => ToSet(r.categories) \subseteq S}

\* Among these candidates, what is awarded for these categories only, or for any.
AwardsWithin(group, S, C) ==
    {c \in {d \in C : d.selected} : \E r \in RulesWithin(group, S) : r.id = c.rule}

\* These categories can be told apart from what else the group earns on.
Separate(group, S) == S = Category \/ \A r \in RulesWithin(group, S) : r.categories # <<>>

\* One rule of a waterfall: what it earns on is taken from what is left.
LEMMA WaterfallStep ==
    ASSUME Published, UsageRows, WaterfallsInTurn, NEW p \in Purchases,
           NEW group \in graph.groups, group.strategy = "waterfall",
           NEW done \in Dones, done.remaining \in [Category -> Nat],
           NEW r \in RulesOf(graph, group), NEW S \in SUBSET Category
    PROVE  LET c == Evaluate(p, group, done, r)
               after == EvaluateNext(p, group, done, r).remaining
           IN  /\ c \in CandidateType /\ after \in [Category -> Nat]
               /\ Total(after, S) \in Nat /\ Total(after, S) <= Total(done.remaining, S)
               /\ c.selected => c.basis \in Nat /\ c.basis <= WaterfallBasis(r, done.remaining)
               /\ c.selected /\ r.categories # <<>> /\ r \in RulesWithin(group, S) =>
                     Total(after, S) = Total(done.remaining, S) - c.basis
<1> DEFINE c == Evaluate(p, group, done, r)
           basis == WaterfallBasis(r, done.remaining)
           after == EvaluateNext(p, group, done, r).remaining
<1>1. /\ r \in graph.rules
      /\ \A i, j \in DOMAIN r.categories : r.categories[i] = r.categories[j] => i = j
  <2>1. r \in graph.rules
    BY DEF RulesOf
  <2>2. \A i, j \in DOMAIN r.categories : r.categories[i] = r.categories[j] => i = j
    BY DEF WaterfallsInTurn, Published
  <2> QED BY <2>1, <2>2
<1>2. basis \in Int /\ basis >= 0
  BY <1>1, WaterfallBasisType
<1>3. /\ c \in CandidateType /\ (c.selected <=> c.points # 0)
      /\ c.matched => c.basis <= basis
      /\ c.basis >= 0
      /\ ~c.matched => c = Unmatched(r)
  <2> HIDE DEF c, basis
  <2> QED BY <1>1, <1>2, EvaluateFields DEF c, basis
<1>4. after = IF c.selected THEN ConsumeWaterfallBasis(r, done.remaining, c.basis)
              ELSE done.remaining
  BY DEF EvaluateNext
<1> HIDE DEF c, basis, after
<1>5. c.basis \in Nat /\ c.selected \in BOOLEAN
  BY <1>3 DEF CandidateType
<1>6. c.selected => c.basis <= basis
  <2>1. Unmatched(r).points = 0
    BY DEF Unmatched
  <2> QED BY <1>3, <2>1
<1>7. /\ after \in [Category -> Nat] /\ \A d \in Category : after[d] <= done.remaining[d]
  <2>1. CASE c.selected
    <3>1. after = ConsumeWaterfallBasis(r, done.remaining, c.basis)
      BY <1>4, <2>1
    <3> QED BY <1>1, <1>5, <3>1, ConsumeShrinks
  <2>2. CASE ~c.selected
    <3>1. after = done.remaining
      BY <1>4, <2>2
    <3>2. \A d \in Category : after[d] \in Nat
      BY <3>1
    <3> QED BY <3>1, <3>2
  <2> QED BY <2>1, <2>2
<1>8. Total(after, S) \in Nat /\ Total(after, S) <= Total(done.remaining, S)
  <2>1. IsFiniteSet(S)
    BY FS_Subset, CategoryAssumption
  <2>2. Summable(after, S) /\ Summable(done.remaining, S) /\ \A d \in S : after[d] \in Nat
    BY <1>7, <2>1 DEF Summable
  <2>3. Total(after, S) \in Nat
    BY <2>1, <2>2, TotalNat
  <2>4. Total(done.remaining, S) \in Int
    BY <2>2, TotalWithout
  <2>5. \A d \in S : 1 * after[d] <= 1 * done.remaining[d]
    BY <1>7
  <2>6. 1 * Total(after, S) <= 1 * Total(done.remaining, S)
    BY <2>2, <2>5, TotalBound
  <2> QED BY <2>3, <2>4, <2>6
<1>9. ASSUME c.selected, r.categories # <<>>, r \in RulesWithin(group, S)
      PROVE  Total(after, S) = Total(done.remaining, S) - c.basis
  <2>1. after = ConsumeWaterfallBasis(r, done.remaining, c.basis)
    BY <1>4, <1>9
  <2>2. ToSet(r.categories) \subseteq S
    BY <1>9 DEF RulesWithin
  <2>3. c.basis <= WaterfallBasis(r, done.remaining)
    BY <1>6, <1>9 DEF basis
  <2> QED BY <1>1, <1>5, <1>9, <2>1, <2>2, <2>3, ConsumeAll
<1> QED BY <1>3, <1>5, <1>6, <1>7, <1>8, <1>9 DEF c, basis, after

\* A waterfall awards no more for some categories than the purchase has there.
LEMMA GroupEarnsOnce ==
    ASSUME Published, UsageRows, AmountsNotNegative, WaterfallsInTurn, NEW p \in Purchases,
           NEW group \in graph.groups, group.strategy = "waterfall", NEW order \in Orders(group),
           NEW S \in SUBSET Category, Separate(group, S)
    PROVE  BasisOf(AwardsWithin(group, S, ToSet(EvaluateGroup(p, group, order))))
              <= Total(BasisByCategory(p), S)
<1> DEFINE n == Len(order)
<1>1. PICK run : /\ Evaluated(p, group, order, run)
                 /\ EvaluateGroup(p, group, order)
                       = IF group.strategy = "max_of" THEN SelectHighest(run[n].candidates)
                         ELSE run[n].candidates
  BY EvaluationRun
<1> DEFINE cs == run[n].candidates
           Counts(k) == cs[k].selected /\ order[k] \in RulesWithin(group, S)
           A(i) == {cs[k] : k \in {m \in 1..i : Counts(m)}}
           Left(i) == Total(run[i].remaining, S)
           all == Total(BasisByCategory(p), S)
           Fine(i) == /\ IsFiniteSet(A(i)) /\ BasisOf(A(i)) \in Int
                      /\ BasisOf(A(i)) <= all
                      /\ i < n => BasisOf(A(i)) + Left(i) <= all
           G == {i \in 0..n : Fine(i)}
<1>2. /\ n \in Nat /\ DOMAIN order = 1..n
      /\ \A i \in 1..n : order[i] \in RulesOf(graph, group) /\ order[i] \in graph.rules
      /\ \A i, j \in 1..n : order[i].id = order[j].id => i = j
      /\ \A i, j \in 1..n : i < j => order[i].priority <= order[j].priority
  BY OrderOfRules
<1>3. /\ \A i \in 0..n : run[i] \in Dones
      /\ \A i \in 1..n : cs[i] = Evaluate(p, group, run[i - 1], order[i])
      /\ DOMAIN cs = 1..n
  <2>1. n \in 0..n
    BY <1>2
  <2> QED BY <1>1, <2>1, EvaluationSteps
<1>4. \A i \in 0..n : run[i].remaining \in [Category -> Nat]
  BY <1>1, RemainingNat
<1>5. \A i \in 0..n : Left(i) \in Nat
  <2> SUFFICES ASSUME NEW i \in 0..n PROVE Left(i) \in Nat
    OBVIOUS
  <2>1. run[i].remaining \in [Category -> Nat]
    BY <1>4
  <2>2. IsFiniteSet(S) /\ \A d \in S : run[i].remaining[d] \in Nat
    BY <2>1, FS_Subset, CategoryAssumption
  <2> QED BY <2>2, TotalNat
<1>6. Left(0) = all /\ all \in Nat
  <2>1. run[0].remaining = BasisByCategory(p)
    BY <1>1 DEF Evaluated
  <2>2. 0 \in 0..n
    BY <1>2
  <2> QED BY <1>5, <2>1, <2>2
<1>7. \A i \in 1..n : cs[i] \in CandidateType /\ cs[i].rule = order[i].id
  <2> SUFFICES ASSUME NEW i \in 1..n PROVE cs[i] \in CandidateType /\ cs[i].rule = order[i].id
    OBVIOUS
  <2>1. run[i - 1] \in Dones /\ order[i] \in graph.rules
    <3>1. i - 1 \in 0..n
      BY <1>2
    <3> QED BY <1>2, <1>3, <3>1
  <2>2. cs[i] = Evaluate(p, group, run[i - 1], order[i])
    BY <1>3
  <2> HIDE DEF cs
  <2> QED BY <2>1, <2>2, EvaluateFields
<1> HIDE DEF cs, all, Left
<1>8. 0 \in G
  <2>1. A(0) = {}
    OBVIOUS
  <2>2. 0 \in 0..n
    BY <1>2
  <2> HIDE DEF A, n
  <2>3. IsFiniteSet(A(0)) /\ BasisOf(A(0)) = 0
    BY <2>1, BasisOfNone, FS_EmptySet
  <2>4. Fine(0)
    BY <1>6, <2>3
  <2> HIDE DEF Fine
  <2> QED BY <2>2, <2>4
<1>9. ASSUME NEW i \in 1..n, i - 1 \in G PROVE i \in G
  <2> DEFINE c == cs[i]
             r == order[i]
             done == run[i - 1]
  <2>1. /\ i \in 0..n /\ i - 1 \in 0..n /\ i - 1 < n /\ i <= n
    BY <1>2
  <2>2. Fine(i - 1)
    BY <1>9
  <2>3. /\ IsFiniteSet(A(i - 1)) /\ BasisOf(A(i - 1)) \in Int
        /\ BasisOf(A(i - 1)) + Left(i - 1) <= all
    BY <2>1, <2>2
  <2>4. c \in CandidateType /\ r \in RulesOf(graph, group)
    BY <1>2, <1>7
  <2>5. c = Evaluate(p, group, done, r) /\ run[i] = EvaluateNext(p, group, done, r)
    BY <1>1, <1>3 DEF Evaluated
  <2>6. done \in Dones /\ done.remaining \in [Category -> Nat]
    BY <1>3, <1>4, <2>1
  <2>7. /\ Left(i) \in Nat /\ Left(i - 1) \in Nat /\ Left(i) <= Left(i - 1)
        /\ c.selected => c.basis \in Nat /\ c.basis <= WaterfallBasis(r, done.remaining)
        /\ c.selected /\ r.categories # <<>> /\ r \in RulesWithin(group, S) =>
              Left(i) = Left(i - 1) - c.basis
    <3> HIDE DEF c, r, done
    <3>1. Left(i - 1) = Total(done.remaining, S)
      BY DEF Left, done
    <3>2. Left(i) = Total(EvaluateNext(p, group, done, r).remaining, S)
      BY <2>5 DEF Left
    <3>3. Left(i - 1) \in Nat
      BY <1>5, <2>1
    <3>4. PICK d, after : d = Evaluate(p, group, done, r)
                          /\ after = EvaluateNext(p, group, done, r).remaining
      OBVIOUS
    <3>5. /\ Total(after, S) \in Nat /\ Total(after, S) <= Total(done.remaining, S)
          /\ d.selected => d.basis \in Nat /\ d.basis <= WaterfallBasis(r, done.remaining)
          /\ d.selected /\ r.categories # <<>> /\ r \in RulesWithin(group, S) =>
                Total(after, S) = Total(done.remaining, S) - d.basis
      BY <2>4, <2>6, <3>4, WaterfallStep
    <3> QED BY <2>5, <3>1, <3>2, <3>3, <3>4, <3>5
  <2>8. A(i) = IF c.selected /\ r \in RulesWithin(group, S) THEN A(i - 1) \cup {c} ELSE A(i - 1)
    <3>1. 1..i = 1..(i - 1) \cup {i}
      BY <2>1
    <3> QED BY <3>1
  <2>9. c \notin A(i - 1)
    <3> SUFFICES ASSUME c \in A(i - 1) PROVE FALSE
      OBVIOUS
    <3>1. PICK k \in 1..(i - 1) : c = cs[k]
      OBVIOUS
    <3>2. k \in 1..n /\ k # i
      BY <1>2
    <3>3. order[k].id = order[i].id
      BY <1>7, <3>1, <3>2
    <3> QED BY <1>2, <3>2, <3>3
  <2>10. A(i - 1) \in SUBSET CandidateType
    <3>1. \A k \in 1..(i - 1) : cs[k] \in CandidateType
      BY <1>2, <1>7
    <3> QED BY <3>1
  <2>11. i < n => r.categories # <<>>
    <3> SUFFICES ASSUME i < n, r.categories = <<>> PROVE FALSE
      OBVIOUS
    <3>1. i + 1 \in 1..n /\ i < i + 1 /\ i # i + 1
      BY <1>2
    <3> DEFINE s == order[i + 1]
    <3>2. s \in RulesOf(graph, group) /\ s # r /\ r.priority <= s.priority
      BY <1>2, <3>1
    <3>3. r.priority \in Int /\ s.priority \in Int
      BY <1>2, <3>1, GraphRules
    <3>4. s.priority < r.priority
      <4> HIDE DEF s, r
      <4> QED BY <2>4, <3>2 DEF WaterfallsInTurn, Published
    <3> HIDE DEF s, r
    <3> QED BY <3>2, <3>3, <3>4
  <2> HIDE DEF c, r, done
  <2>12. CASE ~(c.selected /\ r \in RulesWithin(group, S))
    <3>1. A(i) = A(i - 1)
      BY <2>8, <2>12
    <3> HIDE DEF A, n
    <3>2. Fine(i)
      BY <1>6, <2>2, <2>3, <2>7, <3>1
    <3> HIDE DEF Fine
    <3> QED BY <2>1, <3>2
  <2>13. CASE c.selected /\ r \in RulesWithin(group, S)
    <3>1. A(i) = A(i - 1) \cup {c}
      BY <2>8, <2>13
    <3> HIDE DEF A
    <3>2. /\ IsFiniteSet(A(i)) /\ BasisOf(A(i)) = BasisOf(A(i - 1)) + c.basis
          /\ c.basis \in Nat
      BY <2>3, <2>4, <2>7, <2>9, <2>10, <2>13, <3>1, BasisOfOneMore, FS_AddElement
    <3>3. CASE r.categories # <<>>
      <4> HIDE DEF n
      <4>1. Fine(i)
        BY <1>6, <2>3, <2>7, <2>13, <3>2, <3>3
      <4> HIDE DEF Fine
      <4> QED BY <2>1, <4>1
    <3>4. CASE r.categories = <<>>
      <4>1. S = Category
        BY <2>13, <3>4 DEF Separate
      <4>2. WaterfallBasis(r, done.remaining) = Left(i - 1)
        <5>1. WaterfallBasis(r, done.remaining) = SumFunction(done.remaining)
          BY <3>4 DEF WaterfallBasis
        <5>2. DOMAIN done.remaining = Category
          BY <2>6
        <5>3. SumFunction(done.remaining) = Total(done.remaining, Category)
          BY <5>2 DEF SumFunction, Total
        <5> QED BY <4>1, <5>1, <5>3 DEF Left, done
      <4>3. ~(i < n)
        BY <2>11, <3>4
      <4>4. c.basis <= Left(i - 1)
        BY <2>7, <2>13, <4>2
      <4> HIDE DEF n
      <4>5. Fine(i)
        BY <1>6, <2>3, <2>7, <3>2, <4>3, <4>4
      <4> HIDE DEF Fine
      <4> QED BY <2>1, <4>5
    <3> QED BY <3>3, <3>4
  <2> QED BY <2>12, <2>13
<1>10. BasisOf(A(n)) <= all
  <2>1. \A i \in 0..n : i \in G
    <3> HIDE DEF G, n
    <3> QED BY <1>2, <1>8, <1>9, CountingInduction
  <2>2. n \in 0..n
    BY <1>2
  <2>3. n \in G
    <3> HIDE DEF G, n
    <3> QED BY <2>1, <2>2
  <2> QED BY <2>3
<1>11. AwardsWithin(group, S, ToSet(EvaluateGroup(p, group, order))) = A(n)
  <2>1. EvaluateGroup(p, group, order) = cs
    BY <1>1 DEF cs
  <2>2. ToSet(cs) = {cs[k] : k \in 1..n}
    BY <1>3 DEF ToSet, cs
  <2>3. ASSUME NEW k \in 1..n
        PROVE  (\E r \in RulesWithin(group, S) : r.id = cs[k].rule)
                  <=> order[k] \in RulesWithin(group, S)
    <3>1. cs[k].rule = order[k].id /\ order[k] \in graph.rules
      BY <1>2, <1>7
    <3>2. ASSUME NEW r \in RulesWithin(group, S), r.id = cs[k].rule PROVE r = order[k]
      <4>1. r \in graph.rules
        BY DEF RulesWithin, RulesOf
      <4> QED BY <3>1, <3>2, <4>1, GraphRules
    <3> QED BY <3>1, <3>2
  <2> HIDE DEF n
  <2> QED BY <2>1, <2>2, <2>3 DEF AwardsWithin
<1> QED BY <1>10, <1>11 DEF all

\* The awards for some categories come from one group's candidates.
LEMMA AwardsOfOneGroup ==
    ASSUME Published, NEW groups, NEW out, Entries(groups, out),
           \A group \in graph.groups : GroupOutcome(group, out[group]),
           NEW group \in graph.groups, NEW S
    PROVE  AwardsWithin(group, S, UNION {ToSet(t.candidates) : t \in groups})
              = AwardsWithin(group, S, ToSet(out[group]))
<1> DEFINE C == UNION {ToSet(t.candidates) : t \in groups}
<1>1. ToSet(out[group]) \subseteq C
  BY EntriesHaveCandidates
<1>2. ASSUME NEW c \in C, NEW r \in RulesWithin(group, S), r.id = c.rule
      PROVE  c \in ToSet(out[group])
  <2>1. PICK other \in graph.groups : c \in ToSet(out[other])
    BY EntriesHaveCandidates
  <2>2. PICK k \in DOMAIN out[other] : out[other][k] = c
    BY <2>1 DEF ToSet
  <2>3. OfRules(other, out[other])
    BY DEF GroupOutcome
  <2>4. PICK s \in RulesOf(graph, other) : c.rule = s.id
    BY <2>2, <2>3, CandidatesOfRules
  <2>5. r \in graph.rules /\ r.group = group.id /\ s \in graph.rules /\ s.group = other.id
    BY DEF RulesWithin, RulesOf
  <2>6. r = s
    BY <1>2, <2>4, <2>5, GraphRules
  <2>7. other = group
    BY <2>5, <2>6, DraftAssumption DEF Published
  <2> QED BY <2>1, <2>7
<1> HIDE DEF C
<1> QED BY <1>1, <1>2 DEF AwardsWithin, C

\* In every purchase the waterfalls award no amount twice.
WaterfallInv ==
    \A p \in Processed : \A group \in graph.groups : group.strategy = "waterfall" =>
        \A S \in SUBSET Category : Separate(group, S) =>
            BasisOf(AwardsWithin(group, S, Candidates(p))) <= Total(BasisByCategory(p), S)

\* A purchase is processed; those before stay as they are.
LEMMA CalculateKeepsWaterfalls ==
    ASSUME EngineInv, AmountsNotNegative, WaterfallsInTurn, WaterfallInv,
           NEW p \in Purchases, CalculatePurchase(p)
    PROVE  WaterfallInv'
<1>1. Published /\ p \notin Processed /\ graph' = graph
  BY CalculatePurchaseOutcome
<1>2. PICK trace, out, groups :
        /\ Entries(groups, out)
        /\ \A group \in graph.groups :
              /\ trace[group] \in Orders(group)
              /\ out[group] = EvaluateGroup(p, group, trace[group])
              /\ GroupOutcome(group, out[group])
        /\ calculation' = [calculation EXCEPT ![p] = groups]
        /\ usage' = WithUsage({c \in UNION {ToSet(t.candidates) : t \in groups} : c.selected},
                              p.time)
  BY CalculatePurchaseOutcome
<1>3. /\ \A q \in Processed' : q # p => q \in Processed /\ Candidates(q)' = Candidates(q)
      /\ Candidates(p)' = UNION {ToSet(t.candidates) : t \in groups}
  BY <1>2 DEF EngineInv, Processed, Candidates
<1> SUFFICES ASSUME NEW q \in Processed', NEW group \in graph.groups,
                    group.strategy = "waterfall", NEW S \in SUBSET Category, Separate(group, S)
             PROVE  BasisOf(AwardsWithin(group, S, Candidates(q)'))
                       <= Total(BasisByCategory(q), S)
  BY <1>1 DEF WaterfallInv, Separate, RulesWithin, RulesOf, AwardsWithin, BasisByCategory
<1>4. CASE q = p
  <2>1. AwardsWithin(group, S, Candidates(p)') = AwardsWithin(group, S, ToSet(out[group]))
    BY <1>1, <1>2, <1>3, AwardsOfOneGroup
  <2>2. /\ trace[group] \in Orders(group)
        /\ out[group] = EvaluateGroup(p, group, trace[group])
    BY <1>2
  <2>3. BasisOf(AwardsWithin(group, S, ToSet(EvaluateGroup(p, group, trace[group]))))
           <= Total(BasisByCategory(p), S)
    BY <1>1, <2>2, GroupEarnsOnce DEF EngineInv
  <2> QED BY <1>4, <2>1, <2>2, <2>3
<1>5. CASE q # p
  <2>1. q \in Processed /\ Candidates(q)' = Candidates(q)
    BY <1>3, <1>5
  <2> QED BY <2>1 DEF WaterfallInv
<1> QED BY <1>4, <1>5

\* No step lets a waterfall earn on an amount twice.
LEMMA WaterfallNext ==
    EngineInv /\ AmountsNotNegative /\ WaterfallsInTurn /\ WaterfallInv /\ [Next]_vars
        => WaterfallInv'
<1> SUFFICES ASSUME EngineInv, AmountsNotNegative, WaterfallsInTurn, WaterfallInv, [Next]_vars
             PROVE  WaterfallInv'
  OBVIOUS
<1>1. CASE \E g \in Drafts : Publish(g)
  <2>1. Processed' = {}
    BY <1>1 DEF Publish, EngineInv, Processed
  <2> QED BY <2>1 DEF WaterfallInv
<1>2. CASE \E p \in Purchases : CalculatePurchase(p)
  BY <1>2, CalculateKeepsWaterfalls
<1>3. CASE UNCHANGED vars
  <2>1. graph' = graph /\ calculation' = calculation
    BY <1>3 DEF vars
  <2> QED BY <2>1 DEF WaterfallInv, Processed, Candidates, Separate, RulesWithin, RulesOf,
                      AwardsWithin, BasisByCategory
<1> QED BY <1>1, <1>2, <1>3 DEF Next

\* If no rule of a waterfall names a category twice, and one without categories
\* comes last, no part of a purchase is earned on twice.
THEOREM WaterfallAlwaysEarnsOnce ==
    AmountsNotNegative /\ WaterfallsInTurn => (Spec => []WaterfallEarnsOnce)
<1> SUFFICES ASSUME AmountsNotNegative, WaterfallsInTurn PROVE Spec => []WaterfallEarnsOnce
  OBVIOUS
<1>1. Init => WaterfallInv
  BY DEF Init, WaterfallInv, Processed
<1>2. EngineInv /\ WaterfallInv /\ [Next]_vars => WaterfallInv'
  BY WaterfallNext
<1>3. WaterfallInv => WaterfallEarnsOnce
  <2> SUFFICES ASSUME WaterfallInv, NEW p \in Processed, NEW group \in graph.groups,
                      group.strategy = "waterfall", NEW S \in SUBSET Category
               PROVE  LET rules == {r \in RulesOf(graph, group) :
                                       r.categories # <<>> => ToSet(r.categories) \subseteq S}
                          awards == {c \in Selected(p) : \E r \in rules : r.id = c.rule}
                      IN  (S = Category \/ \A r \in rules : r.categories # <<>>) =>
                             SumFunction([c \in awards |-> c.basis])
                                <= SumFunction([c \in S |-> BasisByCategory(p)[c]])
    BY DEF WaterfallEarnsOnce
  <2> DEFINE rules == RulesWithin(group, S)
             awards == AwardsWithin(group, S, Candidates(p))
             f == [c \in S |-> BasisByCategory(p)[c]]
  <2>1. Separate(group, S) => BasisOf(awards) <= Total(BasisByCategory(p), S)
    BY DEF WaterfallInv
  <2>2. SumFunction(f) = Total(BasisByCategory(p), S)
    <3>1. DOMAIN f = S /\ \A c \in S : f[c] = BasisByCategory(p)[c]
      OBVIOUS
    <3>2. \A c \in S : f[c] \in Int
      BY PurchaseAssumption DEF BasisByCategory, Processed
    <3> HIDE DEF f
    <3>3. IsFiniteSet(S)
      BY FS_Subset, CategoryAssumption
    <3>4. Total(f, S) = Total(BasisByCategory(p), S)
      BY <3>1, <3>2, <3>3, TotalEqual DEF Summable
    <3> QED BY <3>1, <3>4 DEF SumFunction, Total
  <2>3. Separate(group, S) => SumFunction([c \in awards |-> c.basis]) <= SumFunction(f)
    BY <2>1, <2>2 DEF BasisOf
  <2>4. awards = {c \in Selected(p) : \E r \in rules : r.id = c.rule}
    BY DEF AwardsWithin, Selected
  <2>5. rules = {r \in RulesOf(graph, group) :
                    r.categories # <<>> => ToSet(r.categories) \subseteq S}
    BY DEF RulesWithin
  <2> HIDE DEF awards, f, rules
  <2> QED BY <2>3, <2>4, <2>5 DEF Separate, f, rules
<1> QED BY <1>1, <1>2, <1>3, EngineInvariance, PTL DEF Spec
=============================================================================
