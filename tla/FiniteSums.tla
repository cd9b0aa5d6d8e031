------------------------------ MODULE FiniteSums ------------------------------
(***************************************************************************)
(* Sums over finite sets, as the community modules define them (a fold in  *)
(* the order that CHOOSE picks the elements), and what a proof needs to    *)
(* know of them: that they exist, are unique and do not depend on order.   *)
(***************************************************************************)
EXTENDS FiniteSetsExt, FiniteSetTheorems, TLAPS

-----------------------------------------------------------------------------
(* Induction.                                                              *)

\* Induction over the subsets of a finite set: what holds of a set when it holds
\* of all its proper subsets holds of every subset.
LEMMA SubsetInduction ==
    ASSUME NEW S, IsFiniteSet(S), NEW G,
           \A T \in SUBSET S : (\A U \in SUBSET T : U # T => U \in G) => T \in G
    PROVE  \A T \in SUBSET S : T \in G
<1> DEFINE Bad == {T \in SUBSET S : T \notin G}
<1> SUFFICES ASSUME Bad # {} PROVE FALSE
  OBVIOUS
<1>1. FiniteSubsetsOf(S) = SUBSET S
  BY FS_FiniteSubsetsOfFinite
<1>2. IsWellFoundedOn(StrictSubsetOrdering(S), SUBSET S)
  <2>1. IsWellFoundedOn(StrictSubsetOrdering(S), FiniteSubsetsOf(S))
    BY FS_StrictSubsetOrderingWellFounded
  <2> QED BY <1>1, <2>1
<1>3. Bad \subseteq SUBSET S
  OBVIOUS
<1>4. PICK T \in Bad : \A U \in Bad : ~(<<U, T>> \in StrictSubsetOrdering(S))
  <2> HIDE DEF Bad
  <2> QED BY <1>2, <1>3, WFMin
<1>5. ASSUME NEW U \in SUBSET T, U # T PROVE U \in G
  <2>1. <<U, T>> \in StrictSubsetOrdering(S)
    BY <1>5 DEF StrictSubsetOrdering
  <2>2. U \notin Bad
    BY <1>4, <2>1
  <2> QED BY <2>2
<1> QED BY <1>5

\* Induction by adding one element after another.
LEMMA ElementInduction ==
    ASSUME NEW S, IsFiniteSet(S), NEW G, {} \in G,
           \A T \in SUBSET S : \A x \in S \ T : T \in G => T \cup {x} \in G
    PROVE  S \in G
<1>1. ASSUME NEW T \in SUBSET S, \A U \in SUBSET T : U # T => U \in G PROVE T \in G
  <2>1. CASE T = {}
    BY <2>1
  <2>2. CASE T # {}
    <3>1. PICK x \in T : TRUE
      BY <2>2
    <3>2. T \ {x} \in SUBSET T /\ T \ {x} # T /\ (T \ {x}) \cup {x} = T /\ x \in S \ (T \ {x})
      OBVIOUS
    <3>3. T \ {x} \in G
      BY <1>1, <3>2
    <3>4. T \ {x} \in SUBSET S
      OBVIOUS
    <3>5. (T \ {x}) \cup {x} \in G
      BY <3>2, <3>3, <3>4
    <3> QED BY <3>2, <3>5
  <2> QED BY <2>1, <2>2
<1>2. \A T \in SUBSET S : T \in G
  BY <1>1, SubsetInduction
<1> QED BY <1>2
-----------------------------------------------------------------------------
(* Folds.                                                                  *)

\* g maps every subset of S to the result of combining its elements, choose[T]
\* being the one combined last, with step[x][v] the result of combining x with v.
Folds(g, S, choose, base, step) ==
    g = [T \in SUBSET S |->
            IF T = {} THEN base ELSE step[choose[T]][g[T \ {choose[T]}]]]

Chooses(choose, S) == \A T \in SUBSET S : T # {} => choose[T] \in T

\* At most one function folds.
LEMMA FoldUnique ==
    ASSUME NEW S, IsFiniteSet(S), NEW choose, Chooses(choose, S), NEW base, NEW step,
           NEW g, Folds(g, S, choose, base, step), NEW h, Folds(h, S, choose, base, step)
    PROVE  g = h
<1> DEFINE Same == {T \in SUBSET S : g[T] = h[T]}
<1>1. ASSUME NEW T \in SUBSET S, \A U \in SUBSET T : U # T => U \in Same PROVE T \in Same
  <2>1. CASE T = {}
    BY <2>1 DEF Folds
  <2>2. CASE T # {}
    <3>1. choose[T] \in T
      BY <2>2 DEF Chooses
    <3>2. T \ {choose[T]} \in Same
      BY <1>1, <3>1
    <3>3. g[T] = step[choose[T]][g[T \ {choose[T]}]] /\ h[T] = step[choose[T]][h[T \ {choose[T]}]]
      BY <2>2 DEF Folds
    <3> QED BY <3>2, <3>3
  <2> QED BY <2>1, <2>2
<1>2. \A T \in SUBSET S : T \in Same
  <2> HIDE DEF Same
  <2> QED BY <1>1, SubsetInduction
<1>3. g = [T \in SUBSET S |-> g[T]] /\ h = [T \in SUBSET S |-> h[T]]
  BY DEF Folds
<1>4. \A T \in SUBSET S : g[T] = h[T]
  BY <1>2
<1> QED BY <1>3, <1>4

\* What folds over S folds over its subsets.
LEMMA FoldRestricted ==
    ASSUME NEW S, NEW T \in SUBSET S, NEW choose, Chooses(choose, S), NEW base, NEW step,
           NEW g, Folds(g, S, choose, base, step)
    PROVE  Folds([U \in SUBSET T |-> g[U]], T, choose, base, step)
<1> DEFINE h == [U \in SUBSET T |-> g[U]]
           k == [U \in SUBSET T |->
                    IF U = {} THEN base ELSE step[choose[U]][h[U \ {choose[U]}]]]
<1>1. ASSUME NEW U \in SUBSET T PROVE h[U] = k[U]
  <2>1. U \in SUBSET S /\ U \ {choose[U]} \in SUBSET T
    OBVIOUS
  <2>2. g[U] = IF U = {} THEN base ELSE step[choose[U]][g[U \ {choose[U]}]]
    BY <2>1 DEF Folds
  <2>3. h[U] = g[U] /\ h[U \ {choose[U]}] = g[U \ {choose[U]}]
    BY <2>1
  <2> QED BY <2>2, <2>3
<1>2. h = k
  BY <1>1
<1> QED BY <1>2 DEF Folds

\* Some function folds.
LEMMA FoldExists ==
    ASSUME NEW S, IsFiniteSet(S), NEW choose, Chooses(choose, S), NEW base, NEW step
    PROVE  \E g : Folds(g, S, choose, base, step)
<1> DEFINE Done == {T \in SUBSET S : \E g : Folds(g, T, choose, base, step)}
<1>1. ASSUME NEW T \in SUBSET S, \A U \in SUBSET T : U # T => U \in Done PROVE T \in Done
  <2> DEFINE Of(U) == CHOOSE g : Folds(g, U, choose, base, step)
             Last(U) == U \ {choose[U]}
             value == [U \in SUBSET T |->
                          IF U = {} THEN base ELSE step[choose[U]][Of(Last(U))[Last(U)]]]
  <2>1. ASSUME NEW U \in SUBSET T, U # T PROVE Folds(Of(U), U, choose, base, step)
    <3>1. \E g : Folds(g, U, choose, base, step)
      BY <1>1, <2>1
    <3> HIDE DEF Folds
    <3> QED BY <3>1
  <2>2. ASSUME NEW U \in SUBSET T, U # {}
        PROVE  Last(U) \in SUBSET U /\ Last(U) # T /\ Last(U) # U
    BY <2>2 DEF Chooses
  <2> HIDE DEF Of
  <2>3. ASSUME NEW U \in SUBSET T, U # T PROVE Of(U)[U] = value[U]
    <3>1. CASE U = {}
      <4>1. Of(U)[U] = base
        BY <2>1, <2>3, <3>1 DEF Folds
      <4> QED BY <3>1, <4>1
    <3>2. CASE U # {}
      <4>1. Of(U)[U] = step[choose[U]][Of(U)[Last(U)]]
        BY <2>1, <2>3, <3>2 DEF Folds
      <4>2. Last(U) \in SUBSET U /\ Last(U) \in SUBSET T /\ Last(U) # T
        BY <2>2, <3>2
      <4>3. Folds([W \in SUBSET Last(U) |-> Of(U)[W]], Last(U), choose, base, step)
        <5>1. Chooses(choose, U)
          BY DEF Chooses
        <5>2. Folds(Of(U), U, choose, base, step)
          BY <2>1, <2>3
        <5> HIDE DEF Last
        <5> QED BY <4>2, <5>1, <5>2, FoldRestricted
      <4>4. Folds(Of(Last(U)), Last(U), choose, base, step)
        BY <2>1, <4>2
      <4>5. [W \in SUBSET Last(U) |-> Of(U)[W]] = Of(Last(U))
        <5>1. Chooses(choose, Last(U)) /\ IsFiniteSet(Last(U))
          BY <4>2, FS_Subset DEF Chooses
        <5> HIDE DEF Last
        <5> QED BY <4>3, <4>4, <5>1, FoldUnique
      <4>6. Of(Last(U))[Last(U)] = Of(U)[Last(U)]
        BY <4>5
      <4>7. value[U] = step[choose[U]][Of(Last(U))[Last(U)]]
        BY <3>2
      <4> QED BY <4>1, <4>6, <4>7
    <3> QED BY <3>1, <3>2
  <2>4. ASSUME NEW U \in SUBSET T
        PROVE  value[U] = IF U = {} THEN base ELSE step[choose[U]][value[Last(U)]]
    <3>1. CASE U = {}
      BY <3>1
    <3>2. CASE U # {}
      <4>1. Last(U) \in SUBSET T /\ Last(U) # T
        BY <2>2, <3>2
      <4>2. Of(Last(U))[Last(U)] = value[Last(U)]
        <5> HIDE DEF Last, value
        <5> QED BY <2>3, <4>1
      <4>3. value[U] = step[choose[U]][Of(Last(U))[Last(U)]]
        BY <3>2
      <4> QED BY <3>2, <4>2, <4>3
    <3> QED BY <3>1, <3>2
  <2>5. value = [U \in SUBSET T |-> value[U]]
    OBVIOUS
  <2>6. Folds(value, T, choose, base, step)
    <3> HIDE DEF value
    <3> QED BY <2>4, <2>5 DEF Folds
  <2> QED BY <2>6
<1>2. \A T \in SUBSET S : T \in Done
  <2> HIDE DEF Done
  <2> QED BY <1>1, SubsetInduction
<1> QED BY <1>2
-----------------------------------------------------------------------------
(* Sums.                                                                   *)

Some(T) == CHOOSE x \in T : TRUE

\* g maps every subset of S to the sum of f over it, as MapThenFoldSet adds it up.
Sums(g, f, S) ==
    g = [T \in SUBSET S |-> IF T = {} THEN 0 ELSE f[Some(T)] + g[T \ {Some(T)}]]

Total(f, S) == SumFunctionOnSet(f, S)

LEMMA TotalChosen ==
    ASSUME NEW f, NEW S
    PROVE  Total(f, S) = (CHOOSE g : Sums(g, f, S))[S]
BY DEF Total, SumFunctionOnSet, FoldFunctionOnSet, MapThenFoldSet, Sums, Some

\* The functions that a sum is taken of are integer-valued on the finite set.
Summable(f, S) == IsFiniteSet(S) /\ \A x \in S : f[x] \in Int

LEMMA SumsExist ==
    ASSUME NEW S, NEW f, Summable(f, S)
    PROVE  \E g \in [SUBSET S -> Int] : Sums(g, f, S)
<1> DEFINE choose == [T \in SUBSET S |-> Some(T)]
           step == [x \in S |-> [v \in Int |-> f[x] + v]]
<1>1. Chooses(choose, S)
  BY DEF Chooses, Some
<1>2. PICK g : Folds(g, S, choose, 0, step)
  <2> HIDE DEF choose, step
  <2> QED BY <1>1, FoldExists DEF Summable
<1> DEFINE Good == {T \in SUBSET S : g[T] \in Int}
<1>3. ASSUME NEW T \in SUBSET S, T # {}, T \ {Some(T)} \in Good
      PROVE  g[T] = f[Some(T)] + g[T \ {Some(T)}] /\ f[Some(T)] \in Int
  <2>1. Some(T) \in S
    BY <1>3 DEF Some
  <2>2. g[T] = step[choose[T]][g[T \ {choose[T]}]]
    BY <1>2, <1>3 DEF Folds
  <2>3. choose[T] = Some(T)
    OBVIOUS
  <2> QED BY <1>3, <2>1, <2>2, <2>3 DEF Summable
<1>4. ASSUME NEW T \in SUBSET S, \A U \in SUBSET T : U # T => U \in Good PROVE T \in Good
  <2>1. CASE T = {}
    BY <1>2, <2>1 DEF Folds
  <2>2. CASE T # {}
    <3>1. T \ {Some(T)} \in Good
      BY <1>4, <2>2 DEF Some
    <3> QED BY <1>3, <2>2, <3>1
  <2> QED BY <2>1, <2>2
<1>5. \A T \in SUBSET S : T \in Good
  <2> HIDE DEF Good
  <2> QED BY <1>4, SubsetInduction DEF Summable
<1>6. ASSUME NEW T \in SUBSET S
      PROVE  g[T] = IF T = {} THEN 0 ELSE f[Some(T)] + g[T \ {Some(T)}]
  <2>1. CASE T = {}
    BY <1>2, <2>1 DEF Folds
  <2>2. CASE T # {}
    BY <1>3, <1>5, <2>2
  <2> QED BY <2>1, <2>2
<1>7. g = [T \in SUBSET S |-> g[T]]
  BY <1>2 DEF Folds
<1>8. g \in [SUBSET S -> Int]
  BY <1>5, <1>7
<1>9. Sums(g, f, S)
  BY <1>6, <1>7 DEF Sums
<1> QED BY <1>8, <1>9

LEMMA SumsUnique ==
    ASSUME NEW S, IsFiniteSet(S), NEW f, NEW g, Sums(g, f, S), NEW h, Sums(h, f, S)
    PROVE  g = h
<1> DEFINE Same == {T \in SUBSET S : g[T] = h[T]}
<1>1. ASSUME NEW T \in SUBSET S, \A U \in SUBSET T : U # T => U \in Same PROVE T \in Same
  <2>1. CASE T = {}
    BY <2>1 DEF Sums
  <2>2. CASE T # {}
    <3>1. T \ {Some(T)} \in Same
      BY <1>1, <2>2 DEF Some
    <3>2. g[T] = f[Some(T)] + g[T \ {Some(T)}] /\ h[T] = f[Some(T)] + h[T \ {Some(T)}]
      BY <2>2 DEF Sums
    <3> QED BY <3>1, <3>2
  <2> QED BY <2>1, <2>2
<1>2. \A T \in SUBSET S : T \in Same
  <2> HIDE DEF Same
  <2> QED BY <1>1, SubsetInduction
<1>3. g = [T \in SUBSET S |-> g[T]] /\ h = [T \in SUBSET S |-> h[T]]
  BY DEF Sums
<1>4. \A T \in SUBSET S : g[T] = h[T]
  BY <1>2
<1> QED BY <1>3, <1>4

\* What sums over S gives the total over every subset of S.
LEMMA SumsGiveTotal ==
    ASSUME NEW S, NEW f, Summable(f, S), NEW g, Sums(g, f, S), NEW T \in SUBSET S
    PROVE  g[T] = Total(f, T)
<1> DEFINE h == [U \in SUBSET T |-> g[U]]
<1>1. \A U \in SUBSET T : U # {} => Some(U) \in U
  BY DEF Some
<1>2. ASSUME NEW U \in SUBSET T
      PROVE  h[U] = IF U = {} THEN 0 ELSE f[Some(U)] + h[U \ {Some(U)}]
  <2>1. U \in SUBSET S /\ U \ {Some(U)} \in SUBSET T
    OBVIOUS
  <2>2. g[U] = IF U = {} THEN 0 ELSE f[Some(U)] + g[U \ {Some(U)}]
    BY <2>1 DEF Sums
  <2> QED BY <2>1, <2>2
<1>3. Sums(h, f, T)
  <2>1. h = [U \in SUBSET T |-> h[U]]
    OBVIOUS
  <2> HIDE DEF h
  <2> QED BY <1>2, <2>1 DEF Sums
<1>4. IsFiniteSet(T)
  BY FS_Subset DEF Summable
<1>5. Sums(CHOOSE k : Sums(k, f, T), f, T)
  <2> HIDE DEF Sums, h
  <2> QED BY <1>3
<1>6. (CHOOSE k : Sums(k, f, T)) = h
  <2> HIDE DEF h
  <2> QED BY <1>3, <1>4, <1>5, SumsUnique
<1>7. Total(f, T) = h[T]
  BY <1>6, TotalChosen
<1> QED BY <1>7

\* The sum of nothing.
LEMMA TotalEmpty == ASSUME NEW f PROVE Total(f, {}) = 0
<1>1. Summable(f, {})
  BY FS_EmptySet DEF Summable
<1>2. PICK g \in [SUBSET {} -> Int] : Sums(g, f, {})
  BY <1>1, SumsExist
<1>3. g[{}] = 0
  BY <1>2 DEF Sums
<1> QED BY <1>1, <1>2, <1>3, SumsGiveTotal

\* A sum of integers is an integer, and any of its elements can be taken out.
LEMMA TotalWithout ==
    ASSUME NEW S, NEW f, Summable(f, S)
    PROVE  /\ Total(f, S) \in Int
           /\ \A x \in S : Total(f, S) = f[x] + Total(f, S \ {x})
<1>1. PICK g \in [SUBSET S -> Int] : Sums(g, f, S)
  BY SumsExist
<1>2. \A T \in SUBSET S : Total(f, T) = g[T] /\ Total(f, T) \in Int
  BY <1>1, SumsGiveTotal
<1> DEFINE Good == {T \in SUBSET S : \A x \in T : Total(f, T) = f[x] + Total(f, T \ {x})}
<1>3. ASSUME NEW T \in SUBSET S, T # {}
      PROVE  Some(T) \in T /\ Total(f, T) = f[Some(T)] + Total(f, T \ {Some(T)})
  <2>1. Some(T) \in T
    BY <1>3 DEF Some
  <2>2. g[T] = f[Some(T)] + g[T \ {Some(T)}]
    BY <1>1, <1>3 DEF Sums
  <2>3. T \ {Some(T)} \in SUBSET S
    OBVIOUS
  <2> QED BY <1>2, <2>1, <2>2, <2>3
<1>4. ASSUME NEW T \in SUBSET S, \A U \in SUBSET T : U # T => U \in Good PROVE T \in Good
  <2> SUFFICES ASSUME NEW x \in T, x # Some(T) PROVE Total(f, T) = f[x] + Total(f, T \ {x})
    BY <1>3
  <2> DEFINE s == Some(T)
             rest == (T \ {x}) \ {s}
  <2>1. s \in T /\ Total(f, T) = f[s] + Total(f, T \ {s})
    BY <1>3
  <2> HIDE DEF s
  <2>2. T \ {s} \in Good /\ T \ {x} \in Good
    <3>1. T \ {s} \in SUBSET T /\ T \ {s} # T /\ T \ {x} \in SUBSET T /\ T \ {x} # T
      BY <2>1
    <3> HIDE DEF Good
    <3> QED BY <1>4, <3>1
  <2>3. x \in T \ {s} /\ s \in T \ {x} /\ (T \ {s}) \ {x} = rest
    BY <2>1 DEF s
  <2>4. Total(f, T \ {s}) = f[x] + Total(f, rest) /\ Total(f, T \ {x}) = f[s] + Total(f, rest)
    BY <2>2, <2>3
  <2>5. f[x] \in Int /\ f[s] \in Int /\ Total(f, rest) \in Int
    <3>1. rest \in SUBSET S
      OBVIOUS
    <3> QED BY <1>2, <2>1, <3>1 DEF Summable
  <2> QED BY <2>1, <2>4, <2>5
<1>5. \A T \in SUBSET S : T \in Good
  <2> HIDE DEF Good
  <2> QED BY <1>4, SubsetInduction DEF Summable
<1> QED BY <1>2, <1>5

\* Adding an element adds its value.
LEMMA TotalAdd ==
    ASSUME NEW S, NEW x, x \notin S, NEW f, Summable(f, S \cup {x})
    PROVE  Total(f, S \cup {x}) = f[x] + Total(f, S)
<1>1. (S \cup {x}) \ {x} = S
  OBVIOUS
<1> QED BY <1>1, TotalWithout
\* A sum depends on the values on the set only.
LEMMA TotalEqual ==
    ASSUME NEW S, NEW f, NEW g, Summable(f, S), \A x \in S : f[x] = g[x]
    PROVE  Total(f, S) = Total(g, S)
<1>1. Sums(CHOOSE k : Sums(k, f, S), f, S)
  <2>1. \E k : Sums(k, f, S)
    BY SumsExist
  <2> HIDE DEF Sums
  <2> QED BY <2>1
<1>2. \A k : [T \in SUBSET S |-> IF T = {} THEN 0 ELSE f[Some(T)] + k[T \ {Some(T)}]]
           = [T \in SUBSET S |-> IF T = {} THEN 0 ELSE g[Some(T)] + k[T \ {Some(T)}]]
  <2>1. \A T \in SUBSET S : T # {} => f[Some(T)] = g[Some(T)]
    BY DEF Some
  <2> QED BY <2>1
<1>3. \A k : Sums(k, f, S) <=> Sums(k, g, S)
  BY <1>2 DEF Sums
<1>4. (CHOOSE k : Sums(k, f, S)) = (CHOOSE k : Sums(k, g, S))
  <2> HIDE DEF Sums
  <2> QED BY <1>3
<1> QED BY <1>4, TotalChosen

\* Changing one value changes the sum by as much.
LEMMA TotalChange ==
    ASSUME NEW S, NEW f, NEW g, Summable(f, S), NEW y \in S, g[y] \in Int,
           \A x \in S \ {y} : g[x] = f[x]
    PROVE  Total(g, S) = Total(f, S) - f[y] + g[y]
<1>1. Summable(g, S) /\ Summable(f, S \ {y})
  BY FS_Subset DEF Summable
<1>2. Total(f, S \ {y}) = Total(g, S \ {y})
  BY <1>1, TotalEqual
<1>3. /\ Total(f, S) = f[y] + Total(f, S \ {y})
      /\ Total(g, S) = g[y] + Total(g, S \ {y})
  BY <1>1, TotalWithout
<1>4. f[y] \in Int /\ Total(f, S \ {y}) \in Int
  BY <1>1, TotalWithout DEF Summable
<1> QED BY <1>2, <1>3, <1>4

\* A sum of sums, element by element.
LEMMA TotalPlus ==
    ASSUME NEW S, NEW f, Summable(f, S), NEW g, Summable(g, S),
           NEW h, \A x \in S : h[x] = f[x] + g[x]
    PROVE  Total(h, S) = Total(f, S) + Total(g, S)
<1>1. Summable(h, S)
  BY DEF Summable
<1> DEFINE Good == {T \in SUBSET S : Total(h, T) = Total(f, T) + Total(g, T)}
<1>2. {} \in Good
  BY TotalEmpty
<1>3. ASSUME NEW T \in SUBSET S, NEW x \in S \ T, T \in Good PROVE T \cup {x} \in Good
  <2>1. /\ Summable(f, T \cup {x}) /\ Summable(g, T \cup {x}) /\ Summable(h, T \cup {x})
        /\ Summable(f, T) /\ Summable(g, T)
    BY <1>1, FS_Subset DEF Summable
  <2>2. /\ Total(f, T \cup {x}) = f[x] + Total(f, T)
        /\ Total(g, T \cup {x}) = g[x] + Total(g, T)
        /\ Total(h, T \cup {x}) = h[x] + Total(h, T)
    BY <2>1, TotalAdd
  <2>3. /\ Total(f, T) \in Int /\ Total(g, T) \in Int
        /\ f[x] \in Int /\ g[x] \in Int /\ h[x] = f[x] + g[x]
    BY <2>1, TotalWithout DEF Summable
  <2>4. T \cup {x} \in SUBSET S /\ Total(h, T) = Total(f, T) + Total(g, T)
    BY <1>3
  <2> QED BY <2>2, <2>3, <2>4
<1>4. S \in Good
  <2> HIDE DEF Good
  <2> QED BY <1>2, <1>3, ElementInduction DEF Summable
<1> QED BY <1>4

\* The sum over two disjoint sets.
LEMMA TotalUnion ==
    ASSUME NEW S, NEW U, S \cap U = {}, NEW f, Summable(f, S \cup U)
    PROVE  Total(f, S \cup U) = Total(f, S) + Total(f, U)
<1>0. IsFiniteSet(U) /\ IsFiniteSet(S) /\ Summable(f, S) /\ Summable(f, U)
  BY FS_Subset DEF Summable
<1> DEFINE Good == {T \in SUBSET U : Total(f, S \cup T) = Total(f, S) + Total(f, T)}
<1>1. {} \in Good
  <2>1. Total(f, S) \in Int /\ S \cup {} = S
    BY <1>0, TotalWithout
  <2> QED BY <2>1, TotalEmpty
<1>2. ASSUME NEW T \in SUBSET U, NEW x \in U \ T, T \in Good PROVE T \cup {x} \in Good
  <2>1. Summable(f, (S \cup T) \cup {x}) /\ Summable(f, T \cup {x}) /\ Summable(f, T)
    <3>1. (S \cup T) \cup {x} \in SUBSET (S \cup U) /\ T \cup {x} \in SUBSET (S \cup U)
          /\ T \in SUBSET (S \cup U)
      OBVIOUS
    <3> QED BY <3>1, FS_Subset DEF Summable
  <2>2. Total(f, (S \cup T) \cup {x}) = f[x] + Total(f, S \cup T)
    <3>1. x \notin S \cup T
      OBVIOUS
    <3> QED BY <2>1, <3>1, TotalAdd
  <2>3. Total(f, T \cup {x}) = f[x] + Total(f, T)
    BY <2>1, TotalAdd
  <2>4. Total(f, T) \in Int /\ Total(f, S) \in Int /\ f[x] \in Int
    BY <1>0, <2>1, TotalWithout DEF Summable
  <2>5. (S \cup T) \cup {x} = S \cup (T \cup {x}) /\ T \cup {x} \in SUBSET U
        /\ Total(f, S \cup T) = Total(f, S) + Total(f, T)
    BY <1>2
  <2>6. Total(f, S \cup (T \cup {x})) = f[x] + Total(f, S \cup T)
    BY <2>2, <2>5
  <2>7. Total(f, S \cup (T \cup {x})) = Total(f, S) + Total(f, T \cup {x})
    BY <2>3, <2>4, <2>5, <2>6
  <2> QED BY <2>5, <2>7
<1>3. U \in Good
  <2> HIDE DEF Good
  <2> QED BY <1>0, <1>1, <1>2, ElementInduction
<1> QED BY <1>3

\* A sum of natural numbers is one.
LEMMA TotalNat ==
    ASSUME NEW S, IsFiniteSet(S), NEW f, \A x \in S : f[x] \in Nat
    PROVE  Total(f, S) \in Nat
<1> DEFINE Good == {T \in SUBSET S : Total(f, T) \in Nat}
<1>1. {} \in Good
  BY TotalEmpty
<1>2. ASSUME NEW T \in SUBSET S, NEW x \in S \ T, T \in Good PROVE T \cup {x} \in Good
  <2>1. Summable(f, T \cup {x})
    BY FS_Subset DEF Summable
  <2>2. Total(f, T \cup {x}) = f[x] + Total(f, T)
    BY <2>1, TotalAdd
  <2> QED BY <1>2, <2>2
<1>3. S \in Good
  <2> HIDE DEF Good
  <2> QED BY <1>1, <1>2, ElementInduction
<1> QED BY <1>3
\* The sum when one element comes, goes or changes its value.
LEMMA TotalMove ==
    ASSUME NEW S, NEW f, Summable(f, S), NEW U, NEW g, Summable(g, U),
           NEW y, S \ {y} = U \ {y}, \A x \in S \ {y} : g[x] = f[x]
    PROVE  Total(g, U) = Total(f, S) - (IF y \in S THEN f[y] ELSE 0)
                                     + (IF y \in U THEN g[y] ELSE 0)
<1>1. Summable(f, S \ {y}) /\ Summable(g, U \ {y})
  BY FS_Subset DEF Summable
<1>2. Total(g, U \ {y}) = Total(f, S \ {y}) /\ Total(f, S \ {y}) \in Int
  <2>1. Total(f, S \ {y}) = Total(g, S \ {y})
    BY <1>1, TotalEqual
  <2> QED BY <1>1, <2>1, TotalWithout
<1>3. Total(f, S) = (IF y \in S THEN f[y] ELSE 0) + Total(f, S \ {y})
  <2>1. CASE y \in S
    BY <2>1, TotalWithout
  <2>2. CASE y \notin S
    <3>1. S \ {y} = S
      BY <2>2
    <3>2. Total(f, S) = Total(f, S \ {y})
      BY <3>1
    <3> QED BY <1>2, <2>2, <3>2
  <2> QED BY <2>1, <2>2
<1>4. Total(g, U) = (IF y \in U THEN g[y] ELSE 0) + Total(g, U \ {y})
  <2>1. CASE y \in U
    BY <2>1, TotalWithout
  <2>2. CASE y \notin U
    <3>1. U \ {y} = U
      BY <2>2
    <3>2. Total(g, U) = Total(g, U \ {y})
      BY <3>1
    <3> QED BY <1>2, <2>2, <3>2
  <2> QED BY <2>1, <2>2
<1>5. (IF y \in S THEN f[y] ELSE 0) \in Int /\ (IF y \in U THEN g[y] ELSE 0) \in Int
  BY DEF Summable
<1> QED BY <1>2, <1>3, <1>4, <1>5

\* What is bounded element by element, up to factors, is bounded in sum.
LEMMA TotalBound ==
    ASSUME NEW S, NEW f, Summable(f, S), NEW g, Summable(g, S), NEW c \in Int, NEW d \in Int,
           \A x \in S : c * f[x] <= d * g[x]
    PROVE  c * Total(f, S) <= d * Total(g, S)
<1> DEFINE Good == {T \in SUBSET S : c * Total(f, T) <= d * Total(g, T)}
<1>1. {} \in Good
  BY TotalEmpty
<1>2. ASSUME NEW T \in SUBSET S, NEW x \in S \ T, T \in Good PROVE T \cup {x} \in Good
  <2>1. /\ Summable(f, T \cup {x}) /\ Summable(g, T \cup {x})
        /\ Summable(f, T) /\ Summable(g, T)
    BY FS_Subset DEF Summable
  <2>2. /\ Total(f, T \cup {x}) = f[x] + Total(f, T)
        /\ Total(g, T \cup {x}) = g[x] + Total(g, T)
    BY <2>1, TotalAdd
  <2>3. /\ Total(f, T) \in Int /\ Total(g, T) \in Int /\ f[x] \in Int /\ g[x] \in Int
    BY <2>1, TotalWithout DEF Summable
  <2>4. \A k, m, n \in Int : k * (m + n) = k * m + k * n
    OBVIOUS
  <2>5. /\ c * (f[x] + Total(f, T)) = c * f[x] + c * Total(f, T)
        /\ d * (g[x] + Total(g, T)) = d * g[x] + d * Total(g, T)
    BY <2>3, <2>4
  <2>6. c * f[x] <= d * g[x] /\ c * Total(f, T) <= d * Total(g, T)
    BY <1>2
  <2>7. /\ c * f[x] \in Int /\ d * g[x] \in Int
        /\ c * Total(f, T) \in Int /\ d * Total(g, T) \in Int
    BY <2>3
  <2>8. \A j, k, m, n \in Int : j <= m /\ k <= n => j + k <= m + n
    OBVIOUS
  <2>9. c * f[x] + c * Total(f, T) <= d * g[x] + d * Total(g, T)
    BY <2>6, <2>7, <2>8
  <2>10. c * Total(f, T \cup {x}) <= d * Total(g, T \cup {x})
    BY <2>2, <2>5, <2>9
  <2> QED BY <2>10
<1>3. S \in Good
  <2> HIDE DEF Good
  <2> QED BY <1>1, <1>2, ElementInduction DEF Summable
<1> QED BY <1>3

\* A part of a sum of natural numbers is no larger than the sum.
LEMMA TotalPart ==
    ASSUME NEW S, IsFiniteSet(S), NEW f, \A x \in S : f[x] \in Nat, NEW T \in SUBSET S
    PROVE  Total(f, T) <= Total(f, S)
<1>1. T \cup (S \ T) = S /\ T \cap (S \ T) = {}
  OBVIOUS
<1>2. Summable(f, S) /\ Summable(f, T)
  BY FS_Subset DEF Summable
<1>3. Total(f, T \cup (S \ T)) = Total(f, T) + Total(f, S \ T)
  BY <1>1, <1>2, TotalUnion
<1>4. Total(f, S \ T) \in Nat /\ Total(f, T) \in Int
  <2>1. IsFiniteSet(S \ T) /\ \A x \in S \ T : f[x] \in Nat
    BY FS_Subset
  <2>2. Total(f, S \ T) \in Nat
    BY <2>1, TotalNat
  <2>3. Total(f, T) \in Int
    BY <1>2, TotalWithout
  <2> QED BY <2>2, <2>3
<1>5. Total(f, S) = Total(f, T) + Total(f, S \ T)
  BY <1>1, <1>3
<1> QED BY <1>4, <1>5

\* A sum is the sum of the sums of its parts.
LEMMA TotalOfParts ==
    ASSUME NEW S, NEW f, Summable(f, S), NEW A, IsFiniteSet(A),
           NEW part, \A x \in S : part[x] \in A,
           NEW h, \A a \in A : h[a] = Total(f, {x \in S : part[x] = a})
    PROVE  Total(h, A) = Total(f, S)
<1> DEFINE In(T) == {x \in S : part[x] \in T}
           Good == {T \in SUBSET A : Total(h, T) = Total(f, In(T))}
<1>1. \A T \in SUBSET A : In(T) \in SUBSET S /\ Summable(f, In(T))
  BY FS_Subset DEF Summable
<1>2. \A a \in A : h[a] \in Int
  <2> SUFFICES ASSUME NEW a \in A PROVE Total(f, {x \in S : part[x] = a}) \in Int
    OBVIOUS
  <2> DEFINE one == {x \in S : part[x] = a}
  <2>1. Summable(f, one)
    BY FS_Subset DEF Summable
  <2> HIDE DEF one
  <2>2. Total(f, one) \in Int
    BY <2>1, TotalWithout
  <2> QED BY <2>2 DEF one
<1>3. {} \in Good
  <2>1. In({}) = {}
    OBVIOUS
  <2> QED BY <2>1, TotalEmpty
<1>4. ASSUME NEW T \in SUBSET A, NEW a \in A \ T, T \in Good PROVE T \cup {a} \in Good
  <2> DEFINE one == {x \in S : part[x] = a}
  <2>1. In(T \cup {a}) = In(T) \cup one /\ In(T) \cap one = {}
    OBVIOUS
  <2>2. Summable(f, In(T) \cup one)
    <3>1. T \cup {a} \in SUBSET A
      OBVIOUS
    <3>2. Summable(f, In(T \cup {a}))
      BY <1>1, <3>1
    <3> HIDE DEF In, one
    <3> QED BY <2>1, <3>2
  <2>3. Total(f, In(T) \cup one) = Total(f, In(T)) + Total(f, one)
    <3> HIDE DEF In, one
    <3> QED BY <2>1, <2>2, TotalUnion
  <2>4. Summable(h, T \cup {a}) /\ Summable(h, T)
    BY <1>2, FS_Subset DEF Summable
  <2>5. Total(h, T \cup {a}) = h[a] + Total(h, T)
    BY <2>4, TotalAdd
  <2>6. h[a] = Total(f, one) /\ h[a] \in Int
    BY <1>2
  <2>7. Total(h, T) = Total(f, In(T)) /\ Total(h, T) \in Int
    BY <1>4, <2>4, TotalWithout
  <2> HIDE DEF one
  <2>8. Total(f, In(T \cup {a})) = Total(f, In(T) \cup one)
    BY <2>1
  <2> HIDE DEF In
  <2>9. Total(h, T \cup {a}) = Total(f, In(T \cup {a}))
    BY <2>3, <2>5, <2>6, <2>7, <2>8
  <2> QED BY <2>9
<1>5. A \in Good
  <2> HIDE DEF Good
  <2> QED BY <1>3, <1>4, ElementInduction
<1>6. In(A) = S
  OBVIOUS
<1> QED BY <1>5, <1>6

-----------------------------------------------------------------------------
(* Sequences.                                                              *)

\* Induction over the numbers up to n.
LEMMA CountingInduction ==
    ASSUME NEW n \in Nat, NEW G, 0 \in G, \A i \in 1..n : i - 1 \in G => i \in G
    PROVE  \A i \in 0..n : i \in G
<1> DEFINE Good == {T \in SUBSET (1..n) : \A i \in 0..n : T = 1..i => i \in G}
<1>1. IsFiniteSet(1..n)
  BY FS_Interval
<1>2. ASSUME NEW T \in SUBSET (1..n), \A U \in SUBSET T : U # T => U \in Good PROVE T \in Good
  <2> SUFFICES ASSUME NEW i \in 0..n, T = 1..i, i # 0 PROVE i \in G
    OBVIOUS
  <2>1. 1..(i - 1) \in SUBSET T /\ 1..(i - 1) # T /\ i - 1 \in 0..n /\ i \in 1..n
    <3>1. i \in T /\ i \notin 1..(i - 1)
      OBVIOUS
    <3> QED BY <3>1
  <2>2. i - 1 \in G
    <3>1. 1..(i - 1) \in Good
      <4> HIDE DEF Good
      <4> QED BY <1>2, <2>1
    <3> QED BY <2>1, <3>1
  <2> QED BY <2>1, <2>2
<1>3. \A T \in SUBSET (1..n) : T \in Good
  <2> HIDE DEF Good
  <2> QED BY <1>1, <1>2, SubsetInduction
<1>4. ASSUME NEW i \in 0..n PROVE i \in G
  <2>1. 1..i \in SUBSET (1..n)
    OBVIOUS
  <2> QED BY <1>3, <2>1
<1> QED BY <1>4

\* A set of positions has a last one.
LEMMA LastPosition ==
    ASSUME NEW n \in Nat
    PROVE  /\ \A T \in SUBSET (1..n) : T # {} => Max(T) \in T
           /\ \A i \in 1..n : Max(1..i) = i
<1> DEFINE HasLast(T) == T # {} => \E m \in T : \A k \in T : m >= k
           Good == {T \in SUBSET (1..n) : HasLast(T)}
<1>1. ASSUME NEW T \in SUBSET (1..n), \A U \in SUBSET T : U # T => U \in Good PROVE T \in Good
  <2> SUFFICES ASSUME T # {} PROVE \E m \in T : \A k \in T : m >= k
    OBVIOUS
  <2>1. PICK x \in T : TRUE
    OBVIOUS
  <2>2. CASE T \ {x} = {}
    <3>1. \A k \in T : k = x
      BY <2>2
    <3> QED BY <2>1, <3>1
  <2>3. CASE T \ {x} # {}
    <3>1. T \ {x} \in Good
      BY <1>1, <2>1
    <3>2. PICK m \in T \ {x} : \A k \in T \ {x} : m >= k
      BY <2>3, <3>1
    <3>3. CASE m >= x
      BY <3>2, <3>3
    <3>4. CASE ~(m >= x)
      <4>1. \A k \in T : x >= k
        <5> SUFFICES ASSUME NEW k \in T, k # x PROVE x >= k
          BY <2>1
        <5>1. m >= k /\ m \in Int /\ k \in Int /\ x \in Int
          BY <3>2
        <5> QED BY <3>4, <5>1
      <4> QED BY <2>1, <4>1
    <3> QED BY <3>3, <3>4
  <2> QED BY <2>2, <2>3
<1>2. \A T \in SUBSET (1..n) : HasLast(T)
  <2>1. IsFiniteSet(1..n)
    BY FS_Interval
  <2>2. \A T \in SUBSET (1..n) : T \in Good
    <3> HIDE DEF Good
    <3> QED BY <1>1, <2>1, SubsetInduction
  <2> QED BY <2>2
<1>3. ASSUME NEW T \in SUBSET (1..n), T # {} PROVE Max(T) \in T /\ \A k \in T : Max(T) >= k
  BY <1>2, <1>3 DEF Max
<1>4. ASSUME NEW i \in 1..n PROVE Max(1..i) = i
  <2>1. 1..i \in SUBSET (1..n) /\ i \in 1..i
    OBVIOUS
  <2>2. Max(1..i) \in 1..i /\ Max(1..i) >= i
    BY <1>3, <2>1
  <2> QED BY <2>2
<1> QED BY <1>3, <1>4

\* The positions up to one, and those before it.
LEMMA PositionsUpTo ==
    ASSUME NEW n \in Nat, NEW i \in 1..n
    PROVE  /\ 1..i \in SUBSET (1..n) /\ 1..i # {} /\ (1..i) \ {Max(1..i)} = 1..(i - 1)
           /\ Max(1..i) = i /\ i - 1 \in 0..n /\ i \in 0..n
<1>1. Max(1..i) = i
  BY LastPosition
<1>2. /\ 1..i \in SUBSET (1..n) /\ 1..i # {} /\ (1..i) \ {i} = 1..(i - 1)
      /\ i - 1 \in 0..n /\ i \in 0..n
  OBVIOUS
<1> QED BY <1>1, <1>2

\* Of n positions, those of T are combined with base in turn, as FoldLeft does.
FoldsLeft(g, n, base, step) ==
    g = [T \in SUBSET (1..n) |->
            IF T = {} THEN base ELSE step[Max(T)][g[T \ {Max(T)}]]]

\* When every step stays within the values V, a fold from the left exists there.
LEMMA FoldLeftExists ==
    ASSUME NEW n \in Nat, NEW V, NEW base \in V, NEW step \in [1..n -> [V -> V]]
    PROVE  \E g \in [SUBSET (1..n) -> V] : FoldsLeft(g, n, base, step)
<1> DEFINE choose == [T \in SUBSET (1..n) |-> Max(T)]
<1>1. IsFiniteSet(1..n) /\ Chooses(choose, 1..n)
  <2>1. IsFiniteSet(1..n)
    BY FS_Interval
  <2>2. \A T \in SUBSET (1..n) : T # {} => Max(T) \in T
    BY LastPosition
  <2> QED BY <2>1, <2>2 DEF Chooses
<1>2. PICK g : Folds(g, 1..n, choose, base, step)
  <2> HIDE DEF choose
  <2> QED BY <1>1, FoldExists
<1>3. \A T \in SUBSET (1..n) :
        g[T] = IF T = {} THEN base ELSE step[Max(T)][g[T \ {Max(T)}]]
  <2> SUFFICES ASSUME NEW T \in SUBSET (1..n)
               PROVE  g[T] = IF T = {} THEN base ELSE step[Max(T)][g[T \ {Max(T)}]]
    OBVIOUS
  <2>1. choose[T] = Max(T)
    OBVIOUS
  <2> HIDE DEF choose
  <2>2. g[T] = IF T = {} THEN base ELSE step[choose[T]][g[T \ {choose[T]}]]
    BY <1>2 DEF Folds
  <2> QED BY <2>1, <2>2
<1>4. g = [T \in SUBSET (1..n) |-> g[T]]
  BY <1>2 DEF Folds
<1> DEFINE Good == {T \in SUBSET (1..n) : g[T] \in V}
<1>5. ASSUME NEW T \in SUBSET (1..n), \A U \in SUBSET T : U # T => U \in Good PROVE T \in Good
  <2>1. CASE T = {}
    BY <1>3, <2>1
  <2>2. CASE T # {}
    <3>1. Max(T) \in T
      BY <2>2, LastPosition
    <3>2. T \ {Max(T)} \in Good
      BY <1>5, <3>1
    <3>3. g[T] = step[Max(T)][g[T \ {Max(T)}]]
      BY <1>3, <2>2
    <3> QED BY <3>1, <3>2, <3>3
  <2> QED BY <2>1, <2>2
<1>6. \A T \in SUBSET (1..n) : g[T] \in V
  <2>1. \A T \in SUBSET (1..n) : T \in Good
    <3> HIDE DEF Good
    <3> QED BY <1>1, <1>5, SubsetInduction
  <2> QED BY <2>1
<1>7. FoldsLeft(g, n, base, step)
  BY <1>3, <1>4 DEF FoldsLeft
<1>8. g \in [SUBSET (1..n) -> V]
  BY <1>4, <1>6
<1> QED BY <1>7, <1>8

\* The same, as far as the values of V are concerned.
FoldsWithin(iter, n, V, base, step) ==
    /\ iter[{}] = base
    /\ \A T \in SUBSET (1..n) : T # {} /\ iter[T \ {Max(T)}] \in V =>
          iter[T] = step[Max(T)][iter[T \ {Max(T)}]]

\* What folds from the left runs through the positions, one step at each.
LEMMA RunOfFold ==
    ASSUME NEW n \in Nat, NEW V, NEW base \in V, NEW step \in [1..n -> [V -> V]],
           NEW iter, FoldsWithin(iter, n, V, base, step)
    PROVE  \E run \in [0..n -> V] :
              /\ run[0] = base /\ run[n] = iter[1..n]
              /\ \A i \in 1..n : run[i] = step[i][run[i - 1]]
<1> DEFINE run == [i \in 0..n |-> iter[1..i]]
           G == {i \in 0..n : run[i] \in V}
<1>1. run[0] = base /\ run[n] = iter[1..n]
  <2>1. 1..0 = {} /\ 0 \in 0..n /\ n \in 0..n
    OBVIOUS
  <2>2. iter[{}] = base
    BY DEF FoldsWithin
  <2> QED BY <2>1, <2>2
<1>2. ASSUME NEW i \in 1..n, run[i - 1] \in V PROVE run[i] = step[i][run[i - 1]]
  <2>1. /\ 1..i \in SUBSET (1..n) /\ 1..i # {} /\ (1..i) \ {Max(1..i)} = 1..(i - 1)
        /\ Max(1..i) = i /\ i - 1 \in 0..n /\ i \in 0..n
    BY PositionsUpTo
  <2>2. run[i - 1] = iter[1..(i - 1)] /\ run[i] = iter[1..i]
    BY <2>1
  <2> HIDE DEF run
  <2> QED BY <1>2, <2>1, <2>2 DEF FoldsWithin
<1> HIDE DEF run
<1>3. ASSUME NEW i \in 1..n, i - 1 \in G PROVE i \in G
  <2>1. run[i - 1] \in V /\ i \in 0..n
    BY <1>3
  <2>2. run[i] = step[i][run[i - 1]] /\ step[i] \in [V -> V]
    BY <1>2, <2>1
  <2> QED BY <2>1, <2>2
<1>4. 0 \in G
  BY <1>1
<1>5. \A i \in 0..n : i \in G
  <2> HIDE DEF G
  <2> QED BY <1>3, <1>4, CountingInduction
<1>6. \A i \in 0..n : run[i] \in V
  BY <1>5
<1>7. run \in [0..n -> V]
  BY <1>6 DEF run
<1>8. \A i \in 1..n : run[i] = step[i][run[i - 1]]
  <2>1. \A i \in 1..n : i - 1 \in 0..n
    OBVIOUS
  <2> QED BY <1>2, <1>6, <2>1
<1> QED BY <1>1, <1>7, <1>8
===============================================================================
