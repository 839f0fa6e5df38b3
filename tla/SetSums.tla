------------------------------ MODULE SetSums ------------------------------
(***************************************************************************)
(* What SumFunctionOnSet computes, for functions to the naturals on finite *)
(* sets: the number of the units that a function gives the elements of a   *)
(* set, whatever the order in which the fold takes them.                   *)
(***************************************************************************)
EXTENDS Integers, FiniteSets, Functions, FiniteSetTheorems, WellFoundedInduction, TLAPS

\* What f gives the elements of S, as that many distinct units.
Units(f, S) == {u \in S \X Nat : u[2] \in 1..f[u[1]]}

\* Their number.
Total(f, S) == Cardinality(Units(f, S))

\* A function on the subsets of S that adds up f element by element.
Adds(sum, f, S) ==
  \A T \in SUBSET S : \/ T = {} /\ sum[T] = 0
                      \/ \E x \in T : sum[T] = f[x] + sum[T \ {x}]

---------------------------------------------------------------------------
(* Units.                                                                  *)

\* Those of one element.
LEMMA UnitsOfOne ==
  ASSUME NEW f, NEW r, f[r] \in Nat
  PROVE  IsFiniteSet(Units(f, {r})) /\ Total(f, {r}) = f[r]
<1> DEFINE n == f[r]
           U == Units(f, {r})
           g == [k \in 1..n |-> <<r, k>>]
<1>1. n \in Nat /\ IsFiniteSet(1..n) /\ Cardinality(1..n) = n
  BY FS_Interval
<1>2. \A u : u \in U <=> \E k \in 1..n : u = <<r, k>>
  BY <1>1 DEF Units
<1> HIDE DEF n, U
<1>3. g \in [1..n -> U]
  BY <1>2
<1>4. g \in Injection(1..n, U)
  BY <1>3 DEF Injection, IsInjective
<1>5. g \in Surjection(1..n, U)
  BY <1>2, <1>3 DEF Surjection
<1>6. ExistsBijection(1..n, U)
  BY <1>4, <1>5 DEF Bijection, ExistsBijection
<1>7. IsFiniteSet(U) /\ Cardinality(U) = n
  BY <1>1, <1>6, FS_Bijection
<1>8. QED
  BY <1>7 DEF n, U, Total

\* Distinct elements have distinct units.
LEMMA UnitsSplit ==
  ASSUME NEW f, NEW S, NEW T, S \cap T = {}
  PROVE  Units(f, S \cup T) = Units(f, S) \cup Units(f, T)
         /\ Units(f, S) \cap Units(f, T) = {}
BY DEF Units

\* A collection of subsets of a finite set has a minimal one.
LEMMA MinimalSet ==
  ASSUME NEW D, IsFiniteSet(D), NEW Bad, Bad \subseteq SUBSET D, Bad # {}
  PROVE  \E T \in Bad : \A x \in T : T \ {x} \notin Bad
<1>1. Bad \subseteq FiniteSubsetsOf(D)
  BY FS_FiniteSubsetsOfFinite
<1>2. PICK T \in Bad : \A V \in Bad : <<V, T>> \notin StrictSubsetOrdering(D)
  BY <1>1, FS_StrictSubsetOrderingWellFounded, WFMin
<1>3. ASSUME NEW x \in T PROVE T \ {x} \notin Bad
  <2> DEFINE V == T \ {x}
  <2>1. V \in SUBSET D /\ T \in SUBSET D /\ V \subseteq T /\ V # T
    OBVIOUS
  <2> HIDE DEF V
  <2>2. <<V, T>> \in StrictSubsetOrdering(D)
    BY <2>1 DEF StrictSubsetOrdering
  <2>3. V \notin Bad
    BY <1>2, <2>2
  <2>4. QED
    BY <2>3 DEF V
<1>4. QED
  BY <1>3

\* The units of a finite set are finitely many.
LEMMA UnitsFinite ==
  ASSUME NEW S, IsFiniteSet(S), NEW f, \A x \in S : f[x] \in Nat
  PROVE  IsFiniteSet(Units(f, S))
<1> DEFINE Bad == {T \in SUBSET S : ~IsFiniteSet(Units(f, T))}
<1> SUFFICES ASSUME Bad # {} PROVE FALSE
  OBVIOUS
<1>1. Bad \subseteq SUBSET S
  OBVIOUS
<1>2. \A V \in SUBSET S : V \notin Bad => IsFiniteSet(Units(f, V))
  OBVIOUS
<1>3. PICK T \in Bad : \A x \in T : T \ {x} \notin Bad
  <2> HIDE DEF Bad
  <2>1. QED
    BY <1>1, MinimalSet
<1>4. ~IsFiniteSet(Units(f, T)) /\ T \subseteq S
  OBVIOUS
<1>5. CASE T = {}
  <2>1. Units(f, T) = {}
    BY <1>5 DEF Units
  <2>2. QED
    BY <1>4, <2>1, FS_EmptySet
<1> HIDE DEF Bad
<1>6. ASSUME NEW x \in T PROVE FALSE
  <2> DEFINE V == T \ {x}
  <2>1. V \in SUBSET S /\ V \notin Bad /\ V \cup {x} = T /\ V \cap {x} = {}
    BY <1>3, <1>4
  <2> HIDE DEF V
  <2>2. IsFiniteSet(Units(f, V))
    BY <1>2, <2>1
  <2>3. IsFiniteSet(Units(f, {x}))
    BY <1>4, UnitsOfOne
  <2>4. Units(f, T) = Units(f, V) \cup Units(f, {x})
    BY <2>1, UnitsSplit
  <2>5. IsFiniteSet(Units(f, T))
    BY <2>2, <2>3, <2>4, FS_Union
  <2>6. QED
    BY <1>4, <2>5
<1>7. QED
  BY <1>5, <1>6

\* Their number is additive.
LEMMA TotalAdds ==
  ASSUME NEW S, IsFiniteSet(S), NEW T, IsFiniteSet(T), S \cap T = {},
         NEW f, \A x \in S \cup T : f[x] \in Nat
  PROVE  /\ Total(f, S) \in Nat /\ Total(f, T) \in Nat
         /\ Total(f, S \cup T) = Total(f, S) + Total(f, T)
<1> DEFINE U == Units(f, S)
           V == Units(f, T)
<1>1. IsFiniteSet(U) /\ IsFiniteSet(V)
  BY UnitsFinite
<1>2. Units(f, S \cup T) = U \cup V /\ U \cap V = {}
  BY UnitsSplit
<1> HIDE DEF U, V
<1>3. /\ Cardinality(U) \in Nat /\ Cardinality(V) \in Nat /\ Cardinality(U \cap V) = 0
      /\ Cardinality(U \cup V) = Cardinality(U) + Cardinality(V) - Cardinality(U \cap V)
  BY <1>1, <1>2, FS_Union, FS_CardinalityType, FS_EmptySet
<1>4. Cardinality(U \cup V) = Cardinality(U) + Cardinality(V)
  BY <1>3
<1>5. QED
  BY <1>2, <1>3, <1>4 DEF Total, U, V

\* The number of the units of no element.
LEMMA TotalOfNone == \A f : Total(f, {}) = 0
<1>1. \A f : Units(f, {}) = {}
  BY DEF Units
<1>2. QED
  BY <1>1, FS_EmptySet DEF Total

\* An element is one more.
LEMMA TotalStep ==
  ASSUME NEW S, IsFiniteSet(S), NEW f, \A x \in S : f[x] \in Nat, NEW x \in S
  PROVE  /\ f[x] \in Nat /\ Total(f, S \ {x}) \in Nat
         /\ Total(f, S) = f[x] + Total(f, S \ {x})
<1> DEFINE V == S \ {x}
<1>1. V \cup {x} = S /\ V \cap {x} = {} /\ IsFiniteSet(V) /\ IsFiniteSet({x})
  BY FS_Singleton, FS_Subset
<1> HIDE DEF V
<1>2. Total(f, {x}) = f[x] /\ f[x] \in Nat
  BY UnitsOfOne
<1>3. Total(f, V) \in Nat /\ Total(f, V \cup {x}) = Total(f, V) + Total(f, {x})
  BY <1>1, TotalAdds
<1>4. Total(f, V \cup {x}) = f[x] + Total(f, V)
  BY ONLY <1>2, <1>3
<1>5. Total(f, S) = f[x] + Total(f, V)
  BY ONLY <1>1, <1>4
<1>6. QED
  BY <1>2, <1>3, <1>5 DEF V

\* A function that adds up, in whatever order, arrives at this number.
LEMMA AddsToTotal ==
  ASSUME NEW S, IsFiniteSet(S), NEW f, \A x \in S : f[x] \in Nat, NEW sum, Adds(sum, f, S)
  PROVE  sum[S] = Total(f, S)
<1> DEFINE Bad == {T \in SUBSET S : sum[T] # Total(f, T)}
<1> SUFFICES ASSUME Bad # {} PROVE FALSE
  OBVIOUS
<1>1. Bad \subseteq SUBSET S
  OBVIOUS
<1>2. \A V \in SUBSET S : V \notin Bad => sum[V] = Total(f, V)
  OBVIOUS
<1>3. PICK T \in Bad : \A x \in T : T \ {x} \notin Bad
  <2> HIDE DEF Bad
  <2>1. QED
    BY <1>1, MinimalSet
<1>4. sum[T] # Total(f, T) /\ T \subseteq S
  OBVIOUS
<1> HIDE DEF Bad
<1>5. CASE T = {} /\ sum[T] = 0
  BY <1>4, <1>5, TotalOfNone
<1>6. ASSUME NEW x \in T, sum[T] = f[x] + sum[T \ {x}] PROVE FALSE
  <2> DEFINE V == T \ {x}
  <2>1. V \in SUBSET S /\ V \notin Bad
    BY <1>3, <1>4
  <2>2. sum[T] = f[x] + sum[V]
    BY <1>6
  <2>3. IsFiniteSet(T) /\ \A y \in T : f[y] \in Nat
    BY <1>4, FS_Subset
  <2>4. Total(f, T) = f[x] + Total(f, V)
    BY <2>3, TotalStep
  <2> HIDE DEF V
  <2>5. sum[V] = Total(f, V)
    BY <1>2, <2>1
  <2>6. QED
    BY <1>4, <2>2, <2>4, <2>5
<1>7. QED
  BY <1>4, <1>5, <1>6 DEF Adds

---------------------------------------------------------------------------
(* Sums.                                                                   *)

\* The fold of SumFunctionOnSet counts the units.
LEMMA SumIsTotal ==
  ASSUME NEW S, IsFiniteSet(S), NEW f, \A x \in S : f[x] \in Nat
  PROVE  SumFunctionOnSet(f, S) = Total(f, S)
<1> DEFINE Fold(sum) == sum = [T \in SUBSET S |->
                                IF T = {} THEN 0
                                ELSE f[CHOOSE x \in T : TRUE] + sum[T \ {CHOOSE x \in T : TRUE}]]
           sum == CHOOSE sum : Fold(sum)
<1>1. SumFunctionOnSet(f, S) = sum[S]
  BY DEF SumFunctionOnSet, FoldFunctionOnSet, MapThenFoldSet
<1>2. Fold([T \in SUBSET S |-> Total(f, T)])
  <2> SUFFICES ASSUME NEW T \in SUBSET S
               PROVE  Total(f, T) = IF T = {} THEN 0
                                    ELSE f[CHOOSE x \in T : TRUE]
                                         + Total(f, T \ {CHOOSE x \in T : TRUE})
    OBVIOUS
  <2>1. CASE T = {}
    BY <2>1, TotalOfNone
  <2>2. CASE T # {}
    <3>1. PICK x \in T : x = CHOOSE y \in T : TRUE
      BY <2>2
    <3>2. IsFiniteSet(T) /\ \A y \in T : f[y] \in Nat
      BY FS_Subset
    <3>3. Total(f, T) = f[x] + Total(f, T \ {x})
      BY <3>2, TotalStep
    <3>4. QED
      BY <2>2, <3>1, <3>3
  <2>3. QED
    BY <2>1, <2>2
<1>3. Fold(sum)
  <2> HIDE DEF Fold
  <2>1. QED
    BY <1>2
<1>4. \A T \in SUBSET S :
        sum[T] = IF T = {} THEN 0
                 ELSE f[CHOOSE x \in T : TRUE] + sum[T \ {CHOOSE x \in T : TRUE}]
  <2> HIDE DEF sum
  <2>1. QED
    BY <1>3
<1> HIDE DEF sum, Fold
<1>5. Adds(sum, f, S)
  <2> SUFFICES ASSUME NEW T \in SUBSET S
               PROVE  \/ T = {} /\ sum[T] = 0
                      \/ \E x \in T : sum[T] = f[x] + sum[T \ {x}]
    BY DEF Adds
  <2>1. CASE T # {}
    <3>1. PICK x \in T : x = CHOOSE y \in T : TRUE
      BY <2>1
    <3>2. sum[T] = f[x] + sum[T \ {x}]
      BY <1>4, <2>1, <3>1
    <3>3. QED
      BY <3>2
  <2>2. QED
    BY <1>4, <2>1
<1>6. QED
  BY <1>1, <1>5, AddsToTotal

\* The sum over no element, and over one.
LEMMA SumOfNone == \A f : SumFunctionOnSet(f, {}) = 0
BY SumIsTotal, TotalOfNone, FS_EmptySet

LEMMA SumOfOne ==
  ASSUME NEW f, NEW x, f[x] \in Nat
  PROVE  SumFunctionOnSet(f, {x}) = f[x]
BY SumIsTotal, UnitsOfOne, FS_Singleton

\* The sum over two sets without a common element.
LEMMA SumAdds ==
  ASSUME NEW S, IsFiniteSet(S), NEW T, IsFiniteSet(T), S \cap T = {},
         NEW f, \A x \in S \cup T : f[x] \in Nat
  PROVE  /\ SumFunctionOnSet(f, S) \in Nat /\ SumFunctionOnSet(f, T) \in Nat
         /\ SumFunctionOnSet(f, S \cup T) = SumFunctionOnSet(f, S) + SumFunctionOnSet(f, T)
<1>1. IsFiniteSet(S \cup T)
  BY FS_Union
<1>2. /\ SumFunctionOnSet(f, S) = Total(f, S) /\ SumFunctionOnSet(f, T) = Total(f, T)
      /\ SumFunctionOnSet(f, S \cup T) = Total(f, S \cup T)
  BY <1>1, SumIsTotal
<1>3. QED
  BY <1>2, TotalAdds

\* The sum without one of its elements.
LEMMA SumStep ==
  ASSUME NEW S, IsFiniteSet(S), NEW f, \A x \in S : f[x] \in Nat, NEW x \in S
  PROVE  /\ f[x] \in Nat /\ SumFunctionOnSet(f, S \ {x}) \in Nat
         /\ SumFunctionOnSet(f, S) = f[x] + SumFunctionOnSet(f, S \ {x})
<1>1. IsFiniteSet(S \ {x}) /\ \A y \in S \ {x} : f[y] \in Nat
  BY FS_Subset
<1>2. /\ SumFunctionOnSet(f, S) = Total(f, S)
      /\ SumFunctionOnSet(f, S \ {x}) = Total(f, S \ {x})
  BY <1>1, SumIsTotal
<1>3. QED
  BY <1>2, TotalStep

\* A sum is a natural.
LEMMA SumType ==
  ASSUME NEW S, IsFiniteSet(S), NEW f, \A x \in S : f[x] \in Nat
  PROVE  SumFunctionOnSet(f, S) \in Nat
<1>1. IsFiniteSet(Units(f, S)) /\ SumFunctionOnSet(f, S) = Cardinality(Units(f, S))
  BY UnitsFinite, SumIsTotal DEF Total
<1>2. QED
  BY <1>1, FS_CardinalityType

\* Only what f gives the elements of S matters.
LEMMA SumKept ==
  ASSUME NEW S, IsFiniteSet(S), NEW f, NEW g, \A x \in S : f[x] \in Nat /\ g[x] = f[x]
  PROVE  SumFunctionOnSet(g, S) = SumFunctionOnSet(f, S)
<1>1. \A u \in S \X Nat : f[u[1]] = g[u[1]]
  OBVIOUS
<1>2. Units(f, S) = Units(g, S)
  BY <1>1 DEF Units
<1>3. Total(f, S) = Total(g, S)
  BY <1>2 DEF Total
<1>4. QED
  BY <1>3, SumIsTotal

\* A sum over fewer elements is not more.
LEMMA SumOfFewer ==
  ASSUME NEW S, IsFiniteSet(S), NEW f, \A x \in S : f[x] \in Nat, NEW T, T \subseteq S
  PROVE  SumFunctionOnSet(f, T) \in Nat /\ SumFunctionOnSet(f, T) <= SumFunctionOnSet(f, S)
<1> DEFINE V == S \ T
<1>1. IsFiniteSet(T) /\ IsFiniteSet(V) /\ T \cap V = {} /\ T \cup V = S
  BY FS_Subset
<1> HIDE DEF V
<1>2. /\ SumFunctionOnSet(f, T) \in Nat /\ SumFunctionOnSet(f, V) \in Nat
      /\ SumFunctionOnSet(f, T \cup V) = SumFunctionOnSet(f, T) + SumFunctionOnSet(f, V)
  BY <1>1, SumAdds
<1>3. SumFunctionOnSet(f, T) <= SumFunctionOnSet(f, T \cup V)
  BY ONLY <1>2
<1>4. SumFunctionOnSet(f, T) <= SumFunctionOnSet(f, S)
  BY ONLY <1>1, <1>3
<1>5. QED
  BY <1>2, <1>4

\* What bounds each element by a multiple bounds the sums so.
LEMMA SumScaled ==
  ASSUME NEW S, IsFiniteSet(S), NEW m \in Nat,
         NEW f, NEW g, \A x \in S : f[x] \in Nat /\ g[x] \in Nat /\ f[x] <= m * g[x]
  PROVE  SumFunctionOnSet(f, S) <= m * SumFunctionOnSet(g, S)
<1> DEFINE Bad == {T \in SUBSET S : ~(SumFunctionOnSet(f, T) <= m * SumFunctionOnSet(g, T))}
<1> SUFFICES ASSUME Bad # {} PROVE FALSE
  OBVIOUS
<1>1. Bad \subseteq SUBSET S
  OBVIOUS
<1>2. \A V \in SUBSET S : V \notin Bad => SumFunctionOnSet(f, V) <= m * SumFunctionOnSet(g, V)
  OBVIOUS
<1>3. PICK T \in Bad : \A x \in T : T \ {x} \notin Bad
  <2> HIDE DEF Bad
  <2>1. QED
    BY <1>1, MinimalSet
<1>4. ~(SumFunctionOnSet(f, T) <= m * SumFunctionOnSet(g, T)) /\ T \subseteq S
  OBVIOUS
<1> HIDE DEF Bad
<1>5. T # {}
  BY <1>4, SumOfNone
<1>6. PICK x \in T : TRUE
  BY <1>5
<1> DEFINE V == T \ {x}
<1>7. V \in SUBSET S /\ V \notin Bad
  BY <1>3, <1>4
<1>8. IsFiniteSet(T) /\ \A y \in T : f[y] \in Nat /\ g[y] \in Nat
  BY <1>4, FS_Subset
<1>9. /\ f[x] \in Nat /\ SumFunctionOnSet(f, V) \in Nat
      /\ SumFunctionOnSet(f, T) = f[x] + SumFunctionOnSet(f, V)
      /\ g[x] \in Nat /\ SumFunctionOnSet(g, V) \in Nat
      /\ SumFunctionOnSet(g, T) = g[x] + SumFunctionOnSet(g, V)
  BY <1>8, SumStep
<1> HIDE DEF V
<1>10. SumFunctionOnSet(f, V) <= m * SumFunctionOnSet(g, V) /\ f[x] <= m * g[x]
  BY <1>2, <1>4, <1>7
<1>11. PICK a, b, c, d \in Nat : /\ a = f[x] /\ b = SumFunctionOnSet(f, V)
                                 /\ c = g[x] /\ d = SumFunctionOnSet(g, V)
  BY <1>9
<1>12. m * (c + d) = m * c + m * d
  BY <1>11
<1>13. QED
  BY <1>4, <1>9, <1>10, <1>11, <1>12


\* Elements that count nothing.
LEMMA SumSupport ==
  ASSUME NEW S, IsFiniteSet(S), NEW f, \A x \in S : f[x] \in Nat,
         NEW T, T \subseteq S, \A x \in S \ T : f[x] = 0
  PROVE  SumFunctionOnSet(f, S) = SumFunctionOnSet(f, T)
<1> DEFINE V == S \ T
<1>1. IsFiniteSet(T) /\ IsFiniteSet(V) /\ T \cap V = {} /\ T \cup V = S
  BY FS_Subset
<1>2. \A x \in V : f[x] = 0
  OBVIOUS
<1> HIDE DEF V
<1>3. PICK m \in Nat : m = 0
  OBVIOUS
<1>4. \A x \in V : f[x] \in Nat /\ f[x] <= m * f[x]
  BY <1>2, <1>3
<1>5. SumFunctionOnSet(f, V) <= m * SumFunctionOnSet(f, V)
  BY ONLY <1>1, <1>4, SumScaled
<1>6. SumFunctionOnSet(f, V) \in Nat
  BY <1>1, <1>4, SumType
<1>7. SumFunctionOnSet(f, V) = 0
  BY ONLY <1>3, <1>5, <1>6
<1>8. /\ SumFunctionOnSet(f, T) \in Nat
      /\ SumFunctionOnSet(f, T \cup V) = SumFunctionOnSet(f, T) + SumFunctionOnSet(f, V)
  BY <1>1, SumAdds
<1>9. SumFunctionOnSet(f, T \cup V) = SumFunctionOnSet(f, T)
  BY ONLY <1>7, <1>8
<1>10. QED
  BY <1>1, <1>9

\* A sum of sums.
LEMMA SumOfSums ==
  ASSUME NEW S, IsFiniteSet(S), NEW f, NEW g, NEW h,
         \A x \in S : f[x] \in Nat /\ g[x] \in Nat /\ h[x] = f[x] + g[x]
  PROVE  SumFunctionOnSet(h, S) = SumFunctionOnSet(f, S) + SumFunctionOnSet(g, S)
<1> DEFINE Bad == {T \in SUBSET S :
                     ~(SumFunctionOnSet(h, T) = SumFunctionOnSet(f, T) + SumFunctionOnSet(g, T))}
<1> SUFFICES ASSUME Bad # {} PROVE FALSE
  OBVIOUS
<1>1. Bad \subseteq SUBSET S
  OBVIOUS
<1>2. \A V \in SUBSET S :
        V \notin Bad => SumFunctionOnSet(h, V) = SumFunctionOnSet(f, V) + SumFunctionOnSet(g, V)
  OBVIOUS
<1>3. PICK T \in Bad : \A x \in T : T \ {x} \notin Bad
  <2> HIDE DEF Bad
  <2>1. QED
    BY <1>1, MinimalSet
<1>4. ~(SumFunctionOnSet(h, T) = SumFunctionOnSet(f, T) + SumFunctionOnSet(g, T)) /\ T \subseteq S
  OBVIOUS
<1> HIDE DEF Bad
<1>5. T # {}
  <2>1. SumFunctionOnSet(f, {}) = 0 /\ SumFunctionOnSet(g, {}) = 0 /\ SumFunctionOnSet(h, {}) = 0
    BY SumOfNone
  <2>2. SumFunctionOnSet(h, {}) = SumFunctionOnSet(f, {}) + SumFunctionOnSet(g, {})
    BY ONLY <2>1
  <2>3. QED
    BY ONLY <1>4, <2>2
<1>6. PICK x \in T : TRUE
  BY <1>5
<1> DEFINE V == T \ {x}
<1>7. V \in SUBSET S /\ V \notin Bad
  BY <1>3, <1>4
<1>8. IsFiniteSet(T) /\ \A y \in T : f[y] \in Nat /\ g[y] \in Nat /\ h[y] \in Nat
  BY <1>4, FS_Subset
<1>9. /\ f[x] \in Nat /\ SumFunctionOnSet(f, V) \in Nat
      /\ SumFunctionOnSet(f, T) = f[x] + SumFunctionOnSet(f, V)
      /\ g[x] \in Nat /\ SumFunctionOnSet(g, V) \in Nat
      /\ SumFunctionOnSet(g, T) = g[x] + SumFunctionOnSet(g, V)
      /\ h[x] \in Nat /\ SumFunctionOnSet(h, V) \in Nat
      /\ SumFunctionOnSet(h, T) = h[x] + SumFunctionOnSet(h, V)
  BY <1>8, SumStep
<1> HIDE DEF V
<1>10. /\ SumFunctionOnSet(h, V) = SumFunctionOnSet(f, V) + SumFunctionOnSet(g, V)
       /\ h[x] = f[x] + g[x]
  BY <1>2, <1>4, <1>7
<1>11. QED
  BY ONLY <1>4, <1>9, <1>10

\* One element is given another value.
LEMMA SumReplaced ==
  ASSUME NEW S, IsFiniteSet(S), NEW f, NEW g, \A x \in S : f[x] \in Nat /\ g[x] \in Nat,
         NEW x \in S, \A y \in S \ {x} : g[y] = f[y]
  PROVE  /\ SumFunctionOnSet(f, S) \in Nat /\ SumFunctionOnSet(g, S) \in Nat
         /\ SumFunctionOnSet(g, S) + f[x] = SumFunctionOnSet(f, S) + g[x]
<1>1. IsFiniteSet(S \ {x})
  BY FS_Subset
<1>2. SumFunctionOnSet(g, S \ {x}) = SumFunctionOnSet(f, S \ {x})
  BY <1>1, SumKept
<1>3. /\ f[x] \in Nat /\ SumFunctionOnSet(f, S \ {x}) \in Nat
      /\ SumFunctionOnSet(f, S) = f[x] + SumFunctionOnSet(f, S \ {x})
  BY SumStep
<1>4. /\ g[x] \in Nat /\ SumFunctionOnSet(g, S \ {x}) \in Nat
      /\ SumFunctionOnSet(g, S) = g[x] + SumFunctionOnSet(g, S \ {x})
  BY SumStep
<1>5. QED
  BY ONLY <1>2, <1>3, <1>4

\* None is given a larger one.
LEMMA SumOfLess ==
  ASSUME NEW S, IsFiniteSet(S), NEW f, NEW g,
         \A x \in S : f[x] \in Nat /\ g[x] \in Nat /\ f[x] <= g[x]
  PROVE  /\ SumFunctionOnSet(f, S) \in Nat /\ SumFunctionOnSet(g, S) \in Nat
         /\ SumFunctionOnSet(f, S) <= SumFunctionOnSet(g, S)
<1>1. SumFunctionOnSet(f, S) \in Nat /\ SumFunctionOnSet(g, S) \in Nat
  BY SumType
<1>2. PICK m \in Nat : m = 1
  OBVIOUS
<1>3. \A x \in S : f[x] <= m * g[x]
  BY <1>2
<1>4. SumFunctionOnSet(f, S) <= m * SumFunctionOnSet(g, S)
  BY <1>3, SumScaled
<1>5. QED
  BY <1>1, <1>2, <1>4

\* Nothing adds to nothing.
LEMMA SumOfZeros ==
  ASSUME NEW S, IsFiniteSet(S), NEW f, \A x \in S : f[x] = 0
  PROVE  SumFunctionOnSet(f, S) = 0
<1>1. PICK T : T = {}
  OBVIOUS
<1>2. SumFunctionOnSet(f, S) = SumFunctionOnSet(f, T)
  BY <1>1, SumSupport
<1>3. QED
  BY <1>1, <1>2, SumOfNone
===========================================================================
