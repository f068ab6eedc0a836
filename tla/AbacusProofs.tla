----------------------------- MODULE AbacusProofs -----------------------------
(***************************************************************************)
(* Proofs about Abacus for every set of files, RSEs, accounts, rules and   *)
(* workers: no change of a dataset is lost by the worker that keeps its    *)
(* collection replicas up to date, and the usage of the accounts is what   *)
(* their rules have locked.                                                *)
(***************************************************************************)
EXTENDS Abacus, FiniteSetTheorems, WellFoundedInduction, TLAPS

-----------------------------------------------------------------------------
(***************************************************************************)
(* New rows of a table of updates.                                         *)
(***************************************************************************)
\* An injection into a set that is large enough.
LEMMA InjectionExists ==
  ASSUME NEW S, NEW T, IsFiniteSet(S), IsFiniteSet(T), Cardinality(S) <= Cardinality(T)
  PROVE  \E f \in [S -> T] : \A x, y \in S : f[x] = f[y] => x = y
  <1> DEFINE n == Cardinality(S)
             m == Cardinality(T)
  <1>1. n \in Nat /\ m \in Nat /\ n <= m
    BY FS_CardinalityType
  <1>2. IsFiniteSet(1 .. n) /\ Cardinality(1 .. n) = n
    BY <1>1, FS_Interval
  <1>3. ExistsBijection(S, 1 .. n)
    BY <1>2, FS_SameCardinalityBij
  <1>4. PICK g \in Bijection(S, 1 .. n) : TRUE
    BY <1>3 DEF ExistsBijection
  <1>5. PICK h \in Bijection(1 .. m, T) : TRUE
    BY FS_CardinalityType DEF ExistsBijection
  <1>6. g \in [S -> 1 .. n] /\ \A x, y \in S : g[x] = g[y] => x = y
    BY <1>4 DEF Bijection, Injection, IsInjective
  <1>7. h \in [1 .. m -> T] /\ \A i, k \in 1 .. m : h[i] = h[k] => i = k
    BY <1>5 DEF Bijection, Injection, IsInjective
  <1>8. \A x \in S : g[x] \in 1 .. m
    BY <1>1, <1>6
  <1>9. [x \in S |-> h[g[x]]] \in [S -> T]
    BY <1>7, <1>8
  <1>10. \A x, y \in S : h[g[x]] = h[g[y]] => x = y
    BY <1>6, <1>7, <1>8
  <1> WITNESS [x \in S |-> h[g[x]]] \in [S -> T]
  <1> QED
    BY <1>10

\* Every row gets an id of its own that is not in use.
LEMMA NumberedFresh ==
  ASSUME NEW rows, NEW used, IsFiniteSet(rows), IsFiniteSet(used)
  PROVE  /\ Numbered(rows, used) \in [rows -> Nat \ used]
         /\ \A x, y \in rows : Numbered(rows, used)[x] = Numbered(rows, used)[y] => x = y
  <1> DEFINE n == Cardinality(rows) + Cardinality(used)
             free == (1 .. n) \ used
  <1>1. Cardinality(rows) \in Nat /\ Cardinality(used) \in Nat
    BY FS_CardinalityType
  <1>2. IsFiniteSet(1 .. n) /\ Cardinality(1 .. n) = n
    <2>1. n \in Nat
      BY <1>1
    <2> HIDE DEF n
    <2> QED
      BY <2>1, FS_Interval
  <1>3. /\ IsFiniteSet(free)
        /\ Cardinality(free) = n - Cardinality((1 .. n) \cap used)
    BY <1>2, FS_Difference
  <1>4. Cardinality((1 .. n) \cap used) \in Nat /\ Cardinality((1 .. n) \cap used) <= Cardinality(used)
    BY FS_Intersection, FS_CardinalityType
  <1>5. Cardinality(rows) <= Cardinality(free)
    <2> HIDE DEF free
    <2> QED
      BY <1>1, <1>3, <1>4
  <1>6. \E f \in [rows -> free] : \A x, y \in rows : f[x] = f[y] => x = y
    BY <1>3, <1>5, InjectionExists
  <1>7. /\ Numbered(rows, used) \in [rows -> free]
        /\ \A x, y \in rows : Numbered(rows, used)[x] = Numbered(rows, used)[y] => x = y
    BY <1>6, Zenon DEF Numbered
  <1>8. free \subseteq Nat \ used
    BY <1>1
  <1> QED
    BY <1>7, <1>8

-----------------------------------------------------------------------------
(***************************************************************************)
(* Sums.  The sum of a function over a finite set is defined by taking one *)
(* element after the other away; the lemmas say that the order is of no    *)
(* importance.  Instead of an induction they take a least counterexample.  *)
(***************************************************************************)
\* Among some subsets of a finite set there is one that is smallest.
LEMMA SmallestSubset ==
  ASSUME NEW S, IsFiniteSet(S), NEW B \in SUBSET (SUBSET S), B # {}
  PROVE  \E s \in B : \A t \in SUBSET s : t # s => t \notin B
  <1>1. B \subseteq FiniteSubsetsOf(S)
    BY FS_FiniteSubsetsOfFinite
  <1>2. IsWellFoundedOn(StrictSubsetOrdering(S), FiniteSubsetsOf(S))
    BY FS_StrictSubsetOrderingWellFounded
  <1>3. PICK s \in B : \A t \in B : ~(<<t, s>> \in StrictSubsetOrdering(S))
    <2> DEFINE R == StrictSubsetOrdering(S)
               F == FiniteSubsetsOf(S)
    <2>1. IsWellFoundedOn(R, F) /\ B \subseteq F
      BY <1>1, <1>2
    <2> HIDE DEF R, F
    <2>2. \E x \in B : \A y \in B : ~(<<y, x>> \in R)
      BY <2>1, WFMin
    <2> QED
      BY <2>2 DEF R
  <1>4. ASSUME NEW t \in SUBSET s, t # s, t \in B
        PROVE  FALSE
    <2>1. <<t, s>> \in StrictSubsetOrdering(S)
      BY <1>4 DEF StrictSubsetOrdering
    <2> QED
      BY <1>3, <1>4, <2>1, Zenon
  <1> QED
    BY <1>4, Zenon

\* Among some numbers there is a least one.
LEMMA LeastNumber ==
  ASSUME NEW T \in SUBSET Nat, T # {}
  PROVE  \E n \in T : \A m \in T : n <= m
  <1>1. PICK n \in T : \A y \in T : ~(<<y, n>> \in OpToRel(<, Nat))
    BY NatLessThanWellFounded, WFMin, Zenon
  <1>2. \A y \in T : ~(y < n)
    BY <1>1 DEF OpToRel
  <1> QED
    BY <1>2

SumOn(g, S) == SumFunctionOnSet(g, S)
Pick(s) == CHOOSE x \in s : TRUE

\* i is what the definition of the sum computes for the sets of D.
Iterates(g, i, D) ==
  i = [s \in D |-> IF s = {} THEN 0 ELSE g[Pick(s)] + i[s \ {Pick(s)}]]

LEMMA PickIn == \A s : s # {} => Pick(s) \in s
  BY DEF Pick

\* There is such a function for the subsets of a finite set.
LEMMA IterationExists ==
  ASSUME NEW g, NEW S, IsFiniteSet(S)
  PROVE  \E i : Iterates(g, i, SUBSET S)
  <1> DEFINE Level(n) == {s \in SUBSET S : Cardinality(s) <= n}
             Bad == {n \in Nat : ~\E i : Iterates(g, i, Level(n))}
  <1>1. \A s \in SUBSET S : IsFiniteSet(s) /\ Cardinality(s) \in Nat /\ Cardinality(s) <= Cardinality(S)
    BY FS_Subset, FS_CardinalityType
  <1>2. Bad = {}
    <2> SUFFICES ASSUME Bad # {} PROVE FALSE
      OBVIOUS
    <2>1. PICK n \in Bad : \A m \in Bad : n <= m
      <3> HIDE DEF Bad
      <3>1. Bad \in SUBSET Nat
        BY DEF Bad
      <3> QED
        BY <3>1, LeastNumber
    <2>2. CASE n = 0
      <3>1. \A s \in Level(0) : s = {}
        BY <1>1, FS_EmptySet
      <3>2. Iterates(g, [s \in Level(0) |-> 0], Level(0))
        BY <3>1 DEF Iterates
      <3> QED
        BY <2>1, <2>2, <3>2
    <2>3. CASE n # 0
      <3>1. n - 1 \in Nat /\ n - 1 \notin Bad
        <4>1. n \in Nat
          OBVIOUS
        <4> HIDE DEF Bad
        <4> QED
          BY <2>1, <2>3, <4>1
      <3>2. PICK i : Iterates(g, i, Level(n - 1))
        BY <3>1
      <3> DEFINE j == [s \in Level(n) |-> IF s = {} THEN 0 ELSE g[Pick(s)] + i[s \ {Pick(s)}]]
      <3>3. ASSUME NEW s \in Level(n), s # {}
            PROVE  s \ {Pick(s)} \in Level(n - 1) /\ s \ {Pick(s)} \in Level(n)
        <4>1. Pick(s) \in s
          BY <3>3, PickIn
        <4>2. Cardinality(s \ {Pick(s)}) = Cardinality(s) - 1
          BY <4>1, <1>1, FS_RemoveElement
        <4>3. s \ {Pick(s)} \in SUBSET S
          OBVIOUS
        <4> QED
          BY <4>2, <4>3, <1>1, <3>1
      <3>4. \A s \in Level(n - 1) : i[s] = j[s]
        <4>1. \A s \in Level(n - 1) : s \in Level(n)
          BY <1>1, <3>1
        <4> HIDE DEF Level
        <4> QED
          BY <3>2, <4>1 DEF Iterates
      <3>5. Iterates(g, j, Level(n))
        <4> HIDE DEF Level
        <4>1. \A s \in Level(n) : s # {} => i[s \ {Pick(s)}] = j[s \ {Pick(s)}]
          BY <3>3, <3>4
        <4> QED
          BY <4>1 DEF Iterates
      <3> QED
        BY <2>1, <3>5
    <2> QED
      BY <2>2, <2>3
  <1>3. Level(Cardinality(S)) = SUBSET S
    BY <1>1
  <1>4. Cardinality(S) \notin Bad /\ Cardinality(S) \in Nat
    BY <1>2, FS_CardinalityType
  <1>5. \E i : Iterates(g, i, Level(Cardinality(S)))
    BY <1>4
  <1> QED
    BY <1>3, <1>5

\* And only one.
LEMMA IterationUnique ==
  ASSUME NEW g, NEW S, IsFiniteSet(S), NEW C, NEW D, SUBSET S \subseteq C, SUBSET S \subseteq D,
         NEW i, Iterates(g, i, C), NEW j, Iterates(g, j, D)
  PROVE  i[S] = j[S]
  <1> DEFINE B == {s \in SUBSET S : i[s] # j[s]}
  <1> SUFFICES ASSUME B # {} PROVE FALSE
    OBVIOUS
  <1>1. PICK s \in B : \A t \in SUBSET s : t # s => t \notin B
    <2>1. B \in SUBSET (SUBSET S)
      OBVIOUS
    <2> HIDE DEF B
    <2> QED
      BY <2>1, SmallestSubset
  <1>2. i[s] = IF s = {} THEN 0 ELSE g[Pick(s)] + i[s \ {Pick(s)}]
    BY <1>1 DEF Iterates
  <1>3. j[s] = IF s = {} THEN 0 ELSE g[Pick(s)] + j[s \ {Pick(s)}]
    BY <1>1 DEF Iterates
  <1>4. s # {}
    BY <1>1, <1>2, <1>3
  <1>5. i[s \ {Pick(s)}] = j[s \ {Pick(s)}]
    BY <1>1, <1>4, PickIn
  <1> QED
    BY <1>1, <1>2, <1>3, <1>4, <1>5

\* The sum is what any such function says.
LEMMA SumIterates ==
  ASSUME NEW g, NEW S, IsFiniteSet(S), NEW D, SUBSET S \subseteq D, NEW i, Iterates(g, i, D)
  PROVE  SumOn(g, S) = i[S]
  <1> DEFINE it == CHOOSE k : Iterates(g, k, SUBSET S)
  <1>1. Iterates(g, it, SUBSET S)
    BY IterationExists
  <1>2. SumOn(g, S) = it[S]
    BY DEF SumOn, SumFunctionOnSet, FoldFunctionOnSet, MapThenFoldSet, Iterates, Pick
  <1> HIDE DEF it
  <1> QED
    BY <1>1, <1>2, IterationUnique

LEMMA SumUnfolds ==
  ASSUME NEW g, NEW S, IsFiniteSet(S)
  PROVE  /\ S = {} => SumOn(g, S) = 0
         /\ S # {} => SumOn(g, S) = g[Pick(S)] + SumOn(g, S \ {Pick(S)})
  <1>1. PICK i : Iterates(g, i, SUBSET S)
    BY IterationExists
  <1>2. i[S] = IF S = {} THEN 0 ELSE g[Pick(S)] + i[S \ {Pick(S)}]
    BY <1>1 DEF Iterates
  <1>3. SumOn(g, S) = i[S]
    BY <1>1, SumIterates
  <1>4. IsFiniteSet(S \ {Pick(S)})
    BY FS_RemoveElement
  <1>5. SumOn(g, S \ {Pick(S)}) = i[S \ {Pick(S)}]
    BY <1>1, <1>4, SumIterates
  <1> QED
    BY <1>2, <1>3, <1>5

\* The sum of integers is an integer.
LEMMA SumTyped ==
  ASSUME NEW S, IsFiniteSet(S), NEW g, \A x \in S : g[x] \in Int
  PROVE  SumOn(g, S) \in Int
  <1> DEFINE B == {s \in SUBSET S : SumOn(g, s) \notin Int}
  <1> SUFFICES ASSUME B # {} PROVE FALSE
    OBVIOUS
  <1>1. PICK s \in B : \A t \in SUBSET s : t # s => t \notin B
    <2>1. B \in SUBSET (SUBSET S)
      OBVIOUS
    <2> HIDE DEF B
    <2> QED
      BY <2>1, SmallestSubset
  <1>2. IsFiniteSet(s)
    BY FS_Subset
  <1>3. s # {}
    <2>1. SumOn(g, {}) = 0
      BY FS_EmptySet, SumUnfolds
    <2>2. SumOn(g, {}) \in Int
      BY <2>1
    <2>3. SumOn(g, s) \notin Int
      OBVIOUS
    <2> HIDE DEF B
    <2> QED
      BY <2>2, <2>3, Zenon
  <1>4. Pick(s) \in s
    BY <1>3, PickIn
  <1>5. SumOn(g, s \ {Pick(s)}) \in Int
    BY <1>1, <1>4
  <1>6. SumOn(g, s) = g[Pick(s)] + SumOn(g, s \ {Pick(s)})
    BY <1>2, <1>3, SumUnfolds
  <1> QED
    BY <1>4, <1>5, <1>6

\* Any element may be taken away first.
LEMMA SumRemoves ==
  ASSUME NEW S, IsFiniteSet(S), NEW g, \A x \in S : g[x] \in Int, NEW x \in S
  PROVE  SumOn(g, S) = g[x] + SumOn(g, S \ {x})
  <1> DEFINE B == {s \in SUBSET S : \E y \in s : SumOn(g, s) # g[y] + SumOn(g, s \ {y})}
  <1> SUFFICES ASSUME B # {} PROVE FALSE
    OBVIOUS
  <1>1. PICK s \in B : \A t \in SUBSET s : t # s => t \notin B
    <2>1. B \in SUBSET (SUBSET S)
      OBVIOUS
    <2> HIDE DEF B
    <2> QED
      BY <2>1, SmallestSubset
  <1>2. PICK y \in s : SumOn(g, s) # g[y] + SumOn(g, s \ {y})
    BY <1>1
  <1> DEFINE z == Pick(s)
  <1>3. z \in s
    BY <1>2, PickIn
  <1>4. IsFiniteSet(s)
    BY FS_Subset
  <1>5. SumOn(g, s) = g[z] + SumOn(g, s \ {z})
    BY <1>2, <1>4, SumUnfolds
  <1> HIDE DEF z
  <1>6. y # z
    BY <1>2, <1>5
  <1>7. s \ {z} \notin B /\ s \ {y} \notin B
    BY <1>1, <1>2, <1>3
  <1>8. SumOn(g, s \ {z}) = g[y] + SumOn(g, (s \ {z}) \ {y})
    BY <1>7, <1>2, <1>6
  <1>9. SumOn(g, s \ {y}) = g[z] + SumOn(g, (s \ {y}) \ {z})
    BY <1>7, <1>3, <1>6
  <1>10. SumOn(g, (s \ {z}) \ {y}) = SumOn(g, (s \ {y}) \ {z})
    <2>1. (s \ {z}) \ {y} = (s \ {y}) \ {z}
      OBVIOUS
    <2> QED
      BY <2>1, Zenon
  <1>11. IsFiniteSet((s \ {z}) \ {y})
    BY <1>4, FS_RemoveElement
  <1>12. SumOn(g, (s \ {z}) \ {y}) \in Int /\ g[y] \in Int /\ g[z] \in Int
    <2>1. \A u \in s : g[u] \in Int
      OBVIOUS
    <2>2. \A u \in (s \ {z}) \ {y} : g[u] \in Int
      BY <2>1
    <2> QED
      BY <2>1, <2>2, <1>2, <1>3, <1>11, SumTyped
  <1> HIDE DEF B
  <1> QED
    BY <1>2, <1>5, <1>8, <1>9, <1>10, <1>12

\* Adding an element, or none.
LEMMA SumAdds ==
  ASSUME NEW S, IsFiniteSet(S), NEW x, x \notin S, NEW g, \A y \in S \cup {x} : g[y] \in Int
  PROVE  SumOn(g, S \cup {x}) = SumOn(g, S) + g[x]
  <1>1. IsFiniteSet(S \cup {x}) /\ (S \cup {x}) \ {x} = S
    BY FS_AddElement
  <1>2. SumOn(g, S \cup {x}) = g[x] + SumOn(g, S)
    BY <1>1, SumRemoves
  <1> QED
    BY <1>2, SumTyped

\* The sum depends on the values only.
LEMMA SumAgrees ==
  ASSUME NEW S, IsFiniteSet(S), NEW g, NEW h, \A x \in S : g[x] = h[x]
  PROVE  SumOn(g, S) = SumOn(h, S)
  <1> DEFINE B == {s \in SUBSET S : SumOn(g, s) # SumOn(h, s)}
  <1> SUFFICES ASSUME B # {} PROVE FALSE
    OBVIOUS
  <1>1. PICK s \in B : \A t \in SUBSET s : t # s => t \notin B
    <2>1. B \in SUBSET (SUBSET S)
      OBVIOUS
    <2> HIDE DEF B
    <2> QED
      BY <2>1, SmallestSubset
  <1>2. IsFiniteSet(s)
    BY FS_Subset
  <1>3. s # {}
    BY <1>1, <1>2, SumUnfolds
  <1>4. Pick(s) \in s
    BY <1>3, PickIn
  <1>5. SumOn(g, s \ {Pick(s)}) = SumOn(h, s \ {Pick(s)})
    BY <1>1, <1>4
  <1>6. SumOn(g, s) = g[Pick(s)] + SumOn(g, s \ {Pick(s)}) /\ SumOn(h, s) = h[Pick(s)] + SumOn(h, s \ {Pick(s)})
    BY <1>2, <1>3, SumUnfolds
  <1> QED
    BY <1>1, <1>4, <1>5, <1>6

\* Disjoint sets.
LEMMA SumUnion ==
  ASSUME NEW S, IsFiniteSet(S), NEW T, IsFiniteSet(T), S \cap T = {},
         NEW g, \A x \in S \cup T : g[x] \in Int
  PROVE  SumOn(g, S \cup T) = SumOn(g, S) + SumOn(g, T)
  <1> DEFINE B == {t \in SUBSET T : SumOn(g, S \cup t) # SumOn(g, S) + SumOn(g, t)}
  <1> SUFFICES ASSUME B # {} PROVE FALSE
    OBVIOUS
  <1>1. PICK t \in B : \A u \in SUBSET t : u # t => u \notin B
    <2>1. B \in SUBSET (SUBSET T)
      OBVIOUS
    <2> HIDE DEF B
    <2> QED
      BY <2>1, SmallestSubset
  <1>2. IsFiniteSet(t) /\ SumOn(g, S) \in Int
    BY FS_Subset, SumTyped
  <1>3. t # {}
    <2> SUFFICES ASSUME t = {} PROVE FALSE
      OBVIOUS
    <2>1. SumOn(g, t) = 0 /\ S \cup t = S
      BY <1>2, SumUnfolds
    <2> QED
      BY <1>1, <1>2, <2>1
  <1>4. PICK x \in t : TRUE
    BY <1>3
  <1> DEFINE u == t \ {x}
  <1>5. SumOn(g, S \cup u) = SumOn(g, S) + SumOn(g, u)
    BY <1>1, <1>4
  <1>6. IsFiniteSet(u) /\ IsFiniteSet(S \cup u)
    BY <1>2, FS_RemoveElement, FS_Union
  <1>7. S \cup t = (S \cup u) \cup {x} /\ t = u \cup {x} /\ x \notin S \cup u
    BY <1>4
  <1>8. \A y \in S \cup t : g[y] \in Int
    OBVIOUS
  <1> HIDE DEF u
  <1>9. SumOn(g, S \cup t) = SumOn(g, S \cup u) + g[x] /\ SumOn(g, t) = SumOn(g, u) + g[x]
    BY <1>6, <1>7, <1>8, SumAdds
  <1>10. SumOn(g, u) \in Int /\ g[x] \in Int
    BY <1>6, <1>7, <1>8, SumTyped
  <1> QED
    BY <1>1, <1>2, <1>5, <1>9, <1>10

\* Values that are all zero.
LEMMA SumZero ==
  ASSUME NEW S, IsFiniteSet(S), NEW g, \A x \in S : g[x] = 0
  PROVE  SumOn(g, S) = 0
  <1> DEFINE B == {s \in SUBSET S : SumOn(g, s) # 0}
  <1> SUFFICES ASSUME B # {} PROVE FALSE
    OBVIOUS
  <1>1. PICK s \in B : \A t \in SUBSET s : t # s => t \notin B
    <2>1. B \in SUBSET (SUBSET S)
      OBVIOUS
    <2> HIDE DEF B
    <2> QED
      BY <2>1, SmallestSubset
  <1>2. IsFiniteSet(s)
    BY FS_Subset
  <1>3. s # {}
    BY <1>1, <1>2, SumUnfolds
  <1>4. Pick(s) \in s
    BY <1>3, PickIn
  <1>5. SumOn(g, s \ {Pick(s)}) = 0
    BY <1>1, <1>4
  <1>6. SumOn(g, s) = g[Pick(s)] + SumOn(g, s \ {Pick(s)})
    BY <1>2, <1>3, SumUnfolds
  <1> QED
    BY <1>1, <1>4, <1>5, <1>6

LEMMA SumSingle ==
  ASSUME NEW x, NEW g, g[x] \in Int
  PROVE  SumOn(g, {x}) = g[x]
  <1>1. IsFiniteSet({x}) /\ {x} \ {x} = {} /\ IsFiniteSet({})
    BY FS_Singleton, FS_EmptySet
  <1>2. SumOn(g, {}) = 0
    BY <1>1, SumUnfolds
  <1>3. SumOn(g, {x}) = g[x] + SumOn(g, {x} \ {x})
    BY <1>1, SumRemoves
  <1>4. SumOn(g, {x} \ {x}) = SumOn(g, {})
    BY <1>1, Zenon
  <1> QED
    BY <1>2, <1>3, <1>4

\* The opposite values.
LEMMA SumNegates ==
  ASSUME NEW S, IsFiniteSet(S), NEW g, NEW h, \A x \in S : g[x] \in Int /\ h[x] = -g[x]
  PROVE  SumOn(h, S) = -SumOn(g, S)
  <1> DEFINE B == {s \in SUBSET S : SumOn(h, s) # -SumOn(g, s)}
  <1> SUFFICES ASSUME B # {} PROVE FALSE
    OBVIOUS
  <1>1. PICK s \in B : \A t \in SUBSET s : t # s => t \notin B
    <2>1. B \in SUBSET (SUBSET S)
      OBVIOUS
    <2> HIDE DEF B
    <2> QED
      BY <2>1, SmallestSubset
  <1>2. IsFiniteSet(s)
    BY FS_Subset
  <1>3. s # {}
    <2> SUFFICES ASSUME s = {} PROVE FALSE
      OBVIOUS
    <2>1. SumOn(h, s) = 0 /\ SumOn(g, s) = 0
      BY <1>2, SumUnfolds
    <2>2. SumOn(h, s) # -SumOn(g, s)
      BY <1>1
    <2> HIDE DEF B
    <2> QED
      BY <2>1, <2>2
  <1>4. Pick(s) \in s
    BY <1>3, PickIn
  <1>5. SumOn(h, s \ {Pick(s)}) = -SumOn(g, s \ {Pick(s)})
    BY <1>1, <1>4
  <1>6. SumOn(g, s) = g[Pick(s)] + SumOn(g, s \ {Pick(s)}) /\ SumOn(h, s) = h[Pick(s)] + SumOn(h, s \ {Pick(s)})
    BY <1>2, <1>3, SumUnfolds
  <1>7. IsFiniteSet(s \ {Pick(s)}) /\ \A x \in s \ {Pick(s)} : g[x] \in Int
    BY <1>2, FS_RemoveElement
  <1>8. SumOn(g, s \ {Pick(s)}) \in Int
    BY <1>7, SumTyped
  <1> QED
    BY <1>1, <1>4, <1>5, <1>6, <1>8

\* A set that p divides into parts has as many elements as they have together.
LEMMA PartsSum ==
  ASSUME NEW R, IsFiniteSet(R), NEW L, IsFiniteSet(L), NEW p, \A l \in L : p[l] \in R
  PROVE  SumOn([r \in R |-> Cardinality({l \in L : p[l] = r})], R) = Cardinality(L)
  <1> DEFINE g == [r \in R |-> Cardinality({l \in L : p[l] = r})]
             Part(s) == {l \in L : p[l] \in s}
             B == {s \in SUBSET R : SumOn(g, s) # Cardinality(Part(s))}
  <1>0. Part(R) = L
    OBVIOUS
  <1> SUFFICES ASSUME B # {} PROVE FALSE
    <2>1. R \notin B
      OBVIOUS
    <2>2. SumOn(g, R) = Cardinality(Part(R))
      BY <2>1
    <2>3. Cardinality(Part(R)) = Cardinality(L)
      BY <1>0, Zenon
    <2> HIDE DEF Part, B
    <2> QED
      BY <2>2, <2>3, Zenon
  <1>1. PICK s \in B : \A t \in SUBSET s : t # s => t \notin B
    <2>1. B \in SUBSET (SUBSET R)
      OBVIOUS
    <2> HIDE DEF B
    <2> QED
      BY <2>1, SmallestSubset
  <1>2. IsFiniteSet(s)
    BY FS_Subset
  <1>3. s # {}
    <2> SUFFICES ASSUME s = {} PROVE FALSE
      OBVIOUS
    <2>1. SumOn(g, s) = 0
      BY <1>2, SumUnfolds
    <2>2. Part(s) = {}
      OBVIOUS
    <2>3. Cardinality(Part(s)) = 0
      BY <2>2, FS_EmptySet, Zenon
    <2> QED
      BY <2>1, <2>3
  <1> DEFINE x == Pick(s)
             t == s \ {x}
  <1>4. x \in s
    BY <1>3, PickIn
  <1>5. SumOn(g, s) = g[x] + SumOn(g, t)
    BY <1>2, <1>3, SumUnfolds
  <1> HIDE DEF x
  <1>6. SumOn(g, t) = Cardinality(Part(t))
    BY <1>1, <1>4
  <1>7. Part(s) = Part(t) \cup {l \in L : p[l] = x} /\ Part(t) \cap {l \in L : p[l] = x} = {}
    BY <1>4
  <1>8. IsFiniteSet(Part(t)) /\ IsFiniteSet({l \in L : p[l] = x})
    BY FS_Subset
  <1>9. Cardinality(Part(s)) = Cardinality(Part(t)) + Cardinality({l \in L : p[l] = x})
    <2> DEFINE C == {l \in L : p[l] = x}
               D == Part(t)
               E == Part(s)
    <2>1. E = D \cup C /\ D \cap C = {} /\ IsFiniteSet(D) /\ IsFiniteSet(C)
      BY <1>7, <1>8
    <2> HIDE DEF C, D, E
    <2>2. Cardinality(D \cup C) = Cardinality(D) + Cardinality(C) - Cardinality(D \cap C)
      BY <2>1, FS_Union
    <2>3. Cardinality(D \cap C) = 0
      BY <2>1, FS_EmptySet, Zenon
    <2>4. Cardinality(E) = Cardinality(D \cup C)
      BY <2>1, Zenon
    <2>5. Cardinality(D) \in Nat /\ Cardinality(C) \in Nat
      BY <2>1, FS_CardinalityType
    <2>6. Cardinality(E) = Cardinality(D) + Cardinality(C)
      BY <2>2, <2>3, <2>4, <2>5
    <2> QED
      BY <2>6 DEF C, D, E
  <1>10. g[x] = Cardinality({l \in L : p[l] = x})
    BY <1>4
  <1>11. Cardinality(Part(t)) \in Nat /\ Cardinality({l \in L : p[l] = x}) \in Nat
    BY <1>8, FS_CardinalityType
  <1>12. SumOn(g, s) # Cardinality(Part(s))
    BY <1>1
  <1> HIDE DEF B, Part, g, t
  <1> QED
    BY <1>5, <1>6, <1>9, <1>10, <1>11, <1>12

\* A sum may be taken over other names of the elements.
LEMMA SumRenames ==
  ASSUME NEW S, IsFiniteSet(S), NEW h, \A x, y \in S : h[x] = h[y] => x = y,
         NEW g, NEW c, \A x \in S : g[h[x]] = c[x] /\ c[x] \in Int
  PROVE  SumOn(g, {h[x] : x \in S}) = SumOn(c, S)
  <1> DEFINE Image(s) == {h[x] : x \in s}
             B == {s \in SUBSET S : SumOn(g, Image(s)) # SumOn(c, s)}
  <1> SUFFICES ASSUME B # {} PROVE FALSE
    OBVIOUS
  <1>1. PICK s \in B : \A t \in SUBSET s : t # s => t \notin B
    <2>1. B \in SUBSET (SUBSET S)
      OBVIOUS
    <2> HIDE DEF B
    <2> QED
      BY <2>1, SmallestSubset
  <1>2. IsFiniteSet(s) /\ s \in SUBSET S
    BY FS_Subset
  <1>3. IsFiniteSet(Image(s)) /\ \A y \in Image(s) : g[y] \in Int
    <2>1. [x \in s |-> h[x]] \in Surjection(s, Image(s))
      BY DEF Surjection
    <2> QED
      BY <1>2, <2>1, FS_Surjection
  <1>4. s # {}
    <2> SUFFICES ASSUME s = {} PROVE FALSE
      OBVIOUS
    <2>1. SumOn(c, s) = 0
      BY <1>2, SumUnfolds
    <2>2. Image(s) = {}
      OBVIOUS
    <2>3. SumOn(g, Image(s)) = 0
      <3> HIDE DEF Image
      <3> QED
        BY <1>3, <2>2, SumUnfolds
    <2> QED
      BY <2>1, <2>3
  <1> DEFINE x == Pick(s)
             t == s \ {x}
  <1>5. x \in s
    BY <1>4, PickIn
  <1>6. SumOn(c, s) = c[x] + SumOn(c, t)
    BY <1>2, <1>4, SumUnfolds
  <1> HIDE DEF x
  <1>7. SumOn(g, Image(t)) = SumOn(c, t)
    BY <1>1, <1>5
  <1>8. Image(s) \ {h[x]} = Image(t)
    BY <1>2, <1>5
  <1>9. SumOn(g, Image(s)) = g[h[x]] + SumOn(g, Image(s) \ {h[x]})
    <2>1. h[x] \in Image(s)
      BY <1>5
    <2> HIDE DEF Image
    <2> QED
      BY <1>3, <2>1, SumRemoves
  <1>10. SumOn(g, Image(s) \ {h[x]}) = SumOn(g, Image(t))
    BY <1>8, Zenon
  <1>11. g[h[x]] = c[x]
    BY <1>2, <1>5
  <1>12. SumOn(g, Image(s)) # SumOn(c, s)
    BY <1>1
  <1> HIDE DEF B, Image, t
  <1> QED
    BY <1>6, <1>7, <1>9, <1>10, <1>11, <1>12

\* A sum in which one value changes.
LEMMA SumChanges ==
  ASSUME NEW S, IsFiniteSet(S), NEW z \in S, NEW g, NEW h, \A x \in S : g[x] \in Int /\ h[x] \in Int,
         \A x \in S \ {z} : g[x] = h[x]
  PROVE  SumOn(h, S) = SumOn(g, S) + (h[z] - g[z])
  <1>1. IsFiniteSet(S \ {z})
    BY FS_RemoveElement
  <1>2. SumOn(g, S \ {z}) = SumOn(h, S \ {z}) /\ SumOn(g, S \ {z}) \in Int
    <2>1. \A x \in S \ {z} : g[x] \in Int
      OBVIOUS
    <2> QED
      BY <1>1, <2>1, SumAgrees, SumTyped
  <1>3. SumOn(g, S) = g[z] + SumOn(g, S \ {z}) /\ SumOn(h, S) = h[z] + SumOn(h, S \ {z})
    BY SumRemoves
  <1> QED
    BY <1>2, <1>3

-----------------------------------------------------------------------------
(***************************************************************************)
(* The totals of rows of updated_account_counters.                         *)
(***************************************************************************)
Numbers(rows) == \A u \in rows : u[4] \in Int

\* The total of rows, as the sum of any function that extends their numbers.
LEMMA TotalIsSum ==
  ASSUME NEW rows, IsFiniteSet(rows), NEW g, \A u \in rows : g[u] = u[4]
  PROVE  Total(rows) = SumOn(g, rows)
  <1> DEFINE n == [u \in rows |-> u[4]]
  <1>1. Total(rows) = SumOn(n, rows)
    <2>1. DOMAIN n = rows
      OBVIOUS
    <2>2. Total(rows) = SumFunctionOnSet(n, DOMAIN n)
      BY DEF Total, SumFunction
    <2> HIDE DEF n
    <2> QED
      BY <2>1, <2>2, Zenon DEF SumOn
  <1>2. \A u \in rows : n[u] = g[u]
    OBVIOUS
  <1> HIDE DEF n
  <1> QED
    BY <1>1, <1>2, SumAgrees

LEMMA TotalTyped ==
  ASSUME NEW rows, IsFiniteSet(rows), Numbers(rows)
  PROVE  Total(rows) \in Int
  <1> DEFINE n == [u \in rows |-> u[4]]
  <1>1. \A u \in rows : n[u] = u[4] /\ n[u] \in Int
    BY DEF Numbers
  <1> HIDE DEF n
  <1> QED
    BY <1>1, TotalIsSum, SumTyped

LEMMA TotalUnion ==
  ASSUME NEW S, IsFiniteSet(S), NEW T, IsFiniteSet(T), S \cap T = {}, Numbers(S \cup T)
  PROVE  Total(S \cup T) = Total(S) + Total(T)
  <1> DEFINE n == [u \in S \cup T |-> u[4]]
  <1>1. \A u \in S \cup T : n[u] = u[4] /\ n[u] \in Int
    BY DEF Numbers
  <1>2. IsFiniteSet(S \cup T)
    BY FS_Union
  <1> HIDE DEF n
  <1>3. Total(S \cup T) = SumOn(n, S \cup T) /\ Total(S) = SumOn(n, S) /\ Total(T) = SumOn(n, T)
    BY <1>1, <1>2, TotalIsSum
  <1> QED
    BY <1>1, <1>3, SumUnion

LEMMA TotalOfNone == Total({}) = 0
  BY FS_EmptySet, TotalIsSum, SumZero

\* Rows without an amount do not count.
LEMMA TotalDropsZeros ==
  ASSUME NEW S, IsFiniteSet(S), Numbers(S)
  PROVE  Total({u \in S : u[4] # 0}) = Total(S)
  <1> DEFINE P == {u \in S : u[4] # 0}
             Q == {u \in S : u[4] = 0}
  <1>1. IsFiniteSet(P) /\ IsFiniteSet(Q) /\ P \cap Q = {} /\ P \cup Q = S
    BY FS_Subset
  <1>2. \A u \in Q : u[4] = 0
    OBVIOUS
  <1>3. Numbers(P \cup Q) /\ Numbers(P)
    BY DEF Numbers
  <1> HIDE DEF P, Q
  <1>4. Total(Q) = 0
    <2> DEFINE n == [u \in Q |-> 0]
    <2>1. \A u \in Q : n[u] = 0 /\ n[u] = u[4]
      BY <1>2
    <2> HIDE DEF n
    <2> QED
      BY <1>1, <2>1, TotalIsSum, SumZero
  <1>5. Total(P \cup Q) = Total(P) + Total(Q) /\ Total(P) \in Int
    BY <1>1, <1>3, TotalUnion, TotalTyped
  <1>6. Total(P \cup Q) = Total(S)
    BY <1>1, Zenon
  <1> QED
    BY <1>4, <1>5, <1>6 DEF P

\* Rows made from something else, one for each.
LEMMA TotalOfImage ==
  ASSUME NEW S, IsFiniteSet(S), NEW h, \A x, y \in S : h[x] = h[y] => x = y,
         NEW c, \A x \in S : h[x][4] = c[x] /\ c[x] \in Int
  PROVE  Total({h[x] : x \in S}) = SumOn(c, S)
  <1> DEFINE I == {h[x] : x \in S}
             n == [u \in I |-> u[4]]
  <1>1. IsFiniteSet(I)
    <2>1. [x \in S |-> h[x]] \in Surjection(S, I)
      BY DEF Surjection
    <2> QED
      BY <2>1, FS_Surjection
  <1>2. \A x \in S : n[h[x]] = c[x] /\ c[x] \in Int
    OBVIOUS
  <1>3. \A u \in I : n[u] = u[4]
    OBVIOUS
  <1>4. Total(I) = SumOn(n, I)
    <2> HIDE DEF I, n
    <2> QED
      BY <1>1, <1>3, TotalIsSum
  <1>5. SumOn(n, I) = SumOn(c, S)
    <2> HIDE DEF n
    <2> QED
      BY <1>2, SumRenames
  <1> QED
    BY <1>4, <1>5

-----------------------------------------------------------------------------
(***************************************************************************)
(* Types.                                                                  *)
(***************************************************************************)
UpdateRows == Nat \X (Rses \cup {AnyRse})
Cols == [Rses -> ColRows \cup {NoCol}]
Lengths == 0 .. Cardinality(Files)

\* Every row of a table has an id of its own.
Unique(R) == \A u, v \in R : u[1] = v[1] => u = v

\* The dataset and its rules.
DatasetTyped ==
  /\ content \subseteq Files
  /\ pending \subseteq {"ATTACH", "DETACH"}
  /\ account \in [Rules -> Accounts \cup {NoAccount}]
  /\ locks \subseteq Existing \X Files
  /\ available \subseteq Files \X Rses

\* The collection replicas, their updates and their worker, which has a list,
\* then one row of it with what it counted.
ColTyped ==
  /\ col \in Cols
  /\ updates \subseteq UpdateRows /\ IsFiniteSet(updates) /\ Unique(updates)
  /\ colWork \in [at : {"stopped", "idle", "list"}, list : SUBSET UpdateRows]
       \cup [at : {"counted"}, list : SUBSET UpdateRows, row : UpdateRows, length : Lengths,
             cnt : [Rses -> Lengths], old : Cols]
  /\ IsFiniteSet(colWork.list)
  /\ colWork.at = "counted" => colWork.row \in colWork.list

\* The row of a collection replica is not the one that means none.
LEMMA ColRowsExist == NoCol \notin ColRows
  BY DEF NoCol, ColRows

\* The datasets' numbers are within their bounds.
LEMMA CountsBounded ==
  ASSUME content \subseteq Files
  PROVE  /\ Cardinality(content) \in Lengths
         /\ \A x \in Rses : Available(x) \in Lengths /\ Available(x) <= Cardinality(content)
  <1>1. IsFiniteSet(content) /\ Cardinality(content) <= Cardinality(Files)
    BY AbacusAssumption, FS_Subset
  <1>2. Cardinality(content) \in Nat /\ Cardinality(Files) \in Nat
    BY <1>1, AbacusAssumption, FS_CardinalityType
  <1>3. ASSUME NEW x \in Rses
        PROVE  Available(x) \in Nat /\ Available(x) <= Cardinality(content)
    <2> DEFINE T == {f \in content : <<f, x>> \in available}
    <2>1. T \in SUBSET content
      OBVIOUS
    <2>2. IsFiniteSet(T) /\ Cardinality(T) <= Cardinality(content)
      BY <1>1, <2>1, FS_Subset
    <2> QED
      BY <2>2, FS_CardinalityType DEF Available
  <1> QED
    BY <1>1, <1>2, <1>3 DEF Lengths

\* The ids in use are finitely many.
LEMMA UsedUpdateIdsFinite ==
  ASSUME IsFiniteSet(updates), IsFiniteSet(colWork.list)
  PROVE  IsFiniteSet(UsedUpdateIds)
  <1> DEFINE S == updates \cup colWork.list
             f == [u \in S |-> u[1]]
  <1>1. IsFiniteSet(S)
    BY FS_Union
  <1>2. f \in Surjection(S, UsedUpdateIds)
    BY DEF Surjection, UsedUpdateIds
  <1> QED
    BY <1>1, <1>2, FS_Surjection

\* An update for y is among the rows U.
Due(U, y) == \E u \in U : u[2] = y

\* New updates are rows that nobody has seen, one for each that was asked for.
LEMMA NewUpdatesFresh ==
  ASSUME ColTyped, NEW rows, IsFiniteSet(rows), \A x \in rows : x[2] \in Rses \cup {AnyRse}
  PROVE  /\ NewUpdates(rows) \subseteq UpdateRows /\ IsFiniteSet(NewUpdates(rows))
         /\ NewUpdates(rows) \cap (updates \cup colWork.list) = {} /\ Unique(updates \cup NewUpdates(rows))
         /\ \A x \in rows : Due(NewUpdates(rows), x[2])
  <1> DEFINE id == Numbered(rows, UsedUpdateIds)
             f == [x \in rows |-> <<id[x], x[2]>>]
  <1>1. id \in [rows -> Nat \ UsedUpdateIds] /\ \A x, y \in rows : id[x] = id[y] => x = y
    BY NumberedFresh, UsedUpdateIdsFinite DEF ColTyped
  <1>2. NewUpdates(rows) = {<<id[x], x[2]>> : x \in rows}
    BY DEF NewUpdates
  <1> HIDE DEF id
  <1>3. f \in Surjection(rows, NewUpdates(rows))
    BY <1>2 DEF Surjection
  <1>4. IsFiniteSet(NewUpdates(rows))
    BY <1>3, FS_Surjection
  <1>5. NewUpdates(rows) \subseteq UpdateRows
    BY <1>1, <1>2 DEF UpdateRows
  <1>6. \A x \in rows : id[x] \notin UsedUpdateIds
    BY <1>1
  <1>7. NewUpdates(rows) \cap (updates \cup colWork.list) = {}
    <2>1. \A u \in updates \cup colWork.list : u[1] \in UsedUpdateIds
      BY DEF UsedUpdateIds
    <2>2. \A u \in NewUpdates(rows) : u[1] \notin UsedUpdateIds
      BY <1>2, <1>6
    <2> QED
      BY <2>1, <2>2
  <1>8. Unique(updates \cup NewUpdates(rows))
    <2>1. \A u \in updates : u[1] \in UsedUpdateIds
      BY DEF UsedUpdateIds
    <2>2. \A u \in NewUpdates(rows) : u[1] \notin UsedUpdateIds
      BY <1>2, <1>6
    <2>3. Unique(NewUpdates(rows))
      BY <1>1, <1>2 DEF Unique
    <2> QED
      BY <2>1, <2>2, <2>3 DEF Unique, ColTyped
  <1>9. ASSUME NEW x \in rows
        PROVE  Due(NewUpdates(rows), x[2])
    <2>1. <<id[x], x[2]>> \in NewUpdates(rows)
      BY <1>2
    <2> QED
      BY <2>1 DEF Due
  <1> QED
    BY <1>4, <1>5, <1>7, <1>8, <1>9

-----------------------------------------------------------------------------
(***************************************************************************)
(* Collection replicas.  A row is right, or a row of updates is waiting    *)
(* that will make it right; and what the worker has counted is right, or   *)
(* such an update has come since, apart from the one that it works on.     *)
(***************************************************************************)
Behind(U) == pending # {} \/ Due(U, AnyRse)

\* The row c of the collection replica on x tells the truth.
Truthful(c, x) ==
  Available(x) > 0 => c.cnt = Available(x) /\ (c.ok <=> Available(x) = Cardinality(content))

RowsRight ==
  \A x \in Rses : col[x] # NoCol =>
    /\ Behind(updates) \/ col[x].length = Cardinality(content)
    /\ Behind(updates) \/ Due(updates, x) \/ Truthful(col[x], x)

Others == updates \ {colWork.row}

CountRight ==
  colWork.at = "counted" => \A x \in Rses :
    /\ col[x] # NoCol => /\ Behind(Others) \/ colWork.length = Cardinality(content)
                         /\ Behind(Others) \/ Due(Others, x) \/ colWork.cnt[x] = Available(x)
    /\ colWork.old[x] # NoCol => col[x] = colWork.old[x]
    /\ colWork.old[x] = NoCol /\ col[x] # NoCol => Behind(Others)

ColInv == ColTyped /\ RowsRight /\ CountRight

\* With nothing to do the rows are right.
LEMMA ColInvSuffices == ColInv => CollectionExact
  BY DEF ColInv, RowsRight, Behind, Due, Truthful, CollectionExact

\* An operation that changes the dataset or its replicas queues a re-evaluation
\* or new updates for the rows that it makes wrong.
LEMMA OperationNoticed ==
  ASSUME ColInv, UNCHANGED colWork, NEW new, updates' = updates \cup new,
         new \subseteq UpdateRows, IsFiniteSet(new), new \cap (updates \cup colWork.list) = {},
         Unique(updates \cup new),
         col' \in Cols,
         pending = {} \/ pending' # {} \/ Due(new, AnyRse),
         \A x \in Rses : col'[x] = col[x] \/ (col[x] = NoCol /\ Due(new, AnyRse)),
         content' = content \/ pending' # {},
         \A x \in Rses : col'[x] # NoCol =>
           Available(x)' = Available(x) \/ pending' # {} \/ Due(new, AnyRse) \/ Due(new, x)
  PROVE  ColInv'
  <1>1. ColTyped'
    BY FS_Union DEF ColInv, ColTyped
  <1>2. \A y : /\ Due(updates, y) => Due(updates', y)
               /\ Due(new, y) => Due(updates', y)
    BY DEF Due
  <1>3. Behind(updates) => Behind(updates)'
    BY <1>2 DEF Behind, Due
  <1>4. \A x \in Rses : col'[x] # NoCol =>
          Behind(updates)' \/ (col'[x] = col[x] /\ content' = content /\ pending = {})
    BY <1>2 DEF Behind, Due
  <1>5. \A x \in Rses : col'[x] # NoCol => Available(x)' = Available(x) \/ Behind(updates)' \/ Due(updates, x)'
    BY DEF Behind, Due
  <1>6. RowsRight'
    BY <1>2, <1>3, <1>4, <1>5 DEF ColInv, RowsRight, Truthful, Due
  <1>7. ASSUME colWork.at = "counted"
        PROVE  /\ colWork.row \notin new
               /\ \A y : /\ Due(Others, y) => Due(Others', y)
                         /\ Due(new, y) => Due(Others', y)
    BY <1>7 DEF ColInv, ColTyped, Due, Others
  <1>8. CountRight'
    <2> SUFFICES ASSUME colWork.at = "counted", NEW x \in Rses, col'[x] # NoCol
                 PROVE  /\ Behind(Others)' \/ colWork.length = Cardinality(content')
                        /\ Behind(Others)' \/ Due(Others, x)' \/ colWork.cnt[x] = Available(x)'
                        /\ colWork.old[x] # NoCol => col'[x] = colWork.old[x]
                        /\ colWork.old[x] = NoCol => Behind(Others)'
      BY DEF CountRight, ColInv
    <2>1. Behind(Others) => Behind(Others)'
      BY <1>7 DEF Behind, Due
    <2>2. Behind(Others)' \/ (col'[x] = col[x] /\ content' = content /\ pending = {})
      BY <1>7 DEF Behind, Due
    <2>3. Available(x)' = Available(x) \/ Behind(Others)' \/ Due(Others, x)'
      BY <1>7 DEF Behind, Due
    <2>4. Due(Others, x) => Due(Others, x)'
      BY <1>7 DEF Due
    <2> QED
      BY <2>1, <2>2, <2>3, <2>4 DEF ColInv, CountRight
  <1> QED
    BY <1>1, <1>6, <1>8 DEF ColInv

\* Operations that leave all that collection replicas depend on alone.
LEMMA OperationUnnoticed ==
  ASSUME ColInv, UNCHANGED <<content, pending, available, col, updates, colWork>>
  PROVE  ColInv'
  BY DEF ColInv, ColTyped, RowsRight, CountRight, Behind, Due, Others, Truthful, Available

\* What the collection replicas are when a rule needs them on some RSEs.
LEMMA WithColsTyped ==
  ASSUME col \in Cols, NEW rses \in SUBSET Rses, col' = WithCols(rses)
  PROVE  /\ col' \in Cols
         /\ \A x \in Rses : col'[x] = col[x] \/ (col[x] = NoCol /\ x \in Missing(rses))
  <1>1. [length |-> 0, cnt |-> 0, ok |-> FALSE] \in ColRows
    BY AbacusAssumption, FS_CardinalityType DEF ColRows
  <1> QED
    BY <1>1 DEF WithCols, Missing, Cols

\* The files and the re-evaluations of the dataset.
LEMMA ContentStep ==
  ASSUME DatasetTyped, ColInv, NEW f \in Files, Attach(f) \/ Detach(f)
  PROVE  ColInv'
  <1>1. /\ pending' # {} /\ updates' = updates \cup {} /\ UNCHANGED <<col, colWork>>
        /\ IsFiniteSet({})
    BY FS_EmptySet DEF Attach, Detach, colVars
  <1> QED
    BY <1>1, OperationNoticed DEF ColInv, ColTyped

\* Finite sets of rows, for the operations below.
LEMMA RowsFinite ==
  ASSUME NEW S, IsFiniteSet(S), NEW y
  PROVE  IsFiniteSet({<<x, y>> : x \in S}) /\ IsFiniteSet({<<x[1], y>> : x \in S})
  <1> DEFINE f == [x \in S |-> <<x, y>>]
             g == [x \in S |-> <<x[1], y>>]
  <1>1. f \in Surjection(S, {<<x, y>> : x \in S}) /\ g \in Surjection(S, {<<x[1], y>> : x \in S})
    BY DEF Surjection
  <1> QED
    BY <1>1, FS_Surjection

LEMMA CreateRuleStep ==
  ASSUME DatasetTyped, ColInv, NEW r \in Rules, NEW a \in Accounts, CreateRule(r, a)
  PROVE  ColInv'
  <1> DEFINE rses == {Target[r]}
             rows == {<<x, AnyRse>> : x \in Missing(rses)}
  <1>1. rses \in SUBSET Rses /\ IsFiniteSet(Missing(rses))
    BY AbacusAssumption, FS_Singleton, FS_Subset DEF Missing
  <1>2. /\ IsFiniteSet(rows)
        /\ \A x \in rows : x[2] \in Rses \cup {AnyRse}
        /\ Missing(rses) # {} => \E x \in rows : x[2] = AnyRse
    <2>1. IsFiniteSet(rows)
      BY <1>1, RowsFinite
    <2>2. \A y \in Missing(rses) : <<y, AnyRse>> \in rows
      OBVIOUS
    <2>3. Missing(rses) # {} => \E x \in rows : x[2] = AnyRse
      BY <2>2
    <2> QED
      BY <2>1, <2>3
  <1>3. updates' = updates \cup NewUpdates(rows) /\ UNCHANGED <<content, pending, available, colWork>>
    BY DEF CreateRule
  <1> HIDE DEF rows
  <1>4. /\ NewUpdates(rows) \subseteq UpdateRows /\ IsFiniteSet(NewUpdates(rows))
        /\ NewUpdates(rows) \cap (updates \cup colWork.list) = {} /\ Unique(updates \cup NewUpdates(rows))
        /\ \A x \in rows : Due(NewUpdates(rows), x[2])
    BY <1>2, NewUpdatesFresh DEF ColInv
  <1>5. Missing(rses) # {} => Due(NewUpdates(rows), AnyRse)
    BY <1>2, <1>4
  <1>6. /\ col' \in Cols
        /\ \A x \in Rses : col'[x] = col[x] \/ (col[x] = NoCol /\ x \in Missing(rses))
    BY <1>1, WithColsTyped DEF CreateRule, ColInv, ColTyped
  <1> QED
    BY <1>4, <1>5, <1>6, <1>3, OperationNoticed DEF Available

LEMMA EvaluateAttachStep ==
  ASSUME DatasetTyped, ColInv, EvaluateAttach
  PROVE  ColInv'
  <1> DEFINE rses == {Target[r] : r \in {q \in Existing : \E f \in content : <<q, f>> \notin locks}}
             rows == {<<x, AnyRse>> : x \in Missing(rses) \cup {AnyRse}}
  <1>1. rses \in SUBSET Rses
    BY AbacusAssumption DEF Existing
  <1>2. IsFiniteSet(Missing(rses) \cup {AnyRse})
    <2>1. Missing(rses) \in SUBSET Rses
      BY <1>1 DEF Missing
    <2> QED
      BY <2>1, AbacusAssumption, FS_Subset, FS_AddElement
  <1>3. /\ IsFiniteSet(rows)
        /\ \A x \in rows : x[2] \in Rses \cup {AnyRse}
        /\ \E x \in rows : x[2] = AnyRse
    <2>1. IsFiniteSet(rows)
      BY <1>2, RowsFinite
    <2>2. <<AnyRse, AnyRse>> \in rows
      OBVIOUS
    <2>3. \E x \in rows : x[2] = AnyRse
      BY <2>2
    <2>4. \A x \in rows : x[2] \in Rses \cup {AnyRse}
      <3> HIDE DEF rses
      <3> QED
        OBVIOUS
    <2> QED
      BY <2>1, <2>3, <2>4
  <1>4. updates' = updates \cup NewUpdates(rows) /\ UNCHANGED <<content, available, colWork>>
    BY DEF EvaluateAttach
  <1> HIDE DEF rows
  <1>5. /\ NewUpdates(rows) \subseteq UpdateRows /\ IsFiniteSet(NewUpdates(rows))
        /\ NewUpdates(rows) \cap (updates \cup colWork.list) = {} /\ Unique(updates \cup NewUpdates(rows))
        /\ \A x \in rows : Due(NewUpdates(rows), x[2])
    BY <1>3, NewUpdatesFresh DEF ColInv
  <1>6. Due(NewUpdates(rows), AnyRse)
    BY <1>3, <1>5
  <1>7. /\ col' \in Cols
        /\ \A x \in Rses : col'[x] = col[x] \/ (col[x] = NoCol /\ x \in Missing(rses))
    BY <1>1, WithColsTyped DEF EvaluateAttach, ColInv, ColTyped
  <1> QED
    BY <1>5, <1>6, <1>7, <1>4, OperationNoticed

LEMMA EvaluateDetachStep ==
  ASSUME DatasetTyped, ColInv, EvaluateDetach
  PROVE  ColInv'
  <1> DEFINE rows == {<<AnyRse, AnyRse>>}
  <1>1. /\ IsFiniteSet(rows)
        /\ \A x \in rows : x[2] \in Rses \cup {AnyRse}
        /\ \E x \in rows : x[2] = AnyRse
    <2>1. IsFiniteSet(rows)
      BY FS_Singleton
    <2> QED
      BY <2>1
  <1>2. updates' = updates \cup NewUpdates(rows) /\ UNCHANGED <<content, available, col, colWork>>
    BY DEF EvaluateDetach
  <1> HIDE DEF rows
  <1>3. /\ NewUpdates(rows) \subseteq UpdateRows /\ IsFiniteSet(NewUpdates(rows))
        /\ NewUpdates(rows) \cap (updates \cup colWork.list) = {} /\ Unique(updates \cup NewUpdates(rows))
        /\ \A x \in rows : Due(NewUpdates(rows), x[2])
    BY <1>1, NewUpdatesFresh DEF ColInv
  <1>4. Due(NewUpdates(rows), AnyRse)
    BY <1>1, <1>3
  <1> QED
    BY <1>3, <1>4, <1>2, OperationNoticed DEF ColInv, ColTyped

LEMMA TransferDoneStep ==
  ASSUME DatasetTyped, ColInv, NEW f \in Files, NEW x \in Rses, TransferDone(f, x)
  PROVE  ColInv'
  <1> DEFINE done == {l \in locks : l[2] = f /\ Target[l[1]] = x}
             rows == {<<l[1], x>> : l \in done}
  <1>1. IsFiniteSet(done)
    <2>1. done \in SUBSET (Rules \X Files)
      BY DEF DatasetTyped, Existing
    <2> QED
      BY <2>1, AbacusAssumption, FS_Product, FS_Subset
  <1>2. /\ updates' = updates \cup NewUpdates(rows) /\ UNCHANGED <<content, pending, col, colWork>>
        /\ done # {} /\ available' = available \cup {<<f, x>>}
    BY DEF TransferDone
  <1>3. /\ IsFiniteSet(rows)
        /\ \A y \in rows : y[2] \in Rses \cup {AnyRse}
        /\ \E y \in rows : y[2] = x
    <2>1. IsFiniteSet(rows)
      BY <1>1, RowsFinite
    <2>2. PICK l \in done : TRUE
      BY <1>2
    <2>3. <<l[1], x>> \in rows
      BY <2>2
    <2>4. \E y \in rows : y[2] = x
      BY <2>3
    <2> QED
      BY <2>1, <2>4
  <1> HIDE DEF rows
  <1>4. /\ NewUpdates(rows) \subseteq UpdateRows /\ IsFiniteSet(NewUpdates(rows))
        /\ NewUpdates(rows) \cap (updates \cup colWork.list) = {} /\ Unique(updates \cup NewUpdates(rows))
        /\ \A y \in rows : Due(NewUpdates(rows), y[2])
    BY <1>3, NewUpdatesFresh DEF ColInv
  <1>5. Due(NewUpdates(rows), x)
    BY <1>3, <1>4
  <1>6. \A z \in Rses \ {x} : Available(z)' = Available(z)
    <2> SUFFICES ASSUME NEW z \in Rses \ {x}
                 PROVE  {g \in content' : <<g, z>> \in available'} = {g \in content : <<g, z>> \in available}
      BY DEF Available
    <2> QED
      BY <1>2
  <1>7. \A z \in Rses : Available(z)' = Available(z) \/ Due(NewUpdates(rows), z)
    BY <1>5, <1>6
  <1>8. col' \in Cols
    BY <1>2 DEF ColInv, ColTyped
  <1> QED
    BY <1>2, <1>4, <1>7, <1>8, OperationNoticed

LEMMA DeleteReplicaStep ==
  ASSUME DatasetTyped, ColInv, NEW f \in Files, NEW x \in Rses, DeleteReplica(f, x)
  PROVE  ColInv'
  <1> DEFINE rows == IF f \in content /\ col[x] # NoCol THEN {<<x, x>>} ELSE {}
  <1>1. /\ updates' = updates \cup NewUpdates(rows) /\ UNCHANGED <<content, pending, col, colWork>>
        /\ available' = available \ {<<f, x>>}
    BY DEF DeleteReplica
  <1>2. /\ IsFiniteSet(rows)
        /\ \A y \in rows : y[2] \in Rses \cup {AnyRse}
        /\ f \in content /\ col[x] # NoCol => \E y \in rows : y[2] = x
    <2>1. IsFiniteSet(rows)
      BY FS_Singleton, FS_EmptySet
    <2>2. f \in content /\ col[x] # NoCol => <<x, x>> \in rows
      OBVIOUS
    <2>3. f \in content /\ col[x] # NoCol => \E y \in rows : y[2] = x
      BY <2>2
    <2>4. \A y \in rows : y[2] \in Rses \cup {AnyRse}
      OBVIOUS
    <2> QED
      BY <2>1, <2>3, <2>4
  <1> HIDE DEF rows
  <1>3. /\ NewUpdates(rows) \subseteq UpdateRows /\ IsFiniteSet(NewUpdates(rows))
        /\ NewUpdates(rows) \cap (updates \cup colWork.list) = {} /\ Unique(updates \cup NewUpdates(rows))
        /\ \A y \in rows : Due(NewUpdates(rows), y[2])
    BY <1>2, NewUpdatesFresh DEF ColInv
  <1>4. f \in content /\ col[x] # NoCol => Due(NewUpdates(rows), x)
    BY <1>2, <1>3
  <1>5. ASSUME NEW z \in Rses, z # x \/ f \notin content
        PROVE  Available(z)' = Available(z)
    <2>1. {g \in content' : <<g, z>> \in available'} = {g \in content : <<g, z>> \in available}
      BY <1>1, <1>5
    <2> QED
      BY <2>1 DEF Available
  <1> QED
    BY <1>1, <1>3, <1>4, <1>5, OperationNoticed DEF ColInv, ColTyped

\* Cleaning the updates leaves one for each collection replica that had any.
LEMMA GetCleanedUpdatesStep ==
  ASSUME DatasetTyped, ColInv, GetCleanedUpdates
  PROVE  ColInv'
  <1> DEFINE live == {u \in updates : IF u[2] = AnyRse THEN \E x \in Rses : col[x] # NoCol ELSE col[u[2]] # NoCol}
  <1>1. PICK kept \in SUBSET live :
          /\ \A u \in live : \E v \in kept : v[2] = u[2]
          /\ updates' = kept
          /\ colWork' = [at |-> IF kept = {} THEN "idle" ELSE "list", list |-> kept]
    BY DEF GetCleanedUpdates
  <1>2. UNCHANGED <<content, pending, available, col>>
    BY DEF GetCleanedUpdates, ruleVars
  <1>3. kept \in SUBSET updates
    OBVIOUS
  <1>4. \A x \in Rses : col[x] # NoCol =>
          /\ Due(updates, x) => Due(kept, x)
          /\ Due(updates, AnyRse) => Due(kept, AnyRse)
    BY <1>1, AbacusAssumption DEF Due
  <1>5. ColTyped'
    BY <1>1, <1>2, <1>3, FS_Subset DEF ColInv, ColTyped, Unique
  <1>6. RowsRight'
    BY <1>1, <1>2, <1>4 DEF ColInv, RowsRight, Behind, Due, Truthful, Available
  <1>7. CountRight'
    BY <1>1 DEF CountRight
  <1> QED
    BY <1>5, <1>6, <1>7 DEF ColInv

\* What is counted is right at the moment of counting.
LEMMA CountReplicasStep ==
  ASSUME DatasetTyped, ColInv, NEW u \in colWork.list, CountReplicas(u)
  PROVE  ColInv'
  <1>1. /\ colWork' = [at |-> "counted", list |-> colWork.list, row |-> u, length |-> Cardinality(content),
                       cnt |-> [x \in Rses |-> Available(x)], old |-> col]
        /\ UNCHANGED <<content, pending, available, col, updates>>
    BY DEF CountReplicas, ruleVars
  <1>2. colWork.list \in SUBSET UpdateRows
    BY DEF ColInv, ColTyped
  <1>3. Cardinality(content) \in Lengths /\ [x \in Rses |-> Available(x)] \in [Rses -> Lengths]
    BY CountsBounded DEF DatasetTyped
  <1>4. ColTyped'
    BY <1>1, <1>2, <1>3 DEF ColInv, ColTyped
  <1>5. RowsRight'
    BY <1>1 DEF ColInv, RowsRight, Behind, Due, Truthful, Available
  <1>6. \A x \in Rses : Available(x)' = Available(x)
    BY <1>1 DEF Available
  <1>7. CountRight'
    BY <1>1, <1>6 DEF CountRight
  <1> QED
    BY <1>4, <1>5, <1>7 DEF ColInv

\* The worker has written: its list gets shorter, and it counts no more.
LEMMA ListedTyped ==
  ASSUME ColTyped, NEW list \in SUBSET colWork.list, colWork' = Listed(list),
         col' \in Cols, updates' \in SUBSET updates
  PROVE  ColTyped' /\ CountRight'
  <1>1. IsFiniteSet(list) /\ IsFiniteSet(updates')
    BY FS_Subset DEF ColTyped
  <1>2. colWork.list \in SUBSET UpdateRows
    BY DEF ColTyped
  <1>3. colWork'.at # "counted" /\ colWork'.list = list
    BY DEF Listed
  <1>4. colWork' \in [at : {"stopped", "idle", "list"}, list : SUBSET UpdateRows]
    BY <1>2 DEF Listed
  <1> QED
    BY <1>1, <1>3, <1>4 DEF ColTyped, CountRight, Unique

LEMMA UpdateOneStep ==
  ASSUME DatasetTyped, ColInv, UpdateCollectionReplica, NEW x \in Rses, x = colWork.row[2],
         NEW old, old = colWork.old[x], NEW n, n = colWork.cnt[x]
  PROVE  ColInv'
  <1> DEFINE row == [length |-> old.length, cnt |-> n, ok |-> n >= old.length]
  <1>1. colWork.at = "counted" /\ UpdateOne /\ UNCHANGED <<content, pending, available>>
    BY AbacusAssumption DEF UpdateCollectionReplica, ruleVars
  <1>2. /\ x \in Rses /\ old \in ColRows \cup {NoCol} /\ n \in Lengths /\ colWork.row \in UpdateRows
    BY <1>1 DEF ColInv, ColTyped, UpdateRows, Cols
  <1>3. \A y \in Rses : Available(y)' = Available(y)
    BY <1>1 DEF Available
  <1>4. CASE old = NoCol
    <2>1. colWork' = Listed({}) /\ UNCHANGED <<col, updates>>
      BY <1>1, <1>4 DEF UpdateOne
    <2>2. ColTyped' /\ CountRight'
      BY <2>1, ListedTyped DEF ColInv, ColTyped
    <2>3. RowsRight'
      BY <2>1, <1>1 DEF ColInv, RowsRight, Behind, Due, Truthful, Available
    <2> QED
      BY <2>2, <2>3 DEF ColInv
  <1>5. CASE old # NoCol
    <2>1. /\ col' = [col EXCEPT ![x] = IF old.cnt > 0 /\ n = 0 THEN NoCol ELSE row]
          /\ updates' = Others
          /\ colWork' = Listed(colWork.list \ {colWork.row})
      BY <1>1, <1>5 DEF UpdateOne, Others
    <2>2. old.length \in Lengths /\ old.cnt \in Lengths
      BY <1>2, <1>5 DEF ColRows, Lengths
    <2>3. row \in ColRows
      BY <1>2, <2>2 DEF ColRows, Lengths
    <2>4. col \in Cols /\ col' \in Cols
      BY <2>1, <2>3, <1>2 DEF ColInv, ColTyped, Cols
    <2>5. ColTyped' /\ CountRight'
      BY <2>1, <2>4, ListedTyped DEF ColInv, Others
    <2>6. /\ \A y : y # x /\ Due(updates, y) => Due(Others, y)
          /\ Behind(updates) => Behind(Others)
      <3>1. \A y : y # x /\ Due(updates, y) => Due(Others, y)
        BY DEF Due, Others
      <3> QED
        BY <3>1, <1>2, AbacusAssumption DEF Behind
    <2>7. Behind(updates)' <=> Behind(Others)
      BY <2>1, <1>1 DEF Behind, Due, Others
    <2>8. ASSUME NEW y \in Rses \ {x}, col'[y] # NoCol
          PROVE  /\ Behind(updates)' \/ col'[y].length = Cardinality(content')
                 /\ Behind(updates)' \/ Due(updates, y)' \/ Truthful(col[y], y)'
      <3>1. col'[y] = col[y]
        BY <2>1, <2>4 DEF Cols
      <3>2. Truthful(col[y], y)' <=> Truthful(col[y], y)
        BY <3>1, <1>1, <1>3 DEF Truthful
      <3>3. Due(updates, y) => Due(updates, y)'
        BY <2>1, <2>6 DEF Due
      <3> QED
        BY <2>6, <2>7, <2>8, <3>1, <3>2, <3>3, <1>1 DEF ColInv, RowsRight
    <2>9. ASSUME col'[x] # NoCol
          PROVE  /\ Behind(updates)' \/ col'[x].length = Cardinality(content')
                 /\ Behind(updates)' \/ Due(updates, x)' \/ Truthful(col[x], x)'
      <3>1. col'[x] = row
        BY <2>1, <2>4, <2>9, <1>2 DEF Cols
      <3>2. col[x] = old /\ col[x] # NoCol
        BY <1>1, <1>2, <1>5 DEF ColInv, CountRight
      <3>3. Behind(updates) \/ old.length = Cardinality(content)
        BY <3>2, <1>2 DEF ColInv, RowsRight
      <3>4. Behind(Others) \/ Due(Others, x) \/ n = Available(x)
        BY <3>2, <1>1, <1>2 DEF ColInv, CountRight
      <3>5. ASSUME n = Available(x), old.length = Cardinality(content)
            PROVE  Truthful(col[x], x)'
        <4>1. col'[x].cnt = n /\ col'[x].ok = (n >= old.length)
          BY <3>1
        <4>2. n \in Nat /\ old.length \in Nat /\ n <= old.length
          BY <3>5, <1>2, <2>2, CountsBounded DEF DatasetTyped, Lengths
        <4>3. Available(x)' = n /\ Cardinality(content') = old.length
          BY <3>5, <1>1, <1>2, <1>3
        <4>4. n >= old.length <=> n = old.length
          BY <4>2
        <4> QED
          BY <4>1, <4>3, <4>4, Zenon DEF Truthful
      <3>6. Due(Others, x) => Due(updates, x)'
        BY <2>1 DEF Due, Others
      <3>7. col'[x].length = old.length
        BY <3>1
      <3> QED
        BY <3>3, <3>4, <3>5, <3>6, <3>7, <2>6, <2>7, <1>1
    <2>10. RowsRight'
      BY <2>8, <2>9 DEF RowsRight
    <2> QED
      BY <2>5, <2>10 DEF ColInv
  <1> QED
    BY <1>4, <1>5

LEMMA UpdateAllStep ==
  ASSUME DatasetTyped, ColInv, UpdateCollectionReplica, colWork.row[2] = AnyRse
  PROVE  ColInv'
  <1> DEFINE wrote(x) == IF colWork.cnt[x] = 0 THEN [col[x] EXCEPT !.length = colWork.length]
                         ELSE [length |-> colWork.length, cnt |-> colWork.cnt[x],
                               ok |-> colWork.cnt[x] >= colWork.length]
  <1>1. /\ colWork.at = "counted" /\ UNCHANGED <<content, pending, available>>
        /\ col' = [x \in Rses |-> IF col[x] = NoCol \/ colWork.old[x] = NoCol THEN col[x] ELSE wrote(x)]
        /\ updates' = Others
        /\ colWork' = Listed(colWork.list \ {colWork.row})
    BY DEF UpdateCollectionReplica, ruleVars, UpdateAll, Others
  <1>2. /\ col \in Cols /\ colWork.length \in Lengths /\ colWork.cnt \in [Rses -> Lengths]
        /\ colWork.row \in UpdateRows
    BY <1>1 DEF ColInv, ColTyped
  <1>3. ASSUME NEW x \in Rses, col[x] # NoCol
        PROVE  wrote(x) \in ColRows /\ wrote(x).length = colWork.length
    <2>1. col[x] \in ColRows
      BY <1>2, <1>3 DEF Cols
    <2> QED
      BY <1>2, <2>1 DEF ColRows, Lengths
  <1>4. col' \in Cols
    BY <1>1, <1>2, <1>3 DEF Cols
  <1>5. ColTyped' /\ CountRight'
    BY <1>1, <1>4, ListedTyped DEF ColInv, Others
  <1>6. Behind(updates)' <=> Behind(Others)
    BY <1>1 DEF Behind, Due, Others
  <1>7. ASSUME NEW x \in Rses, col'[x] # NoCol
        PROVE  /\ Behind(updates)' \/ col'[x].length = Cardinality(content')
               /\ Behind(updates)' \/ Due(updates, x)' \/ Truthful(col[x], x)'
    <2>1. CASE colWork.old[x] = NoCol
      <3>1. col[x] # NoCol
        BY <1>1, <1>7, <2>1
      <3> QED
        BY <3>1, <2>1, <1>1, <1>6 DEF ColInv, CountRight
    <2>2. CASE colWork.old[x] # NoCol
      <3>1. col[x] # NoCol /\ col'[x] = wrote(x)
        BY <1>1, <1>7, <2>2
      <3>2. col'[x].length = colWork.length
        BY <3>1, <1>3
      <3>3. Behind(Others) \/ colWork.length = Cardinality(content)
        BY <3>1, <1>1 DEF ColInv, CountRight
      <3>4. Behind(Others) \/ Due(Others, x) \/ colWork.cnt[x] = Available(x)
        BY <3>1, <1>1 DEF ColInv, CountRight
      <3>5. ASSUME colWork.cnt[x] = Available(x), colWork.length = Cardinality(content)
            PROVE  Truthful(col[x], x)'
        <4>1. Available(x)' = Available(x) /\ Cardinality(content') = Cardinality(content)
          BY <1>1 DEF Available
        <4>2. Available(x) \in Nat /\ Cardinality(content) \in Nat /\ Available(x) <= Cardinality(content)
          BY CountsBounded DEF DatasetTyped, Lengths
        <4>3. CASE Available(x) = 0
          BY <4>1, <4>3 DEF Truthful
        <4>4. CASE Available(x) # 0
          <5>1. /\ col'[x].cnt = Available(x)
                /\ col'[x].ok = (Available(x) >= Cardinality(content))
            BY <3>1, <3>5, <4>4
          <5>2. Available(x) >= Cardinality(content) <=> Available(x) = Cardinality(content)
            BY <4>2
          <5> QED
            BY <5>1, <5>2, <4>1, Zenon DEF Truthful
        <4> QED
          BY <4>3, <4>4
      <3>6. Due(Others, x) => Due(updates, x)'
        BY <1>1 DEF Due, Others
      <3> QED
        BY <3>2, <3>3, <3>4, <3>5, <3>6, <1>1, <1>6
    <2> QED
      BY <2>1, <2>2
  <1>8. RowsRight'
    BY <1>7 DEF RowsRight
  <1> QED
    BY <1>5, <1>8 DEF ColInv

\* Every step, one operation at a time.
LEMMA NextCases ==
  ASSUME Next
  PROVE  \/ \E f \in Files : Attach(f) \/ Detach(f)
         \/ \E r \in Rules, a \in Accounts : CreateRule(r, a)
         \/ \E r \in Rules, a \in Accounts : ChangeAccount(r, a)
         \/ \E r \in Rules : DeleteRule(r)
         \/ EvaluateAttach
         \/ EvaluateDetach
         \/ \E f \in Files, x \in Rses : TransferDone(f, x)
         \/ \E f \in Files, x \in Rses : DeleteReplica(f, x)
         \/ \E w \in AccountWorkers : AccountUpdate(w)
         \/ GetCleanedUpdates
         \/ UpdateCollectionReplica
         \/ \E u \in colWork.list : CountReplicas(u)
  BY DEF Next, Operations, CollectionReplicaUpdate

\* The worker of account usage touches nothing but usage and its updates.
LEMMA AccountUpdateFrame ==
  ASSUME NEW w \in AccountWorkers, AccountUpdate(w)
  PROVE  UNCHANGED <<ruleVars, colVars, strayed, ops>>
  BY DEF AccountUpdate, GetUpdated, ReadUsage, ReadRows, UpdateAccountCounter

\* The dataset and its rules keep their types: only rules that exist have locks.
LEMMA DatasetStep ==
  ASSUME DatasetTyped, [Next]_vars
  PROVE  DatasetTyped'
  <1> USE DEF DatasetTyped, Existing
  <1>1. CASE UNCHANGED vars
    BY <1>1 DEF vars, ruleVars
  <1>2. ASSUME NEW f \in Files, Attach(f) \/ Detach(f) PROVE DatasetTyped'
    BY <1>2 DEF Attach, Detach
  <1>3. ASSUME NEW r \in Rules, NEW a \in Accounts, CreateRule(r, a) PROVE DatasetTyped'
    <2>1. /\ account' = [account EXCEPT ![r] = a] /\ locks' = locks \cup ({r} \X content)
          /\ UNCHANGED <<content, pending, available>>
      BY <1>3 DEF CreateRule
    <2>2. account' \in [Rules -> Accounts \cup {NoAccount}] /\ Existing \cup {r} \subseteq Existing'
      BY <2>1, AbacusAssumption
    <2> QED
      BY <2>1, <2>2
  <1>4. ASSUME NEW r \in Rules, NEW a \in Accounts, ChangeAccount(r, a) PROVE DatasetTyped'
    <2>1. account' = [account EXCEPT ![r] = a] /\ UNCHANGED <<content, pending, available, locks>>
      BY <1>4 DEF ChangeAccount
    <2>2. account' \in [Rules -> Accounts \cup {NoAccount}] /\ Existing \subseteq Existing'
      BY <2>1, AbacusAssumption
    <2> QED
      BY <2>1, <2>2
  <1>5. ASSUME NEW r \in Rules, DeleteRule(r) PROVE DatasetTyped'
    <2>1. /\ account' = [account EXCEPT ![r] = NoAccount] /\ locks' = {l \in locks : l[1] # r}
          /\ UNCHANGED <<content, pending, available>>
      BY <1>5 DEF DeleteRule, LocksOf
    <2>2. account' \in [Rules -> Accounts \cup {NoAccount}] /\ Existing \ {r} \subseteq Existing'
      BY <2>1
    <2> QED
      BY <2>1, <2>2
  <1>6. ASSUME EvaluateAttach PROVE DatasetTyped'
    BY <1>6 DEF EvaluateAttach
  <1>7. ASSUME EvaluateDetach PROVE DatasetTyped'
    BY <1>7 DEF EvaluateDetach
  <1>8. ASSUME NEW f \in Files, NEW x \in Rses, TransferDone(f, x) \/ DeleteReplica(f, x)
        PROVE  DatasetTyped'
    <2>1. /\ available' \subseteq available \cup {<<f, x>>}
          /\ UNCHANGED <<content, pending, account, locks>>
      BY <1>8 DEF TransferDone, DeleteReplica
    <2> QED
      BY <2>1
  <1>9. ASSUME NEW w \in AccountWorkers, AccountUpdate(w) PROVE DatasetTyped'
    BY <1>9, AccountUpdateFrame DEF ruleVars
  <1>10. ASSUME GetCleanedUpdates \/ UpdateCollectionReplica \/ \E u \in colWork.list : CountReplicas(u)
         PROVE  DatasetTyped'
    BY <1>10 DEF GetCleanedUpdates, UpdateCollectionReplica, CountReplicas, ruleVars
  <1> QED
    BY <1>1, <1>2, <1>3, <1>4, <1>5, <1>6, <1>7, <1>8, <1>9, <1>10, NextCases

\* Every step keeps the collection replicas right or noticed.
LEMMA ColStep ==
  ASSUME DatasetTyped, ColInv, [Next]_vars
  PROVE  ColInv'
  <1>1. CASE UNCHANGED vars
    BY <1>1, OperationUnnoticed DEF vars, ruleVars, colVars
  <1>2. ASSUME NEW r \in Rules, NEW a \in Accounts, ChangeAccount(r, a)
        PROVE  ColInv'
    BY <1>2, OperationUnnoticed DEF ChangeAccount, colVars
  <1>3. ASSUME NEW w \in AccountWorkers, AccountUpdate(w)
        PROVE  ColInv'
    BY <1>3, AccountUpdateFrame, OperationUnnoticed DEF ruleVars, colVars
  <1>4. ASSUME UpdateCollectionReplica
        PROVE  ColInv'
    <2>1. colWork.row \in UpdateRows
      BY <1>4 DEF UpdateCollectionReplica, ColInv, ColTyped
    <2>2. CASE colWork.row[2] = AnyRse
      BY <1>4, <2>2, UpdateAllStep
    <2>3. CASE colWork.row[2] # AnyRse
      <3>1. colWork.row[2] \in Rses
        BY <2>1, <2>3 DEF UpdateRows
      <3> QED
        BY <3>1, <1>4, UpdateOneStep
    <2> QED
      BY <2>2, <2>3
  <1>5. ASSUME NEW r \in Rules, DeleteRule(r) PROVE ColInv'
    BY <1>5, OperationUnnoticed DEF DeleteRule, colVars
  <1> QED
    BY <1>1, <1>2, <1>3, <1>4, <1>5, NextCases, ContentStep, CreateRuleStep, EvaluateAttachStep,
       EvaluateDetachStep, TransferDoneStep, DeleteReplicaStep, GetCleanedUpdatesStep, CountReplicasStep

LEMMA ColInit == Init => DatasetTyped /\ ColInv
  <1> SUFFICES ASSUME Init PROVE DatasetTyped /\ ColInv
    OBVIOUS
  <1>1. DatasetTyped
    BY DEF Init, DatasetTyped, Existing
  <1>2. colWork.list = {} /\ colWork \in [at : {"stopped", "idle", "list"}, list : SUBSET UpdateRows]
    BY DEF Init
  <1>3. ColTyped
    BY <1>2, FS_EmptySet DEF Init, ColTyped, Cols, Unique
  <1>4. RowsRight /\ CountRight
    BY <1>2 DEF Init, RowsRight, CountRight
  <1> QED
    BY <1>1, <1>3, <1>4 DEF ColInv

\* No change is lost that comes while the worker of abacus-collection-replica
\* computes: once all updates are applied, every collection replica has the
\* length of its dataset and, where any file is available, the right number of
\* them and the state that follows (core/replica.py update_collection_replica).
THEOREM CollectionsAreExact == Spec => []CollectionExact
  <1>1. DatasetTyped /\ ColInv /\ [Next]_vars => (DatasetTyped /\ ColInv)'
    BY DatasetStep, ColStep
  <1> QED
    BY <1>1, ColInit, ColInvSuffices, PTL DEF Spec

-----------------------------------------------------------------------------
(***************************************************************************)
(* Account usage.  Keys are watched in sets: for the keys of such a set    *)
(* the usage and the updates add up to the locks.  Single keys are watched *)
(* as long as no detachment charged the wrong account, and all accounts of *)
(* an RSE together always; none of them once two workers shared a key.     *)
(***************************************************************************)
CountRows == Nat \X Accounts \X Rses \X Int
Reading == [at : {"rows", "usage"}, todo : SUBSET Keys, key : Keys, rows : SUBSET CountRows,
            value : Int \cup {NoUsage}]

KeyOf(u) == <<u[2], u[3]>>
RuleKey(acc, r) == <<acc[r], Target[r]>>
RowsIn(R, K) == {u \in R : KeyOf(u) \in K}
LocksIn(L, acc, K) == {l \in L : RuleKey(acc, l[1]) \in K}

Values == [k \in Keys |-> IF usage[k] = NoUsage THEN 0 ELSE usage[k]]

Balance(K) == SumOn(Values, K) + Total(RowsIn(counts, K)) = Cardinality(LocksIn(locks, account, K))

Watched == {K \in SUBSET Keys : /\ K \cap shared = {}
                                /\ K \cap strayed = {} \/ \E x \in Rses : K = Accounts \X {x}}

Balanced == \A K \in Watched : Balance(K)

\* The usage, its updates and the workers.
AccountTyped ==
  /\ usage \in [Keys -> Int \cup {NoUsage}]
  /\ counts \subseteq CountRows /\ IsFiniteSet(counts) /\ Unique(counts)
  /\ work \in [AccountWorkers -> [at : {"stopped", "idle"}] \cup [at : {"list"}, todo : SUBSET Keys] \cup Reading]
  /\ \A w \in AccountWorkers : work[w] \in Reading => IsFiniteSet(work[w].rows)
  /\ shared \subseteq Keys /\ strayed \subseteq Keys

\* What a worker has read is still so, unless it shares the key with another.
WorkRight ==
  \A w \in AccountWorkers : work[w] \in Reading =>
    /\ \A u \in work[w].rows : KeyOf(u) = work[w].key
    /\ work[w].key \notin shared =>
         /\ work[w].rows \subseteq counts
         /\ work[w].at = "usage" => work[w].value = usage[work[w].key]
         /\ \A v \in AccountWorkers \ {w} : ~Busy(v, work[w].key)

UsageInv == AccountTyped /\ WorkRight /\ Balanced

\* A worker is reading exactly when its transaction is open.
LEMMA ReadingAt ==
  ASSUME AccountTyped, NEW w \in AccountWorkers
  PROVE  work[w] \in Reading <=> work[w].at \in {"rows", "usage"}
  BY DEF AccountTyped, Reading

LEMMA KeysFinite == IsFiniteSet(Keys) /\ \A K \in SUBSET Keys : IsFiniteSet(K)
  BY AbacusAssumption, FS_Product, FS_Subset DEF Keys

LEMMA ValuesTyped == AccountTyped => \A k \in Keys : Values[k] \in Int
  BY DEF AccountTyped, Values

LEMMA LocksFinite ==
  ASSUME NEW L \in SUBSET (Rules \X Files)
  PROVE  IsFiniteSet(L) /\ \A S \in SUBSET L : IsFiniteSet(S) /\ Cardinality(S) \in Nat
  <1>1. IsFiniteSet(L)
    BY AbacusAssumption, FS_Product, FS_Subset
  <1> QED
    BY <1>1, FS_Subset, FS_CardinalityType

\* The ids in use are finitely many.
LEMMA UsedCountIdsFinite ==
  ASSUME AccountTyped
  PROVE  IsFiniteSet(UsedCountIds)
  <1> DEFINE busy == {v \in AccountWorkers : work[v].at \in {"rows", "usage"}}
             rows(w) == {u[1] : u \in work[w].rows}
             sets == {rows(w) : w \in busy}
  <1>1. \A S : IsFiniteSet(S) => IsFiniteSet({u[1] : u \in S})
    <2> TAKE S
    <2>1. [u \in S |-> u[1]] \in Surjection(S, {u[1] : u \in S})
      BY DEF Surjection
    <2> QED
      BY <2>1, FS_Surjection
  <1>2. IsFiniteSet(busy)
    BY AbacusAssumption, FS_Subset
  <1>3. IsFiniteSet(sets)
    <2>1. [w \in busy |-> rows(w)] \in Surjection(busy, sets)
      BY DEF Surjection
    <2> QED
      BY <1>2, <2>1, FS_Surjection
  <1>4. \A s \in sets : IsFiniteSet(s)
    <2> SUFFICES ASSUME NEW w \in busy PROVE IsFiniteSet(rows(w))
      OBVIOUS
    <2>1. IsFiniteSet(work[w].rows)
      BY ReadingAt DEF AccountTyped
    <2> QED
      BY <2>1, <1>1
  <1>5. IsFiniteSet(UNION sets)
    <2> HIDE DEF sets
    <2> QED
      BY <1>3, <1>4, FS_UNION
  <1>6. IsFiniteSet({u[1] : u \in counts})
    BY <1>1 DEF AccountTyped
  <1>7. IsFiniteSet({u[1] : u \in counts} \cup UNION sets)
    BY <1>5, <1>6, FS_Union
  <1> QED
    BY <1>7 DEF UsedCountIds

\* The rows that an operation asks for.
Asked(rows) ==
  /\ IsFiniteSet(rows)
  /\ \A x \in rows : x[2] \in Accounts /\ x[3] \in Rses /\ x[4] \in Int

\* New rows have ids of their own, and for every set of keys the amount that
\* was asked for.
LEMMA NewCountsAdd ==
  ASSUME AccountTyped, NEW rows, Asked(rows)
  PROVE  /\ NewCounts(rows) \subseteq CountRows /\ IsFiniteSet(NewCounts(rows))
         /\ NewCounts(rows) \cap counts = {} /\ Unique(counts \cup NewCounts(rows))
         /\ \A K : Total(RowsIn(NewCounts(rows), K)) = Total(RowsIn(rows, K))
  <1> DEFINE id == Numbered(rows, UsedCountIds)
             h == [x \in rows |-> <<id[x], x[2], x[3], x[4]>>]
             some == {y \in rows : y[4] # 0}
  <1>1. id \in [rows -> Nat \ UsedCountIds] /\ \A x, y \in rows : id[x] = id[y] => x = y
    BY NumberedFresh, UsedCountIdsFinite DEF Asked
  <1>2. NewCounts(rows) = {h[x] : x \in some}
    BY DEF NewCounts
  <1> HIDE DEF id
  <1>3. \A x \in rows : h[x] \in CountRows /\ h[x][1] = id[x] /\ KeyOf(h[x]) = KeyOf(x) /\ h[x][4] = x[4]
    BY <1>1 DEF CountRows, Asked, KeyOf
  <1>4. \A x, y \in rows : h[x] = h[y] => x = y
    BY <1>1, <1>3
  <1> HIDE DEF h
  <1>5. NewCounts(rows) \subseteq CountRows
    BY <1>2, <1>3
  <1>6. IsFiniteSet(NewCounts(rows))
    <2>1. IsFiniteSet(some)
      BY FS_Subset DEF Asked
    <2>2. [x \in some |-> h[x]] \in Surjection(some, {h[x] : x \in some})
      BY DEF Surjection
    <2>3. IsFiniteSet({h[x] : x \in some})
      BY <2>1, <2>2, FS_Surjection
    <2> QED
      BY <2>3, <1>2, Zenon
  <1>7. NewCounts(rows) \cap counts = {}
    <2>1. \A u \in counts : u[1] \in UsedCountIds
      BY DEF UsedCountIds
    <2>2. \A u \in NewCounts(rows) : u[1] \notin UsedCountIds
      BY <1>1, <1>2, <1>3
    <2> QED
      BY <2>1, <2>2
  <1>8. Unique(counts \cup NewCounts(rows))
    <2>1. \A u \in counts : u[1] \in UsedCountIds
      BY DEF UsedCountIds
    <2>2. \A u \in NewCounts(rows) : u[1] \notin UsedCountIds
      BY <1>1, <1>2, <1>3
    <2>3. Unique(NewCounts(rows))
      BY <1>1, <1>2, <1>3 DEF Unique
    <2> QED
      BY <2>1, <2>2, <2>3 DEF Unique, AccountTyped
  <1>9. ASSUME NEW K
        PROVE  Total(RowsIn(NewCounts(rows), K)) = Total(RowsIn(rows, K))
    <2> DEFINE S == RowsIn(rows, K)
               T == {u \in S : u[4] # 0}
               c == [x \in T |-> x[4]]
    <2>1. IsFiniteSet(S) /\ Numbers(S)
      BY FS_Subset DEF Asked, RowsIn, Numbers
    <2>2. IsFiniteSet(T) /\ T \subseteq rows
      BY <2>1, FS_Subset DEF RowsIn
    <2>3. RowsIn(NewCounts(rows), K) = {h[x] : x \in T}
      BY <1>2, <1>3 DEF RowsIn
    <2>4. \A x \in T : h[x][4] = c[x] /\ c[x] \in Int /\ c[x] = x[4]
      BY <1>3, <2>1, <2>2 DEF Numbers
    <2> HIDE DEF c
    <2>5. Total({h[x] : x \in T}) = SumOn(c, T)
      <3> HIDE DEF T
      <3>1. \A x, y \in T : h[x] = h[y] => x = y
        BY <1>4, <2>2
      <3> QED
        BY <2>2, <2>4, <3>1, TotalOfImage
    <2>6. Total(T) = SumOn(c, T)
      <3> HIDE DEF T
      <3> QED
        BY <2>2, <2>4, TotalIsSum
    <2>7. Total(T) = Total(S)
      BY <2>1, TotalDropsZeros
    <2>8. Total(RowsIn(NewCounts(rows), K)) = Total({h[x] : x \in T})
      BY <2>3, Zenon
    <2> QED
      BY <2>5, <2>6, <2>7, <2>8
  <1> QED
    BY <1>5, <1>6, <1>7, <1>8, <1>9

\* An operation whose rows amount to the change of the locks keeps the balance.
LEMMA OperationBalanced ==
  ASSUME DatasetTyped, UsageInv, UNCHANGED <<usage, work, shared>>,
         NEW rows, Asked(rows), counts' = counts \cup NewCounts(rows),
         strayed \subseteq strayed', strayed' \subseteq Keys,
         \A K \in Watched' : Cardinality(LocksIn(locks', account', K))
           = Cardinality(LocksIn(locks, account, K)) + Total(RowsIn(rows, K))
  PROVE  UsageInv'
  <1> DEFINE new == NewCounts(rows)
  <1>1. /\ AccountTyped /\ new \subseteq CountRows /\ IsFiniteSet(new) /\ new \cap counts = {}
        /\ Unique(counts \cup new)
        /\ \A K : Total(RowsIn(new, K)) = Total(RowsIn(rows, K))
    BY NewCountsAdd DEF UsageInv
  <1>2. counts' = counts \cup new
    OBVIOUS
  <1> HIDE DEF new
  <1>3. AccountTyped'
    <2>1. IsFiniteSet(counts \cup new)
      BY <1>1, FS_Union DEF AccountTyped
    <2>2. IsFiniteSet(counts')
      BY <1>2, <2>1, Zenon
    <2> QED
      BY <1>1, <1>2, <2>2 DEF AccountTyped
  <1>4. WorkRight'
    BY <1>2 DEF UsageInv, WorkRight, Busy
  <1>5. Balanced'
    <2> SUFFICES ASSUME NEW K \in Watched' PROVE Balance(K)'
      BY DEF Balanced
    <2>1. K \in Watched /\ K \in SUBSET Keys
      BY DEF Watched
    <2>2. SumOn(Values, K) + Total(RowsIn(counts, K)) = Cardinality(LocksIn(locks, account, K))
      BY <2>1 DEF UsageInv, Balanced, Balance
    <2>3. Values' = Values
      BY DEF Values
    <2> DEFINE R == RowsIn(counts, K)
               N == RowsIn(new, K)
    <2>4. /\ IsFiniteSet(R) /\ IsFiniteSet(N) /\ R \cap N = {} /\ Numbers(R \cup N) /\ Numbers(R) /\ Numbers(N)
          /\ RowsIn(counts', K) = R \cup N
      BY <1>1, <1>2, FS_Subset DEF RowsIn, Numbers, AccountTyped, CountRows
    <2> HIDE DEF R, N
    <2>5. Total(R \cup N) = Total(R) + Total(N) /\ Total(R) \in Int /\ Total(N) \in Int
      BY <2>4, TotalUnion, TotalTyped
    <2>6. Total(RowsIn(counts', K)) = Total(R \cup N)
      BY <2>4, Zenon
    <2>7. SumOn(Values, K) \in Int
      BY <1>1, <2>1, KeysFinite, ValuesTyped, SumTyped
    <2>8. Total(N) = Total(RowsIn(rows, K))
      BY <1>1 DEF N
    <2>9. Cardinality(LocksIn(locks', account', K)) = Cardinality(LocksIn(locks, account, K)) + Total(N)
      BY <2>8
    <2>10. SumOn(Values', K) = SumOn(Values, K)
      BY <2>3, Zenon
    <2>11. SumOn(Values', K) + Total(RowsIn(counts', K)) = Cardinality(LocksIn(locks', account', K))
      BY <2>2, <2>5, <2>6, <2>7, <2>9, <2>10 DEF R
    <2> QED
      BY <2>11 DEF Balance
  <1> QED
    BY <1>3, <1>4, <1>5 DEF UsageInv

\* Steps that leave the numbers alone.
LEMMA BalanceKept ==
  ASSUME Balanced, UNCHANGED <<account, locks, usage, counts, strayed>>, shared \subseteq shared'
  PROVE  Balanced'
  <1>1. Watched' \subseteq Watched /\ Values' = Values
    BY DEF Watched, Values
  <1> SUFFICES ASSUME NEW K \in Watched PROVE Balance(K)'
    BY <1>1 DEF Balanced
  <1>2. SumOn(Values', K) = SumOn(Values, K)
    BY <1>1, Zenon
  <1> QED
    BY <1>2 DEF Balanced, Balance

LEMMA UsageUnchanged ==
  ASSUME UsageInv, UNCHANGED <<account, locks, usage, counts, work, shared, strayed>>
  PROVE  UsageInv'
  <1>1. AccountTyped' /\ WorkRight'
    BY DEF UsageInv, AccountTyped, WorkRight, Busy
  <1> QED
    BY <1>1, BalanceKept DEF UsageInv

\* The cardinality of two sets that have nothing in common.
LEMMA DisjointCards ==
  ASSUME NEW S, IsFiniteSet(S), NEW T, IsFiniteSet(T), S \cap T = {}
  PROVE  Cardinality(S \cup T) = Cardinality(S) + Cardinality(T)
  <1>1. Cardinality(S \cup T) = Cardinality(S) + Cardinality(T) - Cardinality(S \cap T)
    BY FS_Union
  <1>2. Cardinality(S \cap T) = 0
    BY FS_EmptySet, Zenon
  <1> QED
    BY <1>1, <1>2, FS_CardinalityType

\* Pairs with one first element.
LEMMA PairsCard ==
  ASSUME NEW r, NEW S, IsFiniteSet(S)
  PROVE  IsFiniteSet({r} \X S) /\ Cardinality({r} \X S) = Cardinality(S)
  <1> DEFINE f == [x \in S |-> <<r, x>>]
  <1>1. f \in Bijection(S, {r} \X S)
    <2>1. f \in [S -> {r} \X S]
      OBVIOUS
    <2>2. \A x, y \in S : f[x] = f[y] => x = y
      OBVIOUS
    <2>3. \A t \in {r} \X S : t[2] \in S /\ f[t[2]] = t
      OBVIOUS
    <2> HIDE DEF f
    <2>4. f \in Injection(S, {r} \X S)
      BY <2>1, <2>2 DEF Injection, IsInjective
    <2>5. f \in Surjection(S, {r} \X S)
      BY <2>1, <2>3, Zenon DEF Surjection
    <2> QED
      BY <2>4, <2>5 DEF Bijection
  <1>2. ExistsBijection(S, {r} \X S)
    BY <1>1 DEF ExistsBijection
  <1> QED
    BY <1>2, FS_Bijection

\* The total of at most one row.
LEMMA TotalOfOne ==
  ASSUME NEW u, u[4] \in Int, NEW K
  PROVE  Total(RowsIn({u}, K)) = IF KeyOf(u) \in K THEN u[4] ELSE 0
  <1>1. CASE KeyOf(u) \in K
    <2>1. RowsIn({u}, K) = {u}
      BY <1>1 DEF RowsIn
    <2> DEFINE n == [v \in {u} |-> v[4]]
    <2>2. n[u] = u[4] /\ n[u] \in Int /\ IsFiniteSet({u})
      BY FS_Singleton
    <2>3. \A v \in {u} : n[v] = v[4]
      OBVIOUS
    <2> HIDE DEF n
    <2>4. Total({u}) = SumOn(n, {u}) /\ SumOn(n, {u}) = n[u]
      BY <2>2, <2>3, TotalIsSum, SumSingle
    <2>5. Total(RowsIn({u}, K)) = Total({u})
      BY <2>1, Zenon
    <2> QED
      BY <1>1, <2>2, <2>4, <2>5
  <1>2. CASE KeyOf(u) \notin K
    <2>1. RowsIn({u}, K) = {}
      BY <1>2 DEF RowsIn
    <2>2. Total(RowsIn({u}, K)) = Total({})
      BY <2>1, Zenon
    <2> QED
      BY <1>2, <2>2, TotalOfNone
  <1> QED
    BY <1>1, <1>2

\* The locks of one rule, and those of the others.
Part(acc, r, L, K) == IF RuleKey(acc, r) \in K THEN Cardinality({l \in L : l[1] = r}) ELSE 0

LEMMA LocksSplit ==
  ASSUME NEW L, IsFiniteSet(L), NEW acc, NEW r, NEW K
  PROVE  Cardinality(LocksIn(L, acc, K)) =
           Cardinality(LocksIn({l \in L : l[1] # r}, acc, K))
           + Part(acc, r, L, K)
  <1> DEFINE S == LocksIn({l \in L : l[1] # r}, acc, K)
             T == IF RuleKey(acc, r) \in K THEN {l \in L : l[1] = r} ELSE {}
  <1>1. LocksIn(L, acc, K) = S \cup T /\ S \cap T = {}
    BY DEF LocksIn
  <1>2. IsFiniteSet(S) /\ IsFiniteSet(T)
    BY FS_Subset, FS_EmptySet DEF LocksIn
  <1>3. Cardinality(T) = IF RuleKey(acc, r) \in K THEN Cardinality({l \in L : l[1] = r}) ELSE 0
    BY FS_EmptySet
  <1>4. Cardinality(LocksIn(L, acc, K)) = Cardinality(S) + Cardinality(T)
    <2> HIDE DEF S, T
    <2>1. Cardinality(S \cup T) = Cardinality(S) + Cardinality(T)
      BY <1>1, <1>2, DisjointCards
    <2> QED
      BY <1>1, <2>1, Zenon
  <1> HIDE DEF S, T
  <1> QED
    BY <1>3, <1>4 DEF Part, S

\* An operation on one rule: its row has what the key of the rule gets less
\* what it had.
LEMMA RuleChanges ==
  ASSUME DatasetTyped, DatasetTyped', NEW r \in Rules, \A q \in Rules \ {r} : account'[q] = account[q],
         {l \in locks' : l[1] # r} = {l \in locks : l[1] # r},
         UsageInv, UNCHANGED <<usage, work, shared, strayed>>,
         NEW rows, Asked(rows), counts' = counts \cup NewCounts(rows),
         \A K : Total(RowsIn(rows, K)) = Part(account', r, locks', K) - Part(account, r, locks, K)
  PROVE  UsageInv'
  <1>1. IsFiniteSet(locks) /\ \A S \in SUBSET locks : IsFiniteSet(S) /\ Cardinality(S) \in Nat
    <2>1. locks \in SUBSET (Rules \X Files)
      BY DEF DatasetTyped, Existing
    <2> QED
      BY <2>1, LocksFinite
  <1>2. IsFiniteSet(locks') /\ \A S \in SUBSET locks' : IsFiniteSet(S) /\ Cardinality(S) \in Nat
    <2>1. locks' \in SUBSET (Rules \X Files)
      BY DEF DatasetTyped, Existing
    <2> QED
      BY <2>1, LocksFinite
  <1>3. strayed' \subseteq Keys
    BY DEF UsageInv, AccountTyped
  <1>4. ASSUME NEW K
        PROVE  Cardinality(LocksIn(locks', account', K))
                 = Cardinality(LocksIn(locks, account, K)) + Total(RowsIn(rows, K))
    <2> DEFINE A == LocksIn({l \in locks : l[1] # r}, account, K)
               B == LocksIn({l \in locks' : l[1] # r}, account', K)
    <2>1. A = B
      BY DEF DatasetTyped, Existing, LocksIn, RuleKey
    <2>2. Cardinality(A) \in Nat
      <3>1. A \in SUBSET locks
        BY DEF LocksIn
      <3> QED
        BY <1>1, <3>1
    <2>3. Cardinality(LocksIn(locks, account, K)) = Cardinality(A) + Part(account, r, locks, K)
      BY <1>1, LocksSplit
    <2>4. Cardinality(LocksIn(locks', account', K)) = Cardinality(B) + Part(account', r, locks', K)
      BY <1>2, LocksSplit
    <2>5. Part(account, r, locks, K) \in Nat
      <3>1. {l \in locks : l[1] = r} \in SUBSET locks
        OBVIOUS
      <3> QED
        BY <1>1, <3>1 DEF Part
    <2>6. Part(account', r, locks', K) \in Nat
      <3>1. {l \in locks' : l[1] = r} \in SUBSET locks'
        OBVIOUS
      <3> QED
        BY <1>2, <3>1 DEF Part
    <2>7. Cardinality(A) = Cardinality(B)
      BY <2>1, Zenon
    <2> HIDE DEF A, B
    <2> QED
      BY <2>2, <2>3, <2>4, <2>5, <2>6, <2>7
  <1> QED
    BY <1>3, <1>4, OperationBalanced

LEMMA CreateRuleUsage ==
  ASSUME DatasetTyped, DatasetTyped', UsageInv, NEW r \in Rules, NEW a \in Accounts, CreateRule(r, a)
  PROVE  UsageInv'
  <1> DEFINE n == Cardinality(content)
             u == <<1, a, Target[r], n>>
             rows == {u}
  <1>1. /\ counts' = counts \cup NewCounts(rows)
        /\ r \notin Existing /\ account' = [account EXCEPT ![r] = a] /\ locks' = locks \cup ({r} \X content)
        /\ UNCHANGED <<usage, work, shared, strayed>>
    BY DEF CreateRule
  <1>2. IsFiniteSet(content) /\ n \in Nat
    BY AbacusAssumption, FS_Subset, FS_CardinalityType DEF DatasetTyped
  <1>3. Target[r] \in Rses
    BY AbacusAssumption
  <1> HIDE DEF n
  <1>4. u[2] = a /\ u[3] = Target[r] /\ u[4] = n /\ KeyOf(u) = <<a, Target[r]>> /\ u[4] \in Int
    BY <1>2 DEF KeyOf
  <1>5. Asked(rows)
    <2> HIDE DEF u
    <2> QED
      BY <1>2, <1>3, <1>4, FS_Singleton DEF Asked
  <1>6. {l \in locks : l[1] = r} = {} /\ {l \in locks' : l[1] = r} = {r} \X content
    BY <1>1 DEF DatasetTyped
  <1>7. {l \in locks' : l[1] # r} = {l \in locks : l[1] # r}
    BY <1>1
  <1>8. Cardinality({l \in locks : l[1] = r}) = 0 /\ Cardinality({l \in locks' : l[1] = r}) = n
    <2>1. Cardinality({l \in locks : l[1] = r}) = 0
      BY <1>6, FS_EmptySet, Zenon
    <2>2. Cardinality({r} \X content) = n
      BY <1>2, PairsCard DEF n
    <2>3. Cardinality({l \in locks' : l[1] = r}) = Cardinality({r} \X content)
      BY <1>6, Zenon
    <2> QED
      BY <2>1, <2>2, <2>3
  <1>9. RuleKey(account', r) = <<a, Target[r]>> /\ \A q \in Rules \ {r} : account'[q] = account[q]
    BY <1>1 DEF DatasetTyped, RuleKey
  <1>10. ASSUME NEW K
         PROVE  Total(RowsIn(rows, K)) = Part(account', r, locks', K) - Part(account, r, locks, K)
    <2>1. Total(RowsIn({u}, K)) = IF KeyOf(u) \in K THEN n ELSE 0
      BY <1>2, <1>4, TotalOfOne
    <2>2. Part(account, r, locks, K) = 0
      BY <1>8 DEF Part
    <2>3. Part(account', r, locks', K) = IF KeyOf(u) \in K THEN n ELSE 0
      BY <1>4, <1>8, <1>9 DEF Part
    <2> HIDE DEF u
    <2> QED
      BY <1>2, <2>1, <2>2, <2>3
  <1> HIDE DEF rows
  <1> QED
    BY <1>1, <1>5, <1>7, <1>9, <1>10, RuleChanges

LEMMA DeleteRuleUsage ==
  ASSUME DatasetTyped, DatasetTyped', UsageInv, NEW r \in Rules, DeleteRule(r)
  PROVE  UsageInv'
  <1> DEFINE n == Cardinality(LocksOf(r))
             u == <<1, account[r], Target[r], -n>>
             rows == {u}
  <1>1. /\ counts' = counts \cup NewCounts(rows)
        /\ r \in Existing /\ account' = [account EXCEPT ![r] = NoAccount] /\ locks' = locks \ LocksOf(r)
        /\ UNCHANGED <<usage, work, shared, strayed>>
    BY DEF DeleteRule
  <1>2. n \in Nat
    <2>1. LocksOf(r) \in SUBSET locks /\ locks \in SUBSET (Rules \X Files)
      BY DEF LocksOf, DatasetTyped, Existing
    <2> QED
      BY <2>1, LocksFinite
  <1>3. Target[r] \in Rses /\ account[r] \in Accounts
    BY <1>1, AbacusAssumption DEF Existing, DatasetTyped
  <1>4. n = Cardinality({l \in locks : l[1] = r})
    BY DEF LocksOf
  <1> HIDE DEF n
  <1>5. u[2] = account[r] /\ u[3] = Target[r] /\ u[4] = -n /\ KeyOf(u) = RuleKey(account, r) /\ u[4] \in Int
    BY <1>2 DEF KeyOf, RuleKey
  <1>6. Asked(rows)
    <2> HIDE DEF u
    <2> QED
      BY <1>3, <1>5, FS_Singleton DEF Asked
  <1>7. {l \in locks' : l[1] = r} = {} /\ {l \in locks' : l[1] # r} = {l \in locks : l[1] # r}
    BY <1>1 DEF LocksOf
  <1>8. Cardinality({l \in locks' : l[1] = r}) = 0
    BY <1>7, FS_EmptySet, Zenon
  <1>9. \A q \in Rules \ {r} : account'[q] = account[q]
    BY <1>1 DEF DatasetTyped
  <1>10. ASSUME NEW K
         PROVE  Total(RowsIn(rows, K)) = Part(account', r, locks', K) - Part(account, r, locks, K)
    <2>1. Total(RowsIn({u}, K)) = IF KeyOf(u) \in K THEN -n ELSE 0
      BY <1>5, TotalOfOne
    <2>2. Part(account', r, locks', K) = 0
      BY <1>8 DEF Part
    <2>3. Part(account, r, locks, K) = IF KeyOf(u) \in K THEN n ELSE 0
      BY <1>4, <1>5 DEF Part
    <2> HIDE DEF u
    <2> QED
      BY <1>2, <2>1, <2>2, <2>3
  <1> HIDE DEF rows
  <1> QED
    BY <1>1, <1>6, <1>7, <1>9, <1>10, RuleChanges

LEMMA ChangeAccountUsage ==
  ASSUME DatasetTyped, DatasetTyped', UsageInv, NEW r \in Rules, NEW a \in Accounts, ChangeAccount(r, a)
  PROVE  UsageInv'
  <1> DEFINE n == Cardinality(LocksOf(r))
             u == <<1, account[r], Target[r], -n>>
             v == <<2, a, Target[r], n>>
             rows == {u, v}
  <1>1. /\ counts' = counts \cup NewCounts(rows)
        /\ r \in Existing /\ account' = [account EXCEPT ![r] = a] /\ locks' = locks
        /\ UNCHANGED <<usage, work, shared, strayed>>
    BY DEF ChangeAccount
  <1>2. n \in Nat
    <2>1. LocksOf(r) \in SUBSET locks /\ locks \in SUBSET (Rules \X Files)
      BY DEF LocksOf, DatasetTyped, Existing
    <2> QED
      BY <2>1, LocksFinite
  <1>3. Target[r] \in Rses /\ account[r] \in Accounts
    BY <1>1, AbacusAssumption DEF Existing, DatasetTyped
  <1>4. n = Cardinality({l \in locks : l[1] = r}) /\ n = Cardinality({l \in locks' : l[1] = r})
    BY <1>1 DEF LocksOf
  <1> HIDE DEF n
  <1>5. /\ u[2] = account[r] /\ u[3] = Target[r] /\ u[4] = -n /\ KeyOf(u) = RuleKey(account, r) /\ u[4] \in Int
        /\ v[2] = a /\ v[3] = Target[r] /\ v[4] = n /\ v[4] \in Int /\ u # v
    BY <1>2 DEF KeyOf, RuleKey
  <1>6. KeyOf(v) = RuleKey(account', r) /\ \A q \in Rules \ {r} : account'[q] = account[q]
    BY <1>1 DEF DatasetTyped, RuleKey, KeyOf
  <1> HIDE DEF u, v
  <1>7. Asked(rows)
    <2>1. IsFiniteSet({u} \cup {v}) /\ rows = {u} \cup {v}
      BY FS_Singleton, FS_AddElement
    <2>2. IsFiniteSet(rows)
      BY <2>1, Zenon
    <2> QED
      BY <1>3, <1>5, <2>2 DEF Asked
  <1>8. ASSUME NEW K
        PROVE  Total(RowsIn(rows, K)) = Part(account', r, locks', K) - Part(account, r, locks, K)
    <2> DEFINE S == RowsIn({u}, K)
               T == RowsIn({v}, K)
    <2>1. RowsIn(rows, K) = S \cup T /\ S \cap T = {} /\ Numbers(S \cup T)
      BY <1>5 DEF RowsIn, Numbers
    <2>2. IsFiniteSet(S) /\ IsFiniteSet(T)
      BY FS_Singleton, FS_Subset DEF RowsIn
    <2>3. Total(S) = IF KeyOf(u) \in K THEN -n ELSE 0
      BY <1>5, TotalOfOne
    <2>4. Total(T) = IF KeyOf(v) \in K THEN n ELSE 0
      BY <1>5, TotalOfOne
    <2> HIDE DEF S, T
    <2>5. Total(S \cup T) = Total(S) + Total(T)
      BY <2>1, <2>2, TotalUnion
    <2>6. Total(RowsIn(rows, K)) = Total(S \cup T)
      BY <2>1, Zenon
    <2>7. Part(account', r, locks', K) = IF KeyOf(v) \in K THEN n ELSE 0
      BY <1>4, <1>6 DEF Part
    <2>8. Part(account, r, locks, K) = IF KeyOf(u) \in K THEN n ELSE 0
      BY <1>4, <1>5 DEF Part
    <2> QED
      BY <1>2, <2>3, <2>4, <2>5, <2>6, <2>7, <2>8
  <1>9. {l \in locks' : l[1] # r} = {l \in locks : l[1] # r}
    BY <1>1
  <1> HIDE DEF rows
  <1> QED
    BY <1>1, <1>6, <1>7, <1>8, <1>9, RuleChanges

\* The files that a rule has no lock on yet are charged rule by rule.
LEMMA EvaluateAttachUsage ==
  ASSUME DatasetTyped, UsageInv, EvaluateAttach
  PROVE  UsageInv'
  <1> DEFINE miss(r) == {f \in content : <<r, f>> \notin locks}
             h == [r \in Existing |-> <<r, account[r], Target[r], Cardinality(miss(r))>>]
             rows == {h[r] : r \in Existing}
             new == (Existing \X content) \ locks
  <1>1. /\ counts' = counts \cup NewCounts(rows) /\ locks' = locks \cup new
        /\ UNCHANGED <<account, usage, work, shared, strayed>>
    <2>1. rows = {<<r, account[r], Target[r], Cardinality({f \in content : <<r, f>> \notin locks})>> : r \in Existing}
      OBVIOUS
    <2>2. NewCounts(rows) = NewCounts({<<r, account[r], Target[r],
            Cardinality({f \in content : <<r, f>> \notin locks})>> : r \in Existing})
      BY <2>1, Zenon
    <2>3. locks' = locks \cup new
      BY DEF EvaluateAttach
    <2> HIDE DEF rows, new
    <2> QED
      BY <2>2, <2>3 DEF EvaluateAttach
  <1>2. IsFiniteSet(Existing) /\ Existing \subseteq Rules
    BY AbacusAssumption, FS_Subset DEF Existing
  <1>3. IsFiniteSet(content) /\ \A r : IsFiniteSet(miss(r)) /\ Cardinality(miss(r)) \in Nat
    BY AbacusAssumption, FS_Subset, FS_CardinalityType DEF DatasetTyped
  <1>4. \A r \in Existing : /\ h[r][1] = r /\ h[r][2] \in Accounts /\ h[r][3] \in Rses /\ h[r][4] \in Int
                            /\ KeyOf(h[r]) = RuleKey(account, r) /\ h[r][4] = Cardinality(miss(r))
    <2> SUFFICES ASSUME NEW r \in Existing
                 PROVE  /\ h[r][1] = r /\ h[r][2] \in Accounts /\ h[r][3] \in Rses /\ h[r][4] \in Int
                        /\ KeyOf(h[r]) = RuleKey(account, r) /\ h[r][4] = Cardinality(miss(r))
      OBVIOUS
    <2>1. account[r] \in Accounts /\ Target[r] \in Rses /\ Cardinality(miss(r)) \in Int
      <3>1. account[r] \in Accounts
        BY DEF DatasetTyped, Existing
      <3>2. Target[r] \in Rses
        BY <1>2, AbacusAssumption
      <3>3. Cardinality(miss(r)) \in Nat
        BY <1>3
      <3> QED
        BY <3>1, <3>2, <3>3
    <2>2. h[r] = <<r, account[r], Target[r], Cardinality(miss(r))>>
      OBVIOUS
    <2> HIDE DEF h, miss
    <2> QED
      BY <2>1, <2>2 DEF KeyOf, RuleKey
  <1> HIDE DEF h
  <1>5. Asked(rows)
    <2>1. [r \in Existing |-> h[r]] \in Surjection(Existing, rows)
      BY DEF Surjection
    <2>2. IsFiniteSet(rows)
      BY <1>2, <2>1, FS_Surjection
    <2> QED
      BY <2>2, <1>4 DEF Asked
  <1>6. IsFiniteSet(new) /\ IsFiniteSet(locks)
    <2>1. new \in SUBSET (Rules \X Files) /\ locks \in SUBSET (Rules \X Files)
      BY DEF DatasetTyped, Existing
    <2> QED
      BY <2>1, LocksFinite
  <1>7. ASSUME NEW K
        PROVE  Cardinality(LocksIn(locks', account', K))
                 = Cardinality(LocksIn(locks, account, K)) + Total(RowsIn(rows, K))
    <2> DEFINE R == {r \in Existing : RuleKey(account, r) \in K}
               L == LocksIn(new, account, K)
               O == LocksIn(locks, account, K)
               p == [l \in L |-> l[1]]
               c == [r \in R |-> Cardinality({l \in L : p[l] = r})]
    <2>1. LocksIn(locks', account', K) = O \cup L /\ O \cap L = {}
      BY <1>1 DEF LocksIn
    <2>2. IsFiniteSet(O) /\ IsFiniteSet(L)
      BY <1>6, FS_Subset DEF LocksIn
    <2>3. Cardinality(LocksIn(locks', account', K)) = Cardinality(O) + Cardinality(L)
      <3> HIDE DEF O, L
      <3>1. Cardinality(O \cup L) = Cardinality(O) + Cardinality(L)
        BY <2>1, <2>2, DisjointCards
      <3> QED
        BY <2>1, <3>1, Zenon
    <2>4. ASSUME NEW r \in R
          PROVE  Cardinality({l \in L : p[l] = r}) = Cardinality(miss(r))
      <3>1. {l \in L : p[l] = r} = {r} \X miss(r)
        BY DEF LocksIn
      <3>2. Cardinality({l \in L : p[l] = r}) = Cardinality({r} \X miss(r))
        BY <3>1, Zenon
      <3>3. Cardinality({r} \X miss(r)) = Cardinality(miss(r))
        BY <1>3, PairsCard
      <3> QED
        BY <3>2, <3>3
    <2>5. IsFiniteSet(R) /\ R \subseteq Existing
      BY <1>2, FS_Subset
    <2>6. \A l \in L : p[l] \in R
      BY DEF LocksIn
    <2>7. SumOn(c, R) = Cardinality(L)
      <3> HIDE DEF R, L, p
      <3> QED
        BY <2>2, <2>5, <2>6, PartsSum
    <2>8. RowsIn(rows, K) = {h[r] : r \in R}
      <3>1. \A r \in Existing : KeyOf(h[r]) \in K <=> r \in R
        BY <1>4
      <3> HIDE DEF R
      <3> QED
        BY <2>5, <3>1 DEF RowsIn
    <2>9. \A r \in R : h[r][4] = c[r] /\ c[r] \in Int
      BY <2>4, <2>5, <1>3, <1>4
    <2>10. Total({h[r] : r \in R}) = SumOn(c, R)
      <3>1. \A x, y \in R : h[x] = h[y] => x = y
        BY <1>4, <2>5
      <3> HIDE DEF R, c
      <3> QED
        BY <2>5, <2>9, <3>1, TotalOfImage
    <2>11. Total(RowsIn(rows, K)) = Total({h[r] : r \in R})
      BY <2>8, Zenon
    <2> HIDE DEF R, L, O, c, p
    <2>12. Cardinality(LocksIn(locks', account', K)) = Cardinality(O) + Total(RowsIn(rows, K))
      BY <2>3, <2>7, <2>10, <2>11
    <2> QED
      BY <2>12 DEF O
  <1>8. strayed \subseteq strayed' /\ strayed' \subseteq Keys
    BY <1>1 DEF UsageInv, AccountTyped
  <1> HIDE DEF rows, new
  <1> QED
    BY <1>1, <1>5, <1>7, <1>8, OperationBalanced

\* A detachment charges one account, and marks the keys for which that is
\* wrong; all accounts of an RSE together lose what they should.
LEMMA EvaluateDetachUsage ==
  ASSUME DatasetTyped, UsageInv, EvaluateDetach
  PROVE  UsageInv'
  <1> DEFINE gone == {l \in locks : l[2] \notin content}
  <1>1. locks' = locks \ gone /\ UNCHANGED <<account, usage, work, shared>>
    BY DEF EvaluateDetach
  <1>2. CASE gone = {}
    <2>1. UNCHANGED <<counts, strayed, locks>>
      BY <1>2 DEF EvaluateDetach
    <2> QED
      BY <1>1, <2>1, UsageUnchanged
  <1>3. CASE gone # {}
    <2> DEFINE wrong(p) == UNION {{<<account[l[1]], Target[l[1]]>>, <<account[p], Target[l[1]]>>} :
                                    l \in {m \in gone : account[m[1]] # account[p]}}
    <2>1. PICK last \in Existing : counts' = counts \cup Decreases(gone, last) /\ strayed' = strayed \cup wrong(last)
      BY <1>3 DEF EvaluateDetach
    <2> DEFINE a == account[last]
               on(x) == {l \in gone : Target[l[1]] = x}
               h == [x \in Rses |-> <<x, a, x, -Cardinality(on(x))>>]
               rows == {h[x] : x \in Rses}
    <2>2. a \in Accounts /\ gone \subseteq locks /\ locks \in SUBSET (Rules \X Files)
      BY DEF DatasetTyped, Existing
    <2>3. \A l \in gone : account[l[1]] \in Accounts /\ Target[l[1]] \in Rses
      BY AbacusAssumption DEF DatasetTyped, Existing
    <2>4. IsFiniteSet(locks) /\ IsFiniteSet(gone) /\ \A x : IsFiniteSet(on(x)) /\ Cardinality(on(x)) \in Nat
      <3>1. gone \in SUBSET locks /\ \A x : on(x) \in SUBSET locks
        OBVIOUS
      <3> QED
        BY <2>2, <3>1, LocksFinite
    <2>5. counts' = counts \cup NewCounts(rows)
      <3>1. rows = {<<x, account[last], x, -Cardinality({l \in gone : Target[l[1]] = x})>> : x \in Rses}
        OBVIOUS
      <3>2. NewCounts(rows) = NewCounts({<<x, account[last], x, -Cardinality({l \in gone : Target[l[1]] = x})>> : x \in Rses})
        BY <3>1, Zenon
      <3> HIDE DEF rows, gone
      <3> QED
        BY <2>1, <3>2 DEF Decreases
    <2>6. \A x \in Rses : /\ h[x][1] = x /\ h[x][2] \in Accounts /\ h[x][3] \in Rses /\ h[x][4] \in Int
                          /\ KeyOf(h[x]) = <<a, x>> /\ h[x][4] = -Cardinality(on(x))
      BY <2>2, <2>4 DEF KeyOf
    <2>7. strayed \subseteq strayed' /\ strayed' \subseteq Keys
      <3>1. wrong(last) \subseteq Keys
        <4> HIDE DEF gone
        <4> QED
          BY <2>2, <2>3 DEF Keys
      <3> QED
        BY <2>1, <3>1 DEF UsageInv, AccountTyped
    <2>8. ASSUME NEW K \in Watched', NEW l \in gone
          PROVE  RuleKey(account, l[1]) \in K <=> <<a, Target[l[1]]>> \in K
      <3>1. CASE account[l[1]] = a
        BY <3>1 DEF RuleKey
      <3>2. CASE account[l[1]] # a
        <4>1. RuleKey(account, l[1]) \in strayed' /\ <<a, Target[l[1]]>> \in strayed'
          <5>1. l \in {m \in gone : account[m[1]] # account[last]}
            BY <3>2
          <5>2. RuleKey(account, l[1]) \in wrong(last) /\ <<a, Target[l[1]]>> \in wrong(last)
            BY <5>1 DEF RuleKey
          <5> QED
            BY <2>1, <5>2
        <4>2. CASE K \cap strayed' = {}
          BY <4>1, <4>2
        <4>3. CASE \E x \in Rses : K = Accounts \X {x}
          BY <4>3, <2>2, <2>3 DEF RuleKey
        <4> QED
          BY <4>2, <4>3 DEF Watched
      <3> QED
        BY <3>1, <3>2
    <2> HIDE DEF h, a, gone
    <2>9. Asked(rows)
      <3>1. [x \in Rses |-> h[x]] \in Surjection(Rses, rows)
        BY DEF Surjection
      <3>2. IsFiniteSet(rows)
        BY AbacusAssumption, <3>1, FS_Surjection
      <3> QED
        BY <3>2, <2>6 DEF Asked
    <2>10. ASSUME NEW K \in Watched'
           PROVE  Cardinality(LocksIn(locks', account', K))
                    = Cardinality(LocksIn(locks, account, K)) + Total(RowsIn(rows, K))
      <3> DEFINE R == {x \in Rses : <<a, x>> \in K}
                 G == LocksIn(gone, account, K)
                 O == LocksIn(locks, account, K)
                 N == LocksIn(locks', account', K)
                 p == [l \in G |-> Target[l[1]]]
                 c == [x \in R |-> Cardinality({l \in G : p[l] = x})]
                 d == [x \in R |-> -Cardinality({l \in G : p[l] = x})]
      <3>1. O = N \cup G /\ N \cap G = {}
        BY <1>1, <2>2 DEF LocksIn
      <3>2. IsFiniteSet(N) /\ IsFiniteSet(G)
        BY <1>1, <2>4, FS_Subset DEF LocksIn
      <3>3. Cardinality(O) = Cardinality(N) + Cardinality(G) /\ Cardinality(N) \in Nat /\ Cardinality(G) \in Nat
        <4> HIDE DEF O, N, G
        <4>1. Cardinality(N \cup G) = Cardinality(N) + Cardinality(G)
          BY <3>1, <3>2, DisjointCards
        <4>2. Cardinality(O) = Cardinality(N \cup G)
          BY <3>1, Zenon
        <4> QED
          BY <3>2, <4>1, <4>2, FS_CardinalityType
      <3>4. IsFiniteSet(R) /\ R \subseteq Rses
        BY AbacusAssumption, FS_Subset
      <3>5. \A l \in G : p[l] \in R
        BY <2>3, <2>8 DEF LocksIn
      <3>6. ASSUME NEW x \in R
            PROVE  Cardinality({l \in G : p[l] = x}) = Cardinality(on(x))
        <4>1. {l \in G : p[l] = x} = on(x)
          BY <2>8 DEF LocksIn
        <4> QED
          BY <4>1, Zenon
      <3>7. SumOn(c, R) = Cardinality(G)
        <4> HIDE DEF R, G, p
        <4> QED
          BY <3>2, <3>4, <3>5, PartsSum
      <3>8. \A x \in R : c[x] \in Int /\ d[x] = -c[x] /\ d[x] \in Int /\ h[x][4] = d[x]
        <4> SUFFICES ASSUME NEW x \in R
                     PROVE  c[x] \in Int /\ d[x] = -c[x] /\ d[x] \in Int /\ h[x][4] = d[x]
          OBVIOUS
        <4>1. c[x] = Cardinality(on(x)) /\ d[x] = -Cardinality(on(x))
          BY <3>6
        <4>2. Cardinality(on(x)) \in Nat /\ h[x][4] = -Cardinality(on(x))
          BY <2>4, <2>6, <3>4
        <4> HIDE DEF c, d
        <4> QED
          BY <4>1, <4>2
      <3>9. RowsIn(rows, K) = {h[x] : x \in R}
        <4>1. \A x \in Rses : KeyOf(h[x]) \in K <=> x \in R
          BY <2>6
        <4> HIDE DEF R
        <4> QED
          BY <3>4, <4>1 DEF RowsIn
      <3>10. Total({h[x] : x \in R}) = SumOn(d, R) /\ SumOn(d, R) = -SumOn(c, R)
        <4>1. \A x, y \in R : h[x] = h[y] => x = y
          BY <2>6, <3>4
        <4> HIDE DEF R, c, d
        <4> QED
          BY <3>4, <3>8, <4>1, TotalOfImage, SumNegates
      <3>11. Total(RowsIn(rows, K)) = Total({h[x] : x \in R})
        BY <3>9, Zenon
      <3> HIDE DEF R, G, O, N, p, c, d
      <3>12. Cardinality(N) = Cardinality(O) + Total(RowsIn(rows, K))
        BY <3>3, <3>7, <3>10, <3>11
      <3> QED
        BY <3>12 DEF N, O
    <2> HIDE DEF rows
    <2> QED
      BY <1>1, <2>5, <2>7, <2>9, <2>10, OperationBalanced
  <1> QED
    BY <1>2, <1>3

LEMMA GetUpdatedUsage ==
  ASSUME UsageInv, NEW w \in AccountWorkers, GetUpdated(w)
  PROVE  UsageInv'
  <1>1. PICK share \in SUBSET UpdatedKeys : work' = [work EXCEPT ![w] = [at |-> "list", todo |-> share]]
    BY DEF GetUpdated
  <1>2. UNCHANGED <<account, locks, usage, counts, shared, strayed>> /\ share \in SUBSET Keys
    BY DEF GetUpdated, ruleVars, UpdatedKeys
  <1>3. work'[w] = [at |-> "list", todo |-> share] /\ \A v \in AccountWorkers \ {w} : work'[v] = work[v]
    BY <1>1 DEF UsageInv, AccountTyped
  <1>4. [at |-> "list", todo |-> share] \in [at : {"list"}, todo : SUBSET Keys] /\ work'[w] \notin Reading
    BY <1>2, <1>3 DEF Reading
  <1>5. AccountTyped'
    BY <1>1, <1>2, <1>3, <1>4 DEF UsageInv, AccountTyped
  <1>6. \A v \in AccountWorkers : \A k : Busy(v, k)' => Busy(v, k)
    BY <1>3 DEF Busy
  <1>7. WorkRight'
    BY <1>2, <1>3, <1>4, <1>6 DEF UsageInv, WorkRight
  <1> QED
    BY <1>2, <1>5, <1>7, BalanceKept DEF UsageInv

\* A key that another worker is busy with is shared from now on.
LEMMA ReadRowsUsage ==
  ASSUME UsageInv, NEW w \in AccountWorkers, NEW k \in Keys, ReadRows(w, k)
  PROVE  UsageInv'
  <1> DEFINE new == [at |-> "rows", todo |-> work[w].todo \ {k}, key |-> k, rows |-> RowsOf(k), value |-> NoUsage]
  <1>1. /\ work[w].at = "list" /\ UNCHANGED <<account, locks, usage, counts, strayed>>
        /\ work' = [work EXCEPT ![w] = new]
        /\ shared' = IF \E v \in AccountWorkers : Busy(v, k) THEN shared \cup {k} ELSE shared
    BY DEF ReadRows, ruleVars
  <1>2. work[w].todo \in SUBSET Keys
    BY <1>1 DEF UsageInv, AccountTyped, Reading
  <1>3. RowsOf(k) \subseteq counts /\ \A u \in RowsOf(k) : KeyOf(u) = k
    BY DEF RowsOf, KeyOf
  <1>4. IsFiniteSet(RowsOf(k)) /\ RowsOf(k) \in SUBSET CountRows
    BY <1>3, FS_Subset DEF UsageInv, AccountTyped
  <1>5. new \in Reading /\ new.at = "rows" /\ new.key = k /\ new.rows = RowsOf(k)
    BY <1>2, <1>4 DEF Reading
  <1>6. work \in [AccountWorkers -> [at : {"stopped", "idle"}] \cup [at : {"list"}, todo : SUBSET Keys] \cup Reading]
    BY DEF UsageInv, AccountTyped
  <1> HIDE DEF new
  <1>7. work'[w] = new /\ \A v \in AccountWorkers \ {w} : work'[v] = work[v]
    BY <1>1, <1>6
  <1>8. shared \subseteq shared' /\ shared' \subseteq Keys
    BY <1>1 DEF UsageInv, AccountTyped
  <1>9. AccountTyped'
    <2>1. work' \in [AccountWorkers -> [at : {"stopped", "idle"}] \cup [at : {"list"}, todo : SUBSET Keys] \cup Reading]
      BY <1>1, <1>5, <1>6
    <2>2. \A v \in AccountWorkers : work'[v] \in Reading => IsFiniteSet(work'[v].rows)
      BY <1>4, <1>5, <1>7 DEF UsageInv, AccountTyped
    <2> QED
      BY <1>1, <1>8, <2>1, <2>2 DEF UsageInv, AccountTyped
  <1>10. /\ \A v \in AccountWorkers \ {w} : \A j : Busy(v, j)' <=> Busy(v, j)
         /\ \A j : Busy(w, j)' <=> j = k
    BY <1>5, <1>7 DEF Busy
  <1>11. WorkRight'
    <2> SUFFICES ASSUME NEW v \in AccountWorkers, work'[v] \in Reading
                 PROVE  /\ \A u \in work'[v].rows : KeyOf(u) = work'[v].key
                        /\ work'[v].key \notin shared' =>
                             /\ work'[v].rows \subseteq counts'
                             /\ work'[v].at = "usage" => work'[v].value = usage'[work'[v].key]
                             /\ \A z \in AccountWorkers \ {v} : ~Busy(z, work[v].key)'
      BY DEF WorkRight
    <2>1. CASE v = w
      <3>1. k \notin shared' => \A z \in AccountWorkers : ~Busy(z, k)
        BY <1>1
      <3>2. work'[v].key = k /\ work'[v].rows = RowsOf(k) /\ work'[v].at = "rows"
        BY <1>5, <1>7, <2>1
      <3>3. k \notin shared' => \A z \in AccountWorkers \ {v} : ~Busy(z, work[v].key)'
        BY <2>1, <3>1, <3>2, <1>10 DEF Busy
      <3> QED
        BY <3>2, <3>3, <1>1, <1>3
    <2>2. CASE v # w
      <3>1. work'[v] = work[v]
        BY <1>7, <2>2
      <3>2. work[v].key = k => k \in shared'
        <4>1. Busy(v, work[v].key)
          BY <3>1, ReadingAt DEF Busy, UsageInv
        <4> QED
          BY <1>1, <4>1
      <3>3. work[v].key \notin shared' => work[v].key \notin shared /\ work[v].key # k
        BY <1>8, <3>2
      <3>4. work[v].key \notin shared' => \A z \in AccountWorkers \ {v} : ~Busy(z, work[v].key)'
        BY <3>1, <3>3, <1>10 DEF UsageInv, WorkRight, Busy
      <3> QED
        BY <3>1, <3>3, <3>4, <1>1 DEF UsageInv, WorkRight
    <2> QED
      BY <2>1, <2>2
  <1> QED
    BY <1>1, <1>8, <1>9, <1>11, BalanceKept DEF UsageInv

LEMMA ReadUsageUsage ==
  ASSUME UsageInv, NEW w \in AccountWorkers, ReadUsage(w)
  PROVE  UsageInv'
  <1> DEFINE new == [work[w] EXCEPT !.at = "usage", !.value = usage[work[w].key]]
  <1>1. work[w].at = "rows" /\ UNCHANGED <<account, locks, usage, counts, shared, strayed>>
    BY DEF ReadUsage, ruleVars
  <1>2. work \in [AccountWorkers -> [at : {"stopped", "idle"}] \cup [at : {"list"}, todo : SUBSET Keys] \cup Reading]
    BY DEF UsageInv, AccountTyped
  <1>3. work[w] \in Reading /\ usage[work[w].key] \in Int \cup {NoUsage}
    BY <1>1, ReadingAt DEF UsageInv, AccountTyped, Reading
  <1>4. work' = [work EXCEPT ![w] = new]
    BY <1>2 DEF ReadUsage
  <1>5. /\ new \in Reading /\ new.at = "usage" /\ new.key = work[w].key /\ new.rows = work[w].rows
        /\ new.value = usage[work[w].key]
    BY <1>3 DEF Reading
  <1> HIDE DEF new
  <1>6. work'[w] = new /\ \A v \in AccountWorkers \ {w} : work'[v] = work[v]
    BY <1>2, <1>4
  <1>7. AccountTyped'
    <2>1. work' \in [AccountWorkers -> [at : {"stopped", "idle"}] \cup [at : {"list"}, todo : SUBSET Keys] \cup Reading]
      BY <1>2, <1>4, <1>5
    <2>2. \A v \in AccountWorkers : work'[v] \in Reading => IsFiniteSet(work'[v].rows)
      BY <1>3, <1>5, <1>6 DEF UsageInv, AccountTyped
    <2> QED
      BY <1>1, <2>1, <2>2 DEF UsageInv, AccountTyped
  <1>8. \A v \in AccountWorkers : \A j : Busy(v, j)' <=> Busy(v, j)
    BY <1>1, <1>5, <1>6 DEF Busy
  <1>9. WorkRight'
    <2> SUFFICES ASSUME NEW v \in AccountWorkers, work'[v] \in Reading
                 PROVE  /\ \A u \in work'[v].rows : KeyOf(u) = work'[v].key
                        /\ work'[v].key \notin shared =>
                             /\ work'[v].rows \subseteq counts
                             /\ work'[v].at = "usage" => work'[v].value = usage[work'[v].key]
                             /\ \A z \in AccountWorkers \ {v} : ~Busy(z, work[v].key)'
      BY <1>1 DEF WorkRight
    <2>1. work'[v].key = work[v].key /\ work'[v].rows = work[v].rows /\ work[v] \in Reading
      BY <1>3, <1>5, <1>6
    <2>2. work'[v].at = "usage" => work'[v].value = usage[work'[v].key] \/ (work'[v] = work[v])
      BY <1>5, <1>6
    <2>3. \A z \in AccountWorkers : Busy(z, work[v].key)' <=> Busy(z, work[v].key)
      BY <1>8, <2>1 DEF Busy
    <2> QED
      BY <2>1, <2>2, <2>3 DEF UsageInv, WorkRight
  <1> QED
    BY <1>1, <1>7, <1>9, BalanceKept DEF UsageInv

\* The new value of the counter takes what its rows lose.
LEMMA UpdateAccountCounterUsage ==
  ASSUME UsageInv, NEW w \in AccountWorkers, UpdateAccountCounter(w)
  PROVE  UsageInv'
  <1> DEFINE k == work[w].key
             old == work[w].value
             rows == work[w].rows
             n == (IF old = NoUsage THEN 0 ELSE old) + Total(rows)
  <1>1. work[w].at = "usage" /\ UNCHANGED <<account, locks, shared, strayed>>
    BY DEF UpdateAccountCounter, ruleVars
  <1>2. work \in [AccountWorkers -> [at : {"stopped", "idle"}] \cup [at : {"list"}, todo : SUBSET Keys] \cup Reading]
    BY DEF UsageInv, AccountTyped
  <1>3. work[w] \in Reading
    BY <1>1, ReadingAt DEF UsageInv
  <1>4. k \in Keys /\ old \in Int \cup {NoUsage} /\ rows \in SUBSET CountRows /\ work[w].todo \in SUBSET Keys
    BY <1>3 DEF Reading
  <1>5. /\ IsFiniteSet(rows) /\ Numbers(rows) /\ \A u \in rows : KeyOf(u) = k
        /\ k \notin shared => /\ rows \subseteq counts /\ old = usage[k]
                              /\ \A v \in AccountWorkers \ {w} : ~Busy(v, k)
    BY <1>1, <1>3, <1>4 DEF UsageInv, AccountTyped, WorkRight, Numbers, CountRows
  <1>6. PICK new : /\ work' = [work EXCEPT ![w] = new]
                   /\ new \in [at : {"stopped", "idle"}] \cup [at : {"list"}, todo : SUBSET Keys]
                   /\ new \notin Reading /\ new.at \notin {"rows", "usage"}
    <2>1. /\ Idle \in [at : {"stopped", "idle"}] /\ Idle \notin Reading /\ Idle.at \notin {"rows", "usage"}
      BY DEF Idle, Reading
    <2>2. /\ Rest(work[w].todo) \in [at : {"stopped", "idle"}] \cup [at : {"list"}, todo : SUBSET Keys]
          /\ Rest(work[w].todo) \notin Reading /\ Rest(work[w].todo).at \notin {"rows", "usage"}
      BY <1>4, <2>1 DEF Rest, Reading
    <2>3. work' = [work EXCEPT ![w] = Idle] \/ work' = [work EXCEPT ![w] = Rest(work[w].todo)]
      BY <1>2 DEF UpdateAccountCounter
    <2> QED
      BY <2>1, <2>2, <2>3
  <1>7. work'[w] = new /\ \A v \in AccountWorkers \ {w} : work'[v] = work[v]
    BY <1>2, <1>6
  <1>8. /\ work' \in [AccountWorkers -> [at : {"stopped", "idle"}] \cup [at : {"list"}, todo : SUBSET Keys] \cup Reading]
        /\ \A v \in AccountWorkers : work'[v] \in Reading => v # w /\ work'[v] = work[v]
        /\ \A v \in AccountWorkers : \A j : Busy(v, j)' => Busy(v, j)
    <2>1. work' \in [AccountWorkers -> [at : {"stopped", "idle"}] \cup [at : {"list"}, todo : SUBSET Keys] \cup Reading]
      BY <1>2, <1>6
    <2>2. \A v \in AccountWorkers : \A j : Busy(v, j)' => Busy(v, j)
      BY <1>6, <1>7 DEF Busy
    <2>3. \A v \in AccountWorkers : work'[v] \in Reading => v # w /\ work'[v] = work[v]
      BY <1>6, <1>7
    <2> QED
      BY <2>1, <2>2, <2>3
  <1>9. CASE UNCHANGED <<usage, counts>>
    <2>1. AccountTyped'
      BY <1>1, <1>8, <1>9 DEF UsageInv, AccountTyped
    <2>2. WorkRight'
      BY <1>1, <1>8, <1>9 DEF UsageInv, WorkRight
    <2> QED
      BY <1>1, <1>9, <2>1, <2>2, BalanceKept DEF UsageInv
  <1>10. CASE usage' = [usage EXCEPT ![k] = n] /\ counts' = counts \ rows
    <2> HIDE DEF k, old, rows, n
    <2>1. Total(rows) \in Int /\ n \in Int
      BY <1>4, <1>5, TotalTyped DEF n
    <2>2. usage \in [Keys -> Int \cup {NoUsage}] /\ counts \subseteq CountRows /\ IsFiniteSet(counts)
      BY DEF UsageInv, AccountTyped
    <2>3. /\ usage' \in [Keys -> Int \cup {NoUsage}] /\ usage'[k] = n
          /\ \A j \in Keys \ {k} : usage'[j] = usage[j]
      BY <1>4, <1>10, <2>1, <2>2
    <2>4. AccountTyped'
      <3>1. counts' \subseteq CountRows /\ IsFiniteSet(counts') /\ Unique(counts')
        BY <1>10, <2>2, FS_Subset DEF UsageInv, AccountTyped, Unique
      <3> QED
        BY <1>1, <1>8, <2>3, <3>1 DEF UsageInv, AccountTyped
    <2>5. WorkRight'
      <3> SUFFICES ASSUME NEW v \in AccountWorkers, work'[v] \in Reading
                   PROVE  /\ \A u \in work'[v].rows : KeyOf(u) = work'[v].key
                          /\ work'[v].key \notin shared =>
                               /\ work'[v].rows \subseteq counts'
                               /\ work'[v].at = "usage" => work'[v].value = usage'[work'[v].key]
                               /\ \A z \in AccountWorkers \ {v} : ~Busy(z, work[v].key)'
        BY <1>1 DEF WorkRight
      <3>1. v # w /\ work'[v] = work[v] /\ work[v] \in Reading
        BY <1>8
      <3>2. work[v].key \in Keys /\ \A u \in work[v].rows : KeyOf(u) = work[v].key
        BY <3>1 DEF UsageInv, WorkRight, Reading
      <3>3. ASSUME work[v].key \notin shared
            PROVE  /\ work[v].rows \subseteq counts'
                   /\ work[v].at = "usage" => work[v].value = usage'[work[v].key]
                   /\ \A z \in AccountWorkers \ {v} : ~Busy(z, work[v].key)'
        <4>1. /\ work[v].rows \subseteq counts
              /\ work[v].at = "usage" => work[v].value = usage[work[v].key]
              /\ \A z \in AccountWorkers \ {v} : ~Busy(z, work[v].key)
          BY <3>1, <3>3 DEF UsageInv, WorkRight
        <4>2. work[v].key # k
          BY <1>1, <3>1, <4>1 DEF Busy, k
        <4>3. work[v].rows \cap rows = {}
          BY <1>5, <3>2, <4>2
        <4>4. \A z \in AccountWorkers \ {v} : ~Busy(z, work[v].key)'
          BY <1>8, <3>1, <4>1 DEF Busy
        <4> QED
          BY <1>10, <2>3, <3>2, <4>1, <4>2, <4>3, <4>4
      <3> QED
        BY <3>1, <3>2, <3>3
    <2>6. Balanced'
      <3> SUFFICES ASSUME NEW K \in Watched PROVE Balance(K)'
        BY <1>1 DEF Balanced, Watched
      <3>1. K \in SUBSET Keys /\ IsFiniteSet(K) /\ K \cap shared = {}
        BY KeysFinite DEF Watched
      <3>2. SumOn(Values, K) + Total(RowsIn(counts, K)) = Cardinality(LocksIn(locks, account, K))
        BY DEF UsageInv, Balanced, Balance
      <3>3. \A j \in Keys : Values[j] \in Int /\ Values'[j] \in Int
        BY <2>2, <2>3 DEF Values
      <3>4. \A j \in Keys \ {k} : Values'[j] = Values[j]
        BY <2>3 DEF Values
      <3> DEFINE R == RowsIn(counts, K)
                 N == RowsIn(counts', K)
      <3>5. CASE k \in K
        <4>1. k \notin shared /\ rows \subseteq counts /\ old = usage[k]
          BY <1>5, <3>1, <3>5
        <4>2. Values[k] = (IF old = NoUsage THEN 0 ELSE old) /\ Values'[k] = n
          BY <1>4, <2>1, <2>3, <4>1, AbacusAssumption DEF Values
        <4>3. Values'[k] - Values[k] = Total(rows)
          BY <2>1, <4>2, <3>3, <1>4 DEF n
        <4>4. SumOn(Values', K) = SumOn(Values, K) + (Values'[k] - Values[k])
          <5> DEFINE g == Values
                     f == Values'
          <5>1. (\A j \in K : g[j] \in Int /\ f[j] \in Int) /\ \A j \in K \ {k} : g[j] = f[j]
            BY <3>1, <3>3, <3>4
          <5> HIDE DEF g, f
          <5>2. SumOn(f, K) = SumOn(g, K) + (f[k] - g[k])
            BY <3>1, <3>5, <5>1, SumChanges
          <5> QED
            BY <5>2 DEF g, f
        <4>5. R = N \cup rows /\ N \cap rows = {} /\ Numbers(N \cup rows) /\ IsFiniteSet(N) /\ Numbers(N)
          <5>1. R = N \cup rows /\ N \cap rows = {}
            BY <1>5, <1>10, <3>5, <4>1 DEF RowsIn
          <5>2. \A u \in counts : u[4] \in Int
            BY <2>2 DEF CountRows
          <5>3. N \subseteq counts
            BY <1>10 DEF RowsIn
          <5>4. IsFiniteSet(N)
            BY <2>2, <5>3, FS_Subset
          <5> QED
            BY <4>1, <5>1, <5>2, <5>3, <5>4 DEF Numbers
        <4> HIDE DEF R, N
        <4>6. Total(N \cup rows) = Total(N) + Total(rows) /\ Total(N) \in Int
          BY <1>5, <4>5, TotalUnion, TotalTyped
        <4>7. Total(R) = Total(N \cup rows)
          BY <4>5, Zenon
        <4>8. SumOn(Values, K) \in Int
          BY <3>1, <3>3, SumTyped
        <4>9. SumOn(Values', K) + Total(N) = SumOn(Values, K) + Total(R)
          BY <2>1, <4>3, <4>4, <4>6, <4>7, <4>8
        <4> QED
          BY <3>2, <4>9, <1>1 DEF Balance, R, N
      <3>6. CASE k \notin K
        <4>1. SumOn(Values, K) = SumOn(Values', K)
          <5> DEFINE g == Values
                     f == Values'
          <5>1. \A j \in K : g[j] = f[j]
            BY <3>1, <3>4, <3>6
          <5> HIDE DEF g, f
          <5>2. SumOn(g, K) = SumOn(f, K)
            BY <3>1, <5>1, SumAgrees
          <5> QED
            BY <5>2 DEF g, f
        <4>2. N = R
          BY <1>5, <1>10, <3>6 DEF RowsIn
        <4>3. Total(N) = Total(R)
          BY <4>2, Zenon
        <4> HIDE DEF R, N
        <4> QED
          BY <3>2, <4>1, <4>3, <1>1 DEF Balance, R, N
      <3> QED
        BY <3>5, <3>6
    <2> QED
      BY <2>4, <2>5, <2>6 DEF UsageInv
  <1> QED
    BY <1>9, <1>10 DEF UpdateAccountCounter, Consumed

\* Every step keeps what is watched in balance.
LEMMA UsageStep ==
  ASSUME DatasetTyped, UsageInv, [Next]_vars
  PROVE  UsageInv'
  <1>0. DatasetTyped'
    BY DatasetStep
  <1>1. CASE UNCHANGED vars
    BY <1>1, UsageUnchanged DEF vars, ruleVars, countVars
  <1>2. ASSUME NEW f \in Files, Attach(f) \/ Detach(f) PROVE UsageInv'
    BY <1>2, UsageUnchanged DEF Attach, Detach, countVars
  <1>3. ASSUME NEW f \in Files, NEW x \in Rses, TransferDone(f, x) \/ DeleteReplica(f, x) PROVE UsageInv'
    BY <1>3, UsageUnchanged DEF TransferDone, DeleteReplica, countVars
  <1>4. ASSUME GetCleanedUpdates \/ UpdateCollectionReplica \/ \E u \in colWork.list : CountReplicas(u)
        PROVE  UsageInv'
    BY <1>4, UsageUnchanged DEF GetCleanedUpdates, UpdateCollectionReplica, CountReplicas, ruleVars, countVars
  <1>5. ASSUME NEW w \in AccountWorkers, AccountUpdate(w) PROVE UsageInv'
    BY <1>5, GetUpdatedUsage, ReadRowsUsage, ReadUsageUsage, UpdateAccountCounterUsage DEF AccountUpdate
  <1> QED
    BY <1>0, <1>1, <1>2, <1>3, <1>4, <1>5, NextCases, CreateRuleUsage, ChangeAccountUsage, DeleteRuleUsage,
       EvaluateAttachUsage, EvaluateDetachUsage

LEMMA UsageInit == Init => UsageInv
  <1> SUFFICES ASSUME Init PROVE UsageInv
    OBVIOUS
  <1>1. AccountTyped
    BY FS_EmptySet DEF Init, AccountTyped, Unique, Reading, Idle, Stopped
  <1>2. WorkRight
    BY DEF Init, WorkRight, Reading, Idle, Stopped
  <1>3. Balanced
    <2> SUFFICES ASSUME NEW K \in SUBSET Keys PROVE Balance(K)
      BY DEF Balanced, Watched
    <2>1. IsFiniteSet(K) /\ \A j \in K : Values[j] = 0
      BY KeysFinite DEF Init, Values
    <2>2. SumOn(Values, K) = 0
      BY <2>1, SumZero
    <2>3. RowsIn(counts, K) = {} /\ LocksIn(locks, account, K) = {}
      BY DEF Init, RowsIn, LocksIn
    <2>4. Total(RowsIn(counts, K)) = Total({}) /\ Cardinality(LocksIn(locks, account, K)) = Cardinality({})
      BY <2>3, Zenon
    <2> QED
      BY <2>2, <2>4, TotalOfNone, FS_EmptySet DEF Balance
  <1> QED
    BY <1>1, <1>2, <1>3 DEF UsageInv

\* The usage of some keys, taken one by one.
LEMMA UsedSum ==
  ASSUME AccountTyped, NEW K \in SUBSET Keys, NEW g, \A k \in K : g[k] = Used(k)
  PROVE  SumOn(g, K) = SumOn(Values, K) + Total(RowsIn(counts, K))
  <1> DEFINE B == {s \in SUBSET K : SumOn(g, s) # SumOn(Values, s) + Total(RowsIn(counts, s))}
  <1> SUFFICES ASSUME B # {} PROVE FALSE
    OBVIOUS
  <1>0. IsFiniteSet(K) /\ \A k \in K : Values[k] \in Int
    BY KeysFinite, ValuesTyped
  <1>1. PICK s \in B : \A t \in SUBSET s : t # s => t \notin B
    <2>1. B \in SUBSET (SUBSET K)
      OBVIOUS
    <2> HIDE DEF B
    <2> QED
      BY <1>0, <2>1, SmallestSubset
  <1>2. IsFiniteSet(s) /\ s \in SUBSET K
    BY <1>0, FS_Subset
  <1>3. s # {}
    <2> SUFFICES ASSUME s = {} PROVE FALSE
      OBVIOUS
    <2>1. SumOn(g, s) = 0 /\ SumOn(Values, s) = 0
      BY <1>2, SumUnfolds
    <2>2. RowsIn(counts, s) = {}
      BY DEF RowsIn
    <2>3. Total(RowsIn(counts, s)) = 0
      BY <2>2, TotalOfNone, Zenon
    <2>4. SumOn(g, s) # SumOn(Values, s) + Total(RowsIn(counts, s))
      BY <1>1
    <2> HIDE DEF B
    <2> QED
      BY <2>1, <2>3, <2>4
  <1> DEFINE k == Pick(s)
             t == s \ {k}
             R == RowsIn(counts, t)
             N == RowsOf(k)
  <1>4. k \in s
    BY <1>3, PickIn
  <1>5. SumOn(g, s) = g[k] + SumOn(g, t) /\ SumOn(Values, s) = Values[k] + SumOn(Values, t)
    BY <1>2, <1>3, SumUnfolds
  <1> HIDE DEF k
  <1>6. SumOn(g, t) = SumOn(Values, t) + Total(R)
    BY <1>1, <1>4
  <1>7. RowsIn(counts, s) = R \cup N /\ R \cap N = {}
    BY <1>4 DEF RowsIn, RowsOf, KeyOf
  <1>8. IsFiniteSet(R) /\ IsFiniteSet(N) /\ Numbers(R) /\ Numbers(N) /\ Numbers(R \cup N)
    BY FS_Subset DEF AccountTyped, CountRows, Numbers, RowsIn, RowsOf
  <1>9. g[k] = Values[k] + Total(N) /\ Values[k] \in Int
    BY <1>0, <1>2, <1>4 DEF Used, Values
  <1>10. SumOn(Values, t) \in Int
    <2>1. IsFiniteSet(t) /\ \A j \in t : Values[j] \in Int
      BY <1>0, <1>2, FS_Subset
    <2> HIDE DEF t
    <2> QED
      BY <2>1, SumTyped
  <1>11. SumOn(g, s) # SumOn(Values, s) + Total(RowsIn(counts, s))
    BY <1>1
  <1> HIDE DEF B, R, N, t
  <1>12. Total(R \cup N) = Total(R) + Total(N) /\ Total(R) \in Int /\ Total(N) \in Int
    BY <1>7, <1>8, TotalUnion, TotalTyped
  <1>13. Total(RowsIn(counts, s)) = Total(R \cup N)
    BY <1>7, Zenon
  <1> QED
    BY <1>5, <1>6, <1>9, <1>10, <1>11, <1>12, <1>13

\* What is in balance is exact.
LEMMA UsageInvSuffices ==
  ASSUME DatasetTyped, UsageInv
  PROVE  UsageExact
  <1>1. ASSUME NEW k \in Keys \ (shared \cup strayed)
        PROVE  Used(k) = Held(k)
    <2>1. {k} \in Watched
      BY DEF Watched
    <2>2. SumOn(Values, {k}) + Total(RowsIn(counts, {k})) = Cardinality(LocksIn(locks, account, {k}))
      BY <2>1 DEF UsageInv, Balanced, Balance
    <2>3. SumOn(Values, {k}) = Values[k]
      BY SumSingle, ValuesTyped DEF UsageInv
    <2>4. RowsIn(counts, {k}) = RowsOf(k)
      BY DEF RowsIn, RowsOf, KeyOf
    <2>5. LocksIn(locks, account, {k}) = {l \in locks : <<account[l[1]], Target[l[1]]>> = k}
      BY DEF LocksIn, RuleKey
    <2>6. Total(RowsIn(counts, {k})) = Total(RowsOf(k)) /\ Cardinality(LocksIn(locks, account, {k})) = Held(k)
      BY <2>4, <2>5, Zenon DEF Held
    <2>7. Values[k] = IF usage[k] = NoUsage THEN 0 ELSE usage[k]
      BY DEF Values
    <2> QED
      BY <2>2, <2>3, <2>6, <2>7 DEF Used
  <1>2. ASSUME NEW x \in Rses, \A a \in Accounts : <<a, x>> \notin shared
        PROVE  SumFunction([k \in Accounts \X {x} |-> Used(k)]) = Cardinality({l \in locks : Target[l[1]] = x})
    <2> DEFINE K == Accounts \X {x}
               g == [k \in K |-> Used(k)]
    <2>1. K \in Watched /\ K \in SUBSET Keys
      BY <1>2 DEF Watched, Keys
    <2>2. SumOn(Values, K) + Total(RowsIn(counts, K)) = Cardinality(LocksIn(locks, account, K))
      BY <2>1 DEF UsageInv, Balanced, Balance
    <2>3. LocksIn(locks, account, K) = {l \in locks : Target[l[1]] = x}
      BY DEF LocksIn, RuleKey, DatasetTyped, Existing
    <2>4. Cardinality(LocksIn(locks, account, K)) = Cardinality({l \in locks : Target[l[1]] = x})
      BY <2>3, Zenon
    <2>5. (\A k \in K : g[k] = Used(k)) /\ DOMAIN g = K
      OBVIOUS
    <2>6. SumFunction(g) = SumFunctionOnSet(g, DOMAIN g)
      BY DEF SumFunction
    <2>7. SumFunction(g) = SumOn(g, K)
      <3> HIDE DEF g, K
      <3> QED
        BY <2>5, <2>6, Zenon DEF SumOn
    <2>8. SumOn(g, K) = SumOn(Values, K) + Total(RowsIn(counts, K))
      <3> HIDE DEF g, K
      <3> QED
        BY <2>1, <2>5, UsedSum DEF UsageInv
    <2> QED
      BY <2>2, <2>4, <2>7, <2>8
  <1> QED
    BY <1>1, <1>2 DEF UsageExact

\* The usage of an account and the updates not yet applied are exactly the
\* locks of its rules, however the operations on rules and the transactions of
\* any number of abacus-account workers interleave, unless two workers handle a
\* key at once or a detachment charges the wrong account; where a detachment
\* did, the accounts of the RSE together are still right
\* (core/account_counter.py, core/rule.py).
THEOREM UsageIsExact == Spec => []UsageExact
  <1>1. DatasetTyped /\ UsageInv /\ [Next]_vars => (DatasetTyped /\ UsageInv)'
    BY DatasetStep, UsageStep
  <1>2. Init => DatasetTyped /\ UsageInv
    BY ColInit, UsageInit
  <1>3. DatasetTyped /\ UsageInv => UsageExact
    BY UsageInvSuffices
  <1> QED
    BY <1>1, <1>2, <1>3, PTL DEF Spec

-----------------------------------------------------------------------------
\* No step starts or stops the worker of the collection replicas, and the
\* operations are within the bound of the daemon that runs.
Bounded == ops \in 0 .. MaxOps[Running]

LEMMA BoundedStep ==
  ASSUME Bounded, ColTyped, ColTyped', [Next]_vars
  PROVE  Bounded'
  <1>1. MaxOps[Running] \in Nat
    BY AbacusAssumption DEF Running
  <1>2. ASSUME colWork' = colWork, Call \/ ops' = ops
        PROVE  Bounded'
    BY <1>1, <1>2 DEF Bounded, Running, Call
  <1>3. ASSUME colWork.at # "stopped", colWork'.at # "stopped", ops' = ops
        PROVE  Bounded'
    BY <1>3 DEF Bounded, Running
  <1>4. CASE UNCHANGED vars
    BY <1>2, <1>4 DEF vars, colVars
  <1>5. ASSUME NEW f \in Files, Attach(f) \/ Detach(f) PROVE Bounded'
    BY <1>2, <1>5 DEF Attach, Detach, colVars
  <1>6. ASSUME NEW f \in Files, NEW x \in Rses, TransferDone(f, x) \/ DeleteReplica(f, x) PROVE Bounded'
    BY <1>2, <1>6 DEF TransferDone, DeleteReplica
  <1>7. ASSUME NEW r \in Rules, NEW a \in Accounts, CreateRule(r, a) \/ ChangeAccount(r, a) PROVE Bounded'
    BY <1>2, <1>7 DEF CreateRule, ChangeAccount, colVars
  <1>8. ASSUME NEW r \in Rules, DeleteRule(r) PROVE Bounded'
    BY <1>2, <1>8 DEF DeleteRule, colVars
  <1>9. CASE EvaluateAttach \/ EvaluateDetach
    BY <1>2, <1>9 DEF EvaluateAttach, EvaluateDetach
  <1>10. ASSUME NEW w \in AccountWorkers, AccountUpdate(w) PROVE Bounded'
    BY <1>2, <1>10 DEF AccountUpdate, GetUpdated, ReadRows, ReadUsage, UpdateAccountCounter, colVars
  <1>11. ASSUME GetCleanedUpdates PROVE Bounded'
    BY <1>3, <1>11 DEF GetCleanedUpdates
  <1>12. ASSUME NEW u \in colWork.list, CountReplicas(u) PROVE Bounded'
    BY <1>3, <1>12 DEF CountReplicas
  <1>13. ASSUME UpdateCollectionReplica PROVE Bounded'
    BY <1>3, <1>13 DEF UpdateCollectionReplica, UpdateAll, UpdateOne, Listed
  <1> QED
    BY <1>4, <1>5, <1>6, <1>7, <1>8, <1>9, <1>10, <1>11, <1>12, <1>13
       DEF Next, Operations, CollectionReplicaUpdate

\* Types: no lock without its rule, no two rows of updates with one id, and
\* every row and counter is one that the tables of the catalogue can hold
\* (db/sqla/models.py), whatever the operations and the workers do.
THEOREM TypeCorrect == Spec => []TypeOK
  <1> DEFINE Inv == DatasetTyped /\ ColInv /\ UsageInv /\ Bounded
  <1>1. Init => Inv
    <2> SUFFICES ASSUME Init PROVE Bounded
      BY ColInit, UsageInit
    <2>1. MaxOps[Running] \in Nat
      BY AbacusAssumption DEF Running
    <2> QED
      BY <2>1 DEF Init, Bounded
  <1>2. Inv /\ [Next]_vars => Inv'
    BY DatasetStep, ColStep, UsageStep, BoundedStep DEF ColInv
  <1>3. Inv => TypeOK
    <2> SUFFICES ASSUME Inv PROVE TypeOK
      OBVIOUS
    <2>1. \A w \in AccountWorkers : work[w].at \in {"stopped", "idle", "list", "rows", "usage"}
      BY DEF UsageInv, AccountTyped, Reading
    <2> QED
      BY <2>1 DEF TypeOK, DatasetTyped, ColInv, ColTyped, UpdateRows, Cols, Unique, UsageInv, AccountTyped,
                  CountRows, Bounded
  <1> QED
    BY <1>1, <1>2, <1>3, PTL DEF Spec

=============================================================================
