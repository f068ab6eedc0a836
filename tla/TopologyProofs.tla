----------------------------- MODULE TopologyProofs -----------------------------
(***************************************************************************)
(* Proofs about the edges that Topology keeps in memory, its priority      *)
(* queue, its search for shortest paths and the candidate paths of a       *)
(* request, for any RSEs, distances, penalties, protocols, requests and    *)
(* numbers of threads and changes, and about the parser of RSE             *)
(* expressions, for expressions of any length.                             *)
(***************************************************************************)
EXTENDS Topology, FiniteSetTheorems, WellFoundedInduction, TLAPS

-----------------------------------------------------------------------------
(***************************************************************************)
(* Loops.  A loop that counts down is a function; the lemmas take the      *)
(* place of an induction over its iterations.                              *)
(***************************************************************************)
\* Among some numbers there is a least one.
LEMMA LeastNumber ==
  ASSUME NEW T \in SUBSET Nat, T # {}
  PROVE  \E n \in T : \A m \in T : n <= m
  <1>1. PICK n \in T : \A y \in T : ~(<<y, n>> \in OpToRel(<, Nat))
    BY NatLessThanWellFounded, WFMin, Zenon
  <1>2. \A y \in T : ~(y < n)
    BY <1>1 DEF OpToRel
  <1> QED
    BY <1>2

\* Among some members of a set there is one of least measure.
LEMMA LeastMeasure ==
  ASSUME NEW D, NEW m \in [D -> Nat], NEW B \in SUBSET D, B # {}
  PROVE  \E x \in B : \A y \in B : m[x] <= m[y]
  <1> DEFINE T == {m[x] : x \in B}
  <1>1. T \in SUBSET Nat /\ T # {}
    OBVIOUS
  <1>2. PICK n \in T : \A k \in T : n <= k
    <2> HIDE DEF T
    <2> QED
      BY <1>1, LeastNumber
  <1> QED
    BY <1>2

\* A loop that goes from x to nx[x] as long as go[x], and ends with out[x].
Loops(f, S, go, nx, out) == f = [x \in S |-> IF go[x] THEN f[nx[x]] ELSE out[x]]

\* If each iteration lowers a measure, the loop computes something.
LEMMA LoopExists ==
  ASSUME NEW D, NEW N \in Nat, NEW m \in [D -> 0 .. N], NEW go \in [D -> BOOLEAN], NEW nx, NEW out,
         \A x \in D : go[x] => nx[x] \in D /\ m[nx[x]] < m[x]
  PROVE  \E f : Loops(f, D, go, nx, out)
  <1> DEFINE Level(n) == {x \in D : m[x] <= n}
             Bad == {n \in Nat : ~\E f : Loops(f, Level(n), go, nx, out)}
  <1>1. Bad = {}
    <2> SUFFICES ASSUME Bad # {} PROVE FALSE
      OBVIOUS
    <2>1. PICK n \in Bad : \A k \in Bad : n <= k
      <3>1. Bad \in SUBSET Nat
        OBVIOUS
      <3> HIDE DEF Bad
      <3> QED
        BY <3>1, LeastNumber
    <2>2. CASE n = 0
      <3>1. \A x \in Level(0) : ~go[x]
        OBVIOUS
      <3>2. Loops([x \in Level(0) |-> out[x]], Level(0), go, nx, out)
        BY <3>1 DEF Loops
      <3> QED
        BY <2>1, <2>2, <3>2
    <2>3. CASE n # 0
      <3>1. n \in Nat /\ n - 1 \in Nat /\ n - 1 \notin Bad
        <4>1. n \in Nat
          OBVIOUS
        <4> HIDE DEF Bad
        <4> QED
          BY <2>1, <2>3, <4>1
      <3>2. PICK f : Loops(f, Level(n - 1), go, nx, out)
        BY <3>1
      <3> DEFINE g == [x \in Level(n) |-> IF go[x] THEN f[nx[x]] ELSE out[x]]
      <3>3. \A x \in Level(n) : go[x] => nx[x] \in Level(n - 1)
        BY <3>1
      <3>4. \A x \in Level(n - 1) : x \in Level(n)
        BY <3>1
      <3>5. Loops(g, Level(n), go, nx, out)
        <4> HIDE DEF Level
        <4>1. \A x \in Level(n - 1) : f[x] = g[x]
          BY <3>2, <3>4 DEF Loops
        <4> QED
          BY <3>3, <3>4, <4>1 DEF Loops
      <3> QED
        BY <2>1, <3>5
    <2> QED
      BY <2>2, <2>3
  <1>2. Level(N) = D
    OBVIOUS
  <1>3. \E f : Loops(f, Level(N), go, nx, out)
    BY <1>1
  <1> QED
    BY <1>2, <1>3

\* A loop that computes q from what the iteration before left.
Counts(f, n, q0, F) == f = [i \in 0 .. n |-> IF i = 0 THEN q0 ELSE F[<<i, f[i - 1]>>]]

\* Every loop that counts up has such a function.
LEMMA CountExists ==
  ASSUME NEW N \in Nat, NEW Q, NEW q0 \in Q, NEW F \in [(1 .. N) \X Q -> Q]
  PROVE  \E f \in [0 .. N -> Q] : Counts(f, N, q0, F)
  <1> DEFINE Bad == {n \in Nat : n <= N /\ ~\E f \in [0 .. n -> Q] : Counts(f, n, q0, F)}
  <1> SUFFICES ASSUME Bad # {} PROVE FALSE
    OBVIOUS
  <1>1. PICK n \in Bad : \A k \in Bad : n <= k
    <2>1. Bad \in SUBSET Nat
      OBVIOUS
    <2> HIDE DEF Bad
    <2> QED
      BY <2>1, LeastNumber
  <1>2. CASE n = 0
    <2>1. [i \in 0 .. 0 |-> q0] \in [0 .. 0 -> Q] /\ Counts([i \in 0 .. 0 |-> q0], 0, q0, F)
      BY DEF Counts
    <2> QED
      BY <1>1, <1>2, <2>1
  <1>3. CASE n # 0
    <2>1. n \in Nat /\ n <= N
      OBVIOUS
    <2>2. n - 1 \in Nat /\ n - 1 <= N /\ n - 1 \notin Bad
      <3> HIDE DEF Bad
      <3> QED
        BY <1>1, <1>3, <2>1
    <2>3. PICK f \in [0 .. n - 1 -> Q] : Counts(f, n - 1, q0, F)
      BY <2>2
    <2> DEFINE g == [i \in 0 .. n |-> IF i = 0 THEN q0 ELSE F[<<i, f[i - 1]>>]]
    <2>4. \A i \in 0 .. n : i # 0 => i - 1 \in 0 .. n - 1 /\ i \in 1 .. N
      BY <2>1
    <2>5. \A i \in 0 .. n - 1 : i \in 0 .. n /\ g[i] = f[i]
      BY <2>1, <2>3 DEF Counts
    <2>6. g \in [0 .. n -> Q]
      <3> SUFFICES ASSUME NEW i \in 0 .. n, i # 0 PROVE F[<<i, f[i - 1]>>] \in Q
        OBVIOUS
      <3>1. f[i - 1] \in Q /\ i \in 1 .. N
        BY <2>4, <2>3
      <3> QED
        BY <3>1
    <2>7. \A i \in 0 .. n : i # 0 => g[i - 1] = f[i - 1]
      BY <2>4, <2>5
    <2>8. Counts(g, n, q0, F)
      BY <2>7 DEF Counts
    <2> QED
      BY <1>1, <2>6, <2>8
  <1> QED
    BY <1>2, <1>3

-----------------------------------------------------------------------------
(***************************************************************************)
(* The priority queue.                                                     *)
(***************************************************************************)
\* A heap of n items: nobody comes before its parent.
Ordered(q, prio, n) == \A i \in 2 .. n : prio[q[i \div 2]] <= prio[q[i]]

\* A heap but for the item at pos, which may be too far down ...
OrderedAbove(q, pos, prio, n) ==
  \A i \in 2 .. n :
    /\ i # pos => prio[q[i \div 2]] <= prio[q[i]]
    /\ i \div 2 = pos /\ pos > 1 => prio[q[pos \div 2]] <= prio[q[i]]

\* ... or too far up.
OrderedBelow(q, pos, prio, n) ==
  \A i \in 2 .. n :
    /\ i \div 2 # pos => prio[q[i \div 2]] <= prio[q[i]]
    /\ i \div 2 = pos /\ pos > 1 => prio[q[pos \div 2]] <= prio[q[i]]

\* r has the items of q.
Permutes(r, q, n) == r \in [1 .. n -> Rses] /\ Range(r) = Range(q) /\ (IsInjective(q) => IsInjective(r))

\* Swap exchanges two items and keeps all.
LEMMA SwapPermutes ==
  ASSUME NEW n \in Nat, NEW q \in [1 .. n -> Rses], NEW i \in 1 .. n, NEW k \in 1 .. n
  PROVE  /\ Permutes(Swap(q, i, k), q, n)
         /\ \A j \in 1 .. n : Swap(q, i, k)[j] = IF j = k THEN q[i] ELSE IF j = i THEN q[k] ELSE q[j]
  <1> DEFINE r == Swap(q, i, k)
  <1>1. r \in [1 .. n -> Rses] /\ \A j \in 1 .. n : r[j] = IF j = k THEN q[i] ELSE IF j = i THEN q[k] ELSE q[j]
    BY DEF Swap
  <1> HIDE DEF r
  <1>2. Range(r) = Range(q)
    <2>1. Range(r) = {r[j] : j \in 1 .. n} /\ Range(q) = {q[j] : j \in 1 .. n}
      BY <1>1 DEF Range
    <2>2. \A j \in 1 .. n : \E l \in 1 .. n : r[j] = q[l]
      BY <1>1
    <2>3. \A l \in 1 .. n : \E j \in 1 .. n : r[j] = q[l]
      BY <1>1
    <2>4. {r[j] : j \in 1 .. n} \subseteq {q[j] : j \in 1 .. n}
      BY <2>2
    <2>5. {q[j] : j \in 1 .. n} \subseteq {r[j] : j \in 1 .. n}
      BY <2>3
    <2> QED
      BY <2>1, <2>4, <2>5, Zenon
  <1>3. IsInjective(q) => IsInjective(r)
    BY <1>1 DEF IsInjective
  <1> QED
    BY <1>1, <1>2, <1>3 DEF r, Permutes

\* One step up.
LEMMA StepUp ==
  ASSUME NEW n \in Nat, NEW q \in [1 .. n -> Rses], NEW pos \in 2 .. n, NEW prio \in [Rses -> Nat],
         OrderedAbove(q, pos, prio, n), prio[q[pos]] < prio[q[pos \div 2]]
  PROVE  OrderedAbove(Swap(q, pos, pos \div 2), pos \div 2, prio, n)
  <1> DEFINE p == pos \div 2
             r == Swap(q, pos, p)
  <1>1. p \in 1 .. n /\ p < pos
    OBVIOUS
  <1>2. \A j \in 1 .. n : r[j] = IF j = p THEN q[pos] ELSE IF j = pos THEN q[p] ELSE q[j]
    BY <1>1, SwapPermutes
  <1> HIDE DEF r
  <1>3. \A j \in 1 .. n : prio[q[j]] \in Nat
    OBVIOUS
  <1>4. \A j \in 2 .. n : j \div 2 \in 1 .. n /\ j \div 2 < j
    OBVIOUS
  <1>5. ASSUME NEW i \in 2 .. n, i # p
        PROVE  prio[r[i \div 2]] <= prio[r[i]]
    <2>1. i \div 2 \in 1 .. n /\ i \div 2 < i /\ i \in 1 .. n
      BY <1>4
    <2>2. i # pos => prio[q[i \div 2]] <= prio[q[i]]
      BY DEF OrderedAbove
    <2>3. i \div 2 = pos => prio[q[p]] <= prio[q[i]]
      BY DEF OrderedAbove
    <2>4. CASE i = pos
      BY <1>1, <1>2, <1>3, <2>1, <2>4
    <2>5. CASE i # pos
      <3>1. r[i] = q[i]
        BY <1>2, <1>5, <2>1, <2>5
      <3>2. r[i \div 2] = IF i \div 2 = p THEN q[pos] ELSE IF i \div 2 = pos THEN q[p] ELSE q[i \div 2]
        BY <1>2, <2>1
      <3>3. prio[q[pos]] \in Nat /\ prio[q[p]] \in Nat /\ prio[q[i]] \in Nat /\ prio[q[pos]] < prio[q[p]]
        BY <1>1, <1>3, <2>1
      <3> HIDE DEF p
      <3> QED
        BY <2>2, <2>3, <2>5, <3>1, <3>2, <3>3
    <2> QED
      BY <2>4, <2>5
  <1>6. ASSUME NEW i \in 2 .. n, i \div 2 = p, p > 1
        PROVE  prio[r[p \div 2]] <= prio[r[i]]
    <2>1. p \in 2 .. n /\ p \div 2 \in 1 .. n /\ p \div 2 < p
      BY <1>1, <1>4, <1>6
    <2>2. prio[q[p \div 2]] <= prio[q[p]]
      BY <1>1, <2>1 DEF OrderedAbove
    <2>3. r[p \div 2] = q[p \div 2]
      BY <1>1, <1>2, <2>1
    <2>4. CASE i = pos
      <3>1. r[i] = q[p]
        BY <1>1, <1>2, <2>4
      <3> HIDE DEF p
      <3> QED
        BY <2>2, <2>3, <3>1
    <2>5. CASE i # pos
      <3>1. prio[q[p]] <= prio[q[i]]
        BY <1>6, <2>5 DEF OrderedAbove
      <3>2. r[i] = q[i]
        BY <1>2, <1>4, <1>6, <2>5
      <3> QED
        BY <1>1, <1>3, <2>1, <2>2, <2>3, <3>1, <3>2
    <2> QED
      BY <2>4, <2>5
  <1> QED
    BY <1>5, <1>6 DEF OrderedAbove, r

\* One step down, to the child that comes first.
LEMMA StepDown ==
  ASSUME NEW n \in Nat, NEW q \in [1 .. n -> Rses], NEW pos \in 1 .. n, NEW c \in 2 .. n, NEW prio \in [Rses -> Nat],
         OrderedBelow(q, pos, prio, n), c \div 2 = pos, prio[q[c]] <= prio[q[pos]],
         \A i \in 2 .. n : i \div 2 = pos => prio[q[c]] <= prio[q[i]]
  PROVE  OrderedBelow(Swap(q, pos, c), c, prio, n)
  <1> DEFINE r == Swap(q, pos, c)
  <1>1. c \in 1 .. n /\ pos < c /\ pos \in Nat
    OBVIOUS
  <1>2. \A j \in 1 .. n : r[j] = IF j = c THEN q[pos] ELSE IF j = pos THEN q[c] ELSE q[j]
    BY <1>1, SwapPermutes
  <1> HIDE DEF r
  <1>3. \A j \in 1 .. n : prio[q[j]] \in Nat
    OBVIOUS
  <1>4. \A j \in 2 .. n : j \div 2 \in 1 .. n /\ j \div 2 < j /\ j \in 1 .. n
    OBVIOUS
  <1>5. ASSUME NEW i \in 2 .. n, i \div 2 # c
        PROVE  prio[r[i \div 2]] <= prio[r[i]]
    <2>1. i \div 2 \in 1 .. n /\ i \div 2 < i /\ i \in 1 .. n
      BY <1>4
    <2>2. i \div 2 # pos => prio[q[i \div 2]] <= prio[q[i]]
      BY DEF OrderedBelow
    <2>3. r[i \div 2] = IF i \div 2 = pos THEN q[c] ELSE q[i \div 2]
      BY <1>2, <1>5, <2>1
    <2>4. CASE i = c
      <3>1. r[i] = q[pos]
        BY <1>2, <2>4, <2>1
      <3> QED
        BY <2>3, <2>4, <3>1
    <2>5. CASE i # c /\ i \div 2 = pos
      <3>1. r[i] = q[i]
        BY <1>2, <2>1, <2>5
      <3> QED
        BY <2>3, <2>5, <3>1
    <2>6. CASE i = pos
      <3>1. r[i] = q[c] /\ r[i \div 2] = q[i \div 2]
        BY <1>1, <1>2, <2>1, <2>3, <2>6
      <3>2. pos > 1
        BY <2>6
      <3>3. prio[q[pos \div 2]] <= prio[q[c]]
        BY <3>2 DEF OrderedBelow
      <3> QED
        BY <2>6, <3>1, <3>3
    <2>7. CASE i # c /\ i # pos /\ i \div 2 # pos
      <3>1. r[i] = q[i]
        BY <1>2, <2>1, <2>7
      <3> QED
        BY <2>2, <2>3, <2>7, <3>1
    <2> QED
      BY <2>4, <2>5, <2>6, <2>7
  <1>6. ASSUME NEW i \in 2 .. n, i \div 2 = c, c > 1
        PROVE  prio[r[c \div 2]] <= prio[r[i]]
    <2>1. i \in 1 .. n /\ c < i
      BY <1>4, <1>6
    <2>2. r[c \div 2] = q[c]
      BY <1>1, <1>2
    <2>3. r[i] = q[i]
      BY <1>1, <1>2, <2>1
    <2>4. prio[q[c]] <= prio[q[i]]
      BY <1>1, <1>6 DEF OrderedBelow
    <2> QED
      BY <2>2, <2>3, <2>4
  <1> QED
    BY <1>5, <1>6 DEF OrderedBelow, r

\* Two rearrangements are one.
LEMMA PermutesTransitive ==
  ASSUME NEW n, NEW p, NEW q, NEW r, Permutes(p, q, n), Permutes(q, r, n)
  PROVE  Permutes(p, r, n)
  BY DEF Permutes

\* Nothing moved is a rearrangement.
LEMMA PermutesItself ==
  ASSUME NEW n, NEW q \in [1 .. n -> Rses]
  PROVE  Permutes(q, q, n)
  BY DEF Permutes

\* _priority_decreased permutes the items and restores the order.
LEMMA SiftUpWorks ==
  ASSUME NEW n \in Nat, NEW h \in [1 .. n -> Rses], NEW start \in 1 .. n, NEW prio \in [Rses -> Nat]
  PROVE  /\ Permutes(SiftUp(h, start, prio), h, n)
         /\ OrderedAbove(h, start, prio, n) => Ordered(SiftUp(h, start, prio), prio, n)
  <1> DEFINE D == [1 .. n -> Rses] \X (1 .. n)
             go == [x \in D |-> x[2] > 1 /\ prio[x[1][x[2]]] < prio[x[1][x[2] \div 2]]]
             nx == [x \in D |-> <<Swap(x[1], x[2], x[2] \div 2), x[2] \div 2>>]
             out == [x \in D |-> x[1]]
             m == [x \in D |-> x[2]]
             up[x \in [DOMAIN h -> Rses] \X DOMAIN h] ==
               LET q == x[1]
                   pos == x[2]
               IN IF pos > 1 /\ prio[q[pos]] < prio[q[pos \div 2]]
                  THEN up[<<Swap(q, pos, pos \div 2), pos \div 2>>] ELSE q
  <1>1. m \in [D -> 0 .. n] /\ m \in [D -> Nat] /\ go \in [D -> BOOLEAN]
    OBVIOUS
  <1>2. ASSUME NEW x \in D, go[x]
        PROVE  /\ nx[x] \in D /\ m[nx[x]] < m[x]
               /\ Permutes(nx[x][1], x[1], n)
               /\ OrderedAbove(x[1], x[2], prio, n) => OrderedAbove(nx[x][1], nx[x][2], prio, n)
    <2>0. x[1] \in [1 .. n -> Rses] /\ x[2] \in 1 .. n /\ x[2] > 1
      BY <1>2
    <2>1. x[1] \in [1 .. n -> Rses] /\ x[2] \in 2 .. n /\ x[2] \div 2 \in 1 .. n /\ x[2] \in 1 .. n
      BY <2>0
    <2>2. prio[x[1][x[2]]] < prio[x[1][x[2] \div 2]]
      BY <1>2
    <2>3. nx[x] = <<Swap(x[1], x[2], x[2] \div 2), x[2] \div 2>>
      OBVIOUS
    <2>4. Permutes(Swap(x[1], x[2], x[2] \div 2), x[1], n)
      BY <2>1, SwapPermutes
    <2>5. nx[x] \in D
      BY <2>1, <2>3, <2>4 DEF Permutes
    <2>6. m[nx[x]] < m[x]
      BY <2>1, <2>3, <2>5
    <2>7. OrderedAbove(x[1], x[2], prio, n) => OrderedAbove(Swap(x[1], x[2], x[2] \div 2), x[2] \div 2, prio, n)
      BY <2>1, <2>2, StepUp
    <2> QED
      BY <2>3, <2>4, <2>5, <2>6, <2>7
  <1>3. Loops(up, D, go, nx, out)
    <2>1. DOMAIN h = 1 .. n
      OBVIOUS
    <2>2. PICK f : Loops(f, D, go, nx, out)
      <3> HIDE DEF D, go, nx, out, m
      <3> QED
        BY <1>1, <1>2, LoopExists
    <2>3. f = [x \in D |-> IF go[x] THEN f[nx[x]] ELSE out[x]]
      BY <2>2 DEF Loops
    <2>4. f = [x \in [DOMAIN h -> Rses] \X DOMAIN h |->
                 LET q == x[1]
                     pos == x[2]
                 IN IF pos > 1 /\ prio[q[pos]] < prio[q[pos \div 2]]
                    THEN f[<<Swap(q, pos, pos \div 2), pos \div 2>>] ELSE q]
      BY <2>1, <2>3
    <2>5. up = [x \in [DOMAIN h -> Rses] \X DOMAIN h |->
                  LET q == x[1]
                      pos == x[2]
                  IN IF pos > 1 /\ prio[q[pos]] < prio[q[pos \div 2]]
                     THEN up[<<Swap(q, pos, pos \div 2), pos \div 2>>] ELSE q]
      BY <2>4, Zenon
    <2> HIDE DEF up
    <2> QED
      BY <2>1, <2>5 DEF Loops
  <1>4. SiftUp(h, start, prio) = up[<<h, start>>]
    BY DEF SiftUp
  <1> HIDE DEF up
  <1> DEFINE Right(x) == /\ Permutes(up[x], x[1], n)
                         /\ OrderedAbove(x[1], x[2], prio, n) => Ordered(up[x], prio, n)
             B == {x \in D : ~Right(x)}
  <1>5. B = {}
    <2> SUFFICES ASSUME B # {} PROVE FALSE
      OBVIOUS
    <2>1. PICK x \in B : \A y \in B : m[x] <= m[y]
      <3>1. B \in SUBSET D
        OBVIOUS
      <3> HIDE DEF B, D, m
      <3> QED
        BY <1>1, <3>1, LeastMeasure
    <2>2. x \in D /\ x[1] \in [1 .. n -> Rses] /\ x[2] \in 1 .. n
      OBVIOUS
    <2>3. CASE go[x]
      <3>1. up[x] = up[nx[x]]
        <4> HIDE DEF D, go, nx, out, up
        <4> QED
          BY <1>3, <2>2, <2>3 DEF Loops
      <3>2. Right(nx[x])
        <4>1. nx[x] \in D /\ m[nx[x]] < m[x] /\ m[x] \in Nat /\ m[nx[x]] \in Nat
          BY <1>1, <1>2, <2>2, <2>3
        <4>2. nx[x] \notin B
          <5> HIDE DEF B, D, nx, m
          <5> QED
            BY <2>1, <4>1
        <4> QED
          BY <4>1, <4>2
      <3>3. Right(x)
        <4> HIDE DEF D, go, nx, out, m, up
        <4> QED
          BY <1>2, <2>2, <2>3, <3>1, <3>2, PermutesTransitive
      <3> QED
        BY <2>1, <3>3
    <2>4. CASE ~go[x]
      <3>1. up[x] = x[1]
        <4>1. out[x] = x[1]
          BY <2>2
        <4> HIDE DEF D, go, nx, out, up
        <4> QED
          BY <1>3, <2>2, <2>4, <4>1 DEF Loops
      <3>2. ~(x[2] > 1 /\ prio[x[1][x[2]]] < prio[x[1][x[2] \div 2]])
        BY <2>2, <2>4
      <3>3. ASSUME OrderedAbove(x[1], x[2], prio, n)
            PROVE  Ordered(x[1], prio, n)
        <4> SUFFICES ASSUME NEW i \in 2 .. n PROVE prio[x[1][i \div 2]] <= prio[x[1][i]]
          BY DEF Ordered
        <4>1. i # x[2] => prio[x[1][i \div 2]] <= prio[x[1][i]]
          BY <3>3 DEF OrderedAbove
        <4>2. prio[x[1][i \div 2]] \in Nat /\ prio[x[1][i]] \in Nat
          <5>1. n \in Nat /\ i \in 2 .. n
            OBVIOUS
          <5>2. i \div 2 \in 1 .. n /\ i \in 1 .. n
            BY ONLY <5>1
          <5> QED
            BY <2>2, <5>2
        <4>3. CASE i = x[2]
          <5>1. x[2] > 1
            BY <4>3
          <5> QED
            BY ONLY <3>2, <4>2, <4>3, <5>1
        <4> QED
          BY <4>1, <4>3
      <3>4. Permutes(x[1], x[1], n)
        BY <2>2, PermutesItself
      <3> QED
        BY <2>1, <3>1, <3>3, <3>4
    <2> QED
      BY <2>3, <2>4
  <1>6. <<h, start>> \in D
    OBVIOUS
  <1>7. Right(<<h, start>>)
    BY <1>5, <1>6
  <1> QED
    BY <1>4, <1>7

\* The child that a step of _priority_increased goes to, or pos itself.
Smaller(q, pos, prio) == IF 2 * pos <= Len(q) /\ prio[q[2 * pos]] < prio[q[pos]] THEN 2 * pos ELSE pos
Smallest(q, pos, prio) ==
  IF 2 * pos + 1 <= Len(q) /\ prio[q[2 * pos + 1]] < prio[q[Smaller(q, pos, prio)]] THEN 2 * pos + 1
  ELSE Smaller(q, pos, prio)

\* The smallest of an item and its children is no larger than any of them.
LEMMA SmallestIsFirst ==
  ASSUME NEW n \in Nat, NEW q \in [1 .. n -> Rses], NEW pos \in 1 .. n, NEW prio \in [Rses -> Nat]
  PROVE  LET c == Smallest(q, pos, prio)
         IN /\ c \in 1 .. n /\ (c # pos => c \in 2 .. n /\ c \div 2 = pos /\ pos < c)
            /\ prio[q[c]] <= prio[q[pos]]
            /\ \A i \in 2 .. n : i \div 2 = pos => prio[q[c]] <= prio[q[i]]
  <1> DEFINE d == Smaller(q, pos, prio)
             c == Smallest(q, pos, prio)
  <1>0. Len(q) = n
    OBVIOUS
  <1>1. \A j \in 1 .. n : prio[q[j]] \in Nat
    OBVIOUS
  <1>2. /\ d \in 1 .. n /\ (d = pos \/ d = 2 * pos) /\ prio[q[d]] <= prio[q[pos]]
        /\ 2 * pos <= n => prio[q[d]] <= prio[q[2 * pos]]
    <2>1. d = IF 2 * pos <= n /\ prio[q[2 * pos]] < prio[q[pos]] THEN 2 * pos ELSE pos
      BY <1>0 DEF Smaller
    <2>2. 2 * pos <= n => 2 * pos \in 1 .. n
      OBVIOUS
    <2> HIDE DEF d
    <2> QED
      BY <1>1, <2>1, <2>2
  <1>3. c = IF 2 * pos + 1 <= n /\ prio[q[2 * pos + 1]] < prio[q[d]] THEN 2 * pos + 1 ELSE d
    BY <1>0 DEF Smallest
  <1> HIDE DEF d, c
  <1>4. /\ c \in 1 .. n /\ (c = pos \/ c = 2 * pos \/ c = 2 * pos + 1) /\ prio[q[c]] <= prio[q[pos]]
        /\ 2 * pos <= n => prio[q[c]] <= prio[q[2 * pos]]
        /\ 2 * pos + 1 <= n => prio[q[c]] <= prio[q[2 * pos + 1]]
    <2>1. CASE 2 * pos + 1 <= n /\ prio[q[2 * pos + 1]] < prio[q[d]]
      <3>1. c = 2 * pos + 1 /\ c \in 1 .. n /\ 2 * pos \in 1 .. n
        BY <1>3, <2>1
      <3> QED
        BY <1>1, <1>2, <2>1, <3>1
    <2>2. CASE ~(2 * pos + 1 <= n /\ prio[q[2 * pos + 1]] < prio[q[d]])
      <3>1. c = d
        BY <1>3, <2>2
      <3>2. 2 * pos + 1 <= n => 2 * pos + 1 \in 1 .. n
        OBVIOUS
      <3> QED
        BY <1>1, <1>2, <2>2, <3>1, <3>2
    <2> QED
      BY <2>1, <2>2
  <1>5. ASSUME c # pos
        PROVE  c \in 2 .. n /\ c \div 2 = pos /\ pos < c
    <2>1. pos \in Nat /\ pos >= 1 /\ c \in 1 .. n /\ (c = 2 * pos \/ c = 2 * pos + 1) /\ n \in Nat
      BY <1>4, <1>5
    <2> QED
      BY ONLY <2>1
  <1>6. ASSUME NEW i \in 2 .. n, i \div 2 = pos
        PROVE  prio[q[c]] <= prio[q[i]]
    <2>1. i = 2 * pos \/ i = 2 * pos + 1
      BY <1>6
    <2>2. i <= n
      OBVIOUS
    <2> QED
      BY ONLY <1>4, <2>1, <2>2
  <1> QED
    BY <1>4, <1>5, <1>6 DEF c

\* A step of _priority_increased moves down and keeps all items.
LEMMA StepDownGoes ==
  ASSUME NEW n \in Nat, NEW q \in [1 .. n -> Rses], NEW pos \in 1 .. n, NEW prio \in [Rses -> Nat],
         NEW c, c = Smallest(q, pos, prio), c # pos
  PROVE  /\ c \in 1 .. n /\ pos < c
         /\ Permutes(Swap(q, pos, c), q, n)
         /\ OrderedBelow(q, pos, prio, n) => OrderedBelow(Swap(q, pos, c), c, prio, n)
  <1>1. /\ c \in 1 .. n /\ c \in 2 .. n /\ c \div 2 = pos /\ pos < c
        /\ prio[q[c]] <= prio[q[pos]]
        /\ \A i \in 2 .. n : i \div 2 = pos => prio[q[c]] <= prio[q[i]]
    <2>1. c \in 1 .. n
      BY SmallestIsFirst
    <2>2. c \in 2 .. n
      BY SmallestIsFirst
    <2>3. c \div 2 = pos
      BY SmallestIsFirst
    <2>4. pos < c
      BY SmallestIsFirst
    <2>5. prio[q[c]] <= prio[q[pos]]
      BY SmallestIsFirst
    <2>6. \A i \in 2 .. n : i \div 2 = pos => prio[q[c]] <= prio[q[i]]
      BY SmallestIsFirst
    <2> QED
      BY <2>1, <2>2, <2>3, <2>4, <2>5, <2>6
  <1>2. Permutes(Swap(q, pos, c), q, n)
    BY <1>1, SwapPermutes
  <1>3. OrderedBelow(q, pos, prio, n) => OrderedBelow(Swap(q, pos, c), c, prio, n)
    BY <1>1, StepDown
  <1> QED
    BY <1>1, <1>2, <1>3

\* _priority_increased permutes the items and restores the order.
LEMMA SiftDownWorks ==
  ASSUME NEW n \in Nat, n # 0, NEW h \in [1 .. n -> Rses], NEW prio \in [Rses -> Nat]
  PROVE  /\ Permutes(SiftDown(h, prio), h, n)
         /\ OrderedBelow(h, 1, prio, n) => Ordered(SiftDown(h, prio), prio, n)
  <1> DEFINE D == [1 .. n -> Rses] \X (1 .. n)
             to(x) == Smallest(x[1], x[2], prio)
             go == [x \in D |-> to(x) # x[2]]
             nx == [x \in D |-> <<Swap(x[1], x[2], to(x)), to(x)>>]
             out == [x \in D |-> x[1]]
             m == [x \in D |-> n - x[2]]
             down[x \in [DOMAIN h -> Rses] \X DOMAIN h] ==
               LET q == x[1]
                   pos == x[2]
                   c1 == 2 * pos
                   c2 == 2 * pos + 1
                   m1 == IF c1 <= Len(q) /\ prio[q[c1]] < prio[q[pos]] THEN c1 ELSE pos
                   m2 == IF c2 <= Len(q) /\ prio[q[c2]] < prio[q[m1]] THEN c2 ELSE m1
               IN IF m2 # pos THEN down[<<Swap(q, pos, m2), m2>>] ELSE q
  <1>1. m \in [D -> 0 .. n] /\ m \in [D -> Nat] /\ go \in [D -> BOOLEAN]
    OBVIOUS
  <1>2. ASSUME NEW x \in D, go[x]
        PROVE  /\ nx[x] \in D /\ m[nx[x]] < m[x]
               /\ Permutes(nx[x][1], x[1], n)
               /\ OrderedBelow(x[1], x[2], prio, n) => OrderedBelow(nx[x][1], nx[x][2], prio, n)
    <2> DEFINE c == to(x)
    <2>1. x[1] \in [1 .. n -> Rses] /\ x[2] \in 1 .. n /\ c # x[2] /\ nx[x] = <<Swap(x[1], x[2], c), c>>
      BY <1>2
    <2>2. /\ c \in 1 .. n /\ x[2] < c
          /\ Permutes(Swap(x[1], x[2], c), x[1], n)
          /\ OrderedBelow(x[1], x[2], prio, n) => OrderedBelow(Swap(x[1], x[2], c), c, prio, n)
      <3>1. c = Smallest(x[1], x[2], prio)
        OBVIOUS
      <3> HIDE DEF to, c
      <3> QED
        BY <2>1, <3>1, StepDownGoes
    <2> HIDE DEF to
    <2>3. nx[x] \in D
      BY <2>1, <2>2 DEF Permutes
    <2>4. m[nx[x]] < m[x]
      <3>1. m[x] = n - x[2]
        BY <2>1
      <3>2. m[nx[x]] = n - nx[x][2] /\ nx[x][2] = c
        BY <2>1, <2>3
      <3> HIDE DEF m, nx
      <3> QED
        BY <2>1, <2>2, <3>1, <3>2
    <2> QED
      BY <2>1, <2>2, <2>3, <2>4
  <1>3. Loops(down, D, go, nx, out)
    <2>1. DOMAIN h = 1 .. n
      OBVIOUS
    <2>2. PICK f : Loops(f, D, go, nx, out)
      <3> HIDE DEF D, go, nx, out, m
      <3> QED
        BY <1>1, <1>2, LoopExists
    <2>3. f = [x \in D |-> IF go[x] THEN f[nx[x]] ELSE out[x]]
      BY <2>2 DEF Loops
    <2>4. f = [x \in D |-> IF to(x) # x[2] THEN f[<<Swap(x[1], x[2], to(x)), to(x)>>] ELSE x[1]]
      <3> HIDE DEF to, D
      <3> QED
        BY <2>3
    <2>5. f = [x \in [DOMAIN h -> Rses] \X DOMAIN h |->
                 LET q == x[1]
                     pos == x[2]
                     c1 == 2 * pos
                     c2 == 2 * pos + 1
                     m1 == IF c1 <= Len(q) /\ prio[q[c1]] < prio[q[pos]] THEN c1 ELSE pos
                     m2 == IF c2 <= Len(q) /\ prio[q[c2]] < prio[q[m1]] THEN c2 ELSE m1
                 IN IF m2 # pos THEN f[<<Swap(q, pos, m2), m2>>] ELSE q]
      BY <2>1, <2>4, Zenon DEF Smallest, Smaller
    <2>6. down = [x \in [DOMAIN h -> Rses] \X DOMAIN h |->
                 LET q == x[1]
                     pos == x[2]
                     c1 == 2 * pos
                     c2 == 2 * pos + 1
                     m1 == IF c1 <= Len(q) /\ prio[q[c1]] < prio[q[pos]] THEN c1 ELSE pos
                     m2 == IF c2 <= Len(q) /\ prio[q[c2]] < prio[q[m1]] THEN c2 ELSE m1
                 IN IF m2 # pos THEN down[<<Swap(q, pos, m2), m2>>] ELSE q]
      BY <2>5, Zenon
    <2> HIDE DEF down
    <2>7. down = [x \in D |-> IF to(x) # x[2] THEN down[<<Swap(x[1], x[2], to(x)), to(x)>>] ELSE x[1]]
      BY <2>1, <2>6, Zenon DEF Smallest, Smaller
    <2> QED
      <3> HIDE DEF to, D
      <3> QED
        BY <2>7 DEF Loops
  <1>4. SiftDown(h, prio) = down[<<h, 1>>]
    BY DEF SiftDown
  <1> HIDE DEF down
  <1> DEFINE Right(x) == /\ Permutes(down[x], x[1], n)
                         /\ OrderedBelow(x[1], x[2], prio, n) => Ordered(down[x], prio, n)
             B == {x \in D : ~Right(x)}
  <1>5. B = {}
    <2> SUFFICES ASSUME B # {} PROVE FALSE
      OBVIOUS
    <2>1. PICK x \in B : \A y \in B : m[x] <= m[y]
      <3>1. B \in SUBSET D
        OBVIOUS
      <3> HIDE DEF B, D, m
      <3> QED
        BY <1>1, <3>1, LeastMeasure
    <2>2. x \in D /\ x[1] \in [1 .. n -> Rses] /\ x[2] \in 1 .. n
      OBVIOUS
    <2>3. CASE go[x]
      <3>1. down[x] = down[nx[x]]
        <4> HIDE DEF D, go, nx, out
        <4> QED
          BY <1>3, <2>2, <2>3 DEF Loops
      <3>2. Right(nx[x])
        <4>1. nx[x] \in D /\ m[nx[x]] < m[x] /\ m[x] \in Nat /\ m[nx[x]] \in Nat
          <5> HIDE DEF D, go, nx, m
          <5> QED
            BY <1>1, <1>2, <2>2, <2>3
        <4>2. nx[x] \notin B
          <5> HIDE DEF B, D, nx, m
          <5> QED
            BY <2>1, <4>1
        <4> HIDE DEF D, nx, m
        <4> QED
          BY <4>1, <4>2
      <3>3. Right(x)
        <4> HIDE DEF D, go, nx, out, m
        <4> QED
          BY <1>2, <2>2, <2>3, <3>1, <3>2, PermutesTransitive
      <3> QED
        BY <2>1, <3>3
    <2>4. CASE ~go[x]
      <3>1. down[x] = x[1]
        <4>1. out[x] = x[1]
          BY <2>2
        <4> HIDE DEF D, go, nx, out
        <4> QED
          BY <1>3, <2>2, <2>4, <4>1 DEF Loops
      <3>2. x[2] = to(x)
        BY <2>2, <2>4
      <3>3. \A i \in 2 .. n : i \div 2 = x[2] => prio[x[1][x[2]]] <= prio[x[1][i]]
        <4> DEFINE q == x[1]
                   pos == x[2]
        <4>1. q \in [1 .. n -> Rses] /\ pos \in 1 .. n /\ pos = Smallest(q, pos, prio)
          BY <2>2, <3>2
        <4> HIDE DEF q, pos
        <4>2. \A i \in 2 .. n : i \div 2 = pos => prio[q[pos]] <= prio[q[i]]
          BY <4>1, SmallestIsFirst
        <4> QED
          BY <4>2 DEF q, pos
      <3>4. ASSUME OrderedBelow(x[1], x[2], prio, n)
            PROVE  Ordered(x[1], prio, n)
        <4> SUFFICES ASSUME NEW i \in 2 .. n PROVE prio[x[1][i \div 2]] <= prio[x[1][i]]
          BY DEF Ordered
        <4>1. i \div 2 # x[2] => prio[x[1][i \div 2]] <= prio[x[1][i]]
          BY <3>4 DEF OrderedBelow
        <4>2. CASE i \div 2 = x[2]
          BY <3>3, <4>2, Zenon
        <4> QED
          BY <4>1, <4>2
      <3>5. Permutes(x[1], x[1], n)
        BY <2>2, PermutesItself
      <3> QED
        BY <2>1, <3>1, <3>4, <3>5
    <2> QED
      BY <2>3, <2>4
  <1>6. <<h, 1>> \in D
    OBVIOUS
  <1>7. Right(<<h, 1>>)
    BY <1>5, <1>6
  <1> QED
    BY <1>4, <1>7

\* A sequence of RSEs as a function.
LEMMA SeqIsFunction ==
  /\ \A h \in Seq(Rses) : Len(h) \in Nat /\ h \in [1 .. Len(h) -> Rses] /\ DOMAIN h = 1 .. Len(h)
  /\ \A n \in Nat : \A h \in [1 .. n -> Rses] : h \in Seq(Rses) /\ Len(h) = n
  OBVIOUS

\* What Append does to each position.
LEMMA AppendIsFunction ==
  ASSUME NEW h \in Seq(Rses), NEW r \in Rses
  PROVE  /\ Append(h, r) \in [1 .. Len(h) + 1 -> Rses] /\ Append(h, r)[Len(h) + 1] = r
         /\ \A i \in 1 .. Len(h) : Append(h, r)[i] = h[i]
  <1>1. Append(h, r) \in Seq(Rses) /\ Len(Append(h, r)) = Len(h) + 1
    OBVIOUS
  <1>2. Append(h, r) \in [1 .. Len(Append(h, r)) -> Rses]
    BY <1>1, SeqIsFunction
  <1>3. Append(h, r)[Len(h) + 1] = r /\ \A i \in 1 .. Len(h) : Append(h, r)[i] = h[i]
    OBVIOUS
  <1> QED
    BY <1>1, <1>2, <1>3

\* What is left of a sequence when its end is cut off.
LEMMA SubSeqIsFunction ==
  ASSUME NEW h \in Seq(Rses), NEW l \in 0 .. Len(h)
  PROVE  /\ SubSeq(h, 1, l) \in [1 .. l -> Rses]
         /\ \A i \in 1 .. l : SubSeq(h, 1, l)[i] = h[i]
  <1>1. SubSeq(h, 1, l) \in Seq(Rses) /\ Len(SubSeq(h, 1, l)) = l
    OBVIOUS
  <1>2. SubSeq(h, 1, l) \in [1 .. Len(SubSeq(h, 1, l)) -> Rses]
    BY <1>1, SeqIsFunction
  <1>3. \A i \in 1 .. l : SubSeq(h, 1, l)[i] = h[i]
    OBVIOUS
  <1> QED
    BY <1>1, <1>2, <1>3

\* The heap of a search: every RSE at most once, in order.
IsHeap(h, prio) == h \in Seq(Rses) /\ IsInjective(h) /\ Ordered(h, prio, Len(h))

\* __setitem__ keeps a sequence of RSEs one.
LEMMA SetItemTyped ==
  ASSUME NEW h \in Seq(Rses), NEW r \in Rses, NEW prio \in [Rses -> Nat]
  PROVE  SetItem(h, r, prio) \in Seq(Rses)
  <1>1. CASE \E i \in DOMAIN h : h[i] = r
    <2> DEFINE k == CHOOSE i \in DOMAIN h : h[i] = r
    <2>1. k \in 1 .. Len(h) /\ SetItem(h, r, prio) = SiftUp(h, k, prio)
      BY <1>1 DEF SetItem
    <2> HIDE DEF k
    <2> QED
      BY <2>1, SiftUpWorks, SeqIsFunction DEF Permutes
  <1>2. CASE ~\E i \in DOMAIN h : h[i] = r
    <2> DEFINE g == Append(h, r)
    <2>1. SetItem(h, r, prio) = SiftUp(g, Len(h) + 1, prio)
      BY <1>2 DEF SetItem
    <2>2. g \in [1 .. Len(h) + 1 -> Rses] /\ Len(h) + 1 \in Nat /\ Len(h) + 1 \in 1 .. Len(h) + 1
      BY AppendIsFunction, SeqIsFunction
    <2> HIDE DEF g
    <2>3. SiftUp(g, Len(h) + 1, prio) \in [1 .. Len(h) + 1 -> Rses]
      BY <2>2, SiftUpWorks DEF Permutes
    <2> QED
      BY <2>1, <2>2, <2>3, SeqIsFunction
  <1> QED
    BY <1>1, <1>2

\* __setitem__ of an item whose priority goes down, or that is new, keeps the
\* heap.
LEMMA SetItemWorks ==
  ASSUME NEW h, NEW r \in Rses, NEW old \in [Rses -> Nat], NEW prio \in [Rses -> Nat], IsHeap(h, old),
         prio[r] <= old[r], \A s \in Rses \ {r} : prio[s] = old[s]
  PROVE  IsHeap(SetItem(h, r, prio), prio) /\ Range(SetItem(h, r, prio)) = Range(h) \cup {r}
  <1> DEFINE n == Len(h)
  <1>1. n \in Nat /\ h \in [1 .. n -> Rses] /\ DOMAIN h = 1 .. n /\ h \in Seq(Rses)
    BY SeqIsFunction DEF IsHeap
  <1>2. /\ \A i, k \in 1 .. n : h[i] = h[k] => i = k
        /\ \A i \in 2 .. n : old[h[i \div 2]] <= old[h[i]]
    BY <1>1 DEF IsHeap, IsInjective, Ordered
  <1> HIDE DEF n
  <1>3. CASE \E i \in DOMAIN h : h[i] = r
    <2> DEFINE k == CHOOSE i \in DOMAIN h : h[i] = r
    <2>1. k \in 1 .. n /\ h[k] = r /\ SetItem(h, r, prio) = SiftUp(h, k, prio)
      BY <1>1, <1>3 DEF SetItem
    <2> HIDE DEF k
    <2>2. OrderedAbove(h, k, prio, n)
      <3> SUFFICES ASSUME NEW i \in 2 .. n
                   PROVE  /\ i # k => prio[h[i \div 2]] <= prio[h[i]]
                          /\ i \div 2 = k /\ k > 1 => prio[h[k \div 2]] <= prio[h[i]]
        BY DEF OrderedAbove
      <3>1. i \in 1 .. n /\ i \div 2 \in 1 .. n /\ i \div 2 # i
        BY <1>1
      <3>2. \A j \in 1 .. n : /\ old[h[j]] \in Nat /\ prio[h[j]] \in Nat /\ prio[h[j]] <= old[h[j]]
                              /\ j # k => prio[h[j]] = old[h[j]]
        BY <1>1, <1>2, <2>1
      <3>3. old[h[i \div 2]] <= old[h[i]]
        BY <1>2
      <3>4. i # k => prio[h[i \div 2]] <= prio[h[i]]
        BY <3>1, <3>2, <3>3
      <3>5. ASSUME i \div 2 = k, k > 1
            PROVE  prio[h[k \div 2]] <= prio[h[i]]
        <4>1. k \in 2 .. n /\ k \div 2 \in 1 .. n /\ k \div 2 # k
          BY <1>1, <2>1, <3>5
        <4>2. old[h[k \div 2]] <= old[h[k]]
          BY <1>2, <4>1
        <4>3. prio[h[k \div 2]] = old[h[k \div 2]] /\ prio[h[i]] = old[h[i]]
          BY <3>1, <3>2, <3>5, <4>1
        <4>4. old[h[k]] <= old[h[i]] /\ old[h[k]] \in Nat /\ old[h[i]] \in Nat /\ old[h[k \div 2]] \in Nat
          BY <2>1, <3>1, <3>2, <3>3, <3>5, <4>1
        <4> QED
          BY ONLY <4>2, <4>3, <4>4
      <3> QED
        BY <3>4, <3>5
    <2>3. /\ Permutes(SiftUp(h, k, prio), h, n) /\ Ordered(SiftUp(h, k, prio), prio, n)
      BY <1>1, <2>1, <2>2, SiftUpWorks
    <2>4. Range(h) = Range(h) \cup {r}
      BY <1>1, <2>1 DEF Range
    <2>5. IsInjective(h)
      BY DEF IsHeap
    <2> QED
      BY <1>1, <2>1, <2>3, <2>4, <2>5, SeqIsFunction DEF IsHeap, Permutes
  <1>4. CASE ~\E i \in DOMAIN h : h[i] = r
    <2> DEFINE g == Append(h, r)
               l == n + 1
    <2>1. SetItem(h, r, prio) = SiftUp(g, l, prio)
      BY <1>4 DEF SetItem, n
    <2>2. g \in [1 .. l -> Rses] /\ l \in Nat /\ l \in 1 .. l
      BY <1>1, AppendIsFunction DEF n
    <2>3. g[l] = r /\ \A i \in 1 .. n : g[i] = h[i] /\ h[i] # r /\ i # l
      BY <1>1, <1>4, AppendIsFunction DEF n
    <2> HIDE DEF g
    <2>4. IsInjective(g) /\ Range(g) = Range(h) \cup {r}
      <3>1. DOMAIN g = 1 .. l /\ \A i \in 1 .. l : i = l \/ i \in 1 .. n
        BY <1>1, <2>2
      <3>2. IsInjective(g)
        BY <1>2, <2>3, <3>1 DEF IsInjective
      <3>3. Range(g) = {g[i] : i \in 1 .. l} /\ Range(h) = {h[i] : i \in 1 .. n}
        BY <1>1, <3>1, Zenon DEF Range
      <3>4. \A i \in 1 .. n : i \in 1 .. l
        BY <1>1
      <3>5. {g[i] : i \in 1 .. l} \subseteq {h[i] : i \in 1 .. n} \cup {r}
        BY <2>3, <3>1
      <3>6. {h[i] : i \in 1 .. n} \cup {r} \subseteq {g[i] : i \in 1 .. l}
        BY <2>2, <2>3, <3>4
      <3> QED
        BY <3>2, <3>3, <3>5, <3>6, Zenon
    <2>5. OrderedAbove(g, l, prio, l)
      <3> SUFFICES ASSUME NEW i \in 2 .. l
                   PROVE  /\ i # l => prio[g[i \div 2]] <= prio[g[i]]
                          /\ ~(i \div 2 = l)
        BY DEF OrderedAbove
      <3>1. i \div 2 # l
        BY <1>1
      <3>2. ASSUME i # l PROVE prio[g[i \div 2]] <= prio[g[i]]
        <4>1. i \in 2 .. n /\ i \in 1 .. n /\ i \div 2 \in 1 .. n
          BY <1>1, <3>2
        <4>2. \A j \in 1 .. n : h[j] \in Rses /\ prio[g[j]] = old[h[j]]
          BY <1>1, <2>3
        <4> QED
          BY <1>2, <4>1, <4>2
      <3> QED
        BY <3>1, <3>2
    <2>6. Permutes(SiftUp(g, l, prio), g, l) /\ Ordered(SiftUp(g, l, prio), prio, l)
      <3> HIDE DEF l
      <3> QED
        BY <2>2, <2>5, SiftUpWorks
    <2> HIDE DEF l
    <2> QED
      BY <2>1, <2>2, <2>4, <2>6, SeqIsFunction DEF IsHeap, Permutes
  <1> QED
    BY <1>3, <1>4

\* The first item is taken; the last one takes its place and goes down.
LEMMA PoppedWorks ==
  ASSUME NEW h, NEW prio \in [Rses -> Nat], IsHeap(h, prio), h # <<>>
  PROVE  /\ IsHeap(Popped(h, prio), prio) /\ Range(Popped(h, prio)) = Range(h) \ {h[1]}
         /\ h[1] \in Rses /\ h[1] \in Range(h)
  <1> DEFINE n == Len(h)
             l == n - 1
             g == [SubSeq(h, 1, l) EXCEPT ![1] = h[n]]
  <1>1. n \in Nat /\ n # 0 /\ h \in [1 .. n -> Rses] /\ DOMAIN h = 1 .. n /\ h \in Seq(Rses)
    BY SeqIsFunction DEF IsHeap
  <1>2. /\ \A i, k \in 1 .. n : h[i] = h[k] => i = k
        /\ \A i \in 2 .. n : prio[h[i \div 2]] <= prio[h[i]]
    BY <1>1 DEF IsHeap, IsInjective, Ordered
  <1> HIDE DEF n
  <1>3. h[1] \in Rses /\ h[1] \in Range(h)
    BY <1>1 DEF Range
  <1>4. CASE n = 1
    <2>1. Popped(h, prio) = <<>>
      BY <1>4 DEF Popped, n
    <2>2. <<>> \in Seq(Rses) /\ IsInjective(<<>>) /\ Ordered(<<>>, prio, Len(<<>>)) /\ Range(<<>>) = {}
      BY DEF IsInjective, Ordered, Range
    <2>3. Range(h) = {h[1]}
      BY <1>1, <1>4 DEF Range
    <2> QED
      BY <1>3, <2>1, <2>2, <2>3 DEF IsHeap
  <1>5. CASE n # 1
    <2>1. Popped(h, prio) = SiftDown(g, prio)
      BY <1>5 DEF Popped, n
    <2>2. l \in Nat /\ l # 0 /\ g \in [1 .. l -> Rses] /\ g[1] = h[n] /\ \A i \in 2 .. l : g[i] = h[i]
      <3>1. l \in Nat /\ l # 0 /\ l \in 0 .. Len(h) /\ n \in 1 .. n /\ 1 \in 1 .. l /\ \A i \in 2 .. l : i \in 1 .. l /\ i # 1
        BY <1>1, <1>5 DEF n
      <3>2. SubSeq(h, 1, l) \in [1 .. l -> Rses] /\ \A i \in 1 .. l : SubSeq(h, 1, l)[i] = h[i]
        BY <1>1, <3>1, SubSeqIsFunction
      <3> HIDE DEF l
      <3> QED
        BY <1>1, <3>1, <3>2
    <2> HIDE DEF g
    <2>3. IsInjective(g) /\ Range(g) = Range(h) \ {h[1]}
      <3>1. DOMAIN g = 1 .. l /\ \A i \in 1 .. l : i \in 1 .. n /\ i # n /\ (i = 1 \/ i \in 2 .. l)
        BY <1>1, <2>2
      <3>2. IsInjective(g)
        BY <1>1, <1>2, <2>2, <3>1 DEF IsInjective
      <3>3. Range(g) = {g[i] : i \in 1 .. l} /\ Range(h) = {h[i] : i \in 1 .. n}
        BY <1>1, <3>1, Zenon DEF Range
      <3>4. \A i \in 1 .. l : g[i] \in {h[k] : k \in 1 .. n} \ {h[1]}
        <4> SUFFICES ASSUME NEW i \in 1 .. l PROVE \E k \in 1 .. n : g[i] = h[k] /\ k # 1
          BY <1>1, <1>2
        <4>1. CASE i = 1
          BY <1>1, <1>5, <2>2, <4>1
        <4>2. CASE i # 1
          BY <2>2, <3>1, <4>2
        <4> QED
          BY <4>1, <4>2
      <3>5. \A k \in 1 .. n : k # 1 => \E i \in 1 .. l : g[i] = h[k]
        <4> SUFFICES ASSUME NEW k \in 1 .. n, k # 1 PROVE \E i \in 1 .. l : g[i] = h[k]
          OBVIOUS
        <4>1. CASE k = n
          BY <2>2, <4>1
        <4>2. CASE k # n
          <5>1. k \in 2 .. l /\ k \in 1 .. l
            BY <1>1, <4>2
          <5> QED
            BY <2>2, <5>1
        <4> QED
          BY <4>1, <4>2
      <3>6. {g[i] : i \in 1 .. l} \subseteq {h[i] : i \in 1 .. n} \ {h[1]}
        BY <3>4
      <3>7. {h[i] : i \in 1 .. n} \ {h[1]} \subseteq {g[i] : i \in 1 .. l}
        BY <3>5
      <3> QED
        BY <3>2, <3>3, <3>6, <3>7, Zenon
    <2>4. OrderedBelow(g, 1, prio, l)
      <3> SUFFICES ASSUME NEW i \in 2 .. l, i \div 2 # 1
                   PROVE  prio[g[i \div 2]] <= prio[g[i]]
        BY DEF OrderedBelow
      <3>1. i \div 2 \in 2 .. l /\ i \in 2 .. n
        BY <1>1
      <3>2. g[i \div 2] = h[i \div 2] /\ g[i] = h[i]
        BY <2>2, <3>1
      <3> QED
        BY <1>2, <3>1, <3>2
    <2>5. Permutes(SiftDown(g, prio), g, l) /\ Ordered(SiftDown(g, prio), prio, l)
      <3> HIDE DEF l
      <3> QED
        BY <2>2, <2>4, SiftDownWorks
    <2> HIDE DEF l
    <2> QED
      BY <1>3, <2>1, <2>2, <2>3, <2>5, SeqIsFunction DEF IsHeap, Permutes
  <1> QED
    BY <1>3, <1>4, <1>5

-----------------------------------------------------------------------------
(***************************************************************************)
(* The smallest item, and the queue while a node is visited.               *)
(***************************************************************************)
\* The first item of a heap comes before all others.
LEMMA HeapMin ==
  ASSUME NEW h, NEW prio \in [Rses -> Nat], IsHeap(h, prio)
  PROVE  \A r \in Range(h) : r \in Rses /\ prio[h[1]] <= prio[r]
  <1> DEFINE B == {i \in Nat : i \in 1 .. Len(h) /\ ~(prio[h[1]] <= prio[h[i]])}
  <1>1. Len(h) \in Nat /\ h \in [1 .. Len(h) -> Rses] /\ DOMAIN h = 1 .. Len(h)
    BY SeqIsFunction DEF IsHeap
  <1>2. B = {}
    <2> SUFFICES ASSUME B # {} PROVE FALSE
      OBVIOUS
    <2>1. PICK i \in B : \A k \in B : i <= k
      <3>1. B \in SUBSET Nat
        OBVIOUS
      <3> HIDE DEF B
      <3> QED
        BY <3>1, LeastNumber
    <2>2. i \in 1 .. Len(h) /\ ~(prio[h[1]] <= prio[h[i]])
      OBVIOUS
    <2>3. i # 1 /\ 1 \in 1 .. Len(h) /\ prio[h[1]] \in Nat
      BY <1>1, <2>2
    <2>4. i \in 2 .. Len(h) /\ i \div 2 \in 1 .. Len(h) /\ i \div 2 < i /\ i \div 2 \in Nat
      BY <1>1, <2>2, <2>3
    <2>5. i \div 2 \notin B
      <3> HIDE DEF B
      <3> QED
        BY <2>1, <2>4
    <2>6. prio[h[1]] <= prio[h[i \div 2]]
      BY <2>4, <2>5
    <2>7. prio[h[i \div 2]] <= prio[h[i]]
      BY <2>4 DEF IsHeap, Ordered
    <2>8. prio[h[i \div 2]] \in Nat /\ prio[h[i]] \in Nat
      BY <1>1, <2>2, <2>4
    <2> QED
      BY ONLY <2>2, <2>3, <2>6, <2>7, <2>8
  <1>3. ASSUME NEW r \in Range(h)
        PROVE  r \in Rses /\ prio[h[1]] <= prio[r]
    <2>1. PICK i \in 1 .. Len(h) : r = h[i]
      BY <1>1 DEF Range
    <2>2. prio[h[1]] <= prio[h[i]]
      BY <1>1, <1>2
    <2> QED
      BY <1>1, <2>1, <2>2
  <1> QED
    BY <1>3

\* The greatest of some positions of a sequence.
LEMMA MaxExists ==
  ASSUME NEW n \in Nat, NEW S \in SUBSET (1 .. n), S # {}
  PROVE  Max(S) \in S /\ \A i \in S : i <= Max(S)
  <1> DEFINE T == {k \in Nat : n - k \in S}
  <1>1. T \in SUBSET Nat /\ T # {}
    <2>1. PICK i \in S : TRUE
      OBVIOUS
    <2>2. n - i \in Nat /\ n - (n - i) = i
      OBVIOUS
    <2> QED
      BY <2>1, <2>2
  <1>2. PICK k \in T : \A l \in T : k <= l
    <2> HIDE DEF T
    <2> QED
      BY <1>1, LeastNumber
  <1>3. n - k \in S /\ k \in Nat
    OBVIOUS
  <1>4. ASSUME NEW i \in S PROVE i <= n - k
    <2>1. n - i \in Nat /\ n - (n - i) = i
      OBVIOUS
    <2>2. n - i \in T
      BY <2>1
    <2> HIDE DEF T
    <2> QED
      BY <1>2, <1>3, <2>2
  <1>5. \E x \in S : \A y \in S : x >= y
    <2>1. \A y \in S : n - k >= y
      BY <1>3, <1>4
    <2> QED
      BY <1>3, <2>1
  <1>6. Max(S) \in S /\ \A y \in S : Max(S) >= y
    BY <1>5, Zenon DEF Max
  <1>7. \A y \in S : y \in Int
    OBVIOUS
  <1> QED
    BY <1>6, <1>7

\* A node after the other is put into the queue.
Relaxes(n, d0, h0, K, order) ==
  /\ d0 \in [Rses -> Nat] /\ IsHeap(h0, d0) /\ K \in Nat /\ order \in [1 .. K -> Rses]
  /\ \A i, k \in 1 .. K : order[i] = order[k] => i = k
  /\ \A i \in 1 .. K : Via(n, order[i]) \in Nat /\ Via(n, order[i]) <= d0[order[i]]

\* ... and what becomes of the distances and the queue.
RelaxedTo(n, d0, h0, K, order, q) ==
  /\ q.dist \in [Rses -> Nat] /\ IsHeap(q.heap, q.dist)
  /\ \A i \in 1 .. K : q.dist[order[i]] = Via(n, order[i])
  /\ \A r \in Rses : (\A i \in 1 .. K : order[i] # r) => q.dist[r] = d0[r]
  /\ Range(q.heap) = Range(h0) \cup {order[i] : i \in 1 .. K}

\* The queue after all nodes that came closer were put into it.
LEMMA RelaxedWorks ==
  ASSUME NEW n, NEW d0, NEW h0, NEW K, NEW order, Relaxes(n, d0, h0, K, order)
  PROVE  RelaxedTo(n, d0, h0, K, order, Relaxed(n, [dist |-> d0, heap |-> h0], order))
  <1> DEFINE q == Relaxed(n, [dist |-> d0, heap |-> h0], order)
  <1> USE DEF Relaxes
  <1> DEFINE start == [dist |-> d0, heap |-> h0]
             Q == [dist : [Rses -> Nat], heap : Seq(Rses)]
             nextDist(i, x) == [x.dist EXCEPT ![order[i]] = Via(n, order[i])]
             nextOf(i, x) == [dist |-> nextDist(i, x), heap |-> SetItem(x.heap, order[i], nextDist(i, x))]
             F == [y \in (1 .. K) \X Q |-> nextOf(y[1], y[2])]
             queue[i \in 0 .. Len(order)] ==
               IF i = 0 THEN start
               ELSE LET a == order[i]
                        dist == [queue[i - 1].dist EXCEPT ![a] = Via(n, a)]
                    IN [dist |-> dist, heap |-> SetItem(queue[i - 1].heap, a, dist)]
  <1>1. Len(order) = K /\ start \in Q
    BY SeqIsFunction DEF IsHeap
  <1>2. ASSUME NEW i \in 1 .. K, NEW x \in Q
        PROVE  nextDist(i, x) \in [Rses -> Nat] /\ nextOf(i, x) \in Q
    <2>1. nextDist(i, x) \in [Rses -> Nat]
      OBVIOUS
    <2> HIDE DEF nextDist
    <2>2. SetItem(x.heap, order[i], nextDist(i, x)) \in Seq(Rses)
      BY <2>1, SetItemTyped
    <2> QED
      BY <2>1, <2>2
  <1>3. F \in [(1 .. K) \X Q -> Q]
    <2> HIDE DEF Q, nextOf
    <2> QED
      BY <1>2
  <1>4. queue = [i \in 0 .. K |-> IF i = 0 THEN start ELSE nextOf(i, queue[i - 1])]
    <2>1. PICK f \in [0 .. K -> Q] : Counts(f, K, start, F)
      <3> HIDE DEF Q, F, start
      <3> QED
        BY <1>1, <1>3, CountExists
    <2>2. \A i \in 0 .. K : i # 0 => i \in 1 .. K /\ i - 1 \in 0 .. K
      OBVIOUS
    <2>3. \A i \in 0 .. K : i # 0 => F[<<i, f[i - 1]>>] = nextOf(i, f[i - 1])
      <3> HIDE DEF Q, nextOf
      <3> QED
        BY <2>1, <2>2
    <2>4. f = [i \in 0 .. K |-> IF i = 0 THEN start ELSE nextOf(i, f[i - 1])]
      <3> HIDE DEF Q, nextOf, start, F
      <3> QED
        BY <2>1, <2>3 DEF Counts
    <2>5. f = [i \in 0 .. Len(order) |->
                 IF i = 0 THEN start
                 ELSE LET a == order[i]
                          dist == [f[i - 1].dist EXCEPT ![a] = Via(n, a)]
                      IN [dist |-> dist, heap |-> SetItem(f[i - 1].heap, a, dist)]]
      BY <1>1, <2>4, Zenon
    <2>6. queue = [i \in 0 .. Len(order) |->
                 IF i = 0 THEN start
                 ELSE LET a == order[i]
                          dist == [queue[i - 1].dist EXCEPT ![a] = Via(n, a)]
                      IN [dist |-> dist, heap |-> SetItem(queue[i - 1].heap, a, dist)]]
      BY <2>5, Zenon
    <2> HIDE DEF queue
    <2> QED
      BY <1>1, <2>6, Zenon
  <1>5. q = queue[K]
    <2>1. q = queue[Len(order)]
      BY DEF Relaxed
    <2> HIDE DEF queue
    <2> QED
      BY <1>1, <2>1
  <1> HIDE DEF queue
  <1> DEFINE Right(i) ==
               /\ queue[i] \in Q /\ IsHeap(queue[i].heap, queue[i].dist)
               /\ \A k \in 1 .. i : queue[i].dist[order[k]] = Via(n, order[k])
               /\ \A r \in Rses : (\A k \in 1 .. i : order[k] # r) => queue[i].dist[r] = d0[r]
               /\ Range(queue[i].heap) = Range(h0) \cup {order[k] : k \in 1 .. i}
             B == {i \in Nat : i \in 0 .. K /\ ~Right(i)}
  <1>6. B = {}
    <2> SUFFICES ASSUME B # {} PROVE FALSE
      OBVIOUS
    <2>1. PICK i \in B : \A k \in B : i <= k
      <3>1. B \in SUBSET Nat
        OBVIOUS
      <3> HIDE DEF B
      <3> QED
        BY <3>1, LeastNumber
    <2>2. i \in 0 .. K /\ ~Right(i)
      OBVIOUS
    <2>3. CASE i = 0
      <3>1. queue[0] = start
        <4> HIDE DEF start, nextOf
        <4> QED
          BY <1>4, <2>2, <2>3
      <3>2. 1 .. 0 = {}
        OBVIOUS
      <3>3. queue[0] \in Q /\ queue[0].heap = h0 /\ queue[0].dist = d0
        BY <1>1, <3>1
      <3>4. Right(0)
        BY <3>2, <3>3
      <3> QED
        BY <2>2, <2>3, <3>4
    <2>4. CASE i # 0
      <3> DEFINE x == queue[i - 1]
                 a == order[i]
                 d == nextDist(i, x)
      <3>1. i \in 1 .. K /\ i - 1 \in 0 .. K /\ i - 1 \in Nat /\ i - 1 < i
        BY <2>2, <2>4
      <3>2. Right(i - 1)
        <4>1. i - 1 \notin B
          <5> HIDE DEF B
          <5> QED
            BY <2>1, <3>1
        <4> QED
          BY <3>1, <4>1
      <3>3. queue[i] = [dist |-> d, heap |-> SetItem(x.heap, a, d)]
        <4>1. queue[i] = nextOf(i, x)
          <5> HIDE DEF nextOf, start
          <5> QED
            BY <1>4, <2>2, <2>4
        <4> QED
          BY <4>1
      <3>4. a \in Rses /\ \A k \in 1 .. i - 1 : order[k] # a /\ k \in 1 .. K
        BY <3>1
      <3>5. x.dist[a] = d0[a] /\ Via(n, a) <= x.dist[a] /\ Via(n, a) \in Nat
        BY <3>1, <3>2, <3>4
      <3>6. x \in Q /\ x.dist \in [Rses -> Nat] /\ IsHeap(x.heap, x.dist)
        BY <3>2
      <3>7. d \in [Rses -> Nat] /\ d[a] = Via(n, a) /\ \A s \in Rses \ {a} : d[s] = x.dist[s]
        BY <3>4, <3>5, <3>6
      <3> HIDE DEF d, x, nextDist
      <3>8. IsHeap(SetItem(x.heap, a, d), d) /\ Range(SetItem(x.heap, a, d)) = Range(x.heap) \cup {a}
        <4> DEFINE o == x.dist
                   t == x.heap
        <4>1. a \in Rses /\ o \in [Rses -> Nat] /\ d \in [Rses -> Nat] /\ IsHeap(t, o) /\ d[a] <= o[a]
              /\ \A s \in Rses \ {a} : d[s] = o[s]
          BY <3>4, <3>5, <3>6, <3>7
        <4> HIDE DEF a, o, t
        <4>2. IsHeap(SetItem(t, a, d), d) /\ Range(SetItem(t, a, d)) = Range(t) \cup {a}
          BY <4>1, SetItemWorks
        <4> QED
          BY <4>2 DEF t
      <3>9. queue[i] \in Q /\ queue[i].dist = d /\ queue[i].heap = SetItem(x.heap, a, d)
        <4> DEFINE t == SetItem(x.heap, a, d)
        <4>1. t \in Seq(Rses)
          BY <3>8 DEF IsHeap
        <4>2. queue[i] = [dist |-> d, heap |-> t]
          BY <3>3
        <4> HIDE DEF t
        <4>3. queue[i] \in Q /\ queue[i].dist = d /\ queue[i].heap = t
          BY <3>7, <4>1, <4>2
        <4> QED
          BY <4>3 DEF t
      <3>10. \A k \in 1 .. i : k = i \/ k \in 1 .. i - 1
        BY <3>1
      <3>11. \A k \in 1 .. i - 1 : k \in 1 .. i
        BY <3>1
      <3>12. \A k \in 1 .. i : d[order[k]] = Via(n, order[k])
        <4> SUFFICES ASSUME NEW k \in 1 .. i - 1 PROVE d[order[k]] = Via(n, order[k])
          BY <3>7, <3>10
        <4>1. order[k] \in Rses \ {a}
          BY <3>4
        <4>2. x.dist[order[k]] = Via(n, order[k])
          BY <3>2 DEF x
        <4> QED
          BY <3>7, <4>1, <4>2
      <3>13. \A r \in Rses : (\A k \in 1 .. i : order[k] # r) => d[r] = d0[r]
        <4> SUFFICES ASSUME NEW r \in Rses, \A k \in 1 .. i : order[k] # r PROVE d[r] = d0[r]
          OBVIOUS
        <4>1. r # a /\ \A k \in 1 .. i - 1 : order[k] # r
          BY <3>1, <3>11
        <4>2. x.dist[r] = d0[r]
          BY <3>2, <4>1 DEF x
        <4> QED
          BY <3>7, <4>1, <4>2
      <3>14. Range(queue[i].heap) = Range(h0) \cup {order[k] : k \in 1 .. i}
        <4>1. Range(x.heap) = Range(h0) \cup {order[k] : k \in 1 .. i - 1}
          BY <3>2 DEF x
        <4>2. {order[k] : k \in 1 .. i} = {order[k] : k \in 1 .. i - 1} \cup {a}
          BY <3>1, <3>10, <3>11
        <4> QED
          BY <3>8, <3>9, <4>1, <4>2
      <3>15. Right(i)
        <4> HIDE DEF Q, a
        <4> QED
          BY <3>8, <3>9, <3>12, <3>13, <3>14
      <3> QED
        BY <2>2, <3>15
    <2> QED
      BY <2>3, <2>4
  <1>7. K \in 0 .. K
    OBVIOUS
  <1>8. Right(K)
    BY <1>6, <1>7
  <1> QED
    BY <1>5, <1>8 DEF RelaxedTo

-----------------------------------------------------------------------------
(***************************************************************************)
(* A search s in a graph g.                                                *)
(***************************************************************************)
\* What a search holds.
Searches ==
  [at : {"run"}, req : Requests, from : SUBSET Rses, find : SUBSET Rses, heap : Seq(Rses),
   dist : [Rses -> Nat], hop : [Rses -> Rses], path : [Rses -> Seq(Rses)],
   yielded : Seq(Rses \X Nat), mismatch : SUBSET Rses, disturbed : BOOLEAN]

\* The graph that a search sees.
Graph == [edges |-> edges, linked |-> linked, multihop |-> multihop]

\* The links are between RSEs and have costs.
IsGraph(g) ==
  /\ g.linked \subseteq Pairs
  /\ \A p \in g.linked : g.edges[p] \in Nat

\* From a the search may go to n, at this cost.
Arc(s, g, a, n) ==
  /\ <<a, n>> \in g.linked
  /\ FindMatchingScheme(a, n, IF n = s.req.dst THEN s.req.limit ELSE {}) # {}
  /\ g.multihop # {} \/ n = s.req.dst
Cost(s, g, a, n) == (IF n = s.req.dst THEN 0 ELSE HopPenalty[n]) + g.edges[<<a, n>>]

\* The nodes that the search looks for, and those that it may pass.
Wanted(s, g) == IF g.multihop = {} THEN s.from ELSE {x \in s.from : \E p \in g.linked : p[1] = x}
Allowed(s, g) == {r \in Rses : r \in Wanted(s, g) \/ r \in g.multihop \/ r = s.req.dst}

\* The nodes that have a path, and those in the queue.
Visited(s) == {v \in Rses : s.path[v] # <<>>}
Queued(s) == Range(s.heap)

\* The queue is a heap, and what was taken from it came before what is in it.
QueueRight(s) ==
  /\ IsHeap(s.heap, s.dist)
  /\ s.dist[s.req.dst] = 0
  /\ \A r \in Rses : s.dist[r] <= Infinity
  /\ \A r \in Queued(s) \cup Visited(s) : s.dist[r] < Infinity
  /\ \A v \in Visited(s), r \in Queued(s) : v # r /\ s.dist[v] <= s.dist[r]

\* The nodes are yielded with their distances, in the order of these.
YieldedRight(s) ==
  /\ \A i \in DOMAIN s.yielded : s.yielded[i][1] \in Visited(s) /\ s.yielded[i][2] = s.dist[s.yielded[i][1]]
  /\ \A v \in Visited(s) : \E i \in DOMAIN s.yielded : s.yielded[i][1] = v
  /\ \A i, k \in DOMAIN s.yielded : i <= k => s.yielded[i][2] <= s.yielded[k][2]

\* The next hop of a node is settled, and its distance is by way of it.
HopsRight(s, g) ==
  /\ s.path[s.req.dst] = <<>>
  /\ \A r \in Queued(s) \cup Visited(s) : r # s.req.dst =>
       /\ s.hop[r] = s.req.dst \/ s.hop[r] \in Visited(s)
       /\ ~s.disturbed =>
            /\ r \in Allowed(s, g) /\ Arc(s, g, r, s.hop[r])
            /\ s.dist[r] = s.dist[s.hop[r]] + Cost(s, g, r, s.hop[r])

\* A path goes by the next hops, and the paths of the nodes on it are its ends.
PathsRight(path, hop) ==
  \A v \in Rses : path[v] # <<>> =>
    /\ path[v] = <<v>> \o path[hop[v]]
    /\ \A i \in 1 .. Len(path[v]) : path[path[v][i]] = SubSeq(path[v], i, Len(path[v]))

\* No neighbour of u would be closer by way of u.
Settled(s, g, u) == \A b \in Allowed(s, g) : Arc(s, g, b, u) => s.dist[b] <= s.dist[u] + Cost(s, g, b, u)

\* While the search runs, what is not found yet is looked for, every node with a
\* distance was put into the queue, and those that left it are settled.
RunRight(s, g) ==
  /\ s.find = Wanted(s, g) \ Visited(s)
  /\ \A r \in Rses : s.dist[r] < Infinity =>
       r \in Allowed(s, g) /\ (r = s.req.dst \/ r \in Visited(s) \cup Queued(s))
  /\ \A u \in Rses : u \notin Queued(s) /\ (u = s.req.dst \/ u \in Visited(s)) => Settled(s, g, u)

\* The search has ended: all nodes that are closer than b are settled, and all
\* that were looked for and can be reached are found within b.
FinishedRight(s, g) ==
  \E b \in 0 .. Infinity :
    /\ \A u \in Allowed(s, g) : s.dist[u] < b => Settled(s, g, u)
    /\ \A r \in Wanted(s, g) : s.dist[r] <= b /\ (r \notin Visited(s) => s.dist[r] = Infinity)

\* What an undisturbed search has done so far.
ProgressRight(s, g) == ~s.disturbed => IF s.heap = <<>> THEN FinishedRight(s, g) ELSE RunRight(s, g)

\* The invariant of a search.
SearchRight(s, g) ==
  /\ s \in Searches /\ s.from \subseteq s.req.sources
  /\ QueueRight(s) /\ YieldedRight(s) /\ HopsRight(s, g) /\ PathsRight(s.path, s.hop) /\ ProgressRight(s, g)

\* The types of the fields of a search.
LEMMA SearchTyped ==
  ASSUME NEW s \in Searches
  PROVE  /\ s.req \in Requests /\ s.req.dst \in Rses /\ s.req.sources \subseteq Rses \ {s.req.dst}
         /\ s.from \subseteq Rses /\ s.find \subseteq Rses /\ s.heap \in Seq(Rses)
         /\ s.dist \in [Rses -> Nat] /\ s.hop \in [Rses -> Rses] /\ s.path \in [Rses -> Seq(Rses)]
         /\ s.yielded \in Seq(Rses \X Nat) /\ s.disturbed \in BOOLEAN
  BY TopologyAssumption DEF Searches

\* An arc links RSEs and its cost is a number.
LEMMA ArcTyped ==
  ASSUME NEW s, NEW g, IsGraph(g), NEW a, NEW n, Arc(s, g, a, n)
  PROVE  a \in Rses /\ n \in Rses /\ Cost(s, g, a, n) \in Nat
  <1>1. <<a, n>> \in Rses \X Rses /\ g.edges[<<a, n>>] \in Nat
    BY DEF Arc, IsGraph, Pairs
  <1>2. a \in Rses /\ n \in Rses
    BY <1>1
  <1> QED
    BY <1>1, <1>2, TopologyAssumption DEF Cost

\* The node that is popped.
LEMMA FirstUp ==
  ASSUME NEW s, NEW g, SearchRight(s, g), s.heap # <<>>, NEW n, n = s.heap[1]
  PROVE  /\ n \in Rses /\ n \in Queued(s) /\ n \notin Visited(s) /\ s.dist[n] \in Nat
         /\ \A r \in Queued(s) : r \in Rses /\ s.dist[n] <= s.dist[r]
         /\ \A v \in Visited(s) : s.dist[v] <= s.dist[n]
         /\ s.dist[n] < Infinity
  <1>1. s.dist \in [Rses -> Nat] /\ IsHeap(s.heap, s.dist)
    BY SearchTyped DEF SearchRight, QueueRight
  <1>2. n \in Rses /\ n \in Queued(s)
    BY <1>1, PoppedWorks DEF Queued
  <1>3. \A r \in Queued(s) : r \in Rses /\ s.dist[n] <= s.dist[r]
    BY <1>1, HeapMin DEF Queued
  <1> QED
    BY <1>1, <1>2, <1>3 DEF SearchRight, QueueRight

\* A node in front of a path.
LEMMA InFront ==
  ASSUME NEW n \in Rses, NEW q \in Seq(Rses), NEW p, p = <<n>> \o q
  PROVE  /\ p \in Seq(Rses) /\ Len(p) = Len(q) + 1 /\ p[1] = n /\ p # <<>>
         /\ \A i \in 2 .. Len(p) : i - 1 \in 1 .. Len(q) /\ p[i] = q[i - 1]
         /\ SubSeq(p, 1, Len(p)) = p
         /\ \A i \in 2 .. Len(p) : SubSeq(p, i, Len(p)) = SubSeq(q, i - 1, Len(q))
  <1>1. <<n>> \in Seq(Rses) /\ Len(<<n>>) = 1 /\ <<n>>[1] = n
    OBVIOUS
  <1>2. p \in Seq(Rses) /\ Len(p) = Len(q) + 1 /\ p[1] = n /\ Len(q) \in Nat
    BY <1>1
  <1>3. \A i \in 2 .. Len(p) : i - 1 \in 1 .. Len(q) /\ p[i] = q[i - 1]
    BY <1>1, <1>2
  <1>4. SubSeq(p, 1, Len(p)) = p
    BY <1>2
  <1>5. ASSUME NEW i \in 2 .. Len(p)
        PROVE  SubSeq(p, i, Len(p)) = SubSeq(q, i - 1, Len(q))
    <2> DEFINE a == SubSeq(p, i, Len(p))
               b == SubSeq(q, i - 1, Len(q))
               m == Len(p) - i + 1
    <2>1. m \in Nat /\ i - 1 \in 1 .. Len(q) /\ m = Len(q) - (i - 1) + 1
      BY <1>2
    <2>2. a \in Seq(Rses) /\ Len(a) = m /\ \A k \in 1 .. m : a[k] = p[i + k - 1]
      BY <1>2
    <2>3. b \in Seq(Rses) /\ Len(b) = m /\ \A k \in 1 .. m : b[k] = q[i - 1 + k - 1]
      BY <1>2, <2>1
    <2>4. \A k \in 1 .. m : i + k - 1 \in 2 .. Len(p) /\ p[i + k - 1] = q[i - 1 + k - 1]
      BY <1>2, <1>3, <2>1
    <2>5. \A k \in 1 .. m : a[k] = b[k]
      BY <2>2, <2>3, <2>4
    <2> HIDE DEF a, b, m
    <2> QED
      BY <2>1, <2>2, <2>3, <2>5
  <1> QED
    BY <1>2, <1>3, <1>4, <1>5

\* The ends of a path.
LEMMA PathEnds ==
  ASSUME NEW p \in Seq(Rses), NEW i \in 1 .. Len(p)
  PROVE  /\ p[i] \in Rses /\ Len(p) \in Nat /\ SubSeq(p, i, Len(p)) # <<>>
         /\ Len(SubSeq(p, i, Len(p))) = Len(p) - i + 1 /\ SubSeq(p, i, Len(p))[1] = p[i]
         /\ \A k \in 1 .. Len(p) - i + 1 : SubSeq(p, i, Len(p))[k] = p[i + k - 1]
  <1>1. p[i] \in Rses /\ Len(p) \in Nat
    BY SeqIsFunction
  <1>2. Len(SubSeq(p, i, Len(p))) = Len(p) - i + 1 /\ SubSeq(p, i, Len(p))[1] = p[i]
    BY <1>1
  <1>3. Len(<<>>) = 0 /\ Len(p) - i + 1 # 0
    BY <1>1
  <1>4. \A k \in 1 .. Len(p) - i + 1 : SubSeq(p, i, Len(p))[k] = p[i + k - 1]
    BY <1>1
  <1> QED
    BY <1>1, <1>2, <1>3, <1>4

\* The paths after a node has been visited.
PathStep(path, hop, dst, n, new, hop2) ==
  /\ path \in [Rses -> Seq(Rses)] /\ hop \in [Rses -> Rses] /\ dst \in Rses /\ path[dst] = <<>>
  /\ PathsRight(path, hop) /\ n \in Rses /\ n # dst /\ path[n] = <<>>
  /\ \A v \in Rses : path[v] # <<>> \/ v = n => hop[v] = dst \/ path[hop[v]] # <<>>
  /\ new = [path EXCEPT ![n] = <<n>> \o path[hop[n]]]
  /\ hop2 \in [Rses -> Rses] /\ \A v \in Rses : path[v] # <<>> \/ v = n => hop2[v] = hop[v]

\* A path that grows by one node in front stays right, and so do all others.
LEMMA PathGrows ==
  ASSUME NEW path, NEW hop, NEW dst, NEW n, NEW new, NEW hop2, PathStep(path, hop, dst, n, new, hop2)
  PROVE  /\ new \in [Rses -> Seq(Rses)] /\ new[dst] = <<>> /\ PathsRight(new, hop2)
         /\ new[n] # <<>> /\ \A v \in Rses \ {n} : new[v] = path[v]
  <1> USE DEF PathStep
  <1> DEFINE h == hop[n]
             q == path[h]
             p == <<n>> \o q
  <1>1. h \in Rses /\ q \in Seq(Rses) /\ h # n
    OBVIOUS
  <1>2. /\ p \in Seq(Rses) /\ Len(p) = Len(q) + 1 /\ p[1] = n /\ p # <<>>
        /\ \A i \in 2 .. Len(p) : i - 1 \in 1 .. Len(q) /\ p[i] = q[i - 1]
        /\ SubSeq(p, 1, Len(p)) = p
        /\ \A i \in 2 .. Len(p) : SubSeq(p, i, Len(p)) = SubSeq(q, i - 1, Len(q))
    BY <1>1, InFront
  <1>3. new[n] = p /\ (\A v \in Rses \ {n} : new[v] = path[v]) /\ new \in [Rses -> Seq(Rses)] /\ new[dst] = <<>>
    BY <1>2
  <1> HIDE DEF p
  <1>4. ASSUME NEW v \in Rses, path[v] # <<>>
        PROVE  /\ path[v] = <<v>> \o path[hop[v]] /\ hop[v] \in Rses \ {n} /\ v # n /\ hop2[v] = hop[v]
               /\ \A i \in 1 .. Len(path[v]) :
                    path[v][i] \in Rses \ {n} /\ path[path[v][i]] = SubSeq(path[v], i, Len(path[v]))
    <2>1. path[v] \in Seq(Rses) /\ path[v] = <<v>> \o path[hop[v]] /\ hop[v] \in Rses \ {n} /\ v # n /\ hop2[v] = hop[v]
      BY <1>4 DEF PathsRight
    <2>2. \A i \in 1 .. Len(path[v]) : path[path[v][i]] = SubSeq(path[v], i, Len(path[v]))
      BY <1>4 DEF PathsRight
    <2>3. \A i \in 1 .. Len(path[v]) : path[v][i] \in Rses /\ SubSeq(path[v], i, Len(path[v])) # <<>>
      BY <2>1, PathEnds
    <2> QED
      BY <2>1, <2>2, <2>3
  <1>5. ASSUME NEW v \in Rses, new[v] # <<>>, v # n
        PROVE  /\ new[v] = <<v>> \o new[hop2[v]]
               /\ \A i \in 1 .. Len(new[v]) : new[new[v][i]] = SubSeq(new[v], i, Len(new[v]))
    <2>1. new[v] = path[v] /\ path[v] # <<>>
      BY <1>3, <1>5
    <2>2. new[hop2[v]] = path[hop[v]]
      BY <1>3, <1>4, <2>1
    <2>3. \A i \in 1 .. Len(path[v]) : new[path[v][i]] = SubSeq(path[v], i, Len(path[v]))
      BY <1>3, <1>4, <2>1
    <2>4. path[v] = <<v>> \o path[hop[v]]
      BY <1>4, <2>1
    <2> QED
      BY <2>1, <2>2, <2>3, <2>4
  <1>6. new[n] = <<n>> \o new[hop2[n]]
    BY <1>1, <1>3 DEF p
  <1>7. ASSUME NEW i \in 1 .. Len(p)
        PROVE  new[p[i]] = SubSeq(p, i, Len(p))
    <2>1. CASE i = 1
      BY <1>2, <1>3, <2>1
    <2>2. CASE i # 1
      <3>1. Len(p) \in Nat /\ i \in 2 .. Len(p)
        BY <1>1, <1>2, <2>2
      <3>2. i - 1 \in 1 .. Len(q) /\ p[i] = q[i - 1] /\ SubSeq(p, i, Len(p)) = SubSeq(q, i - 1, Len(q))
        BY <1>2, <3>1
      <3>3. q # <<>>
        <4>1. Len(<<>>) = 0 /\ ~(i - 1 \in 1 .. 0)
          BY <3>1
        <4> QED
          BY <3>2, <4>1
      <3>4. q[i - 1] \in Rses \ {n} /\ path[q[i - 1]] = SubSeq(q, i - 1, Len(q))
        BY <1>1, <1>4, <3>2, <3>3
      <3> QED
        BY <1>3, <3>2, <3>4
    <2> QED
      BY <2>1, <2>2
  <1>8. PathsRight(new, hop2)
    <2> SUFFICES ASSUME NEW v \in Rses, new[v] # <<>>
                 PROVE  /\ new[v] = <<v>> \o new[hop2[v]]
                        /\ \A i \in 1 .. Len(new[v]) : new[new[v][i]] = SubSeq(new[v], i, Len(new[v]))
      BY Zenon DEF PathsRight
    <2>1. CASE v = n
      <3>1. \A i \in 1 .. Len(new[n]) : new[new[n][i]] = SubSeq(new[n], i, Len(new[n]))
        BY <1>3, <1>7, Zenon
      <3> QED
        BY <1>6, <2>1, <3>1, Zenon
    <2>2. CASE v # n
      BY <1>5, <2>2
    <2> QED
      BY <2>1, <2>2
  <1> QED
    BY <1>2, <1>3, <1>8

-----------------------------------------------------------------------------
(***************************************************************************)
(* A step of the search.                                                   *)
(***************************************************************************)
\* What the loop of dijkstra_spf does with the node n: the nodes of B are closer
\* by way of it.
Visits(s, t, g, n, B) ==
  /\ SearchRight(s, g) /\ IsGraph(g) /\ s.heap # <<>> /\ n = s.heap[1]
  /\ t \in Searches /\ t.req = s.req /\ t.from = s.from /\ t.disturbed = s.disturbed
  /\ t.find = IF n = s.req.dst THEN s.find ELSE s.find \ {n}
  /\ t.path = IF n = s.req.dst THEN s.path ELSE [s.path EXCEPT ![n] = <<n>> \o s.path[s.hop[n]]]
  /\ t.yielded = IF n = s.req.dst THEN s.yielded ELSE Append(s.yielded, <<n, s.dist[n]>>)
  /\ B \subseteq Rses
  /\ \A a \in B : /\ Arc(s, g, a, n) /\ s.dist[n] + Cost(s, g, a, n) < s.dist[a]
                  /\ ~s.disturbed => a \in Allowed(s, g)
  /\ \A r \in Rses : t.hop[r] = IF r \in B THEN n ELSE s.hop[r]
  /\ \A r \in Rses : t.dist[r] = IF r \in B THEN s.dist[n] + Cost(s, g, r, n) ELSE s.dist[r]
  /\ IsHeap(t.heap, t.dist)
  /\ Queued(t) \subseteq (Queued(s) \ {n}) \cup B

\* What does not depend on where the search stands.
LEMMA SameQuestion ==
  ASSUME NEW s, NEW t, NEW g, t.req = s.req, t.from = s.from
  PROVE  /\ \A a, n : (Arc(t, g, a, n) <=> Arc(s, g, a, n)) /\ Cost(t, g, a, n) = Cost(s, g, a, n)
         /\ Wanted(t, g) = Wanted(s, g) /\ Allowed(t, g) = Allowed(s, g)
  BY DEF Arc, Cost, Wanted, Allowed

\* The distances of nodes that were visited stay.
LEMMA VisitFacts ==
  ASSUME NEW s, NEW t, NEW g, NEW n, NEW B, Visits(s, t, g, n, B)
  PROVE  /\ \A a \in B : /\ a \in Rses \ {n, s.req.dst} /\ a \notin Visited(s) /\ t.dist[a] = s.dist[n] + Cost(s, g, a, n)
                         /\ Cost(s, g, a, n) \in Nat /\ t.dist[a] < s.dist[a] /\ s.dist[n] <= t.dist[a]
         /\ \A r \in Rses : r \notin B => t.dist[r] = s.dist[r] /\ t.hop[r] = s.hop[r]
         /\ \A r \in Rses : t.dist[r] <= s.dist[r] /\ t.dist[r] \in Nat /\ s.dist[r] \in Nat
         /\ n \notin B /\ s.req.dst \notin B
  <1>1. /\ n \in Rses /\ n \in Queued(s) /\ n \notin Visited(s) /\ s.dist[n] \in Nat
        /\ \A r \in Queued(s) : r \in Rses /\ s.dist[n] <= s.dist[r]
        /\ \A v \in Visited(s) : s.dist[v] <= s.dist[n]
        /\ s.dist[n] < Infinity
    BY FirstUp DEF Visits
  <1>2. s.dist \in [Rses -> Nat] /\ t.dist \in [Rses -> Nat] /\ s.req.dst \in Rses
    BY SearchTyped DEF SearchRight, Visits
  <1>3. s.dist[s.req.dst] = 0 /\ Visited(s) \subseteq Rses
    BY DEF Visits, SearchRight, QueueRight, Visited
  <1>4. ASSUME NEW a \in B
        PROVE  /\ a \in Rses \ {n, s.req.dst} /\ a \notin Visited(s) /\ t.dist[a] = s.dist[n] + Cost(s, g, a, n)
               /\ Cost(s, g, a, n) \in Nat /\ t.dist[a] < s.dist[a] /\ s.dist[n] <= t.dist[a]
    <2>1. a \in Rses /\ Arc(s, g, a, n) /\ s.dist[n] + Cost(s, g, a, n) < s.dist[a] /\ t.dist[a] = s.dist[n] + Cost(s, g, a, n)
      BY <1>4 DEF Visits
    <2>2. Cost(s, g, a, n) \in Nat
      BY <2>1, ArcTyped DEF Visits
    <2>3. s.dist[n] <= t.dist[a] /\ s.dist[n] < s.dist[a] /\ t.dist[a] < s.dist[a]
      BY <1>1, <1>2, <2>1, <2>2
    <2>4. a # n /\ a # s.req.dst
      BY <1>1, <1>2, <1>3, <2>1, <2>3
    <2>5. a \notin Visited(s)
      BY <1>1, <1>2, <1>3, <2>1, <2>3
    <2> QED
      BY <2>1, <2>2, <2>3, <2>4, <2>5
  <1>5. \A r \in Rses : r \notin B => t.dist[r] = s.dist[r] /\ t.hop[r] = s.hop[r]
    BY DEF Visits
  <1>6. \A r \in Rses : t.dist[r] <= s.dist[r] /\ t.dist[r] \in Nat /\ s.dist[r] \in Nat
    BY <1>2, <1>4, <1>5
  <1>7. n \notin B /\ s.req.dst \notin B
    BY <1>4
  <1> QED
    BY <1>4, <1>5, <1>6, <1>7

\* The paths after a visit: one more node has one.
LEMMA VisitPaths ==
  ASSUME NEW s, NEW t, NEW g, NEW n, NEW B, Visits(s, t, g, n, B)
  PROVE  /\ Visited(t) = Visited(s) \cup ({n} \ {s.req.dst})
         /\ PathsRight(t.path, t.hop) /\ t.path[s.req.dst] = <<>>
  <1>1. n \in Rses /\ n \in Queued(s) /\ n \notin Visited(s)
    BY FirstUp DEF Visits
  <1>2. /\ s.path \in [Rses -> Seq(Rses)] /\ s.hop \in [Rses -> Rses] /\ s.req.dst \in Rses
        /\ t.path \in [Rses -> Seq(Rses)] /\ t.hop \in [Rses -> Rses]
    BY SearchTyped DEF SearchRight, Visits
  <1>3. /\ s.path[s.req.dst] = <<>> /\ PathsRight(s.path, s.hop) /\ s.path[n] = <<>>
        /\ \A r \in Queued(s) \cup Visited(s) : r # s.req.dst => s.hop[r] = s.req.dst \/ s.hop[r] \in Visited(s)
    BY <1>1 DEF Visits, SearchRight, HopsRight, Visited
  <1>4. \A v \in Rses : s.path[v] # <<>> \/ v = n => t.hop[v] = s.hop[v]
    <2>1. \A v \in Rses : s.path[v] # <<>> => v \in Visited(s)
      BY DEF Visited
    <2>2. \A v \in B : v # n /\ v \notin Visited(s)
      BY VisitFacts
    <2>3. \A r \in Rses : r \notin B => t.hop[r] = s.hop[r]
      BY VisitFacts
    <2> QED
      BY <2>1, <2>2, <2>3
  <1>5. CASE n = s.req.dst
    <2>1. t.path = s.path
      BY <1>5 DEF Visits
    <2>2. Visited(t) = Visited(s)
      BY <2>1 DEF Visited
    <2>3. PathsRight(t.path, t.hop)
      <3> SUFFICES ASSUME NEW v \in Rses, s.path[v] # <<>>
                   PROVE  /\ s.path[v] = <<v>> \o s.path[t.hop[v]]
                          /\ \A i \in 1 .. Len(s.path[v]) : s.path[s.path[v][i]] = SubSeq(s.path[v], i, Len(s.path[v]))
        BY <2>1, Zenon DEF PathsRight
      <3>1. t.hop[v] = s.hop[v]
        BY <1>4
      <3> QED
        BY <1>3, <3>1, Zenon DEF PathsRight
    <2> QED
      BY <1>3, <1>5, <2>1, <2>2, <2>3
  <1>6. CASE n # s.req.dst
    <2>1. t.path = [s.path EXCEPT ![n] = <<n>> \o s.path[s.hop[n]]]
      BY <1>6 DEF Visits
    <2>2. \A v \in Rses : s.path[v] # <<>> \/ v = n => s.hop[v] = s.req.dst \/ s.path[s.hop[v]] # <<>>
      <3> SUFFICES ASSUME NEW v \in Rses, s.path[v] # <<>> \/ v = n
                   PROVE  s.hop[v] = s.req.dst \/ s.path[s.hop[v]] # <<>>
        OBVIOUS
      <3>1. v \in Queued(s) \cup Visited(s)
        BY <1>1 DEF Visited
      <3>2. v # s.req.dst
        BY <1>3, <1>6
      <3>3. s.hop[v] = s.req.dst \/ s.hop[v] \in Visited(s)
        BY <1>3, <3>1, <3>2
      <3> QED
        BY <3>3 DEF Visited
    <2>3. /\ t.path[s.req.dst] = <<>> /\ PathsRight(t.path, t.hop)
          /\ t.path[n] # <<>> /\ \A v \in Rses \ {n} : t.path[v] = s.path[v]
      <3> DEFINE path == s.path
                 hop == s.hop
                 dst == s.req.dst
                 new == t.path
                 hop2 == t.hop
      <3>1. /\ path \in [Rses -> Seq(Rses)] /\ hop \in [Rses -> Rses] /\ dst \in Rses /\ path[dst] = <<>>
            /\ PathsRight(path, hop) /\ n \in Rses /\ n # dst /\ path[n] = <<>>
            /\ \A v \in Rses : path[v] # <<>> \/ v = n => hop[v] = dst \/ path[hop[v]] # <<>>
            /\ new = [path EXCEPT ![n] = <<n>> \o path[hop[n]]]
            /\ hop2 \in [Rses -> Rses] /\ \A v \in Rses : path[v] # <<>> \/ v = n => hop2[v] = hop[v]
        BY <1>1, <1>2, <1>3, <1>4, <1>6, <2>1, <2>2
      <3> HIDE DEF path, hop, dst, new, hop2
      <3>2. PathStep(path, hop, dst, n, new, hop2)
        BY <3>1, Zenon DEF PathStep
      <3>3. new[dst] = <<>> /\ PathsRight(new, hop2) /\ new[n] # <<>> /\ \A v \in Rses \ {n} : new[v] = path[v]
        BY <3>2, PathGrows
      <3> QED
        BY <3>3 DEF path, hop, dst, new, hop2
    <2>4. Visited(t) = Visited(s) \cup {n}
      BY <1>1, <2>3 DEF Visited
    <2> QED
      BY <1>6, <2>3, <2>4
  <1> QED
    BY <1>5, <1>6

\* The queue after a visit.
LEMMA VisitQueue ==
  ASSUME NEW s, NEW t, NEW g, NEW n, NEW B, Visits(s, t, g, n, B)
  PROVE  QueueRight(t)
  <1> DEFINE dst == s.req.dst
  <1>1. /\ n \in Rses /\ n \in Queued(s) /\ n \notin Visited(s) /\ s.dist[n] \in Nat
        /\ \A r \in Queued(s) : r \in Rses /\ s.dist[n] <= s.dist[r]
        /\ \A v \in Visited(s) : s.dist[v] <= s.dist[n]
        /\ s.dist[n] < Infinity
    BY FirstUp DEF Visits
  <1>2. /\ \A a \in B : /\ a \in Rses \ {n, dst} /\ a \notin Visited(s)
                        /\ t.dist[a] < s.dist[a] /\ s.dist[n] <= t.dist[a]
        /\ \A r \in Rses : r \notin B => t.dist[r] = s.dist[r]
        /\ \A r \in Rses : t.dist[r] <= s.dist[r] /\ t.dist[r] \in Nat /\ s.dist[r] \in Nat
        /\ n \notin B /\ dst \notin B
    BY VisitFacts
  <1>3. Visited(t) \subseteq Visited(s) \cup {n}
    <2>1. Visited(t) = Visited(s) \cup ({n} \ {s.req.dst})
      BY VisitPaths
    <2> QED
      BY <2>1
  <1>4. /\ t.req.dst = dst /\ dst \in Rses /\ IsHeap(t.heap, t.dist)
        /\ Queued(t) \subseteq (Queued(s) \ {n}) \cup B
    BY SearchTyped DEF SearchRight, Visits
  <1>5. /\ s.dist[dst] = 0 /\ Visited(s) \subseteq Rses /\ Infinity \in Nat
        /\ \A r \in Rses : s.dist[r] <= Infinity
        /\ \A r \in Queued(s) \cup Visited(s) : s.dist[r] < Infinity
        /\ \A v \in Visited(s), r \in Queued(s) : v # r
    BY DEF Visits, SearchRight, QueueRight, Visited, Infinity
  <1> HIDE DEF dst
  <1>6. t.dist[dst] = 0 /\ \A r \in Rses : t.dist[r] <= Infinity
    BY <1>2, <1>4, <1>5
  <1>7. \A r \in Queued(t) \cup Visited(t) : t.dist[r] < Infinity
    <2> SUFFICES ASSUME NEW r \in Queued(t) \cup Visited(t) PROVE t.dist[r] < Infinity
      OBVIOUS
    <2>1. CASE r \in B
      BY <1>2, <1>5, <2>1
    <2>2. CASE r \notin B
      <3>1. r \in Queued(s) \cup Visited(s)
        BY <1>1, <1>3, <1>4, <2>2
      <3>2. r \in Rses
        BY <1>1, <1>5, <3>1
      <3> QED
        BY <1>2, <1>5, <2>2, <3>1, <3>2
    <2> QED
      BY <2>1, <2>2
  <1>8. ASSUME NEW v \in Visited(t), NEW r \in Queued(t)
        PROVE  v # r /\ t.dist[v] <= t.dist[r]
    <2>1. v \in Rses /\ v \notin B /\ t.dist[v] = s.dist[v] /\ s.dist[v] <= s.dist[n] /\ s.dist[v] \in Nat
      BY <1>1, <1>2, <1>3, <1>5
    <2>2. CASE r \in B
      BY <1>1, <1>2, <2>1, <2>2
    <2>3. CASE r \notin B
      <3>1. r \in Queued(s) /\ r # n /\ r \in Rses
        BY <1>1, <1>4, <2>3
      <3>2. t.dist[r] = s.dist[r] /\ s.dist[n] <= s.dist[r] /\ s.dist[r] \in Nat
        BY <1>1, <1>2, <2>3, <3>1
      <3> QED
        BY <1>1, <1>3, <1>5, <2>1, <3>1, <3>2
    <2> QED
      BY <2>2, <2>3
  <1> QED
    BY <1>4, <1>6, <1>7, <1>8 DEF QueueRight

\* The nodes that were handed over, after a visit.
LEMMA VisitYields ==
  ASSUME NEW s, NEW t, NEW g, NEW n, NEW B, Visits(s, t, g, n, B)
  PROVE  YieldedRight(t)
  <1>1. /\ n \in Rses /\ n \notin Visited(s) /\ s.dist[n] \in Nat
        /\ \A v \in Visited(s) : s.dist[v] <= s.dist[n]
    BY FirstUp DEF Visits
  <1>2. /\ s.dist \in [Rses -> Nat] /\ t.dist \in [Rses -> Nat] /\ s.yielded \in Seq(Rses \X Nat)
        /\ Visited(s) \subseteq Rses
    BY SearchTyped DEF Visits, SearchRight, Visited
  <1>3. /\ \A i \in DOMAIN s.yielded : s.yielded[i][1] \in Visited(s) /\ s.yielded[i][2] = s.dist[s.yielded[i][1]]
        /\ \A v \in Visited(s) : \E i \in DOMAIN s.yielded : s.yielded[i][1] = v
        /\ \A i, k \in DOMAIN s.yielded : i <= k => s.yielded[i][2] <= s.yielded[k][2]
    BY DEF Visits, SearchRight, YieldedRight
  <1>4. \A v \in Visited(s) \cup {n} : t.dist[v] = s.dist[v]
    <2>1. \A v \in B : v \notin Visited(s) /\ v # n
      BY VisitFacts
    <2>2. \A r \in Rses : r \notin B => t.dist[r] = s.dist[r]
      BY VisitFacts
    <2> QED
      BY <1>1, <1>2, <2>1, <2>2
  <1>5. Visited(t) = Visited(s) \cup ({n} \ {s.req.dst})
    BY VisitPaths
  <1>6. CASE n = s.req.dst
    <2>1. t.yielded = s.yielded /\ Visited(t) = Visited(s)
      BY <1>5, <1>6 DEF Visits
    <2>2. \A i \in DOMAIN s.yielded : s.yielded[i][1] \in Visited(s) /\ s.yielded[i][2] = t.dist[s.yielded[i][1]]
      BY <1>3, <1>4
    <2> QED
      BY <1>3, <2>1, <2>2, Zenon DEF YieldedRight
  <1>7. CASE n # s.req.dst
    <2> DEFINE y == s.yielded
               z == t.yielded
               m == Len(y)
               e == <<n, s.dist[n]>>
    <2>1. z = Append(y, e) /\ Visited(t) = Visited(s) \cup {n}
      BY <1>5, <1>7 DEF Visits
    <2>2. e \in Rses \X Nat /\ e[1] = n /\ e[2] = s.dist[n]
      BY <1>1
    <2>3. m \in Nat /\ DOMAIN y = 1 .. m
      BY <1>2
    <2> HIDE DEF e
    <2>4. DOMAIN z = 1 .. m + 1 /\ z[m + 1] = e /\ \A i \in 1 .. m : z[i] = y[i]
      BY <1>2, <2>1, <2>2, <2>3
    <2>5. \A i \in 1 .. m + 1 : i = m + 1 \/ i \in 1 .. m
      BY <2>3
    <2>6. \A i \in 1 .. m : y[i][1] \in Visited(s) /\ y[i][2] = s.dist[y[i][1]] /\ y[i][2] = t.dist[y[i][1]] /\ y[i][2] <= s.dist[n]
      BY <1>1, <1>3, <1>4, <2>3
    <2> HIDE DEF y, z, m
    <2>7. \A i \in 1 .. m + 1 : z[i][1] \in Visited(t) /\ z[i][2] = t.dist[z[i][1]]
      <3>1. z[m + 1][1] \in Visited(t) /\ z[m + 1][2] = t.dist[z[m + 1][1]]
        BY <1>4, <2>1, <2>2, <2>4
      <3>2. \A i \in 1 .. m : z[i][1] \in Visited(t) /\ z[i][2] = t.dist[z[i][1]]
        BY <2>1, <2>4, <2>6
      <3> QED
        BY <2>5, <3>1, <3>2
    <2>8. \A v \in Visited(t) : \E i \in 1 .. m + 1 : z[i][1] = v
      <3> SUFFICES ASSUME NEW v \in Visited(t) PROVE \E i \in 1 .. m + 1 : z[i][1] = v
        OBVIOUS
      <3>1. CASE v = n
        <4>1. m + 1 \in 1 .. m + 1 /\ z[m + 1][1] = n
          BY <2>2, <2>3, <2>4
        <4> QED
          BY <3>1, <4>1
      <3>2. CASE v \in Visited(s)
        <4>1. PICK i \in 1 .. m : y[i][1] = v
          BY <1>3, <2>3, <3>2 DEF y
        <4>2. i \in 1 .. m + 1 /\ z[i][1] = v
          BY <2>3, <2>4, <4>1
        <4> QED
          BY <4>2
      <3> QED
        BY <2>1, <3>1, <3>2
    <2>9. \A i, k \in 1 .. m + 1 : i <= k => z[i][2] <= z[k][2]
      <3> SUFFICES ASSUME NEW i \in 1 .. m + 1, NEW k \in 1 .. m + 1, i <= k PROVE z[i][2] <= z[k][2]
        OBVIOUS
      <3>1. CASE k \in 1 .. m
        <4>1. i \in 1 .. m
          BY <2>3, <3>1
        <4>2. y[i][2] <= y[k][2]
          BY <1>3, <2>3, <3>1, <4>1 DEF y
        <4> QED
          BY <2>4, <3>1, <4>1, <4>2
      <3>2. CASE k = m + 1
        <4>1. CASE i = m + 1
          BY <1>1, <2>2, <2>4, <3>2, <4>1
        <4>2. CASE i \in 1 .. m
          BY <2>2, <2>4, <2>6, <3>2, <4>2
        <4> QED
          BY <2>5, <4>1, <4>2
      <3> QED
        BY <2>5, <3>1, <3>2
    <2> QED
      BY <2>4, <2>7, <2>8, <2>9, Zenon DEF YieldedRight, z
  <1> QED
    BY <1>6, <1>7

\* The next hops after a visit.
LEMMA VisitHops ==
  ASSUME NEW s, NEW t, NEW g, NEW n, NEW B, Visits(s, t, g, n, B)
  PROVE  HopsRight(t, g)
  <1> DEFINE dst == s.req.dst
  <1>1. n \in Rses /\ n \in Queued(s) /\ n \notin Visited(s) /\ \A r \in Queued(s) : r \in Rses
    BY FirstUp DEF Visits
  <1>2. /\ \A a \in B : /\ a \in Rses \ {n, dst} /\ a \notin Visited(s)
                        /\ t.dist[a] = s.dist[n] + Cost(s, g, a, n)
        /\ \A r \in Rses : r \notin B => t.dist[r] = s.dist[r] /\ t.hop[r] = s.hop[r]
        /\ n \notin B /\ dst \notin B
    BY VisitFacts
  <1>3. Visited(t) = Visited(s) \cup ({n} \ {dst}) /\ t.path[dst] = <<>>
    BY VisitPaths
  <1>4. /\ t.req.dst = dst /\ dst \in Rses /\ t.disturbed = s.disturbed
        /\ Queued(t) \subseteq (Queued(s) \ {n}) \cup B
        /\ \A a \in B : Arc(s, g, a, n) /\ t.hop[a] = n /\ (~s.disturbed => a \in Allowed(s, g))
    BY SearchTyped DEF SearchRight, Visits
  <1>5. /\ Visited(s) \subseteq Rses
        /\ \A r \in Queued(s) \cup Visited(s) : r # dst =>
             /\ s.hop[r] = dst \/ s.hop[r] \in Visited(s)
             /\ ~s.disturbed =>
                  /\ r \in Allowed(s, g) /\ Arc(s, g, r, s.hop[r])
                  /\ s.dist[r] = s.dist[s.hop[r]] + Cost(s, g, r, s.hop[r])
    BY DEF Visits, SearchRight, HopsRight, Visited
  <1>6. /\ \A a, m : (Arc(t, g, a, m) <=> Arc(s, g, a, m)) /\ Cost(t, g, a, m) = Cost(s, g, a, m)
        /\ Allowed(t, g) = Allowed(s, g) /\ Wanted(t, g) = Wanted(s, g)
    BY SameQuestion DEF Visits
  <1> HIDE DEF dst
  <1>7. ASSUME NEW r \in Queued(t) \cup Visited(t), r # dst
        PROVE  /\ t.hop[r] = dst \/ t.hop[r] \in Visited(t)
               /\ ~t.disturbed =>
                    /\ r \in Allowed(t, g) /\ Arc(t, g, r, t.hop[r])
                    /\ t.dist[r] = t.dist[t.hop[r]] + Cost(t, g, r, t.hop[r])
    <2>1. CASE r \in B
      <3>1. t.hop[r] = n /\ t.dist[n] = s.dist[n]
        BY <1>1, <1>2, <1>4, <2>1
      <3> QED
        BY <1>2, <1>3, <1>4, <1>6, <2>1, <3>1
    <2>2. CASE r \notin B
      <3>1. r \in Queued(s) \cup Visited(s) /\ r \in Rses
        BY <1>1, <1>3, <1>4, <1>5, <1>7, <2>2
      <3>2. t.hop[r] = s.hop[r] /\ t.dist[r] = s.dist[r]
        BY <1>2, <2>2, <3>1
      <3>3. s.hop[r] = dst \/ s.hop[r] \in Visited(s)
        BY <1>5, <1>7, <3>1
      <3>4. s.hop[r] \in Rses /\ s.hop[r] \notin B
        BY <1>2, <1>4, <1>5, <3>3
      <3>5. t.dist[s.hop[r]] = s.dist[s.hop[r]]
        BY <1>2, <3>4
      <3>6. t.hop[r] = dst \/ t.hop[r] \in Visited(t)
        BY <1>3, <3>2, <3>3
      <3>7. ~t.disturbed =>
              /\ r \in Allowed(t, g) /\ Arc(t, g, r, t.hop[r])
              /\ t.dist[r] = t.dist[t.hop[r]] + Cost(t, g, r, t.hop[r])
        BY <1>4, <1>5, <1>6, <1>7, <3>1, <3>2, <3>5
      <3> QED
        BY <3>6, <3>7
    <2> QED
      BY <2>1, <2>2
  <1>8. t.path[t.req.dst] = <<>>
    BY <1>3, <1>4
  <1>9. \A r \in Queued(t) \cup Visited(t) : r # t.req.dst =>
          /\ t.hop[r] = t.req.dst \/ t.hop[r] \in Visited(t)
          /\ ~t.disturbed =>
               /\ r \in Allowed(t, g) /\ Arc(t, g, r, t.hop[r])
               /\ t.dist[r] = t.dist[t.hop[r]] + Cost(t, g, r, t.hop[r])
    BY <1>4, <1>7
  <1> QED
    BY <1>8, <1>9, Zenon DEF HopsRight

\* All that are closer than n have been visited: the search looks at its
\* neighbours, and goes on.
LEMMA VisitGoesOn ==
  ASSUME NEW s, NEW t, NEW g, NEW n, NEW B, Visits(s, t, g, n, B), ~s.disturbed,
         Queued(t) = (Queued(s) \ {n}) \cup B,
         \A a \in t.find \cup g.multihop : Arc(s, g, a, n) /\ s.dist[n] + Cost(s, g, a, n) < s.dist[a] => a \in B
  PROVE  RunRight(t, g)
  <1> DEFINE dst == s.req.dst
  <1>1. /\ n \in Rses /\ n \in Queued(s) /\ n \notin Visited(s) /\ s.dist[n] \in Nat
        /\ \A v \in Visited(s) : s.dist[v] <= s.dist[n]
    BY FirstUp DEF Visits
  <1>2. /\ \A a \in B : a \in Rses \ {n, dst} /\ a \notin Visited(s) /\ t.dist[a] = s.dist[n] + Cost(s, g, a, n)
        /\ \A r \in Rses : r \notin B => t.dist[r] = s.dist[r]
        /\ n \notin B /\ dst \notin B
    BY VisitFacts
  <1>3. \A r \in Rses : t.dist[r] <= s.dist[r] /\ t.dist[r] \in Nat /\ s.dist[r] \in Nat
    BY VisitFacts
  <1>4. Visited(t) = Visited(s) \cup ({n} \ {dst})
    BY VisitPaths
  <1>5. /\ t.req.dst = dst /\ dst \in Rses
        /\ t.find = IF n = dst THEN s.find ELSE s.find \ {n}
        /\ \A a \in B : a \in Allowed(s, g)
    BY SearchTyped DEF SearchRight, Visits
  <1>6. RunRight(s, g) /\ s.dist[dst] = 0
    BY DEF Visits, SearchRight, ProgressRight, QueueRight
  <1>7. /\ \A a, m : (Arc(t, g, a, m) <=> Arc(s, g, a, m)) /\ Cost(t, g, a, m) = Cost(s, g, a, m)
        /\ Allowed(t, g) = Allowed(s, g) /\ Wanted(t, g) = Wanted(s, g)
    BY SameQuestion DEF Visits
  <1>8. Visited(s) \subseteq Rses /\ Allowed(s, g) \subseteq Rses
    BY DEF Visited, Allowed
  <1> HIDE DEF dst
  <1>9. t.find = Wanted(t, g) \ Visited(t)
    <2>1. s.find = Wanted(s, g) \ Visited(s)
      BY <1>6 DEF RunRight
    <2> QED
      BY <1>4, <1>5, <1>7, <2>1
  <1>10. ASSUME NEW r \in Rses, t.dist[r] < Infinity
         PROVE  r \in Allowed(t, g) /\ (r = dst \/ r \in Visited(t) \cup Queued(t))
    <2>1. CASE r \in B
      BY <1>5, <1>7, <2>1
    <2>2. CASE r \notin B
      <3>1. s.dist[r] < Infinity
        BY <1>2, <1>10, <2>2
      <3>2. r \in Allowed(s, g) /\ (r = dst \/ r \in Visited(s) \cup Queued(s))
        BY <1>6, <3>1 DEF RunRight, dst
      <3> QED
        BY <1>4, <1>7, <3>2
    <2> QED
      BY <2>1, <2>2
  <1>11. ASSUME NEW u \in Rses, u \notin Queued(t), u = dst \/ u \in Visited(t)
         PROVE  Settled(t, g, u)
    <2> SUFFICES ASSUME NEW b \in Allowed(s, g), Arc(s, g, b, u)
                 PROVE  t.dist[b] <= t.dist[u] + Cost(s, g, b, u)
      BY <1>7 DEF Settled
    <2>1. b \in Rses /\ Cost(s, g, b, u) \in Nat
      <3>1. IsGraph(g)
        BY DEF Visits
      <3> QED
        BY <3>1, <1>8, ArcTyped
    <2>2. /\ t.dist[b] <= s.dist[b] /\ t.dist[b] \in Nat /\ s.dist[b] \in Nat
          /\ t.dist[u] \in Nat /\ s.dist[u] \in Nat
      BY <1>3, <2>1
    <2>3. u \notin B /\ t.dist[u] = s.dist[u]
      BY <1>2, <1>4, <1>11
    <2>4. CASE u # n
      <3>1. Settled(s, g, u)
        BY <1>4, <1>6, <1>11, <2>4 DEF RunRight, dst
      <3>2. s.dist[b] <= s.dist[u] + Cost(s, g, b, u)
        BY <3>1 DEF Settled
      <3> QED
        BY <2>1, <2>2, <2>3, <3>2
    <2>5. CASE u = n
      <3>1. CASE b \in B
        BY <1>2, <2>2, <2>3, <2>5, <3>1
      <3>2. CASE b \in t.find \cup g.multihop /\ b \notin B
        <4>1. ~(s.dist[n] + Cost(s, g, b, n) < s.dist[b])
          BY <2>5, <3>2
        <4> QED
          BY <2>1, <2>2, <2>3, <2>5, <4>1
      <3>3. CASE b = dst
        BY <1>2, <1>6, <2>1, <2>2, <2>3, <3>3
      <3>4. CASE b \in Visited(t)
        <4>1. s.dist[b] <= s.dist[n]
          BY <1>1, <1>4, <3>4
        <4> QED
          BY <2>1, <2>2, <2>3, <2>5, <4>1
      <3>5. b \in Wanted(s, g) \/ b \in g.multihop \/ b = dst
        BY DEF Allowed, dst
      <3> QED
        BY <1>7, <1>9, <3>1, <3>2, <3>3, <3>4, <3>5
    <2> QED
      BY <2>4, <2>5
  <1> QED
    BY <1>5, <1>9, <1>10, <1>11, Zenon DEF RunRight

\* The queue is empty, and all that can be reached was visited.
LEMMA RunOut ==
  ASSUME NEW s, NEW g, s \in Searches, QueueRight(s), RunRight(s, g), s.heap = <<>>, s.from \subseteq s.req.sources
  PROVE  FinishedRight(s, g)
  <1>1. Queued(s) = {}
    BY DEF Queued, Range
  <1>2. s.req.dst \in Rses /\ s.req.dst \notin s.from /\ s.dist \in [Rses -> Nat] /\ s.from \subseteq Rses
    BY SearchTyped
  <1>3. Infinity \in 0 .. Infinity
    BY DEF Infinity
  <1>4. \A u \in Allowed(s, g) : s.dist[u] < Infinity => Settled(s, g, u)
    BY <1>1 DEF RunRight, Allowed
  <1>5. Wanted(s, g) \subseteq s.from
    BY DEF Wanted
  <1>6. \A r \in Wanted(s, g) : s.dist[r] <= Infinity /\ (r \notin Visited(s) => s.dist[r] = Infinity)
    <2> SUFFICES ASSUME NEW r \in Wanted(s, g)
                 PROVE  s.dist[r] <= Infinity /\ (r \notin Visited(s) => s.dist[r] = Infinity)
      OBVIOUS
    <2>1. r \in Rses /\ r # s.req.dst /\ s.dist[r] \in Nat /\ Infinity \in Nat
      BY <1>2, <1>5 DEF Infinity
    <2>2. s.dist[r] <= Infinity
      BY <2>1 DEF QueueRight
    <2>3. s.dist[r] < Infinity => r \in Visited(s)
      BY <1>1, <2>1 DEF RunRight
    <2> QED
      BY <2>1, <2>2, <2>3
  <1> QED
    BY <1>3, <1>4, <1>6 DEF FinishedRight

\* The last node that was looked for is found.
LEMMA VisitStops ==
  ASSUME NEW s, NEW t, NEW g, NEW n, Visits(s, t, g, n, {}), ~s.disturbed, n # s.req.dst, t.find = {}
  PROVE  FinishedRight(t, g)
  <1> DEFINE b == s.dist[n]
  <1>1. /\ n \in Rses /\ n \in Queued(s) /\ n \notin Visited(s) /\ b \in Nat /\ b < Infinity
        /\ \A r \in Queued(s) : r \in Rses /\ b <= s.dist[r]
        /\ \A v \in Visited(s) : s.dist[v] <= b
    BY FirstUp DEF Visits
  <1>2. \A r \in Rses : t.dist[r] = s.dist[r] /\ s.dist[r] \in Nat
    BY VisitFacts
  <1>3. Visited(t) = Visited(s) \cup {n}
    BY VisitPaths
  <1>4. RunRight(s, g) /\ t.find = s.find \ {n}
    BY DEF Visits, SearchRight, ProgressRight
  <1>5. /\ \A a, m : (Arc(t, g, a, m) <=> Arc(s, g, a, m)) /\ Cost(t, g, a, m) = Cost(s, g, a, m)
        /\ Allowed(t, g) = Allowed(s, g) /\ Wanted(t, g) = Wanted(s, g)
    BY SameQuestion DEF Visits
  <1>6. b \in 0 .. Infinity
    BY <1>1 DEF Infinity
  <1>7. ASSUME NEW u \in Allowed(t, g), t.dist[u] < b
        PROVE  Settled(t, g, u)
    <2>1. u \in Rses /\ s.dist[u] < b
      BY <1>2, <1>7 DEF Allowed
    <2>2. s.dist[u] < Infinity /\ u \notin Queued(s)
      BY <1>1, <1>2, <2>1 DEF Infinity
    <2>3. Settled(s, g, u)
      BY <1>4, <2>1, <2>2 DEF RunRight
    <2> QED
      BY <1>2, <1>5, <2>1, <2>3 DEF Settled, Allowed
  <1>8. ASSUME NEW r \in Wanted(t, g)
        PROVE  t.dist[r] <= b /\ r \in Visited(t)
    <2>1. r \in Visited(t)
      BY <1>3, <1>4, <1>5, <1>8 DEF RunRight
    <2>2. r \in Rses
      BY <2>1 DEF Visited
    <2> QED
      BY <1>1, <1>2, <1>3, <2>1, <2>2
  <1> HIDE DEF b
  <1> QED
    BY <1>6, <1>7, <1>8, Zenon DEF FinishedRight

\* The nodes of a set in some order.
LEMMA OrderOf ==
  ASSUME NEW S \in SUBSET Rses, NEW order \in SetToSeqs(S)
  PROVE  \E K \in Nat : /\ order \in [1 .. K -> Rses] /\ \A i, k \in 1 .. K : order[i] = order[k] => i = k
                        /\ {order[i] : i \in 1 .. K} = S
  <1> DEFINE K == Cardinality(S)
  <1>1. IsFiniteSet(S) /\ K \in Nat
    BY ExpressionAssumption, FS_Subset, FS_CardinalityType
  <1>2. order \in [1 .. K -> S] /\ \A i, k \in 1 .. K : order[i] = order[k] => i = k
    BY DEF SetToSeqs
  <1>3. Cardinality(1 .. K) = K
    BY <1>1, FS_Interval
  <1> HIDE DEF K
  <1>4. order \in Injection(1 .. K, S)
    BY <1>2 DEF Injection, IsInjective
  <1>5. order \in Surjection(1 .. K, S)
    BY <1>1, <1>3, <1>4, FS_Injection DEF K
  <1>6. \A x \in S : \E i \in 1 .. K : order[i] = x
    BY <1>5 DEF Surjection
  <1>7. {order[i] : i \in 1 .. K} = S
    BY <1>2, <1>6
  <1> QED
    BY <1>1, <1>2, <1>7

\* A visit keeps the search right.
LEMMA VisitsRight ==
  ASSUME NEW s, NEW t, NEW g, NEW n, NEW B, Visits(s, t, g, n, B), ProgressRight(t, g)
  PROVE  SearchRight(t, g)
  <1>1. QueueRight(t)
    BY VisitQueue
  <1>2. YieldedRight(t)
    BY VisitYields
  <1>3. HopsRight(t, g)
    BY VisitHops
  <1>4. PathsRight(t.path, t.hop)
    BY VisitPaths
  <1>5. t \in Searches /\ t.from \subseteq t.req.sources
    BY DEF Visits, SearchRight
  <1> QED
    BY <1>1, <1>2, <1>3, <1>4, <1>5 DEF SearchRight

\* The fields of the graph that a search sees.
LEMMA GraphFields == Graph.edges = edges /\ Graph.linked = linked /\ Graph.multihop = multihop
  BY DEF Graph

\* The nodes that come closer, as the search sees them.
LEMMA CloserNodes ==
  ASSUME search \in Searches, IsGraph(Graph), multihop \subseteq Rses, NEW n \in Rses, NEW find \in SUBSET Rses
  PROVE  /\ Closer(n, find) \subseteq Rses
         /\ \A a : Arc(search, Graph, a, n) =>
              /\ Via(n, a) \in Nat /\ Via(n, a) = search.dist[n] + Cost(search, Graph, a, n)
         /\ \A a : a \in {x \in Closer(n, find) : Enabled(x, n)} <=>
              /\ a \in find \cup multihop /\ Arc(search, Graph, a, n)
              /\ search.dist[n] + Cost(search, Graph, a, n) < search.dist[a]
  <1>1. Closer(n, find) \subseteq Rses
    BY DEF Closer, Neighbours
  <1>2. ASSUME NEW a, Arc(search, Graph, a, n)
        PROVE  Via(n, a) \in Nat /\ Via(n, a) = search.dist[n] + Cost(search, Graph, a, n)
    <2> DEFINE e == edges[<<a, n>>]
               p == IF n = search.req.dst THEN 0 ELSE HopPenalty[n]
               d == search.dist[n]
    <2>1. e \in Nat /\ p \in Nat /\ d \in Nat
      BY <1>2, GraphFields, SearchTyped, TopologyAssumption DEF Arc, IsGraph
    <2>2. Via(n, a) = (d + p) + e /\ Cost(search, Graph, a, n) = p + e
      BY GraphFields DEF Via, Cost
    <2> HIDE DEF e, p, d
    <2>3. Via(n, a) \in Nat /\ Via(n, a) = d + Cost(search, Graph, a, n)
      BY <2>1, <2>2
    <2> QED
      BY <2>3 DEF d
  <1>3. \A a : <<a, n>> \in linked /\ (multihop # {} \/ n = search.req.dst) /\ Enabled(a, n) <=> Arc(search, Graph, a, n)
    BY GraphFields DEF Arc, Enabled
  <1>4. \A a : a \in {x \in Closer(n, find) : Enabled(x, n)} <=>
          /\ a \in find \cup multihop /\ Arc(search, Graph, a, n) /\ Via(n, a) < search.dist[a]
    BY <1>3 DEF Closer, Neighbours
  <1> QED
    BY <1>1, <1>2, <1>4

\* Whatever a visit does, the search stays right.
LEMMA VisitKeeps ==
  ASSUME SearchRight(search, Graph), IsGraph(Graph), multihop \subseteq Rses, Visit
  PROVE  SearchRight(search', Graph)
  <1> DEFINE n == search.heap[1]
             isDst == n = search.req.dst
             hop == search.hop[n]
             find == IF isDst THEN search.find ELSE search.find \ {n}
             better == {a \in Closer(n, find) : Enabled(a, n)}
             rest == [dist |-> search.dist, heap |-> Popped(search.heap, search.dist)]
             path == IF isDst THEN search.path ELSE [search.path EXCEPT ![n] = <<n>> \o search.path[hop]]
             yielded == IF isDst THEN search.yielded ELSE Append(search.yielded, <<n, search.dist[n]>>)
             seen == [search EXCEPT !.find = find, !.path = path, !.yielded = yielded]
  <1>1. search \in Searches /\ search.heap # <<>>
    BY DEF SearchRight, Visit
  <1>2. /\ search.req.dst \in Rses /\ search.find \subseteq Rses /\ search.heap \in Seq(Rses)
        /\ search.dist \in [Rses -> Nat] /\ search.hop \in [Rses -> Rses] /\ search.path \in [Rses -> Seq(Rses)]
        /\ search.yielded \in Seq(Rses \X Nat)
    BY <1>1, SearchTyped
  <1>3. n \in Rses /\ n \in Queued(search) /\ n \notin Visited(search)
    BY <1>1, FirstUp
  <1>4. find \in SUBSET Rses
    BY <1>2
  <1>5. path \in [Rses -> Seq(Rses)]
    <2>1. hop \in Rses /\ search.path[hop] \in Seq(Rses)
      BY <1>2, <1>3
    <2>2. <<n>> \o search.path[hop] \in Seq(Rses)
      BY <1>3, <2>1, InFront
    <2> HIDE DEF n, hop
    <2> QED
      BY <1>2, <2>2
  <1>6. yielded \in Seq(Rses \X Nat)
    BY <1>2, <1>3
  <1>7. /\ Closer(n, find) \subseteq Rses
        /\ \A a : Arc(search, Graph, a, n) => Via(n, a) \in Nat /\ Via(n, a) = search.dist[n] + Cost(search, Graph, a, n)
        /\ \A a : a \in better <=> /\ a \in find \cup multihop /\ Arc(search, Graph, a, n)
                                   /\ search.dist[n] + Cost(search, Graph, a, n) < search.dist[a]
    <2> HIDE DEF n, find
    <2> QED
      BY <1>1, <1>3, <1>4, CloserNodes
  <1>8. better \subseteq Rses
    BY <1>7
  <1>9. ~search.disturbed => \A a \in better : a \in Allowed(search, Graph)
    <2> SUFFICES ASSUME ~search.disturbed, NEW a \in better PROVE a \in Allowed(search, Graph)
      OBVIOUS
    <2>1. search.find = Wanted(search, Graph) \ Visited(search)
      BY <1>1 DEF SearchRight, ProgressRight, RunRight
    <2>2. a \in Rses /\ a \in find \cup multihop
      BY <1>7, <1>8
    <2> QED
      BY <2>1, <2>2, GraphFields DEF Allowed
  <1>10. CASE /\ ~isDst /\ find = {}
              /\ search' = [seen EXCEPT !.heap = <<>>]
    <2>1. /\ search' \in Searches /\ search'.req = search.req /\ search'.from = search.from
          /\ search'.disturbed = search.disturbed /\ search'.find = find /\ search'.path = path
          /\ search'.yielded = yielded /\ search'.heap = <<>> /\ search'.dist = search.dist /\ search'.hop = search.hop
      <3>1. <<>> \in Seq(Rses)
        OBVIOUS
      <3> HIDE DEF find, path, yielded
      <3> QED
        BY <1>1, <1>4, <1>5, <1>6, <1>10, <3>1 DEF Searches
    <2>2. IsHeap(search'.heap, search'.dist) /\ Queued(search') = {}
      BY <2>1 DEF IsHeap, IsInjective, Ordered, Queued, Range
    <2>3. Visits(search, search', Graph, n, {})
      BY <1>1, <2>1, <2>2 DEF Visits
    <2>4. ~search.disturbed => FinishedRight(search', Graph)
      <3> HIDE DEF n, find
      <3> QED
        BY <1>10, <2>1, <2>3, VisitStops
    <2>5. ProgressRight(search', Graph)
      BY <2>1, <2>4 DEF ProgressRight
    <2> HIDE DEF n
    <2> QED
      BY <2>3, <2>5, VisitsRight
  <1>11. ASSUME NEW order \in SetToSeqs(better),
                LET queue == Relaxed(n, rest, order)
                IN search' = [seen EXCEPT
                     !.dist = queue.dist,
                     !.heap = queue.heap,
                     !.hop = [r \in Rses |-> IF r \in better THEN n ELSE @[r]],
                     !.mismatch = @ \cup (Closer(n, find) \ better)]
         PROVE  SearchRight(search', Graph)
    <2> DEFINE q == Relaxed(n, rest, order)
               h0 == Popped(search.heap, search.dist)
               d0 == search.dist
               hop2 == [r \in Rses |-> IF r \in better THEN n ELSE search.hop[r]]
               mismatch == search.mismatch \cup (Closer(n, find) \ better)
    <2>1. IsHeap(h0, d0) /\ Range(h0) = Queued(search) \ {n}
      <3>1. IsHeap(search.heap, search.dist)
        BY DEF SearchRight, QueueRight
      <3> QED
        BY <1>1, <1>2, <3>1, PoppedWorks DEF Queued
    <2>2. PICK K \in Nat : /\ order \in [1 .. K -> Rses] /\ \A i, k \in 1 .. K : order[i] = order[k] => i = k
                           /\ {order[i] : i \in 1 .. K} = better
      <3> HIDE DEF better
      <3> QED
        BY <1>8, <1>11, OrderOf
    <2>3. \A i \in 1 .. K : Via(n, order[i]) \in Nat /\ Via(n, order[i]) <= d0[order[i]]
      <3> SUFFICES ASSUME NEW i \in 1 .. K PROVE Via(n, order[i]) \in Nat /\ Via(n, order[i]) <= d0[order[i]]
        OBVIOUS
      <3>1. order[i] \in better /\ order[i] \in Rses
        <4> HIDE DEF better
        <4> QED
          BY <2>2
      <3>2. Via(n, order[i]) \in Nat /\ Via(n, order[i]) < d0[order[i]] /\ d0[order[i]] \in Nat
        <4> HIDE DEF better, n, find
        <4> QED
          BY <1>2, <1>7, <3>1
      <3> HIDE DEF n, d0
      <3> QED
        BY <3>2
    <2>4. /\ q.dist \in [Rses -> Nat] /\ IsHeap(q.heap, q.dist)
          /\ \A i \in 1 .. K : q.dist[order[i]] = Via(n, order[i])
          /\ \A r \in Rses : (\A i \in 1 .. K : order[i] # r) => q.dist[r] = d0[r]
          /\ Range(q.heap) = Range(h0) \cup {order[i] : i \in 1 .. K}
      <3>1. d0 \in [Rses -> Nat]
        BY <1>2
      <3>2. q = Relaxed(n, [dist |-> d0, heap |-> h0], order)
        OBVIOUS
      <3>3. Relaxes(n, d0, h0, K, order)
        BY <2>1, <2>2, <2>3, <3>1 DEF Relaxes
      <3>4. RelaxedTo(n, d0, h0, K, order, q)
        <4> HIDE DEF d0, h0, n
        <4> QED
          BY <3>2, <3>3, RelaxedWorks
      <3> HIDE DEF d0, h0, n, q
      <3> QED
        BY <3>4 DEF RelaxedTo
    <2>5. hop2 \in [Rses -> Rses] /\ mismatch \in SUBSET Rses
      BY <1>1, <1>2, <1>3, <1>7 DEF Searches
    <2>6. search' = [seen EXCEPT !.dist = q.dist, !.heap = q.heap, !.hop = hop2, !.mismatch = mismatch]
      <3>1. seen.hop = search.hop /\ seen.mismatch = search.mismatch
        <4> HIDE DEF find, path, yielded
        <4> QED
          BY <1>1 DEF Searches
      <3>2. search' = [seen EXCEPT !.dist = q.dist, !.heap = q.heap,
                         !.hop = [r \in Rses |-> IF r \in better THEN n ELSE seen.hop[r]],
                         !.mismatch = seen.mismatch \cup (Closer(n, find) \ better)]
        <4> HIDE DEF seen, q, better, n, find
        <4> QED
          BY <1>11 DEF q
      <3> HIDE DEF seen, q, better, n, find
      <3> QED
        BY <3>1, <3>2
    <2>7. /\ search' \in Searches /\ search'.req = search.req /\ search'.from = search.from
          /\ search'.disturbed = search.disturbed /\ search'.find = find /\ search'.path = path
          /\ search'.yielded = yielded /\ search'.heap = q.heap /\ search'.dist = q.dist /\ search'.hop = hop2
      <3>1. q.heap \in Seq(Rses)
        BY <2>4 DEF IsHeap
      <3> HIDE DEF find, path, yielded, q, hop2, mismatch
      <3> QED
        BY <1>1, <1>4, <1>5, <1>6, <2>4, <2>5, <2>6, <3>1 DEF Searches
    <2>8. \A r \in Rses : search'.hop[r] = IF r \in better THEN n ELSE search.hop[r]
      BY <2>7
    <2>9. \A r \in Rses : search'.dist[r] = IF r \in better THEN search.dist[n] + Cost(search, Graph, r, n) ELSE search.dist[r]
      <3> SUFFICES ASSUME NEW r \in Rses
                   PROVE  q.dist[r] = IF r \in better THEN search.dist[n] + Cost(search, Graph, r, n) ELSE search.dist[r]
        BY <2>7
      <3>1. CASE r \in better
        <4>1. PICK i \in 1 .. K : order[i] = r
          <5> HIDE DEF better
          <5> QED
            BY <2>2, <3>1
        <4>2. q.dist[r] = Via(n, r)
          <5> HIDE DEF n, q
          <5> QED
            BY <2>4, <4>1
        <4>3. Via(n, r) = search.dist[n] + Cost(search, Graph, r, n)
          <5> HIDE DEF n, better, find
          <5> QED
            BY <1>7, <3>1
        <4> HIDE DEF better, q, n
        <4> QED
          BY <3>1, <4>2, <4>3
      <3>2. CASE r \notin better
        <4>1. \A i \in 1 .. K : order[i] # r
          <5> HIDE DEF better
          <5> QED
            BY <2>2, <3>2
        <4>2. q.dist[r] = d0[r]
          <5> HIDE DEF q, d0
          <5> QED
            BY <2>4, <4>1
        <4> HIDE DEF better, q, n
        <4> QED
          BY <3>2, <4>2
      <3> QED
        BY <3>1, <3>2
    <2>10. IsHeap(search'.heap, search'.dist) /\ Queued(search') = (Queued(search) \ {n}) \cup better
      <3> HIDE DEF better, n, q, h0, d0
      <3> QED
        BY <2>1, <2>2, <2>4, <2>7 DEF Queued
    <2>11. \A a \in better : /\ Arc(search, Graph, a, n) /\ search.dist[n] + Cost(search, Graph, a, n) < search.dist[a]
                             /\ ~search.disturbed => a \in Allowed(search, Graph)
      <3> HIDE DEF better, n, find
      <3> QED
        BY <1>7, <1>9
    <2>12. Visits(search, search', Graph, n, better)
      <3>1. search'.find = IF n = search.req.dst THEN search.find ELSE search.find \ {n}
        BY <2>7
      <3>2. search'.path = IF n = search.req.dst THEN search.path ELSE [search.path EXCEPT ![n] = <<n>> \o search.path[search.hop[n]]]
        BY <2>7
      <3>3. search'.yielded = IF n = search.req.dst THEN search.yielded ELSE Append(search.yielded, <<n, search.dist[n]>>)
        BY <2>7
      <3>4. n = search.heap[1]
        OBVIOUS
      <3> HIDE DEF better, n, find, path, yielded, q, hop2
      <3> QED
        BY <1>1, <1>8, <2>7, <2>8, <2>9, <2>10, <2>11, <3>1, <3>2, <3>3, <3>4 DEF Visits
    <2>13. ~search.disturbed => RunRight(search', Graph)
      <3>1. \A a \in search'.find \cup Graph.multihop :
              Arc(search, Graph, a, n) /\ search.dist[n] + Cost(search, Graph, a, n) < search.dist[a] => a \in better
        <4> HIDE DEF better, n, find
        <4> QED
          BY <1>7, <2>7, GraphFields
      <3> HIDE DEF better, n
      <3> QED
        BY <2>10, <2>12, <3>1, VisitGoesOn
    <2>14. ProgressRight(search', Graph)
      <3>1. QueueRight(search')
        <4> HIDE DEF n, better
        <4> QED
          BY <2>12, VisitQueue
      <3>2. search'.from \subseteq search'.req.sources
        BY <2>7 DEF SearchRight
      <3>3. search' \in Searches /\ search'.disturbed = search.disturbed
        BY <2>7
      <3> QED
        BY <2>13, <3>1, <3>2, <3>3, RunOut DEF ProgressRight
    <2> HIDE DEF n, better
    <2> QED
      BY <2>12, <2>14, VisitsRight
  <1> QED
    BY <1>10, <1>11, Zenon DEF Visit

-----------------------------------------------------------------------------
(***************************************************************************)
(* The edges of the topology.                                              *)
(***************************************************************************)
\* What may still happen, once the distances are there.
Plans == [at : {"options", "distances"}] \cup [at : {"run"}, changes : Int, others : Int, searches : Int]

\* The types that the edges depend on; nothing is loaded before the database is
\* there.
GraphTyped ==
  /\ db \in [Pairs -> Int \cup {NoDistance}]
  /\ edges \in [Pairs -> Nat \cup {NoDistance}]
  /\ linked \subseteq Pairs
  /\ left \in Plans
  /\ loaded => left.at = "run"

\* An edge that a node holds is in _edges, and an edge in _edges that no node
\* holds was removed at some time: delete_edge is the only way to lose it.
EdgesKept ==
  /\ \A p \in linked : edges[p] # NoDistance
  /\ \A p \in Pairs : edges[p] # NoDistance => p \in linked \cup lost

\* The inductive invariant.
EdgesInv == GraphTyped /\ EdgesKept /\ EdgesCurrent

\* A negative distance counts as none: the cost of an edge is a natural number.
LEMMA SanitizedTyped ==
  ASSUME NEW v \in Int
  PROVE  Sanitized(v) \in Nat /\ Sanitized(v) # NoDistance
  BY TopologyAssumption DEF Sanitized

\* A load brings the edges up to date, whatever they were.
LEMMA LoadedIsCurrent ==
  ASSUME GraphTyped, EdgesKept, LoadEdges, UNCHANGED db
  PROVE  /\ edges' \in [Pairs -> Nat \cup {NoDistance}] /\ linked' \subseteq Pairs
         /\ EdgesKept' /\ EdgesCurrent'
  <1> DEFINE there == {p \in Pairs : p \in nodes' \X nodes' /\ db[p] # NoDistance}
             known == {p \in Pairs : edges[p] # NoDistance}
  <1>1. /\ edges' = [p \in Pairs |-> IF p \in there THEN Sanitized(db[p]) ELSE edges[p]]
        /\ linked' = (linked \cup (there \ known)) \ (known \ there)
        /\ lost' = lost \cup (known \ there)
    BY DEF LoadEdges
  <1>2. \A p \in there : p \in Pairs /\ db[p] \in Int /\ db[p] # NoDistance /\ Sanitized(db[p]) \in Nat
                         /\ Sanitized(db[p]) # NoDistance
    <2> SUFFICES ASSUME NEW p \in there
                 PROVE  db[p] \in Int /\ Sanitized(db[p]) \in Nat /\ Sanitized(db[p]) # NoDistance
      OBVIOUS
    <2>1. db[p] \in Int
      BY DEF GraphTyped
    <2> QED
      BY <2>1, SanitizedTyped
  <1>3. known \subseteq linked \cup lost /\ linked \subseteq known /\ known \subseteq Pairs
    BY DEF EdgesKept, GraphTyped
  <1>4. /\ \A p \in Pairs : p \in there <=> p \in nodes' \X nodes' /\ db[p] # NoDistance
        /\ \A p \in Pairs : p \in known <=> edges[p] # NoDistance
    OBVIOUS
  <1> HIDE DEF there, known
  <1>5. linked' \subseteq there
    BY <1>1, <1>3
  <1>6. \A p \in Pairs : edges'[p] = IF p \in there THEN Sanitized(db[p]) ELSE edges[p]
    BY <1>1
  <1>7. edges' \in [Pairs -> Nat \cup {NoDistance}]
    BY <1>1, <1>2 DEF GraphTyped
  <1>8. linked' \subseteq Pairs
    BY <1>2, <1>5
  <1>9. EdgesKept'
    <2>1. \A p \in linked' : edges'[p] # NoDistance
      BY <1>2, <1>5, <1>6
    <2>2. \A p \in Pairs : edges'[p] # NoDistance => p \in there \cup known
      BY <1>4, <1>6
    <2>3. there \cup known \subseteq linked' \cup lost'
      BY <1>1, <1>3
    <2> QED
      BY <2>1, <2>2, <2>3 DEF EdgesKept, Pairs
  <1>10. \A p \in linked' : db[p] # NoDistance /\ edges'[p] = Sanitized(db[p])
    BY <1>2, <1>5, <1>6
  <1>11. \A p \in Pairs \ lost' : p \in nodes' \X nodes' /\ db[p] # NoDistance => p \in linked'
    BY <1>1, <1>3, <1>4
  <1>12. EdgesCurrent'
    BY <1>10, <1>11 DEF EdgesCurrent, Sanitized, Pairs
  <1> QED
    BY <1>7, <1>8, <1>9, <1>12

\* A plan stays one when a number in it goes down.
LEMMA PlanStep ==
  ASSUME left \in Plans, left.at = "run",
         \/ left' = [left EXCEPT !.changes = @ - 1]
         \/ left' = [left EXCEPT !.others = @ - 1]
         \/ left' = [left EXCEPT !.searches = @ - 1]
  PROVE  left' \in Plans /\ left'.at = "run"
  <1>1. left \in [at : {"run"}, changes : Int, others : Int, searches : Int]
    BY DEF Plans
  <1>2. left' \in [at : {"run"}, changes : Int, others : Int, searches : Int]
    BY <1>1
  <1> QED
    BY <1>2 DEF Plans

\* Steps that leave the graph and the database alone.
LEMMA GraphUntouched ==
  ASSUME EdgesInv, UNCHANGED <<db, graph>>, left' \in Plans, left.at = "run" => left'.at = "run"
  PROVE  EdgesInv'
  <1>1. GraphTyped'
    BY DEF EdgesInv, GraphTyped, graph
  <1>2. EdgesKept'
    BY DEF EdgesInv, EdgesKept, graph
  <1>3. EdgesCurrent'
    BY DEF EdgesInv, EdgesCurrent, graph
  <1> QED
    BY <1>1, <1>2, <1>3 DEF EdgesInv

\* Every step keeps the edges as they have to be.
LEMMA EdgesStep ==
  ASSUME EdgesInv, [Next]_vars
  PROVE  EdgesInv'
  <1>0. GraphTyped /\ EdgesKept /\ EdgesCurrent /\ left \in Plans
    BY DEF EdgesInv, GraphTyped
  <1>1. ASSUME NEW t \in Tokens, Type(t) PROVE EdgesInv'
    BY <1>0, <1>1, GraphUntouched DEF Type
  <1>2. CASE ConfigureMultihop
    <2>1. UNCHANGED <<db, edges, linked, loaded, current, lost>> /\ left' = [at |-> "distances"] /\ ~loaded
      BY <1>0, <1>2 DEF ConfigureMultihop, GraphTyped
    <2>2. GraphTyped'
      BY <1>0, <2>1 DEF GraphTyped, Plans
    <2>3. EdgesKept' /\ EdgesCurrent'
      BY <1>0, <2>1 DEF EdgesKept, EdgesCurrent
    <2> QED
      BY <2>2, <2>3 DEF EdgesInv
  <1>3. ASSUME NEW s \in Starts, Begin(s) PROVE EdgesInv'
    <2>1. s \in [db : [Pairs -> Int \cup {NoDistance}], changes : Nat, others : Nat, searches : Nat]
      BY TopologyAssumption
    <2>2. /\ db' = s.db /\ UNCHANGED <<edges, linked, loaded, current, lost>> /\ ~loaded
          /\ left' = [at |-> "run", changes |-> s.changes, others |-> s.others, searches |-> s.searches]
      BY <1>0, <1>3 DEF Begin, GraphTyped, graph
    <2>3. left' \in Plans
      BY <2>1, <2>2 DEF Plans
    <2>4. GraphTyped'
      BY <1>0, <2>1, <2>2, <2>3 DEF GraphTyped
    <2>5. EdgesKept' /\ EdgesCurrent'
      BY <1>0, <2>2 DEF EdgesKept, EdgesCurrent
    <2> QED
      BY <2>4, <2>5 DEF EdgesInv
  <1>4. ASSUME NEW p \in Changeable, NEW v \in Distances \cup {NoDistance}, SetDistance(p, v) PROVE EdgesInv'
    <2>1. left' \in Plans /\ left'.at = "run"
      BY <1>0, <1>4, PlanStep DEF SetDistance
    <2>2. db' \in [Pairs -> Int \cup {NoDistance}]
      <3>1. v \in Int \cup {NoDistance}
        BY TopologyAssumption
      <3> QED
        BY <1>0, <1>4, <3>1 DEF SetDistance, GraphTyped
    <2>3. UNCHANGED <<edges, linked, loaded, lost>> /\ current' = FALSE
      BY <1>4 DEF SetDistance
    <2>4. GraphTyped'
      BY <1>0, <2>1, <2>2, <2>3 DEF GraphTyped
    <2>5. EdgesKept' /\ EdgesCurrent'
      BY <1>0, <2>3 DEF EdgesKept, EdgesCurrent
    <2> QED
      BY <2>4, <2>5 DEF EdgesInv
  <1>5. ASSUME NEW r \in Rses, OtherThread(r) PROVE EdgesInv'
    <2>1. left' \in Plans /\ left'.at = "run"
      BY <1>0, <1>5, PlanStep DEF OtherThread
    <2>2. UNCHANGED db /\ LoadEdges
      BY <1>5 DEF OtherThread
    <2>3. /\ edges' \in [Pairs -> Nat \cup {NoDistance}] /\ linked' \subseteq Pairs
          /\ EdgesKept' /\ EdgesCurrent'
      BY <1>0, <2>2, LoadedIsCurrent
    <2>4. GraphTyped'
      BY <1>0, <2>1, <2>2, <2>3 DEF GraphTyped
    <2> QED
      BY <2>3, <2>4 DEF EdgesInv
  <1>6. ASSUME NEW q \in Requests, Reject(q) PROVE EdgesInv'
    <2>1. left' \in Plans /\ left'.at = "run"
      BY <1>0, <1>6, PlanStep DEF Reject
    <2>2. UNCHANGED <<db, edges, linked, current, lost>> /\ (loaded' => loaded /\ nodes' = nodes)
      BY <1>6 DEF Reject, Complete
    <2>3. GraphTyped'
      BY <1>0, <2>1, <2>2 DEF GraphTyped
    <2>4. EdgesKept'
      BY <1>0, <2>2 DEF EdgesKept
    <2>5. EdgesCurrent'
      BY <1>0, <2>2 DEF EdgesCurrent
    <2> QED
      BY <2>3, <2>4, <2>5 DEF EdgesInv
  <1>7. ASSUME NEW q \in Requests, StartSearch(q) PROVE EdgesInv'
    <2> DEFINE S == q.sources \cup {q.dst}
    <2>1. left' \in Plans /\ left'.at = "run"
      BY <1>0, <1>7, PlanStep DEF StartSearch
    <2>2. /\ UNCHANGED db /\ nodes' = nodes \cup S
          /\ \/ Complete(S) /\ UNCHANGED <<edges, linked, lost, loaded, current>>
             \/ LoadEdges
      BY <1>7 DEF StartSearch
    <2>3. CASE LoadEdges
      <3>1. /\ edges' \in [Pairs -> Nat \cup {NoDistance}] /\ linked' \subseteq Pairs
            /\ EdgesKept' /\ EdgesCurrent'
        BY <1>0, <2>2, <2>3, LoadedIsCurrent
      <3>2. GraphTyped'
        BY <1>0, <2>1, <2>2, <3>1 DEF GraphTyped
      <3> QED
        BY <3>1, <3>2 DEF EdgesInv
    <2>4. CASE Complete(S) /\ UNCHANGED <<edges, linked, lost, loaded, current>>
      <3>1. nodes' = nodes
        BY <2>2, <2>4 DEF Complete
      <3> QED
        BY <1>0, <2>1, <2>2, <2>4, <3>1, GraphUntouched DEF graph
    <2> QED
      BY <2>2, <2>3, <2>4
  <1>8. CASE Visit \/ EndSearch
    <2>1. UNCHANGED <<db, left, graph>>
      BY <1>8 DEF Visit, EndSearch
    <2> QED
      BY <1>0, <2>1, GraphUntouched
  <1>9. CASE UNCHANGED vars
    BY <1>0, <1>9, GraphUntouched DEF vars
  <1>10. CASE Next
    BY <1>10, <1>1, <1>2, <1>3, <1>4, <1>5, <1>6, <1>7, <1>8 DEF Next
  <1> QED
    BY <1>9, <1>10

\* Whatever requests are prepared, threads load and distances change, right
\* after a load the topology agrees with the database, except for edges that
\* were deleted and came back (_ensure_edges_loaded, delete_edge).
THEOREM EdgesAreCurrent == Spec => []EdgesCurrent
  <1>1. Init => EdgesInv
    <2> SUFFICES ASSUME Init PROVE EdgesInv
      OBVIOUS
    <2>1. GraphTyped
      BY DEF Init, GraphTyped, Plans
    <2>2. EdgesKept /\ EdgesCurrent
      BY DEF Init, EdgesKept, EdgesCurrent
    <2> QED
      BY <2>1, <2>2 DEF EdgesInv
  <1>2. EdgesInv /\ [Next]_vars => EdgesInv'
    BY EdgesStep
  <1>3. EdgesInv => EdgesCurrent
    BY DEF EdgesInv
  <1> QED
    BY <1>1, <1>2, <1>3, PTL DEF Spec

-----------------------------------------------------------------------------
(***************************************************************************)
(* The searches of the topology.                                           *)
(***************************************************************************)
\* The sources that have a candidate path after the search s.
KeptOf(s) == {x \in s.from : s.path[x] # <<>> /\ ~CrossesTape(s.path[x])}

\* The outcome of a search that the graph still is the one of.
AnswerRight ==
  /\ SearchRight(answer.search, Graph) /\ answer.search.heap = <<>>
  /\ answer.paths = {Compressed(answer.search.path[x], answer.search.req.sources) : x \in KeptOf(answer.search)}
  /\ \A x \in DOMAIN answer.more : \A a \in answer.more[x] :
       a \in Rses /\ edges[<<a, answer.search.req.dst>>] # NoDistance

\* The inductive invariant of the searches.
SearchInv ==
  /\ multihop \subseteq Rses
  /\ left.at # "run" => search = Idle /\ answer = Idle
  /\ search # Idle => SearchRight(search, Graph)
  /\ answer.at = "done" => AnswerRight

\* The graph of a search has costs.
LEMMA GraphIsOne ==
  ASSUME GraphTyped, EdgesKept
  PROVE  IsGraph(Graph)
  BY GraphFields DEF GraphTyped, EdgesKept, IsGraph

\* When the graph changes, less is known of a search.
LEMMA DisturbedRight ==
  ASSUME NEW s, NEW g, NEW g2, SearchRight(s, g), NEW t, t = [s EXCEPT !.disturbed = TRUE]
  PROVE  SearchRight(t, g2)
  <1>1. s \in Searches /\ s.from \subseteq s.req.sources
    BY DEF SearchRight
  <1>2. /\ t \in Searches /\ t.req = s.req /\ t.from = s.from /\ t.disturbed
        /\ t.find = s.find /\ t.path = s.path /\ t.yielded = s.yielded /\ t.heap = s.heap /\ t.dist = s.dist /\ t.hop = s.hop
    BY <1>1 DEF Searches
  <1>3. Visited(t) = Visited(s) /\ Queued(t) = Queued(s)
    BY <1>2 DEF Visited, Queued
  <1>4. QueueRight(t)
    <2>1. QueueRight(s)
      BY DEF SearchRight
    <2> QED
      BY <1>2, <1>3, <2>1 DEF QueueRight
  <1>5. YieldedRight(t)
    <2> DEFINE y == s.yielded
               d == s.dist
               V == Visited(s)
    <2>1. YieldedRight(s)
      BY DEF SearchRight
    <2>2. /\ \A i \in DOMAIN y : y[i][1] \in V /\ y[i][2] = d[y[i][1]]
          /\ \A v \in V : \E i \in DOMAIN y : y[i][1] = v
          /\ \A i, k \in DOMAIN y : i <= k => y[i][2] <= y[k][2]
      BY <2>1 DEF YieldedRight
    <2>3. t.yielded = y /\ t.dist = d /\ Visited(t) = V
      BY <1>2, <1>3
    <2> HIDE DEF y, d, V
    <2>4. \A i \in DOMAIN t.yielded : t.yielded[i][1] \in Visited(t) /\ t.yielded[i][2] = t.dist[t.yielded[i][1]]
      BY <2>2, <2>3
    <2>5. \A v \in Visited(t) : \E i \in DOMAIN t.yielded : t.yielded[i][1] = v
      BY <2>2, <2>3
    <2>6. \A i, k \in DOMAIN t.yielded : i <= k => t.yielded[i][2] <= t.yielded[k][2]
      BY <2>2, <2>3
    <2> QED
      BY <2>4, <2>5, <2>6, Zenon DEF YieldedRight
  <1>6. HopsRight(t, g2)
    <2>1. HopsRight(s, g)
      BY DEF SearchRight
    <2> QED
      BY <1>2, <1>3, <2>1 DEF HopsRight
  <1>7. PathsRight(t.path, t.hop) /\ ProgressRight(t, g2)
    BY <1>2 DEF SearchRight, ProgressRight
  <1> QED
    BY <1>1, <1>2, <1>4, <1>5, <1>6, <1>7 DEF SearchRight

\* A search starts right: only the destination is known.
Started(q, g, from, find, t) ==
  /\ q \in Requests /\ IsGraph(g) /\ from \in SUBSET q.sources
  /\ find = IF g.multihop = {} THEN from ELSE {s \in from : \E p \in g.linked : p[1] = s}
  /\ t = [at |-> "run", req |-> q, from |-> from, find |-> find, heap |-> <<q.dst>>,
          dist |-> [r \in Rses |-> IF r = q.dst THEN 0 ELSE Infinity],
          hop |-> [r \in Rses |-> r], path |-> [r \in Rses |-> <<>>],
          yielded |-> <<>>, mismatch |-> {}, disturbed |-> FALSE]

\* What is known of a search that has just started.
LEMMA StartsRight ==
  ASSUME NEW q, NEW g, NEW from, NEW find, NEW t, Started(q, g, from, find, t)
  PROVE  SearchRight(t, g)
  <1> USE DEF Started
  <1>1. q.dst \in Rses /\ q.sources \subseteq Rses \ {q.dst} /\ from \subseteq Rses /\ find \subseteq Rses
    BY TopologyAssumption
  <1>2. <<q.dst>> \in Seq(Rses) /\ <<>> \in Seq(Rses) /\ <<>> \in Seq(Rses \X Nat) /\ Infinity \in Nat /\ Infinity > 0
    BY <1>1 DEF Infinity
  <1>3. t \in Searches
    <2> HIDE DEF Infinity
    <2> QED
      BY <1>1, <1>2 DEF Searches
  <1>4. /\ t.req = q /\ t.from = from /\ ~t.disturbed /\ t.find = find /\ t.heap = <<q.dst>>
        /\ \A r \in Rses : /\ t.path[r] = <<>>
                           /\ t.dist[r] = IF r = q.dst THEN 0 ELSE Infinity
        /\ t.yielded = <<>>
    OBVIOUS
  <1>5. Visited(t) = {} /\ Queued(t) = {q.dst}
    BY <1>4 DEF Visited, Queued, Range
  <1>6. QueueRight(t)
    <2>1. IsHeap(t.heap, t.dist)
      BY <1>2, <1>4 DEF IsHeap, IsInjective, Ordered
    <2> HIDE DEF Infinity
    <2> QED
      BY <1>1, <1>2, <1>4, <1>5, <2>1 DEF QueueRight
  <1>7. YieldedRight(t)
    BY <1>4, <1>5 DEF YieldedRight
  <1>8. HopsRight(t, g) /\ PathsRight(t.path, t.hop)
    BY <1>1, <1>4, <1>5 DEF HopsRight, PathsRight
  <1>9. RunRight(t, g)
    <2>1. Wanted(t, g) = find
      BY <1>4 DEF Wanted
    <2>2. q.dst \in Allowed(t, g)
      BY <1>1, <1>4 DEF Allowed
    <2>3. \A r \in Rses : t.dist[r] < Infinity => r = q.dst
      BY <1>2, <1>4
    <2> QED
      BY <1>4, <1>5, <2>1, <2>2, <2>3 DEF RunRight
  <1>10. ProgressRight(t, g)
    <2>1. t.heap # <<>>
      BY <1>4
    <2> QED
      BY <1>9, <2>1 DEF ProgressRight
  <1> QED
    BY <1>3, <1>4, <1>6, <1>7, <1>8, <1>10 DEF SearchRight

\* The end of a search.
LEMMA EndsRight ==
  ASSUME search # Idle => SearchRight(search, Graph), EndSearch
  PROVE  answer'.at = "done" /\ AnswerRight' /\ search' = Idle /\ UNCHANGED <<multihop, left, edges, linked>>
  <1> DEFINE q == search.req
             paths == {Compressed(search.path[s], q.sources) : s \in Kept}
             more == [s \in {x \in Kept \ Tape : Len(search.path[x]) = 1} |-> Additional(s, q)]
             verdict == IF paths # {} THEN "paths"
                        ELSE Verdict(q, \E s \in search.from \cap search.mismatch : search.path[s] = <<>>)
  <1>1. search # Idle /\ search.heap = <<>>
    BY DEF EndSearch, Idle
  <1>2. SearchRight(search, Graph) /\ search \in Searches /\ search.from \subseteq Rses
    BY <1>1, SearchTyped DEF SearchRight
  <1>3. answer' = [at |-> "done", search |-> search, paths |-> paths, more |-> more, verdict |-> verdict]
    BY DEF EndSearch
  <1>4. search' = Idle /\ UNCHANGED <<multihop, left, edges, linked>>
    BY DEF EndSearch, graph
  <1>5. Kept = KeptOf(search)
    BY DEF Kept, KeptOf
  <1>6. DOMAIN more = {x \in Kept \ Tape : Len(search.path[x]) = 1} /\ \A s \in DOMAIN more : more[s] = Additional(s, q)
    OBVIOUS
  <1>7. \A s : \A a \in Additional(s, q) : a \in Rses /\ edges[<<a, q.dst>>] # NoDistance
    BY <1>2 DEF Additional
  <1>8. \A s \in DOMAIN more : \A a \in more[s] : a \in Rses /\ edges[<<a, q.dst>>] # NoDistance
    <2> HIDE DEF more
    <2> QED
      BY <1>6, <1>7
  <1>9. Graph' = Graph
    BY <1>4 DEF Graph
  <1>10. paths = {Compressed(search.path[x], search.req.sources) : x \in KeptOf(search)}
    BY <1>5
  <1> HIDE DEF paths, more, verdict
  <1>11. answer'.at = "done" /\ answer'.search = search /\ answer'.paths = paths /\ answer'.more = more
    BY <1>3
  <1>12. AnswerRight'
    BY <1>1, <1>2, <1>4, <1>8, <1>9, <1>10, <1>11 DEF AnswerRight
  <1> QED
    BY <1>4, <1>11, <1>12

\* Steps that leave the graph, the search and its outcome alone.
LEMMA SearchUntouched ==
  ASSUME SearchInv, UNCHANGED <<edges, linked, multihop, search, answer>>, left.at = "run" => left'.at = "run"
  PROVE  SearchInv'
  <1>1. Graph' = Graph
    BY DEF Graph
  <1>2. AnswerRight => AnswerRight'
    BY <1>1 DEF AnswerRight
  <1> QED
    BY <1>1, <1>2 DEF SearchInv

\* Every step keeps the searches right.
LEMMA SearchStep ==
  ASSUME EdgesInv, EdgesInv', SearchInv, [Next]_vars
  PROVE  SearchInv'
  <1>0. /\ multihop \subseteq Rses /\ (search # Idle => SearchRight(search, Graph)) /\ left \in Plans
        /\ IsGraph(Graph)
    BY GraphIsOne DEF SearchInv, EdgesInv, GraphTyped
  <1>1. ASSUME NEW t \in Tokens, Type(t) PROVE SearchInv'
    BY <1>1, SearchUntouched DEF Type, graph
  <1>2. CASE ConfigureMultihop
    <2>1. multihop' \subseteq Rses /\ search' = Idle /\ answer' = Idle
      BY <1>2, TopologyAssumption DEF ConfigureMultihop, SearchInv
    <2> QED
      BY <2>1 DEF SearchInv, Idle
  <1>3. ASSUME NEW s \in Starts, Begin(s) PROVE SearchInv'
    <2>1. UNCHANGED <<edges, linked, multihop, search, answer>> /\ left'.at = "run"
      BY <1>3 DEF Begin, graph
    <2> QED
      BY <2>1, SearchUntouched
  <1>4. ASSUME NEW p \in Changeable, NEW v \in Distances \cup {NoDistance}, SetDistance(p, v) PROVE SearchInv'
    <2>1. left'.at = "run"
      BY <1>0, <1>4, PlanStep DEF SetDistance
    <2>2. UNCHANGED <<edges, linked, multihop, search, answer>>
      BY <1>4 DEF SetDistance
    <2> QED
      BY <2>1, <2>2, SearchUntouched
  <1>5. ASSUME NEW r \in Rses, OtherThread(r) PROVE SearchInv'
    <2>1. left'.at = "run"
      BY <1>0, <1>5, PlanStep DEF OtherThread
    <2>2. answer' = Idle /\ UNCHANGED multihop
      BY <1>5 DEF OtherThread
    <2>3. search' # Idle => SearchRight(search', Graph')
      <3>1. CASE search # Idle /\ (linked' # linked \/ edges' # edges)
        <4>1. search' = [search EXCEPT !.disturbed = TRUE] /\ SearchRight(search, Graph)
          BY <1>0, <1>5, <3>1 DEF OtherThread
        <4> QED
          BY <4>1, DisturbedRight
      <3>2. CASE ~(search # Idle /\ (linked' # linked \/ edges' # edges))
        <4>1. search' = search /\ (search # Idle => Graph' = Graph)
          BY <1>5, <2>2, <3>2 DEF OtherThread, Graph
        <4> QED
          BY <1>0, <4>1
      <3> QED
        BY <3>1, <3>2
    <2> QED
      BY <1>0, <2>1, <2>2, <2>3 DEF SearchInv, Idle
  <1>6. ASSUME NEW q \in Requests, Reject(q) PROVE SearchInv'
    <2>1. left'.at = "run"
      BY <1>0, <1>6, PlanStep DEF Reject
    <2>2. answer'.at = "rejected" /\ UNCHANGED multihop /\ search' = Idle
      BY <1>6 DEF Reject
    <2> QED
      BY <1>0, <2>1, <2>2 DEF SearchInv
  <1>7. ASSUME NEW q \in Requests, StartSearch(q) PROVE SearchInv'
    <2> DEFINE from == {s \in q.sources : ~Refused(q, s)}
               find == IF multihop = {} THEN from ELSE {s \in from : \E p \in linked' : p[1] = s}
    <2>1. left'.at = "run"
      BY <1>0, <1>7, PlanStep DEF StartSearch
    <2>2. answer' = Idle /\ UNCHANGED multihop
      BY <1>7 DEF StartSearch
    <2>3. search' = [at |-> "run", req |-> q, from |-> from, find |-> find, heap |-> <<q.dst>>,
                     dist |-> [r \in Rses |-> IF r = q.dst THEN 0 ELSE Infinity],
                     hop |-> [r \in Rses |-> r], path |-> [r \in Rses |-> <<>>],
                     yielded |-> <<>>, mismatch |-> {}, disturbed |-> FALSE]
      BY <1>7, Zenon DEF StartSearch
    <2>4. IsGraph(Graph')
      <3>1. IsGraph(Graph)'
        BY GraphIsOne, PTL DEF EdgesInv
      <3> QED
        BY <3>1 DEF IsGraph
    <2>5. from \in SUBSET q.sources
      OBVIOUS
    <2>6. find = IF Graph'.multihop = {} THEN from ELSE {s \in from : \E p \in Graph'.linked : p[1] = s}
      BY <2>2 DEF Graph
    <2> HIDE DEF from, find
    <2>7. SearchRight(search', Graph')
      <3>1. Started(q, Graph', from, find, search')
        BY <2>3, <2>4, <2>5, <2>6, Zenon DEF Started
      <3> QED
        BY <3>1, StartsRight
    <2> QED
      BY <1>0, <2>1, <2>2, <2>7 DEF SearchInv, Idle
  <1>8. CASE Visit
    <2>1. search # Idle /\ UNCHANGED <<edges, linked, multihop, answer, left>>
      <3>1. search.at = "run" /\ UNCHANGED <<option, db, left, graph, multihop, answer>>
        BY <1>8, Zenon DEF Visit
      <3> QED
        BY <3>1 DEF Idle, graph
    <2>2. SearchRight(search', Graph)
      BY <1>0, <1>8, <2>1, VisitKeeps
    <2>3. Graph' = Graph
      BY <2>1 DEF Graph
    <2>4. AnswerRight => AnswerRight'
      BY <2>1, <2>3 DEF AnswerRight
    <2>5. left.at = "run"
      BY <2>1 DEF SearchInv
    <2> QED
      BY <1>0, <2>1, <2>2, <2>3, <2>4, <2>5 DEF SearchInv
  <1>9. CASE EndSearch
    <2>1. answer'.at = "done" /\ AnswerRight' /\ search' = Idle /\ UNCHANGED <<multihop, left, edges, linked>>
      BY <1>0, <1>9, EndsRight
    <2>2. left.at = "run"
      BY <1>9 DEF EndSearch, SearchInv, Idle
    <2> QED
      BY <1>0, <2>1, <2>2 DEF SearchInv
  <1>10. CASE UNCHANGED vars
    BY <1>10, SearchUntouched DEF vars, graph
  <1>11. CASE Next
    BY <1>11, <1>1, <1>2, <1>3, <1>4, <1>5, <1>6, <1>7, <1>8, <1>9 DEF Next
  <1> QED
    BY <1>10, <1>11

-----------------------------------------------------------------------------
(***************************************************************************)
(* The candidate paths.                                                    *)
(***************************************************************************)
\* A path follows the links of the graph, to the destination.
LEMMA PathLinks ==
  ASSUME NEW s, NEW g, SearchRight(s, g), ~s.disturbed, NEW v \in Visited(s), NEW i \in 1 .. Len(s.path[v])
  PROVE  <<s.path[v][i], IF i = Len(s.path[v]) THEN s.req.dst ELSE s.path[v][i + 1]>> \in g.linked
  <1> DEFINE p == s.path[v]
             w == p[i]
             h == s.hop[w]
             q == s.path[h]
             r == s.path[w]
  <1>1. /\ s.path \in [Rses -> Seq(Rses)] /\ s.hop \in [Rses -> Rses] /\ s.req.dst \in Rses
        /\ s.path[s.req.dst] = <<>> /\ PathsRight(s.path, s.hop)
    BY SearchTyped DEF SearchRight, HopsRight
  <1>2. v \in Rses /\ p # <<>> /\ p \in Seq(Rses)
    BY <1>1 DEF Visited
  <1>3. r = SubSeq(p, i, Len(p))
    BY <1>1, <1>2 DEF PathsRight
  <1> HIDE DEF p, w, r
  <1>4. i \in 1 .. Len(p)
    BY DEF p
  <1>5. w \in Rses /\ Len(p) \in Nat /\ r # <<>> /\ Len(r) = Len(p) - i + 1
    BY <1>2, <1>3, <1>4, PathEnds DEF w
  <1>6. i # Len(p) => i + 1 \in 1 .. Len(p) /\ r[2] = p[i + 1]
    BY <1>2, <1>3, <1>4, <1>5
  <1>7. w \in Visited(s) /\ w # s.req.dst
    BY <1>1, <1>5 DEF Visited, r
  <1>8. Arc(s, g, w, h) /\ (h = s.req.dst \/ h \in Visited(s)) /\ h \in Rses
    BY <1>1, <1>5, <1>7 DEF SearchRight, HopsRight
  <1>9. r = <<w>> \o q /\ q \in Seq(Rses)
    BY <1>1, <1>5, <1>8 DEF PathsRight, r
  <1> HIDE DEF h, q
  <1>10. Len(r) = Len(q) + 1 /\ \A k \in 2 .. Len(r) : k - 1 \in 1 .. Len(q) /\ r[k] = q[k - 1]
    BY <1>5, <1>9, InFront
  <1>11. CASE i = Len(p)
    <2>1. q = <<>>
      BY <1>4, <1>5, <1>9, <1>10, <1>11
    <2>2. h = s.req.dst
      BY <1>8, <2>1 DEF q, Visited
    <2> QED
      BY <1>8, <1>11, <2>2 DEF Arc, w, p
  <1>12. CASE i # Len(p)
    <2>1. 2 \in 2 .. Len(r)
      BY <1>4, <1>5, <1>12
    <2>2. r[2] = q[1] /\ 1 \in 1 .. Len(q)
      BY <1>10, <2>1
    <2>3. q # <<>>
      BY <1>9, <2>2
    <2>4. h \in Visited(s)
      BY <1>8, <2>3 DEF q, Visited
    <2>5. q = <<h>> \o s.path[s.hop[h]] /\ s.path[s.hop[h]] \in Seq(Rses)
      BY <1>1, <1>8, <2>3 DEF PathsRight, q
    <2>6. q[1] = h
      BY <1>8, <2>5, InFront
    <2>7. p[i + 1] = h
      BY <1>6, <1>12, <2>2, <2>6
    <2> QED
      BY <1>8, <1>12, <2>7 DEF Arc, w, p
  <1> QED
    BY <1>11, <1>12

\* A candidate path, once it is cut, is the path of the last source on it.
LEMMA CandidateRight ==
  ASSUME NEW s, NEW g, SearchRight(s, g), NEW x \in KeptOf(s), NEW p, p = Compressed(s.path[x], s.req.sources)
  PROVE  /\ p[1] \in s.req.sources /\ p[1] \in Visited(s) /\ p = s.path[p[1]]
         /\ \A i \in 2 .. Len(p) : p[i] \notin s.req.sources /\ p[i] \notin Tape
  <1> DEFINE o == s.path[x]
             at == {i \in 1 .. Len(o) : o[i] \in s.req.sources}
             m == Max(at)
  <1>1. /\ s.path \in [Rses -> Seq(Rses)] /\ s.hop \in [Rses -> Rses] /\ PathsRight(s.path, s.hop)
        /\ x \in s.req.sources /\ x \in Rses /\ o # <<>> /\ o \in Seq(Rses) /\ ~CrossesTape(o)
    BY SearchTyped DEF SearchRight, KeptOf
  <1>2. /\ o = <<x>> \o s.path[s.hop[x]] /\ s.path[s.hop[x]] \in Seq(Rses)
        /\ \A i \in 1 .. Len(o) : s.path[o[i]] = SubSeq(o, i, Len(o))
    BY <1>1 DEF PathsRight
  <1>3. Len(o) \in Nat /\ o[1] = x /\ 1 \in 1 .. Len(o)
    <2>1. o[1] = x /\ Len(o) = Len(s.path[s.hop[x]]) + 1 /\ Len(s.path[s.hop[x]]) \in Nat
      BY <1>1, <1>2, InFront
    <2> QED
      BY <2>1
  <1> HIDE DEF o
  <1>4. at \in SUBSET (1 .. Len(o)) /\ at # {}
    BY <1>1, <1>3
  <1>5. m \in at /\ \A i \in at : i <= m
    <2> HIDE DEF at
    <2> QED
      BY <1>3, <1>4, MaxExists
  <1> HIDE DEF m
  <1>6. m \in 1 .. Len(o) /\ o[m] \in s.req.sources
    BY <1>5
  <1>7. \A i \in 1 .. Len(o) : i > m => o[i] \notin s.req.sources
    BY <1>5, <1>6
  <1>8. p = SubSeq(o, m, Len(o))
    BY DEF Compressed, m, at, o
  <1>9. p # <<>> /\ Len(p) = Len(o) - m + 1 /\ p[1] = o[m] /\ o[m] \in Rses
    BY <1>1, <1>6, <1>8, PathEnds
  <1>10. p = s.path[p[1]] /\ p[1] \in Visited(s)
    BY <1>2, <1>6, <1>8, <1>9 DEF Visited
  <1>11. ASSUME NEW i \in 2 .. Len(p)
         PROVE  p[i] \notin s.req.sources /\ p[i] \notin Tape
    <2>1. m + i - 1 \in 2 .. Len(o) /\ m + i - 1 \in 1 .. Len(o) /\ m + i - 1 > m
      <3> DEFINE l == Len(o)
      <3>1. l \in Nat /\ m \in 1 .. l /\ i \in 2 .. l - m + 1
        BY <1>3, <1>6, <1>9
      <3> HIDE DEF l
      <3>2. m + i - 1 \in 2 .. l /\ m + i - 1 \in 1 .. l /\ m + i - 1 > m
        BY <3>1
      <3> QED
        BY <3>2 DEF l
    <2>2. p[i] = o[m + i - 1]
      <3>1. i \in 1 .. Len(o) - m + 1
        BY <1>3, <1>6, <1>9
      <3> QED
        BY <1>1, <1>6, <1>8, <3>1, PathEnds
    <2> QED
      BY <1>1, <1>7, <2>1, <2>2 DEF CrossesTape
  <1> QED
    BY <1>6, <1>9, <1>10, <1>11

\* The candidate paths of a search that the graph still is the one of.
LEMMA CandidatesFollow ==
  ASSUME EdgesInv, SearchInv
  PROVE  CandidatesSound
  <1> SUFFICES ASSUME answer.at = "done", ~answer.search.disturbed
               PROVE  LET q == answer.search.req
                      IN /\ \A p \in answer.paths :
                              /\ p[1] \in q.sources
                              /\ \A i \in 2 .. Len(p) : p[i] \notin q.sources /\ p[i] \notin Tape
                              /\ \A i \in 1 .. Len(p) : <<p[i], IF i = Len(p) THEN q.dst ELSE p[i + 1]>> \in linked
                         /\ \A p, o \in answer.paths : p[1] = o[1] => p = o
                         /\ \A s \in DOMAIN answer.more : \A a \in answer.more[s] : <<a, q.dst>> \in linked \cup lost
    BY Zenon DEF CandidatesSound
  <1> DEFINE s == answer.search
             q == s.req
  <1>1. /\ SearchRight(s, Graph) /\ answer.paths = {Compressed(s.path[x], q.sources) : x \in KeptOf(s)}
        /\ \A x \in DOMAIN answer.more : \A a \in answer.more[x] : a \in Rses /\ edges[<<a, q.dst>>] # NoDistance
    BY DEF SearchInv, AnswerRight
  <1>2. q.dst \in Rses
    BY <1>1, SearchTyped DEF SearchRight
  <1> HIDE DEF s
  <1>3. ASSUME NEW p \in answer.paths
        PROVE  /\ p[1] \in q.sources /\ p[1] \in Visited(s) /\ p = s.path[p[1]]
               /\ \A i \in 2 .. Len(p) : p[i] \notin q.sources /\ p[i] \notin Tape
    <2>1. PICK x \in KeptOf(s) : p = Compressed(s.path[x], q.sources)
      BY <1>1
    <2> QED
      BY <1>1, <2>1, CandidateRight
  <1>4. ASSUME NEW p \in answer.paths, NEW i \in 1 .. Len(p)
        PROVE  <<p[i], IF i = Len(p) THEN q.dst ELSE p[i + 1]>> \in linked
    <2> DEFINE v == p[1]
    <2>1. v \in Visited(s) /\ p = s.path[v]
      BY <1>3
    <2> HIDE DEF v
    <2>2. <<s.path[v][i], IF i = Len(s.path[v]) THEN s.req.dst ELSE s.path[v][i + 1]>> \in Graph.linked
      BY <1>1, <2>1, PathLinks DEF s
    <2> QED
      BY <2>1, <2>2, GraphFields
  <1>5. \A p, o \in answer.paths : p[1] = o[1] => p = o
    BY <1>3
  <1>6. ASSUME NEW x \in DOMAIN answer.more, NEW a \in answer.more[x]
        PROVE  <<a, q.dst>> \in linked \cup lost
    <2>1. a \in Rses /\ edges[<<a, q.dst>>] # NoDistance
      BY <1>1
    <2>2. <<a, q.dst>> \in Pairs
      BY <1>2, <2>1 DEF Pairs
    <2> QED
      BY <2>1, <2>2 DEF EdgesInv, EdgesKept
  <1> QED
    BY <1>3, <1>4, <1>5, <1>6 DEF s

-----------------------------------------------------------------------------
(***************************************************************************)
(* Shortest paths.  A path of k + 1 hops is a hop and a path of k hops.    *)
(***************************************************************************)
\* The steps of a shortest path, and the distances in one hop more.
Through(s) == IF multihop = {} THEN {s.req.dst} ELSE multihop \cup s.from \cup {s.req.dst}
Hop(s, n, m) == edges[<<n, m>>] + (IF m = s.req.dst THEN 0 ELSE HopPenalty[m])
Usable(s, n, m) ==
  <<n, m>> \in linked /\ FindMatchingScheme(n, m, IF m = s.req.dst THEN s.req.limit ELSE {}) # {}
NoHop(s) == [n \in Rses |-> IF n = s.req.dst THEN 0 ELSE Infinity]
OneMore(s, b) == [n \in Rses |-> Min({b[n]} \cup {Hop(s, n, m) + b[m] : m \in {x \in Through(s) : Usable(s, n, x)}})]

\* The distance x of n comes from those of b.
Comes(s, b, n, x) == x = b[n] \/ \E m \in Through(s) : Usable(s, n, m) /\ x = Hop(s, n, m) + b[m]

\* The least of some numbers.
LEMMA MinExists ==
  ASSUME NEW S \in SUBSET Nat, S # {}
  PROVE  Min(S) \in S /\ \A x \in S : Min(S) <= x
  <1>1. \E x \in S : \A y \in S : x <= y
    BY LeastNumber
  <1> QED
    BY <1>1, Zenon DEF Min

\* A hop of a shortest path is one that the search may take, and the other way round.
LEMMA HopIsArc ==
  ASSUME NEW s, s \in Searches, IsGraph(Graph), NEW n, NEW m
  PROVE  /\ m \in Through(s) /\ Usable(s, n, m) => Arc(s, Graph, n, m)
         /\ Arc(s, Graph, n, m) => Usable(s, n, m) /\ Hop(s, n, m) \in Nat /\ Hop(s, n, m) = Cost(s, Graph, n, m)
         /\ Arc(s, Graph, n, m) /\ m \in Allowed(s, Graph) => m \in Through(s)
  <1>1. m \in Through(s) /\ Usable(s, n, m) => Arc(s, Graph, n, m)
    BY GraphFields DEF Through, Usable, Arc
  <1>2. ASSUME Arc(s, Graph, n, m)
        PROVE  Usable(s, n, m) /\ Hop(s, n, m) \in Nat /\ Hop(s, n, m) = Cost(s, Graph, n, m)
    <2> DEFINE e == edges[<<n, m>>]
               p == IF m = s.req.dst THEN 0 ELSE HopPenalty[m]
    <2>1. e \in Nat /\ m \in Rses
      BY <1>2, GraphFields, ArcTyped DEF Arc, IsGraph
    <2>2. p \in Nat
      BY <2>1, TopologyAssumption
    <2>3. Hop(s, n, m) = e + p /\ Cost(s, Graph, n, m) = p + e
      BY GraphFields DEF Hop, Cost
    <2>4. Usable(s, n, m)
      BY <1>2, GraphFields DEF Arc, Usable
    <2> HIDE DEF e, p
    <2> QED
      BY <2>1, <2>2, <2>3, <2>4
  <1>3. Arc(s, Graph, n, m) /\ m \in Allowed(s, Graph) => m \in Through(s)
    BY GraphFields DEF Arc, Allowed, Wanted, Through
  <1> QED
    BY <1>1, <1>2, <1>3

\* What one hop more can bring.
LEMMA OneMoreBounds ==
  ASSUME NEW s, s \in Searches, IsGraph(Graph), multihop \subseteq Rses, NEW b \in [Rses -> Nat]
  PROVE  /\ OneMore(s, b) \in [Rses -> Nat]
         /\ \A n \in Rses :
              /\ OneMore(s, b)[n] <= b[n]
              /\ \A m \in Through(s) : Usable(s, n, m) => OneMore(s, b)[n] <= Hop(s, n, m) + b[m]
              /\ Comes(s, b, n, OneMore(s, b)[n])
  <1> DEFINE sums(n) == {b[n]} \cup {Hop(s, n, m) + b[m] : m \in {x \in Through(s) : Usable(s, n, x)}}
  <1>1. Through(s) \subseteq Rses
    BY SearchTyped DEF Through
  <1>2. ASSUME NEW n \in Rses
        PROVE  sums(n) \in SUBSET Nat /\ sums(n) # {}
    <2>1. \A m \in Through(s) : Usable(s, n, m) => Hop(s, n, m) + b[m] \in Nat
      <3> SUFFICES ASSUME NEW m \in Through(s), Usable(s, n, m) PROVE Hop(s, n, m) + b[m] \in Nat
        OBVIOUS
      <3>1. Hop(s, n, m) \in Nat
        BY HopIsArc
      <3>2. b[m] \in Nat
        BY <1>1
      <3> QED
        BY <3>1, <3>2
    <2> QED
      BY <1>2, <2>1
  <1>3. ASSUME NEW n \in Rses
        PROVE  Min(sums(n)) \in sums(n) /\ (\A x \in sums(n) : Min(sums(n)) <= x) /\ Min(sums(n)) \in Nat
    <2> HIDE DEF sums
    <2> QED
      BY <1>2, MinExists
  <1>4. OneMore(s, b) = [n \in Rses |-> Min(sums(n))]
    BY DEF OneMore
  <1>5. OneMore(s, b) \in [Rses -> Nat] /\ \A n \in Rses : OneMore(s, b)[n] = Min(sums(n))
    <2> HIDE DEF sums
    <2> QED
      BY <1>3, <1>4
  <1>6. ASSUME NEW n \in Rses
        PROVE  /\ OneMore(s, b)[n] <= b[n]
               /\ \A m \in Through(s) : Usable(s, n, m) => OneMore(s, b)[n] <= Hop(s, n, m) + b[m]
               /\ Comes(s, b, n, OneMore(s, b)[n])
    <2> DEFINE o == OneMore(s, b)[n]
    <2>1. o \in sums(n) /\ \A x \in sums(n) : o <= x
      <3> HIDE DEF sums
      <3> QED
        BY <1>3, <1>5
    <2> HIDE DEF o
    <2>2. o <= b[n] /\ \A m \in Through(s) : Usable(s, n, m) => o <= Hop(s, n, m) + b[m]
      BY <2>1
    <2>3. Comes(s, b, n, o)
      BY <2>1 DEF Comes
    <2> QED
      BY <2>2, <2>3 DEF o
  <1> QED
    BY <1>5, <1>6

\* The distances hop by hop.
LEMMA BestExists ==
  ASSUME NEW s, s \in Searches, IsGraph(Graph), multihop \subseteq Rses, NEW C, C = Cardinality(Rses)
  PROVE  /\ C \in Nat
         /\ \E f \in [0 .. C -> [Rses -> Nat]] :
              /\ Best(s) = f[C] /\ f[0] = NoHop(s)
              /\ \A k \in 1 .. C : f[k] = OneMore(s, f[k - 1])
  <1> DEFINE Q == [Rses -> Nat]
             F == [y \in (1 .. C) \X Q |-> OneMore(s, y[2])]
             dst == s.req.dst
             through == IF multihop = {} THEN {dst} ELSE multihop \cup s.from \cup {dst}
             step(n, m) == edges[<<n, m>>] + (IF m = dst THEN 0 ELSE HopPenalty[m])
             usable(n, m) == <<n, m>> \in linked /\ FindMatchingScheme(n, m, IF m = dst THEN s.req.limit ELSE {}) # {}
             best[k \in 0 .. Cardinality(Rses)] ==
               [n \in Rses |->
                  IF k = 0 THEN IF n = dst THEN 0 ELSE Infinity
                  ELSE Min({best[k - 1][n]} \cup {step(n, m) + best[k - 1][m] : m \in {x \in through : usable(n, x)}})]
  <1>1. C \in Nat
    BY ExpressionAssumption, FS_CardinalityType
  <1>2. NoHop(s) \in Q
    BY DEF NoHop, Infinity
  <1>3. F \in [(1 .. C) \X Q -> Q]
    <2>1. \A b \in Q : OneMore(s, b) \in Q
      BY OneMoreBounds
    <2> HIDE DEF Q
    <2> QED
      BY <2>1
  <1>4. PICK f \in [0 .. C -> Q] : Counts(f, C, NoHop(s), F)
    <2> HIDE DEF Q, F
    <2> QED
      BY <1>1, <1>2, <1>3, CountExists
  <1>5. f[0] = NoHop(s) /\ \A k \in 1 .. C : f[k] = OneMore(s, f[k - 1])
    <2>1. 0 \in 0 .. C /\ \A k \in 1 .. C : k \in 0 .. C /\ k - 1 \in 0 .. C /\ k # 0
      BY <1>1
    <2>2. \A k \in 1 .. C : F[<<k, f[k - 1]>>] = OneMore(s, f[k - 1])
      <3> HIDE DEF Q
      <3> QED
        BY <2>1
    <2>3. f = [k \in 0 .. C |-> IF k = 0 THEN NoHop(s) ELSE F[<<k, f[k - 1]>>]]
      <3> HIDE DEF F
      <3> QED
        BY <1>4 DEF Counts
    <2> HIDE DEF F
    <2> QED
      BY <2>1, <2>2, <2>3
  <1>6. f = [k \in 0 .. C |-> [n \in Rses |->
                  IF k = 0 THEN IF n = dst THEN 0 ELSE Infinity
                  ELSE Min({f[k - 1][n]} \cup {step(n, m) + f[k - 1][m] : m \in {x \in through : usable(n, x)}})]]
    <2>1. \A k \in 0 .. C : k = 0 \/ k \in 1 .. C
      BY <1>1
    <2>2. \A b : OneMore(s, b) = [n \in Rses |-> Min({b[n]} \cup {step(n, m) + b[m] : m \in {x \in through : usable(n, x)}})]
      BY Zenon DEF OneMore, Through, Usable, Hop
    <2>3. NoHop(s) = [n \in Rses |-> IF n = dst THEN 0 ELSE Infinity]
      BY DEF NoHop
    <2>4. ASSUME NEW k \in 0 .. C
          PROVE  f[k] = [n \in Rses |->
                  IF k = 0 THEN IF n = dst THEN 0 ELSE Infinity
                  ELSE Min({f[k - 1][n]} \cup {step(n, m) + f[k - 1][m] : m \in {x \in through : usable(n, x)}})]
      <3>1. CASE k = 0
        BY <1>5, <2>3, <3>1
      <3>2. CASE k # 0
        <4>1. f[k] = OneMore(s, f[k - 1])
          BY <1>5, <2>1, <3>2
        <4>2. OneMore(s, f[k - 1]) = [n \in Rses |-> Min({f[k - 1][n]} \cup {step(n, m) + f[k - 1][m] : m \in {x \in through : usable(n, x)}})]
          BY <2>2, Zenon
        <4> HIDE DEF step, usable, through
        <4> QED
          BY <3>2, <4>1, <4>2
      <3> QED
        BY <3>1, <3>2
    <2>5. DOMAIN f = 0 .. C /\ f = [k \in 0 .. C |-> f[k]]
      OBVIOUS
    <2> HIDE DEF step, usable, through, dst
    <2> QED
      BY <2>4, <2>5
  <1>7. best = [k \in 0 .. Cardinality(Rses) |-> [n \in Rses |->
                  IF k = 0 THEN IF n = dst THEN 0 ELSE Infinity
                  ELSE Min({best[k - 1][n]} \cup {step(n, m) + best[k - 1][m] : m \in {x \in through : usable(n, x)}})]]
    <2> HIDE DEF step, usable, through, dst
    <2> QED
      BY <1>6, Zenon
  <1>8. Best(s) = best[C]
    BY Zenon DEF Best
  <1> HIDE DEF best
  <1>9. \A k \in 0 .. C : best[k] = IF k = 0 THEN NoHop(s) ELSE OneMore(s, best[k - 1])
    <2> SUFFICES ASSUME NEW k \in 0 .. C PROVE best[k] = IF k = 0 THEN NoHop(s) ELSE OneMore(s, best[k - 1])
      OBVIOUS
    <2>1. best[k] = [n \in Rses |->
                  IF k = 0 THEN IF n = dst THEN 0 ELSE Infinity
                  ELSE Min({best[k - 1][n]} \cup {step(n, m) + best[k - 1][m] : m \in {x \in through : usable(n, x)}})]
      <3> HIDE DEF step, usable, through, dst
      <3> QED
        BY <1>7
    <2>2. OneMore(s, best[k - 1]) =
            [n \in Rses |-> Min({best[k - 1][n]} \cup {step(n, m) + best[k - 1][m] : m \in {x \in through : usable(n, x)}})]
      BY Zenon DEF OneMore, Through, Usable, Hop
    <2>3. NoHop(s) = [n \in Rses |-> IF n = dst THEN 0 ELSE Infinity]
      BY DEF NoHop
    <2> HIDE DEF step, usable, through, dst
    <2> QED
      BY <2>1, <2>2, <2>3
  <1> DEFINE D == {k \in Nat : k \in 0 .. C /\ best[k] # f[k]}
  <1>10. D = {}
    <2> SUFFICES ASSUME D # {} PROVE FALSE
      OBVIOUS
    <2>1. PICK k \in D : \A l \in D : k <= l
      <3>1. D \in SUBSET Nat
        OBVIOUS
      <3> HIDE DEF D
      <3> QED
        BY <3>1, LeastNumber
    <2>2. k \in 0 .. C /\ best[k] # f[k]
      OBVIOUS
    <2>3. k # 0
      BY <1>5, <1>9, <2>2
    <2>4. k \in 1 .. C /\ k - 1 \in 0 .. C /\ k - 1 \in Nat /\ k - 1 < k
      BY <1>1, <2>2, <2>3
    <2>5. k - 1 \notin D
      <3> HIDE DEF D
      <3> QED
        BY <2>1, <2>4
    <2>6. best[k - 1] = f[k - 1]
      BY <2>4, <2>5
    <2> QED
      BY <1>5, <1>9, <2>2, <2>3, <2>4, <2>6
  <1>11. best[C] = f[C]
    BY <1>1, <1>10
  <1> QED
    BY <1>1, <1>5, <1>8, <1>11

\* A path visits no node twice.
LEMMA PathsAreShort ==
  ASSUME NEW s, NEW g, SearchRight(s, g), NEW v \in Visited(s)
  PROVE  Len(s.path[v]) \in Nat /\ Len(s.path[v]) <= Cardinality(Rses)
  <1> DEFINE p == s.path[v]
             l == Len(p)
  <1>1. s.path \in [Rses -> Seq(Rses)] /\ PathsRight(s.path, s.hop) /\ v \in Rses /\ p # <<>>
    BY SearchTyped DEF SearchRight, Visited
  <1>2. p \in Seq(Rses) /\ \A i \in 1 .. Len(p) : s.path[p[i]] = SubSeq(p, i, Len(p))
    BY <1>1 DEF PathsRight
  <1> HIDE DEF p
  <1>3. l \in Nat /\ p \in [1 .. l -> Rses]
    BY <1>2, SeqIsFunction
  <1>4. ASSUME NEW i \in 1 .. l, NEW k \in 1 .. l, p[i] = p[k]
        PROVE  i = k
    <2>1. SubSeq(p, i, Len(p)) = SubSeq(p, k, Len(p))
      BY <1>2, <1>4
    <2>2. Len(SubSeq(p, i, Len(p))) = l - i + 1 /\ Len(SubSeq(p, k, Len(p))) = l - k + 1
      BY <1>2, PathEnds
    <2> HIDE DEF l
    <2> QED
      BY <1>3, <2>1, <2>2
  <1> HIDE DEF l
  <1>5. p \in Injection(1 .. l, Rses)
    BY <1>3, <1>4 DEF Injection, IsInjective
  <1>6. Cardinality(1 .. l) = l
    BY <1>3, FS_Interval
  <1>7. l <= Cardinality(Rses)
    BY <1>5, <1>6, ExpressionAssumption, FS_Injection
  <1> QED
    BY <1>3, <1>7 DEF l, p

\* Arithmetic of the distances by way of a hop.
LEMMA Sums ==
  ASSUME NEW c \in Nat, NEW x \in Nat, NEW y \in Nat, NEW z \in Nat, NEW w \in Nat
  PROVE  /\ x <= c + y /\ y <= z /\ w = z + c => x <= w
         /\ x = c + y /\ z <= y /\ w <= z + c => w <= x
         /\ ~(x <= y) /\ z <= y => z < x
  OBVIOUS

\* The distances of the nodes that were visited are not too small.
LEMMA UpperBound ==
  ASSUME NEW s, SearchRight(s, Graph), ~s.disturbed, IsGraph(Graph), multihop \subseteq Rses,
         NEW C \in Nat, NEW f \in [0 .. C -> [Rses -> Nat]], f[0] = NoHop(s), \A k \in 1 .. C : f[k] = OneMore(s, f[k - 1])
  PROVE  \A k \in 0 .. C : f[k][s.req.dst] = 0 /\ \A v \in Visited(s) : Len(s.path[v]) <= k => f[k][v] <= s.dist[v]
  <1> DEFINE dst == s.req.dst
             Good(k) == f[k][dst] = 0 /\ \A v \in Visited(s) : Len(s.path[v]) <= k => f[k][v] <= s.dist[v]
             D == {k \in Nat : k \in 0 .. C /\ ~Good(k)}
  <1>1. /\ s \in Searches /\ dst \in Rses /\ s.path \in [Rses -> Seq(Rses)] /\ s.hop \in [Rses -> Rses]
        /\ s.dist \in [Rses -> Nat] /\ s.dist[dst] = 0 /\ PathsRight(s.path, s.hop) /\ Visited(s) \subseteq Rses
    BY SearchTyped DEF SearchRight, QueueRight, Visited
  <1>2. ASSUME NEW v \in Visited(s)
        PROVE  /\ v \in Rses /\ Len(s.path[v]) \in Nat /\ Len(s.path[v]) # 0
               /\ s.hop[v] \in Rses /\ Len(s.path[v]) = Len(s.path[s.hop[v]]) + 1
               /\ s.hop[v] = dst \/ s.hop[v] \in Visited(s)
               /\ Arc(s, Graph, v, s.hop[v]) /\ s.hop[v] \in Through(s)
               /\ s.dist[v] = s.dist[s.hop[v]] + Cost(s, Graph, v, s.hop[v])
    <2> DEFINE h == s.hop[v]
               q == s.path[h]
    <2>1. v \in Rses /\ h \in Rses /\ s.path[v] # <<>> /\ v # dst
      BY <1>1, <1>2 DEF Visited, SearchRight, HopsRight
    <2>2. s.path[v] = <<v>> \o q /\ q \in Seq(Rses)
      BY <1>1, <2>1 DEF PathsRight
    <2>3. Len(s.path[v]) = Len(q) + 1 /\ Len(q) \in Nat
      BY <2>1, <2>2, InFront
    <2>4. /\ h = dst \/ h \in Visited(s)
          /\ Arc(s, Graph, v, h) /\ s.dist[v] = s.dist[h] + Cost(s, Graph, v, h)
      BY <1>2, <2>1 DEF SearchRight, HopsRight
    <2>5. h \in Allowed(s, Graph)
      <3>1. dst \in Allowed(s, Graph)
        BY <1>1 DEF Allowed
      <3>2. h \in Visited(s) /\ h # dst => h \in Allowed(s, Graph)
        BY DEF SearchRight, HopsRight
      <3> QED
        BY <2>4, <3>1, <3>2
    <2>6. h \in Through(s)
      <3> HIDE DEF h
      <3> QED
        BY <1>1, <2>4, <2>5, HopIsArc
    <2> QED
      BY <2>1, <2>3, <2>4, <2>6
  <1> HIDE DEF dst
  <1>3. D = {}
    <2> SUFFICES ASSUME D # {} PROVE FALSE
      OBVIOUS
    <2>1. PICK k \in D : \A l \in D : k <= l
      <3>1. D \in SUBSET Nat
        OBVIOUS
      <3> HIDE DEF D
      <3> QED
        BY <3>1, LeastNumber
    <2>2. k \in 0 .. C /\ ~Good(k)
      OBVIOUS
    <2>3. CASE k = 0
      <3>1. f[0][dst] = 0
        BY <1>1 DEF NoHop, dst
      <3>2. \A v \in Visited(s) : ~(Len(s.path[v]) <= 0)
        BY <1>2
      <3> QED
        BY <2>2, <2>3, <3>1, <3>2
    <2>4. CASE k # 0
      <3> DEFINE b == f[k - 1]
      <3>1. k \in 1 .. C /\ k - 1 \in 0 .. C /\ k - 1 \in Nat /\ k - 1 < k
        BY <2>2, <2>4
      <3>2. Good(k - 1)
        <4>1. k - 1 \notin D
          <5> HIDE DEF D
          <5> QED
            BY <2>1, <3>1
        <4> QED
          BY <3>1, <4>1
      <3>3. b \in [Rses -> Nat] /\ f[k] = OneMore(s, b)
        BY <3>1
      <3>4. b[dst] = 0 /\ \A v \in Visited(s) : Len(s.path[v]) <= k - 1 => b[v] <= s.dist[v]
        BY <3>2
      <3> HIDE DEF b
      <3>5. /\ f[k] \in [Rses -> Nat]
            /\ \A n \in Rses :
                 /\ f[k][n] <= b[n]
                 /\ \A m \in Through(s) : Usable(s, n, m) => f[k][n] <= Hop(s, n, m) + b[m]
        BY <1>1, <3>3, OneMoreBounds
      <3>6. f[k][dst] = 0
        BY <1>1, <3>4, <3>5
      <3>7. ASSUME NEW v \in Visited(s), Len(s.path[v]) <= k
            PROVE  f[k][v] <= s.dist[v]
        <4> DEFINE h == s.hop[v]
        <4>1. /\ v \in Rses /\ h \in Rses /\ Len(s.path[v]) = Len(s.path[h]) + 1 /\ Len(s.path[v]) \in Nat
              /\ h = dst \/ h \in Visited(s)
              /\ Arc(s, Graph, v, h) /\ h \in Through(s) /\ s.dist[v] = s.dist[h] + Cost(s, Graph, v, h)
          BY <1>2, <3>7
        <4> HIDE DEF h
        <4>2. Usable(s, v, h) /\ Hop(s, v, h) \in Nat /\ Hop(s, v, h) = Cost(s, Graph, v, h)
          BY <1>1, <4>1, HopIsArc
        <4>3. b[h] <= s.dist[h]
          <5>1. CASE h = dst
            BY <1>1, <3>4, <5>1
          <5>2. CASE h \in Visited(s)
            <6>1. Len(s.path[h]) \in Nat /\ Len(s.path[h]) <= k - 1
              BY <1>2, <3>1, <3>7, <4>1, <5>2
            <6> QED
              BY <3>4, <5>2, <6>1
          <5> QED
            BY <4>1, <5>1, <5>2
        <4>4. f[k][v] <= Hop(s, v, h) + b[h]
          BY <3>5, <4>1, <4>2
        <4>5. f[k][v] \in Nat /\ b[h] \in Nat /\ s.dist[h] \in Nat /\ s.dist[v] \in Nat
          BY <1>1, <3>3, <3>5, <4>1
        <4>6. s.dist[v] = s.dist[h] + Hop(s, v, h)
          BY <4>1, <4>2
        <4> QED
          BY <4>2, <4>3, <4>4, <4>5, <4>6, Sums
      <3> QED
        BY <2>2, <3>6, <3>7
    <2> QED
      BY <2>3, <2>4
  <1>4. \A k \in 0 .. C : Good(k)
    <2>1. \A k \in 0 .. C : k \in Nat
      OBVIOUS
    <2> HIDE DEF Good
    <2> QED
      BY <1>3, <2>1
  <1> QED
    BY <1>4 DEF dst

\* f has the distances hop by hop for a search that has ended undisturbed.
Ended(s, C, f) ==
  /\ SearchRight(s, Graph) /\ ~s.disturbed /\ s.heap = <<>> /\ IsGraph(Graph) /\ multihop \subseteq Rses
  /\ C \in Nat /\ f \in [0 .. C -> [Rses -> Nat]]
  /\ f[0] = NoHop(s) /\ \A k \in 1 .. C : f[k] = OneMore(s, f[k - 1])

\* The distances of a search that has ended are not too large.
LEMMA LowerBound ==
  ASSUME NEW s, NEW C, NEW f, Ended(s, C, f)
  PROVE  /\ \A n \in Wanted(s, Graph) :
              IF n \in Visited(s) THEN s.dist[n] <= f[C][n] ELSE Infinity <= f[C][n]
         /\ \A n \in s.from \ Wanted(s, Graph) : f[C][n] = Infinity
  <1>0. /\ SearchRight(s, Graph) /\ ~s.disturbed /\ s.heap = <<>> /\ IsGraph(Graph) /\ multihop \subseteq Rses
        /\ C \in Nat /\ f \in [0 .. C -> [Rses -> Nat]]
        /\ f[0] = NoHop(s) /\ \A k \in 1 .. C : f[k] = OneMore(s, f[k - 1])
    BY DEF Ended
  <1> USE <1>0
  <1> DEFINE dst == s.req.dst
             Reached == Allowed(s, Graph) \cup s.from
  <1>1. /\ s \in Searches /\ dst \in Rses /\ dst \notin s.from /\ s.from \subseteq Rses
        /\ s.dist \in [Rses -> Nat] /\ s.dist[dst] = 0
    BY SearchTyped DEF SearchRight, QueueRight
  <1>2. PICK b \in 0 .. Infinity :
          /\ \A u \in Allowed(s, Graph) : s.dist[u] < b => Settled(s, Graph, u)
          /\ \A r \in Wanted(s, Graph) : s.dist[r] <= b /\ (r \notin Visited(s) => s.dist[r] = Infinity)
    BY DEF SearchRight, ProgressRight, FinishedRight
  <1>3. b \in Nat /\ b <= Infinity /\ Infinity \in Nat
    BY DEF Infinity
  <1>4. /\ Reached \subseteq Rses /\ Through(s) \subseteq Reached /\ dst \in Allowed(s, Graph)
        /\ Wanted(s, Graph) \subseteq Allowed(s, Graph) /\ Wanted(s, Graph) \subseteq s.from
    BY <1>1, GraphFields DEF Allowed, Wanted, Through
  <1>5. ASSUME NEW n \in Reached, NEW m, Arc(s, Graph, n, m)
        PROVE  n \in Allowed(s, Graph)
    <2>1. <<n, m>> \in Graph.linked /\ <<n, m>>[1] = n
      BY <1>5 DEF Arc
    <2>2. n \in s.from => n \in Wanted(s, Graph)
      BY <2>1 DEF Wanted
    <2> QED
      BY <1>4, <2>2
  <1> DEFINE Good(k) == /\ \A n \in Reached : b <= f[k][n] \/ (n \in Allowed(s, Graph) /\ s.dist[n] <= f[k][n])
                        /\ \A n \in s.from \ Wanted(s, Graph) : f[k][n] = Infinity
             D == {k \in Nat : k \in 0 .. C /\ ~Good(k)}
  <1> HIDE DEF dst, Reached
  <1>6. D = {}
    <2> SUFFICES ASSUME D # {} PROVE FALSE
      OBVIOUS
    <2>1. PICK k \in D : \A l \in D : k <= l
      <3>1. D \in SUBSET Nat
        OBVIOUS
      <3> HIDE DEF D
      <3> QED
        BY <3>1, LeastNumber
    <2>2. k \in 0 .. C /\ ~Good(k)
      OBVIOUS
    <2>3. CASE k = 0
      <3>1. \A n \in Rses : f[0][n] = IF n = dst THEN 0 ELSE Infinity
        BY DEF NoHop, dst
      <3>2. \A n \in Reached : b <= f[0][n] \/ (n \in Allowed(s, Graph) /\ s.dist[n] <= f[0][n])
        <4> SUFFICES ASSUME NEW n \in Reached
                     PROVE  b <= f[0][n] \/ (n \in Allowed(s, Graph) /\ s.dist[n] <= f[0][n])
          OBVIOUS
        <4>1. CASE n = dst
          <5>1. f[0][n] = 0 /\ s.dist[n] = 0 /\ n \in Allowed(s, Graph)
            BY <1>1, <1>4, <3>1, <4>1
          <5> QED
            BY <5>1
        <4>2. CASE n # dst
          <5>1. f[0][n] = Infinity
            BY <1>4, <3>1, <4>2
          <5> QED
            BY <1>3, <5>1
        <4> QED
          BY <4>1, <4>2
      <3>3. \A n \in s.from \ Wanted(s, Graph) : f[0][n] = Infinity
        BY <1>1, <3>1
      <3> QED
        BY <2>2, <2>3, <3>2, <3>3
    <2>4. CASE k # 0
      <3> DEFINE d == f[k - 1]
      <3>1. k \in 1 .. C /\ k - 1 \in 0 .. C /\ k - 1 \in Nat /\ k - 1 < k
        BY <2>2, <2>4
      <3>2. Good(k - 1)
        <4>1. k - 1 \notin D
          <5> HIDE DEF D
          <5> QED
            BY <2>1, <3>1
        <4> QED
          BY <3>1, <4>1
      <3>3. d \in [Rses -> Nat] /\ f[k] = OneMore(s, d)
        BY <3>1
      <3>4. /\ \A n \in Reached : b <= d[n] \/ (n \in Allowed(s, Graph) /\ s.dist[n] <= d[n])
            /\ \A n \in s.from \ Wanted(s, Graph) : d[n] = Infinity
        BY <3>2
      <3> HIDE DEF d
      <3>5. /\ f[k] \in [Rses -> Nat]
            /\ \A n \in Rses : Comes(s, d, n, f[k][n])
        BY <1>1, <3>3, OneMoreBounds
      <3>6. ASSUME NEW n \in Reached
            PROVE  b <= f[k][n] \/ (n \in Allowed(s, Graph) /\ s.dist[n] <= f[k][n])
        <4>1. CASE f[k][n] = d[n]
          BY <3>4, <4>1
        <4>2. CASE \E m \in Through(s) : Usable(s, n, m) /\ f[k][n] = Hop(s, n, m) + d[m]
          <5>1. PICK m \in Through(s) : Usable(s, n, m) /\ f[k][n] = Hop(s, n, m) + d[m]
            BY <4>2
          <5>2. Arc(s, Graph, n, m) /\ Hop(s, n, m) \in Nat /\ Hop(s, n, m) = Cost(s, Graph, n, m)
            BY <1>1, <5>1, HopIsArc
          <5>3. m \in Reached /\ m \in Rses /\ n \in Rses /\ n \in Allowed(s, Graph) /\ d[m] \in Nat
            BY <1>4, <1>5, <3>3, <5>2
          <5>4. s.dist[m] \in Nat /\ s.dist[n] \in Nat
            BY <1>1, <5>3
          <5>5. CASE b <= d[m]
            BY <1>3, <5>1, <5>2, <5>3, <5>5
          <5>6. CASE ~(b <= d[m])
            <6>1. m \in Allowed(s, Graph) /\ s.dist[m] <= d[m] /\ s.dist[m] < b
              <7>1. m \in Allowed(s, Graph) /\ s.dist[m] <= d[m]
                BY <3>4, <5>3, <5>6
              <7> QED
                BY <1>3, <5>3, <5>4, <5>6, <7>1, Sums
            <6>2. s.dist[n] <= s.dist[m] + Cost(s, Graph, n, m)
              BY <1>2, <5>2, <5>3, <6>1 DEF Settled
            <6> QED
              <7>1. s.dist[n] <= s.dist[m] + Hop(s, n, m) /\ f[k][n] \in Nat
                BY <3>5, <5>2, <5>3, <6>2
              <7>2. s.dist[n] <= f[k][n]
                <8> DEFINE c == Hop(s, n, m)
                           x == f[k][n]
                           y == d[m]
                           z == s.dist[m]
                           w == s.dist[n]
                <8>1. /\ c \in Nat /\ x \in Nat /\ y \in Nat /\ z \in Nat /\ w \in Nat
                      /\ x = c + y /\ z <= y /\ w <= z + c
                  BY <5>1, <5>2, <5>3, <5>4, <6>1, <7>1
                <8> HIDE DEF c, x, y, z, w
                <8>2. w <= x
                  BY <8>1, Sums
                <8> QED
                  BY <8>2 DEF w, x
              <7> QED
                BY <5>3, <7>2
          <5> QED
            BY <5>5, <5>6
        <4> QED
          BY <1>4, <3>5, <4>1, <4>2 DEF Comes
      <3>7. ASSUME NEW n \in s.from \ Wanted(s, Graph)
            PROVE  f[k][n] = Infinity
        <4>1. ASSUME NEW m \in Through(s), Usable(s, n, m) PROVE FALSE
          <5>1. Arc(s, Graph, n, m)
            BY <1>1, <4>1, HopIsArc
          <5>2. <<n, m>> \in Graph.linked /\ <<n, m>>[1] = n
            BY <5>1 DEF Arc
          <5> QED
            BY <3>7, <5>2 DEF Wanted
        <4> QED
          BY <1>1, <3>4, <3>5, <3>7, <4>1 DEF Comes
      <3> QED
        BY <2>2, <3>6, <3>7
    <2> QED
      BY <2>3, <2>4
  <1>7. C \in 0 .. C
    OBVIOUS
  <1>8. Good(C)
    <2> HIDE DEF Good
    <2> QED
      BY <1>6, <1>7
  <1>9. ASSUME NEW n \in Wanted(s, Graph)
        PROVE  IF n \in Visited(s) THEN s.dist[n] <= f[C][n] ELSE Infinity <= f[C][n]
    <2>1. n \in Reached /\ n \in Rses /\ s.dist[n] \in Nat /\ f[C][n] \in Nat
      BY <1>1, <1>4, <1>7 DEF Reached
    <2>2. s.dist[n] <= b /\ (n \notin Visited(s) => s.dist[n] = Infinity)
      BY <1>2
    <2>3. b <= f[C][n] \/ s.dist[n] <= f[C][n]
      BY <1>8, <2>1
    <2> QED
      BY <1>3, <2>1, <2>2, <2>3
  <1> QED
    BY <1>8, <1>9

\* A search that has ended has yielded a source if it can be reached, with its
\* shortest distance.
LEMMA SourceShortest ==
  ASSUME NEW s, SearchRight(s, Graph), ~s.disturbed, s.heap = <<>>, IsGraph(Graph), multihop \subseteq Rses,
         NEW n \in s.from
  PROVE  /\ Best(s)[n] \in Nat
         /\ Best(s)[n] < Infinity <=> n \in Visited(s)
         /\ n \in Visited(s) => Best(s)[n] = s.dist[n]
  <1> DEFINE C == Cardinality(Rses)
  <1>1. /\ s \in Searches /\ n \in Rses /\ n # s.req.dst /\ s.dist \in [Rses -> Nat] /\ Infinity \in Nat
    BY SearchTyped DEF SearchRight, Infinity
  <1>0. C = Cardinality(Rses)
    OBVIOUS
  <1>2. C \in Nat
    BY <1>1, BestExists
  <1>3. PICK f \in [0 .. C -> [Rses -> Nat]] :
          Best(s) = f[C] /\ f[0] = NoHop(s) /\ \A k \in 1 .. C : f[k] = OneMore(s, f[k - 1])
    <2> HIDE DEF C
    <2> QED
      BY <1>0, <1>1, BestExists
  <1>4. ASSUME NEW v \in Visited(s) PROVE Len(s.path[v]) \in Nat /\ Len(s.path[v]) <= C
    BY PathsAreShort
  <1> HIDE DEF C
  <1>5. C \in 0 .. C /\ Best(s)[n] \in Nat /\ s.dist[n] \in Nat
    BY <1>1, <1>2, <1>3
  <1>6. \A k \in 0 .. C : f[k][s.req.dst] = 0 /\ \A v \in Visited(s) : Len(s.path[v]) <= k => f[k][v] <= s.dist[v]
    BY <1>2, <1>3, UpperBound
  <1>7. n \in Visited(s) => Best(s)[n] <= s.dist[n]
    BY <1>3, <1>4, <1>5, <1>6
  <1>8. /\ \A m \in Wanted(s, Graph) : IF m \in Visited(s) THEN s.dist[m] <= f[C][m] ELSE Infinity <= f[C][m]
        /\ \A m \in s.from \ Wanted(s, Graph) : f[C][m] = Infinity
    <2>1. Ended(s, C, f)
      BY <1>2, <1>3 DEF Ended
    <2> QED
      BY <2>1, LowerBound
  <1>9. n \in Visited(s) => s.dist[n] < Infinity
    BY DEF SearchRight, QueueRight
  <1>10. n \in Visited(s) => n \in Wanted(s, Graph)
    <2> SUFFICES ASSUME n \in Visited(s) PROVE n \in Wanted(s, Graph)
      OBVIOUS
    <2>1. Arc(s, Graph, n, s.hop[n])
      BY <1>1 DEF SearchRight, HopsRight
    <2>2. <<n, s.hop[n]>> \in Graph.linked /\ <<n, s.hop[n]>>[1] = n
      BY <2>1 DEF Arc
    <2> QED
      BY <2>2 DEF Wanted
  <1>11. CASE n \in Visited(s)
    <2>1. s.dist[n] <= Best(s)[n]
      BY <1>3, <1>8, <1>10, <1>11
    <2> QED
      BY <1>1, <1>5, <1>7, <1>9, <1>11, <2>1
  <1>12. CASE n \notin Visited(s)
    <2>1. Infinity <= Best(s)[n]
      BY <1>1, <1>3, <1>8, <1>12
    <2> QED
      BY <1>1, <1>5, <1>12, <2>1
  <1> QED
    BY <1>11, <1>12

\* The heap and the distances of the searches.
LEMMA ShortestFollow ==
  ASSUME EdgesInv, SearchInv
  PROVE  ShortestPaths
  <1>1. search # Idle => \A i \in 2 .. Len(search.heap) :
                           search.dist[search.heap[i \div 2]] <= search.dist[search.heap[i]]
    BY DEF SearchInv, SearchRight, QueueRight, IsHeap, Ordered
  <1> DEFINE s == answer.search
             got(n) == {y \in Range(s.yielded) : y[1] = n}
  <1>2. ASSUME answer.at = "done", ~answer.search.disturbed
        PROVE  /\ \A n \in s.from : IF Best(s)[n] < Infinity THEN got(n) = {<<n, Best(s)[n]>>} ELSE got(n) = {}
               /\ \A i, k \in DOMAIN s.yielded : i <= k => s.yielded[i][2] <= s.yielded[k][2]
    <2>1. SearchRight(s, Graph) /\ s.heap = <<>> /\ IsGraph(Graph) /\ multihop \subseteq Rses /\ ~s.disturbed
      BY <1>2, GraphIsOne DEF SearchInv, AnswerRight, EdgesInv
    <2> HIDE DEF s
    <2>2. /\ s.yielded \in Seq(Rses \X Nat) /\ s.from \subseteq Rses /\ YieldedRight(s)
      BY <2>1, SearchTyped DEF SearchRight
    <2> DEFINE y == s.yielded
    <2>3. /\ \A i \in DOMAIN y : y[i] \in Rses \X Nat /\ y[i][1] \in Visited(s) /\ y[i][2] = s.dist[y[i][1]]
          /\ \A v \in Visited(s) : \E i \in DOMAIN y : y[i][1] = v
          /\ \A i, k \in DOMAIN y : i <= k => y[i][2] <= y[k][2]
      BY <2>2 DEF YieldedRight
    <2>4. Range(y) = {y[i] : i \in DOMAIN y}
      BY DEF Range
    <2> HIDE DEF y
    <2>5. ASSUME NEW n \in s.from
          PROVE  IF Best(s)[n] < Infinity THEN got(n) = {<<n, Best(s)[n]>>} ELSE got(n) = {}
      <3>1. /\ Best(s)[n] < Infinity <=> n \in Visited(s)
            /\ n \in Visited(s) => Best(s)[n] = s.dist[n]
        BY <2>1, <2>5, SourceShortest
      <3>2. got(n) = {z \in Range(y) : z[1] = n}
        BY DEF y
      <3>3. \A z \in Range(y) : z = <<z[1], s.dist[z[1]]>> /\ z[1] \in Visited(s)
        BY <2>3, <2>4
      <3>4. \A v \in Visited(s) : \E z \in Range(y) : z[1] = v
        BY <2>3, <2>4
      <3> HIDE DEF got
      <3>5. CASE n \in Visited(s)
        <4>1. got(n) = {<<n, s.dist[n]>>}
          BY <3>2, <3>3, <3>4, <3>5
        <4> QED
          BY <3>1, <3>5, <4>1
      <3>6. CASE n \notin Visited(s)
        <4>1. got(n) = {}
          BY <3>2, <3>3, <3>6
        <4> QED
          BY <3>1, <3>6, <4>1
      <3> QED
        BY <3>5, <3>6
    <2> QED
      BY <2>3, <2>5 DEF y
  <1> QED
    BY <1>1, <1>2, Zenon DEF ShortestPaths

\* The searches start right and stay so.
LEMMA SearchInvariant == Spec => [](EdgesInv /\ SearchInv)
  <1>1. Init => EdgesInv /\ SearchInv
    <2> SUFFICES ASSUME Init PROVE EdgesInv /\ SearchInv
      OBVIOUS
    <2>1. GraphTyped
      BY DEF Init, GraphTyped, Plans
    <2>2. EdgesKept /\ EdgesCurrent
      BY DEF Init, EdgesKept, EdgesCurrent
    <2>3. SearchInv
      BY DEF Init, SearchInv, Idle
    <2> QED
      BY <2>1, <2>2, <2>3 DEF EdgesInv
  <1>2. EdgesInv /\ [Next]_vars => EdgesInv'
    BY EdgesStep
  <1>3. EdgesInv /\ EdgesInv' /\ SearchInv /\ [Next]_vars => SearchInv'
    BY SearchStep
  <1> QED
    BY <1>1, <1>2, <1>3, PTL DEF Spec

\* Whatever the graph and the costs are, the queue of a search is a heap at
\* every step, and a search that no other thread disturbs yields every source
\* that has a path, with the length of a shortest one, in the order of the
\* distances (dijkstra_spf, search_shortest_paths, PriorityQueue).
THEOREM PathsAreShortest == Spec => []ShortestPaths
  <1>1. EdgesInv /\ SearchInv => ShortestPaths
    BY ShortestFollow
  <1> QED
    BY <1>1, SearchInvariant, PTL

\* The candidate paths of a request follow links of the topology from one of
\* its sources to its destination, with neither a source nor a tape in between,
\* and at most one path starts at a source (build_transfer_paths,
\* __compress_multihops).
THEOREM CandidatesAreSound == Spec => []CandidatesSound
  <1>1. EdgesInv /\ SearchInv => CandidatesSound
    BY CandidatesFollow
  <1> QED
    BY <1>1, SearchInvariant, PTL

-----------------------------------------------------------------------------
(***************************************************************************)
(* Recursion.  A function that calls itself on smaller arguments exists,   *)
(* so that the equation that defines it holds.                             *)
(***************************************************************************)
\* A recursion over D whose value B at x depends on the values below x only.
Descends(D, V, m, B) ==
  /\ V # {} /\ m \in [D -> Nat] /\ B \in [D \X [D -> V] -> V]
  /\ \A x \in D : \A f, g \in [D -> V] :
       (\A y \in D : m[y] < m[x] => f[y] = g[y]) => B[<<x, f>>] = B[<<x, g>>]

\* The recursive equation holds up to a measure.
UpTo(f, D, m, B, n) == \A x \in D : m[x] <= n => f[x] = B[<<x, f>>]

\* Two functions that satisfy the equation up to a measure agree up to there.
LEMMA UpToUnique ==
  ASSUME NEW D, NEW V, NEW m, NEW B, Descends(D, V, m, B), NEW f \in [D -> V], NEW g \in [D -> V],
         NEW n \in Nat, UpTo(f, D, m, B, n), UpTo(g, D, m, B, n), NEW x \in D, m[x] <= n
  PROVE  f[x] = g[x]
  <1> DEFINE W == {y \in D : m[y] <= n /\ f[y] # g[y]}
  <1>1. m \in [D -> Nat]
    BY DEF Descends
  <1>2. W = {}
    <2> SUFFICES ASSUME W # {} PROVE FALSE
      OBVIOUS
    <2>1. W \in SUBSET D
      OBVIOUS
    <2>2. PICK z \in W : \A y \in W : m[z] <= m[y]
      <3> HIDE DEF W
      <3> QED
        BY <1>1, <2>1, LeastMeasure
    <2>3. z \in D /\ m[z] <= n /\ f[z] # g[z]
      BY <2>2
    <2>4. \A y \in D : m[y] < m[z] => f[y] = g[y]
      <3> SUFFICES ASSUME NEW y \in D, m[y] < m[z] PROVE f[y] = g[y]
        OBVIOUS
      <3>1. m[y] \in Nat /\ m[z] \in Nat /\ m[y] <= n
        BY <1>1, <2>3
      <3>2. y \notin W
        <4> HIDE DEF W
        <4> QED
          BY <2>2, <3>1
      <3> QED
        BY <3>1, <3>2
    <2>5. B[<<z, f>>] = B[<<z, g>>]
      BY <2>3, <2>4 DEF Descends
    <2> QED
      BY <2>3, <2>5 DEF UpTo
  <1> QED
    BY <1>2

\* Such a recursion computes something.
LEMMA RecursionExists ==
  ASSUME NEW D, NEW V, NEW m, NEW B, Descends(D, V, m, B)
  PROVE  \E f \in [D -> V] : \A x \in D : f[x] = B[<<x, f>>]
  <1> DEFINE Bad == {n \in Nat : ~\E f \in [D -> V] : UpTo(f, D, m, B, n)}
  <1>1. m \in [D -> Nat] /\ B \in [D \X [D -> V] -> V]
    BY DEF Descends
  <1>2. PICK c \in [D -> V] : TRUE
    <2>1. PICK v \in V : TRUE
      BY DEF Descends
    <2>2. [x \in D |-> v] \in [D -> V]
      OBVIOUS
    <2> QED
      BY <2>2
  <1>3. ASSUME NEW f \in [D -> V], NEW n \in Nat, \A k \in Nat : k < n => UpTo(f, D, m, B, k)
        PROVE  \E g \in [D -> V] : UpTo(g, D, m, B, n)
    <2> DEFINE g == [x \in D |-> B[<<x, f>>]]
    <2>1. g \in [D -> V] /\ \A x \in D : g[x] = B[<<x, f>>]
      BY <1>1
    <2> HIDE DEF g
    <2>2. ASSUME NEW x \in D, m[x] <= n PROVE g[x] = B[<<x, g>>]
      <3>1. ASSUME NEW y \in D, m[y] < m[x] PROVE g[y] = f[y]
        <4>1. m[y] \in Nat /\ m[x] \in Nat /\ m[y] < n
          BY <1>1, <2>2, <3>1
        <4>2. UpTo(f, D, m, B, m[y])
          BY <1>3, <4>1
        <4>3. f[y] = B[<<y, f>>]
          BY <4>1, <4>2 DEF UpTo
        <4> QED
          BY <2>1, <4>3
      <3>2. B[<<x, g>>] = B[<<x, f>>]
        BY <2>1, <3>1 DEF Descends
      <3> QED
        BY <2>1, <3>2
    <2> QED
      BY <2>1, <2>2 DEF UpTo
  <1>4. Bad = {}
    <2> SUFFICES ASSUME Bad # {} PROVE FALSE
      OBVIOUS
    <2>1. Bad \in SUBSET Nat
      OBVIOUS
    <2>2. PICK n \in Bad : \A k \in Bad : n <= k
      <3> HIDE DEF Bad
      <3> QED
        BY <2>1, LeastNumber
    <2>3. CASE n = 0
      <3>1. \A k \in Nat : ~(k < n)
        BY <2>3
      <3> QED
        BY <1>2, <1>3, <2>2, <3>1
    <2>4. CASE n # 0
      <3>1. n - 1 \in Nat /\ n \in Nat
        BY <2>2, <2>4
      <3>2. n - 1 \notin Bad
        <4> HIDE DEF Bad
        <4> QED
          BY <2>2, <3>1
      <3>3. PICK f \in [D -> V] : UpTo(f, D, m, B, n - 1)
        BY <3>1, <3>2
      <3>4. ASSUME NEW k \in Nat, k < n PROVE UpTo(f, D, m, B, k)
        BY <1>1, <3>1, <3>3, <3>4 DEF UpTo
      <3> QED
        BY <1>3, <2>2, <3>1, <3>4
    <2> QED
      BY <2>3, <2>4
  <1>5. \A n \in Nat : \E f \in [D -> V] : UpTo(f, D, m, B, n)
    BY <1>4
  <1> DEFINE h(n) == CHOOSE f \in [D -> V] : UpTo(f, D, m, B, n)
             f == [x \in D |-> h(m[x])[x]]
  <1>6. \A n \in Nat : h(n) \in [D -> V] /\ UpTo(h(n), D, m, B, n)
    BY <1>5
  <1> HIDE DEF h
  <1>7. f \in [D -> V] /\ \A x \in D : f[x] = h(m[x])[x]
    BY <1>1, <1>6
  <1> HIDE DEF f
  <1>8. ASSUME NEW x \in D PROVE f[x] = B[<<x, f>>]
    <2> DEFINE g == h(m[x])
    <2>1. m[x] \in Nat /\ g \in [D -> V] /\ UpTo(g, D, m, B, m[x])
      BY <1>1, <1>6
    <2>2. ASSUME NEW y \in D, m[y] < m[x] PROVE f[y] = g[y]
      <3>1. m[y] \in Nat /\ h(m[y]) \in [D -> V] /\ UpTo(h(m[y]), D, m, B, m[y])
        BY <1>1, <1>6
      <3>2. UpTo(g, D, m, B, m[y])
        <4> HIDE DEF g
        <4> QED
          BY <1>1, <2>1, <2>2, <3>1 DEF UpTo
      <3>3. h(m[y])[y] = g[y]
        <4> HIDE DEF g
        <4> QED
          BY <2>1, <3>1, <3>2, UpToUnique
      <3> QED
        BY <1>7, <3>3
    <2> HIDE DEF g
    <2>3. B[<<x, f>>] = B[<<x, g>>]
      BY <1>7, <2>1, <2>2 DEF Descends
    <2>4. g[x] = B[<<x, g>>]
      BY <2>1 DEF UpTo
    <2> QED
      BY <1>7, <2>3, <2>4 DEF g
  <1> QED
    BY <1>7, <1>8

-----------------------------------------------------------------------------
(***************************************************************************)
(* Parentheses.                                                            *)
(***************************************************************************)
\* How much a token changes the number of open parentheses, and that number
\* after n tokens.
Weight(t) == IF t = "(" THEN 1 ELSE IF t = ")" THEN -1 ELSE 0
Depth(s, n) == Count(s, "(", n) - Count(s, ")", n)

\* One token more is counted.
LEMMA CountStep ==
  ASSUME NEW s, NEW t, NEW n \in Nat
  PROVE  /\ Count(s, t, n) \in Nat /\ Count(s, t, 0) = 0
         /\ Count(s, t, n + 1) = Count(s, t, n) + (IF s[n + 1] = t THEN 1 ELSE 0)
  <1> DEFINE C(k) == {i \in 1 .. k : s[i] = t}
  <1>1. IsFiniteSet(1 .. n) /\ C(n) \subseteq 1 .. n
    BY FS_Interval
  <1>2. IsFiniteSet(C(n)) /\ Cardinality(C(n)) \in Nat
    BY <1>1, FS_Subset, FS_CardinalityType
  <1>3. C(0) = {} /\ Cardinality({}) = 0
    BY FS_EmptySet
  <1>4. C(n + 1) = IF s[n + 1] = t THEN C(n) \cup {n + 1} ELSE C(n)
    OBVIOUS
  <1>5. n + 1 \notin C(n)
    OBVIOUS
  <1>6. Count(s, t, n) = Cardinality(C(n)) /\ Count(s, t, n + 1) = Cardinality(C(n + 1)) /\ Count(s, t, 0) = Cardinality(C(0))
    BY DEF Count
  <1> HIDE DEF C
  <1>7. Cardinality(C(n) \cup {n + 1}) = Cardinality(C(n)) + 1
    BY <1>2, <1>5, FS_AddElement
  <1>8. CASE s[n + 1] = t
    BY <1>2, <1>3, <1>4, <1>6, <1>7, <1>8
  <1>9. CASE s[n + 1] # t
    BY <1>2, <1>3, <1>4, <1>6, <1>9
  <1> QED
    BY <1>8, <1>9

\* The depth after one token more.
LEMMA DepthStep ==
  ASSUME NEW s, NEW n \in Nat
  PROVE  /\ Depth(s, n) \in Int /\ Depth(s, 0) = 0
         /\ Depth(s, n + 1) = Depth(s, n) + Weight(s[n + 1])
  <1>1. /\ Count(s, "(", n) \in Nat /\ Count(s, "(", 0) = 0 /\ Count(s, ")", n) \in Nat /\ Count(s, ")", 0) = 0
        /\ Count(s, "(", n + 1) = Count(s, "(", n) + (IF s[n + 1] = "(" THEN 1 ELSE 0)
        /\ Count(s, ")", n + 1) = Count(s, ")", n) + (IF s[n + 1] = ")" THEN 1 ELSE 0)
    BY CountStep
  <1> QED
    BY <1>1 DEF Depth, Weight

\* The same, for the token at n.
LEMMA DepthAt ==
  ASSUME NEW s, NEW n \in Nat, n # 0
  PROVE  n - 1 \in Nat /\ Depth(s, n - 1) \in Int /\ Depth(s, n) = Depth(s, n - 1) + Weight(s[n]) /\ Weight(s[n]) \in -1 .. 1
  <1>1. n - 1 \in Nat /\ (n - 1) + 1 = n
    OBVIOUS
  <1>2. Depth(s, n - 1) \in Int /\ Depth(s, (n - 1) + 1) = Depth(s, n - 1) + Weight(s[(n - 1) + 1])
    BY <1>1, DepthStep
  <1> QED
    BY <1>1, <1>2 DEF Weight

\* Balanced and the operators outside of parentheses in terms of the depth.
LEMMA DepthTells ==
  ASSUME NEW s, Len(s) \in Nat
  PROVE  /\ Balanced(s) <=> Depth(s, Len(s)) = 0 /\ \A n \in 1 .. Len(s) : Depth(s, n) >= 0
         /\ TopLevel(s) = {i \in 1 .. Len(s) : s[i] \in Operators /\ Depth(s, i) = 0}
         /\ \A n \in Nat : Count(s, "(", n) = Count(s, ")", n) <=> Depth(s, n) = 0
  <1>1. \A n \in Nat : Count(s, "(", n) \in Nat /\ Count(s, ")", n) \in Nat
    BY CountStep
  <1>2. \A n \in Nat : /\ Count(s, "(", n) = Count(s, ")", n) <=> Depth(s, n) = 0
                       /\ Count(s, ")", n) <= Count(s, "(", n) <=> Depth(s, n) >= 0
    <2> SUFFICES ASSUME NEW n \in Nat
                 PROVE  /\ Count(s, "(", n) = Count(s, ")", n) <=> Depth(s, n) = 0
                        /\ Count(s, ")", n) <= Count(s, "(", n) <=> Depth(s, n) >= 0
      OBVIOUS
    <2> DEFINE p == Count(s, "(", n)
               q == Count(s, ")", n)
    <2>1. p \in Nat /\ q \in Nat /\ Depth(s, n) = p - q
      BY <1>1 DEF Depth
    <2> HIDE DEF p, q
    <2>2. (p = q <=> Depth(s, n) = 0) /\ (q <= p <=> Depth(s, n) >= 0)
      BY <2>1
    <2> QED
      BY <2>2 DEF p, q
  <1>3. \A n \in 1 .. Len(s) : n \in Nat
    OBVIOUS
  <1> QED
    BY <1>2, <1>3 DEF Balanced, TopLevel

\* A part of a sequence.
LEMMA Cut ==
  ASSUME NEW T, NEW s \in Seq(T), NEW i \in 1 .. Len(s) + 1, NEW k \in i - 1 .. Len(s)
  PROVE  /\ SubSeq(s, i, k) \in Seq(T) /\ Len(SubSeq(s, i, k)) = k - i + 1
         /\ \A n \in 1 .. k - i + 1 : SubSeq(s, i, k)[n] = s[i + n - 1]
  OBVIOUS

\* A part of a part.
LEMMA CutCut ==
  ASSUME NEW T, NEW s \in Seq(T), NEW i \in 1 .. Len(s) + 1, NEW k \in i - 1 .. Len(s),
         NEW a \in 1 .. k - i + 2, NEW b \in a - 1 .. k - i + 1
  PROVE  SubSeq(SubSeq(s, i, k), a, b) = SubSeq(s, i + a - 1, i + b - 1)
  <1> DEFINE v == SubSeq(s, i, k)
             x == SubSeq(v, a, b)
             l == i + a - 1
             r == i + b - 1
             y == SubSeq(s, l, r)
  <1>1. v \in Seq(T) /\ Len(v) = k - i + 1 /\ \A n \in 1 .. k - i + 1 : v[n] = s[i + n - 1]
    BY Cut
  <1>2. a \in 1 .. Len(v) + 1 /\ b \in a - 1 .. Len(v)
    BY <1>1
  <1>3. l \in 1 .. Len(s) + 1 /\ r \in l - 1 .. Len(s) /\ r - l + 1 = b - a + 1
    OBVIOUS
  <1> HIDE DEF v, l, r
  <1>4. x \in Seq(T) /\ Len(x) = b - a + 1 /\ \A n \in 1 .. b - a + 1 : x[n] = v[a + n - 1]
    BY <1>1, <1>2, Cut
  <1>5. y \in Seq(T) /\ Len(y) = b - a + 1 /\ \A n \in 1 .. b - a + 1 : y[n] = s[l + n - 1]
    BY <1>3, Cut
  <1>6. \A n \in 1 .. b - a + 1 : x[n] = y[n]
    BY <1>1, <1>4, <1>5 DEF l
  <1> HIDE DEF x, y
  <1>7. x = y
    BY <1>4, <1>5, <1>6
  <1> QED
    BY <1>7 DEF x, y, v, l, r

\* The depth inside of a part.
LEMMA DepthCut ==
  ASSUME NEW T, NEW s \in Seq(T), NEW i \in 1 .. Len(s) + 1, NEW k \in i - 1 .. Len(s), NEW n \in 0 .. k - i + 1
  PROVE  Depth(SubSeq(s, i, k), n) = Depth(s, i + n - 1) - Depth(s, i - 1)
  <1> DEFINE v == SubSeq(s, i, k)
             D == {l \in Nat : l <= k - i + 1 /\ Depth(v, l) # Depth(s, i + l - 1) - Depth(s, i - 1)}
  <1>1. \A l \in 1 .. k - i + 1 : v[l] = s[i + l - 1]
    BY Cut
  <1> HIDE DEF v
  <1>2. D = {}
    <2> SUFFICES ASSUME D # {} PROVE FALSE
      OBVIOUS
    <2>1. D \in SUBSET Nat
      OBVIOUS
    <2>2. PICK l \in D : \A x \in D : l <= x
      <3> HIDE DEF D
      <3> QED
        BY <2>1, LeastNumber
    <2>3. i - 1 \in Nat /\ Depth(s, i - 1) \in Int /\ Depth(v, 0) = 0
      BY DepthStep
    <2>4. l # 0
      BY <2>2, <2>3
    <2>5. l \in Nat /\ l - 1 \in Nat /\ l <= k - i + 1 /\ i + l - 1 \in Nat /\ i + l - 1 # 0 /\ (i + l - 1) - 1 = i + (l - 1) - 1
      BY <2>2, <2>4
    <2>6. l - 1 \notin D
      <3> HIDE DEF D
      <3> QED
        BY <2>2, <2>5
    <2>7. Depth(v, l - 1) = Depth(s, i + (l - 1) - 1) - Depth(s, i - 1)
      BY <2>5, <2>6
    <2>8. Depth(v, l) = Depth(v, l - 1) + Weight(v[l]) /\ Depth(v, l - 1) \in Int
      BY <2>4, <2>5, DepthAt
    <2>9. /\ Depth(s, i + l - 1) = Depth(s, (i + l - 1) - 1) + Weight(s[i + l - 1])
          /\ Depth(s, (i + l - 1) - 1) \in Int /\ Weight(s[i + l - 1]) \in Int
      BY <2>5, DepthAt
    <2>10. v[l] = s[i + l - 1]
      BY <1>1, <2>4, <2>5
    <2>11. Depth(v, l) # Depth(s, i + l - 1) - Depth(s, i - 1)
      BY <2>2
    <2> HIDE DEF D
    <2> QED
      BY <2>3, <2>5, <2>7, <2>8, <2>9, <2>10, <2>11
  <1> QED
    BY <1>2 DEF v

\* A part in which the depth does not fall and to whose end it comes back.
LEMMA BalancedCut ==
  ASSUME NEW T, NEW s \in Seq(T), NEW i \in 1 .. Len(s) + 1, NEW k \in i - 1 .. Len(s),
         Depth(s, k) = Depth(s, i - 1), \A n \in i .. k : Depth(s, n) >= Depth(s, i - 1)
  PROVE  Balanced(SubSeq(s, i, k))
  <1> DEFINE v == SubSeq(s, i, k)
  <1>1. Len(v) = k - i + 1 /\ Len(v) \in Nat
    BY Cut
  <1>2. \A n \in 0 .. k - i + 1 : Depth(v, n) = Depth(s, i + n - 1) - Depth(s, i - 1)
    BY DepthCut
  <1> HIDE DEF v
  <1>3. \A n \in Nat : Depth(s, n) \in Int
    BY DepthStep
  <1>4. Depth(v, Len(v)) = 0
    <2>1. i + Len(v) - 1 = k /\ Len(v) \in 0 .. k - i + 1 /\ k \in Nat /\ i - 1 \in Nat
      BY <1>1
    <2>2. Depth(v, Len(v)) = Depth(s, i + Len(v) - 1) - Depth(s, i - 1)
      BY <1>2, <2>1
    <2>3. Depth(v, Len(v)) = Depth(s, k) - Depth(s, i - 1)
      BY <2>1, <2>2
    <2>4. Depth(s, i - 1) \in Int
      BY <1>3, <2>1
    <2> QED
      BY <2>3, <2>4
  <1>5. ASSUME NEW n \in 1 .. Len(v) PROVE Depth(v, n) >= 0
    <2>1. n \in 0 .. k - i + 1 /\ i + n - 1 \in i .. k /\ i + n - 1 \in Nat /\ i - 1 \in Nat
      BY <1>1
    <2>2. Depth(v, n) = Depth(s, i + n - 1) - Depth(s, i - 1) /\ Depth(s, i + n - 1) >= Depth(s, i - 1)
      BY <1>2, <2>1
    <2> QED
      BY <1>3, <2>1, <2>2
  <1> QED
    BY <1>1, <1>4, <1>5, DepthTells DEF v

\* A part that begins and ends like an expression.
LEMMA FitsCut ==
  ASSUME NEW T, NEW s \in Seq(T), FitsPattern(s), NEW i \in 1 .. Len(s), NEW k \in i .. Len(s),
         Opens(s[i]), Closes(s[k])
  PROVE  FitsPattern(SubSeq(s, i, k))
  <1> DEFINE v == SubSeq(s, i, k)
  <1>1. v \in Seq(T) /\ Len(v) = k - i + 1 /\ \A n \in 1 .. k - i + 1 : v[n] = s[i + n - 1]
    BY Cut
  <1> HIDE DEF v
  <1>2. v # <<>> /\ v[1] = s[i] /\ v[Len(v)] = s[k]
    BY <1>1
  <1>3. ASSUME NEW n \in 1 .. Len(v) - 1
        PROVE  IF Closes(v[n]) THEN v[n + 1] \in Operators \cup {")"} ELSE Opens(v[n + 1])
    <2>1. i + n - 1 \in 1 .. Len(s) - 1 /\ v[n] = s[i + n - 1] /\ v[n + 1] = s[(i + n - 1) + 1]
      BY <1>1
    <2> QED
      BY <2>1 DEF FitsPattern
  <1> QED
    BY <1>2, <1>3 DEF FitsPattern, v

\* The kinds of tokens do not overlap.
LEMMA TokenKinds ==
  /\ \A t \in Operators : t # "(" /\ t # ")" /\ ~Opens(t) /\ ~Closes(t) /\ Weight(t) = 0
  /\ \A t \in Primitives : t # "(" /\ t # ")" /\ t \notin Operators /\ Opens(t) /\ Closes(t) /\ Weight(t) = 0
  /\ Opens("(") /\ ~Closes("(") /\ Weight("(") = 1
  /\ ~Opens(")") /\ Closes(")") /\ Weight(")") = -1
  /\ \A t : Opens(t) => t = "(" \/ t \in Primitives
  /\ \A t : Closes(t) => t = ")" \/ t \in Primitives
  /\ \A t \in Tokens : t \in Operators \/ t \in Primitives \/ t = "(" \/ t = ")"
  BY ExpressionAssumption DEF Operators, Primitives, Tokens, Opens, Closes, Weight

-----------------------------------------------------------------------------
(***************************************************************************)
(* RSE expressions that pass the checks of parse_expression.               *)
(***************************************************************************)
\* What parse_expression lets pass.
Proper(s) == s \in Seq(Tokens) /\ Balanced(s) /\ FitsPattern(s)

\* What an expression that passes looks like.
LEMMA ProperFacts ==
  ASSUME NEW s, Proper(s)
  PROVE  /\ Len(s) \in Nat /\ Len(s) # 0 /\ \A n \in 1 .. Len(s) : s[n] \in Tokens
         /\ \A n \in 0 .. Len(s) : Depth(s, n) \in Nat
         /\ \A n \in 1 .. Len(s) : Depth(s, n) = Depth(s, n - 1) + Weight(s[n])
         /\ Depth(s, 0) = 0 /\ Depth(s, Len(s)) = 0
         /\ Opens(s[1]) /\ Closes(s[Len(s)])
         /\ \A i \in 1 .. Len(s) - 1 : IF Closes(s[i]) THEN s[i + 1] \in Operators \cup {")"} ELSE Opens(s[i + 1])
         /\ TopLevel(s) = {i \in 1 .. Len(s) : s[i] \in Operators /\ Depth(s, i) = 0}
  <1>1. s \in Seq(Tokens) /\ Balanced(s) /\ FitsPattern(s)
    BY DEF Proper
  <1>2. Len(s) \in Nat /\ Len(s) # 0 /\ \A n \in 1 .. Len(s) : s[n] \in Tokens
    BY <1>1 DEF FitsPattern
  <1>3. /\ Depth(s, Len(s)) = 0 /\ \A n \in 1 .. Len(s) : Depth(s, n) >= 0
        /\ TopLevel(s) = {i \in 1 .. Len(s) : s[i] \in Operators /\ Depth(s, i) = 0}
    BY <1>1, <1>2, DepthTells
  <1>4. Depth(s, 0) = 0 /\ \A n \in Nat : Depth(s, n) \in Int
    BY DepthStep
  <1>5. ASSUME NEW n \in 0 .. Len(s) PROVE Depth(s, n) \in Nat
    <2>1. n = 0 \/ n \in 1 .. Len(s)
      OBVIOUS
    <2>2. Depth(s, n) >= 0 /\ Depth(s, n) \in Int
      BY <1>3, <1>4, <2>1
    <2> QED
      BY <2>2
  <1>6. ASSUME NEW n \in 1 .. Len(s) PROVE Depth(s, n) = Depth(s, n - 1) + Weight(s[n])
    <2>1. n \in Nat /\ n # 0
      OBVIOUS
    <2> QED
      BY <2>1, DepthAt
  <1> QED
    BY <1>1, <1>2, <1>3, <1>4, <1>5, <1>6 DEF FitsPattern

\* After a term that stands outside of all parentheses comes an operator and
\* another term.
LEMMA AfterTerm ==
  ASSUME NEW s, Proper(s), NEW n \in 1 .. Len(s) - 1, Closes(s[n]), Depth(s, n) = 0
  PROVE  s[n + 1] \in Operators /\ n + 1 \in TopLevel(s)
  <1>1. n + 1 \in 1 .. Len(s) /\ (n + 1) - 1 = n
    BY ProperFacts
  <1>2. Depth(s, n + 1) \in Nat /\ Depth(s, n + 1) = Weight(s[n + 1])
    <2>1. Depth(s, n + 1) = Depth(s, (n + 1) - 1) + Weight(s[n + 1]) /\ Depth(s, n + 1) \in Nat
      BY <1>1, ProperFacts
    <2>2. Weight(s[n + 1]) \in Int
      BY DEF Weight
    <2> QED
      BY <1>1, <2>1, <2>2
  <1>3. s[n + 1] # ")"
    BY <1>2, TokenKinds
  <1>4. s[n + 1] \in Operators
    BY <1>3, ProperFacts
  <1>5. Depth(s, n + 1) = 0
    BY <1>2, <1>4, TokenKinds
  <1> QED
    BY <1>1, <1>4, <1>5, ProperFacts

\* An operator that stands outside of all parentheses is between two terms.
LEMMA AroundOperator ==
  ASSUME NEW s, Proper(s), NEW i \in TopLevel(s)
  PROVE  /\ i \in 1 .. Len(s) /\ i - 1 \in 1 .. Len(s) /\ i + 1 \in 1 .. Len(s)
         /\ s[i] \in Operators /\ Depth(s, i) = 0 /\ Depth(s, i - 1) = 0
         /\ Closes(s[i - 1]) /\ Opens(s[i + 1])
  <1>1. i \in 1 .. Len(s) /\ s[i] \in Operators /\ Depth(s, i) = 0 /\ Len(s) \in Nat
    BY ProperFacts
  <1>2. i # 1 /\ i # Len(s)
    BY <1>1, ProperFacts, TokenKinds
  <1>3. i - 1 \in 1 .. Len(s) /\ i + 1 \in 1 .. Len(s) /\ i - 1 \in 1 .. Len(s) - 1 /\ i \in 1 .. Len(s) - 1 /\ (i - 1) + 1 = i
    BY <1>1, <1>2
  <1>4. Depth(s, i) = Depth(s, i - 1) + Weight(s[i]) /\ Depth(s, i - 1) \in Nat /\ Weight(s[i]) = 0
    BY <1>1, <1>3, ProperFacts, TokenKinds
  <1>5. Closes(s[i - 1])
    <2>1. ~Opens(s[(i - 1) + 1])
      BY <1>1, <1>3, TokenKinds
    <2> QED
      BY <1>3, <2>1, ProperFacts
  <1>6. Opens(s[i + 1])
    BY <1>1, <1>3, ProperFacts, TokenKinds
  <1> QED
    BY <1>1, <1>3, <1>4, <1>5, <1>6

\* ... and what is on its sides are expressions that pass as well.
LEMMA SplitProper ==
  ASSUME NEW s, Proper(s), NEW i \in TopLevel(s)
  PROVE  Proper(SubSeq(s, 1, i - 1)) /\ Proper(SubSeq(s, i + 1, Len(s)))
  <1>1. /\ i \in 1 .. Len(s) /\ i - 1 \in 1 .. Len(s) /\ i + 1 \in 1 .. Len(s)
        /\ Depth(s, i) = 0 /\ Depth(s, i - 1) = 0 /\ Closes(s[i - 1]) /\ Opens(s[i + 1])
    BY AroundOperator
  <1>2. s \in Seq(Tokens) /\ FitsPattern(s) /\ Len(s) \in Nat
    BY DEF Proper
  <1>3. /\ \A n \in 0 .. Len(s) : Depth(s, n) \in Nat
        /\ Depth(s, 0) = 0 /\ Depth(s, Len(s)) = 0 /\ Opens(s[1]) /\ Closes(s[Len(s)])
    BY ProperFacts
  <1>4. Proper(SubSeq(s, 1, i - 1))
    <2> DEFINE k == i - 1
    <2>1. 1 \in 1 .. Len(s) /\ 1 \in 1 .. Len(s) + 1 /\ k \in 1 .. Len(s) /\ k \in 1 - 1 .. Len(s) /\ 1 - 1 = 0
      BY <1>1, <1>2
    <2>2. Depth(s, k) = Depth(s, 1 - 1) /\ \A n \in 1 .. k : Depth(s, n) >= Depth(s, 1 - 1)
      <3>1. \A n \in 1 .. k : n \in 0 .. Len(s)
        BY <2>1
      <3> QED
        BY <1>1, <1>3, <2>1, <3>1
    <2>3. Closes(s[k])
      BY <1>1
    <2> HIDE DEF k
    <2>4. Balanced(SubSeq(s, 1, k))
      BY <1>2, <2>1, <2>2, BalancedCut
    <2>5. FitsPattern(SubSeq(s, 1, k))
      BY <1>2, <1>3, <2>1, <2>3, FitsCut
    <2>6. SubSeq(s, 1, k) \in Seq(Tokens)
      BY <1>2, <2>1, Cut
    <2> QED
      BY <2>4, <2>5, <2>6 DEF k, Proper
  <1>5. Proper(SubSeq(s, i + 1, Len(s)))
    <2> DEFINE j == i + 1
               k == Len(s)
    <2>1. j \in 1 .. Len(s) /\ j \in 1 .. Len(s) + 1 /\ k \in j .. Len(s) /\ k \in j - 1 .. Len(s) /\ j - 1 = i
      BY <1>1, <1>2
    <2>2. Depth(s, k) = Depth(s, j - 1) /\ \A n \in j .. k : Depth(s, n) >= Depth(s, j - 1)
      <3>1. \A n \in j .. k : n \in 0 .. Len(s)
        BY <2>1
      <3> QED
        BY <1>1, <1>3, <2>1, <3>1
    <2>3. Opens(s[j]) /\ Closes(s[k])
      BY <1>1, <1>3
    <2> HIDE DEF j, k
    <2>4. Balanced(SubSeq(s, j, k))
      BY <1>2, <2>1, <2>2, BalancedCut
    <2>5. FitsPattern(SubSeq(s, j, k))
      BY <1>2, <2>1, <2>3, FitsCut
    <2>6. SubSeq(s, j, k) \in Seq(Tokens)
      BY <1>2, <2>1, Cut
    <2> QED
      BY <2>4, <2>5, <2>6 DEF j, k, Proper
  <1> QED
    BY <1>4, <1>5

\* Between a parenthesis that opens at i and the one that closes it at k is an
\* expression that passes.
LEMMA InsideProper ==
  ASSUME NEW s, Proper(s), NEW i \in 1 .. Len(s), NEW k \in i .. Len(s), s[i] = "(", k > i,
         Depth(s, k) = Depth(s, i - 1), \A n \in i .. k - 1 : Depth(s, n) > Depth(s, i - 1)
  PROVE  s[k] = ")" /\ k # i + 1 /\ Proper(SubSeq(s, i + 1, k - 1))
  <1>1. s \in Seq(Tokens) /\ FitsPattern(s) /\ Len(s) \in Nat
    BY DEF Proper
  <1> DEFINE j == i + 1
             l == k - 1
             d == Depth(s, i - 1)
  <1>2. i - 1 \in 0 .. Len(s) /\ l \in i .. k - 1 /\ l \in 0 .. Len(s) /\ k \in 1 .. Len(s) /\ i \in 0 .. Len(s) /\ i \in i .. k - 1
    BY <1>1
  <1>3. d \in Nat /\ Depth(s, l) \in Nat /\ Depth(s, k) = Depth(s, l) + Weight(s[k]) /\ Depth(s, i) = d + Weight(s[i])
    BY <1>2, ProperFacts
  <1>4. Depth(s, l) > d /\ Depth(s, k) = d
    BY <1>2
  <1>5. Weight(s[k]) \in -1 .. 1 /\ (Weight(s[k]) = -1 => s[k] = ")")
    BY DEF Weight
  <1>6. s[k] = ")" /\ Depth(s, l) = d + 1
    <2> HIDE DEF d, l
    <2> QED
      BY <1>3, <1>4, <1>5
  <1>7. Depth(s, i) = d + 1
    BY <1>3, TokenKinds
  <1>8. i \in 1 .. Len(s) - 1 /\ l \in 1 .. Len(s) - 1 /\ l + 1 = k
    BY <1>1
  <1>9. Opens(s[j])
    BY <1>8, ProperFacts, TokenKinds
  <1>10. k # j
    BY <1>6, <1>9, TokenKinds
  <1>11. Closes(s[l])
    <2>1. ~Opens(s[l + 1])
      BY <1>6, <1>8, TokenKinds
    <2> QED
      BY <1>8, <2>1, ProperFacts
  <1>12. /\ j \in 1 .. Len(s) /\ j \in 1 .. Len(s) + 1 /\ l \in j .. Len(s) /\ l \in j - 1 .. Len(s) /\ j - 1 = i
    BY <1>1, <1>10
  <1>13. ASSUME NEW n \in j .. l PROVE Depth(s, n) >= Depth(s, j - 1)
    <2>1. n \in i .. k - 1 /\ n \in 0 .. Len(s)
      BY <1>1
    <2>2. Depth(s, n) > d /\ Depth(s, n) \in Nat
      BY <2>1, ProperFacts
    <2>3. Depth(s, j - 1) = d + 1
      BY <1>7, <1>12
    <2> HIDE DEF d
    <2> QED
      BY <1>3, <2>2, <2>3
  <1>14. Depth(s, l) = Depth(s, j - 1)
    BY <1>6, <1>7, <1>12
  <1> HIDE DEF j, l, d
  <1>15. Balanced(SubSeq(s, j, l))
    BY <1>1, <1>12, <1>13, <1>14, BalancedCut
  <1>16. FitsPattern(SubSeq(s, j, l))
    BY <1>1, <1>9, <1>11, <1>12, FitsCut
  <1>17. SubSeq(s, j, l) \in Seq(Tokens)
    BY <1>1, <1>12, Cut
  <1> QED
    BY <1>6, <1>10, <1>15, <1>16, <1>17 DEF j, l, Proper

\* Without an operator outside of parentheses, an expression is a primitive or
\* another one in parentheses.
LEMMA SingleTerm ==
  ASSUME NEW s, Proper(s), TopLevel(s) = {}
  PROVE  \/ Len(s) = 1 /\ s[1] \in Primitives
         \/ /\ Len(s) > 2 /\ s[1] = "(" /\ s[Len(s)] = ")" /\ Proper(SubSeq(s, 2, Len(s) - 1))
            /\ \A n \in 1 .. Len(s) - 1 : Depth(s, n) > 0
  <1>1. /\ Len(s) \in Nat /\ Len(s) # 0 /\ \A n \in 1 .. Len(s) : s[n] \in Tokens
        /\ \A n \in 0 .. Len(s) : Depth(s, n) \in Nat
        /\ \A n \in 1 .. Len(s) : Depth(s, n) = Depth(s, n - 1) + Weight(s[n])
        /\ Depth(s, 0) = 0 /\ Depth(s, Len(s)) = 0 /\ Opens(s[1])
        /\ TopLevel(s) = {i \in 1 .. Len(s) : s[i] \in Operators /\ Depth(s, i) = 0}
    BY ProperFacts
  <1>2. ASSUME NEW n \in 1 .. Len(s) - 1 PROVE Depth(s, n) > 0
    <2>1. n \in 1 .. Len(s) /\ n \in 0 .. Len(s) /\ n - 1 \in 0 .. Len(s)
      BY <1>1
    <2>2. Depth(s, n) \in Nat /\ Depth(s, n - 1) \in Nat /\ Depth(s, n) = Depth(s, n - 1) + Weight(s[n]) /\ s[n] \in Tokens
      BY <1>1, <2>1
    <2>3. ASSUME Depth(s, n) = 0 PROVE FALSE
      <3>1. s[n] \notin Operators
        BY <1>1, <2>1, <2>3
      <3>2. s[n] # "("
        BY <2>2, <2>3, TokenKinds
      <3>3. Closes(s[n])
        BY <2>2, <3>1, <3>2, TokenKinds
      <3> QED
        BY <2>3, <3>3, AfterTerm
    <2> QED
      BY <2>2, <2>3
  <1>3. CASE s[1] \in Primitives
    <2>1. 1 \in 1 .. Len(s) /\ 1 - 1 = 0
      BY <1>1
    <2>2. Depth(s, 1) = 0
      BY <1>1, <1>3, <2>1, TokenKinds
    <2>3. ~(1 \in 1 .. Len(s) - 1)
      BY <1>2, <2>2
    <2>4. Len(s) = 1
      <3> DEFINE k == Len(s)
      <3>1. k \in Nat /\ k # 0 /\ ~(1 \in 1 .. k - 1)
        BY <1>1, <2>3
      <3> HIDE DEF k
      <3>2. k = 1
        BY <3>1
      <3> QED
        BY <3>2 DEF k
    <2> QED
      BY <1>3, <2>4
  <1>4. CASE s[1] = "("
    <2> DEFINE k == Len(s)
    <2>1. 1 \in 1 .. Len(s) /\ 1 - 1 = 0
      BY <1>1
    <2>2. Depth(s, 1) = 1
      BY <1>1, <1>4, <2>1, TokenKinds
    <2>3. k > 1 /\ k \in 1 .. Len(s)
      <3>1. k \in Nat /\ k # 0 /\ Depth(s, k) = 0
        BY <1>1
      <3>2. k # 1
        BY <2>2, <3>1
      <3> QED
        BY <3>1, <3>2
    <2>4. Depth(s, k) = Depth(s, 1 - 1) /\ \A n \in 1 .. k - 1 : Depth(s, n) > Depth(s, 1 - 1)
      BY <1>1, <1>2, <2>1
    <2> HIDE DEF k
    <2>5. s[k] = ")" /\ k # 1 + 1 /\ Proper(SubSeq(s, 1 + 1, k - 1))
      BY <1>4, <2>1, <2>3, <2>4, InsideProper
    <2>6. k > 2 /\ 1 + 1 = 2
      BY <2>3, <2>5
    <2> QED
      BY <1>2, <1>4, <2>5, <2>6 DEF k
  <1> QED
    BY <1>1, <1>3, <1>4, TokenKinds

-----------------------------------------------------------------------------
(***************************************************************************)
(* The recursive functions compute something: the equations that define    *)
(* them hold.                                                              *)
(***************************************************************************)
\* The last operator outside of parentheses, and the parts around it.
LEMMA LastSplits ==
  ASSUME NEW s \in Seq(Tokens), TopLevel(s) # {}, NEW i, i = LastTop(s)
  PROVE  /\ i \in TopLevel(s) /\ i \in 1 .. Len(s) /\ \A k \in TopLevel(s) : k <= i
         /\ SubSeq(s, 1, i - 1) \in Seq(Tokens) /\ Len(SubSeq(s, 1, i - 1)) < Len(s)
         /\ SubSeq(s, i + 1, Len(s)) \in Seq(Tokens) /\ Len(SubSeq(s, i + 1, Len(s))) < Len(s)
  <1>1. TopLevel(s) \in SUBSET (1 .. Len(s)) /\ Len(s) \in Nat
    BY DEF TopLevel
  <1>2. Max(TopLevel(s)) \in TopLevel(s) /\ \A k \in TopLevel(s) : k <= Max(TopLevel(s))
    BY <1>1, MaxExists
  <1>3. i \in TopLevel(s) /\ \A k \in TopLevel(s) : k <= i
    BY <1>2 DEF LastTop
  <1>4. i \in 1 .. Len(s)
    BY <1>1, <1>3
  <1>5. SubSeq(s, 1, i - 1) \in Seq(Tokens) /\ Len(SubSeq(s, 1, i - 1)) < Len(s)
    <2> DEFINE l == i - 1
    <2>1. 1 \in 1 .. Len(s) + 1 /\ l \in 1 - 1 .. Len(s) /\ l - 1 + 1 < Len(s)
      BY <1>1, <1>4
    <2> HIDE DEF l
    <2>2. SubSeq(s, 1, l) \in Seq(Tokens) /\ Len(SubSeq(s, 1, l)) = l - 1 + 1
      BY <2>1, Cut
    <2> QED
      BY <2>1, <2>2 DEF l
  <1>6. SubSeq(s, i + 1, Len(s)) \in Seq(Tokens) /\ Len(SubSeq(s, i + 1, Len(s))) < Len(s)
    <2> DEFINE l == i + 1
    <2>1. l \in 1 .. Len(s) + 1 /\ Len(s) \in l - 1 .. Len(s) /\ Len(s) - l + 1 < Len(s)
      BY <1>1, <1>4
    <2> HIDE DEF l
    <2>2. SubSeq(s, l, Len(s)) \in Seq(Tokens) /\ Len(SubSeq(s, l, Len(s))) = Len(s) - l + 1
      BY <2>1, Cut
    <2> QED
      BY <2>1, <2>2 DEF l
  <1> QED
    BY <1>3, <1>4, <1>5, <1>6

\* The part between the first and the last token.
LEMMA InnerShorter ==
  ASSUME NEW s \in Seq(Tokens), Len(s) > 1
  PROVE  SubSeq(s, 2, Len(s) - 1) \in Seq(Tokens) /\ Len(SubSeq(s, 2, Len(s) - 1)) < Len(s)
  <1> DEFINE l == Len(s) - 1
  <1>1. Len(s) \in Nat
    OBVIOUS
  <1>2. 2 \in 1 .. Len(s) + 1 /\ l \in 2 - 1 .. Len(s) /\ l - 2 + 1 < Len(s)
    BY <1>1
  <1> HIDE DEF l
  <1>3. SubSeq(s, 2, l) \in Seq(Tokens) /\ Len(SubSeq(s, 2, l)) = l - 2 + 1
    BY <1>2, Cut
  <1> QED
    BY <1>2, <1>3 DEF l

\* The body of WellFormed.
FormedBy(f, s) ==
  IF TopLevel(s) # {}
  THEN f[SubSeq(s, 1, LastTop(s) - 1)] /\ f[SubSeq(s, LastTop(s) + 1, Len(s))]
  ELSE \/ Len(s) = 1 /\ s[1] \in Primitives
       \/ Len(s) > 2 /\ s[1] = "(" /\ s[Len(s)] = ")" /\ f[SubSeq(s, 2, Len(s) - 1)]

\* WellFormed satisfies its equation.
LEMMA WellFormedIs ==
  \A s \in Seq(Tokens) : WellFormed[s] = FormedBy(WellFormed, s)
  <1> DEFINE D == Seq(Tokens)
             m == [s \in D |-> Len(s)]
             B == [y \in D \X [D -> BOOLEAN] |-> FormedBy(y[2], y[1])]
  <1>1. ASSUME NEW s \in D, NEW f \in [D -> BOOLEAN] PROVE FormedBy(f, s) \in BOOLEAN
    BY LastSplits DEF FormedBy
  <1>2. ASSUME NEW s \in D, NEW f \in [D -> BOOLEAN], NEW g \in [D -> BOOLEAN],
               \A y \in D : Len(y) < Len(s) => f[y] = g[y]
        PROVE  FormedBy(f, s) = FormedBy(g, s)
    <2>1. CASE TopLevel(s) # {}
      BY <1>2, <2>1, LastSplits DEF FormedBy
    <2>2. CASE TopLevel(s) = {}
      <3>1. Len(s) \in Nat
        OBVIOUS
      <3>2. ASSUME Len(s) > 2 PROVE f[SubSeq(s, 2, Len(s) - 1)] = g[SubSeq(s, 2, Len(s) - 1)]
        <4>1. Len(s) > 1
          BY <3>1, <3>2
        <4>2. SubSeq(s, 2, Len(s) - 1) \in D /\ Len(SubSeq(s, 2, Len(s) - 1)) < Len(s)
          BY <4>1, InnerShorter
        <4> HIDE DEF D
        <4> QED
          BY <1>2, <4>2
      <3> QED
        BY <2>2, <3>2 DEF FormedBy
    <2> QED
      BY <2>1, <2>2
  <1>3. m \in [D -> Nat] /\ \A s \in D : m[s] = Len(s)
    OBVIOUS
  <1> HIDE DEF D
  <1>4. B \in [D \X [D -> BOOLEAN] -> BOOLEAN] /\ \A s \in D : \A f \in [D -> BOOLEAN] : B[<<s, f>>] = FormedBy(f, s)
    BY <1>1
  <1> HIDE DEF m, B
  <1>5. Descends(D, BOOLEAN, m, B)
    <2>1. ASSUME NEW s \in D, NEW f \in [D -> BOOLEAN], NEW g \in [D -> BOOLEAN], \A y \in D : m[y] < m[s] => f[y] = g[y]
          PROVE  B[<<s, f>>] = B[<<s, g>>]
      <3>1. \A y \in D : Len(y) < Len(s) => f[y] = g[y]
        BY <1>3, <2>1
      <3>2. FormedBy(f, s) = FormedBy(g, s)
        BY <1>2, <3>1
      <3> QED
        BY <1>4, <3>2
    <2> QED
      BY <1>3, <1>4, <1>4, <2>1 DEF Descends
  <1>6. PICK f \in [D -> BOOLEAN] : \A s \in D : f[s] = B[<<s, f>>]
    BY <1>5, RecursionExists
  <1>7. f = [s \in D |-> FormedBy(f, s)]
    BY <1>4, <1>6
  <1>8. WellFormed = [s \in D |-> FormedBy(WellFormed, s)]
    BY <1>7, Zenon DEF WellFormed, FormedBy, D
  <1> QED
    BY <1>8 DEF D

\* The body of Denotes.
DenotedBy(f, s) ==
  IF TopLevel(s) # {}
  THEN Apply(s[LastTop(s)], f[SubSeq(s, 1, LastTop(s) - 1)], f[SubSeq(s, LastTop(s) + 1, Len(s))])
  ELSE IF Len(s) <= 1 THEN Matching[s[1]]
  ELSE f[SubSeq(s, 2, Len(s) - 1)]

\* Denotes satisfies its equation.
LEMMA DenotesIs ==
  \A s \in Seq(Tokens) : Denotes[s] = DenotedBy(Denotes, s)
  <1> DEFINE D == Seq(Tokens)
             V == SUBSET UNION {Matching[s[1]] : s \in D}
             m == [s \in D |-> Len(s)]
             B == [y \in D \X [D -> V] |-> DenotedBy(y[2], y[1])]
  <1>0. ASSUME NEW op \in Operators, NEW l \in V, NEW r \in V PROVE Apply(op, l, r) \in V
    <2>1. Apply(op, l, r) \subseteq l \cup r
      BY DEF Apply, Operators
    <2> HIDE DEF V
    <2> QED
      BY <2>1 DEF V
  <1>1. ASSUME NEW s \in D, NEW f \in [D -> V] PROVE DenotedBy(f, s) \in V
    <2>1. CASE TopLevel(s) # {}
      <3> DEFINE i == LastTop(s)
      <3>1. /\ i \in TopLevel(s) /\ SubSeq(s, 1, i - 1) \in D /\ SubSeq(s, i + 1, Len(s)) \in D
        BY <2>1, LastSplits
      <3>2. s[i] \in Operators
        BY <3>1 DEF TopLevel
      <3>3. f[SubSeq(s, 1, i - 1)] \in V /\ f[SubSeq(s, i + 1, Len(s))] \in V
        <4> HIDE DEF V, i, D
        <4> QED
          BY <3>1
      <3>4. DenotedBy(f, s) = Apply(s[i], f[SubSeq(s, 1, i - 1)], f[SubSeq(s, i + 1, Len(s))])
        BY <2>1 DEF DenotedBy
      <3> HIDE DEF V, i, D
      <3> QED
        BY <1>0, <3>2, <3>3, <3>4
    <2>2. CASE TopLevel(s) = {} /\ Len(s) <= 1
      <3>1. Matching[s[1]] \in V
        BY <1>1
      <3> QED
        BY <2>2, <3>1 DEF DenotedBy
    <2>3. CASE TopLevel(s) = {} /\ ~(Len(s) <= 1)
      <3>1. SubSeq(s, 2, Len(s) - 1) \in D
        <4>1. Len(s) > 1
          BY <2>3
        <4> QED
          BY <4>1, InnerShorter
      <3>2. f[SubSeq(s, 2, Len(s) - 1)] \in V
        <4> HIDE DEF V, D
        <4> QED
          BY <3>1
      <3> QED
        BY <2>3, <3>2 DEF DenotedBy
    <2> QED
      BY <2>1, <2>2, <2>3
  <1>2. ASSUME NEW s \in D, NEW f \in [D -> V], NEW g \in [D -> V],
               \A y \in D : Len(y) < Len(s) => f[y] = g[y]
        PROVE  DenotedBy(f, s) = DenotedBy(g, s)
    <2> HIDE DEF V
    <2>1. CASE TopLevel(s) # {}
      <3> DEFINE u == SubSeq(s, 1, LastTop(s) - 1)
                 v == SubSeq(s, LastTop(s) + 1, Len(s))
      <3>1. u \in D /\ Len(u) < Len(s) /\ v \in D /\ Len(v) < Len(s)
        BY <2>1, LastSplits
      <3>2. f[u] = g[u] /\ f[v] = g[v]
        <4> HIDE DEF u, v, D
        <4> QED
          BY <1>2, <3>1
      <3> QED
        BY <2>1, <3>2 DEF DenotedBy
    <2>2. CASE TopLevel(s) = {}
      <3>1. Len(s) \in Nat
        OBVIOUS
      <3>2. ASSUME ~(Len(s) <= 1) PROVE f[SubSeq(s, 2, Len(s) - 1)] = g[SubSeq(s, 2, Len(s) - 1)]
        <4>1. Len(s) > 1
          BY <3>1, <3>2
        <4>2. SubSeq(s, 2, Len(s) - 1) \in D /\ Len(SubSeq(s, 2, Len(s) - 1)) < Len(s)
          BY <4>1, InnerShorter
        <4> HIDE DEF D
        <4> QED
          BY <1>2, <4>2
      <3> QED
        BY <2>2, <3>2 DEF DenotedBy
    <2> QED
      BY <2>1, <2>2
  <1>3. m \in [D -> Nat] /\ \A s \in D : m[s] = Len(s)
    OBVIOUS
  <1>4. V # {}
    OBVIOUS
  <1> HIDE DEF D, V
  <1>5. B \in [D \X [D -> V] -> V] /\ \A s \in D : \A f \in [D -> V] : B[<<s, f>>] = DenotedBy(f, s)
    BY <1>1
  <1> HIDE DEF m, B
  <1>6. Descends(D, V, m, B)
    <2>1. ASSUME NEW s \in D, NEW f \in [D -> V], NEW g \in [D -> V], \A y \in D : m[y] < m[s] => f[y] = g[y]
          PROVE  B[<<s, f>>] = B[<<s, g>>]
      <3>1. \A y \in D : Len(y) < Len(s) => f[y] = g[y]
        BY <1>3, <2>1
      <3>2. DenotedBy(f, s) = DenotedBy(g, s)
        BY <1>2, <3>1
      <3> QED
        BY <1>5, <3>2
    <2> QED
      BY <1>3, <1>4, <1>5, <2>1 DEF Descends
  <1>7. PICK f \in [D -> V] : \A s \in D : f[s] = B[<<s, f>>]
    BY <1>6, RecursionExists
  <1>8. f = [s \in D |-> DenotedBy(f, s)]
    BY <1>5, <1>7
  <1>9. Denotes = [s \in D |-> DenotedBy(Denotes, s)]
    BY <1>8, Zenon DEF Denotes, DenotedBy, D
  <1> QED
    BY <1>9 DEF D

-----------------------------------------------------------------------------
(***************************************************************************)
(* The loop of __resolve_term_expression.                                  *)
(***************************************************************************)
\* What can be left after a term.
Trailing(r) == r \in Seq(Tokens) /\ Balanced(r) /\ (r = <<>> \/ (r[1] \in Operators /\ FitsPattern(Tail(r))))

\* The left term and the operator with which a term can be met.
Before(l, op) == (l = Nothing /\ op = Nothing) \/ (l \in SUBSET Rses /\ op \in Operators)

\* The loop is before a term or after one.
LEMMA PendingForms ==
  /\ \A s, l, op : Proper(s) /\ Before(l, op) => <<s, l, op>> \in Pending
  /\ \A s, l : Trailing(s) /\ l \in SUBSET Rses => <<s, l, Nothing>> \in Pending
  /\ \A x \in Pending :
       /\ x[1] \in Seq(Tokens) /\ x = <<x[1], x[2], x[3]>>
       /\ \/ Proper(x[1]) /\ Before(x[2], x[3])
          \/ Trailing(x[1]) /\ x[2] \in SUBSET Rses /\ x[3] = Nothing
  <1>1. Nothing \notin Operators /\ Nothing \notin SUBSET Rses
    BY ExpressionAssumption DEF Operators
  <1>2. ASSUME NEW s, NEW l, NEW op, Proper(s), Before(l, op) PROVE <<s, l, op>> \in Pending
    <2>1. /\ <<s, l, op>> \in Seq(Tokens) \X ((SUBSET Rses) \cup {Nothing}) \X (Operators \cup {Nothing})
          /\ Balanced(s) /\ FitsPattern(s) /\ (l = Nothing => op = Nothing) /\ ~(l # Nothing /\ op = Nothing)
      BY <1>1, <1>2 DEF Proper, Before
    <2> QED
      BY <2>1 DEF Pending
  <1>3. ASSUME NEW s, NEW l \in SUBSET Rses, Trailing(s) PROVE <<s, l, Nothing>> \in Pending
    <2>1. /\ <<s, l, Nothing>> \in Seq(Tokens) \X ((SUBSET Rses) \cup {Nothing}) \X (Operators \cup {Nothing})
          /\ Balanced(s) /\ l # Nothing /\ (s = <<>> \/ (s[1] \in Operators /\ FitsPattern(Tail(s))))
      BY <1>1, <1>3 DEF Trailing
    <2> QED
      BY <2>1 DEF Pending
  <1>4. ASSUME NEW x \in Pending
        PROVE  /\ x[1] \in Seq(Tokens) /\ x = <<x[1], x[2], x[3]>>
               /\ \/ Proper(x[1]) /\ Before(x[2], x[3])
                  \/ Trailing(x[1]) /\ x[2] \in SUBSET Rses /\ x[3] = Nothing
    <2>1. x \in Seq(Tokens) \X ((SUBSET Rses) \cup {Nothing}) \X (Operators \cup {Nothing})
      BY DEF Pending
    <2>2. /\ Balanced(x[1]) /\ (x[2] = Nothing => x[3] = Nothing)
          /\ IF x[2] # Nothing /\ x[3] = Nothing
             THEN x[1] = <<>> \/ (x[1][1] \in Operators /\ FitsPattern(Tail(x[1])))
             ELSE FitsPattern(x[1])
      BY DEF Pending
    <2>3. /\ x[1] \in Seq(Tokens) /\ x[2] \in (SUBSET Rses) \cup {Nothing} /\ x[3] \in Operators \cup {Nothing}
          /\ x = <<x[1], x[2], x[3]>>
      BY <2>1
    <2> QED
      BY <2>2, <2>3, Zenon DEF Proper, Before, Trailing
  <1> QED
    BY <1>2, <1>3, <1>4

\* After an operator comes an expression that passes.
LEMMA TrailingTail ==
  ASSUME NEW r, Trailing(r), r # <<>>
  PROVE  /\ r[1] \in Operators /\ Tail(r) = SubSeq(r, 2, Len(r)) /\ Len(Tail(r)) = Len(r) - 1 /\ Len(r) \in Nat
         /\ Len(r) > 1 /\ Proper(Tail(r))
  <1>1. r \in Seq(Tokens) /\ Balanced(r) /\ r[1] \in Operators /\ FitsPattern(Tail(r)) /\ Len(r) \in Nat /\ Len(r) # 0
    BY DEF Trailing
  <1>2. Tail(r) = SubSeq(r, 2, Len(r)) /\ Len(Tail(r)) = Len(r) - 1 /\ Tail(r) \in Seq(Tokens)
    BY <1>1
  <1>3. Len(r) > 1
    BY <1>1, <1>2 DEF FitsPattern
  <1>4. /\ Depth(r, Len(r)) = 0 /\ \A n \in 1 .. Len(r) : Depth(r, n) >= 0
    BY <1>1, DepthTells
  <1>5. Depth(r, 1) = 0
    <2>1. Depth(r, 0) = 0 /\ Depth(r, 0 + 1) = Depth(r, 0) + Weight(r[0 + 1])
      BY DepthStep
    <2>2. Weight(r[1]) = 0
      BY <1>1, TokenKinds
    <2> QED
      BY <2>1, <2>2
  <1>6. Balanced(SubSeq(r, 2, Len(r)))
    <2> DEFINE k == Len(r)
    <2>1. 2 \in 1 .. Len(r) + 1 /\ k \in 2 - 1 .. Len(r) /\ 2 - 1 = 1 /\ k \in Nat
      BY <1>1, <1>3
    <2>2. Depth(r, k) = Depth(r, 2 - 1) /\ \A n \in 2 .. k : Depth(r, n) >= Depth(r, 2 - 1)
      BY <1>4, <1>5, <2>1
    <2> HIDE DEF k
    <2>3. Balanced(SubSeq(r, 2, k))
      BY <1>1, <2>1, <2>2, BalancedCut
    <2> QED
      BY <2>3 DEF k
  <1> QED
    BY <1>1, <1>2, <1>3, <1>6 DEF Proper

\* What follows a term that stands outside of all parentheses.
LEMMA TermTrails ==
  ASSUME NEW s, Proper(s), NEW n \in 1 .. Len(s), Closes(s[n]), Depth(s, n) = 0
  PROVE  Trailing(SubSeq(s, n + 1, Len(s))) /\ Len(SubSeq(s, n + 1, Len(s))) = Len(s) - n
  <1>1. s \in Seq(Tokens) /\ Len(s) \in Nat
    BY DEF Proper
  <1> DEFINE j == n + 1
             k == Len(s)
             r == SubSeq(s, j, k)
  <1>2. j \in 1 .. Len(s) + 1 /\ k \in j - 1 .. Len(s) /\ j - 1 = n /\ k - j + 1 = k - n /\ j \in Nat /\ k \in Nat
    BY <1>1
  <1>3. Depth(s, k) = Depth(s, j - 1) /\ \A l \in j .. k : Depth(s, l) >= Depth(s, j - 1)
    <2>1. \A l \in j .. k : l \in 0 .. Len(s)
      BY <1>2
    <2> QED
      BY <1>2, <2>1, ProperFacts
  <1> HIDE DEF j, k, r
  <1>4. r \in Seq(Tokens) /\ Len(r) = k - n /\ \A l \in 1 .. k - j + 1 : r[l] = s[j + l - 1]
    <2>1. r \in Seq(Tokens) /\ Len(r) = k - j + 1 /\ \A l \in 1 .. k - j + 1 : r[l] = s[j + l - 1]
      BY <1>1, <1>2, Cut DEF r
    <2> QED
      BY <1>2, <2>1
  <1>5. Balanced(r)
    BY <1>1, <1>2, <1>3, BalancedCut DEF r
  <1>6. CASE n = k
    <2>1. r = <<>>
      BY <1>2, <1>4, <1>6
    <2> QED
      BY <1>4, <1>5, <2>1 DEF Trailing, r, j, k
  <1>7. CASE n # k
    <2>1. n \in 1 .. Len(s) - 1
      BY <1>1, <1>7 DEF k
    <2>2. s[j] \in Operators /\ j \in TopLevel(s)
      BY <2>1, AfterTerm DEF j
    <2>3. Proper(SubSeq(s, j + 1, Len(s)))
      BY <2>2, SplitProper
    <2>4. 1 \in 1 .. k - j + 1 /\ j + 1 - 1 = j
      BY <1>2, <2>1 DEF k
    <2>5. r[1] = s[j]
      BY <1>4, <2>4
    <2>6. Tail(r) = SubSeq(s, j + 1, k)
      <3>1. Tail(r) = SubSeq(r, 2, Len(r)) /\ Len(r) \in Nat
        BY <1>4
      <3> DEFINE m == Len(r)
      <3>2. 2 \in 1 .. k - j + 2 /\ m \in 2 - 1 .. k - j + 1 /\ j + 2 - 1 = j + 1 /\ j + m - 1 = k
        BY <1>2, <1>4, <2>4
      <3> HIDE DEF m
      <3>3. SubSeq(SubSeq(s, j, k), 2, m) = SubSeq(s, j + 2 - 1, j + m - 1)
        BY <1>1, <1>2, <3>2, CutCut
      <3> QED
        BY <3>1, <3>2, <3>3 DEF r, m
    <2> QED
      BY <1>4, <1>5, <2>2, <2>3, <2>5, <2>6 DEF Trailing, Proper, r, j, k
  <1> QED
    BY <1>6, <1>7

\* __extract_term: the parenthesis that closes the first one exists, "This point
\* in the code should not be reachable" is not reached, and the group is an
\* expression that passes.
LEMMA GroupExtracted ==
  ASSUME NEW s, Proper(s), s[1] = "("
  PROVE  \E i \in 1 .. Len(s) :
           /\ ExtractTerm(s) = SubSeq(s, 2, i - 1) /\ Len(ExtractTerm(s)) = i - 2 /\ Proper(ExtractTerm(s))
           /\ s[i] = ")" /\ Depth(s, i) = 0 /\ \A n \in 1 .. i - 1 : Depth(s, n) > 0
  <1>1. s \in Seq(Tokens) /\ Len(s) \in Nat /\ Len(s) # 0
    BY ProperFacts DEF Proper
  <1> DEFINE closing == {n \in 1 .. Len(s) : Count(s, "(", n) = Count(s, ")", n)}
  <1>2. ASSUME NEW n \in 1 .. Len(s) PROVE n \in closing <=> Depth(s, n) = 0
    <2>1. n \in Nat
      BY <1>1
    <2> QED
      BY <1>1, <2>1, DepthTells
  <1>3. Len(s) \in 1 .. Len(s)
    BY <1>1
  <1>4. Len(s) \in closing
    BY <1>2, <1>3, ProperFacts
  <1>5. closing \in SUBSET Nat /\ closing \in SUBSET (1 .. Len(s)) /\ closing # {}
    BY <1>4
  <1> HIDE DEF closing
  <1> DEFINE i == CHOOSE n \in closing : \A k \in closing : n <= k
  <1>6. \E n \in closing : \A k \in closing : n <= k
    BY <1>5, LeastNumber
  <1>7. i \in closing /\ \A k \in closing : i <= k
    BY <1>6
  <1>8. ExtractTerm(s) = SubSeq(s, 2, i - 1)
    BY DEF ExtractTerm, closing
  <1> HIDE DEF i
  <1>9. i \in 1 .. Len(s) /\ Depth(s, i) = 0
    BY <1>2, <1>5, <1>7
  <1>10. ASSUME NEW n \in 1 .. i - 1 PROVE Depth(s, n) > 0
    <2>1. n \in 1 .. Len(s) /\ n \in 0 .. Len(s) /\ ~(i <= n)
      BY <1>1, <1>9
    <2>2. Depth(s, n) # 0 /\ Depth(s, n) \in Nat
      BY <1>2, <1>7, <2>1, ProperFacts
    <2> QED
      BY <2>2
  <1>11. Depth(s, 1) = 1
    <2>1. 1 \in 1 .. Len(s) /\ 1 - 1 = 0
      BY <1>1
    <2> QED
      BY <2>1, ProperFacts, TokenKinds
  <1>12. i > 1
    <2>1. i # 1
      BY <1>9, <1>11
    <2> QED
      BY <1>9, <2>1
  <1>13. s[i] = ")" /\ i # 1 + 1 /\ Proper(SubSeq(s, 1 + 1, i - 1))
    <2>1. 1 \in 1 .. Len(s) /\ i \in 1 .. Len(s) /\ Depth(s, 1 - 1) = 0
      BY <1>1, <1>9, ProperFacts
    <2>2. Depth(s, i) = Depth(s, 1 - 1) /\ \A n \in 1 .. i - 1 : Depth(s, n) > Depth(s, 1 - 1)
      BY <1>9, <1>10, <2>1
    <2> QED
      BY <1>12, <2>1, <2>2, InsideProper
  <1>14. Len(SubSeq(s, 2, i - 1)) = i - 2
    <2> DEFINE l == i - 1
    <2>1. 2 \in 1 .. Len(s) + 1 /\ l \in 2 - 1 .. Len(s) /\ l - 2 + 1 = i - 2
      BY <1>1, <1>9, <1>12
    <2> HIDE DEF l
    <2>2. Len(SubSeq(s, 2, l)) = l - 2 + 1
      BY <1>1, <2>1, Cut
    <2> QED
      BY <2>1, <2>2 DEF l
  <1>15. 1 + 1 = 2
    OBVIOUS
  <1> QED
    BY <1>8, <1>9, <1>10, <1>13, <1>14, <1>15

\* The body of Resolve.
ResolvedBy(f, x) ==
  LET s == x[1]
      group == ExtractTerm(s)
      term == IF s[1] = "(" THEN f[<<group, Nothing, Nothing>>] ELSE Matching[s[1]]
      rest == SubSeq(s, IF s[1] = "(" THEN Len(group) + 3 ELSE 2, Len(s))
  IN IF s = <<>> THEN x[2]
     ELSE IF s[1] \in Operators THEN f[<<Tail(s), x[2], s[1]>>]
     ELSE f[<<rest, Combine(x[3], x[2], term), Nothing>>]

\* A term joins what is on its left.
LEMMA CombineTyped ==
  ASSUME NEW l, NEW op, Before(l, op), NEW t \in SUBSET Rses
  PROVE  Combine(op, l, t) \in SUBSET Rses
  <1>1. CASE l = Nothing
    BY <1>1 DEF Combine
  <1>2. CASE l \in SUBSET Rses /\ op \in Operators /\ l # Nothing
    BY <1>2 DEF Combine, Apply, Operators
  <1> QED
    BY <1>1, <1>2 DEF Before

\* The loop at its end.
LEMMA ResolvedEnd ==
  ASSUME NEW f, NEW l
  PROVE  ResolvedBy(f, << <<>>, l, Nothing>>) = l
  BY DEF ResolvedBy

\* The loop at an operator.
LEMMA ResolvedOperator ==
  ASSUME NEW f, NEW l, NEW s, Trailing(s), s # <<>>
  PROVE  ResolvedBy(f, <<s, l, Nothing>>) = f[<<Tail(s), l, s[1]>>]
  <1>1. s[1] \in Operators
    BY TrailingTail
  <1> DEFINE x == <<s, l, Nothing>>
  <1>2. x[1] = s /\ x[2] = l /\ x[3] = Nothing
    OBVIOUS
  <1> HIDE DEF x
  <1>3. ResolvedBy(f, x) = f[<<Tail(s), l, s[1]>>]
    BY <1>1, <1>2, Zenon DEF ResolvedBy
  <1> QED
    BY <1>3 DEF x

\* The loop at a primitive.
LEMMA ResolvedPrimitive ==
  ASSUME NEW f, NEW l, NEW op, NEW s, Proper(s), s[1] \in Primitives
  PROVE  ResolvedBy(f, <<s, l, op>>) = f[<<SubSeq(s, 2, Len(s)), Combine(op, l, Matching[s[1]]), Nothing>>]
  <1>1. s[1] \notin Operators /\ s[1] # "(" /\ s # <<>>
    BY TokenKinds DEF Proper, FitsPattern
  <1> DEFINE x == <<s, l, op>>
  <1>2. x[1] = s /\ x[2] = l /\ x[3] = op
    OBVIOUS
  <1> HIDE DEF x
  <1>3. ResolvedBy(f, x) = f[<<SubSeq(s, 2, Len(s)), Combine(op, l, Matching[s[1]]), Nothing>>]
    BY <1>1, <1>2, Zenon DEF ResolvedBy
  <1> QED
    BY <1>3 DEF x

\* The loop at a parenthesis.
LEMMA ResolvedGroup ==
  ASSUME NEW f, NEW l, NEW op, NEW s, Proper(s), s[1] = "("
  PROVE  ResolvedBy(f, <<s, l, op>>) =
           f[<<SubSeq(s, Len(ExtractTerm(s)) + 3, Len(s)),
               Combine(op, l, f[<<ExtractTerm(s), Nothing, Nothing>>]), Nothing>>]
  <1>1. s[1] \notin Operators /\ s # <<>>
    BY TokenKinds DEF Proper, FitsPattern
  <1> DEFINE x == <<s, l, op>>
  <1>2. x[1] = s /\ x[2] = l /\ x[3] = op
    OBVIOUS
  <1> HIDE DEF x
  <1>3. ResolvedBy(f, x) =
           f[<<SubSeq(s, Len(ExtractTerm(s)) + 3, Len(s)),
               Combine(op, l, f[<<ExtractTerm(s), Nothing, Nothing>>]), Nothing>>]
    BY <1>1, <1>2, Zenon DEF ResolvedBy
  <1> QED
    BY <1>3 DEF x

\* The rest after a primitive and after a group.
LEMMA RestOfTerm ==
  ASSUME NEW s, Proper(s)
  PROVE  /\ Len(s) \in Nat /\ Len(s) # 0 /\ (s[1] \in Primitives \/ s[1] = "(")
         /\ s[1] \in Primitives => /\ Trailing(SubSeq(s, 2, Len(s))) /\ Len(SubSeq(s, 2, Len(s))) < Len(s)
                                   /\ Matching[s[1]] \in SUBSET Rses
         /\ s[1] = "(" => /\ Proper(ExtractTerm(s)) /\ Len(ExtractTerm(s)) < Len(s)
                          /\ Trailing(SubSeq(s, Len(ExtractTerm(s)) + 3, Len(s)))
                          /\ Len(SubSeq(s, Len(ExtractTerm(s)) + 3, Len(s))) < Len(s)
  <1>1. Len(s) \in Nat /\ Len(s) # 0 /\ (s[1] \in Primitives \/ s[1] = "(") /\ 1 \in 1 .. Len(s)
    <2>1. Len(s) \in Nat /\ Len(s) # 0 /\ (s[1] \in Primitives \/ s[1] = "(")
      BY ProperFacts, TokenKinds
    <2> QED
      BY <2>1
  <1>2. ASSUME s[1] \in Primitives
        PROVE  /\ Trailing(SubSeq(s, 2, Len(s))) /\ Len(SubSeq(s, 2, Len(s))) < Len(s) /\ Matching[s[1]] \in SUBSET Rses
    <2>1. 1 - 1 = 0 /\ 1 + 1 = 2
      OBVIOUS
    <2>2. Closes(s[1]) /\ Depth(s, 1) = 0
      BY <1>1, <1>2, <2>1, ProperFacts, TokenKinds
    <2>3. Trailing(SubSeq(s, 1 + 1, Len(s))) /\ Len(SubSeq(s, 1 + 1, Len(s))) = Len(s) - 1
      BY <1>1, <2>2, TermTrails
    <2>4. Matching[s[1]] \in SUBSET Rses
      BY <1>2, ExpressionAssumption DEF Primitives
    <2> QED
      BY <1>1, <2>1, <2>3, <2>4
  <1>3. ASSUME s[1] = "("
        PROVE  /\ Proper(ExtractTerm(s)) /\ Len(ExtractTerm(s)) < Len(s)
               /\ Trailing(SubSeq(s, Len(ExtractTerm(s)) + 3, Len(s)))
               /\ Len(SubSeq(s, Len(ExtractTerm(s)) + 3, Len(s))) < Len(s)
    <2>1. PICK i \in 1 .. Len(s) : /\ Len(ExtractTerm(s)) = i - 2 /\ Proper(ExtractTerm(s))
                                   /\ s[i] = ")" /\ Depth(s, i) = 0
      BY <1>3, GroupExtracted
    <2>2. Closes(s[i])
      BY <2>1, TokenKinds
    <2>3. Trailing(SubSeq(s, i + 1, Len(s))) /\ Len(SubSeq(s, i + 1, Len(s))) = Len(s) - i
      BY <2>1, <2>2, TermTrails
    <2>4. Len(ExtractTerm(s)) + 3 = i + 1 /\ i - 2 < Len(s) /\ Len(s) - i < Len(s)
      BY <1>1, <2>1
    <2> QED
      BY <2>1, <2>3, <2>4
  <1> QED
    BY <1>1, <1>2, <1>3

\* Two functions agree, within the RSEs, on what is shorter than x.
AgreeBelow(f, g, x) == \A y \in Pending : Len(y[1]) < Len(x[1]) => f[y] = g[y] /\ f[y] \in SUBSET Rses

\* The body only looks at what is shorter, and stays within the RSEs.
LEMMA ResolvedBelow ==
  ASSUME NEW x \in Pending, NEW f, NEW g, AgreeBelow(f, g, x)
  PROVE  ResolvedBy(f, x) = ResolvedBy(g, x) /\ ResolvedBy(f, x) \in SUBSET Rses
  <1>1. PICK s, l, op :
          /\ x = <<s, l, op>>
          /\ \/ Proper(s) /\ Before(l, op)
             \/ Trailing(s) /\ l \in SUBSET Rses /\ op = Nothing
    <2>1. /\ x = <<x[1], x[2], x[3]>>
          /\ \/ Proper(x[1]) /\ Before(x[2], x[3])
             \/ Trailing(x[1]) /\ x[2] \in SUBSET Rses /\ x[3] = Nothing
      BY PendingForms
    <2> QED
      BY <2>1, Zenon
  <1>2. ASSUME NEW r, NEW k, NEW q, <<r, k, q>> \in Pending, Len(r) < Len(s)
        PROVE  f[<<r, k, q>>] = g[<<r, k, q>>] /\ f[<<r, k, q>>] \in SUBSET Rses
    <2> DEFINE y == <<r, k, q>>
    <2>1. y[1] = r
      OBVIOUS
    <2>2. y \in Pending /\ x[1] = s
      BY <1>1, <1>2
    <2> HIDE DEF y
    <2>3. f[y] = g[y] /\ f[y] \in SUBSET Rses
      BY <1>2, <2>1, <2>2 DEF AgreeBelow
    <2> QED
      BY <2>3 DEF y
  <1>3. CASE Proper(s) /\ Before(l, op)
    <2>1. CASE s[1] \in Primitives
      <3> DEFINE r == SubSeq(s, 2, Len(s))
                 k == Combine(op, l, Matching[s[1]])
      <3>1. Trailing(r) /\ Len(r) < Len(s) /\ k \in SUBSET Rses
        BY <1>3, <2>1, RestOfTerm, CombineTyped
      <3>2. ResolvedBy(f, x) = f[<<r, k, Nothing>>] /\ ResolvedBy(g, x) = g[<<r, k, Nothing>>]
        <4>1. x = <<s, l, op>>
          BY <1>1
        <4>2. ASSUME NEW h PROVE ResolvedBy(h, x) = h[<<SubSeq(s, 2, Len(s)), Combine(op, l, Matching[s[1]]), Nothing>>]
          <5>1. ResolvedBy(h, <<s, l, op>>) = h[<<SubSeq(s, 2, Len(s)), Combine(op, l, Matching[s[1]]), Nothing>>]
            BY <1>3, <2>1, ResolvedPrimitive, Zenon
          <5> QED
            BY <4>1, <5>1, Zenon
        <4> QED
          BY <4>2, Zenon
      <3> HIDE DEF r, k
      <3>3. <<r, k, Nothing>> \in Pending
        BY <3>1, PendingForms
      <3>4. f[<<r, k, Nothing>>] = g[<<r, k, Nothing>>] /\ f[<<r, k, Nothing>>] \in SUBSET Rses
        BY <1>2, <3>1, <3>3
      <3> QED
        BY <3>2, <3>4
    <2>2. CASE s[1] = "("
      <3> DEFINE r == SubSeq(s, Len(ExtractTerm(s)) + 3, Len(s))
                 e == ExtractTerm(s)
                 t == f[<<e, Nothing, Nothing>>]
                 k == Combine(op, l, t)
      <3>1. Trailing(r) /\ Len(r) < Len(s) /\ Proper(e) /\ Len(e) < Len(s)
        BY <1>3, <2>2, RestOfTerm
      <3>2. /\ ResolvedBy(f, x) = f[<<r, k, Nothing>>]
            /\ ResolvedBy(g, x) = g[<<r, Combine(op, l, g[<<e, Nothing, Nothing>>]), Nothing>>]
        <4>1. x = <<s, l, op>>
          BY <1>1
        <4>2. ASSUME NEW h PROVE ResolvedBy(h, x) = h[<<SubSeq(s, Len(ExtractTerm(s)) + 3, Len(s)), Combine(op, l, h[<<ExtractTerm(s), Nothing, Nothing>>]), Nothing>>]
          <5>1. ResolvedBy(h, <<s, l, op>>) = h[<<SubSeq(s, Len(ExtractTerm(s)) + 3, Len(s)), Combine(op, l, h[<<ExtractTerm(s), Nothing, Nothing>>]), Nothing>>]
            BY <1>3, <2>2, ResolvedGroup, Zenon
          <5> QED
            BY <4>1, <5>1, Zenon
        <4> QED
          BY <4>2, Zenon
      <3> HIDE DEF r, e
      <3>3. <<e, Nothing, Nothing>> \in Pending
        BY <3>1, PendingForms DEF Before
      <3>4. t = g[<<e, Nothing, Nothing>>] /\ t \in SUBSET Rses
        BY <1>2, <3>1, <3>3
      <3> HIDE DEF t
      <3>5. k \in SUBSET Rses
        BY <1>3, <3>4, CombineTyped
      <3>6. ResolvedBy(g, x) = g[<<r, k, Nothing>>]
        BY <3>2, <3>4
      <3> HIDE DEF k
      <3>7. <<r, k, Nothing>> \in Pending
        BY <3>1, <3>5, PendingForms
      <3>8. f[<<r, k, Nothing>>] = g[<<r, k, Nothing>>] /\ f[<<r, k, Nothing>>] \in SUBSET Rses
        BY <1>2, <3>1, <3>7
      <3> QED
        BY <3>2, <3>6, <3>8
    <2> QED
      BY <1>3, <2>1, <2>2, RestOfTerm
  <1>4. CASE Trailing(s) /\ l \in SUBSET Rses /\ op = Nothing
    <2>1. CASE s = <<>>
      <3>1. ResolvedBy(f, x) = l /\ ResolvedBy(g, x) = l
        BY <1>1, <1>4, <2>1, ResolvedEnd
      <3> QED
        BY <1>4, <3>1
    <2>2. CASE s # <<>>
      <3> DEFINE r == Tail(s)
                 q == s[1]
      <3>1. Proper(r) /\ Len(r) = Len(s) - 1 /\ Len(s) \in Nat /\ q \in Operators
        BY <1>4, <2>2, TrailingTail
      <3>2. ResolvedBy(f, x) = f[<<r, l, q>>] /\ ResolvedBy(g, x) = g[<<r, l, q>>]
        <4>1. x = <<s, l, Nothing>>
          BY <1>1, <1>4
        <4>2. ASSUME NEW h PROVE ResolvedBy(h, x) = h[<<Tail(s), l, s[1]>>]
          <5>1. ResolvedBy(h, <<s, l, Nothing>>) = h[<<Tail(s), l, s[1]>>]
            BY <1>4, <2>2, ResolvedOperator, Zenon
          <5> QED
            BY <4>1, <5>1, Zenon
        <4> QED
          BY <4>2, Zenon
      <3> HIDE DEF r, q
      <3>3. <<r, l, q>> \in Pending /\ Len(r) < Len(s)
        BY <1>4, <3>1, PendingForms DEF Before
      <3>4. f[<<r, l, q>>] = g[<<r, l, q>>] /\ f[<<r, l, q>>] \in SUBSET Rses
        BY <1>2, <3>3
      <3> QED
        BY <3>2, <3>4
    <2> QED
      BY <2>1, <2>2
  <1> QED
    BY <1>1, <1>3, <1>4

\* The loop terminates: Resolve satisfies its equation, and yields RSEs.
LEMMA ResolveIs ==
  \A x \in Pending : Resolve[x] = ResolvedBy(Resolve, x) /\ Resolve[x] \in SUBSET Rses
  <1> DEFINE D == Pending
             V == SUBSET Rses
             m == [x \in D |-> Len(x[1])]
             B == [y \in D \X [D -> V] |-> ResolvedBy(y[2], y[1])]
  <1>1. ASSUME NEW x \in D, NEW f, NEW g,
               \A y \in D : Len(y[1]) < Len(x[1]) => f[y] = g[y] /\ f[y] \in V
        PROVE  ResolvedBy(f, x) = ResolvedBy(g, x) /\ ResolvedBy(f, x) \in V
    <2>1. AgreeBelow(f, g, x)
      BY <1>1 DEF AgreeBelow
    <2> QED
      BY <2>1, ResolvedBelow
  <1>2. \A x \in D : Len(x[1]) \in Nat
    BY PendingForms
  <1> HIDE DEF D, V
  <1>3. m \in [D -> Nat] /\ \A x \in D : m[x] = Len(x[1])
    BY <1>2
  <1>4. ASSUME NEW x \in D, NEW f \in [D -> V] PROVE ResolvedBy(f, x) \in V
    BY <1>1
  <1>5. B \in [D \X [D -> V] -> V] /\ \A x \in D : \A f \in [D -> V] : B[<<x, f>>] = ResolvedBy(f, x)
    BY <1>4
  <1> HIDE DEF m, B
  <1>6. V # {}
    BY DEF V
  <1>7. Descends(D, V, m, B)
    <2>1. ASSUME NEW x \in D, NEW f \in [D -> V], NEW g \in [D -> V], \A y \in D : m[y] < m[x] => f[y] = g[y]
          PROVE  B[<<x, f>>] = B[<<x, g>>]
      <3>1. \A y \in D : Len(y[1]) < Len(x[1]) => f[y] = g[y] /\ f[y] \in V
        BY <1>3, <2>1
      <3>2. ResolvedBy(f, x) = ResolvedBy(g, x)
        BY <1>1, <3>1
      <3> QED
        BY <1>5, <3>2
    <2> QED
      BY <1>3, <1>5, <1>6, <2>1 DEF Descends
  <1>8. PICK f \in [D -> V] : \A x \in D : f[x] = B[<<x, f>>]
    BY <1>7, RecursionExists
  <1>9. f = [x \in D |-> ResolvedBy(f, x)]
    BY <1>5, <1>8
  <1>10. Resolve = [x \in D |-> ResolvedBy(Resolve, x)]
    BY <1>9, Zenon DEF Resolve, ResolvedBy, D
  <1>11. \A x \in D : Resolve[x] = ResolvedBy(Resolve, x)
    BY <1>10
  <1> DEFINE W == {x \in D : Resolve[x] \notin V}
  <1>12. W = {}
    <2>1. SUFFICES ASSUME W # {} PROVE FALSE
      OBVIOUS
    <2>2. W \in SUBSET D
      OBVIOUS
    <2>3. PICK x \in W : \A y \in W : m[x] <= m[y]
      <3> HIDE DEF W
      <3> QED
        BY <1>3, <2>1, <2>2, LeastMeasure
    <2>4. ASSUME NEW y \in D, Len(y[1]) < Len(x[1]) PROVE Resolve[y] \in V
      <3>1. m[y] = Len(y[1]) /\ m[x] = Len(x[1]) /\ m[y] \in Nat /\ m[x] \in Nat
        BY <1>3
      <3> QED
        BY <2>3, <2>4, <3>1
    <2>5. ResolvedBy(Resolve, x) \in V
      BY <1>1, <2>4
    <2> QED
      BY <1>11, <2>5
  <1> QED
    BY <1>11, <1>12 DEF D, V

-----------------------------------------------------------------------------
(***************************************************************************)
(* The expressions that pass are the well-formed ones.                     *)
(***************************************************************************)
\* A sequence of tokens whose depth and neighbours are right passes.
LEMMA ProperWhen ==
  ASSUME NEW s \in Seq(Tokens), Len(s) # 0, Depth(s, Len(s)) = 0, \A n \in 1 .. Len(s) : Depth(s, n) >= 0,
         Opens(s[1]), Closes(s[Len(s)]),
         \A i \in 1 .. Len(s) - 1 : IF Closes(s[i]) THEN s[i + 1] \in Operators \cup {")"} ELSE Opens(s[i + 1])
  PROVE  Proper(s)
  <1>1. Len(s) \in Nat /\ s # <<>>
    OBVIOUS
  <1>2. Balanced(s)
    BY <1>1, DepthTells
  <1>3. FitsPattern(s)
    BY <1>1 DEF FitsPattern
  <1> QED
    BY <1>2, <1>3 DEF Proper

\* Two expressions that pass, with an operator between them.
LEMMA JoinProper ==
  ASSUME NEW s \in Seq(Tokens), NEW i \in 1 .. Len(s), s[i] \in Operators,
         Proper(SubSeq(s, 1, i - 1)), Proper(SubSeq(s, i + 1, Len(s)))
  PROVE  Proper(s)
  <1> DEFINE p == i - 1
             j == i + 1
             k == Len(s)
             u == SubSeq(s, 1, p)
             v == SubSeq(s, j, k)
  <1>1. /\ k \in Nat /\ p \in Nat /\ j \in Nat /\ i \in Nat /\ p = i - 1 /\ j = i + 1 /\ i <= k /\ i >= 1
        /\ 1 \in 1 .. Len(s) + 1 /\ p \in 1 - 1 .. Len(s) /\ p - 1 + 1 = p
        /\ j \in 1 .. Len(s) + 1 /\ k \in j - 1 .. Len(s) /\ k - j + 1 = k - i /\ j - 1 = i /\ 1 - 1 = 0
    OBVIOUS
  <1>2. Proper(u) /\ Proper(v) /\ k = Len(s)
    OBVIOUS
  <1> HIDE DEF p, j, k
  <1>3. Len(u) = p /\ \A n \in 1 .. p : u[n] = s[n]
    <2>1. Len(u) = p - 1 + 1 /\ \A n \in 1 .. p - 1 + 1 : u[n] = s[1 + n - 1]
      BY <1>1, Cut
    <2>2. \A n \in 1 .. p : 1 + n - 1 = n
      BY <1>1
    <2> QED
      BY <1>1, <2>1, <2>2
  <1>4. Len(v) = k - i /\ \A n \in 1 .. k - i : v[n] = s[i + n]
    <2>1. Len(v) = k - j + 1 /\ \A n \in 1 .. k - j + 1 : v[n] = s[j + n - 1]
      BY <1>1, Cut
    <2>2. \A n \in 1 .. k - i : j + n - 1 = i + n
      BY <1>1
    <2> QED
      BY <1>1, <2>1, <2>2
  <1>5. ASSUME NEW n \in 0 .. p PROVE Depth(u, n) = Depth(s, n)
    <2>1. n \in 0 .. p - 1 + 1 /\ 1 + n - 1 = n
      BY <1>1
    <2>2. Depth(u, n) = Depth(s, 1 + n - 1) - Depth(s, 1 - 1)
      BY <1>1, <2>1, DepthCut
    <2>3. Depth(s, 0) = 0 /\ Depth(s, n) \in Int
      BY <2>1, DepthStep
    <2> QED
      BY <1>1, <2>1, <2>2, <2>3
  <1>6. ASSUME NEW n \in 0 .. k - i PROVE Depth(v, n) = Depth(s, i + n) - Depth(s, i)
    <2>1. n \in 0 .. k - j + 1 /\ j + n - 1 = i + n
      BY <1>1
    <2>2. Depth(v, n) = Depth(s, j + n - 1) - Depth(s, j - 1)
      BY <1>1, <2>1, DepthCut
    <2> QED
      BY <1>1, <2>1, <2>2
  <1> HIDE DEF u, v
  <1>7. /\ p # 0 /\ (\A n \in 0 .. p : Depth(u, n) \in Nat) /\ Depth(u, p) = 0 /\ Opens(u[1]) /\ Closes(u[p])
        /\ \A n \in 1 .. p - 1 : IF Closes(u[n]) THEN u[n + 1] \in Operators \cup {")"} ELSE Opens(u[n + 1])
    BY <1>2, <1>3, ProperFacts
  <1>8. /\ k - i # 0 /\ (\A n \in 0 .. k - i : Depth(v, n) \in Nat) /\ Depth(v, k - i) = 0 /\ Opens(v[1]) /\ Closes(v[k - i])
        /\ \A n \in 1 .. (k - i) - 1 : IF Closes(v[n]) THEN v[n + 1] \in Operators \cup {")"} ELSE Opens(v[n + 1])
    BY <1>2, <1>4, ProperFacts
  <1>9. Depth(s, p) = 0 /\ Depth(s, i) = 0
    <2>1. p \in 0 .. p
      BY <1>1
    <2>2. Depth(s, p) = 0
      BY <1>5, <1>7, <2>1
    <2>3. Depth(s, i) = Depth(s, i - 1) + Weight(s[i])
      BY <1>1, DepthAt
    <2>4. Weight(s[i]) = 0
      BY TokenKinds
    <2> QED
      BY <1>1, <2>2, <2>3, <2>4
  <1>10. Depth(s, k) = 0
    <2>1. k - i \in 0 .. k - i /\ i + (k - i) = k
      BY <1>1
    <2>2. Depth(s, k) \in Int
      BY <1>1, DepthStep
    <2> QED
      BY <1>6, <1>8, <1>9, <2>1, <2>2
  <1>11. ASSUME NEW n \in 1 .. k PROVE Depth(s, n) >= 0
    <2>1. CASE n <= p
      <3>1. n \in 0 .. p
        BY <1>1, <2>1
      <3>2. Depth(s, n) \in Nat
        BY <1>5, <1>7, <3>1
      <3> QED
        BY <3>2
    <2>2. CASE n = i
      BY <1>9, <2>2
    <2>3. CASE n > i
      <3> DEFINE q == n - i
      <3>1. q \in 0 .. k - i /\ i + q = n /\ n \in Nat
        BY <1>1, <2>3
      <3> HIDE DEF q
      <3>2. Depth(v, q) = Depth(s, i + q) - Depth(s, i) /\ Depth(v, q) \in Nat
        BY <1>6, <1>8, <3>1
      <3>3. Depth(s, n) \in Int
        BY <3>1, DepthStep
      <3> QED
        BY <1>9, <3>1, <3>2, <3>3
    <2> QED
      BY <1>1, <2>1, <2>2, <2>3
  <1>12. Opens(s[1])
    <2>1. 1 \in 1 .. p
      BY <1>1, <1>7
    <2> QED
      BY <1>3, <1>7, <2>1
  <1>13. Closes(s[p])
    <2>1. p \in 1 .. p
      BY <1>1, <1>7
    <2> QED
      BY <1>3, <1>7, <2>1
  <1>14. Closes(s[k])
    <2>1. k - i \in 1 .. k - i /\ i + (k - i) = k
      BY <1>1, <1>8
    <2> QED
      BY <1>4, <1>8, <2>1
  <1>15. Opens(s[j])
    <2>1. 1 \in 1 .. k - i /\ i + 1 = j
      BY <1>1, <1>8
    <2> QED
      BY <1>4, <1>8, <2>1
  <1>16. ASSUME NEW n \in 1 .. k - 1
         PROVE  IF Closes(s[n]) THEN s[n + 1] \in Operators \cup {")"} ELSE Opens(s[n + 1])
    <2>1. CASE n < p
      <3>1. n \in 1 .. p - 1 /\ n \in 1 .. p /\ n + 1 \in 1 .. p
        BY <1>1, <2>1
      <3>2. u[n] = s[n] /\ u[n + 1] = s[n + 1]
        BY <1>3, <3>1
      <3> QED
        BY <1>7, <3>1, <3>2
    <2>2. CASE n = p
      <3>1. n + 1 = i
        BY <1>1, <2>2
      <3> QED
        BY <1>13, <2>2, <3>1
    <2>3. CASE n = i
      <3>1. n + 1 = j /\ ~Closes(s[n])
        BY <1>1, <2>3, TokenKinds
      <3> QED
        BY <1>15, <3>1
    <2>4. CASE n > i
      <3> DEFINE q == n - i
      <3>1. q \in 1 .. (k - i) - 1 /\ q \in 1 .. k - i /\ q + 1 \in 1 .. k - i /\ i + q = n /\ i + (q + 1) = n + 1
        BY <1>1, <2>4
      <3> HIDE DEF q
      <3>2. v[q] = s[n] /\ v[q + 1] = s[n + 1]
        BY <1>4, <3>1
      <3> QED
        BY <1>8, <3>1, <3>2
    <2> QED
      BY <1>1, <2>1, <2>2, <2>3, <2>4
  <1>17. k # 0
    BY <1>1
  <1> QED
    BY <1>2, <1>10, <1>11, <1>12, <1>14, <1>16, <1>17, ProperWhen

\* An expression that passes, in parentheses.
LEMMA WrapProper ==
  ASSUME NEW s \in Seq(Tokens), Len(s) > 2, s[1] = "(", s[Len(s)] = ")", Proper(SubSeq(s, 2, Len(s) - 1))
  PROVE  Proper(s)
  <1> DEFINE k == Len(s)
             l == k - 1
             v == SubSeq(s, 2, l)
  <1>1. /\ k \in Nat /\ l \in Nat /\ l = k - 1 /\ k > 2
        /\ 2 \in 1 .. Len(s) + 1 /\ l \in 2 - 1 .. Len(s) /\ l - 2 + 1 = k - 2 /\ 2 - 1 = 1
    OBVIOUS
  <1>2. Proper(v) /\ k = Len(s) /\ s[k] = ")"
    OBVIOUS
  <1> HIDE DEF k, l
  <1>3. Len(v) = k - 2 /\ \A n \in 1 .. k - 2 : v[n] = s[n + 1]
    <2>1. Len(v) = l - 2 + 1 /\ \A n \in 1 .. l - 2 + 1 : v[n] = s[2 + n - 1]
      BY <1>1, Cut
    <2>2. \A n \in 1 .. k - 2 : 2 + n - 1 = n + 1
      BY <1>1
    <2> QED
      BY <1>1, <2>1, <2>2
  <1>4. Depth(s, 1) = 1
    <2>1. Depth(s, 0) = 0 /\ Depth(s, 0 + 1) = Depth(s, 0) + Weight(s[0 + 1])
      BY DepthStep
    <2>2. Weight(s[1]) = 1
      BY TokenKinds
    <2> QED
      BY <2>1, <2>2
  <1>5. ASSUME NEW n \in 0 .. k - 2 PROVE Depth(v, n) = Depth(s, n + 1) - 1
    <2>1. n \in 0 .. l - 2 + 1 /\ 2 + n - 1 = n + 1
      BY <1>1
    <2>2. Depth(v, n) = Depth(s, 2 + n - 1) - Depth(s, 2 - 1)
      BY <1>1, <2>1, DepthCut
    <2> QED
      BY <1>1, <1>4, <2>1, <2>2
  <1> HIDE DEF v
  <1>6. /\ (\A n \in 0 .. k - 2 : Depth(v, n) \in Nat) /\ Depth(v, k - 2) = 0 /\ Opens(v[1]) /\ Closes(v[k - 2])
        /\ \A n \in 1 .. (k - 2) - 1 : IF Closes(v[n]) THEN v[n + 1] \in Operators \cup {")"} ELSE Opens(v[n + 1])
    BY <1>2, <1>3, ProperFacts
  <1>7. ASSUME NEW n \in 1 .. l PROVE Depth(s, n) >= 0
    <2> DEFINE q == n - 1
    <2>1. q \in 0 .. k - 2 /\ q + 1 = n /\ n \in Nat
      BY <1>1
    <2> HIDE DEF q
    <2>2. Depth(v, q) = Depth(s, q + 1) - 1 /\ Depth(v, q) \in Nat
      BY <1>5, <1>6, <2>1
    <2>3. Depth(s, n) \in Int
      BY <2>1, DepthStep
    <2> QED
      BY <2>1, <2>2, <2>3
  <1>8. Depth(s, k) = 0
    <2>1. k - 2 \in 0 .. k - 2 /\ (k - 2) + 1 = l /\ k # 0
      BY <1>1
    <2>2. Depth(s, l) \in Int
      BY <1>1, DepthStep
    <2>3. Depth(s, l) = 1
      BY <1>5, <1>6, <2>1, <2>2
    <2>4. Depth(s, k) = Depth(s, k - 1) + Weight(s[k])
      BY <1>1, <2>1, DepthAt
    <2>5. Weight(s[k]) = -1
      BY <1>2, TokenKinds
    <2> QED
      BY <1>1, <2>3, <2>4, <2>5
  <1>9. ASSUME NEW n \in 1 .. k PROVE Depth(s, n) >= 0
    <2>1. CASE n = k
      BY <1>8, <2>1
    <2>2. CASE n # k
      <3>1. n \in 1 .. l
        BY <1>1, <2>2
      <3> QED
        BY <1>7, <3>1
    <2> QED
      BY <2>1, <2>2
  <1>10. Opens(s[1]) /\ Closes(s[k])
    BY <1>2, TokenKinds
  <1>11. ASSUME NEW n \in 1 .. k - 1
         PROVE  IF Closes(s[n]) THEN s[n + 1] \in Operators \cup {")"} ELSE Opens(s[n + 1])
    <2>1. CASE n = 1
      <3>1. 1 \in 1 .. k - 2 /\ n + 1 = 1 + 1
        BY <1>1, <2>1
      <3>2. Opens(s[n + 1])
        BY <1>3, <1>6, <3>1
      <3> QED
        BY <2>1, <3>2, TokenKinds
    <2>2. CASE n = l
      <3>1. k - 2 \in 1 .. k - 2 /\ (k - 2) + 1 = n /\ n + 1 = k
        BY <1>1, <2>2
      <3>2. Closes(s[n])
        BY <1>3, <1>6, <3>1
      <3> QED
        BY <1>2, <3>1, <3>2
    <2>3. CASE n # 1 /\ n # l
      <3> DEFINE q == n - 1
      <3>1. q \in 1 .. (k - 2) - 1 /\ q \in 1 .. k - 2 /\ q + 1 \in 1 .. k - 2 /\ q + 1 = n
        BY <1>1, <2>3
      <3> HIDE DEF q
      <3>2. v[q] = s[n] /\ v[q + 1] = s[n + 1]
        BY <1>3, <3>1
      <3> QED
        BY <1>6, <3>1, <3>2
    <2> QED
      BY <2>1, <2>2, <2>3
  <1>12. k # 0
    BY <1>1
  <1> QED
    BY <1>2, <1>8, <1>9, <1>10, <1>11, <1>12, ProperWhen

\* A primitive.
LEMMA PrimitiveProper ==
  ASSUME NEW s \in Seq(Tokens), Len(s) = 1, s[1] \in Primitives
  PROVE  Proper(s)
  <1>1. Depth(s, 0) = 0 /\ Depth(s, 0 + 1) = Depth(s, 0) + Weight(s[0 + 1])
    BY DepthStep
  <1>2. Weight(s[1]) = 0 /\ Opens(s[1]) /\ Closes(s[1])
    BY TokenKinds
  <1>3. Depth(s, 1) = 0
    BY <1>1, <1>2
  <1>4. \A n \in 1 .. 1 : n = 1
    OBVIOUS
  <1>5. \A n \in 1 .. Len(s) : Depth(s, n) >= 0
    BY <1>3, <1>4
  <1>6. \A n \in 1 .. Len(s) - 1 : FALSE
    OBVIOUS
  <1>7. Depth(s, Len(s)) = 0 /\ Closes(s[Len(s)]) /\ Len(s) # 0
    BY <1>2, <1>3
  <1> QED
    BY <1>2, <1>5, <1>6, <1>7, ProperWhen

\* The counting of parentheses and PATTERN let pass what has the form of an
\* expression, and nothing else.
LEMMA FormsAgree ==
  \A s \in Seq(Tokens) : WellFormed[s] <=> Proper(s)
  <1> DEFINE D == Seq(Tokens)
             m == [s \in D |-> Len(s)]
             W == {s \in D : ~(WellFormed[s] <=> Proper(s))}
  <1>1. SUFFICES ASSUME W # {} PROVE FALSE
    OBVIOUS
  <1>2. m \in [D -> Nat] /\ W \in SUBSET D /\ \A s \in D : m[s] = Len(s)
    OBVIOUS
  <1>3. PICK s \in W : \A r \in W : m[s] <= m[r]
    <2> HIDE DEF D, m, W
    <2> QED
      BY <1>1, <1>2, LeastMeasure
  <1>4. s \in Seq(Tokens) /\ ~(WellFormed[s] <=> Proper(s)) /\ Len(s) \in Nat
    OBVIOUS
  <1>5. ASSUME NEW r \in Seq(Tokens), Len(r) < Len(s) PROVE WellFormed[r] <=> Proper(r)
    <2>1. m[r] = Len(r) /\ m[s] = Len(s) /\ Len(r) \in Nat /\ Len(s) \in Nat
      BY <1>2
    <2>2. r \notin W
      <3> HIDE DEF m, W
      <3> QED
        BY <1>3, <1>5, <2>1
    <2> QED
      BY <2>2
  <1> HIDE DEF D, m, W
  <1>6. WellFormed[s] = FormedBy(WellFormed, s)
    BY <1>4, WellFormedIs
  <1>7. CASE TopLevel(s) # {}
    <2> DEFINE i == LastTop(s)
               u == SubSeq(s, 1, i - 1)
               v == SubSeq(s, i + 1, Len(s))
    <2>1. i \in TopLevel(s) /\ i \in 1 .. Len(s) /\ u \in Seq(Tokens) /\ Len(u) < Len(s) /\ v \in Seq(Tokens) /\ Len(v) < Len(s)
      BY <1>4, <1>7, LastSplits
    <2>2. WellFormed[s] = (WellFormed[u] /\ WellFormed[v])
      BY <1>6, <1>7 DEF FormedBy
    <2>3. s[i] \in Operators
      BY <2>1 DEF TopLevel
    <2> HIDE DEF i
    <2>4. (WellFormed[u] <=> Proper(u)) /\ (WellFormed[v] <=> Proper(v))
      BY <1>5, <2>1
    <2>5. Proper(u) /\ Proper(v) => Proper(s)
      BY <1>4, <2>1, <2>3, JoinProper
    <2>6. Proper(s) => Proper(u) /\ Proper(v)
      BY <1>4, <2>1, SplitProper
    <2> HIDE DEF u, v
    <2> QED
      BY <1>4, <2>2, <2>4, <2>5, <2>6
  <1>8. CASE TopLevel(s) = {}
    <2> DEFINE v == SubSeq(s, 2, Len(s) - 1)
               P == Len(s) = 1 /\ s[1] \in Primitives
               Q == Len(s) > 2 /\ s[1] = "(" /\ s[Len(s)] = ")"
    <2>1. WellFormed[s] = (P \/ (Q /\ WellFormed[v]))
      BY <1>6, <1>8 DEF FormedBy
    <2>2. Q => (WellFormed[v] <=> Proper(v))
      <3>1. SUFFICES ASSUME Len(s) > 2 PROVE WellFormed[v] <=> Proper(v)
        OBVIOUS
      <3>2. Len(s) > 1
        BY <1>4, <3>1
      <3>3. v \in Seq(Tokens) /\ Len(v) < Len(s)
        BY <1>4, <3>2, InnerShorter
      <3> QED
        BY <1>5, <3>3
    <2>3. P => Proper(s)
      BY <1>4, PrimitiveProper
    <2>4. Q /\ Proper(v) => Proper(s)
      BY <1>4, WrapProper
    <2>5. Proper(s) => P \/ (Q /\ Proper(v))
      BY <1>8, SingleTerm
    <2> HIDE DEF v, P, Q
    <2> QED
      BY <1>4, <2>1, <2>2, <2>3, <2>4, <2>5
  <1> QED
    BY <1>7, <1>8

-----------------------------------------------------------------------------
(***************************************************************************)
(* The loop resolves an expression to what it means.                       *)
(***************************************************************************)
\* The end of the loop returns the left term.
LEMMA ResolveEnd ==
  ASSUME NEW l \in SUBSET Rses
  PROVE  Resolve[<< <<>>, l, Nothing>>] = l
  <1>1. Trailing(<<>>)
    <2>1. <<>> \in Seq(Tokens) /\ Len(<<>>) = 0
      OBVIOUS
    <2>2. Depth(<<>>, 0) = 0
      BY DepthStep
    <2>3. Balanced(<<>>)
      BY <2>1, <2>2, DepthTells
    <2> QED
      BY <2>1, <2>3 DEF Trailing
  <1>2. << <<>>, l, Nothing>> \in Pending
    BY <1>1, PendingForms
  <1> DEFINE x == << <<>>, l, Nothing>>
  <1> HIDE DEF x
  <1>3. Resolve[x] = ResolvedBy(Resolve, x)
    BY <1>2, ResolveIs DEF x
  <1>4. ResolvedBy(Resolve, x) = l
    BY ResolvedEnd DEF x
  <1> QED
    BY <1>3, <1>4 DEF x

\* An operator is kept for the term that follows.
LEMMA ResolveOperator ==
  ASSUME NEW s, Trailing(s), s # <<>>, NEW l \in SUBSET Rses
  PROVE  Resolve[<<s, l, Nothing>>] = Resolve[<<Tail(s), l, s[1]>>]
  <1>1. <<s, l, Nothing>> \in Pending
    BY PendingForms
  <1> DEFINE x == <<s, l, Nothing>>
  <1>2. ResolvedBy(Resolve, x) = Resolve[<<Tail(s), l, s[1]>>]
    BY ResolvedOperator, Zenon
  <1> HIDE DEF x
  <1>3. Resolve[x] = ResolvedBy(Resolve, x)
    BY <1>1, ResolveIs DEF x
  <1> QED
    BY <1>2, <1>3, Zenon DEF x

\* A primitive becomes part of the left term.
LEMMA ResolvePrimitive ==
  ASSUME NEW s, Proper(s), NEW l, NEW op, Before(l, op), s[1] \in Primitives
  PROVE  Resolve[<<s, l, op>>] = Resolve[<<SubSeq(s, 2, Len(s)), Combine(op, l, Matching[s[1]]), Nothing>>]
  <1>1. <<s, l, op>> \in Pending
    BY PendingForms
  <1> DEFINE x == <<s, l, op>>
  <1>2. ResolvedBy(Resolve, x) = Resolve[<<SubSeq(s, 2, Len(s)), Combine(op, l, Matching[s[1]]), Nothing>>]
    BY ResolvedPrimitive, Zenon
  <1> HIDE DEF x
  <1>3. Resolve[x] = ResolvedBy(Resolve, x)
    BY <1>1, ResolveIs DEF x
  <1> QED
    BY <1>2, <1>3, Zenon DEF x

\* A group is resolved on its own, and becomes part of the left term.
LEMMA ResolveGroup ==
  ASSUME NEW s, Proper(s), NEW l, NEW op, Before(l, op), s[1] = "("
  PROVE  Resolve[<<s, l, op>>] =
           Resolve[<<SubSeq(s, Len(ExtractTerm(s)) + 3, Len(s)),
                     Combine(op, l, Resolve[<<ExtractTerm(s), Nothing, Nothing>>]), Nothing>>]
  <1>1. <<s, l, op>> \in Pending
    BY PendingForms
  <1> DEFINE x == <<s, l, op>>
  <1>2. ResolvedBy(Resolve, x) =
           Resolve[<<SubSeq(s, Len(ExtractTerm(s)) + 3, Len(s)),
                     Combine(op, l, Resolve[<<ExtractTerm(s), Nothing, Nothing>>]), Nothing>>]
    BY ResolvedGroup, Zenon
  <1> HIDE DEF x
  <1>3. Resolve[x] = ResolvedBy(Resolve, x)
    BY <1>1, ResolveIs DEF x
  <1> QED
    BY <1>2, <1>3, Zenon DEF x

\* The positions at which a term ends outside of all parentheses.
Stops(s) == {k \in 1 .. Len(s) : Closes(s[k]) /\ Depth(s, k) = 0}

\* Up to position k the loop has found what the expression up to there means.
Agrees(s, k) ==
  /\ Denotes[SubSeq(s, 1, k)] \in SUBSET Rses
  /\ Resolve[<<s, Nothing, Nothing>>] = Resolve[<<SubSeq(s, k + 1, Len(s)), Denotes[SubSeq(s, 1, k)], Nothing>>]

\* The same up to all positions before j, in all expressions.
AgreesBefore(j) == \A s \in Seq(Tokens) : \A k \in Stops(s) : Proper(s) /\ k < j => Agrees(s, k)

\* What stands up to such a position passes.
LEMMA PrefixProper ==
  ASSUME NEW s, Proper(s), NEW k \in Stops(s)
  PROVE  /\ k \in 1 .. Len(s) /\ k \in Nat /\ Len(s) \in Nat
         /\ Proper(SubSeq(s, 1, k)) /\ Len(SubSeq(s, 1, k)) = k /\ \A n \in 1 .. k : SubSeq(s, 1, k)[n] = s[n]
         /\ \A n \in 0 .. k : Depth(SubSeq(s, 1, k), n) = Depth(s, n)
         /\ Trailing(SubSeq(s, k + 1, Len(s)))
  <1>1. s \in Seq(Tokens) /\ FitsPattern(s) /\ Len(s) \in Nat /\ Len(s) # 0
    BY ProperFacts DEF Proper
  <1>2. /\ k \in 1 .. Len(s) /\ k \in Nat /\ Closes(s[k]) /\ Depth(s, k) = 0
        /\ 1 \in 1 .. Len(s) + 1 /\ 1 \in 1 .. Len(s) /\ k \in 1 - 1 .. Len(s) /\ 1 - 1 = 0 /\ k - 1 + 1 = k
    BY <1>1 DEF Stops
  <1>3. Depth(s, 0) = 0 /\ Opens(s[1]) /\ \A n \in 0 .. Len(s) : Depth(s, n) \in Nat
    BY ProperFacts
  <1>4. SubSeq(s, 1, k) \in Seq(Tokens) /\ Len(SubSeq(s, 1, k)) = k /\ \A n \in 1 .. k : SubSeq(s, 1, k)[n] = s[n]
    <2>1. /\ SubSeq(s, 1, k) \in Seq(Tokens) /\ Len(SubSeq(s, 1, k)) = k - 1 + 1
          /\ \A n \in 1 .. k - 1 + 1 : SubSeq(s, 1, k)[n] = s[1 + n - 1]
      BY <1>1, <1>2, Cut
    <2>2. \A n \in 1 .. k : 1 + n - 1 = n
      OBVIOUS
    <2> QED
      BY <1>2, <2>1, <2>2
  <1>5. \A n \in 1 .. k : Depth(s, n) >= 0
    <2>1. \A n \in 1 .. k : n \in 0 .. Len(s)
      BY <1>2
    <2> QED
      BY <1>3, <2>1
  <1>6. Balanced(SubSeq(s, 1, k))
    BY <1>1, <1>2, <1>3, <1>5, BalancedCut
  <1>7. FitsPattern(SubSeq(s, 1, k))
    BY <1>1, <1>2, <1>3, FitsCut
  <1>8. ASSUME NEW n \in 0 .. k PROVE Depth(SubSeq(s, 1, k), n) = Depth(s, n)
    <2>1. n \in 0 .. k - 1 + 1 /\ 1 + n - 1 = n /\ n \in 0 .. Len(s)
      BY <1>2
    <2>2. Depth(SubSeq(s, 1, k), n) = Depth(s, 1 + n - 1) - Depth(s, 1 - 1)
      BY <1>1, <1>2, <2>1, DepthCut
    <2> QED
      BY <1>2, <1>3, <2>1, <2>2
  <1>9. Trailing(SubSeq(s, k + 1, Len(s)))
    BY <1>2, TermTrails
  <1> QED
    BY <1>1, <1>2, <1>4, <1>6, <1>7, <1>8, <1>9 DEF Proper

\* At its end, the loop has found what the whole expression means.
LEMMA AgreesWhole ==
  ASSUME NEW s, Proper(s)
  PROVE  /\ Len(s) \in Stops(s)
         /\ Agrees(s, Len(s)) => Denotes[s] \in SUBSET Rses /\ Resolve[<<s, Nothing, Nothing>>] = Denotes[s]
  <1>1. s \in Seq(Tokens) /\ Len(s) \in Nat /\ Len(s) # 0 /\ Closes(s[Len(s)]) /\ Depth(s, Len(s)) = 0
    BY ProperFacts DEF Proper
  <1>2. Len(s) \in Stops(s)
    BY <1>1 DEF Stops
  <1>3. SubSeq(s, 1, Len(s)) = s /\ SubSeq(s, Len(s) + 1, Len(s)) = <<>>
    BY <1>1
  <1>4. ASSUME Agrees(s, Len(s)) PROVE Denotes[s] \in SUBSET Rses /\ Resolve[<<s, Nothing, Nothing>>] = Denotes[s]
    <2>1. Denotes[s] \in SUBSET Rses /\ Resolve[<<s, Nothing, Nothing>>] = Resolve[<< <<>>, Denotes[s], Nothing>>]
      BY <1>3, <1>4 DEF Agrees
    <2> DEFINE d0 == Denotes[s]
    <2> HIDE DEF d0
    <2>2. Resolve[<< <<>>, d0, Nothing>>] = d0
      BY <2>1, ResolveEnd DEF d0
    <2> QED
      BY <2>1, <2>2 DEF d0
  <1> QED
    BY <1>2, <1>4

\* The loop at a term: a primitive, or a group that is resolved on its own.
LEMMA TermStep ==
  ASSUME NEW w, Proper(w), NEW j \in Stops(w), TopLevel(SubSeq(w, 1, j)) = {}, AgreesBefore(j), NEW l, NEW op, Before(l, op)
  PROVE  /\ Denotes[SubSeq(w, 1, j)] \in SUBSET Rses
         /\ Resolve[<<w, l, op>>] = Resolve[<<SubSeq(w, j + 1, Len(w)), Combine(op, l, Denotes[SubSeq(w, 1, j)]), Nothing>>]
  <1> DEFINE v == SubSeq(w, 1, j)
  <1>1. /\ j \in 1 .. Len(w) /\ j \in Nat /\ Len(w) \in Nat /\ Proper(v) /\ Len(v) = j
        /\ \A n \in 1 .. j : v[n] = w[n]
        /\ \A n \in 0 .. j : Depth(v, n) = Depth(w, n)
    BY PrefixProper
  <1>2. v \in Seq(Tokens) /\ w \in Seq(Tokens) /\ 1 \in 1 .. j /\ j \in 1 .. j /\ j > 0
    BY <1>1 DEF Proper
  <1>3. TopLevel(v) = {}
    OBVIOUS
  <1> HIDE DEF v
  <1>4. Denotes[v] = DenotedBy(Denotes, v)
    BY <1>2, DenotesIs
  <1>5. CASE Len(v) = 1 /\ v[1] \in Primitives
    <2>1. Denotes[v] = Matching[v[1]] /\ v[1] = w[1] /\ j = 1
      BY <1>1, <1>2, <1>3, <1>4, <1>5 DEF DenotedBy
    <2>2. Matching[v[1]] \in SUBSET Rses
      BY <1>5, ExpressionAssumption DEF Primitives
    <2>3. w[1] \in Primitives /\ j + 1 = 2
      BY <1>5, <2>1
    <2>4. Resolve[<<w, l, op>>] = Resolve[<<SubSeq(w, 2, Len(w)), Combine(op, l, Matching[w[1]]), Nothing>>]
      BY <2>3, ResolvePrimitive
    <2> QED
      BY <2>1, <2>2, <2>3, <2>4 DEF v
  <1>6. CASE /\ Len(v) > 2 /\ v[1] = "(" /\ v[Len(v)] = ")" /\ Proper(SubSeq(v, 2, Len(v) - 1))
             /\ \A n \in 1 .. Len(v) - 1 : Depth(v, n) > 0
    <2>1. w[1] = "("
      BY <1>1, <1>2, <1>6
    <2> DEFINE e == ExtractTerm(w)
    <2>2. PICK i \in 1 .. Len(w) :
             /\ e = SubSeq(w, 2, i - 1) /\ Len(e) = i - 2 /\ Proper(e)
             /\ Depth(w, i) = 0 /\ \A n \in 1 .. i - 1 : Depth(w, n) > 0
      BY <2>1, GroupExtracted
    <2>3. i = j
      <3>1. ~(i < j)
        <4>1. SUFFICES ASSUME i < j PROVE FALSE
          OBVIOUS
        <4>2. i \in 1 .. Len(v) - 1 /\ i \in 0 .. j
          BY <1>1, <4>1
        <4>3. Depth(v, i) > 0 /\ Depth(v, i) = Depth(w, i)
          BY <1>1, <1>6, <4>2
        <4> QED
          BY <2>2, <4>3
      <3>2. ~(j < i)
        <4>1. SUFFICES ASSUME j < i PROVE FALSE
          OBVIOUS
        <4>2. j \in 1 .. i - 1
          BY <1>1, <4>1
        <4>3. Depth(w, j) = 0
          BY DEF Stops
        <4> QED
          BY <2>2, <4>2, <4>3
      <3> QED
        BY <1>1, <3>1, <3>2
    <2>4. e = SubSeq(v, 2, Len(v) - 1)
      <3> DEFINE b == j - 1
      <3>1. /\ 1 \in 1 .. Len(w) + 1 /\ j \in 1 - 1 .. Len(w) /\ 2 \in 1 .. j - 1 + 2 /\ b \in 2 - 1 .. j - 1 + 1
            /\ 1 + 2 - 1 = 2 /\ 1 + b - 1 = b
        BY <1>1, <1>6
      <3> HIDE DEF b
      <3>2. SubSeq(SubSeq(w, 1, j), 2, b) = SubSeq(w, 1 + 2 - 1, 1 + b - 1)
        BY <1>2, <3>1, CutCut
      <3> QED
        BY <1>1, <2>2, <2>3, <3>1, <3>2 DEF v, b
    <2>5. Denotes[v] = Denotes[e]
      <3>1. ~(Len(v) <= 1)
        BY <1>1, <1>6
      <3> QED
        BY <1>3, <1>4, <2>4, <3>1 DEF DenotedBy
    <2> HIDE DEF e
    <2>6. Denotes[e] \in SUBSET Rses /\ Resolve[<<e, Nothing, Nothing>>] = Denotes[e]
      <3>1. Len(e) < j /\ e \in Seq(Tokens)
        BY <1>1, <2>2, <2>3 DEF Proper
      <3>2. Len(e) \in Stops(e)
        BY <2>2, AgreesWhole
      <3>3. Agrees(e, Len(e))
        BY <2>2, <3>1, <3>2 DEF AgreesBefore
      <3> QED
        BY <2>2, <3>3, AgreesWhole
    <2>7. Resolve[<<w, l, op>>] = Resolve[<<SubSeq(w, Len(e) + 3, Len(w)), Combine(op, l, Resolve[<<e, Nothing, Nothing>>]), Nothing>>]
      BY <2>1, ResolveGroup DEF e
    <2>8. Len(e) + 3 = j + 1
      BY <1>1, <2>2, <2>3
    <2> QED
      BY <2>5, <2>6, <2>7, <2>8 DEF v
  <1> QED
    BY <1>1, <1>3, <1>5, <1>6, SingleTerm

\* One more operator and one more term.
LEMMA OperatorStep ==
  ASSUME NEW s, Proper(s), NEW k \in Stops(s), TopLevel(SubSeq(s, 1, k)) # {}, AgreesBefore(k)
  PROVE  Agrees(s, k)
  <1> DEFINE t == SubSeq(s, 1, k)
             i == LastTop(t)
             p == i - 1
             j == i + 1
             n0 == k - i
             m0 == Len(s)
             u == SubSeq(s, 1, p)
             r == SubSeq(s, i, m0)
             w == SubSeq(s, j, m0)
             v == SubSeq(s, j, k)
  <1>1. /\ k \in 1 .. Len(s) /\ k \in Nat /\ Len(s) \in Nat /\ Proper(t) /\ Len(t) = k
        /\ \A n \in 1 .. k : t[n] = s[n]
        /\ \A n \in 0 .. k : Depth(t, n) = Depth(s, n)
    BY PrefixProper
  <1>2. s \in Seq(Tokens) /\ t \in Seq(Tokens) /\ Closes(s[k]) /\ Depth(s, k) = 0
    BY <1>1 DEF Proper, Stops
  <1>3. i \in TopLevel(t) /\ \A n \in TopLevel(t) : n <= i
    BY <1>2, LastSplits
  <1> HIDE DEF i
  <1>4. /\ i \in 1 .. Len(t) /\ i - 1 \in 1 .. Len(t) /\ i + 1 \in 1 .. Len(t)
        /\ t[i] \in Operators /\ Depth(t, i) = 0 /\ Depth(t, i - 1) = 0 /\ Closes(t[i - 1])
    BY <1>1, <1>3, AroundOperator
  <1>5. /\ i \in 1 .. k /\ p \in 1 .. k /\ j \in 1 .. k /\ p + 1 = i /\ p \in 0 .. k /\ i \in 0 .. k /\ p < k
        /\ p \in 1 .. Len(s) /\ i \in 1 .. Len(s) /\ j \in 1 .. Len(s) /\ k = n0 + i /\ i \in Nat /\ p \in Nat /\ j \in Nat
        /\ n0 \in Nat /\ n0 >= 1 /\ m0 \in Nat /\ n0 < k /\ k <= m0 /\ j = i + 1 /\ j - 1 = i
    BY <1>1, <1>4
  <1>6. s[i] = t[i] /\ s[i] \in Operators /\ Closes(s[p]) /\ Depth(s, p) = 0 /\ Depth(s, i) = 0
    BY <1>1, <1>4, <1>5
  <1>7. p \in Stops(s)
    BY <1>5, <1>6 DEF Stops
  <1>8. Agrees(s, p)
    BY <1>2, <1>5, <1>7 DEF AgreesBefore
  <1>9. Denotes[u] \in SUBSET Rses /\ Resolve[<<s, Nothing, Nothing>>] = Resolve[<<r, Denotes[u], Nothing>>]
    BY <1>5, <1>8 DEF Agrees
  <1>10. Trailing(r)
    BY <1>5, <1>7, PrefixProper
  <1> HIDE DEF t, p, j, n0, m0
  <1>11. Len(r) = m0 - i + 1 /\ r \in Seq(Tokens) /\ r[1] = s[i]
    <2>1. i \in 1 .. Len(s) + 1 /\ m0 \in i - 1 .. Len(s) /\ 1 \in 1 .. m0 - i + 1 /\ i + 1 - 1 = i
      BY <1>5 DEF m0
    <2>2. r \in Seq(Tokens) /\ Len(r) = m0 - i + 1 /\ \A n \in 1 .. m0 - i + 1 : r[n] = s[i + n - 1]
      BY <1>2, <2>1, Cut
    <2> QED
      BY <2>1, <2>2
  <1>12. Tail(r) = w
    <2> DEFINE q == Len(r)
    <2>1. i \in 1 .. Len(s) + 1 /\ m0 \in i - 1 .. Len(s) /\ 2 \in 1 .. m0 - i + 2 /\ q \in 2 - 1 .. m0 - i + 1
          /\ i + 2 - 1 = j /\ i + q - 1 = m0
      BY <1>5, <1>11 DEF m0
    <2>2. Tail(r) = SubSeq(r, 2, Len(r))
      BY <1>11
    <2> HIDE DEF q
    <2>3. SubSeq(SubSeq(s, i, m0), 2, q) = SubSeq(s, i + 2 - 1, i + q - 1)
      BY <1>2, <2>1, CutCut
    <2> QED
      BY <2>1, <2>2, <2>3 DEF q
  <1>13. r # <<>>
    BY <1>5, <1>11
  <1> HIDE DEF r, u
  <1>14. Proper(w)
    BY <1>10, <1>12, <1>13, TrailingTail
  <1>15. Resolve[<<s, Nothing, Nothing>>] = Resolve[<<w, Denotes[u], s[i]>>]
    <2> DEFINE l0 == Denotes[u]
    <2>1. l0 \in SUBSET Rses
      BY <1>9
    <2> HIDE DEF l0
    <2>2. Resolve[<<r, l0, Nothing>>] = Resolve[<<Tail(r), l0, r[1]>>]
      BY <1>10, <1>13, <2>1, ResolveOperator
    <2> QED
      BY <1>9, <1>11, <1>12, <2>2 DEF l0
  <1>16. /\ w \in Seq(Tokens) /\ Len(w) = m0 - i /\ w[n0] = s[k] /\ n0 \in 1 .. Len(w) /\ SubSeq(w, 1, n0) = v
         /\ SubSeq(w, n0 + 1, Len(w)) = SubSeq(s, k + 1, m0) /\ Depth(w, n0) = 0
    <2>1. j \in 1 .. Len(s) + 1 /\ m0 \in j - 1 .. Len(s) /\ m0 - j + 1 = m0 - i
          /\ n0 \in 1 .. m0 - j + 1 /\ j + n0 - 1 = k /\ n0 \in 0 .. m0 - j + 1
      BY <1>5 DEF m0
    <2>2. w \in Seq(Tokens) /\ Len(w) = m0 - j + 1 /\ \A n \in 1 .. m0 - j + 1 : w[n] = s[j + n - 1]
      BY <1>2, <2>1, Cut
    <2>3. w[n0] = s[k] /\ Len(w) = m0 - i /\ n0 \in 1 .. Len(w)
      BY <2>1, <2>2
    <2>4. SubSeq(w, 1, n0) = v
      <3>1. 1 \in 1 .. m0 - j + 2 /\ n0 \in 1 - 1 .. m0 - j + 1 /\ j + 1 - 1 = j
        BY <1>5, <2>1
      <3>2. SubSeq(SubSeq(s, j, m0), 1, n0) = SubSeq(s, j + 1 - 1, j + n0 - 1)
        BY <1>2, <2>1, <3>1, CutCut
      <3> QED
        BY <2>1, <3>1, <3>2
    <2>5. SubSeq(w, n0 + 1, Len(w)) = SubSeq(s, k + 1, m0)
      <3> DEFINE a0 == n0 + 1
                 b0 == Len(w)
      <3>1. a0 \in 1 .. m0 - j + 2 /\ b0 \in a0 - 1 .. m0 - j + 1 /\ j + a0 - 1 = k + 1 /\ j + b0 - 1 = m0
        BY <1>5, <2>1, <2>2
      <3> HIDE DEF a0, b0
      <3>2. SubSeq(SubSeq(s, j, m0), a0, b0) = SubSeq(s, j + a0 - 1, j + b0 - 1)
        BY <1>2, <2>1, <3>1, CutCut
      <3> QED
        BY <3>1, <3>2 DEF a0, b0
    <2>6. Depth(w, n0) = 0
      <3>1. Depth(w, n0) = Depth(s, j + n0 - 1) - Depth(s, j - 1)
        BY <1>2, <2>1, DepthCut
      <3> QED
        BY <1>2, <1>5, <1>6, <2>1, <3>1
    <2> QED
      BY <2>2, <2>3, <2>4, <2>5, <2>6
  <1> HIDE DEF w
  <1>17. n0 \in Stops(w)
    BY <1>2, <1>16 DEF Stops
  <1>18. Proper(v) /\ Len(v) = n0
    BY <1>14, <1>16, <1>17, PrefixProper
  <1>19. v = SubSeq(t, i + 1, Len(t)) /\ u = SubSeq(t, 1, i - 1)
    <2>1. 1 \in 1 .. Len(s) + 1 /\ k \in 1 - 1 .. Len(s)
      BY <1>1
    <2>2. v = SubSeq(t, j, k)
      <3>1. j \in 1 .. k - 1 + 2 /\ k \in j - 1 .. k - 1 + 1 /\ 1 + j - 1 = j /\ 1 + k - 1 = k
        BY <1>1, <1>5
      <3>2. SubSeq(SubSeq(s, 1, k), j, k) = SubSeq(s, 1 + j - 1, 1 + k - 1)
        BY <1>2, <2>1, <3>1, CutCut
      <3> QED
        BY <3>1, <3>2 DEF t
    <2>3. u = SubSeq(t, 1, p)
      <3>1. 1 \in 1 .. k - 1 + 2 /\ p \in 1 - 1 .. k - 1 + 1 /\ 1 + 1 - 1 = 1 /\ 1 + p - 1 = p
        BY <1>1, <1>5
      <3>2. SubSeq(SubSeq(s, 1, k), 1, p) = SubSeq(s, 1 + 1 - 1, 1 + p - 1)
        BY <1>2, <2>1, <3>1, CutCut
      <3> QED
        BY <3>1, <3>2 DEF t, u
    <2> QED
      BY <1>1, <1>5, <2>2, <2>3 DEF p, j
  <1>20. TopLevel(v) = {}
    <2>1. SUFFICES ASSUME NEW n \in TopLevel(v) PROVE FALSE
      OBVIOUS
    <2>2. n \in 1 .. n0 /\ v[n] \in Operators /\ Depth(v, n) = 0
      BY <1>18, AroundOperator
    <2>3. j \in 1 .. Len(s) + 1 /\ k \in j - 1 .. Len(s) /\ n \in 1 .. k - j + 1 /\ n \in 0 .. k - j + 1 /\ j + n - 1 = i + n
          /\ i + n \in 1 .. k /\ i + n \in 0 .. k /\ ~(i + n <= i)
      BY <1>1, <1>5, <2>2
    <2>4. v[n] = s[i + n]
      <3>1. v[n] = s[j + n - 1]
        BY <1>2, <2>3, Cut
      <3> QED
        BY <2>3, <3>1
    <2>5. Depth(s, i + n) = 0
      <3>1. Depth(v, n) = Depth(s, j + n - 1) - Depth(s, j - 1)
        BY <1>2, <2>3, DepthCut
      <3>2. Depth(s, i + n) \in Int
        BY <2>3, DepthStep
      <3> QED
        BY <1>5, <1>6, <2>2, <2>3, <3>1, <3>2
    <2>6. t[i + n] \in Operators /\ Depth(t, i + n) = 0 /\ i + n \in 1 .. Len(t)
      BY <1>1, <2>2, <2>3, <2>4, <2>5
    <2>7. i + n \in TopLevel(t)
      BY <1>1, <2>6, ProperFacts
    <2> QED
      BY <1>3, <2>3, <2>7
  <1> HIDE DEF v
  <1>21. AgreesBefore(n0)
    <2>1. ASSUME NEW z \in Seq(Tokens), NEW y \in Stops(z), Proper(z), y < n0 PROVE Agrees(z, y)
      <3>1. y \in Nat
        BY <2>1, PrefixProper
      <3>2. y < k
        BY <1>5, <2>1, <3>1
      <3> QED
        BY <2>1, <3>2 DEF AgreesBefore
    <2> QED
      BY <2>1 DEF AgreesBefore
  <1>22. /\ Denotes[v] \in SUBSET Rses
         /\ Resolve[<<w, Denotes[u], s[i]>>] = Resolve[<<SubSeq(s, k + 1, m0), Combine(s[i], Denotes[u], Denotes[v]), Nothing>>]
    <2> DEFINE l0 == Denotes[u]
               q0 == s[i]
    <2>1. Before(l0, q0)
      BY <1>6, <1>9 DEF Before
    <2> HIDE DEF l0, q0
    <2>2. TopLevel(SubSeq(w, 1, n0)) = {}
      BY <1>16, <1>20
    <2>3. /\ Denotes[SubSeq(w, 1, n0)] \in SUBSET Rses
          /\ Resolve[<<w, l0, q0>>] = Resolve[<<SubSeq(w, n0 + 1, Len(w)), Combine(q0, l0, Denotes[SubSeq(w, 1, n0)]), Nothing>>]
      BY <1>14, <1>17, <1>21, <2>1, <2>2, TermStep
    <2> QED
      BY <1>16, <2>3 DEF l0, q0
  <1>23. Denotes[t] = Apply(s[i], Denotes[u], Denotes[v])
    <2>1. Denotes[t] = DenotedBy(Denotes, t)
      BY <1>2, DenotesIs
    <2>2. TopLevel(t) # {} /\ LastTop(t) = i
      BY DEF i, t
    <2>3. DenotedBy(Denotes, t) = Apply(t[i], Denotes[SubSeq(t, 1, i - 1)], Denotes[SubSeq(t, i + 1, Len(t))])
      BY <2>2, Zenon DEF DenotedBy
    <2> QED
      BY <1>6, <1>19, <2>1, <2>3
  <1>24. Combine(s[i], Denotes[u], Denotes[v]) = Denotes[t]
    <2>1. Denotes[u] # Nothing
      BY <1>9, ExpressionAssumption
    <2> QED
      BY <1>23, <2>1 DEF Combine
  <1>25. Denotes[t] \in SUBSET Rses
    <2>1. Before(Denotes[u], s[i])
      BY <1>6, <1>9 DEF Before
    <2> DEFINE l0 == Denotes[u]
               q0 == s[i]
               r0 == Denotes[v]
    <2>2. Before(l0, q0) /\ r0 \in SUBSET Rses /\ Combine(q0, l0, r0) = Denotes[t]
      BY <1>22, <1>24, <2>1
    <2> HIDE DEF l0, q0, r0
    <2> QED
      BY <2>2, CombineTyped
  <1> QED
    BY <1>15, <1>22, <1>24, <1>25 DEF Agrees, t, m0

\* The loop has always found what the expression up to there means.
LEMMA LoopAgrees ==
  ASSUME NEW s, Proper(s), NEW k \in Stops(s)
  PROVE  Agrees(s, k)
  <1> DEFINE T == {n \in Nat : \E z \in Seq(Tokens) : Proper(z) /\ n \in Stops(z) /\ ~Agrees(z, n)}
  <1>1. SUFFICES ASSUME ~Agrees(s, k) PROVE FALSE
    OBVIOUS
  <1>2. k \in T /\ T \in SUBSET Nat
    <2>1. k \in Nat /\ s \in Seq(Tokens)
      BY PrefixProper DEF Proper
    <2> QED
      BY <1>1, <2>1
  <1>3. PICK n \in T : \A y \in T : n <= y
    <2> HIDE DEF T
    <2> QED
      BY <1>2, LeastNumber
  <1>4. PICK z \in Seq(Tokens) : Proper(z) /\ n \in Stops(z) /\ ~Agrees(z, n)
    OBVIOUS
  <1>5. AgreesBefore(n)
    <2>1. ASSUME NEW x \in Seq(Tokens), NEW y \in Stops(x), Proper(x), y < n PROVE Agrees(x, y)
      <3>1. y \in Nat /\ n \in Nat
        BY <2>1, PrefixProper
      <3>2. y \notin T
        <4> HIDE DEF T
        <4> QED
          BY <1>3, <2>1, <3>1
      <3> QED
        BY <2>1, <3>1, <3>2
    <2> QED
      BY <2>1 DEF AgreesBefore
  <1> HIDE DEF T
  <1>6. CASE TopLevel(SubSeq(z, 1, n)) # {}
    BY <1>4, <1>5, <1>6, OperatorStep
  <1>7. CASE TopLevel(SubSeq(z, 1, n)) = {}
    <2>1. Before(Nothing, Nothing)
      BY DEF Before
    <2>2. /\ Denotes[SubSeq(z, 1, n)] \in SUBSET Rses
          /\ Resolve[<<z, Nothing, Nothing>>] =
               Resolve[<<SubSeq(z, n + 1, Len(z)), Combine(Nothing, Nothing, Denotes[SubSeq(z, 1, n)]), Nothing>>]
      BY <1>4, <1>5, <1>7, <2>1, TermStep
    <2>3. Combine(Nothing, Nothing, Denotes[SubSeq(z, 1, n)]) = Denotes[SubSeq(z, 1, n)]
      BY DEF Combine
    <2>4. Agrees(z, n)
      BY <2>2, <2>3 DEF Agrees
    <2> QED
      BY <1>4, <2>4
  <1> QED
    BY <1>6, <1>7

\* The value of an expression that passes.
LEMMA ResolvesToMeaning ==
  ASSUME NEW s, Proper(s)
  PROVE  Resolve[<<s, Nothing, Nothing>>] = Denotes[s] /\ Denotes[s] \in SUBSET Rses
  <1>1. Len(s) \in Stops(s)
    BY AgreesWhole
  <1>2. Agrees(s, Len(s))
    BY <1>1, LoopAgrees
  <1> QED
    BY <1>2, AgreesWhole

\* The parser decides form and meaning: parse_expression raises
\* InvalidRSEExpression exactly when the expression is not well-formed or matches
\* no RSE, and otherwise returns the RSEs that it means.
LEMMA ParserRight ==
  ASSUME NEW s \in Seq(Tokens)
  PROVE  /\ ParseExpression(s, FALSE) = IF WellFormed[s] /\ Denotes[s] # {} THEN Denotes[s] ELSE Invalid
         /\ ParseExpression(s, FALSE) \in (SUBSET Rses) \cup {Invalid}
  <1>1. WellFormed[s] <=> Proper(s)
    BY FormsAgree
  <1>2. CASE Proper(s)
    <2>1. Balanced(s) /\ FitsPattern(s)
      BY <1>2 DEF Proper
    <2>2. Resolve[<<s, Nothing, Nothing>>] = Denotes[s] /\ Denotes[s] \in SUBSET Rses
      BY <1>2, ResolvesToMeaning
    <2>3. ParseExpression(s, FALSE) = IF Denotes[s] = {} THEN Invalid ELSE Denotes[s]
      BY <2>1, <2>2 DEF ParseExpression
    <2> QED
      BY <1>1, <1>2, <2>2, <2>3
  <1>3. CASE ~Proper(s)
    <2>1. ~Balanced(s) \/ ~FitsPattern(s)
      BY <1>3 DEF Proper
    <2>2. ParseExpression(s, FALSE) = Invalid
      BY <2>1 DEF ParseExpression
    <2> QED
      BY <1>1, <1>3, <2>2
  <1> QED
    BY <1>2, <1>3

-----------------------------------------------------------------------------
(***************************************************************************)
(* The option multihop_rse_expression, and the types of the topology.      *)
(***************************************************************************)
\* The option is a sequence of tokens, and nodes and links are RSEs that the
\* topology knows; nothing is linked before the distances are there.
NodesInv ==
  /\ option \in Seq(Tokens) /\ Len(option) <= MaxTokens
  /\ multihop \subseteq nodes /\ nodes \subseteq Rses
  /\ linked \subseteq nodes \X nodes
  /\ left.at # "run" => linked = {}

\* A load links RSEs that the topology knows.
LEMMA LoadLinks ==
  ASSUME linked \subseteq nodes \X nodes, nodes \subseteq nodes', LoadEdges
  PROVE  linked' \subseteq nodes' \X nodes'
  <1> DEFINE there == {p \in Pairs : p \in nodes' \X nodes' /\ db[p] # NoDistance}
             known == {p \in Pairs : edges[p] # NoDistance}
  <1>1. linked' = (linked \cup (there \ known)) \ (known \ there)
    BY DEF LoadEdges
  <1>2. there \subseteq nodes' \X nodes' /\ nodes \X nodes \subseteq nodes' \X nodes'
    OBVIOUS
  <1> HIDE DEF there, known
  <1> QED
    BY <1>1, <1>2

\* Every step keeps the nodes and the option typed.
LEMMA NodesStep ==
  ASSUME EdgesInv, NodesInv, [Next]_vars
  PROVE  NodesInv'
  <1>0. /\ option \in Seq(Tokens) /\ Len(option) <= MaxTokens /\ multihop \subseteq nodes /\ nodes \subseteq Rses
        /\ linked \subseteq nodes \X nodes /\ (left.at # "run" => linked = {}) /\ left \in Plans
    BY DEF NodesInv, EdgesInv, GraphTyped
  <1>1. ASSUME NEW t \in Tokens, Type(t) PROVE NodesInv'
    <2>1. /\ left.at = "options" /\ Len(option) < MaxTokens /\ option' = Append(option, t)
          /\ UNCHANGED <<left, nodes, linked, multihop>>
      BY <1>1 DEF Type, graph
    <2>2. option' \in Seq(Tokens) /\ Len(option') <= MaxTokens
      BY <1>0, <2>1, TopologyAssumption
    <2> QED
      BY <1>0, <2>1, <2>2 DEF NodesInv
  <1>2. CASE ConfigureMultihop
    <2> DEFINE parsed == ParseExpression(option, FALSE)
               found == IF parsed = Invalid THEN {} ELSE parsed
    <2>1. /\ left.at = "options" /\ multihop' = found \cap Readable \cap Writable /\ nodes' = found
          /\ option' = <<>> /\ left' = [at |-> "distances"] /\ UNCHANGED linked
      BY <1>2 DEF ConfigureMultihop
    <2>2. parsed \in (SUBSET Rses) \cup {Invalid}
      BY <1>0, ParserRight
    <2> HIDE DEF parsed
    <2>3. found \subseteq Rses
      BY <2>2
    <2> HIDE DEF found
    <2>4. linked' = {}
      BY <1>0, <2>1
    <2>5. option' \in Seq(Tokens) /\ Len(option') <= MaxTokens
      BY <2>1, TopologyAssumption
    <2> QED
      BY <2>1, <2>3, <2>4, <2>5 DEF NodesInv
  <1>3. ASSUME NEW s \in Starts, Begin(s) PROVE NodesInv'
    <2>1. left'.at = "run" /\ UNCHANGED <<option, nodes, linked, multihop>>
      BY <1>3 DEF Begin, graph
    <2> QED
      BY <1>0, <2>1 DEF NodesInv
  <1>4. ASSUME NEW p \in Changeable, NEW v \in Distances \cup {NoDistance}, SetDistance(p, v) PROVE NodesInv'
    <2>1. left'.at = "run" /\ UNCHANGED <<option, nodes, linked, multihop>>
      BY <1>0, <1>4, PlanStep DEF SetDistance
    <2> QED
      BY <1>0, <2>1 DEF NodesInv
  <1>5. ASSUME NEW r \in Rses, OtherThread(r) PROVE NodesInv'
    <2>1. left'.at = "run" /\ nodes' = nodes \cup {r} /\ LoadEdges /\ UNCHANGED <<option, multihop>>
      BY <1>0, <1>5, PlanStep DEF OtherThread
    <2>2. linked' \subseteq nodes' \X nodes'
      BY <1>0, <2>1, LoadLinks
    <2> QED
      BY <1>0, <2>1, <2>2 DEF NodesInv
  <1>6. ASSUME NEW q \in Requests, Reject(q) PROVE NodesInv'
    <2>1. left'.at = "run" /\ nodes' = nodes \cup q.sources \cup {q.dst} /\ UNCHANGED <<option, linked, multihop>>
      BY <1>0, <1>6, PlanStep DEF Reject
    <2>2. nodes' \subseteq Rses /\ nodes \subseteq nodes'
      BY <1>0, <2>1, TopologyAssumption
    <2>3. linked' \subseteq nodes' \X nodes'
      BY <1>0, <2>1, <2>2
    <2> QED
      BY <1>0, <2>1, <2>2, <2>3 DEF NodesInv
  <1>7. ASSUME NEW q \in Requests, StartSearch(q) PROVE NodesInv'
    <2>1. /\ left'.at = "run" /\ nodes' = nodes \cup q.sources \cup {q.dst} /\ UNCHANGED <<option, multihop>>
          /\ UNCHANGED linked \/ LoadEdges
      BY <1>0, <1>7, PlanStep DEF StartSearch
    <2>2. nodes' \subseteq Rses /\ nodes \subseteq nodes'
      BY <1>0, <2>1, TopologyAssumption
    <2>3. linked' \subseteq nodes' \X nodes'
      BY <1>0, <2>1, <2>2, LoadLinks
    <2> QED
      BY <1>0, <2>1, <2>2, <2>3 DEF NodesInv
  <1>8. CASE Visit \/ EndSearch \/ UNCHANGED vars
    <2>1. UNCHANGED <<option, left, nodes, linked, multihop>>
      BY <1>8 DEF Visit, EndSearch, vars, graph
    <2> QED
      BY <1>0, <2>1 DEF NodesInv
  <1>9. CASE Next
    BY <1>9, <1>1, <1>2, <1>3, <1>4, <1>5, <1>6, <1>7, <1>8 DEF Next
  <1> QED
    BY <1>8, <1>9

\* The option stays typed along with the edges and the searches.
LEMMA NodesInvariant == Spec => []NodesInv
  <1>1. Init => EdgesInv /\ NodesInv
    <2> SUFFICES ASSUME Init PROVE EdgesInv /\ NodesInv
      OBVIOUS
    <2>1. GraphTyped
      BY DEF Init, GraphTyped, Plans
    <2>2. EdgesKept /\ EdgesCurrent
      BY DEF Init, EdgesKept, EdgesCurrent
    <2>3. NodesInv
      BY TopologyAssumption DEF Init, NodesInv
    <2> QED
      BY <2>1, <2>2, <2>3 DEF EdgesInv
  <1>2. EdgesInv /\ [Next]_vars => EdgesInv'
    BY EdgesStep
  <1>3. EdgesInv /\ NodesInv /\ [Next]_vars => NodesInv'
    BY NodesStep
  <1> QED
    BY <1>1, <1>2, <1>3, PTL DEF Spec

\* Whatever an administrator types, parse_expression accepts exactly the
\* expressions that are well-formed and match some RSE, and returns the RSEs
\* that the operators yield when they are applied from the left: the counting of
\* parentheses, PATTERN and the loop of __resolve_term_expression agree.
THEOREM ParserDecides == Spec => []ParserAgrees
  <1>1. NodesInv => ParserAgrees
    <2>1. SUFFICES ASSUME NodesInv PROVE ParserAgrees
      OBVIOUS
    <2>2. option \in Seq(Tokens)
      BY <2>1 DEF NodesInv
    <2>3. ParseExpression(option, FALSE) =
            IF WellFormed[option] /\ Denotes[option] # {} THEN Denotes[option] ELSE Invalid
      BY <2>2, ParserRight
    <2> QED
      BY <2>3 DEF ParserAgrees
  <1> QED
    BY <1>1, NodesInvariant, PTL

\* The nodes of the topology are RSEs, links are between known nodes and have
\* costs, and an RSE is in the queue of a search at most once, with a distance.
THEOREM TypeCorrect == Spec => []TypeOK
  <1>1. EdgesInv /\ SearchInv /\ NodesInv => TypeOK
    <2>1. SUFFICES ASSUME EdgesInv, SearchInv, NodesInv PROVE TypeOK
      OBVIOUS
    <2>2. /\ option \in Seq(Tokens) /\ Len(option) <= MaxTokens /\ multihop \subseteq nodes /\ nodes \subseteq Rses
          /\ linked \subseteq nodes \X nodes
      BY <2>1 DEF NodesInv
    <2>3. \A p \in linked : edges[p] \in Nat
      BY <2>1 DEF EdgesInv, GraphTyped, EdgesKept
    <2>4. search # Idle => QueueRight(search)
      BY <2>1 DEF SearchInv, SearchRight
    <2>5. search # Idle => IsInjective(search.heap) /\ \A r \in Range(search.heap) : search.dist[r] < Infinity
      BY <2>4 DEF QueueRight, IsHeap, Queued
    <2> QED
      BY <2>2, <2>3, <2>5 DEF TypeOK
  <1> QED
    BY <1>1, NodesInvariant, SearchInvariant, PTL

=============================================================================
