---------------------------- MODULE Totals_proofs ----------------------------
(***************************************************************************)
(* Facts about Total, for every column and every number of rows, and about *)
(* SumOver, for every finite set.  The library states induction with an    *)
(* operator parameter; here it is stated over a set of naturals, or over a *)
(* set of subsets, and derived from the well-foundedness of strict         *)
(* inclusion between finite sets.                                          *)
(***************************************************************************)
EXTENDS Totals, FiniteSetTheorems, WellFoundedInduction, TLAPS

\* A set of naturals that holds 0 and is closed under successor is Nat.
LEMMA NatSetInduction ==
  ASSUME NEW S, 0 \in S, \A n \in Nat : n \in S => n + 1 \in S
  PROVE  Nat \subseteq S
<1> SUFFICES ASSUME NEW x \in Nat, x \notin S PROVE FALSE
  OBVIOUS
<1> DEFINE Bad == {k \in 0..x : k \notin S}
           Seg == {0..k : k \in Bad}
<1>1. \A k \in 0..x : 0..k \in FiniteSubsetsOf(0..x)
  <2> SUFFICES ASSUME NEW k \in 0..x PROVE 0..k \in FiniteSubsetsOf(0..x)
    OBVIOUS
  <2>1. IsFiniteSet(0..k)
    BY FS_Interval
  <2>2. 0..k \in SUBSET (0..x)
    OBVIOUS
  <2> QED BY <2>1, <2>2 DEF FiniteSubsetsOf
<1>2. Seg \subseteq FiniteSubsetsOf(0..x)
  BY <1>1
<1>3. Seg # {}
  OBVIOUS
<1>4. IsWellFoundedOn(StrictSubsetOrdering(0..x), FiniteSubsetsOf(0..x))
  BY FS_StrictSubsetOrderingWellFounded
<1> HIDE DEF Seg
<1>5. PICK s \in Seg : \A t \in Seg : <<t, s>> \notin StrictSubsetOrdering(0..x)
  BY <1>2, <1>3, <1>4, WFMin
<1>6. PICK k \in Bad : s = 0..k
  BY <1>5 DEF Seg
<1>7. k # 0 /\ k - 1 \in 0..x /\ k \in 0..x
  BY <1>6
<1>8. k - 1 \in Bad
  BY <1>6, <1>7
<1>9. 0..(k-1) \in Seg
  BY <1>8 DEF Seg
<1>10. <<0..(k-1), s>> \in StrictSubsetOrdering(0..x)
  <2>1. 0..(k-1) \in SUBSET (0..x) /\ s \in SUBSET (0..x)
    BY <1>6, <1>7
  <2>2. 0..(k-1) \subseteq s
    BY <1>6, <1>7
  <2>3. k \in s /\ k \notin 0..(k-1)
    BY <1>6, <1>7
  <2> QED BY <2>1, <2>2, <2>3 DEF StrictSubsetOrdering
<1> QED BY <1>5, <1>9, <1>10

\* A running total of column f over its first n rows.
IsRunning(g, f, n) ==
  /\ g \in [0..n -> Int]
  /\ g[0] = 0
  /\ \A i \in 1..n : g[i] = g[i - 1] + f[i]

\* Every column of integers has a running total, of every length.
LEMMA RunningExists ==
  ASSUME NEW N \in Nat, NEW f \in [1..N -> Int]
  PROVE  \A n \in 0..N : \E g : IsRunning(g, f, n)
<1> DEFINE S == {n \in Nat : n <= N => \E g : IsRunning(g, f, n)}
<1>1. 0 \in S
  <2>1. IsRunning([i \in 0..0 |-> 0], f, 0)
    BY DEF IsRunning
  <2> QED BY <2>1
<1>2. ASSUME NEW n \in Nat, n \in S PROVE n + 1 \in S
  <2>1. CASE n + 1 <= N
    <3>1. PICK g : IsRunning(g, f, n)
      BY <1>2, <2>1
    <3> DEFINE h == [i \in 0..(n+1) |-> IF i = n + 1 THEN g[n] + f[n+1] ELSE g[i]]
    <3>2. g \in [0..n -> Int] /\ f[n+1] \in Int
      BY <3>1, <2>1 DEF IsRunning
    <3>3. h \in [0..(n+1) -> Int]
      BY <3>2
    <3>4. h[0] = 0
      BY <3>1 DEF IsRunning
    <3>5. ASSUME NEW i \in 1..(n+1) PROVE h[i] = h[i-1] + f[i]
      <4>1. CASE i = n + 1
        BY <4>1
      <4>2. CASE i \in 1..n
        <5>1. g[i] = g[i-1] + f[i]
          BY <3>1, <4>2 DEF IsRunning
        <5>2. h[i] = g[i] /\ h[i-1] = g[i-1]
          BY <4>2
        <5> QED BY <5>1, <5>2
      <4> QED BY <4>1, <4>2
    <3> HIDE DEF h
    <3>6. IsRunning(h, f, n + 1)
      BY <3>3, <3>4, <3>5 DEF IsRunning
    <3> QED BY <3>6
  <2> QED BY <2>1
<1> HIDE DEF S
<1>3. Nat \subseteq S
  BY <1>1, <1>2, NatSetInduction
<1> QED BY <1>3 DEF S

\* Two running totals of one column agree wherever both are defined.
LEMMA RunningAgree ==
  ASSUME NEW N \in Nat, NEW f \in [1..N -> Int],
         NEW m \in 0..N, NEW n \in 0..N, NEW g, NEW h,
         IsRunning(g, f, m), IsRunning(h, f, n), NEW i \in 0..N, i <= m, i <= n
  PROVE  g[i] = h[i]
<1> DEFINE S == {j \in Nat : j <= m /\ j <= n => g[j] = h[j]}
<1>1. 0 \in S
  BY DEF IsRunning
<1>2. ASSUME NEW j \in Nat, j \in S PROVE j + 1 \in S
  <2>1. CASE j + 1 <= m /\ j + 1 <= n
    <3>1. g[j] = h[j]
      BY <1>2, <2>1
    <3>2. j + 1 \in 1..m /\ j + 1 \in 1..n /\ (j + 1) - 1 = j
      BY <2>1
    <3>3. g[j+1] = g[j] + f[j+1] /\ h[j+1] = h[j] + f[j+1]
      BY <3>2 DEF IsRunning
    <3> QED BY <3>1, <3>3
  <2> QED BY <2>1
<1> HIDE DEF S
<1>3. Nat \subseteq S
  BY <1>1, <1>2, NatSetInduction
<1> QED BY <1>3 DEF S

\* Total is the last entry of any running total.
LEMMA TotalIsRunning ==
  ASSUME NEW N \in Nat, NEW f \in [1..N -> Int], NEW n \in 0..N,
         NEW g, IsRunning(g, f, n)
  PROVE  Total(f, n) = g[n]
<1> DEFINE Rec(h) == h = [i \in 0..n |-> IF i = 0 THEN 0 ELSE h[i - 1] + f[i]]
           u == CHOOSE h : Rec(h)
           S == {j \in Nat : j <= n => u[j] = g[j]}
<1>1. Rec(g)
  <2> DEFINE r == [i \in 0..n |-> IF i = 0 THEN 0 ELSE g[i - 1] + f[i]]
  <2>1. \A i \in 0..n : g[i] = r[i]
    BY DEF IsRunning
  <2>2. g = [i \in 0..n |-> g[i]]
    BY DEF IsRunning
  <2> QED BY <2>1, <2>2
<1>2. Rec(u)
  BY <1>1
<1>3. Total(f, n) = u[n]
  BY DEF Total
<1> HIDE DEF u
<1>4. u[0] = 0 /\ \A j \in 1..n : u[j] = u[j - 1] + f[j]
  BY <1>2
<1>5. 0 \in S
  BY <1>4 DEF IsRunning
<1>6. ASSUME NEW j \in Nat, j \in S PROVE j + 1 \in S
  <2>1. CASE j + 1 <= n
    <3>1. u[j] = g[j] /\ j + 1 \in 1..n /\ (j + 1) - 1 = j
      BY <1>6, <2>1
    <3>2. u[j+1] = u[j] + f[j+1] /\ g[j+1] = g[j] + f[j+1]
      BY <1>4, <3>1 DEF IsRunning
    <3> QED BY <3>1, <3>2
  <2> QED BY <2>1
<1> HIDE DEF S
<1>7. Nat \subseteq S
  BY <1>5, <1>6, NatSetInduction
<1> QED BY <1>3, <1>7 DEF S

\* The total over no row is zero; one more row adds that row's value.
LEMMA TotalStep ==
  ASSUME NEW N \in Nat, NEW f \in [1..N -> Int]
  PROVE  /\ Total(f, 0) = 0
         /\ \A n \in 0..N : Total(f, n) \in Int
         /\ \A n \in 1..N : Total(f, n) = Total(f, n - 1) + f[n]
<1>1. PICK g : IsRunning(g, f, N)
  BY RunningExists
<1>2. \A n \in 0..N : Total(f, n) = g[n] /\ g[n] \in Int
  <2> SUFFICES ASSUME NEW n \in 0..N PROVE Total(f, n) = g[n] /\ g[n] \in Int
    OBVIOUS
  <2>1. PICK h : IsRunning(h, f, n)
    BY RunningExists
  <2>2. Total(f, n) = h[n]
    BY <2>1, TotalIsRunning
  <2>3. h[n] = g[n]
    BY <1>1, <2>1, RunningAgree
  <2> QED BY <2>2, <2>3, <1>1 DEF IsRunning
<1> QED BY <1>1, <1>2 DEF IsRunning

\* The total over the first rows does not look at the others.
LEMMA TotalAgree ==
  ASSUME NEW M \in Nat, NEW N \in Nat, NEW f \in [1..M -> Int], NEW g \in [1..N -> Int],
         NEW n \in 0..M, n <= N, \A i \in 1..n : f[i] = g[i]
  PROVE  Total(f, n) = Total(g, n)
<1>1. PICK h : IsRunning(h, f, n)
  BY RunningExists
<1>2. IsRunning(h, g, n) /\ n \in 0..N
  BY <1>1 DEF IsRunning
<1> QED BY <1>1, <1>2, TotalIsRunning

\* The total is an integer.
LEMMA TotalType ==
  ASSUME NEW N \in Nat, NEW f \in [1..N -> Int]
  PROVE  Total(f, N) \in Int
BY TotalStep

\* Adding two columns row by row adds their totals.
LEMMA TotalPlus ==
  ASSUME NEW N \in Nat, NEW f \in [1..N -> Int], NEW g \in [1..N -> Int],
         NEW h \in [1..N -> Int], \A i \in 1..N : h[i] = f[i] + g[i]
  PROVE  Total(h, N) = Total(f, N) + Total(g, N)
<1> DEFINE S == {n \in Nat : n <= N => Total(h, n) = Total(f, n) + Total(g, n)}
<1>1. 0 \in S
  <2>1. Total(f, 0) = 0 /\ Total(g, 0) = 0 /\ Total(h, 0) = 0
    BY TotalStep
  <2> QED BY <2>1
<1>2. ASSUME NEW n \in Nat, n \in S PROVE n + 1 \in S
  <2>1. CASE n + 1 <= N
    <3>1. n \in 0..N /\ n + 1 \in 1..N /\ (n + 1) - 1 = n
      BY <2>1
    <3>2. Total(f, n) \in Int /\ Total(f, n + 1) = Total(f, n) + f[n+1]
      BY <3>1, TotalStep
    <3>3. Total(g, n) \in Int /\ Total(g, n + 1) = Total(g, n) + g[n+1]
      BY <3>1, TotalStep
    <3>4. Total(h, n) \in Int /\ Total(h, n + 1) = Total(h, n) + h[n+1]
      BY <3>1, TotalStep
    <3>5. Total(h, n) = Total(f, n) + Total(g, n) /\ h[n+1] = f[n+1] + g[n+1]
      BY <1>2, <2>1, <3>1
    <3>6. f[n+1] \in Int /\ g[n+1] \in Int
      BY <3>1
    <3> HIDE DEF S
    <3>7. Total(h, n + 1) = Total(f, n + 1) + Total(g, n + 1)
      BY <3>2, <3>3, <3>4, <3>5, <3>6
    <3> QED BY <3>7 DEF S
  <2> QED BY <2>1
<1> HIDE DEF S
<1>3. Nat \subseteq S
  BY <1>1, <1>2, NatSetInduction
<1> QED BY <1>3 DEF S

\* A column with no negative value totals at least any one of its values.
LEMMA TotalCovers ==
  ASSUME NEW N \in Nat, NEW f \in [1..N -> Int], \A i \in 1..N : f[i] >= 0
  PROVE  /\ Total(f, N) >= 0
         /\ \A k \in 1..N : f[k] <= Total(f, N)
<1> DEFINE S == {n \in Nat : n <= N => /\ Total(f, n) >= 0
                                       /\ \A k \in 1..n : f[k] <= Total(f, n)}
<1>1. 0 \in S
  <2>1. Total(f, 0) = 0
    BY TotalStep
  <2> QED BY <2>1
<1>2. ASSUME NEW n \in Nat, n \in S PROVE n + 1 \in S
  <2>1. CASE n + 1 <= N
    <3>1. n \in 0..N /\ n + 1 \in 1..N /\ (n + 1) - 1 = n
      BY <2>1
    <3>2. Total(f, n) \in Int /\ Total(f, n + 1) = Total(f, n) + f[n+1]
      BY <3>1, TotalStep
    <3>3. Total(f, n) >= 0 /\ \A k \in 1..n : f[k] <= Total(f, n)
      BY <1>2, <2>1
    <3>4. f[n+1] \in Int /\ f[n+1] >= 0
      BY <3>1
    <3>5. ASSUME NEW k \in 1..(n+1) PROVE f[k] <= Total(f, n + 1)
      <4>1. CASE k = n + 1
        BY <4>1, <3>2, <3>3, <3>4
      <4>2. CASE k \in 1..n
        <5>1. f[k] \in Int /\ f[k] <= Total(f, n)
          BY <4>2, <3>1, <3>3
        <5> QED BY <5>1, <3>2, <3>4
      <4> QED BY <4>1, <4>2
    <3>6. Total(f, n + 1) >= 0
      BY <3>2, <3>3, <3>4
    <3> QED BY <3>5, <3>6
  <2> QED BY <2>1
<1> HIDE DEF S
<1>3. Nat \subseteq S
  BY <1>1, <1>2, NatSetInduction
<1> QED BY <1>3 DEF S

\* A column of zeros totals zero.
LEMMA TotalZero ==
  ASSUME NEW N \in Nat, NEW f \in [1..N -> Int], \A i \in 1..N : f[i] = 0
  PROVE  Total(f, N) = 0
<1>1. Total(f, N) = Total(f, N) + Total(f, N)
  BY TotalPlus
<1> QED BY <1>1, TotalType

\* In particular the constant column.
LEMMA TotalBlank ==
  ASSUME NEW N \in Nat
  PROVE  Total([i \in 1..N |-> 0], N) = 0
BY TotalZero

\* A column that is zero but in one row totals that row.
LEMMA TotalPoint ==
  ASSUME NEW N \in Nat, NEW f \in [1..N -> Int], NEW k \in 1..N,
         \A i \in 1..N : i # k => f[i] = 0
  PROVE  Total(f, N) = f[k]
<1> DEFINE S == {n \in Nat : n <= N => Total(f, n) = IF n < k THEN 0 ELSE f[k]}
<1>1. 0 \in S
  BY TotalStep
<1>2. ASSUME NEW n \in Nat, n \in S PROVE n + 1 \in S
  <2>1. CASE n + 1 <= N
    <3>1. n \in 0..N /\ n + 1 \in 1..N /\ (n + 1) - 1 = n
      BY <2>1
    <3>2. Total(f, n + 1) = Total(f, n) + f[n+1]
      BY <3>1, TotalStep
    <3>3. Total(f, n) = IF n < k THEN 0 ELSE f[k]
      BY <1>2, <2>1
    <3>4. f[n+1] \in Int /\ f[k] \in Int /\ (n + 1 # k => f[n+1] = 0)
      BY <3>1
    <3>5. Total(f, n + 1) = IF n + 1 < k THEN 0 ELSE f[k]
      <4>1. CASE n + 1 < k
        BY <4>1, <3>2, <3>3, <3>4
      <4>2. CASE n + 1 = k
        BY <4>2, <3>2, <3>3, <3>4
      <4>3. CASE n + 1 > k
        BY <4>3, <3>2, <3>3, <3>4
      <4> QED BY <4>1, <4>2, <4>3
    <3> QED BY <3>5
  <2> QED BY <2>1
<1> HIDE DEF S
<1>3. Nat \subseteq S
  BY <1>1, <1>2, NatSetInduction
<1> QED BY <1>3 DEF S

\* Changing one row changes the total by as much.
LEMMA TotalChange ==
  ASSUME NEW N \in Nat, NEW f \in [1..N -> Int], NEW h \in [1..N -> Int],
         NEW k \in 1..N, \A i \in 1..N : i # k => h[i] = f[i]
  PROVE  Total(h, N) = Total(f, N) + h[k] - f[k]
<1> DEFINE g == [i \in 1..N |-> h[i] - f[i]]
<1>1. g \in [1..N -> Int]
  OBVIOUS
<1>2. Total(g, N) = h[k] - f[k]
  <2>1. g[k] = h[k] - f[k] /\ \A i \in 1..N : i # k => g[i] = 0
    OBVIOUS
  <2> HIDE DEF g
  <2> QED BY <1>1, <2>1, TotalPoint
<1>3. \A i \in 1..N : h[i] = f[i] + g[i]
  OBVIOUS
<1> HIDE DEF g
<1>4. Total(h, N) = Total(f, N) + Total(g, N)
  BY <1>1, <1>3, TotalPlus
<1> QED BY <1>2, <1>4, TotalType
-----------------------------------------------------------------------------
\* A set of subsets of a finite set that holds {} and is closed under adding an
\* element holds the set itself.
LEMMA FiniteInduction ==
  ASSUME NEW S, IsFiniteSet(S), NEW Q, {} \in Q,
         \A T \in SUBSET S : \A x \in S : T \in Q /\ x \notin T => T \cup {x} \in Q
  PROVE  S \in Q
<1> DEFINE N == {n \in Nat : \A T \in SUBSET S : Cardinality(T) = n => T \in Q}
<1>1. \A T \in SUBSET S : IsFiniteSet(T) /\ Cardinality(T) \in Nat
  BY FS_Subset, FS_CardinalityType
<1>2. 0 \in N
  BY <1>1, FS_EmptySet
<1>3. ASSUME NEW n \in Nat, n \in N PROVE n + 1 \in N
  <2> SUFFICES ASSUME NEW T \in SUBSET S, Cardinality(T) = n + 1 PROVE T \in Q
    OBVIOUS
  <2>1. PICK x \in T : TRUE
    BY FS_EmptySet
  <2>2. T \ {x} \in SUBSET S /\ Cardinality(T \ {x}) = n
    <3>1. IsFiniteSet(T)
      BY <1>1
    <3>2. Cardinality(T \ {x}) = Cardinality(T) - 1
      BY <3>1, <2>1, FS_RemoveElement
    <3> QED BY <3>2
  <2>3. T \ {x} \in Q
    BY <1>3, <2>2
  <2>4. (T \ {x}) \cup {x} = T /\ x \in S /\ x \notin T \ {x}
    BY <2>1
  <2> QED BY <2>2, <2>3, <2>4
<1> HIDE DEF N
<1>4. Nat \subseteq N
  BY <1>2, <1>3, NatSetInduction
<1>5. S \in SUBSET S /\ Cardinality(S) \in N
  BY <1>1, <1>4
<1> QED BY <1>5 DEF N

\* The fold that defines SumOver, on the subsets of S.
First(s) == CHOOSE a \in s : TRUE
IsSummed(f, S, g) ==
  g = [s \in SUBSET S |-> IF s = {} THEN 0 ELSE f[First(s)] + g[s \ {First(s)}]]

\* SumOver is the value of that fold.
LEMMA SumIsFold ==
  ASSUME NEW f, NEW S
  PROVE  SumOver(f, S) = (CHOOSE g : IsSummed(f, S, g))[S]
BY DEF SumOver, MapThenFoldSet, IsSummed, First

\* The element the fold takes first is one of the set.
LEMMA FirstIsIn == \A s : s # {} => First(s) \in s
BY DEF First

\* Such a fold exists over a finite set of integers.
LEMMA SummedExists ==
  ASSUME NEW S, IsFiniteSet(S), NEW f, \A x \in S : f[x] \in Int
  PROVE  \E g \in [SUBSET S -> Int] : IsSummed(f, S, g)
<1> DEFINE Body(g, s) == IF s = {} THEN 0 ELSE f[First(s)] + g[s \ {First(s)}]
           N == {n \in Nat : \E g \in [SUBSET S -> Int] :
                   \A s \in SUBSET S : Cardinality(s) <= n => g[s] = Body(g, s)}
<1>1. \A s \in SUBSET S : IsFiniteSet(s) /\ Cardinality(s) \in Nat /\ (Cardinality(s) = 0 <=> s = {})
  BY FS_Subset, FS_CardinalityType, FS_EmptySet
<1>2. 0 \in N
  <2> DEFINE zero == [s \in SUBSET S |-> 0]
  <2>1. zero \in [SUBSET S -> Int]
    OBVIOUS
  <2>2. \A s \in SUBSET S : Cardinality(s) <= 0 => s = {}
    BY <1>1
  <2>3. \A s \in SUBSET S : Cardinality(s) <= 0 => zero[s] = Body(zero, s)
    BY <2>2
  <2> HIDE DEF zero
  <2> QED BY <2>1, <2>3
<1>3. ASSUME NEW n \in Nat, n \in N PROVE n + 1 \in N
  <2>1. PICK g \in [SUBSET S -> Int] :
          \A s \in SUBSET S : Cardinality(s) <= n => g[s] = Body(g, s)
    BY <1>3
  <2> DEFINE h == [s \in SUBSET S |-> IF Cardinality(s) <= n THEN g[s] ELSE Body(g, s)]
  <2>2. \A s \in SUBSET S : Body(g, s) \in Int
    BY FirstIsIn
  <2>3. h \in [SUBSET S -> Int]
    BY <2>2
  <2>4. ASSUME NEW s \in SUBSET S, Cardinality(s) <= n + 1 PROVE h[s] = Body(h, s)
    <3>1. CASE s = {}
      BY <1>1, <2>1, <3>1
    <3>2. CASE s # {}
      <4> DEFINE r == s \ {First(s)}
      <4>1. First(s) \in s /\ r \in SUBSET S
        BY <3>2, FirstIsIn
      <4>2. Cardinality(r) = Cardinality(s) - 1
        BY <1>1, <4>1, FS_RemoveElement
      <4>3. h[r] = g[r]
        BY <1>1, <4>1, <4>2, <2>4
      <4>4. Body(h, s) = Body(g, s)
        BY <3>2, <4>3
      <4>5. h[s] = Body(g, s)
        BY <2>1
      <4> QED BY <4>4, <4>5
    <3> QED BY <3>1, <3>2
  <2> HIDE DEF h
  <2> QED BY <2>3, <2>4
<1> HIDE DEF N
<1>4. Nat \subseteq N
  BY <1>2, <1>3, NatSetInduction
<1>5. Cardinality(S) \in N
  BY <1>1, <1>4
<1>6. PICK g \in [SUBSET S -> Int] :
        \A s \in SUBSET S : Cardinality(s) <= Cardinality(S) => g[s] = Body(g, s)
  BY <1>5 DEF N
<1>7. \A s \in SUBSET S : g[s] = Body(g, s)
  BY <1>6, FS_Subset
<1>8. g = [s \in SUBSET S |-> Body(g, s)]
  BY <1>7
<1> QED BY <1>8 DEF IsSummed

\* The fold picks some fold; it does not depend on which, nor on the set around.
LEMMA SummedAgree ==
  ASSUME NEW S, IsFiniteSet(S), NEW f, NEW T, NEW g, NEW h,
         IsSummed(f, S, g), IsSummed(f, T, h), S \subseteq T
  PROVE  g[S] = h[S]
<1> DEFINE N == {n \in Nat : \A s \in SUBSET S : Cardinality(s) = n => g[s] = h[s]}
<1>1. \A s \in SUBSET S : IsFiniteSet(s) /\ Cardinality(s) \in Nat /\ (Cardinality(s) = 0 <=> s = {})
  BY FS_Subset, FS_CardinalityType, FS_EmptySet
<1>2. \A s \in SUBSET S :
        /\ g[s] = IF s = {} THEN 0 ELSE f[First(s)] + g[s \ {First(s)}]
        /\ h[s] = IF s = {} THEN 0 ELSE f[First(s)] + h[s \ {First(s)}]
  BY DEF IsSummed
<1>3. 0 \in N
  BY <1>1, <1>2
<1>4. ASSUME NEW n \in Nat, n \in N PROVE n + 1 \in N
  <2> SUFFICES ASSUME NEW s \in SUBSET S, Cardinality(s) = n + 1 PROVE g[s] = h[s]
    OBVIOUS
  <2>1. s # {} /\ First(s) \in s /\ s \ {First(s)} \in SUBSET S
    BY <1>1, FirstIsIn
  <2>2. Cardinality(s \ {First(s)}) = n
    BY <1>1, <2>1, FS_RemoveElement
  <2>3. g[s \ {First(s)}] = h[s \ {First(s)}]
    BY <1>4, <2>1, <2>2
  <2> QED BY <1>2, <2>1, <2>3
<1> HIDE DEF N
<1>5. Nat \subseteq N
  BY <1>3, <1>4, NatSetInduction
<1> QED BY <1>1, <1>5 DEF N

\* What the fold is: nothing over the empty set, and the chosen element and the rest.
LEMMA SumUnfolds ==
  ASSUME NEW S, IsFiniteSet(S), NEW f, \A x \in S : f[x] \in Int
  PROVE  /\ SumOver(f, S) \in Int
         /\ SumOver(f, {}) = 0
         /\ S # {} => SumOver(f, S) = f[First(S)] + SumOver(f, S \ {First(S)})
<1> DEFINE G(T) == CHOOSE g : IsSummed(f, T, g)
<1>1. \A T \in SUBSET S : IsFiniteSet(T) /\ IsSummed(f, T, G(T)) /\ SumOver(f, T) = G(T)[T]
  <2> SUFFICES ASSUME NEW T \in SUBSET S
               PROVE  IsFiniteSet(T) /\ IsSummed(f, T, G(T)) /\ SumOver(f, T) = G(T)[T]
    OBVIOUS
  <2>1. IsFiniteSet(T)
    BY FS_Subset
  <2>2. \E g : IsSummed(f, T, g)
    BY <2>1, SummedExists
  <2> QED BY <2>1, <2>2, SumIsFold
<1>2. PICK g \in [SUBSET S -> Int] : IsSummed(f, S, g)
  BY SummedExists
<1> HIDE DEF G
<1>3. \A T \in SUBSET S : SumOver(f, T) = g[T]
  BY <1>1, <1>2, SummedAgree
<1>4. S \in SUBSET S /\ {} \in SUBSET S /\ S \ {First(S)} \in SUBSET S
  OBVIOUS
<1>5. g[{}] = 0 /\ (S # {} => g[S] = f[First(S)] + g[S \ {First(S)}])
  BY <1>2, <1>4 DEF IsSummed
<1> QED BY <1>2, <1>3, <1>4, <1>5

\* The total is an integer.
LEMMA SumType ==
  ASSUME NEW S, IsFiniteSet(S), NEW f, \A x \in S : f[x] \in Int
  PROVE  SumOver(f, S) \in Int
BY SumUnfolds

\* The total over no element is zero.
LEMMA SumEmpty == \A f : SumOver(f, {}) = 0
BY SumUnfolds, FS_EmptySet

\* Any element can be taken out first.
LEMMA SumRemove ==
  ASSUME NEW S, IsFiniteSet(S), NEW f, \A x \in S : f[x] \in Int, NEW x \in S
  PROVE  SumOver(f, S) = SumOver(f, S \ {x}) + f[x]
<1> DEFINE Taken(T, y) == SumOver(f, T) = SumOver(f, T \ {y}) + f[y]
           N == {n \in Nat : \A T \in SUBSET S : Cardinality(T) = n => \A y \in T : Taken(T, y)}
<1>1. \A T \in SUBSET S : /\ IsFiniteSet(T) /\ Cardinality(T) \in Nat /\ SumOver(f, T) \in Int
                          /\ T # {} => SumOver(f, T) = f[First(T)] + SumOver(f, T \ {First(T)})
  <2> SUFFICES ASSUME NEW T \in SUBSET S
        PROVE  /\ IsFiniteSet(T) /\ Cardinality(T) \in Nat /\ SumOver(f, T) \in Int
               /\ T # {} => SumOver(f, T) = f[First(T)] + SumOver(f, T \ {First(T)})
    OBVIOUS
  <2>1. IsFiniteSet(T) /\ Cardinality(T) \in Nat
    BY FS_Subset, FS_CardinalityType
  <2> QED BY <2>1, SumUnfolds
<1>2. 0 \in N
  BY <1>1, FS_EmptySet
<1>3. ASSUME NEW n \in Nat, n \in N PROVE n + 1 \in N
  <2> SUFFICES ASSUME NEW T \in SUBSET S, Cardinality(T) = n + 1, NEW y \in T PROVE Taken(T, y)
    OBVIOUS
  <2> DEFINE z == First(T)
  <2>1. z \in T
    BY FirstIsIn
  <2>2. CASE y = z
    <3>1. SumOver(f, T) = f[z] + SumOver(f, T \ {z})
      BY <1>1, <2>1
    <3>2. f[z] \in Int /\ SumOver(f, T \ {z}) \in Int
      <4>1. T \ {z} \in SUBSET S
        OBVIOUS
      <4> QED BY <1>1, <2>1, <4>1
    <3> HIDE DEF z
    <3> QED BY <2>2, <3>1, <3>2
  <2>3. CASE y # z
    <3>1. /\ T \ {y} \in SUBSET S /\ T \ {z} \in SUBSET S
          /\ Cardinality(T \ {y}) = n /\ Cardinality(T \ {z}) = n
      <4>1. IsFiniteSet(T)
        BY <1>1
      <4>2. Cardinality(T \ {y}) = Cardinality(T) - 1 /\ Cardinality(T \ {z}) = Cardinality(T) - 1
        BY <4>1, <2>1, FS_RemoveElement
      <4> QED BY <4>2
    <3>2. y \in T \ {z} /\ z \in T \ {y} /\ (T \ {z}) \ {y} = (T \ {y}) \ {z}
      BY <2>1, <2>3
    <3>3. Taken(T \ {z}, y) /\ Taken(T \ {y}, z)
      BY <1>3, <3>1, <3>2
    <3>4. SumOver(f, T) = f[z] + SumOver(f, T \ {z})
      BY <1>1, <2>1
    <3>5. /\ f[z] \in Int /\ f[y] \in Int /\ SumOver(f, T \ {y}) \in Int
          /\ SumOver(f, T \ {z}) \in Int /\ SumOver(f, (T \ {z}) \ {y}) \in Int
      <4>1. (T \ {z}) \ {y} \in SUBSET S
        OBVIOUS
      <4> QED BY <1>1, <2>1, <3>1, <4>1
    <3> DEFINE rest == SumOver(f, (T \ {z}) \ {y})
    <3>6. SumOver(f, T \ {z}) = rest + f[y] /\ SumOver(f, T \ {y}) = rest + f[z]
      BY <3>2, <3>3
    <3> HIDE DEF z, rest
    <3> QED BY <3>4, <3>5, <3>6 DEF rest
  <2> QED BY <2>2, <2>3
<1> HIDE DEF N
<1>4. Nat \subseteq N
  BY <1>2, <1>3, NatSetInduction
<1> QED BY <1>1, <1>4 DEF N

\* A new element adds its value.
LEMMA SumAdd ==
  ASSUME NEW S, IsFiniteSet(S), NEW f, NEW x, x \notin S, \A y \in S \cup {x} : f[y] \in Int
  PROVE  SumOver(f, S \cup {x}) = SumOver(f, S) + f[x]
<1>1. IsFiniteSet(S \cup {x}) /\ (S \cup {x}) \ {x} = S
  BY FS_AddElement
<1> QED BY <1>1, SumRemove

\* Columns that agree on a set have one total there.
LEMMA SumAgree ==
  ASSUME NEW S, IsFiniteSet(S), NEW f, NEW g, \A x \in S : f[x] \in Int /\ g[x] = f[x]
  PROVE  SumOver(g, S) = SumOver(f, S)
<1> DEFINE Q == {T \in SUBSET S : SumOver(g, T) = SumOver(f, T)}
<1>1. {} \in Q
  BY SumEmpty
<1>2. ASSUME NEW T \in SUBSET S, NEW x \in S, T \in Q, x \notin T PROVE T \cup {x} \in Q
  <2>1. IsFiniteSet(T) /\ \A y \in T \cup {x} : f[y] \in Int /\ g[y] \in Int
    BY FS_Subset
  <2>2. SumOver(f, T \cup {x}) = SumOver(f, T) + f[x]
    BY <1>2, <2>1, SumAdd
  <2>3. SumOver(g, T \cup {x}) = SumOver(g, T) + g[x]
    BY <1>2, <2>1, SumAdd
  <2> QED BY <1>2, <2>2, <2>3
<1> HIDE DEF Q
<1>3. S \in Q
  BY <1>1, <1>2, FiniteInduction
<1> QED BY <1>3 DEF Q

\* A column that is the sum of two totals the sum of their totals.
LEMMA SumPlus ==
  ASSUME NEW S, IsFiniteSet(S), NEW f, NEW g, NEW h,
         \A x \in S : f[x] \in Int /\ g[x] \in Int /\ h[x] = f[x] + g[x]
  PROVE  SumOver(h, S) = SumOver(f, S) + SumOver(g, S)
<1> DEFINE Q == {T \in SUBSET S : SumOver(h, T) = SumOver(f, T) + SumOver(g, T)}
<1>1. {} \in Q
  BY SumEmpty
<1>2. ASSUME NEW T \in SUBSET S, NEW x \in S, T \in Q, x \notin T PROVE T \cup {x} \in Q
  <2>1. /\ IsFiniteSet(T) /\ \A y \in T \cup {x} : f[y] \in Int
        /\ \A y \in T \cup {x} : g[y] \in Int
        /\ \A y \in T \cup {x} : h[y] \in Int
    BY FS_Subset
  <2>0. x \notin T
    BY <1>2
  <2>2. SumOver(f, T \cup {x}) = SumOver(f, T) + f[x]
    BY ONLY <2>0, <2>1, SumAdd
  <2>3. SumOver(g, T \cup {x}) = SumOver(g, T) + g[x]
    BY ONLY <2>0, <2>1, SumAdd
  <2>4. SumOver(h, T \cup {x}) = SumOver(h, T) + h[x]
    BY ONLY <2>0, <2>1, SumAdd
  <2>5. SumOver(f, T) \in Int /\ SumOver(g, T) \in Int /\ f[x] \in Int /\ g[x] \in Int
    BY <2>1, SumType
  <2> DEFINE ff == SumOver(f, T) gg == SumOver(g, T) hh == SumOver(h, T)
  <2>6. hh = ff + gg /\ h[x] = f[x] + g[x]
    BY <1>2
  <2>7. SumOver(h, T \cup {x}) = (ff + f[x]) + (gg + g[x])
    <3> HIDE DEF Q
    <3>1. SumOver(h, T \cup {x}) = (ff + gg) + (f[x] + g[x])
      BY <2>4, <2>6
    <3> HIDE DEF ff, gg, hh
    <3> QED BY <3>1, <2>5 DEF ff, gg
  <2> QED BY <2>2, <2>3, <2>7
<1> HIDE DEF Q
<1>3. S \in Q
  BY <1>1, <1>2, FiniteInduction
<1> QED BY <1>3 DEF Q

\* A column of zeros totals zero.
LEMMA SumZero ==
  ASSUME NEW S, IsFiniteSet(S), NEW f, \A x \in S : f[x] = 0
  PROVE  SumOver(f, S) = 0
<1>1. \A x \in S : f[x] \in Int /\ f[x] = f[x] + f[x]
  OBVIOUS
<1>2. SumOver(f, S) = SumOver(f, S) + SumOver(f, S)
  BY <1>1, SumPlus
<1> QED BY <1>1, <1>2, SumType

\* A column and its negation cancel.
LEMMA SumNegated ==
  ASSUME NEW S, IsFiniteSet(S), NEW f, NEW g, \A x \in S : f[x] \in Int /\ g[x] = -f[x]
  PROVE  SumOver(g, S) = -SumOver(f, S)
<1> DEFINE z == [x \in S |-> 0]
<1>1. SumOver(z, S) = 0
  BY SumZero
<1>2. \A x \in S : g[x] \in Int /\ z[x] = f[x] + g[x]
  OBVIOUS
<1> HIDE DEF z
<1>3. SumOver(z, S) = SumOver(f, S) + SumOver(g, S)
  BY <1>2, SumPlus
<1>4. SumOver(f, S) \in Int /\ SumOver(g, S) \in Int
  BY <1>2, SumType
<1> QED BY <1>1, <1>3, <1>4

\* Changing one value changes the total by as much.
LEMMA SumChange ==
  ASSUME NEW S, IsFiniteSet(S), NEW f, NEW g, NEW x \in S, g[x] \in Int,
         \A y \in S : f[y] \in Int, \A y \in S : y # x => g[y] = f[y]
  PROVE  SumOver(g, S) = SumOver(f, S) + g[x] - f[x]
<1>1. IsFiniteSet(S \ {x})
  BY FS_Subset
<1>2. SumOver(f, S) = SumOver(f, S \ {x}) + f[x]
  BY SumRemove
<1>3. SumOver(g, S) = SumOver(g, S \ {x}) + g[x]
  BY SumRemove
<1>4. SumOver(g, S \ {x}) = SumOver(f, S \ {x}) /\ SumOver(f, S \ {x}) \in Int
  BY <1>1, SumAgree, SumType
<1> QED BY <1>2, <1>3, <1>4

\* A column with no negative value does not total less over a larger set, and
\* totals at least any one of its values.
LEMMA SumMonotone ==
  ASSUME NEW S, IsFiniteSet(S), NEW f, \A x \in S : f[x] \in Int /\ f[x] >= 0
  PROVE  /\ SumOver(f, S) >= 0
         /\ \A T \in SUBSET S : SumOver(f, T) >= 0 /\ SumOver(f, T) <= SumOver(f, S)
         /\ \A x \in S : f[x] <= SumOver(f, S)
<1> DEFINE Q(T) == {U \in SUBSET (S \ T) : SumOver(f, T \cup U) >= SumOver(f, T)}
<1>1. \A T \in SUBSET S : IsFiniteSet(T) /\ SumOver(f, T) \in Int
  BY FS_Subset, SumType
<1>2. ASSUME NEW T \in SUBSET S PROVE SumOver(f, S) >= SumOver(f, T)
  <2> DEFINE R == Q(T)
  <2>1. {} \in R
    <3>1. T \cup {} = T
      OBVIOUS
    <3> QED BY <1>1, <3>1
  <2>2. ASSUME NEW U \in SUBSET (S \ T), NEW x \in S \ T, U \in R, x \notin U PROVE U \cup {x} \in R
    <3>1. T \cup (U \cup {x}) = (T \cup U) \cup {x} /\ x \notin T \cup U /\ T \cup U \in SUBSET S
      BY <2>2
    <3>2. IsFiniteSet(T \cup U) /\ \A y \in (T \cup U) \cup {x} : f[y] \in Int
      BY <1>1, <3>1
    <3>3. SumOver(f, (T \cup U) \cup {x}) = SumOver(f, T \cup U) + f[x]
      BY <3>1, <3>2, SumAdd
    <3>4. f[x] \in Int /\ f[x] >= 0 /\ SumOver(f, T \cup U) \in Int /\ SumOver(f, T) \in Int
      BY <1>1, <3>1
    <3>5. SumOver(f, T \cup U) >= SumOver(f, T)
      BY <2>2
    <3>6. SumOver(f, (T \cup U) \cup {x}) >= SumOver(f, T)
      BY <3>3, <3>4, <3>5
    <3> QED BY <3>1, <3>6
  <2>3. IsFiniteSet(S \ T)
    BY FS_Subset
  <2> HIDE DEF R
  <2>4. S \ T \in R
    BY <2>1, <2>2, <2>3, FiniteInduction
  <2>5. T \cup (S \ T) = S
    OBVIOUS
  <2> QED BY <2>4, <2>5 DEF R
<1>3. \A T \in SUBSET S : SumOver(f, T) >= 0
  <2> SUFFICES ASSUME NEW T \in SUBSET S PROVE SumOver(f, T) >= 0
    OBVIOUS
  <2> DEFINE R == {U \in SUBSET T : SumOver(f, U) >= 0}
  <2>1. {} \in R
    BY SumEmpty
  <2>2. ASSUME NEW U \in SUBSET T, NEW x \in T, U \in R, x \notin U PROVE U \cup {x} \in R
    <3>1. IsFiniteSet(U) /\ U \in SUBSET S /\ SumOver(f, U) \in Int
      BY <1>1
    <3>2. SumOver(f, U \cup {x}) = SumOver(f, U) + f[x]
      BY <2>2, <3>1, SumAdd
    <3>3. f[x] \in Int /\ f[x] >= 0 /\ SumOver(f, U) >= 0
      BY <2>2
    <3> HIDE DEF R
    <3>4. SumOver(f, U \cup {x}) >= 0
      BY <3>1, <3>2, <3>3
    <3> QED BY <3>4 DEF R
  <2>3. IsFiniteSet(T)
    BY <1>1
  <2> HIDE DEF R
  <2>4. T \in R
    BY <2>1, <2>2, <2>3, FiniteInduction
  <2> QED BY <2>4 DEF R
<1>4. ASSUME NEW x \in S PROVE f[x] <= SumOver(f, S)
  <2>1. S \ {x} \in SUBSET S
    OBVIOUS
  <2>2. SumOver(f, S \ {x}) >= 0 /\ SumOver(f, S \ {x}) \in Int
    BY <1>1, <1>3, <2>1
  <2>3. SumOver(f, S) = SumOver(f, S \ {x}) + f[x]
    BY SumRemove
  <2> QED BY <2>2, <2>3
<1> QED BY <1>1, <1>2, <1>3, <1>4

\* Disjoint sets total apart.
LEMMA SumUnion ==
  ASSUME NEW S, IsFiniteSet(S), NEW T, IsFiniteSet(T), S \cap T = {}, NEW f,
         \A x \in S \cup T : f[x] \in Int
  PROVE  SumOver(f, S \cup T) = SumOver(f, S) + SumOver(f, T)
<1> DEFINE Q == {U \in SUBSET T : SumOver(f, S \cup U) = SumOver(f, S) + SumOver(f, U)}
<1>1. SumOver(f, S) \in Int
  BY SumType
<1>2. {} \in Q
  <2>1. S \cup {} = S
    OBVIOUS
  <2> QED BY <1>1, <2>1, SumEmpty
<1>3. ASSUME NEW U \in SUBSET T, NEW x \in T, U \in Q, x \notin U PROVE U \cup {x} \in Q
  <2>1. IsFiniteSet(U) /\ IsFiniteSet(S \cup U)
    BY FS_Subset, FS_Union
  <2>2. S \cup (U \cup {x}) = (S \cup U) \cup {x} /\ x \notin S \cup U
    BY <1>3
  <2>3. SumOver(f, (S \cup U) \cup {x}) = SumOver(f, S \cup U) + f[x]
    <3> DEFINE V == S \cup U
    <3>1. IsFiniteSet(V) /\ x \notin V /\ \A y \in V \cup {x} : f[y] \in Int
      BY <2>1, <2>2
    <3> HIDE DEF V
    <3>2. SumOver(f, V \cup {x}) = SumOver(f, V) + f[x]
      BY ONLY <3>1, SumAdd
    <3> QED BY <3>2 DEF V
  <2>4. SumOver(f, U \cup {x}) = SumOver(f, U) + f[x]
    <3>1. IsFiniteSet(U) /\ x \notin U /\ \A y \in U \cup {x} : f[y] \in Int
      BY <1>3, <2>1
    <3> QED BY ONLY <3>1, SumAdd
  <2>5. f[x] \in Int /\ SumOver(f, U) \in Int
    BY <2>1, SumType
  <2>6. SumOver(f, S \cup U) = SumOver(f, S) + SumOver(f, U)
    BY <1>3
  <2> HIDE DEF Q
  <2>7. SumOver(f, (S \cup U) \cup {x}) = SumOver(f, S) + SumOver(f, U \cup {x})
    BY <1>1, <2>3, <2>4, <2>5, <2>6
  <2> QED BY <2>2, <2>7 DEF Q
<1> HIDE DEF Q
<1>4. T \in Q
  BY <1>2, <1>3, FiniteInduction
<1> QED BY <1>4 DEF Q

\* A column that is zero outside T totals what it totals on T.
LEMMA SumSupport ==
  ASSUME NEW S, IsFiniteSet(S), NEW T \in SUBSET S, NEW f,
         \A x \in S : f[x] \in Int, \A x \in S \ T : f[x] = 0
  PROVE  SumOver(f, S) = SumOver(f, T)
<1>1. IsFiniteSet(T) /\ IsFiniteSet(S \ T) /\ T \cap (S \ T) = {} /\ T \cup (S \ T) = S
  BY FS_Subset
<1>2. SumOver(f, S \ T) = 0
  BY <1>1, SumZero
<1>3. SumOver(f, T \cup (S \ T)) = SumOver(f, T) + SumOver(f, S \ T)
  BY <1>1, SumUnion
<1>4. SumOver(f, T) \in Int
  BY <1>1, SumType
<1>5. SumOver(f, S) = SumOver(f, T) + SumOver(f, S \ T)
  BY <1>1, <1>3
<1> QED BY <1>2, <1>4, <1>5

\* The total over the image of a set is the total over the set: rows made of
\* lines, one of each.
LEMMA SumImage ==
  ASSUME NEW S, IsFiniteSet(S), NEW f, NEW g, NEW h,
         \A x \in S : f[x] \in Int /\ g[h[x]] = f[x],
         \A x, y \in S : h[x] = h[y] => x = y
  PROVE  /\ IsFiniteSet({h[x] : x \in S})
         /\ SumOver(g, {h[x] : x \in S}) = SumOver(f, S)
<1> DEFINE Image(T) == {h[x] : x \in T}
           Q == {T \in SUBSET S : IsFiniteSet(Image(T)) /\ SumOver(g, Image(T)) = SumOver(f, T)}
<1>1. {} \in Q
  <2>1. Image({}) = {} OBVIOUS
  <2> QED BY <2>1, SumEmpty, FS_EmptySet
<1>2. ASSUME NEW T \in SUBSET S, NEW x \in S, T \in Q, x \notin T PROVE T \cup {x} \in Q
  <2> DEFINE I == Image(T)
  <2>1. /\ IsFiniteSet(T) /\ IsFiniteSet(I) /\ SumOver(g, I) = SumOver(f, T)
        /\ \A y \in T \cup {x} : f[y] \in Int
    BY <1>2, FS_Subset
  <2>2. Image(T \cup {x}) = I \cup {h[x]} /\ h[x] \notin I /\ \A y \in I \cup {h[x]} : g[y] \in Int
    BY <1>2
  <2>0. IsFiniteSet(T) /\ x \notin T /\ \A y \in T \cup {x} : f[y] \in Int
    BY <1>2, <2>1
  <2>3. SumOver(f, T \cup {x}) = SumOver(f, T) + f[x]
    BY ONLY <2>0, SumAdd
  <2> HIDE DEF I
  <2> DEFINE y == h[x]
  <2>5. IsFiniteSet(I) /\ y \notin I /\ \A z \in I \cup {y} : g[z] \in Int
    BY <2>1, <2>2
  <2> HIDE DEF y
  <2>4. SumOver(g, I \cup {y}) = SumOver(g, I) + g[y] /\ IsFiniteSet(I \cup {y})
    <3>1. SumOver(g, I \cup {y}) = SumOver(g, I) + g[y]
      BY ONLY <2>5, SumAdd
    <3>2. IsFiniteSet(I \cup {y})
      BY ONLY <2>5, FS_AddElement
    <3> QED BY <3>1, <3>2
  <2>6. g[y] = f[x]
    BY DEF y
  <2>7. Image(T \cup {x}) = I \cup {y}
    BY <2>2 DEF y
  <2> QED BY <1>2, <2>1, <2>3, <2>4, <2>6, <2>7
<1> HIDE DEF Q
<1>3. S \in Q
  BY <1>1, <1>2, FiniteInduction
<1> QED BY <1>3 DEF Q

\* A total is the sum of what each of some classes adds to it.
LEMMA SumByClass ==
  ASSUME NEW S, IsFiniteSet(S), NEW B, IsFiniteSet(B), NEW f, NEW class,
         \A x \in S : f[x] \in Int /\ class[x] \in B
  PROVE  SumOver([b \in B |-> SumOver(f, {x \in S : class[x] = b})], B) = SumOver(f, S)
<1> DEFINE Of(T, b) == {x \in T : class[x] = b}
           Parts(T) == [b \in B |-> SumOver(f, Of(T, b))]
           Q == {T \in SUBSET S : SumOver(Parts(T), B) = SumOver(f, T)}
<1>0. \A T \in SUBSET S : \A b \in B : IsFiniteSet(Of(T, b)) /\ Parts(T)[b] = SumOver(f, Of(T, b)) /\ Parts(T)[b] \in Int
  <2> SUFFICES ASSUME NEW T \in SUBSET S, NEW b \in B
               PROVE  IsFiniteSet(Of(T, b)) /\ SumOver(f, Of(T, b)) \in Int
    OBVIOUS
  <2>1. Of(T, b) \in SUBSET S /\ \A x \in Of(T, b) : f[x] \in Int
    OBVIOUS
  <2> HIDE DEF Of
  <2> QED BY <2>1, FS_Subset, SumType
<1>1. {} \in Q
  <2>1. \A b \in B : Of({}, b) = {}
    OBVIOUS
  <2>2. \A b \in B : Parts({})[b] = 0
    BY <2>1, SumEmpty
  <2> HIDE DEF Parts
  <2>3. SumOver(Parts({}), B) = 0
    BY <2>2, SumZero
  <2> QED BY <2>3, SumEmpty
<1>2. ASSUME NEW T \in SUBSET S, NEW x \in S, T \in Q, x \notin T PROVE T \cup {x} \in Q
  <2> DEFINE U == T \cup {x}
             c == class[x]
  <2>1. SumOver(f, U) = SumOver(f, T) + f[x] /\ f[x] \in Int /\ SumOver(f, T) \in Int
    <3>1. IsFiniteSet(T) /\ \A y \in T \cup {x} : f[y] \in Int
      BY FS_Subset
    <3>2. x \notin T
      BY <1>2
    <3>3. SumOver(f, T \cup {x}) = SumOver(f, T) + f[x] /\ SumOver(f, T) \in Int
      BY ONLY <3>1, <3>2, SumAdd, SumType
    <3> QED BY <3>3
  <2>2. c \in B /\ \A b \in B : b # c => Of(U, b) = Of(T, b)
    OBVIOUS
  <2>3. Of(U, c) = Of(T, c) \cup {x} /\ x \notin Of(T, c) /\ \A y \in Of(T, c) \cup {x} : f[y] \in Int
    BY <1>2
  <2>4. U \in SUBSET S
    OBVIOUS
  <2> HIDE DEF U, c, Of
  <2>5. SumOver(f, Of(T, c) \cup {x}) = SumOver(f, Of(T, c)) + f[x]
    <3> DEFINE V == Of(T, c)
    <3>1. IsFiniteSet(V) /\ x \notin V /\ \A y \in V \cup {x} : f[y] \in Int
      BY <1>0, <2>2, <2>3
    <3> HIDE DEF V
    <3>2. SumOver(f, V \cup {x}) = SumOver(f, V) + f[x]
      BY ONLY <3>1, SumAdd
    <3> QED BY <3>2 DEF V
  <2>6. /\ Parts(U)[c] = Parts(T)[c] + f[x] /\ Parts(U)[c] \in Int
        /\ \A b \in B : Parts(T)[b] \in Int
        /\ \A b \in B : b # c => Parts(U)[b] = Parts(T)[b]
    BY <1>0, <2>2, <2>3, <2>4, <2>5
  <2> HIDE DEF Parts
  <2>7. SumOver(Parts(U), B) = SumOver(Parts(T), B) + Parts(U)[c] - Parts(T)[c]
    <3> DEFINE F == Parts(T) G == Parts(U)
    <3>1. /\ IsFiniteSet(B) /\ c \in B /\ G[c] \in Int
          /\ \A y \in B : F[y] \in Int
          /\ \A y \in B : y # c => G[y] = F[y]
      BY <2>2, <2>6
    <3> HIDE DEF F, G
    <3>2. SumOver(G, B) = SumOver(F, B) + G[c] - F[c]
      BY ONLY <3>1, SumChange
    <3> QED BY <3>2 DEF F, G
  <2>8. Parts(T)[c] \in Int /\ SumOver(Parts(T), B) = SumOver(f, T)
    BY <1>2, <2>2, <2>6
  <2>9. SumOver(Parts(U), B) = SumOver(f, U)
    BY <2>1, <2>6, <2>7, <2>8
  <2> QED BY <2>4, <2>9 DEF U
<1> HIDE DEF Q
<1>3. S \in Q
  BY <1>1, <1>2, FiniteInduction
<1> QED BY <1>3 DEF Q

\* The total over one element.
LEMMA SumOne ==
  ASSUME NEW f, NEW x, f[x] \in Int
  PROVE  SumOver(f, {x}) = f[x]
<1>1. IsFiniteSet({x}) /\ {x} \ {x} = {} /\ \A y \in {x} : f[y] \in Int
  BY FS_Singleton
<1>2. SumOver(f, {x}) = SumOver(f, {x} \ {x}) + f[x]
  BY <1>1, SumRemove
<1> QED BY <1>1, <1>2, SumEmpty
=============================================================================
