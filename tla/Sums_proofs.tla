----------------------------- MODULE Sums_proofs -----------------------------
(***************************************************************************)
(* What SumTo computes, and what SumFunction of the community modules      *)
(* does.  A recursive function has to be shown to exist; the inductions    *)
(* are done on sets of naturals and on sets of subsets, from the least-    *)
(* element property of well-founded relations.                             *)
(***************************************************************************)
EXTENDS Sums, Integers, Functions, FiniteSetTheorems, WellFoundedInduction, TLAPS

\* Dividing a natural number by a positive one gives a natural number.
LEMMA DivNat == ASSUME NEW v \in Nat, NEW d \in Nat \ {0} PROVE v \div d \in Nat
OBVIOUS

\* Induction over Nat for a set: a set that holds 0 and is closed under
\* successor holds every natural number.
LEMMA SetInduction ==
  ASSUME NEW S, 0 \in S, \A n \in Nat : n \in S => n + 1 \in S
  PROVE  \A n \in Nat : n \in S
<1> DEFINE T == {n \in Nat : n \notin S}
<1> SUFFICES ASSUME T # {} PROVE FALSE
  OBVIOUS
<1>1. \E m \in T : \A k \in T : ~(<<k, m>> \in OpToRel(<, Nat))
  <2>1. T \subseteq Nat
    OBVIOUS
  <2> HIDE DEF T
  <2> QED  BY <2>1, NatLessThanWellFounded, WFMin
<1>2. PICK m \in T : \A k \in T : ~(k < m)
  BY <1>1 DEF OpToRel
<1>3. m # 0 /\ m - 1 \in Nat /\ m - 1 < m
  OBVIOUS
<1>4. m - 1 \in S
  BY <1>2, <1>3
<1>5. (m - 1) + 1 \in S
  BY <1>3, <1>4
<1> QED  BY <1>5, SMT

\* s is the table of running totals of f, up to n.
Table(f, n, s) == s = [i \in 0..n |-> IF i = 0 THEN 0 ELSE s[i - 1] + f[i]]

\* Two tables agree wherever both are defined.
LEMMA TablesAgree ==
  ASSUME NEW f, NEW m \in Nat, NEW n \in Nat, NEW s, NEW t,
         Table(f, m, s), Table(f, n, t), NEW k \in Nat, k <= m, k <= n
  PROVE  s[k] = t[k]
<1> DEFINE S == {i \in Nat : i <= m /\ i <= n => s[i] = t[i]}
<1>1. \A i \in 0..m : s[i] = IF i = 0 THEN 0 ELSE s[i - 1] + f[i]
  BY DEF Table
<1>2. \A i \in 0..n : t[i] = IF i = 0 THEN 0 ELSE t[i - 1] + f[i]
  BY DEF Table
<1>3. 0 \in S
  <2>1. 0 \in 0..m /\ 0 \in 0..n  OBVIOUS
  <2> QED  BY <1>1, <1>2, <2>1
<1>4. ASSUME NEW i \in Nat, i \in S PROVE i + 1 \in S
  <2> SUFFICES ASSUME i + 1 <= m, i + 1 <= n PROVE s[i + 1] = t[i + 1]
    OBVIOUS
  <2>1. s[i] = t[i]
    BY <1>4
  <2>2. i + 1 \in 0..m /\ i + 1 \in 0..n /\ i + 1 # 0 /\ (i + 1) - 1 = i
    OBVIOUS
  <2>3. s[i + 1] = s[i] + f[i + 1]
    BY <1>1, <2>2
  <2>4. t[i + 1] = t[i] + f[i + 1]
    BY <1>2, <2>2
  <2> QED  BY <2>1, <2>3, <2>4
<1> HIDE DEF S
<1>5. \A i \in Nat : i \in S
  BY <1>3, <1>4, SetInduction
<1> QED  BY <1>5 DEF S

\* There is a table of every length.
LEMMA TableExists ==
  ASSUME NEW f, NEW n \in Nat
  PROVE  \E s : Table(f, n, s)
<1> DEFINE S == {i \in Nat : \E s : Table(f, i, s)}
<1>1. 0 \in S
  <2>1. Table(f, 0, [i \in 0..0 |-> 0])
    BY DEF Table
  <2> QED  BY <2>1
<1>2. ASSUME NEW i \in Nat, i \in S PROVE i + 1 \in S
  <2>1. PICK s : Table(f, i, s)
    BY <1>2
  <2> DEFINE t == [j \in 0..(i + 1) |-> IF j = i + 1 THEN s[i] + f[i + 1] ELSE s[j]]
             u == [j \in 0..(i + 1) |-> IF j = 0 THEN 0 ELSE t[j - 1] + f[j]]
  <2>2. \A j \in 0..(i + 1) : t[j] = u[j]
    <3> SUFFICES ASSUME NEW j \in 0..(i + 1) PROVE t[j] = u[j]
      OBVIOUS
    <3>1. \A x \in 0..i : s[x] = IF x = 0 THEN 0 ELSE s[x - 1] + f[x]
      BY <2>1 DEF Table
    <3>2. CASE j = i + 1
      <4>1. t[j] = s[i] + f[i + 1]
        BY <3>2
      <4>2. j # 0 /\ j - 1 = i /\ i \in 0..(i + 1) /\ i # i + 1
        BY <3>2
      <4>3. t[i] = s[i]
        BY <4>2
      <4>4. u[j] = t[i] + f[i + 1]
        BY <4>2, <3>2
      <4> QED  BY <4>1, <4>3, <4>4
    <3>3. CASE j # i + 1
      <4>1. j \in 0..i
        BY <3>3
      <4>2. t[j] = s[j]
        BY <3>3
      <4>3. CASE j = 0
        <5>1. s[j] = 0
          BY <3>1, <4>1, <4>3
        <5> QED  BY <5>1, <4>2, <4>3
      <4>4. CASE j # 0
        <5>1. j - 1 \in 0..(i + 1) /\ j - 1 # i + 1
          BY <4>1, <4>4
        <5>2. t[j - 1] = s[j - 1]
          BY <5>1
        <5>3. s[j] = s[j - 1] + f[j]
          BY <3>1, <4>1, <4>4
        <5> QED  BY <5>2, <5>3, <4>2, <4>4
      <4> QED  BY <4>3, <4>4
    <3> QED  BY <3>2, <3>3
  <2>3. t = u
    <3> QED BY <2>2
  <2>4. Table(f, i + 1, t)
    BY <2>3 DEF Table
  <2> QED  BY <2>4
<1> HIDE DEF S
<1>3. \A i \in Nat : i \in S
  BY <1>1, <1>2, SetInduction
<1> QED  BY <1>3 DEF S

\* The running totals satisfy their recursive equation.
LEMMA RunningUnfold ==
  ASSUME NEW f
  PROVE  Running(f) = [n \in Nat |-> IF n = 0 THEN 0 ELSE Running(f)[n - 1] + f[n]]
<1> DEFINE tab(n) == CHOOSE s : Table(f, n, s)
           g == [n \in Nat |-> tab(n)[n]]
           h == [n \in Nat |-> IF n = 0 THEN 0 ELSE g[n - 1] + f[n]]
<1>1. \A n \in Nat : Table(f, n, tab(n))
  BY TableExists
<1> HIDE DEF tab
<1>2. ASSUME NEW n \in Nat PROVE g[n] = h[n]
  <2>1. n \in 0..n
    OBVIOUS
  <2>2. tab(n)[n] = IF n = 0 THEN 0 ELSE tab(n)[n - 1] + f[n]
    BY <1>1, <2>1 DEF Table
  <2>3. CASE n = 0
    BY <2>2, <2>3
  <2>4. CASE n # 0
    <3>1. n - 1 \in Nat /\ n - 1 <= n
      BY <2>4
    <3>2. tab(n)[n - 1] = tab(n - 1)[n - 1]
      <4>1. Table(f, n, tab(n)) /\ Table(f, n - 1, tab(n - 1))
        BY <1>1, <3>1
      <4>2. n - 1 <= n - 1
        BY <3>1
      <4> QED  BY <4>1, <4>2, <3>1, TablesAgree
    <3> QED  BY <2>2, <2>4, <3>1, <3>2
  <2> QED  BY <2>3, <2>4
<1>3. g = h
  BY <1>2
<1>4. \E total : total = [n \in Nat |-> IF n = 0 THEN 0 ELSE total[n - 1] + f[n]]
  <2> HIDE DEF g
  <2> QED BY <1>3
<1> QED  BY <1>4 DEF Running

\* The empty sum is 0 and a longer sum adds one term.
LEMMA SumUnfold ==
  ASSUME NEW f
  PROVE  /\ SumTo(f, 0) = 0
         /\ \A n \in Nat : SumTo(f, n + 1) = SumTo(f, n) + f[n + 1]
<1> DEFINE R == Running(f)
<1>1. R = [n \in Nat |-> IF n = 0 THEN 0 ELSE R[n - 1] + f[n]]
  BY RunningUnfold
<1> HIDE DEF R
<1>2. R[0] = 0
  BY <1>1
<1>3. ASSUME NEW n \in Nat PROVE R[n + 1] = R[n] + f[n + 1]
  <2>1. n + 1 \in Nat /\ n + 1 # 0 /\ (n + 1) - 1 = n
    OBVIOUS
  <2> QED  BY <1>1, <2>1
<1> QED  BY <1>2, <1>3 DEF R, SumTo

\* A sum of integers is an integer.
LEMMA SumInt ==
  ASSUME NEW N \in Nat, NEW f \in [1..N -> Int], NEW n \in 0..N
  PROVE  SumTo(f, n) \in Int
<1> DEFINE S == {i \in Nat : i <= N => SumTo(f, i) \in Int}
<1>1. 0 \in S
  BY SumUnfold
<1>2. ASSUME NEW i \in Nat, i \in S PROVE i + 1 \in S
  <2> SUFFICES ASSUME i + 1 <= N PROVE SumTo(f, i + 1) \in Int
    OBVIOUS
  <2>1. SumTo(f, i) \in Int
    BY <1>2
  <2>2. f[i + 1] \in Int
    <3>1. i + 1 \in 1..N  OBVIOUS
    <3> QED  BY <3>1
  <2>3. SumTo(f, i + 1) = SumTo(f, i) + f[i + 1]
    BY SumUnfold
  <2> QED  BY <2>1, <2>2, <2>3
<1> HIDE DEF S
<1>3. \A i \in Nat : i \in S
  BY <1>1, <1>2, SetInduction
<1> QED  BY <1>3 DEF S

\* A sum of naturals is a natural.
LEMMA SumNat ==
  ASSUME NEW N \in Nat, NEW f \in [1..N -> Nat], NEW n \in 0..N
  PROVE  SumTo(f, n) \in Nat
<1> DEFINE S == {i \in Nat : i <= N => SumTo(f, i) \in Nat}
<1>1. 0 \in S
  BY SumUnfold
<1>2. ASSUME NEW i \in Nat, i \in S PROVE i + 1 \in S
  <2> SUFFICES ASSUME i + 1 <= N PROVE SumTo(f, i + 1) \in Nat
    OBVIOUS
  <2>1. SumTo(f, i) \in Nat
    BY <1>2
  <2>2. f[i + 1] \in Nat
    <3>1. i + 1 \in 1..N  OBVIOUS
    <3> QED  BY <3>1
  <2>3. SumTo(f, i + 1) = SumTo(f, i) + f[i + 1]
    BY SumUnfold
  <2> QED  BY <2>1, <2>2, <2>3
<1> HIDE DEF S
<1>3. \A i \in Nat : i \in S
  BY <1>1, <1>2, SetInduction
<1> QED  BY <1>3 DEF S

\* Sums of families that agree are equal.
LEMMA SumEqual ==
  ASSUME NEW n \in Nat, NEW f, NEW g, \A i \in 1..n : f[i] = g[i]
  PROVE  SumTo(f, n) = SumTo(g, n)
<1> DEFINE S == {i \in Nat : i <= n => SumTo(f, i) = SumTo(g, i)}
<1>1. 0 \in S
  BY SumUnfold
<1>2. ASSUME NEW i \in Nat, i \in S PROVE i + 1 \in S
  <2> SUFFICES ASSUME i + 1 <= n PROVE SumTo(f, i + 1) = SumTo(g, i + 1)
    OBVIOUS
  <2>1. SumTo(f, i) = SumTo(g, i)
    BY <1>2
  <2>2. f[i + 1] = g[i + 1]
    <3>1. i + 1 \in 1..n  OBVIOUS
    <3> QED  BY <3>1
  <2> QED  BY <2>1, <2>2, SumUnfold
<1> HIDE DEF S
<1>3. \A i \in Nat : i \in S
  BY <1>1, <1>2, SetInduction
<1> QED  BY <1>3 DEF S

\* A sum of zeroes is 0.
LEMMA SumZero ==
  ASSUME NEW n \in Nat, NEW f, \A i \in 1..n : f[i] = 0
  PROVE  SumTo(f, n) = 0
<1> DEFINE S == {i \in Nat : i <= n => SumTo(f, i) = 0}
<1>1. 0 \in S
  BY SumUnfold
<1>2. ASSUME NEW i \in Nat, i \in S PROVE i + 1 \in S
  <2> SUFFICES ASSUME i + 1 <= n PROVE SumTo(f, i + 1) = 0
    OBVIOUS
  <2>1. SumTo(f, i) = 0
    BY <1>2
  <2>2. f[i + 1] = 0
    <3>1. i + 1 \in 1..n  OBVIOUS
    <3> QED  BY <3>1
  <2> QED  BY <2>1, <2>2, SumUnfold
<1> HIDE DEF S
<1>3. \A i \in Nat : i \in S
  BY <1>1, <1>2, SetInduction
<1> QED  BY <1>3 DEF S

\* Changing one term of a sum changes the sum by as much.
LEMMA SumChange ==
  ASSUME NEW N \in Nat, NEW f \in [1..N -> Int], NEW g \in [1..N -> Int],
         NEW k \in 1..N, \A i \in 1..N : i # k => g[i] = f[i]
  PROVE  SumTo(g, N) = SumTo(f, N) + (g[k] - f[k])
<1> DEFINE S == {i \in Nat : k <= i /\ i <= N =>
                               SumTo(g, i) = SumTo(f, i) + (g[k] - f[k])}
<1>0. f[k] \in Int /\ g[k] \in Int
  OBVIOUS
<1>1. 0 \in S
  OBVIOUS
<1>2. ASSUME NEW i \in Nat, i \in S PROVE i + 1 \in S
  <2> SUFFICES ASSUME k <= i + 1, i + 1 <= N
               PROVE  SumTo(g, i + 1) = SumTo(f, i + 1) + (g[k] - f[k])
    OBVIOUS
  <2>1. /\ SumTo(f, i) \in Int /\ SumTo(g, i) \in Int
        /\ f[i + 1] \in Int /\ g[i + 1] \in Int
    <3>1. i \in 0..N /\ i + 1 \in 1..N  OBVIOUS
    <3> QED  BY <3>1, SumInt
  <2>2. /\ SumTo(f, i + 1) = SumTo(f, i) + f[i + 1]
        /\ SumTo(g, i + 1) = SumTo(g, i) + g[i + 1]
    BY SumUnfold
  <2>3. CASE k = i + 1
    <3>1. \A j \in 1..i : f[j] = g[j]
      BY <2>3
    <3>2. SumTo(f, i) = SumTo(g, i)
      BY <3>1, SumEqual
    <3> QED  BY <2>1, <2>2, <2>3, <3>2
  <2>4. CASE k # i + 1
    <3>1. SumTo(g, i) = SumTo(f, i) + (g[k] - f[k])
      BY <1>2, <2>4
    <3>2. g[i + 1] = f[i + 1]
      BY <2>4
    <3> QED  BY <1>0, <2>1, <2>2, <3>1, <3>2
  <2> QED  BY <2>3, <2>4
<1> HIDE DEF S
<1>3. \A i \in Nat : i \in S
  BY <1>1, <1>2, SetInduction
<1> QED  BY <1>3 DEF S

\* Adding two families term by term adds their sums.
LEMMA SumAdd ==
  ASSUME NEW N \in Nat, NEW f \in [1..N -> Int], NEW g \in [1..N -> Int],
         NEW h \in [1..N -> Int], \A i \in 1..N : h[i] = f[i] + g[i]
  PROVE  SumTo(h, N) = SumTo(f, N) + SumTo(g, N)
<1> DEFINE S == {i \in Nat : i <= N => SumTo(h, i) = SumTo(f, i) + SumTo(g, i)}
<1>1. 0 \in S
  BY SumUnfold
<1>2. ASSUME NEW i \in Nat, i \in S PROVE i + 1 \in S
  <2> SUFFICES ASSUME i + 1 <= N
               PROVE  SumTo(h, i + 1) = SumTo(f, i + 1) + SumTo(g, i + 1)
    OBVIOUS
  <2>1. i \in 0..N /\ i + 1 \in 1..N
    OBVIOUS
  <2>2. /\ SumTo(f, i) \in Int /\ SumTo(g, i) \in Int
        /\ f[i + 1] \in Int /\ g[i + 1] \in Int
    BY <2>1, SumInt
  <2>3. /\ SumTo(f, i + 1) = SumTo(f, i) + f[i + 1]
        /\ SumTo(g, i + 1) = SumTo(g, i) + g[i + 1]
        /\ SumTo(h, i + 1) = SumTo(h, i) + h[i + 1]
    BY SumUnfold
  <2>4. SumTo(h, i) = SumTo(f, i) + SumTo(g, i) /\ h[i + 1] = f[i + 1] + g[i + 1]
    BY <1>2, <2>1
  <2> QED  BY <2>2, <2>3, <2>4
<1> HIDE DEF S
<1>3. \A i \in Nat : i \in S
  BY <1>1, <1>2, SetInduction
<1> QED  BY <1>3 DEF S

-----------------------------------------------------------------------------
(* SumFunction of the community modules: the sum over a finite set, which  *)
(* takes its elements in an order that nobody knows.                       *)

\* Some element of a set, the one the definition of the sum takes first.
Picked(s) == CHOOSE x \in s : TRUE

\* g holds the sums of f over the subsets of D, D being closed under removal.
SetTable(f, D, g) ==
    g = [s \in D |-> IF s = {} THEN 0 ELSE f[Picked(s)] + g[s \ {Picked(s)}]]

\* The subsets of S of at most n elements.
UpTo(S, n) == {s \in SUBSET S : Cardinality(s) <= n}

\* What the library defines, spelled out.
LEMMA SetSumTable ==
  ASSUME NEW f, NEW S
  PROVE  SumFunctionOnSet(f, S) = (CHOOSE g : SetTable(f, SUBSET S, g))[S]
BY DEF SumFunctionOnSet, FoldFunctionOnSet, MapThenFoldSet, SetTable, Picked

\* One element less is one less to count.
LEMMA OneLess ==
  ASSUME NEW S, IsFiniteSet(S), NEW s \in SUBSET S, s # {}
  PROVE  /\ Picked(s) \in s
         /\ IsFiniteSet(s) /\ Cardinality(s) \in Nat /\ Cardinality(s) > 0
         /\ \A x \in s : /\ s \ {x} \in SUBSET S /\ IsFiniteSet(s \ {x})
                         /\ Cardinality(s \ {x}) = Cardinality(s) - 1
<1>1. Picked(s) \in s
  BY DEF Picked
<1>2. IsFiniteSet(s)
  BY FS_Subset
<1>3. Cardinality(s) \in Nat /\ Cardinality(s) # 0
  BY <1>2, FS_CardinalityType, FS_EmptySet
<1>4. \A x \in s : IsFiniteSet(s \ {x}) /\ Cardinality(s \ {x}) = Cardinality(s) - 1
  BY <1>2, FS_RemoveElement
<1> QED  BY <1>1, <1>2, <1>3, <1>4

\* Induction over the subsets of a finite set, for a set of them.
LEMMA SubsetInduction ==
  ASSUME NEW S, IsFiniteSet(S), NEW Q,
         \A T \in SUBSET S : (\A x \in T : T \ {x} \in Q) => T \in Q
  PROVE  \A T \in SUBSET S : T \in Q
<1> DEFINE N == {n \in Nat : \A T \in SUBSET S : Cardinality(T) = n => T \in Q}
<1>1. 0 \in N
  <2> SUFFICES ASSUME NEW T \in SUBSET S, Cardinality(T) = 0 PROVE T \in Q
    OBVIOUS
  <2>1. T = {}
    BY FS_Subset, FS_EmptySet
  <2> QED  BY <2>1
<1>2. ASSUME NEW n \in Nat, n \in N PROVE n + 1 \in N
  <2> SUFFICES ASSUME NEW T \in SUBSET S, Cardinality(T) = n + 1 PROVE T \in Q
    OBVIOUS
  <2>1. \A x \in T : T \ {x} \in SUBSET S /\ Cardinality(T \ {x}) = n
    BY OneLess
  <2> QED  BY <1>2, <2>1
<1> HIDE DEF N
<1>3. \A n \in Nat : n \in N
  BY <1>1, <1>2, SetInduction
<1>4. \A T \in SUBSET S : Cardinality(T) \in Nat
  BY FS_Subset, FS_CardinalityType
<1> QED  BY <1>3, <1>4 DEF N

\* There is a table of the subsets of any size, so of all of them.
LEMMA SetTableExists ==
  ASSUME NEW f, NEW S, IsFiniteSet(S)
  PROVE  \E g : SetTable(f, SUBSET S, g)
<1> DEFINE N == {n \in Nat : \E g : SetTable(f, UpTo(S, n), g)}
<1>1. 0 \in N
  <2> DEFINE g == [s \in UpTo(S, 0) |-> 0]
  <2>1. \A s \in UpTo(S, 0) : s = {}
    BY FS_Subset, FS_EmptySet, FS_CardinalityType DEF UpTo
  <2>2. g = [s \in UpTo(S, 0) |-> IF s = {} THEN 0 ELSE f[Picked(s)] + g[s \ {Picked(s)}]]
    BY <2>1
  <2> QED  BY <2>2 DEF SetTable
<1>2. ASSUME NEW n \in Nat, n \in N PROVE n + 1 \in N
  <2>1. PICK g : SetTable(f, UpTo(S, n), g)
    BY <1>2
  <2> DEFINE D == UpTo(S, n + 1)
             h == [s \in D |-> IF s = {} THEN 0 ELSE f[Picked(s)] + g[s \ {Picked(s)}]]
  <2>2. \A s \in UpTo(S, n) : s \in D /\ g[s] = h[s]
    <3>1. UpTo(S, n) \subseteq D
      <4>1. \A s \in SUBSET S : Cardinality(s) \in Nat
        BY FS_Subset, FS_CardinalityType
      <4> QED  BY <4>1 DEF UpTo
    <3>2. \A s \in UpTo(S, n) : g[s] = IF s = {} THEN 0 ELSE f[Picked(s)] + g[s \ {Picked(s)}]
      BY <2>1 DEF SetTable
    <3> QED  BY <3>1, <3>2
  <2>3. \A s \in D : s # {} => s \ {Picked(s)} \in UpTo(S, n)
    BY OneLess DEF UpTo
  <2>4. h = [s \in D |-> IF s = {} THEN 0 ELSE f[Picked(s)] + h[s \ {Picked(s)}]]
    BY <2>2, <2>3
  <2>5. SetTable(f, D, h)
    BY <2>4 DEF SetTable
  <2> QED  BY <2>5
<1> HIDE DEF N
<1>3. \A n \in Nat : n \in N
  BY <1>1, <1>2, SetInduction
<1>4. Cardinality(S) \in Nat /\ UpTo(S, Cardinality(S)) = SUBSET S
  BY FS_CardinalityType, FS_Subset DEF UpTo
<1> QED  BY <1>3, <1>4 DEF N

\* Two tables agree on what both hold.
LEMMA SetTablesAgree ==
  ASSUME NEW f, NEW S, IsFiniteSet(S), NEW T \in SUBSET S, NEW g, NEW h,
         SetTable(f, SUBSET S, g), SetTable(f, SUBSET T, h)
  PROVE  \A s \in SUBSET T : g[s] = h[s]
<1> DEFINE Q == {s \in SUBSET T : g[s] = h[s]}
<1>1. IsFiniteSet(T)
  BY FS_Subset
<1>2. ASSUME NEW s \in SUBSET T, \A x \in s : s \ {x} \in Q PROVE s \in Q
  <2>1. g[s] = IF s = {} THEN 0 ELSE f[Picked(s)] + g[s \ {Picked(s)}]
    BY DEF SetTable
  <2>2. h[s] = IF s = {} THEN 0 ELSE f[Picked(s)] + h[s \ {Picked(s)}]
    BY DEF SetTable
  <2>3. s # {} => Picked(s) \in s
    BY DEF Picked
  <2> QED  BY <1>2, <2>1, <2>2, <2>3
<1> HIDE DEF Q
<1>3. \A s \in SUBSET T : s \in Q
  BY <1>1, <1>2, SubsetInduction
<1> QED  BY <1>3 DEF Q

\* The sum over a set takes one element after the other.
LEMMA SetSumUnfold ==
  ASSUME NEW f, NEW S, IsFiniteSet(S)
  PROVE  SumFunctionOnSet(f, S) =
           IF S = {} THEN 0 ELSE f[Picked(S)] + SumFunctionOnSet(f, S \ {Picked(S)})
<1> DEFINE tab(T) == CHOOSE g : SetTable(f, SUBSET T, g)
           T == S \ {Picked(S)}
<1>1. IsFiniteSet(T) /\ T \in SUBSET S
  BY FS_RemoveElement
<1> HIDE DEF T
<1>2. SetTable(f, SUBSET S, tab(S)) /\ SetTable(f, SUBSET T, tab(T))
  BY <1>1, SetTableExists
<1>3. SumFunctionOnSet(f, S) = tab(S)[S] /\ SumFunctionOnSet(f, T) = tab(T)[T]
  BY SetSumTable
<1> HIDE DEF tab
<1>4. tab(S)[T] = tab(T)[T]
  <2>1. \A g, h : SetTable(f, SUBSET S, g) /\ SetTable(f, SUBSET T, h) => \A s \in SUBSET T : g[s] = h[s]
    BY <1>1, SetTablesAgree
  <2>2. T \in SUBSET T
    OBVIOUS
  <2> QED  BY <1>2, <2>1, <2>2
<1>5. tab(S)[S] = IF S = {} THEN 0 ELSE f[Picked(S)] + tab(S)[T]
  BY <1>2 DEF SetTable, T
<1> QED  BY <1>3, <1>4, <1>5 DEF T

\* A sum of integers is an integer, a sum of naturals a natural.
LEMMA SetSumType ==
  ASSUME NEW f, NEW S, IsFiniteSet(S), \A x \in S : f[x] \in Int
  PROVE  /\ SumFunctionOnSet(f, S) \in Int
         /\ (\A x \in S : f[x] >= 0) => SumFunctionOnSet(f, S) >= 0
<1> DEFINE Q == {T \in SUBSET S : /\ SumFunctionOnSet(f, T) \in Int
                                  /\ (\A x \in S : f[x] >= 0) => SumFunctionOnSet(f, T) >= 0}
<1>1. ASSUME NEW T \in SUBSET S, \A x \in T : T \ {x} \in Q PROVE T \in Q
  <2>1. IsFiniteSet(T)
    BY FS_Subset
  <2>2. SumFunctionOnSet(f, T) =
           IF T = {} THEN 0 ELSE f[Picked(T)] + SumFunctionOnSet(f, T \ {Picked(T)})
    BY <2>1, SetSumUnfold
  <2>3. CASE T = {}
    BY <2>2, <2>3
  <2>4. CASE T # {}
    <3>1. Picked(T) \in T
      BY <2>4 DEF Picked
    <3>2. f[Picked(T)] \in Int /\ T \ {Picked(T)} \in Q
      BY <1>1, <3>1
    <3> QED  BY <2>2, <2>4, <3>1, <3>2
  <2> QED  BY <2>3, <2>4
<1> HIDE DEF Q
<1>2. \A T \in SUBSET S : T \in Q
  BY <1>1, SubsetInduction
<1>3. S \in Q
  BY <1>2
<1> QED  BY <1>3 DEF Q

\* Families that agree have one sum.
LEMMA SetSumEqual ==
  ASSUME NEW f, NEW g, NEW S, IsFiniteSet(S), \A x \in S : f[x] = g[x]
  PROVE  SumFunctionOnSet(f, S) = SumFunctionOnSet(g, S)
<1> DEFINE Q == {T \in SUBSET S : SumFunctionOnSet(f, T) = SumFunctionOnSet(g, T)}
<1>1. ASSUME NEW T \in SUBSET S, \A x \in T : T \ {x} \in Q PROVE T \in Q
  <2>1. IsFiniteSet(T)
    BY FS_Subset
  <2>2. /\ SumFunctionOnSet(f, T) =
             IF T = {} THEN 0 ELSE f[Picked(T)] + SumFunctionOnSet(f, T \ {Picked(T)})
        /\ SumFunctionOnSet(g, T) =
             IF T = {} THEN 0 ELSE g[Picked(T)] + SumFunctionOnSet(g, T \ {Picked(T)})
    BY <2>1, SetSumUnfold
  <2>3. T # {} => Picked(T) \in T
    BY DEF Picked
  <2> QED  BY <1>1, <2>2, <2>3
<1> HIDE DEF Q
<1>2. \A T \in SUBSET S : T \in Q
  BY <1>1, SubsetInduction
<1>3. S \in Q
  BY <1>2
<1> QED  BY <1>3 DEF Q

\* Whatever is taken first, the sum is the same.
LEMMA SetSumRemove ==
  ASSUME NEW f, NEW S, IsFiniteSet(S), \A x \in S : f[x] \in Int, NEW x \in S
  PROVE  SumFunctionOnSet(f, S) = f[x] + SumFunctionOnSet(f, S \ {x})
<1> DEFINE s(T) == SumFunctionOnSet(f, T)
           Q == {T \in SUBSET S : \A y \in T : s(T) = f[y] + s(T \ {y})}
<1>1. ASSUME NEW T \in SUBSET S, \A y \in T : T \ {y} \in Q PROVE T \in Q
  <2> SUFFICES ASSUME NEW y \in T PROVE s(T) = f[y] + s(T \ {y})
    OBVIOUS
  <2> DEFINE z == Picked(T)
  <2>1. IsFiniteSet(T) /\ IsFiniteSet(T \ {y}) /\ IsFiniteSet(T \ {z}) /\ IsFiniteSet((T \ {y}) \ {z})
    BY FS_Subset, FS_RemoveElement
  <2>2. z \in T /\ s(T) = f[z] + s(T \ {z})
    BY <2>1, SetSumUnfold DEF Picked
  <2> HIDE DEF z
  <2>3. CASE y = z
    BY <2>2, <2>3
  <2>4. CASE y # z
    <3> DEFINE rest == s((T \ {y}) \ {z})
    <3>1. (T \ {y}) \ {z} = (T \ {z}) \ {y}
      OBVIOUS
    <3>2. s(T \ {z}) = f[y] + rest
      BY <1>1, <2>2, <2>4, <3>1
    <3>3. s(T \ {y}) = f[z] + rest
      BY <1>1, <2>2, <2>4
    <3>4. f[y] \in Int /\ f[z] \in Int /\ rest \in Int
      <4>1. \A v \in (T \ {y}) \ {z} : f[v] \in Int
        OBVIOUS
      <4> QED  BY <2>1, <2>2, <4>1, SetSumType
    <3> HIDE DEF s, rest
    <3> QED  BY <2>2, <3>2, <3>3, <3>4
  <2> QED  BY <2>3, <2>4
<1> HIDE DEF Q
<1>2. \A T \in SUBSET S : T \in Q
  BY <1>1, SubsetInduction
<1>3. S \in Q
  BY <1>2
<1> QED  BY <1>3 DEF Q

\* The sum over all of a function's domain.
LEMMA FunctionSum ==
  ASSUME NEW S, NEW f, DOMAIN f = S
  PROVE  SumFunction(f) = SumFunctionOnSet(f, S)
BY DEF SumFunction

\* More naturals, or larger ones, do not make less.
LEMMA SetSumMonotone ==
  ASSUME NEW f, NEW g, NEW S, IsFiniteSet(S), NEW T \in SUBSET S,
         \A x \in S : f[x] \in Int /\ g[x] \in Int /\ g[x] >= 0,
         \A x \in T : f[x] <= g[x]
  PROVE  SumFunctionOnSet(f, T) <= SumFunctionOnSet(g, S)
<1> DEFINE s(U) == SumFunctionOnSet(f, U)
           r(U) == SumFunctionOnSet(g, U)
           Q == {U \in SUBSET S : s(U \cap T) <= r(U)}
<1>1. ASSUME NEW U \in SUBSET S, \A x \in U : U \ {x} \in Q PROVE U \in Q
  <2>1. IsFiniteSet(U) /\ IsFiniteSet(U \cap T)
    BY FS_Subset
  <2>2. CASE U = {}
    <3>1. U \cap T = {} /\ U = {}
      BY <2>2
    <3>2. s({}) = 0 /\ r({}) = 0
      BY FS_EmptySet, SetSumUnfold
    <3> HIDE DEF s, r
    <3>3. s(U \cap T) <= r(U)
      BY <3>1, <3>2
    <3> QED  BY <3>3
  <2>3. CASE U # {}
    <3>1. PICK x \in U : TRUE
      BY <2>3
    <3> DEFINE V == U \ {x}
    <3>2. r(U) = g[x] + r(V)
      BY <2>1, SetSumRemove
    <3>3. s(V \cap T) <= r(V)
      BY <1>1, <3>1
    <3>4. IsFiniteSet(V) /\ IsFiniteSet(V \cap T)
      BY <2>1, FS_Subset
    <3>5. r(V) \in Int /\ s(V \cap T) \in Int /\ g[x] \in Int /\ f[x] \in Int /\ g[x] >= 0
      BY <3>1, <3>4, SetSumType
    <3>6. CASE x \in T
      <4>1. (U \cap T) \ {x} = V \cap T /\ x \in U \cap T
        BY <3>1, <3>6
      <4>2. s(U \cap T) = f[x] + s(V \cap T)
        BY <2>1, <4>1, SetSumRemove
      <4>3. f[x] <= g[x]
        BY <3>6
      <4> HIDE DEF s, r, V
      <4>4. s(U \cap T) <= r(U)
        BY <3>2, <3>3, <3>5, <4>2, <4>3
      <4> QED  BY <4>4
    <3>7. CASE x \notin T
      <4>1. U \cap T = V \cap T
        BY <3>7
      <4> HIDE DEF s, r, V
      <4>2. s(U \cap T) <= r(U)
        BY <3>2, <3>3, <3>5, <4>1
      <4> QED  BY <4>2
    <3> QED  BY <3>6, <3>7
  <2> QED  BY <2>2, <2>3
<1> HIDE DEF Q
<1>2. \A U \in SUBSET S : U \in Q
  BY <1>1, SubsetInduction
<1>3. S \in Q
  BY <1>2
<1>4. S \cap T = T
  OBVIOUS
<1> QED  BY <1>3, <1>4 DEF Q
=============================================================================
