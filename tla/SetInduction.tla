----------------------------- MODULE SetInduction -----------------------------
(***************************************************************************)
(* Induction and recursion over an initial segment of the natural numbers, *)
(* stated about sets and functions: what holds of a number is membership   *)
(* in a set, a step of a recursion is a function.  A lemma of this form    *)
(* can be cited where one about every operator P(_) cannot.  The least     *)
(* element comes from the well-founded order of the finite sets 1..n.      *)
(***************************************************************************)
EXTENDS FiniteSetTheorems, TLAPS

\* A set of natural numbers that is not empty has a least element.
LEMMA LeastElement ==
  ASSUME NEW T \in SUBSET Nat, T # {}
  PROVE  \E n \in T : \A m \in T : n <= m
<1> DEFINE R == StrictSubsetOrdering(Nat)
           F == FiniteSubsetsOf(Nat)
           S == {1..n : n \in T}
<1>1. IsWellFoundedOn(R, F)
  BY FS_StrictSubsetOrderingWellFounded
<1>2. S \subseteq F /\ S # {}
  <2>1. ASSUME NEW n \in T
        PROVE  1..n \in F
    <3>1. IsFiniteSet(1..n)
      BY FS_Interval
    <3>2. 1..n \in SUBSET Nat
      OBVIOUS
    <3> QED BY <3>1, <3>2 DEF FiniteSubsetsOf
  <2> QED BY <2>1
<1>3. PICK s \in S : \A t \in S : <<t, s>> \notin R
  <2> HIDE DEF R, S, F
  <2> QED BY <1>1, <1>2, WFMin
<1>4. PICK n \in T : s = 1..n
  OBVIOUS
<1>5. ASSUME NEW m \in T, m < n
      PROVE  FALSE
  <2>1. 1..m \subseteq 1..n /\ n \in 1..n /\ n \notin 1..m
    BY <1>5
  <2>2. <<1..m, s>> \in R
    BY <2>1, <1>4 DEF StrictSubsetOrdering
  <2> QED BY <2>2, <1>3
<1> QED BY <1>5

\* Induction: what holds of 0, and of i + 1 when it holds of i, holds up to n.
LEMMA UpTo ==
  ASSUME NEW n \in Nat, NEW T, 0 \in T,
         \A i \in 0..n : i \in T /\ i < n => i + 1 \in T
  PROVE  0..n \subseteq T
<1> SUFFICES ASSUME (0..n) \ T # {}
             PROVE  FALSE
  OBVIOUS
<1>1. PICK m \in (0..n) \ T : \A k \in (0..n) \ T : m <= k
  <2>1. (0..n) \ T \in SUBSET Nat
    OBVIOUS
  <2> DEFINE U == (0..n) \ T
  <2> HIDE DEF U
  <2>2. U \in SUBSET Nat /\ U # {}
    BY <2>1 DEF U
  <2>3. \E i \in U : \A k \in U : i <= k
    BY <2>2, LeastElement
  <2> QED BY <2>3 DEF U
<1>2. m # 0 /\ m - 1 \in 0..n /\ m - 1 < n
  BY <1>1
<1>3. m - 1 \in T
  BY <1>1, <1>2
<1>4. (m - 1) + 1 \in T /\ (m - 1) + 1 = m
  BY <1>2, <1>3
<1> QED BY <1>4


\* f is what a start and a step for each number determine up to n.
Computes(f, n, S, start, step) ==
  /\ f \in [0..n -> S]
  /\ f[0] = start
  /\ \A i \in 1..n : f[i] = step[i][f[i - 1]]

\* Recursion: there is such a function.
LEMMA Recursion ==
  ASSUME NEW n \in Nat, NEW S, NEW start \in S, NEW step \in [1..n -> [S -> S]]
  PROVE  \E f : Computes(f, n, S, start, step)
<1> DEFINE T == {m \in 0..n : \E f : Computes(f, m, S, start, step)}
<1>1. 0 \in T
  <2> DEFINE f == [i \in 0..0 |-> start]
  <2>1. f \in [0..0 -> S] /\ f[0] = start /\ 1..0 = {}
    OBVIOUS
  <2> HIDE DEF f
  <2>2. Computes(f, 0, S, start, step)
    BY <2>1 DEF Computes
  <2> QED BY <2>2
<1>2. ASSUME NEW m \in 0..n, m \in T, m < n
      PROVE  m + 1 \in T
  <2>1. PICK f : Computes(f, m, S, start, step)
    BY <1>2
  <2> DEFINE g == [i \in 0..(m + 1) |-> IF i = m + 1 THEN step[m + 1][f[m]] ELSE f[i]]
  <2>2. f[m] \in S /\ m + 1 \in 1..n
    BY <1>2, <2>1 DEF Computes
  <2>3. g \in [0..(m + 1) -> S]
    BY <2>1, <2>2 DEF Computes
  <2>4. g[0] = start /\ \A i \in 1..(m + 1) : g[i] = step[i][g[i - 1]]
    BY <2>1 DEF Computes
  <2> HIDE DEF g
  <2>5. Computes(g, m + 1, S, start, step)
    BY <2>3, <2>4 DEF Computes
  <2> QED BY <2>2, <2>5
<1>3. 0..n \subseteq T
  <2> HIDE DEF T
  <2> QED BY <1>1, <1>2, UpTo
<1> QED BY <1>3

-----------------------------------------------------------------------------
(* Closures: what successors lead to, in as many rounds as there are elements. *)

\* Each round adds the successors of what has been reached.
Rounds(f, D, start, next) ==
  /\ f[0] = start
  /\ \A i \in 1..Cardinality(D) :
       f[i - 1] \subseteq D => f[i] = f[i - 1] \cup UNION {next[w] : w \in f[i - 1]}

\* C is the least set that holds start and the successors of its elements.
Closure(C, D, start, next) ==
  /\ start \subseteq C /\ C \subseteq D
  /\ \A w \in C : next[w] \subseteq C
  /\ \A X : start \subseteq X /\ (\A w \in X \cap D : next[w] \subseteq X) => C \subseteq X

\* A round that adds nothing is the last one; every round before it adds an element,
\* so there are not more rounds than elements.
LEMMA RoundsClose ==
  ASSUME NEW D, IsFiniteSet(D), NEW start \in SUBSET D,
         NEW next \in [D -> SUBSET D], NEW f, Rounds(f, D, start, next)
  PROVE  Closure(f[Cardinality(D)], D, start, next)
<1> DEFINE n == Cardinality(D)
           Succ(S) == UNION {next[w] : w \in S}
<1>1. n \in Nat
  BY FS_CardinalityType
<1>2. /\ f[0] = start
      /\ \A i \in 1..n : f[i - 1] \subseteq D => f[i] = f[i - 1] \cup Succ(f[i - 1])
  BY DEF Rounds
<1>3. ASSUME NEW i \in 0..n, i < n, f[i] \subseteq D
      PROVE  f[i + 1] = f[i] \cup Succ(f[i])
  <2>1. i + 1 \in 1..n /\ (i + 1) - 1 = i
    BY <1>1, <1>3
  <2> HIDE DEF Succ
  <2> QED BY <2>1, <1>2, <1>3
<1>4. \A S \in SUBSET D : Succ(S) \subseteq D
  OBVIOUS
<1> HIDE DEF n
<1>5. ASSUME NEW i \in 0..n
      PROVE  start \subseteq f[i] /\ f[i] \subseteq D
  <2> DEFINE T == {k \in 0..n : start \subseteq f[k] /\ f[k] \subseteq D}
  <2>1. 0 \in T
    BY <1>1, <1>2
  <2>2. \A k \in 0..n : k \in T /\ k < n => k + 1 \in T
    <3> HIDE DEF Succ
    <3>1. \A k \in 0..n : k < n => k + 1 \in 0..n
      BY <1>1
    <3> QED BY <1>3, <1>4, <3>1
  <2> HIDE DEF T
  <2>3. 0..n \subseteq T
    BY <1>1, <2>1, <2>2, UpTo
  <2> QED BY <2>3 DEF T
<1>6. Succ(f[n]) \subseteq f[n]
  <2> DEFINE T == {k \in 0..n : Succ(f[k]) \subseteq f[k] \/ Cardinality(f[k]) >= k + 1}
  <2>1. \A k \in 0..n : IsFiniteSet(f[k]) /\ Cardinality(f[k]) \in Nat /\ Cardinality(f[k]) <= n
    BY <1>5, FS_Subset, FS_CardinalityType DEF n
  <2>2. 0 \in T
    <3>1. 0 \in 0..n /\ Cardinality(f[0]) \in Nat
      BY <1>1, <2>1
    <3>2. CASE start = {}
      BY <1>2, <3>1, <3>2
    <3>3. CASE start # {}
      <4>1. Cardinality(f[0]) # 0
        BY <1>2, <2>1, <3>1, <3>3, FS_EmptySet
      <4> QED BY <3>1, <4>1
    <3> QED BY <3>2, <3>3
  <2>3. ASSUME NEW k \in 0..n, k \in T, k < n
        PROVE  k + 1 \in T
    <3>1. f[k + 1] = f[k] \cup Succ(f[k]) /\ k + 1 \in 0..n
      BY <1>1, <1>3, <1>5, <2>3
    <3>2. CASE Succ(f[k]) \subseteq f[k]
      <4>1. f[k + 1] = f[k]
        BY <3>1, <3>2
      <4> QED BY <4>1, <3>1, <3>2
    <3>3. CASE ~(Succ(f[k]) \subseteq f[k]) /\ Cardinality(f[k]) >= k + 1
      <4>1. f[k] \in SUBSET f[k + 1] /\ f[k] # f[k + 1]
        BY <3>1, <3>3
      <4>2. Cardinality(f[k]) <= Cardinality(f[k + 1]) /\ Cardinality(f[k]) # Cardinality(f[k + 1])
        BY <2>1, <3>1, <4>1, FS_Subset
      <4>3. Cardinality(f[k + 1]) \in Nat /\ Cardinality(f[k]) \in Nat
        BY <2>1, <3>1
      <4>4. Cardinality(f[k + 1]) >= (k + 1) + 1
        BY <3>3, <4>2, <4>3
      <4> QED BY <3>1, <4>4
    <3> QED BY <2>3, <3>2, <3>3
  <2>4. n \in 0..n
    BY <1>1
  <2>5. n \in T
    <3> HIDE DEF T
    <3>1. 0..n \subseteq T
      BY <1>1, <2>2, <2>3, UpTo
    <3> QED BY <2>4, <3>1
  <2>6. ~(Cardinality(f[n]) >= n + 1)
    BY <1>1, <2>1, <2>4
  <2> QED BY <2>5, <2>6
<1>7. ASSUME NEW X, start \subseteq X, \A w \in X \cap D : next[w] \subseteq X
      PROVE  f[n] \subseteq X
  <2> DEFINE T == {k \in 0..n : f[k] \subseteq X}
  <2>1. 0 \in T
    BY <1>1, <1>2, <1>7
  <2>2. ASSUME NEW k \in 0..n, k \in T, k < n
        PROVE  k + 1 \in T
    <3>1. f[k + 1] = f[k] \cup Succ(f[k]) /\ k + 1 \in 0..n
      BY <1>1, <1>3, <1>5, <2>2
    <3>2. f[k] \subseteq X \cap D
      BY <1>5, <2>2
    <3>3. Succ(f[k]) \subseteq X
      BY <1>7, <3>2
    <3> QED BY <3>1, <3>2, <3>3
  <2>3. n \in 0..n
    BY <1>1
  <2> HIDE DEF T
  <2>4. 0..n \subseteq T
    BY <1>1, <2>1, <2>2, UpTo
  <2> QED BY <2>3, <2>4 DEF T
<1>8. start \subseteq f[n] /\ f[n] \subseteq D
  BY <1>1, <1>5
<1>9. \A w \in f[n] : next[w] \subseteq f[n]
  BY <1>6
<1> QED
  <2> HIDE DEF Succ
  <2> QED BY <1>7, <1>8, <1>9 DEF Closure, n

=============================================================================
